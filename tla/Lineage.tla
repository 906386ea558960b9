------------------------------ MODULE Lineage ------------------------------
(***************************************************************************)
(* verifyRootprint of verification.ts: a Rootprint is a graph of branches   *)
(* that come from any peer, each with parents and the place its writer      *)
(* claims for it.  The claims are compared, and then order one pass that    *)
(* computes canonical places, which the replay fingerprint commits to.      *)
(* Nothing checks that a claim is a number, and no digest covers it: it is  *)
(* any value of JSON, and is compared as JavaScript compares it.            *)
(***************************************************************************)
EXTENDS Integers, FiniteSets, FiniteSetsExt

CONSTANTS
    Branches,       \* the branch identities, numbers to have compareUtf8
    Claims,         \* what a writer may put in branch.sequence
    NaN             \* the value of what is no number for JavaScript

\* A claim is a number, a text, or something else (missing, null, ...).  value
\* is what arithmetic makes of it and rank where a text stands among texts.
\* Only the order of numbers matters, for which integers are enough.
ASSUME LineageAssumption ==
    /\ Branches \subseteq Nat /\ IsFiniteSet(Branches)
    /\ NaN \notin Int
    /\ \A c \in Claims :
         /\ c.type \in {"number", "text", "other"}
         /\ c.value \in Int \/ (c.value = NaN /\ c.type # "number")
         /\ c.rank \in Nat

VARIABLES
    rootBranch,     \* graph.root_branch
    parents,        \* branch.parents, as sets
    claimed,        \* branch.sequence
    replay,          \* "unchecked", "ordering", "replayed" or "refused"
    canonical,      \* canonicalSequences, where it was set
    ordered         \* the branches the pass has done

graphVars == <<rootBranch, parents, claimed>>
lineageVars == <<graphVars, replay, canonical, ordered>>

LineageInit ==
    /\ rootBranch \in Branches
    /\ parents \in [Branches -> {P \in SUBSET Branches : Cardinality(P) <= 3}]
    /\ claimed \in [Branches -> Claims]
    /\ replay = "unchecked"
    /\ canonical = [b \in Branches |-> 0]
    /\ ordered = {}

RootValid ==
    /\ claimed[rootBranch].type = "number" /\ claimed[rootBranch].value = 0
    /\ parents[rootBranch] = {}

\* The operator >=: two texts are compared as texts, everything else as numbers,
\* and nothing is at least, or at most, NaN.
AtLeast(left, right) ==
    \/ left.type = "text" /\ right.type = "text" /\ left.rank >= right.rank
    \/ /\ left.type # "text" \/ right.type # "text"
       /\ NaN \notin {left.value, right.value} /\ left.value >= right.value

ParentsNotAfter(b) ==   \* fault: a parent may stand beside its child
    \A p \in parents[b] :
        claimed[p] = claimed[b] \/ ~AtLeast(claimed[p], claimed[b])
ParentsOrdered(b) ==
    /\ Cardinality(parents[b]) <= 2
    /\ \A p \in parents[b] : ~AtLeast(claimed[p], claimed[b])

\* detectCycles: a set of branches that each have a parent in it.
Cyclic ==
    \E S \in SUBSET Branches : S # {} /\ \A b \in S : parents[b] \cap S # {}

CheckGraph ==
    /\ replay = "unchecked"
    /\ replay' = IF RootValid /\ (\A b \in Branches : ParentsOrdered(b)) /\ ~Cyclic
                THEN "ordering" ELSE "refused"
    /\ UNCHANGED <<graphVars, canonical, ordered>>

\* The order of the pass: by the difference of the claims, which are numbers
\* here even where both are texts, and by identity where it is 0 or NaN.
Differ(a, b) ==
    NaN \notin {claimed[a].value, claimed[b].value} /\ claimed[a].value # claimed[b].value
Precedes(a, b) ==
    \/ Differ(a, b) /\ claimed[a].value < claimed[b].value
    \/ ~Differ(a, b) /\ a < b

\* NaN beside numbers makes a comparison that is no order, with which a sort may
\* return the branches in any.
Consistent ==
    \A a, b, c \in Branches : Precedes(a, b) /\ Precedes(b, c) => Precedes(a, c)

\* A parent that has no place yet counts as one at place 0.
Place(b) ==
    IF parents[b] = {} THEN 0 ELSE 1 + Max({canonical[p] : p \in parents[b]})

OrderBranch(b) ==
    /\ replay = "ordering" /\ b \notin ordered
    /\ Consistent => \A a \in Branches \ ordered : a = b \/ Precedes(b, a)
    /\ canonical' = [canonical EXCEPT ![b] = Place(b)]
    /\ ordered' = ordered \cup {b}
    /\ UNCHANGED <<graphVars, replay>>

Replay ==
    /\ replay = "ordering" /\ ordered = Branches
    /\ replay' = "replayed"
    /\ UNCHANGED <<graphVars, canonical, ordered>>

LineageNext ==
    \/ CheckGraph
    \/ \E b \in Branches : OrderBranch(b)
    \/ Replay

LineageSpec == LineageInit /\ [][LineageNext]_lineageVars

-----------------------------------------------------------------------------
(* Properties.                                                             *)

\* A branch stands after all of its parents, right after one of them, and at 0
\* without any.
StandsAfterParents(places, b) ==
    /\ \A p \in parents[b] : places[p] < places[b]
    /\ places[b] > 0 => \E p \in parents[b] : places[b] = places[p] + 1

\* No claim puts a branch further than right after its last parent, or one with
\* parents among those without.
NoFurther(places, b) ==
    /\ places[b] = 0 <=> parents[b] = {}
    /\ parents[b] # {} => \E p \in parents[b] : places[b] <= places[p] + 1

Numbered == \A b \in Branches : claimed[b].type = "number"

\* Among claims that are numbers, what a replay fingerprint commits to does not
\* depend on them: every branch is right after its parents, and the parents
\* alone determine the places (ReplayIsDetermined of PageProofs).  Other claims
\* can pass the check and still order a child before its parent, which moves it
\* towards the root and never away from it.
ReplayFollowsParents ==
    replay = "replayed" =>
        \A b \in Branches : /\ NoFurther(canonical, b)
                            /\ Numbered => StandsAfterParents(canonical, b)
=============================================================================

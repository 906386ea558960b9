---------------------------- MODULE MCRevocations ----------------------------
(* An instance of Revocations for TLC. *)
EXTENDS Revocations, TLC

CONSTANTS o1, o2, s1, s2, s3, r1, r2

\* Two statements name the first publication and one the second.
MCSubject == s1 :> o1 @@ s2 :> o1 @@ s3 :> o2
Symmetry == Permutations(Requests)
=============================================================================

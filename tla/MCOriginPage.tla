---------------------------- MODULE MCOriginPage ----------------------------
(***************************************************************************)
(* The parts of the Origin page for TLC, one part at a time: they share no  *)
(* variable, so that every behaviour of the page is one of each part, and   *)
(* the states of one need not be multiplied by those of the others.         *)
(***************************************************************************)
EXTENDS Publisher, Viewer, World, Theater, ServiceWorker, Verification, Lineage,
        DeviceFiles, Provenance, TLC

CONSTANTS
    a1, a2,                         \* verified constructions
    p1, p2, t1, t2,                 \* tabs and tasks
    film, capture, locus, mesh, data, text,     \* files
    ca, cb, cc, oa, past, present,  \* nodes and Moments
    m1, m2, long, short             \* tabs and source files of the device

VARIABLE part       \* the part that runs

MCKindOf ==
    film :> "cinematic" @@ capture :> "reconstruction" @@ locus :> "locus"
    @@ mesh :> "geometry" @@ data :> "json" @@ text :> "other"

MCMomentOf ==
    ca :> {past, present} @@ cb :> {present} @@ cc :> {past} @@ oa :> {past}

MCChunkCount == long :> 2 @@ short :> 1

Numeral(n) == [type |-> "number", value |-> n, rank |-> 0]

\* Three numbers, two texts that stand in the other order as numbers, and a
\* branch without a sequence.
MCClaims ==
    {Numeral(n) : n \in 0..2}
    \cup {[type |-> "text", value |-> 9, rank |-> 1],
          [type |-> "text", value |-> 10, rank |-> 0],
          [type |-> "other", value |-> NaN, rank |-> 0]}
Parts == {"publisher", "viewer", "world", "theater", "service worker",
          "verification", "lineage", "files of a tab", "file of two tabs",
          "provenance"}
FileParts == {"files of a tab", "file of two tabs"}

\* A part that does not run stays in one initial state.  One task is in the
\* first tab; with Web Locks the other is in the second.  The device's files
\* come twice: two files in one tab, and one file,
\* ingested by one tab, in two.  A root that claims none of two numbers is
\* refused as one that claims the wrong number is.
MCInit ==
    /\ part \in Parts
    /\ PublisherInit
    /\ tab[t1] = p1 /\ (tab[t2] = p2 \/ ~locks)
    /\ locks \/ part = "publisher"
    /\ ViewerInit
    /\ WorldInit
    /\ chosen = ca \/ part = "world"
    /\ TheaterInit
    /\ SWInit
    /\ VerificationInit
    /\ subject = "world" \/ part = "verification"
    /\ \/ part = "lineage"
       \/ /\ part # "lineage" /\ rootBranch = 1
          /\ parents = [b \in Branches |-> {}]
          /\ claimed = [b \in Branches |-> Numeral(0)]
    /\ LineageInit /\ claimed[rootBranch] \in {Numeral(0), Numeral(1)}
    /\ DeviceFilesInit
    /\ ProvenanceInit

\* BOUND: of the second construction there is one publication at a time, by the
\* second task, whose answers the first may get and which may get the first's;
\* it is not kept, removed or unpublished beside that.
SecondIsPublished ==
    \A t \in Tasks :
        job'[t].artifact = a2 => t = t2 /\ job'[t].kind = "publish"

MCNext ==
    /\ UNCHANGED part
    /\ \/ part = "publisher" /\ PublisherNext /\ SecondIsPublished
       \/ part # "publisher" /\ UNCHANGED publisherVars
    /\ \/ part = "viewer" /\ ViewerNext
       \/ part # "viewer" /\ UNCHANGED viewerVars
    /\ \/ part = "world" /\ WorldNext
       \/ part # "world" /\ UNCHANGED worldVars
    /\ \/ part = "theater" /\ TheaterNext
       \/ part # "theater" /\ UNCHANGED theaterVars
    /\ \/ part = "service worker" /\ SWNext
       \/ part # "service worker" /\ UNCHANGED swVars
    /\ \/ part = "verification" /\ VerificationNext
       \/ part # "verification" /\ UNCHANGED verificationVars
    /\ \/ part = "lineage" /\ LineageNext
       \/ part # "lineage" /\ UNCHANGED lineageVars
    /\ \/ /\ part = "files of a tab" /\ DeviceFilesNext
          /\ UNCHANGED <<ingest[m2], removal[m2]>>
       \/ /\ part = "file of two tabs" /\ DeviceFilesNext
          /\ ingest'[m1].object # short /\ UNCHANGED ingest[m2]
       \/ part \notin FileParts /\ UNCHANGED deviceFilesVars
    /\ \/ part = "provenance" /\ ProvenanceNext
       \/ part # "provenance" /\ UNCHANGED provenanceVars

MCSpec == MCInit /\ [][MCNext]_<<part, publisherVars, viewerVars, worldVars,
                                  theaterVars, swVars, verificationVars, lineageVars,
                                  deviceFilesVars, provenanceVars>>
=============================================================================

--------------------------- MODULE ServiceWorker ---------------------------
(***************************************************************************)
(* public/sw.js: the offline contract of the site.  Each deployment ships   *)
(* a worker whose cache has a name of its own.  A worker is installed by    *)
(* fetching every CORE path into its cache, takes over at once, and deletes *)
(* the other caches.  Requests are answered by five rules, from the network *)
(* or from any cache; a request of an old worker may still put into its own *)
(* cache, and so create it again, after it was deleted.                     *)
(***************************************************************************)
EXTENDS Naturals, FiniteSets

CONSTANTS Core,         \* paths every install fetches
          Other,        \* paths only visits put into a cache
          Release,      \* bound: deployments 1..Release
          MaxPuts       \* bound: answers on their way into a cache at once

Paths == Core \cup Other
Releases == 1..Release

\* The World Cell page is none of the paths that are ever put into a cache.
ASSUME ServiceWorkerAssumption ==
    Release \in Nat \ {0} /\ "world cell" \notin Paths

VARIABLES
    deployed,       \* the release the server hands out
    online,
    installing,     \* the release being installed, or 0
    fetched,        \* paths the install has put
    active,         \* the release whose worker answers, or 0
    caches,         \* the paths the cache of each release has a copy of
    inFlight,       \* answers on their way into a cache
    served          \* the last answer: whether for a CORE path, and a good one

swVars == <<deployed, online, installing, fetched, active, caches, inFlight, served>>

NoAnswer == [core |-> FALSE, ok |-> FALSE]
Delete(releases) == [r \in Releases |-> IF r \in releases THEN {} ELSE caches[r]]

\* caches.match looks through every cache of the origin.
Match(p) == \E r \in Releases : p \in caches[r]

SWInit ==
    /\ deployed = 1 /\ online = TRUE
    /\ installing = 0 /\ fetched = {} /\ active = 0
    /\ caches = [r \in Releases |-> {}]
    /\ inFlight = {}
    /\ served = NoAnswer

-----------------------------------------------------------------------------
(* The world around the worker.                                            *)

Deploy ==
    /\ deployed < Release
    /\ deployed' = deployed + 1
    /\ UNCHANGED <<online, installing, fetched, active, caches, inFlight, served>>

Connectivity ==
    /\ online' = ~online
    /\ UNCHANGED <<deployed, installing, fetched, active, caches, inFlight, served>>

-----------------------------------------------------------------------------
(* Installation.                                                           *)

\* The browser finds a worker that differs from the active one.  Its cache
\* is deleted first.
StartInstall ==
    /\ online /\ installing = 0 /\ active < deployed
    /\ installing' = deployed /\ fetched' = {}
    /\ caches' = Delete({deployed})
    /\ UNCHANGED <<deployed, online, active, inFlight, served>>

\* Each asset is fetched past the HTTP cache; it comes from whatever release
\* is deployed at that moment.
PopulateReleaseCache(p) ==
    /\ installing # 0 /\ online /\ p \in Core \ fetched
    /\ caches' = [caches EXCEPT ![installing] = @ \cup {p}]
    /\ fetched' = fetched \cup {p}
    /\ UNCHANGED <<deployed, online, installing, active, inFlight, served>>

InstallSettles ==   \* fault: Promise.allSettled, what is missing is missing
    /\ installing # 0 /\ fetched # Core
    /\ fetched' = Core
    /\ UNCHANGED <<deployed, online, installing, active, caches, inFlight, served>>

\* One asset that cannot be fetched fails the whole install.
InstallFails ==
    /\ installing # 0 /\ fetched # Core
    /\ caches' = Delete({installing})
    /\ installing' = 0 /\ fetched' = {}
    /\ UNCHANGED <<deployed, online, active, inFlight, served>>

\* skipWaiting, then the activate event: every other cache goes, and the
\* open pages are claimed.
Activate ==
    /\ installing # 0 /\ fetched = Core
    /\ active' = installing
    /\ caches' = Delete(Releases \ {installing})
    /\ installing' = 0 /\ fetched' = {}
    /\ UNCHANGED <<deployed, online, inFlight, served>>

-----------------------------------------------------------------------------
(* Requests.  served is what the page gets.                                *)

Answer(p, good) == served' = [core |-> p \in Core, ok |-> good]
FromCaches(p, fallback) == Answer(p, Match(p) \/ Match(fallback))

\* A good answer of the network is put into the cache of the worker that
\* fetched it, by name, which may be gone by then.  The page gets it after
\* that; when it cannot be put, it gets an "error" or what is "cached".  Of a
\* put for the "next time" it learns nothing.
Put(p, fallback, otherwise) ==
    LET put == [by |-> active, path |-> p, fallback |-> fallback,
                otherwise |-> otherwise] IN
    /\ Cardinality(inFlight \cup {put}) <= MaxPuts
    /\ inFlight' = inFlight \cup {put}

FinishPut(put) ==
    /\ inFlight' = inFlight \ {put}
    /\ caches' = [caches EXCEPT ![put.by] = @ \cup {put.path}]
    /\ IF put.otherwise = "next time" THEN UNCHANGED served ELSE Answer(put.path, TRUE)
    /\ UNCHANGED <<deployed, online, installing, fetched, active>>

PutFails(put) ==
    /\ inFlight' = inFlight \ {put}
    /\ CASE put.otherwise = "cached" -> FromCaches(put.path, put.fallback)
         [] put.otherwise = "error" -> Answer(put.path, FALSE)
         [] put.otherwise = "next time" -> UNCHANGED served
    /\ UNCHANGED <<deployed, online, installing, fetched, active, caches>>

\* The World Cell page only comes from the network; a failure is shown.
FetchWorldCell ==
    /\ active # 0
    /\ Answer("world cell", online)
    /\ UNCHANGED <<deployed, online, installing, fetched, active, caches, inFlight>>

\* Assurance and Keyxym artifacts named by source and digest, which are other
\* requests than those of CORE: any cached copy is as good as another.
ImmutableAuthority(p) ==
    /\ active # 0
    /\ IF ~Match(p) /\ online
       THEN Put(p, p, "error") /\ UNCHANGED served
       ELSE Answer(p, Match(p)) /\ UNCHANGED inFlight
    /\ UNCHANGED <<deployed, online, installing, fetched, active, caches>>

\* Manifests, the release attestation, pages, scripts and styles: the network
\* first, then any cached copy, and for a page the start page.
NetworkFirst(p, fallback) ==
    /\ active # 0
    /\ IF online THEN Put(p, fallback, "cached") /\ UNCHANGED served
                 ELSE FromCaches(p, fallback) /\ UNCHANGED inFlight
    /\ UNCHANGED <<deployed, online, installing, fetched, active, caches>>

\* Everything else: a cached copy now, and a fresh one for the next time.
StaleWhileRevalidate(p) ==
    /\ active # 0
    /\ IF Match(p) \/ ~online THEN Answer(p, Match(p)) ELSE UNCHANGED served
    /\ IF online THEN Put(p, p, IF Match(p) THEN "next time" ELSE "error")
                 ELSE UNCHANGED inFlight
    /\ UNCHANGED <<deployed, online, installing, fetched, active, caches>>

Requests ==
    \/ FetchWorldCell
    \/ \E p \in Other : ImmutableAuthority(p)
    \/ \E p \in Paths :
         \/ \E fallback \in Core \cup {p} : NetworkFirst(p, fallback)
         \/ StaleWhileRevalidate(p)

SWNext ==
    \/ Deploy \/ Connectivity
    \/ StartInstall \/ InstallFails \/ Activate
    \/ \E p \in Core : PopulateReleaseCache(p)
    \/ \E put \in inFlight : FinishPut(put) \/ PutFails(put)
    \/ Requests

SWSpec == SWInit /\ [][SWNext]_swVars

-----------------------------------------------------------------------------
\* The offline contract: while a worker is active a request for a CORE path is
\* answered, online or not, through failed installs, deployments in the middle
\* of an install, and answers that an older worker puts late into caches that
\* were deleted (populateReleaseCache, the activate and fetch handlers).
CoreIsServed == served.core => served.ok
=============================================================================

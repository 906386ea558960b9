----------------------------- MODULE Provenance -----------------------------
(***************************************************************************)
(* How the World Cell page comes to its two WebAssembly runtimes:           *)
(* keyxym-v26-provenance.ts checks the Keyxym files against digests that    *)
(* are written into the page, browser-assurance-runtime.ts does the same    *)
(* for the assurance runtime and compiles the bytes it has checked, and     *)
(* keyxym-v26-worker.ts then loads the Keyxym files once more, by their     *)
(* URLs.  Between the check and the load, and before each load of a reset,  *)
(* the server may exchange files and a service worker may take over.        *)
(***************************************************************************)
EXTENDS Naturals

CONSTANT MaxExchanges   \* bound: files the server exchanges, and late answers

Absent == "absent"
Runtimes == {"keyxym module", "keyxym wasm", "assurance wasm"}
Manifests == {"keyxym manifest", "assurance manifest"}
Artefacts == Manifests \cup Runtimes

VARIABLES
    serves,         \* what the server answers for each file
    exchanges,
    controlled,     \* a service worker answers the page's requests
    copies,         \* its copies of the digest-named URLs
    http,           \* what the HTTP cache has of them
    phase,          \* how far boot, or a reset of the theater, has come
    abandoned,      \* boot has shown the preview, a phase of it still runs
    holding,           \* the bytes the page has fetched
    bridge,         \* the bytes window.tessarynAssurance was compiled from
    running,         \* the bytes the Keyxym worker runs
    steady          \* history: since the visit began one service worker answered,
                    \* and this page only

siteVars == <<serves, exchanges, controlled, copies, http>>
provenanceVars == <<siteVars, phase, abandoned, holding, bridge, running, steady>>

NoBytes == [f \in Artefacts |-> Absent]
NoKernel == [f \in {"keyxym module", "keyxym wasm"} |-> Absent]

\* A visit begins, at first without a service worker.
ProvenanceInit ==
    /\ serves = [f \in Artefacts |-> "approved"] /\ exchanges = 0
    /\ controlled = FALSE /\ copies = NoBytes /\ http = NoBytes
    /\ phase = "manifest" /\ abandoned = FALSE /\ holding = NoBytes
    /\ bridge = Absent /\ running = NoKernel /\ steady = FALSE

-----------------------------------------------------------------------------
(* Around the page.                                                        *)

\* A deployment is not one step: each file changes on its own.
Exchange(f) ==
    /\ exchanges < MaxExchanges
    /\ exchanges' = exchanges + 1
    /\ serves' = [serves EXCEPT ![f] = IF @ = "approved" THEN "other" ELSE "approved"]
    /\ UNCHANGED <<controlled, copies, http, phase, abandoned, holding, bridge, running, steady>>

\* The worker of a release has filled a cache of its own with URLs that name
\* no digest, deletes every other cache and claims the open pages.
TakeOver ==
    /\ controlled' = TRUE /\ copies' = NoBytes
    /\ steady' = FALSE
    /\ UNCHANGED <<serves, exchanges, http, phase, abandoned, holding, bridge, running>>

\* The service worker looks for a copy, asks the network and puts the answer as
\* three steps: a request of another tab, or one that an earlier visit has left
\* behind, may put its answer over the copy that this visit was given.
LateAnswer(f, bytes) ==
    /\ controlled /\ exchanges < MaxExchanges
    /\ exchanges' = exchanges + 1
    /\ copies' = [copies EXCEPT ![f] = bytes]
    /\ steady' = FALSE
    /\ UNCHANGED <<serves, controlled, http, phase, abandoned, holding, bridge,
                   running>>

\* The page is loaded again.
Visit ==
    /\ phase' = "manifest" /\ abandoned' = FALSE /\ holding' = NoBytes
    /\ bridge' = Absent /\ running' = NoKernel
    /\ steady' = controlled
    /\ UNCHANGED siteVars

NetworkAnswer(f) == serves[f]   \* fault: the copy does not come first
\* The URLs carry the commit and the digest, so immutableAuthority answers
\* with the copy it has, and otherwise keeps what the network returns.
AnswerFor(f) == IF controlled /\ copies[f] # Absent THEN copies[f] ELSE serves[f]
Pinned(f) == IF controlled THEN [copies EXCEPT ![f] = AnswerFor(f)] ELSE copies

-----------------------------------------------------------------------------
(* Boot: two bundles are checked, then the theater loads Keyxym.           *)

Awaited(s) ==
    CASE s = "manifest" -> {"keyxym manifest"}
      [] s = "bundle" -> {"keyxym module", "keyxym wasm"}
      [] s = "assurance manifest" -> {"assurance manifest"}
      [] s = "assurance" -> {"assurance wasm"}
      [] OTHER -> {}
ManifestOf(f) == IF f = "assurance wasm" THEN "assurance manifest" ELSE "keyxym manifest"
HeldAll == \A f \in Awaited(phase) : holding[f] # Absent

\* A phase that boot gave up runs to its end, but nothing follows it.
PhaseEnds(next) == phase' = IF abandoned THEN "over" ELSE next

\* fetchBytes, past the HTTP cache.
FetchBytes(f) ==
    /\ f \in Awaited(phase) /\ holding[f] = Absent
    /\ holding' = [holding EXCEPT ![f] = AnswerFor(f)]
    /\ copies' = Pinned(f)
    /\ UNCHANGED <<serves, exchanges, controlled, http, phase, abandoned, bridge, running,
                   steady>>

\* The manifest has the commit, the qualification and the digests that the
\* page was built with.
ManifestApproved(f) == holding[f] = "approved"

RequireManifest(s, next) ==
    /\ phase = s /\ HeldAll
    /\ phase' = IF \A f \in Awaited(s) : ManifestApproved(f) THEN next ELSE "over"
    /\ UNCHANGED <<siteVars, abandoned, holding, bridge, running, steady>>

\* Length and digest of each file are those of the manifest.
Matches(f) == holding[f] = holding[ManifestOf(f)]

VerifyKeyxymV26Bundle ==
    /\ phase = "bundle" /\ HeldAll
    /\ \A f \in Awaited(phase) : Matches(f)
    /\ PhaseEnds("assurance manifest")
    /\ UNCHANGED <<siteVars, abandoned, holding, bridge, running, steady>>

\* The bytes whose digest was compared are compiled, and have the imports and
\* exports that are approved.
InstallBrowserAssuranceBridge ==
    /\ phase = "assurance" /\ HeldAll
    /\ Matches("assurance wasm")
    /\ bridge' = holding["assurance wasm"]
    /\ PhaseEnds("module")
    /\ UNCHANGED <<siteVars, abandoned, holding, running, steady>>

ArtifactMismatch ==
    /\ phase \in {"bundle", "assurance"} /\ HeldAll
    /\ \E f \in Awaited(phase) : ~Matches(f)
    /\ phase' = "over"
    /\ UNCHANGED <<siteVars, abandoned, holding, bridge, running, steady>>

\* The worker imports the module, and the module fetches its WebAssembly; both
\* requests may be answered by the HTTP cache when no service worker is there.
Loadable(f) == {AnswerFor(f)} \cup (IF controlled THEN {} ELSE {http[f]} \ {Absent})

LoadPart(s, f, next) ==
    /\ phase = s
    /\ \E bytes \in Loadable(f) :
           /\ running' = [running EXCEPT ![f] = bytes]
           /\ http' = IF controlled THEN http ELSE [http EXCEPT ![f] = bytes]
    /\ copies' = Pinned(f)
    /\ phase' = next
    /\ UNCHANGED <<serves, exchanges, controlled, abandoned, holding, bridge, steady>>

\* A request fails, or the runtime it brought is refused.
LoadFails ==
    /\ phase \notin {"loaded", "over"}
    /\ phase' = "over"
    /\ UNCHANGED <<siteVars, abandoned, holding, bridge, running, steady>>

\* withTimeout: boot goes on to the preview, the phase goes on as well.  (For
\* the last phase, the installation of the theater, this changes nothing here.)
PhaseTimesOut ==
    /\ Awaited(phase) # {}
    /\ abandoned' = TRUE
    /\ UNCHANGED <<siteVars, phase, holding, bridge, running, steady>>

\* The reset of the theater destroys the worker and loads another one, with
\* the manifest that was checked and without checking the files again.
ResetRuntime ==
    /\ phase = "loaded"
    /\ phase' = "module" /\ running' = NoKernel
    /\ UNCHANGED <<siteVars, abandoned, holding, bridge, steady>>

ProvenanceNext ==
    \/ \E f \in Artefacts : Exchange(f) \/ FetchBytes(f)
    \/ \E f \in Artefacts, bytes \in {"approved", "other"} : LateAnswer(f, bytes)
    \/ TakeOver \/ Visit
    \/ RequireManifest("manifest", "bundle")
    \/ RequireManifest("assurance manifest", "assurance")
    \/ VerifyKeyxymV26Bundle \/ InstallBrowserAssuranceBridge
    \/ ArtifactMismatch
    \/ LoadPart("module", "keyxym module", "wasm")
    \/ LoadPart("wasm", "keyxym wasm", "loaded")
    \/ LoadFails \/ PhaseTimesOut \/ ResetRuntime

ProvenanceSpec == ProvenanceInit /\ [][ProvenanceNext]_provenanceVars

-----------------------------------------------------------------------------
\* The bytes behind the assurance bridge are the approved ones whatever the
\* server exchanges, because what was compared is what is compiled.  Keyxym is
\* loaded by a second request: that it is what was checked holds, also after a
\* reset, for a visit that one service worker has answered from its start while
\* no request of another page or visit ended
\* (BrowserAssuranceRuntime.load, verifyKeyxymV26Bundle, immutableAuthority).
OnlyApprovedBytesRun ==
    /\ bridge # Absent => bridge = "approved"
    /\ steady => \A f \in DOMAIN running : running[f] \in {Absent, "approved"}
=============================================================================

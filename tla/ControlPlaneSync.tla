---------------------------- MODULE ControlPlaneSync ---------------------------
(* Synchronising with the control plane (src/src/control-plane-sync.ts):      *)
(* syncControlPlaneState pulls the policy and the revocations at once, and    *)
(* the caller hands the result to the status tracker's recordSync.            *)
(*                                                                            *)
(* The loop that calls them is not in this repository: it may start a sync    *)
(* whenever it likes, before earlier ones have ended if it is overlapping,    *)
(* and records a sync as soon as it succeeds.  The control plane publishes    *)
(* versions 1, 2, ... of each document.                                       *)
(*                                                                            *)
(* The code uses time as Date.now() - lastSyncedAtMs compared with            *)
(* staleAfterMs; age is that difference, counted up to StaleAfter + 1.        *)
(******************************************************************************)
EXTENDS Integers

CONSTANTS Syncs,          \* names of syncs; a name is used again once both its requests are over
          StaleAfter,     \* staleAfterMs
          MaxVersion      \* bound: how many versions of each document are published

ASSUME SyncAssumption == /\ StaleAfter \in Nat
                         /\ MaxVersion \in Nat \ {0}

Docs == {"policy", "revocations"}

\* latest = undefined: no sync recorded, reported as version "unknown" and stale.
Unknown == 0

VARIABLES overlapping, \* caller: a sync may start while another is under way
          published,   \* control plane: the current version of each document
          pull,        \* each sync's two requests: [at, version]
          sync,        \* what has become of each sync's promise
          base,        \* history: what was published when each sync began
          latest,      \* the tracker's latest versions
          age          \* time since lastSyncedAtMs

vars == <<overlapping, published, pull, sync, base, latest, age>>

Versions == Unknown .. MaxVersion

\* sending: under the timeout; reading: the headers are in and the timer is cleared; then done or failed.
PullType == [at : {"none", "sending", "reading", "done", "failed"}, version : Versions]

TypeOK == /\ overlapping \in BOOLEAN
          /\ published \in [Docs -> Versions \ {Unknown}]
          /\ pull \in [Syncs -> [Docs -> PullType]]
          /\ sync \in [Syncs -> {"idle", "pulling", "rejected", "recorded"}]
          /\ base \in [Syncs -> [Docs -> Versions]]
          /\ latest \in [Docs -> Versions]
          /\ age \in 0 .. StaleAfter + 1
          /\ \A s \in Syncs, d \in Docs :
               /\ sync[s] = "pulling" => pull[s][d].at \in {"sending", "reading", "done"}
               /\ sync[s] = "recorded" => pull[s][d].at = "done"

Init == /\ overlapping \in BOOLEAN
        /\ published = [d \in Docs |-> 1]
        /\ pull = [s \in Syncs |-> [d \in Docs |-> [at |-> "none", version |-> Unknown]]]
        /\ sync = [s \in Syncs |-> "idle"]
        /\ base = [s \in Syncs |-> [d \in Docs |-> Unknown]]
        /\ latest = [d \in Docs |-> Unknown]
        /\ age = StaleAfter + 1

Stale == age > StaleAfter

--------------------------------------------------------------------------------
(* The control plane.                                                         *)

Publish == \E d \in Docs : /\ published[d] < MaxVersion
                           /\ published' = [published EXCEPT ![d] = @ + 1]
                           /\ UNCHANGED <<overlapping, pull, sync, base, latest, age>>

\* The control plane answers a request with what it has published: the response is determined here.
Headers(s, d) == /\ pull[s][d].at = "sending"
                 /\ pull' = [pull EXCEPT ![s][d] = [at |-> "reading", version |-> published[d]]]
                 /\ UNCHANGED <<overlapping, published, sync, base, latest, age>>

--------------------------------------------------------------------------------
(* The client.                                                                *)

\* Both requests are sent before either is awaited.
Start(s) == /\ \A d \in Docs : pull[s][d].at \notin {"sending", "reading"}
            /\ overlapping \/ \A r \in Syncs : sync[r] # "pulling"
            /\ sync' = [sync EXCEPT ![s] = "pulling"]
            /\ pull' = [pull EXCEPT ![s] = [d \in Docs |-> [at |-> "sending", version |-> Unknown]]]
            /\ base' = [base EXCEPT ![s] = published]
            /\ UNCHANGED <<overlapping, published, latest, age>>

Failed == [at |-> "failed", version |-> Unknown]

\* Mutant of PullFails: any contact with the control plane counts as a sync.
PullFailsFresh(s, d) ==
  /\ pull[s][d].at \in {"sending", "reading"}
  /\ pull' = [pull EXCEPT ![s][d] = Failed]
  /\ sync' = [sync EXCEPT ![s] = "rejected"]
  /\ age' = 0
  /\ UNCHANGED <<overlapping, published, base, latest>>

\* Mutant of PullFails: a rejected pull leaves the promise of the sync pending.
PullFailsSilently(s, d) ==
  /\ pull[s][d].at \in {"sending", "reading"}
  /\ pull' = [pull EXCEPT ![s][d] = Failed]
  /\ UNCHANGED <<overlapping, published, sync, base, latest, age>>

\* A network error, the timeout, a status other than 2xx, or a body that is not JSON.  Promise.all is rejected by
\* the first failure and does not look at the other pull any more, which goes on.
PullFails(s, d) ==
  /\ pull[s][d].at \in {"sending", "reading"}
  /\ pull' = [pull EXCEPT ![s][d] = Failed]
  /\ sync' = [sync EXCEPT ![s] = "rejected"]
  /\ UNCHANGED <<overlapping, published, base, latest, age>>

\* recordSync: latest is replaced as a whole and its time taken now, before the listener is called.
RecordSync(s, p) ==
  /\ latest' = [d \in Docs |-> p[d].version]
  /\ age' = 0
  /\ sync' = [sync EXCEPT ![s] = "recorded"]
  /\ UNCHANGED base

\* Mutant of BodyArrives: Promise.allSettled, what has been pulled is recorded whether or not all of it came.
BodyArrivesSettled(s, d) ==
  /\ pull[s][d].at = "reading"
  /\ pull' = [pull EXCEPT ![s][d].at = "done"]
  /\ IF \A e \in Docs : pull'[s][e].at \in {"done", "failed"}
     THEN RecordSync(s, pull'[s])
     ELSE UNCHANGED <<sync, base, latest, age>>
  /\ UNCHANGED <<overlapping, published>>

\* A body has been read; the second one fulfils the sync, and the caller records it.
BodyArrives(s, d) ==
  /\ pull[s][d].at = "reading"
  /\ pull' = [pull EXCEPT ![s][d].at = "done"]
  /\ IF sync[s] = "pulling" /\ \A e \in Docs : pull'[s][e].at = "done"
     THEN RecordSync(s, pull'[s])
     ELSE UNCHANGED <<sync, base, latest, age>>
  /\ UNCHANGED <<overlapping, published>>

Tick == /\ age <= StaleAfter
        /\ age' = age + 1
        /\ UNCHANGED <<overlapping, published, pull, sync, base, latest>>

Next == \/ Publish
        \/ \E s \in Syncs : Start(s)
        \/ \E s \in Syncs, d \in Docs : Headers(s, d) \/ PullFails(s, d) \/ BodyArrives(s, d)
        \/ Tick

Spec == Init /\ [][Next]_vars

\* Time passes, a request is answered or times out, and a body that has begun to arrive ends.  The last of these
\* is an assumption about the network: no timer covers the body.
FairSpec == Spec /\ WF_vars(Tick)
                 /\ \A s \in Syncs, d \in Docs : WF_vars(Headers(s, d) \/ PullFails(s, d) \/ BodyArrives(s, d))
--------------------------------------------------------------------------------
Recorded(s) == sync[s] # "recorded" /\ sync'[s] = "recorded"

\* A recorded sync is never older than its own beginning, document by document, whatever order the bodies arrive
\* in and whichever pulls of other syncs fail meanwhile.
NotOlderThanStart == [][\A s \in Syncs : Recorded(s) => \A d \in Docs : latest'[d] >= base[s][d]]_vars

\* When the caller starts a sync only after the last one has ended, the reported versions never go back, although
\* requests of a rejected sync may still be under way.  (Overlapping syncs do take them back.)
NeverGoesBack == [][~overlapping => \A d \in Docs : latest'[d] >= latest[d]]_vars

\* A tracker whose syncs no longer succeed says that it is stale, however often they are tried.
GoesStale == <>[][\A s \in Syncs : ~Recorded(s)]_vars => <>[]Stale

\* Every sync is fulfilled or rejected.
EverySyncSettles == \A s \in Syncs : sync[s] = "pulling" ~> sync[s] # "pulling"
================================================================================

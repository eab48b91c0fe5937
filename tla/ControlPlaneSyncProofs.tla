------------------------ MODULE ControlPlaneSyncProofs -------------------------
(* Proofs about syncing with the control plane, for any number of syncs, any  *)
(* staleAfterMs and any number of published versions.                         *)
(*                                                                            *)
(* What a pull has fetched lies between what was published when its sync      *)
(* began and what is published now; while syncs do not overlap, the tracker   *)
(* is never ahead of the beginning of the one sync that may still succeed.    *)
(******************************************************************************)
EXTENDS ControlPlaneSync, TLAPS

\* What is fetched, or was published at the start, is no newer than what is published, and what is fetched is no
\* older than the start.
PullInv == \A s \in Syncs, d \in Docs :
             /\ base[s][d] <= published[d]
             /\ pull[s][d].version <= published[d]
             /\ pull[s][d].at \in {"reading", "done"} => base[s][d] <= pull[s][d].version

\* Syncs that do not overlap: one at a time, and nothing newer than its start has been recorded.
SequentialInv == ~overlapping => /\ \A r, s \in Syncs : sync[r] = "pulling" /\ sync[s] = "pulling" => r = s
                                 /\ \A s \in Syncs, d \in Docs : sync[s] = "pulling" => latest[d] <= base[s][d]

LatestInv == \A d \in Docs : latest[d] <= published[d]

IInv == TypeOK /\ PullInv /\ SequentialInv /\ LatestInv
--------------------------------------------------------------------------------
\* Init establishes the invariant: nothing is pulled and nothing recorded.
LEMMA InitInductive == Init => IInv
BY SyncAssumption DEF Init, IInv, TypeOK, PullInv, SequentialInv, LatestInv, PullType, Versions, Unknown, Docs

\* The control plane publishes.
LEMMA PublishInductive == IInv /\ Publish => IInv'
BY SyncAssumption DEF Publish, IInv, TypeOK, PullInv, SequentialInv, LatestInv, PullType, Versions, Unknown, Docs

\* A sync starts.
LEMMA StartInductive == ASSUME NEW s \in Syncs, IInv, Start(s) PROVE IInv'
<1> USE SyncAssumption DEF Start, IInv, PullType, Versions, Unknown, Docs
<1>1. TypeOK'
  BY DEF TypeOK
<1>2. PullInv'
  BY DEF TypeOK, PullInv
<1>3. SequentialInv' /\ LatestInv'
  BY DEF TypeOK, SequentialInv, LatestInv
<1> QED
  BY <1>1, <1>2, <1>3

\* The headers of a response arrive.
LEMMA HeadersInductive == ASSUME NEW s \in Syncs, NEW d \in Docs, IInv, Headers(s, d) PROVE IInv'
<1> USE SyncAssumption DEF Headers, IInv, PullType, Versions, Unknown, Docs
<1>1. TypeOK'
  BY DEF TypeOK
<1>2. PullInv'
  BY DEF TypeOK, PullInv
<1>3. SequentialInv' /\ LatestInv'
  BY DEF TypeOK, SequentialInv, LatestInv
<1> QED
  BY <1>1, <1>2, <1>3

\* A pull fails.
LEMMA PullFailsInductive == ASSUME NEW s \in Syncs, NEW d \in Docs, IInv, PullFails(s, d) PROVE IInv'
<1> USE SyncAssumption DEF PullFails, Failed, IInv, PullType, Versions, Unknown, Docs
<1>1. TypeOK'
  BY DEF TypeOK
<1>2. PullInv'
  BY DEF TypeOK, PullInv
<1>3. SequentialInv' /\ LatestInv'
  BY DEF TypeOK, SequentialInv, LatestInv
<1> QED
  BY <1>1, <1>2, <1>3

\* A body has been read: the pull keeps its version, and the sync is recorded if that was the second one.
LEMMA BodyArrivesInductive == ASSUME NEW s \in Syncs, NEW d \in Docs, IInv, BodyArrives(s, d) PROVE IInv'
<1> DEFINE read == [at |-> "done", version |-> pull[s][d].version]
<1> USE SyncAssumption DEF IInv, PullType, Versions, Unknown, Docs
<1>1. /\ pull[s][d].at = "reading"
      /\ pull[s][d] \in PullType
      /\ UNCHANGED <<overlapping, published, base>>
  BY DEF BodyArrives, RecordSync, TypeOK
<1>2. read = [pull[s][d] EXCEPT !.at = "done"] /\ read \in PullType
  BY <1>1
<1>3. /\ pull' = [pull EXCEPT ![s] = [pull[s] EXCEPT ![d] = read]]
      /\ pull' \in [Syncs -> [Docs -> PullType]]
  BY <1>1, <1>2 DEF BodyArrives, TypeOK
<1>4. \A r \in Syncs, e \in Docs : pull'[r][e] = IF r = s /\ e = d THEN read ELSE pull[r][e]
  BY <1>3 DEF TypeOK
<1>5. \/ /\ sync[s] = "pulling"
         /\ \A e \in Docs : pull'[s][e].at = "done"
         /\ latest' = [e \in Docs |-> pull'[s][e].version]
         /\ age' = 0
         /\ sync' = [sync EXCEPT ![s] = "recorded"]
      \/ UNCHANGED <<sync, latest, age>>
  BY DEF BodyArrives, RecordSync
<1> HIDE DEF read
<1>6. PullInv'
  BY <1>1, <1>2, <1>4 DEF PullInv, read
<1>7. TypeOK'
  BY <1>1, <1>2, <1>3, <1>4, <1>5 DEF TypeOK, read
<1>8. LatestInv'
  BY <1>1, <1>3, <1>5, <1>6 DEF PullInv, LatestInv
<1>9. SequentialInv'
  BY <1>1, <1>5 DEF TypeOK, SequentialInv
<1> QED
  BY <1>6, <1>7, <1>8, <1>9

\* Time passes.
LEMMA TickInductive == IInv /\ Tick => IInv'
BY SyncAssumption DEF Tick, IInv, TypeOK, PullInv, SequentialInv, LatestInv, PullType, Versions, Unknown, Docs

\* Every step keeps the invariant.
LEMMA NextInductive == IInv /\ [Next]_vars => IInv'
<1> SUFFICES ASSUME IInv, [Next]_vars PROVE IInv'
  OBVIOUS
<1>1. CASE UNCHANGED vars
  BY <1>1 DEF vars, IInv, TypeOK, PullInv, SequentialInv, LatestInv
<1>2. CASE Next
  BY <1>2, PublishInductive, StartInductive, HeadersInductive, PullFailsInductive, BodyArrivesInductive,
     TickInductive DEF Next
<1> QED
  BY <1>1, <1>2

\* The inductive invariant holds throughout.
THEOREM Inductive == Spec => []IInv
<1> QED
  BY InitInductive, NextInductive, PTL DEF Spec

\* Every variable keeps its type, and a recorded sync has read both its bodies.
THEOREM TypeCorrect == Spec => []TypeOK
<1>1. IInv => TypeOK
  BY DEF IInv
<1> QED
  BY <1>1, Inductive, PTL
--------------------------------------------------------------------------------
\* Only the arrival of a body records a sync, or changes what is recorded.
LEMMA OnlyBodiesRecord ==
  ASSUME IInv, [Next]_vars,
         ~ \E s \in Syncs, d \in Docs : BodyArrives(s, d)
  PROVE  /\ latest' = latest
         /\ \A s \in Syncs : ~Recorded(s)
BY DEF Next, vars, IInv, TypeOK, Publish, Start, Headers, PullFails, Tick, Recorded

\* A recorded sync is no older than its beginning, document by document, whatever the order of the bodies and
\* whichever pulls of other syncs fail.
THEOREM RecordsAreFresh == Spec => NotOlderThanStart
<1>1. ASSUME IInv, [Next]_vars, NEW s \in Syncs, Recorded(s), NEW d \in Docs
      PROVE  latest'[d] >= base[s][d]
  <2>1. PICK r \in Syncs, e \in Docs : BodyArrives(r, e)
    BY <1>1, OnlyBodiesRecord
  <2>2. r = s /\ latest'[d] = pull[s][d].version /\ pull[s][d].at \in {"reading", "done"}
    BY <1>1, <2>1 DEF IInv, TypeOK, PullType, BodyArrives, RecordSync, Recorded
  <2> QED
    BY <1>1, <2>2 DEF IInv, TypeOK, PullInv, PullType, Versions, Unknown
<1>2. IInv /\ [Next]_vars => [\A s \in Syncs : Recorded(s) => \A d \in Docs : latest'[d] >= base[s][d]]_vars
  BY <1>1
<1> QED
  BY <1>2, Inductive, PTL DEF Spec, NotOlderThanStart

\* Syncs started one after the other never take the reported versions back, although requests of a rejected sync
\* may still be answered.
THEOREM VersionsNeverGoBack == Spec => NeverGoesBack
<1>1. ASSUME IInv, [Next]_vars, ~overlapping, NEW d \in Docs
      PROVE  latest'[d] >= latest[d]
  <2>1. CASE \E s \in Syncs, e \in Docs : BodyArrives(s, e)
    <3>1. PICK s \in Syncs, e \in Docs : BodyArrives(s, e)
      BY <2>1
    <3>2. CASE latest' = latest
      BY <1>1, <3>2 DEF IInv, TypeOK, Versions, Unknown
    <3>3. CASE latest' # latest
      <4>1. /\ sync[s] = "pulling"
            /\ latest'[d] = pull[s][d].version
            /\ pull[s][d].at \in {"reading", "done"}
        BY <1>1, <3>1, <3>3 DEF IInv, TypeOK, PullType, BodyArrives, RecordSync
      <4> QED
        BY <1>1, <4>1 DEF IInv, TypeOK, PullInv, SequentialInv, PullType, Versions, Unknown
    <3> QED
      BY <3>2, <3>3
  <2>2. CASE ~ \E s \in Syncs, e \in Docs : BodyArrives(s, e)
    BY <1>1, <2>2, OnlyBodiesRecord DEF IInv, TypeOK, Versions, Unknown
  <2> QED
    BY <2>1, <2>2
<1>2. IInv /\ [Next]_vars => [~overlapping => \A d \in Docs : latest'[d] >= latest[d]]_vars
  BY <1>1
<1> QED
  BY <1>2, Inductive, PTL DEF Spec, NeverGoesBack
================================================================================

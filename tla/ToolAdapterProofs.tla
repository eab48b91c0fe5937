--------------------------- MODULE ToolAdapterProofs ---------------------------
(* Proofs about the guarded tool call, for every set of calls and every       *)
(* configuration.  What holds of the guard by itself is ProviderInv; IInv     *)
(* adds that the tool moves only after the guard has settled.                 *)
(******************************************************************************)
EXTENDS ToolAdapter, GuardedProviderProofs

\* The tool moves only after the guard has settled, and the way the guard settled.
ToolInv(c) ==
  /\ tool[c] = "ran" => pc[c] = "granted"
  /\ tool[c] = "refused" => pc[c] = "refused"

IInv == TypeOK /\ ProviderInv /\ \A c \in Calls : ToolInv(c)

LEMMA IInvInit == Init => IInv
BY ProviderStart DEF Init, IInv, TypeOK, ProviderInv, ToolInv

LEMMA IInvStep == IInv /\ [Next]_vars => IInv'
<1> SUFFICES ASSUME IInv, [Next]_vars PROVE IInv'
  OBVIOUS
<1>1. CASE UNCHANGED vars
  <2>1. ProviderInv'
    BY <1>1, ProviderStutters DEF vars, providerVars, IInv
  <2> QED BY <1>1, <2>1 DEF vars, IInv, TypeOK, ProviderInv, ToolInv
<1>2. ASSUME NEW c \in Calls, Execute(c) \/ Throw(c) PROVE IInv'
  <2>1. ProviderInv' /\ UNCHANGED pc
    BY <1>2, ProviderStutters DEF Execute, Throw, providerVars, IInv
  <2> QED BY <1>2, <2>1 DEF Execute, Throw, IInv, TypeOK, ProviderInv, ToolInv
<1>3. ASSUME NEW c \in Calls, Guard(c) PROVE IInv'
  <2>1. ProviderInv'
    BY <1>3, ProviderStep DEF Guard, IInv
  <2>2. ASSUME NEW d \in Calls PROVE ToolInv(d)'
    <3>1. ToolInv(d) /\ tool'[d] = tool[d]
      BY <1>3 DEF Guard, IInv
    <3>2. CASE pc[d] \in {"granted", "refused"}
      BY <1>3, <3>1, <3>2, OthersUnchanged DEF Guard, IInv, ProviderInv, ToolInv
    <3> QED BY <3>1, <3>2 DEF ToolInv
  <2> QED BY <1>3, <2>1, <2>2 DEF Guard, IInv, TypeOK, ProviderInv
<1> QED BY <1>1, <1>2, <1>3 DEF Next

\* The inductive invariant holds throughout, for any sink and any exporter.
THEOREM Inductive == Spec => []IInv
BY IInvInit, IInvStep, PTL DEF Spec

\* Every variable keeps its type.
THEOREM TypeCorrect == Spec => []TypeOK
<1>1. IInv => TypeOK
  BY DEF IInv
<1> QED BY <1>1, Inductive, PTL

\* Whatever the telemetry sink throws, no call is granted without its event having been handed to the sink.
THEOREM NothingGrantedSilently == Spec => []NoSilentGrant
<1>1. IInv => NoSilentGrant
  BY GrantsAreTold DEF IInv
<1> QED BY <1>1, Inductive, PTL

\* With a sink that never throws, each answered call leaves exactly the one event its verdict calls for, in telemetry
\* and in the audit log alike.
THEOREM EventsFaithful ==
  ASSUME SinkErrors = {}
  PROVE  Spec => []OneFaithfulEvent
<1>1. IInv => OneFaithfulEvent
  BY EventsAreFaithful DEF IInv
<1> QED BY <1>1, Inductive, PTL

\* When the provider fails closed, or the sink never throws, a tool runs only on a verdict that permits it.
THEOREM OnlyPermittedCallsRun ==
  ASSUME FailClosed \/ SinkErrors = {}
  PROVE  Spec => []OnlyPermittedRun
<1>1. IInv => OnlyPermittedRun
  <2> SUFFICES ASSUME IInv, NEW c \in Calls, tool[c] = "ran"
               PROVE  verdict[c] \in IF FailClosed THEN {"allow"} ELSE {"allow", "unavailable"}
    BY DEF OnlyPermittedRun
  <2>1. pc[c] = "granted" /\ ProviderInv
    BY DEF IInv, ToolInv
  <2>2. CASE SinkErrors = {}
    BY <2>1, <2>2, GrantedIsPermitted
  <2>3. CASE FailClosed
    BY <2>1, <2>3 DEF ProviderInv, CallInv, Grants
  <2> QED BY <2>2, <2>3
<1> QED BY <1>1, Inductive, PTL

\* Under the same hypothesis a denial stands, in either mode.
THEOREM DenialsStand ==
  ASSUME FailClosed \/ SinkErrors = {}
  PROVE  Spec => []DenialStands
<1>1. OnlyPermittedRun => DenialStands
  BY DEF OnlyPermittedRun, DenialStands
<1> QED BY <1>1, OnlyPermittedCallsRun, PTL

\* With a sink that never throws, the adapter implements ToolGuard: in particular a denial always stands, and
\* an allowed tool is never turned away.
THEOREM AdapterKeepsPromise ==
  ASSUME SinkErrors = {}
  PROVE  Spec => KeepsPromise
<1>1. Init => Promise!Init
  BY DEF Init, ProviderInit, Promise!Init
<1>2. ASSUME IInv, [Next]_vars PROVE [Promise!Next]_<<verdict, tool>>
  <2>0. ProviderInv
    BY <1>2 DEF IInv
  <2>1. CASE UNCHANGED vars
    BY <2>1 DEF vars
  <2>2. ASSUME NEW c \in Calls, Execute(c) PROVE Promise!Next
    <3>1. verdict[c] \in IF FailClosed THEN {"allow"} ELSE {"allow", "unavailable"}
      BY <2>0, <2>2, GrantedIsPermitted DEF Execute
    <3> QED BY <2>2, <3>1 DEF Execute, providerVars, Promise!Next, Promise!Run
  <2>3. ASSUME NEW c \in Calls, Throw(c) PROVE Promise!Next
    <3>1. verdict[c] # "allow"
      BY <2>0, <2>3, RefusedIsNotAllowed DEF Throw
    <3> QED BY <2>3, <3>1 DEF Throw, providerVars, Promise!Next, Promise!Refuse
  <2>4. ASSUME NEW c \in Calls, Guard(c) PROVE [Promise!Next]_<<verdict, tool>>
    <3>1. CASE verdict' = verdict
      BY <2>4, <3>1 DEF Guard
    <3>2. CASE verdict[c] = "none" /\ pc[c] = "authorizing" /\ \E v \in Verdicts : verdict' = [verdict EXCEPT ![c] = v]
      <4>1. tool[c] = "waiting" /\ tool' = tool
        BY <1>2, <2>4, <3>2 DEF Guard, IInv, TypeOK, ToolInv
      <4>2. Promise!Answer(c)
        BY <3>2, <4>1 DEF Promise!Answer, Promise!Verdicts, Verdicts
      <4> QED BY <4>2 DEF Promise!Next
    <3> QED BY <2>0, <2>4, <3>1, <3>2, VerdictOnce DEF Guard
  <2> QED BY <1>2, <2>1, <2>2, <2>3, <2>4 DEF Next
<1>3. QED
  BY <1>1, <1>2, Inductive, PTL DEF Spec, KeepsPromise, Promise!Spec, Promise!vars
================================================================================

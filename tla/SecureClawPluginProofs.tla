------------------------- MODULE SecureClawPluginProofs -------------------------
(* Proofs about the plugin's hooks, for every set of calls, events, sessions  *)
(* and directories and every behaviour of the host that the constants allow.  *)
(******************************************************************************)
EXTENDS SecureClawPlugin, GuardedProviderProofs, FiniteSetTheorems

\* What is authorized or reported is a request of the model; what it is made of plays no part in the proofs.
LEMMA RequestType ==
  ASSUME NEW e \in Events, NEW d \in ToSet(Dirs)
  PROVE  Request(e, d) \in Requests
BY DEF Requests

LEMMA ToolType ==
  ASSUME call \in [Calls -> CallType], NEW c \in Calls
  PROVE  Tool(c) \in Tools
BY DEF Tool, Tools, CallType

LEMMA ForgottenType ==
  ASSUME call \in [Calls -> CallType], NEW c \in Calls
  PROVE  Forgotten(c) \in CallType
<1>1. call[c] \in CallType
  OBVIOUS
<1>2. ASSUME NEW r \in CallType
      PROVE  /\ [r EXCEPT !.authorized = NoRequest, !.touched = NoRequest] \in CallType
             /\ [r EXCEPT !.actual = NoRequest, !.steady = TRUE] \in CallType
  BY DEF CallType
<1> DEFINE r == [call[c] EXCEPT !.authorized = NoRequest, !.touched = NoRequest]
<1>3. r \in CallType
  BY <1>1, <1>2
<1>4. Forgotten(c) = [r EXCEPT !.actual = NoRequest, !.steady = TRUE]
  BY DEF Forgotten
<1> HIDE DEF r
<1> QED BY <1>2, <1>3, <1>4

LEMMA DirsStart == Dirs[1] \in ToSet(Dirs)
<1>1. 1 \in DOMAIN Dirs
  BY PluginAssumption DEF PluginAssumption
<1> QED BY <1>1 DEF ToSet

LEMMA InitType == Init => TypeOK
<1> SUFFICES ASSUME Init PROVE TypeOK
  OBVIOUS
<1>1. ProviderTypeOK
  BY ProviderStart DEF Init, ProviderInv
<1>2. PICK e \in [Calls -> Events], s \in [Calls -> Sessions] :
        call = [c \in Calls |-> [event |-> e[c], session |-> s[c], metrics |-> NoObject,
                                 toolCallId |-> NoKey, authorized |-> NoRequest, touched |-> NoRequest,
                                 actual |-> NoRequest, steady |-> TRUE, verified |-> NoMandate, outcome |-> "none"]]
  BY DEF Init
<1>3. call \in [Calls -> CallType]
  BY <1>2 DEF CallType
<1> QED BY <1>1, <1>3, DirsStart, PluginAssumption DEF Init, TypeOK, PluginAssumption, Stages

LEMMA BeforeType ==
  ASSUME TypeOK, NEW c \in Calls, BeforeToolCall(c)
  PROVE  TypeOK'
<1> DEFINE t == Tool(c)
           m == IF toolCallMetrics[t] = NoObject THEN c ELSE toolCallMetrics[t]
<1>0. call \in [Calls -> CallType] /\ call[c] \in CallType /\ t \in Tools
  BY ToolType DEF TypeOK
<1>1. m \in Calls
  BY <1>0 DEF TypeOK
<1>2. Request(call[c].event, cwd) \in Requests
  BY <1>0, RequestType DEF TypeOK, CallType
<1>3. call' = [call EXCEPT ![c] = [call[c] EXCEPT !.metrics = m, !.authorized = Request(call[c].event, cwd)]]
  BY <1>0 DEF BeforeToolCall
<1>4. [call[c] EXCEPT !.metrics = m, !.authorized = Request(call[c].event, cwd)] \in CallType
  BY <1>0, <1>1, <1>2 DEF CallType
<1>5. call' \in [Calls -> CallType]
  BY <1>0, <1>3, <1>4
<1>6. object' = [object EXCEPT ![m] = [object[m] EXCEPT !.count = @ + 1]]
  BY <1>1 DEF BeforeToolCall, TypeOK
<1>7. object' \in [Calls -> [count : Nat, blocked : Nat]]
  BY <1>1, <1>6 DEF TypeOK
<1>8. toolCallMetrics' \in [Tools -> Calls \cup {NoObject}] /\ stage' \in [Calls -> Stages]
  BY <1>0, <1>1 DEF BeforeToolCall, TypeOK, Stages
<1>9. ProviderTypeOK'
  BY ProviderTypeStep DEF BeforeToolCall, GuardStep, TypeOK
<1> QED BY <1>5, <1>7, <1>8, <1>9 DEF BeforeToolCall, TypeOK

LEMMA SessionType ==
  ASSUME TypeOK, NEW s \in Sessions, SessionStart(s) \/ SessionEnd(s)
  PROVE  TypeOK'
<1>1. ProviderTypeOK'
  BY DEF SessionStart, SessionEnd, providerVars, TypeOK, ProviderTypeOK
<1> QED BY <1>1 DEF SessionStart, SessionEnd, HostStarts, HostEnds, TypeOK

\* An allowed call's mandate is filed under a key of its tool.
LEMMA KeyType ==
  ASSUME TypeOK, NEW c \in Calls
  PROVE  /\ <<Tool(c), now>> \in Keys
         /\ Returned(c) \in Calls \cup {NoMandate}
BY ToolType DEF Keys, TypeOK, Returned, ProviderTypeOK

LEMMA AllowType ==
  ASSUME TypeOK, NEW c \in Calls, Allow(c)
  PROVE  TypeOK'
<1> DEFINE key == <<Tool(c), now>>
<1>0. call \in [Calls -> CallType] /\ key \in Keys /\ Returned(c) \in Calls \cup {NoMandate}
  BY KeyType DEF TypeOK
<1>1. ProviderTypeOK'
  BY DEF Allow, providerVars, TypeOK, ProviderTypeOK
<1>2. call' \in [Calls -> CallType]
  <2>1. CASE UNCHANGED call
    BY <1>0, <2>1
  <2>2. CASE call' = [call EXCEPT ![c].toolCallId = key]
    <3>1. [call[c] EXCEPT !.toolCallId = key] \in CallType
      BY <1>0 DEF CallType
    <3>2. call' = [call EXCEPT ![c] = [call[c] EXCEPT !.toolCallId = key]]
      BY <1>0, <2>2
    <3> QED BY <1>0, <3>1, <3>2
  <2> QED BY <2>1, <2>2 DEF Allow
<1>3. pendingMandates' \in [Keys -> Calls \cup {NoMandate}]
  BY <1>0 DEF Allow, TypeOK
<1>4. stage' \in [Calls -> Stages]
  BY DEF Allow, TypeOK, Stages
<1> QED BY <1>1, <1>2, <1>3, <1>4 DEF Allow, TypeOK

LEMMA BlockType ==
  ASSUME TypeOK, NEW c \in Calls, Block(c), call[c].metrics \in Calls
  PROVE  TypeOK'
<1> DEFINE m == call[c].metrics
<1>1. ProviderTypeOK'
  BY DEF Block, providerVars, TypeOK, ProviderTypeOK
<1>2. object' = [object EXCEPT ![m] = [object[m] EXCEPT !.blocked = @ + 1]]
  BY DEF Block, TypeOK
<1>3. object' \in [Calls -> [count : Nat, blocked : Nat]]
  BY <1>2 DEF TypeOK
<1>4. toolCallMetrics' \in [Tools -> Calls \cup {NoObject}] /\ stage' \in [Calls -> Stages]
  BY ToolType DEF Block, TypeOK, Stages
<1>5. stragglers' \subseteq Tools
  BY ToolType DEF Block, TypeOK
<1> QED BY <1>1, <1>3, <1>4, <1>5 DEF Block, TypeOK

\* The tool that runs is the one that was called, whatever became of its parameters.
LEMMA RunForm ==
  ASSUME TypeOK, NEW c \in Calls, RunTool(c)
  PROVE  \E e \in Events : /\ e.toolName = Tool(c)
                           /\ call' = [call EXCEPT ![c] = [call[c] EXCEPT !.event = e, !.touched = Request(e, cwd)]]
                           /\ [call[c] EXCEPT !.event = e, !.touched = Request(e, cwd)] \in CallType
<1>0. call \in [Calls -> CallType] /\ call[c] \in CallType
  BY DEF TypeOK
<1>1. PICK e \in Events : /\ e = call[c].event \/ e.toolName = Tool(c)
                          /\ call' = [call EXCEPT ![c].event = e, ![c].touched = Request(e, cwd)]
  BY DEF RunTool
<1>2. e.toolName = Tool(c)
  BY <1>1 DEF Tool
<1>3. call' = [call EXCEPT ![c] = [call[c] EXCEPT !.event = e, !.touched = Request(e, cwd)]]
  BY <1>0, <1>1
<1>4. [call[c] EXCEPT !.event = e, !.touched = Request(e, cwd)] \in CallType
  BY <1>0, RequestType DEF TypeOK, CallType
<1> QED BY <1>2, <1>3, <1>4

LEMMA RunType ==
  ASSUME TypeOK, NEW c \in Calls, RunTool(c)
  PROVE  TypeOK'
<1>1. ProviderTypeOK'
  BY DEF RunTool, providerVars, TypeOK, ProviderTypeOK
<1>2. call' \in [Calls -> CallType]
  BY RunForm DEF TypeOK
<1>3. stage' \in [Calls -> Stages]
  BY DEF RunTool, TypeOK, Stages
<1> QED BY <1>1, <1>2, <1>3 DEF RunTool, TypeOK

\* What after_tool_call makes of a call: it takes the mandate under its key, if there is one, or is through with it.
LEMMA AfterForm ==
  ASSUME TypeOK, NEW c \in Calls, AfterToolCall(c)
  PROVE  \/ /\ PostVerify /\ call[c].toolCallId # NoKey
            /\ call[c].toolCallId \in Keys
            /\ pendingMandates[call[c].toolCallId] \in Calls
            /\ pendingMandates' = [pendingMandates EXCEPT ![call[c].toolCallId] = NoMandate]
            /\ call' = [call EXCEPT ![c] = [call[c] EXCEPT !.verified = pendingMandates[call[c].toolCallId],
                                                          !.actual = Request(call[c].event, cwd)]]
            /\ [call[c] EXCEPT !.verified = pendingMandates[call[c].toolCallId],
                               !.actual = Request(call[c].event, cwd)] \in CallType
            /\ stage' = [stage EXCEPT ![c] = "verifying"]
         \/ /\ \/ ~PostVerify \/ call[c].toolCallId = NoKey
               \/ pendingMandates[call[c].toolCallId] = NoMandate
            /\ pendingMandates' = pendingMandates
            /\ call' = [call EXCEPT ![c] = Forgotten(c)]
            /\ stage' = [stage EXCEPT ![c] = "done"]
<1>0. call \in [Calls -> CallType] /\ call[c] \in CallType /\ Request(call[c].event, cwd) \in Requests
  BY RequestType DEF TypeOK, CallType
<1>1. call[c].toolCallId \in Keys \cup {NoKey}
  BY <1>0 DEF CallType
<1> DEFINE key == call[c].toolCallId
           m == IF PostVerify /\ key # NoKey THEN pendingMandates[key] ELSE NoMandate
<1>2. CASE m # NoMandate
  <2>1. PostVerify /\ key # NoKey /\ key \in Keys /\ m = pendingMandates[key]
    BY <1>1, <1>2
  <2>2. m \in Calls
    BY <1>2, <2>1 DEF TypeOK
  <2>3. call' = [call EXCEPT ![c] = [call[c] EXCEPT !.verified = m, !.actual = Request(call[c].event, cwd)]]
    BY <1>0, <1>2 DEF AfterToolCall
  <2>4. [call[c] EXCEPT !.verified = m, !.actual = Request(call[c].event, cwd)] \in CallType
    BY <1>0, <2>2 DEF CallType
  <2>5. /\ pendingMandates' = [pendingMandates EXCEPT ![key] = NoMandate]
        /\ stage' = [stage EXCEPT ![c] = "verifying"]
    BY <1>2 DEF AfterToolCall
  <2> QED BY <2>1, <2>2, <2>3, <2>4, <2>5
<1>3. CASE m = NoMandate
  BY <1>3 DEF AfterToolCall
<1> QED BY <1>2, <1>3

LEMMA AfterType ==
  ASSUME TypeOK, NEW c \in Calls, AfterToolCall(c)
  PROVE  TypeOK'
<1>1. ProviderTypeOK'
  BY DEF AfterToolCall, providerVars, TypeOK, ProviderTypeOK
<1>2. \E r \in CallType : call' = [call EXCEPT ![c] = r]
  BY AfterForm, ForgottenType DEF TypeOK
<1>3. call' \in [Calls -> CallType]
  BY <1>2 DEF TypeOK
<1>4. pendingMandates' \in [Keys -> Calls \cup {NoMandate}] /\ stage' \in [Calls -> Stages]
  BY AfterForm DEF TypeOK, Stages
<1> QED BY <1>1, <1>3, <1>4 DEF AfterToolCall, TypeOK

LEMMA VerifyType ==
  ASSUME TypeOK, NEW c \in Calls, VerifyAnswers(c)
  PROVE  TypeOK'
<1>1. ProviderTypeOK'
  BY DEF VerifyAnswers, providerVars, TypeOK, ProviderTypeOK
<1>2. PICK answer \in {"verified", "mismatch", "error"} :
        call' = [call EXCEPT ![c] = [Forgotten(c) EXCEPT !.outcome = answer]]
  BY DEF VerifyAnswers
<1>3. [Forgotten(c) EXCEPT !.outcome = answer] \in CallType
  <2> DEFINE r == Forgotten(c)
  <2>1. r \in CallType
    BY ForgottenType DEF TypeOK
  <2> HIDE DEF r
  <2>2. [r EXCEPT !.outcome = answer] \in CallType
    BY <2>1 DEF CallType
  <2> QED BY <2>2 DEF r
<1>4. call' \in [Calls -> CallType] /\ stage' \in [Calls -> Stages]
  BY <1>2, <1>3 DEF VerifyAnswers, TypeOK, Stages
<1> QED BY <1>1, <1>4 DEF VerifyAnswers, TypeOK

LEMMA ChangeDirType ==
  ASSUME TypeOK, ChangeDir
  PROVE  TypeOK'
<1>1. ProviderTypeOK'
  BY DEF ChangeDir, providerVars, TypeOK, ProviderTypeOK
<1>2. cwd' \in ToSet(Dirs)
  <2>1. PICK i \in 2 .. Len(Dirs) : cwd' = Dirs[i]
    BY DEF ChangeDir
  <2>2. i \in DOMAIN Dirs
    BY PluginAssumption DEF PluginAssumption
  <2> QED BY <2>1, <2>2 DEF ToSet
<1>3. ASSUME NEW c \in Calls
      PROVE  (IF stage[c] = "ran" THEN [call[c] EXCEPT !.steady = FALSE] ELSE call[c]) \in CallType
  <2>1. call[c] \in CallType
    BY DEF TypeOK
  <2>2. [call[c] EXCEPT !.steady = FALSE] \in CallType
    BY <2>1 DEF CallType
  <2> QED BY <2>1, <2>2
<1>4. call' \in [Calls -> CallType]
  BY <1>3 DEF ChangeDir
<1> QED BY <1>1, <1>2, <1>4 DEF ChangeDir, TypeOK

--------------------------------------------------------------------------------
(* The inductive invariant, per call.                                         *)

\* Where a call is in the host's pipeline, against where its guard is.
StageInv(c) ==
  /\ stage[c] = "idle" => pc[c] = "new"
  /\ stage[c] = "allowed" => pc[c] = "granted" \/ (pc[c] = "refused" /\ ~Blocks(exit[c]))
  /\ stage[c] \notin {"idle", "authorizing"} => pc[c] \in {"granted", "refused"}
  /\ stage[c] = "authorizing" => call[c].metrics \in Calls

\* What the tool did, and what is reported of it, when nobody has changed directories since.
ReportInv(c) ==
  /\ (stage[c] = "ran" /\ call[c].steady) => call[c].touched = Request(call[c].event, cwd)
  /\ (stage[c] = "verifying" /\ call[c].steady) => call[c].actual = call[c].touched

Shared(c, k) == \E d \in Calls \ {c} : call[d].toolCallId = k

\* A call's key and mandate: a mandate is waiting under the key, or a call that shares the key has had it.
KeyInv(c) ==
  /\ mandate[c] \in {c, NoMandate}
  /\ stage[c] \in {"idle", "authorizing"} => call[c].toolCallId = NoKey
  /\ stage[c] \notin {"verifying", "done"} => call[c].verified = NoMandate
  /\ call[c].toolCallId # NoKey =>
       /\ PostVerify
       /\ call[c].toolCallId[1] = Tool(c)
       /\ stage[c] \in {"allowed", "ran"} =>
            pendingMandates[call[c].toolCallId] = c \/ Shared(c, call[c].toolCallId)
       /\ stage[c] \in {"verifying", "done"} =>
            /\ call[c].verified # NoMandate => Tool(call[c].verified) = Tool(c)
            /\ Shared(c, call[c].toolCallId) \/ call[c].verified = c

OwedInv(k) ==
  pendingMandates[k] # NoMandate =>
    LET c == pendingMandates[k] IN
    /\ call[c].toolCallId = k
    /\ verdict[c] = "allow"
    /\ stage[c] \in {"allowed", "ran", "aborted"} \/ Shared(c, k)

IInv == /\ TypeOK
        /\ ProviderInv
        /\ \A c \in Calls : StageInv(c) /\ ReportInv(c) /\ KeyInv(c)
        /\ \A k \in Keys : OwedInv(k)

LEMMA InitInv == Init => IInv
<1> SUFFICES ASSUME Init PROVE IInv
  OBVIOUS
<1>1. TypeOK /\ ProviderInv
  BY InitType, ProviderStart DEF Init
<1>2. ASSUME NEW c \in Calls
      PROVE  /\ stage[c] = "idle" /\ pc[c] = "new" /\ mandate[c] = NoMandate
             /\ call[c].toolCallId = NoKey /\ call[c].verified = NoMandate
  BY DEF Init, ProviderInit
<1>3. ASSUME NEW c \in Calls PROVE StageInv(c) /\ ReportInv(c) /\ KeyInv(c)
  BY <1>2 DEF StageInv, ReportInv, KeyInv
<1>4. ASSUME NEW k \in Keys PROVE OwedInv(k)
  BY DEF Init, OwedInv
<1> QED BY <1>1, <1>3, <1>4 DEF IInv

--------------------------------------------------------------------------------
(* Steps.                                                                     *)

\* A step moves call c to a stage and makes r of its record.
Moves(c, r, to) == /\ call' = [call EXCEPT ![c] = r]
                   /\ stage' = [stage EXCEPT ![c] = to]

\* What such a step leaves of the other calls.
LEMMA OthersKept ==
  ASSUME TypeOK, NEW c \in Calls, NEW d \in Calls, d # c, NEW r, NEW to, Moves(c, r, to),
         UNCHANGED cwd, pc'[d] = pc[d], exit'[d] = exit[d], StageInv(d), ReportInv(d)
  PROVE  StageInv(d)' /\ ReportInv(d)'
<1>1. call'[d] = call[d] /\ stage'[d] = stage[d]
  BY DEF Moves, TypeOK
<1> QED BY <1>1 DEF StageInv, ReportInv

\* The stages a call passes through without a change of the pending mandates.
Steps == {<<"idle", "authorizing">>, <<"authorizing", "blocked">>, <<"authorizing", "allowed">>, <<"allowed", "ran">>,
          <<"ran", "aborted">>, <<"verifying", "done">>}

\* Nothing moves but stages along Steps: keys, tools, verified mandates and permissions stay.
LEMMA KeysKept ==
  ASSUME IInv, TypeOK', UNCHANGED pendingMandates,
         \A d \in Calls : /\ call'[d].toolCallId = call[d].toolCallId
                          /\ Tool(d)' = Tool(d)
                          /\ call'[d].verified = call[d].verified
                          /\ mandate'[d] \in {d, NoMandate}
                          /\ verdict[d] = "allow" => verdict'[d] = "allow"
                          /\ stage'[d] = stage[d] \/ <<stage[d], stage'[d]>> \in Steps
  PROVE  (\A c \in Calls : KeyInv(c)') /\ (\A k \in Keys : OwedInv(k)')
<1>1. ASSUME NEW c \in Calls, NEW k PROVE Shared(c, k)' <=> Shared(c, k)
  BY DEF Shared
<1>2. ASSUME NEW c \in Calls PROVE KeyInv(c)'
  <2>1. KeyInv(c)
    BY DEF IInv
  <2>2. call[c].verified # NoMandate => call[c].verified \in Calls
    BY DEF IInv, TypeOK, CallType
  <2>3. call[c].verified # NoMandate => Tool(call[c].verified)' = Tool(call[c].verified)
    BY <2>2
  <2>4. Shared(c, call[c].toolCallId)' <=> Shared(c, call[c].toolCallId)
    BY <1>1
  <2>6. call'[c].toolCallId = call[c].toolCallId /\ Tool(c)' = Tool(c) /\ call'[c].verified = call[c].verified
        /\ mandate'[c] \in {c, NoMandate} /\ pendingMandates' = pendingMandates
    OBVIOUS
  <2>7. stage'[c] \in {"idle", "authorizing"} => stage[c] \in {"idle", "authorizing"}
    BY DEF Steps
  <2>8. stage[c] \in {"verifying", "done"} <=> stage'[c] \in {"verifying", "done"}
    BY DEF Steps
  <2>9. stage'[c] \in {"allowed", "ran"} /\ call[c].toolCallId # NoKey => stage[c] \in {"allowed", "ran"}
    BY <2>1 DEF Steps, KeyInv
  <2> QED BY <2>1, <2>3, <2>4, <2>6, <2>7, <2>8, <2>9 DEF KeyInv, Shared
<1>3. ASSUME NEW k \in Keys PROVE OwedInv(k)'
  <2> SUFFICES ASSUME pendingMandates[k] # NoMandate PROVE OwedInv(k)'
    BY DEF OwedInv
  <2> DEFINE c == pendingMandates[k]
  <2>1. OwedInv(k) /\ c \in Calls
    BY DEF IInv, TypeOK
  <2>2. Shared(c, k)' <=> Shared(c, k)
    BY <1>1, <2>1
  <2>3. stage[c] \in {"allowed", "ran", "aborted"} => stage'[c] \in {"allowed", "ran", "aborted"}
    BY <2>1 DEF Steps
  <2> QED BY <2>1, <2>2, <2>3 DEF OwedInv
<1> QED BY <1>2, <1>3

\* Steps of the session hooks, the clock and the guard leave the calls of the host alone.
LEMMA BystandersKept ==
  ASSUME IInv, TypeOK', ProviderInv', UNCHANGED <<cwd, pendingMandates, call, stage>>,
         \/ UNCHANGED providerVars
         \/ \E c \in Calls : GuardStep(c) /\ pc[c] # "new"
  PROVE  IInv'
<1>1. ASSUME NEW d \in Calls
      PROVE  /\ pc[d] \in {"new", "granted", "refused"} => pc'[d] = pc[d] /\ exit'[d] = exit[d]
             /\ mandate'[d] \in {d, NoMandate}
             /\ verdict[d] = "allow" => verdict'[d] = "allow"
  <2>1. ProviderTypeOK /\ mandate[d] \in {d, NoMandate} /\ CallInv(d)
    BY DEF IInv, TypeOK, KeyInv, ProviderInv
  <2>2. CASE UNCHANGED providerVars
    BY <2>1, <2>2 DEF providerVars
  <2>3. ASSUME NEW c \in Calls, GuardStep(c), pc[c] # "new"
        PROVE  /\ pc[d] \in {"new", "granted", "refused"} => pc'[d] = pc[d] /\ exit'[d] = exit[d]
               /\ mandate'[d] \in {d, NoMandate}
               /\ verdict[d] = "allow" => verdict'[d] = "allow"
    <3>1. CASE d # c \/ pc[d] \in {"granted", "refused"}
      BY <2>1, <2>3, <3>1, OthersUnchanged
    <3>2. CASE d = c /\ pc[d] \notin {"granted", "refused"}
      <4>1. CASE ExportSettles(c)
        BY <2>1, <2>3, <3>2, <4>1 DEF ExportSettles
      <4>2. CASE Answer(c)
        <5>1. verdict[d] # "allow"
          BY <2>1, <3>2, <4>2 DEF Answer, AnswerAllow, AnswerDeny, AnswerFails, CallInv
        <5>2. mandate'[d] \in {d, NoMandate}
          BY <2>1, <3>2, <4>2 DEF Answer, AnswerAllow, AnswerDeny, AnswerFails, ProviderTypeOK
        <5> QED BY <2>3, <3>2, <5>1, <5>2
      <4> QED BY <2>3, <4>1, <4>2 DEF GuardStep, Submit, SubmitUnhashable
    <3> QED BY <3>1, <3>2
  <2> QED BY <2>2, <2>3
<1>2. ASSUME NEW d \in Calls PROVE StageInv(d)' /\ ReportInv(d)'
  BY <1>1 DEF IInv, StageInv, ReportInv
<1>3. (\A c \in Calls : KeyInv(c)') /\ (\A k \in Keys : OwedInv(k)')
  BY <1>1, KeysKept DEF Tool
<1> QED BY <1>2, <1>3 DEF IInv

LEMMA BeforeInv ==
  ASSUME IInv, NEW c \in Calls, BeforeToolCall(c)
  PROVE  IInv'
<1> DEFINE t == Tool(c)
           m == IF toolCallMetrics[t] = NoObject THEN c ELSE toolCallMetrics[t]
           r == [call[c] EXCEPT !.metrics = m, !.authorized = Request(call[c].event, cwd)]
<1>0. TypeOK /\ ProviderInv /\ TypeOK' /\ GuardStep(c) /\ stage[c] = "idle"
  BY BeforeType DEF IInv, BeforeToolCall, GuardStep
<1>1. ProviderInv' /\ pc[c] = "new"
  BY <1>0, ProviderStep DEF IInv, StageInv
<1>2. call[c] \in CallType /\ m \in Calls
  BY <1>0, ToolType DEF TypeOK
<1>3. Moves(c, r, "authorizing")
  BY <1>0 DEF BeforeToolCall, Moves, TypeOK
<1>4. r.metrics = m /\ r.toolCallId = call[c].toolCallId /\ r.verified = call[c].verified /\ r.event = call[c].event
  BY <1>2 DEF CallType
<1>5. call'[c] = r /\ stage'[c] = "authorizing"
  BY <1>0, <1>3 DEF Moves, TypeOK
<1>6. ASSUME NEW d \in Calls, d # c
      PROVE  /\ call'[d] = call[d] /\ stage'[d] = stage[d]
             /\ pc'[d] = pc[d] /\ exit'[d] = exit[d] /\ mandate'[d] = mandate[d] /\ verdict'[d] = verdict[d]
  BY <1>0, <1>3, <1>6, OthersUnchanged DEF Moves, TypeOK
<1>7. mandate' = mandate /\ verdict' = verdict
  BY DEF BeforeToolCall, Submit, SubmitUnhashable
<1>8. ASSUME NEW d \in Calls PROVE StageInv(d)' /\ ReportInv(d)'
  <2>1. CASE d = c
    BY <1>2, <1>4, <1>5, <2>1 DEF StageInv, ReportInv
  <2>2. CASE d # c
    BY <1>0, <1>3, <1>6, <2>2, OthersKept DEF IInv, BeforeToolCall
  <2> QED BY <2>1, <2>2
<1>9. (\A d \in Calls : KeyInv(d)') /\ (\A k \in Keys : OwedInv(k)')
  <2>1. ASSUME NEW d \in Calls
        PROVE  /\ call'[d].toolCallId = call[d].toolCallId
               /\ Tool(d)' = Tool(d)
               /\ call'[d].verified = call[d].verified
               /\ mandate'[d] \in {d, NoMandate}
               /\ verdict[d] = "allow" => verdict'[d] = "allow"
               /\ stage'[d] = stage[d] \/ <<stage[d], stage'[d]>> \in Steps
    BY <1>0, <1>4, <1>5, <1>6, <1>7 DEF Tool, Steps, IInv, KeyInv
  <2> QED BY <1>0, <2>1, KeysKept DEF BeforeToolCall
<1> QED BY <1>0, <1>1, <1>8, <1>9 DEF IInv

\* A step of call c after its guard that neither files nor takes a mandate.
LEMMA HookInv ==
  ASSUME IInv, TypeOK', NEW c \in Calls, NEW r, NEW to, Moves(c, r, to), <<stage[c], to>> \in Steps,
         UNCHANGED <<providerVars, cwd, pendingMandates>>,
         r.toolCallId = call[c].toolCallId, r.event.toolName = Tool(c), r.verified = call[c].verified,
         StageInv(c)', ReportInv(c)'
  PROVE  IInv'
<1>0. TypeOK /\ ProviderInv'
  BY ProviderStutters DEF IInv
<1>1. call'[c] = r /\ stage'[c] = to
  BY <1>0 DEF Moves, TypeOK
<1>2. ASSUME NEW d \in Calls, d # c PROVE call'[d] = call[d] /\ stage'[d] = stage[d]
  BY <1>0, <1>2 DEF Moves, TypeOK
<1>3. pc' = pc /\ exit' = exit /\ mandate' = mandate /\ verdict' = verdict
  BY DEF providerVars
<1>4. ASSUME NEW d \in Calls PROVE StageInv(d)' /\ ReportInv(d)'
  <2>1. CASE d # c
    BY <1>0, <1>3, <2>1, OthersKept DEF IInv
  <2> QED BY <2>1
<1>5. (\A d \in Calls : KeyInv(d)') /\ (\A k \in Keys : OwedInv(k)')
  <2>1. ASSUME NEW d \in Calls
        PROVE  /\ call'[d].toolCallId = call[d].toolCallId
               /\ Tool(d)' = Tool(d)
               /\ call'[d].verified = call[d].verified
               /\ mandate'[d] \in {d, NoMandate}
               /\ verdict[d] = "allow" => verdict'[d] = "allow"
               /\ stage'[d] = stage[d] \/ <<stage[d], stage'[d]>> \in Steps
    BY <1>1, <1>2, <1>3 DEF Tool, IInv, KeyInv
  <2> QED BY <2>1, KeysKept
<1> QED BY <1>0, <1>4, <1>5 DEF IInv

LEMMA BlockInv ==
  ASSUME IInv, NEW c \in Calls, Block(c)
  PROVE  IInv'
<1>0. TypeOK /\ call[c].metrics \in Calls /\ stage[c] = "authorizing"
  BY DEF IInv, StageInv, Block
<1>1. TypeOK'
  BY <1>0, BlockType
<1>2. Moves(c, call[c], "blocked")
  BY <1>0 DEF Moves, Block, TypeOK
<1>3. stage'[c] = "blocked" /\ pc'[c] = "refused"
  BY <1>0, <1>2 DEF Block, providerVars, Moves, TypeOK
<1>4. StageInv(c)' /\ ReportInv(c)'
  BY <1>3 DEF StageInv, ReportInv
<1> QED BY <1>0, <1>1, <1>2, <1>4, HookInv DEF Block, Steps, Tool

LEMMA AllowUnknownErrorInv ==
  ASSUME IInv, NEW c \in Calls, AllowUnknownError(c)
  PROVE  IInv'
<1>0. TypeOK /\ stage[c] = "authorizing"
  BY DEF IInv, AllowUnknownError
<1>1. TypeOK'
  BY <1>0 DEF AllowUnknownError, providerVars, TypeOK, ProviderTypeOK, Stages
<1>2. Moves(c, call[c], "allowed")
  BY <1>0 DEF Moves, AllowUnknownError, TypeOK
<1>3. stage'[c] = "allowed" /\ pc'[c] = "refused" /\ ~Blocks(exit'[c])
  BY <1>0, <1>2 DEF AllowUnknownError, providerVars, Moves, TypeOK
<1>4. StageInv(c)' /\ ReportInv(c)'
  BY <1>3 DEF StageInv, ReportInv
<1> QED BY <1>0, <1>1, <1>2, <1>4, HookInv DEF AllowUnknownError, Steps, Tool

LEMMA AbortInv ==
  ASSUME IInv, NEW c \in Calls, Abort(c)
  PROVE  IInv'
<1>0. TypeOK /\ stage[c] = "ran"
  BY DEF IInv, Abort
<1>1. TypeOK'
  BY <1>0 DEF Abort, providerVars, TypeOK, ProviderTypeOK, Stages
<1>2. Moves(c, call[c], "aborted")
  BY <1>0 DEF Moves, Abort, TypeOK
<1>3. stage'[c] = "aborted" /\ pc'[c] \in {"granted", "refused"}
  BY <1>0, <1>2 DEF Abort, providerVars, Moves, TypeOK, IInv, StageInv
<1>4. StageInv(c)' /\ ReportInv(c)'
  BY <1>3 DEF StageInv, ReportInv
<1> QED BY <1>0, <1>1, <1>2, <1>4, HookInv DEF Abort, Steps, Tool

LEMMA RunInv ==
  ASSUME IInv, NEW c \in Calls, RunTool(c)
  PROVE  IInv'
<1>0. TypeOK /\ stage[c] = "allowed" /\ call[c] \in CallType
  BY DEF IInv, RunTool, TypeOK
<1>1. TypeOK'
  BY <1>0, RunType
<1>2. PICK e \in Events : /\ e.toolName = Tool(c)
                          /\ call' = [call EXCEPT ![c] = [call[c] EXCEPT !.event = e, !.touched = Request(e, cwd)]]
  BY <1>0, RunForm
<1> DEFINE r == [call[c] EXCEPT !.event = e, !.touched = Request(e, cwd)]
<1>3. /\ r.event = e /\ r.touched = Request(e, cwd)
      /\ r.toolCallId = call[c].toolCallId /\ r.verified = call[c].verified
  BY <1>0 DEF CallType
<1>4. Moves(c, r, "ran")
  BY <1>2 DEF Moves, RunTool
<1>5. stage'[c] = "ran" /\ call'[c] = r /\ pc'[c] \in {"granted", "refused"} /\ cwd' = cwd
  <2> HIDE DEF r
  <2>1. stage'[c] = "ran" /\ call'[c] = r
    BY <1>0, <1>4 DEF Moves, TypeOK
  <2>2. UNCHANGED <<pc, cwd>>
    BY DEF RunTool, providerVars
  <2>3. pc[c] \in {"granted", "refused"}
    BY <1>0 DEF IInv, StageInv
  <2> QED BY <2>1, <2>2, <2>3
<1>6. StageInv(c)' /\ ReportInv(c)'
  BY <1>3, <1>5 DEF StageInv, ReportInv
<1>7. <<stage[c], "ran">> \in Steps
  BY <1>0 DEF Steps
<1>8. r.event.toolName = Tool(c)
  BY <1>2, <1>3
<1>9. UNCHANGED <<providerVars, cwd, pendingMandates>>
  BY DEF RunTool
<1> QED BY <1>1, <1>3, <1>4, <1>6, <1>7, <1>8, <1>9, HookInv

LEMMA VerifyInv ==
  ASSUME IInv, NEW c \in Calls, VerifyAnswers(c)
  PROVE  IInv'
<1>0. TypeOK /\ stage[c] = "verifying" /\ call[c] \in CallType
  BY DEF IInv, VerifyAnswers, TypeOK
<1>1. TypeOK'
  BY <1>0, VerifyType
<1>2. PICK answer \in {"verified", "mismatch", "error"} :
        call' = [call EXCEPT ![c] = [Forgotten(c) EXCEPT !.outcome = answer]]
  BY DEF VerifyAnswers
<1> DEFINE r == [Forgotten(c) EXCEPT !.outcome = answer]
<1>3. r.toolCallId = call[c].toolCallId /\ r.verified = call[c].verified /\ r.event = call[c].event
  BY <1>0 DEF CallType, Forgotten
<1>4. Moves(c, r, "done")
  BY <1>2 DEF Moves, VerifyAnswers
<1>5. stage'[c] = "done" /\ pc'[c] \in {"granted", "refused"}
  BY <1>0, <1>4 DEF VerifyAnswers, providerVars, Moves, TypeOK, IInv, StageInv
<1>6. StageInv(c)' /\ ReportInv(c)'
  BY <1>5 DEF StageInv, ReportInv
<1>7. <<stage[c], "done">> \in Steps
  BY <1>0 DEF Steps
<1>8. r.event.toolName = Tool(c)
  BY <1>3 DEF Tool
<1>9. UNCHANGED <<providerVars, cwd, pendingMandates>>
  BY DEF VerifyAnswers
<1> QED BY <1>1, <1>3, <1>4, <1>6, <1>7, <1>8, <1>9, HookInv

LEMMA ChangeDirInv ==
  ASSUME IInv, ChangeDir
  PROVE  IInv'
<1>0. TypeOK /\ TypeOK' /\ ProviderInv'
  BY ChangeDirType, ProviderStutters DEF IInv, ChangeDir
<1>1. ASSUME NEW d \in Calls
      PROVE  /\ call'[d] = IF stage[d] = "ran" THEN [call[d] EXCEPT !.steady = FALSE] ELSE call[d]
             /\ call'[d].event = call[d].event
             /\ call'[d].toolCallId = call[d].toolCallId
             /\ call'[d].verified = call[d].verified
             /\ call'[d].metrics = call[d].metrics
             /\ stage[d] = "ran" => ~call'[d].steady
  <2>1. call[d] \in CallType
    BY <1>0 DEF TypeOK
  <2>2. call'[d] = IF stage[d] = "ran" THEN [call[d] EXCEPT !.steady = FALSE] ELSE call[d]
    BY DEF ChangeDir
  <2> DEFINE r == [call[d] EXCEPT !.steady = FALSE]
  <2>3. /\ r.event = call[d].event /\ r.toolCallId = call[d].toolCallId
        /\ r.verified = call[d].verified /\ r.metrics = call[d].metrics /\ r.steady = FALSE
    BY <2>1 DEF CallType
  <2> HIDE DEF r
  <2>4. call'[d] = IF stage[d] = "ran" THEN r ELSE call[d]
    BY <2>2 DEF r
  <2>5. CASE stage[d] = "ran"
    BY <2>2, <2>3, <2>4, <2>5
  <2>6. CASE stage[d] # "ran"
    BY <2>2, <2>4, <2>6
  <2> QED BY <2>5, <2>6
<1>2. stage' = stage /\ pc' = pc /\ exit' = exit /\ mandate' = mandate /\ verdict' = verdict
      /\ pendingMandates' = pendingMandates
  BY DEF ChangeDir, providerVars
<1>3. ASSUME NEW d \in Calls PROVE StageInv(d)' /\ ReportInv(d)'
  <2>1. StageInv(d) /\ ReportInv(d)
    BY DEF IInv
  <2>2. StageInv(d)'
    BY <1>1, <1>2, <2>1 DEF StageInv
  <2>3. CASE stage[d] = "ran"
    <3>1. ~call'[d].steady
      BY <1>1, <2>3, Zenon
    <3>2. stage'[d] = "ran"
      BY <1>2, <2>3
    <3> QED BY <2>2, <3>1, <3>2, Zenon DEF ReportInv
  <2>4. CASE stage[d] # "ran"
    <3>1. call'[d] = call[d]
      BY <1>1, <2>4, Zenon
    <3>2. stage'[d] = stage[d]
      BY <1>2
    <3> QED BY <2>1, <2>2, <2>4, <3>1, <3>2, Zenon DEF ReportInv
  <2> QED BY <2>2, <2>3, <2>4
<1>4. (\A c \in Calls : KeyInv(c)') /\ (\A k \in Keys : OwedInv(k)')
  <2>1. ASSUME NEW d \in Calls PROVE Tool(d)' = Tool(d) /\ mandate'[d] \in {d, NoMandate}
    BY <1>1, <1>2 DEF Tool, IInv, KeyInv
  <2> QED BY <1>0, <1>1, <1>2, <2>1, KeysKept
<1> QED BY <1>0, <1>3, <1>4 DEF IInv

--------------------------------------------------------------------------------
(* The two steps that file and take a mandate.                                *)

\* Keys are never given up: a call stays as it is unless its key's mandate goes to another call with that key.
LEMMA OtherKeyKept ==
  ASSUME IInv, NEW d \in Calls, call'[d] = call[d], stage'[d] = stage[d], mandate'[d] = mandate[d],
         \A x \in Calls : call'[x].event.toolName = call[x].event.toolName,
         \A x \in Calls : call[x].toolCallId # NoKey => call'[x].toolCallId = call[x].toolCallId,
         \A k \in Keys : \/ pendingMandates'[k] = pendingMandates[k]
                         \/ k = call[d].toolCallId => \E x \in Calls \ {d} : call'[x].toolCallId = k
  PROVE  KeyInv(d)'
<1> DEFINE k == call[d].toolCallId
           v == call[d].verified
<1>1. KeyInv(d) /\ k \in Keys \cup {NoKey} /\ v \in Calls \cup {NoMandate}
  BY DEF IInv, TypeOK, CallType
<1>2. v # NoMandate => call'[v].event.toolName = call[v].event.toolName
  BY <1>1
<1>3. (k # NoKey /\ Shared(d, k)) => \E x \in Calls \ {d} : call'[x].toolCallId = k
  BY DEF Shared
<1>4. k # NoKey => pendingMandates'[k] = pendingMandates[k] \/ \E x \in Calls \ {d} : call'[x].toolCallId = k
  BY <1>1
<1> QED BY <1>1, <1>2, <1>3, <1>4 DEF KeyInv, Shared, Tool

\* A mandate that stays where it is stays owed, if its call moves no further than the tool.
LEMMA OtherOwedKept ==
  ASSUME IInv, NEW k \in Keys, NEW d \in Calls, d = pendingMandates[k], pendingMandates'[k] = d,
         call'[d] = call[d], stage'[d] = stage[d], verdict'[d] = verdict[d],
         \A x \in Calls : call[x].toolCallId # NoKey => call'[x].toolCallId = call[x].toolCallId
  PROVE  OwedInv(k)'
<1>1. OwedInv(k) /\ k # NoKey /\ d # NoMandate
  BY PluginAssumption, ProviderAssumption DEF IInv, PluginAssumption, ProviderAssumption, Keys
<1>2. Shared(d, k) => \E x \in Calls \ {d} : call'[x].toolCallId = k
  BY <1>1 DEF Shared
<1> QED BY <1>1, <1>2 DEF OwedInv, Shared

LEMMA AllowInv ==
  ASSUME IInv, NEW c \in Calls, Allow(c)
  PROVE  IInv'
<1> DEFINE key == <<Tool(c), now>>
           r == [call[c] EXCEPT !.toolCallId = key]
<1>0. TypeOK /\ TypeOK' /\ ProviderInv /\ ProviderInv' /\ stage[c] = "authorizing" /\ pc[c] = "granted"
  BY AllowType, ProviderStutters DEF IInv, Allow
<1>1. pc' = pc /\ exit' = exit /\ mandate' = mandate /\ verdict' = verdict /\ cwd' = cwd
  BY DEF Allow, providerVars
<1>2. CASE ~(Returned(c) # NoMandate /\ PostVerify)
  <2>1. UNCHANGED <<pendingMandates, call>>
    BY <1>2 DEF Allow
  <2>2. Moves(c, call[c], "allowed")
    BY <1>0, <2>1 DEF Moves, Allow, TypeOK
  <2>3. stage'[c] = "allowed" /\ pc'[c] = "granted"
    BY <1>0, <1>1, <2>2 DEF Moves, TypeOK
  <2>4. StageInv(c)' /\ ReportInv(c)'
    BY <2>3 DEF StageInv, ReportInv
  <2> QED BY <1>0, <1>1, <2>1, <2>2, <2>4, HookInv DEF Allow, Steps, Tool
<1>3. CASE Returned(c) # NoMandate /\ PostVerify
  <2>1. Returned(c) = c /\ verdict[c] = "allow" /\ call[c].toolCallId = NoKey /\ call[c].verified = NoMandate
    BY <1>0, <1>3 DEF Returned, IInv, KeyInv, ProviderInv, CallInv
  <2>2. pendingMandates' = [pendingMandates EXCEPT ![key] = c] /\ call' = [call EXCEPT ![c] = r]
    BY <1>0, <1>3, <2>1 DEF Allow, TypeOK
  <2>3. call[c] \in CallType /\ key \in Keys /\ key # NoKey /\ key[1] = Tool(c) /\ c # NoMandate
    BY <1>0, KeyType, PluginAssumption, ProviderAssumption DEF TypeOK, PluginAssumption, ProviderAssumption, Keys
  <2>4. r.toolCallId = key /\ r.verified = NoMandate /\ r.event = call[c].event
    BY <2>1, <2>3 DEF CallType
  <2>5. Moves(c, r, "allowed")
    BY <2>2 DEF Moves, Allow
  <2>6. call'[c] = r /\ stage'[c] = "allowed" /\ pendingMandates'[key] = c
    BY <1>0, <2>2, <2>3, <2>5 DEF Moves, TypeOK
  <2>7. ASSUME NEW d \in Calls, d # c PROVE call'[d] = call[d] /\ stage'[d] = stage[d]
    BY <1>0, <2>5, <2>7 DEF Moves, TypeOK
  <2>8. ASSUME NEW k \in Keys, k # key PROVE pendingMandates'[k] = pendingMandates[k]
    BY <1>0, <2>2, <2>8 DEF TypeOK
  <2>9. ASSUME NEW d \in Calls PROVE Tool(d)' = Tool(d)
    BY <2>4, <2>6, <2>7 DEF Tool
  <2>10. /\ \A x \in Calls : call'[x].event.toolName = call[x].event.toolName
         /\ \A x \in Calls : call[x].toolCallId # NoKey => call'[x].toolCallId = call[x].toolCallId
    BY <2>1, <2>4, <2>6, <2>7
  <2>11. ASSUME NEW d \in Calls PROVE StageInv(d)' /\ ReportInv(d)'
    <3>1. CASE d = c
      BY <1>0, <1>1, <2>6, <3>1 DEF StageInv, ReportInv
    <3>2. CASE d # c
      BY <1>0, <1>1, <2>5, <3>2, OthersKept DEF IInv
    <3> QED BY <3>1, <3>2
  <2>12. ASSUME NEW d \in Calls PROVE KeyInv(d)'
    <3>0. KeyInv(d)
      BY DEF IInv
    <3>1. CASE d = c
      BY <1>1, <1>3, <2>3, <2>4, <2>6, <2>9, <3>0, <3>1 DEF KeyInv
    <3>2. CASE d # c
      <4>1. \A k \in Keys : \/ pendingMandates'[k] = pendingMandates[k]
                            \/ k = call[d].toolCallId => \E x \in Calls \ {d} : call'[x].toolCallId = k
        BY <2>4, <2>6, <2>8, <3>2
      <4> QED BY <1>1, <2>7, <2>10, <3>2, <4>1, OtherKeyKept
    <3> QED BY <3>1, <3>2
  <2>13. ASSUME NEW k \in Keys PROVE OwedInv(k)'
    <3>1. CASE k = key
      BY <1>1, <2>1, <2>4, <2>6, <3>1 DEF OwedInv
    <3>2. CASE k # key /\ pendingMandates[k] # NoMandate
      <4> DEFINE d == pendingMandates[k]
      <4>1. OwedInv(k) /\ d \in Calls
        <5>1. pendingMandates[k] \in Calls \cup {NoMandate}
          BY <1>0 DEF TypeOK
        <5> QED BY <3>2, <5>1 DEF IInv
      <4>2. k # NoKey /\ pendingMandates'[k] = d
        BY <2>8, <3>2, PluginAssumption DEF PluginAssumption, Keys
      <4>3. d # c
        BY <2>1, <3>2, <4>1, <4>2 DEF OwedInv
      <4> QED BY <1>1, <2>7, <2>10, <4>1, <4>2, <4>3, OtherOwedKept
    <3>3. CASE k # key /\ pendingMandates[k] = NoMandate
      <4>1. pendingMandates'[k] = NoMandate
        BY <2>8, <3>3
      <4> QED BY <4>1, Zenon DEF OwedInv
    <3> QED BY <3>1, <3>2, <3>3
  <2> QED BY <1>0, <2>11, <2>12, <2>13 DEF IInv
<1> QED BY <1>2, <1>3

LEMMA AfterInv ==
  ASSUME IInv, NEW c \in Calls, AfterToolCall(c)
  PROVE  IInv'
<1> DEFINE key == call[c].toolCallId
           m == pendingMandates[key]
           r == [call[c] EXCEPT !.verified = m, !.actual = Request(call[c].event, cwd)]
<1>0. TypeOK /\ TypeOK' /\ ProviderInv' /\ stage[c] = "ran" /\ call[c] \in CallType
  BY AfterType, ProviderStutters DEF IInv, AfterToolCall, TypeOK
<1>1. pc' = pc /\ exit' = exit /\ mandate' = mandate /\ verdict' = verdict /\ cwd' = cwd
  BY DEF AfterToolCall, providerVars
<1>2. StageInv(c) /\ ReportInv(c) /\ KeyInv(c) /\ pc[c] \in {"granted", "refused"}
  BY <1>0 DEF IInv, StageInv
\* Whatever becomes of c, it keeps its key and tool, and the other calls keep everything.
<1>3. ASSUME NEW q \in CallType, NEW to \in {"verifying", "done"}, Moves(c, q, to),
             q.toolCallId = key, q.event = call[c].event,
             (to = "verifying" /\ q.steady) => q.actual = q.touched,
             key # NoKey => /\ q.verified # NoMandate => q.verified \in Calls /\ Tool(q.verified) = Tool(c)
                            /\ Shared(c, key) \/ q.verified = c,
             \A k \in Keys : k # key => pendingMandates'[k] = pendingMandates[k],
             key \in Keys => pendingMandates'[key] = NoMandate
      PROVE  IInv'
  <2>1. call'[c] = q /\ stage'[c] = to
    BY <1>0, <1>3 DEF Moves, TypeOK
  <2>2. ASSUME NEW d \in Calls, d # c PROVE call'[d] = call[d] /\ stage'[d] = stage[d]
    BY <1>0, <1>3, <2>2 DEF Moves, TypeOK
  <2>3. ASSUME NEW d \in Calls PROVE Tool(d)' = Tool(d) /\ call'[d].toolCallId = call[d].toolCallId
    BY <1>3, <2>1, <2>2 DEF Tool
  <2>4. \A x \in Calls : /\ call'[x].toolCallId = call[x].toolCallId
                         /\ call'[x].event.toolName = call[x].event.toolName
    BY <1>3, <2>1, <2>2
  <2>5. ASSUME NEW d \in Calls PROVE StageInv(d)' /\ ReportInv(d)'
    <3>1. CASE d = c
      BY <1>1, <1>2, <1>3, <2>1, <3>1 DEF StageInv, ReportInv
    <3>2. CASE d # c
      BY <1>0, <1>1, <1>3, <3>2, OthersKept DEF IInv
    <3> QED BY <3>1, <3>2
  <2>6. ASSUME NEW d \in Calls PROVE KeyInv(d)'
    <3>0. KeyInv(d) /\ mandate'[d] = mandate[d] /\ Tool(d)' = Tool(d) /\ call'[d].toolCallId = call[d].toolCallId
      BY <1>1, <2>3 DEF IInv
    <3>1. CASE d = c
      <4>1. Shared(c, key) => \E x \in Calls \ {c} : call'[x].toolCallId = key
        BY <2>4 DEF Shared
      <4>2. (key # NoKey /\ q.verified # NoMandate) => call'[q.verified].event.toolName = Tool(c)
        BY <1>3, <2>4 DEF Tool
      <4>3. Tool(c)' = Tool(c) /\ call'[c].toolCallId = key /\ call'[c].verified = q.verified
        BY <1>3, <2>1, <2>3
      <4> QED BY <1>2, <1>3, <2>1, <3>0, <3>1, <4>1, <4>2, <4>3 DEF KeyInv, Shared, Tool
    <3>2. CASE d # c
      <4>1. \A k \in Keys : \/ pendingMandates'[k] = pendingMandates[k]
                            \/ k = call[d].toolCallId => \E x \in Calls \ {d} : call'[x].toolCallId = k
        BY <1>3, <2>4, <3>2
      <4> QED BY <1>1, <2>2, <2>4, <3>2, <4>1, OtherKeyKept
    <3> QED BY <3>1, <3>2
  <2>7. ASSUME NEW k \in Keys PROVE OwedInv(k)'
    <3>1. CASE pendingMandates'[k] = NoMandate
      BY <3>1 DEF OwedInv
    <3>2. CASE pendingMandates'[k] # NoMandate
      <4>1. k # key /\ pendingMandates'[k] = pendingMandates[k]
        BY <1>3, <3>2
      <4> DEFINE d == pendingMandates[k]
      <4>2. OwedInv(k) /\ d \in Calls
        BY <1>0, <3>2, <4>1 DEF IInv, TypeOK
      <4>3. d # c
        BY <3>2, <4>1, <4>2 DEF OwedInv
      <4> QED BY <1>1, <2>2, <2>4, <4>1, <4>2, <4>3, OtherOwedKept
    <3> QED BY <3>1, <3>2
  <2> QED BY <1>0, <2>5, <2>6, <2>7 DEF IInv
<1>4. CASE /\ PostVerify /\ key # NoKey /\ key \in Keys /\ m \in Calls
           /\ pendingMandates' = [pendingMandates EXCEPT ![key] = NoMandate]
           /\ call' = [call EXCEPT ![c] = r] /\ r \in CallType
           /\ stage' = [stage EXCEPT ![c] = "verifying"]
  <2>1. /\ r.toolCallId = key /\ r.event = call[c].event /\ r.verified = m
        /\ r.actual = Request(call[c].event, cwd) /\ r.touched = call[c].touched /\ r.steady = call[c].steady
    BY <1>0 DEF CallType
  <2>2. r.steady => r.actual = r.touched
    BY <1>0, <1>2, <2>1 DEF ReportInv
  <2>3. m # NoMandate /\ call[m].toolCallId = key /\ Tool(m) = Tool(c) /\ (m = c \/ Shared(c, key))
    <3>1. m # NoMandate
      BY <1>4, ProviderAssumption DEF ProviderAssumption
    <3>2. call[m].toolCallId = key
      BY <1>4, <3>1 DEF IInv, OwedInv
    <3>3. Tool(m) = key[1] /\ Tool(c) = key[1]
      BY <1>2, <1>4, <3>2 DEF IInv, KeyInv
    <3> QED BY <1>4, <3>1, <3>2, <3>3 DEF Shared
  <2>4. \A k \in Keys : k # key => pendingMandates'[k] = pendingMandates[k]
    BY <1>0, <1>4 DEF TypeOK
  <2>5. pendingMandates'[key] = NoMandate
    BY <1>0, <1>4 DEF TypeOK
  <2>6. Moves(c, r, "verifying")
    BY <1>4 DEF Moves
  <2> QED BY <1>3, <1>4, <2>1, <2>2, <2>3, <2>4, <2>5, <2>6
<1>5. CASE /\ ~PostVerify \/ key = NoKey \/ m = NoMandate
           /\ pendingMandates' = pendingMandates
           /\ call' = [call EXCEPT ![c] = Forgotten(c)]
           /\ stage' = [stage EXCEPT ![c] = "done"]
  <2> DEFINE q == Forgotten(c)
  <2>1. q \in CallType /\ q.toolCallId = key /\ q.event = call[c].event /\ q.verified = NoMandate
    BY <1>0, <1>2, ForgottenType DEF TypeOK, CallType, Forgotten, KeyInv
  <2>2. key = NoKey \/ m = NoMandate
    BY <1>2, <1>5 DEF KeyInv
  <2>3. key # NoKey => Shared(c, key)
    BY <1>0, <1>2, <2>2, ProviderAssumption DEF KeyInv, ProviderAssumption
  <2>4. key \in Keys => pendingMandates'[key] = NoMandate
    BY <1>5, <2>2, PluginAssumption DEF PluginAssumption, Keys
  <2>5. Moves(c, q, "done")
    BY <1>5 DEF Moves
  <2> QED BY <1>3, <1>5, <2>1, <2>3, <2>4, <2>5
<1> QED BY <1>0, <1>4, <1>5, AfterForm

--------------------------------------------------------------------------------
LEMMA StepInv == IInv /\ [Next]_vars => IInv'
<1> SUFFICES ASSUME IInv, [Next]_vars PROVE IInv'
  OBVIOUS
<1>0. TypeOK /\ ProviderInv
  BY DEF IInv
<1>1. CASE UNCHANGED vars
  <2>1. UNCHANGED providerVars /\ TypeOK'
    BY <1>0, <1>1 DEF vars, providerVars, TypeOK, ProviderTypeOK
  <2> QED BY <1>1, <2>1, ProviderStutters, BystandersKept DEF vars, IInv
<1>2. ASSUME NEW s \in Sessions, SessionStart(s) \/ SessionEnd(s) PROVE IInv'
  <2>1. UNCHANGED providerVars /\ TypeOK'
    BY <1>0, <1>2, SessionType DEF SessionStart, SessionEnd
  <2> QED BY <1>2, <2>1, ProviderStutters, BystandersKept DEF SessionStart, SessionEnd, IInv
<1>3. CASE Tick
  <2>1. UNCHANGED providerVars /\ TypeOK'
    BY <1>0, <1>3, PluginAssumption DEF Tick, TypeOK, ProviderTypeOK, providerVars, PluginAssumption
  <2> QED BY <1>3, <2>1, ProviderStutters, BystandersKept DEF Tick, IInv
<1>4. ASSUME NEW c \in Calls, GuardProgress(c) PROVE IInv'
  <2>1. GuardStep(c) /\ pc[c] # "new" /\ UNCHANGED pluginVars
    BY <1>4 DEF GuardProgress, GuardStep, Answer, AnswerAllow, AnswerDeny, AnswerFails, ExportSettles
  <2>2. TypeOK'
    BY <1>0, <2>1, ProviderTypeStep DEF TypeOK, pluginVars
  <2> QED BY <1>0, <2>1, <2>2, ProviderStep, BystandersKept DEF pluginVars
<1>5. CASE ChangeDir
  BY <1>5, ChangeDirInv
<1>6. ASSUME NEW c \in Calls, Hook(c) \/ RunTool(c) \/ Abort(c) PROVE IInv'
  BY <1>6, BeforeInv, AllowInv, BlockInv, AllowUnknownErrorInv, AfterInv, VerifyInv, RunInv, AbortInv DEF Hook
<1> QED BY <1>1, <1>2, <1>3, <1>4, <1>5, <1>6 DEF Next

\* The inductive invariant holds throughout, whatever the host does with sessions, aborts and parameters.
THEOREM Inductive == Spec => []IInv
BY InitInv, StepInv, PTL DEF Spec

\* Every variable keeps its type, for any calls, sessions, directories and behaviour of the host.
THEOREM TypeCorrect == Spec => []TypeOK
<1>1. IInv => TypeOK
  BY DEF IInv
<1> QED BY <1>1, Inductive, PTL

\* However sessions, aborts and calls overlap, a pending mandate is owed to an allowed call of the tool in its key.
THEOREM PendingAreOwed == Spec => []PendingIsOwed
<1>1. IInv => PendingIsOwed
  <2> SUFFICES ASSUME IInv, NEW k \in Keys, pendingMandates[k] # NoMandate
               PROVE  LET c == pendingMandates[k]
                      IN /\ Tool(c) = k[1] /\ call[c].toolCallId = k /\ verdict[c] = "allow"
                         /\ \/ stage[c] \in {"allowed", "ran", "aborted"}
                            \/ \E d \in Calls \ {c} : call[d].toolCallId = k
    BY DEF PendingIsOwed
  <2> DEFINE c == pendingMandates[k]
  <2>1. c \in Calls /\ OwedInv(k) /\ k # NoKey
    BY PluginAssumption DEF IInv, TypeOK, PluginAssumption, Keys
  <2>2. KeyInv(c)
    BY <2>1 DEF IInv
  <2> QED BY <2>1, <2>2 DEF OwedInv, KeyInv, Shared
<1> QED BY <1>1, Inductive, PTL

\* Verification never uses the mandate of another tool, and a call alone with its key is verified with its own.
THEOREM OwnMandateVerified == Spec => []VerifiesOwnMandate
<1>1. IInv => VerifiesOwnMandate
  <2> SUFFICES ASSUME IInv, NEW c \in Calls, stage[c] \in {"verifying", "done"}, call[c].toolCallId # NoKey
               PROVE  /\ call[c].verified # NoMandate => Tool(call[c].verified) = Tool(c)
                      /\ (\A d \in Calls \ {c} : call[d].toolCallId # call[c].toolCallId) => call[c].verified = c
    BY DEF VerifiesOwnMandate
  <2>1. KeyInv(c)
    BY DEF IInv
  <2> QED BY <2>1 DEF KeyInv, Shared
<1> QED BY <1>1, Inductive, PTL

\* A call verified with its own mandate passes exactly when the tool did what was authorized, whatever the host made of
\* its parameters, and whatever directory it moved to before the tool ran.
THEOREM VerdictsAreTrue == Spec => VerdictIsTrue
<1>1. ASSUME IInv, Next, NEW c \in Calls PROVE TrueVerdict(c)
  <2>0. TypeOK
    BY <1>1 DEF IInv
  <2>1. ASSUME VerifyAnswers(c), call[c].verified = c, call[c].steady, call'[c].outcome # "error"
        PROVE  call'[c].outcome = "verified" <=> call[c].touched = call[c].authorized
    <3>1. call[c].actual = call[c].touched
      BY <1>1, <2>1 DEF IInv, ReportInv, VerifyAnswers
    <3>2. PICK answer \in {IF call[c].actual = call[c].authorized THEN "verified" ELSE "mismatch", "error"} :
            call' = [call EXCEPT ![c] = [Forgotten(c) EXCEPT !.outcome = answer]]
      BY <2>1 DEF VerifyAnswers
    <3>3. Forgotten(c) \in CallType
      BY <2>0, ForgottenType DEF TypeOK
    <3>4. call'[c].outcome = answer
      BY <2>0, <3>2, <3>3 DEF TypeOK, CallType
    <3> QED BY <2>1, <3>1, <3>2, <3>4
  <2>2. ASSUME stage[c] = "verifying", stage'[c] = "done" PROVE VerifyAnswers(c)
    <3>1. ASSUME NEW d \in Calls, Hook(d) \/ GuardProgress(d) \/ RunTool(d) \/ Abort(d), ~VerifyAnswers(c) PROVE FALSE
      <4>1. CASE d = c
        BY <2>0, <2>2, <3>1, <4>1 DEF Hook, BeforeToolCall, Allow, Block, AllowUnknownError, AfterToolCall,
                                      GuardProgress, pluginVars, RunTool, Abort
      <4>2. CASE d # c
        <5>1. stage' = stage \/ \E to : stage' = [stage EXCEPT ![d] = to]
          BY <3>1 DEF Hook, BeforeToolCall, Allow, Block, AllowUnknownError, AfterToolCall, VerifyAnswers,
                      GuardProgress, pluginVars, RunTool, Abort
        <5> QED BY <2>0, <2>2, <4>2, <5>1 DEF TypeOK
      <4> QED BY <4>1, <4>2
    <3>2. ASSUME NEW s \in Sessions, SessionStart(s) \/ SessionEnd(s) PROVE FALSE
      BY <2>2, <3>2 DEF SessionStart, SessionEnd
    <3>3. ~Tick /\ ~ChangeDir
      BY <2>2 DEF Tick, ChangeDir
    <3> QED BY <1>1, <3>1, <3>2, <3>3 DEF Next
  <2> QED BY <2>1, <2>2 DEF TrueVerdict
<1>2. IInv /\ [Next]_vars => [\A c \in Calls : TrueVerdict(c)]_vars
  BY <1>1
<1> QED BY <1>2, Inductive, PTL DEF Spec, VerdictIsTrue

--------------------------------------------------------------------------------
(* The metrics, when the host runs one session at a time.  Calls that are     *)
(* still waiting when their session ends go on holding its objects.           *)

\* The calls of a tool that a session has begun, and those of them that were blocked.
Begun(t, s) == {c \in Calls : Tool(c) = t /\ call[c].session = s /\ stage[c] # "idle"}
Refused(t, s) == {c \in Begun(t, s) : stage[c] = "blocked"}

\* The open session is the current one, and no call is ahead of its session.
SessionInv ==
  /\ \A s \in Sessions : session[s] = "open" => s = currentSessionId
  /\ currentSessionId # NoSession => session[currentSessionId] = "open"
  /\ \A c \in Calls : stage[c] # "idle" => session[call[c].session] # "new"

\* Metrics objects are fresh until their call begins and belong to one tool; a hook in its await holds one of its tool,
\* and, for a call of the current session, the one in the map, unless a straggler has put its own there.
ObjectInv ==
  /\ \A c \in Calls : stage[c] = "idle" => object[c].count = 0 /\ object[c].blocked = 0
  /\ \A t \in Tools : toolCallMetrics[t] # NoObject =>
       stage[toolCallMetrics[t]] # "idle" /\ Tool(toolCallMetrics[t]) = t
  /\ \A c \in Calls : stage[c] = "authorizing" =>
       /\ call[c].metrics \in Calls
       /\ stage[call[c].metrics] # "idle" /\ Tool(call[c].metrics) = Tool(c)
       /\ (call[c].session = currentSessionId /\ Tool(c) \notin stragglers) =>
            toolCallMetrics[Tool(c)] = call[c].metrics

CountInv(t) ==
  LET m == toolCallMetrics[t]
  IN IF m = NoObject THEN Begun(t, currentSessionId) = {}
     ELSE /\ object[m].count = Cardinality(Begun(t, currentSessionId))
          /\ object[m].blocked = Cardinality(Refused(t, currentSessionId))

MetricsInv == /\ SessionInv
              /\ ObjectInv
              /\ currentSessionId # NoSession => \A t \in Tools \ stragglers : CountInv(t)

\* A step that begins no call, blocks none and touches neither the metrics nor the sessions.
LEMMA MetricsKept ==
  ASSUME TypeOK, MetricsInv, UNCHANGED <<currentSessionId, stragglers, toolCallMetrics, object, session>>,
         \A c \in Calls : /\ Tool(c)' = Tool(c)
                          /\ call'[c].session = call[c].session
                          /\ call'[c].metrics = call[c].metrics
                          /\ stage'[c] = "idle" <=> stage[c] = "idle"
                          /\ stage'[c] = "blocked" <=> stage[c] = "blocked"
                          /\ stage'[c] = "authorizing" => stage[c] = "authorizing"
  PROVE  MetricsInv'
<1>1. SessionInv'
  BY DEF MetricsInv, SessionInv
<1>2. ObjectInv'
  <2>1. \A t \in Tools : toolCallMetrics[t] # NoObject => toolCallMetrics[t] \in Calls
    BY DEF TypeOK
  <2> QED BY <2>1 DEF MetricsInv, ObjectInv
<1>3. ASSUME NEW t, NEW s PROVE Begun(t, s)' = Begun(t, s) /\ Refused(t, s)' = Refused(t, s)
  <2>1. Begun(t, s)' = Begun(t, s)
    BY DEF Begun
  <2> QED BY <2>1 DEF Begun, Refused
<1>4. ASSUME NEW t \in Tools \ stragglers, currentSessionId # NoSession PROVE CountInv(t)'
  BY <1>3, <1>4 DEF MetricsInv, CountInv
<1> QED BY <1>1, <1>2, <1>4 DEF MetricsInv

\* A session starts with nothing counted and nothing to count.
LEMMA SessionMetrics ==
  ASSUME TypeOK, MetricsInv, HostSessions = "sequential", NEW s \in Sessions, SessionStart(s) \/ SessionEnd(s)
  PROVE  MetricsInv'
<1>1. /\ toolCallMetrics' = [t \in Tools |-> NoObject]
      /\ UNCHANGED <<call, stage, object>>
  BY DEF SessionStart, SessionEnd, HostStarts, HostEnds
<1>2. \A c \in Calls : call[c].session \in Sessions
  BY DEF TypeOK, CallType
\* No call that has begun is of the session that starts, or of none.
<1>3. ASSUME \A c \in Calls : stage[c] # "idle" => call[c].session # currentSessionId' PROVE ObjectInv'
  BY <1>1, <1>3 DEF MetricsInv, ObjectInv, Tool
<1>4. CASE SessionStart(s)
  <2>1. /\ currentSessionId' = s /\ session' = [session EXCEPT ![s] = "open"] /\ session[s] = "new"
        /\ \A r \in Sessions : session[r] # "open"
    BY <1>4 DEF SessionStart, HostStarts
  <2>2. SessionInv'
    BY <1>1, <1>2, <2>1 DEF MetricsInv, SessionInv, TypeOK
  <2>3. \A c \in Calls : stage[c] # "idle" => call[c].session # s
    BY <2>1 DEF MetricsInv, SessionInv
  <2>4. ASSUME NEW t \in Tools PROVE Begun(t, currentSessionId)' = {} /\ toolCallMetrics'[t] = NoObject
    BY <1>1, <2>1, <2>3 DEF Begun
  <2> QED BY <1>3, <2>1, <2>2, <2>3, <2>4 DEF MetricsInv, CountInv
<1>5. CASE SessionEnd(s)
  <2>1. currentSessionId' = NoSession /\ session' = [session EXCEPT ![s] = "ended"] /\ session[s] = "open"
    BY <1>5 DEF SessionEnd, HostEnds
  <2>2. SessionInv'
    BY <1>1, <1>2, <2>1 DEF MetricsInv, SessionInv, TypeOK
  <2>3. NoSession \notin Sessions
    BY PluginAssumption DEF PluginAssumption
  <2> QED BY <1>2, <1>3, <2>1, <2>2, <2>3 DEF MetricsInv
<1> QED BY <1>4, <1>5

LEMMA ObjectOwned ==
  ASSUME ObjectInv, NEW t \in Tools, toolCallMetrics[t] # NoObject
  PROVE  Tool(toolCallMetrics[t]) = t
BY Zenon DEF ObjectInv

LEMMA BeforeMetrics ==
  ASSUME TypeOK, MetricsInv, IsFiniteSet(Calls), NEW c \in Calls, BeforeToolCall(c)
  PROVE  MetricsInv'
<1> DEFINE t == Tool(c)
           s == call[c].session
           m == IF toolCallMetrics[t] = NoObject THEN c ELSE toolCallMetrics[t]
           r == [call[c] EXCEPT !.metrics = m, !.authorized = Request(call[c].event, cwd)]
<1>1. call[c] \in CallType /\ t \in Tools /\ m \in Calls /\ s \in Sessions /\ c # NoObject
  BY ToolType, PluginAssumption DEF TypeOK, CallType, PluginAssumption
<1>2. /\ stage[c] = "idle" /\ session[s] = "open" /\ UNCHANGED <<currentSessionId, stragglers, session>>
      /\ toolCallMetrics' = [toolCallMetrics EXCEPT ![t] = m]
      /\ object' = [object EXCEPT ![m] = [object[m] EXCEPT !.count = @ + 1]]
      /\ stage' = [stage EXCEPT ![c] = "authorizing"]
      /\ call' = [call EXCEPT ![c] = r]
  BY <1>1 DEF BeforeToolCall, TypeOK
<1>3. s = currentSessionId /\ s # NoSession
  BY <1>1, <1>2, PluginAssumption DEF MetricsInv, SessionInv, PluginAssumption
<1>4. r.event = call[c].event /\ r.session = s /\ r.metrics = m
  BY <1>1 DEF CallType
<1>5. /\ \A d \in Calls : Tool(d)' = Tool(d) /\ call'[d].session = call[d].session
      /\ \A d \in Calls \ {c} : call'[d] = call[d] /\ stage'[d] = stage[d]
      /\ call'[c].metrics = m /\ stage'[c] = "authorizing"
  BY <1>2, <1>4 DEF TypeOK, Tool
<1>6. /\ \A d \in Calls \ {m} : object'[d] = object[d]
      /\ object'[m].count = object[m].count + 1 /\ object'[m].blocked = object[m].blocked
      /\ \A u \in Tools \ {t} : toolCallMetrics'[u] = toolCallMetrics[u] /\ toolCallMetrics[u] # m
      /\ toolCallMetrics'[t] = m
      /\ m = c \/ stage[m] # "idle"
  BY <1>1, <1>2 DEF TypeOK, MetricsInv, ObjectInv
<1>7. /\ s = call[c].session
      /\ t = Tool(c)
      /\ toolCallMetrics[t] = NoObject => m = c
      /\ toolCallMetrics[t] # NoObject => m = toolCallMetrics[t]
  BY Zenon
<1> HIDE DEF t, s, m, r
<1>8. Tool(m) = t
  <2>1. ObjectInv
    BY DEF MetricsInv
  <2> QED BY <1>1, <1>7, <2>1, ObjectOwned
<1>9. SessionInv'
  BY <1>2, <1>5, <1>7 DEF MetricsInv, SessionInv
<1>10. ObjectInv'
  <2>1. ASSUME NEW d \in Calls, stage'[d] = "idle" PROVE object'[d].count = 0 /\ object'[d].blocked = 0
    BY <1>5, <1>6, <2>1 DEF MetricsInv, ObjectInv
  <2>2. ASSUME NEW u \in Tools, toolCallMetrics'[u] # NoObject
        PROVE  stage'[toolCallMetrics'[u]] # "idle" /\ call'[toolCallMetrics'[u]].event.toolName = u
    <3>1. CASE u = t
      <4>1. call'[m].event.toolName = call[m].event.toolName /\ stage'[m] # "idle"
        BY <1>1, <1>5, <1>6 DEF Tool
      <4>2. toolCallMetrics'[u] = m
        BY <1>6, <3>1
      <4>3. call'[m].event.toolName = u
        BY <1>8, <3>1, <4>1 DEF Tool
      <4> QED BY <4>1, <4>2, <4>3
    <3>2. CASE u # t
      <4>1. toolCallMetrics'[u] = toolCallMetrics[u] /\ toolCallMetrics[u] \in Calls
        <5>1. toolCallMetrics'[u] = toolCallMetrics[u]
          BY <1>6, <3>2
        <5>2. toolCallMetrics[u] \in Calls \cup {NoObject}
          BY DEF TypeOK
        <5> QED BY <2>2, <5>1, <5>2
      <4>2. stage[toolCallMetrics[u]] # "idle" /\ Tool(toolCallMetrics[u]) = u
        <5>1. toolCallMetrics[u] # NoObject
          BY <2>2, <4>1
        <5> QED BY <5>1 DEF MetricsInv, ObjectInv
      <4>3. \A d \in Calls : /\ call'[d].event.toolName = call[d].event.toolName
                             /\ stage[d] # "idle" => stage'[d] # "idle"
        <5>1. ASSUME NEW d \in Calls PROVE call'[d].event.toolName = call[d].event.toolName
          BY <1>5 DEF Tool
        <5>2. ASSUME NEW d \in Calls, stage[d] # "idle" PROVE stage'[d] # "idle"
          BY <1>5, <5>2
        <5> QED BY <5>1, <5>2
      <4>4. stage'[toolCallMetrics[u]] # "idle" /\ call'[toolCallMetrics[u]].event.toolName = u
        BY <4>1, <4>2, <4>3 DEF Tool
      <4> QED BY <4>1, <4>4
    <3> QED BY <3>1, <3>2
  <2>3. ASSUME NEW d \in Calls PROVE stage'[d] = "idle" => stage[d] = "idle" /\ d # m
    BY <1>5, <1>6
  <2>4. ASSUME NEW d \in Calls, stage'[d] = "authorizing"
        PROVE  /\ call'[d].metrics \in Calls
               /\ stage'[call'[d].metrics] # "idle"
               /\ call'[call'[d].metrics].event.toolName = call'[d].event.toolName
               /\ (call'[d].session = currentSessionId' /\ call'[d].event.toolName \notin stragglers') =>
                    toolCallMetrics'[call'[d].event.toolName] = call'[d].metrics
    <3>0. \A e \in Calls : call'[e].event.toolName = Tool(e)
      BY <1>5 DEF Tool
    <3>1. CASE d = c
      BY <1>1, <1>5, <1>6, <1>7, <1>8, <2>3, <3>0, <3>1
    <3>2. CASE d # c
      <4>1. /\ Tool(d) \in Tools
            /\ call'[d] = call[d]
            /\ call[d].metrics \in Calls
            /\ stage[call[d].metrics] # "idle" /\ Tool(call[d].metrics) = Tool(d)
            /\ (call[d].session = currentSessionId /\ Tool(d) \notin stragglers) =>
                 toolCallMetrics[Tool(d)] = call[d].metrics
        BY <1>5, <2>4, <3>2, ToolType DEF TypeOK, MetricsInv, ObjectInv
      <4>2. NoObject \notin Calls
        BY PluginAssumption DEF PluginAssumption
      <4>3. (call[d].session = currentSessionId /\ Tool(d) \notin stragglers) =>
              toolCallMetrics'[Tool(d)] = call[d].metrics
        BY <1>6, <1>7, <4>1, <4>2
      <4> QED BY <1>2, <2>3, <3>0, <4>1, <4>3
    <3> QED BY <3>1, <3>2
  <2> QED BY <2>1, <2>2, <2>4 DEF ObjectInv, Tool
<1>11. ASSUME NEW u \in Tools \ stragglers PROVE CountInv(u)'
  <2>0. PICK sid \in Sessions : sid = currentSessionId /\ sid = s /\ sid # NoSession /\ currentSessionId' = sid
    BY <1>1, <1>2, <1>3
  <2>1. CASE u = t
    <3>1. Begun(u, sid)' = Begun(u, sid) \cup {c} /\ c \notin Begun(u, sid)
      BY <1>7, <1>2, <1>5, <2>0, <2>1 DEF Begun
    <3>2. Refused(u, sid)' = Refused(u, sid)
      BY <1>2, <1>5, <3>1 DEF Begun, Refused
    <3>3. IsFiniteSet(Begun(u, sid))
      BY FS_Subset DEF Begun
    <3>4. Cardinality(Begun(u, sid)') = Cardinality(Begun(u, sid)) + 1
      BY <3>1, <3>3, FS_AddElement
    <3>5. object[m].count = Cardinality(Begun(u, sid)) /\ object[m].blocked = Cardinality(Refused(u, sid))
      <4>1. CASE toolCallMetrics[t] # NoObject
        BY <1>7, <2>0, <2>1, <4>1 DEF MetricsInv, CountInv
      <4>2. CASE toolCallMetrics[t] = NoObject
        <5>1. Begun(u, sid) = {} /\ Refused(u, sid) = {}
          BY <2>0, <2>1, <4>2 DEF MetricsInv, CountInv, Refused
        <5>2. object[c].count = 0 /\ object[c].blocked = 0
          BY <1>2 DEF MetricsInv, ObjectInv
        <5> QED BY <1>7, <4>2, <5>1, <5>2, FS_EmptySet
      <4> QED BY <4>1, <4>2
    <3>6. toolCallMetrics'[u] = m /\ m # NoObject
      BY <1>1, <1>6, <2>1, PluginAssumption DEF PluginAssumption
    <3> QED BY <1>6, <2>0, <3>2, <3>4, <3>5, <3>6 DEF CountInv
  <2>2. CASE u # t
    <3>1. Begun(u, sid)' = Begun(u, sid)
      BY <1>7, <1>2, <1>5, <2>2 DEF Begun
    <3>2. Refused(u, sid)' = Refused(u, sid)
      BY <1>2, <1>5, <2>2, <3>1 DEF Begun, Refused
    <3>3. toolCallMetrics[u] # NoObject => object'[toolCallMetrics[u]] = object[toolCallMetrics[u]]
      BY <1>6, <2>2 DEF TypeOK
    <3> QED BY <1>6, <2>0, <2>2, <3>1, <3>2, <3>3 DEF MetricsInv, CountInv
  <2> QED BY <2>1, <2>2
<1> QED BY <1>2, <1>9, <1>10, <1>11 DEF MetricsInv

\* Blocking a call of the current session counts it; blocking a straggler may put another object into the map, and takes
\* the tool out of the account.
LEMMA BlockMetrics ==
  ASSUME TypeOK, MetricsInv, IsFiniteSet(Calls), NEW c \in Calls, Block(c)
  PROVE  MetricsInv'
<1> DEFINE t == Tool(c)
           s == call[c].session
           m == call[c].metrics
<1>1. t \in Tools /\ s \in Sessions /\ s # NoSession /\ NoObject \notin Calls
  BY ToolType, PluginAssumption DEF TypeOK, CallType, PluginAssumption
<1>2. /\ stage[c] = "authorizing" /\ UNCHANGED <<currentSessionId, session, call>>
      /\ toolCallMetrics' = [toolCallMetrics EXCEPT ![t] = m]
      /\ object' = [object EXCEPT ![m].blocked = @ + 1]
      /\ stage' = [stage EXCEPT ![c] = "blocked"]
      /\ stragglers' = IF s = currentSessionId THEN stragglers ELSE stragglers \cup {t}
  BY DEF Block
<1>3. /\ m \in Calls /\ stage[m] # "idle" /\ Tool(m) = t
      /\ (s = currentSessionId /\ t \notin stragglers) => toolCallMetrics[t] = m
  BY <1>2 DEF MetricsInv, ObjectInv
<1>4. \A u \in Tools : toolCallMetrics[u] # NoObject =>
        toolCallMetrics[u] \in Calls /\ stage[toolCallMetrics[u]] # "idle" /\ Tool(toolCallMetrics[u]) = u
  BY DEF TypeOK, MetricsInv, ObjectInv
<1>5. /\ \A d \in Calls \ {m} : object'[d] = object[d]
      /\ object'[m].count = object[m].count /\ object'[m].blocked = object[m].blocked + 1
      /\ \A d \in Calls : stage'[d] = IF d = c THEN "blocked" ELSE stage[d]
      /\ \A u \in Tools \ {t} : toolCallMetrics'[u] = toolCallMetrics[u] /\ toolCallMetrics[u] # m
      /\ toolCallMetrics'[t] = m
      /\ \A d \in Calls : Tool(d)' = Tool(d)
  BY <1>1, <1>2, <1>3, <1>4 DEF TypeOK, Tool
<1>6. t \notin stragglers' => s = currentSessionId /\ toolCallMetrics[t] = m
  BY <1>2, <1>3
<1>7. stragglers \subseteq stragglers'
  BY <1>2
<1>s. s = call[c].session /\ t = Tool(c)
  OBVIOUS
<1> HIDE DEF t, s, m
<1>8. SessionInv'
  BY <1>2, <1>5 DEF MetricsInv, SessionInv
<1>9. ObjectInv'
  <2>1. ASSUME NEW d \in Calls, stage'[d] = "idle" PROVE object'[d].count = 0 /\ object'[d].blocked = 0
    BY <1>3, <1>5, <2>1 DEF MetricsInv, ObjectInv
  <2>2. ASSUME NEW u \in Tools, toolCallMetrics'[u] # NoObject
        PROVE  stage'[toolCallMetrics'[u]] # "idle" /\ call'[toolCallMetrics'[u]].event.toolName = u
    BY <1>2, <1>3, <1>4, <1>5, <2>2 DEF Tool
  <2>3. ASSUME NEW d \in Calls, stage'[d] = "authorizing"
        PROVE  /\ call'[d].metrics \in Calls
               /\ stage'[call'[d].metrics] # "idle"
               /\ call'[call'[d].metrics].event.toolName = call'[d].event.toolName
               /\ (call'[d].session = currentSessionId' /\ call'[d].event.toolName \notin stragglers') =>
                    toolCallMetrics'[call'[d].event.toolName] = call'[d].metrics
    <3>1. /\ Tool(d) \in Tools
          /\ call[d].metrics \in Calls
          /\ stage[call[d].metrics] # "idle" /\ Tool(call[d].metrics) = Tool(d)
          /\ (call[d].session = currentSessionId /\ Tool(d) \notin stragglers) =>
               toolCallMetrics[Tool(d)] = call[d].metrics
      BY <1>5, <2>3, ToolType DEF TypeOK, MetricsInv, ObjectInv
    <3>2. /\ \A e \in Calls : call'[e].event.toolName = Tool(e)
          /\ call' = call /\ currentSessionId' = currentSessionId
          /\ stage'[call[d].metrics] # "idle"
      BY <1>2, <1>5, <3>1 DEF Tool
    <3>3. (call[d].session = currentSessionId /\ Tool(d) \notin stragglers') =>
            toolCallMetrics'[Tool(d)] = call[d].metrics
      BY <1>5, <1>6, <1>7, <3>1
    <3> QED BY <3>1, <3>2, <3>3
  <2> QED BY <2>1, <2>2, <2>3 DEF ObjectInv, Tool
<1>10. ASSUME currentSessionId # NoSession, NEW u \in Tools \ stragglers' PROVE CountInv(u)'
  <2>0. u \in Tools /\ CountInv(u) /\ currentSessionId' = currentSessionId
    BY <1>2, <1>7, <1>10 DEF MetricsInv
  <2>1. ASSUME NEW v, NEW r PROVE Begun(v, r)' = Begun(v, r)
    BY <1>2, <1>5 DEF Begun, Tool
  <2>2. CASE u = t
    <3>0. PICK sid \in Sessions : sid = currentSessionId /\ sid = s /\ currentSessionId' = sid
      BY <1>1, <1>6, <2>0, <2>2
    <3>1. Refused(u, sid)' = Refused(u, sid) \cup {c} /\ c \notin Refused(u, sid)
      BY <1>2, <1>5, <1>s, <2>1, <2>2, <3>0 DEF Begun, Refused
    <3>2. IsFiniteSet(Refused(u, sid))
      BY FS_Subset DEF Begun, Refused
    <3>3. Cardinality(Refused(u, sid)') = Cardinality(Refused(u, sid)) + 1
      BY <3>1, <3>2, FS_AddElement
    <3>4. /\ toolCallMetrics[u] = m /\ m # NoObject
          /\ object[m].count = Cardinality(Begun(u, sid)) /\ object[m].blocked = Cardinality(Refused(u, sid))
      BY <1>1, <1>3, <1>6, <2>0, <2>2, <3>0 DEF CountInv
    <3>5. toolCallMetrics'[u] = m
      BY <1>5, <2>2
    <3> QED BY <1>5, <2>1, <3>0, <3>3, <3>4, <3>5 DEF CountInv
  <2>3. CASE u # t
    <3>1. ASSUME NEW r PROVE Refused(u, r)' = Refused(u, r)
      BY <1>2, <1>5, <1>s, <2>1, <2>3 DEF Begun, Refused
    <3>2. /\ toolCallMetrics'[u] = toolCallMetrics[u]
          /\ toolCallMetrics[u] # NoObject => object'[toolCallMetrics[u]] = object[toolCallMetrics[u]]
      BY <1>4, <1>5, <2>0, <2>3
    <3> QED BY <2>0, <2>1, <3>1, <3>2 DEF CountInv
  <2> QED BY <2>2, <2>3
<1> QED BY <1>2, <1>8, <1>9, <1>10 DEF MetricsInv

LEMMA MetricsInit == Init => MetricsInv
<1> SUFFICES ASSUME Init PROVE MetricsInv
  OBVIOUS
<1>1. \A c \in Calls : stage[c] = "idle" /\ object[c].count = 0 /\ object[c].blocked = 0
  BY DEF Init
<1>2. /\ \A t \in Tools : toolCallMetrics[t] = NoObject
      /\ \A s \in Sessions : session[s] = "new"
      /\ currentSessionId = NoSession
  BY DEF Init
<1> QED BY <1>1, <1>2 DEF MetricsInv, SessionInv, ObjectInv

LEMMA MetricsStep ==
  ASSUME HostSessions = "sequential", IsFiniteSet(Calls)
  PROVE  IInv /\ MetricsInv /\ [Next]_vars => MetricsInv'
<1> SUFFICES ASSUME IInv, MetricsInv, [Next]_vars PROVE MetricsInv'
  OBVIOUS
<1>0. TypeOK /\ TypeOK'
  BY StepInv DEF IInv
\* The steps MetricsKept speaks of.
<1>1. ASSUME NEW c \in Calls, NEW r \in CallType, NEW to, Moves(c, r, to),
             r.event.toolName = Tool(c), r.session = call[c].session, r.metrics = call[c].metrics,
             stage[c] \notin {"idle", "blocked"}, to \notin {"idle", "blocked", "authorizing"},
             UNCHANGED <<currentSessionId, stragglers, toolCallMetrics, object, session>>
      PROVE  MetricsInv'
  <2>1. call'[c] = r /\ stage'[c] = to /\ \A d \in Calls \ {c} : call'[d] = call[d] /\ stage'[d] = stage[d]
    BY <1>0, <1>1 DEF Moves, TypeOK
  <2>2. ASSUME NEW d \in Calls
        PROVE  /\ Tool(d)' = Tool(d)
               /\ call'[d].session = call[d].session
               /\ call'[d].metrics = call[d].metrics
               /\ stage'[d] = "idle" <=> stage[d] = "idle"
               /\ stage'[d] = "blocked" <=> stage[d] = "blocked"
               /\ stage'[d] = "authorizing" => stage[d] = "authorizing"
    BY <1>1, <2>1 DEF Tool
  <2> QED BY <1>0, <1>1, <2>2, MetricsKept
<1>2. CASE UNCHANGED vars \/ Tick \/ \E c \in Calls : GuardProgress(c)
  <2>1. UNCHANGED <<currentSessionId, stragglers, toolCallMetrics, object, session, call, stage>>
    BY <1>2 DEF vars, Tick, GuardProgress, pluginVars
  <2> QED BY <1>0, <2>1, MetricsKept DEF Tool
<1>3. CASE ChangeDir
  <2>1. UNCHANGED <<currentSessionId, stragglers, toolCallMetrics, object, session, stage>>
    BY <1>3 DEF ChangeDir
  <2>2. ASSUME NEW d \in Calls
        PROVE  /\ Tool(d)' = Tool(d)
               /\ call'[d].session = call[d].session
               /\ call'[d].metrics = call[d].metrics
    BY <1>0, <1>3 DEF ChangeDir, TypeOK, CallType, Tool
  <2> QED BY <1>0, <2>1, <2>2, MetricsKept
<1>4. ASSUME NEW s \in Sessions, SessionStart(s) \/ SessionEnd(s) PROVE MetricsInv'
  BY <1>0, <1>4, SessionMetrics
<1>5. ASSUME NEW c \in Calls, BeforeToolCall(c) PROVE MetricsInv'
  BY <1>0, <1>5, BeforeMetrics
<1>6. ASSUME NEW c \in Calls, Block(c) PROVE MetricsInv'
  BY <1>0, <1>6, BlockMetrics
<1>7. ASSUME NEW c \in Calls, Allow(c) PROVE MetricsInv'
  <2>1. call[c] \in CallType /\ <<Tool(c), now>> \in Keys
    BY <1>0, KeyType DEF TypeOK
  <2>2. \E r \in CallType : /\ Moves(c, r, "allowed")
                            /\ r.event = call[c].event /\ r.session = call[c].session /\ r.metrics = call[c].metrics
    <3>1. CASE call' = call
      BY <1>0, <1>7, <2>1, <3>1 DEF Moves, Allow, TypeOK
    <3>2. CASE call' = [call EXCEPT ![c].toolCallId = <<Tool(c), now>>]
      <4> DEFINE r == [call[c] EXCEPT !.toolCallId = <<Tool(c), now>>]
      <4>1. r \in CallType /\ r.event = call[c].event /\ r.session = call[c].session /\ r.metrics = call[c].metrics
        BY <2>1 DEF CallType
      <4>2. Moves(c, r, "allowed")
        BY <1>0, <1>7, <3>2 DEF Moves, Allow, TypeOK
      <4> QED BY <4>1, <4>2
    <3> QED BY <1>7, <3>1, <3>2 DEF Allow
  <2> QED BY <1>1, <1>7, <2>2 DEF Allow, Tool
<1>8. ASSUME NEW c \in Calls, AllowUnknownError(c) \/ Abort(c) PROVE MetricsInv'
  <2>1. \E to \in {"allowed", "aborted"} : Moves(c, call[c], to)
    BY <1>0, <1>8 DEF Moves, AllowUnknownError, Abort, TypeOK
  <2>2. call[c] \in CallType /\ stage[c] \in {"authorizing", "ran"}
    BY <1>0, <1>8 DEF AllowUnknownError, Abort, TypeOK
  <2> QED BY <1>1, <1>8, <2>1, <2>2 DEF AllowUnknownError, Abort, Tool
<1>9. ASSUME NEW c \in Calls, RunTool(c) PROVE MetricsInv'
  <2>1. PICK e \in Events : /\ e.toolName = Tool(c)
                            /\ call' = [call EXCEPT ![c] = [call[c] EXCEPT !.event = e, !.touched = Request(e, cwd)]]
                            /\ [call[c] EXCEPT !.event = e, !.touched = Request(e, cwd)] \in CallType
    BY <1>0, <1>9, RunForm
  <2> DEFINE r == [call[c] EXCEPT !.event = e, !.touched = Request(e, cwd)]
  <2>2. r.event = e /\ r.session = call[c].session /\ r.metrics = call[c].metrics
    BY <1>0 DEF TypeOK, CallType
  <2>3. Moves(c, r, "ran")
    BY <1>9, <2>1 DEF Moves, RunTool
  <2>4. stage[c] = "allowed" /\ UNCHANGED <<currentSessionId, stragglers, toolCallMetrics, object, session>>
    BY <1>9 DEF RunTool
  <2>5. r \in CallType /\ r.event.toolName = Tool(c)
    BY <2>1, <2>2
  <2> HIDE DEF r
  <2> QED BY <1>1, <2>2, <2>3, <2>4, <2>5
<1>10. ASSUME NEW c \in Calls, AfterToolCall(c) PROVE MetricsInv'
  <2>0. call[c] \in CallType
    BY <1>0 DEF TypeOK
  <2>1. \E r \in CallType, to \in {"verifying", "done"} :
           /\ Moves(c, r, to)
           /\ r.event = call[c].event /\ r.session = call[c].session /\ r.metrics = call[c].metrics
    <3> DEFINE r == [call[c] EXCEPT !.verified = pendingMandates[call[c].toolCallId],
                                    !.actual = Request(call[c].event, cwd)]
               q == Forgotten(c)
    <3>1. r.event = call[c].event /\ r.session = call[c].session /\ r.metrics = call[c].metrics
      BY <2>0 DEF CallType
    <3>2. q \in CallType /\ q.event = call[c].event /\ q.session = call[c].session /\ q.metrics = call[c].metrics
      BY <1>0, <2>0, ForgottenType DEF CallType, Forgotten, TypeOK
    <3>3. (r \in CallType /\ Moves(c, r, "verifying")) \/ Moves(c, q, "done")
      BY <1>0, <1>10, AfterForm DEF Moves
    <3> QED BY <3>1, <3>2, <3>3
  <2>2. stage[c] = "ran" /\ UNCHANGED <<currentSessionId, stragglers, toolCallMetrics, object, session>>
    BY <1>10 DEF AfterToolCall
  <2> QED BY <1>1, <2>1, <2>2 DEF Tool
<1>11. ASSUME NEW c \in Calls, VerifyAnswers(c) PROVE MetricsInv'
  <2>0. call[c] \in CallType
    BY <1>0 DEF TypeOK
  <2>1. PICK answer \in {"verified", "mismatch", "error"} :
          call' = [call EXCEPT ![c] = [Forgotten(c) EXCEPT !.outcome = answer]]
    BY <1>11 DEF VerifyAnswers
  <2> DEFINE r == [Forgotten(c) EXCEPT !.outcome = answer]
  <2>2. /\ r \in CallType
        /\ r.event = call[c].event /\ r.session = call[c].session /\ r.metrics = call[c].metrics
    BY <2>0 DEF CallType, Forgotten
  <2>3. Moves(c, r, "done")
    BY <1>11, <2>1 DEF Moves, VerifyAnswers
  <2>4. stage[c] = "verifying" /\ UNCHANGED <<currentSessionId, stragglers, toolCallMetrics, object, session>>
    BY <1>11 DEF VerifyAnswers
  <2>5. r.event.toolName = Tool(c)
    BY <2>2 DEF Tool
  <2> HIDE DEF r
  <2> QED BY <1>1, <2>2, <2>3, <2>4, <2>5
<1> QED BY <1>2, <1>3, <1>4, <1>5, <1>6, <1>7, <1>8, <1>9, <1>10, <1>11 DEF Next, Hook

\* With a host that ends one session before it begins the next, at any moment, the metrics of a tool, its count and its
\* blocked calls, are those of the tool's calls of the current session, however the calls overlap and whatever still
\* waits of earlier sessions, until such a call is blocked: from then on the tool is in stragglers.
THEOREM MetricsAreCounts ==
  ASSUME HostSessions = "sequential", IsFiniteSet(Calls)
  PROVE  Spec => []MetricsCountSession
<1>1. TypeOK /\ MetricsInv => MetricsCountSession
  <2> SUFFICES ASSUME TypeOK, MetricsInv, currentSessionId # NoSession, NEW t \in Tools \ stragglers
               PROVE  LET own == Begun(t, currentSessionId)
                          m == toolCallMetrics[t]
                      IN IF m = NoObject THEN own = {}
                         ELSE /\ object[m].count = Cardinality(own)
                              /\ object[m].blocked = Cardinality({c \in own : stage[c] = "blocked"})
    BY DEF MetricsCountSession, Begun
  <2> QED BY DEF MetricsInv, CountInv, Refused
<1>2. IInv => TypeOK
  BY DEF IInv
<1> QED BY <1>1, <1>2, MetricsInit, MetricsStep, Inductive, PTL DEF Spec

--------------------------------------------------------------------------------
\* With a sink that never throws (the plugin's own does not), the hooks implement ToolGuard: no tool runs that the
\* authority denied, and none that it allowed is turned away.
THEOREM HooksKeepPromise ==
  ASSUME SinkErrors = {}
  PROVE  Spec => KeepsPromise
<1>1. Init => Promise!Init
  <2> SUFFICES ASSUME Init PROVE Promise!Init
    OBVIOUS
  <2>1. ToolStatus = [c \in Calls |-> "waiting"]
    BY DEF Init, ToolStatus
  <2> QED BY <2>1 DEF Init, ProviderInit, Promise!Init
<1>2. ASSUME IInv, [Next]_vars PROVE [Promise!Next]_<<verdict, ToolStatus>>
  <2>0. TypeOK /\ ProviderInv
    BY <1>2 DEF IInv
  <2> DEFINE Status(x) == IF x \in {"idle", "authorizing", "allowed"} THEN "waiting"
                          ELSE IF x = "blocked" THEN "refused" ELSE "ran"
  <2>a. ToolStatus = [d \in Calls |-> Status(stage[d])] /\ ToolStatus' = [d \in Calls |-> Status(stage'[d])]
    BY DEF ToolStatus
  \* A step of call c that keeps the verdicts changes the status of no other tool.
  <2>b. ASSUME NEW c \in Calls, NEW to, stage' = [stage EXCEPT ![c] = to]
        PROVE  ToolStatus' = [ToolStatus EXCEPT ![c] = Status(to)]
    BY <2>0, <2>a, <2>b DEF TypeOK
  <2>c. ASSUME stage' = stage PROVE ToolStatus' = ToolStatus
    BY <2>a, <2>c
  <2>d. ASSUME NEW c \in Calls, NEW to, stage' = [stage EXCEPT ![c] = to], Status(to) = Status(stage[c])
        PROVE  ToolStatus' = ToolStatus
    BY <2>0, <2>a, <2>d DEF TypeOK
  <2>e. ASSUME NEW c \in Calls, GuardStep(c), stage[c] \in {"idle", "authorizing"}, ToolStatus' = ToolStatus
        PROVE  [Promise!Next]_<<verdict, ToolStatus>>
    <3>1. ToolStatus[c] = "waiting"
      BY <2>a, <2>e
    <3>2. CASE verdict' = verdict
      BY <2>e, <3>2
    <3>3. CASE verdict[c] = "none" /\ \E v \in Verdicts : verdict' = [verdict EXCEPT ![c] = v]
      <4>1. Promise!Answer(c)
        BY <2>e, <3>1, <3>3 DEF Promise!Answer, Promise!Verdicts, Verdicts
      <4> QED BY <4>1 DEF Promise!Next
    <3> QED BY <2>0, <2>e, <3>2, <3>3, VerdictOnce
  <2>1. CASE UNCHANGED vars
    BY <2>1, <2>c DEF vars
  <2>2. ASSUME NEW s \in Sessions, SessionStart(s) \/ SessionEnd(s) PROVE UNCHANGED <<verdict, ToolStatus>>
    BY <2>2, <2>c DEF SessionStart, SessionEnd, providerVars
  <2>3. ASSUME Tick \/ ChangeDir PROVE UNCHANGED <<verdict, ToolStatus>>
    BY <2>3, <2>c DEF Tick, ChangeDir, providerVars
  <2>4. ASSUME NEW c \in Calls, GuardProgress(c) PROVE [Promise!Next]_<<verdict, ToolStatus>>
    <3>1. GuardStep(c) /\ stage' = stage /\ pc[c] \notin {"new", "granted", "refused"}
      BY <2>4 DEF GuardProgress, pluginVars, GuardStep, Answer, AnswerAllow, AnswerDeny, AnswerFails, ExportSettles
    <3>2. stage[c] \in {"idle", "authorizing"}
      BY <1>2, <3>1 DEF IInv, StageInv
    <3> QED BY <2>c, <2>e, <3>1, <3>2
  <2>5. ASSUME NEW c \in Calls, BeforeToolCall(c) PROVE [Promise!Next]_<<verdict, ToolStatus>>
    <3>1. GuardStep(c) /\ stage[c] = "idle" /\ stage' = [stage EXCEPT ![c] = "authorizing"]
      BY <2>5 DEF BeforeToolCall, GuardStep
    <3> QED BY <2>d, <2>e, <3>1
  <2>6. ASSUME NEW c \in Calls, Allow(c) \/ AllowUnknownError(c) PROVE UNCHANGED <<verdict, ToolStatus>>
    <3>1. stage[c] = "authorizing" /\ stage' = [stage EXCEPT ![c] = "allowed"] /\ verdict' = verdict
      BY <2>6 DEF Allow, AllowUnknownError, providerVars
    <3> QED BY <2>d, <3>1
  <2>7. ASSUME NEW c \in Calls, Abort(c) \/ AfterToolCall(c) \/ VerifyAnswers(c)
        PROVE  UNCHANGED <<verdict, ToolStatus>>
    <3>1. PICK to \in {"aborted", "verifying", "done"} : stage' = [stage EXCEPT ![c] = to]
      BY <2>7 DEF Abort, AfterToolCall, VerifyAnswers
    <3>2. stage[c] \in {"ran", "verifying"} /\ verdict' = verdict
      BY <2>7 DEF Abort, AfterToolCall, VerifyAnswers, providerVars
    <3> QED BY <2>d, <3>1, <3>2
  <2>8. ASSUME NEW c \in Calls, Block(c) PROVE Promise!Next
    <3>1. stage[c] = "authorizing" /\ stage' = [stage EXCEPT ![c] = "blocked"] /\ verdict' = verdict
      BY <2>8 DEF Block, providerVars
    <3>2. verdict[c] # "allow"
      BY <2>0, <2>8, RefusedIsNotAllowed DEF Block
    <3>3. ToolStatus[c] = "waiting" /\ ToolStatus' = [ToolStatus EXCEPT ![c] = "refused"]
      BY <2>a, <2>b, <3>1
    <3>4. Promise!Refuse(c)
      BY <3>1, <3>2, <3>3 DEF Promise!Refuse
    <3> QED BY <3>4 DEF Promise!Next
  <2>9. ASSUME NEW c \in Calls, RunTool(c) PROVE Promise!Next
    <3>1. stage[c] = "allowed" /\ stage' = [stage EXCEPT ![c] = "ran"] /\ verdict' = verdict
      BY <2>9 DEF RunTool, providerVars
    <3>2. verdict[c] \in IF FailClosed THEN {"allow"} ELSE {"allow", "unavailable", "none"}
      <4>1. CASE pc[c] = "granted"
        BY <2>0, <4>1, GrantedIsPermitted
      <4>2. CASE pc[c] = "refused" /\ ~Blocks(exit[c])
        <5>1. CallInv(c) /\ verdict[c] \in Verdicts \cup {"none"}
          BY <2>0 DEF ProviderInv, ProviderTypeOK
        <5> QED BY <4>2, <5>1 DEF Blocks, CallInv, ExitFor, Verdicts
      <4> QED BY <1>2, <3>1, <4>1, <4>2 DEF IInv, StageInv
    <3>3. ToolStatus[c] = "waiting" /\ ToolStatus' = [ToolStatus EXCEPT ![c] = "ran"]
      BY <2>a, <2>b, <3>1
    <3>4. Promise!Run(c)
      BY <3>1, <3>2, <3>3 DEF Promise!Run
    <3> QED BY <3>4 DEF Promise!Next
  <2> QED BY <1>2, <2>1, <2>2, <2>3, <2>4, <2>5, <2>6, <2>7, <2>8, <2>9 DEF Next, Hook
<1> QED BY <1>1, <1>2, Inductive, PTL DEF Spec, KeepsPromise, Promise!Spec, Promise!vars
================================================================================

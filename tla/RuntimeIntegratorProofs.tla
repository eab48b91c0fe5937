------------------------ MODULE RuntimeIntegratorProofs ------------------------
(* Proofs about guarded handlers, for any number of calls, any number of      *)
(* registrations, either backend, failing open or closed.                     *)
(******************************************************************************)
EXTENDS RuntimeIntegrator, TLAPS

AnswerSet == {"allow", "deny", "unavailable"}

\* The verdicts that permit a layer.
Permits == IF FailClosed THEN {"allow"} ELSE {"allow", "unavailable"}

Permitted(s) == \A i \in DOMAIN s : s[i] \in Permits

\* What the answers of a call say about where it is.
Progress(c) ==
  /\ pc[c] \in {"new", "bypassed"} => answers[c] = <<>>
  /\ pc[c] = "asking" => Len(answers[c]) < depth[c] /\ Permitted(answers[c])
  /\ pc[c] \in {"granted", "ran"} => Len(answers[c]) = depth[c] /\ Permitted(answers[c])
  /\ pc[c] \in {"refused", "raised"} => Combined(c) # "allow"

\* register has left no tool unguarded, once it has returned.
Guarded == complete => \A t \in Tools : layers[t] # 0

\* No tool has more layers than register was called.
Layered == \A t \in Tools : layers[t] <= registers

IInv == TypeOK /\ Layered /\ Guarded /\ \A c \in Calls : Progress(c)

--------------------------------------------------------------------------------
\* A layer is opened only by a verdict that permits it, and every "allow" opens it.
LEMMA GrantsFacts ==
  ASSUME NEW r \in HttpResponses \cup LocalResponses
  PROVE  /\ Verdict(r) \in AnswerSet
         /\ Grants(SidecarAuthorize(r)) => Verdict(r) \in Permits
         /\ ~Grants(SidecarAuthorize(r)) => Verdict(r) # "allow"
BY PythonAssumption
   DEF HttpResponses, LocalResponses, Verdict, AnswerSet, Grants, SidecarAuthorize, Permits

LEMMA AppendFacts ==
  ASSUME NEW s \in Seq(AnswerSet), NEW v \in AnswerSet
  PROVE  /\ Append(s, v) \in Seq(AnswerSet)
         /\ Len(Append(s, v)) = Len(s) + 1
         /\ Append(s, v)[Len(s) + 1] = v
         /\ Len(s) + 1 \in DOMAIN Append(s, v)
         /\ Permitted(s) /\ v \in Permits => Permitted(Append(s, v))
<1>1. Append(s, v) \in Seq(AnswerSet) /\ Len(Append(s, v)) = Len(s) + 1 /\ Append(s, v)[Len(s) + 1] = v
  OBVIOUS
<1>2. DOMAIN Append(s, v) = 1 .. Len(s) + 1 /\ DOMAIN s = 1 .. Len(s) /\ Len(s) \in Nat
  OBVIOUS
<1>3. \A i \in 1 .. Len(s) : Append(s, v)[i] = s[i]
  OBVIOUS
<1>4. ASSUME Permitted(s), v \in Permits PROVE Permitted(Append(s, v))
  BY <1>1, <1>2, <1>3, <1>4 DEF Permitted
<1> QED BY <1>1, <1>2, <1>4

\* What answering a call can leave behind.
LEMMA AnswerForm ==
  ASSUME NEW c \in Calls, Answer(c), TypeOK
  PROVE  \E v \in AnswerSet, to \in {"asking", "granted", "refused"} :
           /\ answers' = [answers EXCEPT ![c] = Append(answers[c], v)]
           /\ pc' = [pc EXCEPT ![c] = to]
           /\ to = "asking" => v \in Permits /\ Len(answers[c]) + 1 < depth[c]
           /\ to = "granted" => v \in Permits /\ Len(answers[c]) + 1 = depth[c]
           /\ to = "refused" => v # "allow" \/ Len(answers[c]) + 1 < depth[c]
<1>1. PICK r \in Responses(backend) :
        /\ answers' = [answers EXCEPT ![c] = Append(@, Verdict(r))]
        /\ \/ Grants(SidecarAuthorize(r)) /\ Len(answers'[c]) < depth[c] /\ EnterLayer(c)
           \/ Grants(SidecarAuthorize(r)) /\ Len(answers'[c]) = depth[c] /\ pc' = [pc EXCEPT ![c] = "granted"]
           \/ ~Grants(SidecarAuthorize(r)) /\ pc' = [pc EXCEPT ![c] = "refused"]
  BY DEF Answer
<1>2. r \in HttpResponses \cup LocalResponses
  BY DEF Responses
<1> DEFINE v == Verdict(r)
<1>3. v \in AnswerSet /\ answers[c] \in Seq(AnswerSet)
  BY <1>2, GrantsFacts DEF TypeOK, AnswerSet
<1>4. answers'[c] = Append(answers[c], v) /\ answers' = [answers EXCEPT ![c] = Append(answers[c], v)]
  BY <1>1 DEF TypeOK
<1>5. Len(answers'[c]) = Len(answers[c]) + 1
  BY <1>3, <1>4, AppendFacts
<1>6. /\ Grants(SidecarAuthorize(r)) => v \in Permits
      /\ ~Grants(SidecarAuthorize(r)) => v # "allow"
  BY <1>2, GrantsFacts
<1> HIDE DEF v
<1>7. CASE Grants(SidecarAuthorize(r)) /\ Len(answers'[c]) < depth[c] /\ EnterLayer(c)
  BY <1>3, <1>4, <1>5, <1>6, <1>7 DEF EnterLayer
<1>8. CASE Grants(SidecarAuthorize(r)) /\ Len(answers'[c]) = depth[c] /\ pc' = [pc EXCEPT ![c] = "granted"]
  BY <1>3, <1>4, <1>5, <1>6, <1>8
<1>9. CASE ~Grants(SidecarAuthorize(r)) /\ pc' = [pc EXCEPT ![c] = "refused"]
  BY <1>3, <1>4, <1>5, <1>6, <1>9
<1> QED BY <1>1, <1>7, <1>8, <1>9

--------------------------------------------------------------------------------
\* A step of one call leaves the others alone.
LEMMA OthersUnchanged ==
  ASSUME TypeOK, NEW c \in Calls, CallStep(c), NEW d \in Calls, d # c
  PROVE  pc'[d] = pc[d] /\ answers'[d] = answers[d] /\ depth'[d] = depth[d] /\ tool' = tool
<1> USE DEF TypeOK
<1>1. CASE Invoke(c)
  BY <1>1 DEF Invoke, EnterLayer
<1>2. CASE Answer(c)
  BY <1>2, AnswerForm DEF Answer
<1>3. CASE Cancel(c) \/ Execute(c) \/ Raise(c)
  BY <1>3 DEF Cancel, Execute, Raise
<1> QED BY <1>1, <1>2, <1>3 DEF CallStep

\* A step of a call keeps its variables within their types and its answers in step with where it is.
LEMMA CallStepProgress ==
  ASSUME IInv, NEW c \in Calls, CallStep(c)
  PROVE  TypeOK' /\ Progress(c)'
<1> USE IntegratorAssumption
<1>0. TypeOK /\ Progress(c)
  BY DEF IInv
<1>1. CASE Invoke(c)
  <2>1. PICK to \in {"bypassed", "asking", "refused"} :
          /\ pc' = [pc EXCEPT ![c] = to]
          /\ to = "bypassed" <=> layers[tool[c]] = 0
    BY <1>0, <1>1 DEF Invoke, EnterLayer, TypeOK
  <2>2. /\ layers[tool[c]] \in 0 .. MaxRegisters
        /\ depth' = [depth EXCEPT ![c] = layers[tool[c]]]
        /\ answers[c] = <<>> /\ answers' = answers
    BY <1>0, <1>1 DEF Invoke, TypeOK, Progress
  <2>3. TypeOK'
    BY <1>0, <1>1, <2>1, <2>2 DEF Invoke, TypeOK
  <2>4. pc'[c] = to /\ depth'[c] = layers[tool[c]] /\ answers'[c] = <<>>
    BY <1>0, <2>1, <2>2 DEF TypeOK
  <2>5. Len(answers'[c]) = 0 /\ DOMAIN answers'[c] = {} /\ Permitted(answers'[c])
    BY <2>4 DEF Permitted
  <2>6. to # "bypassed" => Len(answers'[c]) < depth'[c] /\ Combined(c)' # "allow"
    BY <2>1, <2>2, <2>4, <2>5 DEF Combined
  <2> QED BY <2>1, <2>3, <2>4, <2>5, <2>6 DEF Progress
<1>2. CASE Answer(c)
  <2>1. PICK v \in AnswerSet, to \in {"asking", "granted", "refused"} :
           /\ answers' = [answers EXCEPT ![c] = Append(answers[c], v)]
           /\ pc' = [pc EXCEPT ![c] = to]
           /\ to = "asking" => v \in Permits /\ Len(answers[c]) + 1 < depth[c]
           /\ to = "granted" => v \in Permits /\ Len(answers[c]) + 1 = depth[c]
           /\ to = "refused" => v # "allow" \/ Len(answers[c]) + 1 < depth[c]
    BY <1>0, <1>2, AnswerForm
  <2>2. pc[c] = "asking" /\ depth' = depth /\ UNCHANGED <<backend, layers, registers, complete, tool>>
    BY <1>2 DEF Answer
  <2>3. Len(answers[c]) < depth[c] /\ Permitted(answers[c]) /\ answers[c] \in Seq(AnswerSet)
        /\ depth[c] \in 0 .. MaxRegisters /\ Len(answers[c]) \in Nat
    BY <1>0, <2>2 DEF Progress, TypeOK, AnswerSet
  <2>a. answers'[c] = Append(answers[c], v) /\ pc'[c] = to
    BY <1>0, <2>1 DEF TypeOK
  <2>4. /\ answers'[c] \in Seq(AnswerSet)
        /\ Len(answers'[c]) = Len(answers[c]) + 1
        /\ answers'[c][Len(answers[c]) + 1] = v
        /\ Len(answers[c]) + 1 \in DOMAIN answers'[c]
        /\ v \in Permits => Permitted(answers'[c])
        /\ pc'[c] = to
    BY <2>a, <2>3, AppendFacts
  <2>5. \A d \in Calls : d # c => answers'[d] = answers[d]
    BY <1>0, <2>1 DEF TypeOK
  <2>6. \A d \in Calls : Len(answers'[d]) <= depth'[d]
    <3>1. \A d \in Calls : Len(answers[d]) <= depth[d]
      BY <1>0 DEF TypeOK
    <3>2. Len(answers'[c]) <= depth'[c]
      BY <2>2, <2>3, <2>4
    <3> QED BY <2>2, <2>5, <3>1, <3>2
  <2>7. answers' \in [Calls -> Seq(AnswerSet)]
    BY <1>0, <2>1, <2>a, <2>4 DEF TypeOK, AnswerSet
  <2>8. TypeOK'
    BY <1>0, <2>1, <2>2, <2>6, <2>7 DEF TypeOK, AnswerSet
  <2>9. to = "refused" => Combined(c)' # "allow"
    <3> SUFFICES ASSUME to = "refused" PROVE Combined(c)' # "allow"
      OBVIOUS
    <3>1. CASE v = "deny"
      BY <2>4, <3>1 DEF Combined
    <3>2. CASE v = "unavailable"
      BY <2>4, <3>2 DEF Combined
    <3>3. CASE v = "allow"
      BY <2>1, <2>2, <2>3, <2>4, <3>3 DEF Combined
    <3> QED BY <3>1, <3>2, <3>3 DEF AnswerSet
  <2> QED BY <2>1, <2>2, <2>3, <2>4, <2>8, <2>9 DEF Progress
<1>3. CASE Cancel(c)
  <2>1. TypeOK' /\ pc'[c] = "refused" /\ answers' = answers /\ depth' = depth
    BY <1>0, <1>3 DEF Cancel, TypeOK
  <2>2. Len(answers[c]) < depth[c] /\ Len(answers[c]) \in Nat /\ depth[c] \in Nat
    BY <1>0, <1>3 DEF Cancel, Progress, TypeOK
  <2>3. Combined(c)' # "allow"
    BY <2>1, <2>2 DEF Combined
  <2> QED BY <2>1, <2>3 DEF Progress
<1>4. CASE Execute(c) \/ Raise(c)
  <2>1. TypeOK' /\ answers' = answers /\ depth' = depth
    BY <1>0, <1>4 DEF Execute, Raise, TypeOK
  <2>2. \/ pc[c] = "granted" /\ pc'[c] = "ran"
        \/ pc[c] = "refused" /\ pc'[c] = "raised"
    BY <1>0, <1>4 DEF Execute, Raise, TypeOK
  <2>3. Combined(c)' = Combined(c)
    BY <2>1, <2>2 DEF Combined
  <2> QED BY <1>0, <2>1, <2>2, <2>3 DEF Progress
<1> QED BY <1>1, <1>2, <1>3, <1>4 DEF CallStep

LEMMA ToolsFact == Tools = Wrapped(Len(ToolOrder)) /\ Len(ToolOrder) \in Nat
BY DEF Tools, Wrapped, ToolOrder

\* register keeps to its types, and never takes a layer off a tool.
LEMMA RegisterGuards ==
  ASSUME TypeOK, Layered, Guarded, Register
  PROVE  TypeOK' /\ Layered' /\ Guarded'
<1> USE IntegratorAssumption
<1>1. PICK n \in 0 .. Len(ToolOrder) :
        /\ layers' = [t \in Tools |-> IF t \in Wrapped(n) THEN layers[t] + 1 ELSE layers[t]]
        /\ complete' = (complete \/ n = Len(ToolOrder))
  BY DEF Register
<1>2. registers < MaxRegisters /\ registers' = registers + 1 /\ UNCHANGED <<backend, pc, tool, depth, answers>>
  BY DEF Register, callVars
<1>3. \A t \in Tools : /\ layers[t] \in Nat /\ layers[t] <= registers
                       /\ layers'[t] \in {layers[t], layers[t] + 1}
  BY <1>1 DEF TypeOK, Layered
<1>4. registers \in Nat /\ registers + 1 <= MaxRegisters
  BY <1>2 DEF TypeOK
<1>5. layers' \in [Tools -> 0 .. MaxRegisters] /\ Layered'
  BY <1>1, <1>2, <1>3, <1>4 DEF Layered
<1>6. complete' \in BOOLEAN
  BY <1>1 DEF TypeOK
<1>7. TypeOK'
  BY <1>2, <1>4, <1>5, <1>6 DEF TypeOK
<1>8. Guarded'
  <2>1. CASE complete
    BY <1>3, <2>1 DEF Guarded
  <2>2. CASE n = Len(ToolOrder)
    BY <1>1, <1>3, <2>2, ToolsFact DEF Guarded
  <2>3. CASE ~complete /\ n # Len(ToolOrder)
    BY <1>1, <2>3 DEF Guarded
  <2> QED BY <2>1, <2>2, <2>3
<1> QED BY <1>5, <1>7, <1>8

LEMMA IInvInit == Init => IInv
<1> SUFFICES ASSUME Init PROVE IInv
  OBVIOUS
<1> USE IntegratorAssumption DEF Init
<1>1. Layered /\ Guarded
  BY DEF Layered, Guarded
<1>2. \A c \in Calls : pc[c] = "new" /\ answers[c] = <<>> /\ depth[c] = 0
  OBVIOUS
<1>a. Len(<<>>) <= 0 /\ <<>> \in Seq({"allow", "deny", "unavailable"})
  OBVIOUS
<1>b. \A c \in Calls : Len(answers[c]) <= depth[c]
  BY <1>2, <1>a
<1>c. answers \in [Calls -> Seq({"allow", "deny", "unavailable"})]
  BY <1>a
<1>d. pc \in [Calls -> {"new", "asking", "granted", "refused", "ran", "raised", "bypassed"}]
  OBVIOUS
<1>e. /\ layers \in [Tools -> 0 .. MaxRegisters] /\ registers \in 0 .. MaxRegisters
      /\ depth \in [Calls -> 0 .. MaxRegisters]
  OBVIOUS
<1>3. TypeOK
  BY <1>b, <1>c, <1>d, <1>e DEF TypeOK
<1>4. \A c \in Calls : Progress(c)
  BY <1>2 DEF Progress
<1> QED BY <1>1, <1>3, <1>4 DEF IInv

LEMMA IInvStep == IInv /\ [Next]_vars => IInv'
<1> SUFFICES ASSUME IInv, [Next]_vars PROVE IInv'
  OBVIOUS
<1>0. TypeOK /\ Layered /\ Guarded /\ \A c \in Calls : Progress(c)
  BY DEF IInv
<1>1. CASE UNCHANGED vars
  BY <1>0, <1>1 DEF vars, IInv, TypeOK, Layered, Guarded, Progress, Combined
<1>2. CASE Register
  <2>1. UNCHANGED <<pc, answers, depth>>
    BY <1>2 DEF Register, callVars
  <2>2. \A c \in Calls : Progress(c)'
    BY <1>0, <2>1 DEF Progress, Combined
  <2> QED BY <1>0, <1>2, <2>2, RegisterGuards DEF IInv
<1>3. ASSUME NEW c \in Calls, CallStep(c) PROVE IInv'
  <2>1. TypeOK' /\ Progress(c)'
    BY <1>3, CallStepProgress
  <2>2. \A d \in Calls : d # c => Progress(d)'
    BY <1>0, <1>3, OthersUnchanged DEF Progress, Combined
  <2>3. UNCHANGED <<layers, registers, complete>>
    BY <1>3 DEF CallStep, Invoke, Answer, Cancel, Execute, Raise
  <2> QED BY <1>0, <2>1, <2>2, <2>3 DEF IInv, Layered, Guarded
<1> QED BY <1>1, <1>2, <1>3 DEF Next

\* Type correctness, and with it: no call is answered more often than its handler has layers.
THEOREM TypeCorrect == Spec => []TypeOK
<1>1. IInv => TypeOK
  BY DEF IInv
<1> QED BY <1>1, IInvInit, IInvStep, PTL DEF Spec

--------------------------------------------------------------------------------
\* Once register has returned, no call gets past the guards.
THEOREM NothingBypasses == Spec => NoBypass
<1>1. ASSUME IInv, [Next]_vars
      PROVE  [complete => \A c \in Calls : pc[c] # "bypassed" => pc'[c] # "bypassed"]_vars
  <2> SUFFICES ASSUME Next, complete, NEW d \in Calls, pc[d] # "bypassed" PROVE pc'[d] # "bypassed"
    BY <1>1
  <2>0. TypeOK /\ Guarded
    BY <1>1 DEF IInv
  <2>1. CASE Register
    BY <2>1 DEF Register, callVars
  <2>2. ASSUME NEW c \in Calls, CallStep(c) PROVE pc'[d] # "bypassed"
    <3>1. CASE d # c
      BY <2>0, <2>2, <3>1, OthersUnchanged
    <3>2. CASE d = c /\ Invoke(c)
      BY <2>0, <3>2 DEF Invoke, EnterLayer, Guarded, TypeOK
    <3>3. CASE d = c /\ Answer(c)
      BY <2>0, <3>3, AnswerForm DEF TypeOK
    <3>4. CASE d = c /\ (Cancel(c) \/ Execute(c) \/ Raise(c))
      BY <2>0, <3>4 DEF Cancel, Execute, Raise, TypeOK
    <3> QED BY <2>2, <3>1, <3>2, <3>3, <3>4 DEF CallStep
  <2> QED BY <2>1, <2>2 DEF Next
<1> QED BY <1>1, IInvInit, IInvStep, PTL DEF Spec, NoBypass

--------------------------------------------------------------------------------
(* The handlers implement ToolGuard.                                          *)

CombinedMap == [c \in Calls |-> Combined(c)]
StatusMap == [c \in Calls |-> ToolStatus(c)]

LEMMA PromiseInit == Init => Promise!Init
BY DEF Init, Promise!Init, Combined, ToolStatus

\* A step of one call changes both maps at most for this call.
LEMMA OthersMapUnchanged ==
  ASSUME IInv, NEW c \in Calls, CallStep(c)
  PROVE  /\ CombinedMap' = [CombinedMap EXCEPT ![c] = Combined(c)']
         /\ StatusMap' = [StatusMap EXCEPT ![c] = ToolStatus(c)']
<1>1. \A d \in Calls : d # c => Combined(d)' = Combined(d) /\ ToolStatus(d)' = ToolStatus(d)
  BY OthersUnchanged DEF IInv, Combined, ToolStatus
<1> QED BY <1>1 DEF CombinedMap, StatusMap

\* What a step of a call means in ToolGuard: nothing, an answer, a run, or a refusal.
LEMMA CallStepMeans ==
  ASSUME IInv, NEW c \in Calls, CallStep(c)
  PROVE  \/ /\ Combined(c) = "none" \/ Combined(c)' = Combined(c)
            /\ ToolStatus(c) = "waiting" /\ ToolStatus(c)' = "waiting"
         \/ /\ Combined(c)' = Combined(c)
            /\ ToolStatus(c) = "waiting"
            /\ \/ ToolStatus(c)' = "ran" /\ Combined(c) \in Permits
               \/ ToolStatus(c)' = "refused" /\ Combined(c) # "allow"
<1>0. TypeOK /\ Progress(c)
  BY DEF IInv
<1>1. CASE Invoke(c)
  BY <1>0, <1>1 DEF Invoke, EnterLayer, Combined, ToolStatus, TypeOK
<1>2. CASE Answer(c)
  <2>1. pc[c] = "asking" /\ pc'[c] \in {"asking", "granted", "refused"}
    BY <1>0, <1>2, AnswerForm DEF Answer, TypeOK
  <2> QED BY <2>1 DEF Combined, ToolStatus
<1>3. CASE Cancel(c)
  BY <1>0, <1>3 DEF Cancel, Combined, ToolStatus, TypeOK
<1>4. CASE Execute(c)
  <2>1. pc[c] = "granted" /\ pc'[c] = "ran" /\ answers' = answers /\ depth' = depth
    BY <1>0, <1>4 DEF Execute, TypeOK
  <2>2. Combined(c)' = Combined(c)
    BY <2>1 DEF Combined
  <2>3. Len(answers[c]) = depth[c] /\ \A i \in DOMAIN answers[c] : answers[c][i] \in Permits
    BY <1>0, <2>1 DEF Progress, Permitted
  <2>4. Combined(c) \in Permits
    BY <2>1, <2>3, PythonAssumption DEF Combined, Permits
  <2> QED BY <2>1, <2>2, <2>4 DEF ToolStatus
<1>5. CASE Raise(c)
  <2>1. pc[c] = "refused" /\ pc'[c] = "raised" /\ answers' = answers /\ depth' = depth
    BY <1>0, <1>5 DEF Raise, TypeOK
  <2>2. Combined(c)' = Combined(c) /\ Combined(c) # "allow"
    BY <1>0, <2>1 DEF Combined, Progress
  <2> QED BY <2>1, <2>2 DEF ToolStatus
<1> QED BY <1>1, <1>2, <1>3, <1>4, <1>5 DEF CallStep

LEMMA PromiseStep == IInv /\ [Next]_vars => [Promise!Next]_(Promise!vars)
<1> SUFFICES ASSUME IInv, [Next]_vars PROVE [Promise!Next]_(Promise!vars)
  OBVIOUS
<1> USE DEF Promise!vars
<1>1. CASE UNCHANGED vars
  BY <1>1 DEF vars, Combined, ToolStatus
<1>2. CASE Register
  BY <1>2 DEF Register, callVars, Combined, ToolStatus
<1>3. ASSUME NEW c \in Calls, CallStep(c) PROVE [Promise!Next]_(Promise!vars)
  <2>1. /\ CombinedMap' = [CombinedMap EXCEPT ![c] = Combined(c)']
        /\ StatusMap' = [StatusMap EXCEPT ![c] = ToolStatus(c)']
    BY <1>3, OthersMapUnchanged
  <2>2. CombinedMap[c] = Combined(c) /\ StatusMap[c] = ToolStatus(c)
    BY DEF CombinedMap, StatusMap
  <2>3. Combined(c)' \in AnswerSet \cup {"none"}
    BY DEF Combined, AnswerSet
  <2>4. CASE /\ Combined(c) = "none" \/ Combined(c)' = Combined(c)
             /\ ToolStatus(c) = "waiting" /\ ToolStatus(c)' = "waiting"
    <3>1. StatusMap' = StatusMap
      BY <2>1, <2>2, <2>4 DEF StatusMap
    <3>2. CASE Combined(c)' = Combined(c)
      <4>1. CombinedMap' = CombinedMap
        BY <2>1, <2>2, <3>2 DEF CombinedMap
      <4> QED BY <3>1, <4>1 DEF CombinedMap, StatusMap
    <3>3. CASE Combined(c) = "none" /\ Combined(c)' # "none"
      <4>1. Promise!Answer(c)
        BY <2>1, <2>2, <2>3, <2>4, <3>1, <3>3
           DEF Promise!Answer, Promise!Verdicts, AnswerSet, CombinedMap, StatusMap
      <4> QED BY <4>1 DEF Promise!Next
    <3> QED BY <2>4, <3>2, <3>3
  <2>5. CASE /\ Combined(c)' = Combined(c)
             /\ ToolStatus(c) = "waiting"
             /\ \/ ToolStatus(c)' = "ran" /\ Combined(c) \in Permits
                \/ ToolStatus(c)' = "refused" /\ Combined(c) # "allow"
    <3>1. CombinedMap' = CombinedMap
      BY <2>1, <2>2, <2>5 DEF CombinedMap
    <3>2. CASE ToolStatus(c)' = "ran" /\ Combined(c) \in Permits
      BY <2>1, <2>2, <2>5, <3>1, <3>2 DEF Promise!Run, Promise!Next, CombinedMap, StatusMap, Permits
    <3>3. CASE ToolStatus(c)' = "refused" /\ Combined(c) # "allow"
      BY <2>1, <2>2, <2>5, <3>1, <3>3 DEF Promise!Refuse, Promise!Next, CombinedMap, StatusMap
    <3> QED BY <2>5, <3>2, <3>3
  <2> QED BY <1>3, <2>4, <2>5, CallStepMeans
<1> QED BY <1>1, <1>2, <1>3 DEF Next

\* The guarded handlers implement ToolGuard, whatever the number of layers: a tool runs only if the answers of all
\* layers together permit it, and is not turned away if all of them allow it.
THEOREM HandlersKeepPromise == Spec => KeepsPromise
BY PromiseInit, PromiseStep, IInvInit, IInvStep, PTL DEF Spec, KeepsPromise, Promise!Spec
================================================================================

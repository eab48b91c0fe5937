------------------------- MODULE GuardedProviderProofs -------------------------
(* Facts about GuardedProvider that hold for every call site: what one step   *)
(* of a guarded call comes to, and ProviderInv, the inductive invariant that  *)
(* says per call how its position, its verdict, its exit and its events go    *)
(* together.  The proofs of ToolAdapter and SecureClawPlugin rest on it.      *)
(******************************************************************************)
EXTENDS GuardedProvider, TLAPS

\* The position of a call fixes what is known of its verdict and of the way authorize ends.
CallInv(c) ==
  /\ pc[c] \in {"new", "authorizing"} => verdict[c] = "none"
  /\ pc[c] = "exporting" => verdict[c] # "none" /\ exit[c] \notin {"none", "raw"}
  /\ pc[c] = "granted" => verdict[c] # "none" /\ Grants(exit[c])
  /\ pc[c] = "refused" => exit[c] # "none" /\ ~Grants(exit[c]) /\ (verdict[c] = "none" => exit[c] = "raw")
  /\ (verdict[c] # "none" /\ exit[c] = "allow") => verdict[c] = "allow"
  /\ (verdict[c] # "none" /\ SinkErrors = {}) => exit[c] = ExitFor(verdict[c])

\* How the events handed to the sink relate to the verdict and the exit.
TrailInv(c) ==
  /\ (told[c] = <<>>) <=> (verdict[c] = "none")
  /\ (verdict[c] # "none" /\ exit[c] = "allow") => LastTold(c) = "allow"
  /\ (verdict[c] # "none" /\ exit[c] = "unavailable") => LastTold(c) = "error"

\* The events of a call that the authority has answered, when the sink never throws.
EventInv(c) ==
  SinkErrors = {} => /\ told[c] = IF verdict[c] = "none" THEN <<>> ELSE <<EventFor(verdict[c])>>
                     /\ audited[c] = IF HasExporter THEN told[c] ELSE <<>>

ProviderInv == ProviderTypeOK /\ \A c \in Calls : CallInv(c) /\ TrailInv(c) /\ EventInv(c)

\* Appending makes a sequence nonempty and its last element the one appended.
LEMMA AppendFacts ==
  ASSUME NEW S, NEW s \in Seq(S), NEW e \in S
  PROVE  /\ Append(s, e) \in Seq(S)
         /\ Append(s, e) # <<>>
         /\ Append(s, e)[Len(Append(s, e))] = e
OBVIOUS

Positions == {"new", "authorizing", "exporting", "granted", "refused"}

\* What an emission comes to: the call's exit, position, telemetry and audit log are now x, p, t and a.
Emitted(c, x, p, t, a) ==
  /\ exit' = [exit EXCEPT ![c] = x]
  /\ pc' = [pc EXCEPT ![c] = p]
  /\ told' = [told EXCEPT ![c] = t]
  /\ audited' = [audited EXCEPT ![c] = a]

\* The position an exit leads to, directly or once the export has settled.
LeadsTo(x, p) == \/ p = "exporting" /\ x # "raw"
                 \/ p = IF Grants(x) THEN "granted" ELSE "refused"

\* emitDecisionEvent appends one outcome and leaves the call exporting or settled.
LEMMA EmitForm ==
  ASSUME ProviderTypeOK, NEW c \in Calls, NEW prior \in Seq(Outcomes), NEW o \in Outcomes,
         NEW x \in {"allow", "denied", "unavailable"}, Emit(c, prior, o, x)
  PROVE  \E p \in Positions : \E a \in Seq(Outcomes) :
            Emitted(c, x, p, Append(prior, o), a) /\ LeadsTo(x, p)
<1> USE DEF ProviderTypeOK
<1>1. audited[c] \in Seq(Outcomes) /\ Append(audited[c], o) \in Seq(Outcomes)
  BY AppendFacts
<1>2. CASE HasExporter
  <2>1. Emitted(c, x, "exporting", Append(prior, o), Append(audited[c], o))
    BY <1>2 DEF Emit, Emitted
  <2> QED BY <2>1, <1>1 DEF Positions, LeadsTo
<1>3. CASE ~HasExporter
  <2> DEFINE p == IF Grants(x) THEN "granted" ELSE "refused"
  <2>1. audited' = [audited EXCEPT ![c] = audited[c]]
    BY <1>3 DEF Emit
  <2>2. Emitted(c, x, p, Append(prior, o), audited[c])
    BY <1>3, <2>1 DEF Emit, Emitted, Leave
  <2>3. p \in Positions /\ LeadsTo(x, p)
    BY DEF Positions, LeadsTo
  <2> QED BY <1>1, <2>2, <2>3
<1> QED BY <1>2, <1>3

\* A throwing sink appends one outcome and ends the call with its error.
LEMMA SinkThrowsForm ==
  ASSUME ProviderTypeOK, NEW c \in Calls, NEW prior \in Seq(Outcomes), NEW o \in Outcomes,
         NEW x \in ErrorKinds, SinkThrows(c, prior, o, x)
  PROVE  \E p \in Positions : \E a \in Seq(Outcomes) :
            Emitted(c, x, p, Append(prior, o), a) /\ LeadsTo(x, p)
<1> USE DEF ProviderTypeOK
<1> DEFINE p == IF Grants(x) THEN "granted" ELSE "refused"
<1>1. audited[c] \in Seq(Outcomes) /\ audited' = [audited EXCEPT ![c] = audited[c]]
  BY DEF SinkThrows
<1>2. Emitted(c, x, p, Append(prior, o), audited[c])
  BY <1>1 DEF SinkThrows, Emitted, Leave
<1>3. p \in Positions /\ LeadsTo(x, p)
  BY DEF Positions, LeadsTo
<1> QED BY <1>1, <1>2, <1>3

\* How the verdict, the exit and the last event of an answered call go together.
Matching(v, x, t) ==
  /\ t # <<>>
  /\ t[Len(t)] \in Outcomes
  /\ x = "allow" => v = "allow" /\ t[Len(t)] = "allow"
  /\ x = "unavailable" => t[Len(t)] = "error"
  /\ SinkErrors = {} => x = ExitFor(v)

\* Whatever the sink does with the "error" event, the call ends with an error that event announces.
LEMMA EmitErrorForm ==
  ASSUME ProviderTypeOK, NEW c \in Calls, NEW prior \in Seq(Outcomes), EmitError(c, prior)
  PROVE  \E x \in ErrorKinds, p \in Positions, t \in Seq(Outcomes), a \in Seq(Outcomes) :
            /\ Emitted(c, x, p, t, a) /\ LeadsTo(x, p)
            /\ t = Append(prior, "error")
            /\ SinkErrors = {} => x = "unavailable"
<1>1. "error" \in Outcomes /\ "unavailable" \in {"allow", "denied", "unavailable"} /\ "unavailable" \in ErrorKinds
  BY DEF Outcomes, ErrorKinds
<1>2. Append(prior, "error") \in Seq(Outcomes)
  BY <1>1, AppendFacts
<1>3. CASE Emit(c, prior, "error", "unavailable")
  BY <1>1, <1>2, <1>3, EmitForm
<1>4. ASSUME NEW e \in ErrorKinds, SinkThrows(c, prior, "error", e)
      PROVE  \E x \in ErrorKinds, p \in Positions, t \in Seq(Outcomes), a \in Seq(Outcomes) :
                /\ Emitted(c, x, p, t, a) /\ LeadsTo(x, p)
                /\ t = Append(prior, "error")
                /\ SinkErrors = {} => x = "unavailable"
  <2>1. SinkErrors # {}
    BY <1>4 DEF SinkThrows
  <2> QED BY <1>1, <1>2, <1>4, <2>1, SinkThrowsForm
<1> QED BY <1>3, <1>4 DEF EmitError

\* The same for the event of a decision, whose emission may go wrong once or twice.
LEMMA EmitDecisionForm ==
  ASSUME ProviderTypeOK, NEW c \in Calls, NEW v \in {"allow", "deny"}, EmitDecision(c, v, ExitFor(v))
  PROVE  \E x \in ErrorKinds \cup {"allow"}, p \in Positions, t \in Seq(Outcomes), a \in Seq(Outcomes) :
            Emitted(c, x, p, t, a) /\ LeadsTo(x, p) /\ Matching(v, x, t)
<1> DEFINE x0 == ExitFor(v)
<1>1. /\ v \in Outcomes
      /\ x0 \in {"allow", "denied", "unavailable"}
      /\ x0 \in ErrorKinds \cup {"allow"}
      /\ x0 = "allow" => v = "allow"
      /\ x0 # "unavailable"
  BY DEF Outcomes, ErrorKinds, ExitFor
<1>2. told[c] \in Seq(Outcomes)
  BY DEF ProviderTypeOK
<1>3. /\ Append(told[c], v) \in Seq(Outcomes)
      /\ Append(told[c], v) # <<>>
      /\ Append(told[c], v)[Len(Append(told[c], v))] = v
  BY <1>1, <1>2, AppendFacts
<1>4. CASE Emit(c, told[c], v, x0)
  <2>1. Matching(v, x0, Append(told[c], v))
    BY <1>1, <1>3 DEF Matching
  <2> HIDE DEF x0
  <2>2. PICK p \in Positions, a \in Seq(Outcomes) : Emitted(c, x0, p, Append(told[c], v), a) /\ LeadsTo(x0, p)
    BY <1>1, <1>2, <1>4, EmitForm
  <2> QED BY <1>1, <1>3, <2>1, <2>2
<1>5. CASE SinkThrows(c, told[c], v, "denied")
  <2>1. SinkErrors # {} /\ "denied" \in ErrorKinds
    BY <1>5 DEF SinkThrows, ErrorKinds
  <2>2. Matching(v, "denied", Append(told[c], v))
    BY <1>1, <1>3, <2>1 DEF Matching
  <2> QED BY <1>1, <1>2, <1>3, <1>5, <2>1, <2>2, SinkThrowsForm
<1>6. CASE SinkErrors \ {"denied"} # {} /\ EmitError(c, Append(told[c], v))
  <2>1. PICK x \in ErrorKinds, p \in Positions, t \in Seq(Outcomes), a \in Seq(Outcomes) :
            /\ Emitted(c, x, p, t, a) /\ LeadsTo(x, p)
            /\ t = Append(Append(told[c], v), "error")
    BY <1>3, <1>6, EmitErrorForm
  <2>2. "error" \in Outcomes
    BY DEF Outcomes
  <2>3. t # <<>> /\ t[Len(t)] = "error"
    BY <1>3, <2>1, <2>2, AppendFacts
  <2>4. x # "allow" /\ SinkErrors # {}
    BY <1>6 DEF ErrorKinds
  <2>5. Matching(v, x, t)
    BY <2>2, <2>3, <2>4 DEF Matching
  <2> QED BY <2>1, <2>5
<1> QED BY <1>4, <1>5, <1>6 DEF EmitDecision

\* What an answer of the authority comes to, in one formula.
LEMMA AnswerForm ==
  ASSUME ProviderTypeOK, NEW c \in Calls, Answer(c)
  PROVE  \E v \in Verdicts, m \in Calls \cup {NoMandate}, x \in ErrorKinds \cup {"allow"},
            p \in Positions, t \in Seq(Outcomes), a \in Seq(Outcomes) :
            /\ pc[c] = "authorizing"
            /\ verdict' = [verdict EXCEPT ![c] = v]
            /\ mandate' = [mandate EXCEPT ![c] = m]
            /\ Emitted(c, x, p, t, a) /\ LeadsTo(x, p) /\ Matching(v, x, t)
<1>1. mandate[c] \in Calls \cup {NoMandate} /\ mandate = [mandate EXCEPT ![c] = mandate[c]]
  BY DEF ProviderTypeOK
<1>2. "allow" \in Verdicts /\ "deny" \in Verdicts /\ "unavailable" \in Verdicts
  BY DEF Verdicts
<1>3. CASE AnswerAllow(c)
  <2>1. PICK m \in {c, NoMandate} : mandate' = [mandate EXCEPT ![c] = m]
    BY <1>3 DEF AnswerAllow
  <2>2. PICK x \in ErrorKinds \cup {"allow"}, p \in Positions, t \in Seq(Outcomes), a \in Seq(Outcomes) :
          Emitted(c, x, p, t, a) /\ LeadsTo(x, p) /\ Matching("allow", x, t)
    BY <1>3, EmitDecisionForm DEF AnswerAllow, ExitFor
  <2> QED BY <1>2, <1>3, <2>1, <2>2 DEF AnswerAllow
<1>4. CASE AnswerDeny(c)
  <2>1. PICK x \in ErrorKinds \cup {"allow"}, p \in Positions, t \in Seq(Outcomes), a \in Seq(Outcomes) :
          Emitted(c, x, p, t, a) /\ LeadsTo(x, p) /\ Matching("deny", x, t)
    BY <1>4, EmitDecisionForm DEF AnswerDeny, ExitFor
  <2> QED BY <1>1, <1>2, <1>4, <2>1 DEF AnswerDeny
<1>5. CASE AnswerFails(c)
  <2>1. told[c] \in Seq(Outcomes) /\ "error" \in Outcomes
    BY DEF ProviderTypeOK, Outcomes
  <2>2. PICK x \in ErrorKinds, p \in Positions, t \in Seq(Outcomes), a \in Seq(Outcomes) :
            /\ Emitted(c, x, p, t, a) /\ LeadsTo(x, p)
            /\ t = Append(told[c], "error")
            /\ SinkErrors = {} => x = "unavailable"
    BY <1>5, <2>1, EmitErrorForm DEF AnswerFails
  <2>3. Matching("unavailable", x, t)
    BY <2>1, <2>2, AppendFacts DEF Matching, ErrorKinds, ExitFor
  <2> QED BY <1>1, <1>2, <1>5, <2>2, <2>3 DEF AnswerFails
<1> QED BY <1>3, <1>4, <1>5 DEF Answer

--------------------------------------------------------------------------------
LEMMA ProviderStart == ProviderInit => ProviderInv
BY DEF ProviderInit, ProviderInv, ProviderTypeOK, CallInv, TrailInv, EventInv

LEMMA ProviderStutters == ProviderInv /\ UNCHANGED providerVars => ProviderInv'
BY DEF providerVars, ProviderInv, ProviderTypeOK, CallInv, TrailInv, EventInv, LastTold

LEMMA ProviderTypeStep ==
  ASSUME ProviderTypeOK, NEW c \in Calls, GuardStep(c)
  PROVE  ProviderTypeOK'
<1>1. CASE Submit(c) \/ SubmitUnhashable(c) \/ ExportSettles(c)
  BY <1>1 DEF Submit, SubmitUnhashable, ExportSettles, Leave, ProviderTypeOK, ErrorKinds
<1>2. CASE Answer(c)
  <2>1. PICK v \in Verdicts, m \in Calls \cup {NoMandate}, x \in ErrorKinds \cup {"allow"},
             p \in Positions, t \in Seq(Outcomes), a \in Seq(Outcomes) :
          /\ verdict' = [verdict EXCEPT ![c] = v]
          /\ mandate' = [mandate EXCEPT ![c] = m]
          /\ Emitted(c, x, p, t, a)
    BY <1>2, AnswerForm
  <2>2. told' \in [Calls -> Seq(Outcomes)] /\ audited' \in [Calls -> Seq(Outcomes)]
    BY <2>1 DEF Emitted, ProviderTypeOK
  <2>3. pc' \in [Calls -> Positions] /\ exit' \in [Calls -> ErrorKinds \cup {"none", "allow"}]
    BY <2>1 DEF Emitted, ProviderTypeOK, Positions
  <2>4. verdict' \in [Calls -> Verdicts \cup {"none"}] /\ mandate' \in [Calls -> Calls \cup {NoMandate}]
    BY <2>1 DEF ProviderTypeOK
  <2> QED BY <2>2, <2>3, <2>4 DEF ProviderTypeOK, Positions
<1> QED BY <1>1, <1>2 DEF GuardStep

\* A step of one call leaves the others as they are, and a call whose guard has settled is through with it.
LEMMA OthersUnchanged ==
  ASSUME ProviderTypeOK, NEW c \in Calls, NEW d \in Calls, GuardStep(c),
         c # d \/ pc[d] \in {"granted", "refused"}
  PROVE  /\ pc'[d] = pc[d] /\ verdict'[d] = verdict[d] /\ exit'[d] = exit[d] /\ mandate'[d] = mandate[d]
         /\ told'[d] = told[d] /\ audited'[d] = audited[d]
<1> USE DEF ProviderTypeOK
<1>0. pc[c] \in {"new", "authorizing", "exporting"}
  BY DEF GuardStep, Submit, SubmitUnhashable, ExportSettles, Answer, AnswerAllow, AnswerDeny, AnswerFails
<1>1. CASE Submit(c) \/ SubmitUnhashable(c) \/ ExportSettles(c)
  BY <1>0, <1>1 DEF Submit, SubmitUnhashable, ExportSettles, Leave
<1>2. CASE Answer(c)
  BY <1>0, <1>2, AnswerForm DEF Emitted
<1> QED BY <1>1, <1>2 DEF GuardStep

\* The authority answers a call at most once.
LEMMA VerdictOnce ==
  ASSUME ProviderInv, NEW c \in Calls, GuardStep(c)
  PROVE  \/ verdict' = verdict
         \/ /\ verdict[c] = "none" /\ pc[c] = "authorizing"
            /\ \E v \in Verdicts : verdict' = [verdict EXCEPT ![c] = v]
<1>1. CASE Submit(c) \/ SubmitUnhashable(c) \/ ExportSettles(c)
  BY <1>1 DEF Submit, SubmitUnhashable, ExportSettles
<1>2. CASE Answer(c)
  <2>1. ProviderTypeOK /\ CallInv(c)
    BY DEF ProviderInv
  <2>2. PICK v \in Verdicts : pc[c] = "authorizing" /\ verdict' = [verdict EXCEPT ![c] = v]
    BY <1>2, <2>1, AnswerForm
  <2> QED BY <2>1, <2>2 DEF CallInv
<1> QED BY <1>1, <1>2 DEF GuardStep

\* With a sink that never throws, an answer appends its one event to telemetry, and to the audit log.
LEMMA AnswerEvent ==
  ASSUME ProviderInv, NEW c \in Calls, Answer(c), SinkErrors = {}
  PROVE  EventInv(c)'
<1>0. ProviderTypeOK /\ ProviderTypeOK' /\ CallInv(c) /\ EventInv(c)
  BY ProviderTypeStep DEF ProviderInv, GuardStep
<1>1. pc[c] = "authorizing" /\ told[c] = <<>> /\ audited[c] = <<>>
  BY <1>0 DEF Answer, AnswerAllow, AnswerDeny, AnswerFails, CallInv, EventInv
<1>2. ASSUME NEW v \in Verdicts, verdict' = [verdict EXCEPT ![c] = v], NEW x, Emit(c, told[c], EventFor(v), x)
      PROVE  EventInv(c)'
  <2>1. verdict'[c] = v /\ v # "none"
    BY <1>0, <1>2 DEF ProviderTypeOK, Verdicts
  <2>2. told'[c] = <<EventFor(v)>>
    BY <1>0, <1>1, <1>2 DEF Emit, ProviderTypeOK
  <2>3. audited'[c] = IF HasExporter THEN <<EventFor(v)>> ELSE <<>>
    BY <1>0, <1>1, <1>2 DEF Emit, ProviderTypeOK
  <2> QED BY <2>1, <2>2, <2>3 DEF EventInv
<1>3. CASE AnswerAllow(c)
  <2>1. verdict' = [verdict EXCEPT ![c] = "allow"] /\ Emit(c, told[c], "allow", "allow")
    BY <1>3 DEF AnswerAllow, EmitDecision, SinkThrows
  <2> QED BY <1>2, <2>1 DEF EventFor, Verdicts
<1>4. CASE AnswerDeny(c)
  <2>1. verdict' = [verdict EXCEPT ![c] = "deny"] /\ Emit(c, told[c], "deny", "denied")
    BY <1>4 DEF AnswerDeny, EmitDecision, SinkThrows
  <2> QED BY <1>2, <2>1 DEF EventFor, Verdicts
<1>5. CASE AnswerFails(c)
  <2>1. verdict' = [verdict EXCEPT ![c] = "unavailable"] /\ Emit(c, told[c], "error", "unavailable")
    BY <1>5 DEF AnswerFails, EmitError, SinkThrows
  <2> QED BY <1>2, <2>1 DEF EventFor, Verdicts
<1> QED BY <1>3, <1>4, <1>5 DEF Answer

LEMMA ProviderStep ==
  ASSUME ProviderInv, NEW c \in Calls, GuardStep(c)
  PROVE  ProviderInv'
<1>t. ProviderTypeOK /\ ProviderTypeOK'
  BY ProviderTypeStep DEF ProviderInv
<1>0. CallInv(c) /\ TrailInv(c) /\ EventInv(c) /\ pc[c] \in Positions
  BY <1>t DEF ProviderInv, ProviderTypeOK, Positions
<1>1. ASSUME NEW d \in Calls, d # c PROVE CallInv(d)' /\ TrailInv(d)' /\ EventInv(d)'
  <2>1. CallInv(d) /\ TrailInv(d) /\ EventInv(d)
    BY DEF ProviderInv
  <2> QED BY <1>t, <1>1, <2>1, OthersUnchanged DEF CallInv, TrailInv, EventInv, LastTold
<1>2. CASE Submit(c)
  BY <1>t, <1>0, <1>1, <1>2 DEF Submit, ProviderInv, CallInv, TrailInv, EventInv, LastTold, ProviderTypeOK
<1>3. CASE SubmitUnhashable(c)
  BY <1>t, <1>0, <1>1, <1>3
     DEF SubmitUnhashable, Leave, Grants, ProviderInv, CallInv, TrailInv, EventInv, LastTold, ProviderTypeOK
<1>4. CASE ExportSettles(c)
  BY <1>t, <1>0, <1>1, <1>4 DEF ExportSettles, Leave, ProviderInv, CallInv, TrailInv, EventInv, LastTold, ProviderTypeOK
<1>5. CASE Answer(c)
  <2>1. PICK v \in Verdicts, m \in Calls \cup {NoMandate}, x \in ErrorKinds \cup {"allow"},
             p \in Positions, t \in Seq(Outcomes), a \in Seq(Outcomes) :
          /\ verdict' = [verdict EXCEPT ![c] = v]
          /\ Emitted(c, x, p, t, a) /\ LeadsTo(x, p) /\ Matching(v, x, t)
    BY <1>t, <1>5, AnswerForm
  <2>2. verdict'[c] = v /\ exit'[c] = x /\ pc'[c] = p /\ told'[c] = t /\ v # "none" /\ x # "none"
    BY <1>t, <2>1 DEF Emitted, ProviderTypeOK, Verdicts, ErrorKinds
  <2>3. CallInv(c)'
    BY <2>1, <2>2 DEF CallInv, LeadsTo, Matching, Grants
  <2>4. TrailInv(c)'
    BY <2>1, <2>2 DEF TrailInv, Matching, LastTold
  <2>5. EventInv(c)'
    BY <1>5, AnswerEvent DEF EventInv
  <2> QED BY <1>t, <1>1, <2>3, <2>4, <2>5 DEF ProviderInv
<1> QED BY <1>2, <1>3, <1>4, <1>5 DEF GuardStep

--------------------------------------------------------------------------------
\* ProviderInv says that no call is granted without its event having been handed to the sink,
LEMMA GrantsAreTold == ProviderInv => NoSilentGrant
<1> SUFFICES ASSUME ProviderInv, NEW c \in Calls
             PROVE  /\ (told[c] = <<>>) <=> (verdict[c] = "none")
                    /\ pc[c] = "granted" => /\ told[c] # <<>>
                                           /\ LastTold(c) = IF exit[c] = "allow" THEN "allow" ELSE "error"
  BY DEF NoSilentGrant
<1>1. CallInv(c) /\ TrailInv(c)
  BY DEF ProviderInv
<1> QED BY <1>1 DEF CallInv, TrailInv, Grants

\* and, when the sink never throws, that the one event is that of the verdict.
LEMMA EventsAreFaithful ==
  ASSUME SinkErrors = {}
  PROVE  ProviderInv => OneFaithfulEvent
<1> SUFFICES ASSUME ProviderInv, NEW c \in Calls, verdict[c] # "none"
             PROVE  /\ told[c] = <<EventFor(verdict[c])>>
                    /\ audited[c] = IF HasExporter THEN told[c] ELSE <<>>
                    /\ exit[c] = ExitFor(verdict[c])
  BY DEF OneFaithfulEvent
<1> QED BY DEF ProviderInv, CallInv, EventInv

\* A settled guard whose caller may go on saw an answer that lets it, when the sink never throws.
LEMMA GrantedIsPermitted ==
  ASSUME ProviderInv, SinkErrors = {}, NEW c \in Calls, pc[c] = "granted"
  PROVE  verdict[c] \in IF FailClosed THEN {"allow"} ELSE {"allow", "unavailable"}
<1>1. CallInv(c) /\ verdict[c] \in Verdicts \cup {"none"}
  BY DEF ProviderInv, ProviderTypeOK
<1>2. Grants(ExitFor(verdict[c])) /\ verdict[c] # "none"
  BY <1>1 DEF CallInv
<1> QED BY <1>1, <1>2 DEF Grants, ExitFor, Verdicts

\* And one whose caller may not go on was not allowed to.
LEMMA RefusedIsNotAllowed ==
  ASSUME ProviderInv, SinkErrors = {}, NEW c \in Calls, pc[c] = "refused"
  PROVE  verdict[c] # "allow"
BY DEF ProviderInv, CallInv, Grants, ExitFor
================================================================================

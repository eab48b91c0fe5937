------------------------- MODULE CircuitBreakerProofs --------------------------
(* Proofs about the circuit breaker, for any number of callers, any           *)
(* thresholds and any number of retries.  Each method is shown to preserve    *)
(* Good, the type and the agreement of the counters, on its own; a step of    *)
(* withCircuitBreaker is a chain of methods, so it preserves Good as well,    *)
(* even when a listener's exception cuts the chain short.                     *)
(******************************************************************************)
EXTENDS CircuitBreaker, TLAPS

Good(b) == b \in BreakerType /\ Agrees(b)

\* A caller backs off only when it has a retry left, so that the attempt counter stays within its type.
RetriesLeft == \A c \in Callers : pc[c] = "sleeping" => attempt[c] < MaxRetries

IInv == TypeOK /\ CountersAgree /\ RetriesLeft

LEMMA CountFacts == ASSUME NEW n \in 0 .. MaxTotal PROVE Count(n) \in 0 .. MaxTotal
BY BreakerAssumption DEF Count

\* allowRequest leaves the fields good, and a request it refuses leaves the circuit open.
LEMMA AllowRequestGood ==
  ASSUME NEW b, Good(b), NEW bad
  PROVE  /\ Good(AllowRequest(b, bad).b)
         /\ AllowRequest(b, bad).allowed \in BOOLEAN
         /\ AllowRequest(b, bad).allowed <=> AllowRequest(b, bad).b.state # "open"
<1> USE BreakerAssumption DEF Good, Agrees, BreakerType, States, Never
<1>1. CASE b.state # "open"
  BY <1>1 DEF AllowRequest
<1>2. CASE b.state = "open" /\ ResetDue(b)
  BY <1>2 DEF AllowRequest, TransitionTo
<1>3. CASE b.state = "open" /\ ~ResetDue(b)
  BY <1>3, CountFacts DEF AllowRequest
<1> QED BY <1>1, <1>2, <1>3

\* recordSuccess leaves the fields good, also when the listener throws.
LEMMA RecordSuccessGood ==
  ASSUME NEW b, Good(b), NEW bad
  PROVE  Good(RecordSuccess(b, bad).b)
<1> USE BreakerAssumption DEF Good, Agrees, BreakerType, States, Never
<1>0. Count(b.totalSuccesses) \in 0 .. MaxTotal
  BY CountFacts
<1>1. CASE b.state = "closed"
  BY <1>0, <1>1 DEF RecordSuccess
<1>2. CASE b.state = "half_open"
  BY <1>0, <1>2 DEF RecordSuccess, TransitionTo
<1>3. CASE b.state = "open"
  BY <1>0, <1>3 DEF RecordSuccess
<1> QED BY <1>1, <1>2, <1>3

\* recordFailure leaves the fields good, also when the listener throws.
LEMMA RecordFailureGood ==
  ASSUME NEW b, Good(b), NEW bad
  PROVE  Good(RecordFailure(b, bad).b)
<1> USE BreakerAssumption DEF Good, Agrees, BreakerType, States, Never
<1>0. Count(b.totalFailures) \in 0 .. MaxTotal
  BY CountFacts
<1>1. CASE b.state = "closed"
  BY <1>0, <1>1 DEF RecordFailure, TransitionTo
<1>2. CASE b.state = "half_open"
  BY <1>0, <1>2 DEF RecordFailure, TransitionTo
<1>3. CASE b.state = "open"
  BY <1>0, <1>3 DEF RecordFailure
<1> QED BY <1>1, <1>2, <1>3

\* reset leaves the fields good, also when the listener throws.
LEMMA ResetGood ==
  ASSUME NEW b, Good(b), NEW bad
  PROVE  Good(TransitionTo(b, "closed", bad).b)
BY BreakerAssumption DEF Good, Agrees, BreakerType, States, Never, TransitionTo

--------------------------------------------------------------------------------
\* What a step may make of the variables other than the history.
Typed(b, q, n) == /\ Good(b)
                  /\ q \in [Callers -> InFlight \cup Ended]
                  /\ n \in [Callers -> 0 .. MaxRetries]
                  /\ \A c \in Callers : q[c] = "sleeping" => n[c] < MaxRetries

\* The catch block, entered with good fields, leaves good fields.
LEMMA CatchFailureGood ==
  ASSUME TypeOK, RetriesLeft, NEW c \in Callers, pc[c] = "calling", NEW b, Good(b), NEW bad, CatchFailure(c, b, bad)
  PROVE  Typed(breaker', pc', attempt')
<1> DEFINE f == RecordFailure(b, bad)
           a == AllowRequest(f.b, bad)
<1>1. Good(f.b) /\ Good(a.b)
  BY RecordFailureGood, AllowRequestGood
<1> HIDE DEF f, a
<1>2. breaker' \in {f.b, a.b}
  BY DEF CatchFailure, f, a
<1>3. \/ attempt' = attempt /\ pc' = [pc EXCEPT ![c] = "threw"]
      \/ attempt[c] < MaxRetries /\ attempt' = attempt /\ pc' = [pc EXCEPT ![c] = "sleeping"]
      \/ attempt[c] < MaxRetries /\ attempt' = [attempt EXCEPT ![c] = @ + 1] /\ pc' = pc
  BY DEF CatchFailure, Go
<1>5. pc' \in [Callers -> InFlight \cup Ended]
  BY <1>3 DEF TypeOK, InFlight, Ended
<1>6. attempt' \in [Callers -> 0 .. MaxRetries]
  BY <1>3, BreakerAssumption DEF TypeOK
<1>4. \A d \in Callers : pc'[d] = "sleeping" => attempt'[d] < MaxRetries
  BY <1>3, BreakerAssumption DEF TypeOK, RetriesLeft
<1> QED BY <1>1, <1>2, <1>4, <1>5, <1>6 DEF Typed

\* Every step of a caller leaves good fields.
LEMMA CallerStepGood ==
  ASSUME IInv, NEW c \in Callers, Enter(c) \/ Settle(c) \/ Wake(c)
  PROVE  Typed(breaker', pc', attempt')
<1> USE BreakerAssumption DEF IInv, CountersAgree
<1>0. Good(breaker) /\ TypeOK /\ RetriesLeft
  BY DEF Good, TypeOK
<1>1. CASE Enter(c)
  <2>1. PICK bad \in SUBSET ListenerThrows :
          /\ breaker' = AllowRequest(breaker, bad).b
          /\ \E to \in {"threw", "calling", "rejected"} : Go(c, to)
    BY <1>1 DEF Enter
  <2>2. Good(breaker')
    BY <1>0, <2>1, AllowRequestGood
  <2> QED BY <1>0, <1>1, <2>1, <2>2 DEF Enter, Go, Typed, TypeOK, RetriesLeft, InFlight, Ended
<1>2. CASE Succeed(c)
  <2>1. PICK bad \in SUBSET ListenerThrows :
          LET s == RecordSuccess(breaker, bad) IN
          \/ breaker' = s.b /\ (\E to \in {"returned", "threw"} : Go(c, to)) /\ UNCHANGED attempt
          \/ CatchFailure(c, s.b, bad)
    BY <1>2 DEF Succeed
  <2>2. Good(RecordSuccess(breaker, bad).b)
    BY <1>0, RecordSuccessGood
  <2>3. CASE CatchFailure(c, RecordSuccess(breaker, bad).b, bad)
    BY <1>0, <1>2, <2>2, <2>3, CatchFailureGood DEF Succeed
  <2>4. CASE /\ breaker' = RecordSuccess(breaker, bad).b
             /\ \E to \in {"returned", "threw"} : Go(c, to)
             /\ UNCHANGED attempt
    <3>1. attempt' \in [Callers -> 0 .. MaxRetries]
      BY <1>0, <2>4 DEF TypeOK
    <3>2. pc' \in [Callers -> InFlight \cup Ended]
      BY <1>0, <2>4 DEF Go, TypeOK, InFlight, Ended
    <3>3. \A d \in Callers : pc'[d] = "sleeping" => attempt'[d] < MaxRetries
      BY <1>0, <2>4 DEF Go, TypeOK, RetriesLeft
    <3> QED BY <2>2, <2>4, <3>1, <3>2, <3>3 DEF Typed
  <2> QED BY <2>1, <2>3, <2>4
<1>3. CASE Fail(c)
  BY <1>0, <1>3, CatchFailureGood DEF Fail
<1>4. CASE FailUncounted(c) \/ Wake(c)
  <2>1. pc' \in [Callers -> InFlight \cup Ended]
    BY <1>0, <1>4 DEF FailUncounted, Wake, Go, TypeOK, InFlight, Ended
  <2>2. attempt' \in [Callers -> 0 .. MaxRetries]
    BY <1>0, <1>4 DEF FailUncounted, Wake, TypeOK, RetriesLeft
  <2>3. \A d \in Callers : pc'[d] = "sleeping" => attempt'[d] < MaxRetries
    BY <1>0, <1>4 DEF FailUncounted, Wake, Go, TypeOK, RetriesLeft
  <2> QED BY <1>0, <1>4, <2>1, <2>2, <2>3 DEF FailUncounted, Wake, Typed, TypeOK
<1> QED BY <1>1, <1>2, <1>3, <1>4 DEF Settle

LEMMA StreakStep ==
  ASSUME TypeOK, NEW c \in Callers, Enter(c) \/ Settle(c) \/ Wake(c)
  PROVE  streak' \in -FailureThreshold .. SuccessThreshold
<1> USE BreakerAssumption DEF TypeOK
<1>1. CASE Enter(c) \/ FailUncounted(c) \/ Wake(c)
  BY <1>1 DEF Enter, FailUncounted, Wake
<1>2. CASE Succeed(c)
  BY <1>2 DEF Succeed
<1>3. CASE Fail(c)
  BY <1>3 DEF Fail
<1> QED BY <1>1, <1>2, <1>3 DEF Settle

OutcomesType == [successes : 0 .. MaxTotal, failures : 0 .. MaxTotal]

LEMMA OutcomesStep ==
  ASSUME TypeOK, NEW c \in Callers, Enter(c) \/ Settle(c) \/ Wake(c)
  PROVE  outcomes' \in OutcomesType
<1>1. Count(outcomes.successes) \in 0 .. MaxTotal /\ Count(outcomes.failures) \in 0 .. MaxTotal
  BY CountFacts DEF TypeOK
<1>2. CASE Enter(c) \/ FailUncounted(c) \/ Wake(c)
  BY <1>2 DEF Enter, FailUncounted, Wake, TypeOK, OutcomesType
<1>3. CASE Succeed(c)
  BY <1>1, <1>3 DEF Succeed, TypeOK, OutcomesType
<1>4. CASE Fail(c)
  BY <1>1, <1>4 DEF Fail, TypeOK, OutcomesType
<1> QED BY <1>2, <1>3, <1>4 DEF Settle

LEMMA IInvInit == Init => IInv
<1> SUFFICES ASSUME Init PROVE IInv
  OBVIOUS
<1> USE BreakerAssumption DEF Init
<1>1. breaker \in BreakerType
  BY DEF BreakerType, States, Never
<1>4. outcomes \in OutcomesType
  BY DEF OutcomesType
<1>2. TypeOK
  BY <1>1, <1>4 DEF TypeOK, InFlight, Ended, OutcomesType
<1>3. CountersAgree /\ RetriesLeft
  BY DEF CountersAgree, Agrees, RetriesLeft, Never
<1> QED BY <1>2, <1>3 DEF IInv

LEMMA IInvStep == IInv /\ [Next]_vars => IInv'
<1> SUFFICES ASSUME IInv, [Next]_vars PROVE IInv'
  OBVIOUS
<1> USE BreakerAssumption
<1>0. Good(breaker) /\ TypeOK /\ RetriesLeft
  BY DEF IInv, Good, TypeOK, CountersAgree
<1>1. CASE UNCHANGED vars
  BY <1>1 DEF vars, IInv, TypeOK, CountersAgree, RetriesLeft
<1>2. ASSUME NEW c \in Callers, Enter(c) \/ Settle(c) \/ Wake(c) PROVE IInv'
  <2>1. Typed(breaker', pc', attempt')
    BY <1>2, CallerStepGood
  <2>2. streak' \in -FailureThreshold .. SuccessThreshold
    BY <1>0, <1>2, StreakStep
  <2>3. outcomes' \in OutcomesType
    BY <1>0, <1>2, OutcomesStep
  <2> QED BY <2>1, <2>2, <2>3 DEF OutcomesType, Typed, Good, IInv, TypeOK, CountersAgree, RetriesLeft
<1>3. CASE Reset
  <2>1. PICK bad \in SUBSET ListenerThrows : breaker' = TransitionTo(breaker, "closed", bad).b
    BY <1>3 DEF Reset
  <2>2. Good(breaker')
    BY <1>0, <2>1, ResetGood
  <2> QED BY <1>0, <1>3, <2>2 DEF Reset, Good, IInv, TypeOK, CountersAgree, RetriesLeft
<1>4. CASE Tick
  <2>1. Good(breaker')
    BY <1>0, <1>4 DEF Tick, Good, Agrees, BreakerType, Never
  <2> QED BY <1>0, <1>4, <2>1 DEF Tick, Good, IInv, TypeOK, CountersAgree, RetriesLeft
<1> QED BY <1>1, <1>2, <1>3, <1>4 DEF Next

\* The fields, the callers and the history stay within their types; in particular no attempt counter exceeds
\* MaxRetries.
THEOREM TypeCorrect == Spec => []TypeOK
<1>1. IInv => TypeOK
  BY DEF IInv
<1> QED BY <1>1, IInvInit, IInvStep, PTL DEF Spec

\* State and counters agree in every reachable state, whatever the thresholds, the number of callers and retries,
\* and the transitions on which the listener throws.
THEOREM CountersAlwaysAgree == Spec => []CountersAgree
<1>1. IInv => CountersAgree
  BY DEF IInv
<1> QED BY <1>1, IInvInit, IInvStep, PTL DEF Spec

--------------------------------------------------------------------------------
(* The evidence on which the circuit opens and closes, for a listener that    *)
(* does not throw on closing.                                                 *)

\* The failures counted by a closed circuit, and the successes counted by a half-open one, are no more than fn's
\* latest outcomes in a row.
Evidence(b, s) ==
  /\ b.state = "closed" => b.failureCount = 0 \/ b.failureCount <= -s
  /\ b.state = "half_open" => b.successCount = 0 \/ b.successCount <= s

StreakRange == -FailureThreshold .. SuccessThreshold

AfterFailure(s) == IF s > 0 THEN -1 ELSE IF s > -FailureThreshold THEN s - 1 ELSE s
AfterSuccess(s) == IF s < 0 THEN 1 ELSE IF s < SuccessThreshold THEN s + 1 ELSE s

LEMMA AllowRequestEvidence ==
  ASSUME NEW b, Good(b), NEW s \in StreakRange, Evidence(b, s), NEW bad
  PROVE  LET a == AllowRequest(b, bad) IN
         /\ Evidence(a.b, s)
         /\ a.b.state = "closed" <=> b.state = "closed"
         /\ a.b.state = "open" => b.state = "open"
<1> USE BreakerAssumption DEF Good, Agrees, BreakerType, States, Never, Evidence, StreakRange
<1>1. CASE b.state # "open"
  BY <1>1 DEF AllowRequest
<1>2. CASE b.state = "open" /\ ResetDue(b)
  BY <1>2 DEF AllowRequest, TransitionTo
<1>3. CASE b.state = "open" /\ ~ResetDue(b)
  BY <1>3 DEF AllowRequest
<1> QED BY <1>1, <1>2, <1>3

LEMMA RecordFailureEvidence ==
  ASSUME NEW b, Good(b), NEW s \in StreakRange, Evidence(b, s), NEW bad
  PROVE  LET f == RecordFailure(b, bad) IN
         /\ AfterFailure(s) \in StreakRange
         /\ Evidence(f.b, AfterFailure(s))
         /\ f.b.state = "closed" => b.state = "closed"
         /\ b.state = "closed" /\ f.b.state = "open" => AfterFailure(s) = -FailureThreshold
<1> USE BreakerAssumption DEF Good, Agrees, BreakerType, States, Never, Evidence, StreakRange, AfterFailure
<1>1. CASE b.state = "closed"
  <2>1. CASE b.failureCount + 1 >= FailureThreshold
    BY <1>1, <2>1 DEF RecordFailure, TransitionTo
  <2>2. CASE b.failureCount + 1 < FailureThreshold
    BY <1>1, <2>2 DEF RecordFailure
  <2> QED BY <1>1, <2>1, <2>2
<1>2. CASE b.state = "half_open"
  BY <1>2 DEF RecordFailure, TransitionTo
<1>3. CASE b.state = "open"
  BY <1>3 DEF RecordFailure
<1> QED BY <1>1, <1>2, <1>3

LEMMA RecordSuccessEvidence ==
  ASSUME NEW b, Good(b), NEW s \in StreakRange, Evidence(b, s), NEW bad
  PROVE  LET r == RecordSuccess(b, bad) IN
         /\ AfterSuccess(s) \in StreakRange
         /\ Evidence(r.b, AfterSuccess(s))
         /\ r.b.state = "open" => b.state = "open"
         /\ b.state # "closed" /\ r.b.state = "closed" => AfterSuccess(s) = SuccessThreshold
         /\ r.raised => "closed" \in bad
<1> USE BreakerAssumption DEF Good, Agrees, BreakerType, States, Never, Evidence, StreakRange, AfterSuccess
<1>1. CASE b.state = "closed"
  BY <1>1 DEF RecordSuccess
<1>2. CASE b.state = "half_open"
  <2>1. CASE b.successCount + 1 >= SuccessThreshold
    BY <1>2, <2>1 DEF RecordSuccess, TransitionTo
  <2>2. CASE b.successCount + 1 < SuccessThreshold
    BY <1>2, <2>2 DEF RecordSuccess
  <2> QED BY <1>2, <2>1, <2>2
<1>3. CASE b.state = "open"
  BY <1>3 DEF RecordSuccess
<1> QED BY <1>1, <1>2, <1>3

EvidenceInv == IInv /\ Evidence(breaker, streak)

\* What a step does to the evidence, and what it takes to change the state of the circuit.
Justified ==
  /\ Evidence(breaker', streak')
  /\ breaker.state = "closed" /\ breaker'.state = "open" => streak' = -FailureThreshold
  /\ breaker.state # "closed" /\ breaker'.state = "closed" /\ pc' # pc => streak' = SuccessThreshold

LEMMA EvidenceStep ==
  ASSUME "closed" \notin ListenerThrows, EvidenceInv, [Next]_vars
  PROVE  Justified
<1>0. /\ Good(breaker) /\ Evidence(breaker, streak) /\ streak \in StreakRange
      /\ BreakerAssumption
  BY BreakerAssumption DEF EvidenceInv, IInv, Good, TypeOK, CountersAgree, StreakRange
<1>1. CASE UNCHANGED vars
  BY <1>0, <1>1 DEF vars, Justified
<1>2. ASSUME NEW c \in Callers, Enter(c) PROVE Justified
  <2>1. PICK bad \in SUBSET ListenerThrows : breaker' = AllowRequest(breaker, bad).b
    BY <1>2 DEF Enter
  <2>2. streak' = streak
    BY <1>2 DEF Enter
  <2> QED BY <1>0, <2>1, <2>2, AllowRequestEvidence DEF Justified
<1>3. ASSUME NEW c \in Callers, Succeed(c) PROVE Justified
  <2>1. PICK bad \in SUBSET ListenerThrows :
          \/ breaker' = RecordSuccess(breaker, bad).b
          \/ RecordSuccess(breaker, bad).raised
    BY <1>3 DEF Succeed
  <2>2. streak' = AfterSuccess(streak)
    BY <1>3 DEF Succeed, AfterSuccess
  <2> QED BY <1>0, <2>1, <2>2, RecordSuccessEvidence DEF Justified
<1>4. ASSUME NEW c \in Callers, Fail(c) PROVE Justified
  <2>1. PICK bad \in SUBSET ListenerThrows : CatchFailure(c, breaker, bad)
    BY <1>4 DEF Fail
  <2> DEFINE f == RecordFailure(breaker, bad)
             a == AllowRequest(f.b, bad)
  <2>2. streak' = AfterFailure(streak)
    BY <1>4 DEF Fail, AfterFailure
  <2>3. breaker' \in {f.b, a.b}
    BY <2>1 DEF CatchFailure
  <2>4. /\ Good(f.b) /\ AfterFailure(streak) \in StreakRange
        /\ Evidence(f.b, AfterFailure(streak))
        /\ f.b.state = "closed" => breaker.state = "closed"
        /\ breaker.state = "closed" /\ f.b.state = "open" => AfterFailure(streak) = -FailureThreshold
    BY <1>0, RecordFailureEvidence, RecordFailureGood
  <2> HIDE DEF f
  <2>5. /\ Evidence(a.b, AfterFailure(streak))
        /\ a.b.state = "closed" <=> f.b.state = "closed"
        /\ a.b.state = "open" => f.b.state = "open"
    BY <2>4, AllowRequestEvidence
  <2> HIDE DEF a
  <2> QED BY <2>2, <2>3, <2>4, <2>5 DEF Justified
<1>5. ASSUME NEW c \in Callers, FailUncounted(c) \/ Wake(c) PROVE Justified
  BY <1>0, <1>5 DEF FailUncounted, Wake, Justified
<1>6. CASE Reset
  <2>1. PICK bad \in SUBSET ListenerThrows : breaker' = TransitionTo(breaker, "closed", bad).b
    BY <1>6 DEF Reset
  <2>2. streak' = streak /\ pc' = pc
    BY <1>6 DEF Reset
  <2>3. breaker'.state = "closed" /\ (breaker' = breaker \/ breaker'.failureCount = 0)
    BY <1>0, <2>1 DEF TransitionTo, Good, BreakerType
  <2> QED BY <1>0, <2>2, <2>3 DEF Justified, Evidence
<1>7. CASE Tick
  <2>1. /\ breaker'.state = breaker.state /\ breaker'.failureCount = breaker.failureCount
        /\ breaker'.successCount = breaker.successCount /\ streak' = streak /\ pc' = pc
    BY <1>0, <1>7 DEF Tick, Good, BreakerType
  <2> QED BY <1>0, <2>1 DEF Justified, Evidence
<1> QED BY <1>1, <1>2, <1>3, <1>4, <1>5, <1>6, <1>7 DEF Next, Settle

LEMMA EvidenceInductive ==
  ASSUME "closed" \notin ListenerThrows
  PROVE  Spec => []EvidenceInv
<1>1. Init => EvidenceInv
  BY IInvInit DEF EvidenceInv, Evidence, Init
<1>2. EvidenceInv /\ [Next]_vars => EvidenceInv'
  BY EvidenceStep, IInvStep DEF EvidenceInv, Justified
<1> QED BY <1>1, <1>2, PTL DEF Spec

\* A closed circuit opens only after FailureThreshold outcomes in a row were failures: for any number of callers
\* whose calls settle in any order, as long as the listener does not throw on closing.
THEOREM OpensOnEvidence ==
  ASSUME "closed" \notin ListenerThrows
  PROVE  Spec => OpensOnConsecutiveFailures
<1>1. ASSUME EvidenceInv, [Next]_vars
      PROVE  [breaker.state = "closed" /\ breaker'.state = "open" => streak' = -FailureThreshold]_vars
  BY <1>1, EvidenceStep DEF Justified
<1> QED BY <1>1, EvidenceInductive, PTL DEF Spec, OpensOnConsecutiveFailures

\* Short of a reset, a circuit closes only after SuccessThreshold outcomes in a row were successes.
THEOREM ClosesOnEvidence ==
  ASSUME "closed" \notin ListenerThrows
  PROVE  Spec => ClosesOnConsecutiveSuccesses
<1>1. ASSUME EvidenceInv, [Next]_vars
      PROVE  [breaker.state # "closed" /\ breaker'.state = "closed" /\ pc' # pc => streak' = SuccessThreshold]_vars
  BY <1>1, EvidenceStep DEF Justified
<1> QED BY <1>1, EvidenceInductive, PTL DEF Spec, ClosesOnConsecutiveSuccesses

--------------------------------------------------------------------------------
(* The totals, for a listener that does not throw on closing.                 *)

\* What each method does to the two totals.
LEMMA TotalsAdvance ==
  ASSUME NEW b, Good(b), NEW bad
  PROVE  /\ LET a == AllowRequest(b, bad).b IN
              a.totalFailures = b.totalFailures /\ a.totalSuccesses = b.totalSuccesses
         /\ LET f == RecordFailure(b, bad).b IN
              f.totalFailures = Count(b.totalFailures) /\ f.totalSuccesses = b.totalSuccesses
         /\ LET s == RecordSuccess(b, bad).b IN
              s.totalFailures = b.totalFailures /\ s.totalSuccesses = Count(b.totalSuccesses)
         /\ LET r == TransitionTo(b, "closed", bad).b IN
              r.totalFailures = b.totalFailures /\ r.totalSuccesses = b.totalSuccesses
<1> USE DEF Good, BreakerType, TransitionTo
<1>1. LET a == AllowRequest(b, bad).b IN
        a.totalFailures = b.totalFailures /\ a.totalSuccesses = b.totalSuccesses
  BY DEF AllowRequest
<1>2. LET f == RecordFailure(b, bad).b IN
        f.totalFailures = Count(b.totalFailures) /\ f.totalSuccesses = b.totalSuccesses
  BY DEF RecordFailure
<1>3. LET s == RecordSuccess(b, bad).b IN
        s.totalFailures = b.totalFailures /\ s.totalSuccesses = Count(b.totalSuccesses)
  BY DEF RecordSuccess
<1> QED BY <1>1, <1>2, <1>3

\* The catch block counts one failure and no success.
LEMMA CatchFailureTotals ==
  ASSUME NEW c, NEW b, Good(b), NEW bad, CatchFailure(c, b, bad)
  PROVE  /\ breaker'.totalFailures = Count(b.totalFailures)
         /\ breaker'.totalSuccesses = b.totalSuccesses
<1> DEFINE f == RecordFailure(b, bad)
           a == AllowRequest(f.b, bad)
<1>1. Good(f.b)
  BY RecordFailureGood
<1>2. /\ f.b.totalFailures = Count(b.totalFailures) /\ f.b.totalSuccesses = b.totalSuccesses
      /\ a.b.totalFailures = f.b.totalFailures /\ a.b.totalSuccesses = f.b.totalSuccesses
  BY <1>1, TotalsAdvance
<1>3. breaker' \in {f.b, a.b}
  BY DEF CatchFailure
<1> QED BY <1>2, <1>3

CountedInv == EvidenceInv /\ CountedOnce

\* Each step that settles a call of fn advances the total of its kind, and no other step advances either total.
LEMMA CountedStep ==
  ASSUME "closed" \notin ListenerThrows, CountedInv, [Next]_vars
  PROVE  CountedOnce'
<1>0. /\ Good(breaker) /\ Evidence(breaker, streak) /\ streak \in StreakRange
      /\ outcomes \in OutcomesType /\ CountedOnce
  BY DEF CountedInv, EvidenceInv, IInv, Good, TypeOK, CountersAgree, StreakRange, OutcomesType
<1> DEFINE Same == /\ breaker'.totalSuccesses = breaker.totalSuccesses
                   /\ breaker'.totalFailures = breaker.totalFailures
                   /\ outcomes' = outcomes
<1>1. ASSUME Same PROVE CountedOnce'
  BY <1>0, <1>1 DEF CountedOnce
<1>2. CASE UNCHANGED vars
  BY <1>1, <1>2 DEF vars
<1>3. ASSUME NEW c \in Callers, Enter(c) PROVE CountedOnce'
  BY <1>0, <1>1, <1>3, TotalsAdvance DEF Enter
<1>4. ASSUME NEW c \in Callers, Succeed(c) PROVE CountedOnce'
  <2>1. PICK bad \in SUBSET ListenerThrows :
          \/ breaker' = RecordSuccess(breaker, bad).b
          \/ RecordSuccess(breaker, bad).raised
    BY <1>4 DEF Succeed
  <2>2. ~RecordSuccess(breaker, bad).raised
    BY <1>0, <2>1, RecordSuccessEvidence
  <2>3. /\ breaker'.totalSuccesses = Count(breaker.totalSuccesses)
        /\ breaker'.totalFailures = breaker.totalFailures
    BY <1>0, <2>1, <2>2, TotalsAdvance
  <2>4. outcomes' = [outcomes EXCEPT !["successes"] = Count(@)]
    BY <1>4 DEF Succeed
  <2> QED BY <1>0, <2>3, <2>4 DEF CountedOnce, OutcomesType
<1>5. ASSUME NEW c \in Callers, Fail(c) PROVE CountedOnce'
  <2>1. /\ breaker'.totalFailures = Count(breaker.totalFailures)
        /\ breaker'.totalSuccesses = breaker.totalSuccesses
    BY <1>0, <1>5, CatchFailureTotals DEF Fail
  <2>2. outcomes' = [outcomes EXCEPT !["failures"] = Count(@)]
    BY <1>5 DEF Fail
  <2> QED BY <1>0, <2>1, <2>2 DEF CountedOnce, OutcomesType
<1>6. ASSUME NEW c \in Callers, FailUncounted(c) \/ Wake(c) PROVE CountedOnce'
  BY <1>1, <1>6 DEF FailUncounted, Wake
<1>7. CASE Reset
  BY <1>0, <1>1, <1>7, TotalsAdvance DEF Reset
<1>8. CASE Tick
  BY <1>0, <1>1, <1>8 DEF Tick, Good, BreakerType
<1> QED BY <1>2, <1>3, <1>4, <1>5, <1>6, <1>7, <1>8 DEF Next, Settle

\* The totals are the numbers of fn's outcomes, success by success and failure by failure, for any number of callers,
\* thresholds, retries and resets, as long as the listener does not throw on closing: then recordSuccess, which runs
\* inside the try statement, never ends up in the catch block.
THEOREM OutcomesCountedOnce ==
  ASSUME "closed" \notin ListenerThrows
  PROVE  Spec => []CountedOnce
<1>1. Init => CountedInv
  BY IInvInit DEF CountedInv, EvidenceInv, Evidence, CountedOnce, Init
<1>2. CountedInv /\ [Next]_vars => CountedInv'
  BY CountedStep, EvidenceStep, IInvStep DEF CountedInv, EvidenceInv, Justified
<1>3. CountedInv => CountedOnce
  BY DEF CountedInv
<1> QED BY <1>1, <1>2, <1>3, PTL DEF Spec

\* "OPEN: [...] requests fail fast without calling sidecar" holds of a breaker used without retries, for any number of
\* callers, thresholds and throwing listeners: only the retry loop calls fn without asking allowRequest.
THEOREM NoCallWhileOpenWithoutRetries ==
  ASSUME MaxRetries = 0
  PROVE  Spec => NoCallWhileOpen
<1> DEFINE FailsFast == \A c \in Callers : CallBegins(c) => breaker'.state # "open"
<1>1. ASSUME IInv, Next PROVE FailsFast
  <2>0. /\ Good(breaker) /\ attempt \in [Callers -> {0}] /\ pc \in [Callers -> InFlight \cup Ended]
        /\ \A c \in Callers : pc[c] # "sleeping"
    BY <1>1 DEF IInv, Good, TypeOK, CountersAgree, RetriesLeft
  <2>1. ASSUME NEW c \in Callers, Enter(c) PROVE FailsFast
    <3>1. PICK bad \in SUBSET ListenerThrows :
            /\ breaker' = AllowRequest(breaker, bad).b
            /\ \/ AllowRequest(breaker, bad).allowed
               \/ \E to \in {"threw", "rejected"} : Go(c, to)
      BY <2>1 DEF Enter
    <3>2. AllowRequest(breaker, bad).allowed => breaker'.state # "open"
      BY <2>0, <3>1, AllowRequestGood
    <3>3. attempt' = attempt
      BY <2>0, <2>1 DEF Enter
    <3>4. ASSUME NEW to \in {"threw", "rejected"}, Go(c, to) PROVE FailsFast
      BY <2>0, <3>3, <3>4 DEF Go, CallBegins
    <3> QED BY <3>1, <3>2, <3>4
  <2>2. ASSUME NEW c \in Callers, NEW to \in {"threw", "returned"}, Go(c, to), UNCHANGED attempt PROVE FailsFast
    BY <2>0, <2>2 DEF Go, CallBegins
  <2>3. ASSUME NEW c \in Callers, NEW b, NEW bad, CatchFailure(c, b, bad) PROVE FailsFast
    <3>1. Go(c, "threw") /\ UNCHANGED attempt
      BY <2>0, <2>3 DEF CatchFailure
    <3> QED BY <2>2, <3>1
  <2>4. ASSUME NEW c \in Callers, Settle(c) PROVE FailsFast
    BY <2>2, <2>3, <2>4 DEF Settle, Succeed, Fail, FailUncounted
  <2>5. ASSUME NEW c \in Callers, Wake(c) PROVE FailsFast
    BY <2>0, <2>5 DEF Wake
  <2>6. CASE Reset \/ Tick
    BY <2>6 DEF Reset, Tick, CallBegins
  <2> QED BY <1>1, <2>1, <2>4, <2>5, <2>6 DEF Next
<1>2. IInv /\ [Next]_vars => [FailsFast]_vars
  BY <1>1
<1> QED BY <1>2, IInvInit, IInvStep, PTL DEF Spec, NoCallWhileOpen
================================================================================

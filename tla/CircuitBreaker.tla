---------------------------- MODULE CircuitBreaker -----------------------------
(* The circuit breaker and the retry loop withCircuitBreaker around it        *)
(* (src/src/circuit-breaker.ts), for callers that share one breaker.          *)
(*                                                                            *)
(* Between two awaits JavaScript runs without interruption, so a step is:     *)
(* entering the loop up to the first call of fn; a call of fn settling, up to *)
(* the next call, the next sleep or the end; a sleep ending; and a manual     *)
(* reset.  The onStateChange listener runs inside these steps and may throw.  *)
(*                                                                            *)
(* Time enters the code only as Date.now() - lastFailureTime compared with    *)
(* resetTimeoutMs.  sinceFailure is that difference, counted up to            *)
(* ResetTimeout, which keeps the model finite without bounding time.  The     *)
(* length of a backoff is left open: a sleeping caller wakes at any time.     *)
(******************************************************************************)
EXTENDS Integers

CONSTANTS Callers,
          FailureThreshold, ResetTimeout, SuccessThreshold,   \* CircuitBreakerConfig
          MaxRetries,      \* options.maxRetries
          ListenerThrows,  \* the states on whose entry onStateChange may throw
          MaxTotal         \* bound: the metrics totals, and fn's outcomes, are counted up to MaxTotal

States == {"closed", "open", "half_open"}

\* lastFailureTime = null
Never == -1

ASSUME BreakerAssumption == /\ FailureThreshold \in Nat \ {0}
                            /\ SuccessThreshold \in Nat \ {0}
                            /\ ResetTimeout \in Nat
                            /\ MaxRetries \in Nat
                            /\ MaxTotal \in Nat
                            /\ ListenerThrows \subseteq States

VARIABLES breaker,     \* the fields of the CircuitBreaker object
          pc,          \* where each caller is; how its last withCircuitBreaker call ended
          attempt,     \* the loop variable of each caller
          streak,      \* history: fn's outcomes since they last changed kind, successes > 0, failures < 0
          outcomes     \* history: how often fn has succeeded and failed, each up to MaxTotal

vars == <<breaker, pc, attempt, streak, outcomes>>

InFlight == {"calling", "sleeping"}
Ended == {"idle", "returned", "rejected", "threw"}

BreakerType == [state : States,
                failureCount : 0 .. FailureThreshold,
                successCount : 0 .. SuccessThreshold,
                sinceFailure : Never .. ResetTimeout,
                totalFailures : 0 .. MaxTotal,
                totalSuccesses : 0 .. MaxTotal,
                totalRejections : 0 .. MaxTotal]

TypeOK == /\ breaker \in BreakerType
          /\ pc \in [Callers -> InFlight \cup Ended]
          /\ attempt \in [Callers -> 0 .. MaxRetries]
          /\ streak \in -FailureThreshold .. SuccessThreshold
         /\ outcomes \in [successes : 0 .. MaxTotal, failures : 0 .. MaxTotal]

--------------------------------------------------------------------------------
(* The methods of CircuitBreaker, as functions of its fields.  A method that  *)
(* may call the listener returns the fields it leaves and whether it raised   *)
(* the listener's exception; bad is the set of states on whose entry the      *)
(* listener throws this time.  (Field updates are written !["field"], the form *)
(* of EXCEPT that the SMT translation of the proofs reads.)                   *)

Count(n) == IF n < MaxTotal THEN n + 1 ELSE n

\* Mutant of TransitionTo: the listener is called before the fields are assigned.
TransitionToListenerFirst(b, to, bad) ==
  IF b.state = to \/ to \in bad
  THEN [b |-> b, raised |-> b.state # to]
  ELSE [b |-> [b EXCEPT !["state"] = to,
                        !["failureCount"] = IF to = "closed" THEN 0 ELSE @,
                        !["successCount"] = 0],
        raised |-> FALSE]

\* The fields are assigned before the listener is called, so they are kept when it throws.
TransitionTo(b, to, bad) ==
  IF b.state = to
  THEN [b |-> b, raised |-> FALSE]
  ELSE [b |-> [b EXCEPT !["state"] = to,
                        !["failureCount"] = IF to = "closed" THEN 0 ELSE @,
                        !["successCount"] = 0],
        raised |-> to \in bad]

ResetDue(b) == b.sinceFailure # Never /\ b.sinceFailure >= ResetTimeout

\* Mutant of AllowRequest: a refused request counts as a failure and restarts the reset timeout.
AllowRequestRestarts(b, bad) ==
  IF b.state = "open" /\ ResetDue(b)
  THEN LET t == TransitionTo(b, "half_open", bad) IN [b |-> t.b, raised |-> t.raised, allowed |-> TRUE]
  ELSE [b |-> [b EXCEPT !["sinceFailure"] = IF b.state = "open" THEN 0 ELSE @],
        raised |-> FALSE, allowed |-> b.state # "open"]

AllowRequest(b, bad) ==
  IF b.state # "open"
  THEN [b |-> b, raised |-> FALSE, allowed |-> TRUE]
  ELSE IF ResetDue(b)
  THEN LET t == TransitionTo(b, "half_open", bad) IN [b |-> t.b, raised |-> t.raised, allowed |-> TRUE]
  ELSE [b |-> [b EXCEPT !["totalRejections"] = Count(@)], raised |-> FALSE, allowed |-> FALSE]

\* Mutant of RecordSuccess: a success in the closed state does not clear the failures counted so far.
RecordSuccessKeepsFailures(b, bad) ==
  LET counted == [b EXCEPT !["totalSuccesses"] = Count(@),
                           !["successCount"] = IF b.state = "half_open" THEN @ + 1 ELSE @]
  IN IF b.state = "half_open" /\ counted.successCount >= SuccessThreshold
     THEN TransitionTo(counted, "closed", bad)
     ELSE [b |-> counted, raised |-> FALSE]

RecordSuccess(b, bad) ==
  LET counted == [b EXCEPT !["totalSuccesses"] = Count(@),
                           !["failureCount"] = IF b.state = "closed" THEN 0 ELSE @,
                           !["successCount"] = IF b.state = "half_open" THEN @ + 1 ELSE @]
  IN IF b.state = "half_open" /\ counted.successCount >= SuccessThreshold
     THEN TransitionTo(counted, "closed", bad)
     ELSE [b |-> counted, raised |-> FALSE]

\* Mutant of RecordFailure: a failure in the half-open state is tolerated.
RecordFailureTolerant(b, bad) ==
  LET counted == [b EXCEPT !["totalFailures"] = Count(@),
                           !["sinceFailure"] = 0,
                           !["failureCount"] = IF b.state = "closed" THEN @ + 1 ELSE @]
  IN IF b.state = "closed" /\ counted.failureCount >= FailureThreshold
     THEN TransitionTo(counted, "open", bad)
     ELSE [b |-> counted, raised |-> FALSE]

RecordFailure(b, bad) ==
  LET counted == [b EXCEPT !["totalFailures"] = Count(@),
                           !["sinceFailure"] = 0,
                           !["failureCount"] = IF b.state = "closed" THEN @ + 1 ELSE @]
      trips == b.state = "closed" /\ counted.failureCount >= FailureThreshold
  IN IF b.state = "half_open" \/ trips
     THEN TransitionTo(counted, "open", bad)
     ELSE [b |-> counted, raised |-> FALSE]

--------------------------------------------------------------------------------
Init == /\ breaker = [state |-> "closed", failureCount |-> 0, successCount |-> 0, sinceFailure |-> Never,
                      totalFailures |-> 0, totalSuccesses |-> 0, totalRejections |-> 0]
        /\ pc = [c \in Callers |-> "idle"]
        /\ attempt = [c \in Callers |-> 0]
        /\ streak = 0
        /\ outcomes = [successes |-> 0, failures |-> 0]

Go(c, to) == pc' = [pc EXCEPT ![c] = to]

\* withCircuitBreaker is entered: allowRequest decides, and a caller let through calls fn.
Enter(c) ==
  /\ pc[c] \in Ended
  /\ \E bad \in SUBSET ListenerThrows :
       LET a == AllowRequest(breaker, bad) IN
       /\ breaker' = a.b
       /\ \/ a.raised /\ Go(c, "threw")
          \/ ~a.raised /\ a.allowed /\ Go(c, "calling")
          \/ ~a.raised /\ ~a.allowed /\ Go(c, "rejected")
  /\ attempt' = [attempt EXCEPT ![c] = 0]
  /\ UNCHANGED <<streak, outcomes>>

\* Mutant of CatchFailure: one retry too many.
CatchFailureOneMore(c, b, bad) ==
  LET f == RecordFailure(b, bad)
      a == AllowRequest(f.b, bad)
  IN IF f.raised \/ attempt[c] > MaxRetries
     THEN breaker' = f.b /\ Go(c, "threw") /\ UNCHANGED attempt
     ELSE breaker' = a.b /\ IF a.allowed THEN Go(c, "sleeping") /\ UNCHANGED attempt
                           ELSE UNCHANGED pc /\ attempt' = [attempt EXCEPT ![c] = @ + 1]

\* Mutant of CatchFailure: the loop variable is not advanced by an attempt without backoff.
CatchFailureSameAttempt(c, b, bad) ==
  LET f == RecordFailure(b, bad)
      a == AllowRequest(f.b, bad)
  IN IF f.raised \/ attempt[c] = MaxRetries
     THEN breaker' = f.b /\ Go(c, "threw") /\ UNCHANGED attempt
     ELSE breaker' = a.b /\ UNCHANGED attempt /\ IF a.allowed THEN Go(c, "sleeping") ELSE UNCHANGED pc

\* The catch block for an error that counts as a failure, from fields b on: the failure is recorded and, when
\* retries are left, allowRequest decides whether to back off before the next call; a refusal only skips the
\* backoff.
CatchFailure(c, b, bad) ==
  LET f == RecordFailure(b, bad)
      a == AllowRequest(f.b, bad)
  IN \/ /\ f.raised \/ attempt[c] = MaxRetries
        /\ breaker' = f.b
        /\ Go(c, "threw")
        /\ UNCHANGED attempt
     \/ /\ ~f.raised
        /\ attempt[c] < MaxRetries
        /\ breaker' = a.b
        /\ \/ a.raised /\ Go(c, "threw") /\ UNCHANGED attempt
           \/ ~a.raised /\ a.allowed /\ Go(c, "sleeping") /\ UNCHANGED attempt
           \/ ~a.raised /\ ~a.allowed /\ UNCHANGED pc /\ attempt' = [attempt EXCEPT ![c] = @ + 1]

\* fn's promise is fulfilled.  recordSuccess runs inside the try block: an exception of the listener is caught
\* there and treated as a failure of fn.
Succeed(c) ==
  /\ pc[c] = "calling"
  /\ \E bad \in SUBSET ListenerThrows :
       LET s == RecordSuccess(breaker, bad) IN
       \/ /\ ~s.raised
          /\ breaker' = s.b
          /\ Go(c, "returned")
          /\ UNCHANGED attempt
       \/ /\ s.raised
          /\ CatchFailure(c, s.b, bad)
       \/ /\ s.raised          \* isFailure does not count the listener's error
          /\ breaker' = s.b
          /\ Go(c, "threw")
          /\ UNCHANGED attempt
  /\ streak' = IF streak < 0 THEN 1 ELSE IF streak < SuccessThreshold THEN streak + 1 ELSE streak
  /\ outcomes' = [outcomes EXCEPT !["successes"] = Count(@)]

\* Mutant of Fail: the success is recorded in a finally block.
FailFinally(c) ==
  /\ pc[c] = "calling"
  /\ \E bad \in SUBSET ListenerThrows : CatchFailure(c, RecordSuccess(breaker, bad).b, bad)
  /\ streak' = IF streak > 0 THEN -1 ELSE IF streak > -FailureThreshold THEN streak - 1 ELSE streak
  /\ outcomes' = [outcomes EXCEPT !["failures"] = Count(@)]

\* fn's promise is rejected with an error that isFailure counts.
Fail(c) ==
  /\ pc[c] = "calling"
  /\ \E bad \in SUBSET ListenerThrows : CatchFailure(c, breaker, bad)
  /\ streak' = IF streak > 0 THEN -1 ELSE IF streak > -FailureThreshold THEN streak - 1 ELSE streak
  /\ outcomes' = [outcomes EXCEPT !["failures"] = Count(@)]

\* fn's promise is rejected with an error that isFailure does not count: rethrown, nothing recorded.
FailUncounted(c) ==
  /\ pc[c] = "calling"
  /\ Go(c, "threw")
  /\ UNCHANGED <<breaker, attempt, streak, outcomes>>

\* The backoff ends: the next attempt calls fn, whatever has become of the circuit meanwhile.
Wake(c) ==
  /\ pc[c] = "sleeping"
  /\ Go(c, "calling")
  /\ attempt' = [attempt EXCEPT ![c] = @ + 1]
  /\ UNCHANGED <<breaker, streak, outcomes>>

\* The operator calls reset; an exception of the listener goes to the operator.
Reset == /\ \E bad \in SUBSET ListenerThrows : breaker' = TransitionTo(breaker, "closed", bad).b
         /\ UNCHANGED <<pc, attempt, streak, outcomes>>

Tick == /\ breaker.sinceFailure \in 0 .. ResetTimeout - 1
        /\ breaker' = [breaker EXCEPT !["sinceFailure"] = @ + 1]
        /\ UNCHANGED <<pc, attempt, streak, outcomes>>

Settle(c) == Succeed(c) \/ Fail(c) \/ FailUncounted(c)

Next == \/ \E c \in Callers : Enter(c) \/ Settle(c) \/ Wake(c)
        \/ Reset
        \/ Tick

Spec == Init /\ [][Next]_vars

\* Time passes, timers fire and fn settles (the authority client has a timeout).
CodeFairness == /\ WF_vars(Tick)
                /\ \A c \in Callers : WF_vars(Settle(c)) /\ WF_vars(Wake(c))

FairSpec == Spec /\ CodeFairness

\* Demand never dries up: agents keep asking.
BusySpec == FairSpec /\ \A c \in Callers : WF_vars(Enter(c))

--------------------------------------------------------------------------------
\* The state and the counters agree, however calls of different ages, resets and throwing listeners interleave:
\* a closed circuit is short of FailureThreshold failures and any other circuit has exactly that many; only a
\* half-open circuit has counted successes and always too few to close; and a circuit that is not closed knows
\* when it last saw a failure, without which allowRequest would keep it open for ever.
Agrees(b) ==
  /\ b.state = "closed" => b.failureCount < FailureThreshold
  /\ b.state # "closed" => b.failureCount = FailureThreshold /\ b.sinceFailure # Never
  /\ b.successCount < SuccessThreshold
  /\ b.state # "half_open" => b.successCount = 0

CountersAgree == Agrees(breaker)

\* "OPEN: Too many failures, requests fail fast without calling sidecar": no call of fn begins in a step that
\* leaves the circuit open.
CallBegins(c) == pc'[c] = "calling" /\ (pc[c] # "calling" \/ attempt'[c] # attempt[c])
NoCallWhileOpen == [][\A c \in Callers : CallBegins(c) => breaker'.state # "open"]_vars

\* A closed circuit opens only after FailureThreshold calls of fn in a row have failed ("Opens after 5 consecutive
\* failures"), whichever callers they belong to.
OpensOnConsecutiveFailures ==
  [][breaker.state = "closed" /\ breaker'.state = "open" => streak' = -FailureThreshold]_vars

\* Short of a manual reset, a circuit closes again only after SuccessThreshold calls of fn in a row have succeeded.
ClosesOnConsecutiveSuccesses ==
  [][breaker.state # "closed" /\ breaker'.state = "closed" /\ pc' # pc => streak' = SuccessThreshold]_vars

\* Every outcome of fn is counted once and on its own side: totalSuccesses is the number of times fn succeeded and
\* totalFailures the number of times it failed with an error that counts, in whatever state of the circuit, after
\* however many attempts and resets, and although both are recorded inside one try statement.  (It holds for a
\* listener that does not throw on closing: see Succeed.)
CountedOnce == /\ breaker.totalSuccesses = outcomes.successes
               /\ breaker.totalFailures = outcomes.failures

\* Every withCircuitBreaker call ends: retries run out.
EveryCallEnds == \A c \in Callers : pc[c] \in InFlight ~> pc[c] \in Ended

\* Once fn stops failing and requests keep coming, the circuit stops being open.
RecoversFromOutage == <>[][\A c \in Callers : ~Fail(c)]_vars => <>[](breaker.state # "open")
================================================================================

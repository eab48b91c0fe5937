---------------------------- MODULE GuardedProvider ----------------------------
(* GuardedProvider.guardOrThrow and authorize (src/src/provider.ts), for any  *)
(* number of calls in flight at once.  A step is what JavaScript runs between *)
(* two awaits: a call waits for the authority client, then for the audit      *)
(* exporter, and everything else happens in one go.                           *)
(*                                                                            *)
(* Two collaborators belong to the user of the library: the telemetry sink,   *)
(* called synchronously and allowed to throw (SinkErrors), and the audit      *)
(* exporter, whose promise is awaited and may settle late or never.           *)
(******************************************************************************)
EXTENDS Sequences

CONSTANTS Calls,         \* guarded calls; a mandate is named by the call it is issued to
          NoMandate,     \* null: no mandate was returned
          FailClosed,    \* ProviderConfig.failClosed
          HasExporter,   \* an auditExporter was passed to the constructor
          SinkErrors     \* the errors telemetry.onDecision may throw; {} when it never does

\* How authorize ends: it returns, or throws ActionDeniedError, SidecarUnavailableError, or anything else.
ErrorKinds == {"denied", "unavailable", "raw"}

ASSUME ProviderAssumption == /\ FailClosed \in BOOLEAN
                             /\ HasExporter \in BOOLEAN
                             /\ SinkErrors \subseteq ErrorKinds
                             /\ NoMandate \notin Calls

Verdicts == {"allow", "deny", "unavailable"}
Outcomes == {"allow", "deny", "error"}

VARIABLES pc,        \* where each call is
          verdict,   \* what the authority client answered ("unavailable": its promise was rejected)
          exit,      \* how authorize ends, or will end once the export settles
          mandate,   \* decision.mandateId ?? null of an allowing answer
          told,      \* the outcomes handed to telemetry.onDecision
          audited    \* the outcomes handed to auditExporter.exportDecision

providerVars == <<pc, verdict, exit, mandate, told, audited>>

ProviderTypeOK ==
  /\ pc \in [Calls -> {"new", "authorizing", "exporting", "granted", "refused"}]
  /\ verdict \in [Calls -> Verdicts \cup {"none"}]
  /\ exit \in [Calls -> ErrorKinds \cup {"none", "allow"}]
  /\ mandate \in [Calls -> Calls \cup {NoMandate}]
  /\ told \in [Calls -> Seq(Outcomes)]
  /\ audited \in [Calls -> Seq(Outcomes)]

ProviderInit ==
  /\ pc = [c \in Calls |-> "new"]
  /\ verdict = [c \in Calls |-> "none"]
  /\ exit = [c \in Calls |-> "none"]
  /\ mandate = [c \in Calls |-> NoMandate]
  /\ told = [c \in Calls |-> <<>>]
  /\ audited = [c \in Calls |-> <<>>]

\* Mutant of Grants: guardOrThrow swallows every error when failing open, not just SidecarUnavailableError.
GrantsAnyError(x) == x = "allow" \/ ~FailClosed

\* Mutant of Grants: guardOrThrow forgets to look at failClosed.
GrantsOutage(x) == x \in {"allow", "unavailable"}

\* guardOrThrow turns SidecarUnavailableError, and nothing else, into null when failing open.
Grants(x) == x = "allow" \/ (x = "unavailable" /\ ~FailClosed)

\* authorize ends with x and guardOrThrow settles.
Leave(c, x) ==
  /\ exit' = [exit EXCEPT ![c] = x]
  /\ pc' = [pc EXCEPT ![c] = IF Grants(x) THEN "granted" ELSE "refused"]

\* The mandate guardOrThrow resolves with.
Returned(c) == IF exit[c] = "allow" THEN mandate[c] ELSE NoMandate

\* Mutant of Emit: the event reports how authorize ends instead of the outcome.
EmitExit(c, prior, outcome, x) ==
  /\ told' = [told EXCEPT ![c] = Append(prior, x)]
  /\ Leave(c, x)
  /\ UNCHANGED audited

\* Mutant of Emit: nothing is emitted when there is no exporter.
EmitNothing(c, prior, outcome, x) ==
  /\ told' = [told EXCEPT ![c] = prior]
  /\ Leave(c, x)
  /\ UNCHANGED audited

\* emitDecisionEvent with a sink that returns: the export, if any, is awaited before authorize ends with x.
\* "prior" are the outcomes the sink has been handed before this one.
Emit(c, prior, outcome, x) ==
  /\ told' = [told EXCEPT ![c] = Append(prior, outcome)]
  /\ \/ /\ HasExporter
        /\ audited' = [audited EXCEPT ![c] = Append(@, outcome)]
        /\ exit' = [exit EXCEPT ![c] = x]
        /\ pc' = [pc EXCEPT ![c] = "exporting"]
     \/ /\ ~HasExporter
        /\ Leave(c, x)
        /\ UNCHANGED audited

\* emitDecisionEvent with a sink that throws e: nothing is exported.
SinkThrows(c, prior, outcome, e) ==
  /\ e \in SinkErrors
  /\ told' = [told EXCEPT ![c] = Append(prior, outcome)]
  /\ Leave(c, e)
  /\ UNCHANGED audited

\* The "error" event of the catch block; what the sink throws there leaves authorize as it is.
EmitError(c, prior) ==
  \/ Emit(c, prior, "error", "unavailable")
  \/ \E e \in ErrorKinds : SinkThrows(c, prior, "error", e)

\* Mutant of EmitDecision: a denial leaves through the catch block and is reported a second time, as an error.
EmitDecisionTwice(c, outcome, x) ==
  IF outcome = "deny" THEN EmitError(c, Append(told[c], outcome)) ELSE Emit(c, told[c], outcome, x)

\* The event of a decision.  An error of the sink is caught by the catch block around the whole of authorize:
\* ActionDeniedError is rethrown, any other error is reported as an outage.
EmitDecision(c, outcome, x) ==
  \/ Emit(c, told[c], outcome, x)
  \/ SinkThrows(c, told[c], outcome, "denied")
  \/ /\ SinkErrors \ {"denied"} # {}
     /\ EmitError(c, Append(told[c], outcome))

\* authorize is entered: the intent hash is computed and the request handed to the authority client.
Submit(c) ==
  /\ pc[c] = "new"
  /\ pc' = [pc EXCEPT ![c] = "authorizing"]
  /\ UNCHANGED <<verdict, exit, mandate, told, audited>>

\* The intent hash throws (arguments that cannot be encoded): outside the try, so no request and no event.
SubmitUnhashable(c) ==
  /\ pc[c] = "new"
  /\ Leave(c, "raw")
  /\ UNCHANGED <<verdict, mandate, told, audited>>

AnswerAllow(c) ==
  /\ pc[c] = "authorizing"
  /\ verdict' = [verdict EXCEPT ![c] = "allow"]
  /\ \E m \in {c, NoMandate} : mandate' = [mandate EXCEPT ![c] = m]
  /\ EmitDecision(c, "allow", "allow")

AnswerDeny(c) ==
  /\ pc[c] = "authorizing"
  /\ verdict' = [verdict EXCEPT ![c] = "deny"]
  /\ EmitDecision(c, "deny", "denied")
  /\ UNCHANGED mandate

\* The client's promise is rejected (sidecar down, timeout, protocol error).  A client of one's own that rejects with
\* the provider's ActionDeniedError, which is rethrown without an event, is left out.
AnswerFails(c) ==
  /\ pc[c] = "authorizing"
  /\ verdict' = [verdict EXCEPT ![c] = "unavailable"]
  /\ EmitError(c, told[c])
  /\ UNCHANGED mandate

Answer(c) == AnswerAllow(c) \/ AnswerDeny(c) \/ AnswerFails(c)

\* Mutant of ExportSettles: a rejected export is rethrown and never reaches the caller's continuation.
ExportSettlesLost(c) ==
  /\ pc[c] = "exporting"
  /\ exit[c] # "unavailable"
  /\ Leave(c, exit[c])
  /\ UNCHANGED <<verdict, mandate, told, audited>>

\* The exporter's promise settles; whether it was fulfilled or rejected makes no difference.
ExportSettles(c) ==
  /\ pc[c] = "exporting"
  /\ Leave(c, exit[c])
  /\ UNCHANGED <<verdict, mandate, told, audited>>

GuardStep(c) == Submit(c) \/ SubmitUnhashable(c) \/ Answer(c) \/ ExportSettles(c)

--------------------------------------------------------------------------------
\* The event, and the end of authorize, that a verdict calls for.
EventFor(v) == IF v = "unavailable" THEN "error" ELSE v
ExitFor(v) == IF v = "deny" THEN "denied" ELSE v

LastTold(c) == told[c][Len(told[c])]

\* Whatever the sink throws, no call gets past the guard unseen: the last event handed to the sink is "allow"
\* when the authority's permission is returned and "error" when an outage is overridden, and an event
\* has been handed to the sink exactly for the calls the authority answered.
NoSilentGrant ==
  \A c \in Calls :
    /\ (told[c] = <<>>) <=> (verdict[c] = "none")
    /\ pc[c] = "granted" =>
         /\ told[c] # <<>>
         /\ LastTold(c) = IF exit[c] = "allow" THEN "allow" ELSE "error"

\* With a sink that never throws, each answered call leaves exactly one event, the one its verdict calls for, in
\* telemetry and in the audit log alike, and the error it ends with is the one for that verdict.
OneFaithfulEvent ==
  \A c \in Calls : verdict[c] # "none" =>
    /\ told[c] = <<EventFor(verdict[c])>>
    /\ audited[c] = IF HasExporter THEN told[c] ELSE <<>>
    /\ exit[c] = ExitFor(verdict[c])
================================================================================

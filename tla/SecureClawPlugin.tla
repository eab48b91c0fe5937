--------------------------- MODULE SecureClawPlugin ----------------------------
(* The OpenClaw plugin (createSecureClawPlugin, src/src/openclaw-plugin.ts):  *)
(* its four hooks over one GuardedProvider, and the state they share across   *)
(* sessions and across tool calls under way at once: the current session, the *)
(* metrics per tool, and the mandates waiting for post-execution              *)
(* verification.  What is authorized and what is reported is ToolRequest's.   *)
(*                                                                            *)
(* The host calls the hooks.  What it does is not in this repository, so it   *)
(* is left open: it may run any calls concurrently, abort a tool so that      *)
(* after_tool_call never comes, and start and end sessions as HostSessions    *)
(* says, let a hook of lower priority rewrite the parameters of an allowed    *)
(* call (HostRewrites), and move to another working directory.  It does pass  *)
(* the same context object to both hooks of a call, and begins a call only in *)
(* an open session.                                                           *)
(******************************************************************************)
EXTENDS GuardedProvider, ToolRequest, FiniteSets

CONSTANTS Events,       \* what a tool may be called with: [toolName, params]
          Dirs,         \* bound: the working directories the host goes through, in order
          Sessions,
          NoSession, NoKey, NoObject, NoRequest,   \* undefined
          PostVerify,   \* config.enablePostVerification
          HostSessions, \* host: sessions may overlap, or follow one another
          HostAborts,   \* host: a tool may be aborted, and after_tool_call never called for it
          HostRewrites, \* host: other plugins rewrite the parameters of a call after it was authorized
          MaxNow        \* bound: Date.now() stops at MaxNow

Tools == {e.toolName : e \in Events}

ASSUME PluginAssumption == /\ {PostVerify, HostAborts, HostRewrites} \subseteq BOOLEAN
                           /\ HostSessions \in {"overlapping", "sequential"}
                           /\ MaxNow \in Nat
                           /\ Dirs \in Seq(ToSet(Dirs)) \ {<<>>}
                           /\ \A i, j \in DOMAIN Dirs : i # j => Dirs[i] # Dirs[j]
                           /\ NoSession \notin Sessions
                           /\ NoObject \notin Calls
                           /\ NoKey \notin Tools \X (0 .. MaxNow)

VARIABLES
  now,               \* Date.now()
  cwd,               \* process.cwd()
  currentSessionId,
  toolCallMetrics,   \* Map from tool to metrics object; an object is named by the call that created it
  object,            \* the metrics objects: [count, blocked]
  pendingMandates,   \* Map from key to mandate
  call,              \* each call's events and context, and the locals of its hooks
  stage,             \* where each call is in the host's pipeline
  session,           \* host: the life of each session
  stragglers         \* history: the tools of which a call begun in another session was blocked in this one

pluginVars == <<now, cwd, currentSessionId, stragglers, toolCallMetrics, object, pendingMandates, call, stage, session>>
vars == <<pc, verdict, exit, mandate, told, audited,
          now, cwd, currentSessionId, stragglers, toolCallMetrics, object, pendingMandates, call, stage, session>>

Keys == Tools \X (0 .. MaxNow)
Stages == {"idle", "authorizing", "allowed", "blocked", "ran", "verifying", "done", "aborted"}

Requests == {Request(e, d) : e \in Events, d \in ToSet(Dirs)}

\* event is what the tool is called with, and after the rewriting what it runs with; metrics the object the hook
\* holds on to across its await, toolCallId the key left on the context; authorized what was asked for, touched
\* what the tool did, actual what is reported of it, steady that nobody changed directories in between; verified
\* the mandate that is verified, outcome the answer.
CallType == [event : Events, session : Sessions, metrics : Calls \cup {NoObject},
             toolCallId : Keys \cup {NoKey},
             authorized : Requests \cup {NoRequest}, touched : Requests \cup {NoRequest},
             actual : Requests \cup {NoRequest}, steady : BOOLEAN,
             verified : Calls \cup {NoMandate}, outcome : {"none", "verified", "mismatch", "error"}]

Tool(c) == call[c].event.toolName

\* The locals of a hook that is through with a call.
Forgotten(c) == [call[c] EXCEPT !.authorized = NoRequest, !.touched = NoRequest, !.actual = NoRequest,
                                !.steady = TRUE]

TypeOK == /\ ProviderTypeOK
          /\ now \in 0 .. MaxNow
          /\ cwd \in ToSet(Dirs)
          /\ currentSessionId \in Sessions \cup {NoSession}
          /\ toolCallMetrics \in [Tools -> Calls \cup {NoObject}]
          /\ object \in [Calls -> [count : Nat, blocked : Nat]]
          /\ pendingMandates \in [Keys -> Calls \cup {NoMandate}]
          /\ call \in [Calls -> CallType]
          /\ stage \in [Calls -> Stages]
          /\ session \in [Sessions -> {"new", "open", "ended"}]
          /\ stragglers \subseteq Tools

Init == /\ ProviderInit
        /\ now = 0
        /\ cwd = Dirs[1]
        /\ currentSessionId = NoSession
        /\ toolCallMetrics = [t \in Tools |-> NoObject]
        /\ object = [c \in Calls |-> [count |-> 0, blocked |-> 0]]
        /\ pendingMandates = [k \in Keys |-> NoMandate]
        /\ \E e \in [Calls -> Events], s \in [Calls -> Sessions] :
             call = [c \in Calls |-> [event |-> e[c], session |-> s[c], metrics |-> NoObject,
                                      toolCallId |-> NoKey, authorized |-> NoRequest, touched |-> NoRequest,
                                      actual |-> NoRequest, steady |-> TRUE, verified |-> NoMandate,
                                      outcome |-> "none"]]
        /\ stage = [c \in Calls |-> "idle"]
        /\ session = [s \in Sessions |-> "new"]
        /\ stragglers = {}

--------------------------------------------------------------------------------
(* The session hooks.                                                         *)

HostStarts(s) == /\ session[s] = "new"
                 /\ HostSessions = "sequential" => \A r \in Sessions : session[r] # "open"
                 /\ session' = [session EXCEPT ![s] = "open"]

HostEnds(s) == /\ session[s] = "open"
               /\ session' = [session EXCEPT ![s] = "ended"]

\* Mutant of SessionStart: the pending mandates are cleared along with the metrics.
SessionStartClearsAll(s) ==
  /\ HostStarts(s)
  /\ currentSessionId' = s
  /\ toolCallMetrics' = [t \in Tools |-> NoObject]
  /\ stragglers' = {}
  /\ pendingMandates' = [k \in Keys |-> NoMandate]
  /\ UNCHANGED <<now, cwd, object, call, stage, providerVars>>

SessionStart(s) ==
  /\ HostStarts(s)
  /\ currentSessionId' = s
  /\ toolCallMetrics' = [t \in Tools |-> NoObject]
  /\ stragglers' = {}
  /\ UNCHANGED <<now, cwd, object, pendingMandates, call, stage, providerVars>>

\* Whichever session ends, the state of the current one is cleared.
SessionEnd(s) ==
  /\ HostEnds(s)
  /\ currentSessionId' = NoSession
  /\ toolCallMetrics' = [t \in Tools |-> NoObject]
  /\ stragglers' = {}
  /\ UNCHANGED <<now, cwd, object, pendingMandates, call, stage, providerVars>>

--------------------------------------------------------------------------------
(* before_tool_call.                                                          *)

\* Mutant of BeforeToolCall: a new metrics object is not put into the map.
BeforeToolCallUnset(c) ==
  LET t == Tool(c)
      m == IF toolCallMetrics[t] = NoObject THEN c ELSE toolCallMetrics[t]
  IN /\ stage[c] = "idle"
     /\ session[call[c].session] = "open"
     /\ object' = [object EXCEPT ![m].count = @ + 1]
     /\ call' = [call EXCEPT ![c].metrics = m, ![c].authorized = Request(call[c].event, cwd)]
     /\ stage' = [stage EXCEPT ![c] = "authorizing"]
     /\ Submit(c) \/ SubmitUnhashable(c)
     /\ UNCHANGED <<now, cwd, currentSessionId, stragglers, toolCallMetrics, pendingMandates, session>>

\* The hook up to its await: the call is counted and guardOrThrow entered.
BeforeToolCall(c) ==
  LET t == Tool(c)
      m == IF toolCallMetrics[t] = NoObject THEN c ELSE toolCallMetrics[t]
  IN /\ stage[c] = "idle"
     /\ session[call[c].session] = "open"
     /\ object' = [object EXCEPT ![m].count = @ + 1]
     /\ toolCallMetrics' = [toolCallMetrics EXCEPT ![t] = m]
     /\ call' = [call EXCEPT ![c].metrics = m, ![c].authorized = Request(call[c].event, cwd)]
     /\ stage' = [stage EXCEPT ![c] = "authorizing"]
     /\ Submit(c) \/ SubmitUnhashable(c)
     /\ UNCHANGED <<now, cwd, currentSessionId, stragglers, pendingMandates, session>>

GuardProgress(c) == /\ Answer(c) \/ ExportSettles(c)
                    /\ UNCHANGED pluginVars

\* Mutant of Allow: the key is made from the call instead of the tool's name.
AllowKeyedByCall(c) ==
  /\ stage[c] = "authorizing"
  /\ pc[c] = "granted"
  /\ stage' = [stage EXCEPT ![c] = "allowed"]
  /\ call' = [call EXCEPT ![c].toolCallId = <<c, now>>]
  /\ UNCHANGED <<now, cwd, currentSessionId, stragglers, toolCallMetrics, object, pendingMandates,
                 session, providerVars>>

\* guardOrThrow resolved: a mandate is kept for after_tool_call under the tool's name and the time.
Allow(c) ==
  LET key == <<Tool(c), now>> IN
  /\ stage[c] = "authorizing"
  /\ pc[c] = "granted"
  /\ stage' = [stage EXCEPT ![c] = "allowed"]
  /\ IF Returned(c) # NoMandate /\ PostVerify
     THEN /\ pendingMandates' = [pendingMandates EXCEPT ![key] = Returned(c)]
          /\ call' = [call EXCEPT ![c].toolCallId = key]
     ELSE UNCHANGED <<pendingMandates, call>>
  /\ UNCHANGED <<now, cwd, currentSessionId, stragglers, toolCallMetrics, object, session, providerVars>>

\* Mutant of Blocks: nothing blocks when failing open.
BlocksClosed(x) == FailClosed

\* guardOrThrow was rejected: a denial or an outage blocks, any other error only when failing closed.
Blocks(x) == x \in {"denied", "unavailable"} \/ FailClosed

\* The metrics object fetched before the await is updated and put back.
Block(c) ==
  LET m == call[c].metrics IN
  /\ stage[c] = "authorizing"
  /\ pc[c] = "refused"
  /\ Blocks(exit[c])
  /\ stage' = [stage EXCEPT ![c] = "blocked"]
  /\ object' = [object EXCEPT ![m].blocked = @ + 1]
  /\ toolCallMetrics' = [toolCallMetrics EXCEPT ![Tool(c)] = m]
  /\ stragglers' = IF call[c].session = currentSessionId THEN stragglers ELSE stragglers \cup {Tool(c)}
  /\ UNCHANGED <<now, cwd, currentSessionId, pendingMandates, call, session, providerVars>>

\* Mutant of AllowUnknownError: the error is rethrown when failing open, and the hook never answers.
AllowUnknownErrorNever(c) == FALSE /\ UNCHANGED vars

AllowUnknownError(c) ==
  /\ stage[c] = "authorizing"
  /\ pc[c] = "refused"
  /\ ~Blocks(exit[c])
  /\ stage' = [stage EXCEPT ![c] = "allowed"]
  /\ UNCHANGED <<now, cwd, currentSessionId, stragglers, toolCallMetrics, object, pendingMandates, call,
                 session, providerVars>>

--------------------------------------------------------------------------------
(* The host's part, and after_tool_call.                                      *)

\* The tool does what its parameters say by then.
RunTool(c) ==
  /\ stage[c] = "allowed"
  /\ stage' = [stage EXCEPT ![c] = "ran"]
  /\ \E e \in {d \in Events : d = call[c].event \/ (HostRewrites /\ d.toolName = Tool(c))} :
       call' = [call EXCEPT ![c].event = e, ![c].touched = Request(e, cwd)]
  /\ UNCHANGED <<now, cwd, currentSessionId, stragglers, toolCallMetrics, object, pendingMandates,
                 session, providerVars>>

\* The tool is aborted while it runs; the host never calls after_tool_call for it.
Abort(c) ==
  /\ HostAborts
  /\ stage[c] = "ran"
  /\ stage' = [stage EXCEPT ![c] = "aborted"]
  /\ UNCHANGED <<now, cwd, currentSessionId, stragglers, toolCallMetrics, object, pendingMandates, call,
                 session, providerVars>>

\* Mutant of AfterToolCall: the mandate is looked up but not taken out.
AfterToolCallKeeps(c) ==
  LET key == call[c].toolCallId
      m == IF PostVerify /\ key # NoKey THEN pendingMandates[key] ELSE NoMandate
  IN /\ stage[c] = "ran"
     /\ call' = [call EXCEPT ![c].verified = m, ![c].actual = Request(call[c].event, cwd)]
     /\ stage' = [stage EXCEPT ![c] = IF m # NoMandate THEN "verifying" ELSE "done"]
     /\ UNCHANGED <<now, cwd, currentSessionId, stragglers, toolCallMetrics, object, pendingMandates,
                    session, providerVars>>

\* Mutant of AfterToolCall: the evidence is made of what was stored with the mandate.
AfterToolCallStored(c) ==
  LET key == call[c].toolCallId
      m == IF PostVerify /\ key # NoKey THEN pendingMandates[key] ELSE NoMandate
  IN /\ stage[c] = "ran"
     /\ IF m # NoMandate
        THEN /\ pendingMandates' = [pendingMandates EXCEPT ![key] = NoMandate]
             /\ call' = [call EXCEPT ![c].verified = m, ![c].actual = call[m].authorized]
             /\ stage' = [stage EXCEPT ![c] = "verifying"]
        ELSE /\ stage' = [stage EXCEPT ![c] = "done"]
             /\ call' = [call EXCEPT ![c] = Forgotten(c)]
             /\ UNCHANGED pendingMandates
     /\ UNCHANGED <<now, cwd, currentSessionId, stragglers, toolCallMetrics, object, session, providerVars>>

\* The mandate found under the context's key is taken out and sent for verification, with what the event says was
\* executed, extracted once more.
AfterToolCall(c) ==
  LET key == call[c].toolCallId
      m == IF PostVerify /\ key # NoKey THEN pendingMandates[key] ELSE NoMandate
  IN /\ stage[c] = "ran"
     /\ IF m # NoMandate
        THEN /\ pendingMandates' = [pendingMandates EXCEPT ![key] = NoMandate]
             /\ call' = [call EXCEPT ![c].verified = m,
                                     ![c].actual = Request(call[c].event, cwd)]
             /\ stage' = [stage EXCEPT ![c] = "verifying"]
        ELSE /\ stage' = [stage EXCEPT ![c] = "done"]
             /\ call' = [call EXCEPT ![c] = Forgotten(c)]
             /\ UNCHANGED pendingMandates
     /\ UNCHANGED <<now, cwd, currentSessionId, stragglers, toolCallMetrics, object, session, providerVars>>

\* The verifier compares the evidence with the authorization of the mandate, or fails, which verify reports as not
\* verified: it always resolves, and a mismatch is only logged.  (The client that the plugin builds can verify; the
\* answer of verify for one that cannot is left out.)
VerifyAnswers(c) ==
  /\ stage[c] = "verifying"
  /\ stage' = [stage EXCEPT ![c] = "done"]
  /\ LET same == call[c].actual = call[call[c].verified].authorized
     IN \E answer \in {IF same THEN "verified" ELSE "mismatch", "error"} :
          call' = [call EXCEPT ![c] = [Forgotten(c) EXCEPT !.outcome = answer]]
  /\ UNCHANGED <<now, cwd, currentSessionId, stragglers, toolCallMetrics, object, pendingMandates,
                 session, providerVars>>

Tick == /\ now < MaxNow
        /\ now' = now + 1
        /\ UNCHANGED <<cwd, currentSessionId, stragglers, toolCallMetrics, object, pendingMandates,
                       call, stage, session, providerVars>>

ChangeDir == /\ \E i \in 2 .. Len(Dirs) : Dirs[i - 1] = cwd /\ cwd' = Dirs[i]
             /\ call' = [c \in Calls |-> IF stage[c] = "ran" THEN [call[c] EXCEPT !.steady = FALSE] ELSE call[c]]
             /\ UNCHANGED <<now, currentSessionId, stragglers, toolCallMetrics, object, pendingMandates,
                            stage, session, providerVars>>

Hook(c) == BeforeToolCall(c) \/ Allow(c) \/ Block(c) \/ AllowUnknownError(c) \/ AfterToolCall(c) \/ VerifyAnswers(c)

Next == \/ \E c \in Calls : Hook(c) \/ GuardProgress(c) \/ RunTool(c) \/ Abort(c)
        \/ \E s \in Sessions : SessionStart(s) \/ SessionEnd(s)
        \/ Tick \/ ChangeDir

Spec == Init /\ [][Next]_vars

\* Continuations run, the authority client answers or times out, the plugin's own exporter returns at once, and a
\* tool that is let through runs and, unless aborted, reaches after_tool_call.
FairSpec == Spec /\ \A c \in Calls : /\ WF_vars(GuardProgress(c))
                                     /\ WF_vars(Allow(c) \/ Block(c) \/ AllowUnknownError(c))
                                     /\ WF_vars(RunTool(c))
                                     /\ WF_vars(AfterToolCall(c) \/ Abort(c))
                                     /\ WF_vars(VerifyAnswers(c))

--------------------------------------------------------------------------------
ToolStatus == [c \in Calls |-> IF stage[c] \in {"idle", "authorizing", "allowed"} THEN "waiting"
                               ELSE IF stage[c] = "blocked" THEN "refused" ELSE "ran"]

Promise == INSTANCE ToolGuard
           WITH tool <- ToolStatus,
                Permitting <- IF FailClosed THEN {"allow"} ELSE {"allow", "unavailable", "none"}

\* The hooks keep the promise of ToolGuard for the tools the host runs.  Failing open, a tool also runs when the
\* request could not even be built ("Unknown error (fail-open)").
KeepsPromise == Promise!Spec

\* A pending mandate was issued to an allowed call of the tool in its key that has not been through
\* after_tool_call, and that call's context holds this very key: no denial and no other tool leaves a
\* mandate behind.
PendingIsOwed ==
  \A k \in Keys : pendingMandates[k] # NoMandate =>
    LET c == pendingMandates[k] IN
    /\ Tool(c) = k[1]
    /\ call[c].toolCallId = k
    /\ verdict[c] = "allow"
    /\ \/ stage[c] \in {"allowed", "ran", "aborted"}
       \/ \E d \in Calls \ {c} : call[d].toolCallId = k      \* a call with the same key took, or missed, its place

\* Verification never uses a mandate issued for another tool, and a call that shares its key with no other is
\* verified with its own mandate, however sessions come and go between its hooks.
VerifiesOwnMandate ==
  \A c \in Calls : (stage[c] \in {"verifying", "done"} /\ call[c].toolCallId # NoKey) =>
    /\ call[c].verified # NoMandate => Tool(call[c].verified) = Tool(c)
    /\ (\A d \in Calls \ {c} : call[d].toolCallId # call[c].toolCallId) => call[c].verified = c

\* "Verify execution matched authorization": every call that ran on a mandate is verified with that mandate.
EveryMandateVerified ==
  \A c \in Calls : (stage[c] = "done" /\ PostVerify /\ Returned(c) # NoMandate) => call[c].verified = c

TrueVerdict(c) ==
  (/\ stage[c] = "verifying" /\ stage'[c] = "done"
   /\ call'[c].outcome # "error" /\ call[c].verified = c /\ call[c].steady) =>
     (call'[c].outcome = "verified" <=> call[c].touched = call[c].authorized)

\* Post-execution verification tells what was done from what was authorized: a call verified with its own mandate
\* passes exactly when the tool, with whatever parameters and in whatever directory it ran, did what was authorized,
\* if nobody changes directories between the tool and the report.  (Long commands with the same two first words are
\* the same to both hooks.)
VerdictIsTrue == [][\A c \in Calls : TrueVerdict(c)]_vars

\* The metrics of a tool, its count and the blocked ones among them, are those of the calls it has had in the current
\* session, however calls overlap and whatever is left of earlier sessions: calls that were let through, or wait for
\* an answer, when their session ended.  Only the tools are excused of which such a call is blocked after the session
\* has begun: its hook puts the object of the old session into the map.
MetricsCountSession ==
  currentSessionId # NoSession =>
    \A t \in Tools \ stragglers :
      LET own == {c \in Calls : Tool(c) = t /\ call[c].session = currentSessionId /\ stage[c] # "idle"}
          m == toolCallMetrics[t]
      IN IF m = NoObject THEN own = {}
         ELSE /\ object[m].count = Cardinality(own)
              /\ object[m].blocked = Cardinality({c \in own : stage[c] = "blocked"})

\* A mandate does not stay pending for ever: each is taken out by some after_tool_call.
MandatesDrain == \A k \in Keys : pendingMandates[k] # NoMandate ~> pendingMandates[k] = NoMandate

\* Every tool call is decided, and one that is let through is done with, verified or not.
EveryCallCompletes == \A c \in Calls : stage[c] = "authorizing" ~> stage[c] \in {"blocked", "done", "aborted"}
================================================================================

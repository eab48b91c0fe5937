------------------------------ MODULE ToolAdapter ------------------------------
(* ToolAdapter.run (src/src/adapter.ts) over GuardedProvider: the tool is run *)
(* once guardOrThrow has resolved, and not at all when it is rejected.        *)
(******************************************************************************)
EXTENDS GuardedProvider

VARIABLE tool       \* what became of the tool behind each call

vars == <<pc, verdict, exit, mandate, told, audited, tool>>

TypeOK == /\ ProviderTypeOK
          /\ tool \in [Calls -> {"waiting", "ran", "refused"}]

Init == /\ ProviderInit
        /\ tool = [c \in Calls |-> "waiting"]

Guard(c) == /\ GuardStep(c)
            /\ UNCHANGED tool

\* guardOrThrow resolved: params.execute is called.
Execute(c) == /\ pc[c] = "granted"
              /\ tool[c] = "waiting"
              /\ tool' = [tool EXCEPT ![c] = "ran"]
              /\ UNCHANGED providerVars

\* guardOrThrow was rejected: the error goes to the caller of run.
Throw(c) == /\ pc[c] = "refused"
            /\ tool[c] = "waiting"
            /\ tool' = [tool EXCEPT ![c] = "refused"]
            /\ UNCHANGED providerVars

Next == \E c \in Calls : Guard(c) \/ Execute(c) \/ Throw(c)

Spec == Init /\ [][Next]_vars

\* JavaScript runs every continuation, and the authority client answers or times out (ProviderConfig.timeoutMs).
\* Nothing is assumed of the audit exporter.
CodeFairness == \A c \in Calls : /\ WF_vars(Answer(c) /\ UNCHANGED tool)
                                 /\ WF_vars(Execute(c))
                                 /\ WF_vars(Throw(c))

\* The exporter's promise settles in the end.
ExporterFairness == \A c \in Calls : WF_vars(ExportSettles(c) /\ UNCHANGED tool)

FairSpec == Spec /\ CodeFairness
FairExporterSpec == FairSpec /\ ExporterFairness

--------------------------------------------------------------------------------
Promise == INSTANCE ToolGuard
           WITH Permitting <- IF FailClosed THEN {"allow"} ELSE {"allow", "unavailable"}

\* The adapter keeps the promise of ToolGuard: no tool runs on a denial, nor without an answer, nor during an
\* outage when failing closed; and no allowed tool is turned away.
KeepsPromise == Promise!Spec

\* Whatever the telemetry sink throws, a tool runs only when the authority allowed the call or, when failing open,
\* could not be reached.  (Failing open this needs a sink that never throws: see DenialStands.)
OnlyPermittedRun ==
  \A c \in Calls : tool[c] = "ran" => verdict[c] \in IF FailClosed THEN {"allow"} ELSE {"allow", "unavailable"}

\* A tool never runs on a call the authority denied, in either mode.
DenialStands == \A c \in Calls : verdict[c] = "deny" => tool[c] # "ran"

\* Every tool call whose request reached the authority ends: its tool runs or its caller gets an error.
EveryToolSettles == \A c \in Calls : pc[c] = "authorizing" ~> tool[c] # "waiting"
================================================================================

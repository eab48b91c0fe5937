--------------------------- MODULE RuntimeIntegrator ---------------------------
(* OpenClawRuntimeIntegrator.register, which replaces the handlers of three   *)
(* tools by guarded ones, and calls of those handlers through the hooks and   *)
(* the adapter to the Python guard.  The TypeScript integrator, hooks and     *)
(* adapter are the same line by line.                                         *)
(*                                                                            *)
(* A guarded handler holds on to the handler it found in the registry.        *)
(* Registering again wraps the wrapper: a call then passes the guard once for *)
(* each layer.  register may also stop half way, when the registry does not   *)
(* know a tool.                                                               *)
(*                                                                            *)
(* asyncio switches tasks only at an await that suspends: here, the HTTP      *)
(* request.  The steps Execute and Raise follow an answer at once in the      *)
(* code; being steps of their own they let other calls in between, which no   *)
(* other call can notice.                                                     *)
(******************************************************************************)
EXTENDS PythonProvider, Naturals, Sequences

CONSTANTS Calls,
          MaxRegisters    \* bound: how often register is called

ASSUME IntegratorAssumption == MaxRegisters \in Nat

\* In the order register wraps them.
ToolOrder == <<"cmd.run", "fs.readFile", "http.request">>
Tools == {ToolOrder[i] : i \in DOMAIN ToolOrder}

VARIABLES backend,      \* ProviderConfig.authorization_backend
          layers,       \* guards around each tool's original handler in the registry
          registers,    \* register calls so far
          complete,     \* some register call has returned
          pc,           \* where each call is
          tool,         \* the tool each call is of
          depth,        \* the layers of the handler each call got from the registry
          answers       \* what the authority answered each call, layer by layer

vars == <<backend, layers, registers, complete, pc, tool, depth, answers>>

TypeOK == /\ backend \in Backends
          /\ layers \in [Tools -> 0 .. MaxRegisters]
          /\ registers \in 0 .. MaxRegisters
          /\ complete \in BOOLEAN
          /\ pc \in [Calls -> {"new", "asking", "granted", "refused", "ran", "raised", "bypassed"}]
          /\ tool \in [Calls -> Tools]
          /\ depth \in [Calls -> 0 .. MaxRegisters]
          /\ answers \in [Calls -> Seq({"allow", "deny", "unavailable"})]
          /\ \A c \in Calls : Len(answers[c]) <= depth[c]

Init == /\ backend \in Backends
        /\ layers = [t \in Tools |-> 0]
        /\ registers = 0
        /\ complete = FALSE
        /\ pc = [c \in Calls |-> "new"]
        /\ tool \in [Calls -> Tools]
        /\ depth = [c \in Calls |-> 0]
        /\ answers = [c \in Calls |-> <<>>]

callVars == <<pc, tool, depth, answers>>

--------------------------------------------------------------------------------
Wrapped(n) == {ToolOrder[i] : i \in 1 .. n}

\* Mutant of Register: the last tool is forgotten.
RegisterTwoTools ==
  /\ registers < MaxRegisters
  /\ registers' = registers + 1
  /\ \E n \in 0 .. 2 :
       /\ layers' = [t \in Tools |-> IF t \in Wrapped(n) THEN layers[t] + 1 ELSE layers[t]]
       /\ complete' = (complete \/ n = 2)
  /\ UNCHANGED <<backend, callVars>>

\* register wraps the first n tools; with n short of all of them, registry.get raised for the next one.
Register ==
  /\ registers < MaxRegisters
  /\ registers' = registers + 1
  /\ \E n \in 0 .. Len(ToolOrder) :
       /\ layers' = [t \in Tools |-> IF t \in Wrapped(n) THEN layers[t] + 1 ELSE layers[t]]
       /\ complete' = (complete \/ n = Len(ToolOrder))
  /\ UNCHANGED <<backend, callVars>>

\* A layer is entered: the context builder or the intent hash raises, or the authority is asked.
EnterLayer(c) == pc' = [pc EXCEPT ![c] = "asking"] \/ pc' = [pc EXCEPT ![c] = "refused"]

\* The host takes the tool's handler from the registry and calls it.
Invoke(c) ==
  /\ pc[c] = "new"
  /\ depth' = [depth EXCEPT ![c] = layers[tool[c]]]
  /\ \/ layers[tool[c]] = 0 /\ pc' = [pc EXCEPT ![c] = "bypassed"]
     \/ layers[tool[c]] > 0 /\ EnterLayer(c)
  /\ UNCHANGED <<backend, layers, registers, complete, tool, answers>>

\* Mutant of Answer: the wrapper calls itself instead of the handler it replaced.
AnswerSelf(c) ==
  /\ pc[c] = "asking"
  /\ \E r \in Responses(backend) :
       /\ answers' = [answers EXCEPT ![c] = Append(@, Verdict(r))]
       /\ IF Grants(SidecarAuthorize(r)) THEN EnterLayer(c) ELSE pc' = [pc EXCEPT ![c] = "refused"]
  /\ UNCHANGED <<backend, layers, registers, complete, tool, depth>>

\* The authority answers the innermost layer reached so far; a permission opens the next one, or the tool.
Answer(c) ==
  /\ pc[c] = "asking"
  /\ \E r \in Responses(backend) :
       /\ answers' = [answers EXCEPT ![c] = Append(@, Verdict(r))]
       /\ \/ Grants(SidecarAuthorize(r)) /\ Len(answers'[c]) < depth[c] /\ EnterLayer(c)
          \/ Grants(SidecarAuthorize(r)) /\ Len(answers'[c]) = depth[c] /\ pc' = [pc EXCEPT ![c] = "granted"]
          \/ ~Grants(SidecarAuthorize(r)) /\ pc' = [pc EXCEPT ![c] = "refused"]
  /\ UNCHANGED <<backend, layers, registers, complete, tool, depth>>

\* The host cancels the task while it waits for the sidecar; the local client answers without suspending.
Cancel(c) == /\ pc[c] = "asking"
             /\ backend = "http_sidecar"
             /\ pc' = [pc EXCEPT ![c] = "refused"]
             /\ UNCHANGED <<backend, layers, registers, complete, tool, depth, answers>>

Execute(c) == /\ pc[c] = "granted"
              /\ pc' = [pc EXCEPT ![c] = "ran"]
              /\ UNCHANGED <<backend, layers, registers, complete, tool, depth, answers>>

Raise(c) == /\ pc[c] = "refused"
            /\ pc' = [pc EXCEPT ![c] = "raised"]
            /\ UNCHANGED <<backend, layers, registers, complete, tool, depth, answers>>

CallStep(c) == Invoke(c) \/ Answer(c) \/ Cancel(c) \/ Execute(c) \/ Raise(c)

Next == Register \/ \E c \in Calls : CallStep(c)

Spec == Init /\ [][Next]_vars

--------------------------------------------------------------------------------
\* The answers of all layers taken together, once the last one that will be asked has been: the worst of them.
Combined(c) ==
  IF pc[c] \notin {"granted", "refused", "ran", "raised"} THEN "none"
  ELSE IF \E i \in DOMAIN answers[c] : answers[c][i] = "deny" THEN "deny"
  ELSE IF \E i \in DOMAIN answers[c] : answers[c][i] = "unavailable" THEN "unavailable"
  ELSE IF Len(answers[c]) = depth[c] THEN "allow"
  ELSE "none"

ToolStatus(c) == IF pc[c] = "ran" THEN "ran" ELSE IF pc[c] = "raised" THEN "refused" ELSE "waiting"

Promise == INSTANCE ToolGuard
           WITH verdict <- [c \in Calls |-> Combined(c)],
                tool <- [c \in Calls |-> ToolStatus(c)],
                Permitting <- IF FailClosed THEN {"allow"} ELSE {"allow", "unavailable"}

\* A guarded handler keeps the promise of ToolGuard, however often its tool was registered before, during or
\* after the call: the tool runs only if every layer's answer permits it, and is not turned away if all allow it.
KeepsPromise == Promise!Spec

\* Once register has returned, no call of one of its tools gets past the guards: not even when a later register
\* stops half way.
NoBypass == [][complete => \A c \in Calls : pc[c] # "bypassed" => pc'[c] # "bypassed"]_vars
================================================================================

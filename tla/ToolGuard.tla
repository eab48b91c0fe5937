------------------------------- MODULE ToolGuard -------------------------------
(* What the project promises its users, free of any mechanism: "Enforces policy BEFORE execution" *)
(* (docs/HOW-IT-WORKS.md).  Every tool call is answered at most once by the   *)
(* authority, runs at most once, runs only on an answer that permits running, *)
(* and is never turned away once the authority has allowed it.                *)
(*                                                                            *)
(* The call sites (ToolAdapter, SecureClawPlugin) are shown to implement it.  *)
(******************************************************************************)
CONSTANTS Calls,        \* the tool calls an agent makes
          Permitting    \* the verdicts on which a tool may run

Verdicts == {"allow", "deny", "unavailable"}

VARIABLES verdict,      \* what the authority answered to each call
          tool          \* what became of the tool behind each call

vars == <<verdict, tool>>

TypeOK == /\ verdict \in [Calls -> Verdicts \cup {"none"}]
          /\ tool \in [Calls -> {"waiting", "ran", "refused"}]

Init == /\ verdict = [c \in Calls |-> "none"]
        /\ tool = [c \in Calls |-> "waiting"]

Answer(c) == /\ verdict[c] = "none"
             /\ tool[c] = "waiting"
             /\ \E v \in Verdicts : verdict' = [verdict EXCEPT ![c] = v]
             /\ UNCHANGED tool

Run(c) == /\ tool[c] = "waiting"
          /\ verdict[c] \in Permitting
          /\ tool' = [tool EXCEPT ![c] = "ran"]
          /\ UNCHANGED verdict

Refuse(c) == /\ tool[c] = "waiting"
             /\ verdict[c] # "allow"
             /\ tool' = [tool EXCEPT ![c] = "refused"]
             /\ UNCHANGED verdict

Next == \E c \in Calls : Answer(c) \/ Run(c) \/ Refuse(c)

Spec == Init /\ [][Next]_vars
================================================================================

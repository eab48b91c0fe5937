------------------------ MODULE PredicateSidecarClient -------------------------
(* What the client of the research demo makes of an answer of the sidecar     *)
(* (src/examples/real-openclaw-demo/src/predicate-sidecar-client.ts).         *)
(* Nothing is executed through this client: both of its calls only ask.       *)
(******************************************************************************)

CONSTANT FailClosed    \* options.failClosed

\* allow and deny come with status 200, forbidden with 403 and a JSON body, garbled is a 403 or a 200 whose body
\* is no JSON, status any other status, unreachable a fetch that throws.  notFound: the text that comes with the
\* answer says "ENOENT" or "not found".
Response == [kind : {"allow", "deny", "forbidden", "garbled", "status", "unreachable"}, notFound : BOOLEAN]

\* execute ends in catch: there is no verdict of the policy to go by.
Unanswered(r) == r.kind \in {"garbled", "status", "unreachable"}

\* authorize throws on every status but 200, a 403 among them: failing open, that denial becomes a permission.
Authorize(r) ==
  IF r.kind = "forbidden" \/ Unanswered(r)
  THEN [allowed |-> ~FailClosed, notFound |-> FALSE]
  ELSE [allowed |-> r.kind = "allow", notFound |-> FALSE]

\* Mutant of Execute: it obeys failClosed, and fails open on an outage.
ExecuteFailingOpen(r) == [allowed |-> r.kind = "allow" \/ Unanswered(r), notFound |-> r.notFound]

\* execute fails closed whatever failClosed says, and passes the text of a refusal on as the error.
Execute(r) == [allowed |-> r.kind = "allow", notFound |-> r.kind # "allow" /\ r.notFound]

\* The requests made of the two.
LaunchBrowser == [action |-> "browser.launch", resource |-> "*"]
NavigateTo(url) == [action |-> "browser.navigate", resource |-> url]
ReadFile(path) == [action |-> "fs.read", resource |-> path]
WriteFile(path) == [action |-> "fs.write", resource |-> path]
================================================================================

----------------------------- MODULE PythonProvider ----------------------------
(* One pass through the Python guard: SidecarClient.authorize,                *)
(* GuardedProvider.authorize and guard_or_raise                               *)
(* (src/src/openclaw_predicate_provider).  The provider keeps no state, so a  *)
(* pass is a function from what the authority does to how the pass ends.      *)
(******************************************************************************)
CONSTANT FailClosed     \* ProviderConfig.fail_closed

ASSUME PythonAssumption == FailClosed \in BOOLEAN

Backends == {"http_sidecar", "agentidentity_local"}

\* How a pass can come out of the sidecar client: a decision, SidecarUnavailableError, or any other exception.
Results == {"allow", "deny", "unavailable", "raw"}

\* HTTP: an httpx error (timeouts included); the statuses 200 and 403, whose body may not be the expected JSON
\* object; any other status.
HttpResponses == {"http_error", "200", "200_unreadable", "403", "403_unreadable", "other_status"}

\* The local client answers, its integration module is missing, or it raises.
LocalResponses == {"allowed", "refused", "import_error", "raised"}

Responses(backend) == IF backend = "http_sidecar" THEN HttpResponses ELSE LocalResponses

\* The authority's answer, as ToolGuard sees it: one that cannot be read is no answer, but 403 is a denial.
Verdict(r) == IF r \in {"200", "allowed"} THEN "allow"
              ELSE IF r \in {"403", "403_unreadable", "refused"} THEN "deny"
              ELSE "unavailable"

\* SidecarClient.authorize.  When failing open, a status it does not know counts as a permission.
SidecarAuthorize(r) ==
  IF r \in {"200", "allowed"} THEN "allow"
  ELSE IF r \in {"403", "refused"} THEN "deny"
  ELSE IF r \in {"http_error", "import_error"} THEN "unavailable"
  ELSE IF r = "other_status" THEN (IF FailClosed THEN "unavailable" ELSE "allow")
  ELSE "raw"

\* Mutant of Grants: guard_or_raise catches the base class GuardError, and so the denial with it.
GrantsGuardError(x) == x = "allow" \/ (x \in {"deny", "unavailable"} /\ ~FailClosed)

\* guard_or_raise returns, rather than raises, on result x.
Grants(x) == x = "allow" \/ (x = "unavailable" /\ ~FailClosed)

================================================================================

-------------------------- MODULE ProviderRequests --------------------------
(***************************************************************************)
(* One write through the Spotify adapter (providers/spotify.py), the       *)
(* creation of a playlist or the addition of an entry: the checks before   *)
(* it, the HTTP exchange of http_json.py and http_transport.py, and what   *)
(* spotify_error_mapping.py makes of the answer.  The provider may carry a *)
(* request out at any time, even after the client has given up, and may    *)
(* answer before anything is decided.                                      *)
(***************************************************************************)
EXTENDS SqlNull, Naturals

VARIABLES
  stage,          \* "checking", "waiting", "told"
  request,        \* at the provider: "unsent", "underway", "carried", "dropped"
  response,       \* what the provider answered, or NULL
  writeVerdict    \* what the caller was told, or NULL

requestVars == <<stage, request, response, writeVerdict>>

Categories ==
  {"authentication_required", "authorization_revoked", "permission_denied",
   "capability_unavailable", "not_found", "item_unavailable", "invalid_request",
   "rate_limited", "provider_unavailable", "timeout", "network_error", "conflict",
   "unknown_write_outcome", "provider_contract_changed"}

Inconclusive ==
  {"timeout", "network_error", "provider_unavailable", "unknown_write_outcome",
   "provider_contract_changed"}

\* One status of each class that the code tells apart.
Created == 201
Statuses == {200, Created, 302, 400, 401, 403, 404, 429, 500, 503}

Succeeds(status)  == status \in 200..299
Redirects(status) == status \in 300..399
Rejects(status)   == status \in 400..499

\* A JSON object with and without the identity of what was written, an error
\* object with a blank code, JSON of another kind, no JSON, a body that stalls
\* or breaks off.
Bodies == {"identity", "object", "blank_code", "not_object", "garbled", "broken"}

RequestInit ==
  /\ stage = "checking"
  /\ request = "unsent"
  /\ response = NULL
  /\ writeVerdict = NULL

-----------------------------------------------------------------------------
(* The classification of answers *)

\* Fault: a server error is taken for a refusal.
OutcomeOfServerErrors(category) ==
  CASE category = "rate_limited" -> "rate_limited"
    [] category \in Inconclusive \ {"provider_unavailable"} -> "unknown_outcome"
    [] OTHER -> "permanent_failure"

\* write_outcome.
Outcome(category) ==
  CASE category = "rate_limited" -> "rate_limited"
    [] category \in Inconclusive -> "unknown_outcome"
    [] OTHER -> "permanent_failure"

CategoryOf(status) ==
  CASE status = 401  -> "authentication_required"
    [] status = 403  -> "permission_denied"
    [] status = 404  -> "not_found"
    [] status = 429  -> "rate_limited"
    [] status >= 500 -> "provider_unavailable"
    [] OTHER         -> "invalid_request"

\* decode_json_object, and the confirmation the caller insists on.
OfSuccess(status, body) ==
  CASE body = "broken" -> {Outcome("timeout"), "exception"}
    [] status = Created /\ body = "identity" -> {"confirmed_success"}
    [] OTHER -> {Outcome("provider_contract_changed")}

\* The body of a refused answer is read outside the handlers; a blank code is
\* refused by the constructor of the error itself.
OfError(status, body) ==
  CASE body = "broken" -> {"exception"}
    [] Redirects(status) -> {Outcome("unknown_write_outcome")}
    [] ~Redirects(status) /\ body = "blank_code" -> {"exception"}
    [] OTHER -> {Outcome(CategoryOf(status))}

VerdictsOn(answer) ==
  IF Succeeds(answer.status) THEN OfSuccess(answer.status, answer.body)
  ELSE OfError(answer.status, answer.body)

-----------------------------------------------------------------------------
(* The adapter *)

ToldOne(verdicts) ==
  /\ stage' = "told"
  /\ \E v \in verdicts : writeVerdict' = v
  /\ UNCHANGED response

\* Blank or foreign arguments raise ValueError; a writer that is disabled or bound
\* to no connection fails for good, as it does without a token; fetching the token
\* may fail in any way.
StopBeforeSending ==
  /\ stage = "checking"
  /\ ToldOne({"exception"} \cup {Outcome(c) : c \in Categories})
  /\ UNCHANGED request

Send ==
  /\ stage = "checking"
  /\ stage' = "waiting" /\ request' = "underway"
  /\ UNCHANGED <<response, writeVerdict>>

Receive ==
  /\ stage = "waiting" /\ response # NULL
  /\ ToldOne(VerdictsOn(response))
  /\ UNCHANGED request

\* TimeoutError, URLError, and the failures that neither is raised for.
GiveUp ==
  /\ stage = "waiting"
  /\ ToldOne({Outcome("timeout"), Outcome("network_error"), "exception"})
  /\ UNCHANGED request

-----------------------------------------------------------------------------
(* The provider (external) *)

CarryOut ==
  /\ request = "underway"
  /\ request' = "carried"
  /\ UNCHANGED <<stage, response, writeVerdict>>

\* The request is refused or lost.
Drop ==
  /\ request = "underway"
  /\ request' = "dropped"
  /\ UNCHANGED <<stage, response, writeVerdict>>

\* A client error is an answer to a request that is not carried out, a new
\* identity one to a request that was; a redirect, a server error or an unusual
\* success may come from anything on the way.
Truthful(status, body) ==
  /\ Rejects(status) => request = "dropped"
  /\ status = Created /\ body = "identity" => request = "carried"

Respond ==
  /\ stage = "waiting" /\ response = NULL
  /\ \E status \in Statuses, body \in Bodies :
       /\ Truthful(status, body)
       /\ response' = [status |-> status, body |-> body]
  /\ UNCHANGED <<stage, request, writeVerdict>>

Exchange == StopBeforeSending \/ Send \/ Receive \/ GiveUp

RequestNext == Exchange \/ CarryOut \/ Drop \/ Respond

RequestSpec == RequestInit /\ [][RequestNext]_requestVars

-----------------------------------------------------------------------------
(* Properties *)

RequestTypeOK ==
  /\ stage \in {"checking", "waiting", "told"}
  /\ request \in {"unsent", "underway", "carried", "dropped"}
  /\ response \in [status : Statuses, body : Bodies] \cup {NULL}
  /\ (writeVerdict = NULL) = (stage # "told")

Writer ==
  INSTANCE WriterContract WITH carried <- request = "carried", verdict <- writeVerdict

ASSUME RequestAssumption == NULL \notin Writer!Verdicts

\* The adapter tells the copy executor nothing that is not so, whatever was
\* answered, lost or carried out late.
WriterKeepsContract == Writer!Spec
=============================================================================

--------------------------- MODULE WriterContract ---------------------------
(***************************************************************************)
(* What the copy executor relies on when it calls a PlaylistWriter         *)
(* (providers/writing.py): a confirmed write was carried out, a refused    *)
(* one is not and never will be, and anything else says nothing.           *)
(* The provider of CopyExecution behaves like this.                        *)
(***************************************************************************)
EXTENDS SqlNull

VARIABLES
  carried,    \* did the provider carry the write out?
  verdict     \* what the caller was told, or NULL

Refusals == {"retryable", "rate_limited", "permanent_failure"}

WriteOutcomes == {"confirmed_success", "unknown_outcome"} \cup Refusals

\* "exception" is the end of a call that returns no outcome.
Verdicts == WriteOutcomes \cup {"exception"}

Init == carried = FALSE /\ verdict = NULL

Carry ==
  /\ ~carried /\ verdict \notin Refusals
  /\ carried' = TRUE
  /\ UNCHANGED verdict

Tell(v) ==
  /\ verdict = NULL
  /\ v = "confirmed_success" => carried
  /\ v \in Refusals => ~carried
  /\ verdict' = v
  /\ UNCHANGED carried

Next == Carry \/ \E v \in Verdicts : Tell(v)

Spec == Init /\ [][Next]_<<carried, verdict>>
=============================================================================

--------------------------- MODULE OperationLife ----------------------------
(***************************************************************************)
(* What the operation repository promises about one operation, without     *)
(* states, leases, schedules or clocks.  Only a holder records progress    *)
(* or doubt; a request to cancel is never taken back and lets nobody take  *)
(* the operation any more; its holder can only lay it down, ended if       *)
(* nothing is in doubt and asking the user if something is; what asks the  *)
(* user ends only when the user answers; and an outcome is final.          *)
(***************************************************************************)
EXTENDS Integers, SqlNull

CONSTANTS
  Workers,        \* who may hold the operation
  Steps,          \* external steps that may be in doubt
  MaxProgress     \* bound: confirmed progress

VARIABLES
  submitted,   \* does the operation exist?
  holder,      \* the worker that may record, or NULL
  asked,       \* is a cancellation pending?
  doubt,       \* the step whose outcome is not known, or NULL
  progress,    \* what is confirmed
  outcome      \* how the operation ended, or NULL

vars == <<submitted, holder, asked, doubt, progress, outcome>>

Ends == {"succeeded", "partial", "failed", "cancelled"}

Init ==
  /\ submitted = FALSE /\ holder = NULL /\ asked = FALSE
  /\ doubt = NULL /\ progress = 0 /\ outcome = NULL

Underway == submitted /\ outcome = NULL

Submit ==
  /\ ~submitted /\ submitted' = TRUE
  /\ UNCHANGED <<holder, asked, doubt, progress, outcome>>

\* Also from a holder whose time ran out.
Take(w) ==
  /\ Underway /\ ~asked
  /\ holder' = w
  /\ UNCHANGED <<submitted, asked, doubt, progress, outcome>>

Record ==
  /\ Underway /\ holder # NULL
  /\ doubt' \in Steps \cup {NULL} /\ progress' \in 0..MaxProgress
  /\ UNCHANGED submitted

LayDown == holder' = NULL

\* The holder goes on, waits or ends.
Work ==
  /\ ~asked /\ Record
  /\ \/ UNCHANGED <<holder, outcome>>
     \/ LayDown /\ (UNCHANGED outcome \/ outcome' \in Ends)
  /\ UNCHANGED asked

\* The holder learns of the cancellation.
Stop ==
  /\ asked /\ Record /\ LayDown
  /\ \/ doubt' # NULL /\ UNCHANGED <<asked, outcome>>
     \/ doubt' = NULL /\ asked' = FALSE /\ outcome' \in Ends

\* The holder of a cancelled operation vanished; nobody knows how far it came.
Vanish ==
  /\ asked /\ holder # NULL /\ LayDown
  /\ UNCHANGED <<submitted, asked, doubt, progress, outcome>>

\* Without a holder the operation ends at once, or, in doubt, may ask the user.
Cancel ==
  /\ Underway /\ ~asked
  /\ \/ (holder # NULL \/ doubt # NULL) /\ asked' = TRUE /\ UNCHANGED outcome
     \/ holder = NULL /\ outcome' = "cancelled" /\ UNCHANGED asked
  /\ UNCHANGED <<submitted, holder, doubt, progress>>

\* The user says what became of the step in doubt.
Resolve ==
  /\ asked /\ holder = NULL
  /\ asked' = FALSE /\ doubt' = NULL /\ outcome' \in {"cancelled", "partial"}
  /\ UNCHANGED <<submitted, holder, progress>>

Next ==
  \/ Submit \/ Work \/ Stop \/ Vanish \/ Cancel \/ Resolve
  \/ \E w \in Workers : Take(w)

Spec == Init /\ [][Next]_vars
=============================================================================

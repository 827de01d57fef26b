---------------------------- MODULE CopyContract ----------------------------
(***************************************************************************)
(* What a playlist copy promises, without workers, leases or checkpoints:  *)
(* the steps of the plan are written in plan order, each at most once and  *)
(* only after it was announced as the step in doubt; a step is confirmed   *)
(* only if it was written and rejected only if it was not; so whatever was *)
(* written is confirmed, in doubt or attested, and an outcome is final.    *)
(***************************************************************************)
EXTENDS Integers

CONSTANTS
  NULL,         \* no step, no outcome
  NumEntries    \* the plan is 1..NumEntries; step 0 creates the target playlist

VARIABLES
  written,     \* steps the provider carried out
  confirmed,   \* steps recorded as carried out
  rejected,    \* steps recorded as refused for good
  doubt,       \* the step whose outcome is not recorded yet, or NULL
  outcome      \* how the copy ended, or NULL

vars == <<written, confirmed, rejected, doubt, outcome>>

Steps == 0..NumEntries

Ends == {"succeeded", "partial", "failed", "cancelled"}

Init ==
  /\ written = {} /\ confirmed = {} /\ rejected = {}
  /\ doubt = NULL /\ outcome = NULL

Settled == confirmed \cup rejected

\* Only the first unsettled step can come into doubt, and 0, the target, must
\* have been confirmed before an entry is.
Announce(s) ==
  /\ doubt = NULL /\ outcome = NULL
  /\ s \notin Settled /\ \A earlier \in 0..(s - 1) : earlier \in Settled
  /\ s # 0 => 0 \in confirmed
  /\ doubt' = s
  /\ UNCHANGED <<confirmed, rejected>>

\* The provider may be late: the copy may have failed in the meantime.
Write ==
  /\ doubt \in Steps \ written
  /\ written' = written \cup {doubt}
  /\ UNCHANGED <<confirmed, rejected, doubt, outcome>>

\* The doubt was unfounded.
Withdraw ==
  /\ doubt \in Steps \ written
  /\ doubt' = NULL
  /\ UNCHANGED <<confirmed, rejected>>

Accept ==
  /\ doubt \in written
  /\ confirmed' = confirmed \cup {doubt}
  /\ doubt' = NULL
  /\ UNCHANGED rejected

Refuse ==
  /\ doubt \in Steps \ written
  /\ rejected' = rejected \cup {doubt}
  /\ doubt' = NULL
  /\ UNCHANGED confirmed

\* A user attests that the step in doubt was written; it is not confirmed.
Attest ==
  /\ doubt \in written
  /\ doubt' = NULL /\ outcome' = "partial"
  /\ UNCHANGED <<confirmed, rejected>>

\* How the copy may end after a step: succeeded and partial account for every
\* step of the plan; a copy that failed or was cancelled may leave a doubt behind.
MayEnd(end) ==
  CASE end = "succeeded" -> confirmed' = Steps
    [] end = "partial"   -> confirmed' \cup rejected' = Steps \/ Attest
    [] OTHER             -> TRUE

\* An outcome is final.
Close ==
  \/ UNCHANGED outcome
  \/ outcome = NULL /\ \E end \in Ends : outcome' = end /\ MayEnd(end)

Next ==
  \/ Write
  \/ /\ \/ \E s \in Steps : Announce(s)
        \/ Withdraw \/ Accept \/ Refuse \/ Attest
        \/ UNCHANGED <<confirmed, rejected, doubt>>
     /\ outcome = NULL
     /\ Close
     /\ UNCHANGED written

Spec == Init /\ [][Next]_vars
=============================================================================

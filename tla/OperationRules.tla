--------------------------- MODULE OperationRules ---------------------------
(***************************************************************************)
(* The row of the durable operation table and what each repository         *)
(* transaction may do to it, as state-free operators over one row.         *)
(*                                                                         *)
(* A row is a record with (at least) the fields of EmptyRow below; its     *)
(* checkpoint is a record with (at least) the fields unknown, the step     *)
(* whose external outcome is not known or NULL, and recon, the flag        *)
(* reconciliation_required.  Times are integers; NULL stands for SQL NULL, *)
(* and for `no step'.  `now' is always the time the CALLER sampled before  *)
(* it asked for the database write lock.                                   *)
(***************************************************************************)
EXTENDS Integers, SqlNull

CONSTANT
  LeaseSeconds    \* lease_seconds of every claim and renewal

ASSUME LeaseAssumption == LeaseSeconds \in Nat \ {0}

Terminal == {"succeeded", "partial", "failed", "cancelled"}
Waiting  == {"retry_scheduled", "waiting_rate_limit"}
States   == {"queued", "running", "waiting_user"} \cup Waiting \cup Terminal

\* The states a worker may ask `checkpoint' to record.
CheckpointStates == {"running", "waiting_user"} \cup Terminal

-----------------------------------------------------------------------------
(* Predicates on a row *)

LeaseExpired(row, now) == row.lease = NULL \/ row.lease <= now

Owns(row, w) == row.state = "running" /\ row.worker = w

\* Fault: the lease's expiry is not looked at.
HoldsLeaseUnchecked(row, w, now) == Owns(row, w)

HoldsLease(row, w, now) == Owns(row, w) /\ ~LeaseExpired(row, now)

Due(row, now) ==
  \/ row.state = "queued"
  \/ row.state \in Waiting /\ row.nextRun # NULL /\ row.nextRun <= now

Abandoned(row, now) == row.state = "running" /\ LeaseExpired(row, now)

Claimable(row, now) == ~row.cancel /\ (Due(row, now) \/ Abandoned(row, now))

\* A cancelled operation whose worker vanished, perhaps inside a provider call.
UncertainCancelled(row, now) == row.cancel /\ Abandoned(row, now)

RequiresReconciliation(cp) == cp.unknown # NULL \/ cp.recon

\* Fault: a quarantined operation can be resumed.
ResumableAlways(row) == row.state = "waiting_user"

Resumable(row) ==
  row.state = "waiting_user" /\ ~row.cancel /\ ~row.checkpoint.recon

Resolvable(row) ==
  row.state = "waiting_user" /\ row.cancel /\ row.checkpoint.recon

\* Fault: cancelling a finished operation is not refused.
CancellableAlways(row) == ~(row.state = "waiting_user" /\ row.cancel)

\* A second cancellation and one of a finished operation change nothing.
Cancellable(row) ==
  /\ row.state \notin Terminal
  /\ ~(row.state = "waiting_user" /\ row.cancel)

-----------------------------------------------------------------------------
(* The row a transaction leaves behind *)

\* Fault: the lease stays behind.
ReleasedWithLease(row) == [row EXCEPT !.worker = NULL]

Released(row) == [row EXCEPT !.worker = NULL, !.lease = NULL]

NeedsReconciliation(cp) == [cp EXCEPT !.recon = TRUE]

Quarantined(row, cp) ==
  [Released(row) EXCEPT !.state      = "waiting_user",
                        !.checkpoint = NeedsReconciliation(cp),
                        !.nextRun    = NULL]

Claimed(row, w, now) ==
  [row EXCEPT !.state   = "running",
              !.worker  = w,
              !.lease   = now + LeaseSeconds,
              !.nextRun = NULL]

\* Fault: a renewal with an old clock sample shortens the lease.
RenewedBlindly(row, now) == [row EXCEPT !.lease = now + LeaseSeconds]

\* A renewal never shortens the lease it finds.
Renewed(row, now) ==
  [row EXCEPT !.lease = IF now + LeaseSeconds > @ THEN now + LeaseSeconds ELSE @]

\* Fault: the state the worker asked for wins over the doubt.
StateUnderCancelAsAsked(cp, asked) ==
  IF asked \in {"running", "waiting_user"} THEN "cancelled" ELSE asked

\* Fault: a state the table does not know.
StateUnderCancelReconciling(cp, asked) ==
  IF RequiresReconciliation(cp) THEN "reconciling" ELSE "cancelled"

\* The state a checkpoint is recorded in when cancellation was requested.
StateUnderCancel(cp, asked) ==
  IF RequiresReconciliation(cp) THEN "waiting_user"
  ELSE IF asked \in {"running", "cancelled", "waiting_user"} THEN "cancelled"
  ELSE asked

Checkpointed(row, cp, asked) ==
  LET state == IF row.cancel THEN StateUnderCancel(cp, asked) ELSE asked
      saved == IF row.cancel /\ RequiresReconciliation(cp)
               THEN NeedsReconciliation(cp) ELSE cp
      owner == IF state = "running" THEN row ELSE Released(row)
  IN  [owner EXCEPT !.state      = state,
                    !.checkpoint = saved,
                    !.cancel     = @ /\ state \notin Terminal]

\* Fault: the operation is parked without the flag that resolution demands.
ScheduledUnflagged(row, cp, asked, next) ==
  IF row.cancel
  THEN [Released(row) EXCEPT !.state = "waiting_user", !.checkpoint = cp]
  ELSE [Released(row) EXCEPT !.state = asked, !.checkpoint = cp, !.nextRun = next]

\* schedule_retry and schedule_rate_limit: asked is the waiting state.
Scheduled(row, cp, asked, next) ==
  IF row.cancel /\ RequiresReconciliation(cp) THEN Quarantined(row, cp)
  ELSE IF row.cancel
       THEN [Released(row) EXCEPT !.state = "cancelled", !.checkpoint = cp,
                                  !.nextRun = NULL, !.cancel = FALSE]
       ELSE [Released(row) EXCEPT !.state = asked, !.checkpoint = cp,
                                  !.nextRun = next]

CancelKeepsUncertain(row) ==
  row.state = "waiting_user" /\ RequiresReconciliation(row.checkpoint)

Cancelled(row) ==
  IF CancelKeepsUncertain(row)
  THEN [row EXCEPT !.checkpoint = NeedsReconciliation(@), !.cancel = TRUE]
  ELSE IF row.state = "running"
       THEN [row EXCEPT !.cancel = TRUE]
       ELSE [Released(row) EXCEPT !.state = "cancelled", !.nextRun = NULL,
                                  !.cancel = FALSE]

Resumed(row) == [row EXCEPT !.state = "queued"]

Outcomes == {"no_effect", "effect_confirmed"}

Resolved(row, outcome) ==
  [Released(row) EXCEPT
     !.state      = IF outcome = "no_effect" THEN "cancelled" ELSE "partial",
     !.checkpoint = [@ EXCEPT !.recon = FALSE, !.unknown = NULL],
     !.nextRun    = NULL,
     !.cancel     = FALSE]
=============================================================================

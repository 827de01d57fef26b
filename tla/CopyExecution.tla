--------------------------- MODULE CopyExecution ---------------------------
(***************************************************************************)
(* One playlist copy, executed by polling workers or by callers of execute *)
(* over the durable operation row (application/operation_worker.py,        *)
(* operation_runner.py and copy_execution*.py), against a provider that    *)
(* may carry a request out long after it was given up, or never.           *)
(*                                                                         *)
(* A worker is a control point and the checkpoint it holds in memory.      *)
(* Every repository transaction and every provider call is a step of its   *)
(* own, so anything may happen between two of them.                        *)
(*                                                                         *)
(* Time is relative: the real clock is always 0, the lease and the next    *)
(* run time are what is left of them, and Tick ages both.  The clock       *)
(* sample of a call is 0 or up to MaxStaleness behind.  Crashes, stalls    *)
(* past a live lease, clocks that run backwards and store errors are       *)
(* faults; together they are at most MaxFaults.                            *)
(***************************************************************************)
EXTENDS CopyCheckpoint

CONSTANTS
  Workers,        \* worker identities
  Reliable,       \* the workers no fault happens to and nobody stops
  Callers,        \* the workers that may also be called to execute directly
  Outdated,       \* the workers that may run without a handler for copies
  RetryDelay,     \* retry_delay_seconds
  MaxDelay,       \* bound: how far ahead a provider may ask to be called again
  MaxStaleness,   \* bound: age of a clock sample when its transaction runs
  MaxFaults,      \* bound: faults in a behaviour
  Stored          \* the checkpoints the row may start with

ASSUME WorkerAssumption == /\ NULL \notin Workers \cup Terminal \cup Int
                           /\ Reliable \cup Callers \cup Outdated \subseteq Workers
                           /\ Reliable \cap Outdated = {}
ASSUME TimeAssumption   == /\ MaxStaleness \in Nat
                           /\ RetryDelay \in Nat \ {0}
                           /\ MaxDelay \in Nat \ {0}
                           /\ MaxFaults \in Nat
\* The row starts out queued, so it is not flagged for reconciliation.
ASSUME StoredAssumption == /\ Stored \subseteq DecodedCheckpoints
                           /\ \A cp \in Stored : ~cp.recon

VARIABLES
  op,           \* the row of the copy operation
  run,          \* worker -> where it is and the checkpoint it holds
  effects,      \* step -> how often the provider carried it out
  late,         \* steps whose request was abandoned and may still be carried out
  resolution,   \* the recorded cancellation_resolution, or NULL
  faults        \* faults so far

vars == <<op, run, effects, late, resolution, faults>>

\* Where a worker is.  Each name but the first five is the call that comes next.
Points ==
  {"idle", "down", "stopped", "claimed", "direct",
   "cancel", "step", "mark", "authorise", "call", "calling", "applied",
   "unsure", "reconcile", "confirm", "reject", "retry", "limited", "wait",
   "stopping", "raised", "failing"}

Gone == {"down", "stopped"}

\* Points whose next call is a repository transaction.
Saving ==
  {"claimed", "cancel", "step", "mark", "authorise", "unsure", "confirm", "reject",
   "retry", "limited", "wait", "stopping"}

Samples == -MaxStaleness..0

QueuedWith(cp) ==
  [state |-> "queued", checkpoint |-> cp, worker |-> NULL,
   lease |-> NULL, nextRun |-> NULL, cancel |-> FALSE]

Idle == [at |-> "idle", mem |-> FreshCheckpoint]

Init ==
  /\ op         \in {QueuedWith(cp) : cp \in Stored}
  /\ run        = [w \in Workers |-> Idle]
  /\ effects    = [s \in CopySteps |-> 0]
  /\ late       = {}
  /\ resolution = NULL
  /\ faults     = 0

external == <<effects, late>>

At(w, point) == run[w].at = point

Mem(w) == run[w].mem

GoTo(w, point, cp) == run' = [run EXCEPT ![w] = [at |-> point, mem |-> cp]]

\* The run ends, with its result or with a LeaseConflict: run_forever polls on.
Leave(w) == run' = [run EXCEPT ![w] = Idle]

-----------------------------------------------------------------------------
(* The repository transactions, as a run uses them *)

\* checkpoint: a worker that no longer holds the lease gives the run up.
Save(w, cp, asked, now, next) ==
  /\ IF HoldsLease(op, w, now)
     THEN LET row == Checkpointed(op, cp, asked)
          IN  /\ op' = row
              /\ IF row.state = "running" THEN GoTo(w, next, cp) ELSE Leave(w)
     ELSE UNCHANGED op /\ Leave(w)
  /\ UNCHANGED <<external, resolution, faults>>

\* renew_or_stop: a refused renewal is followed by a stop while the lease lives.
Renew(w, now, next) ==
  /\ IF ~HoldsLease(op, w, now) THEN UNCHANGED op /\ Leave(w)
     ELSE IF op.cancel THEN UNCHANGED op /\ GoTo(w, "stopping", Mem(w))
     ELSE op' = Renewed(op, now) /\ GoTo(w, next, Mem(w))
  /\ UNCHANGED <<external, resolution, faults>>

Schedule(w, asked, now, delay) ==
  LET cp == Retried(Mem(w))
  IN  IF BudgetExhausted(cp)
      THEN Save(w, cp, "failed", now, "idle")
      ELSE /\ IF HoldsLease(op, w, now)
              THEN op' = Scheduled(op, cp, asked, now + delay)
              ELSE UNCHANGED op
           /\ Leave(w)
           /\ UNCHANGED <<external, resolution, faults>>

-----------------------------------------------------------------------------
(* Polling and dispatch *)

\* claim_next, with this operation the only one.
Poll(w, now) ==
  /\ At(w, "idle")
  /\ \/ /\ UncertainCancelled(op, now)
        /\ op' = Quarantined(op, op.checkpoint)
        /\ UNCHANGED run
     \/ /\ Claimable(op, now)
        /\ op' = Claimed(op, w, now)
        /\ GoTo(w, "claimed", FreshCheckpoint)
  /\ UNCHANGED <<external, resolution, faults>>

\* claim, by a caller of execute.
ClaimDirectly(w, now) ==
  /\ At(w, "idle") /\ w \in Callers
  /\ Claimable(op, now)
  /\ op' = Claimed(op, w, now)
  /\ GoTo(w, "direct", FreshCheckpoint)
  /\ UNCHANGED <<external, resolution, faults>>

\* Where a run starts from the checkpoint it finds.
Start(w, cp) ==
  GoTo(w, IF op.cancel THEN "cancel" ELSE IF ~Parses(cp) THEN "wait" ELSE "step", cp)

\* execute works with the record that claim read back, whoever owns it by now.
LoadDirectly(w) ==
  /\ At(w, "direct")
  /\ Start(w, op.checkpoint)
  /\ UNCHANGED <<op, external, resolution, faults>>

\* Without a handler the runner fails the operation with the record it read back.
Unhandled(w) ==
  /\ At(w, "claimed") /\ w \in Outdated
  /\ GoTo(w, "failing", op.checkpoint)
  /\ UNCHANGED <<op, external, resolution, faults>>

\* Fault: stored progress is not validated.
LoadUnchecked(w) ==
  /\ At(w, "claimed")
  /\ IF Owns(op, w) THEN GoTo(w, IF op.cancel THEN "cancel" ELSE "step", op.checkpoint)
     ELSE GoTo(w, "raised", FreshCheckpoint)
  /\ UNCHANGED <<op, external, resolution, faults>>

\* The record handed to the handler is read after the claim was committed, so
\* it may already belong to someone else; the handler then raises ValueError.
Load(w) ==
  /\ At(w, "claimed")
  /\ IF Owns(op, w) THEN Start(w, op.checkpoint) ELSE GoTo(w, "raised", FreshCheckpoint)
  /\ UNCHANGED <<op, external, resolution, faults>>

SaveCancelled(w, now) ==
  At(w, "cancel") /\ Save(w, Mem(w), "cancelled", now, "idle")

SaveStop(w, now) ==
  At(w, "stopping") /\ Save(w, Mem(w), "running", now, "idle")

SaveWait(w, now) ==
  At(w, "wait") /\ Save(w, Mem(w), "waiting_user", now, "idle")

-----------------------------------------------------------------------------
(* One step of the plan *)

Finish(w, now) ==
  /\ At(w, "step") /\ AllDone(Mem(w))
  /\ Save(w, Mem(w), FinalState(Mem(w)), now, "idle")

\* Fault: a step left in flight by an earlier run is sent again.
BeginResending(w, now) ==
  /\ At(w, "step") /\ ~AllDone(Mem(w))
  /\ Renew(w, now, "mark")

\* A step that is still marked in flight is reconciled, never sent again.
Begin(w, now) ==
  /\ At(w, "step") /\ ~AllDone(Mem(w))
  /\ Renew(w, now, IF Mem(w).unknown = CurrentStep(Mem(w)) THEN "reconcile" ELSE "mark")

\* Fault: the mark is set in memory only.
MarkInMemory(w, now) ==
  /\ At(w, "mark") /\ now = 0
  /\ GoTo(w, "authorise", Marked(Mem(w)))
  /\ UNCHANGED <<op, external, resolution, faults>>

Mark(w, now) ==
  At(w, "mark") /\ Save(w, Marked(Mem(w)), "running", now, "authorise")

Authorise(w, now) == At(w, "authorise") /\ Renew(w, now, "call")

Send(w) ==
  /\ At(w, "call")
  /\ GoTo(w, "calling", Mem(w))
  /\ UNCHANGED <<op, external, resolution, faults>>

-----------------------------------------------------------------------------
(* The provider (external): the only facts the code relies on are that a   *)
(* success was carried out and that a refusal will never be.               *)

Carry(s) == effects' = [effects EXCEPT ![s] = @ + 1]

Apply(w) ==
  /\ At(w, "calling")
  /\ Carry(CurrentStep(Mem(w)))
  /\ GoTo(w, "applied", Mem(w))
  /\ UNCHANGED <<op, late, resolution, faults>>

\* A request nobody waits for any more is lost or still on its way.
Abandon(w) ==
  IF At(w, "calling") THEN late' \in {late, late \cup {CurrentStep(Mem(w))}}
  ELSE UNCHANGED late

ApplyLate(s) ==
  /\ s \in late
  /\ Carry(s)
  /\ late' = late \ {s}
  /\ UNCHANGED <<op, run, resolution, faults>>

AnswerSuccess(w) ==
  /\ At(w, "applied")
  /\ GoTo(w, "confirm", Mem(w))
  /\ UNCHANGED <<op, external, resolution, faults>>

\* RETRYABLE, RATE_LIMITED and PERMANENT_FAILURE.
AnswerRefusal(w) ==
  /\ At(w, "calling")
  /\ \E next \in {"retry", "limited", "reject"} : GoTo(w, next, Mem(w))
  /\ UNCHANGED <<op, external, resolution, faults>>

\* Fault: UNKNOWN_OUTCOME is taken for a transient failure.
AnswerUnknownAsRetry(w) ==
  /\ At(w, "calling") \/ At(w, "applied")
  /\ \E next \in {"retry", "wait"} : GoTo(w, next, Mem(w))
  /\ Abandon(w)
  /\ UNCHANGED <<op, effects, resolution, faults>>

\* UNKNOWN_OUTCOME leads to reconciliation, an exception to waiting_user.
AnswerUnknown(w) ==
  /\ At(w, "calling") \/ At(w, "applied")
  /\ \E next \in {"unsure", "wait"} : GoTo(w, next, Mem(w))
  /\ Abandon(w)
  /\ UNCHANGED <<op, effects, resolution, faults>>

-----------------------------------------------------------------------------
(* What a run makes of the answer *)

Doubt(w, now) == At(w, "unsure") /\ Renew(w, now, "reconcile")

\* Reconciliation may find nothing although the step was carried out.
Reconcile(w) ==
  /\ At(w, "reconcile")
  /\ \/ effects[CurrentStep(Mem(w))] > 0 /\ GoTo(w, "confirm", Mem(w))
     \/ GoTo(w, "wait", Mem(w))
  /\ UNCHANGED <<op, external, resolution, faults>>

Confirm(w, now) ==
  At(w, "confirm") /\ Save(w, Confirmed(Mem(w)), "running", now, "step")

\* An entry becomes an issue; without a target the copy fails.
Reject(w, now) ==
  /\ At(w, "reject")
  /\ Save(w, Rejected(Mem(w)),
          IF CurrentStep(Mem(w)) = Target THEN "failed" ELSE "running", now, "step")

ScheduleRetry(w, now) ==
  At(w, "retry") /\ Schedule(w, "retry_scheduled", now, RetryDelay)

ScheduleRateLimit(w, now, delay) ==
  At(w, "limited") /\ Schedule(w, "waiting_rate_limit", now, delay)

-----------------------------------------------------------------------------
(* The runner's last resort *)

\* The exception handler reads the row; of a row that is not its own it makes
\* nothing, and the exception ends the polling loop.
Rescue(w) ==
  /\ At(w, "raised")
  /\ GoTo(w, IF Owns(op, w) THEN "failing" ELSE "stopped",
          IF Owns(op, w) THEN op.checkpoint ELSE FreshCheckpoint)
  /\ UNCHANGED <<op, external, resolution, faults>>

\* The failure is saved with the time of dispatch.  The lease was set from that
\* time and never shrinks, so its expiry is no obstacle to its owner.
Fail(w) ==
  /\ At(w, "failing")
  /\ op' = IF Owns(op, w) THEN Checkpointed(op, Mem(w), "failed") ELSE op
  /\ Leave(w)
  /\ UNCHANGED <<external, resolution, faults>>

-----------------------------------------------------------------------------
(* Faults *)

Fault(w) == w \notin Reliable /\ faults < MaxFaults /\ faults' = faults + 1

\* The process dies; a crash of the machine is one of all its workers.
Crash(w) ==
  /\ run[w].at \notin Gone
  /\ Fault(w)
  /\ run' = [run EXCEPT ![w] = [Idle EXCEPT !.at = "down"]]
  /\ Abandon(w)
  /\ UNCHANGED <<op, effects, resolution>>

\* The polling loop is told to stop, and does so between two runs.
Stop(w) ==
  /\ At(w, "idle") /\ w \notin Reliable
  /\ GoTo(w, "stopped", FreshCheckpoint)
  /\ UNCHANGED <<op, external, resolution, faults>>

Restart(w) ==
  /\ run[w].at \in Gone
  /\ Leave(w)
  /\ UNCHANGED <<op, external, resolution, faults>>

\* A transaction raises something else than LeaseConflict: to the runner, or to
\* the caller of execute, whose matter it is.
StoreError(w) ==
  /\ \/ run[w].at \in Saving /\ GoTo(w, "raised", FreshCheckpoint)
     \/ run[w].at \in Saving \cup {"direct"} /\ w \in Callers /\ Leave(w)
     \/ run[w].at \in {"idle", "claimed", "raised", "failing"}
        /\ GoTo(w, "stopped", FreshCheckpoint)
  /\ Fault(w)
  /\ UNCHANGED <<op, external, resolution>>

\* refresh_time sees a clock behind the previous sample and raises LeaseConflict.
ClockBackwards(w) ==
  /\ run[w].at \in Saving \cup {"direct"}
  /\ Fault(w)
  /\ Leave(w)
  /\ UNCHANGED <<op, external, resolution>>

-----------------------------------------------------------------------------
(* Users and time *)

Cancel ==
  /\ Cancellable(op)
  /\ op' = Cancelled(op)
  /\ UNCHANGED <<run, external, resolution, faults>>

Resume ==
  /\ Resumable(op)
  /\ op' = Resumed(op)
  /\ UNCHANGED <<run, external, resolution, faults>>

\* Can the step in doubt still be carried out?
MayStillHappen(s) ==
  \/ s \in late
  \/ \E w \in Workers : run[w].at \in {"call", "calling"} /\ CurrentStep(Mem(w)) = s

\* A trusted caller resolves with what it has established (external).
Established(outcome) ==
  LET s == op.checkpoint.unknown
  IN  IF outcome = "effect_confirmed" THEN s # NULL /\ effects[s] > 0
      ELSE s # NULL => effects[s] = 0 /\ ~MayStillHappen(s)

ResolveCancelledOutcome(outcome) ==
  /\ Resolvable(op) /\ Established(outcome)
  /\ op' = Resolved(op, outcome)
  /\ resolution' = outcome
  /\ UNCHANGED <<run, external, faults>>

Aged(t) == IF t = NULL \/ t = -MaxStaleness THEN t ELSE t - 1

\* The owner is at work and this tick would end its lease.
Lapses == /\ op.state = "running" /\ op.lease = 1
          /\ run[op.worker].at \notin Gone \cup {"idle"}

Tick ==
  /\ \/ op.state = "running" /\ op.lease > -MaxStaleness
     \/ op.state \in Waiting /\ op.nextRun > -MaxStaleness
  /\ IF Lapses THEN Fault(op.worker) ELSE UNCHANGED faults
  /\ op' = [op EXCEPT !.lease = Aged(@), !.nextRun = Aged(@)]
  /\ UNCHANGED <<run, external, resolution>>

-----------------------------------------------------------------------------

\* What a worker that is up does next.
WorkerStep(w) ==
  \/ \E now \in Samples :
       \/ Poll(w, now) \/ ClaimDirectly(w, now)
       \/ SaveCancelled(w, now) \/ SaveStop(w, now) \/ SaveWait(w, now)
       \/ Finish(w, now) \/ Begin(w, now) \/ Mark(w, now) \/ Authorise(w, now)
       \/ Doubt(w, now) \/ Confirm(w, now) \/ Reject(w, now)
       \/ ScheduleRetry(w, now)
       \/ \E delay \in {RetryDelay} \cup 1..MaxDelay : ScheduleRateLimit(w, now, delay)
  \/ Load(w) \/ LoadDirectly(w) \/ Unhandled(w) \/ Send(w) \/ Apply(w)
  \/ AnswerSuccess(w) \/ AnswerRefusal(w) \/ AnswerUnknown(w)
  \/ Reconcile(w) \/ Rescue(w) \/ Fail(w)

Next ==
  \/ \E w \in Workers : \/ WorkerStep(w)
                        \/ Crash(w) \/ Stop(w) \/ Restart(w)
                        \/ StoreError(w) \/ ClockBackwards(w)
  \/ \E s \in CopySteps : ApplyLate(s)
  \/ Cancel \/ Resume
  \/ \E outcome \in Outcomes : ResolveCancelledOutcome(outcome)
  \/ Tick

Spec == Init /\ [][Next]_vars

\* A worker that is up goes on, and time passes.  No crashed or stopped worker
\* is assumed to come back.
Fairness == WF_vars(Tick) /\ \A w \in Workers : WF_vars(WorkerStep(w))

FairSpec == Spec /\ Fairness

-----------------------------------------------------------------------------
(* Properties *)

SequencesUpTo(S, n) == UNION {[1..k -> S] : k \in 0..n}

Checkpoints ==
  [unknown : CopySteps \cup {NULL}, recon : BOOLEAN, target : BOOLEAN,
   confirmed : SequencesUpTo(Entries, NumEntries),
   issues : SequencesUpTo(CopySteps, NumEntries + 1),
   attempts : 0..(MaxRetryAttempts + 1)]

\* The row, the runs and the provider have the shapes the actions rely on.
TypeOK ==
  /\ op \in [state : States, checkpoint : Checkpoints, worker : Workers \cup {NULL},
             lease : Int \cup {NULL}, nextRun : Int \cup {NULL}, cancel : BOOLEAN]
  /\ run \in [Workers -> [at : Points, mem : Checkpoints]]
  /\ effects \in [CopySteps -> Nat]
  /\ late \subseteq CopySteps
  /\ resolution \in Outcomes \cup {NULL}
  /\ faults \in 0..MaxFaults

\* Requests that may have reached, or may still reach, the provider.
Underway(s) == {w \in Workers : /\ run[w].at \in {"call", "calling"}
                                /\ CurrentStep(Mem(w)) = s}

\* Neither crashes nor takeovers, stale clocks, late requests, resumes and
\* retries make the provider carry a step out twice, not even by a request
\* that a stalled worker has yet to send.
AtMostOnce ==
  \A s \in CopySteps :
    effects[s] + Cardinality(Underway(s)) + (IF s \in late THEN 1 ELSE 0) <= 1

\* A finished copy whose record shows no step in doubt has nothing under way: no
\* stalled worker and no late request can still write to the playlist.
FinishedMeansQuiet ==
  op.state \in Terminal /\ op.checkpoint.unknown = NULL =>
    late = {} /\ \A s \in CopySteps : Underway(s) = {}

\* Whatever interrupted the previous run, the checkpoint it left behind is one
\* that parse_copy_progress accepts: no run strands its own progress.
StoredCheckpointParses == op.state \notin Terminal => Parses(op.checkpoint)

\* While a worker may still send a step, the row says that this step is in
\* doubt, so a successor reconciles it instead of sending it.
IntentIsDurable ==
  \A s \in CopySteps :
    Underway(s) # {} \/ s \in late => op.checkpoint.unknown = s

\* A stored checkpoint that contradicts the plan is kept as it is, nothing is
\* sent for it and the copy neither succeeds nor retries (the runner may still
\* fail it): a gap, a repeated or a foreign entry, a negative counter, an entry
\* confirmed without a target or a mark on anything but the next step.
Contradictory(cp) ==
  \/ cp.attempts < 0
  \/ \E e \in Entries : /\ e \in Processed(cp)
                         /\ \E earlier \in 1..(e - 1) : earlier \notin Processed(cp)
  \/ Len(cp.confirmed) + Len(cp.issues) # Cardinality(Processed(cp))
  \/ ~(Processed(cp) \subseteq Entries)
  \/ cp.confirmed # <<>> /\ ~cp.target
  \/ /\ cp.unknown \in Entries
     /\ ~cp.target \/ cp.unknown # Cardinality(Processed(cp)) + 1

ContradictionStopsTheCopy ==
  [][Contradictory(op.checkpoint) =>
       /\ op'.checkpoint = [op.checkpoint EXCEPT !.recon = op'.checkpoint.recon,
                                                 !.unknown = op'.checkpoint.unknown]
       /\ op'.state \notin {"succeeded"} \cup Waiting
       /\ \A s \in CopySteps : Underway(s) = {}]_vars

\* The copy keeps its contract with the user, whichever worker executes it.
Contract ==
  INSTANCE CopyContract WITH
    written   <- {s \in CopySteps : effects[s] > 0},
    confirmed <- Elements(op.checkpoint.confirmed)
                   \cup (IF op.checkpoint.target THEN {Target} ELSE {}),
    rejected  <- Elements(op.checkpoint.issues),
    doubt     <- op.checkpoint.unknown,
    outcome   <- IF op.state \in Terminal THEN op.state ELSE NULL

KeepsContract == Contract!Spec

Settled == op.state \in Terminal \cup {"waiting_user"}

\* As long as one worker is reliable, the copy never runs or retries for ever:
\* again and again it is finished or asks the user.
AlwaysSettlesAgain == []<>Settled

\* A cancellation accepted while a worker is busy takes effect for good, even if that
\* worker never comes back: the copy ends, or it waits, flagged, for the user's
\* resolution, and is never worked on again.
CancellationTakesEffect ==
  op.cancel ~> [](op.state \in Terminal \/ Resolvable(op))

\* What the specification says of cancellation: an unresolved outcome is not
\* terminal `cancelled'.
CancelledWithoutDoubt == op.state = "cancelled" => op.checkpoint.unknown = NULL

\* What the specification says of a step whose outcome is unknown when the store
\* fails: it stays uncertain and the copy resumes, so no copy fails in doubt.
FailedWithoutDoubt == op.state = "failed" => op.checkpoint.unknown = NULL

\* What checkpoint documents: it writes only for an unexpired lease (of which a
\* clock sample may be MaxStaleness late).
FailureNeedsLiveLease ==
  [][op.state = "running" /\ op'.state = "failed" => op.lease > -MaxStaleness]_vars

\* What the specification says of the polling loop: losing a lease to another
\* worker does not stop it.
FencedWorkersPollOn ==
  [][\A w \in Workers : At(w, "raised") /\ faults' = faults => run'[w].at # "stopped"]_vars
=============================================================================

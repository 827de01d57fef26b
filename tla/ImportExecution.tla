-------------------------- MODULE ImportExecution --------------------------
(***************************************************************************)
(* One playlist import, executed by polling workers over the durable       *)
(* operation row (application/library_import*.py under operation_runner.py *)
(* and operation_worker.py), that publishes into the library while other   *)
(* imports of the playlist do and the playlist changes at the provider.    *)
(*                                                                         *)
(* A worker is a control point and what it holds in memory.  Every         *)
(* transaction and every page read is a step of its own.  Time is relative *)
(* as in CopyExecution: the clock is 0, Tick ages lease and next run time, *)
(* and a sample is up to MaxStaleness behind when its transaction runs.    *)
(***************************************************************************)
EXTENDS OperationRules, LibraryProjections, Sequences

CONSTANTS
  Mine,             \* the snapshot_id in the payload of this operation
  Workers,          \* worker identities
  Reliable,         \* the workers no fault happens to
  MaxRetryAttempts, \* max_retry_attempts
  RetryDelay,       \* retry_delay_seconds
  MaxDelay,         \* bound: how far ahead a provider may ask to be called again
  MaxPages,         \* bound: pages of the playlist
  MaxChanges,       \* bound: changes of the playlist at the provider
  MaxStaleness,     \* bound: age of a clock sample when its transaction runs
  MaxFaults,        \* bound: faults in a behaviour
  StoredAttempts    \* the retry counters the row may start with

ASSUME ImportAssumption ==
  /\ Mine \in Snapshots
  /\ NULL \notin Workers \cup Int /\ Reliable \subseteq Workers
  /\ StoredAttempts \subseteq Int
  /\ {MaxRetryAttempts, MaxChanges, MaxStaleness, MaxFaults} \subseteq Nat
  /\ {RetryDelay, MaxDelay, MaxPages} \subseteq Nat \ {0}

VARIABLES
  op,         \* the row of the import operation
  run,        \* worker -> where it is and what it holds
  playlist,   \* the version of the playlist at the provider
  faults      \* faults so far

vars == <<op, run, playlist, faults, library>>

\* Where a worker is.  Each name but the first four is the call that comes next.
Points ==
  {"idle", "down", "stopped", "claimed",
   "open", "page", "fetch", "collected", "renew", "publish", "reread", "complete",
   "conflict", "cancel", "declined", "invalid", "wait", "retry", "limited", "broken",
   "raised", "failing"}

Gone == {"down", "stopped"}

\* Inside the try block of execute_claimed: an exception becomes a failure.
Guarded == {"open", "page", "fetch", "collected", "renew", "publish", "reread"}

Samples == -MaxStaleness..0

Contents == UNION {[1..n -> 0..MaxChanges] : n \in 0..MaxPages}

ASSUME ContentAssumption == NULL \notin Contents

\* cp: the checkpoint; read: the version each page was read at; whole: the
\* collector calls the result complete.
Idle == [at |-> "idle", cp |-> [unknown |-> NULL, recon |-> FALSE, attempts |-> 0],
         read |-> <<>>, whole |-> FALSE]

Init ==
  /\ op \in [state : {"queued"}, worker : {NULL}, lease : {NULL}, nextRun : {NULL},
             cancel : {FALSE},
             checkpoint : [unknown : {NULL}, recon : {FALSE}, attempts : StoredAttempts]]
  /\ run      = [w \in Workers |-> Idle]
  /\ playlist = 0
  /\ faults   = 0
  /\ EmptyLibrary

At(w, point) == run[w].at = point

GoTo(w, point) == run' = [run EXCEPT ![w].at = point]

\* The run ends, with its result or with a LeaseConflict: run_forever polls on.
Leave(w) == run' = [run EXCEPT ![w] = Idle]

-----------------------------------------------------------------------------
(* The repository transactions, as a run uses them *)

\* checkpoint with a state that ends the run.
Save(w, asked, now) ==
  /\ op' = IF HoldsLease(op, w, now) THEN Checkpointed(op, run[w].cp, asked) ELSE op
  /\ Leave(w)
  /\ UNCHANGED <<playlist, faults, library>>

\* The same with the time of dispatch, at which no lease of the worker has run out.
SaveAtDispatch(w, asked) ==
  /\ op' = IF Owns(op, w) THEN Checkpointed(op, run[w].cp, asked) ELSE op
  /\ Leave(w)
  /\ UNCHANGED <<playlist, faults, library>>

\* renew_lease; every refusal is a LeaseConflict.
Renew(w, now, next) ==
  /\ IF HoldsLease(op, w, now) /\ ~op.cancel
     THEN op' = Renewed(op, now) /\ GoTo(w, next)
     ELSE UNCHANGED op /\ GoTo(w, "conflict")
  /\ UNCHANGED <<playlist, faults, library>>

\* Fault: the attempt is not counted.
RetriedUncounted(cp) == cp

Retried(cp) == [cp EXCEPT !.attempts = @ + 1]

\* Fault: one attempt too many.
ExhaustedLate(cp) == cp.attempts > MaxRetryAttempts + 1

Exhausted(cp) == cp.attempts > MaxRetryAttempts

\* schedule_retry and schedule_rate_limit, after the attempt was counted.
Schedule(w, asked, now, delay) ==
  LET cp == Retried(run[w].cp)
  IN  /\ op' = IF ~HoldsLease(op, w, now) THEN op
               ELSE IF Exhausted(cp) THEN Checkpointed(op, cp, "failed")
               ELSE Scheduled(op, cp, asked, now + delay)
      /\ Leave(w)
      /\ UNCHANGED <<playlist, faults, library>>

-----------------------------------------------------------------------------
(* Polling and dispatch *)

\* claim_next, with this operation the only one.
Poll(w, now) ==
  /\ At(w, "idle")
  /\ \/ /\ UncertainCancelled(op, now)
        /\ op' = Quarantined(op, op.checkpoint)
        /\ UNCHANGED run
     \/ /\ Claimable(op, now)
        /\ op' = Claimed(op, w, now)
        /\ GoTo(w, "claimed")
  /\ UNCHANGED <<playlist, faults, library>>

\* The record handed to the handler is read after the claim was committed.
Load(w) ==
  /\ At(w, "claimed")
  /\ run' = [run EXCEPT ![w] =
       IF ~Owns(op, w) THEN [Idle EXCEPT !.at = "raised"]
       ELSE [Idle EXCEPT !.cp = op.checkpoint,
                         !.at = IF op.cancel THEN "declined"
                                ELSE IF op.checkpoint.attempts < 0 THEN "invalid"
                                ELSE "open"]]
  /\ UNCHANGED <<op, playlist, faults, library>>

SaveDeclined(w) == At(w, "declined") /\ SaveAtDispatch(w, "cancelled")

SaveInvalid(w) == At(w, "invalid") /\ SaveAtDispatch(w, "failed")

-----------------------------------------------------------------------------
(* Reading *)

\* The first renewal has the time of dispatch as well: it extends nothing.
Open(w) ==
  /\ At(w, "open")
  /\ GoTo(w, IF Owns(op, w) /\ ~op.cancel THEN "page" ELSE "conflict")
  /\ UNCHANGED <<op, playlist, faults, library>>

\* Ownership is renewed before the stream is opened and before each page.
BeforePage(w, now) == At(w, "page") /\ Renew(w, now, "fetch")

\* The stream yields a page, ends, or raises; at its end the collector decides
\* whether the result is complete (PageCollection says when).
Fetch(w) ==
  /\ At(w, "fetch")
  /\ \/ /\ Len(run[w].read) < MaxPages
        /\ run' = [run EXCEPT ![w].read = Append(@, playlist), ![w].at = "page"]
     \/ \E whole \in {FALSE, run[w].read # <<>>} :
          run' = [run EXCEPT ![w].whole = whole, ![w].at = "collected"]
     \/ \E failure \in {"wait", "retry", "limited", "broken"} : GoTo(w, failure)
  /\ UNCHANGED <<op, playlist, faults, library>>

\* cancel_if_requested: only a run whose lease is still good records it.
SeesCancellation(w, now) ==
  op.cancel /\ op.worker = w /\ ~LeaseExpired(op, now)

Collected(w, now) ==
  /\ At(w, "collected")
  /\ GoTo(w, IF SeesCancellation(w, now) THEN "cancel" ELSE "renew")
  /\ UNCHANGED <<op, playlist, faults, library>>

\* Fault: an incomplete result is published like a complete one.
RenewForPublicationAlways(w, now) == At(w, "renew") /\ Renew(w, now, "publish")

RenewForPublication(w, now) ==
  At(w, "renew") /\ Renew(w, now, IF run[w].whole THEN "publish" ELSE "reread")

Conflict(w, now) ==
  /\ At(w, "conflict")
  /\ IF SeesCancellation(w, now) THEN GoTo(w, "cancel") ELSE Leave(w)
  /\ UNCHANGED <<op, playlist, faults, library>>

SaveCancelled(w, now) == At(w, "cancel") /\ Save(w, "cancelled", now)

-----------------------------------------------------------------------------
(* Publishing *)

\* Fault: the clock is read before the write lock is waited for.
MayPublishStale(w) == HoldsLease(op, w, -MaxStaleness) /\ ~op.cancel

\* publication_transaction: the clock is read under the write lock.
MayPublish(w) == HoldsLease(op, w, 0) /\ ~op.cancel

PublishMine(w) ==
  /\ At(w, "publish")
  /\ IF ~MayPublish(w) THEN GoTo(w, "conflict") /\ UNCHANGED library
     ELSE IF BoundToOther(Mine, run[w].read) THEN GoTo(w, "broken") /\ UNCHANGED library
     ELSE Publish(Mine, run[w].read) /\ GoTo(w, "reread")
  /\ UNCHANGED <<op, playlist, faults>>

\* The snapshot and the current one are read back for the result.
Reread(w) ==
  /\ At(w, "reread")
  /\ GoTo(w, "complete")
  /\ UNCHANGED <<op, playlist, faults, library>>

\* Fault: an incomplete import counts as a success.
CompleteAlways(w, now) == At(w, "complete") /\ Save(w, "succeeded", now)

Complete(w, now) ==
  At(w, "complete") /\ Save(w, IF run[w].whole THEN "succeeded" ELSE "partial", now)

-----------------------------------------------------------------------------
(* Failures *)

\* Authentication required, authorization revoked, permission denied.
WaitForUser(w, now) == At(w, "wait") /\ Save(w, "waiting_user", now)

ScheduleRetry(w, now) ==
  At(w, "retry") /\ Schedule(w, "retry_scheduled", now, RetryDelay)

ScheduleRateLimit(w, now, delay) ==
  At(w, "limited") /\ Schedule(w, "waiting_rate_limit", now, delay)

\* Any other provider error and any other exception.
FailImport(w, now) == At(w, "broken") /\ Save(w, "failed", now)

\* The runner's exception handler fails an operation that is still the worker's
\* own; otherwise the exception ends the polling loop.
Rescue(w) ==
  /\ At(w, "raised")
  /\ run' = [run EXCEPT ![w] =
       IF Owns(op, w) THEN [Idle EXCEPT !.at = "failing", !.cp = op.checkpoint]
       ELSE [Idle EXCEPT !.at = "stopped"]]
  /\ UNCHANGED <<op, playlist, faults, library>>

\* The failure, too, is saved with the time of dispatch.
Fail(w) == At(w, "failing") /\ SaveAtDispatch(w, "failed")

-----------------------------------------------------------------------------
(* Faults *)

Fault(w) == w \notin Reliable /\ faults < MaxFaults /\ faults' = faults + 1

Crash(w) ==
  /\ run[w].at \notin Gone
  /\ Fault(w)
  /\ run' = [run EXCEPT ![w] = [Idle EXCEPT !.at = "down"]]
  /\ UNCHANGED <<op, playlist, library>>

Restart(w) ==
  /\ run[w].at \in Gone
  /\ Leave(w)
  /\ UNCHANGED <<op, playlist, faults, library>>

\* A transaction raises something else than LeaseConflict and changes nothing.
StoreError(w) ==
  /\ run[w].at \notin Gone
  /\ Fault(w)
  /\ run' = [run EXCEPT ![w].at =
       IF @ \in Guarded THEN "broken"
       ELSE IF @ \in {"idle", "claimed", "raised", "failing"} THEN "stopped"
       ELSE "raised"]
  /\ UNCHANGED <<op, playlist, library>>

-----------------------------------------------------------------------------
(* Users, other imports, the provider and time *)

Cancel ==
  /\ Cancellable(op)
  /\ op' = Cancelled(op)
  /\ UNCHANGED <<run, playlist, faults, library>>

Resume ==
  /\ Resumable(op)
  /\ op' = Resumed(op)
  /\ UNCHANGED <<run, playlist, faults, library>>

\* A trusted caller resolves with what it has established (external).
Established(outcome) == (outcome = "effect_confirmed") = (snapshots[Mine] # NULL)

ResolveCancelledOutcome(outcome) ==
  /\ Resolvable(op) /\ Established(outcome)
  /\ op' = Resolved(op, outcome)
  /\ UNCHANGED <<run, playlist, faults, library>>

\* Another import of the playlist, with a snapshot and a time of its own.
PublishOther(s) ==
  /\ s # Mine
  /\ Publish(s, <<playlist>>)
  /\ UNCHANGED <<op, run, playlist, faults>>

ChangePlaylist ==
  /\ playlist < MaxChanges
  /\ playlist' = playlist + 1
  /\ UNCHANGED <<op, run, faults, library>>

Aged(t) == IF t = NULL \/ t = -MaxStaleness THEN t ELSE t - 1

\* The owner is at work and this tick would end its lease.
Lapses == /\ op.state = "running" /\ op.lease = 1
          /\ run[op.worker].at \notin Gone \cup {"idle"}

Tick ==
  /\ \/ op.state = "running" /\ op.lease > -MaxStaleness
     \/ op.state \in Waiting /\ op.nextRun > -MaxStaleness
  /\ IF Lapses THEN Fault(op.worker) ELSE UNCHANGED faults
  /\ op' = [op EXCEPT !.lease = Aged(@), !.nextRun = Aged(@)]
  /\ UNCHANGED <<run, playlist, library>>

-----------------------------------------------------------------------------

\* What a worker that is up does next.
WorkerStep(w) ==
  \/ \E now \in Samples :
       \/ Poll(w, now) \/ BeforePage(w, now) \/ Collected(w, now)
       \/ RenewForPublication(w, now) \/ Conflict(w, now) \/ Complete(w, now)
       \/ SaveCancelled(w, now) \/ WaitForUser(w, now)
       \/ ScheduleRetry(w, now) \/ FailImport(w, now)
       \/ \E delay \in {RetryDelay} \cup 1..MaxDelay : ScheduleRateLimit(w, now, delay)
  \/ Load(w) \/ SaveDeclined(w) \/ SaveInvalid(w)
  \/ Open(w) \/ Fetch(w) \/ PublishMine(w) \/ Reread(w)
  \/ Rescue(w) \/ Fail(w)

Next ==
  \/ \E w \in Workers : WorkerStep(w) \/ Crash(w) \/ Restart(w) \/ StoreError(w)
  \/ Cancel \/ Resume
  \/ \E outcome \in Outcomes : ResolveCancelledOutcome(outcome)
  \/ \E s \in Snapshots : PublishOther(s)
  \/ ChangePlaylist
  \/ Tick

Spec == Init /\ [][Next]_vars

\* A worker that is up goes on, and time passes.  No crashed or stopped worker
\* is assumed to come back.
Fairness == WF_vars(Tick) /\ \A w \in Workers : WF_vars(WorkerStep(w))

FairSpec == Spec /\ Fairness

-----------------------------------------------------------------------------
(* Properties *)

\* A counter that is stored already may be beyond the budget; it is counted up once.
Counters ==
  StoredAttempts \cup {n + 1 : n \in StoredAttempts} \cup 0..(MaxRetryAttempts + 1)

Checkpoints == [unknown : {NULL}, recon : BOOLEAN, attempts : Counters]

\* The row, the runs and the library have the shapes the actions rely on; the
\* retry counter of a run is bounded by the budget.
TypeOK ==
  /\ op \in [state : States, checkpoint : Checkpoints, worker : Workers \cup {NULL},
             lease : Int \cup {NULL}, nextRun : Int \cup {NULL}, cancel : BOOLEAN]
  /\ run \in [Workers -> [at : Points, cp : Checkpoints, read : Contents,
                          whole : BOOLEAN]]
  /\ playlist \in 0..MaxChanges
  /\ faults \in 0..MaxFaults
  /\ snapshots \in [Snapshots -> Contents \cup {NULL}]
  /\ current \in Snapshots \cup {NULL}

\* A snapshot appears only for a worker that owns the operation under a lease
\* that is live at that very moment, and never after a cancellation was accepted:
\* no stalled or superseded run publishes what it read.
PublicationNeedsAuthority ==
  [][snapshots[Mine] = NULL /\ snapshots'[Mine] # NULL =>
       /\ op.state = "running" /\ op.lease > 0 /\ ~op.cancel
       /\ At(op.worker, "publish") /\ snapshots'[Mine] = run[op.worker].read]_vars

\* An import that is recorded as succeeded has its snapshot in the library, and
\* the library shows that snapshot or one observed later.
SucceededMeansPublished ==
  op.state = "succeeded" =>
    snapshots[Mine] # NULL /\ ObservedAt[current] >= ObservedAt[Mine]

\* What was published is the complete reading of a run; a result the collector
\* called incomplete never reaches the library, whichever worker tries next.
OnlyWholeReadingsArePublished ==
  [][\A w \in Workers :
       At(w, "publish") /\ snapshots'[Mine] # snapshots[Mine] => run[w].whole]_vars

\* The import as its user and the library see it.
Contract ==
  INSTANCE ImportContract WITH
    shelf   <- snapshots,
    shown   <- current,
    busy    <- op.state = "running",
    asked   <- op.cancel,
    outcome <- IF op.state \in Terminal THEN op.state ELSE NULL

\* Whatever workers, readings, retries and other imports do, the import keeps its
\* contract with its user and the library.
KeepsImportContract == Contract!Spec

Settled == op.state \in Terminal \cup {"waiting_user"}

\* As long as one worker is reliable, again and again the import is finished or
\* asks the user: it neither reads nor retries for ever.
AlwaysSettlesAgain == []<>Settled

\* What the specification says of a publication that commits before a
\* cancellation or a takeover does: the published step remains confirmed, so the
\* import does not end as one that was cancelled.
PublishedStepsStayConfirmed ==
  op.state = "cancelled" => snapshots[Mine] = NULL
=============================================================================

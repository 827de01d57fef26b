--------------------------- MODULE OperationStore ---------------------------
(***************************************************************************)
(* The durable operation repository (infrastructure/sqlite_operations.py   *)
(* and the modules it delegates to), under callers that may call any       *)
(* method at any time.                                                     *)
(*                                                                         *)
(* Every repository method runs in one BEGIN IMMEDIATE transaction, so one *)
(* call is one action.  A call that raises (LeaseConflict, Idempotency-    *)
(* Conflict, OperationNotFound) or returns without writing is rolled back  *)
(* or commits nothing: it is a stuttering step, and each action's guard is *)
(* the condition under which the method writes.                            *)
(*                                                                         *)
(* Callers sample their clock BEFORE they wait for the write lock; the     *)
(* sample may be up to MaxStaleness behind the real clock when the         *)
(* transaction runs.                                                       *)
(***************************************************************************)
EXTENDS OperationRules

CONSTANTS
  OpIds,          \* operation identifiers, ordered as SQLite orders them
  Workers,        \* worker identities
  Kinds,          \* operation types
  Steps,          \* external steps a handler may be unsure about
  MaxProgress,    \* bound: confirmed progress a checkpoint can record
  MaxDelay,       \* bound: how far ahead a retry may be scheduled
  MaxStaleness,   \* bound: age of a clock sample when its transaction runs
  MaxTime         \* bound: the clock stops here

ASSUME OpIdAssumption    == OpIds \subseteq Int
ASSUME NullAssumption    == /\ NULL \notin Int
                            /\ NULL \notin Workers \cup Kinds \cup Steps \cup States
ASSUME BoundsAssumption  == /\ MaxProgress \in Nat
                            /\ MaxDelay \in Nat \ {0}
                            /\ MaxStaleness \in Nat
                            /\ MaxTime \in Nat

VARIABLES
  ops,      \* the operations table: id -> row
  trail,    \* the newest row of operation_events for each operation
  clock     \* real time

vars == <<ops, trail, clock>>

Checkpoints ==
  [unknown : Steps \cup {NULL}, recon : BOOLEAN, progress : 0..MaxProgress]

\* What a handler hands to the repository: no handler writes
\* reconciliation_required itself.
HandlerCheckpoints == {cp \in Checkpoints : ~cp.recon}

Rows ==
  [state      : States \cup {"absent"},
   kind       : Kinds \cup {NULL},
   checkpoint : Checkpoints,
   worker     : Workers \cup {NULL},
   lease      : Nat \cup {NULL},
   nextRun    : Nat \cup {NULL},
   cancel     : BOOLEAN,
   createdAt  : Nat]

EmptyRow ==
  [state |-> "absent", kind |-> NULL,
   checkpoint |-> [unknown |-> NULL, recon |-> FALSE, progress |-> 0],
   worker |-> NULL, lease |-> NULL, nextRun |-> NULL, cancel |-> FALSE,
   createdAt |-> 0]

\* What an audit event says of the row; its type, payload and time are left out.
Event(state, w) == [state |-> state, worker |-> w]

NoEvent == Event("absent", NULL)

Events == [state : States \cup {"absent"}, worker : Workers \cup {NULL}]

\* Clock samples a caller may be holding when its transaction starts.
Samples == {t \in 0..clock : clock - t <= MaxStaleness}

Init ==
  /\ ops   = [o \in OpIds |-> EmptyRow]
  /\ trail = [o \in OpIds |-> NoEvent]
  /\ clock = 0

\* The row and its audit event are written by one transaction.
Commit(o, row, event) ==
  /\ ops'   = [ops EXCEPT ![o] = row]
  /\ trail' = [trail EXCEPT ![o] = event]
  /\ UNCHANGED clock

-----------------------------------------------------------------------------
(* Submission *)

\* A second create under the same key returns the first row or conflicts.
Create(o, kind, now) ==
  /\ ops[o].state = "absent"
  /\ Commit(o, [EmptyRow EXCEPT !.state = "queued", !.kind = kind,
                                !.createdAt = now],
            Event("queued", NULL))

-----------------------------------------------------------------------------
(* Claims *)

Claim(o, w, now) ==
  /\ Claimable(ops[o], now)
  /\ Commit(o, Claimed(ops[o], w, now), Event("running", w))

\* The instant that orders the candidates of claim_next.
DueTime(row) ==
  CASE row.state = "running" /\ row.lease # NULL     -> row.lease
    [] row.state # "running" /\ row.nextRun # NULL   -> row.nextRun
    [] OTHER                                         -> row.createdAt

Before(o, p) ==
  \/ DueTime(ops[o]) < DueTime(ops[p])
  \/ /\ DueTime(ops[o]) = DueTime(ops[p])
     /\ \/ ops[o].createdAt < ops[p].createdAt
        \/ ops[o].createdAt = ops[p].createdAt /\ o < p

IsFirst(o, candidates) ==
  o \in candidates /\ \A p \in candidates \ {o} : Before(o, p)

Uncertain(now) == {o \in OpIds : UncertainCancelled(ops[o], now)}

\* kind = NULL: no operation_type filter.  Quarantine ignores the filter.
Ready(now, kind) ==
  {o \in OpIds : Claimable(ops[o], now) /\ kind \in {NULL, ops[o].kind}}

\* One transaction quarantines the oldest uncertain cancelled operation and
\* claims the oldest eligible one.
ClaimNext(w, now, kind) ==
  /\ Uncertain(now) \cup Ready(now, kind) # {}
  /\ ops' = [o \in OpIds |->
               CASE IsFirst(o, Uncertain(now)) ->
                      Quarantined(ops[o], ops[o].checkpoint)
                 [] IsFirst(o, Ready(now, kind)) -> Claimed(ops[o], w, now)
                 [] OTHER -> ops[o]]
  /\ trail' = [o \in OpIds |->
               CASE IsFirst(o, Uncertain(now)) ->
                      Event("waiting_user", NULL)
                 [] IsFirst(o, Ready(now, kind)) -> Event("running", w)
                 [] OTHER -> trail[o]]
  /\ UNCHANGED clock

RenewLease(o, w, now) ==
  /\ HoldsLease(ops[o], w, now)
  /\ ~ops[o].cancel
  /\ Commit(o, Renewed(ops[o], now), Event("running", w))

-----------------------------------------------------------------------------
(* What the lease holder records *)

Checkpoint(o, w, cp, asked, now) ==
  /\ HoldsLease(ops[o], w, now)
  /\ LET row == Checkpointed(ops[o], cp, asked)
     IN  Commit(o, row,
                Event(row.state, IF row.state = "running" THEN w ELSE NULL))

\* Fault: the event says what was asked, not what happened.
ScheduleEventAsAsked(row, cp, asked) == Event(asked, NULL)

ScheduleEvent(row, cp, asked) ==
  IF row.cancel /\ RequiresReconciliation(cp)
  THEN Event("waiting_user", NULL)
  ELSE IF row.cancel THEN Event("cancelled", NULL)
  ELSE Event(asked, NULL)

\* schedule_retry and schedule_rate_limit differ in the state they ask for.
ScheduleWait(o, w, cp, asked, now, next) ==
  /\ HoldsLease(ops[o], w, now)
  /\ Commit(o, Scheduled(ops[o], cp, asked, next),
            ScheduleEvent(ops[o], cp, asked))

-----------------------------------------------------------------------------
(* What users and operators ask for *)

CancelEvent(row) ==
  IF CancelKeepsUncertain(row)
  THEN Event("waiting_user", NULL)
  ELSE IF row.state = "running"
       THEN Event("running", row.worker)
       ELSE Event("cancelled", NULL)

Cancel(o) ==
  /\ ops[o].state # "absent"
  /\ Cancellable(ops[o])
  /\ Commit(o, Cancelled(ops[o]), CancelEvent(ops[o]))

Resume(o) ==
  /\ Resumable(ops[o])
  /\ Commit(o, Resumed(ops[o]), Event("queued", NULL))

ResolveCancelledOutcome(o, outcome) ==
  /\ Resolvable(ops[o])
  /\ LET row == Resolved(ops[o], outcome)
     IN  Commit(o, row, Event(row.state, NULL))

-----------------------------------------------------------------------------

Tick ==
  /\ clock < MaxTime
  /\ clock' = clock + 1
  /\ UNCHANGED <<ops, trail>>

Next ==
  \/ \E o \in OpIds, k \in Kinds, now \in Samples : Create(o, k, now)
  \/ \E o \in OpIds, w \in Workers, now \in Samples : Claim(o, w, now)
  \/ \E w \in Workers, now \in Samples, k \in Kinds \cup {NULL} :
       ClaimNext(w, now, k)
  \/ \E o \in OpIds, w \in Workers, now \in Samples : RenewLease(o, w, now)
  \/ \E o \in OpIds, w \in Workers, now \in Samples,
        cp \in HandlerCheckpoints, s \in CheckpointStates :
       Checkpoint(o, w, cp, s, now)
  \/ \E o \in OpIds, w \in Workers, now \in Samples,
        cp \in HandlerCheckpoints, s \in Waiting, delay \in 1..MaxDelay :
       ScheduleWait(o, w, cp, s, now, now + delay)
  \/ \E o \in OpIds : Cancel(o)
  \/ \E o \in OpIds : Resume(o)
  \/ \E o \in OpIds, outcome \in Outcomes : ResolveCancelledOutcome(o, outcome)
  \/ Tick

Spec == Init /\ [][Next]_vars

-----------------------------------------------------------------------------
(* Properties *)

\* Every row, event and clock value has the shape the schema gives it.
TypeOK ==
  /\ ops \in [OpIds -> Rows]
  /\ trail \in [OpIds -> Events]
  /\ clock \in Nat

\* Ownership, wait time and the cancellation flag appear exactly in the states
\* that give them a meaning: an owner and a lease only on a running row, so no
\* released row looks owned; next_run_at only while waiting, so a claim that
\* forgets to clear it is caught; a pending cancellation only where someone can
\* still act on it.
RowShape(row) ==
  /\ row.state = "running" <=> row.worker # NULL
  /\ row.state = "running" <=> row.lease # NULL
  /\ row.state \in Waiting <=> row.nextRun # NULL
  /\ row.cancel => row.state \in {"running", "waiting_user"}

OwnershipMatchesState == \A o \in OpIds : RowShape(ops[o])

\* A cancelled operation parked in waiting_user always carries the flag that
\* resolve_cancelled_outcome demands, and the flag appears nowhere else: resume
\* is refused there and resolution is not, so the operation is never stuck.
QuarantineFlagged(row) ==
  row.checkpoint.recon <=> (row.state = "waiting_user" /\ row.cancel)

QuarantineIsResolvable == \A o \in OpIds : QuarantineFlagged(ops[o])

\* The newest audit event of an operation names the state and the owner its row
\* has, across every path that writes the two.
Tells(event, row) == event.state = row.state /\ event.worker = row.worker

AuditTrailAgrees == \A o \in OpIds : Tells(trail[o], ops[o])

\* A finished operation is never touched again: not by a second cancel, a late
\* checkpoint, a retry schedule or a claim.
TerminalIsFinal ==
  [][\A o \in OpIds : ops[o].state \in Terminal => ops'[o] = ops[o]]_vars

\* While a lease is live in real time no other worker gets the row and the
\* lease does not shrink, although claims and renewals use clock samples that
\* may be old.
LiveLeaseIsRespected ==
  [][\A o \in OpIds :
       ops[o].state = "running" /\ ops[o].lease > clock =>
         /\ ops'[o].worker \in {ops[o].worker, NULL}
         /\ ops'[o].worker # NULL => ops'[o].lease >= ops[o].lease]_vars

\* Once a running operation is asked to cancel its owner gets no more time and
\* nobody else gets it; it can only be parked for reconciliation or end, and it
\* ends only when no external step is in doubt.
CancellationEndsAuthority ==
  [][\A o \in OpIds : ops[o].state = "running" /\ ops[o].cancel =>
       \/ ops'[o] = ops[o]
       \/ ops'[o].state = "waiting_user" /\ ops'[o].cancel
       \/ ops'[o].state \in Terminal /\ ops'[o].checkpoint.unknown = NULL]_vars

\* A quarantined operation leaves waiting_user only through an explicit
\* resolution, which keeps the confirmed progress and answers the doubt.
QuarantineEndsByResolution ==
  [][\A o \in OpIds : ops[o].state = "waiting_user" /\ ops[o].cancel =>
       \/ ops'[o] = ops[o]
       \/ /\ ops'[o].state \in {"cancelled", "partial"}
          /\ ~RequiresReconciliation(ops'[o].checkpoint)
          /\ ops'[o].checkpoint.progress = ops[o].checkpoint.progress]_vars

\* Recorded progress changes only under a lease, and at most MaxStaleness after
\* that lease ran out: how old a clock sample can be is exactly how late a
\* worker that lost its lease can still write.
LateWritesAreBounded ==
  [][\A o \in OpIds :
       ops'[o].checkpoint.progress # ops[o].checkpoint.progress =>
         ops[o].state = "running" /\ ops[o].lease + MaxStaleness > clock]_vars

\* The life of one operation, as its row tells it.
Life(o) ==
  INSTANCE OperationLife WITH
    submitted <- ops[o].state # "absent",
    holder    <- ops[o].worker,
    asked     <- ops[o].cancel,
    doubt     <- ops[o].checkpoint.unknown,
    progress  <- ops[o].checkpoint.progress,
    outcome   <- IF ops[o].state \in Terminal THEN ops[o].state ELSE NULL

\* Every operation lives as OperationLife promises, whichever methods are called,
\* by whom and how late; one step may touch two operations.
LivesAsPromised ==
  /\ \A o \in OpIds : Life(o)!Init
  /\ [][\A o \in OpIds : [Life(o)!Next]_(Life(o)!vars)]_vars
=============================================================================

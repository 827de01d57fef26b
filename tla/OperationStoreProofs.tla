------------------------ MODULE OperationStoreProofs -------------------------
(***************************************************************************)
(* The operation repository keeps its rows well formed, its quarantine     *)
(* resolvable and its audit trail truthful; its methods respect live       *)
(* leases, cancellations and outcomes; and the queue summary agrees with   *)
(* it: for every set of operations, workers and steps, every lease length  *)
(* and every staleness of the callers' clocks.                             *)
(***************************************************************************)
EXTENDS QueueDiagnostics, TLAPS

\* What one row satisfies in every reachable state.
RowInv(row) == row \in Rows /\ RowShape(row) /\ QuarantineFlagged(row)

StoreInv ==
  TypeOK /\ OwnershipMatchesState /\ QuarantineIsResolvable /\ AuditTrailAgrees

-----------------------------------------------------------------------------
(* What each transaction does to one well-formed row *)

LEMMA ReleasedType ==
  ASSUME NEW row \in Rows
  PROVE  /\ Released(row) \in Rows
         /\ Released(row) = [row EXCEPT !.worker = NULL, !.lease = NULL]
BY DEF Released, Rows

LEMMA ClaimedRow ==
  ASSUME NEW row, RowInv(row), NEW w \in Workers, NEW now \in Nat,
         Claimable(row, now)
  PROVE  RowInv(Claimed(row, w, now)) /\ Tells(Event("running", w), Claimed(row, w, now))
<1> DEFINE new == Claimed(row, w, now)
<1>1. /\ new.state = "running"
      /\ new.worker = w
      /\ new.lease = now + LeaseSeconds
      /\ new.nextRun = NULL
      /\ new.cancel = row.cancel
      /\ new.checkpoint = row.checkpoint
  BY DEF RowInv, Rows, Claimed
<1>2. new \in Rows
  <2>1. now + LeaseSeconds \in Nat
    BY LeaseAssumption
  <2>2. "running" \in States
    BY DEF States
  <2>3. QED
    BY <2>1, <2>2 DEF RowInv, Rows, Claimed
<1>3. row.cancel = FALSE /\ row.checkpoint.recon = FALSE
  BY DEF RowInv, Rows, Checkpoints, QuarantineFlagged, Claimable
<1>4. RowShape(new)
  BY <1>1, <1>3, NullAssumption, LeaseAssumption DEF RowShape, Waiting
<1>5. QED
  BY <1>1, <1>2, <1>3, <1>4 DEF RowInv, QuarantineFlagged, Tells, Event

LEMMA QuarantinedRow ==
  ASSUME NEW row, RowInv(row), row.cancel, NEW cp \in Checkpoints
  PROVE  RowInv(Quarantined(row, cp)) /\ Tells(Event("waiting_user", NULL), Quarantined(row, cp))
BY NullAssumption
   DEF RowInv, Rows, RowShape, QuarantineFlagged, Quarantined, Released,
       NeedsReconciliation, Tells, Event, States, Waiting, Terminal, Checkpoints

LEMMA RenewedRow ==
  ASSUME NEW row, RowInv(row), NEW w \in Workers, NEW now \in Nat,
         HoldsLease(row, w, now)
  PROVE  RowInv(Renewed(row, now)) /\ Tells(Event("running", w), Renewed(row, now))
BY NullAssumption, LeaseAssumption
   DEF RowInv, Rows, RowShape, QuarantineFlagged, Renewed, HoldsLease, Owns,
       LeaseExpired, Tells, Event, States, Waiting, Terminal, Checkpoints

LEMMA CheckpointedRow ==
  ASSUME NEW row, RowInv(row), NEW w \in Workers, row.state = "running", row.worker = w,
         NEW cp \in HandlerCheckpoints, NEW asked \in CheckpointStates,
         NEW after, after = Checkpointed(row, cp, asked)
  PROVE  /\ RowInv(after)
         /\ Tells(Event(after.state, IF after.state = "running" THEN w ELSE NULL), after)
<1> DEFINE doubt == row.cancel /\ RequiresReconciliation(cp)
           state == IF row.cancel THEN StateUnderCancel(cp, asked) ELSE asked
           saved == IF doubt THEN NeedsReconciliation(cp) ELSE cp
           owner == IF state = "running" THEN row ELSE Released(row)
<1>1. after = [owner EXCEPT !.state = state, !.checkpoint = saved,
                            !.cancel = @ /\ state \notin Terminal]
  BY DEF Checkpointed
<1>2. /\ state \in States
      /\ state \notin Waiting
      /\ row.cancel => state \in Terminal \cup {"waiting_user"}
      /\ doubt => state = "waiting_user"
      /\ row.cancel /\ ~doubt => state \in Terminal
  BY DEF StateUnderCancel, CheckpointStates, States, Waiting, Terminal
<1>3. cp \in Checkpoints /\ cp.recon = FALSE
  BY DEF HandlerCheckpoints, Checkpoints
<1>4. saved \in Checkpoints /\ (saved.recon <=> doubt)
  BY <1>3 DEF NeedsReconciliation, Checkpoints
<1>5. /\ owner \in Rows
      /\ owner.cancel = row.cancel
      /\ owner.worker = IF state = "running" THEN w ELSE NULL
      /\ state = "running" => owner.lease = row.lease
      /\ state # "running" => owner.lease = NULL
      /\ owner.nextRun = row.nextRun
  BY ReleasedType DEF RowInv, Rows, Released
<1>6. /\ after \in Rows
      /\ after.state = state
      /\ after.checkpoint = saved
      /\ after.cancel <=> (row.cancel /\ state \notin Terminal)
      /\ after.worker = owner.worker
      /\ after.lease = owner.lease
      /\ after.nextRun = owner.nextRun
  BY <1>1, <1>2, <1>4, <1>5 DEF Rows
<1>7. RowShape(after)
  BY <1>2, <1>5, <1>6, NullAssumption DEF RowInv, RowShape, Waiting, Terminal
<1>8. QuarantineFlagged(after)
  BY <1>2, <1>4, <1>6 DEF QuarantineFlagged, Terminal
<1>9. QED
  BY <1>5, <1>6, <1>7, <1>8 DEF RowInv, Tells, Event

LEMMA ScheduledRow ==
  ASSUME NEW row, RowInv(row), row.state = "running",
         NEW cp \in HandlerCheckpoints, NEW asked \in Waiting, NEW next \in Nat
  PROVE  /\ RowInv(Scheduled(row, cp, asked, next))
         /\ Tells(ScheduleEvent(row, cp, asked), Scheduled(row, cp, asked, next))
<1>1. cp \in Checkpoints /\ cp.recon = FALSE
  BY DEF HandlerCheckpoints, Checkpoints
<1>2. CASE row.cancel /\ RequiresReconciliation(cp)
  BY <1>1, <1>2, QuarantinedRow DEF Scheduled, ScheduleEvent
<1>3. CASE row.cancel /\ ~RequiresReconciliation(cp)
  <2> DEFINE new == [Released(row) EXCEPT !.state = "cancelled", !.checkpoint = cp,
                                          !.nextRun = NULL, !.cancel = FALSE]
  <2>1. /\ Scheduled(row, cp, asked, next) = new
        /\ ScheduleEvent(row, cp, asked) = Event("cancelled", NULL)
    BY <1>3 DEF Scheduled, ScheduleEvent
  <2>2. "cancelled" \in States /\ "cancelled" \notin Waiting
    BY DEF States, Terminal, Waiting
  <2>3. new \in Rows /\ RowShape(new)
    BY <1>1, <2>2 DEF RowInv, Rows, Released, RowShape
  <2>4. QED
    BY <1>1, <2>1, <2>2, <2>3
       DEF RowInv, Rows, Released, QuarantineFlagged, Tells, Event
<1>4. CASE ~row.cancel
  <2> DEFINE new == [Released(row) EXCEPT !.state = asked, !.checkpoint = cp,
                                          !.nextRun = next]
  <2>1. /\ Scheduled(row, cp, asked, next) = new
        /\ ScheduleEvent(row, cp, asked) = Event(asked, NULL)
    BY <1>4 DEF Scheduled, ScheduleEvent
  <2>2. asked \in States /\ asked # "running" /\ asked # "waiting_user"
    BY DEF States, Waiting
  <2>3. /\ new \in Rows
        /\ new.state = asked /\ new.worker = NULL /\ new.lease = NULL
        /\ new.nextRun = next /\ new.cancel = FALSE /\ new.checkpoint = cp
    BY <1>1, <1>4, <2>2 DEF RowInv, Rows, Released
  <2>4. next # NULL
    BY NullAssumption
  <2>5. RowShape(new)
    BY <2>2, <2>3, <2>4 DEF RowShape
  <2>6. QED
    BY <1>1, <2>1, <2>2, <2>3, <2>5 DEF RowInv, QuarantineFlagged, Tells, Event
<1>5. QED
  BY <1>2, <1>3, <1>4

LEMMA CancelledRow ==
  ASSUME NEW row, RowInv(row), row.state # "absent", Cancellable(row)
  PROVE  RowInv(Cancelled(row)) /\ Tells(CancelEvent(row), Cancelled(row))
<1>1. CASE CancelKeepsUncertain(row)
  <2> DEFINE new == [row EXCEPT !.checkpoint = NeedsReconciliation(@), !.cancel = TRUE]
  <2>1. /\ Cancelled(row) = new
        /\ CancelEvent(row) = Event("waiting_user", NULL)
        /\ row.state = "waiting_user"
    BY <1>1 DEF Cancelled, CancelEvent, CancelKeepsUncertain
  <2>2. NeedsReconciliation(row.checkpoint) \in Checkpoints
    BY DEF RowInv, Rows, Checkpoints, NeedsReconciliation
  <2>3. new \in Rows /\ RowShape(new)
    BY <2>1, <2>2 DEF RowInv, Rows, RowShape
  <2>4. QED
    BY <2>1, <2>3
       DEF RowInv, Rows, RowShape, Checkpoints, NeedsReconciliation,
           QuarantineFlagged, Tells, Event
<1>2. CASE row.state = "running"
  BY <1>2
     DEF RowInv, Rows, RowShape, QuarantineFlagged, Cancelled, CancelEvent,
         CancelKeepsUncertain, Tells, Event
<1>3. CASE ~CancelKeepsUncertain(row) /\ row.state # "running"
  <2> DEFINE new == [Released(row) EXCEPT !.state = "cancelled", !.nextRun = NULL,
                                          !.cancel = FALSE]
  <2>1. /\ Cancelled(row) = new
        /\ CancelEvent(row) = Event("cancelled", NULL)
    BY <1>3 DEF Cancelled, CancelEvent
  <2>2. "cancelled" \in States /\ "cancelled" \notin Waiting
    BY DEF States, Terminal, Waiting
  <2>3. row.checkpoint.recon = FALSE
    BY <1>3 DEF RowInv, Rows, Checkpoints, QuarantineFlagged, CancelKeepsUncertain,
                RequiresReconciliation
  <2>4. new \in Rows /\ RowShape(new)
    BY <2>2 DEF RowInv, Rows, Released, RowShape
  <2>5. QED
    BY <2>1, <2>3, <2>4 DEF RowInv, Rows, Released, QuarantineFlagged, Tells, Event
<1>4. QED
  BY <1>1, <1>2, <1>3

LEMMA ResumedRow ==
  ASSUME NEW row, RowInv(row), Resumable(row)
  PROVE  RowInv(Resumed(row)) /\ Tells(Event("queued", NULL), Resumed(row))
<1>1. "queued" \in States /\ "queued" \notin Waiting /\ "waiting_user" \notin Waiting
  BY DEF States, Waiting
<1>2. QED
  BY <1>1 DEF RowInv, Rows, RowShape, QuarantineFlagged, Resumable, Resumed, Tells, Event

LEMMA ResolvedRow ==
  ASSUME NEW row, RowInv(row), Resolvable(row), NEW outcome \in Outcomes,
         NEW after, after = Resolved(row, outcome)
  PROVE  RowInv(after) /\ Tells(Event(after.state, NULL), after)
<1> DEFINE state == IF outcome = "no_effect" THEN "cancelled" ELSE "partial"
           saved == [row.checkpoint EXCEPT !.recon = FALSE, !.unknown = NULL]
<1>1. after = [Released(row) EXCEPT !.state = state, !.checkpoint = saved,
                                    !.nextRun = NULL, !.cancel = FALSE]
  BY DEF Resolved, Released
<1>2. state \in States /\ state \notin Waiting /\ state \in Terminal /\ state # "running"
  BY DEF States, Terminal, Waiting
<1>3. saved \in Checkpoints /\ saved.recon = FALSE
  BY DEF RowInv, Rows, Checkpoints
<1>4. after \in Rows /\ RowShape(after)
  BY <1>1, <1>2, <1>3 DEF RowInv, Rows, Released, RowShape
<1>5. QED
  BY <1>1, <1>3, <1>4 DEF RowInv, Rows, Released, QuarantineFlagged, Tells, Event

LEMMA CreatedRow ==
  ASSUME NEW kind \in Kinds, NEW now \in Nat,
         NEW row, row = [EmptyRow EXCEPT !.state = "queued", !.kind = kind,
                                         !.createdAt = now]
  PROVE  RowInv(row) /\ Tells(Event("queued", NULL), row)
<1>1. "queued" \in States /\ "queued" \notin Waiting
  BY DEF States, Waiting
<1>2. EmptyRow.checkpoint \in Checkpoints
  BY BoundsAssumption DEF EmptyRow, Checkpoints
<1>3. QED
  BY <1>1, <1>2 DEF RowInv, Rows, RowShape, QuarantineFlagged, EmptyRow, Tells, Event

-----------------------------------------------------------------------------
(* From rows to the store *)

LEMMA SampleIsPast ==
  ASSUME TypeOK, NEW now \in Samples
  PROVE  now \in Nat /\ now <= clock /\ clock <= now + MaxStaleness
BY BoundsAssumption DEF TypeOK, Samples

LEMMA RowOfStore ==
  ASSUME StoreInv, NEW o \in OpIds
  PROVE  RowInv(ops[o])
BY DEF StoreInv, TypeOK, OwnershipMatchesState, QuarantineIsResolvable, RowInv

LEMMA CommitKeepsInv ==
  ASSUME StoreInv, NEW o \in OpIds, NEW row, NEW event, Commit(o, row, event),
         RowInv(row), event \in Events, Tells(event, row)
  PROVE  StoreInv'
<1>1. TypeOK'
  BY DEF StoreInv, TypeOK, Commit, RowInv
<1>2. \A p \in OpIds : /\ ops'[p] = IF p = o THEN row ELSE ops[p]
                       /\ trail'[p] = IF p = o THEN event ELSE trail[p]
  BY DEF StoreInv, TypeOK, Commit
<1>3. OwnershipMatchesState'
  BY <1>2 DEF StoreInv, OwnershipMatchesState, RowInv
<1>4. QuarantineIsResolvable'
  BY <1>2 DEF StoreInv, QuarantineIsResolvable, RowInv
<1>5. AuditTrailAgrees'
  BY <1>2 DEF StoreInv, AuditTrailAgrees
<1>6. QED
  BY <1>1, <1>3, <1>4, <1>5 DEF StoreInv

LEMMA EventType ==
  ASSUME NEW state \in States, NEW w \in Workers \cup {NULL}
  PROVE  Event(state, w) \in Events
BY DEF Event, Events

LEMMA ClaimNextKeepsInv ==
  ASSUME StoreInv, NEW w \in Workers, NEW now \in Samples,
         NEW kind \in Kinds \cup {NULL}, ClaimNext(w, now, kind)
  PROVE  StoreInv'
<1>1. /\ now \in Nat
      /\ "running" \in States /\ "waiting_user" \in States
  BY SampleIsPast DEF StoreInv, States
<1>2. ASSUME NEW o \in OpIds
      PROVE  /\ RowInv(ops'[o])
             /\ trail'[o] \in Events
             /\ Tells(trail'[o], ops'[o])
  <2>1. RowInv(ops[o]) /\ ops[o].checkpoint \in Checkpoints
    BY RowOfStore DEF RowInv, Rows
  <2>2. CASE IsFirst(o, Uncertain(now))
    <3>1. ops[o].cancel /\ ~IsFirst(o, Ready(now, kind))
      BY <2>2 DEF IsFirst, Uncertain, UncertainCancelled, Ready, Claimable
    <3>2. /\ ops'[o] = Quarantined(ops[o], ops[o].checkpoint)
          /\ trail'[o] = Event("waiting_user", NULL)
      BY <2>2, <3>1 DEF ClaimNext
    <3>3. QED
      BY <1>1, <2>1, <3>1, <3>2, QuarantinedRow, EventType
  <2>3. CASE ~IsFirst(o, Uncertain(now)) /\ IsFirst(o, Ready(now, kind))
    <3>1. Claimable(ops[o], now)
      BY <2>3 DEF IsFirst, Ready
    <3>2. /\ ops'[o] = Claimed(ops[o], w, now)
          /\ trail'[o] = Event("running", w)
      BY <2>3 DEF ClaimNext
    <3>3. QED
      BY <1>1, <2>1, <3>1, <3>2, ClaimedRow, EventType
  <2>4. CASE ~IsFirst(o, Uncertain(now)) /\ ~IsFirst(o, Ready(now, kind))
    <3>1. ops'[o] = ops[o] /\ trail'[o] = trail[o]
      BY <2>4 DEF ClaimNext
    <3>2. QED
      BY <2>1, <3>1 DEF StoreInv, TypeOK, AuditTrailAgrees
  <2>5. QED
    BY <2>2, <2>3, <2>4
<1>3. /\ DOMAIN ops' = OpIds /\ ops' = [o \in OpIds |-> ops'[o]]
      /\ DOMAIN trail' = OpIds /\ trail' = [o \in OpIds |-> trail'[o]]
      /\ clock' = clock
  BY DEF ClaimNext
<1>4. TypeOK'
  BY <1>2, <1>3 DEF StoreInv, TypeOK, RowInv
<1>5. QED
  BY <1>2, <1>4
     DEF StoreInv, OwnershipMatchesState, QuarantineIsResolvable, AuditTrailAgrees, RowInv

LEMMA NextKeepsInv == StoreInv /\ [Next]_vars => StoreInv'
<1> SUFFICES ASSUME StoreInv, [Next]_vars PROVE StoreInv'
  OBVIOUS
<1>1. ASSUME NEW o \in OpIds, NEW k \in Kinds, NEW now \in Samples, Create(o, k, now)
      PROVE  StoreInv'
  <2>1. now \in Nat /\ "queued" \in States
    BY SampleIsPast DEF StoreInv, States
  <2>2. QED
    BY <1>1, <2>1, CreatedRow, EventType, CommitKeepsInv DEF Create
<1>2. ASSUME NEW o \in OpIds, NEW w \in Workers, NEW now \in Samples, Claim(o, w, now)
      PROVE  StoreInv'
  <2>1. now \in Nat /\ "running" \in States /\ RowInv(ops[o])
    BY SampleIsPast, RowOfStore DEF StoreInv, States
  <2>2. QED
    BY <1>2, <2>1, ClaimedRow, EventType, CommitKeepsInv DEF Claim
<1>3. ASSUME NEW w \in Workers, NEW now \in Samples, NEW k \in Kinds \cup {NULL},
             ClaimNext(w, now, k)
      PROVE  StoreInv'
  BY <1>3, ClaimNextKeepsInv
<1>4. ASSUME NEW o \in OpIds, NEW w \in Workers, NEW now \in Samples,
             RenewLease(o, w, now)
      PROVE  StoreInv'
  <2>1. now \in Nat /\ "running" \in States /\ RowInv(ops[o])
    BY SampleIsPast, RowOfStore DEF StoreInv, States
  <2>2. QED
    BY <1>4, <2>1, RenewedRow, EventType, CommitKeepsInv DEF RenewLease
<1>5. ASSUME NEW o \in OpIds, NEW w \in Workers, NEW now \in Samples,
             NEW cp \in HandlerCheckpoints, NEW s \in CheckpointStates,
             Checkpoint(o, w, cp, s, now)
      PROVE  StoreInv'
  <2> DEFINE row   == Checkpointed(ops[o], cp, s)
             owner == IF row.state = "running" THEN w ELSE NULL
  <2>1. /\ RowInv(ops[o])
        /\ ops[o].state = "running" /\ ops[o].worker = w
        /\ Commit(o, row, Event(row.state, owner))
    BY <1>5, RowOfStore DEF Checkpoint, HoldsLease, Owns
  <2>2. RowInv(row) /\ Tells(Event(row.state, owner), row)
    BY <2>1, CheckpointedRow
  <2>3. Event(row.state, owner) \in Events
    BY <2>2 DEF RowInv, Rows, Event, Events
  <2>4. QED
    BY <2>1, <2>2, <2>3, CommitKeepsInv
<1>6. ASSUME NEW o \in OpIds, NEW w \in Workers, NEW now \in Samples,
             NEW cp \in HandlerCheckpoints, NEW s \in Waiting, NEW delay \in 1..MaxDelay,
             ScheduleWait(o, w, cp, s, now, now + delay)
      PROVE  StoreInv'
  <2> DEFINE row == Scheduled(ops[o], cp, s, now + delay)
             event == ScheduleEvent(ops[o], cp, s)
  <2>1. now + delay \in Nat
    BY SampleIsPast, BoundsAssumption DEF StoreInv
  <2>2. /\ RowInv(ops[o])
        /\ ops[o].state = "running"
        /\ Commit(o, row, event)
    BY <1>6, RowOfStore DEF ScheduleWait, HoldsLease, Owns
  <2>3. RowInv(row) /\ Tells(event, row)
    BY <2>1, <2>2, ScheduledRow
  <2>4. event \in Events
    BY EventType DEF ScheduleEvent, States, Waiting, Terminal
  <2>5. QED
    BY <2>2, <2>3, <2>4, CommitKeepsInv
<1>7. ASSUME NEW o \in OpIds, Cancel(o)
      PROVE  StoreInv'
  <2>1. /\ RowInv(ops[o])
        /\ RowInv(Cancelled(ops[o]))
        /\ Tells(CancelEvent(ops[o]), Cancelled(ops[o]))
        /\ Commit(o, Cancelled(ops[o]), CancelEvent(ops[o]))
    BY <1>7, RowOfStore, CancelledRow DEF Cancel
  <2>2. ops[o].worker \in Workers \cup {NULL}
    BY <2>1 DEF RowInv, Rows
  <2>3. CancelEvent(ops[o]) \in Events
    BY <2>2, EventType DEF CancelEvent, States, Terminal
  <2>4. QED
    BY <2>1, <2>3, CommitKeepsInv
<1>8. ASSUME NEW o \in OpIds, Resume(o)
      PROVE  StoreInv'
  <2>1. "queued" \in States
    BY DEF States
  <2>2. QED
    BY <1>8, <2>1, RowOfStore, ResumedRow, EventType, CommitKeepsInv DEF Resume
<1>9. ASSUME NEW o \in OpIds, NEW outcome \in Outcomes,
             ResolveCancelledOutcome(o, outcome)
      PROVE  StoreInv'
  <2> DEFINE row == Resolved(ops[o], outcome)
  <2>1. RowInv(row) /\ Tells(Event(row.state, NULL), row)
    BY <1>9, RowOfStore, ResolvedRow DEF ResolveCancelledOutcome
  <2>2. Event(row.state, NULL) \in Events
    BY <2>1 DEF RowInv, Rows, Event, Events
  <2>3. QED
    BY <1>9, <2>1, <2>2, CommitKeepsInv DEF ResolveCancelledOutcome
<1>10. CASE Tick
  BY <1>10 DEF Tick, StoreInv, TypeOK, OwnershipMatchesState, QuarantineIsResolvable,
               AuditTrailAgrees
<1>11. CASE UNCHANGED vars
  BY <1>11 DEF vars, StoreInv, TypeOK, OwnershipMatchesState, QuarantineIsResolvable,
               AuditTrailAgrees
<1>12. QED
  BY <1>1, <1>2, <1>3, <1>4, <1>5, <1>6, <1>7, <1>8, <1>9, <1>10, <1>11 DEF Next

LEMMA InitInv == Init => StoreInv
<1> SUFFICES ASSUME Init PROVE StoreInv
  OBVIOUS
<1>1. EmptyRow \in Rows
  <2>1. EmptyRow.checkpoint \in Checkpoints
    BY BoundsAssumption DEF EmptyRow, Checkpoints
  <2>2. QED
    BY <2>1 DEF EmptyRow, Rows
<1>2. RowShape(EmptyRow) /\ QuarantineFlagged(EmptyRow)
  BY DEF EmptyRow, RowShape, QuarantineFlagged, Waiting
<1>3. NoEvent \in Events /\ Tells(NoEvent, EmptyRow)
  BY DEF NoEvent, Event, Events, Tells, EmptyRow
<1>4. QED
  BY <1>1, <1>2, <1>3
     DEF Init, StoreInv, TypeOK, OwnershipMatchesState, QuarantineIsResolvable,
         AuditTrailAgrees

\* The conjunction of the four row invariants is inductive.
THEOREM StoreInvariant == Spec => []StoreInv
BY InitInv, NextKeepsInv, PTL DEF Spec

\* Rows, events and the clock keep the shape the schema gives them.
THEOREM TypeCorrect == Spec => []TypeOK
<1>1. StoreInv => TypeOK
  BY DEF StoreInv
<1>2. QED
  BY <1>1, StoreInvariant, PTL

\* Owner, lease, wait time and cancellation flag appear only in the states that
\* give them a meaning, whatever calls the repository has served.
THEOREM OwnershipCorrect == Spec => []OwnershipMatchesState
<1>1. StoreInv => OwnershipMatchesState
  BY DEF StoreInv
<1>2. QED
  BY <1>1, StoreInvariant, PTL

\* No cancelled operation is ever parked where neither resume nor resolution is
\* accepted.
THEOREM QuarantineCorrect == Spec => []QuarantineIsResolvable
<1>1. StoreInv => QuarantineIsResolvable
  BY DEF StoreInv
<1>2. QED
  BY <1>1, StoreInvariant, PTL

\* The audit trail's newest event always tells the row's state and owner.
THEOREM AuditCorrect == Spec => []AuditTrailAgrees
<1>1. StoreInv => AuditTrailAgrees
  BY DEF StoreInv
<1>2. QED
  BY <1>1, StoreInvariant, PTL

-----------------------------------------------------------------------------
(***************************************************************************)
(* What one call of the operation repository may do to one row, and the    *)
(* action properties of OperationStore that follow from it.                *)
(***************************************************************************)

-----------------------------------------------------------------------------
(* The transactions, seen from one row *)

ByCreate(row, new) ==
  /\ row.state = "absent"
  /\ \E kind \in Kinds, now \in Nat :
       new = [EmptyRow EXCEPT !.state = "queued", !.kind = kind, !.createdAt = now]

ByClaim(row, new, now) ==
  Claimable(row, now) /\ \E w \in Workers : new = Claimed(row, w, now)

ByQuarantine(row, new, now) ==
  UncertainCancelled(row, now) /\ new = Quarantined(row, row.checkpoint)

ByRenewal(row, new, now) ==
  /\ row.state = "running" /\ ~LeaseExpired(row, now) /\ ~row.cancel
  /\ new = Renewed(row, now)

ByCheckpoint(row, new, now) ==
  /\ row.state = "running" /\ ~LeaseExpired(row, now)
  /\ \E cp \in HandlerCheckpoints, s \in CheckpointStates : new = Checkpointed(row, cp, s)

BySchedule(row, new, now) ==
  /\ row.state = "running" /\ ~LeaseExpired(row, now)
  /\ \E cp \in HandlerCheckpoints, s \in Waiting, next \in Nat :
       new = Scheduled(row, cp, s, next)

ByUser(row, new) ==
  \/ row.state # "absent" /\ Cancellable(row) /\ new = Cancelled(row)
  \/ Resumable(row) /\ new = Resumed(row)
  \/ Resolvable(row) /\ \E outcome \in Outcomes : new = Resolved(row, outcome)

RowStep(row, new) ==
  \/ new = row
  \/ ByCreate(row, new)
  \/ \E now \in Samples : \/ ByClaim(row, new, now)
                          \/ ByQuarantine(row, new, now)
                          \/ ByRenewal(row, new, now)
                          \/ ByCheckpoint(row, new, now)
                          \/ BySchedule(row, new, now)
  \/ ByUser(row, new)

LEMMA CommitRow ==
  ASSUME StoreInv, NEW o \in OpIds, NEW row, NEW event, Commit(o, row, event),
         NEW p \in OpIds
  PROVE  ops'[p] = IF p = o THEN row ELSE ops[p]
BY DEF StoreInv, TypeOK, Commit

LEMMA StepByRow ==
  ASSUME StoreInv, [Next]_vars, NEW p \in OpIds
  PROVE  RowStep(ops[p], ops'[p])
<1>1. ASSUME NEW o \in OpIds, NEW k \in Kinds, NEW now \in Samples, Create(o, k, now)
      PROVE  RowStep(ops[p], ops'[p])
  <2> DEFINE row == [EmptyRow EXCEPT !.state = "queued", !.kind = k, !.createdAt = now]
  <2>1. ops'[p] = IF p = o THEN row ELSE ops[p]
    BY <1>1, CommitRow DEF Create
  <2>2. now \in Nat /\ ops[o].state = "absent"
    BY <1>1, SampleIsPast DEF StoreInv, Create
  <2>3. QED
    BY <2>1, <2>2 DEF RowStep, ByCreate
<1>2. ASSUME NEW o \in OpIds, NEW w \in Workers, NEW now \in Samples, Claim(o, w, now)
      PROVE  RowStep(ops[p], ops'[p])
  <2>1. ops'[p] = IF p = o THEN Claimed(ops[o], w, now) ELSE ops[p]
    BY <1>2, CommitRow DEF Claim
  <2>2. QED
    BY <1>2, <2>1 DEF RowStep, ByClaim, Claim
<1>3. ASSUME NEW w \in Workers, NEW now \in Samples, NEW k \in Kinds \cup {NULL},
             ClaimNext(w, now, k)
      PROVE  RowStep(ops[p], ops'[p])
  <2>1. CASE IsFirst(p, Uncertain(now))
    <3>1. UncertainCancelled(ops[p], now) /\ ~IsFirst(p, Ready(now, k))
      BY <2>1 DEF IsFirst, Uncertain, UncertainCancelled, Ready, Claimable
    <3>2. ops'[p] = Quarantined(ops[p], ops[p].checkpoint)
      BY <1>3, <2>1, <3>1 DEF ClaimNext
    <3>3. QED
      BY <3>1, <3>2 DEF RowStep, ByQuarantine
  <2>2. CASE ~IsFirst(p, Uncertain(now)) /\ IsFirst(p, Ready(now, k))
    <3>1. Claimable(ops[p], now)
      BY <2>2 DEF IsFirst, Ready
    <3>2. ops'[p] = Claimed(ops[p], w, now)
      BY <1>3, <2>2 DEF ClaimNext
    <3>3. QED
      BY <3>1, <3>2 DEF RowStep, ByClaim
  <2>3. CASE ~IsFirst(p, Uncertain(now)) /\ ~IsFirst(p, Ready(now, k))
    BY <1>3, <2>3 DEF ClaimNext, RowStep
  <2>4. QED
    BY <2>1, <2>2, <2>3
<1>4. ASSUME NEW o \in OpIds, NEW w \in Workers, NEW now \in Samples,
             RenewLease(o, w, now)
      PROVE  RowStep(ops[p], ops'[p])
  <2>1. ops'[p] = IF p = o THEN Renewed(ops[o], now) ELSE ops[p]
    BY <1>4, CommitRow DEF RenewLease
  <2>2. QED
    BY <1>4, <2>1 DEF RowStep, ByRenewal, RenewLease, HoldsLease, Owns
<1>5. ASSUME NEW o \in OpIds, NEW w \in Workers, NEW now \in Samples,
             NEW cp \in HandlerCheckpoints, NEW s \in CheckpointStates,
             Checkpoint(o, w, cp, s, now)
      PROVE  RowStep(ops[p], ops'[p])
  <2>1. ops'[p] = IF p = o THEN Checkpointed(ops[o], cp, s) ELSE ops[p]
    BY <1>5, CommitRow DEF Checkpoint
  <2>2. QED
    BY <1>5, <2>1 DEF RowStep, ByCheckpoint, Checkpoint, HoldsLease, Owns
<1>6. ASSUME NEW o \in OpIds, NEW w \in Workers, NEW now \in Samples,
             NEW cp \in HandlerCheckpoints, NEW s \in Waiting, NEW delay \in 1..MaxDelay,
             ScheduleWait(o, w, cp, s, now, now + delay)
      PROVE  RowStep(ops[p], ops'[p])
  <2>1. ops'[p] = IF p = o THEN Scheduled(ops[o], cp, s, now + delay) ELSE ops[p]
    BY <1>6, CommitRow DEF ScheduleWait
  <2>2. now + delay \in Nat
    BY SampleIsPast, BoundsAssumption DEF StoreInv
  <2>3. QED
    BY <1>6, <2>1, <2>2 DEF RowStep, BySchedule, ScheduleWait, HoldsLease, Owns
<1>7. ASSUME NEW o \in OpIds, Cancel(o)
      PROVE  RowStep(ops[p], ops'[p])
  <2>1. ops'[p] = IF p = o THEN Cancelled(ops[o]) ELSE ops[p]
    BY <1>7, CommitRow DEF Cancel
  <2>2. QED
    BY <1>7, <2>1 DEF RowStep, ByUser, Cancel
<1>8. ASSUME NEW o \in OpIds, Resume(o)
      PROVE  RowStep(ops[p], ops'[p])
  <2>1. ops'[p] = IF p = o THEN Resumed(ops[o]) ELSE ops[p]
    BY <1>8, CommitRow DEF Resume
  <2>2. QED
    BY <1>8, <2>1 DEF RowStep, ByUser, Resume
<1>9. ASSUME NEW o \in OpIds, NEW outcome \in Outcomes,
             ResolveCancelledOutcome(o, outcome)
      PROVE  RowStep(ops[p], ops'[p])
  <2>1. ops'[p] = IF p = o THEN Resolved(ops[o], outcome) ELSE ops[p]
    BY <1>9, CommitRow DEF ResolveCancelledOutcome
  <2>2. QED
    BY <1>9, <2>1 DEF RowStep, ByUser, ResolveCancelledOutcome
<1>10. CASE Tick \/ UNCHANGED vars
  BY <1>10 DEF Tick, vars, RowStep
<1>11. QED
  BY <1>1, <1>2, <1>3, <1>4, <1>5, <1>6, <1>7, <1>8, <1>9, <1>10 DEF Next

LEMMA CheckpointedFields ==
  ASSUME NEW row \in Rows, NEW cp \in HandlerCheckpoints, NEW asked \in CheckpointStates,
         NEW state, state = IF row.cancel THEN StateUnderCancel(cp, asked) ELSE asked,
         NEW new, new = Checkpointed(row, cp, asked)
  PROVE  /\ new.state = state
         /\ new.worker = IF state = "running" THEN row.worker ELSE NULL
         /\ new.lease = IF state = "running" THEN row.lease ELSE NULL
         /\ new.checkpoint = IF row.cancel /\ RequiresReconciliation(cp)
                             THEN NeedsReconciliation(cp) ELSE cp
         /\ new.cancel = (row.cancel /\ state \notin Terminal)
<1> DEFINE saved   == IF row.cancel /\ RequiresReconciliation(cp)
                      THEN NeedsReconciliation(cp) ELSE cp
           edit(r) == [r EXCEPT !.state = state, !.checkpoint = saved,
                                !.cancel = @ /\ state \notin Terminal]
<1>1. CASE state = "running"
  <2>1. new = edit(row)
    BY <1>1 DEF Checkpointed
  <2>2. QED
    BY <1>1, <2>1 DEF Rows
<1>2. CASE state # "running"
  <2>1. new = edit(Released(row))
    BY <1>2 DEF Checkpointed
  <2>2. QED
    BY <1>2, <2>1 DEF Rows, Released
<1>3. QED
  BY <1>1, <1>2

-----------------------------------------------------------------------------
(* Finished operations *)

LEMMA TerminalRowStays ==
  ASSUME NEW row, RowInv(row), NEW new, RowStep(row, new), row.state \in Terminal
  PROVE  new = row
<1>1. /\ row.state \notin Waiting
      /\ row.state \notin {"absent", "queued", "running", "waiting_user"}
  BY DEF Terminal, Waiting
<1>2. QED
  BY <1>1 DEF RowStep, ByCreate, ByClaim, Claimable, Due, Abandoned, ByQuarantine,
              UncertainCancelled, ByRenewal, ByCheckpoint, BySchedule, ByUser,
              Cancellable, Resumable, Resolvable

\* No call of the repository, however late or repeated, changes a finished
\* operation.
THEOREM TerminalNeverChanges == Spec => TerminalIsFinal
<1>1. StoreInv /\ [Next]_vars =>
        [\A o \in OpIds : ops[o].state \in Terminal => ops'[o] = ops[o]]_vars
  BY StepByRow, RowOfStore, TerminalRowStays
<1>2. QED
  BY <1>1, StoreInvariant, PTL DEF Spec, TerminalIsFinal

-----------------------------------------------------------------------------
(* Cancelled operations *)

RunningCancelStep(row, new) ==
  \/ new = row
  \/ new.state = "waiting_user" /\ new.cancel
  \/ new.state \in Terminal /\ new.checkpoint.unknown = NULL

LEMMA CancelledCheckpointEnds ==
  ASSUME NEW row \in Rows, row.cancel, NEW cp \in HandlerCheckpoints,
         NEW asked \in CheckpointStates
  PROVE  RunningCancelStep(row, Checkpointed(row, cp, asked))
<1> DEFINE state == StateUnderCancel(cp, asked)
           saved == IF RequiresReconciliation(cp) THEN NeedsReconciliation(cp) ELSE cp
           new   == Checkpointed(row, cp, asked)
<1>1. state # "running"
  BY DEF StateUnderCancel, CheckpointStates, Terminal
<1>2. new = [Released(row) EXCEPT !.state = state, !.checkpoint = saved,
                                  !.cancel = @ /\ state \notin Terminal]
  BY <1>1 DEF Checkpointed
<1>3. /\ new.state = state
      /\ new.checkpoint = saved
      /\ new.cancel = (row.cancel /\ state \notin Terminal)
  BY <1>2 DEF Released, Rows
<1>4. CASE RequiresReconciliation(cp)
  <2>1. state = "waiting_user" /\ "waiting_user" \notin Terminal
    BY <1>4 DEF StateUnderCancel, Terminal
  <2>2. QED
    BY <1>3, <2>1 DEF RunningCancelStep
<1>5. CASE ~RequiresReconciliation(cp)
  <2>1. state \in Terminal
    BY <1>5 DEF StateUnderCancel, CheckpointStates, Terminal
  <2>2. saved.unknown = NULL
    BY <1>5 DEF RequiresReconciliation
  <2>3. QED
    BY <1>3, <2>1, <2>2 DEF RunningCancelStep
<1>6. QED
  BY <1>4, <1>5

LEMMA RunningCancelRow ==
  ASSUME NEW row, RowInv(row), NEW new, RowStep(row, new),
         row.state = "running", row.cancel
  PROVE  RunningCancelStep(row, new)
<1>1. CASE \E now \in Samples : ByQuarantine(row, new, now)
  BY <1>1 DEF RowInv, Rows, ByQuarantine, Quarantined, Released, RunningCancelStep
<1>2. CASE \E now \in Samples : ByCheckpoint(row, new, now)
  BY <1>2, CancelledCheckpointEnds DEF RowInv, ByCheckpoint
<1>3. CASE \E now \in Samples : BySchedule(row, new, now)
  <2>1. PICK cp \in HandlerCheckpoints, s \in Waiting, next \in Nat :
               new = Scheduled(row, cp, s, next)
    BY <1>3 DEF BySchedule
  <2>2. CASE RequiresReconciliation(cp)
    BY <2>1, <2>2 DEF RowInv, Rows, Scheduled, Quarantined, Released, RunningCancelStep
  <2>3. CASE ~RequiresReconciliation(cp)
    BY <2>1, <2>3 DEF RowInv, Rows, Scheduled, Released, RequiresReconciliation,
                      RunningCancelStep, Terminal
  <2>4. QED
    BY <2>2, <2>3
<1>4. CASE ByUser(row, new)
  <2>1. new = Cancelled(row) /\ ~CancelKeepsUncertain(row)
    BY <1>4 DEF ByUser, Resumable, Resolvable, CancelKeepsUncertain
  <2>2. new = row
    BY <2>1 DEF Cancelled, RowInv, Rows
  <2>3. QED
    BY <2>2 DEF RunningCancelStep
<1>5. QED
  BY <1>1, <1>2, <1>3, <1>4
     DEF RowStep, ByCreate, ByClaim, Claimable, ByRenewal, RunningCancelStep

\* After a cancellation request no renewal, claim or schedule keeps the
\* operation going, and it ends only with no step in doubt.
THEOREM CancellationIsBinding == Spec => CancellationEndsAuthority
<1>1. StoreInv /\ [Next]_vars =>
        [\A o \in OpIds : ops[o].state = "running" /\ ops[o].cancel =>
           RunningCancelStep(ops[o], ops'[o])]_vars
  BY StepByRow, RowOfStore, RunningCancelRow
<1>2. QED
  BY <1>1, StoreInvariant, PTL DEF Spec, CancellationEndsAuthority, RunningCancelStep

ResolvedStep(row, new) ==
  \/ new = row
  \/ /\ new.state \in {"cancelled", "partial"}
     /\ ~RequiresReconciliation(new.checkpoint)
     /\ new.checkpoint.progress = row.checkpoint.progress

LEMMA QuarantinedRowStep ==
  ASSUME NEW row, RowInv(row), NEW new, RowStep(row, new),
         row.state = "waiting_user", row.cancel
  PROVE  ResolvedStep(row, new)
<1>1. CASE ByUser(row, new)
  <2>1. PICK outcome \in Outcomes : new = Resolved(row, outcome)
    BY <1>1 DEF ByUser, Cancellable, Resumable
  <2>2. QED
    BY <2>1 DEF RowInv, Rows, Checkpoints, Resolved, Released, ResolvedStep,
                RequiresReconciliation
<1>2. QED
  BY <1>1 DEF RowStep, ByCreate, ByClaim, Claimable, ByQuarantine, UncertainCancelled,
              Abandoned, ByRenewal, ByCheckpoint, BySchedule, ResolvedStep

\* Only an explicit resolution moves a quarantined operation, and it loses no
\* confirmed progress.
THEOREM QuarantineIsSticky == Spec => QuarantineEndsByResolution
<1>1. StoreInv /\ [Next]_vars =>
        [\A o \in OpIds : ops[o].state = "waiting_user" /\ ops[o].cancel =>
           ResolvedStep(ops[o], ops'[o])]_vars
  BY StepByRow, RowOfStore, QuarantinedRowStep
<1>2. QED
  BY <1>1, StoreInvariant, PTL DEF Spec, QuarantineEndsByResolution, ResolvedStep
-----------------------------------------------------------------------------
(* Leases against real time *)

LEMMA WorkerMoves ==
  ASSUME StoreInv, NEW row, RowInv(row), NEW new, row.state = "running",
         \/ \E now \in Samples : \/ ByQuarantine(row, new, now)
                                 \/ ByRenewal(row, new, now)
                                 \/ ByCheckpoint(row, new, now)
                                 \/ BySchedule(row, new, now)
         \/ ByUser(row, new)
  PROVE  /\ new.worker \in {row.worker, NULL}
         /\ new.worker # NULL =>
              new.lease = row.lease \/ (new.lease \in Int /\ new.lease > row.lease)
<1>1. CASE \E now \in Samples : ByQuarantine(row, new, now)
  BY <1>1 DEF RowInv, Rows, ByQuarantine, Quarantined, Released
<1>2. CASE \E now \in Samples : ByRenewal(row, new, now)
  <2>1. PICK now \in Samples : ByRenewal(row, new, now)
    BY <1>2
  <2>2. now \in Nat
    BY SampleIsPast DEF StoreInv
  <2>3. QED
    BY <2>1, <2>2, LeaseAssumption, NullAssumption
       DEF RowInv, Rows, RowShape, ByRenewal, Renewed
<1>3. CASE \E now \in Samples : ByCheckpoint(row, new, now)
  <2>1. PICK cp \in HandlerCheckpoints, s \in CheckpointStates :
               new = Checkpointed(row, cp, s)
    BY <1>3 DEF ByCheckpoint
  <2> DEFINE state == IF row.cancel THEN StateUnderCancel(cp, s) ELSE s
  <2>2. new.worker = (IF state = "running" THEN row.worker ELSE NULL)
    BY <2>1, CheckpointedFields DEF RowInv
  <2>3. new.lease = (IF state = "running" THEN row.lease ELSE NULL)
    BY <2>1, CheckpointedFields DEF RowInv
  <2> HIDE DEF state
  <2>4. QED
    BY <2>2, <2>3
<1>4. CASE \E now \in Samples : BySchedule(row, new, now)
  BY <1>4 DEF RowInv, Rows, BySchedule, Scheduled, Quarantined, Released
<1>5. CASE ByUser(row, new)
  BY <1>5 DEF RowInv, Rows, ByUser, Cancelled, CancelKeepsUncertain, Resumable, Resolvable
<1>6. QED
  BY <1>1, <1>2, <1>3, <1>4, <1>5

LEMMA LiveRowKeepsOwner ==
  ASSUME StoreInv, NEW row, RowInv(row), NEW new, RowStep(row, new),
         row.state = "running", row.lease > clock
  PROVE  /\ new.worker \in {row.worker, NULL}
         /\ new.worker # NULL => new.lease >= row.lease
<1>1. row.lease \in Nat /\ clock \in Nat
  BY NullAssumption DEF StoreInv, TypeOK, RowInv, Rows, RowShape
<1>2. \A now \in Samples : ~ByClaim(row, new, now)
  <2> SUFFICES ASSUME NEW now \in Samples, ByClaim(row, new, now) PROVE FALSE
    OBVIOUS
  <2>1. row.lease <= now
    BY <1>1, NullAssumption
       DEF ByClaim, Claimable, Due, Waiting, Abandoned, LeaseExpired
  <2>2. now \in Nat /\ now <= clock
    BY SampleIsPast DEF StoreInv
  <2>3. QED
    BY <1>1, <2>1, <2>2
<1>3. CASE new = row
  BY <1>1, <1>3
<1>4. CASE new # row
  <2>1. /\ new.worker \in {row.worker, NULL}
        /\ new.worker # NULL =>
              new.lease = row.lease \/ (new.lease \in Int /\ new.lease > row.lease)
    <3>1. ~ByCreate(row, new)
      BY DEF ByCreate
    <3>2. \/ \E now \in Samples : \/ ByQuarantine(row, new, now)
                                  \/ ByRenewal(row, new, now)
                                  \/ ByCheckpoint(row, new, now)
                                  \/ BySchedule(row, new, now)
          \/ ByUser(row, new)
      BY <1>2, <1>4, <3>1 DEF RowStep
    <3>3. QED
      BY <3>2, WorkerMoves
  <2>2. new.lease = row.lease \/ (new.lease \in Int /\ new.lease > row.lease)
          => new.lease >= row.lease
    BY <1>1
  <2>3. QED
    BY <2>1, <2>2
<1>5. QED
  BY <1>3, <1>4

\* However old the clock samples of the other callers are, a lease that is live
\* in real time is neither taken over nor shortened.
THEOREM LiveLeaseNeverStolen == Spec => LiveLeaseIsRespected
<1>1. StoreInv /\ [Next]_vars =>
        [\A o \in OpIds :
           ops[o].state = "running" /\ ops[o].lease > clock =>
             /\ ops'[o].worker \in {ops[o].worker, NULL}
             /\ ops'[o].worker # NULL => ops'[o].lease >= ops[o].lease]_vars
  BY StepByRow, RowOfStore, LiveRowKeepsOwner
<1>2. QED
  BY <1>1, StoreInvariant, PTL DEF Spec, LiveLeaseIsRespected
-----------------------------------------------------------------------------
(* How late a write can be *)

\* What an absent row holds: a row is empty until create inserts it.
FreshInv == \A o \in OpIds : ops[o].state = "absent" => ops[o] = EmptyRow

LEMMA FreshRow ==
  ASSUME NEW row, RowInv(row), NEW new, RowStep(row, new), new.state = "absent"
  PROVE  new = row
<1>1. CASE ByCreate(row, new)
  BY <1>1 DEF ByCreate, EmptyRow
<1>2. CASE \E now \in Samples : ByClaim(row, new, now) \/ ByRenewal(row, new, now)
  BY <1>2 DEF RowInv, Rows, ByClaim, ByRenewal, Claimed, Renewed
<1>3. CASE \E now \in Samples : ByQuarantine(row, new, now)
  BY <1>3 DEF RowInv, Rows, ByQuarantine, Quarantined, Released
<1>4. CASE \E now \in Samples : ByCheckpoint(row, new, now)
  <2>1. PICK cp \in HandlerCheckpoints, s \in CheckpointStates :
               new = Checkpointed(row, cp, s)
    BY <1>4 DEF ByCheckpoint
  <2> DEFINE state == IF row.cancel THEN StateUnderCancel(cp, s) ELSE s
  <2>4. state \in CheckpointStates
    BY DEF StateUnderCancel, CheckpointStates, Terminal
  <2>5. new.state = state
    BY <2>1, CheckpointedFields DEF RowInv
  <2>6. QED
    BY <2>4, <2>5 DEF CheckpointStates, Terminal
<1>5. CASE \E now \in Samples : BySchedule(row, new, now)
  BY <1>5 DEF RowInv, Rows, BySchedule, Scheduled, Quarantined, Released, Waiting
<1>6. CASE ByUser(row, new)
  <2>1. CASE Resumable(row) /\ new = Resumed(row)
    BY <2>1 DEF RowInv, Rows, Resumed
  <2>2. CASE \E outcome \in Outcomes : new = Resolved(row, outcome)
    BY <2>2 DEF RowInv, Rows, Resolved, Released
  <2>3. CASE row.state # "absent" /\ new = Cancelled(row)
    BY <2>3 DEF RowInv, Rows, Cancelled, CancelKeepsUncertain, Released
  <2>4. QED
    BY <1>6, <2>1, <2>2, <2>3 DEF ByUser
<1>7. QED
  BY <1>1, <1>2, <1>3, <1>4, <1>5, <1>6 DEF RowStep

LEMMA FreshInvariant == Spec => []FreshInv
<1>1. Init => FreshInv
  BY DEF Init, FreshInv
<1>2. StoreInv /\ FreshInv /\ [Next]_vars => FreshInv'
  <2> SUFFICES ASSUME StoreInv, FreshInv, [Next]_vars, NEW o \in OpIds,
                      ops'[o].state = "absent"
               PROVE  ops'[o] = EmptyRow
    BY DEF FreshInv
  <2>1. ops'[o] = ops[o]
    BY StepByRow, RowOfStore, FreshRow
  <2>2. QED
    BY <2>1 DEF FreshInv
<1>3. QED
  BY <1>1, <1>2, StoreInvariant, PTL DEF Spec

LEMMA ProgressRow ==
  ASSUME StoreInv, NEW row, RowInv(row), row.state = "absent" => row = EmptyRow,
         NEW new, RowStep(row, new), new.checkpoint.progress # row.checkpoint.progress
  PROVE  row.state = "running" /\ row.lease + MaxStaleness > clock
<1>1. CASE ByCreate(row, new)
  BY <1>1 DEF ByCreate, EmptyRow
<1>2. CASE \E now \in Samples : ByClaim(row, new, now) \/ ByRenewal(row, new, now)
  BY <1>2 DEF RowInv, Rows, ByClaim, ByRenewal, Claimed, Renewed
<1>3. CASE \E now \in Samples : ByQuarantine(row, new, now)
  BY <1>3 DEF RowInv, Rows, Checkpoints, ByQuarantine, Quarantined, Released,
              NeedsReconciliation
<1>4. CASE \E now \in Samples : ByCheckpoint(row, new, now) \/ BySchedule(row, new, now)
  <2>1. PICK now \in Samples : ByCheckpoint(row, new, now) \/ BySchedule(row, new, now)
    BY <1>4
  <2>2. row.state = "running" /\ row.lease # NULL /\ ~(row.lease <= now)
    BY <2>1 DEF ByCheckpoint, BySchedule, LeaseExpired
  <2>3. row.lease \in Nat
    BY <2>2 DEF RowInv, Rows
  <2>4. now \in Nat /\ clock \in Nat /\ clock <= now + MaxStaleness
    BY SampleIsPast DEF StoreInv, TypeOK
  <2>5. QED
    BY <2>2, <2>3, <2>4, BoundsAssumption
<1>5. CASE ByUser(row, new)
  <2>1. CASE Resumable(row) /\ new = Resumed(row)
    BY <2>1 DEF RowInv, Rows, Resumed
  <2>2. CASE \E outcome \in Outcomes : new = Resolved(row, outcome)
    <3>1. PICK outcome \in Outcomes : new = Resolved(row, outcome)
      BY <2>2
    <3>2. new.checkpoint = [row.checkpoint EXCEPT !.recon = FALSE, !.unknown = NULL]
      BY <3>1 DEF RowInv, Rows, Resolved, Released
    <3>3. QED
      BY <3>2 DEF RowInv, Rows, Checkpoints
  <2>3. CASE row.state # "absent" /\ new = Cancelled(row)
    BY <2>3 DEF RowInv, Rows, Checkpoints, Cancelled, CancelKeepsUncertain, Released,
                NeedsReconciliation
  <2>4. QED
    BY <1>5, <2>1, <2>2, <2>3 DEF ByUser
<1>6. QED
  BY <1>1, <1>2, <1>3, <1>4, <1>5 DEF RowStep

\* A worker whose lease ran out can still change recorded progress for at most
\* the age of its clock sample, whatever that age is.
THEOREM LateWritesBounded == Spec => LateWritesAreBounded
<1>1. StoreInv /\ FreshInv /\ [Next]_vars =>
        [\A o \in OpIds :
           ops'[o].checkpoint.progress # ops[o].checkpoint.progress =>
             ops[o].state = "running" /\ ops[o].lease + MaxStaleness > clock]_vars
  BY StepByRow, RowOfStore, ProgressRow DEF FreshInv
<1>2. QED
  BY <1>1, StoreInvariant, FreshInvariant, PTL DEF Spec, LateWritesAreBounded

-----------------------------------------------------------------------------
(***************************************************************************)
(* Every operation lives as OperationLife promises.  The transactions are  *)
(* taken one by one, as seen from its row.                                 *)
(***************************************************************************)

Outcome(row) == IF row.state \in Terminal THEN row.state ELSE NULL

\* Fields of the abstract life that a transaction leaves alone.
LifeKept(row, new) ==
  /\ (row.state # "absent") = (new.state # "absent")
  /\ new.worker = row.worker /\ new.cancel = row.cancel
  /\ new.checkpoint.unknown = row.checkpoint.unknown
  /\ new.checkpoint.progress = row.checkpoint.progress
  /\ Outcome(new) = Outcome(row)

LEMMA KeptIsStutter ==
  ASSUME NEW o \in OpIds, LifeKept(ops[o], ops'[o])
  PROVE  [Life(o)!Next]_(Life(o)!vars)
  BY DEF LifeKept, Outcome, Life!vars

LEMMA LifeOfCreate ==
  ASSUME NEW o \in OpIds, ops[o].state = "absent" => ops[o] = EmptyRow,
         ByCreate(ops[o], ops'[o])
  PROVE  Life(o)!Submit
<1>1. /\ ops[o].state = "absent" /\ ops[o] = EmptyRow
      /\ \E kind \in Kinds, now \in Nat :
           ops'[o] = [EmptyRow EXCEPT !.state = "queued", !.kind = kind, !.createdAt = now]
  BY DEF ByCreate
<1>2. PICK kind \in Kinds, now \in Nat :
        ops'[o] = [EmptyRow EXCEPT !.state = "queued", !.kind = kind, !.createdAt = now]
  BY <1>1
<1>3. /\ ops'[o].state = "queued"
      /\ ops'[o].worker = ops[o].worker /\ ops'[o].cancel = ops[o].cancel
      /\ ops'[o].checkpoint = ops[o].checkpoint
  BY <1>1, <1>2 DEF EmptyRow
<1>4. QED
  BY <1>1, <1>3 DEF Life!Submit, Terminal

LEMMA LifeOfClaim ==
  ASSUME NEW o \in OpIds, RowInv(ops[o]), NEW now \in Samples, ByClaim(ops[o], ops'[o], now)
  PROVE  \E w \in Workers : Life(o)!Take(w)
<1>1. PICK w \in Workers : ops'[o] = Claimed(ops[o], w, now)
  BY DEF ByClaim
<1>2. /\ ops'[o].state = "running" /\ ops'[o].worker = w
      /\ ops'[o].cancel = ops[o].cancel /\ ops'[o].checkpoint = ops[o].checkpoint
  BY <1>1 DEF RowInv, Rows, Claimed
<1>3. /\ ~ops[o].cancel
      /\ ops[o].state \in {"queued", "running"} \cup Waiting
  BY DEF ByClaim, Claimable, Due, Abandoned
<1>4. /\ ops[o].state # "absent" /\ ops[o].state \notin Terminal
      /\ ops'[o].state # "absent" /\ ops'[o].state \notin Terminal
  BY <1>2, <1>3 DEF Waiting, Terminal
<1>5. Life(o)!Take(w)
  BY <1>2, <1>3, <1>4 DEF Life!Take, Life!Underway
<1>6. QED
  BY <1>5

LEMMA QuarantinedFields ==
  ASSUME NEW row \in Rows, NEW cp
  PROVE  /\ Quarantined(row, cp).state = "waiting_user"
         /\ Quarantined(row, cp).worker = NULL
         /\ Quarantined(row, cp).cancel = row.cancel
         /\ Quarantined(row, cp).checkpoint = NeedsReconciliation(cp)
  BY DEF Rows, Quarantined, Released

LEMMA LifeOfQuarantine ==
  ASSUME NEW o \in OpIds, RowInv(ops[o]), NEW now \in Samples,
         ByQuarantine(ops[o], ops'[o], now)
  PROVE  Life(o)!Vanish
<1> DEFINE row == ops[o]
<1>1. /\ row.cancel /\ row.state = "running" /\ row.worker # NULL
      /\ ops'[o] = Quarantined(row, row.checkpoint)
  BY DEF RowInv, RowShape, ByQuarantine, UncertainCancelled, Abandoned
<1>2. /\ ops'[o].state = "waiting_user" /\ ops'[o].worker = NULL
      /\ ops'[o].cancel = row.cancel
      /\ ops'[o].checkpoint = NeedsReconciliation(row.checkpoint)
  <2>1. row \in Rows
    BY DEF RowInv
  <2>2. ops'[o] = Quarantined(row, row.checkpoint)
    BY <1>1
  <2> HIDE DEF row
  <2>3. QED
    BY <2>1, <2>2, QuarantinedFields
<1>3. ops[o].checkpoint \in Checkpoints
  BY DEF RowInv, Rows
<1>4. /\ ops'[o].checkpoint.unknown = ops[o].checkpoint.unknown
      /\ ops'[o].checkpoint.progress = ops[o].checkpoint.progress
  BY <1>2, <1>3 DEF Checkpoints, NeedsReconciliation
<1>5. QED
  BY <1>1, <1>2, <1>4 DEF Life!Vanish, Life!LayDown, Terminal

LEMMA LifeOfRenewal ==
  ASSUME NEW o \in OpIds, RowInv(ops[o]), NEW now \in Samples, ByRenewal(ops[o], ops'[o], now)
  PROVE  LifeKept(ops[o], ops'[o])
  BY DEF RowInv, Rows, ByRenewal, Renewed, LifeKept, Outcome

\* What a holder records, whichever method it calls: the row after it, in the terms of
\* the abstract life.
LEMMA LifeOfRecord ==
  ASSUME NEW o \in OpIds, RowInv(ops[o]), ops[o].state = "running",
         NEW cp \in HandlerCheckpoints,
         ops'[o].checkpoint.unknown = cp.unknown, ops'[o].checkpoint.progress = cp.progress,
         ops'[o].state \in States,
         ops'[o].state = "running" => ops'[o].worker = ops[o].worker,
         ops'[o].state # "running" => ops'[o].worker = NULL,
         ~ops[o].cancel => ~ops'[o].cancel,
         ops[o].cancel /\ cp.unknown # NULL => ops'[o].state = "waiting_user" /\ ops'[o].cancel,
         ops[o].cancel /\ cp.unknown = NULL => ops'[o].state \in Terminal /\ ~ops'[o].cancel,
         ops'[o].cancel \in BOOLEAN
  PROVE  Life(o)!Work \/ Life(o)!Stop
<1>1. ops[o].cancel \in BOOLEAN /\ ops[o].worker # NULL /\ "running" \notin Terminal
  BY DEF RowInv, Rows, RowShape, Terminal
<1>2. cp.unknown \in Steps \cup {NULL} /\ cp.progress \in 0..MaxProgress
  BY DEF HandlerCheckpoints, Checkpoints
<1>3. ops'[o].state # "absent"
  BY DEF States, Waiting, Terminal
<1>4. Life(o)!Record
  BY <1>1, <1>2, <1>3 DEF Life!Record, Life!Underway
<1>5. CASE ~ops[o].cancel
  <2>1. CASE ops'[o].state = "running"
    BY <1>1, <1>4, <1>5, <2>1 DEF Life!Work
  <2>2. CASE ops'[o].state # "running"
    BY <1>1, <1>4, <1>5, <2>2 DEF Life!Work, Life!LayDown, Life!Ends, Terminal
  <2>3. QED BY <2>1, <2>2
<1>6. CASE ops[o].cancel /\ cp.unknown # NULL
  <2>1. "waiting_user" \notin Terminal
    BY DEF Terminal
  <2>2. QED
    BY <1>1, <1>4, <1>6, <2>1 DEF Life!Stop, Life!LayDown
<1>7. CASE ops[o].cancel /\ cp.unknown = NULL
  <2>1. ops'[o].state # "running"
    BY <1>1, <1>7
  <2>2. QED
    BY <1>1, <1>4, <1>7, <2>1 DEF Life!Stop, Life!LayDown, Life!Ends, Terminal
<1>8. QED
  BY <1>1, <1>5, <1>6, <1>7

LEMMA LifeOfCheckpoint ==
  ASSUME NEW o \in OpIds, RowInv(ops[o]), NEW now \in Samples,
         ByCheckpoint(ops[o], ops'[o], now)
  PROVE  Life(o)!Work \/ Life(o)!Stop
<1>1. PICK cp \in HandlerCheckpoints, s \in CheckpointStates :
        ops'[o] = Checkpointed(ops[o], cp, s)
  BY DEF ByCheckpoint
<1> DEFINE state == IF ops[o].cancel THEN StateUnderCancel(cp, s) ELSE s
<1>2. /\ ops'[o].state = state
      /\ ops'[o].worker = IF state = "running" THEN ops[o].worker ELSE NULL
      /\ ops'[o].checkpoint = IF ops[o].cancel /\ RequiresReconciliation(cp)
                              THEN NeedsReconciliation(cp) ELSE cp
      /\ ops'[o].cancel = (ops[o].cancel /\ state \notin Terminal)
  BY <1>1, CheckpointedFields DEF RowInv
<1>3. cp \in Checkpoints /\ (RequiresReconciliation(cp) <=> cp.unknown # NULL)
  BY DEF HandlerCheckpoints, Checkpoints, RequiresReconciliation
<1>4. /\ ops'[o].checkpoint.unknown = cp.unknown
      /\ ops'[o].checkpoint.progress = cp.progress
  BY <1>2, <1>3 DEF NeedsReconciliation, Checkpoints
<1>5. /\ state \in States
      /\ ops[o].cancel /\ cp.unknown # NULL => state = "waiting_user" /\ state \notin Terminal
      /\ ops[o].cancel /\ cp.unknown = NULL => state \in Terminal
  BY <1>3 DEF StateUnderCancel, CheckpointStates, States, Terminal
<1>6. ops[o].state = "running" /\ ops[o].cancel \in BOOLEAN
  BY DEF ByCheckpoint, RowInv, Rows
<1>7. QED
  BY <1>2, <1>4, <1>5, <1>6, LifeOfRecord

LEMMA LifeOfSchedule ==
  ASSUME NEW o \in OpIds, RowInv(ops[o]), NEW now \in Samples, BySchedule(ops[o], ops'[o], now)
  PROVE  Life(o)!Work \/ Life(o)!Stop
<1>1. PICK cp \in HandlerCheckpoints, s \in Waiting, next \in Nat :
        ops'[o] = Scheduled(ops[o], cp, s, next)
  BY DEF BySchedule
<1>2. cp \in Checkpoints /\ (RequiresReconciliation(cp) <=> cp.unknown # NULL)
  BY DEF HandlerCheckpoints, Checkpoints, RequiresReconciliation
<1>3. ops[o].state = "running" /\ ops[o].cancel \in BOOLEAN
  BY DEF BySchedule, RowInv, Rows
<1>4. CASE ops[o].cancel /\ cp.unknown # NULL
  <2>1. ops'[o] = Quarantined(ops[o], cp)
    BY <1>1, <1>2, <1>4 DEF Scheduled
  <2>2. /\ ops'[o].state = "waiting_user" /\ ops'[o].worker = NULL
        /\ ops'[o].cancel = ops[o].cancel
        /\ ops'[o].checkpoint.unknown = cp.unknown
        /\ ops'[o].checkpoint.progress = cp.progress
    BY <1>2, <2>1 DEF RowInv, Rows, Checkpoints, Quarantined, Released, NeedsReconciliation
  <2>3. QED
    BY <1>3, <1>4, <2>2, LifeOfRecord DEF States
<1>5. CASE ops[o].cancel /\ cp.unknown = NULL
  <2>1. /\ ops'[o].state = "cancelled" /\ ops'[o].worker = NULL /\ ops'[o].cancel = FALSE
        /\ ops'[o].checkpoint = cp
    BY <1>1, <1>2, <1>5 DEF Scheduled, Released, RowInv, Rows
  <2>2. "cancelled" \in Terminal /\ "cancelled" \in States
    BY DEF Terminal, States
  <2>3. QED
    BY <1>3, <1>5, <2>1, <2>2, LifeOfRecord
<1>6. CASE ~ops[o].cancel
  <2>1. /\ ops'[o].state = s /\ ops'[o].worker = NULL /\ ops'[o].cancel = ops[o].cancel
        /\ ops'[o].checkpoint = cp
    BY <1>1, <1>6 DEF Scheduled, Released, RowInv, Rows
  <2>2. s \in States /\ s # "running"
    BY DEF States, Waiting
  <2>3. QED
    BY <1>3, <1>6, <2>1, <2>2, LifeOfRecord
<1>7. QED
  BY <1>3, <1>4, <1>5, <1>6

LEMMA LifeOfUser ==
  ASSUME NEW o \in OpIds, RowInv(ops[o]), ByUser(ops[o], ops'[o])
  PROVE  Life(o)!Cancel \/ Life(o)!Resolve \/ LifeKept(ops[o], ops'[o])
<1> USE DEF RowInv, Rows, Checkpoints
<1>1. CASE Resumable(ops[o]) /\ ops'[o] = Resumed(ops[o])
  BY <1>1 DEF Resumable, Resumed, LifeKept, Outcome, Terminal
<1>2. ASSUME NEW outcome \in Outcomes, Resolvable(ops[o]), ops'[o] = Resolved(ops[o], outcome)
      PROVE  Life(o)!Resolve
  <2>1. ops[o].state = "waiting_user" /\ ops[o].cancel /\ ops[o].worker = NULL
    BY <1>2 DEF Resolvable, RowShape
  <2>2. /\ ops'[o].state \in {"cancelled", "partial"} /\ ops'[o].worker = NULL
        /\ ops'[o].cancel = FALSE
        /\ ops'[o].checkpoint = [ops[o].checkpoint EXCEPT !.recon = FALSE, !.unknown = NULL]
    BY <1>2 DEF Resolved, Released, Outcomes
  <2>3. ops[o].checkpoint \in Checkpoints
    OBVIOUS
  <2>4. /\ ops'[o].checkpoint.unknown = NULL
        /\ ops'[o].checkpoint.progress = ops[o].checkpoint.progress
    BY <2>2, <2>3
  <2>5. QED
    BY <2>1, <2>2, <2>4 DEF Life!Resolve, Terminal
<1>3. CASE ops[o].state # "absent" /\ Cancellable(ops[o]) /\ ops'[o] = Cancelled(ops[o])
  <2>1. CASE CancelKeepsUncertain(ops[o])
    <3>1. /\ ops[o].state = "waiting_user" /\ ~ops[o].cancel
          /\ ops[o].checkpoint.unknown # NULL
      BY <1>3, <2>1 DEF CancelKeepsUncertain, Cancellable, RequiresReconciliation,
                        QuarantineFlagged
    <3>2. /\ ops'[o].state = "waiting_user" /\ ops'[o].cancel = TRUE
          /\ ops'[o].worker = ops[o].worker
          /\ ops'[o].checkpoint.unknown = ops[o].checkpoint.unknown
          /\ ops'[o].checkpoint.progress = ops[o].checkpoint.progress
      BY <1>3, <2>1, <3>1 DEF Cancelled, NeedsReconciliation
    <3>3. QED
      BY <3>1, <3>2 DEF Life!Cancel, Life!Underway, Terminal
  <2>2. CASE ~CancelKeepsUncertain(ops[o]) /\ ops[o].state = "running"
    <3>1. ops'[o] = [ops[o] EXCEPT !.cancel = TRUE]
      BY <1>3, <2>2 DEF Cancelled
    <3>2. CASE ops[o].cancel
      BY <3>1, <3>2 DEF LifeKept, Outcome
    <3>3. CASE ~ops[o].cancel
      <4>1. ops[o].worker # NULL
        BY <2>2 DEF RowShape
      <4>2. QED
        BY <2>2, <3>1, <3>3, <4>1 DEF Life!Cancel, Life!Underway, Terminal
    <3>4. QED BY <3>2, <3>3
  <2>3. CASE ~CancelKeepsUncertain(ops[o]) /\ ops[o].state # "running"
    <3>1. /\ ops'[o].state = "cancelled" /\ ops'[o].cancel = FALSE /\ ops'[o].worker = NULL
          /\ ops'[o].checkpoint = ops[o].checkpoint
      BY <1>3, <2>3 DEF Cancelled, Released
    <3>2. ~ops[o].cancel /\ ops[o].worker = NULL /\ ops[o].state \notin Terminal
      BY <1>3, <2>3 DEF Cancellable, RowShape
    <3>3. QED
      BY <1>3, <3>1, <3>2 DEF Life!Cancel, Life!Underway, Terminal
  <2>4. QED BY <2>1, <2>2, <2>3
<1>4. QED
  BY <1>1, <1>2, <1>3 DEF ByUser

LEMMA StepLives ==
  ASSUME StoreInv, FreshInv, [Next]_vars, NEW o \in OpIds
  PROVE  [Life(o)!Next]_(Life(o)!vars)
<1>1. RowInv(ops[o]) /\ RowStep(ops[o], ops'[o])
  BY StepByRow, RowOfStore
<1>2. CASE ops'[o] = ops[o]
  BY <1>2, KeptIsStutter DEF LifeKept, Outcome
<1>3. CASE ByCreate(ops[o], ops'[o])
  BY <1>3, LifeOfCreate DEF FreshInv, Life!Next
<1>4. ASSUME NEW now \in Samples, ByClaim(ops[o], ops'[o], now)
      PROVE  Life(o)!Next
  BY <1>1, <1>4, LifeOfClaim DEF Life!Next
<1>5. ASSUME NEW now \in Samples, ByQuarantine(ops[o], ops'[o], now)
      PROVE  Life(o)!Next
  BY <1>1, <1>5, LifeOfQuarantine DEF Life!Next
<1>6. ASSUME NEW now \in Samples, ByRenewal(ops[o], ops'[o], now)
      PROVE  [Life(o)!Next]_(Life(o)!vars)
  BY <1>1, <1>6, LifeOfRenewal, KeptIsStutter
<1>7. ASSUME NEW now \in Samples,
             ByCheckpoint(ops[o], ops'[o], now) \/ BySchedule(ops[o], ops'[o], now)
      PROVE  Life(o)!Next
  BY <1>1, <1>7, LifeOfCheckpoint, LifeOfSchedule DEF Life!Next
<1>8. CASE ByUser(ops[o], ops'[o])
  BY <1>1, <1>8, LifeOfUser, KeptIsStutter DEF Life!Next
<1>9. QED
  BY <1>1, <1>2, <1>3, <1>4, <1>5, <1>6, <1>7, <1>8 DEF RowStep

\* Seen as one operation, the repository does only what OperationLife allows: in
\* whatever order methods are called, a cancellation sticks, only a holder records, a
\* parked operation ends by the user's answer, and an outcome is final.
THEOREM OperationsLiveAsPromised == Spec => LivesAsPromised
<1>1. Init => \A o \in OpIds : Life(o)!Init
  BY DEF Init, EmptyRow, Life!Init, Terminal
<1>2. StoreInv /\ FreshInv /\ [Next]_vars =>
        [\A o \in OpIds : [Life(o)!Next]_(Life(o)!vars)]_vars
  BY StepLives
<1>3. QED
  BY <1>1, <1>2, StoreInvariant, FreshInvariant, PTL DEF Spec, LivesAsPromised

-----------------------------------------------------------------------------
(***************************************************************************)
(* The queue summary agrees with claim_next in every reachable state: the  *)
(* sets its queries select are the sets claim_next chooses from.  Only the *)
(* recovery count needs the invariant of the store: an operation that is   *)
(* cancelled while it waits for the user carries the flag that a           *)
(* resolution demands.                                                     *)
(***************************************************************************)

LEMMA SelectedRows ==
  ASSUME StoreInv, NEW now \in Samples
  PROVE  /\ Eligible(now) = Ready(now, NULL)
         /\ RecoveryRequired(now) = Uncertain(now) \cup {o \in OpIds : Resolvable(ops[o])}
         /\ ExpiredLeases(now) =
              Uncertain(now) \cup {o \in Ready(now, NULL) : ops[o].state = "running"}
<1> USE DEF Rowed, InState, ExpiredLeases
<1>1. Eligible(now) = Ready(now, NULL)
  BY DEF Eligible, Ready, Claimable, Due, Abandoned, LeaseExpired, Waiting
<1>2. RecoveryRequired(now) = Uncertain(now) \cup {o \in OpIds : Resolvable(ops[o])}
  <2>1. \A o \in OpIds : QuarantineFlagged(ops[o])
    BY DEF StoreInv, QuarantineIsResolvable
  <2> QED
    BY <2>1 DEF RecoveryRequired, Uncertain, UncertainCancelled, Abandoned, LeaseExpired,
                Resolvable, QuarantineFlagged
<1>3. ExpiredLeases(now) =
        Uncertain(now) \cup {o \in Ready(now, NULL) : ops[o].state = "running"}
  <2>1. \A o \in OpIds : ops[o].cancel \in BOOLEAN
    BY DEF StoreInv, TypeOK, Rows
  <2>2. \A o \in OpIds :
          o \in ExpiredLeases(now) <=>
            \/ o \in Uncertain(now)
            \/ o \in Ready(now, NULL) /\ ops[o].state = "running"
    BY <2>1 DEF Uncertain, UncertainCancelled, Ready, Claimable, Due, Waiting,
                Abandoned, LeaseExpired
  <2>3. /\ ExpiredLeases(now) \subseteq OpIds
        /\ Uncertain(now) \subseteq OpIds /\ Ready(now, NULL) \subseteq OpIds
    BY DEF Uncertain, Ready
  <2> HIDE DEF ExpiredLeases
  <2> QED BY <2>2, <2>3
<1> QED BY <1>1, <1>2, <1>3

LEMMA DueTimeType ==
  ASSUME TypeOK, NEW o \in OpIds
  PROVE  DueTime(ops[o]) \in Int
<1>1. /\ ops[o].lease \in Nat \cup {NULL}
      /\ ops[o].nextRun \in Nat \cup {NULL}
      /\ ops[o].createdAt \in Nat
  BY DEF TypeOK, Rows
<1> QED BY <1>1 DEF DueTime

\* The minimum is the due time of the operation that comes first.
LEMMA OldestIsFirst ==
  ASSUME TypeOK, NEW rows \in SUBSET OpIds, NEW o \in OpIds, IsFirst(o, rows)
  PROVE  OldestOf(rows) = DueTime(ops[o])
<1> DEFINE due(p) == DueTime(ops[p])
<1>1. o \in rows /\ due(o) \in Int
  BY DueTimeType DEF IsFirst
<1>2. \A p \in rows : due(o) <= due(p)
  <2> TAKE p \in rows
  <2>1. due(p) \in Int
    BY DueTimeType
  <2>2. p = o \/ Before(o, p)
    BY DEF IsFirst
  <2> QED BY <1>1, <2>1, <2>2 DEF Before
<1>3. \A t \in {due(p) : p \in rows} : (\A p \in rows : t <= due(p)) => t = due(o)
  <2> TAKE t \in {due(p) : p \in rows}
  <2> HAVE \A p \in rows : t <= due(p)
  <2>1. t \in Int
    BY DueTimeType
  <2>2. t <= due(o) /\ due(o) <= t
    BY <1>1, <1>2
  <2> HIDE DEF due
  <2> QED BY <1>1, <2>1, <2>2
<1>4. due(o) \in {due(p) : p \in rows} /\ \A p \in rows : due(o) <= due(p)
  BY <1>1, <1>2
<1>5. OldestOf(rows) = CHOOSE t \in {due(p) : p \in rows} : \A p \in rows : t <= due(p)
  BY <1>1 DEF OldestOf
<1> HIDE DEF due
<1>6. OldestOf(rows) = due(o)
  BY <1>3, <1>4, <1>5
<1> QED BY <1>6 DEF due

LEMMA SummaryInState ==
  ASSUME StoreInv
  PROVE  SummaryMatchesClaims
<1> SUFFICES ASSUME NEW now \in Samples
             PROVE  /\ QueueSummary(now).eligible = Cardinality(Ready(now, NULL))
                    /\ \A o \in OpIds : IsFirst(o, Ready(now, NULL)) =>
                         QueueSummary(now).oldest = DueTime(ops[o])
                    /\ QueueSummary(now).recovery =
                         Cardinality(Uncertain(now) \cup {o \in OpIds : Resolvable(ops[o])})
                    /\ QueueSummary(now).expired =
                         Cardinality(Uncertain(now)
                           \cup {o \in Ready(now, NULL) : ops[o].state = "running"})
  BY DEF SummaryMatchesClaims
<1>1. /\ QueueSummary(now).eligible = Cardinality(Eligible(now))
      /\ QueueSummary(now).oldest = OldestOf(Eligible(now))
      /\ QueueSummary(now).recovery = Cardinality(RecoveryRequired(now))
      /\ QueueSummary(now).expired = Cardinality(ExpiredLeases(now))
  BY DEF QueueSummary
<1>2. \A o \in OpIds : IsFirst(o, Ready(now, NULL)) =>
        OldestOf(Ready(now, NULL)) = DueTime(ops[o])
  <2>1. TypeOK /\ Ready(now, NULL) \in SUBSET OpIds
    BY DEF StoreInv, Ready
  <2> QED BY <2>1, OldestIsFirst
<1> QED BY <1>1, <1>2, SelectedRows

\* The dashboard's queue figures and the scheduler never disagree, whatever the
\* operations, workers and clock samples.
THEOREM SummaryCorrect == Spec => []SummaryMatchesClaims
<1>1. StoreInv => SummaryMatchesClaims
  BY SummaryInState
<1> QED BY <1>1, StoreInvariant, PTL
=============================================================================

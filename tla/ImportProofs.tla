---------------------------- MODULE ImportProofs ----------------------------
(***************************************************************************)
(* Imports publish only what a live owner read completely, and an import   *)
(* that is recorded as succeeded is in the library: for any number of      *)
(* workers, pages, changes of the playlist, other snapshots and faults,    *)
(* any retry budget and any staleness of the clock samples.                *)
(*                                                                         *)
(* The invariant has a part for each of the three stores.  The row stays   *)
(* typed, is never in doubt unless it waits for the user, and keeps its    *)
(* counter within the budget until it is finished.  A run holds a          *)
(* checkpoint of such a row, and each control point remembers what led     *)
(* to it.  The library knows which snapshot was observed last.             *)
(***************************************************************************)
EXTENDS ImportExecution, SequenceTheorems, TLAPS

Rows ==
  [state : States, checkpoint : Checkpoints, worker : Workers \cup {NULL},
   lease : Int \cup {NULL}, nextRun : Int \cup {NULL}, cancel : BOOLEAN]

Runs == [at : Points, cp : Checkpoints, read : Contents, whole : BOOLEAN]

\* The counters an operation that is not finished may have.
OpenCounters == StoredAttempts \cup 0..MaxRetryAttempts

\* A checkpoint a handler may hold: not in doubt, its counter within the budget.
Sound(cp) == cp \in Checkpoints /\ ~cp.recon /\ cp.attempts \in OpenCounters

\* The row, apart from what it says of the library.
RowInv(row) ==
  /\ row \in Rows
  /\ row.checkpoint.recon => row.state = "waiting_user"
  /\ row.state \notin Terminal => row.checkpoint.attempts \in OpenCounters

\* A success is recorded only of a published snapshot.
Told(row, published) == row.state = "succeeded" => published

\* Points at which an answer of the provider may still count an attempt.
Counting == {"open", "page", "fetch", "retry", "limited"}

\* What a run holds, given whether the snapshot of this import is published.
RunInv(r, published) ==
  /\ r \in Runs
  /\ Sound(r.cp)
  /\ r.at \in Counting => r.cp.attempts >= 0
  /\ r.at = "publish" => r.whole
  /\ r.at \in {"reread", "complete"} /\ r.whole => published

MinePublished == snapshots[Mine] # NULL

RunsInv ==
  /\ run \in [Workers -> Runs]
  /\ \A w \in Workers : RunInv(run[w], MinePublished)

LibraryInv ==
  /\ snapshots \in [Snapshots -> Contents \cup {NULL}]
  /\ current \in Snapshots \cup {NULL}
  /\ CurrentIsNewest

WorldType == playlist \in 0..MaxChanges /\ faults \in 0..MaxFaults

ImportInv ==
  RowInv(op) /\ Told(op, MinePublished) /\ RunsInv /\ LibraryInv /\ WorldType

LEMMA CountersAreInts == OpenCounters \subseteq Int
<1>1. StoredAttempts \subseteq Int /\ 0..MaxRetryAttempts \subseteq Int
  BY ImportAssumption
<1>2. QED
  BY <1>1 DEF OpenCounters

-----------------------------------------------------------------------------
(* What each transaction does to the row *)

LEMMA CheckpointedRow ==
  ASSUME NEW row, RowInv(row), NEW cp, cp \in Checkpoints, ~cp.recon,
         NEW asked \in Terminal \cup {"waiting_user"},
         asked = "waiting_user" => cp.attempts \in OpenCounters,
         NEW published, asked = "succeeded" => published
  PROVE  /\ RowInv(Checkpointed(row, cp, asked))
         /\ Told(Checkpointed(row, cp, asked), published)
<1> DEFINE state == IF row.cancel THEN StateUnderCancel(cp, asked) ELSE asked
           new == Checkpointed(row, cp, asked)
<1>1. ~RequiresReconciliation(cp)
  BY DEF RequiresReconciliation, Checkpoints
<1>2. /\ state \in Terminal \cup {"waiting_user"}
      /\ state # "running"
      /\ state \notin Terminal => asked = "waiting_user"
      /\ state = "succeeded" => asked = "succeeded"
  BY <1>1 DEF StateUnderCancel, Terminal
<1>3. new = [Released(row) EXCEPT !.state = state, !.checkpoint = cp,
                                  !.cancel = @ /\ state \notin Terminal]
  BY <1>1, <1>2 DEF Checkpointed
<1>4. /\ new \in Rows
      /\ new.state = state
      /\ new.checkpoint = cp
  BY <1>2, <1>3 DEF RowInv, Rows, Released, States
<1> HIDE DEF new
<1>5. RowInv(new) /\ Told(new, published)
  BY <1>2, <1>4 DEF RowInv, Told
<1>6. QED
  BY <1>5 DEF new

LEMMA ScheduledRow ==
  ASSUME NEW row, RowInv(row), NEW cp, Sound(cp), NEW asked \in Waiting,
         NEW next \in Int, NEW published
  PROVE  /\ RowInv(Scheduled(row, cp, asked, next))
         /\ Told(Scheduled(row, cp, asked, next), published)
BY DEF RowInv, Rows, Sound, Scheduled, Quarantined, Released, NeedsReconciliation,
       RequiresReconciliation, Checkpoints, States, Waiting, Terminal, Told

LEMMA QuarantinedRow ==
  ASSUME NEW row, RowInv(row), row.state \notin Terminal, NEW published
  PROVE  /\ RowInv(Quarantined(row, row.checkpoint))
         /\ Told(Quarantined(row, row.checkpoint), published)
BY DEF RowInv, Rows, Quarantined, Released, NeedsReconciliation, Checkpoints, States,
       Terminal, Told

LEMMA ClaimedRow ==
  ASSUME NEW row, RowInv(row), NEW w \in Workers, NEW now \in Int,
         row.state \notin Terminal \cup {"waiting_user"}, NEW published
  PROVE  RowInv(Claimed(row, w, now)) /\ Told(Claimed(row, w, now), published)
<1>1. now + LeaseSeconds \in Int /\ "running" \in States
  BY LeaseAssumption DEF States
<1>2. Claimed(row, w, now) \in Rows
  BY <1>1 DEF RowInv, Rows, Claimed
<1>3. /\ Claimed(row, w, now).state = "running"
      /\ Claimed(row, w, now).checkpoint = row.checkpoint
  BY DEF RowInv, Rows, Claimed
<1>4. QED
  BY <1>2, <1>3 DEF RowInv, Told

LEMMA RenewedRow ==
  ASSUME NEW row, RowInv(row), row.lease # NULL, NEW now \in Int, NEW published,
         Told(row, published)
  PROVE  RowInv(Renewed(row, now)) /\ Told(Renewed(row, now), published)
BY LeaseAssumption DEF RowInv, Rows, Renewed, Told

LEMMA CancelledRow ==
  ASSUME NEW row, RowInv(row), Cancellable(row), NEW published
  PROVE  RowInv(Cancelled(row)) /\ Told(Cancelled(row), published)
BY DEF RowInv, Rows, Cancellable, Cancelled, CancelKeepsUncertain, RequiresReconciliation,
       NeedsReconciliation, Released, Checkpoints, States, Terminal, Told

LEMMA ResumedRow ==
  ASSUME NEW row, RowInv(row), Resumable(row), NEW published
  PROVE  RowInv(Resumed(row)) /\ Told(Resumed(row), published)
BY DEF RowInv, Rows, Resumable, Resumed, States, Terminal, Told

LEMMA ResolvedRow ==
  ASSUME NEW row, RowInv(row), NEW outcome \in Outcomes, NEW published
  PROVE  RowInv(Resolved(row, outcome)) /\ Told(Resolved(row, outcome), published)
BY DEF RowInv, Rows, Resolved, Released, Checkpoints, States, Terminal, Told

-----------------------------------------------------------------------------
(* What each step does to a run, to the library and to both *)

LEMMA IdleRun ==
  ASSUME NEW published
  PROVE  /\ Idle \in Runs
         /\ Idle.at = "idle" /\ Idle.read = <<>> /\ Idle.whole = FALSE
         /\ Idle.cp = [unknown |-> NULL, recon |-> FALSE, attempts |-> 0]
         /\ Sound(Idle.cp)
         /\ RunInv(Idle, published)
<1>1. <<>> \in Contents
  <2>1. <<>> \in [1..0 -> 0..MaxChanges] /\ 0 \in 0..MaxPages
    BY ImportAssumption
  <2> QED BY <2>1 DEF Contents
<1>2. [unknown |-> NULL, recon |-> FALSE, attempts |-> 0] \in Checkpoints
  BY ImportAssumption DEF Checkpoints, Counters
<1>3. Sound([unknown |-> NULL, recon |-> FALSE, attempts |-> 0])
  BY <1>2, ImportAssumption DEF Sound, OpenCounters
<1>4. QED
  BY <1>1, <1>2, <1>3 DEF Idle, Runs, Points, RunInv, Counting

LEMMA PageAdded ==
  ASSUME NEW read \in Contents, Len(read) < MaxPages, NEW page \in 0..MaxChanges
  PROVE  Append(read, page) \in Contents
<1>1. PICK n \in 0..MaxPages : read \in [1..n -> 0..MaxChanges]
  BY DEF Contents
<1>2. read \in Seq(0..MaxChanges) /\ n \in Nat
  <2>1. n \in Nat
    BY ImportAssumption
  <2>2. read \in UNION {[1..m -> 0..MaxChanges] : m \in Nat}
    BY <1>1, <2>1
  <2>3. Seq(0..MaxChanges) = UNION {[1..m -> 0..MaxChanges] : m \in Nat}
    BY SeqDef
  <2> QED BY <2>1, <2>2, <2>3, Zenon
<1>3. Len(read) = n
  BY <1>1, <1>2
<1>4. /\ Append(read, page) \in Seq(0..MaxChanges)
      /\ Len(Append(read, page)) = n + 1
  BY <1>2, <1>3
<1>5. Append(read, page) \in [1..(n + 1) -> 0..MaxChanges]
  BY <1>4, LenProperties
<1>6. n + 1 \in 0..MaxPages
  BY <1>3, ImportAssumption
<1>7. QED
  BY <1>5, <1>6 DEF Contents

LEMMA OnePage ==
  ASSUME NEW page \in 0..MaxChanges
  PROVE  <<page>> \in Contents
<1>1. <<page>> \in [1..1 -> 0..MaxChanges] /\ 1 \in 0..MaxPages
  BY ImportAssumption
<1>2. QED
  BY <1>1 DEF Contents

\* A worker's step replaces its own run, and what is published stays published.
LEMMA OwnRun ==
  ASSUME RunsInv, NEW w \in Workers, NEW r, RunInv(r, MinePublished'),
         run' = [run EXCEPT ![w] = r], MinePublished => MinePublished'
  PROVE  RunsInv'
<1>1. r \in Runs
  BY DEF RunInv
<1>2. run' \in [Workers -> Runs]
  BY <1>1 DEF RunsInv
<1>3. ASSUME NEW v \in Workers PROVE RunInv(run'[v], MinePublished')
  <2>1. CASE v = w
    BY <2>1 DEF RunsInv
  <2>2. CASE v # w
    BY <2>2 DEF RunsInv, RunInv
  <2> QED BY <2>1, <2>2
<1>4. QED
  BY <1>2, <1>3 DEF RunsInv

\* The first publication of a snapshot, and a repetition.
LEMMA PublishInv ==
  ASSUME LibraryInv, NEW s \in Snapshots, NEW content \in Contents, Publish(s, content)
  PROVE  /\ LibraryInv'
         /\ snapshots'[s] # NULL
         /\ \A t \in Published : snapshots'[t] = snapshots[t]
         /\ \A t \in Snapshots \ {s} : snapshots'[t] = snapshots[t]
         /\ current' # current =>
              current = NULL \/ ObservedAt[current'] > ObservedAt[current]
         /\ MinePublished => MinePublished'
<1> USE SnapshotAssumption, ObservedAssumption, ContentAssumption, ImportAssumption
<1>1. CASE snapshots[s] = content
  <2>1. UNCHANGED <<snapshots, current>>
    BY <1>1 DEF Publish, library
  <2> QED BY <1>1, <2>1 DEF LibraryInv, CurrentIsNewest, Published, MinePublished
<1>2. CASE snapshots[s] # content
  <2>1. /\ snapshots[s] = NULL
        /\ snapshots' = [snapshots EXCEPT ![s] = content]
        /\ current' = IF Supersedes(s) THEN s ELSE current
    BY <1>2 DEF Publish, BoundToOther
  <2>2. /\ snapshots' \in [Snapshots -> Contents \cup {NULL}]
        /\ current' \in Snapshots \cup {NULL}
        /\ \A t \in Snapshots \ {s} : snapshots'[t] = snapshots[t]
        /\ snapshots'[s] = content /\ s \notin Published
    BY <2>1 DEF LibraryInv, Published
  <2>3. Published' = Published \cup {s}
    BY <2>2 DEF Published
  <2>4. current # NULL <=> Published # {}
    BY DEF LibraryInv, CurrentIsNewest, Published
  <2>5. CASE Supersedes(s)
    <3>1. current' = s
      BY <2>1, <2>5
    <3>2. \A t \in Published' : ObservedAt[t] <= ObservedAt[s]
      <4> TAKE t \in Published'
      <4>1. CASE t = s
        BY <4>1
      <4>2. CASE t # s
        <5>1. t \in Published /\ t \in Snapshots
          BY <2>3, <4>2 DEF Published
        <5>2. current \in Snapshots /\ ObservedAt[t] <= ObservedAt[current]
          BY <2>4, <5>1 DEF LibraryInv, CurrentIsNewest, Published
        <5> QED BY <2>4, <2>5, <5>1, <5>2 DEF Supersedes
      <4> QED BY <4>1, <4>2
    <3>3. CurrentIsNewest'
      BY <2>3, <3>1, <3>2 DEF CurrentIsNewest
    <3> QED
      BY <2>2, <2>5, <3>1, <3>3 DEF LibraryInv, Published, Supersedes, MinePublished
  <2>6. CASE ~Supersedes(s)
    <3>1. current' = current /\ current # NULL
      BY <2>1, <2>6 DEF Supersedes
    <3>2. /\ current \in Published /\ current \in Snapshots
          /\ \A t \in Published : ObservedAt[t] <= ObservedAt[current]
          /\ ObservedAt[s] <= ObservedAt[current]
      BY <2>4, <2>6, <3>1 DEF LibraryInv, CurrentIsNewest, Supersedes, Published
    <3>3. CurrentIsNewest'
      BY <2>3, <3>1, <3>2 DEF CurrentIsNewest
    <3> QED
      BY <2>2, <3>1, <3>3 DEF LibraryInv, Published, MinePublished
  <2> QED BY <2>5, <2>6
<1>3. QED
  BY <1>1, <1>2

LEMMA LibraryStays ==
  ASSUME LibraryInv, UNCHANGED library
  PROVE  LibraryInv' /\ MinePublished' = MinePublished
BY DEF LibraryInv, library, CurrentIsNewest, Published, MinePublished

-----------------------------------------------------------------------------
(* One step *)

\* What the properties of the library need of one step.
Advances ==
  /\ \A s \in Published : snapshots'[s] = snapshots[s]
  /\ current' # current =>
       current = NULL \/ ObservedAt[current'] > ObservedAt[current]

Authorised ==
  snapshots[Mine] = NULL /\ snapshots'[Mine] # NULL =>
    /\ op.state = "running" /\ op.lease > 0 /\ ~op.cancel
    /\ At(op.worker, "publish") /\ snapshots'[Mine] = run[op.worker].read

OnlyWhole ==
  \A w \in Workers :
    At(w, "publish") /\ snapshots'[Mine] # snapshots[Mine] => run[w].whole

GoodStep == ImportInv' /\ Advances /\ Authorised /\ OnlyWhole

\* A step that leaves the library alone has only the row and the runs to keep.
LEMMA QuietStep ==
  ASSUME ImportInv, UNCHANGED library, RowInv(op'), Told(op', MinePublished), RunsInv',
         WorldType'
  PROVE  GoodStep
<1>1. LibraryInv' /\ MinePublished' = MinePublished
  BY LibraryStays DEF ImportInv
<1>2. ImportInv'
  BY <1>1 DEF ImportInv
<1>3. Advances /\ Authorised /\ OnlyWhole
  BY DEF library, Advances, Authorised, OnlyWhole, Published
<1>4. QED
  BY <1>2, <1>3 DEF GoodStep

\* A worker's step that leaves the library alone.
LEMMA WorkerStepQuiet ==
  ASSUME ImportInv, UNCHANGED <<playlist, library>>, WorldType', NEW w \in Workers,
         NEW r, RunInv(r, MinePublished), run' = [run EXCEPT ![w] = r],
         RowInv(op'), Told(op', MinePublished)
  PROVE  GoodStep
<1>1. MinePublished' = MinePublished
  BY LibraryStays DEF ImportInv, library
<1>2. RunsInv'
  BY <1>1, OwnRun DEF ImportInv
<1>3. QED
  BY <1>2, QuietStep

\* A run that only moves on holds what it held.
LEMMA Moved ==
  ASSUME ImportInv, NEW w \in Workers, NEW point \in Points,
         point \in Counting => run[w].at \in Counting,
         point = "publish" => run[w].whole,
         point = "reread" => ~run[w].whole,
         point = "complete" => run[w].at = "reread"
  PROVE  /\ RunInv([run[w] EXCEPT !.at = point], MinePublished)
         /\ GoTo(w, point) => run' = [run EXCEPT ![w] = [run[w] EXCEPT !.at = point]]
<1>1. RunInv(run[w], MinePublished) /\ run[w] \in Runs
  BY DEF ImportInv, RunsInv
<1>2. RunInv([run[w] EXCEPT !.at = point], MinePublished)
  BY <1>1 DEF RunInv, Runs
<1>3. GoTo(w, point) => run' = [run EXCEPT ![w] = [run[w] EXCEPT !.at = point]]
  BY DEF GoTo
<1>4. QED
  BY <1>2, <1>3

LEMMA LeaveStep ==
  ASSUME ImportInv, NEW w \in Workers, Leave(w), UNCHANGED <<playlist, faults, library>>,
         RowInv(op'), Told(op', MinePublished)
  PROVE  GoodStep
<1>1. WorldType'
  BY DEF ImportInv, WorldType
<1>2. QED
  BY <1>1, IdleRun, WorkerStepQuiet DEF Leave

LEMMA SaveStep ==
  ASSUME ImportInv, NEW w \in Workers, NEW now,
         NEW asked \in Terminal \cup {"waiting_user"}, Save(w, asked, now),
         asked = "succeeded" => MinePublished
  PROVE  GoodStep
<1>1. Sound(run[w].cp)
  BY DEF ImportInv, RunsInv, RunInv
<1>2. RowInv(op') /\ Told(op', MinePublished)
  BY <1>1, CheckpointedRow DEF ImportInv, Save, Sound
<1>3. QED
  BY <1>2, LeaveStep DEF Save

LEMMA RenewStep ==
  ASSUME ImportInv, NEW w \in Workers, NEW now \in Int, NEW next \in Points,
         Renew(w, now, next),
         next \in Counting => run[w].at \in Counting,
         next = "publish" => run[w].whole,
         next = "reread" => ~run[w].whole,
         next # "complete"
  PROVE  GoodStep
<1>1. UNCHANGED <<playlist, library>> /\ WorldType'
  BY DEF Renew, ImportInv, WorldType
<1>2. CASE HoldsLease(op, w, now) /\ ~op.cancel
  <2>1. op' = Renewed(op, now) /\ GoTo(w, next) /\ op.lease # NULL
    BY <1>2 DEF Renew, HoldsLease, LeaseExpired
  <2>2. RowInv(op') /\ Told(op', MinePublished)
    BY <2>1, RenewedRow DEF ImportInv
  <2>3. QED BY <1>1, <2>1, <2>2, Moved, WorkerStepQuiet
<1>3. CASE ~(HoldsLease(op, w, now) /\ ~op.cancel)
  <2>1. op' = op /\ GoTo(w, "conflict")
    BY <1>3 DEF Renew
  <2>2. RowInv(op') /\ Told(op', MinePublished)
    BY <2>1 DEF ImportInv
  <2>3. "conflict" \in Points /\ "conflict" \notin Counting
    BY DEF Points, Counting
  <2>4. QED BY <1>1, <2>1, <2>2, <2>3, Moved, WorkerStepQuiet
<1>4. QED
  BY <1>2, <1>3

\* The attempt that is counted is still within the budget, or the budget is used up.
LEMMA CountedAttempt ==
  ASSUME ImportInv, NEW w \in Workers, run[w].at \in {"retry", "limited"}
  PROVE  LET cp == Retried(run[w].cp)
         IN  /\ cp \in Checkpoints /\ ~cp.recon
             /\ ~Exhausted(cp) => Sound(cp)
<1> DEFINE cp == Retried(run[w].cp)
<1>1. /\ Sound(run[w].cp) /\ run[w].cp.attempts >= 0
      /\ run[w].cp.attempts \in Int
  BY CountersAreInts DEF ImportInv, RunsInv, RunInv, Counting, Sound
<1>2. /\ cp.attempts = run[w].cp.attempts + 1
      /\ cp.attempts \in Counters
      /\ ~Exhausted(cp) => cp.attempts \in OpenCounters
  BY <1>1, ImportAssumption
     DEF Sound, Checkpoints, Retried, OpenCounters, Counters, Exhausted
<1>3. cp \in Checkpoints /\ ~cp.recon
  BY <1>1, <1>2 DEF Sound, Checkpoints, Retried
<1>4. QED
  BY <1>2, <1>3 DEF Sound

LEMMA ScheduleStep ==
  ASSUME ImportInv, NEW w \in Workers, NEW now \in Int, NEW delay \in Int,
         NEW asked \in Waiting, Schedule(w, asked, now, delay),
         run[w].at \in {"retry", "limited"}
  PROVE  GoodStep
<1> DEFINE cp == Retried(run[w].cp)
<1>1. /\ cp \in Checkpoints /\ ~cp.recon
      /\ ~Exhausted(cp) => Sound(cp)
  BY CountedAttempt
<1> HIDE DEF cp
<1>2. RowInv(op') /\ Told(op', MinePublished)
  <2>1. CASE ~HoldsLease(op, w, now)
    BY <2>1 DEF Schedule, ImportInv
  <2>2. CASE HoldsLease(op, w, now) /\ Exhausted(cp)
    <3>1. op' = Checkpointed(op, cp, "failed")
      BY <2>2 DEF Schedule, cp
    <3>2. QED BY <1>1, <3>1, CheckpointedRow DEF ImportInv, Terminal
  <2>3. CASE HoldsLease(op, w, now) /\ ~Exhausted(cp)
    <3>1. op' = Scheduled(op, cp, asked, now + delay) /\ now + delay \in Int
      BY <2>3 DEF Schedule, cp
    <3>2. Sound(cp)
      BY <1>1, <2>3
    <3>3. QED BY <3>1, <3>2, ScheduledRow DEF ImportInv
  <2>4. QED BY <2>1, <2>2, <2>3
<1>3. QED
  BY <1>2, LeaveStep DEF Schedule

-----------------------------------------------------------------------------
(* The actions of a worker *)

LEMMA PollStep ==
  ASSUME ImportInv, NEW w \in Workers, NEW now \in Int, Poll(w, now)
  PROVE  GoodStep
<1>1. UNCHANGED <<playlist, library>> /\ WorldType'
  BY DEF Poll, ImportInv, WorldType
<1>2. CASE /\ UncertainCancelled(op, now)
           /\ op' = Quarantined(op, op.checkpoint) /\ UNCHANGED run
  <2>1. op.state \notin Terminal
    BY <1>2 DEF UncertainCancelled, Abandoned, Terminal
  <2>2. RowInv(op') /\ Told(op', MinePublished)
    BY <1>2, <2>1, QuarantinedRow DEF ImportInv
  <2>3. run' = [run EXCEPT ![w] = run[w]] /\ RunInv(run[w], MinePublished)
    BY <1>2 DEF ImportInv, RunsInv
  <2>4. QED BY <1>1, <2>2, <2>3, WorkerStepQuiet
<1>3. CASE Claimable(op, now) /\ op' = Claimed(op, w, now) /\ GoTo(w, "claimed")
  <2>1. op.state \notin Terminal \cup {"waiting_user"}
    BY <1>3 DEF Claimable, Due, Abandoned, Terminal, Waiting
  <2>2. RowInv(op') /\ Told(op', MinePublished)
    BY <1>3, <2>1, ClaimedRow DEF ImportInv
  <2>3. "claimed" \in Points /\ "claimed" \notin Counting
    BY DEF Points, Counting
  <2>4. QED BY <1>1, <1>3, <2>2, <2>3, Moved, WorkerStepQuiet
<1>4. QED
  BY <1>2, <1>3 DEF Poll

LEMMA LoadStep ==
  ASSUME ImportInv, NEW w \in Workers, Load(w)
  PROVE  GoodStep
<1>1. UNCHANGED <<op, playlist, library>> /\ WorldType'
  BY DEF Load, ImportInv, WorldType
<1>2. RowInv(op') /\ Told(op', MinePublished)
  BY <1>1 DEF ImportInv
<1>3. CASE ~Owns(op, w)
  <2>1. run' = [run EXCEPT ![w] = [Idle EXCEPT !.at = "raised"]]
    BY <1>3 DEF Load
  <2>2. RunInv([Idle EXCEPT !.at = "raised"], MinePublished)
    BY IdleRun DEF RunInv, Runs, Points, Counting
  <2>3. QED BY <1>1, <1>2, <2>1, <2>2, WorkerStepQuiet
<1>4. CASE Owns(op, w)
  <2> DEFINE point == IF op.cancel THEN "declined"
                      ELSE IF op.checkpoint.attempts < 0 THEN "invalid" ELSE "open"
             r == [Idle EXCEPT !.cp = op.checkpoint, !.at = point]
  <2>1. run' = [run EXCEPT ![w] = r]
    BY <1>4 DEF Load
  <2>2. Sound(op.checkpoint) /\ op.checkpoint.attempts \in Int
    BY <1>4, CountersAreInts DEF ImportInv, RowInv, Rows, Owns, Terminal, Sound
  <2>3. /\ point \in Points /\ point \notin {"publish", "reread", "complete"}
        /\ point \in Counting => op.checkpoint.attempts >= 0
    BY <2>2 DEF Points, Counting
  <2>4. r.at = point /\ r.cp = op.checkpoint /\ r \in Runs
    BY <2>2, <2>3, IdleRun DEF Runs, Sound
  <2>5. RunInv(r, MinePublished)
    BY <2>2, <2>3, <2>4 DEF RunInv
  <2>6. QED BY <1>1, <1>2, <2>1, <2>5, WorkerStepQuiet
<1>5. QED
  BY <1>3, <1>4

\* What is read is a sequence of versions; a result is whole only where it is
\* collected.
LEMMA FetchStep ==
  ASSUME ImportInv, NEW w \in Workers, Fetch(w)
  PROVE  GoodStep
<1>1. UNCHANGED <<op, playlist, library>> /\ WorldType'
  BY DEF Fetch, ImportInv, WorldType
<1>2. RowInv(op') /\ Told(op', MinePublished)
  BY <1>1 DEF ImportInv
<1>3. run[w].at = "fetch" /\ RunInv(run[w], MinePublished) /\ run[w] \in Runs
  BY DEF Fetch, At, ImportInv, RunsInv, RunInv
<1>4. ASSUME Len(run[w].read) < MaxPages,
             run' = [run EXCEPT ![w].read = Append(@, playlist), ![w].at = "page"]
      PROVE  GoodStep
  <2> DEFINE r == [run[w] EXCEPT !.read = Append(@, playlist), !.at = "page"]
  <2>1. run' = [run EXCEPT ![w] = r]
    BY <1>4
  <2>2. Append(run[w].read, playlist) \in Contents
    BY <1>3, <1>4, PageAdded DEF Runs, ImportInv, WorldType
  <2>3. RunInv(r, MinePublished)
    BY <1>3, <2>2 DEF RunInv, Runs, Points, Counting
  <2>4. QED BY <1>1, <1>2, <2>1, <2>3, WorkerStepQuiet
<1>5. ASSUME NEW whole \in {FALSE, run[w].read # <<>>},
             run' = [run EXCEPT ![w].whole = whole, ![w].at = "collected"]
      PROVE  GoodStep
  <2> DEFINE r == [run[w] EXCEPT !.whole = whole, !.at = "collected"]
  <2>1. run' = [run EXCEPT ![w] = r]
    BY <1>5
  <2>2. RunInv(r, MinePublished)
    BY <1>3 DEF RunInv, Runs, Points, Counting
  <2>3. QED BY <1>1, <1>2, <2>1, <2>2, WorkerStepQuiet
<1>6. ASSUME NEW failure \in {"wait", "retry", "limited", "broken"}, GoTo(w, failure)
      PROVE  GoodStep
  <2>1. /\ failure \in Points /\ run[w].at \in Counting
        /\ failure \notin {"publish", "reread", "complete"}
    BY <1>3 DEF Points, Counting
  <2>2. QED BY <1>1, <1>2, <1>6, <2>1, Moved, WorkerStepQuiet
<1>7. QED
  BY <1>4, <1>5, <1>6 DEF Fetch

LEMMA PublishMineStep ==
  ASSUME ImportInv, NEW w \in Workers, PublishMine(w)
  PROVE  GoodStep
<1>1. UNCHANGED <<op, playlist>> /\ WorldType' /\ RowInv(op')
  BY DEF PublishMine, ImportInv, WorldType
<1>2. run[w].at = "publish" /\ RunInv(run[w], MinePublished) /\ run[w].read \in Contents
  BY DEF PublishMine, At, ImportInv, RunsInv, RunInv, Runs
<1>3. ASSUME NEW point \in {"conflict", "broken"}, GoTo(w, point), UNCHANGED library
      PROVE  GoodStep
  <2>1. /\ point \in Points /\ point \notin Counting
        /\ point \notin {"publish", "reread", "complete"}
    BY DEF Points, Counting
  <2>2. Told(op', MinePublished)
    BY <1>1 DEF ImportInv
  <2>3. QED BY <1>1, <1>3, <2>1, <2>2, Moved, WorkerStepQuiet
<1>4. ASSUME MayPublish(w), Publish(Mine, run[w].read), GoTo(w, "reread")
      PROVE  GoodStep
  <2>1. /\ LibraryInv' /\ snapshots'[Mine] # NULL
        /\ \A s \in Published : snapshots'[s] = snapshots[s]
        /\ current' # current =>
             current = NULL \/ ObservedAt[current'] > ObservedAt[current]
        /\ MinePublished => MinePublished'
    BY <1>2, <1>4, PublishInv, ImportAssumption DEF ImportInv
  <2>2. MinePublished'
    BY <2>1 DEF MinePublished
  <2>3. RunsInv'
    <3> DEFINE r == [run[w] EXCEPT !.at = "reread"]
    <3>1. RunInv(r, MinePublished')
      BY <1>2, <2>2 DEF RunInv, Runs, Points, Counting
    <3>2. run' = [run EXCEPT ![w] = r]
      BY <1>4 DEF GoTo
    <3>3. QED BY <2>2, <3>1, <3>2, OwnRun DEF ImportInv
  <2>4. ImportInv'
    BY <1>1, <2>1, <2>2, <2>3 DEF ImportInv, Told
  <2>5. Advances
    BY <2>1 DEF Advances
  <2>6. Authorised
    <3>1. ASSUME snapshots[Mine] = NULL
          PROVE  snapshots'[Mine] = run[w].read
      <4>1. snapshots[Mine] # run[w].read
        BY <1>2, <3>1, ContentAssumption
      <4>2. snapshots' = [snapshots EXCEPT ![Mine] = run[w].read]
        BY <1>4, <4>1 DEF Publish
      <4>3. QED BY <4>2, ImportAssumption DEF ImportInv, LibraryInv
    <3>2. /\ op.state = "running" /\ op.worker = w /\ ~op.cancel
          /\ op.lease # NULL /\ ~(op.lease <= 0) /\ op.lease \in Int
      BY <1>4 DEF MayPublish, HoldsLease, Owns, LeaseExpired, ImportInv, RowInv, Rows
    <3>3. op.lease > 0
      BY <3>2
    <3>4. QED BY <1>2, <3>1, <3>2, <3>3 DEF Authorised, At
  <2>7. OnlyWhole
    BY DEF OnlyWhole, At, ImportInv, RunsInv, RunInv
  <2>8. QED BY <2>4, <2>5, <2>6, <2>7 DEF GoodStep
<1>5. QED
  BY <1>3, <1>4 DEF PublishMine

LEMMA RescueStep ==
  ASSUME ImportInv, NEW w \in Workers, Rescue(w)
  PROVE  GoodStep
<1>1. UNCHANGED <<op, playlist, library>> /\ WorldType'
  BY DEF Rescue, ImportInv, WorldType
<1>2. RowInv(op') /\ Told(op', MinePublished)
  BY <1>1 DEF ImportInv
<1>3. CASE ~Owns(op, w)
  <2>1. run' = [run EXCEPT ![w] = [Idle EXCEPT !.at = "stopped"]]
    BY <1>3 DEF Rescue
  <2>2. RunInv([Idle EXCEPT !.at = "stopped"], MinePublished)
    BY IdleRun DEF RunInv, Runs, Points, Counting
  <2>3. QED BY <1>1, <1>2, <2>1, <2>2, WorkerStepQuiet
<1>4. CASE Owns(op, w)
  <2> DEFINE r == [Idle EXCEPT !.at = "failing", !.cp = op.checkpoint]
  <2>1. run' = [run EXCEPT ![w] = r]
    BY <1>4 DEF Rescue
  <2>2. Sound(op.checkpoint)
    BY <1>4 DEF ImportInv, RowInv, Rows, Owns, Terminal, Sound
  <2>3. RunInv(r, MinePublished)
    BY <2>2, IdleRun DEF RunInv, Runs, Points, Counting, Sound
  <2>4. QED BY <1>1, <1>2, <2>1, <2>3, WorkerStepQuiet
<1>5. QED
  BY <1>3, <1>4

LEMMA SaveAtDispatchStep ==
  ASSUME ImportInv, NEW w \in Workers, NEW asked \in {"cancelled", "failed"},
         SaveAtDispatch(w, asked)
  PROVE  GoodStep
<1>1. Sound(run[w].cp)
  BY DEF ImportInv, RunsInv, RunInv
<1>2. RowInv(op') /\ Told(op', MinePublished)
  BY <1>1, CheckpointedRow DEF ImportInv, SaveAtDispatch, Sound, Terminal
<1>3. QED
  BY <1>2, LeaveStep DEF SaveAtDispatch

\* The first renewal moves its run on and changes nothing else.
LEMMA OpenStep ==
  ASSUME ImportInv, NEW w \in Workers, Open(w)
  PROVE  GoodStep
<1>1. /\ UNCHANGED <<op, playlist, library>>
      /\ WorldType' /\ RowInv(op') /\ Told(op', MinePublished)
  BY DEF Open, ImportInv, WorldType
<1>2. PICK point \in {"page", "conflict"} : GoTo(w, point)
  BY DEF Open
<1>3. point \in Points /\ (point \in Counting => run[w].at \in Counting)
  BY DEF Open, At, Points, Counting
<1>4. QED
  BY <1>1, <1>2, <1>3, Moved, WorkerStepQuiet

-----------------------------------------------------------------------------
(* Every step, and the theorems *)

LEMMA InitImport == Init => ImportInv
<1> SUFFICES ASSUME Init PROVE ImportInv
  OBVIOUS
<1>1. RowInv(op) /\ Told(op, MinePublished)
  BY DEF Init, RowInv, Rows, States, Terminal, Checkpoints, Counters, OpenCounters, Told
<1>2. RunsInv
  BY IdleRun DEF Init, RunsInv
<1>3. LibraryInv
  BY SnapshotAssumption
     DEF Init, EmptyLibrary, LibraryInv, CurrentIsNewest, Published
<1>4. WorldType
  BY ImportAssumption DEF Init, WorldType
<1>5. QED
  BY <1>1, <1>2, <1>3, <1>4 DEF ImportInv

LEMMA WorkerStepGood ==
  ASSUME ImportInv, NEW w \in Workers, WorkerStep(w)
  PROVE  GoodStep
<1>1. ASSUME NEW now \in Int, Poll(w, now) PROVE GoodStep
  BY <1>1, PollStep
<1>2. CASE Open(w)
  BY <1>2, OpenStep
<1>3. ASSUME NEW now \in Int, BeforePage(w, now) PROVE GoodStep
  BY <1>3, RenewStep DEF BeforePage, At, Points, Counting
<1>4. ASSUME NEW now \in Int, Collected(w, now) PROVE GoodStep
  <2>1. /\ UNCHANGED <<op, playlist, library>>
        /\ WorldType' /\ RowInv(op') /\ Told(op', MinePublished)
    BY <1>4 DEF Collected, ImportInv, WorldType
  <2>2. PICK point \in {"cancel", "renew"} : GoTo(w, point)
    BY <1>4 DEF Collected
  <2>3. point \in Points /\ point \notin Counting
    BY DEF Points, Counting
  <2>4. QED BY <2>1, <2>2, <2>3, Moved, WorkerStepQuiet
<1>5. ASSUME NEW now \in Int, RenewForPublication(w, now) PROVE GoodStep
  <2> DEFINE next == IF run[w].whole THEN "publish" ELSE "reread"
  <2>1. next \in Points /\ next \notin Counting /\ Renew(w, now, next)
    BY <1>5 DEF RenewForPublication, Points, Counting
  <2>2. QED BY <2>1, RenewStep
<1>6. ASSUME NEW now \in Int, Conflict(w, now) PROVE GoodStep
  <2>1. /\ UNCHANGED <<op, playlist, faults, library>>
        /\ WorldType' /\ RowInv(op') /\ Told(op', MinePublished)
    BY <1>6 DEF Conflict, ImportInv, WorldType
  <2>2. CASE GoTo(w, "cancel")
    <3>1. "cancel" \in Points /\ "cancel" \notin Counting
      BY DEF Points, Counting
    <3>2. QED BY <2>1, <2>2, <3>1, Moved, WorkerStepQuiet
  <2>3. CASE Leave(w)
    BY <2>1, <2>3, LeaveStep
  <2>4. QED BY <1>6, <2>2, <2>3 DEF Conflict
<1>7. ASSUME NEW now \in Int, Complete(w, now) PROVE GoodStep
  <2>1. run[w].at = "complete" /\ RunInv(run[w], MinePublished)
    BY <1>7 DEF Complete, At, ImportInv, RunsInv
  <2>2. run[w].whole => MinePublished
    BY <2>1 DEF RunInv
  <2>3. QED BY <1>7, <2>2, SaveStep DEF Complete, Terminal
<1>8. ASSUME NEW now \in Int,
             SaveCancelled(w, now) \/ WaitForUser(w, now) \/ FailImport(w, now)
      PROVE  GoodStep
  BY <1>8, SaveStep DEF SaveCancelled, WaitForUser, FailImport, Terminal
<1>9. ASSUME NEW now \in Int, ScheduleRetry(w, now) PROVE GoodStep
  BY <1>9, ScheduleStep, ImportAssumption DEF ScheduleRetry, At, Waiting
<1>10. ASSUME NEW now \in Int, NEW delay \in {RetryDelay} \cup 1..MaxDelay,
              ScheduleRateLimit(w, now, delay)
       PROVE  GoodStep
  <2>1. delay \in Int
    BY ImportAssumption
  <2>2. QED BY <1>10, <2>1, ScheduleStep DEF ScheduleRateLimit, At, Waiting
<1>11. CASE Load(w)
  BY <1>11, LoadStep
<1>12. CASE Fetch(w)
  BY <1>12, FetchStep
<1>13. CASE PublishMine(w)
  BY <1>13, PublishMineStep
<1>14. CASE Reread(w)
  <2>1. /\ UNCHANGED <<op, playlist, library>>
        /\ WorldType' /\ RowInv(op') /\ Told(op', MinePublished)
    BY <1>14 DEF Reread, ImportInv, WorldType
  <2>2. run[w].at = "reread" /\ GoTo(w, "complete")
    BY <1>14 DEF Reread, At
  <2>3. "complete" \in Points /\ "complete" \notin Counting
    BY DEF Points, Counting
  <2>4. QED BY <2>1, <2>2, <2>3, Moved, WorkerStepQuiet
<1>15. CASE Rescue(w)
  BY <1>15, RescueStep
<1>16. CASE SaveDeclined(w) \/ SaveInvalid(w) \/ Fail(w)
  BY <1>16, SaveAtDispatchStep DEF SaveDeclined, SaveInvalid, Fail
<1>17. Samples \subseteq Int
  BY ImportAssumption DEF Samples
<1>18. QED
  BY <1>1, <1>2, <1>3, <1>4, <1>5, <1>6, <1>7, <1>8, <1>9, <1>10, <1>11, <1>12, <1>13,
     <1>14, <1>15, <1>16, <1>17
  DEF WorkerStep

LEMMA FaultStep ==
  ASSUME ImportInv, NEW w \in Workers, Crash(w) \/ Restart(w) \/ StoreError(w)
  PROVE  GoodStep
<1>1. /\ UNCHANGED <<op, playlist, library>>
      /\ WorldType' /\ RowInv(op') /\ Told(op', MinePublished)
  BY ImportAssumption DEF Crash, Restart, StoreError, Fault, ImportInv, WorldType
<1>2. CASE Crash(w)
  <2>1. run' = [run EXCEPT ![w] = [Idle EXCEPT !.at = "down"]]
    BY <1>2 DEF Crash
  <2>2. RunInv([Idle EXCEPT !.at = "down"], MinePublished)
    BY IdleRun DEF RunInv, Runs, Points, Counting
  <2>3. QED BY <1>1, <2>1, <2>2, WorkerStepQuiet
<1>3. CASE Restart(w)
  BY <1>1, <1>3, LeaveStep DEF Restart
<1>4. CASE StoreError(w)
  <2>1. PICK point \in {"broken", "stopped", "raised"} : GoTo(w, point)
    BY <1>4 DEF StoreError, GoTo
  <2>2. point \in Points /\ point \notin Counting
    BY DEF Points, Counting
  <2>3. QED BY <1>1, <2>1, <2>2, Moved, WorkerStepQuiet
<1>5. QED
  BY <1>2, <1>3, <1>4

LEMMA PublishOtherStep ==
  ASSUME ImportInv, NEW s \in Snapshots, PublishOther(s)
  PROVE  GoodStep
<1>1. /\ LibraryInv'
      /\ \A t \in Published : snapshots'[t] = snapshots[t]
      /\ \A t \in Snapshots \ {s} : snapshots'[t] = snapshots[t]
      /\ current' # current =>
           current = NULL \/ ObservedAt[current'] > ObservedAt[current]
  BY OnePage, PublishInv DEF ImportInv, WorldType, PublishOther
<1>2. snapshots'[Mine] = snapshots[Mine] /\ MinePublished' = MinePublished
  BY <1>1, ImportAssumption DEF PublishOther, MinePublished
<1>3. ImportInv'
  BY <1>1, <1>2 DEF PublishOther, ImportInv, RunsInv, WorldType
<1>4. Advances /\ Authorised /\ OnlyWhole
  BY <1>1, <1>2 DEF Advances, Authorised, OnlyWhole
<1>5. QED
  BY <1>3, <1>4 DEF GoodStep

LEMMA TickStep ==
  ASSUME ImportInv, Tick
  PROVE  GoodStep
<1>1. UNCHANGED library /\ RunsInv'
  <2>1. UNCHANGED library /\ UNCHANGED run
    BY DEF Tick
  <2>2. MinePublished' = MinePublished
    BY <2>1, LibraryStays DEF ImportInv
  <2>3. QED BY <2>1, <2>2 DEF ImportInv, RunsInv
<1>2. WorldType'
  BY ImportAssumption DEF Tick, Fault, ImportInv, WorldType
<1>3. RowInv(op') /\ Told(op', MinePublished)
  <2>1. \A t \in Int \cup {NULL} : Aged(t) \in Int \cup {NULL}
    BY ImportAssumption DEF Aged
  <2>2. op' = [op EXCEPT !.lease = Aged(op.lease), !.nextRun = Aged(op.nextRun)]
    BY DEF Tick
  <2>3. /\ op' \in Rows
        /\ op'.state = op.state /\ op'.checkpoint = op.checkpoint
    BY <2>1, <2>2 DEF ImportInv, RowInv, Rows
  <2>4. QED BY <2>3 DEF ImportInv, RowInv, Told
<1>4. QED
  BY <1>1, <1>2, <1>3, QuietStep

LEMMA StepGood ==
  ASSUME ImportInv, [Next]_vars
  PROVE  GoodStep
<1>1. ASSUME UNCHANGED <<run, playlist, faults, library>>,
             RowInv(op'), Told(op', MinePublished)
      PROVE  GoodStep
  <2>1. MinePublished' = MinePublished
    BY <1>1, LibraryStays DEF ImportInv
  <2>2. RunsInv' /\ WorldType'
    BY <1>1, <2>1 DEF ImportInv, RunsInv, WorldType
  <2>3. QED BY <1>1, <2>2, QuietStep
<1>2. CASE \E w \in Workers : WorkerStep(w) \/ Crash(w) \/ Restart(w) \/ StoreError(w)
  BY <1>2, WorkerStepGood, FaultStep
<1>3. CASE Cancel
  BY <1>1, <1>3, CancelledRow DEF Cancel, ImportInv
<1>4. CASE Resume
  BY <1>1, <1>4, ResumedRow DEF Resume, ImportInv
<1>5. ASSUME NEW outcome \in Outcomes, ResolveCancelledOutcome(outcome) PROVE GoodStep
  BY <1>1, <1>5, ResolvedRow DEF ResolveCancelledOutcome, ImportInv
<1>6. ASSUME NEW s \in Snapshots, PublishOther(s) PROVE GoodStep
  BY <1>6, PublishOtherStep
<1>7. CASE ChangePlaylist
  <2>1. UNCHANGED <<op, run, faults, library>> /\ WorldType'
    BY <1>7, ImportAssumption DEF ChangePlaylist, ImportInv, WorldType
  <2>2. MinePublished' = MinePublished
    BY <2>1, LibraryStays DEF ImportInv
  <2>3. RunsInv' /\ RowInv(op') /\ Told(op', MinePublished)
    BY <2>1, <2>2 DEF ImportInv, RunsInv
  <2>4. QED BY <2>1, <2>3, QuietStep
<1>8. CASE Tick
  BY <1>8, TickStep
<1>9. CASE UNCHANGED vars
  BY <1>1, <1>9 DEF vars, ImportInv
<1>10. QED
  BY <1>2, <1>3, <1>4, <1>5, <1>6, <1>7, <1>8, <1>9 DEF Next

LEMMA ImportInvariant == Spec => []ImportInv
<1>1. ImportInv /\ [Next]_vars => ImportInv'
  BY StepGood DEF GoodStep
<1>2. QED
  BY <1>1, InitImport, PTL DEF Spec

\* The row, the runs and the library keep their shapes, and the retry counter of
\* an import never goes more than one beyond its budget or what was stored.
THEOREM ImportTypeCorrect == Spec => []TypeOK
<1>1. ImportInv => TypeOK
  BY DEF ImportInv, RowInv, RunsInv, LibraryInv, WorldType, Rows, Runs, TypeOK
<1>2. QED
  BY <1>1, ImportInvariant, PTL

\* Whatever the order of publications, the current snapshot was observed last.
THEOREM CurrentSnapshotIsNewest == Spec => []CurrentIsNewest
<1>1. ImportInv => CurrentIsNewest
  BY DEF ImportInv, LibraryInv
<1>2. QED
  BY <1>1, ImportInvariant, PTL

\* A success that is recorded is true of the library, then and ever after.
THEOREM SuccessIsPublished == Spec => []SucceededMeansPublished
<1>1. ASSUME ImportInv PROVE SucceededMeansPublished
  <2> SUFFICES ASSUME op.state = "succeeded"
               PROVE  snapshots[Mine] # NULL /\ ObservedAt[current] >= ObservedAt[Mine]
    BY DEF SucceededMeansPublished
  <2>1. snapshots[Mine] # NULL
    BY <1>1 DEF ImportInv, Told, MinePublished
  <2>2. Mine \in Published
    BY <2>1, ImportAssumption DEF Published
  <2>3. current \in Snapshots /\ ObservedAt[Mine] <= ObservedAt[current]
    BY <1>1, <2>2 DEF ImportInv, LibraryInv, CurrentIsNewest, Published
  <2>4. ObservedAt[Mine] \in Int /\ ObservedAt[current] \in Int
    BY <2>3, ImportAssumption, ObservedAssumption
  <2>5. QED BY <2>1, <2>3, <2>4
<1>2. QED
  BY <1>1, ImportInvariant, PTL

\* A published snapshot is never bound again and the library never goes back.
THEOREM LibraryNeverGoesBack == Spec => LibraryOnlyAdvances
<1>1. ImportInv /\ [Next]_vars => [Advances]_library
  BY StepGood DEF GoodStep
<1>2. QED
  BY <1>1, ImportInvariant, PTL DEF Spec, LibraryOnlyAdvances, Advances

\* Only the owner under a lease that is live at that moment publishes.
THEOREM OnlyOwnerPublishes == Spec => PublicationNeedsAuthority
<1>1. ImportInv /\ [Next]_vars => [Authorised]_vars
  BY StepGood DEF GoodStep
<1>2. QED
  BY <1>1, ImportInvariant, PTL DEF Spec, PublicationNeedsAuthority, Authorised

\* No worker publishes a reading the collector called incomplete.
THEOREM NothingPartialIsPublished == Spec => OnlyWholeReadingsArePublished
<1>1. ImportInv /\ [Next]_vars => [OnlyWhole]_vars
  BY StepGood DEF GoodStep
<1>2. QED
  BY <1>1, ImportInvariant, PTL DEF Spec, OnlyWholeReadingsArePublished, OnlyWhole

-----------------------------------------------------------------------------
(***************************************************************************)
(* The contract of an import.  Beside the invariant it needs to know where *)
(* a pending cancellation may be: only in a row that is worked on or that  *)
(* waits for the user, and behind every run that is about to record one    *)
(* in a row of its own.                                                    *)
(***************************************************************************)

Busy(row) == row.state = "running"

Outcome(row) == IF row.state \in Terminal THEN row.state ELSE NULL

AskedShape(row) ==
  /\ row.cancel => row.state \in {"running", "waiting_user"}
  /\ row.checkpoint.recon => row.cancel

\* The points at which a run is about to record a cancellation.
Cancels == {"cancel", "declined"}

USE DEF Cancels

\* A run that is about to record a cancellation has seen one, or lost the row.
AskedInv ==
  /\ AskedShape(op)
  /\ \A w \in Workers : run[w].at \in Cancels => (op.worker = w => op.cancel)

\* One transaction, in the terms of the contract.
RowKept(row, new) ==
  /\ Busy(new) = Busy(row) /\ new.cancel = row.cancel
  /\ Outcome(new) = Outcome(row)

RowStarts(row, new) ==
  /\ row.state \notin Terminal /\ ~Busy(row) /\ ~row.cancel
  /\ Busy(new) /\ ~new.cancel

RowPauses(row, new) ==
  /\ Busy(row) /\ ~Busy(new) /\ new.state \notin Terminal
  /\ new.cancel = row.cancel

RowIsAsked(row, new) ==
  /\ row.state \notin Terminal /\ ~row.cancel
  /\ \/ Busy(row) /\ Busy(new) /\ new.cancel
     \/ ~Busy(row) /\ new.state = "cancelled" /\ ~new.cancel

RowEnds(row, new, published) ==
  /\ Busy(row) /\ new.state \in Terminal /\ ~new.cancel
  /\ new.state = "succeeded" => published
  /\ new.state = "cancelled" => row.cancel

RowIsResolved(row, new, published) ==
  /\ row.state = "waiting_user" /\ row.cancel /\ ~new.cancel
  /\ new.state = IF published THEN "partial" ELSE "cancelled"

RowMoves(row, new, published) ==
  \/ RowKept(row, new) \/ RowStarts(row, new) \/ RowPauses(row, new)
  \/ RowIsAsked(row, new) \/ RowEnds(row, new, published)
  \/ RowIsResolved(row, new, published)

\* Whoever owns the row afterwards owned it before, and knows no less.
OwnerKept(row, new) ==
  new.worker # NULL => new.worker = row.worker /\ (row.cancel => new.cancel)

RowPromise(row, new, published) ==
  RowMoves(row, new, published) /\ AskedShape(new) /\ OwnerKept(row, new)

LEMMA CheckpointedPromise ==
  ASSUME NEW row, RowInv(row), row.state = "running", NEW cp, cp \in Checkpoints, ~cp.recon,
         NEW asked \in Terminal \cup {"waiting_user"}, NEW published,
         asked = "succeeded" => published,
         asked = "cancelled" => row.cancel
  PROVE  RowPromise(row, Checkpointed(row, cp, asked), published)
<1> DEFINE state == IF row.cancel THEN StateUnderCancel(cp, asked) ELSE asked
           new   == Checkpointed(row, cp, asked)
<1>1. ~RequiresReconciliation(cp)
  BY DEF Checkpoints, RequiresReconciliation
<1>2. /\ state \in Terminal \cup {"waiting_user"}
      /\ row.cancel => state \in Terminal
      /\ state = "succeeded" => published
      /\ state = "cancelled" => row.cancel
      /\ state # "running"
  BY <1>1 DEF StateUnderCancel, Terminal
<1>3. /\ new.state = state /\ new.worker = NULL /\ new.checkpoint = cp
      /\ new.cancel = (row.cancel /\ state \notin Terminal)
  BY <1>1, <1>2 DEF Checkpointed, Released, RowInv, Rows
<1>4. row.cancel \in BOOLEAN
  BY DEF RowInv, Rows
<1> HIDE DEF state, new
<1>5. AskedShape(new) /\ OwnerKept(row, new)
  BY <1>2, <1>3 DEF AskedShape, OwnerKept
<1>6. RowMoves(row, new, published)
  <2>1. CASE state \in Terminal
    BY <1>2, <1>3, <2>1 DEF RowMoves, RowEnds, Busy
  <2>2. CASE state \notin Terminal
    BY <1>2, <1>3, <1>4, <2>2 DEF RowMoves, RowPauses, Busy
  <2>3. QED BY <2>1, <2>2
<1>7. QED
  BY <1>5, <1>6 DEF RowPromise, new

LEMMA ScheduledPromise ==
  ASSUME NEW row, RowInv(row), row.state = "running", NEW cp, Sound(cp), NEW asked \in Waiting,
         NEW next \in Int, NEW published
  PROVE  RowPromise(row, Scheduled(row, cp, asked, next), published)
<1> DEFINE new == Scheduled(row, cp, asked, next)
<1>1. ~RequiresReconciliation(cp) /\ ~cp.recon
  BY DEF Sound, Checkpoints, RequiresReconciliation
<1>2. row \in Rows /\ row.cancel \in BOOLEAN
  BY DEF RowInv, Rows
<1>3. CASE row.cancel
  <2>1. new.state = "cancelled" /\ new.worker = NULL /\ new.checkpoint = cp /\ new.cancel = FALSE
    BY <1>1, <1>2, <1>3 DEF Scheduled, Released, Rows
  <2> HIDE DEF new
  <2>2. AskedShape(new) /\ OwnerKept(row, new) /\ RowEnds(row, new, published)
    BY <1>1, <1>3, <2>1 DEF AskedShape, OwnerKept, RowEnds, Busy, Terminal
  <2>3. QED BY <2>2 DEF RowPromise, RowMoves, new
<1>4. CASE ~row.cancel
  <2>1. new.state = asked /\ new.worker = NULL /\ new.checkpoint = cp /\ new.cancel = row.cancel
    BY <1>1, <1>2, <1>4 DEF Scheduled, Released, Rows
  <2> HIDE DEF new
  <2>2. AskedShape(new) /\ OwnerKept(row, new) /\ RowPauses(row, new)
    BY <1>1, <1>4, <2>1 DEF AskedShape, OwnerKept, RowPauses, Busy, Terminal, Waiting
  <2>3. QED BY <2>2 DEF RowPromise, RowMoves, new
<1>5. QED
  BY <1>2, <1>3, <1>4

LEMMA QuarantinedPromise ==
  ASSUME NEW row, RowInv(row), row.state = "running", row.cancel, NEW published
  PROVE  RowPromise(row, Quarantined(row, row.checkpoint), published)
<1> DEFINE new == Quarantined(row, row.checkpoint)
<1>1. new.state = "waiting_user" /\ new.worker = NULL /\ new.cancel = row.cancel
  BY DEF RowInv, Rows, Quarantined, Released
<1> HIDE DEF new
<1>2. AskedShape(new) /\ OwnerKept(row, new) /\ RowPauses(row, new)
  BY <1>1 DEF AskedShape, OwnerKept, RowPauses, Busy, Terminal
<1>3. QED
  BY <1>2 DEF RowPromise, RowMoves, new

LEMMA RenewedPromise ==
  ASSUME NEW row, RowInv(row), AskedShape(row), NEW now, NEW published
  PROVE  RowPromise(row, Renewed(row, now), published)
<1> DEFINE new == Renewed(row, now)
<1>1. /\ new.state = row.state /\ new.worker = row.worker /\ new.cancel = row.cancel
      /\ new.checkpoint = row.checkpoint
  BY DEF RowInv, Rows, Renewed
<1> HIDE DEF new
<1>2. AskedShape(new) /\ OwnerKept(row, new) /\ RowKept(row, new)
  BY <1>1 DEF AskedShape, OwnerKept, RowKept, Busy, Outcome
<1>3. QED
  BY <1>2 DEF RowPromise, RowMoves, new

LEMMA CancelledPromise ==
  ASSUME NEW row, RowInv(row), AskedShape(row), Cancellable(row), NEW published
  PROVE  RowPromise(row, Cancelled(row), published)
<1> DEFINE new == Cancelled(row)
<1>1. ~CancelKeepsUncertain(row)
  BY DEF RowInv, Rows, Checkpoints, AskedShape, Cancellable, CancelKeepsUncertain,
         RequiresReconciliation
<1>2. row \in Rows /\ row.cancel \in BOOLEAN
  BY DEF RowInv, Rows
<1>3. CASE row.state = "running"
  <2>1. /\ new.state = row.state /\ new.worker = row.worker /\ new.cancel = TRUE
    BY <1>1, <1>2, <1>3 DEF Cancelled, Rows
  <2> HIDE DEF new
  <2>2. AskedShape(new) /\ OwnerKept(row, new)
    BY <1>3, <2>1 DEF AskedShape, OwnerKept
  <2>3. RowIsAsked(row, new) \/ RowKept(row, new)
    BY <1>2, <1>3, <2>1 DEF RowIsAsked, RowKept, Busy, Outcome, Terminal
  <2>4. QED BY <2>2, <2>3 DEF RowPromise, RowMoves, new
<1>4. CASE row.state # "running"
  <2>1. /\ new.state = "cancelled" /\ new.worker = NULL /\ new.cancel = FALSE
        /\ new.checkpoint = row.checkpoint
    BY <1>1, <1>2, <1>4 DEF Cancelled, Released, Rows
  <2>2. ~row.cancel /\ ~row.checkpoint.recon /\ row.state \notin Terminal
    BY <1>4 DEF AskedShape, Cancellable
  <2> HIDE DEF new
  <2>3. AskedShape(new) /\ OwnerKept(row, new) /\ RowIsAsked(row, new)
    BY <1>4, <2>1, <2>2 DEF AskedShape, OwnerKept, RowIsAsked, Busy
  <2>4. QED BY <2>3 DEF RowPromise, RowMoves, new
<1>5. QED
  BY <1>3, <1>4

LEMMA ResumedPromise ==
  ASSUME NEW row, RowInv(row), Resumable(row), NEW published
  PROVE  RowPromise(row, Resumed(row), published)
<1> DEFINE new == Resumed(row)
<1>1. /\ new.state = "queued" /\ new.worker = row.worker /\ new.cancel = row.cancel
      /\ new.checkpoint = row.checkpoint
  BY DEF RowInv, Rows, Resumed
<1> HIDE DEF new
<1>2. AskedShape(new) /\ OwnerKept(row, new) /\ RowKept(row, new)
  BY <1>1 DEF Resumable, AskedShape, OwnerKept, RowKept, Busy, Outcome, Terminal
<1>3. QED
  BY <1>2 DEF RowPromise, RowMoves, new

LEMMA ResolvedPromise ==
  ASSUME NEW row, RowInv(row), Resolvable(row), NEW outcome \in Outcomes, NEW published,
         (outcome = "effect_confirmed") = published
  PROVE  RowPromise(row, Resolved(row, outcome), published)
<1> DEFINE new == Resolved(row, outcome)
<1>1. /\ new.state = IF outcome = "no_effect" THEN "cancelled" ELSE "partial"
      /\ new.worker = NULL /\ new.cancel = FALSE
      /\ new.checkpoint = [row.checkpoint EXCEPT !.recon = FALSE, !.unknown = NULL]
  BY DEF RowInv, Rows, Resolved, Released
<1>2. row.checkpoint \in Checkpoints
  BY DEF RowInv, Rows
<1> HIDE DEF new
<1>3. ~new.checkpoint.recon
  BY <1>1, <1>2 DEF Checkpoints
<1>4. AskedShape(new) /\ OwnerKept(row, new)
  BY <1>1, <1>3 DEF AskedShape, OwnerKept
<1>5. RowIsResolved(row, new, published)
  BY <1>1 DEF Resolvable, RowIsResolved, Outcomes
<1>6. QED
  BY <1>4, <1>5 DEF RowPromise, RowMoves, new

-----------------------------------------------------------------------------
(* From one transaction to the contract, and every step *)

Promised == [Contract!Next]_(Contract!vars) /\ AskedInv'

\* No run gets to record a cancellation that it has not seen.
NoneAsksUnseen ==
  \A w \in Workers :
    run'[w].at \in Cancels => run[w].at \in Cancels \/ (op.worker = w => op.cancel)

LEMMA RowMovesAsPromised ==
  ASSUME UNCHANGED library, op'.cancel \in BOOLEAN, op.cancel \in BOOLEAN,
         RowMoves(op, op', MinePublished)
  PROVE  [Contract!Next]_(Contract!vars)
<1> USE DEF library, Busy, Outcome
<1>1. CASE RowKept(op, op')
  BY <1>1 DEF RowKept, Contract!vars
<1>2. CASE RowStarts(op, op')
  <2>1. Contract!Start
    BY <1>2 DEF RowStarts, Terminal, Contract!Start, Contract!Underway
  <2>2. QED BY <2>1 DEF Contract!Next
<1>3. CASE RowPauses(op, op')
  <2>1. Contract!Pause
    BY <1>3 DEF RowPauses, Terminal, Contract!Pause
  <2>2. QED BY <2>1 DEF Contract!Next
<1>4. CASE RowIsAsked(op, op')
  <2>1. Contract!Cancel
    BY <1>4 DEF RowIsAsked, Terminal, Contract!Cancel, Contract!Underway
  <2>2. QED BY <2>1 DEF Contract!Next
<1>5. CASE RowEnds(op, op', MinePublished)
  <2>1. op'.state \in Contract!Ends /\ Contract!End(op'.state)
    BY <1>5 DEF RowEnds, Terminal, MinePublished, Contract!End, Contract!Ends,
                Contract!Underway
  <2>2. QED BY <2>1 DEF Contract!Next
<1>6. CASE RowIsResolved(op, op', MinePublished)
  <2>1. Contract!Resolve
    BY <1>6 DEF RowIsResolved, Terminal, MinePublished, Contract!Resolve, Contract!Underway
  <2>2. QED BY <2>1 DEF Contract!Next
<1>7. QED
  BY <1>1, <1>2, <1>3, <1>4, <1>5, <1>6 DEF RowMoves

\* A transaction on the row that keeps its promise.
LEMMA RowStepPromised ==
  ASSUME ImportInv, ImportInv', AskedInv, UNCHANGED library, NoneAsksUnseen,
         RowPromise(op, op', MinePublished)
  PROVE  Promised
<1>1. op.cancel \in BOOLEAN /\ op'.cancel \in BOOLEAN
  BY DEF ImportInv, RowInv, Rows
<1>2. [Contract!Next]_(Contract!vars)
  BY <1>1, RowMovesAsPromised DEF RowPromise
<1>3. ASSUME NEW w \in Workers, run'[w].at \in Cancels, op'.worker = w PROVE op'.cancel
  <2>1. op.worker = w /\ (op.cancel => op'.cancel)
    BY <1>3, ImportAssumption DEF RowPromise, OwnerKept
  <2>2. op.cancel
    BY <1>3, <2>1 DEF NoneAsksUnseen, AskedInv
  <2>3. QED BY <2>1, <2>2
<1>4. QED
  BY <1>2, <1>3 DEF Promised, AskedInv, RowPromise

\* A step that leaves the row alone.
LEMMA IdleStepPromised ==
  ASSUME ImportInv, AskedInv, UNCHANGED <<op, library>>, NoneAsksUnseen
  PROVE  Promised
<1>1. [Contract!Next]_(Contract!vars)
  BY DEF library, Contract!vars
<1>2. AskedInv'
  BY DEF AskedInv, NoneAsksUnseen, At, AskedShape
<1>3. QED
  BY <1>1, <1>2 DEF Promised

\* A publication is an Add of the contract, or finds its snapshot there.
LEMMA PublishAdds ==
  ASSUME LibraryInv, NEW s \in Snapshots, NEW content \in Contents, Publish(s, content),
         UNCHANGED op
  PROVE  UNCHANGED library \/ Contract!Add(s)
<1>1. CASE snapshots[s] = content
  BY <1>1 DEF Publish
<1>2. CASE snapshots[s] # content
  <2>1. /\ snapshots[s] = NULL
        /\ snapshots' = [snapshots EXCEPT ![s] = content]
        /\ current' = IF Supersedes(s) THEN s ELSE current
    BY <1>2 DEF Publish, BoundToOther
  <2>2. snapshots'[s] = content /\ content # NULL
    BY <2>1, ContentAssumption DEF LibraryInv
  <2>3. QED
    BY <2>1, <2>2 DEF Supersedes, Contract!Add, Contract!Newer
<1>3. QED
  BY <1>1, <1>2

\* A run that does not arrive at the recording of a cancellation, or has seen one.
LEMMA OneRunMoves ==
  ASSUME NEW w \in Workers,
         run'[w].at \in Cancels => (op.worker = w => op.cancel),
         \A v \in Workers \ {w} : run'[v].at = run[v].at
  PROVE  NoneAsksUnseen
BY DEF NoneAsksUnseen, At

LEMMA PointsAfter ==
  ASSUME RunsInv, NEW w \in Workers
  PROVE  /\ \A point : GoTo(w, point) =>
              /\ run'[w].at = point
              /\ \A v \in Workers \ {w} : run'[v].at = run[v].at
         /\ \A r : run' = [run EXCEPT ![w] = r] =>
              /\ run'[w] = r
              /\ \A v \in Workers \ {w} : run'[v].at = run[v].at
         /\ Leave(w) =>
              /\ run'[w].at = "idle"
              /\ \A v \in Workers \ {w} : run'[v].at = run[v].at
<1>1. run \in [Workers -> Runs] /\ run[w] \in Runs
  BY DEF RunsInv
<1>2. \A point : GoTo(w, point) =>
        run'[w].at = point /\ \A v \in Workers \ {w} : run'[v].at = run[v].at
  BY <1>1 DEF GoTo, Runs
<1>3. \A r : run' = [run EXCEPT ![w] = r] =>
        run'[w] = r /\ \A v \in Workers \ {w} : run'[v].at = run[v].at
  BY <1>1
<1>4. Leave(w) => run'[w].at = "idle" /\ \A v \in Workers \ {w} : run'[v].at = run[v].at
  BY <1>3, IdleRun DEF Leave
<1>5. QED
  BY <1>2, <1>3, <1>4

LEMMA GoesQuietly ==
  ASSUME ImportInv, AskedInv, NEW w \in Workers, UNCHANGED <<op, library>>,
         \/ \E point : GoTo(w, point) /\ point \notin Cancels
         \/ \E r : run' = [run EXCEPT ![w] = r] /\ r.at \notin Cancels
         \/ Leave(w)
  PROVE  Promised
<1>1. /\ run'[w].at \notin Cancels
      /\ \A v \in Workers \ {w} : run'[v].at = run[v].at
  BY PointsAfter DEF ImportInv
<1>2. NoneAsksUnseen
  BY <1>1, OneRunMoves
<1>3. QED
  BY <1>2, IdleStepPromised

\* What a run saves ends its work; a cancellation it saves was asked for.
LEMMA SavePromised ==
  ASSUME ImportInv, ImportInv', AskedInv, NEW w \in Workers, NEW now,
         NEW asked \in Terminal \cup {"waiting_user"}, Save(w, asked, now),
         asked = "succeeded" => MinePublished, asked = "cancelled" => At(w, "cancel")
  PROVE  Promised
<1>1. UNCHANGED library /\ Leave(w) /\ NoneAsksUnseen
  BY PointsAfter, OneRunMoves DEF Save, ImportInv
<1>2. CASE ~HoldsLease(op, w, now)
  BY <1>1, <1>2, IdleStepPromised DEF Save
<1>3. CASE HoldsLease(op, w, now)
  <2>1. op' = Checkpointed(op, run[w].cp, asked)
    BY <1>3 DEF Save
  <2>2. op.state = "running" /\ (asked = "cancelled" => op.cancel)
    BY <1>3 DEF HoldsLease, Owns, AskedInv, At
  <2>3. RowInv(op) /\ run[w].cp \in Checkpoints /\ ~run[w].cp.recon
    BY DEF ImportInv, RunsInv, RunInv, Sound
  <2>4. RowPromise(op, op', MinePublished)
    BY <2>1, <2>2, <2>3, CheckpointedPromise
  <2>5. QED BY <1>1, <2>4, RowStepPromised
<1>4. QED
  BY <1>2, <1>3

LEMMA RenewPromised ==
  ASSUME ImportInv, ImportInv', AskedInv, NEW w \in Workers, NEW now, NEW next,
         next \notin Cancels, Renew(w, now, next)
  PROVE  Promised
<1>1. CASE HoldsLease(op, w, now) /\ ~op.cancel
  <2>1. op' = Renewed(op, now) /\ GoTo(w, next) /\ UNCHANGED library
    BY <1>1 DEF Renew
  <2>2. NoneAsksUnseen
    BY <2>1, PointsAfter, OneRunMoves DEF ImportInv
  <2>3. RowPromise(op, op', MinePublished)
    BY <2>1, RenewedPromise DEF ImportInv, AskedInv
  <2>4. QED BY <2>1, <2>2, <2>3, RowStepPromised
<1>2. CASE ~(HoldsLease(op, w, now) /\ ~op.cancel)
  <2>1. GoTo(w, "conflict") /\ UNCHANGED <<op, library>>
    BY <1>2 DEF Renew
  <2>2. QED BY <2>1, GoesQuietly
<1>3. QED
  BY <1>1, <1>2

LEMMA SchedulePromised ==
  ASSUME ImportInv, ImportInv', AskedInv, NEW w \in Workers, NEW now \in Int, NEW delay \in Int,
         NEW asked \in Waiting, Schedule(w, asked, now, delay),
         run[w].at \in {"retry", "limited"}
  PROVE  Promised
<1> DEFINE cp == Retried(run[w].cp)
<1>1. /\ cp \in Checkpoints /\ ~cp.recon
      /\ ~Exhausted(cp) => Sound(cp)
  BY CountedAttempt
<1> HIDE DEF cp
<1>2. UNCHANGED library /\ Leave(w) /\ NoneAsksUnseen
  BY PointsAfter, OneRunMoves DEF Schedule, ImportInv
<1>3. CASE ~HoldsLease(op, w, now)
  BY <1>2, <1>3, IdleStepPromised DEF Schedule
<1>4. CASE HoldsLease(op, w, now)
  <2>1. op.state = "running" /\ RowInv(op)
    BY <1>4 DEF HoldsLease, Owns, ImportInv
  <2>2. CASE Exhausted(cp)
    <3>1. op' = Checkpointed(op, cp, "failed")
      BY <1>4, <2>2 DEF Schedule, cp
    <3>2. RowPromise(op, op', MinePublished)
      BY <1>1, <2>1, <3>1, CheckpointedPromise DEF Terminal
    <3>3. QED BY <1>2, <3>2, RowStepPromised
  <2>3. CASE ~Exhausted(cp)
    <3>1. op' = Scheduled(op, cp, asked, now + delay) /\ now + delay \in Int
      BY <1>4, <2>3 DEF Schedule, cp
    <3>2. Sound(cp)
      BY <1>1, <2>3
    <3>3. RowPromise(op, op', MinePublished)
      BY <2>1, <3>1, <3>2, ScheduledPromise
    <3>4. QED BY <1>2, <3>3, RowStepPromised
  <2>4. QED BY <2>2, <2>3
<1>5. QED
  BY <1>3, <1>4

\* A claim starts the work, or goes on with work that was abandoned.
LEMMA PollPromised ==
  ASSUME ImportInv, ImportInv', AskedInv, NEW w \in Workers, NEW now, Poll(w, now)
  PROVE  Promised
<1>1. UNCHANGED library /\ RowInv(op)
  BY DEF Poll, ImportInv
<1>2. CASE /\ UncertainCancelled(op, now)
           /\ op' = Quarantined(op, op.checkpoint) /\ UNCHANGED run
  <2>1. RowPromise(op, op', MinePublished)
    BY <1>1, <1>2, QuarantinedPromise DEF UncertainCancelled, Abandoned
  <2>2. NoneAsksUnseen
    BY <1>2 DEF NoneAsksUnseen, At
  <2>3. QED BY <1>1, <2>1, <2>2, RowStepPromised
<1>3. CASE Claimable(op, now) /\ op' = Claimed(op, w, now) /\ GoTo(w, "claimed")
  <2>1. ~op.cancel /\ op.state \notin Terminal
    BY <1>3 DEF Claimable, Due, Abandoned, Terminal, Waiting
  <2>2. /\ op'.state = "running" /\ op'.worker = w /\ op'.cancel = op.cancel
        /\ op'.checkpoint = op.checkpoint
    BY <1>1, <1>3 DEF RowInv, Rows, Claimed
  <2>3. op.cancel \in BOOLEAN /\ op'.cancel \in BOOLEAN
    BY DEF ImportInv, RowInv, Rows
  <2>4. RowStarts(op, op') \/ RowKept(op, op')
    BY <2>1, <2>2 DEF RowStarts, RowKept, Busy, Outcome, Terminal
  <2>5. [Contract!Next]_(Contract!vars)
    BY <1>1, <2>3, <2>4, RowMovesAsPromised DEF RowMoves
  <2>6. run'[w].at = "claimed"
    BY <1>3, PointsAfter DEF ImportInv
  <2>7. AskedInv'
    BY <2>1, <2>2, <2>6 DEF AskedInv, AskedShape, At
  <2>8. QED BY <2>5, <2>7 DEF Promised
<1>4. QED
  BY <1>2, <1>3 DEF Poll

LEMMA PublishMinePromised ==
  ASSUME ImportInv, AskedInv, NEW w \in Workers, PublishMine(w)
  PROVE  Promised
<1>1. UNCHANGED op /\ run[w].read \in Contents
  BY DEF PublishMine, ImportInv, RunsInv, Runs
<1>2. CASE UNCHANGED library
  <2>1. \E point : GoTo(w, point) /\ point \notin Cancels
    BY DEF PublishMine
  <2>2. QED BY <1>1, <1>2, <2>1, GoesQuietly
<1>3. CASE library' # library
  <2>1. MayPublish(w) /\ Publish(Mine, run[w].read) /\ GoTo(w, "reread")
    BY <1>3 DEF PublishMine
  <2>2. Contract!Add(Mine)
    BY <1>1, <1>3, <2>1, PublishAdds, ImportAssumption DEF ImportInv
  <2>3. op.state = "running" /\ ~op.cancel
    BY <2>1 DEF MayPublish, HoldsLease, Owns
  <2>4. Contract!Publish
    BY <2>2, <2>3 DEF Contract!Publish, Contract!Underway, Terminal
  <2>5. run'[w].at = "reread" /\ \A v \in Workers \ {w} : run'[v].at = run[v].at
    BY <2>1, PointsAfter DEF ImportInv
  <2>6. AskedInv'
    BY <1>1, <2>5 DEF AskedInv, At, AskedShape
  <2>7. QED BY <2>4, <2>6 DEF Promised, Contract!Next
<1>4. QED
  BY <1>2, <1>3

LEMMA SaveAtDispatchPromised ==
  ASSUME ImportInv, ImportInv', AskedInv, NEW w \in Workers,
         NEW asked \in {"cancelled", "failed"}, SaveAtDispatch(w, asked),
         asked = "cancelled" => run[w].at \in Cancels
  PROVE  Promised
<1>1. UNCHANGED library /\ Leave(w) /\ NoneAsksUnseen
  BY PointsAfter, OneRunMoves DEF SaveAtDispatch, ImportInv
<1>2. CASE ~Owns(op, w)
  BY <1>1, <1>2, IdleStepPromised DEF SaveAtDispatch
<1>3. CASE Owns(op, w)
  <2>1. /\ op' = Checkpointed(op, run[w].cp, asked) /\ op.state = "running"
        /\ RowInv(op) /\ run[w].cp \in Checkpoints /\ ~run[w].cp.recon
    BY <1>3 DEF SaveAtDispatch, Owns, ImportInv, RunsInv, RunInv, Sound
  <2>2. asked = "cancelled" => op.cancel
    BY <1>3 DEF Owns, AskedInv
  <2>3. RowPromise(op, op', MinePublished)
    BY <2>1, <2>2, CheckpointedPromise DEF Terminal
  <2>4. QED BY <1>1, <2>3, RowStepPromised
<1>4. QED
  BY <1>2, <1>3

\* The first renewal finds the row its own, or makes its run give up.
LEMMA OpenPromised ==
  ASSUME ImportInv, AskedInv, NEW w \in Workers, Open(w)
  PROVE  Promised
<1>1. \E point : GoTo(w, point) /\ point \notin Cancels
  BY DEF Open
<1>2. QED
  BY <1>1, GoesQuietly DEF Open

\* The points at which a run learns of a cancellation: the row it owns has one.
LEMMA SeenPromised ==
  ASSUME ImportInv, AskedInv, NEW w \in Workers, NEW now,
         Collected(w, now) \/ Conflict(w, now) \/ Load(w)
  PROVE  Promised
<1>1. UNCHANGED <<op, library>>
  BY DEF Collected, Conflict, Load
<1>2. CASE (Collected(w, now) \/ Conflict(w, now)) /\ SeesCancellation(w, now)
  <2>1. GoTo(w, "cancel") /\ op.cancel
    BY <1>2 DEF Collected, Conflict, SeesCancellation
  <2>2. NoneAsksUnseen
    BY <2>1, PointsAfter, OneRunMoves DEF ImportInv
  <2>3. QED BY <1>1, <2>2, IdleStepPromised
<1>3. CASE (Collected(w, now) \/ Conflict(w, now)) /\ ~SeesCancellation(w, now)
  <2>1. GoTo(w, "renew") \/ Leave(w)
    BY <1>3 DEF Collected, Conflict
  <2>2. QED BY <1>1, <2>1, GoesQuietly
<1>4. CASE Load(w) /\ ~Owns(op, w)
  <2> DEFINE r == [Idle EXCEPT !.at = "raised"]
  <2>1. run' = [run EXCEPT ![w] = r] /\ r.at \notin Cancels
    BY <1>4, IdleRun DEF Load, Runs
  <2> HIDE DEF r
  <2>2. QED BY <1>1, <2>1, GoesQuietly
<1>5. CASE Load(w) /\ Owns(op, w)
  <2> DEFINE point == IF op.cancel THEN "declined"
                      ELSE IF op.checkpoint.attempts < 0 THEN "invalid" ELSE "open"
             r == [Idle EXCEPT !.cp = op.checkpoint, !.at = point]
  <2>1. run' = [run EXCEPT ![w] = r] /\ r.at = point
    BY <1>5, IdleRun DEF Load, Runs
  <2>2. r.at \in Cancels => op.cancel
    BY <2>1
  <2> HIDE DEF r
  <2>3. run'[w] = r /\ \A v \in Workers \ {w} : run'[v].at = run[v].at
    BY <2>1, PointsAfter DEF ImportInv
  <2>4. NoneAsksUnseen
    BY <2>2, <2>3, OneRunMoves
  <2>5. QED BY <1>1, <2>4, IdleStepPromised
<1>6. QED
  BY <1>2, <1>3, <1>4, <1>5

\* Reading, reading back and giving up change neither the row nor the library.
LEMMA QuietPromised ==
  ASSUME ImportInv, AskedInv, NEW w \in Workers,
         \/ Fetch(w) \/ Reread(w) \/ Rescue(w)
         \/ Crash(w) \/ Restart(w) \/ StoreError(w)
  PROVE  Promised
<1>1. UNCHANGED <<op, library>>
  BY DEF Fetch, Reread, Rescue, Crash, Restart, StoreError
<1>2. run[w] \in Runs
  BY DEF ImportInv, RunsInv
<1>3. CASE Fetch(w)
  <2>1. \/ \E point : GoTo(w, point) /\ point \notin Cancels
        \/ \E r : run' = [run EXCEPT ![w] = r] /\ r.at \notin Cancels
    <3>1. ASSUME run' = [run EXCEPT ![w].read = Append(@, playlist), ![w].at = "page"]
          PROVE  \E r : run' = [run EXCEPT ![w] = r] /\ r.at \notin Cancels
      <4> WITNESS [run[w] EXCEPT !.read = Append(@, playlist), !.at = "page"]
      <4> QED BY <1>2, <3>1 DEF Runs
    <3>2. ASSUME NEW whole, run' = [run EXCEPT ![w].whole = whole, ![w].at = "collected"]
          PROVE  \E r : run' = [run EXCEPT ![w] = r] /\ r.at \notin Cancels
      <4> WITNESS [run[w] EXCEPT !.whole = whole, !.at = "collected"]
      <4> QED BY <1>2, <3>2 DEF Runs
    <3>3. QED BY <1>3, <3>1, <3>2 DEF Fetch
  <2>2. QED BY <1>1, <2>1, GoesQuietly
<1>4. CASE Reread(w) \/ StoreError(w)
  <2>1. \E point : GoTo(w, point) /\ point \notin Cancels
    BY <1>4 DEF Reread, StoreError, GoTo
  <2>2. QED BY <1>1, <2>1, GoesQuietly
<1>5. CASE Restart(w)
  BY <1>1, <1>5, GoesQuietly DEF Restart
<1>6. ASSUME NEW point \in {"down", "stopped"},
             run' = [run EXCEPT ![w] = [Idle EXCEPT !.at = point]]
      PROVE  Promised
  <2> DEFINE r == [Idle EXCEPT !.at = point]
  <2>1. run' = [run EXCEPT ![w] = r] /\ r.at \notin Cancels
    BY <1>6, IdleRun DEF Runs
  <2> HIDE DEF r
  <2>2. QED BY <1>1, <2>1, GoesQuietly
<1>7. CASE Rescue(w) /\ Owns(op, w)
  <2> DEFINE r == [Idle EXCEPT !.at = "failing", !.cp = op.checkpoint]
  <2>1. run' = [run EXCEPT ![w] = r] /\ r.at \notin Cancels
    BY <1>7, IdleRun DEF Rescue, Runs
  <2> HIDE DEF r
  <2>2. QED BY <1>1, <2>1, GoesQuietly
<1>8. QED
  BY <1>3, <1>4, <1>5, <1>6, <1>7 DEF Rescue, Crash

LEMMA WorkerStepPromised ==
  ASSUME ImportInv, ImportInv', AskedInv, NEW w \in Workers, WorkerStep(w)
  PROVE  Promised
<1>1. ASSUME NEW now \in Int, Poll(w, now) PROVE Promised
  BY <1>1, PollPromised
<1>2. ASSUME NEW now \in Int, BeforePage(w, now) PROVE Promised
  BY <1>2, RenewPromised DEF BeforePage
<1>3. ASSUME NEW now \in Int, RenewForPublication(w, now) PROVE Promised
  <2> DEFINE next == IF run[w].whole THEN "publish" ELSE "reread"
  <2>1. next \notin Cancels /\ Renew(w, now, next)
    BY <1>3 DEF RenewForPublication
  <2>2. QED BY <2>1, RenewPromised
<1>4. ASSUME NEW now \in Int, Collected(w, now) \/ Conflict(w, now) PROVE Promised
  BY <1>4, SeenPromised
<1>5. ASSUME NEW now \in Int, Complete(w, now) PROVE Promised
  <2>1. run[w].at = "complete" /\ RunInv(run[w], MinePublished)
    BY <1>5 DEF Complete, At, ImportInv, RunsInv
  <2>2. run[w].whole => MinePublished
    BY <2>1 DEF RunInv
  <2>3. QED BY <1>5, <2>2, SavePromised DEF Complete, Terminal
<1>6. ASSUME NEW now \in Int,
             SaveCancelled(w, now) \/ WaitForUser(w, now) \/ FailImport(w, now)
      PROVE  Promised
  BY <1>6, SavePromised DEF SaveCancelled, WaitForUser, FailImport, Terminal
<1>7. ASSUME NEW now \in Int, ScheduleRetry(w, now) PROVE Promised
  BY <1>7, SchedulePromised, ImportAssumption DEF ScheduleRetry, At, Waiting
<1>8. ASSUME NEW now \in Int, NEW delay \in {RetryDelay} \cup 1..MaxDelay,
             ScheduleRateLimit(w, now, delay)
      PROVE  Promised
  <2>1. delay \in Int
    BY ImportAssumption
  <2>2. QED BY <1>8, <2>1, SchedulePromised DEF ScheduleRateLimit, At, Waiting
<1>9. CASE Load(w)
  BY <1>9, SeenPromised
<1>10. CASE Fetch(w) \/ Reread(w) \/ Rescue(w)
  BY <1>10, QuietPromised
<1>11. CASE PublishMine(w)
  BY <1>11, PublishMinePromised
<1>12. CASE SaveDeclined(w) \/ SaveInvalid(w) \/ Fail(w)
  BY <1>12, SaveAtDispatchPromised DEF SaveDeclined, SaveInvalid, Fail, At
<1>13. CASE Open(w)
  BY <1>13, OpenPromised
<1>14. Samples \subseteq Int
  BY ImportAssumption DEF Samples
<1>15. QED
  BY <1>1, <1>2, <1>3, <1>4, <1>5, <1>6, <1>7, <1>8, <1>9, <1>10, <1>11, <1>12, <1>13, <1>14
  DEF WorkerStep

\* What users do is one transaction each, and no run notices at once.
LEMMA UserStepPromised ==
  ASSUME ImportInv, ImportInv', AskedInv,
         Cancel \/ Resume \/ \E outcome \in Outcomes : ResolveCancelledOutcome(outcome)
  PROVE  Promised
<1>1. UNCHANGED library /\ NoneAsksUnseen
  BY DEF Cancel, Resume, ResolveCancelledOutcome, NoneAsksUnseen, At
<1>2. RowInv(op) /\ AskedShape(op)
  BY DEF ImportInv, AskedInv
<1>3. RowPromise(op, op', MinePublished)
  <2>1. CASE Cancel
    BY <1>2, <2>1, CancelledPromise DEF Cancel
  <2>2. CASE Resume
    BY <1>2, <2>2, ResumedPromise DEF Resume
  <2>3. ASSUME NEW outcome \in Outcomes, ResolveCancelledOutcome(outcome)
        PROVE  RowPromise(op, op', MinePublished)
    <3>1. /\ Resolvable(op) /\ op' = Resolved(op, outcome)
          /\ (outcome = "effect_confirmed") = MinePublished
      BY <2>3 DEF ResolveCancelledOutcome, Established, MinePublished
    <3>2. QED BY <1>2, <3>1, ResolvedPromise
  <2>4. QED BY <2>1, <2>2, <2>3
<1>4. QED
  BY <1>1, <1>3, RowStepPromised

LEMMA TickPromised ==
  ASSUME ImportInv, ImportInv', AskedInv, Tick
  PROVE  Promised
<1>1. UNCHANGED library /\ NoneAsksUnseen
  BY DEF Tick, NoneAsksUnseen, At
<1>2. /\ op'.state = op.state /\ op'.cancel = op.cancel /\ op'.worker = op.worker
      /\ op'.checkpoint = op.checkpoint
  BY DEF Tick, ImportInv, RowInv, Rows
<1>3. RowPromise(op, op', MinePublished)
  BY <1>2
  DEF RowPromise, RowMoves, RowKept, OwnerKept, AskedShape, AskedInv, Busy, Outcome
<1>4. QED
  BY <1>1, <1>3, RowStepPromised

LEMMA OtherPromised ==
  ASSUME ImportInv, AskedInv, NEW s \in Snapshots, PublishOther(s)
  PROVE  Promised
<1>1. UNCHANGED <<op, run>> /\ s # Mine /\ Publish(s, <<playlist>>) /\ <<playlist>> \in Contents
  BY OnePage DEF PublishOther, ImportInv, WorldType
<1>2. UNCHANGED library \/ Contract!Add(s)
  BY <1>1, PublishAdds DEF ImportInv
<1>3. [Contract!Next]_(Contract!vars)
  BY <1>1, <1>2 DEF library, Contract!Next, Contract!PublishOther, Contract!vars
<1>4. AskedInv'
  BY <1>1 DEF AskedInv, AskedShape, At
<1>5. QED
  BY <1>3, <1>4 DEF Promised

LEMMA StepPromised ==
  ASSUME ImportInv, AskedInv, [Next]_vars
  PROVE  Promised
<1>1. ImportInv'
  BY StepGood DEF GoodStep
<1>2. CASE \E w \in Workers : WorkerStep(w) \/ Crash(w) \/ Restart(w) \/ StoreError(w)
  BY <1>1, <1>2, WorkerStepPromised, QuietPromised
<1>3. CASE \/ Cancel \/ Resume
           \/ \E outcome \in Outcomes : ResolveCancelledOutcome(outcome)
  BY <1>1, <1>3, UserStepPromised
<1>4. CASE \E s \in Snapshots : PublishOther(s)
  BY <1>4, OtherPromised
<1>5. CASE ChangePlaylist \/ UNCHANGED vars
  <2>1. UNCHANGED <<op, library, run>>
    BY <1>5 DEF ChangePlaylist, vars
  <2>2. NoneAsksUnseen
    BY <2>1 DEF NoneAsksUnseen, At
  <2>3. QED BY <2>1, <2>2, IdleStepPromised
<1>6. CASE Tick
  BY <1>1, <1>6, TickPromised
<1>7. QED
  BY <1>2, <1>3, <1>4, <1>5, <1>6 DEF Next

\* An import implements its contract: whatever workers, takeovers, stalls, retries and
\* other imports do, it publishes once, while somebody works on it and nobody has
\* cancelled it; it ends as it says, and once.
THEOREM ImportKeepsContract == Spec => KeepsImportContract
<1>1. Init => Contract!Init /\ AskedInv
  BY IdleRun DEF Init, EmptyLibrary, Contract!Init, Terminal, AskedInv, AskedShape, At
<1>2. ImportInv /\ AskedInv /\ [Next]_vars => [Contract!Next]_(Contract!vars) /\ AskedInv'
  BY StepPromised DEF Promised
<1>3. QED
  BY <1>1, <1>2, ImportInvariant, PTL DEF Spec, KeepsImportContract, Contract!Spec
=============================================================================

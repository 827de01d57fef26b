----------------------------- MODULE CopyProofs -----------------------------
(***************************************************************************)
(* A copy keeps its contract: for any number of workers, entries, callers, *)
(* outdated workers and faults, any retry budget, any staleness of the     *)
(* clock samples and any decoded checkpoint the row starts with.           *)
(*                                                                         *)
(* The invariant says what is known of a request that may still reach the  *)
(* provider (there is at most one, it is for the step in doubt, and that   *)
(* step was not carried out yet) and what the owner of the row holds at    *)
(* each of its control points.  A worker that lost the row may be          *)
(* anywhere: nothing is said of it, except when it may still send.         *)
(***************************************************************************)
EXTENDS CopyExecution, CopyCheckpointProofs

Rows ==
  [state : States, checkpoint : DecodedCheckpoints, worker : Workers \cup {NULL},
   lease : Int \cup {NULL}, nextRun : Int \cup {NULL}, cancel : BOOLEAN]

Runs == [at : Points, mem : DecodedCheckpoints]

\* Points at which the owner holds the checkpoint of the row.
Engaged == {"cancel", "step", "mark", "authorise", "call", "calling", "applied",
            "unsure", "reconcile", "confirm", "reject", "retry", "limited", "wait",
            "stopping", "failing"}

\* ... and has found it sound.
Steady == {"step", "mark", "authorise", "call", "calling", "applied", "unsure",
           "reconcile", "confirm", "reject", "retry", "limited"}

\* ... and the step it stands at is in doubt.
InFlight == Steady \ {"step", "mark"}

\* ... and no request for that step is, or may come, under way.
Refused == {"authorise", "reject", "retry", "limited"}

\* ... and that step was carried out.
Carried == {"applied", "confirm"}

Requests == {"call", "calling"}

\* The steps recorded as carried out.
Done(cp) == Elements(cp.confirmed) \cup (IF cp.target THEN {Target} ELSE {})

\* The same checkpoint, up to the flag that only the repository sets.
SameRecord(cp, other) == other = [cp EXCEPT !.recon = other.recon]

\* Whatever was carried out is recorded or in doubt.
Settles(cp, e) == \A s \in CopySteps : e[s] > 0 => s \in Done(cp) \cup {cp.unknown}

\* No request may still reach the provider.
Quiet(rs, l) == l = {} /\ \A w \in Workers : rs[w].at \notin Requests

RowInv(row) ==
  /\ row \in Rows
  /\ row.state \in {"succeeded"} \cup Waiting => Parses(row.checkpoint)
  /\ row.checkpoint.recon => row.state \in {"waiting_user"} \cup Terminal

EffectsInv(row, e) ==
  /\ e \in [CopySteps -> Nat]
  /\ \A s \in CopySteps : e[s] <= 1
  /\ row.state \notin Terminal => Settles(row.checkpoint, e)

\* What the owner of a row with this checkpoint may rely on.
Holds(cp, r, e, quiet) ==
  /\ r.at \in Engaged => r.mem = cp
  /\ r.at \in Steady => Parses(cp)
  /\ r.at \in Steady \ {"step"} => ~AllDone(cp)
  /\ r.at \in InFlight => cp.unknown = CurrentStep(cp)
  /\ r.at = "mark" => cp.unknown # CurrentStep(cp)
  /\ r.at \in Refused => e[cp.unknown] = 0 /\ quiet
  /\ r.at \in Carried => e[cp.unknown] > 0

OwnersInv(row, rs, e, l) ==
  \A w \in Workers : Owns(row, w) => Holds(row.checkpoint, rs[w], e, Quiet(rs, l))

\* At most one request may reach the provider, for the step in doubt.
RequestsInv(cp, rs, e, l) ==
  /\ l \subseteq {cp.unknown}
  /\ \A w \in Workers : rs[w].at \in Requests =>
       /\ CurrentStep(rs[w].mem) = cp.unknown
       /\ l = {}
       /\ \A v \in Workers : rs[v].at \in Requests => v = w
  /\ ~Quiet(rs, l) => Parses(cp) /\ cp.unknown # NULL /\ e[cp.unknown] = 0

WorldType ==
  /\ run \in [Workers -> Runs]
  /\ late \subseteq CopySteps
  /\ resolution \in Outcomes \cup {NULL}
  /\ faults \in 0..MaxFaults

CopyInv ==
  /\ WorldType
  /\ RowInv(op)
  /\ EffectsInv(op, effects)
  /\ OwnersInv(op, run, effects, late)
  /\ RequestsInv(op.checkpoint, run, effects, late)

-----------------------------------------------------------------------------
(* What a step may do to the row and to the playlist *)

\* How the checkpoint of the row may change, given what was carried out.
RecordStep(e, row, new) ==
  LET cp == row.checkpoint
      s  == cp.unknown
  IN  \/ SameRecord(cp, new.checkpoint)
      \/ /\ Parses(cp) /\ ~AllDone(cp) /\ s # CurrentStep(cp)
         /\ SameRecord(Marked(cp), new.checkpoint)
         /\ new.state \notin Terminal
      \/ /\ Parses(cp) /\ s # NULL /\ e[s] > 0
         /\ new.checkpoint = Confirmed(cp)
      \/ /\ Parses(cp) /\ s # NULL /\ e[s] = 0
         /\ new.checkpoint = Rejected(cp)
         /\ s = Target => new.state \in Terminal
      \/ /\ Parses(cp) /\ s # NULL /\ e[s] = 0
         /\ new.checkpoint = Retried(cp)
         /\ BudgetExhausted(Retried(cp)) => new.state \in Terminal
      \/ /\ new.checkpoint = [cp EXCEPT !.recon = FALSE, !.unknown = NULL]
         /\ \/ new.state = "cancelled" /\ (s # NULL => e[s] = 0)
            \/ new.state = "partial" /\ s # NULL /\ e[s] > 0

\* A copy ends with an account of every step, or by the attestation of a user.
EndStep(e, row, new) ==
  LET cp == row.checkpoint
  IN  /\ new.state = "succeeded" =>
           Parses(cp) /\ AllDone(cp) /\ new.checkpoint = cp /\ cp.issues = <<>>
      /\ new.state = "partial" =>
           \/ Parses(cp) /\ AllDone(cp) /\ new.checkpoint = cp
           \/ /\ cp.unknown # NULL /\ e[cp.unknown] > 0
              /\ new.checkpoint = [cp EXCEPT !.recon = FALSE, !.unknown = NULL]

\* The provider carries the step in doubt out, the row stays finished as it is,
\* or it takes a step of its own.
GoodStep(e, row, e1, new) ==
  \/ /\ new = row
     /\ row.checkpoint.unknown # NULL /\ e[row.checkpoint.unknown] = 0
     /\ e1 = [e EXCEPT ![row.checkpoint.unknown] = @ + 1]
  \/ /\ e1 = e
     /\ row.state \in Terminal => new.state = row.state /\ new.checkpoint = row.checkpoint
     /\ row.state \notin Terminal => RecordStep(e, row, new) /\ EndStep(e, row, new)

-----------------------------------------------------------------------------
(* Consequences that most steps need *)

LEMMA SamplesAreTimes == Samples \subseteq Int
BY TimeAssumption DEF Samples

LEMMA SameRecordFacts ==
  ASSUME NEW cp \in DecodedCheckpoints, NEW other \in DecodedCheckpoints,
         SameRecord(cp, other)
  PROVE  /\ other.unknown = cp.unknown /\ other.target = cp.target
         /\ other.confirmed = cp.confirmed /\ other.issues = cp.issues
         /\ other.attempts = cp.attempts
         /\ Done(other) = Done(cp)
         /\ Parses(other) <=> Parses(cp)
<1>1. /\ other.unknown = cp.unknown /\ other.target = cp.target
      /\ other.confirmed = cp.confirmed /\ other.issues = cp.issues
      /\ other.attempts = cp.attempts
  BY DEF SameRecord, DecodedCheckpoints
<1>2. Processed(other) = Processed(cp)
  BY <1>1 DEF Processed
<1> QED
  BY <1>1, <1>2
  DEF Done, Parses, ValidProgress, ValidTarget, ValidUnknown, IsFirstUnprocessed, Unprocessed

LEMMA FreshIsDecoded == FreshCheckpoint \in DecodedCheckpoints
<1>1. <<>> \in Seq(Entries) /\ <<>> \in Seq(CopySteps)
  BY EmptySeq
<1> QED
  BY <1>1 DEF FreshCheckpoint, DecodedCheckpoints

\* A row that is flagged is not at work.
LEMMA RunningRow ==
  ASSUME NEW row, RowInv(row), row.state = "running"
  PROVE  row.checkpoint \in DecodedCheckpoints /\ ~row.checkpoint.recon
BY DEF RowInv, Rows, Terminal

-----------------------------------------------------------------------------
(* The transactions *)

\* A row that is saved by a worker, whatever the worker asked for.
LEMMA SavedRow ==
  ASSUME NEW row, RowInv(row), row.state = "running",
         NEW cp \in DecodedCheckpoints, ~cp.recon,
         NEW asked \in CheckpointStates, asked = "succeeded" => Parses(cp)
  PROVE  LET new == Checkpointed(row, cp, asked)
         IN  /\ RowInv(new) /\ SameRecord(cp, new.checkpoint)
             /\ new.worker \in {row.worker, NULL}
             /\ new.state = "running" => asked = "running" /\ new.checkpoint = cp
             /\ new.state \in {"succeeded", "partial"} =>
                  asked = new.state /\ new.checkpoint = cp
             /\ cp.unknown = NULL => new.checkpoint = cp
             /\ cp.unknown = NULL /\ asked \in Terminal => new.state \in Terminal
             /\ cp.unknown # NULL /\ asked = "running" => new.state \notin Terminal
             /\ new.state \notin Waiting
<1> DEFINE new == Checkpointed(row, cp, asked)
           state == IF row.cancel THEN StateUnderCancel(cp, asked) ELSE asked
           doubt == cp.unknown # NULL
           saved == IF row.cancel /\ doubt THEN NeedsReconciliation(cp) ELSE cp
<1>1. RequiresReconciliation(cp) <=> doubt
  BY DEF RequiresReconciliation
<1>2. /\ state \in CheckpointStates
      /\ row.cancel /\ doubt => state = "waiting_user"
      /\ row.cancel /\ ~doubt => state \in Terminal
      /\ row.cancel /\ ~doubt => state = asked \/ state = "cancelled"
      /\ ~row.cancel => state = asked
  BY <1>1 DEF StateUnderCancel, CheckpointStates, Terminal
<1>3. /\ saved \in DecodedCheckpoints /\ SameRecord(cp, saved)
      /\ saved.recon <=> row.cancel /\ doubt
      /\ ~(row.cancel /\ doubt) => saved = cp
  BY DEF NeedsReconciliation, SameRecord, DecodedCheckpoints
<1> HIDE DEF state, saved
<1>4. /\ new \in Rows /\ new.state = state /\ new.checkpoint = saved
      /\ new.worker \in {row.worker, NULL}
  <2>1. new = [(IF state = "running" THEN row ELSE Released(row)) EXCEPT
                 !.state = state, !.checkpoint = saved,
                 !.cancel = @ /\ state \notin Terminal]
    BY <1>1 DEF Checkpointed, state, saved
  <2>2. row \in Rows /\ state \in States
    BY <1>2 DEF RowInv, CheckpointStates, States
  <2>3. Released(row) \in Rows /\ Released(row).worker = NULL
    BY <2>2 DEF Rows, Released
  <2> HIDE DEF new
  <2> QED
    BY <1>3, <2>1, <2>2, <2>3 DEF Rows
<1> HIDE DEF new
<1>5. Parses(saved) <=> Parses(cp)
  BY <1>3, SameRecordFacts
<1>6. RowInv(new)
  BY <1>2, <1>3, <1>4, <1>5 DEF RowInv, CheckpointStates, Waiting, Terminal
<1>7. /\ new.state = "running" => asked = "running" /\ new.checkpoint = cp
      /\ new.state \in {"succeeded", "partial"} =>
           asked = new.state /\ new.checkpoint = cp
      /\ cp.unknown = NULL => new.checkpoint = cp
      /\ cp.unknown = NULL /\ asked \in Terminal => new.state \in Terminal
      /\ cp.unknown # NULL /\ asked = "running" => new.state \notin Terminal
      /\ new.state \notin Waiting
  BY <1>2, <1>3, <1>4 DEF Terminal, Waiting, CheckpointStates
<1> QED
  BY <1>3, <1>4, <1>6, <1>7 DEF new

\* A row that is scheduled for later.
LEMMA ScheduledRow ==
  ASSUME NEW row, RowInv(row), row.state = "running",
         NEW cp \in DecodedCheckpoints, ~cp.recon, Parses(cp), cp.unknown = NULL,
         NEW asked \in Waiting, NEW next \in Int
  PROVE  LET new == Scheduled(row, cp, asked, next)
         IN  /\ RowInv(new) /\ new.checkpoint = cp /\ new.worker = NULL
             /\ new.state \in {asked, "cancelled"}
<1> DEFINE new == Scheduled(row, cp, asked, next)
<1>1. ~RequiresReconciliation(cp)
  BY DEF RequiresReconciliation
<1>2. Released(row) \in Rows /\ Released(row).worker = NULL
  BY DEF RowInv, Rows, Released
<1>3. CASE row.cancel
  <2>1. new = [Released(row) EXCEPT !.state = "cancelled", !.checkpoint = cp,
                                    !.nextRun = NULL, !.cancel = FALSE]
    BY <1>1, <1>3 DEF Scheduled
  <2> HIDE DEF new
  <2>2. /\ new \in Rows /\ new.state = "cancelled" /\ new.checkpoint = cp
        /\ new.worker = NULL
    BY <1>2, <2>1 DEF Rows, States, Terminal
  <2> QED
    BY <2>2 DEF RowInv, Waiting, new
<1>4. CASE ~row.cancel
  <2>1. new = [Released(row) EXCEPT !.state = asked, !.checkpoint = cp, !.nextRun = next]
    BY <1>1, <1>4 DEF Scheduled
  <2> HIDE DEF new
  <2>2. /\ new \in Rows /\ new.state = asked /\ new.checkpoint = cp
        /\ new.worker = NULL
    BY <1>2, <2>1 DEF Rows, States
  <2> QED
    BY <2>2 DEF RowInv, Waiting, new
<1> QED
  BY <1>3, <1>4

-----------------------------------------------------------------------------
(* What carries over from one state to the next *)

\* Requests only become fewer.
LEMMA RequestsDwindle ==
  ASSUME NEW cp \in DecodedCheckpoints, NEW rs, NEW l, NEW e,
         RequestsInv(cp, rs, e, l),
         NEW cp1 \in DecodedCheckpoints, NEW rs1, NEW l1,
         SameRecord(cp, cp1) \/ Quiet(rs, l),
         \A w \in Workers : rs1[w].at \in Requests =>
           rs[w].at \in Requests /\ rs1[w].mem = rs[w].mem,
         \/ l1 = l
         \/ \E w \in Workers : /\ rs[w].at \in Requests /\ rs1[w].at \notin Requests
                             /\ l1 = l \cup {CurrentStep(rs[w].mem)}
  PROVE  RequestsInv(cp1, rs1, e, l1) /\ (Quiet(rs, l) => Quiet(rs1, l1))
<1>1. Quiet(rs, l) => Quiet(rs1, l1)
  BY DEF Quiet
<1>2. CASE Quiet(rs, l)
  BY <1>1, <1>2 DEF RequestsInv, Quiet
<1>3. CASE ~Quiet(rs, l)
  <2>1. /\ cp1.unknown = cp.unknown /\ (Parses(cp1) <=> Parses(cp))
    BY <1>3, SameRecordFacts
  <2> QED
    BY <1>1, <1>3, <2>1 DEF RequestsInv, Quiet
<1> QED
  BY <1>1, <1>2, <1>3

\* The owner of a row that was not touched holds what it held.
LEMMA HoldsOn ==
  ASSUME NEW cp, NEW r, NEW e, NEW quiet \in BOOLEAN, NEW still \in BOOLEAN,
         Holds(cp, r, e, quiet), quiet => still
  PROVE  Holds(cp, r, e, still)
BY DEF Holds

\* A worker moves on and leaves the row and the playlist alone.
LEMMA MoveStep ==
  ASSUME CopyInv, NEW w \in Workers, NEW r \in Runs,
         run' = [run EXCEPT ![w] = r],
         UNCHANGED <<op, effects, resolution>>, faults' \in 0..MaxFaults,
         r.at \in Requests => run[w].at \in Requests /\ r.mem = run[w].mem,
         \/ late' = late
         \/ /\ run[w].at \in Requests /\ r.at \notin Requests
            /\ late' = late \cup {CurrentStep(run[w].mem)},
         Owns(op, w) => Holds(op.checkpoint, r, effects, Quiet(run', late'))
  PROVE  CopyInv' /\ GoodStep(effects, op, effects', op')
<1>1. /\ WorldType /\ RowInv(op) /\ EffectsInv(op, effects)
      /\ OwnersInv(op, run, effects, late)
      /\ RequestsInv(op.checkpoint, run, effects, late)
      /\ op.checkpoint \in DecodedCheckpoints
  BY DEF CopyInv, RowInv, Rows
<1>2. /\ run' \in [Workers -> Runs] /\ run'[w] = r
      /\ \A v \in Workers : v # w => run'[v] = run[v]
  BY <1>1 DEF WorldType
<1>3. SameRecord(op.checkpoint, op.checkpoint)
  BY <1>1 DEF SameRecord, DecodedCheckpoints
<1>4. /\ RequestsInv(op.checkpoint, run', effects, late')
      /\ Quiet(run, late) => Quiet(run', late')
  <2> DEFINE cp  == op.checkpoint
             rs1 == run'
             l1  == late'
  <2>1. \A v \in Workers : rs1[v].at \in Requests =>
          run[v].at \in Requests /\ rs1[v].mem = run[v].mem
    BY <1>2
  <2>2. \/ l1 = late
        \/ \E v \in Workers : /\ run[v].at \in Requests /\ rs1[v].at \notin Requests
                            /\ l1 = late \cup {CurrentStep(run[v].mem)}
    BY <1>2
  <2>3. /\ RequestsInv(cp, run, effects, late) /\ cp \in DecodedCheckpoints
        /\ SameRecord(cp, cp)
    BY <1>1, <1>3
  <2> HIDE DEF cp, rs1, l1
  <2>4. RequestsInv(cp, rs1, effects, l1) /\ (Quiet(run, late) => Quiet(rs1, l1))
    BY <2>1, <2>2, <2>3, RequestsDwindle
  <2> QED
    BY <2>4 DEF cp, rs1, l1
<1>5. late' \subseteq CopySteps
  <2>1. CASE late' = late
    BY <1>1, <2>1 DEF WorldType
  <2>2. CASE run[w].at \in Requests /\ late' = late \cup {CurrentStep(run[w].mem)}
    <3>1. CurrentStep(run[w].mem) = op.checkpoint.unknown /\ op.checkpoint.unknown # NULL
      BY <1>1, <2>2 DEF RequestsInv, Quiet
    <3> QED
      BY <1>1, <2>2, <3>1 DEF WorldType, DecodedCheckpoints
  <2> QED
    BY <2>1, <2>2
<1>6. OwnersInv(op, run', effects, late')
  <2> SUFFICES ASSUME NEW v \in Workers, Owns(op, v)
               PROVE  Holds(op.checkpoint, run'[v], effects, Quiet(run', late'))
    BY DEF OwnersInv
  <2>1. CASE v = w
    BY <1>2, <2>1
  <2>2. CASE v # w
    <3>1. Holds(op.checkpoint, run'[v], effects, Quiet(run, late))
      BY <1>1, <1>2, <2>2 DEF OwnersInv
    <3> QED
      BY <1>4, <3>1 DEF Holds
  <2> QED
    BY <2>1, <2>2
<1>7. CopyInv'
  BY <1>1, <1>2, <1>4, <1>5, <1>6 DEF CopyInv, WorldType
<1>8. GoodStep(effects, op, effects', op')
  BY <1>3 DEF GoodStep, RecordStep, EndStep, Terminal
<1> QED
  BY <1>7, <1>8

\* The row changes, and no request is under way unless its record stays.
LEMMA RowStep ==
  ASSUME CopyInv, run' \in [Workers -> Runs],
         UNCHANGED <<effects, late>>,
         resolution' \in Outcomes \cup {NULL}, faults' \in 0..MaxFaults,
         RowInv(op'),
         op'.state \notin Terminal => Settles(op'.checkpoint, effects),
         SameRecord(op.checkpoint, op'.checkpoint) \/ Quiet(run, late),
         \A v \in Workers : run'[v].at \in Requests => run'[v] = run[v],
         \A v \in Workers :
           Owns(op', v) => Holds(op'.checkpoint, run'[v], effects, Quiet(run, late))
  PROVE  CopyInv'
<1>1. /\ WorldType /\ RowInv(op) /\ EffectsInv(op, effects)
      /\ RequestsInv(op.checkpoint, run, effects, late)
      /\ op.checkpoint \in DecodedCheckpoints /\ op'.checkpoint \in DecodedCheckpoints
  BY DEF CopyInv, RowInv, Rows
<1>2. /\ RequestsInv(op'.checkpoint, run', effects, late)
      /\ Quiet(run, late) => Quiet(run', late)
  BY <1>1, RequestsDwindle
<1>3. OwnersInv(op', run', effects, late)
  BY <1>2 DEF OwnersInv, Holds
<1>4. EffectsInv(op', effects)
  BY <1>1 DEF EffectsInv
<1> QED
  BY <1>1, <1>2, <1>3, <1>4 DEF CopyInv, WorldType

\* What the owner of the row may rely on.
LEMMA OwnerFacts ==
  ASSUME CopyInv, NEW w \in Workers, Owns(op, w)
  PROVE  /\ op.state = "running" /\ op.worker = w
         /\ op.checkpoint \in DecodedCheckpoints /\ ~op.checkpoint.recon
         /\ Settles(op.checkpoint, effects)
         /\ Holds(op.checkpoint, run[w], effects, Quiet(run, late))
         /\ run[w].at \in Engaged => Mem(w) = op.checkpoint
<1>1. op.state = "running" /\ op.worker = w
  BY DEF Owns
<1>2. op.checkpoint \in DecodedCheckpoints /\ ~op.checkpoint.recon
  BY <1>1, RunningRow DEF CopyInv
<1>3. Settles(op.checkpoint, effects)
  BY <1>1 DEF CopyInv, EffectsInv, Terminal
<1>4. Holds(op.checkpoint, run[w], effects, Quiet(run, late))
  BY DEF CopyInv, OwnersInv
<1>5. run[w].at \in Engaged => Mem(w) = op.checkpoint
  BY <1>4 DEF Holds, Mem
<1> QED
  BY <1>1, <1>2, <1>3, <1>4, <1>5

LEMMA IdleRun == Idle \in Runs /\ Idle.at \notin Requests /\ Idle.at \notin Engaged
BY FreshIsDecoded DEF Idle, Runs, Points, Requests, Engaged

\* A run that ends in a state of the row that is not its own any more, or that
\* it holds at a point where it relies on nothing.
LEMMA LeaveStep ==
  ASSUME CopyInv, NEW w \in Workers, Leave(w), UNCHANGED <<op, external, resolution>>,
         faults' \in 0..MaxFaults
  PROVE  CopyInv' /\ GoodStep(effects, op, effects', op')
<1>1. Holds(op.checkpoint, Idle, effects, Quiet(run', late'))
  BY DEF Holds, Idle, Engaged, Steady, InFlight, Refused, Carried
<1>2. run' = [run EXCEPT ![w] = Idle] /\ UNCHANGED <<op, effects, resolution, late>>
  BY DEF Leave, external
<1> QED
  BY <1>1, <1>2, IdleRun, MoveStep

\* A checkpoint of the owner is saved, or refused.
LEMMA SaveStep ==
  ASSUME CopyInv, NEW w \in Workers, NEW cp, NEW asked \in CheckpointStates,
         NEW now, NEW next \in Points \ Requests,
         Save(w, cp, asked, now, next),
         Owns(op, w) =>
           /\ cp \in DecodedCheckpoints /\ ~cp.recon
           /\ asked = "succeeded" => Parses(cp)
           /\ Settles(cp, effects)
           /\ SameRecord(op.checkpoint, cp) \/ Quiet(run, late)
           /\ asked = "running" =>
                Holds(cp, [at |-> next, mem |-> cp], effects, Quiet(run, late))
  PROVE  /\ CopyInv' /\ effects' = effects
         /\ \/ GoodStep(effects, op, effects', op')
            \/ Owns(op, w) /\ op' = Checkpointed(op, cp, asked)
<1>1. /\ UNCHANGED <<effects, late, resolution, faults>>
      /\ resolution \in Outcomes \cup {NULL} /\ faults \in 0..MaxFaults
      /\ run \in [Workers -> Runs]
  BY DEF Save, external, CopyInv, WorldType
<1>2. CASE ~HoldsLease(op, w, now)
  <2>1. Leave(w) /\ UNCHANGED op
    BY <1>2 DEF Save
  <2> QED
    BY <1>1, <2>1, LeaveStep DEF external
<1>3. CASE HoldsLease(op, w, now)
  <2> DEFINE row == Checkpointed(op, cp, asked)
  <2>1. Owns(op, w)
    BY <1>3 DEF HoldsLease
  <2>2. /\ op' = row
        /\ IF row.state = "running" THEN GoTo(w, next, cp) ELSE Leave(w)
    BY <1>3 DEF Save
  <2>3. /\ op.state = "running" /\ op.worker = w
        /\ RowInv(op) /\ op.checkpoint \in DecodedCheckpoints
    BY <2>1, OwnerFacts DEF CopyInv
  <2>4. /\ RowInv(row) /\ SameRecord(cp, row.checkpoint)
        /\ row.worker \in {op.worker, NULL}
        /\ row.state = "running" => asked = "running" /\ row.checkpoint = cp
    BY <2>1, <2>3, SavedRow
  <2> HIDE DEF row
  <2>5. row.checkpoint \in DecodedCheckpoints
    BY <2>4 DEF RowInv, Rows
  <2>6. Settles(row.checkpoint, effects)
    BY <2>1, <2>4, <2>5, SameRecordFacts DEF Settles
  <2>7. SameRecord(op.checkpoint, row.checkpoint) \/ Quiet(run, late)
    <3>1. CASE SameRecord(op.checkpoint, cp)
      BY <2>1, <2>3, <2>4, <2>5, <3>1 DEF SameRecord, DecodedCheckpoints
    <3> QED
      BY <2>1, <3>1
  <2>8. PICK r \in Runs : /\ run' = [run EXCEPT ![w] = r]
                          /\ r.at \notin Requests
                          /\ row.state = "running" => r = [at |-> next, mem |-> cp]
    <3>1. CASE row.state = "running"
      <4>1. [at |-> next, mem |-> cp] \in Runs
        BY <2>1 DEF Runs
      <4> QED
        BY <2>2, <3>1, <4>1 DEF GoTo
    <3>2. CASE row.state # "running"
      BY <2>2, <3>2, IdleRun DEF Leave
    <3> QED
      BY <3>1, <3>2
  <2>9. /\ run' \in [Workers -> Runs] /\ run'[w] = r
        /\ \A v \in Workers : v # w => run'[v] = run[v]
    BY <1>1, <2>8
  <2>10. \A v \in Workers : run'[v].at \in Requests => run'[v] = run[v]
    BY <2>8, <2>9
  <2>11. ASSUME NEW v \in Workers, Owns(row, v)
         PROVE  Holds(row.checkpoint, run'[v], effects, Quiet(run, late))
    <3>1. v = w /\ row.state = "running"
      BY <2>3, <2>4, <2>11, WorkerAssumption DEF Owns
    <3> QED
      BY <2>1, <2>4, <2>8, <2>9, <3>1
  <2>12. CopyInv'
    BY <1>1, <2>2, <2>4, <2>6, <2>7, <2>9, <2>10, <2>11, RowStep
  <2> QED
    BY <1>1, <2>1, <2>2, <2>12 DEF row
<1> QED
  BY <1>2, <1>3

-----------------------------------------------------------------------------
(* Steps of the row, by kind *)

\* The record stays as it is, and the copy does not end with an account.
LEMMA PlainRowStep ==
  ASSUME NEW row, NEW new, NEW e, row.state \notin Terminal,
         SameRecord(row.checkpoint, new.checkpoint),
         new.state \notin {"succeeded", "partial"}
  PROVE  GoodStep(e, row, e, new)
BY DEF GoodStep, RecordStep, EndStep

\* A save that keeps the record.
LEMMA SaveAsIs ==
  ASSUME CopyInv, NEW w \in Workers, NEW asked \in CheckpointStates \ {"succeeded", "partial"},
         NEW now, NEW next \in Points \ Requests,
         Save(w, Mem(w), asked, now, next), run[w].at \in Engaged,
         asked = "running" => next = "idle"
  PROVE  CopyInv' /\ GoodStep(effects, op, effects', op')
<1>1. Owns(op, w) =>
        /\ Mem(w) \in DecodedCheckpoints /\ ~Mem(w).recon
        /\ Settles(Mem(w), effects) /\ SameRecord(op.checkpoint, Mem(w))
  BY OwnerFacts DEF SameRecord, DecodedCheckpoints
<1>2. asked = "running" =>
        Holds(Mem(w), [at |-> next, mem |-> Mem(w)], effects, Quiet(run, late))
  BY DEF Holds, Engaged, Steady, InFlight, Refused, Carried
<1>3. /\ CopyInv' /\ effects' = effects
      /\ \/ GoodStep(effects, op, effects', op')
         \/ Owns(op, w) /\ op' = Checkpointed(op, Mem(w), asked)
  BY <1>1, <1>2, SaveStep
<1>4. ASSUME Owns(op, w), op' = Checkpointed(op, Mem(w), asked)
      PROVE  GoodStep(effects, op, effects', op')
  <2>1. /\ op.state = "running" /\ RowInv(op) /\ Mem(w) = op.checkpoint
    BY <1>4, OwnerFacts DEF CopyInv
  <2>2. /\ SameRecord(Mem(w), op'.checkpoint)
        /\ op'.state \notin {"succeeded", "partial"}
    BY <1>1, <1>4, <2>1, SavedRow
  <2> QED
    BY <1>3, <2>1, <2>2, PlainRowStep DEF Terminal
<1> QED
  BY <1>3, <1>4

LEMMA RenewedRow ==
  ASSUME NEW row, RowInv(row), row.lease # NULL, NEW now \in Int
  PROVE  /\ RowInv(Renewed(row, now))
         /\ Renewed(row, now).checkpoint = row.checkpoint
         /\ Renewed(row, now).state = row.state /\ Renewed(row, now).worker = row.worker
<1> DEFINE until == IF now + LeaseSeconds > row.lease THEN now + LeaseSeconds ELSE row.lease
           new   == Renewed(row, now)
<1>1. row \in Rows /\ row.lease \in Int /\ LeaseSeconds \in Int
  BY LeaseAssumption DEF RowInv, Rows
<1>2. until \in Int
  BY <1>1
<1>3. new = [row EXCEPT !.lease = until]
  BY DEF Renewed
<1> HIDE DEF until, new
<1>4. /\ new \in Rows /\ new.checkpoint = row.checkpoint
      /\ new.state = row.state /\ new.worker = row.worker
  BY <1>1, <1>2, <1>3 DEF Rows
<1> QED
  BY <1>4 DEF RowInv, new

\* The first request for a step leaves: the row becomes the only thing that
\* may be in doubt.
LEMMA FirstRequest ==
  ASSUME CopyInv, NEW w \in Workers, Owns(op, w), Quiet(run, late),
         UNCHANGED <<effects, late, resolution, faults>>,
         RowInv(op'), op'.checkpoint = op.checkpoint, op'.state = "running",
         op'.worker = w,
         run' = [run EXCEPT ![w] = [at |-> "call", mem |-> op.checkpoint]],
         Parses(op.checkpoint), ~AllDone(op.checkpoint),
         op.checkpoint.unknown = CurrentStep(op.checkpoint),
         effects[op.checkpoint.unknown] = 0
  PROVE  CopyInv'
<1> DEFINE cp == op.checkpoint
           r  == [at |-> "call", mem |-> cp]
<1>1. /\ cp \in DecodedCheckpoints /\ r \in Runs /\ WorldType
      /\ EffectsInv(op, effects)
  BY OwnerFacts DEF CopyInv, Runs, Points
<1>2. /\ run' \in [Workers -> Runs] /\ run'[w] = r
      /\ \A v \in Workers : v # w => run'[v] = run[v]
  BY <1>1 DEF WorldType
<1>3. cp.unknown # NULL
  <2>1. CurrentStep(cp) \in CopySteps
    BY <1>1, ProcessedPrefix, CurrentStepIsNext DEF Parses
  <2> QED
    BY <2>1, StepTypes
<1>4. RequestsInv(cp, run', effects, late)
  BY <1>2, <1>3 DEF RequestsInv, Quiet, Requests
<1>5. OwnersInv(op', run', effects, late)
  <2> SUFFICES ASSUME NEW v \in Workers, Owns(op', v)
               PROVE  Holds(cp, run'[v], effects, Quiet(run', late))
    BY DEF OwnersInv
  <2>1. v = w
    BY DEF Owns
  <2> QED
    BY <1>2, <2>1 DEF Holds, Engaged, Steady, InFlight, Refused, Carried
<1>6. EffectsInv(op', effects)
  BY <1>1, OwnerFacts DEF EffectsInv
<1> QED
  BY <1>1, <1>2, <1>4, <1>5, <1>6 DEF CopyInv, WorldType

\* The lease is renewed, refused, or refused for a cancellation.
LEMMA RenewStep ==
  ASSUME CopyInv, NEW w \in Workers, NEW now \in Samples,
         NEW next \in {"mark", "reconcile", "call"},
         Renew(w, now, next), run[w].at \in Engaged,
         Owns(op, w) =>
           /\ Holds(op.checkpoint, [at |-> next, mem |-> Mem(w)], effects, Quiet(run, late))
           /\ next = "call" => Quiet(run, late) /\ effects[op.checkpoint.unknown] = 0
  PROVE  CopyInv' /\ GoodStep(effects, op, effects', op')
<1>1. /\ UNCHANGED <<effects, late, resolution, faults>>
      /\ faults \in 0..MaxFaults /\ resolution \in Outcomes \cup {NULL}
      /\ run \in [Workers -> Runs]
  BY DEF Renew, external, CopyInv, WorldType
<1>2. CASE ~HoldsLease(op, w, now)
  <2>1. Leave(w) /\ UNCHANGED op
    BY <1>2 DEF Renew
  <2> QED
    BY <1>1, <2>1, LeaveStep DEF external
<1>3. CASE HoldsLease(op, w, now) /\ op.cancel
  <2> DEFINE r == [at |-> "stopping", mem |-> Mem(w)]
  <2>1. UNCHANGED op /\ run' = [run EXCEPT ![w] = r] /\ Owns(op, w)
    BY <1>3 DEF Renew, GoTo, HoldsLease
  <2>2. Mem(w) = op.checkpoint /\ op.checkpoint \in DecodedCheckpoints
    BY <2>1, OwnerFacts
  <2>3. r \in Runs /\ r.at \notin Requests
    BY <2>2 DEF Runs, Points, Requests
  <2>4. Holds(op.checkpoint, r, effects, Quiet(run', late'))
    BY <2>2 DEF Holds, Engaged, Steady, InFlight, Refused, Carried
  <2> HIDE DEF r
  <2> QED
    BY <1>1, <2>1, <2>3, <2>4, MoveStep
<1>4. CASE HoldsLease(op, w, now) /\ ~op.cancel
  <2> DEFINE row == Renewed(op, now)
             r   == [at |-> next, mem |-> Mem(w)]
  <2>1. op' = row /\ run' = [run EXCEPT ![w] = r] /\ Owns(op, w) /\ op.lease # NULL
    BY <1>4 DEF Renew, GoTo, HoldsLease, LeaseExpired
  <2>2. /\ op.state = "running" /\ op.worker = w
        /\ Mem(w) = op.checkpoint /\ op.checkpoint \in DecodedCheckpoints
        /\ Settles(op.checkpoint, effects)
    BY <2>1, OwnerFacts
  <2>3. now \in Int
    BY SamplesAreTimes
  <2>4. /\ RowInv(row) /\ row.checkpoint = op.checkpoint
        /\ row.state = "running" /\ row.worker = w
    BY <2>1, <2>2, <2>3, RenewedRow DEF CopyInv
  <2>5. r \in Runs
    BY <2>2 DEF Runs, Points
  <2> HIDE DEF row
  <2>6. CopyInv'
    <3>1. CASE next = "call"
      <4>1. /\ Quiet(run, late) /\ Parses(op.checkpoint) /\ ~AllDone(op.checkpoint)
            /\ op.checkpoint.unknown = CurrentStep(op.checkpoint)
            /\ effects[op.checkpoint.unknown] = 0
        BY <2>1, <3>1 DEF Holds, Steady, InFlight
      <4> QED
        BY <1>1, <2>1, <2>2, <2>4, <3>1, <4>1, FirstRequest
    <3>2. CASE next # "call"
      <4>1. r.at \notin Requests
        BY <3>2 DEF Requests
      <4>2. /\ run' \in [Workers -> Runs] /\ run'[w] = r
            /\ \A v \in Workers : v # w => run'[v] = run[v]
        BY <1>1, <2>1, <2>5
      <4>3. \A v \in Workers : run'[v].at \in Requests => run'[v] = run[v]
        BY <4>1, <4>2
      <4>4. \A v \in Workers :
              Owns(op', v) => Holds(op'.checkpoint, run'[v], effects, Quiet(run, late))
        BY <2>1, <2>4, <4>2 DEF Owns
      <4>5. SameRecord(op.checkpoint, op'.checkpoint)
        BY <2>1, <2>2, <2>4 DEF SameRecord, DecodedCheckpoints
      <4> QED
        BY <1>1, <2>1, <2>2, <2>4, <4>2, <4>3, <4>4, <4>5, RowStep
    <3> QED
      BY <3>1, <3>2
  <2>7. GoodStep(effects, op, effects', op')
    <3>1. SameRecord(op.checkpoint, op'.checkpoint)
      BY <2>1, <2>2, <2>4 DEF SameRecord, DecodedCheckpoints
    <3> QED
      BY <1>1, <2>1, <2>2, <2>4, <3>1, PlainRowStep DEF Terminal
  <2> QED
    BY <2>6, <2>7
<1> QED
  BY <1>2, <1>3, <1>4

-----------------------------------------------------------------------------
(* The actions: claims *)

LEMMA ClaimedRow ==
  ASSUME NEW row, RowInv(row), ~row.checkpoint.recon,
         NEW w \in Workers, NEW now \in Int
  PROVE  /\ RowInv(Claimed(row, w, now))
         /\ Claimed(row, w, now).checkpoint = row.checkpoint
         /\ Claimed(row, w, now).state = "running"
         /\ Claimed(row, w, now).worker = w
<1> DEFINE until == now + LeaseSeconds
           new   == Claimed(row, w, now)
<1>1. until \in Int /\ row \in Rows
  BY LeaseAssumption DEF RowInv, Rows
<1>2. new = [row EXCEPT !.state = "running", !.worker = w, !.lease = until,
                        !.nextRun = NULL]
  BY DEF Claimed
<1>3. "running" \in States /\ "running" \notin {"succeeded"} \cup Waiting
  BY DEF States, Waiting
<1> HIDE DEF until, new
<1>4. /\ new \in Rows /\ new.checkpoint = row.checkpoint
      /\ new.state = "running" /\ new.worker = w
  BY <1>1, <1>2, <1>3 DEF Rows
<1> QED
  BY <1>3, <1>4 DEF RowInv, new

\* A row that can be claimed is open and not flagged.
LEMMA ClaimableRow ==
  ASSUME NEW row, RowInv(row), NEW now, Due(row, now) \/ Abandoned(row, now)
  PROVE  row.state \notin Terminal /\ ~row.checkpoint.recon
BY DEF RowInv, Rows, Due, Abandoned, Terminal, Waiting

LEMMA ClaimStep ==
  ASSUME CopyInv, NEW w \in Workers, NEW now \in Samples,
         NEW point \in {"claimed", "direct"},
         run[w].at \notin Requests, Claimable(op, now),
         op' = Claimed(op, w, now), GoTo(w, point, FreshCheckpoint),
         UNCHANGED <<external, resolution, faults>>
  PROVE  CopyInv' /\ GoodStep(effects, op, effects', op')
<1> DEFINE r == [at |-> point, mem |-> FreshCheckpoint]
<1>1. /\ UNCHANGED <<effects, late, resolution, faults>>
      /\ faults \in 0..MaxFaults /\ resolution \in Outcomes \cup {NULL}
      /\ run \in [Workers -> Runs] /\ RowInv(op) /\ EffectsInv(op, effects)
  BY DEF external, CopyInv, WorldType
<1>2. op.state \notin Terminal /\ ~op.checkpoint.recon
  BY <1>1, ClaimableRow DEF Claimable
<1>3. /\ RowInv(op') /\ op'.checkpoint = op.checkpoint
      /\ op'.state = "running" /\ op'.worker = w
  BY <1>1, <1>2, SamplesAreTimes, ClaimedRow
<1>4. r \in Runs /\ r.at \notin Requests
  BY FreshIsDecoded DEF Runs, Points, Requests
<1>5. /\ run' \in [Workers -> Runs] /\ run'[w] = r
      /\ \A v \in Workers : v # w => run'[v] = run[v]
  BY <1>1, <1>4 DEF GoTo
<1>6. \A v \in Workers : run'[v].at \in Requests => run'[v] = run[v]
  BY <1>4, <1>5
<1>7. \A v \in Workers :
        Owns(op', v) => Holds(op'.checkpoint, run'[v], effects, Quiet(run, late))
  BY <1>3, <1>5 DEF Owns, Holds, Engaged, Steady, InFlight, Refused, Carried
<1>8. SameRecord(op.checkpoint, op'.checkpoint)
  BY <1>1, <1>3 DEF SameRecord, RowInv, Rows, DecodedCheckpoints
<1>9. Settles(op'.checkpoint, effects)
  BY <1>1, <1>2, <1>3 DEF EffectsInv
<1>10. CopyInv'
  BY <1>1, <1>3, <1>5, <1>6, <1>7, <1>8, <1>9, RowStep
<1>11. GoodStep(effects, op, effects', op')
  BY <1>1, <1>2, <1>3, <1>8, PlainRowStep
<1> QED
  BY <1>10, <1>11

\* A step that takes the row away from its owner, or leaves it with the owner it
\* has, and keeps its record.
LEMMA DetachStep ==
  ASSUME CopyInv, UNCHANGED <<run, external, resolution>>, faults' \in 0..MaxFaults,
         RowInv(op'), op.state \notin Terminal,
         SameRecord(op.checkpoint, op'.checkpoint),
         op'.state \notin {"succeeded", "partial"},
         \A v \in Workers : Owns(op', v) =>
           Owns(op, v) /\ op'.checkpoint = op.checkpoint
  PROVE  CopyInv' /\ GoodStep(effects, op, effects', op')
<1>1. /\ UNCHANGED <<run, effects, late, resolution>>
      /\ resolution \in Outcomes \cup {NULL} /\ run \in [Workers -> Runs]
      /\ EffectsInv(op, effects) /\ RowInv(op)
  BY DEF external, CopyInv, WorldType
<1>2. Settles(op'.checkpoint, effects)
  <2>1. /\ op.checkpoint \in DecodedCheckpoints /\ op'.checkpoint \in DecodedCheckpoints
    BY <1>1 DEF RowInv, Rows
  <2>2. /\ Done(op'.checkpoint) = Done(op.checkpoint)
        /\ op'.checkpoint.unknown = op.checkpoint.unknown
    BY <2>1, SameRecordFacts
  <2> QED
    BY <1>1, <2>2 DEF EffectsInv, Settles
<1>3. \A v \in Workers :
        Owns(op', v) => Holds(op'.checkpoint, run'[v], effects, Quiet(run, late))
  BY <1>1 DEF CopyInv, OwnersInv
<1>4. CopyInv'
  BY <1>1, <1>2, <1>3, RowStep
<1>5. GoodStep(effects, op, effects', op')
  BY <1>1, PlainRowStep
<1> QED
  BY <1>4, <1>5

LEMMA QuarantinedRow ==
  ASSUME NEW row, RowInv(row), NEW cp \in DecodedCheckpoints
  PROVE  /\ RowInv(Quarantined(row, cp))
         /\ Quarantined(row, cp).state = "waiting_user"
         /\ SameRecord(cp, Quarantined(row, cp).checkpoint)
BY DEF RowInv, Rows, Quarantined, Released, NeedsReconciliation, SameRecord,
       DecodedCheckpoints, States, Waiting, Terminal

LEMMA PollStep ==
  ASSUME CopyInv, NEW w \in Workers, NEW now \in Samples, Poll(w, now)
  PROVE  CopyInv' /\ GoodStep(effects, op, effects', op')
<1>1. run[w].at \notin Requests /\ RowInv(op) /\ faults \in 0..MaxFaults
      /\ op.checkpoint \in DecodedCheckpoints
  BY DEF Poll, At, Requests, CopyInv, RowInv, Rows, WorldType
<1>2. CASE /\ UncertainCancelled(op, now) /\ op' = Quarantined(op, op.checkpoint)
           /\ UNCHANGED <<run, external, resolution, faults>>
  <2>1. op.state \notin Terminal
    BY <1>1, <1>2, ClaimableRow DEF UncertainCancelled
  <2>2. /\ RowInv(op') /\ op'.state = "waiting_user"
        /\ SameRecord(op.checkpoint, op'.checkpoint)
    BY <1>1, <1>2, QuarantinedRow
  <2>3. \A v \in Workers : ~Owns(op', v)
    BY <2>2 DEF Owns
  <2> QED
    BY <1>1, <1>2, <2>1, <2>2, <2>3, DetachStep
<1>3. CASE /\ Claimable(op, now) /\ op' = Claimed(op, w, now)
           /\ GoTo(w, "claimed", FreshCheckpoint)
           /\ UNCHANGED <<external, resolution, faults>>
  BY <1>1, <1>3, ClaimStep
<1> QED
  BY <1>2, <1>3 DEF Poll

LEMMA ClaimDirectlyStep ==
  ASSUME CopyInv, NEW w \in Workers, NEW now \in Samples, ClaimDirectly(w, now)
  PROVE  CopyInv' /\ GoodStep(effects, op, effects', op')
<1>1. run[w].at \notin Requests
  BY DEF ClaimDirectly, At, Requests
<1> QED
  BY <1>1, ClaimStep DEF ClaimDirectly

-----------------------------------------------------------------------------
(* The actions: users and time *)

LEMMA CancelStep ==
  ASSUME CopyInv, Cancel
  PROVE  CopyInv' /\ GoodStep(effects, op, effects', op')
<1>1. /\ RowInv(op) /\ op \in Rows /\ faults \in 0..MaxFaults /\ Cancellable(op)
      /\ op' = Cancelled(op) /\ UNCHANGED <<run, external, resolution, faults>>
  BY DEF Cancel, CopyInv, RowInv, WorldType
<1>2. /\ RowInv(op') /\ SameRecord(op.checkpoint, op'.checkpoint)
      /\ op'.state \notin {"succeeded", "partial"}
      /\ op'.state = "running" =>
           op.state = "running" /\ op'.worker = op.worker /\ op'.checkpoint = op.checkpoint
  <2>1. CASE CancelKeepsUncertain(op)
    BY <1>1, <2>1 DEF Cancelled, CancelKeepsUncertain, NeedsReconciliation, RowInv, Rows,
       SameRecord, DecodedCheckpoints, Waiting
  <2>2. CASE ~CancelKeepsUncertain(op) /\ op.state = "running"
    BY <1>1, <2>2 DEF Cancelled, RowInv, Rows, SameRecord, DecodedCheckpoints
  <2>3. CASE ~CancelKeepsUncertain(op) /\ op.state # "running"
    BY <1>1, <2>3 DEF Cancelled, Released, RowInv, Rows, SameRecord, DecodedCheckpoints,
       States, Terminal, Waiting
  <2> QED
    BY <2>1, <2>2, <2>3
<1>3. op.state \notin Terminal
  BY <1>1 DEF Cancellable
<1>4. \A v \in Workers : Owns(op', v) =>
        Owns(op, v) /\ op'.checkpoint = op.checkpoint
  BY <1>2 DEF Owns
<1> QED
  BY <1>1, <1>2, <1>3, <1>4, DetachStep

LEMMA ResumeStep ==
  ASSUME CopyInv, Resume
  PROVE  CopyInv' /\ GoodStep(effects, op, effects', op')
<1>1. /\ RowInv(op) /\ op \in Rows /\ faults \in 0..MaxFaults /\ Resumable(op)
      /\ op' = Resumed(op) /\ UNCHANGED <<run, external, resolution, faults>>
  BY DEF Resume, CopyInv, RowInv, WorldType
<1>2. /\ RowInv(op') /\ SameRecord(op.checkpoint, op'.checkpoint)
      /\ op'.state = "queued" /\ op.state = "waiting_user"
  BY <1>1 DEF Resumed, Resumable, RowInv, Rows, SameRecord, DecodedCheckpoints, States,
     Waiting
<1>3. op.state \notin Terminal /\ \A v \in Workers : ~Owns(op', v)
  BY <1>2 DEF Owns, Terminal
<1> QED
  BY <1>1, <1>2, <1>3, DetachStep

LEMMA TickStep ==
  ASSUME CopyInv, Tick
  PROVE  CopyInv' /\ GoodStep(effects, op, effects', op')
<1>1. /\ RowInv(op) /\ op \in Rows /\ faults \in 0..MaxFaults
      /\ op' = [op EXCEPT !.lease = Aged(@), !.nextRun = Aged(@)]
      /\ UNCHANGED <<run, external, resolution>>
  BY DEF Tick, CopyInv, RowInv, WorldType
<1>2. op.state \in {"running"} \cup Waiting
  BY DEF Tick
<1>3. faults' \in 0..MaxFaults
  <2>1. faults' = faults \/ (faults < MaxFaults /\ faults' = faults + 1)
    BY DEF Tick, Fault
  <2> QED
    BY <1>1, <2>1, TimeAssumption
<1>4. /\ RowInv(op') /\ op'.checkpoint = op.checkpoint
      /\ op'.state = op.state /\ op'.worker = op.worker
  <2>1. \A t \in Int \cup {NULL} : Aged(t) \in Int \cup {NULL}
    BY DEF Aged
  <2>2. Aged(op.lease) \in Int \cup {NULL} /\ Aged(op.nextRun) \in Int \cup {NULL}
    BY <1>1, <2>1 DEF Rows
  <2>3. /\ op' \in Rows /\ op'.checkpoint = op.checkpoint
        /\ op'.state = op.state /\ op'.worker = op.worker
    BY <1>1, <2>2 DEF Rows
  <2> QED
    BY <1>1, <2>3 DEF RowInv
<1>5. /\ SameRecord(op.checkpoint, op'.checkpoint) /\ op.state \notin Terminal
      /\ op'.state \notin {"succeeded", "partial"}
  BY <1>1, <1>2, <1>4 DEF SameRecord, Rows, DecodedCheckpoints, Terminal, Waiting
<1>6. \A v \in Workers : Owns(op', v) =>
        Owns(op, v) /\ op'.checkpoint = op.checkpoint
  BY <1>4 DEF Owns
<1> QED
  BY <1>1, <1>3, <1>4, <1>5, <1>6, DetachStep

LEMMA ResolveStep ==
  ASSUME CopyInv, NEW outcome \in Outcomes, ResolveCancelledOutcome(outcome)
  PROVE  CopyInv' /\ GoodStep(effects, op, effects', op')
<1> DEFINE cp == op.checkpoint
           s  == cp.unknown
<1>1. /\ RowInv(op) /\ op \in Rows /\ faults \in 0..MaxFaults
      /\ EffectsInv(op, effects) /\ RequestsInv(cp, run, effects, late)
      /\ run \in [Workers -> Runs] /\ cp \in DecodedCheckpoints
  BY DEF CopyInv, RowInv, Rows, WorldType
<1>2. /\ op.state = "waiting_user" /\ Established(outcome)
      /\ op' = Resolved(op, outcome) /\ resolution' = outcome
      /\ UNCHANGED <<run, effects, late, faults>>
  BY DEF ResolveCancelledOutcome, Resolvable, external
<1>3. \/ outcome = "no_effect" /\ (s # NULL => effects[s] = 0 /\ ~MayStillHappen(s))
      \/ outcome = "effect_confirmed" /\ s # NULL /\ effects[s] > 0
  BY <1>2 DEF Established, Outcomes
<1>4. /\ RowInv(op') /\ op'.checkpoint = [cp EXCEPT !.recon = FALSE, !.unknown = NULL]
      /\ op'.state = IF outcome = "no_effect" THEN "cancelled" ELSE "partial"
      /\ op'.checkpoint.unknown = NULL
  BY <1>1, <1>2 DEF Resolved, Released, RowInv, Rows, DecodedCheckpoints, States, Terminal,
     Waiting
<1>5. Quiet(run, late)
  <2> SUFFICES ASSUME ~Quiet(run, late)
               PROVE  FALSE
    OBVIOUS
  <2>1. s # NULL /\ effects[s] = 0
    BY <1>1 DEF RequestsInv
  <2>2. ~MayStillHappen(s)
    BY <1>1, <1>3, <2>1 DEF EffectsInv, DecodedCheckpoints
  <2>3. CASE late # {}
    BY <1>1, <2>2, <2>3 DEF RequestsInv, MayStillHappen
  <2>4. CASE late = {}
    <3>1. PICK w \in Workers : run[w].at \in Requests
      BY <2>4 DEF Quiet
    <3>2. CurrentStep(run[w].mem) = s
      BY <1>1, <3>1 DEF RequestsInv
    <3> QED
      BY <2>2, <3>1, <3>2 DEF MayStillHappen, Requests, Mem
  <2> QED
    BY <2>3, <2>4
<1>6. op'.state \in Terminal /\ \A v \in Workers : ~Owns(op', v)
  BY <1>4 DEF Owns, Terminal
<1>7. CopyInv'
  BY <1>1, <1>2, <1>4, <1>5, <1>6, RowStep
<1>8. RecordStep(effects, op, op')
  BY <1>3, <1>4 DEF RecordStep
<1>9. EndStep(effects, op, op')
  BY <1>3, <1>4 DEF EndStep
<1>10. op.state \notin Terminal
  BY <1>2 DEF Terminal
<1> QED
  BY <1>2, <1>7, <1>8, <1>9, <1>10 DEF GoodStep

-----------------------------------------------------------------------------
(* The actions: dispatch and what ends a run *)

LEMMA StartStep ==
  ASSUME CopyInv, NEW w \in Workers, run[w].at \notin Requests,
         Start(w, op.checkpoint), UNCHANGED <<op, external, resolution, faults>>
  PROVE  CopyInv' /\ GoodStep(effects, op, effects', op')
<1> DEFINE point == IF op.cancel THEN "cancel"
                    ELSE IF ~Parses(op.checkpoint) THEN "wait" ELSE "step"
           r == [at |-> point, mem |-> op.checkpoint]
<1>1. /\ op.checkpoint \in DecodedCheckpoints /\ faults \in 0..MaxFaults
      /\ UNCHANGED <<op, effects, late, resolution, faults>>
      /\ run' = [run EXCEPT ![w] = r]
  BY DEF CopyInv, RowInv, Rows, WorldType, Start, GoTo, external
<1>2. r \in Runs /\ r.at \notin Requests
  BY <1>1 DEF Runs, Points, Requests
<1>3. Holds(op.checkpoint, r, effects, Quiet(run', late'))
  BY DEF Holds, Engaged, Steady, InFlight, Refused, Carried
<1> HIDE DEF r
<1> QED
  BY <1>1, <1>2, <1>3, MoveStep

\* A worker turns to a point where it relies on nothing.
LEMMA DetourStep ==
  ASSUME CopyInv, NEW w \in Workers, run[w].at \notin Requests,
         NEW point \in Points \ (Engaged \cup Requests), GoTo(w, point, FreshCheckpoint),
         UNCHANGED <<op, external, resolution>>, faults' \in 0..MaxFaults
  PROVE  CopyInv' /\ GoodStep(effects, op, effects', op')
<1> DEFINE r == [at |-> point, mem |-> FreshCheckpoint]
<1>1. run' = [run EXCEPT ![w] = r] /\ UNCHANGED <<op, effects, late, resolution>>
  BY DEF GoTo, external
<1>2. r \in Runs /\ r.at \notin Requests
  BY FreshIsDecoded DEF Runs
<1>3. Holds(op.checkpoint, r, effects, Quiet(run', late'))
  BY DEF Holds, Engaged, Steady, InFlight, Refused, Carried
<1> HIDE DEF r
<1> QED
  BY <1>1, <1>2, <1>3, MoveStep

\* A worker turns to a point where it needs nothing but the checkpoint it holds.
LEMMA GiveUpStep ==
  ASSUME CopyInv, NEW w \in Workers, run[w].at \notin Requests,
         NEW point \in {"failing", "wait"}, NEW cp \in DecodedCheckpoints,
         Owns(op, w) => cp = op.checkpoint,
         GoTo(w, point, cp), UNCHANGED <<op, external, resolution, faults>>
  PROVE  CopyInv' /\ GoodStep(effects, op, effects', op')
<1> DEFINE r == [at |-> point, mem |-> cp]
<1>1. /\ run' = [run EXCEPT ![w] = r] /\ UNCHANGED <<op, effects, late, resolution, faults>>
      /\ faults \in 0..MaxFaults
  BY DEF GoTo, external, CopyInv, WorldType
<1>2. r \in Runs /\ r.at \notin Requests
  BY DEF Runs, Points, Requests
<1>3. Owns(op, w) => Holds(op.checkpoint, r, effects, Quiet(run', late'))
  BY DEF Holds, Engaged, Steady, InFlight, Refused, Carried
<1> HIDE DEF r
<1> QED
  BY <1>1, <1>2, <1>3, MoveStep

LEMMA RowCheckpoint ==
  CopyInv => op.checkpoint \in DecodedCheckpoints
BY DEF CopyInv, RowInv, Rows

LEMMA LoadStep ==
  ASSUME CopyInv, NEW w \in Workers, Load(w) \/ LoadDirectly(w) \/ Unhandled(w)
  PROVE  CopyInv' /\ GoodStep(effects, op, effects', op')
<1>1. /\ run[w].at \notin Requests /\ faults \in 0..MaxFaults
      /\ UNCHANGED <<op, external, resolution, faults>>
  BY DEF Load, LoadDirectly, Unhandled, At, Requests, CopyInv, WorldType
<1>2. CASE Start(w, op.checkpoint)
  BY <1>1, <1>2, StartStep
<1>3. CASE GoTo(w, "raised", FreshCheckpoint)
  BY <1>1, <1>3, DetourStep DEF Points, Engaged, Requests
<1>4. CASE GoTo(w, "failing", op.checkpoint)
  BY <1>1, <1>4, RowCheckpoint, GiveUpStep
<1> QED
  BY <1>2, <1>3, <1>4 DEF Load, LoadDirectly, Unhandled

LEMMA RescueStep ==
  ASSUME CopyInv, NEW w \in Workers, Rescue(w)
  PROVE  CopyInv' /\ GoodStep(effects, op, effects', op')
<1>1. /\ run[w].at \notin Requests /\ faults \in 0..MaxFaults
      /\ UNCHANGED <<op, external, resolution, faults>>
  BY DEF Rescue, At, Requests, CopyInv, WorldType
<1>2. CASE Owns(op, w)
  <2>1. GoTo(w, "failing", op.checkpoint)
    BY <1>2 DEF Rescue
  <2> QED
    BY <1>1, <2>1, RowCheckpoint, GiveUpStep
<1>3. CASE ~Owns(op, w)
  <2>1. GoTo(w, "stopped", FreshCheckpoint)
    BY <1>3 DEF Rescue
  <2> QED
    BY <1>1, <2>1, DetourStep DEF Points, Engaged, Requests
<1> QED
  BY <1>2, <1>3

\* A fault is counted within its bound.
LEMMA FaultCount ==
  ASSUME NEW w, Fault(w), faults \in 0..MaxFaults
  PROVE  faults' \in 0..MaxFaults
BY TimeAssumption DEF Fault

LEMMA InterruptedStep ==
  ASSUME CopyInv, NEW w \in Workers,
         Stop(w) \/ Restart(w) \/ StoreError(w) \/ ClockBackwards(w)
  PROVE  CopyInv' /\ GoodStep(effects, op, effects', op')
<1>1. /\ faults \in 0..MaxFaults /\ UNCHANGED <<op, external, resolution>>
      /\ run[w].at \notin Requests
  BY DEF Stop, Restart, StoreError, ClockBackwards, At, Gone, Saving, Requests, CopyInv,
     WorldType
<1>2. faults' \in 0..MaxFaults
  BY <1>1, FaultCount DEF Stop, Restart, StoreError, ClockBackwards
<1>3. CASE Leave(w)
  BY <1>1, <1>2, <1>3, LeaveStep
<1>4. CASE \E point \in {"raised", "stopped"} : GoTo(w, point, FreshCheckpoint)
  BY <1>1, <1>2, <1>4, DetourStep DEF Points, Engaged, Requests
<1> QED
  BY <1>3, <1>4 DEF Stop, Restart, StoreError, ClockBackwards

LEMMA FailStep ==
  ASSUME CopyInv, NEW w \in Workers, Fail(w)
  PROVE  CopyInv' /\ GoodStep(effects, op, effects', op')
<1>1. /\ run[w].at = "failing" /\ faults \in 0..MaxFaults
      /\ run \in [Workers -> Runs] /\ RowInv(op) /\ resolution \in Outcomes \cup {NULL}
      /\ Leave(w) /\ UNCHANGED <<effects, late, resolution, faults>>
  BY DEF Fail, At, CopyInv, WorldType, external
<1>2. CASE ~Owns(op, w)
  <2>1. UNCHANGED op
    BY <1>2 DEF Fail
  <2> QED
    BY <1>1, <2>1, LeaveStep DEF external
<1>3. CASE Owns(op, w)
  <2>1. /\ op.state = "running" /\ op.worker = w /\ Mem(w) = op.checkpoint
        /\ op.checkpoint \in DecodedCheckpoints /\ ~op.checkpoint.recon
        /\ Settles(op.checkpoint, effects)
    BY <1>1, <1>3, OwnerFacts DEF Engaged
  <2>2. op' = Checkpointed(op, op.checkpoint, "failed")
    BY <1>3, <2>1 DEF Fail
  <2>3. /\ RowInv(op') /\ SameRecord(op.checkpoint, op'.checkpoint)
        /\ op'.state # "running" /\ op'.state \notin {"succeeded", "partial"}
    BY <1>1, <2>1, <2>2, SavedRow DEF CheckpointStates, Terminal
  <2>4. op'.checkpoint \in DecodedCheckpoints
    BY <2>3 DEF RowInv, Rows
  <2>5. Settles(op'.checkpoint, effects)
    BY <2>1, <2>3, <2>4, SameRecordFacts DEF Settles
  <2>6. /\ run' \in [Workers -> Runs]
        /\ \A v \in Workers : run'[v].at \in Requests => run'[v] = run[v]
    BY <1>1, IdleRun DEF Leave
  <2>7. \A v \in Workers : ~Owns(op', v)
    BY <2>3 DEF Owns
  <2>8. CopyInv'
    BY <1>1, <2>3, <2>5, <2>6, <2>7, RowStep
  <2>9. GoodStep(effects, op, effects', op')
    BY <1>1, <2>1, <2>3, PlainRowStep DEF Terminal
  <2> QED
    BY <2>8, <2>9
<1> QED
  BY <1>2, <1>3

-----------------------------------------------------------------------------
(* The actions: the provider and its answers *)

\* A worker whose request may still reach the provider is the only one, and
\* nothing was abandoned.
LEMMA OnlyRequest ==
  ASSUME CopyInv, NEW w \in Workers, run[w].at \in Requests
  PROVE  /\ late = {} /\ \A v \in Workers : run[v].at \in Requests => v = w
         /\ CurrentStep(Mem(w)) = op.checkpoint.unknown
         /\ ~Quiet(run, late)
BY DEF CopyInv, RequestsInv, Quiet, Mem

LEMMA DoubtfulRequest ==
  ASSUME CopyInv, ~Quiet(run, late)
  PROVE  /\ Parses(op.checkpoint) /\ op.checkpoint.unknown # NULL
         /\ op.checkpoint.unknown \in CopySteps
         /\ effects[op.checkpoint.unknown] = 0
BY RowCheckpoint DEF CopyInv, RequestsInv, DecodedCheckpoints

LEMMA SendStep ==
  ASSUME CopyInv, NEW w \in Workers, Send(w)
  PROVE  CopyInv' /\ GoodStep(effects, op, effects', op')
<1> DEFINE r == [at |-> "calling", mem |-> Mem(w)]
<1>1. /\ run[w].at = "call" /\ run[w] \in Runs /\ faults \in 0..MaxFaults
      /\ run' = [run EXCEPT ![w] = r]
      /\ UNCHANGED <<op, effects, late, resolution, faults>>
  BY DEF Send, At, GoTo, external, CopyInv, WorldType
<1>2. r \in Runs /\ r.mem = run[w].mem /\ run[w].at \in Requests
  BY <1>1 DEF Runs, Points, Requests, Mem
<1>3. Owns(op, w) => Holds(op.checkpoint, r, effects, Quiet(run', late'))
  <2> SUFFICES ASSUME Owns(op, w)
               PROVE  Holds(op.checkpoint, r, effects, Quiet(run', late'))
    OBVIOUS
  <2>1. Holds(op.checkpoint, run[w], effects, Quiet(run, late))
    BY OwnerFacts
  <2> QED
    BY <1>1, <2>1 DEF Holds, Engaged, Steady, InFlight, Refused, Carried, Mem
<1> HIDE DEF r
<1> QED
  BY <1>1, <1>2, <1>3, MoveStep

LEMMA AnswerSuccessStep ==
  ASSUME CopyInv, NEW w \in Workers, AnswerSuccess(w)
  PROVE  CopyInv' /\ GoodStep(effects, op, effects', op')
<1> DEFINE r == [at |-> "confirm", mem |-> Mem(w)]
<1>1. /\ run[w].at = "applied" /\ run[w] \in Runs /\ faults \in 0..MaxFaults
      /\ run' = [run EXCEPT ![w] = r]
      /\ UNCHANGED <<op, effects, late, resolution, faults>>
  BY DEF AnswerSuccess, At, GoTo, external, CopyInv, WorldType
<1>2. r \in Runs /\ r.at \notin Requests
  BY <1>1 DEF Runs, Points, Requests, Mem
<1>3. Owns(op, w) => Holds(op.checkpoint, r, effects, Quiet(run', late'))
  <2> SUFFICES ASSUME Owns(op, w)
               PROVE  Holds(op.checkpoint, r, effects, Quiet(run', late'))
    OBVIOUS
  <2>1. Holds(op.checkpoint, run[w], effects, Quiet(run, late))
    BY OwnerFacts
  <2> QED
    BY <1>1, <2>1 DEF Holds, Engaged, Steady, InFlight, Refused, Carried, Mem
<1> HIDE DEF r
<1> QED
  BY <1>1, <1>2, <1>3, MoveStep

LEMMA AnswerRefusalStep ==
  ASSUME CopyInv, NEW w \in Workers, AnswerRefusal(w)
  PROVE  CopyInv' /\ GoodStep(effects, op, effects', op')
<1>1. PICK next \in {"retry", "limited", "reject"} : GoTo(w, next, Mem(w))
  BY DEF AnswerRefusal
<1> DEFINE r == [at |-> next, mem |-> Mem(w)]
<1>2. /\ run[w].at = "calling" /\ run \in [Workers -> Runs] /\ faults \in 0..MaxFaults
      /\ run' = [run EXCEPT ![w] = r]
      /\ UNCHANGED <<op, effects, late, resolution, faults>>
  BY <1>1 DEF AnswerRefusal, At, GoTo, external, CopyInv, WorldType
<1>3. r \in Runs /\ r.at \notin Requests
  BY <1>2 DEF Runs, Points, Requests, Mem
<1>4. Quiet(run', late') /\ effects[op.checkpoint.unknown] = 0
  <2>1. /\ late = {} /\ \A v \in Workers : run[v].at \in Requests => v = w
        /\ ~Quiet(run, late)
    BY <1>2, OnlyRequest DEF Requests
  <2>2. run'[w] = r /\ \A v \in Workers : v # w => run'[v] = run[v]
    BY <1>2
  <2> HIDE DEF r
  <2> QED
    BY <1>2, <1>3, <2>1, <2>2, DoubtfulRequest DEF Quiet
<1>5. Owns(op, w) => Holds(op.checkpoint, r, effects, Quiet(run', late'))
  <2> SUFFICES ASSUME Owns(op, w)
               PROVE  Holds(op.checkpoint, r, effects, Quiet(run', late'))
    OBVIOUS
  <2>1. Holds(op.checkpoint, run[w], effects, Quiet(run, late))
    BY OwnerFacts
  <2> QED
    BY <1>2, <1>4, <2>1 DEF Holds, Engaged, Steady, InFlight, Refused, Carried, Mem
<1> HIDE DEF r
<1> QED
  BY <1>2, <1>3, <1>5, MoveStep

LEMMA AbandonedRequest ==
  ASSUME NEW w \in Workers, Abandon(w), NEW r, r.at \notin Requests
  PROVE  \/ late' = late
         \/ /\ run[w].at \in Requests /\ r.at \notin Requests
            /\ late' = late \cup {CurrentStep(run[w].mem)}
BY DEF Abandon, At, Requests, Mem

LEMMA AnswerUnknownStep ==
  ASSUME CopyInv, NEW w \in Workers, AnswerUnknown(w)
  PROVE  CopyInv' /\ GoodStep(effects, op, effects', op')
<1>1. PICK next \in {"unsure", "wait"} : GoTo(w, next, Mem(w))
  BY DEF AnswerUnknown
<1> DEFINE r == [at |-> next, mem |-> Mem(w)]
<1>2. /\ run[w].at \in {"calling", "applied"} /\ run[w] \in Runs
      /\ faults \in 0..MaxFaults /\ Abandon(w)
      /\ run' = [run EXCEPT ![w] = r]
      /\ UNCHANGED <<op, effects, resolution, faults>>
  BY <1>1 DEF AnswerUnknown, At, GoTo, CopyInv, WorldType
<1>3. r \in Runs /\ r.at \notin Requests
  BY <1>2 DEF Runs, Points, Requests, Mem
<1>4. Owns(op, w) => Holds(op.checkpoint, r, effects, Quiet(run', late'))
  <2> SUFFICES ASSUME Owns(op, w)
               PROVE  Holds(op.checkpoint, r, effects, Quiet(run', late'))
    OBVIOUS
  <2>1. Holds(op.checkpoint, run[w], effects, Quiet(run, late))
    BY OwnerFacts
  <2> QED
    BY <1>2, <2>1 DEF Holds, Engaged, Steady, InFlight, Refused, Carried, Mem
<1> HIDE DEF r
<1>5. \/ late' = late
      \/ /\ run[w].at \in Requests /\ r.at \notin Requests
         /\ late' = late \cup {CurrentStep(run[w].mem)}
  BY <1>2, <1>3, AbandonedRequest
<1> QED
  BY <1>2, <1>3, <1>4, <1>5, MoveStep

LEMMA CrashStep ==
  ASSUME CopyInv, NEW w \in Workers, Crash(w)
  PROVE  CopyInv' /\ GoodStep(effects, op, effects', op')
<1> DEFINE r == [at |-> "down", mem |-> FreshCheckpoint]
<1>1. /\ run' = [run EXCEPT ![w] = r] /\ Abandon(w) /\ faults' \in 0..MaxFaults
      /\ UNCHANGED <<op, effects, resolution>>
  <2>1. [Idle EXCEPT !.at = "down"] = r
    BY DEF Idle
  <2>2. Fault(w) /\ faults \in 0..MaxFaults
    BY DEF Crash, CopyInv, WorldType
  <2> QED
    BY <2>1, <2>2, FaultCount DEF Crash
<1>2. r \in Runs /\ r.at \notin Requests
  BY FreshIsDecoded DEF Runs, Points, Requests
<1>3. Holds(op.checkpoint, r, effects, Quiet(run', late'))
  BY DEF Holds, Engaged, Steady, InFlight, Refused, Carried
<1> HIDE DEF r
<1>4. \/ late' = late
      \/ /\ run[w].at \in Requests /\ r.at \notin Requests
         /\ late' = late \cup {CurrentStep(run[w].mem)}
  BY <1>1, <1>2, AbandonedRequest
<1> QED
  BY <1>1, <1>2, <1>3, <1>4, MoveStep

LEMMA ReconcileStep ==
  ASSUME CopyInv, NEW w \in Workers, Reconcile(w)
  PROVE  CopyInv' /\ GoodStep(effects, op, effects', op')
<1>1. PICK next \in {"confirm", "wait"} :
        /\ GoTo(w, next, Mem(w))
        /\ next = "confirm" => effects[CurrentStep(Mem(w))] > 0
  BY DEF Reconcile
<1> DEFINE r == [at |-> next, mem |-> Mem(w)]
<1>2. /\ run[w].at = "reconcile" /\ run[w] \in Runs /\ faults \in 0..MaxFaults
      /\ run' = [run EXCEPT ![w] = r]
      /\ UNCHANGED <<op, effects, late, resolution, faults>>
  BY <1>1 DEF Reconcile, At, GoTo, external, CopyInv, WorldType
<1>3. r \in Runs /\ r.at \notin Requests
  BY <1>2 DEF Runs, Points, Requests, Mem
<1>4. Owns(op, w) => Holds(op.checkpoint, r, effects, Quiet(run', late'))
  <2> SUFFICES ASSUME Owns(op, w)
               PROVE  Holds(op.checkpoint, r, effects, Quiet(run', late'))
    OBVIOUS
  <2>1. Holds(op.checkpoint, run[w], effects, Quiet(run, late))
    BY OwnerFacts
  <2> QED
    BY <1>1, <1>2, <2>1 DEF Holds, Engaged, Steady, InFlight, Refused, Carried, Mem
<1> HIDE DEF r
<1> QED
  BY <1>2, <1>3, <1>4, MoveStep

\* The only request there is reaches the provider.
LEMMA CarryStep ==
  ASSUME CopyInv, ~Quiet(run, late), UNCHANGED <<op, resolution, faults>>,
         Carry(op.checkpoint.unknown),
         run' \in [Workers -> Runs], Quiet(run', late'),
         \A v \in Workers : run'[v] = run[v] \/
           /\ run[v].at = "calling" /\ run'[v] = [at |-> "applied", mem |-> run[v].mem]
  PROVE  CopyInv' /\ GoodStep(effects, op, effects', op')
<1> DEFINE cp == op.checkpoint
           s  == cp.unknown
<1>1. /\ WorldType /\ RowInv(op) /\ EffectsInv(op, effects)
      /\ OwnersInv(op, run, effects, late)
      /\ Parses(cp) /\ s # NULL /\ s \in CopySteps /\ effects[s] = 0
  BY DoubtfulRequest DEF CopyInv
<1>2. /\ effects' = [effects EXCEPT ![s] = @ + 1] /\ effects' \in [CopySteps -> Nat]
      /\ effects'[s] = 1
      /\ \A other \in CopySteps : other # s => effects'[other] = effects[other]
  BY <1>1 DEF Carry, EffectsInv
<1>3. EffectsInv(op, effects')
  BY <1>1, <1>2 DEF EffectsInv, Settles
<1>4. OwnersInv(op, run', effects', late')
  <2> SUFFICES ASSUME NEW v \in Workers, Owns(op, v)
               PROVE  Holds(cp, run'[v], effects', Quiet(run', late'))
    BY DEF OwnersInv
  <2>1. Holds(cp, run[v], effects, FALSE)
    <3>1. Holds(cp, run[v], effects, Quiet(run, late))
      BY <1>1 DEF OwnersInv
    <3> QED
      BY <3>1 DEF Holds
  <2>2. CASE run'[v] = run[v]
    BY <1>2, <2>1, <2>2 DEF Holds
  <2>3. CASE run[v].at = "calling" /\ run'[v] = [at |-> "applied", mem |-> run[v].mem]
    BY <1>2, <2>1, <2>3 DEF Holds, Engaged, Steady, InFlight, Refused, Carried
  <2> QED
    BY <2>2, <2>3
<1>5. RequestsInv(cp, run', effects', late') /\ late' \subseteq CopySteps
  BY DEF RequestsInv, Quiet
<1>6. CopyInv'
  BY <1>1, <1>3, <1>4, <1>5 DEF CopyInv, WorldType
<1> QED
  BY <1>1, <1>2, <1>6 DEF GoodStep

LEMMA ApplyStep ==
  ASSUME CopyInv, NEW w \in Workers, Apply(w)
  PROVE  CopyInv' /\ GoodStep(effects, op, effects', op')
<1> DEFINE r == [at |-> "applied", mem |-> run[w].mem]
<1>1. /\ run[w].at = "calling" /\ run \in [Workers -> Runs]
      /\ run' = [run EXCEPT ![w] = r]
      /\ UNCHANGED <<op, late, resolution, faults>>
  BY DEF Apply, At, GoTo, Mem, CopyInv, WorldType
<1>2. /\ late = {} /\ \A v \in Workers : run[v].at \in Requests => v = w
      /\ CurrentStep(Mem(w)) = op.checkpoint.unknown /\ ~Quiet(run, late)
  BY <1>1, OnlyRequest DEF Requests
<1>3. r \in Runs /\ r.at \notin Requests
  BY <1>1 DEF Runs, Points, Requests
<1>4. /\ run' \in [Workers -> Runs] /\ run'[w] = r
      /\ \A v \in Workers : v # w => run'[v] = run[v]
  BY <1>1, <1>3
<1>5. Quiet(run', late')
  BY <1>1, <1>2, <1>3, <1>4 DEF Quiet
<1>6. Carry(op.checkpoint.unknown)
  BY <1>2 DEF Apply
<1> QED
  BY <1>1, <1>2, <1>4, <1>5, <1>6, CarryStep

LEMMA ApplyLateStep ==
  ASSUME CopyInv, NEW s \in CopySteps, ApplyLate(s)
  PROVE  CopyInv' /\ GoodStep(effects, op, effects', op')
<1>1. /\ s \in late /\ Carry(s) /\ late' = late \ {s}
      /\ UNCHANGED <<op, run, resolution, faults>> /\ run \in [Workers -> Runs]
  BY DEF ApplyLate, CopyInv, WorldType
<1>2. /\ late \subseteq {op.checkpoint.unknown} /\ ~Quiet(run, late)
      /\ \A w \in Workers : run[w].at \notin Requests
  BY <1>1 DEF CopyInv, RequestsInv, Quiet
<1>3. s = op.checkpoint.unknown /\ Quiet(run', late')
  BY <1>1, <1>2 DEF Quiet
<1> QED
  BY <1>1, <1>2, <1>3, CarryStep

-----------------------------------------------------------------------------
(* The actions: one step of the plan *)

\* What the owner of a row knows at a point where the checkpoint is sound.
LEMMA SteadyOwner ==
  ASSUME CopyInv, NEW w \in Workers, Owns(op, w), run[w].at \in Steady
  PROVE  /\ Mem(w) = op.checkpoint /\ Parses(op.checkpoint)
         /\ op.state = "running" /\ RowInv(op) /\ op.state \notin Terminal
         /\ op.checkpoint \in DecodedCheckpoints /\ ~op.checkpoint.recon
         /\ Settles(op.checkpoint, effects)
<1>1. run[w].at \in Engaged
  BY DEF Engaged, Steady
<1> QED
  BY <1>1, OwnerFacts DEF Holds, CopyInv, Terminal

\* ... and one where its step is in doubt.
LEMMA InFlightOwner ==
  ASSUME CopyInv, NEW w \in Workers, Owns(op, w), run[w].at \in InFlight
  PROVE  /\ run[w].at \in Steady /\ ~AllDone(op.checkpoint)
         /\ op.checkpoint.unknown = CurrentStep(op.checkpoint)
         /\ op.checkpoint.unknown # NULL /\ op.checkpoint.unknown \in CopySteps
         /\ run[w].at \in Refused => Quiet(run, late) /\ effects[op.checkpoint.unknown] = 0
         /\ run[w].at \in Carried => Quiet(run, late) /\ effects[op.checkpoint.unknown] > 0
<1>1. run[w].at \in Steady /\ run[w].at # "step"
  BY DEF InFlight
<1>2. Holds(op.checkpoint, run[w], effects, Quiet(run, late))
  BY OwnerFacts
<1>3. ~AllDone(op.checkpoint) /\ op.checkpoint.unknown = CurrentStep(op.checkpoint)
  BY <1>1, <1>2 DEF Holds
<1>4. op.checkpoint \in DecodedCheckpoints /\ Parses(op.checkpoint)
  BY <1>1, SteadyOwner
<1>5. CurrentStep(op.checkpoint) \in CopySteps
  BY <1>3, <1>4, ProcessedPrefix, CurrentStepIsNext DEF Parses
<1>6. op.checkpoint.unknown # NULL
  BY <1>3, <1>5, StepTypes
<1>7. run[w].at \in Carried => Quiet(run, late) /\ effects[op.checkpoint.unknown] > 0
  BY <1>2, DoubtfulRequest DEF Holds
<1> QED
  BY <1>1, <1>2, <1>3, <1>5, <1>6, <1>7 DEF Holds

LEMMA GiveBackStep ==
  ASSUME CopyInv, NEW w \in Workers, NEW now \in Samples,
         SaveCancelled(w, now) \/ SaveStop(w, now) \/ SaveWait(w, now)
  PROVE  CopyInv' /\ GoodStep(effects, op, effects', op')
<1>1. run[w].at \in Engaged
  BY DEF SaveCancelled, SaveStop, SaveWait, At, Engaged
<1>2. PICK asked \in {"cancelled", "running", "waiting_user"} :
        Save(w, Mem(w), asked, now, "idle")
  BY DEF SaveCancelled, SaveStop, SaveWait
<1>3. /\ asked \in CheckpointStates \ {"succeeded", "partial"}
      /\ "idle" \in Points \ Requests
  BY DEF CheckpointStates, Terminal, Points, Requests
<1> QED
  BY <1>1, <1>2, <1>3, SaveAsIs

LEMMA FinishStep ==
  ASSUME CopyInv, NEW w \in Workers, NEW now \in Samples, Finish(w, now)
  PROVE  CopyInv' /\ GoodStep(effects, op, effects', op')
<1> DEFINE cp    == op.checkpoint
           asked == FinalState(Mem(w))
<1>1. /\ run[w].at \in Steady /\ AllDone(Mem(w))
      /\ Save(w, Mem(w), asked, now, "idle")
  BY DEF Finish, At, Steady
<1>2. /\ asked \in {"succeeded", "partial"} /\ asked \in CheckpointStates
      /\ asked = "succeeded" => Mem(w).issues = <<>>
      /\ "idle" \in Points \ Requests
  BY DEF FinalState, CheckpointStates, Terminal, Points, Requests
<1>3. Owns(op, w) =>
        /\ Mem(w) = cp /\ cp \in DecodedCheckpoints /\ ~cp.recon /\ Parses(cp)
        /\ Settles(cp, effects) /\ SameRecord(cp, cp)
        /\ op.state = "running" /\ RowInv(op) /\ op.state \notin Terminal
  BY <1>1, SteadyOwner DEF SameRecord, DecodedCheckpoints
<1> HIDE DEF asked
<1>4. /\ CopyInv' /\ effects' = effects
      /\ \/ GoodStep(effects, op, effects', op')
         \/ Owns(op, w) /\ op' = Checkpointed(op, Mem(w), asked)
  BY <1>1, <1>2, <1>3, SaveStep
<1>5. ASSUME Owns(op, w), op' = Checkpointed(op, Mem(w), asked)
      PROVE  GoodStep(effects, op, effects', op')
  <2>1. /\ SameRecord(cp, op'.checkpoint)
        /\ op'.state \in {"succeeded", "partial"} =>
             asked = op'.state /\ op'.checkpoint = cp
    BY <1>2, <1>3, <1>5, SavedRow
  <2>2. RecordStep(effects, op, op')
    BY <2>1 DEF RecordStep
  <2>3. EndStep(effects, op, op')
    BY <1>1, <1>2, <1>3, <1>5, <2>1 DEF EndStep
  <2> QED
    BY <1>3, <1>4, <1>5, <2>2, <2>3 DEF GoodStep
<1> QED
  BY <1>4, <1>5

LEMMA BeginStep ==
  ASSUME CopyInv, NEW w \in Workers, NEW now \in Samples, Begin(w, now)
  PROVE  CopyInv' /\ GoodStep(effects, op, effects', op')
<1> DEFINE next == IF Mem(w).unknown = CurrentStep(Mem(w)) THEN "reconcile" ELSE "mark"
<1>1. /\ run[w].at \in Steady /\ run[w].at \in Engaged /\ ~AllDone(Mem(w))
      /\ Renew(w, now, next)
  BY DEF Begin, At, Steady, Engaged
<1>2. ASSUME Owns(op, w)
      PROVE  Holds(op.checkpoint, [at |-> next, mem |-> Mem(w)], effects, Quiet(run, late))
  BY <1>1, <1>2, SteadyOwner DEF Holds, Engaged, Steady, InFlight, Refused, Carried
<1>3. next \in {"mark", "reconcile"}
  OBVIOUS
<1> HIDE DEF next
<1> QED
  BY <1>1, <1>2, <1>3, RenewStep

LEMMA AuthoriseStep ==
  ASSUME CopyInv, NEW w \in Workers, NEW now \in Samples, Authorise(w, now)
  PROVE  CopyInv' /\ GoodStep(effects, op, effects', op')
<1>1. /\ run[w].at = "authorise" /\ run[w].at \in Engaged /\ run[w].at \in InFlight
      /\ run[w].at \in Refused /\ Renew(w, now, "call")
  BY DEF Authorise, At, Engaged, InFlight, Steady, Refused
<1>2. ASSUME Owns(op, w)
      PROVE  /\ Holds(op.checkpoint, [at |-> "call", mem |-> Mem(w)], effects,
                      Quiet(run, late))
             /\ Quiet(run, late) /\ effects[op.checkpoint.unknown] = 0
  BY <1>1, <1>2, SteadyOwner, InFlightOwner
  DEF Holds, Engaged, Steady, InFlight, Refused, Carried
<1> QED
  BY <1>1, <1>2, RenewStep

LEMMA DoubtStep ==
  ASSUME CopyInv, NEW w \in Workers, NEW now \in Samples, Doubt(w, now)
  PROVE  CopyInv' /\ GoodStep(effects, op, effects', op')
<1>1. /\ run[w].at \in Engaged /\ run[w].at \in InFlight /\ Renew(w, now, "reconcile")
  BY DEF Doubt, At, Engaged, InFlight, Steady
<1>2. ASSUME Owns(op, w)
      PROVE  Holds(op.checkpoint, [at |-> "reconcile", mem |-> Mem(w)], effects,
                   Quiet(run, late))
  BY <1>1, <1>2, SteadyOwner, InFlightOwner
  DEF Holds, Engaged, Steady, InFlight, Refused, Carried
<1> QED
  BY <1>1, <1>2, RenewStep

\* The step that comes next is not recorded as carried out.
LEMMA NextIsNotDone ==
  ASSUME NEW cp \in DecodedCheckpoints, Parses(cp), ~AllDone(cp), cp.unknown = NULL
  PROVE  CurrentStep(cp) \in CopySteps /\ CurrentStep(cp) \notin Done(cp)
<1> DEFINE n == Cardinality(Processed(cp))
<1>1. n \in 0..NumEntries /\ Processed(cp) = 1..n
  BY ProcessedPrefix DEF Parses
<1> HIDE DEF n
<1>2. CurrentStep(cp) \in CopySteps /\ CurrentStep(cp) \notin Elements(cp.confirmed)
  BY <1>1, CurrentStepIsNext DEF Processed
<1>3. TargetIsNext(cp) => ~cp.target
  BY PlanAssumption DEF TargetIsNext, Target
<1>4. ~TargetIsNext(cp) => CurrentStep(cp) # Target
  BY <1>1, CurrentStepIsNext, StepTypes
<1> QED
  BY <1>2, <1>3, <1>4 DEF Done

LEMMA MarkStep ==
  ASSUME CopyInv, NEW w \in Workers, NEW now \in Samples, Mark(w, now)
  PROVE  CopyInv' /\ GoodStep(effects, op, effects', op')
<1> DEFINE cp == op.checkpoint
           m  == Marked(Mem(w))
<1>1. /\ run[w].at = "mark" /\ run[w].at \in Steady
      /\ Save(w, m, "running", now, "authorise")
  BY DEF Mark, At, Steady
<1>2. "running" \in CheckpointStates /\ "authorise" \in Points \ Requests
  BY DEF CheckpointStates, Points, Requests
<1>3. ASSUME Owns(op, w)
      PROVE  /\ m = Marked(cp) /\ m \in DecodedCheckpoints /\ ~m.recon /\ m.unknown # NULL
             /\ Parses(cp) /\ ~AllDone(cp) /\ cp.unknown # CurrentStep(cp)
             /\ Settles(m, effects) /\ Quiet(run, late)
             /\ Holds(m, [at |-> "authorise", mem |-> m], effects, Quiet(run, late))
             /\ RowInv(op) /\ op.state = "running" /\ op.state \notin Terminal
  <2>1. /\ Mem(w) = cp /\ Parses(cp) /\ op.state = "running" /\ RowInv(op)
        /\ cp \in DecodedCheckpoints /\ ~cp.recon /\ Settles(cp, effects)
        /\ op.state \notin Terminal
    BY <1>1, <1>3, SteadyOwner
  <2>2. ~AllDone(cp) /\ cp.unknown # CurrentStep(cp)
    BY <1>1, <1>3, OwnerFacts DEF Holds, Steady
  <2>3. m = Marked(cp)
    BY <2>1
  <2> HIDE DEF m
  <2>4. /\ cp.unknown = NULL /\ m \in DecodedCheckpoints /\ Parses(m) /\ ~AllDone(m)
        /\ CurrentStep(m) = CurrentStep(cp) /\ m.unknown = CurrentStep(cp)
        /\ m.confirmed = cp.confirmed /\ m.target = cp.target /\ m.recon = cp.recon
    BY <2>1, <2>2, <2>3, MarkedCheckpoint
  <2>5. CurrentStep(cp) \in CopySteps /\ CurrentStep(cp) \notin Done(cp)
    BY <2>1, <2>2, <2>4, NextIsNotDone
  <2>6. Done(m) = Done(cp)
    BY <2>4 DEF Done
  <2>7. Quiet(run, late)
    BY <2>4, DoubtfulRequest
  <2>8. effects[CurrentStep(cp)] = 0
    <3>1. CurrentStep(cp) # NULL /\ effects \in [CopySteps -> Nat]
      BY <2>5, StepTypes DEF CopyInv, EffectsInv
    <3>2. ~(effects[CurrentStep(cp)] > 0)
      BY <2>1, <2>4, <2>5, <3>1 DEF Settles
    <3> QED
      BY <2>5, <3>1, <3>2
  <2>9. Settles(m, effects)
    BY <2>1, <2>4, <2>6, StepTypes DEF Settles
  <2>10. Holds(m, [at |-> "authorise", mem |-> m], effects, Quiet(run, late))
    BY <2>4, <2>7, <2>8 DEF Holds, Engaged, Steady, InFlight, Refused, Carried
  <2> QED
    BY <2>1, <2>2, <2>3, <2>4, <2>5, <2>7, <2>9, <2>10, StepTypes
<1> HIDE DEF m
<1>4. /\ CopyInv' /\ effects' = effects
      /\ \/ GoodStep(effects, op, effects', op')
         \/ Owns(op, w) /\ op' = Checkpointed(op, m, "running")
  BY <1>1, <1>2, <1>3, SaveStep
<1>5. ASSUME Owns(op, w), op' = Checkpointed(op, m, "running")
      PROVE  GoodStep(effects, op, effects', op')
  <2>1. /\ SameRecord(m, op'.checkpoint) /\ op'.state \notin Terminal
    BY <1>2, <1>3, <1>5, SavedRow
  <2>2. RecordStep(effects, op, op')
    BY <1>3, <1>5, <2>1 DEF RecordStep
  <2>3. EndStep(effects, op, op')
    BY <2>1 DEF EndStep, Terminal
  <2> QED
    BY <1>3, <1>4, <1>5, <2>2, <2>3 DEF GoodStep
<1> QED
  BY <1>4, <1>5

LEMMA ConfirmStep ==
  ASSUME CopyInv, NEW w \in Workers, NEW now \in Samples, Confirm(w, now)
  PROVE  CopyInv' /\ GoodStep(effects, op, effects', op')
<1> DEFINE cp == op.checkpoint
           c  == Confirmed(Mem(w))
<1>1. /\ run[w].at \in Steady /\ run[w].at \in InFlight /\ run[w].at \in Carried
      /\ Save(w, c, "running", now, "step")
  BY DEF Confirm, At, Steady, InFlight, Carried
<1>2. "running" \in CheckpointStates /\ "step" \in Points \ Requests
  BY DEF CheckpointStates, Points, Requests
<1>3. ASSUME Owns(op, w)
      PROVE  /\ c = Confirmed(cp) /\ c \in DecodedCheckpoints /\ ~c.recon /\ c.unknown = NULL
             /\ Parses(cp) /\ cp.unknown # NULL /\ effects[cp.unknown] > 0
             /\ Settles(c, effects) /\ Quiet(run, late)
             /\ Holds(c, [at |-> "step", mem |-> c], effects, Quiet(run, late))
             /\ RowInv(op) /\ op.state = "running" /\ op.state \notin Terminal
  <2>1. /\ Mem(w) = cp /\ Parses(cp) /\ op.state = "running" /\ RowInv(op)
        /\ cp \in DecodedCheckpoints /\ ~cp.recon /\ Settles(cp, effects)
        /\ op.state \notin Terminal
    BY <1>1, <1>3, SteadyOwner
  <2>2. cp.unknown # NULL /\ effects[cp.unknown] > 0 /\ Quiet(run, late)
    BY <1>1, <1>3, InFlightOwner
  <2>3. c = Confirmed(cp)
    BY <2>1
  <2> HIDE DEF c
  <2>4. /\ c \in DecodedCheckpoints /\ Parses(c) /\ c.unknown = NULL /\ c.recon = cp.recon
        /\ \/ /\ cp.unknown = Target /\ c.target /\ c.confirmed = cp.confirmed
           \/ /\ cp.unknown \in Entries /\ c.target = cp.target
              /\ Elements(c.confirmed) = Elements(cp.confirmed) \cup {cp.unknown}
    BY <2>1, <2>2, <2>3, ConfirmedCheckpoint
  <2>5. Done(cp) \cup {cp.unknown} \subseteq Done(c)
    BY <2>4 DEF Done
  <2>6. Settles(c, effects)
    BY <2>1, <2>5 DEF Settles
  <2>7. Holds(c, [at |-> "step", mem |-> c], effects, Quiet(run, late))
    BY <2>4 DEF Holds, Engaged, Steady, InFlight, Refused, Carried
  <2> QED
    BY <2>1, <2>2, <2>3, <2>4, <2>6, <2>7
<1> HIDE DEF c
<1>4. /\ CopyInv' /\ effects' = effects
      /\ \/ GoodStep(effects, op, effects', op')
         \/ Owns(op, w) /\ op' = Checkpointed(op, c, "running")
  BY <1>1, <1>2, <1>3, SaveStep
<1>5. ASSUME Owns(op, w), op' = Checkpointed(op, c, "running")
      PROVE  GoodStep(effects, op, effects', op')
  <2>1. op'.checkpoint = c /\ op'.state \notin {"succeeded", "partial"}
    BY <1>2, <1>3, <1>5, SavedRow
  <2>2. RecordStep(effects, op, op')
    BY <1>3, <1>5, <2>1 DEF RecordStep
  <2>3. EndStep(effects, op, op')
    BY <2>1 DEF EndStep
  <2> QED
    BY <1>3, <1>4, <1>5, <2>2, <2>3 DEF GoodStep
<1> QED
  BY <1>4, <1>5

LEMMA RejectStep ==
  ASSUME CopyInv, NEW w \in Workers, NEW now \in Samples, Reject(w, now)
  PROVE  CopyInv' /\ GoodStep(effects, op, effects', op')
<1> DEFINE cp    == op.checkpoint
           c     == Rejected(Mem(w))
           asked == IF CurrentStep(Mem(w)) = Target THEN "failed" ELSE "running"
<1>1. /\ run[w].at \in Steady /\ run[w].at \in InFlight /\ run[w].at \in Refused
      /\ Save(w, c, asked, now, "step")
  BY DEF Reject, At, Steady, InFlight, Refused
<1>2. asked \in CheckpointStates /\ "step" \in Points \ Requests /\ asked # "succeeded"
  BY DEF CheckpointStates, Terminal, Points, Requests
<1>3. ASSUME Owns(op, w)
      PROVE  /\ c = Rejected(cp) /\ c \in DecodedCheckpoints /\ ~c.recon /\ c.unknown = NULL
             /\ Parses(cp) /\ cp.unknown # NULL /\ effects[cp.unknown] = 0
             /\ Settles(c, effects) /\ Quiet(run, late)
             /\ asked = "running" =>
                  Holds(c, [at |-> "step", mem |-> c], effects, Quiet(run, late))
             /\ cp.unknown = Target => asked \in Terminal
             /\ RowInv(op) /\ op.state = "running" /\ op.state \notin Terminal
  <2>1. /\ Mem(w) = cp /\ Parses(cp) /\ op.state = "running" /\ RowInv(op)
        /\ cp \in DecodedCheckpoints /\ ~cp.recon /\ Settles(cp, effects)
        /\ op.state \notin Terminal
    BY <1>1, <1>3, SteadyOwner
  <2>2. /\ cp.unknown # NULL /\ effects[cp.unknown] = 0 /\ Quiet(run, late)
        /\ cp.unknown = CurrentStep(cp)
    BY <1>1, <1>3, InFlightOwner
  <2>3. /\ c = Rejected(cp)
        /\ asked = IF cp.unknown = Target THEN "failed" ELSE "running"
    BY <2>1, <2>2
  <2> HIDE DEF c, asked
  <2>4. /\ c \in DecodedCheckpoints /\ c.unknown = NULL /\ c.recon = cp.recon
        /\ c.confirmed = cp.confirmed /\ c.target = cp.target
        /\ cp.unknown # Target => Parses(c)
    BY <2>1, <2>2, <2>3, RejectedCheckpoint
  <2>5. Done(c) = Done(cp)
    BY <2>4 DEF Done
  <2>6. Settles(c, effects)
    BY <2>1, <2>2, <2>5 DEF Settles
  <2>7. asked = "running" =>
          Holds(c, [at |-> "step", mem |-> c], effects, Quiet(run, late))
    BY <2>3, <2>4 DEF Holds, Engaged, Steady, InFlight, Refused, Carried
  <2> QED
    BY <2>1, <2>2, <2>3, <2>4, <2>6, <2>7 DEF Terminal
<1> HIDE DEF c
<1>4. /\ CopyInv' /\ effects' = effects
      /\ \/ GoodStep(effects, op, effects', op')
         \/ Owns(op, w) /\ op' = Checkpointed(op, c, asked)
  BY <1>1, <1>2, <1>3, SaveStep
<1>5. ASSUME Owns(op, w), op' = Checkpointed(op, c, asked)
      PROVE  GoodStep(effects, op, effects', op')
  <2>0. asked \notin {"succeeded", "partial"}
    OBVIOUS
  <2> HIDE DEF asked
  <2>1. /\ op'.checkpoint = c /\ op'.state \notin {"succeeded", "partial"}
        /\ asked \in Terminal => op'.state \in Terminal
    BY <1>2, <1>3, <1>5, <2>0, SavedRow
  <2>2. RecordStep(effects, op, op')
    BY <1>3, <1>5, <2>1 DEF RecordStep
  <2>3. EndStep(effects, op, op')
    BY <2>1 DEF EndStep
  <2> QED
    BY <1>3, <1>4, <1>5, <2>2, <2>3 DEF GoodStep
<1> QED
  BY <1>4, <1>5

LEMMA ScheduleStep ==
  ASSUME CopyInv, NEW w \in Workers, NEW now \in Samples,
         run[w].at \in {"retry", "limited"},
         NEW asked \in Waiting, NEW delay \in Int, Schedule(w, asked, now, delay)
  PROVE  CopyInv' /\ GoodStep(effects, op, effects', op')
<1> DEFINE cp == op.checkpoint
           c  == Retried(Mem(w))
<1>1. /\ run[w].at \in Steady /\ run[w].at \in InFlight /\ run[w].at \in Refused
      /\ "idle" \in Points \ Requests /\ "failed" \in CheckpointStates
  BY DEF Steady, InFlight, Refused, Points, Requests, CheckpointStates, Terminal
<1>2. ASSUME Owns(op, w)
      PROVE  /\ c = Retried(cp) /\ c \in DecodedCheckpoints /\ ~c.recon /\ c.unknown = NULL
             /\ Parses(cp) /\ Parses(c) /\ cp.unknown # NULL /\ effects[cp.unknown] = 0
             /\ Settles(c, effects) /\ Quiet(run, late)
             /\ RowInv(op) /\ op.state = "running" /\ op.state \notin Terminal
  <2>1. /\ Mem(w) = cp /\ Parses(cp) /\ op.state = "running" /\ RowInv(op)
        /\ cp \in DecodedCheckpoints /\ ~cp.recon /\ Settles(cp, effects)
        /\ op.state \notin Terminal
    BY <1>1, <1>2, SteadyOwner
  <2>2. cp.unknown # NULL /\ effects[cp.unknown] = 0 /\ Quiet(run, late)
    BY <1>1, <1>2, InFlightOwner
  <2>3. c = Retried(cp)
    BY <2>1
  <2> HIDE DEF c
  <2>4. /\ c \in DecodedCheckpoints /\ Parses(c) /\ c.unknown = NULL /\ c.recon = cp.recon
        /\ c.confirmed = cp.confirmed /\ c.target = cp.target
    BY <2>1, <2>3, RetriedCheckpoint
  <2>5. Done(c) = Done(cp)
    BY <2>4 DEF Done
  <2>6. Settles(c, effects)
    BY <2>1, <2>2, <2>5 DEF Settles
  <2> QED
    BY <2>1, <2>2, <2>3, <2>4, <2>6
<1> HIDE DEF c
<1>3. CASE BudgetExhausted(c)
  <2>1. Save(w, c, "failed", now, "idle")
    BY <1>3 DEF Schedule, c
  <2>2. /\ CopyInv' /\ effects' = effects
        /\ \/ GoodStep(effects, op, effects', op')
           \/ Owns(op, w) /\ op' = Checkpointed(op, c, "failed")
    BY <1>1, <1>2, <2>1, SaveStep
  <2>3. ASSUME Owns(op, w), op' = Checkpointed(op, c, "failed")
        PROVE  GoodStep(effects, op, effects', op')
    <3>1. /\ op'.checkpoint = c /\ op'.state \in Terminal
          /\ op'.state \notin {"succeeded", "partial"}
      BY <1>1, <1>2, <2>3, SavedRow DEF Terminal
    <3>2. RecordStep(effects, op, op')
      BY <1>2, <2>3, <3>1 DEF RecordStep
    <3> QED
      BY <1>2, <2>2, <2>3, <3>1, <3>2 DEF GoodStep, EndStep
  <2> QED
    BY <2>2, <2>3
<1>4. CASE ~BudgetExhausted(c)
  <2>1. /\ IF HoldsLease(op, w, now) THEN op' = Scheduled(op, c, asked, now + delay)
           ELSE UNCHANGED op
        /\ Leave(w) /\ UNCHANGED <<external, resolution, faults>>
    BY <1>4 DEF Schedule, c
  <2>2. /\ UNCHANGED <<effects, late, resolution, faults>>
        /\ resolution \in Outcomes \cup {NULL} /\ faults \in 0..MaxFaults
        /\ run \in [Workers -> Runs]
    BY <2>1 DEF external, CopyInv, WorldType
  <2>3. CASE ~HoldsLease(op, w, now)
    BY <2>1, <2>2, <2>3, LeaveStep
  <2>4. CASE HoldsLease(op, w, now)
    <3>1. Owns(op, w) /\ op' = Scheduled(op, c, asked, now + delay)
      BY <2>1, <2>4 DEF HoldsLease
    <3>2. now + delay \in Int
      BY SamplesAreTimes
    <3>3. /\ RowInv(op') /\ op'.checkpoint = c /\ op'.state \in {asked, "cancelled"}
      BY <1>2, <3>1, <3>2, ScheduledRow
    <3>4. op'.state # "running" /\ op'.state \notin {"succeeded", "partial"}
      BY <3>3 DEF Waiting
    <3>5. /\ run' \in [Workers -> Runs]
          /\ \A v \in Workers : run'[v].at \in Requests => run'[v] = run[v]
      BY <2>1, <2>2, IdleRun DEF Leave
    <3>6. \A v \in Workers : ~Owns(op', v)
      BY <3>4 DEF Owns
    <3>7. CopyInv'
      BY <1>2, <2>2, <3>1, <3>3, <3>5, <3>6, RowStep
    <3>8. RecordStep(effects, op, op')
      BY <1>2, <1>4, <3>1, <3>3 DEF RecordStep
    <3> QED
      BY <1>2, <2>2, <3>1, <3>4, <3>7, <3>8 DEF GoodStep, EndStep
  <2> QED
    BY <2>3, <2>4
<1> QED
  BY <1>3, <1>4

-----------------------------------------------------------------------------
(* The invariant *)

LEMMA InitInv == Init => CopyInv
<1> SUFFICES ASSUME Init
             PROVE  CopyInv
  OBVIOUS
<1>1. PICK cp \in Stored : op = QueuedWith(cp)
  BY DEF Init
<1>2. cp \in DecodedCheckpoints /\ ~cp.recon
  BY <1>1, StoredAssumption
<1>3. op.state = "queued" /\ op.checkpoint = cp /\ op \in Rows
  BY <1>1, <1>2 DEF QueuedWith, Rows, States
<1>4. RowInv(op)
  BY <1>2, <1>3 DEF RowInv, Waiting
<1>5. /\ effects \in [CopySteps -> Nat] /\ \A s \in CopySteps : effects[s] = 0
  BY DEF Init
<1>6. EffectsInv(op, effects)
  BY <1>5 DEF EffectsInv, Settles
<1>7. /\ run \in [Workers -> Runs] /\ \A w \in Workers : run[w] = Idle
  BY IdleRun DEF Init
<1>8. WorldType
  BY <1>7, TimeAssumption DEF Init, WorldType
<1>9. Quiet(run, late)
  BY <1>7, IdleRun DEF Init, Quiet
<1>10. OwnersInv(op, run, effects, late)
  BY <1>3 DEF OwnersInv, Owns
<1>11. RequestsInv(op.checkpoint, run, effects, late)
  BY <1>9 DEF RequestsInv, Quiet
<1> QED
  BY <1>4, <1>6, <1>8, <1>10, <1>11 DEF CopyInv

LEMMA WorkerGoodStep ==
  ASSUME CopyInv, NEW w \in Workers, WorkerStep(w)
  PROVE  CopyInv' /\ GoodStep(effects, op, effects', op')
<1>1. CASE \E now \in Samples : Poll(w, now) \/ ClaimDirectly(w, now)
  BY <1>1, PollStep, ClaimDirectlyStep
<1>2. CASE \E now \in Samples :
             SaveCancelled(w, now) \/ SaveStop(w, now) \/ SaveWait(w, now)
  BY <1>2, GiveBackStep
<1>3. CASE \E now \in Samples : Finish(w, now)
  BY <1>3, FinishStep
<1>4. CASE \E now \in Samples : Begin(w, now) \/ Authorise(w, now) \/ Doubt(w, now)
  BY <1>4, BeginStep, AuthoriseStep, DoubtStep
<1>5. CASE \E now \in Samples : Mark(w, now)
  BY <1>5, MarkStep
<1>6. CASE \E now \in Samples : Confirm(w, now)
  BY <1>6, ConfirmStep
<1>7. CASE \E now \in Samples : Reject(w, now)
  BY <1>7, RejectStep
<1>8. CASE \E now \in Samples : ScheduleRetry(w, now)
  <2>1. PICK now \in Samples : Schedule(w, "retry_scheduled", now, RetryDelay)
    BY <1>8 DEF ScheduleRetry
  <2>2. /\ run[w].at \in {"retry", "limited"} /\ "retry_scheduled" \in Waiting
        /\ RetryDelay \in Int
    BY <1>8, TimeAssumption DEF ScheduleRetry, At, Waiting
  <2> QED
    BY <2>1, <2>2, ScheduleStep
<1>9. CASE \E now \in Samples : \E delay \in {RetryDelay} \cup 1..MaxDelay :
             ScheduleRateLimit(w, now, delay)
  <2>1. PICK now \in Samples, delay \in {RetryDelay} \cup 1..MaxDelay :
          Schedule(w, "waiting_rate_limit", now, delay)
    BY <1>9 DEF ScheduleRateLimit
  <2>2. /\ run[w].at \in {"retry", "limited"} /\ "waiting_rate_limit" \in Waiting
        /\ delay \in Int
    BY <1>9, TimeAssumption DEF ScheduleRateLimit, At, Waiting
  <2> QED
    BY <2>1, <2>2, ScheduleStep
<1>10. CASE Load(w) \/ LoadDirectly(w) \/ Unhandled(w)
  BY <1>10, LoadStep
<1>11. CASE Send(w) \/ Apply(w) \/ AnswerSuccess(w) \/ AnswerRefusal(w) \/ AnswerUnknown(w)
  BY <1>11, SendStep, ApplyStep, AnswerSuccessStep, AnswerRefusalStep, AnswerUnknownStep
<1>12. CASE Reconcile(w) \/ Rescue(w) \/ Fail(w)
  BY <1>12, ReconcileStep, RescueStep, FailStep
<1> QED
  BY <1>1, <1>2, <1>3, <1>4, <1>5, <1>6, <1>7, <1>8, <1>9, <1>10, <1>11, <1>12
  DEF WorkerStep

LEMMA StutterStep ==
  CopyInv /\ UNCHANGED vars => CopyInv' /\ GoodStep(effects, op, effects', op')
<1> SUFFICES ASSUME CopyInv, UNCHANGED vars
             PROVE  CopyInv' /\ GoodStep(effects, op, effects', op')
  OBVIOUS
<1>1. UNCHANGED <<op, run, effects, late, resolution, faults>>
  BY DEF vars
<1>2. CopyInv'
  BY <1>1 DEF CopyInv, WorldType
<1>3. SameRecord(op.checkpoint, op.checkpoint)
  BY RowCheckpoint DEF SameRecord, DecodedCheckpoints
<1>4. GoodStep(effects, op, effects', op')
  BY <1>1, <1>3 DEF GoodStep, RecordStep, EndStep, Terminal
<1> QED
  BY <1>2, <1>4

\* Every step preserves the invariant and is a good step of the row.
LEMMA NextIsGood ==
  CopyInv /\ [Next]_vars => CopyInv' /\ GoodStep(effects, op, effects', op')
<1> SUFFICES ASSUME CopyInv, [Next]_vars
             PROVE  CopyInv' /\ GoodStep(effects, op, effects', op')
  OBVIOUS
<1>1. CASE UNCHANGED vars
  BY <1>1, StutterStep
<1>2. CASE \E w \in Workers : WorkerStep(w)
  BY <1>2, WorkerGoodStep
<1>3. CASE \E w \in Workers :
             Crash(w) \/ Stop(w) \/ Restart(w) \/ StoreError(w) \/ ClockBackwards(w)
  BY <1>3, CrashStep, InterruptedStep
<1>4. CASE \E s \in CopySteps : ApplyLate(s)
  BY <1>4, ApplyLateStep
<1>5. CASE Cancel \/ Resume \/ Tick
  BY <1>5, CancelStep, ResumeStep, TickStep
<1>6. CASE \E outcome \in Outcomes : ResolveCancelledOutcome(outcome)
  BY <1>6, ResolveStep
<1> QED
  BY <1>1, <1>2, <1>3, <1>4, <1>5, <1>6 DEF Next

\* CopyInv is an inductive invariant of a copy: what the row, the provider and
\* the workers agree on after any interleaving of claims, stalls, crashes,
\* late requests, cancellations and resumes.
THEOREM CopyInvariant == Spec => []CopyInv
<1>1. CopyInv /\ [Next]_vars => CopyInv'
  BY NextIsGood
<1> QED
  BY <1>1, InitInv, PTL DEF Spec

-----------------------------------------------------------------------------
(* Theorems *)

LEMMA UnderwayIsOne ==
  ASSUME CopyInv, NEW s \in CopySteps
  PROVE  /\ Underway(s) # {} => ~Quiet(run, late) /\ s = op.checkpoint.unknown
         /\ Underway(s) # {} => late = {} /\ Cardinality(Underway(s)) = 1
         /\ Underway(s) = {} => Cardinality(Underway(s)) = 0
<1>1. ASSUME NEW w \in Underway(s)
      PROVE  w \in Workers /\ run[w].at \in Requests /\ CurrentStep(Mem(w)) = s
  BY <1>1 DEF Underway, Requests
<1>2. ASSUME NEW w \in Underway(s)
      PROVE  /\ late = {} /\ ~Quiet(run, late) /\ s = op.checkpoint.unknown
             /\ Underway(s) = {w}
  <2>1. /\ late = {} /\ \A v \in Workers : run[v].at \in Requests => v = w
        /\ CurrentStep(Mem(w)) = op.checkpoint.unknown /\ ~Quiet(run, late)
    BY <1>1, OnlyRequest
  <2> QED
    BY <1>1, <2>1
<1>3. \A w : Cardinality({w}) = 1
  BY FS_Singleton
<1> QED
  BY <1>2, <1>3, FS_EmptySet

\* While a worker may still send a step, or an abandoned request for it may still
\* be carried out, the row says that this step is in doubt: the mark that
\* copy_execution saves before each request outlives every takeover.
THEOREM IntentStaysDurable == Spec => []IntentIsDurable
<1>1. CopyInv => IntentIsDurable
  <2> SUFFICES ASSUME CopyInv, NEW s \in CopySteps, Underway(s) # {} \/ s \in late
               PROVE  op.checkpoint.unknown = s
    BY DEF IntentIsDurable
  <2>1. late \subseteq {op.checkpoint.unknown}
    BY DEF CopyInv, RequestsInv
  <2> QED
    BY <2>1, UnderwayIsOne
<1> QED
  BY <1>1, CopyInvariant, PTL

\* No step is carried out twice, not even by a request that a stalled worker has
\* yet to send or that is still on its way, whoever holds the lease by now.
THEOREM NothingIsWrittenTwice == Spec => []AtMostOnce
<1>1. CopyInv => AtMostOnce
  <2> SUFFICES ASSUME CopyInv, NEW s \in CopySteps
               PROVE  effects[s] + Cardinality(Underway(s)) + (IF s \in late THEN 1 ELSE 0) <= 1
    BY DEF AtMostOnce
  <2>1. effects[s] \in Nat /\ effects[s] <= 1
    BY DEF CopyInv, EffectsInv
  <2>2. late \subseteq {op.checkpoint.unknown} /\ (late # {} => ~Quiet(run, late))
    BY DEF CopyInv, RequestsInv, Quiet
  <2>3. CASE Underway(s) # {}
    <3>1. /\ s \notin late /\ Cardinality(Underway(s)) = 1 /\ effects[s] = 0
      BY <2>3, UnderwayIsOne, DoubtfulRequest
    <3> QED
      BY <3>1
  <2>4. CASE Underway(s) = {}
    <3>1. Cardinality(Underway(s)) = 0 /\ (s \in late => effects[s] = 0)
      BY <2>2, <2>4, UnderwayIsOne, DoubtfulRequest
    <3> QED
      BY <2>1, <3>1
  <2> QED
    BY <2>3, <2>4
<1> QED
  BY <1>1, CopyInvariant, PTL

\* Nothing can still write to the playlist of a finished copy whose record shows
\* no step in doubt.
THEOREM FinishedCopyIsQuiet == Spec => []FinishedMeansQuiet
<1>1. CopyInv => FinishedMeansQuiet
  <2> SUFFICES ASSUME CopyInv, op.checkpoint.unknown = NULL
               PROVE  late = {} /\ \A s \in CopySteps : Underway(s) = {}
    BY DEF FinishedMeansQuiet
  <2>1. Quiet(run, late)
    BY DoubtfulRequest
  <2> QED
    BY <2>1, UnderwayIsOne DEF Quiet
<1> QED
  BY <1>1, CopyInvariant, PTL

-----------------------------------------------------------------------------
(* The contract *)

\* Before a step of the plan is marked, everything before it was settled.
LEMMA StepIsDue ==
  ASSUME NEW cp \in DecodedCheckpoints, Parses(cp), ~AllDone(cp),
         cp.unknown # CurrentStep(cp)
  PROVE  LET s       == CurrentStep(cp)
             settled == Done(cp) \cup Elements(cp.issues)
         IN  /\ cp.unknown = NULL /\ s \in CopySteps /\ s \notin settled
             /\ \A earlier \in 0..(s - 1) : earlier \in settled
             /\ s # Target => Target \in Done(cp)
<1> DEFINE n == Cardinality(Processed(cp))
           s == CurrentStep(cp)
<1>1. n \in 0..NumEntries /\ Processed(cp) = 1..n
  BY ProcessedPrefix DEF Parses
<1>2. cp.unknown = NULL
  BY MarkedCheckpoint
<1> HIDE DEF n
<1>3. /\ s \in CopySteps /\ s \notin Processed(cp)
      /\ TargetIsNext(cp) => s = Target
      /\ ~TargetIsNext(cp) => s = n + 1
  BY <1>1, CurrentStepIsNext
<1>4. TargetIsNext(cp) <=> ~cp.target
  BY <1>2, StepTypes DEF TargetIsNext
<1> HIDE DEF s
<1>5. CASE TargetIsNext(cp)
  BY <1>1, <1>2, <1>3, <1>4, <1>5 DEF Done, Processed, Target, s
<1>6. CASE ~TargetIsNext(cp)
  <2>1. s # Target /\ 0..(s - 1) = {0} \cup 1..n
    BY <1>1, <1>3, <1>6, StepTypes DEF Target
  <2> QED
    BY <1>1, <1>2, <1>3, <1>4, <1>6, <2>1 DEF Done, Processed, Target, s
<1> QED
  BY <1>5, <1>6

\* A checkpoint that accounts for every step.
LEMMA CompleteAccount ==
  ASSUME NEW cp \in DecodedCheckpoints, Parses(cp), AllDone(cp)
  PROVE  /\ Done(cp) \cup Elements(cp.issues) = CopySteps
         /\ cp.issues = <<>> => Done(cp) = CopySteps
<1>1. cp.target /\ Processed(cp) = Entries
  BY AllDoneIsComplete
<1> QED
  BY <1>1, ElementsOfEmpty DEF Done, Processed, CopySteps

\* What a step of an unfinished row does to the account of the copy.
LEMMA AccountChange ==
  ASSUME NEW row, RowInv(row), NEW new, RowInv(new), NEW e \in [CopySteps -> Nat],
         row.state \notin Terminal, RecordStep(e, row, new), EndStep(e, row, new)
  PROVE  LET cp     == row.checkpoint
             cp1    == new.checkpoint
             s      == cp.unknown
             issues == Elements(cp.issues)
             same   == Done(cp1) = Done(cp) /\ Elements(cp1.issues) = issues
         IN  /\ \/ same /\ cp1.unknown = s
                \/ /\ s = NULL /\ cp1.unknown \in CopySteps
                   /\ cp1.unknown \notin Done(cp) \cup issues
                   /\ \A earlier \in 0..(cp1.unknown - 1) : earlier \in Done(cp) \cup issues
                   /\ cp1.unknown # 0 => 0 \in Done(cp)
                   /\ same /\ new.state \notin Terminal
                \/ /\ s \in CopySteps /\ e[s] > 0 /\ cp1.unknown = NULL
                   /\ Done(cp1) = Done(cp) \cup {s} /\ Elements(cp1.issues) = issues
                \/ /\ s \in CopySteps /\ e[s] = 0 /\ cp1.unknown = NULL
                   /\ Done(cp1) = Done(cp) /\ Elements(cp1.issues) = issues \cup {s}
                \/ /\ s \in CopySteps /\ e[s] = 0 /\ cp1.unknown = NULL /\ same
                \/ /\ s \in CopySteps /\ e[s] > 0 /\ cp1.unknown = NULL /\ same
                   /\ new.state = "partial"
             /\ new.state = "succeeded" => Done(cp1) = CopySteps
             /\ new.state = "partial" =>
                  \/ Done(cp1) \cup Elements(cp1.issues) = CopySteps
                  \/ s \in CopySteps /\ e[s] > 0 /\ cp1.unknown = NULL /\ same
<1> DEFINE cp   == row.checkpoint
           cp1  == new.checkpoint
           s    == cp.unknown
           same == Done(cp1) = Done(cp) /\ Elements(cp1.issues) = Elements(cp.issues)
<1>1. /\ cp \in DecodedCheckpoints /\ cp1 \in DecodedCheckpoints
      /\ s \in CopySteps \cup {NULL}
  BY DEF RowInv, Rows, DecodedCheckpoints
<1>2. ASSUME cp1 = [cp EXCEPT !.recon = FALSE, !.unknown = NULL]
      PROVE  same /\ cp1.unknown = NULL
  BY <1>1, <1>2 DEF DecodedCheckpoints, Done
<1>3. /\ new.state = "succeeded" => Done(cp1) = CopySteps
      /\ new.state = "partial" =>
           \/ Done(cp1) \cup Elements(cp1.issues) = CopySteps
           \/ s \in CopySteps /\ e[s] > 0 /\ cp1.unknown = NULL /\ same
  BY <1>1, <1>2, CompleteAccount DEF EndStep
<1>4. CASE SameRecord(cp, cp1)
  <2>1. same /\ cp1.unknown = s
    BY <1>1, <1>4, SameRecordFacts
  <2> QED
    BY <1>3, <2>1
<1>5. CASE /\ Parses(cp) /\ ~AllDone(cp) /\ s # CurrentStep(cp)
           /\ SameRecord(Marked(cp), cp1) /\ new.state \notin Terminal
  <2>1. /\ Marked(cp) \in DecodedCheckpoints /\ Marked(cp).unknown = CurrentStep(cp)
        /\ Done(Marked(cp)) = Done(cp) /\ Marked(cp).issues = cp.issues
    BY <1>1, <1>5, MarkedCheckpoint DEF Done
  <2>2. same /\ cp1.unknown = CurrentStep(cp)
    BY <1>1, <1>5, <2>1, SameRecordFacts
  <2>3. /\ s = NULL /\ CurrentStep(cp) \in CopySteps
        /\ CurrentStep(cp) \notin Done(cp) \cup Elements(cp.issues)
        /\ \A earlier \in 0..(CurrentStep(cp) - 1) :
             earlier \in Done(cp) \cup Elements(cp.issues)
        /\ CurrentStep(cp) # 0 => 0 \in Done(cp)
    BY <1>1, <1>5, StepIsDue DEF Target
  <2> QED
    BY <1>3, <1>5, <2>2, <2>3
<1>6. CASE Parses(cp) /\ s # NULL /\ e[s] > 0 /\ cp1 = Confirmed(cp)
  <2>1. /\ cp1.unknown = NULL /\ Elements(cp1.issues) = Elements(cp.issues)
        /\ Done(cp1) = Done(cp) \cup {s}
    BY <1>1, <1>6, ConfirmedCheckpoint DEF Done
  <2> QED
    BY <1>1, <1>3, <1>6, <2>1
<1>7. CASE Parses(cp) /\ s # NULL /\ e[s] = 0 /\ cp1 = Rejected(cp)
  <2>1. /\ cp1.unknown = NULL /\ Elements(cp1.issues) = Elements(cp.issues) \cup {s}
        /\ Done(cp1) = Done(cp)
    BY <1>1, <1>7, RejectedCheckpoint DEF Done
  <2> QED
    BY <1>1, <1>3, <1>7, <2>1
<1>8. CASE Parses(cp) /\ s # NULL /\ e[s] = 0 /\ cp1 = Retried(cp)
  <2>1. cp1.unknown = NULL /\ same
    BY <1>1, <1>8, RetriedCheckpoint DEF Done
  <2> QED
    BY <1>1, <1>3, <1>8, <2>1
<1>9. CASE /\ cp1 = [cp EXCEPT !.recon = FALSE, !.unknown = NULL]
           /\ \/ new.state = "cancelled" /\ (s # NULL => e[s] = 0)
              \/ new.state = "partial" /\ s # NULL /\ e[s] > 0
  <2>1. cp1.unknown = NULL /\ same
    BY <1>2, <1>9
  <2> QED
    BY <1>1, <1>3, <1>9, <2>1
<1> QED
  BY <1>4, <1>5, <1>6, <1>7, <1>8, <1>9 DEF RecordStep

\* A good step of the row and the playlist is a step of the contract, or changes
\* nothing that the contract speaks of.
LEMMA GoodStepKeepsContract ==
  ASSUME CopyInv, CopyInv', GoodStep(effects, op, effects', op')
  PROVE  [Contract!Next]_Contract!vars
<1> DEFINE cp     == op.checkpoint
           cp1    == op'.checkpoint
           s      == cp.unknown
           issues == Elements(cp.issues)
           same   == Done(cp1) = Done(cp) /\ Elements(cp1.issues) = issues
           end    == IF op.state \in Terminal THEN op.state ELSE NULL
           end1   == IF op'.state \in Terminal THEN op'.state ELSE NULL
<1>1. /\ RowInv(op) /\ RowInv(op') /\ effects \in [CopySteps -> Nat]
      /\ s \in CopySteps \cup {NULL}
  BY DEF CopyInv, EffectsInv, RowInv, Rows, DecodedCheckpoints
<1>2. NULL \notin Terminal /\ NULL \notin CopySteps /\ CopySteps = 0..NumEntries
  BY WorkerAssumption, StepTypes DEF CopySteps, Target
<1>3. CASE /\ op' = op /\ s # NULL /\ effects[s] = 0
           /\ effects' = [effects EXCEPT ![s] = @ + 1]
  <2>1. {t \in CopySteps : effects'[t] > 0} = {t \in CopySteps : effects[t] > 0} \cup {s}
    BY <1>1, <1>3
  <2>2. s \in (0..NumEntries) \ {t \in CopySteps : effects[t] > 0}
    BY <1>1, <1>2, <1>3
  <2>3. Contract!Write
    BY <1>3, <2>1, <2>2 DEF Contract!Write, Contract!Steps
  <2> QED
    BY <2>3 DEF Contract!Next
<1>4. CASE effects' = effects /\ op.state \in Terminal
           /\ op'.state = op.state /\ op'.checkpoint = op.checkpoint
  BY <1>4 DEF Contract!vars
<1>5. CASE effects' = effects /\ op.state \notin Terminal
           /\ RecordStep(effects, op, op') /\ EndStep(effects, op, op')
  <2>1. /\ op'.state \in States /\ end = NULL
        /\ end1 \in {NULL} \cup Terminal
        /\ op'.state \in Terminal => end1 = op'.state
        /\ op'.state \notin Terminal => end1 = NULL
    BY <1>1, <1>5 DEF RowInv, Rows
  <2>2. /\ \/ same /\ cp1.unknown = s
           \/ /\ s = NULL /\ cp1.unknown \in CopySteps
              /\ cp1.unknown \notin Done(cp) \cup issues
              /\ \A earlier \in 0..(cp1.unknown - 1) : earlier \in Done(cp) \cup issues
              /\ cp1.unknown # 0 => 0 \in Done(cp)
              /\ same /\ op'.state \notin Terminal
           \/ /\ s \in CopySteps /\ effects[s] > 0 /\ cp1.unknown = NULL
              /\ Done(cp1) = Done(cp) \cup {s} /\ Elements(cp1.issues) = issues
           \/ /\ s \in CopySteps /\ effects[s] = 0 /\ cp1.unknown = NULL
              /\ Done(cp1) = Done(cp) /\ Elements(cp1.issues) = issues \cup {s}
           \/ /\ s \in CopySteps /\ effects[s] = 0 /\ cp1.unknown = NULL /\ same
           \/ /\ s \in CopySteps /\ effects[s] > 0 /\ cp1.unknown = NULL /\ same
              /\ op'.state = "partial"
        /\ op'.state = "succeeded" => Done(cp1) = CopySteps
        /\ op'.state = "partial" =>
             \/ Done(cp1) \cup Elements(cp1.issues) = CopySteps
             \/ s \in CopySteps /\ effects[s] > 0 /\ cp1.unknown = NULL /\ same
    BY <1>1, <1>5, AccountChange
  <2>3. Contract!Close
    <3>1. CASE op'.state \notin Terminal
      BY <2>1, <3>1 DEF Contract!Close
    <3>2. CASE op'.state \in {"failed", "cancelled"}
      BY <2>1, <3>2 DEF Contract!Close, Contract!Ends, Contract!MayEnd, Terminal
    <3>3. CASE op'.state = "succeeded"
      BY <1>2, <2>1, <2>2, <3>3
      DEF Contract!Close, Contract!Ends, Contract!MayEnd, Contract!Steps, Terminal, Done
    <3>4. CASE op'.state = "partial"
      <4>1. Contract!MayEnd("partial")
        BY <1>2, <2>1, <2>2, <3>4
        DEF Contract!MayEnd, Contract!Steps, Contract!Attest, Terminal, Done
      <4> QED
        BY <2>1, <3>4, <4>1 DEF Contract!Close, Contract!Ends, Terminal
    <3> QED
      BY <3>1, <3>2, <3>3, <3>4 DEF Terminal
  <2>4. \/ \E t \in Contract!Steps : Contract!Announce(t)
        \/ Contract!Withdraw \/ Contract!Accept \/ Contract!Refuse \/ Contract!Attest
        \/ same /\ cp1.unknown = s
    <3>1. CASE /\ s = NULL /\ cp1.unknown \in CopySteps
               /\ cp1.unknown \notin Done(cp) \cup issues
               /\ \A earlier \in 0..(cp1.unknown - 1) : earlier \in Done(cp) \cup issues
               /\ cp1.unknown # 0 => 0 \in Done(cp)
               /\ same /\ op'.state \notin Terminal
      <4>1. Contract!Announce(cp1.unknown)
        BY <1>5, <2>1, <3>1 DEF Contract!Announce, Contract!Settled, Done
      <4> QED
        BY <1>2, <3>1, <4>1 DEF Contract!Steps
    <3>2. CASE /\ s \in CopySteps /\ effects[s] > 0 /\ cp1.unknown = NULL
               /\ Done(cp1) = Done(cp) \cup {s} /\ Elements(cp1.issues) = issues
      <4>1. Contract!Accept
        BY <3>2 DEF Contract!Accept, Done
      <4> QED
        BY <4>1
    <3>3. CASE /\ s \in CopySteps /\ effects[s] = 0 /\ cp1.unknown = NULL
               /\ Done(cp1) = Done(cp) /\ Elements(cp1.issues) = issues \cup {s}
      <4>1. Contract!Refuse
        BY <1>2, <3>3 DEF Contract!Refuse, Contract!Steps, Done
      <4> QED
        BY <4>1
    <3>4. CASE s \in CopySteps /\ effects[s] = 0 /\ cp1.unknown = NULL /\ same
      <4>1. Contract!Withdraw
        BY <1>2, <3>4 DEF Contract!Withdraw, Contract!Steps, Done
      <4> QED
        BY <4>1
    <3>5. CASE /\ s \in CopySteps /\ effects[s] > 0 /\ cp1.unknown = NULL /\ same
               /\ op'.state = "partial"
      <4>1. Contract!Attest
        BY <3>5 DEF Contract!Attest, Terminal, Done
      <4> QED
        BY <4>1
    <3> QED
      BY <2>2, <3>1, <3>2, <3>3, <3>4, <3>5
  <2> QED
    BY <1>5, <2>1, <2>3, <2>4 DEF Contract!Next, Done
<1> QED
  BY <1>3, <1>4, <1>5 DEF GoodStep

\* The copy keeps its contract with the user, whichever worker executes it: the
\* steps of the plan are announced, written, confirmed and refused as
\* CopyContract says, and the outcome is final.  The row starts out fresh, as
\* enqueue leaves it; from any other start the account is already under way.
THEOREM ContractKept ==
  ASSUME Stored \subseteq {FreshCheckpoint}
  PROVE  Spec => KeepsContract
<1>1. Init => Contract!Init
  <2> SUFFICES ASSUME Init
               PROVE  Contract!Init
    OBVIOUS
  <2>1. op = QueuedWith(FreshCheckpoint) /\ effects = [s \in CopySteps |-> 0]
    BY DEF Init
  <2> QED
    BY <2>1, ElementsOfEmpty DEF QueuedWith, FreshCheckpoint, Contract!Init, Terminal
<1>2. CopyInv /\ CopyInv' /\ [Next]_vars => [Contract!Next]_Contract!vars
  BY NextIsGood, GoodStepKeepsContract
<1> QED
  BY <1>1, <1>2, CopyInvariant, PTL DEF Spec, KeepsContract, Contract!Spec

-----------------------------------------------------------------------------
(* What becomes of a stored checkpoint, sound or not *)

LEMMA ContradictoryIsRefused ==
  ASSUME NEW cp \in DecodedCheckpoints, Contradictory(cp)
  PROVE  ~Parses(cp)
<1> SUFFICES ASSUME Parses(cp)
             PROVE  FALSE
  OBVIOUS
<1> DEFINE n == Cardinality(Processed(cp))
<1>1. /\ n \in 0..NumEntries /\ Processed(cp) = 1..n
      /\ Len(cp.confirmed) + Len(cp.issues) = n
  BY ProcessedPrefix, VerdictCount DEF Parses
<1>2. cp.attempts >= 0 /\ cp.attempts \in Int /\ (cp.confirmed # <<>> => cp.target)
  BY DEF Parses, ValidProgress, ValidTarget, DecodedCheckpoints
<1>3. Processed(cp) \subseteq Entries
  BY DEF Parses, ValidProgress
<1> HIDE DEF n
<1>4. cp.unknown \in Entries => cp.target /\ cp.unknown = n + 1
  <2>1. cp.unknown \in Entries => IsFirstUnprocessed(cp.unknown, cp) /\ cp.target
    BY StepTypes DEF Parses, ValidUnknown
  <2> QED
    BY <1>1, <2>1, FirstUnprocessedIsNext
<1>5. \A e \in Entries : e \in Processed(cp) =>
        ~ \E earlier \in 1..(e - 1) : earlier \notin Processed(cp)
  BY <1>1, StepTypes
<1> DEFINE counted == Len(cp.confirmed) + Len(cp.issues) # Cardinality(Processed(cp))
           gap     == \E e \in Entries :
                        /\ e \in Processed(cp)
                        /\ \E earlier \in 1..(e - 1) : earlier \notin Processed(cp)
           marked  == /\ cp.unknown \in Entries
                      /\ ~cp.target \/ cp.unknown # Cardinality(Processed(cp)) + 1
<1>6. ~counted /\ ~marked
  BY <1>1, <1>4 DEF n
<1>7. ~gap
  BY <1>5
<1>8. \/ cp.attempts < 0 \/ gap \/ counted \/ ~(Processed(cp) \subseteq Entries)
      \/ cp.confirmed # <<>> /\ ~cp.target
      \/ marked
  BY DEF Contradictory
<1> HIDE DEF counted, gap, marked
<1> QED
  BY <1>2, <1>3, <1>6, <1>7, <1>8

\* A stored checkpoint that contradicts the plan is kept as it is, apart from the
\* resolution of its doubt; nothing is sent for it, and the copy neither succeeds
\* nor retries, whatever the workers and the users do.
THEOREM ContradictionStops == Spec => ContradictionStopsTheCopy
<1> DEFINE cp  == op.checkpoint
           cp1 == op'.checkpoint
           Stops ==
             Contradictory(op.checkpoint) =>
               /\ op'.checkpoint = [op.checkpoint EXCEPT !.recon = op'.checkpoint.recon,
                                                         !.unknown = op'.checkpoint.unknown]
               /\ op'.state \notin {"succeeded"} \cup Waiting
               /\ \A s \in CopySteps : Underway(s) = {}
<1>1. CopyInv /\ CopyInv' /\ [Next]_vars => [Stops]_vars
  <2> SUFFICES ASSUME CopyInv, CopyInv', [Next]_vars, Contradictory(cp)
               PROVE  /\ cp1 = [cp EXCEPT !.recon = cp1.recon, !.unknown = cp1.unknown]
                      /\ op'.state \notin {"succeeded"} \cup Waiting
                      /\ \A s \in CopySteps : Underway(s) = {}
    OBVIOUS
  <2>1. /\ RowInv(op) /\ RowInv(op') /\ RequestsInv(cp, run, effects, late)
        /\ cp \in DecodedCheckpoints /\ cp1 \in DecodedCheckpoints
    BY DEF CopyInv, RowInv, Rows
  <2>2. ~Parses(cp)
    BY <2>1, ContradictoryIsRefused
  <2>3. \A s \in CopySteps : Underway(s) = {}
    BY <2>1, <2>2, UnderwayIsOne DEF RequestsInv
  <2>4. \/ cp1 = cp /\ op'.state = op.state
        \/ SameRecord(cp, cp1)
        \/ /\ cp1 = [cp EXCEPT !.recon = FALSE, !.unknown = NULL]
           /\ op'.state \in {"cancelled", "partial"}
    BY <2>2, NextIsGood DEF GoodStep, RecordStep
  <2>5. CASE SameRecord(cp, cp1) \/ (cp1 = cp /\ op'.state = op.state)
    <3>1. SameRecord(cp, cp1)
      BY <2>1, <2>5 DEF SameRecord, DecodedCheckpoints
    <3>2. ~Parses(cp1)
      BY <2>1, <2>2, <3>1, SameRecordFacts
    <3>3. op'.state \notin {"succeeded"} \cup Waiting
      BY <2>1, <3>2 DEF RowInv
    <3>4. cp1 = [cp EXCEPT !.recon = cp1.recon, !.unknown = cp1.unknown]
      BY <2>1, <3>1 DEF SameRecord, DecodedCheckpoints
    <3> QED
      BY <2>3, <3>3, <3>4
  <2>6. CASE /\ cp1 = [cp EXCEPT !.recon = FALSE, !.unknown = NULL]
             /\ op'.state \in {"cancelled", "partial"}
    BY <2>1, <2>3, <2>6 DEF Waiting, DecodedCheckpoints
  <2> QED
    BY <2>4, <2>5, <2>6
<1> QED
  BY <1>1, CopyInvariant, PTL DEF Spec, ContradictionStopsTheCopy

\* An unfinished row keeps a checkpoint that a successor can read.
LEMMA ParsesStays ==
  ASSUME NEW row, RowInv(row), NEW new, RowInv(new), NEW e, NEW e1,
         GoodStep(e, row, e1, new), row.state \notin Terminal => Parses(row.checkpoint)
  PROVE  new.state \notin Terminal => Parses(new.checkpoint)
<1> DEFINE cp  == row.checkpoint
           cp1 == new.checkpoint
<1>1. cp \in DecodedCheckpoints /\ cp1 \in DecodedCheckpoints
  BY DEF RowInv, Rows
<1> SUFFICES ASSUME new.state \notin Terminal, row.state \notin Terminal, Parses(cp),
                    RecordStep(e, row, new)
             PROVE  Parses(cp1)
  BY DEF GoodStep
<1>2. CASE SameRecord(cp, cp1)
  BY <1>1, <1>2, SameRecordFacts
<1>3. CASE ~AllDone(cp) /\ cp.unknown # CurrentStep(cp) /\ SameRecord(Marked(cp), cp1)
  <2>1. Marked(cp) \in DecodedCheckpoints /\ Parses(Marked(cp))
    BY <1>1, <1>3, MarkedCheckpoint
  <2> QED
    BY <1>1, <1>3, <2>1, SameRecordFacts
<1>4. CASE cp.unknown # NULL /\ cp1 = Confirmed(cp)
  BY <1>1, <1>4, ConfirmedCheckpoint
<1>5. CASE cp.unknown # NULL /\ cp.unknown # Target /\ cp1 = Rejected(cp)
  BY <1>1, <1>5, RejectedCheckpoint
<1>6. CASE cp1 = Retried(cp)
  BY <1>1, <1>6, RetriedCheckpoint
<1> QED
  BY <1>2, <1>3, <1>4, <1>5, <1>6 DEF RecordStep, Terminal

\* A copy that starts from a checkpoint that parse_copy_progress accepts never
\* leaves one behind that it refuses, wherever a run is interrupted.
THEOREM ProgressStaysReadable ==
  ASSUME \A cp \in Stored : Parses(cp)
  PROVE  Spec => []StoredCheckpointParses
<1>1. Init => StoredCheckpointParses
  BY DEF Init, QueuedWith, StoredCheckpointParses
<1>2. /\ CopyInv /\ CopyInv' /\ [Next]_vars /\ StoredCheckpointParses
      => StoredCheckpointParses'
  <2> SUFFICES ASSUME CopyInv, CopyInv', [Next]_vars, StoredCheckpointParses,
                      op'.state \notin Terminal
               PROVE  Parses(op'.checkpoint)
    BY DEF StoredCheckpointParses
  <2>1. RowInv(op) /\ RowInv(op') /\ GoodStep(effects, op, effects', op')
    BY NextIsGood DEF CopyInv
  <2> QED
    BY <2>1, ParsesStays DEF StoredCheckpointParses
<1> QED
  BY <1>1, <1>2, CopyInvariant, PTL DEF Spec

-----------------------------------------------------------------------------
(* How large a checkpoint may become *)

Bounded(cp) ==
  /\ Len(cp.confirmed) <= NumEntries
  /\ Len(cp.issues) <= NumEntries + 1
  /\ cp.attempts \in 0..(MaxRetryAttempts + 1)

LEMMA VerdictsFit ==
  ASSUME NEW cp \in DecodedCheckpoints, Parses(cp)
  PROVE  /\ Len(cp.confirmed) \in Nat /\ Len(cp.confirmed) <= NumEntries
         /\ Len(cp.issues) \in Nat /\ Len(cp.issues) <= NumEntries
<1> DEFINE n == Cardinality(Processed(cp))
           c == Len(cp.confirmed)
           i == Len(cp.issues)
<1>1. c \in Nat /\ i \in Nat /\ c + i = n /\ n \in 0..NumEntries /\ NumEntries \in Nat
  BY VerdictCount, StepTypes
<1> HIDE DEF n, c, i
<1>2. c <= NumEntries /\ i <= NumEntries
  BY <1>1
<1> QED
  BY <1>1, <1>2 DEF c, i

LEMMA BoundedSequence ==
  ASSUME NEW S, NEW n \in Nat, NEW seq \in Seq(S)
  PROVE  Len(seq) <= n <=> seq \in SequencesUpTo(S, n)
<1>1. Len(seq) \in Nat /\ seq \in [1..Len(seq) -> S] /\ DOMAIN seq = 1..Len(seq)
  BY LenProperties
<1>2. ASSUME Len(seq) <= n
      PROVE  seq \in SequencesUpTo(S, n)
  <2>1. Len(seq) \in 0..n
    BY <1>1, <1>2
  <2> QED
    BY <1>1, <2>1 DEF SequencesUpTo
<1>3. ASSUME seq \in SequencesUpTo(S, n)
      PROVE  Len(seq) <= n
  <2>1. PICK k \in 0..n : seq \in [1..k -> S]
    BY <1>3 DEF SequencesUpTo
  <2>2. DOMAIN seq = 1..k /\ k \in Nat
    BY <2>1
  <2>3. 1..Len(seq) = 1..k
    BY <1>1, <2>2
  <2>4. CASE Len(seq) = 0
    BY <2>4
  <2>5. CASE Len(seq) # 0
    <3>1. Len(seq) \in 1..Len(seq)
      BY <1>1, <2>5
    <3> QED
      BY <2>1, <2>2, <2>3, <3>1
  <2> QED
    BY <2>4, <2>5
<1> QED
  BY <1>2, <1>3

LEMMA BoundedCheckpoint ==
  ASSUME NEW cp \in DecodedCheckpoints
  PROVE  cp \in Checkpoints <=> Bounded(cp)
<1>1. /\ cp.confirmed \in Seq(Entries) /\ cp.issues \in Seq(CopySteps)
      /\ NumEntries \in Nat /\ NumEntries + 1 \in Nat
  BY StepTypes DEF DecodedCheckpoints
<1>2. /\ cp.confirmed \in SequencesUpTo(Entries, NumEntries)
           <=> Len(cp.confirmed) <= NumEntries
      /\ cp.issues \in SequencesUpTo(CopySteps, NumEntries + 1)
           <=> Len(cp.issues) <= NumEntries + 1
  BY <1>1, BoundedSequence
<1>3. cp \in Checkpoints <=>
        /\ cp.confirmed \in SequencesUpTo(Entries, NumEntries)
        /\ cp.issues \in SequencesUpTo(CopySteps, NumEntries + 1)
        /\ cp.attempts \in 0..(MaxRetryAttempts + 1)
  BY DEF DecodedCheckpoints, Checkpoints
<1> QED
  BY <1>2, <1>3 DEF Bounded

\* Verdicts are bounded by the plan and retries by the budget, after which the
\* copy is over.
LEMMA BoundedStays ==
  ASSUME NEW row, RowInv(row), NEW new, RowInv(new), NEW e, NEW e1,
         GoodStep(e, row, e1, new), Bounded(row.checkpoint),
         row.state \notin Terminal => ~BudgetExhausted(row.checkpoint)
  PROVE  /\ Bounded(new.checkpoint)
         /\ new.state \notin Terminal => ~BudgetExhausted(new.checkpoint)
<1> DEFINE cp  == row.checkpoint
           cp1 == new.checkpoint
<1>1. /\ cp \in DecodedCheckpoints /\ cp1 \in DecodedCheckpoints
      /\ MaxRetryAttempts \in Nat /\ NumEntries \in Nat
  BY PlanAssumption DEF RowInv, Rows
<1>2. CASE \/ new = row
           \/ row.state \in Terminal /\ new.state = row.state /\ cp1 = cp
  BY <1>2
<1>3. CASE row.state \notin Terminal /\ RecordStep(e, row, new)
  <2>1. CASE SameRecord(cp, cp1)
    BY <1>1, <1>3, <2>1, SameRecordFacts DEF Bounded, BudgetExhausted
  <2>2. CASE /\ Parses(cp) /\ ~AllDone(cp) /\ cp.unknown # CurrentStep(cp)
             /\ SameRecord(Marked(cp), cp1)
    <3>1. /\ Marked(cp) \in DecodedCheckpoints /\ Marked(cp).confirmed = cp.confirmed
          /\ Marked(cp).issues = cp.issues /\ Marked(cp).attempts = cp.attempts
      BY <1>1, <2>2, MarkedCheckpoint
    <3> QED
      BY <1>1, <1>3, <2>2, <3>1, SameRecordFacts DEF Bounded, BudgetExhausted
  <2>3. CASE Parses(cp) /\ cp.unknown # NULL /\ cp1 = Confirmed(cp)
    <3>1. cp1.attempts = cp.attempts
      BY <1>1, <2>3 DEF Confirmed, DecodedCheckpoints
    <3>2. Parses(cp1)
      BY <1>1, <2>3, ConfirmedCheckpoint
    <3>3. Len(cp1.confirmed) <= NumEntries /\ Len(cp1.issues) <= NumEntries
      BY <1>1, <3>2, VerdictsFit
    <3> QED
      BY <1>1, <1>3, <3>1, <3>3, LenProperties DEF Bounded, BudgetExhausted, DecodedCheckpoints
  <2>4. CASE Parses(cp) /\ cp.unknown # NULL /\ cp1 = Rejected(cp)
    <3>1. /\ cp1.attempts = cp.attempts /\ cp1.confirmed = cp.confirmed
          /\ cp1.issues = Append(cp.issues, CurrentStep(cp))
      BY <1>1, <2>4 DEF Rejected, DecodedCheckpoints
    <3>2. Len(cp1.issues) = Len(cp.issues) + 1
      BY <1>1, <2>4, <3>1, DoubtIsCurrent, AppendProperties DEF DecodedCheckpoints
    <3>3. Len(cp.issues) \in Nat /\ Len(cp.issues) <= NumEntries
      BY <1>1, <2>4, VerdictsFit
    <3> QED
      BY <1>1, <1>3, <3>1, <3>2, <3>3 DEF Bounded, BudgetExhausted
  <2>5. CASE /\ Parses(cp) /\ cp1 = Retried(cp)
             /\ BudgetExhausted(Retried(cp)) => new.state \in Terminal
    <3>1. cp1.confirmed = cp.confirmed /\ cp1.issues = cp.issues
      BY <1>1, <2>5, RetriedCheckpoint
    <3>2. cp1.attempts = cp.attempts + 1
      BY <2>5, <1>1 DEF Retried, DecodedCheckpoints
    <3> QED
      BY <1>1, <1>3, <2>5, <3>1, <3>2 DEF Bounded, BudgetExhausted
  <2>6. CASE /\ cp1 = [cp EXCEPT !.recon = FALSE, !.unknown = NULL]
    BY <1>1, <1>3, <2>6 DEF Bounded, BudgetExhausted, DecodedCheckpoints
  <2> QED
    BY <1>3, <2>1, <2>2, <2>3, <2>4, <2>5, <2>6 DEF RecordStep
<1> QED
  BY <1>2, <1>3 DEF GoodStep

\* A run holds what it held, what the row shows or showed, or nothing yet.
LEMMA HeldCheckpoints ==
  ASSUME run \in [Workers -> Runs], op \in Rows, Next, NEW v \in Workers
  PROVE  run'[v].mem \in {run[v].mem, FreshCheckpoint, op.checkpoint, op'.checkpoint}
<1> DEFINE held == {run[v].mem, FreshCheckpoint, op.checkpoint, op'.checkpoint}
<1>1. ASSUME NEW w \in Workers, NEW point, NEW cp, GoTo(w, point, cp),
             cp \in {run[w].mem, FreshCheckpoint, op.checkpoint, op'.checkpoint}
      PROVE  run'[v].mem \in held
  <2>1. /\ run'[w].mem = cp /\ (v # w => run'[v] = run[v])
    BY <1>1 DEF GoTo
  <2> QED
    BY <1>1, <2>1
<1>2. ASSUME NEW w \in Workers, Leave(w)
      PROVE  run'[v].mem \in held
  <2>1. run'[w].mem = FreshCheckpoint /\ (v # w => run'[v] = run[v])
    BY <1>2 DEF Leave, Idle
  <2> QED
    BY <2>1
<1>3. ASSUME UNCHANGED run
      PROVE  run'[v].mem \in held
  BY <1>3
<1>4. ASSUME NEW w \in Workers, NEW cp, NEW asked, NEW now, NEW next,
             Save(w, cp, asked, now, next)
      PROVE  run'[v].mem \in held
  <2>1. \/ Leave(w)
        \/ /\ op' = Checkpointed(op, cp, asked) /\ op'.state = "running"
           /\ GoTo(w, next, cp)
    BY <1>4 DEF Save
  <2>2. op' = Checkpointed(op, cp, asked) /\ op'.state = "running" => op'.checkpoint = cp
    BY DEF Checkpointed, StateUnderCancel, Rows, Released, Terminal
  <2> QED
    BY <1>1, <1>2, <2>1, <2>2
<1>5. ASSUME NEW w \in Workers, NEW now, NEW next, Renew(w, now, next)
      PROVE  run'[v].mem \in held
  BY <1>1, <1>2, <1>5 DEF Renew, Mem
<1>6. ASSUME NEW w \in Workers, NEW asked, NEW now, NEW delay, Schedule(w, asked, now, delay)
      PROVE  run'[v].mem \in held
  BY <1>2, <1>4, <1>6 DEF Schedule
<1>7. ASSUME NEW w \in Workers, WorkerStep(w)
      PROVE  run'[v].mem \in held
  <2>1. CASE \E now \in Samples : Poll(w, now) \/ ClaimDirectly(w, now)
    BY <1>1, <1>3, <2>1 DEF Poll, ClaimDirectly
  <2>2. CASE \E now \in Samples :
               \/ SaveCancelled(w, now) \/ SaveStop(w, now) \/ SaveWait(w, now)
               \/ Finish(w, now) \/ Mark(w, now) \/ Confirm(w, now) \/ Reject(w, now)
    BY <1>4, <2>2 DEF SaveCancelled, SaveStop, SaveWait, Finish, Mark, Confirm, Reject
  <2>3. CASE \E now \in Samples : Begin(w, now) \/ Authorise(w, now) \/ Doubt(w, now)
    BY <1>5, <2>3 DEF Begin, Authorise, Doubt
  <2>4. CASE \E now \in Samples :
               \/ ScheduleRetry(w, now)
               \/ \E delay \in {RetryDelay} \cup 1..MaxDelay : ScheduleRateLimit(w, now, delay)
    BY <1>6, <2>4 DEF ScheduleRetry, ScheduleRateLimit
  <2>5. CASE Load(w) \/ LoadDirectly(w) \/ Unhandled(w)
    BY <1>1, <2>5 DEF Load, LoadDirectly, Unhandled, Start
  <2>6. CASE Send(w) \/ Apply(w) \/ AnswerSuccess(w) \/ AnswerRefusal(w)
             \/ AnswerUnknown(w) \/ Reconcile(w)
    BY <1>1, <2>6
    DEF Send, Apply, AnswerSuccess, AnswerRefusal, AnswerUnknown, Reconcile, Mem
  <2>7. CASE Rescue(w) \/ Fail(w)
    BY <1>1, <1>2, <2>7 DEF Rescue, Fail
  <2> QED
    BY <1>7, <2>1, <2>2, <2>3, <2>4, <2>5, <2>6, <2>7 DEF WorkerStep
<1>8. ASSUME NEW w \in Workers,
             Crash(w) \/ Stop(w) \/ Restart(w) \/ StoreError(w) \/ ClockBackwards(w)
      PROVE  run'[v].mem \in held
  <2>1. CASE Crash(w)
    <3>1. run'[w].mem = FreshCheckpoint /\ (v # w => run'[v] = run[v])
      BY <2>1 DEF Crash, Idle
    <3> QED
      BY <3>1
  <2>2. CASE Stop(w) \/ Restart(w) \/ StoreError(w) \/ ClockBackwards(w)
    BY <1>1, <1>2, <2>2 DEF Stop, Restart, StoreError, ClockBackwards
  <2> QED
    BY <1>8, <2>1, <2>2
<1>9. CASE \/ \E s \in CopySteps : ApplyLate(s)
           \/ Cancel \/ Resume \/ Tick
           \/ \E outcome \in Outcomes : ResolveCancelledOutcome(outcome)
  BY <1>3, <1>9 DEF ApplyLate, Cancel, Resume, Tick, ResolveCancelledOutcome
<1> QED
  BY <1>7, <1>8, <1>9 DEF Next

\* The row, the runs and the provider have the shapes that the code relies on: no
\* checkpoint, not even the one a fenced worker still holds, outgrows the plan or
\* counts more than one retry beyond the budget.
THEOREM CopyTypeCorrect ==
  ASSUME \A cp \in Stored : cp \in Checkpoints /\ ~BudgetExhausted(cp)
  PROVE  Spec => []TypeOK
<1> DEFINE Within ==
             /\ Bounded(op.checkpoint)
             /\ op.state \notin Terminal => ~BudgetExhausted(op.checkpoint)
             /\ \A w \in Workers : Bounded(run[w].mem)
<1>0. Bounded(FreshCheckpoint)
  BY PlanAssumption DEF Bounded, FreshCheckpoint
<1>1. Init => Within
  BY <1>0, StoredAssumption, BoundedCheckpoint DEF Init, QueuedWith, Idle
<1>2. CopyInv /\ CopyInv' /\ [Next]_vars /\ Within => Within'
  <2> SUFFICES ASSUME CopyInv, CopyInv', Next, Within
               PROVE  Within'
    BY DEF vars
  <2>1. /\ RowInv(op) /\ RowInv(op') /\ op \in Rows /\ run \in [Workers -> Runs]
        /\ GoodStep(effects, op, effects', op')
    BY NextIsGood DEF CopyInv, RowInv, WorldType
  <2>2. /\ Bounded(op'.checkpoint)
        /\ op'.state \notin Terminal => ~BudgetExhausted(op'.checkpoint)
    BY <2>1, BoundedStays
  <2>3. ASSUME NEW w \in Workers
        PROVE  Bounded(run'[w].mem)
    BY <1>0, <2>1, <2>2, HeldCheckpoints
  <2> QED
    BY <2>2, <2>3
<1>3. CopyInv /\ Within => TypeOK
  <2> SUFFICES ASSUME CopyInv, Within
               PROVE  TypeOK
    OBVIOUS
  <2>1. /\ op \in Rows /\ run \in [Workers -> Runs] /\ effects \in [CopySteps -> Nat]
        /\ late \subseteq CopySteps /\ resolution \in Outcomes \cup {NULL}
        /\ faults \in 0..MaxFaults
    BY DEF CopyInv, RowInv, EffectsInv, WorldType
  <2>2. op.checkpoint \in Checkpoints
    BY <2>1, BoundedCheckpoint DEF Rows
  <2>3. ASSUME NEW w \in Workers
        PROVE  run[w] \in [at : Points, mem : Checkpoints]
    BY <2>1, BoundedCheckpoint DEF Runs
  <2>4. op \in [state : States, checkpoint : Checkpoints, worker : Workers \cup {NULL},
                lease : Int \cup {NULL}, nextRun : Int \cup {NULL}, cancel : BOOLEAN]
    BY <2>1, <2>2 DEF Rows
  <2> QED
    BY <2>1, <2>3, <2>4 DEF TypeOK
<1> QED
  BY <1>1, <1>2, <1>3, CopyInvariant, PTL DEF Spec
=============================================================================

--------------------------- MODULE CopyCheckpoint ---------------------------
(***************************************************************************)
(* The checkpoint of a copy operation (application/copy_checkpoint.py and  *)
(* the edits copy_execution_*.py make to it), as state-free operators.     *)
(*                                                                         *)
(* The accepted plan is 1..NumEntries, its writable entries in order; step *)
(* 0 is the creation of the target playlist.  A checkpoint is a record     *)
(*   unknown    the step marked in flight, or NULL                         *)
(*   recon      reconciliation_required, written by the repository only    *)
(*   target     is target_playlist_id recorded?                            *)
(*   confirmed  confirmed_occurrences, a sequence of entries               *)
(*   issues     the steps of the permanent issues, in the order they came  *)
(*   attempts   retry_attempts                                             *)
(***************************************************************************)
EXTENDS OperationRules, Sequences, FiniteSets

CONSTANTS
  NumEntries,         \* writable entries of the plan
  HasOmitted,         \* does the plan leave entries out?
  MaxRetryAttempts    \* max_retry_attempts

ASSUME PlanAssumption == /\ NumEntries \in Nat
                         /\ HasOmitted \in BOOLEAN
                         /\ MaxRetryAttempts \in Nat
                         /\ NULL \notin Int

Target    == 0
Entries   == 1..NumEntries
CopySteps == {Target} \cup Entries

\* What a stored checkpoint may say of the plan, soundly or not; an issue of the
\* target stands for any that is not of a writable entry.
DecodedCheckpoints ==
  [unknown : CopySteps \cup {NULL}, recon : BOOLEAN, target : BOOLEAN,
   confirmed : Seq(Entries), issues : Seq(CopySteps), attempts : Int]

FreshCheckpoint ==
  [unknown |-> NULL, recon |-> FALSE, target |-> FALSE,
   confirmed |-> <<>>, issues |-> <<>>, attempts |-> 0]

-----------------------------------------------------------------------------
(* Reading a stored checkpoint *)

Elements(seq) == {seq[i] : i \in DOMAIN seq}

NoRepeats(seq) == \A i, j \in DOMAIN seq : seq[i] = seq[j] => i = j

InPlanOrder(seq) == \A i, j \in DOMAIN seq : i < j => seq[i] < seq[j]

Processed(cp) == Elements(cp.confirmed) \cup Elements(cp.issues)

Unprocessed(cp) == Entries \ Processed(cp)

IsFirstUnprocessed(e, cp) ==
  e \in Unprocessed(cp) /\ \A other \in Unprocessed(cp) : e <= other

\* Processed entries are a prefix of the plan, each with one verdict.
ValidProgress(cp) ==
  /\ cp.attempts >= 0
  /\ Processed(cp) \subseteq Entries
  /\ NoRepeats(cp.issues) /\ InPlanOrder(cp.confirmed)
  /\ Elements(cp.confirmed) \cap Elements(cp.issues) = {}
  /\ Processed(cp) = 1..Cardinality(Processed(cp))

ValidTarget(cp) == cp.confirmed # <<>> => cp.target

ValidUnknown(cp) ==
  \/ cp.unknown \in {NULL, Target}
  \/ IsFirstUnprocessed(cp.unknown, cp) /\ cp.target

Parses(cp) == ValidProgress(cp) /\ ValidTarget(cp) /\ ValidUnknown(cp)

-----------------------------------------------------------------------------
(* Where a run stands, and what it records next *)

TargetIsNext(cp) == cp.unknown = Target \/ ~cp.target

AllDone(cp) == ~TargetIsNext(cp) /\ Unprocessed(cp) = {}

\* The step a run works on; only asked of a checkpoint that is not AllDone.
CurrentStep(cp) ==
  IF TargetIsNext(cp) THEN Target
  ELSE CHOOSE e \in Entries : IsFirstUnprocessed(e, cp)

Marked(cp) == [cp EXCEPT !.unknown = CurrentStep(cp)]

\* The step is confirmed by the provider's answer or by reconciliation.
Confirmed(cp) ==
  IF CurrentStep(cp) = Target
  THEN [cp EXCEPT !.target = TRUE, !.unknown = NULL]
  ELSE [cp EXCEPT !.confirmed = Append(@, CurrentStep(cp)), !.unknown = NULL]

\* Fault: the in-flight mark stays.
RejectedKeepingMark(cp) == [cp EXCEPT !.issues = Append(@, CurrentStep(cp))]

\* The provider refused the step for good.
Rejected(cp) ==
  [cp EXCEPT !.issues = Append(@, CurrentStep(cp)), !.unknown = NULL]

\* Fault: a transient failure is not counted against the budget.
RetriedUncounted(cp) == [cp EXCEPT !.unknown = NULL]

\* The provider answered that nothing happened and that it may be tried again.
Retried(cp) == [cp EXCEPT !.unknown = NULL, !.attempts = @ + 1]

\* Fault: one attempt too many.
BudgetExhaustedLate(cp) == cp.attempts > MaxRetryAttempts + 1

BudgetExhausted(cp) == cp.attempts > MaxRetryAttempts

\* Fault: the issues are forgotten.
FinalStateBlind(cp) == IF HasOmitted THEN "partial" ELSE "succeeded"

FinalState(cp) == IF HasOmitted \/ cp.issues # <<>> THEN "partial" ELSE "succeeded"
=============================================================================

------------------------ MODULE CopyCheckpointProofs ------------------------
(***************************************************************************)
(* What the checkpoint operators of CopyCheckpoint return, for every plan  *)
(* and every decoded checkpoint: which step a sound checkpoint stands at,  *)
(* and that each edit of a run keeps it sound.                             *)
(***************************************************************************)
EXTENDS CopyCheckpoint, FiniteSetTheorems, SequenceTheorems, TLAPS

-----------------------------------------------------------------------------
(* Sequences and their elements *)

LEMMA ElementsType ==
  ASSUME NEW S, NEW seq \in Seq(S)
  PROVE  Elements(seq) \subseteq S
<1>1. DOMAIN seq = 1..Len(seq)
  BY LenProperties
<1> QED
  BY <1>1, ElementOfSeq DEF Elements

LEMMA ElementsOfEmpty == Elements(<<>>) = {}
  BY DEF Elements

LEMMA ElementsOfAppend ==
  ASSUME NEW S, NEW seq \in Seq(S), NEW e \in S
  PROVE  /\ Append(seq, e) \in Seq(S)
         /\ Elements(Append(seq, e)) = Elements(seq) \cup {e}
<1> DEFINE longer == Append(seq, e)
           n      == Len(seq)
<1>1. /\ longer \in Seq(S) /\ Len(longer) = n + 1
      /\ \A i \in 1..n : longer[i] = seq[i]
      /\ longer[n + 1] = e
  BY AppendProperties
<1>2. n \in Nat /\ DOMAIN seq = 1..n
  BY LenProperties
<1>3. DOMAIN longer = 1..(n + 1)
  BY <1>1, LenProperties
<1> HIDE DEF longer, n
<1>4. 1..(n + 1) = 1..n \cup {n + 1}
  BY <1>2
<1>5. Elements(longer) = Elements(seq) \cup {e}
  BY <1>1, <1>2, <1>3, <1>4 DEF Elements
<1> QED
  BY <1>1, <1>5 DEF longer

\* A sequence without repetitions has as many elements as entries.
LEMMA DistinctCount ==
  ASSUME NEW S, NEW seq \in Seq(S), NoRepeats(seq)
  PROVE  /\ IsFiniteSet(Elements(seq))
         /\ Cardinality(Elements(seq)) = Len(seq)
<1>1. Len(seq) \in Nat /\ DOMAIN seq = 1..Len(seq) /\ seq \in [1..Len(seq) -> S]
  BY LenProperties
<1>2. seq \in Bijection(1..Len(seq), Elements(seq))
  BY <1>1 DEF Bijection, Injection, Surjection, IsInjective, Elements, NoRepeats
<1>3. ExistsBijection(1..Len(seq), Elements(seq))
  BY <1>2 DEF ExistsBijection
<1> QED
  BY <1>1, <1>3, FS_CountingElements, FS_NatBijection

LEMMA OrderedIsDistinct ==
  ASSUME NEW S \in SUBSET Int, NEW seq \in Seq(S), InPlanOrder(seq)
  PROVE  NoRepeats(seq)
<1>1. Len(seq) \in Nat /\ DOMAIN seq = 1..Len(seq) /\ seq \in [1..Len(seq) -> S]
  BY LenProperties
<1> SUFFICES ASSUME NEW i \in DOMAIN seq, NEW j \in DOMAIN seq, seq[i] = seq[j]
             PROVE  i = j
  BY DEF NoRepeats
<1>2. i \in 1..Len(seq) /\ j \in 1..Len(seq)
  BY <1>1
<1>3. seq[i] \in S /\ seq[j] \in S
  BY <1>2, ElementOfSeq
<1>4. ~(i < j) /\ ~(j < i)
  <2>1. seq[i] \in Int /\ seq[j] \in Int
    BY <1>3
  <2>2. ~(seq[i] < seq[j]) /\ ~(seq[j] < seq[i])
    BY <2>1
  <2> QED
    BY <2>2 DEF InPlanOrder
<1> QED
  BY <1>1, <1>2, <1>4

-----------------------------------------------------------------------------
(* Where a sound checkpoint stands *)

LEMMA StepTypes ==
  /\ NULL \notin CopySteps /\ Target \notin Entries /\ Target \in CopySteps
  /\ Entries \subseteq CopySteps /\ CopySteps \subseteq Nat
  /\ Entries = 1..NumEntries /\ NumEntries \in Nat
BY PlanAssumption DEF CopySteps, Entries, Target

\* A processed prefix is 1..n for one n.
LEMMA ProcessedPrefix ==
  ASSUME NEW cp, ValidProgress(cp)
  PROVE  /\ Cardinality(Processed(cp)) \in 0..NumEntries
         /\ Processed(cp) = 1..Cardinality(Processed(cp))
<1>1. IsFiniteSet(Entries) /\ Cardinality(Entries) = NumEntries
  BY StepTypes, FS_Interval
<1>2. Processed(cp) \in SUBSET Entries
  BY DEF ValidProgress
<1>3. IsFiniteSet(Processed(cp)) /\ Cardinality(Processed(cp)) <= NumEntries
  BY <1>1, <1>2, FS_Subset
<1>4. Cardinality(Processed(cp)) \in Nat
  BY <1>3, FS_CardinalityType
<1> QED
  BY <1>3, <1>4, StepTypes DEF ValidProgress

LEMMA PrefixCardinality ==
  ASSUME NEW n \in Nat
  PROVE  Cardinality(1..n) = n
<1>1. Cardinality(1..n) = IF 1 > n THEN 0 ELSE n - 1 + 1
  BY FS_Interval
<1> QED
  BY <1>1

\* The first unprocessed entry follows the prefix.
LEMMA FirstUnprocessedIsNext ==
  ASSUME NEW cp, NEW n \in 0..NumEntries, Processed(cp) = 1..n
  PROVE  /\ Unprocessed(cp) = {} <=> n = NumEntries
         /\ \A e : IsFirstUnprocessed(e, cp) <=> e \in Entries /\ e = n + 1
<1>1. Unprocessed(cp) = (n + 1)..NumEntries
  BY StepTypes DEF Unprocessed
<1>2. n \in Nat /\ NumEntries \in Nat /\ n <= NumEntries
  BY StepTypes
<1>3. Unprocessed(cp) = {} <=> n = NumEntries
  BY <1>1, <1>2
<1>4. ASSUME NEW e, IsFirstUnprocessed(e, cp)
      PROVE  e \in Entries /\ e = n + 1
  <2>1. e \in (n + 1)..NumEntries /\ n + 1 \in (n + 1)..NumEntries
    BY <1>1, <1>2, <1>4 DEF IsFirstUnprocessed
  <2>2. e <= n + 1
    BY <1>1, <1>4, <2>1 DEF IsFirstUnprocessed
  <2> QED
    BY <1>2, <2>1, <2>2, StepTypes
<1>5. ASSUME NEW e, e \in Entries, e = n + 1
      PROVE  IsFirstUnprocessed(e, cp)
  BY <1>1, <1>2, <1>5, StepTypes DEF IsFirstUnprocessed
<1> QED
  BY <1>3, <1>4, <1>5

\* The step a run works on: the target, or the entry after the prefix.
LEMMA CurrentStepIsNext ==
  ASSUME NEW cp, NEW n \in 0..NumEntries, Processed(cp) = 1..n, ~AllDone(cp)
  PROVE  /\ TargetIsNext(cp) => CurrentStep(cp) = Target
         /\ ~TargetIsNext(cp) => /\ CurrentStep(cp) = n + 1
                                 /\ CurrentStep(cp) \in Entries
                                 /\ IsFirstUnprocessed(CurrentStep(cp), cp)
         /\ CurrentStep(cp) \in CopySteps
         /\ CurrentStep(cp) \notin Processed(cp)
<1>1. TargetIsNext(cp) => CurrentStep(cp) = Target
  BY DEF CurrentStep
<1>2. ASSUME ~TargetIsNext(cp)
      PROVE  /\ CurrentStep(cp) = n + 1 /\ CurrentStep(cp) \in Entries
             /\ IsFirstUnprocessed(CurrentStep(cp), cp)
  <2>1. n # NumEntries
    BY <1>2, FirstUnprocessedIsNext DEF AllDone
  <2>2. n + 1 \in Entries
    BY <2>1, StepTypes
  <2>3. IsFirstUnprocessed(n + 1, cp)
    BY <2>2, FirstUnprocessedIsNext
  <2>4. CurrentStep(cp) = CHOOSE e \in Entries : IsFirstUnprocessed(e, cp)
    BY <1>2 DEF CurrentStep
  <2>5. CurrentStep(cp) \in Entries /\ IsFirstUnprocessed(CurrentStep(cp), cp)
    BY <2>2, <2>3, <2>4
  <2> QED
    BY <2>5, FirstUnprocessedIsNext
<1>3. Target \notin 1..n /\ n + 1 \notin 1..n
  BY DEF Target
<1> QED
  BY <1>1, <1>2, <1>3, StepTypes

\* A sound checkpoint of which everything is done: no doubt, and every entry
\* of the plan has its verdict.
LEMMA AllDoneIsComplete ==
  ASSUME NEW cp \in DecodedCheckpoints, Parses(cp), AllDone(cp)
  PROVE  cp.unknown = NULL /\ cp.target /\ Processed(cp) = Entries
<1>1. cp.target /\ cp.unknown # Target
  BY DEF AllDone, TargetIsNext, DecodedCheckpoints
<1>2. Processed(cp) = Entries
  BY DEF AllDone, Unprocessed, Parses, ValidProgress
<1>3. ~IsFirstUnprocessed(cp.unknown, cp)
  BY DEF AllDone, IsFirstUnprocessed
<1> QED
  BY <1>1, <1>2, <1>3 DEF Parses, ValidUnknown

\* A step in doubt is the one the checkpoint stands at.
LEMMA DoubtIsCurrent ==
  ASSUME NEW cp \in DecodedCheckpoints, Parses(cp), cp.unknown # NULL
  PROVE  ~AllDone(cp) /\ cp.unknown = CurrentStep(cp)
<1>1. ~AllDone(cp)
  BY AllDoneIsComplete
<1> DEFINE n == Cardinality(Processed(cp))
<1>2. n \in 0..NumEntries /\ Processed(cp) = 1..n
  BY ProcessedPrefix DEF Parses
<1> HIDE DEF n
<1>3. CASE cp.unknown = Target
  BY <1>1, <1>2, <1>3, CurrentStepIsNext DEF TargetIsNext
<1>4. CASE cp.unknown # Target
  <2>1. IsFirstUnprocessed(cp.unknown, cp) /\ cp.target
    BY <1>4 DEF Parses, ValidUnknown
  <2>2. ~TargetIsNext(cp)
    BY <1>4, <2>1 DEF TargetIsNext
  <2> QED
    BY <1>1, <1>2, <2>1, <2>2, CurrentStepIsNext, FirstUnprocessedIsNext
<1> QED
  BY <1>3, <1>4

-----------------------------------------------------------------------------
(* What the edits of a run do to a sound checkpoint *)

\* A step is marked on a checkpoint without a doubt, and stays the current one.
LEMMA MarkedCheckpoint ==
  ASSUME NEW cp \in DecodedCheckpoints, Parses(cp), ~AllDone(cp),
         cp.unknown # CurrentStep(cp)
  PROVE  /\ cp.unknown = NULL
         /\ Marked(cp) \in DecodedCheckpoints /\ Parses(Marked(cp))
         /\ ~AllDone(Marked(cp)) /\ CurrentStep(Marked(cp)) = CurrentStep(cp)
         /\ Marked(cp).unknown = CurrentStep(cp)
         /\ Marked(cp).confirmed = cp.confirmed /\ Marked(cp).target = cp.target
         /\ Marked(cp).issues = cp.issues
         /\ Marked(cp).recon = cp.recon /\ Marked(cp).attempts = cp.attempts
<1> DEFINE n == Cardinality(Processed(cp))
           m == Marked(cp)
<1>1. n \in 0..NumEntries /\ Processed(cp) = 1..n
  BY ProcessedPrefix DEF Parses
<1>2. cp.unknown = NULL
  BY DoubtIsCurrent
<1>3. CurrentStep(cp) \in CopySteps
  BY <1>1, CurrentStepIsNext
<1>4. /\ m \in DecodedCheckpoints /\ m.unknown = CurrentStep(cp)
      /\ m.confirmed = cp.confirmed /\ m.issues = cp.issues
      /\ m.target = cp.target /\ m.attempts = cp.attempts /\ m.recon = cp.recon
  BY <1>3 DEF DecodedCheckpoints, Marked
<1> HIDE DEF n, m
<1>5. Processed(m) = Processed(cp) /\ Unprocessed(m) = Unprocessed(cp)
  BY <1>4 DEF Processed, Unprocessed
<1>6. ValidProgress(m) /\ ValidTarget(m)
  BY <1>4, <1>5 DEF Parses, ValidProgress, ValidTarget
<1>7. TargetIsNext(m) <=> TargetIsNext(cp)
  <2>1. CASE TargetIsNext(cp)
    BY <1>1, <1>2, <1>4, <2>1, CurrentStepIsNext DEF TargetIsNext
  <2>2. CASE ~TargetIsNext(cp)
    BY <1>1, <1>4, <2>2, CurrentStepIsNext, StepTypes DEF TargetIsNext
  <2> QED
    BY <2>1, <2>2
<1>8. ~AllDone(m)
  BY <1>5, <1>7 DEF AllDone
<1>9. CurrentStep(m) = CurrentStep(cp)
  BY <1>1, <1>5, <1>7, <1>8, CurrentStepIsNext
<1>10. ValidUnknown(m)
  <2>1. CASE TargetIsNext(cp)
    BY <1>1, <1>4, <2>1, CurrentStepIsNext DEF ValidUnknown
  <2>2. CASE ~TargetIsNext(cp)
    BY <1>1, <1>4, <1>5, <1>7, <1>8, <1>9, <2>2, CurrentStepIsNext
    DEF ValidUnknown, TargetIsNext
  <2> QED
    BY <2>1, <2>2
<1> QED
  BY <1>2, <1>4, <1>6, <1>8, <1>9, <1>10 DEF Parses, m

\* A transient failure clears the doubt and counts one attempt.
LEMMA RetriedCheckpoint ==
  ASSUME NEW cp \in DecodedCheckpoints
  PROVE  /\ Retried(cp) \in DecodedCheckpoints
         /\ Retried(cp).unknown = NULL /\ Retried(cp).recon = cp.recon
         /\ Retried(cp).confirmed = cp.confirmed /\ Retried(cp).target = cp.target
         /\ Retried(cp).issues = cp.issues
         /\ Parses(cp) => Parses(Retried(cp))
<1> DEFINE r == Retried(cp)
<1>2. cp.attempts \in Int /\ cp.attempts + 1 \in Int
  BY DEF DecodedCheckpoints
<1>1. /\ r \in DecodedCheckpoints
      /\ r.unknown = NULL /\ r.recon = cp.recon
      /\ r.confirmed = cp.confirmed /\ r.issues = cp.issues
      /\ r.target = cp.target /\ r.attempts = cp.attempts + 1
  BY <1>2, Zenon DEF DecodedCheckpoints, Retried
<1> HIDE DEF r
<1>3. ASSUME Parses(cp)
      PROVE  Parses(r)
  <2>1. Processed(r) = Processed(cp)
    BY <1>1 DEF Processed
  <2>2. r.attempts >= 0
    BY <1>1, <1>2, <1>3 DEF Parses, ValidProgress
  <2> QED
    BY <1>1, <1>3, <2>1, <2>2 DEF Parses, ValidProgress, ValidTarget, ValidUnknown
<1> QED
  BY <1>1, <1>3 DEF r

\* One more entry has its verdict: the processed prefix grows by one.
LEMMA LongerPrefix ==
  ASSUME NEW cp \in DecodedCheckpoints, Parses(cp), ~AllDone(cp), ~TargetIsNext(cp)
  PROVE  LET n == Cardinality(Processed(cp))
             e == CurrentStep(cp)
         IN  /\ n \in Nat /\ e = n + 1 /\ e \in Entries /\ Processed(cp) = 1..n
             /\ Processed(cp) \cup {e} = 1..e
             /\ Cardinality(Processed(cp) \cup {e}) = e
<1> DEFINE n == Cardinality(Processed(cp))
           e == CurrentStep(cp)
<1>1. n \in 0..NumEntries /\ Processed(cp) = 1..n
  BY ProcessedPrefix DEF Parses
<1> HIDE DEF n
<1>2. e = n + 1 /\ e \in Entries
  BY <1>1, CurrentStepIsNext
<1> HIDE DEF e
<1>3. Processed(cp) \cup {e} = 1..e
  BY <1>1, <1>2
<1>4. Cardinality(1..e) = e
  BY <1>2, StepTypes, PrefixCardinality
<1>5. Cardinality(Processed(cp) \cup {e}) = e
  BY <1>3, <1>4, Zenon
<1>6. n \in Nat
  BY <1>1
<1> QED
  BY <1>1, <1>2, <1>3, <1>5, <1>6, Zenon DEF n, e

\* The step in doubt is confirmed: the target, or the entry after the prefix.
LEMMA ConfirmedCheckpoint ==
  ASSUME NEW cp \in DecodedCheckpoints, Parses(cp), cp.unknown # NULL
  PROVE  /\ Confirmed(cp) \in DecodedCheckpoints /\ Parses(Confirmed(cp))
         /\ Confirmed(cp).unknown = NULL /\ Confirmed(cp).recon = cp.recon
         /\ Confirmed(cp).issues = cp.issues
         /\ \/ /\ cp.unknown = Target /\ Confirmed(cp).target
               /\ Confirmed(cp).confirmed = cp.confirmed
            \/ /\ cp.unknown \in Entries
               /\ Confirmed(cp).target = cp.target
               /\ Elements(Confirmed(cp).confirmed)
                     = Elements(cp.confirmed) \cup {cp.unknown}
<1> DEFINE e == CurrentStep(cp)
           c == Confirmed(cp)
<1>1. ~AllDone(cp) /\ cp.unknown = e
  BY DoubtIsCurrent
<1>2. CASE e = Target
  <2>1. /\ c \in DecodedCheckpoints /\ c.unknown = NULL /\ c.issues = cp.issues
        /\ c.target /\ c.confirmed = cp.confirmed /\ c.attempts = cp.attempts
        /\ c.recon = cp.recon
    BY <1>2 DEF DecodedCheckpoints, Confirmed
  <2> HIDE DEF c
  <2>2. Processed(c) = Processed(cp)
    BY <2>1 DEF Processed
  <2>3. Parses(c)
    BY <2>1, <2>2 DEF Parses, ValidProgress, ValidTarget, ValidUnknown
  <2> QED
    BY <1>1, <1>2, <2>1, <2>3 DEF c
<1>3. CASE e # Target
  <2> DEFINE n == Cardinality(Processed(cp))
             longer == Append(cp.confirmed, e)
  <2>1. ~TargetIsNext(cp)
    BY <1>3 DEF CurrentStep
  <2>2. /\ n \in Nat /\ e = n + 1 /\ e \in Entries /\ Processed(cp) = 1..n
        /\ Processed(cp) \cup {e} = 1..e
        /\ Cardinality(Processed(cp) \cup {e}) = e
    BY <1>1, <2>1, LongerPrefix
  <2>3. cp.confirmed \in Seq(Entries) /\ cp.target
    BY <2>1 DEF DecodedCheckpoints, TargetIsNext
  <2>4. longer \in Seq(Entries) /\ Elements(longer) = Elements(cp.confirmed) \cup {e}
    BY <2>2, <2>3, ElementsOfAppend
  <2>5. /\ c \in DecodedCheckpoints /\ c.unknown = NULL /\ c.issues = cp.issues
        /\ c.target = cp.target /\ c.confirmed = longer /\ c.attempts = cp.attempts
        /\ c.recon = cp.recon
    BY <1>3, <2>4 DEF DecodedCheckpoints, Confirmed
  <2> HIDE DEF c, e, n
  <2>6. InPlanOrder(longer)
    <3>1. /\ longer \in Seq(Entries) /\ Len(longer) = Len(cp.confirmed) + 1
          /\ \A i \in 1..Len(cp.confirmed) : longer[i] = cp.confirmed[i]
          /\ longer[Len(cp.confirmed) + 1] = e
      BY <2>2, <2>3, AppendProperties
    <3> HIDE DEF longer
    <3>2. /\ Len(cp.confirmed) \in Nat /\ DOMAIN cp.confirmed = 1..Len(cp.confirmed)
      BY <2>3, LenProperties
    <3>3. DOMAIN longer = 1..(Len(cp.confirmed) + 1)
      BY <3>1, LenProperties
    <3>4. \A i \in 1..Len(cp.confirmed) : cp.confirmed[i] \in 1..n
      BY <2>2, <3>2 DEF Elements, Processed
    <3> SUFFICES ASSUME NEW i \in DOMAIN longer, NEW j \in DOMAIN longer, i < j
                 PROVE  longer[i] < longer[j]
      BY DEF InPlanOrder
    <3>5. i \in 1..Len(cp.confirmed) /\ longer[i] = cp.confirmed[i]
      BY <3>1, <3>2, <3>3
    <3>6. CASE j = Len(cp.confirmed) + 1
      BY <2>2, <3>1, <3>4, <3>5, <3>6
    <3>7. CASE j \in 1..Len(cp.confirmed)
      <4>1. InPlanOrder(cp.confirmed)
        BY DEF Parses, ValidProgress
      <4>2. cp.confirmed[i] < cp.confirmed[j]
        BY <3>2, <3>5, <3>7, <4>1 DEF InPlanOrder
      <4> QED
        BY <3>1, <3>5, <3>7, <4>2
    <3> QED
      BY <3>2, <3>3, <3>6, <3>7
  <2>7. Processed(c) = Processed(cp) \cup {e}
    BY <2>4, <2>5 DEF Processed
  <2>8. e \notin Processed(cp)
    BY <2>2
  <2>9. Elements(c.confirmed) \cap Elements(c.issues) = {}
    BY <2>4, <2>5, <2>8 DEF Parses, ValidProgress, Processed
  <2>10. ValidProgress(c)
    <3>1. Processed(cp) \cup {e} \subseteq Entries
      BY <2>2 DEF Parses, ValidProgress
    <3> QED
      BY <2>2, <2>5, <2>6, <2>7, <2>9, <3>1 DEF Parses, ValidProgress
  <2>11. Parses(c)
    BY <2>3, <2>5, <2>10 DEF Parses, ValidTarget, ValidUnknown
  <2> QED
    BY <1>1, <2>2, <2>4, <2>5, <2>11 DEF c
<1> QED
  BY <1>2, <1>3

\* The step in doubt was refused.  An entry becomes an issue; a refused target
\* ends the copy, and the checkpoint it leaves is not read again.
LEMMA RejectedCheckpoint ==
  ASSUME NEW cp \in DecodedCheckpoints, Parses(cp), cp.unknown # NULL
  PROVE  /\ Rejected(cp) \in DecodedCheckpoints
         /\ Rejected(cp).unknown = NULL /\ Rejected(cp).recon = cp.recon
         /\ Rejected(cp).confirmed = cp.confirmed
         /\ Rejected(cp).target = cp.target
         /\ Elements(Rejected(cp).issues) = Elements(cp.issues) \cup {cp.unknown}
         /\ cp.unknown # Target => Parses(Rejected(cp))
<1> DEFINE e == CurrentStep(cp)
           c == Rejected(cp)
           longer == Append(cp.issues, e)
<1>1. ~AllDone(cp) /\ cp.unknown = e
  BY DoubtIsCurrent
<1>2. e \in CopySteps /\ cp.issues \in Seq(CopySteps)
  BY <1>1 DEF DecodedCheckpoints
<1>3. longer \in Seq(CopySteps) /\ Elements(longer) = Elements(cp.issues) \cup {e}
  BY <1>2, ElementsOfAppend
<1>4. /\ c \in DecodedCheckpoints /\ c.unknown = NULL /\ c.issues = longer
      /\ c.target = cp.target /\ c.confirmed = cp.confirmed
      /\ c.attempts = cp.attempts /\ c.recon = cp.recon
  BY <1>3 DEF DecodedCheckpoints, Rejected
<1> HIDE DEF c
<1>5. ASSUME e # Target
      PROVE  Parses(c)
  <2> DEFINE n == Cardinality(Processed(cp))
  <2>1. ~TargetIsNext(cp)
    BY <1>5 DEF CurrentStep
  <2>2. /\ n \in Nat /\ e = n + 1 /\ e \in Entries /\ Processed(cp) = 1..n
        /\ Processed(cp) \cup {e} = 1..e
        /\ Cardinality(Processed(cp) \cup {e}) = e
    BY <1>1, <2>1, LongerPrefix
  <2> HIDE DEF e, n
  <2>3. e \notin Processed(cp)
    BY <2>2
  <2>4. NoRepeats(longer)
    <3>1. /\ longer \in Seq(CopySteps) /\ Len(longer) = Len(cp.issues) + 1
          /\ \A i \in 1..Len(cp.issues) : longer[i] = cp.issues[i]
          /\ longer[Len(cp.issues) + 1] = e
      BY <1>2, AppendProperties
    <3> HIDE DEF longer
    <3>2. Len(cp.issues) \in Nat /\ DOMAIN cp.issues = 1..Len(cp.issues)
      BY <1>2, LenProperties
    <3>3. DOMAIN longer = 1..(Len(cp.issues) + 1)
      BY <3>1, LenProperties
    <3>4. \A i \in 1..Len(cp.issues) : cp.issues[i] # e
      BY <2>3, <3>2 DEF Elements, Processed
    <3>5. NoRepeats(cp.issues)
      BY DEF Parses, ValidProgress
    <3> SUFFICES ASSUME NEW i \in DOMAIN longer, NEW j \in DOMAIN longer,
                        longer[i] = longer[j]
                 PROVE  i = j
      BY DEF NoRepeats
    <3>6. CASE i \in 1..Len(cp.issues) /\ j \in 1..Len(cp.issues)
      BY <3>1, <3>2, <3>5, <3>6 DEF NoRepeats
    <3>7. CASE i = Len(cp.issues) + 1 /\ j # Len(cp.issues) + 1
      BY <3>1, <3>2, <3>3, <3>4, <3>7
    <3>8. CASE j = Len(cp.issues) + 1 /\ i # Len(cp.issues) + 1
      BY <3>1, <3>2, <3>3, <3>4, <3>8
    <3> QED
      BY <3>2, <3>3, <3>6, <3>7, <3>8
  <2>5. Processed(c) = Processed(cp) \cup {e}
    BY <1>3, <1>4 DEF Processed
  <2>6. Elements(c.confirmed) \cap Elements(c.issues) = {}
    BY <1>3, <1>4, <2>3 DEF Parses, ValidProgress, Processed
  <2>7. ValidProgress(c)
    <3>1. Processed(cp) \cup {e} \subseteq Entries
      BY <2>2 DEF Parses, ValidProgress
    <3> QED
      BY <1>4, <2>2, <2>4, <2>5, <2>6, <3>1 DEF Parses, ValidProgress
  <2> QED
    BY <1>4, <2>7 DEF Parses, ValidTarget, ValidUnknown
<1> QED
  BY <1>1, <1>3, <1>4, <1>5 DEF c

-----------------------------------------------------------------------------
(* How long a sound checkpoint is *)

LEMMA VerdictCount ==
  ASSUME NEW cp \in DecodedCheckpoints, Parses(cp)
  PROVE  /\ Len(cp.confirmed) \in Nat /\ Len(cp.issues) \in Nat
         /\ Len(cp.confirmed) + Len(cp.issues) = Cardinality(Processed(cp))
         /\ Cardinality(Processed(cp)) \in 0..NumEntries
<1>1. cp.confirmed \in Seq(Entries) /\ cp.issues \in Seq(CopySteps)
  BY DEF DecodedCheckpoints
<1>2. Entries \in SUBSET Int
  BY StepTypes
<1>3. NoRepeats(cp.confirmed) /\ NoRepeats(cp.issues)
  BY <1>1, <1>2, OrderedIsDistinct DEF Parses, ValidProgress
<1>4. /\ IsFiniteSet(Elements(cp.confirmed)) /\ IsFiniteSet(Elements(cp.issues))
      /\ Cardinality(Elements(cp.confirmed)) = Len(cp.confirmed)
      /\ Cardinality(Elements(cp.issues)) = Len(cp.issues)
  BY <1>1, <1>3, DistinctCount
<1>5. Elements(cp.confirmed) \cap Elements(cp.issues) = {}
  BY DEF Parses, ValidProgress
<1>6. Len(cp.confirmed) \in Nat /\ Len(cp.issues) \in Nat
  BY <1>1, LenProperties
<1>7. Cardinality(Processed(cp)) = Len(cp.confirmed) + Len(cp.issues) - 0
  <2>1. Cardinality({}) = 0
    BY FS_EmptySet
  <2>2. Cardinality(Processed(cp))
          = Cardinality(Elements(cp.confirmed)) + Cardinality(Elements(cp.issues))
              - Cardinality(Elements(cp.confirmed) \cap Elements(cp.issues))
    BY <1>4, FS_Union, Zenon DEF Processed
  <2> QED
    BY <1>4, <1>5, <2>1, <2>2, Zenon
<1>8. Len(cp.confirmed) + Len(cp.issues) = Cardinality(Processed(cp))
  <2> DEFINE a == Len(cp.confirmed)
             b == Len(cp.issues)
             k == Cardinality(Processed(cp))
  <2>1. k = a + b - 0 /\ a \in Nat /\ b \in Nat
    BY <1>6, <1>7
  <2> HIDE DEF a, b, k
  <2>2. a + b = k
    BY <2>1
  <2> QED
    BY <2>2 DEF a, b, k
<1>9. Cardinality(Processed(cp)) \in 0..NumEntries
  BY ProcessedPrefix DEF Parses
<1> QED
  BY <1>6, <1>8, <1>9
=============================================================================

----------------------------- MODULE WallClock -----------------------------
(***************************************************************************)
(* The clock of the host.  A caller samples it before its statement        *)
(* reaches the database, so a transaction may carry an older time.         *)
(***************************************************************************)
EXTENDS Integers

CONSTANTS
  MaxTime,        \* bound: the last time of the model
  MaxStaleness    \* bound: how old a sample may be when a call begins

ASSUME ClockAssumption == MaxTime \in Nat /\ MaxStaleness \in Nat

VARIABLE clock

Samples == {t \in 0..clock : clock - t <= MaxStaleness}

PassTime == clock < MaxTime /\ clock' = clock + 1
=============================================================================

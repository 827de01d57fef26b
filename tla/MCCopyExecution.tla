-------------------------- MODULE MCCopyExecution --------------------------
(***************************************************************************)
(* Two workers and a plan of one or two entries, from a fresh checkpoint   *)
(* or from any small checkpoint an earlier version may have left behind.   *)
(***************************************************************************)
EXTENDS CopyExecution, TLC

WorkerSymmetry == Permutations(Workers)

MCFresh == {FreshCheckpoint}

MCAnyCheckpoint ==
  [unknown : CopySteps \cup {NULL}, recon : {FALSE}, target : BOOLEAN,
   confirmed : SequencesUpTo(Entries, 2), issues : SequencesUpTo(CopySteps, 1),
   attempts : {-1, 0}]
=============================================================================

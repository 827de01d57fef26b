-------------------------- MODULE MCOperationStore --------------------------
(***************************************************************************)
(* Two operations, two workers and one step that can be in doubt.          *)
(***************************************************************************)
EXTENDS QueueDiagnostics, TLC

MCOpIds == 1..2
WorkerSymmetry == Permutations(Workers)
=============================================================================

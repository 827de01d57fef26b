------------------------------ MODULE SqlNull ------------------------------
(* The value of a column that is not set, shared by all stores. *)

CONSTANT NULL
=============================================================================

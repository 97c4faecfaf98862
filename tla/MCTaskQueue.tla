----------------------------- MODULE MCTaskQueue -----------------------------
(* The small instance of TaskQueue for TLC. *)
EXTENDS TaskQueue

=============================================================================

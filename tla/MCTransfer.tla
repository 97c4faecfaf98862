----------------------------- MODULE MCTransfer -----------------------------
(* Small instances of Transfer for TLC. *)
EXTENDS Transfer, TLC

MCSymmetry == Permutations(Workers) \cup Permutations(Paths)
=============================================================================

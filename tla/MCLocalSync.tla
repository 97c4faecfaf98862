---------------------------- MODULE MCLocalSync ----------------------------
(* Small instances of LocalSync for TLC. *)
EXTENDS LocalSync, TLC

CONSTANTS a, b    \* two blocks

\* A file of one block and one of two.
TwoFiles == {<<a>>, <<b, b>>}
\* Every path has nothing at first, or every path the large file.
NoneOrLarge == {[x \in Paths |-> c] : c \in {Absent, <<b, b>>}}

MCSymmetry == Permutations(Workers)
=============================================================================

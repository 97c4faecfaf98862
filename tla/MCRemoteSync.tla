---------------------------- MODULE MCRemoteSync ----------------------------
(* Small instances of RemoteSync for TLC. *)
EXTENDS RemoteSync, TLC

CONSTANTS a, b    \* two blocks

\* A small file and two large ones; any part or mixture of them is another file.
MixedFiles == {<<a>>, <<b, b>>, <<b, a>>}
\* One of each kind.
TreeFiles == {<<a>>, <<b, b>>}

MCSymmetry == Permutations(Workers) \cup Permutations(Paths)
=============================================================================

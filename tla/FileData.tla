------------------------------ MODULE FileData ------------------------------
(***************************************************************************)
(* Files as sequences of blocks, and what a path can have: nothing, a      *)
(* directory or a file.  A hash is the file itself: FNV-1a is taken to be  *)
(* free of collisions.  For Server and LocalSync.                          *)
(***************************************************************************)
EXTENDS Naturals, Sequences

CONSTANTS
    Blocks, Hole,   \* contents of a block, and one that was never written
    MaxBlocks,      \* BOUND: blocks in a file
    Absent, Dir,    \* what a path has when it has no file
    NoHash          \* hash 0: the file could not be read

Files == UNION {[1 .. n -> Blocks \cup {Hole}] : n \in 0 .. MaxBlocks}
Hashes == Files \cup {NoHash}

ASSUME FileAssumption ==
    /\ MaxBlocks \in Nat /\ Hole \notin Blocks
    /\ Absent # Dir /\ Absent \notin Files /\ Dir \notin Files

IsFile(x) == x \notin {Absent, Dir}

\* rename(2) puts a file over a file and a directory over an empty one.
CanRename(x, onto) ==
    IF x = Dir THEN onto \in {Absent, Dir} ELSE x # Absent /\ onto # Dir

\* A write of data at offset into the file x; what it skips reads as zeros.
WrittenInto(x, offset, data) ==
    LET end == offset + Len(data)
    IN  [i \in 1 .. (IF end > Len(x) THEN end ELSE Len(x)) |->
           IF i \in offset + 1 .. end THEN data[i - offset]
           ELSE IF i <= Len(x) THEN x[i] ELSE Hole]
=============================================================================

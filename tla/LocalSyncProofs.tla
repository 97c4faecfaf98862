--------------------------- MODULE LocalSyncProofs ---------------------------
(***************************************************************************)
(* The safety of LocalSync for any number of workers, paths, blocks and    *)
(* retries: once the tasks of a path ended well the backup has what the    *)
(* source has, and no temporary file stays behind.                         *)
(***************************************************************************)
EXTENDS LocalSync, FiniteSetTheorems, SequenceTheorems, TLAPS

\* A worker copies to current/ or .versions, and what it writes lies inside a file.
Where(w) ==
    /\ pc[w] \in {"open", "create", "read", "write", "rename", "unlink"} =>
         dst[w] \in {Current(Path(w)), Version(Path(w))}
    /\ pc[w] = "check" => dst[w] = Current(Path(w))
    /\ pc[w] = "trash" => dst[w] = Trash(Path(w)) /\ task[w].type = "DELETE"
    /\ pc[w] \in {"backup", "hash", "open", "create", "read", "write", "rename", "unlink",
                  "check"} => ~task[w].dir /\ task[w].type # "DELETE"
    /\ pc[w] = "upload" => task[w].type = "RENAME"
    /\ pc[w] \notin {"read", "write"} => pos[w] = 0
    /\ pc[w] = "write" => pos[w] < MaxBlocks

TempNames == {Temp(Current(p)) : p \in Paths} \cup {Temp(Version(p)) : p \in Paths}

\* Whose inode is whose: a .syncing is written by workers of its path, nobody writes the
\* source, and what is copied to current/ has no name, or that of the source.
Apart ==
    /\ \A n \in TempNames : tree[n] # Dir
    /\ \A w \in Workers, p \in Paths : out[w] \in Inodes =>
         /\ out[w] = tree[Temp(Current(p))] => dst[w] = Current(p)
         /\ out[w] # tree[Source(p)]
    /\ \A w \in Workers, p \in Paths, n \in Names :
         dst[w] = Current(p) /\ in[w] \in Inodes /\ in[w] = tree[n] => n = Source(p)

\* Whoever created a .syncing will rename or remove it.
TempHeld == \A p \in Paths : \A n \in {Current(p), Version(p)} :
    ~killed /\ tree[Temp(n)] # Absent =>
        \E w \in Workers : dst[w] = n /\ pc[w] \in {"read", "write", "rename", "unlink"}

\* A worker that hashed what the source no longer has, and will not hash again
\* unless it fails.
Stale(w, p) ==
    /\ dst[w] = Current(p) /\ pc[w] \in {"open", "create", "read", "write", "rename"}
    /\ before[w] # Content(Source(p))
Pending(w, p) == p \in Touches(task[w]) /\ ~task[w].dir /\ pc[w] # "check"
AllStale(p) == \A w \in Workers : Pending(w, p) => Stale(w, p)

\* z was the last to create .syncing, and all that it wrote is still there.
Fills(z, p) ==
    LET temp == tree[Temp(Current(p))]
        x == Content(Source(p))
    IN  /\ Stale(z, p)
        /\ \/ /\ pc[z] \in {"read", "write"} /\ out[z] = temp
              /\ pos[z] <= Len(data[temp])
              /\ \A i \in 1 .. pos[z] : data[temp][i] = x[i]
           \/ pc[z] = "rename" /\ data[temp] = x

\* A .syncing that was created after the source was hashed as it is.
NewTemp(p) ==
    LET temp == tree[Temp(Current(p))]
        x == Content(Source(p))
    IN  temp # Absent =>
          /\ Len(data[temp]) <= Len(x)
          /\ \A w \in Workers : out[w] = temp /\ pc[w] = "write" =>
                 pos[w] < Len(x) /\ buf[w] = x[pos[w] + 1]
          /\ \E z \in Workers : Fills(z, p)

\* Only workers of the path write into what has its name.
Owned(p) == \A w \in Workers :
    out[w] \in Inodes /\ out[w] = tree[Current(p)] => dst[w] = Current(p)

Mismatched(w, p) ==
    pc[w] = "check" /\ p \in Touches(task[w]) /\ before[w] # Hash(Current(p))

Updated(p) == p \notin unsettled /\ IsFile(tree[Source(p)]) =>
    /\ \A w \in Workers : p \in Touches(task[w]) => task[w].type = "UPDATE"
    /\ \A w \in Workers : dst[w] = Current(p) /\ in[w] # NotOpen =>
           in[w] \in {tree[Source(p)], Dir}
    /\ AllStale(p) =>
         /\ Owned(p) /\ NewTemp(p)
         /\ \/ \E w \in Workers : Pending(w, p) \/ Mismatched(w, p)
            \/ Content(Current(p)) = Content(Source(p))

\* What the source no longer has is in current/ only while it is being deleted.
Removed(p) == p \notin unsettled /\ tree[Source(p)] = Absent =>
    /\ \A w \in Workers : p \in Touches(task[w]) => task[w].type = "DELETE"
    /\ \A v, w \in Workers : p \in Touches(task[v]) \cap Touches(task[w]) => v = w
    /\ tree[Current(p)] # Absent => \E w \in Workers : p \in Touches(task[w])

\* TypeOK in two halves: the file system, and the workers.
Holds(i) == (\E n \in Names : tree[n] = i) \/ \E w \in Workers : i \in {in[w], out[w]}
Distinct == \A n, m \in Names : IsFile(tree[n]) /\ tree[n] = tree[m] => n = m
TreeTypes ==
    /\ tree \in [Names -> Inodes \cup {Absent, Dir}] /\ Distinct
    /\ in \in [Workers -> Inodes \cup {Dir, NotOpen}]
    /\ out \in [Workers -> Inodes \cup {NotOpen}]
DataTypes ==
    /\ data \in [DOMAIN data -> Files] /\ DOMAIN data = {i \in Inodes : Holds(i)}
WorkTypes ==
    /\ task \in [Workers -> Tasks \cup {NoTask}]
    /\ tries \in [Workers -> 0 .. MaxRetry]
    /\ pc \in [Workers -> Labels]
    /\ \A w \in Workers :
         /\ task[w] = NoTask <=> pc[w] = "idle"
         /\ dst[w] # NoName <=>
              pc[w] \in {"open", "create", "read", "write", "rename", "unlink",
                         "check", "trash"}
         /\ out[w] # NotOpen <=> pc[w] \in {"read", "write"}
         /\ in[w] # NotOpen <=> pc[w] \in {"create", "read", "write"}
    /\ dst \in [Workers -> Names \cup {NoName}]
    /\ pos \in [Workers -> 0 .. MaxBlocks]
    /\ buf \in [Workers -> Blocks \cup {Hole}]
    /\ before \in [Workers -> Hashes]
    /\ writes \in 0 .. MaxWrites /\ taken \in 0 .. MaxTasks /\ faults \in 0 .. MaxFaults
    /\ unsettled \subseteq Paths
    /\ killed \in BOOLEAN

IInv ==
    /\ TreeTypes /\ DataTypes /\ WorkTypes /\ (\A w \in Workers : Where(w)) /\ Apart /\ TempHeld
    /\ \A p \in Paths : Updated(p) /\ Removed(p)
-----------------------------------------------------------------------------
(* Names, inodes and files *)

\* The six names of a path are different, and no two paths share one.
LEMMA NamesDiffer ==
    ASSUME NEW p \in Paths, NEW q \in Paths
    PROVE  /\ {Source(p), Current(p), Version(p), Trash(p), Temp(Current(p)),
                Temp(Version(p))} \subseteq Names
           /\ Source(p) = Source(q) => p = q
           /\ Current(p) = Current(q) => p = q
           /\ Version(p) = Version(q) => p = q
           /\ Temp(Current(p)) = Temp(Current(q)) => p = q
           /\ Temp(Version(p)) = Temp(Version(q)) => p = q
           /\ Source(p) \notin {Current(q), Version(q), Trash(q), Temp(Current(q)), Temp(Version(q))}
           /\ Current(p) \notin {Version(q), Trash(q), Temp(Current(q)), Temp(Version(q))}
           /\ Version(p) \notin {Trash(q), Temp(Current(q)), Temp(Version(q))}
           /\ Trash(p) \notin {Temp(Current(q)), Temp(Version(q))}
           /\ Temp(Current(p)) # Temp(Version(q))
BY DEF Source, Current, Version, Trash, Temp, Names

\* An image is no larger than its origin.
LEMMA ImageSize ==
    ASSUME NEW S, IsFiniteSet(S), NEW f
    PROVE  /\ IsFiniteSet({f[x] : x \in S})
           /\ Cardinality({f[x] : x \in S}) \in Nat
           /\ Cardinality({f[x] : x \in S}) <= Cardinality(S)
<1> DEFINE T == {f[x] : x \in S}
           g == [x \in S |-> f[x]]
<1>1. g \in Surjection(S, T)
  BY DEF Surjection
<1>2. QED
  BY <1>1, FS_Surjection, FS_CardinalityType

\* There are as many names as it takes, and not more.
LEMMA FiniteNames ==
    /\ IsFiniteSet(Names) /\ Cardinality(Names) \in Nat
    /\ Cardinality(Workers) \in Nat /\ Cardinality(Paths) \in Nat
<1> DEFINE Kinds6 == {"source", "current", "versions", "trash", "current.syncing",
                      "versions.syncing"}
<1>1. IsFiniteSet(Kinds6)
  <2>1. IsFiniteSet({"source"})
    BY FS_Singleton
  <2>2. Kinds6 = (((({"source"} \cup {"current"}) \cup {"versions"}) \cup {"trash"})
                    \cup {"current.syncing"}) \cup {"versions.syncing"}
    OBVIOUS
  <2> HIDE DEF Kinds6
  <2>3. QED
    BY <2>1, <2>2, FS_AddElement
<1>2. IsFiniteSet(Kinds6 \X Paths)
  BY <1>1, FS_Product, LocalAssumption
<1>3. QED
  BY <1>2, FS_CardinalityType, LocalAssumption DEF Names

\* While a name has no file there is an inode left for it.
LEMMA FreeInode ==
    ASSUME TreeTypes, DataTypes, NEW n \in Names, tree[n] = Absent
    PROVE  NewInode \in Inodes /\ NewInode \notin DOMAIN data
<1> DEFINE A == {tree[m] : m \in Names \ {n}}
           B == {in[w] : w \in Workers}
           C == {out[w] : w \in Workers}
<1>1. /\ IsFiniteSet(Names \ {n}) /\ Cardinality(Names \ {n}) = Cardinality(Names) - 1
  BY FiniteNames, FS_RemoveElement
<1>2. /\ IsFiniteSet(A) /\ Cardinality(A) \in Nat /\ Cardinality(A) <= Cardinality(Names) - 1
  BY <1>1, ImageSize
<1>3. /\ IsFiniteSet(B) /\ Cardinality(B) \in Nat /\ Cardinality(B) <= Cardinality(Workers)
      /\ IsFiniteSet(C) /\ Cardinality(C) \in Nat /\ Cardinality(C) <= Cardinality(Workers)
  BY ImageSize, LocalAssumption
<1> HIDE DEF A, B, C
<1>4. /\ IsFiniteSet(B \cup C) /\ Cardinality(B \cup C) \in Nat
      /\ Cardinality(B \cup C) <= 2 * Cardinality(Workers)
  <2>1. /\ IsFiniteSet(B \cup C)
        /\ Cardinality(B \cup C) = Cardinality(B) + Cardinality(C) - Cardinality(B \cap C)
    BY <1>3, FS_Union
  <2>2. Cardinality(B \cap C) \in Nat
    BY <1>3, FS_Intersection, FS_CardinalityType
  <2>3. Cardinality(B \cup C) \in Nat
    BY <2>1, FS_CardinalityType
  <2>4. QED
    BY <1>3, <2>1, <2>2, <2>3, FiniteNames
<1>5. /\ IsFiniteSet(A \cup (B \cup C))
      /\ Cardinality(A \cup (B \cup C)) < Cardinality(Names) + 2 * Cardinality(Workers)
  <2>1. /\ IsFiniteSet(A \cup (B \cup C))
        /\ Cardinality(A \cup (B \cup C)) =
             Cardinality(A) + Cardinality(B \cup C) - Cardinality(A \cap (B \cup C))
    BY <1>2, <1>4, FS_Union
  <2>2. Cardinality(A \cap (B \cup C)) \in Nat
    BY <1>2, <1>4, FS_Intersection, FS_CardinalityType
  <2>3. QED
    BY <1>2, <1>4, <2>1, <2>2, FiniteNames
<1>6. DOMAIN data \subseteq A \cup (B \cup C)
  BY LocalAssumption DEF TreeTypes, DataTypes, Holds, A, B, C
<1>7. \E i \in Inodes : i \notin DOMAIN data
  <2> SUFFICES ASSUME Inodes \subseteq DOMAIN data PROVE FALSE
    OBVIOUS
  <2>1. Inodes \subseteq A \cup (B \cup C)
    BY <1>6
  <2>2. Cardinality(Inodes) <= Cardinality(A \cup (B \cup C))
    BY <1>5, <2>1, FS_Subset
  <2>3. Cardinality(Inodes) = Cardinality(Names) + 2 * Cardinality(Workers)
    <3> DEFINE n3 == Cardinality(Names) + 2 * Cardinality(Workers)
    <3>1. n3 \in Nat
      BY FiniteNames
    <3> HIDE DEF n3
    <3>2. Cardinality(1 .. n3) = n3
      BY <3>1, FS_Interval
    <3>3. QED
      BY <3>2 DEF Inodes, n3
  <2>4. Cardinality(A \cup (B \cup C)) \in Nat
    BY <1>5, FS_CardinalityType
  <2>5. QED
    BY <1>5, <2>2, <2>3, <2>4, FiniteNames
<1>8. QED
  BY <1>7 DEF NewInode

\* The fields of a task that a worker has.
LEMMA TaskFields ==
    ASSUME WorkTypes, NEW w \in Workers, pc[w] # "idle"
    PROVE  /\ task[w] \in Tasks /\ task[w] # NoTask
           /\ task[w].type \in {"UPDATE", "DELETE", "RENAME"} /\ task[w].dir \in BOOLEAN
           /\ Path(w) \in Paths /\ task[w].path = Path(w)
           /\ Path(w) \in Touches(task[w]) /\ Touches(task[w]) \subseteq Paths
           /\ task[w].type = "RENAME" => task[w].old \in Paths
           /\ task[w].type # "RENAME" => Touches(task[w]) = {Path(w)}
<1>1. task[w] \in Tasks /\ task[w] # NoTask
  BY LocalAssumption DEF WorkTypes
<1>2. QED
  BY <1>1, LocalAssumption DEF Tasks, Path, Touches

\* What a path has when something is moved, made or removed.
LEMMA TreeForms ==
    ASSUME TreeTypes,
           \/ tree' = tree
           \/ \E m, n \in Names : m # n /\ tree' = Moved(m, n)
           \/ \E n \in Names, x \in {Absent, Dir} : tree' = [tree EXCEPT ![n] = x]
    PROVE  /\ tree' \in [Names -> Inodes \cup {Absent, Dir}] /\ Distinct'
           /\ \A n \in Names : tree'[n] \in Inodes => \E m \in Names : tree[m] = tree'[n]
<1>1. CASE tree' = tree
  BY <1>1 DEF TreeTypes, Distinct
<1>2. ASSUME NEW m \in Names, NEW n \in Names, m # n, tree' = Moved(m, n)
      PROVE  /\ tree' \in [Names -> Inodes \cup {Absent, Dir}] /\ Distinct'
             /\ \A k \in Names : tree'[k] \in Inodes => \E j \in Names : tree[j] = tree'[k]
  <2>1. \A k \in Names : tree'[k] = IF k = n THEN tree[m] ELSE IF k = m THEN Absent ELSE tree[k]
    BY <1>2 DEF Moved, TreeTypes
  <2>2. tree' \in [Names -> Inodes \cup {Absent, Dir}]
    BY <1>2 DEF Moved, TreeTypes
  <2>3. Distinct'
    <3> SUFFICES ASSUME NEW k \in Names, NEW j \in Names, IsFile(tree'[k]), tree'[k] = tree'[j]
                 PROVE  k = j
      BY DEF Distinct
    <3>1. tree'[k] # Absent /\ tree'[j] # Absent
      BY DEF IsFile
    <3>2. k # m /\ j # m
      BY <2>1, <3>1, <1>2
    <3>3. QED
      BY <2>1, <3>2, <1>2 DEF TreeTypes, Distinct, IsFile
  <2>4. QED
    BY <2>1, <2>2, <2>3, LocalAssumption
<1>3. ASSUME NEW n \in Names, NEW x \in {Absent, Dir}, tree' = [tree EXCEPT ![n] = x]
      PROVE  /\ tree' \in [Names -> Inodes \cup {Absent, Dir}] /\ Distinct'
             /\ \A k \in Names : tree'[k] \in Inodes => \E j \in Names : tree[j] = tree'[k]
  BY <1>3, LocalAssumption DEF TreeTypes, Distinct, IsFile
<1>4. QED
  BY <1>1, <1>2, <1>3

\* What is not removed keeps its contents.
DataKept == \A i \in DOMAIN data' : i \in DOMAIN data /\ data'[i] = data[i]

\* A step that closes files, and may move, make or remove a name.
LEMMA ClosingStep ==
    ASSUME TreeTypes, DataTypes, DataBecomes(data),
           \/ tree' = tree
           \/ \E m, n \in Names : m # n /\ tree' = Moved(m, n)
           \/ \E n \in Names, x \in {Absent, Dir} : tree' = [tree EXCEPT ![n] = x],
           in' \in [Workers -> Inodes \cup {Dir, NotOpen}],
           out' \in [Workers -> Inodes \cup {NotOpen}],
           \A w \in Workers : in'[w] \in {in[w], NotOpen} /\ out'[w] \in {out[w], NotOpen}
    PROVE  TreeTypes' /\ DataTypes' /\ DataKept
<1>1. TreeTypes'
  BY TreeForms DEF TreeTypes
<1>2. \A i \in Inodes : Holds(i)' => Holds(i)
  <2> SUFFICES ASSUME NEW i \in Inodes, Holds(i)' PROVE Holds(i)
    OBVIOUS
  <2>1. CASE \E n \in Names : tree'[n] = i
    BY <2>1, TreeForms DEF Holds
  <2>2. CASE \E w \in Workers : i \in {in'[w], out'[w]}
    BY <2>2, LocalAssumption DEF Holds
  <2>3. QED
    BY <2>1, <2>2 DEF Holds
<1>3. Live' = {i \in Inodes : Holds(i)'}
  BY DEF Live, Holds
<1>4. data' = [i \in {j \in Inodes : Holds(j)'} |-> data[i]]
  BY <1>3 DEF DataBecomes
<1>5. DOMAIN data' = {i \in Inodes : Holds(i)'} /\ DataKept
  BY <1>2, <1>4 DEF DataTypes, DataKept
<1>6. data' \in [DOMAIN data' -> Files]
  BY <1>2, <1>4 DEF DataTypes
<1>7. QED
  BY <1>1, <1>5, <1>6 DEF DataTypes

\* A step that opens and closes nothing, and may make a directory.
LEMMA StillStep ==
    ASSUME TreeTypes, DataTypes, data' = data, in' = in, out' = out,
           tree' = tree \/ \E n \in Names : tree[n] = Absent /\ tree' = [tree EXCEPT ![n] = Dir]
    PROVE  TreeTypes' /\ DataTypes' /\ DataKept
<1>1. TreeTypes'
  BY TreeForms DEF TreeTypes
<1>2. ASSUME NEW i \in Inodes PROVE Holds(i)' <=> Holds(i)
  <2>1. (\E n \in Names : tree'[n] = i) <=> \E n \in Names : tree[n] = i
    BY LocalAssumption DEF TreeTypes
  <2>2. QED
    BY <2>1 DEF Holds
<1>3. QED
  BY <1>1, <1>2 DEF DataTypes, DataKept

\* mkdir makes a directory of nothing, and nothing else.
LEMMA DirMadeForm ==
    ASSUME TreeTypes, NEW n \in Names
    PROVE  \/ DirMade(n) = tree
           \/ tree[n] = Absent /\ DirMade(n) = [tree EXCEPT ![n] = Dir]
BY DEF DirMade, TreeTypes

\* A worker that ends an attempt closes its files.
LEMMA ResetFiles ==
    ASSUME TreeTypes, NEW W, W \subseteq Workers, Reset(W)
    PROVE  /\ in' \in [Workers -> Inodes \cup {Dir, NotOpen}]
           /\ out' \in [Workers -> Inodes \cup {NotOpen}]
           /\ \A w \in Workers : in'[w] \in {in[w], NotOpen} /\ out'[w] \in {out[w], NotOpen}
BY DEF Reset, TreeTypes

\* The error path of a copy closes both files.
LEMMA CopyFailsFiles ==
    ASSUME TreeTypes, NEW w \in Workers, CopyFails(w)
    PROVE  /\ in' \in [Workers -> Inodes \cup {Dir, NotOpen}]
           /\ out' \in [Workers -> Inodes \cup {NotOpen}]
           /\ \A v \in Workers : in'[v] \in {in[v], NotOpen} /\ out'[v] \in {out[v], NotOpen}
BY DEF CopyFails, TreeTypes

\* A file of one block less than there may be takes another block.
LEMMA OneMoreBlock ==
    ASSUME NEW x \in Files, NEW k \in 0 .. MaxBlocks, k < MaxBlocks, NEW b \in Blocks \cup {Hole}
    PROVE  /\ WrittenInto(x, k, <<b>>) \in Files
           /\ Len(WrittenInto(x, k, <<b>>)) = IF k + 1 > Len(x) THEN k + 1 ELSE Len(x)
           /\ \A i \in 1 .. Len(WrittenInto(x, k, <<b>>)) :
                WrittenInto(x, k, <<b>>)[i] = IF i = k + 1 THEN b
                                              ELSE IF i <= Len(x) THEN x[i] ELSE Hole
           /\ Len(x) \in 0 .. MaxBlocks
<1> DEFINE n == IF k + 1 > Len(x) THEN k + 1 ELSE Len(x)
           f == [i \in 1 .. n |-> IF i = k + 1 THEN b ELSE IF i <= Len(x) THEN x[i] ELSE Hole]
<1>1. PICK m \in 0 .. MaxBlocks : x \in [1 .. m -> Blocks \cup {Hole}]
  BY DEF Files
<1>2. m \in Nat /\ Len(x) = m /\ n \in 0 .. MaxBlocks
  BY <1>1, FileAssumption
<1>3. WrittenInto(x, k, <<b>>) = f
  <2>1. Len(<<b>>) = 1
    OBVIOUS
  <2>2. \A i \in 1 .. n : i \in k + 1 .. k + 1 <=> i = k + 1
    BY <1>2, FileAssumption
  <2>3. k + 1 - k = 1 /\ <<b>>[1] = b
    OBVIOUS
  <2>4. \A i \in 1 .. n : i = k + 1 => <<b>>[i - k] = b
    BY <2>3
  <2>5. WrittenInto(x, k, <<b>>) =
          [i \in 1 .. n |-> IF i \in k + 1 .. k + 1 THEN <<b>>[i - k]
                            ELSE IF i <= Len(x) THEN x[i] ELSE Hole]
    BY <2>1 DEF WrittenInto
  <2> HIDE DEF n
  <2>6. QED
    BY <2>2, <2>4, <2>5
<1>4. f \in [1 .. n -> Blocks \cup {Hole}]
  <2>1. \A i \in 1 .. n : i <= Len(x) => x[i] \in Blocks \cup {Hole}
    BY <1>1, <1>2, FileAssumption
  <2> HIDE DEF n
  <2>2. QED
    BY <2>1
<1>5. Len(f) = n /\ f \in Files
  <2> HIDE DEF n, f
  <2>1. f \in Files
    BY <1>2, <1>4 DEF Files
  <2>2. n \in Nat /\ DOMAIN f = 1 .. n
    BY <1>2, <1>4, FileAssumption
  <2>3. f \in Seq(Blocks \cup {Hole})
    BY <1>4, <2>2, SeqDef
  <2>4. Len(f) = n
    BY <2>2, <2>3, LenProperties
  <2>5. QED
    BY <2>1, <2>4
<1> HIDE DEF n
<1>6. QED
  BY <1>2, <1>3, <1>5 DEF n
-----------------------------------------------------------------------------
(* What a step does to the names *)

Closing(w) ==
    \/ DeleteNothing(w) \/ DeleteMove(w) \/ RenameMoves(w) \/ MakeDir(w)
    \/ SourceGone(w) \/ NotPrepared(w) \/ CloseBoth(w) \/ CopyError(w)
    \/ RenameTemp(w) \/ UnlinkTemp(w) \/ Check(w)
Moving(w) ==
    \/ DeleteStamp(w) \/ RenameFails(w) \/ SourceThere(w) \/ Backup(w)
    \/ HashSource(w) \/ ReadIn(w) \/ RenameTempFails(w)

\* The steps of a worker by what they do to inodes.
LEMMA WorkerCases ==
    ASSUME NEW w \in Workers, Worker(w)
    PROVE  Closing(w) \/ Moving(w) \/ OpenIn(w) \/ CreateOut(w) \/ WriteOut(w)
BY DEF Worker, Closing, Moving

Sources == {Source(p) : p \in Paths}

\* A name is made a directory, loses what it has or takes over what another had: only the
\* user touches a source, and nothing comes to be a temporary file this way.
Shifts ==
    \/ tree' = tree
    \/ \E n \in Names \ TempNames : tree[n] = Absent /\ tree' = [tree EXCEPT ![n] = Dir]
    \/ \E n \in Names : tree' = [tree EXCEPT ![n] = Absent]
    \/ \E m \in Names \ Sources, n \in Names \ (Sources \cup TempNames) :
         m # n /\ tree' = Moved(m, n)

\* The names that steps of a task change are those of its paths.
LEMMA SomeNames ==
    ASSUME NEW p \in Paths
    PROVE  /\ {Current(p), Version(p), Trash(p)} \subseteq Names \ (Sources \cup TempNames)
           /\ {Temp(Current(p)), Temp(Version(p))} \subseteq (Names \ Sources) \cap TempNames
           /\ Source(p) \in Sources \ TempNames
BY NamesDiffer DEF Sources, TempNames

\* No step of a worker but the creation of a temporary file is anything else.
LEMMA WorkerShifts ==
    ASSUME TreeTypes, WorkTypes, NEW w \in Workers, Where(w),
           Closing(w) \/ Moving(w) \/ OpenIn(w) \/ WriteOut(w)
    PROVE  Shifts
<1>1. pc[w] # "idle"
  BY DEF Closing, Moving, DeleteNothing, DeleteStamp, DeleteMove, RenameMoves, RenameFails, MakeDir,
         SourceGone, SourceThere, NotPrepared, Backup, HashSource, OpenIn, ReadIn, WriteOut,
         CloseBoth, CopyError, RenameTemp, RenameTempFails, UnlinkTemp, Check, Uploads, At
<1>2. /\ Path(w) \in Paths
      /\ {Current(Path(w)), Version(Path(w)), Trash(Path(w))} \subseteq
           Names \ (Sources \cup TempNames)
      /\ {Temp(Current(Path(w))), Temp(Version(Path(w)))} \subseteq (Names \ Sources) \cap TempNames
  BY <1>1, TaskFields, SomeNames
<1>3. CASE tree' = tree
  BY <1>3 DEF Shifts
<1>4. CASE DeleteMove(w)
  <2>1. dst[w] = Trash(Path(w))
    BY <1>4 DEF DeleteMove, At, Where
  <2>2. tree' \in {tree, Moved(Current(Path(w)), Trash(Path(w)))}
    BY <1>4, <2>1 DEF DeleteMove
  <2>3. Current(Path(w)) # Trash(Path(w))
    BY <1>2, NamesDiffer
  <2>4. QED
    BY <1>2, <2>2, <2>3 DEF Shifts
<1>5. CASE RenameMoves(w)
  <2>1. tree' = Moved(Current(task[w].old), Current(Path(w))) /\ task[w].old \in Paths
    BY <1>1, <1>5, TaskFields DEF RenameMoves
  <2>2. Current(task[w].old) \in Names \ Sources
    BY <2>1, SomeNames
  <2>3. Current(task[w].old) = Current(Path(w)) => tree' = tree
    BY <2>1, <2>2 DEF Moved, TreeTypes
  <2>4. QED
    BY <1>2, <2>1, <2>2, <2>3 DEF Shifts
<1>6. CASE MakeDir(w) \/ Backup(w)
  <2>1. PICK n \in Names \ TempNames : tree' = tree \/ tree' = DirMade(n)
    BY <1>2, <1>6 DEF MakeDir, Backup
  <2>2. QED
    BY <2>1, DirMadeForm DEF Shifts
<1>7. CASE RenameTemp(w)
  <2>1. dst[w] \in {Current(Path(w)), Version(Path(w))} /\ tree' = Moved(Temp(dst[w]), dst[w])
    BY <1>7 DEF RenameTemp, At, Where
  <2>2. /\ dst[w] \in Names \ (Sources \cup TempNames)
        /\ Temp(dst[w]) \in (Names \ Sources) \cap TempNames
    BY <1>2, <2>1
  <2>3. Temp(dst[w]) # dst[w]
    BY <2>2
  <2>4. QED
    BY <2>1, <2>2, <2>3 DEF Shifts
<1>8. CASE UnlinkTemp(w)
  <2>1. dst[w] \in {Current(Path(w)), Version(Path(w))}
    BY <1>8 DEF UnlinkTemp, At, Where
  <2>2. Temp(dst[w]) \in Names /\ tree' = [tree EXCEPT ![Temp(dst[w])] = Absent]
    BY <1>2, <1>8, <2>1 DEF UnlinkTemp, TempGone
  <2>3. QED
    BY <2>2 DEF Shifts
<1>9. QED
  BY <1>3, <1>4, <1>5, <1>6, <1>7, <1>8
     DEF Closing, Moving, DeleteNothing, DeleteStamp, RenameFails, SourceGone, SourceThere, NotPrepared,
         HashSource, OpenIn, ReadIn, WriteOut, CloseBoth, CopyError, RenameTempFails, Check

\* What follows for one name.
LEMMA ShiftedName ==
    ASSUME TreeTypes, Shifts, NEW n \in Names
    PROVE  /\ n \in TempNames => tree'[n] \in {tree[n], Absent}
           /\ n \in Sources => tree'[n] \in {tree[n], Absent, Dir}
           /\ \/ tree'[n] \in {tree[n], Absent, Dir}
              \/ \E m \in Names \ Sources : tree'[n] = tree[m]
<1>1. CASE \E m \in Names \ Sources, k \in Names \ (Sources \cup TempNames) :
             m # k /\ tree' = Moved(m, k)
  <2>1. PICK m \in Names \ Sources, k \in Names \ (Sources \cup TempNames) :
               m # k /\ tree' = Moved(m, k)
    BY <1>1
  <2>2. tree'[n] = IF n = k THEN tree[m] ELSE IF n = m THEN Absent ELSE tree[n]
    BY <2>1 DEF Moved, TreeTypes
  <2>3. QED
    BY <2>1, <2>2
<1>2. CASE \E k \in Names \ TempNames : tree[k] = Absent /\ tree' = [tree EXCEPT ![k] = Dir]
  BY <1>2 DEF TreeTypes
<1>3. CASE \E k \in Names : tree' = [tree EXCEPT ![k] = Absent]
  BY <1>3 DEF TreeTypes
<1>4. QED
  BY <1>1, <1>2, <1>3 DEF Shifts
-----------------------------------------------------------------------------
(* The file system through every step *)

\* Steps that close files, and those that change one name.
LEMMA ClosingFiles ==
    ASSUME TreeTypes, DataTypes, WorkTypes, NEW w \in Workers, Where(w), Closing(w)
    PROVE  TreeTypes' /\ DataTypes' /\ DataKept
<1>1. Fail(w) \/ Succeed(w) => DataBecomes(data) /\ Reset({w})
  BY DEF Fail, Succeed
<1>2. Shifts
  BY WorkerShifts
<1>3. \/ tree' = tree
      \/ \E m, n \in Names : m # n /\ tree' = Moved(m, n)
      \/ \E n \in Names, x \in {Absent, Dir} : tree' = [tree EXCEPT ![n] = x]
  BY <1>2 DEF Shifts
<1>4. CASE Fail(w) \/ Succeed(w)
  <2>1. Reset({w}) /\ {w} \subseteq Workers
    BY <1>1, <1>4
  <2>2. /\ in' \in [Workers -> Inodes \cup {Dir, NotOpen}]
        /\ out' \in [Workers -> Inodes \cup {NotOpen}]
        /\ \A v \in Workers : in'[v] \in {in[v], NotOpen} /\ out'[v] \in {out[v], NotOpen}
    BY <2>1, ResetFiles
  <2>3. QED
    BY <1>1, <1>3, <1>4, <2>2, ClosingStep
<1>5. CASE RenameTemp(w)
  <2>1. in' = in /\ out' = out /\ DataBecomes(data)
    BY <1>5 DEF RenameTemp, copyVars
  <2>2. QED
    BY <1>3, <2>1, ClosingStep DEF TreeTypes
<1>6. CASE CloseBoth(w)
  <2>1. /\ tree' = tree /\ DataBecomes(data)
        /\ in' = [in EXCEPT ![w] = NotOpen] /\ out' = [out EXCEPT ![w] = NotOpen]
    BY <1>6 DEF CloseBoth
  <2>2. QED
    BY <2>1, ClosingStep DEF TreeTypes
<1>7. CASE CopyError(w)
  <2>1. CopyFails(w) /\ tree' = tree /\ DataBecomes(data)
    BY <1>7 DEF CopyError
  <2>2. QED
    BY <2>1, CopyFailsFiles, ClosingStep
<1>8. QED
  BY <1>4, <1>5, <1>6, <1>7
     DEF Closing, DeleteNothing, DeleteMove, RenameMoves, MakeDir, SourceGone, NotPrepared,
         UnlinkTemp, Check

\* Steps that open and close nothing.
LEMMA MovingFiles ==
    ASSUME TreeTypes, DataTypes, WorkTypes, NEW w \in Workers, Moving(w)
    PROVE  TreeTypes' /\ DataTypes' /\ DataKept
<1>1. /\ data' = data /\ in' = in /\ out' = out
      /\ tree' = tree \/ \E n \in Names : tree' = DirMade(n)
  <2>1. CASE RenameTempFails(w)
    <3>1. in[w] = NotOpen /\ out[w] = NotOpen
      BY <2>1 DEF RenameTempFails, At, WorkTypes
    <3>2. QED
      BY <2>1, <3>1 DEF RenameTempFails, CopyFails, TreeTypes
  <2>2. CASE Backup(w)
    <3>1. Version(Path(w)) \in Names
      BY <2>2, TaskFields, NamesDiffer DEF Backup, At
    <3>2. QED
      BY <2>2, <3>1 DEF Backup, copyVars
  <2>3. QED
    BY <2>1, <2>2 DEF Moving, DeleteStamp, RenameFails, SourceThere, HashSource, ReadIn, copyVars
<1>2. QED
  BY <1>1, DirMadeForm, StillStep

\* The source of a copy is opened by its name.
LEMMA OpenInFiles ==
    ASSUME TreeTypes, DataTypes, WorkTypes, NEW w \in Workers, Where(w), OpenIn(w)
    PROVE  TreeTypes' /\ DataTypes' /\ DataKept
<1>1. From(w) \in Names
  BY TaskFields, NamesDiffer DEF OpenIn, At, From
<1>2. /\ data' = data /\ tree' = tree /\ out' = out /\ in' = [in EXCEPT ![w] = tree[From(w)]]
      /\ tree[From(w)] \in Inodes \cup {Dir} /\ in[w] = NotOpen
  BY <1>1 DEF OpenIn, At, TreeTypes, WorkTypes
<1>3. TreeTypes'
  BY <1>2 DEF TreeTypes, Distinct
<1>4. ASSUME NEW i \in Inodes PROVE Holds(i)' <=> Holds(i)
  BY <1>1, <1>2, LocalAssumption DEF Holds, TreeTypes
<1>5. QED
  BY <1>2, <1>3, <1>4 DEF DataTypes, DataKept

\* A new inode of a name that had none; or one that the name has is given contents.
LEMMA NewFile ==
    ASSUME TreeTypes, DataTypes, NEW n \in Names, tree[n] # Dir, NEW i, NEW x \in Files,
           i = IF tree[n] = Absent THEN NewInode ELSE tree[n],
           tree' = [tree EXCEPT ![n] = i], data' = WithFile(i, x), in' = in,
           out' \in [Workers -> Inodes \cup {NotOpen, i}],
           \A w \in Workers : out'[w] = out[w] \/ (out[w] = NotOpen /\ out'[w] = i)
    PROVE  /\ TreeTypes' /\ DataTypes' /\ i \in Inodes
           /\ \A j \in DOMAIN data : j \in DOMAIN data' /\ (j # i => data'[j] = data[j])
           /\ i \in DOMAIN data'
           /\ \A j \in DOMAIN data' : j \in DOMAIN data \/ j = i
           /\ tree[n] = Absent => ~Holds(i)
           /\ tree[n] # Absent => tree' = tree
<1>1. i \in Inodes /\ (tree[n] = Absent => ~Holds(i)) /\ (tree[n] # Absent => i = tree[n])
  BY FreeInode DEF TreeTypes, DataTypes
<1>2. tree' \in [Names -> Inodes \cup {Absent, Dir}] /\ (tree[n] # Absent => tree' = tree)
  BY <1>1 DEF TreeTypes
<1>3. Distinct'
  BY <1>1, <1>2 DEF TreeTypes, Distinct, Holds
<1>4. out' \in [Workers -> Inodes \cup {NotOpen}]
  BY <1>1 DEF TreeTypes
<1>5. TreeTypes'
  BY <1>2, <1>3, <1>4 DEF TreeTypes
<1>6. data' = [k \in DOMAIN data \cup {i} |-> IF k = i THEN x ELSE data[k]]
  BY DEF WithFile
<1>7. ASSUME NEW j \in Inodes PROVE Holds(j)' <=> Holds(j) \/ j = i
  <2>1. (\E m \in Names : tree'[m] = j) <=> j = i \/ \E m \in Names : tree[m] = j
    BY <1>1, <1>2, LocalAssumption DEF TreeTypes
  <2>2. (\E w \in Workers : j = out'[w]) => j = i \/ \E w \in Workers : j = out[w]
    BY DEF TreeTypes
  <2>3. (\E w \in Workers : j = out[w]) => \E w \in Workers : j = out'[w]
    BY LocalAssumption DEF TreeTypes
  <2>4. QED
    BY <2>1, <2>2, <2>3 DEF Holds
<1>8. DOMAIN data' = {j \in Inodes : Holds(j)'}
  BY <1>1, <1>6, <1>7 DEF DataTypes
<1>9. data' \in [DOMAIN data' -> Files]
  BY <1>6 DEF DataTypes
<1>10. QED
  BY <1>1, <1>2, <1>5, <1>6, <1>8, <1>9 DEF DataTypes

\* What the user writes has no holes, but is a file; so is the empty file.
LEMMA SomeFiles ==
    UserFiles \subseteq Files /\ <<>> \in Files /\ Len(<<>>) = 0
<1>1. UserFiles \subseteq Files
  BY LocalAssumption DEF Files
<1>2. <<>> \in [1 .. 0 -> Blocks \cup {Hole}] /\ 0 \in 0 .. MaxBlocks
  BY FileAssumption
<1>3. <<>> \in Files
  BY <1>2 DEF Files
<1>4. QED
  BY <1>1, <1>3

\* The temporary file is made, or emptied under whoever has it open.
LEMMA CreateOutFiles ==
    ASSUME TreeTypes, DataTypes, WorkTypes, Apart, NEW w \in Workers, Where(w), CreateOut(w)
    PROVE  LET n == Temp(dst[w])
               i == IF tree[n] = Absent THEN NewInode ELSE tree[n]
           IN  /\ TreeTypes' /\ DataTypes' /\ i \in Inodes
               /\ \A j \in DOMAIN data : j \in DOMAIN data' /\ (j # i => data'[j] = data[j])
               /\ i \in DOMAIN data' /\ data'[i] = <<>>
               /\ \A j \in DOMAIN data' : j \in DOMAIN data \/ j = i
               /\ tree[n] = Absent => ~Holds(i)
               /\ tree[n] # Absent => tree' = tree
               /\ tree' = [tree EXCEPT ![n] = i] /\ out' = [out EXCEPT ![w] = i]
               /\ n \in TempNames /\ n \in Names /\ out[w] = NotOpen
<1> DEFINE n == Temp(dst[w])
           i == IF tree[n] = Absent THEN NewInode ELSE tree[n]
<1>1. dst[w] \in {Current(Path(w)), Version(Path(w))} /\ Path(w) \in Paths
  BY TaskFields DEF CreateOut, At, Where
<1>2. n \in TempNames /\ n \in Names
  BY <1>1, NamesDiffer DEF TempNames
<1>3. tree[n] # Dir
  BY <1>2 DEF Apart
<1>4. /\ tree' = [tree EXCEPT ![n] = i] /\ out' = [out EXCEPT ![w] = i]
      /\ data' = WithFile(i, <<>>) /\ in' = in /\ out[w] = NotOpen
  BY DEF CreateOut, At, WorkTypes
<1>5. /\ out' \in [Workers -> Inodes \cup {NotOpen, i}]
      /\ \A v \in Workers : out'[v] = out[v] \/ (out[v] = NotOpen /\ out'[v] = i)
  BY <1>4 DEF TreeTypes
<1>6. data'[i] = <<>>
  BY <1>4 DEF WithFile
<1> HIDE DEF n
<1>7. QED
  BY <1>2, <1>3, <1>4, <1>5, <1>6, SomeFiles, NewFile DEF n

\* A block is written, wherever the inode is by now.
LEMMA WriteOutFiles ==
    ASSUME TreeTypes, DataTypes, WorkTypes, NEW w \in Workers, Where(w), WriteOut(w)
    PROVE  /\ TreeTypes' /\ DataTypes'
           /\ out[w] \in Inodes /\ out[w] \in DOMAIN data /\ DOMAIN data' = DOMAIN data
           /\ \A i \in DOMAIN data : i # out[w] => data'[i] = data[i]
           /\ data'[out[w]] = WrittenInto(data[out[w]], pos[w], <<buf[w]>>)
           /\ data[out[w]] \in Files /\ pos[w] \in 0 .. MaxBlocks /\ pos[w] < MaxBlocks
           /\ buf[w] \in Blocks \cup {Hole}
<1>1. /\ out[w] \in Inodes /\ pos[w] \in 0 .. MaxBlocks /\ pos[w] < MaxBlocks
      /\ buf[w] \in Blocks \cup {Hole}
  BY DEF WriteOut, At, WorkTypes, Where, TreeTypes
<1>2. out[w] \in DOMAIN data /\ data[out[w]] \in Files
  BY <1>1 DEF DataTypes, Holds
<1>3. /\ data' = [data EXCEPT ![out[w]] = WrittenInto(data[out[w]], pos[w], <<buf[w]>>)]
      /\ tree' = tree /\ in' = in /\ out' = out
  BY DEF WriteOut
<1>4. WrittenInto(data[out[w]], pos[w], <<buf[w]>>) \in Files
  BY <1>1, <1>2, OneMoreBlock
<1>5. QED
  BY <1>1, <1>2, <1>3, <1>4 DEF TreeTypes, Distinct, DataTypes, Holds

\* The user writes a file, which nobody else has written.
LEMMA UserWriteFiles ==
    ASSUME TreeTypes, DataTypes, NEW p \in Paths, NEW x \in UserFiles, UserWrite(p, x)
    PROVE  LET n == Source(p)
               i == IF tree[n] = Absent THEN NewInode ELSE tree[n]
           IN  /\ TreeTypes' /\ DataTypes' /\ i \in Inodes
               /\ \A j \in DOMAIN data : j \in DOMAIN data' /\ (j # i => data'[j] = data[j])
               /\ \A j \in DOMAIN data' : j \in DOMAIN data \/ j = i
               /\ tree[n] = Absent => ~Holds(i)
               /\ tree' = [tree EXCEPT ![n] = i] /\ n \in Names
<1> DEFINE n == Source(p)
           i == IF tree[n] = Absent THEN NewInode ELSE tree[n]
<1>1. n \in Names
  BY NamesDiffer
<1>2. /\ tree' = [tree EXCEPT ![n] = i] /\ out' = out /\ tree[n] # Dir /\ x \in Files
      /\ data' = WithFile(i, x) /\ in' = in
  BY SomeFiles DEF UserWrite, MayChange, workerVars, copyVars
<1>3. /\ out' \in [Workers -> Inodes \cup {NotOpen, i}]
      /\ \A v \in Workers : out'[v] = out[v] \/ (out[v] = NotOpen /\ out'[v] = i)
  BY <1>2 DEF TreeTypes
<1> HIDE DEF n
<1>4. QED
  BY <1>1, <1>2, <1>3, NewFile DEF n

\* Other steps of the user, and a kill.
LEMMA RemovalFiles ==
    ASSUME TreeTypes, DataTypes, Kill \/ \E p \in Paths : UserRemove(p)
    PROVE  TreeTypes' /\ DataTypes' /\ DataKept
<1>1. CASE Kill
  <2>1. tree' = tree /\ DataBecomes(data) /\ Reset(Workers)
    BY <1>1 DEF Kill
  <2>2. QED
    BY <2>1, ResetFiles, ClosingStep
<1>2. ASSUME NEW p \in Paths, UserRemove(p) PROVE TreeTypes' /\ DataTypes' /\ DataKept
  <2>1. /\ tree' = [tree EXCEPT ![Source(p)] = Absent] /\ DataBecomes(data)
        /\ in' = in /\ out' = out /\ Source(p) \in Names
    BY <1>2, NamesDiffer DEF UserRemove, MayChange, workerVars, copyVars
  <2>2. QED
    BY <2>1, ClosingStep DEF TreeTypes
<1>3. QED
  BY <1>1, <1>2

\* A directory made by the user, and a task taken.
LEMMA QuietFiles ==
    ASSUME TreeTypes, DataTypes,
           \/ \E p \in Paths : UserMakeDir(p)
           \/ \E w \in Workers, t \in Tasks : Take(w, t)
    PROVE  TreeTypes' /\ DataTypes' /\ DataKept
<1>1. ASSUME NEW p \in Paths, UserMakeDir(p) PROVE TreeTypes' /\ DataTypes' /\ DataKept
  <2>1. /\ tree[Source(p)] = Absent /\ tree' = [tree EXCEPT ![Source(p)] = Dir]
        /\ data' = data /\ in' = in /\ out' = out /\ Source(p) \in Names
    BY <1>1, NamesDiffer DEF UserMakeDir, MayChange, workerVars, copyVars
  <2>2. QED
    BY <2>1, StillStep
<1>2. ASSUME NEW w \in Workers, NEW t \in Tasks, Take(w, t)
      PROVE  TreeTypes' /\ DataTypes' /\ DataKept
  BY <1>2, StillStep DEF Take, copyVars
<1>3. QED
  BY <1>1, <1>2
-----------------------------------------------------------------------------
(* The workers through every step *)

\* The state of a worker does not change.
Still(v) ==
    /\ task'[v] = task[v] /\ tries'[v] = tries[v] /\ pc'[v] = pc[v] /\ dst'[v] = dst[v]
    /\ in'[v] = in[v] /\ out'[v] = out[v] /\ pos'[v] = pos[v] /\ buf'[v] = buf[v]
    /\ before'[v] = before[v]

\* A worker whose attempt ends, well or badly.
LEMMA AttemptEnds ==
    ASSUME TreeTypes, WorkTypes, NEW w \in Workers, pc[w] # "idle", Fail(w) \/ Succeed(w),
           faults' \in 0 .. MaxFaults
    PROVE  /\ WorkTypes' /\ Where(w)'
           /\ \A v \in Workers \ {w} : Still(v)
           /\ dst'[w] = NoName /\ in'[w] = NotOpen /\ out'[w] = NotOpen /\ killed' = killed
           /\ \/ Fail(w) /\ pc'[w] = "start" /\ task' = task /\ unsettled' = unsettled
              \/ Fail(w) /\ pc'[w] = "idle" /\ task'[w] = NoTask
                         /\ unsettled' = unsettled \cup Touches(task[w])
              \/ Succeed(w) /\ pc'[w] = "idle" /\ task'[w] = NoTask /\ unsettled' = unsettled
<1>1. NoHash \in Hashes /\ Touches(task[w]) \subseteq Paths /\ 0 \in 0 .. MaxBlocks
  BY TaskFields, FileAssumption DEF Hashes
<1>2. /\ dst' = [v \in Workers |-> IF v = w THEN NoName ELSE dst[v]]
      /\ in' = [v \in Workers |-> IF v = w THEN NotOpen ELSE in[v]]
      /\ out' = [v \in Workers |-> IF v = w THEN NotOpen ELSE out[v]]
      /\ pos' = [v \in Workers |-> IF v = w THEN 0 ELSE pos[v]]
      /\ buf' = [v \in Workers |-> IF v = w THEN Hole ELSE buf[v]]
      /\ before' = [v \in Workers |-> IF v = w THEN NoHash ELSE before[v]]
      /\ writes' = writes /\ taken' = taken /\ killed' = killed
  BY DEF Fail, Succeed, Reset
<1>3. \/ /\ Fail(w) /\ tries' = [tries EXCEPT ![w] = tries[w] + 1] /\ tries[w] < MaxRetry
         /\ pc' = [pc EXCEPT ![w] = "start"] /\ task' = task /\ unsettled' = unsettled
      \/ /\ tries' = [tries EXCEPT ![w] = 0] /\ pc' = [pc EXCEPT ![w] = "idle"]
         /\ task' = [task EXCEPT ![w] = NoTask]
         /\ \/ Fail(w) /\ unsettled' = unsettled \cup Touches(task[w])
            \/ Succeed(w) /\ unsettled' = unsettled
  BY DEF Fail, Succeed, RetryOrGiveUp, GoTo
<1>4. \A v \in Workers \ {w} : Still(v)
  BY <1>2, <1>3 DEF Still, WorkTypes, TreeTypes
<1>5. WorkTypes'
  <2>1. /\ task' \in [Workers -> Tasks \cup {NoTask}]
        /\ pc' \in [Workers -> Labels]
        /\ unsettled' \subseteq Paths
    BY <1>1, <1>3 DEF WorkTypes, Labels
  <2>2. tries' \in [Workers -> 0 .. MaxRetry]
    <3>1. tries[w] \in 0 .. MaxRetry
      BY DEF WorkTypes
    <3>2. tries[w] < MaxRetry => tries[w] + 1 \in 0 .. MaxRetry
      BY <3>1, LocalAssumption
    <3>3. 0 \in 0 .. MaxRetry
      BY LocalAssumption
    <3>4. QED
      BY <1>3, <3>2, <3>3 DEF WorkTypes
  <2>3. /\ dst' \in [Workers -> Names \cup {NoName}]
        /\ pos' \in [Workers -> 0 .. MaxBlocks]
        /\ buf' \in [Workers -> Blocks \cup {Hole}]
        /\ before' \in [Workers -> Hashes]
        /\ writes' \in 0 .. MaxWrites /\ taken' \in 0 .. MaxTasks /\ killed' \in BOOLEAN
    BY <1>1, <1>2 DEF WorkTypes
  <2>4. /\ dst'[w] = NoName /\ out'[w] = NotOpen /\ in'[w] = NotOpen
        /\ \/ pc'[w] = "start" /\ task'[w] # NoTask
           \/ pc'[w] = "idle" /\ task'[w] = NoTask
    BY <1>2, <1>3 DEF WorkTypes
  <2>5. QED
    BY <1>4, <2>1, <2>2, <2>3, <2>4 DEF WorkTypes, Still
<1>6. pc'[w] \in {"start", "idle"} /\ pos'[w] = 0
  BY <1>2, <1>3 DEF WorkTypes
<1>7. QED
  BY <1>2, <1>3, <1>4, <1>5, <1>6 DEF Where, WorkTypes

\* Faults are counted up to their bound.
LEMMA DiskFaults ==
    ASSUME WorkTypes, DiskWorks \/ DiskFails
    PROVE  faults' \in 0 .. MaxFaults
BY LocalAssumption DEF WorkTypes, DiskWorks, DiskFails

\* A worker between two steps of one attempt.
LEMMA AttemptGoesOn ==
    ASSUME TreeTypes, WorkTypes, DataTypes, Apart, NEW w \in Workers, Where(w),
           Moving(w) \/ OpenIn(w) \/ CreateOut(w) \/ WriteOut(w) \/ CloseBoth(w) \/ CopyError(w)
             \/ RenameTemp(w)
    PROVE  /\ WorkTypes' /\ Where(w)' /\ pc[w] # "idle"
           /\ \A v \in Workers \ {w} : Still(v)
           /\ task' = task /\ unsettled' = unsettled /\ killed' = killed
<1>1. pc[w] # "idle"
  BY DEF Moving, DeleteStamp, RenameFails, SourceThere, Uploads, Backup, HashSource, ReadIn,
         RenameTempFails, OpenIn, CreateOut, WriteOut, CloseBoth, CopyError, RenameTemp, At
<1>2. /\ task[w] # NoTask /\ Path(w) \in Paths
      /\ {Current(Path(w)), Version(Path(w)), Trash(Path(w))} \subseteq Names
      /\ NoName \notin Names /\ 0 \in 0 .. MaxBlocks
  BY <1>1, TaskFields, NamesDiffer, LocalAssumption, FileAssumption
<1>3. /\ faults' \in 0 .. MaxFaults
      /\ task' = task /\ tries' = tries /\ unsettled' = unsettled /\ killed' = killed
      /\ writes' = writes /\ taken' = taken
  <2>1. DiskWorks \/ DiskFails
    BY DEF Moving, DeleteStamp, RenameFails, SourceThere, Backup, HashSource, ReadIn,
           RenameTempFails, OpenIn, CreateOut, WriteOut, CloseBoth, CopyError, RenameTemp, Quiet,
           auxVars, DiskWorks
  <2>2. QED
    BY <2>1, DiskFaults
       DEF Moving, DeleteStamp, RenameFails, SourceThere, Backup, HashSource, ReadIn,
           RenameTempFails, OpenIn, CreateOut, WriteOut, CloseBoth, CopyError, RenameTemp, Quiet,
           auxVars, CopyFails
<1> DEFINE Own(l, d, i, o, k, b, h) ==
             /\ pc' = [pc EXCEPT ![w] = l] /\ dst' = [dst EXCEPT ![w] = d]
             /\ in' = [in EXCEPT ![w] = i] /\ out' = [out EXCEPT ![w] = o]
             /\ pos' = [pos EXCEPT ![w] = k] /\ buf' = [buf EXCEPT ![w] = b]
             /\ before' = [before EXCEPT ![w] = h]
<1>own. ASSUME Own(pc'[w], dst'[w], in'[w], out'[w], pos'[w], buf'[w], before'[w]),
              pc'[w] \in Labels, dst'[w] \in Names \cup {NoName}, pos'[w] \in 0 .. MaxBlocks,
              buf'[w] \in Blocks \cup {Hole}, before'[w] \in Hashes, pc'[w] # "idle",
              dst'[w] # NoName <=> pc'[w] \in {"open", "create", "read", "write",
                                               "rename", "unlink", "check", "trash"},
              out'[w] # NotOpen <=> pc'[w] \in {"read", "write"},
              in'[w] # NotOpen <=> pc'[w] \in {"create", "read", "write"}
       PROVE  WorkTypes' /\ \A v \in Workers \ {w} : Still(v)
  <2>1. \A v \in Workers \ {w} : Still(v)
    BY <1>3, <1>own DEF Still, WorkTypes, TreeTypes
  <2>2. /\ pc' \in [Workers -> Labels] /\ dst' \in [Workers -> Names \cup {NoName}]
        /\ pos' \in [Workers -> 0 .. MaxBlocks] /\ buf' \in [Workers -> Blocks \cup {Hole}]
        /\ before' \in [Workers -> Hashes]
    BY <1>own DEF WorkTypes
  <2>3. ASSUME NEW v \in Workers
        PROVE  /\ task'[v] = NoTask <=> pc'[v] = "idle"
               /\ dst'[v] # NoName <=>
                    pc'[v] \in {"open", "create", "read", "write", "rename", "unlink",
                                "check", "trash"}
               /\ out'[v] # NotOpen <=> pc'[v] \in {"read", "write"}
               /\ in'[v] # NotOpen <=> pc'[v] \in {"create", "read", "write"}
    <3>1. CASE v = w
      BY <1>2, <1>3, <1>own, <3>1
    <3>2. CASE v # w
      BY <2>1, <3>2 DEF Still, WorkTypes
    <3>3. QED
      BY <3>1, <3>2
  <2>4. /\ task' \in [Workers -> Tasks \cup {NoTask}] /\ tries' \in [Workers -> 0 .. MaxRetry]
        /\ writes' \in 0 .. MaxWrites /\ taken' \in 0 .. MaxTasks /\ faults' \in 0 .. MaxFaults
        /\ unsettled' \subseteq Paths /\ killed' \in BOOLEAN
    BY <1>3 DEF WorkTypes
  <2>5. WorkTypes'
    BY <2>2, <2>3, <2>4 DEF WorkTypes
  <2>6. QED
    BY <2>1, <2>5
<1>4. ASSUME NEW l \in Labels, NEW d \in Names \cup {NoName}, NEW i, NEW o,
             NEW k \in 0 .. MaxBlocks, NEW b \in Blocks \cup {Hole}, NEW h \in Hashes,
             Own(l, d, i, o, k, b, h), l # "idle",
             d # NoName <=> l \in {"open", "create", "read", "write", "rename", "unlink",
                                   "check", "trash"},
             o # NotOpen <=> l \in {"read", "write"},
             i # NotOpen <=> l \in {"create", "read", "write"}
      PROVE  /\ WorkTypes' /\ \A v \in Workers \ {w} : Still(v)
             /\ pc'[w] = l /\ dst'[w] = d /\ pos'[w] = k
  <2>1. /\ pc'[w] = l /\ dst'[w] = d /\ in'[w] = i /\ out'[w] = o /\ pos'[w] = k
        /\ buf'[w] = b /\ before'[w] = h
    BY <1>4 DEF WorkTypes, TreeTypes
  <2>2. Own(pc'[w], dst'[w], in'[w], out'[w], pos'[w], buf'[w], before'[w])
    BY <1>4, <2>1
  <2> HIDE DEF Own
  <2>3. QED
    BY <1>4, <1>own, <2>1, <2>2
<1>5. /\ pc[w] \in Labels /\ dst[w] \in Names \cup {NoName} /\ pos[w] \in 0 .. MaxBlocks
      /\ buf[w] \in Blocks \cup {Hole} /\ before[w] \in Hashes
      /\ in[w] \in Inodes \cup {Dir, NotOpen} /\ out[w] \in Inodes \cup {NotOpen}
      /\ Hole \in Blocks \cup {Hole}
      /\ dst = [dst EXCEPT ![w] = dst[w]] /\ in = [in EXCEPT ![w] = in[w]]
      /\ out = [out EXCEPT ![w] = out[w]] /\ pos = [pos EXCEPT ![w] = pos[w]]
      /\ buf = [buf EXCEPT ![w] = buf[w]] /\ before = [before EXCEPT ![w] = before[w]]
  BY DEF WorkTypes, TreeTypes
<1>6. ASSUME NEW l \in Labels \ {"idle"}, NEW d \in Names \cup {NoName}, GoTo(w, l),
             dst' = [dst EXCEPT ![w] = d], UNCHANGED <<in, out, pos, buf, before>>,
             l \notin {"create", "read", "write"}, in[w] = NotOpen, out[w] = NotOpen,
             d # NoName <=> l \in {"open", "rename", "unlink", "check", "trash"}
      PROVE  /\ WorkTypes' /\ \A v \in Workers \ {w} : Still(v)
             /\ pc'[w] = l /\ dst'[w] = d /\ pos'[w] = pos[w]
  <2>1. Own(l, d, in[w], out[w], pos[w], buf[w], before[w])
    BY <1>5, <1>6 DEF GoTo
  <2> HIDE DEF Own
  <2>2. QED
    BY <1>4, <1>5, <1>6, <2>1
<1> HIDE DEF Own
<1>7. CASE DeleteStamp(w)
  <2>1. /\ pc' = [pc EXCEPT ![w] = "trash"] /\ dst' = [dst EXCEPT ![w] = Trash(Path(w))]
        /\ UNCHANGED <<in, out, pos, buf, before>> /\ in[w] = NotOpen /\ out[w] = NotOpen
        /\ pos[w] = 0 /\ task[w].type = "DELETE" /\ Trash(Path(w)) # NoName
    BY <1>2, <1>7 DEF DeleteStamp, At, GoTo, Quiet, copyVars, WorkTypes, Where
  <2>2. /\ pc'[w] = "trash" /\ dst'[w] = Trash(Path(w)) /\ in'[w] = NotOpen
        /\ out'[w] = NotOpen /\ pos'[w] = 0 /\ buf'[w] = buf[w] /\ before'[w] = before[w]
    BY <2>1 DEF WorkTypes
  <2>3. Own(pc'[w], dst'[w], in'[w], out'[w], pos'[w], buf'[w], before'[w])
    BY <1>5, <2>1, <2>2 DEF Own
  <2>4. WorkTypes' /\ \A v \in Workers \ {w} : Still(v)
    BY <1>2, <1>5, <1>own, <2>1, <2>2, <2>3 DEF Labels
  <2>5. QED
    BY <1>1, <1>3, <2>1, <2>2, <2>4 DEF Where, Path
<1>8. CASE RenameFails(w)
  <2>1. /\ GoTo(w, "upload") /\ task[w].type = "RENAME" /\ dst' = [dst EXCEPT ![w] = NoName]
        /\ UNCHANGED <<in, out, pos, buf, before>> /\ in[w] = NotOpen /\ out[w] = NotOpen
        /\ pos[w] = 0
    BY <1>2, <1>5, <1>8 DEF RenameFails, At, copyVars, WorkTypes, Where
  <2>2. /\ WorkTypes' /\ \A v \in Workers \ {w} : Still(v)
        /\ pc'[w] = "upload" /\ pos'[w] = 0
    BY <1>2, <1>6, <2>1 DEF Labels
  <2>3. QED
    BY <1>1, <1>3, <2>1, <2>2 DEF Where, Path
<1>9. CASE SourceThere(w)
  <2>1. /\ GoTo(w, "backup") /\ task[w].type # "DELETE" /\ ~task[w].dir
        /\ dst' = [dst EXCEPT ![w] = NoName]
        /\ UNCHANGED <<in, out, pos, buf, before>> /\ in[w] = NotOpen /\ out[w] = NotOpen
        /\ pos[w] = 0
    BY <1>2, <1>5, <1>9 DEF SourceThere, Uploads, At, Quiet, copyVars, WorkTypes, Where
  <2>2. /\ WorkTypes' /\ \A v \in Workers \ {w} : Still(v)
        /\ pc'[w] = "backup" /\ pos'[w] = 0
    BY <1>2, <1>6, <2>1 DEF Labels
  <2>3. QED
    BY <1>1, <1>3, <2>1, <2>2 DEF Where, Path
<1>10. CASE Backup(w)
  <2>1. PICK l \in {"open", "hash"}, d \in {Version(Path(w)), NoName} :
           /\ GoTo(w, l) /\ dst' = [dst EXCEPT ![w] = d]
           /\ l = "open" => d = Version(Path(w))
           /\ l = "hash" => d = NoName
    BY <1>10 DEF Backup
  <2>2. /\ UNCHANGED <<in, out, pos, buf, before>> /\ in[w] = NotOpen /\ out[w] = NotOpen
        /\ pos[w] = 0 /\ task[w].type # "DELETE" /\ ~task[w].dir
    BY <1>2, <1>10 DEF Backup, At, Quiet, copyVars, WorkTypes, Where
  <2>3. /\ WorkTypes' /\ \A v \in Workers \ {w} : Still(v)
        /\ pc'[w] = l /\ pos'[w] = 0 /\ dst'[w] = d
    BY <1>2, <1>6, <2>1, <2>2 DEF Labels
  <2>4. QED
    BY <1>1, <1>3, <2>1, <2>2, <2>3 DEF Where, Path
<1>11. CASE HashSource(w)
  <2>1. /\ pc' = [pc EXCEPT ![w] = "open"] /\ dst' = [dst EXCEPT ![w] = Current(Path(w))]
        /\ UNCHANGED <<in, out, pos, buf>> /\ in[w] = NotOpen /\ out[w] = NotOpen
        /\ before' = [before EXCEPT ![w] = Hash(Source(Path(w)))]
        /\ pos[w] = 0 /\ task[w].type # "DELETE" /\ ~task[w].dir
    BY <1>2, <1>11 DEF HashSource, At, GoTo, Quiet, copyVars, WorkTypes, Where
  <2>2. Hash(Source(Path(w))) \in Hashes
    <3>1. Source(Path(w)) \in Names
      BY <1>2, NamesDiffer
    <3>2. IsFile(tree[Source(Path(w))]) => data[tree[Source(Path(w))]] \in Files
      BY <3>1 DEF IsFile, TreeTypes, DataTypes, Holds
    <3>3. QED
      BY <3>2 DEF Hash, Hashes
  <2>3. Own("open", Current(Path(w)), in[w], out[w], pos[w], buf[w], Hash(Source(Path(w))))
    BY <1>5, <2>1 DEF Own
  <2>4. /\ WorkTypes' /\ \A v \in Workers \ {w} : Still(v)
        /\ pc'[w] = "open" /\ pos'[w] = 0 /\ dst'[w] = Current(Path(w))
    <3>1. /\ "open" \in Labels /\ Current(Path(w)) \in Names \cup {NoName}
          /\ Current(Path(w)) # NoName
      BY <1>2 DEF Labels
    <3>2. /\ in[w] = NotOpen /\ out[w] = NotOpen /\ pos[w] = 0
          /\ pos[w] \in 0 .. MaxBlocks /\ buf[w] \in Blocks \cup {Hole}
      BY <1>5, <2>1
    <3>3. QED
      BY <1>4, <2>2, <2>3, <3>1, <3>2
  <2>5. QED
    BY <1>1, <1>3, <2>1, <2>4 DEF Where, Path
<1>12. CASE ReadIn(w)
  <2>1. /\ dst[w] # NoName /\ in[w] # NotOpen /\ out[w] # NotOpen
        /\ in[w] \in Inodes /\ dst[w] \in {Current(Path(w)), Version(Path(w))}
        /\ task[w].type # "DELETE" /\ ~task[w].dir
    BY <1>2, <1>5, <1>12, LocalAssumption DEF ReadIn, At, WorkTypes, Where, IsFile
  <2>2. /\ data[in[w]] \in Files /\ pos[w] < Len(data[in[w]])
    BY <1>12, <2>1 DEF ReadIn, DataTypes, Holds
  <2>3. data[in[w]][pos[w] + 1] \in Blocks \cup {Hole} /\ pos[w] < MaxBlocks
    <3>1. PICK n \in 0 .. MaxBlocks : data[in[w]] \in [1 .. n -> Blocks \cup {Hole}]
      BY <2>2 DEF Files
    <3>2. n \in Nat /\ n <= MaxBlocks /\ Len(data[in[w]]) = n /\ pos[w] \in Nat
      BY <1>5, <3>1, FileAssumption
    <3>3. pos[w] + 1 \in 1 .. n /\ pos[w] < MaxBlocks
      BY <2>2, <3>2, FileAssumption
    <3>4. QED
      BY <3>1, <3>3
  <2>4. Own("write", dst[w], in[w], out[w], pos[w], data[in[w]][pos[w] + 1], before[w])
    BY <1>5, <1>12 DEF Own, ReadIn, GoTo
  <2>5. /\ WorkTypes' /\ \A v \in Workers \ {w} : Still(v)
        /\ pc'[w] = "write" /\ pos'[w] = pos[w] /\ dst'[w] = dst[w]
    <3>1. "write" \in Labels /\ dst[w] \in Names \cup {NoName} /\ dst[w] # NoName
      BY <1>2, <1>5, <2>1 DEF Labels
    <3>2. QED
      BY <3>1, <1>4, <1>5, <2>1, <2>3, <2>4
  <2>6. QED
    BY <1>1, <1>3, <2>1, <2>3, <2>5 DEF Where, Path
<1>13. CASE RenameTempFails(w) \/ CopyError(w)
  <2>1. /\ CopyFails(w) /\ pc[w] \in {"open", "create", "read", "write", "rename"}
    BY <1>13 DEF RenameTempFails, CopyError, At
  <2>2. /\ dst[w] \in {Current(Path(w)), Version(Path(w))} /\ dst[w] # NoName
        /\ task[w].type # "DELETE" /\ ~task[w].dir
    BY <2>1 DEF Where, WorkTypes
  <2>3. Own("unlink", dst[w], NotOpen, NotOpen, 0, Hole, before[w])
    BY <1>5, <2>1 DEF Own, CopyFails, GoTo
  <2>4. /\ WorkTypes' /\ \A v \in Workers \ {w} : Still(v)
        /\ pc'[w] = "unlink" /\ pos'[w] = 0 /\ dst'[w] = dst[w]
    BY <1>2, <1>4, <1>5, <2>2, <2>3 DEF Labels
  <2>5. QED
    BY <1>1, <1>3, <2>2, <2>4 DEF Where, Path
<1>14. CASE OpenIn(w)
  <2>1. /\ dst[w] \in {Current(Path(w)), Version(Path(w))} /\ dst[w] # NoName
        /\ task[w].type # "DELETE" /\ ~task[w].dir /\ out[w] = NotOpen /\ pos[w] = 0
    BY <1>14 DEF OpenIn, At, Where, WorkTypes
  <2>2. tree[From(w)] # NotOpen
    <3>1. From(w) \in Names
      BY <1>1, TaskFields, NamesDiffer DEF From
    <3>2. QED
      BY <3>1, LocalAssumption DEF TreeTypes
  <2>3. /\ pc' = [pc EXCEPT ![w] = "create"] /\ in' = [in EXCEPT ![w] = tree[From(w)]]
        /\ UNCHANGED <<dst, out, pos, buf, before>>
    BY <1>14 DEF OpenIn, GoTo
  <2>4. /\ pc'[w] = "create" /\ dst'[w] = dst[w] /\ in'[w] = tree[From(w)] /\ out'[w] = out[w]
        /\ pos'[w] = 0 /\ buf'[w] = buf[w] /\ before'[w] = before[w]
    BY <2>1, <2>3 DEF WorkTypes, TreeTypes
  <2>5. Own(pc'[w], dst'[w], in'[w], out'[w], pos'[w], buf'[w], before'[w])
    BY <1>5, <2>3, <2>4 DEF Own
  <2>6. WorkTypes' /\ \A v \in Workers \ {w} : Still(v)
    BY <1>2, <1>5, <1>own, <2>1, <2>2, <2>4, <2>5 DEF Labels
  <2>7. QED
    BY <1>1, <1>3, <2>1, <2>4, <2>6 DEF Where, Path
<1>15. CASE CreateOut(w)
  <2>1. /\ dst[w] \in {Current(Path(w)), Version(Path(w))} /\ dst[w] # NoName
        /\ task[w].type # "DELETE" /\ ~task[w].dir /\ in[w] # NotOpen /\ pos[w] = 0
    BY <1>15 DEF CreateOut, At, Where, WorkTypes
  <2>2. PICK i \in Inodes : out' = [out EXCEPT ![w] = i]
    BY <1>15, CreateOutFiles
  <2>3. pc' = [pc EXCEPT ![w] = "read"] /\ UNCHANGED <<dst, in, pos, buf, before>>
    BY <1>15 DEF CreateOut, GoTo
  <2>4. /\ pc'[w] = "read" /\ dst'[w] = dst[w] /\ in'[w] = in[w] /\ out'[w] = i /\ i # NotOpen
        /\ pos'[w] = 0 /\ buf'[w] = buf[w] /\ before'[w] = before[w]
    BY <2>1, <2>2, <2>3, LocalAssumption DEF WorkTypes, TreeTypes
  <2>5. Own(pc'[w], dst'[w], in'[w], out'[w], pos'[w], buf'[w], before'[w])
    BY <1>5, <2>2, <2>3, <2>4 DEF Own
  <2>6. WorkTypes' /\ \A v \in Workers \ {w} : Still(v)
    BY <1>2, <1>5, <1>own, <2>1, <2>4, <2>5 DEF Labels
  <2>7. QED
    BY <1>1, <1>3, <2>1, <2>4, <2>6 DEF Where, Path
<1>16. CASE WriteOut(w)
  <2>1. /\ dst[w] \in {Current(Path(w)), Version(Path(w))} /\ dst[w] # NoName
        /\ task[w].type # "DELETE" /\ ~task[w].dir /\ in[w] # NotOpen /\ out[w] # NotOpen
        /\ pos[w] < MaxBlocks
    BY <1>16 DEF WriteOut, At, Where, WorkTypes
  <2>2. pos[w] + 1 \in 0 .. MaxBlocks
    BY <1>5, <2>1, FileAssumption
  <2>3. Own("read", dst[w], in[w], out[w], pos[w] + 1, Hole, before[w])
    BY <1>5, <1>16 DEF Own, WriteOut, GoTo
  <2>4. /\ WorkTypes' /\ \A v \in Workers \ {w} : Still(v)
        /\ pc'[w] = "read" /\ dst'[w] = dst[w]
    <3>1. "read" \in Labels /\ dst[w] \in Names \cup {NoName} /\ dst[w] # NoName
      BY <1>2, <1>5, <2>1 DEF Labels
    <3>2. QED
      BY <3>1, <1>4, <1>5, <2>1, <2>2, <2>3
  <2>5. QED
    BY <1>1, <1>3, <2>1, <2>4 DEF Where, Path
<1>17. CASE CloseBoth(w)
  <2>1. /\ dst[w] \in {Current(Path(w)), Version(Path(w))} /\ dst[w] # NoName
        /\ task[w].type # "DELETE" /\ ~task[w].dir
    BY <1>17 DEF CloseBoth, At, Where, WorkTypes
  <2>2. Own("rename", dst[w], NotOpen, NotOpen, 0, buf[w], before[w])
    BY <1>5, <1>17 DEF Own, CloseBoth, GoTo
  <2>3. /\ WorkTypes' /\ \A v \in Workers \ {w} : Still(v)
        /\ pc'[w] = "rename" /\ pos'[w] = 0 /\ dst'[w] = dst[w]
    BY <1>2, <1>4, <1>5, <2>1, <2>2 DEF Labels
  <2>4. QED
    BY <1>1, <1>3, <2>1, <2>3 DEF Where, Path
<1>18. CASE RenameTemp(w)
  <2>1. /\ dst[w] \in {Current(Path(w)), Version(Path(w))} /\ dst[w] # NoName
        /\ task[w].type # "DELETE" /\ ~task[w].dir /\ in[w] = NotOpen /\ out[w] = NotOpen
        /\ pos[w] = 0
    BY <1>18 DEF RenameTemp, At, Where, WorkTypes
  <2>2. PICK l \in {"check", "hash"}, d \in {dst[w], NoName} :
           /\ GoTo(w, l) /\ dst' = [dst EXCEPT ![w] = d]
           /\ l = "check" => d = Current(Path(w))
           /\ l = "hash" => d = NoName
    BY <1>5, <1>18 DEF RenameTemp
  <2>3. UNCHANGED <<in, out, pos, buf, before>>
    BY <1>18 DEF RenameTemp, copyVars
  <2>4. /\ WorkTypes' /\ \A v \in Workers \ {w} : Still(v)
        /\ pc'[w] = l /\ pos'[w] = 0 /\ dst'[w] = d
    BY <1>2, <1>5, <1>6, <2>1, <2>2, <2>3 DEF Labels
  <2>5. QED
    BY <1>1, <1>3, <2>1, <2>2, <2>4 DEF Where, Path
<1>19. QED
  BY <1>7, <1>8, <1>9, <1>10, <1>11, <1>12, <1>13, <1>14, <1>15, <1>16, <1>17, <1>18 DEF Moving
-----------------------------------------------------------------------------
(* Apart and TempHeld *)

\* Whoever has a file open after the step had the same one open, for the same copy.
OnlyCloses == \A w \in Workers :
    /\ in'[w] \in {in[w], NotOpen} /\ out'[w] \in {out[w], NotOpen}
    /\ in'[w] \in Inodes \/ out'[w] \in Inodes => dst'[w] = dst[w]

\* Inodes stay apart when names are moved and files closed.
LEMMA ApartShifted ==
    ASSUME TreeTypes, Apart, Shifts, OnlyCloses
    PROVE  Apart'
<1>1. \A n \in TempNames : n \in Names /\ tree'[n] # Dir
  <2> SUFFICES ASSUME NEW n \in TempNames PROVE n \in Names /\ tree'[n] # Dir
    OBVIOUS
  <2>1. n \in Names
    BY NamesDiffer DEF TempNames
  <2>2. QED
    BY <2>1, ShiftedName, FileAssumption DEF Apart
<1>2. ASSUME NEW w \in Workers, NEW p \in Paths, out'[w] \in Inodes
      PROVE  /\ out'[w] = tree'[Temp(Current(p))] => dst'[w] = Current(p)
             /\ out'[w] # tree'[Source(p)]
  <2>1. out[w] = out'[w] /\ dst'[w] = dst[w] /\ out'[w] \notin {Absent, Dir}
    BY <1>2, LocalAssumption DEF OnlyCloses
  <2>2. /\ Temp(Current(p)) \in TempNames \cap Names /\ Source(p) \in Sources \cap Names
    BY SomeNames, NamesDiffer
  <2>3. /\ tree'[Temp(Current(p))] \in {tree[Temp(Current(p))], Absent}
        /\ tree'[Source(p)] \in {tree[Source(p)], Absent, Dir}
    BY <2>2, ShiftedName
  <2>4. QED
    BY <1>2, <2>1, <2>3 DEF Apart
<1>3. ASSUME NEW w \in Workers, NEW p \in Paths, NEW n \in Names,
             dst'[w] = Current(p), in'[w] \in Inodes, in'[w] = tree'[n]
      PROVE  n = Source(p)
  <2>1. in[w] = in'[w] /\ dst'[w] = dst[w] /\ in'[w] \notin {Absent, Dir}
    BY <1>3, LocalAssumption DEF OnlyCloses
  <2>2. \A m \in Names : in'[w] = tree[m] => m = Source(p)
    BY <1>3, <2>1 DEF Apart
  <2>3. Source(p) \in Sources
    BY DEF Sources
  <2>4. QED
    BY <1>3, <2>1, <2>2, <2>3, ShiftedName
<1>4. QED
  BY <1>1, <1>2, <1>3 DEF Apart

\* The temporary file that a worker makes is its own, or that of its path.
LEMMA ApartCreated ==
    ASSUME TreeTypes, DataTypes, WorkTypes, Apart, NEW w \in Workers, Where(w), CreateOut(w)
    PROVE  Apart'
<1> DEFINE n == Temp(dst[w])
           i == IF tree[n] = Absent THEN NewInode ELSE tree[n]
<1>1. /\ TreeTypes' /\ i \in Inodes /\ out[w] = NotOpen
      /\ tree[n] = Absent => ~Holds(i)
      /\ tree[n] # Absent => tree' = tree
      /\ tree' = [tree EXCEPT ![n] = i] /\ out' = [out EXCEPT ![w] = i]
      /\ n \in TempNames /\ n \in Names
  BY CreateOutFiles
<1>2. in' = in /\ dst' = dst
  BY DEF CreateOut
<1>3. dst[w] \in {Current(Path(w)), Version(Path(w))} /\ Path(w) \in Paths
  BY TaskFields DEF CreateOut, At, Where
<1> HIDE DEF i
<1>4. \A v \in Workers : out[v] # i \/ tree[n] # Absent
  BY <1>1 DEF Holds
<1>5. \A m \in Names : tree'[m] = IF m = n THEN i ELSE tree[m]
  BY <1>1 DEF TreeTypes
<1>6. \A m \in TempNames : m \in Names /\ tree'[m] # Dir
  <2>1. \A m \in TempNames : m \in Names
    BY NamesDiffer DEF TempNames
  <2>2. QED
    BY <1>1, <1>5, <2>1, LocalAssumption DEF Apart
<1>7. ASSUME NEW v \in Workers, NEW p \in Paths, out'[v] \in Inodes
      PROVE  /\ out'[v] = tree'[Temp(Current(p))] => dst'[v] = Current(p)
             /\ out'[v] # tree'[Source(p)]
  <2>1. /\ Temp(Current(p)) \in Names /\ Source(p) \in Names /\ Source(p) # n
        /\ Temp(Current(p)) = n => dst[w] = Current(p)
    BY <1>1, <1>3, NamesDiffer, SomeNames
  <2>2. CASE v = w
    <3>1. out'[v] = i /\ tree'[n] = i /\ IsFile(i)
      BY <1>1, <1>5, <2>2, LocalAssumption DEF TreeTypes, IsFile
    <3>2. \A m \in Names : tree'[m] = i => m = n
      BY <1>1, <3>1 DEF TreeTypes, Distinct
    <3>3. QED
      BY <1>2, <2>1, <2>2, <3>1, <3>2
  <2>3. CASE v # w
    <3>1. out'[v] = out[v]
      BY <1>1, <2>3 DEF TreeTypes
    <3>2. /\ out[v] = tree'[Temp(Current(p))] => out[v] = tree[Temp(Current(p))]
          /\ tree'[Source(p)] = tree[Source(p)]
      BY <1>1, <1>4, <1>5, <2>1
    <3>3. QED
      BY <1>2, <1>7, <3>1, <3>2 DEF Apart
  <2>4. QED
    BY <2>2, <2>3
<1>8. ASSUME NEW v \in Workers, NEW p \in Paths, NEW m \in Names,
             dst'[v] = Current(p), in'[v] \in Inodes, in'[v] = tree'[m]
      PROVE  m = Source(p)
  <2>1. tree[n] = Absent => in[v] # i
    BY <1>1 DEF Holds
  <2>2. tree'[m] = in[v] => tree[m] = in[v]
    BY <1>1, <1>5, <2>1
  <2>3. QED
    BY <1>2, <1>8, <2>2 DEF Apart
<1>9. QED
  BY <1>6, <1>7, <1>8 DEF Apart

\* What is copied to current/ is opened by the name of the source.
LEMMA ApartOpened ==
    ASSUME TreeTypes, WorkTypes, Apart, NEW w \in Workers, Where(w), OpenIn(w)
    PROVE  Apart'
<1>1. /\ tree' = tree /\ dst' = dst /\ out' = out /\ in' = [in EXCEPT ![w] = tree[From(w)]]
  BY DEF OpenIn
<1>2. Path(w) \in Paths /\ dst[w] \in {Current(Path(w)), Version(Path(w))}
  BY TaskFields DEF OpenIn, At, Where
<1>3. ASSUME NEW v \in Workers, NEW p \in Paths, NEW m \in Names,
             dst'[v] = Current(p), in'[v] \in Inodes, in'[v] = tree'[m]
      PROVE  m = Source(p)
  <2>1. CASE v = w
    <3>1. Path(w) = p /\ From(w) = Source(p) /\ Source(p) \in Names
      BY <1>1, <1>2, <1>3, <2>1, NamesDiffer DEF From
    <3>2. tree[Source(p)] = tree[m] /\ IsFile(tree[m])
      BY <1>1, <1>3, <2>1, <3>1, LocalAssumption DEF TreeTypes, IsFile
    <3>3. QED
      BY <3>1, <3>2 DEF TreeTypes, Distinct
  <2>2. CASE v # w
    BY <1>1, <1>3, <2>2 DEF Apart, TreeTypes
  <2>3. QED
    BY <2>1, <2>2
<1>4. QED
  BY <1>1, <1>3 DEF Apart

\* What the user makes has no name yet and nobody has it open.
LEMMA ApartUserWrite ==
    ASSUME TreeTypes, DataTypes, Apart, NEW p \in Paths, NEW x \in UserFiles, UserWrite(p, x)
    PROVE  Apart'
<1> DEFINE n == Source(p)
           i == IF tree[n] = Absent THEN NewInode ELSE tree[n]
<1>1. /\ TreeTypes' /\ i \in Inodes
      /\ tree[n] = Absent => ~Holds(i)
      /\ tree' = [tree EXCEPT ![n] = i] /\ n \in Names
  BY UserWriteFiles
<1>2. in' = in /\ dst' = dst /\ out' = out
  BY DEF UserWrite, MayChange, workerVars, copyVars
<1>3. CASE tree[n] # Absent
  <2>1. tree' = tree
    BY <1>1, <1>3 DEF TreeTypes
  <2>2. QED
    BY <1>2, <2>1 DEF Apart
<1>4. CASE tree[n] = Absent
  <2> HIDE DEF i
  <2>1. /\ \A m \in Names : tree'[m] = IF m = n THEN i ELSE tree[m]
        /\ \A v \in Workers : in[v] # i /\ out[v] # i
    BY <1>1, <1>4 DEF TreeTypes, Holds
  <2>2. /\ TempNames \subseteq Names \ {n}
        /\ \A q \in Paths : Source(q) \in Names /\ Temp(Current(q)) \in Names \ {n}
    BY NamesDiffer DEF TempNames
  <2>3. QED
    BY <1>2, <2>1, <2>2 DEF Apart
<1>5. QED
  BY <1>3, <1>4

\* A worker that opens nothing leaves the others alone, and has its files closed when it
\* turns to another copy.
LEMMA WorkerCloses ==
    ASSUME TreeTypes, WorkTypes, NEW w \in Workers, Worker(w), ~CreateOut(w), ~OpenIn(w),
           \A v \in Workers \ {w} : Still(v)
    PROVE  OnlyCloses
<1>1. /\ in'[w] \in {in[w], NotOpen} /\ out'[w] \in {out[w], NotOpen}
      /\ in'[w] \in Inodes \/ out'[w] \in Inodes => dst'[w] = dst[w]
  <2>1. CASE Fail(w) \/ Succeed(w)
    <3>1. in'[w] = NotOpen /\ out'[w] = NotOpen
      BY <2>1 DEF Fail, Succeed, Reset
    <3>2. QED
      BY <3>1, LocalAssumption
  <2>2. CASE CopyError(w) \/ RenameTempFails(w) \/ CloseBoth(w)
    <3>1. in'[w] = NotOpen /\ out'[w] = NotOpen
      BY <2>2 DEF CopyError, RenameTempFails, CopyFails, CloseBoth, TreeTypes
    <3>2. QED
      BY <3>1, LocalAssumption
  <2>3. CASE ReadIn(w) \/ WriteOut(w)
    BY <2>3 DEF ReadIn, WriteOut
  <2>4. CASE DeleteStamp(w) \/ RenameFails(w) \/ SourceThere(w) \/ Backup(w) \/ HashSource(w)
               \/ RenameTemp(w)
    <3>1. in[w] = NotOpen /\ out[w] = NotOpen /\ in' = in /\ out' = out
      BY <2>4 DEF DeleteStamp, RenameFails, SourceThere, Backup, HashSource, RenameTemp, Uploads,
                  At, copyVars, WorkTypes
    <3>2. QED
      BY <3>1, LocalAssumption
  <2>5. QED
    BY <2>1, <2>2, <2>3, <2>4
       DEF Worker, DeleteNothing, DeleteMove, RenameMoves, MakeDir, SourceGone, NotPrepared,
           UnlinkTemp, Check
<1>2. QED
  BY <1>1 DEF OnlyCloses, Still

\* All that is kept of how an attempt ends.
Ends(w) ==
    \/ Fail(w) /\ pc'[w] = "start" /\ task' = task /\ unsettled' = unsettled
    \/ Fail(w) /\ pc'[w] = "idle" /\ task'[w] = NoTask
               /\ unsettled' = unsettled \cup Touches(task[w])
    \/ Succeed(w) /\ pc'[w] = "idle" /\ task'[w] = NoTask /\ unsettled' = unsettled

\* A step of a worker, whatever it is.
LEMMA WorkerStep ==
    ASSUME TreeTypes, DataTypes, WorkTypes, \A v \in Workers : Where(v), Apart,
           NEW w \in Workers, Worker(w)
    PROVE  /\ TreeTypes' /\ DataTypes' /\ WorkTypes' /\ \A v \in Workers : Where(v)'
           /\ Apart'
           /\ pc[w] # "idle" /\ killed' = killed /\ \A v \in Workers \ {w} : Still(v)
           /\ \/ task' = task /\ unsettled' = unsettled
              \/ Ends(w)
<1>1. TreeTypes' /\ DataTypes'
  BY WorkerCases, ClosingFiles, MovingFiles, OpenInFiles, CreateOutFiles, WriteOutFiles
<1>2. faults' \in 0 .. MaxFaults
  <2>1. DiskWorks \/ DiskFails
    BY DEF Worker, DeleteNothing, DeleteStamp, DeleteMove, RenameMoves, RenameFails, MakeDir,
           SourceGone, SourceThere, NotPrepared, Backup, HashSource, OpenIn, CreateOut, ReadIn,
           WriteOut, CloseBoth, CopyError, RenameTemp, RenameTempFails, UnlinkTemp, Check, Quiet,
           auxVars, DiskWorks
  <2>2. QED
    BY <2>1, DiskFaults
<1> DEFINE Done ==
             /\ WorkTypes' /\ Where(w)' /\ pc[w] # "idle" /\ killed' = killed
             /\ \A v \in Workers \ {w} : Still(v)
             /\ \/ task' = task /\ unsettled' = unsettled
                \/ Ends(w)
<1>3. ASSUME Moving(w) \/ OpenIn(w) \/ CreateOut(w) \/ WriteOut(w) \/ CloseBoth(w)
               \/ CopyError(w) \/ RenameTemp(w)
      PROVE  Done
  <2>1. WorkTypes' /\ Where(w)' /\ pc[w] # "idle"
    BY <1>3, AttemptGoesOn
  <2>2. \A v \in Workers \ {w} : Still(v)
    BY <1>3, AttemptGoesOn
  <2>3. task' = task /\ unsettled' = unsettled /\ killed' = killed
    BY <1>3, AttemptGoesOn
  <2>4. QED
    BY <2>1, <2>2, <2>3
<1>4. ASSUME Fail(w) \/ Succeed(w) PROVE Done
  <2>1. pc[w] # "idle"
    BY DEF Worker, DeleteNothing, DeleteStamp, DeleteMove, RenameMoves, RenameFails, MakeDir,
           SourceGone, SourceThere, NotPrepared, Backup, HashSource, OpenIn, CreateOut, ReadIn,
           WriteOut, CloseBoth, CopyError, RenameTemp, RenameTempFails, UnlinkTemp, Check,
           Uploads, At
  <2>2. WorkTypes' /\ Where(w)' /\ killed' = killed
    BY <1>2, <1>4, <2>1, AttemptEnds
  <2>3. \A v \in Workers \ {w} : Still(v)
    BY <1>2, <1>4, <2>1, AttemptEnds
  <2>4. Ends(w)
    BY <1>2, <1>4, <2>1, AttemptEnds DEF Ends
  <2>5. QED
    BY <2>1, <2>2, <2>3, <2>4
<1>5. Done
  <2>1. \/ Fail(w) \/ Succeed(w)
        \/ Moving(w) \/ OpenIn(w) \/ CreateOut(w) \/ WriteOut(w) \/ CloseBoth(w)
        \/ CopyError(w) \/ RenameTemp(w)
    BY WorkerCases
       DEF Closing, DeleteNothing, DeleteMove, RenameMoves, MakeDir, SourceGone, NotPrepared,
           UnlinkTemp, Check
  <2>2. QED
    BY <1>3, <1>4, <2>1
<1>6. \A v \in Workers : Where(v)'
  BY <1>5 DEF Still, Where, Path
<1>7. Apart'
  <2>1. CASE OpenIn(w)
    BY <2>1, ApartOpened
  <2>2. CASE CreateOut(w)
    BY <2>2, ApartCreated
  <2>3. CASE ~OpenIn(w) /\ ~CreateOut(w)
    BY <1>5, <2>3, WorkerCases, WorkerCloses, WorkerShifts, ApartShifted
  <2>4. QED
    BY <2>1, <2>2, <2>3
<1>8. QED
  BY <1>1, <1>5, <1>6, <1>7

\* Temporary files are held while they are there.
HoldsTemp(w, n) == dst[w] = n /\ pc[w] \in {"read", "write", "rename", "unlink"}

LEMMA HeldByWorker ==
    ASSUME TreeTypes, DataTypes, WorkTypes, \A v \in Workers : Where(v), Apart, TempHeld,
           NEW w \in Workers, Worker(w)
    PROVE  TempHeld'
<1> SUFFICES ASSUME NEW p \in Paths, NEW n \in {Current(p), Version(p)},
                    ~killed', tree'[Temp(n)] # Absent
             PROVE  \E v \in Workers : HoldsTemp(v, n)'
  BY DEF TempHeld, HoldsTemp
<1>1. killed' = killed /\ \A v \in Workers \ {w} : Still(v)
  BY WorkerStep
<1>2. n \in Names /\ Temp(n) \in Names \cap TempNames
  BY SomeNames, NamesDiffer
<1>3. CASE CreateOut(w)
  <2>1. dst[w] \in {Current(Path(w)), Version(Path(w))} /\ Path(w) \in Paths
    BY <1>3, TaskFields DEF CreateOut, At, Where
  <2>2. CASE dst[w] = n
    <3>1. dst'[w] = n /\ pc'[w] = "read"
      BY <1>3, <2>2 DEF CreateOut, GoTo, WorkTypes
    <3>2. QED
      BY <3>1 DEF HoldsTemp
  <2>3. CASE dst[w] # n
    <3>1. Temp(n) # Temp(dst[w])
      BY <2>1, <2>3, NamesDiffer
    <3>2. tree[Temp(n)] # Absent
      BY <1>2, <1>3, <3>1 DEF CreateOut, TreeTypes
    <3>3. PICK v \in Workers : HoldsTemp(v, n)
      BY <1>1, <3>2 DEF TempHeld, HoldsTemp
    <3>4. v # w
      BY <1>3, <3>3 DEF CreateOut, At, HoldsTemp
    <3>5. QED
      BY <1>1, <3>3, <3>4 DEF Still, HoldsTemp
  <2>4. QED
    BY <2>2, <2>3
<1>4. CASE ~CreateOut(w)
  <2>1. Shifts
    BY <1>4, WorkerCases, WorkerShifts
  <2>2. tree'[Temp(n)] = tree[Temp(n)]
    BY <1>2, <2>1, ShiftedName
  <2>3. PICK v \in Workers : HoldsTemp(v, n)
    BY <1>1, <2>2 DEF TempHeld, HoldsTemp
  <2>4. CASE v # w
    BY <1>1, <2>3, <2>4 DEF Still, HoldsTemp
  <2>5. CASE v = w
    <3>1. ReadIn(w) \/ WriteOut(w) \/ CloseBoth(w) \/ CopyError(w) \/ RenameTemp(w)
            \/ RenameTempFails(w) \/ UnlinkTemp(w)
      BY <1>4, <2>3, <2>5
         DEF HoldsTemp, Worker, DeleteNothing, DeleteStamp, DeleteMove, RenameMoves, RenameFails,
             MakeDir, SourceGone, SourceThere, NotPrepared, Backup, HashSource, OpenIn, Uploads,
             Check, At
    <3>2. ~RenameTemp(w) /\ ~UnlinkTemp(w)
      <4>1. n # Temp(n)
        BY NamesDiffer
      <4>2. QED
        BY <1>2, <2>3, <2>5, <4>1
           DEF HoldsTemp, RenameTemp, UnlinkTemp, TempGone, Moved, TreeTypes
    <3>3. dst'[w] = n /\ pc'[w] \in {"read", "write", "rename", "unlink"}
      BY <2>3, <2>5, <3>1, <3>2
         DEF HoldsTemp, ReadIn, WriteOut, CloseBoth, CopyError, RenameTempFails, CopyFails, GoTo,
             WorkTypes
    <3>4. QED
      BY <3>3 DEF HoldsTemp
  <2>6. QED
    BY <2>4, <2>5
<1>5. QED
  BY <1>3, <1>4
-----------------------------------------------------------------------------
(* The user, the queue and a kill *)

Parts == TreeTypes /\ DataTypes /\ WorkTypes /\ (\A w \in Workers : Where(w)) /\ Apart /\ TempHeld

\* The user changes a path that is then unsettled, and no worker.
LEMMA UserStep ==
    ASSUME Parts, NEW p \in Paths,
           UserRemove(p) \/ UserMakeDir(p) \/ \E x \in UserFiles : UserWrite(p, x)
    PROVE  /\ Parts'
           /\ UNCHANGED workerVars /\ unsettled' = unsettled \cup {p} /\ killed' = killed
           /\ tree' = [tree EXCEPT ![Source(p)] = tree'[Source(p)]]
           /\ \A i \in Inodes : Holds(i) /\ Holds(i)' /\ i # tree[Source(p)] => data'[i] = data[i]
<1> USE DEF Parts
<1>1. /\ UNCHANGED workerVars /\ unsettled' = unsettled \cup {p} /\ killed' = killed
      /\ writes < MaxWrites /\ writes' = writes + 1 /\ taken' = taken /\ faults' = faults
  BY DEF UserRemove, UserMakeDir, UserWrite, MayChange
<1>2. WorkTypes'
  <2>1. writes' \in 0 .. MaxWrites
    BY <1>1, LocalAssumption DEF WorkTypes
  <2>2. QED
    BY <1>1, <2>1 DEF WorkTypes, workerVars, copyVars
<1>3. \A w \in Workers : Where(w)'
  BY <1>1 DEF Where, Path, workerVars, copyVars
<1>4. /\ Source(p) \in Names \ TempNames /\ tree' = [tree EXCEPT ![Source(p)] = tree'[Source(p)]]
  BY SomeNames, NamesDiffer DEF UserRemove, UserMakeDir, UserWrite, TreeTypes
<1>5. TempHeld'
  <2>1. \A q \in Paths : \A n \in {Current(q), Version(q)} : tree'[Temp(n)] = tree[Temp(n)]
    <3>1. \A q \in Paths : \A n \in {Current(q), Version(q)} :
             Temp(n) \in Names /\ Temp(n) # Source(p)
      BY NamesDiffer
    <3>2. QED
      BY <1>4, <3>1 DEF TreeTypes
  <2>2. QED
    BY <1>1, <2>1 DEF TempHeld, workerVars
<1>6. CASE \E x \in UserFiles : UserWrite(p, x)
  <2>1. PICK x \in UserFiles : UserWrite(p, x)
    BY <1>6
  <2>2. TreeTypes' /\ DataTypes' /\ Apart'
    BY <2>1, UserWriteFiles, ApartUserWrite
  <2>3. ASSUME NEW i \in Inodes, Holds(i), i # tree[Source(p)] PROVE data'[i] = data[i]
    <3>1. i \in DOMAIN data
      BY <2>3 DEF DataTypes
    <3>2. i # IF tree[Source(p)] = Absent THEN NewInode ELSE tree[Source(p)]
      BY <1>4, <2>3, <3>1, FreeInode
    <3>3. QED
      BY <2>1, <3>1, <3>2, UserWriteFiles
  <2>4. QED
    BY <1>1, <1>2, <1>3, <1>4, <1>5, <2>2, <2>3
<1>7. CASE UserRemove(p) \/ UserMakeDir(p)
  <2>1. TreeTypes' /\ DataTypes' /\ DataKept
    BY <1>7, RemovalFiles, QuietFiles
  <2>2. Shifts
    BY <1>4, <1>7 DEF UserRemove, UserMakeDir, Shifts
  <2>3. OnlyCloses
    BY <1>1 DEF OnlyCloses, workerVars, copyVars
  <2>4. Apart'
    BY <2>2, <2>3, ApartShifted
  <2>5. \A i \in Inodes : Holds(i)' => data'[i] = data[i]
    BY <2>1 DEF DataTypes, DataKept
  <2>6. QED
    BY <1>1, <1>2, <1>3, <1>4, <1>5, <2>1, <2>4, <2>5
<1>8. QED
  BY <1>6, <1>7

\* What a task names.
LEMMA TouchesPaths ==
    ASSUME NEW t \in Tasks
    PROVE  /\ t # NoTask /\ t.path \in Paths /\ t.path \in Touches(t) /\ Touches(t) \subseteq Paths
           /\ t.type # "RENAME" => Touches(t) = {t.path}
           /\ t.dir \in BOOLEAN
BY LocalAssumption DEF Tasks, Touches

\* A task is taken by a worker that has none.
LEMMA TakeStep ==
    ASSUME Parts, NEW w \in Workers, NEW t \in Tasks, Take(w, t)
    PROVE  /\ Parts'
           /\ UNCHANGED <<tree, data, in, out, dst>>
           /\ \A v \in Workers \ {w} : Still(v)
           /\ task[w] = NoTask /\ task'[w] = t /\ pc'[w] = "start" /\ dst[w] = NoName
<1> USE DEF Parts
<1>1. /\ UNCHANGED <<tree, data, tries, dst, in, out, pos, buf, before, writes, faults, killed>>
      /\ task' = [task EXCEPT ![w] = t] /\ pc' = [pc EXCEPT ![w] = "start"]
      /\ pc[w] = "idle" /\ taken < MaxTasks /\ taken' = taken + 1
      /\ unsettled' \in {unsettled \ {t.path}, unsettled \cup Touches(t)}
  BY DEF Take, At, GoTo, copyVars
<1>2. /\ task[w] = NoTask /\ task'[w] = t /\ pc'[w] = "start" /\ dst[w] = NoName
      /\ in[w] = NotOpen /\ out[w] = NotOpen /\ pos[w] = 0
  BY <1>1 DEF WorkTypes, Where
<1>3. \A v \in Workers \ {w} : Still(v)
  BY <1>1 DEF Still, WorkTypes
<1>4. TreeTypes' /\ DataTypes'
  BY QuietFiles
<1>5. WorkTypes'
  <2>1. taken' \in 0 .. MaxTasks
    BY <1>1, LocalAssumption DEF WorkTypes
  <2>2. unsettled' \subseteq Paths /\ t # NoTask
    BY <1>1, TouchesPaths DEF WorkTypes
  <2>3. /\ task' \in [Workers -> Tasks \cup {NoTask}] /\ pc' \in [Workers -> Labels]
    BY <1>1 DEF WorkTypes, Labels
  <2>4. ASSUME NEW v \in Workers
        PROVE  /\ task'[v] = NoTask <=> pc'[v] = "idle"
               /\ dst'[v] # NoName <=>
                    pc'[v] \in {"open", "create", "read", "write", "rename", "unlink",
                                "check", "trash"}
               /\ out'[v] # NotOpen <=> pc'[v] \in {"read", "write"}
               /\ in'[v] # NotOpen <=> pc'[v] \in {"create", "read", "write"}
    <3>1. CASE v = w
      BY <1>1, <1>2, <2>2, <3>1
    <3>2. CASE v # w
      BY <1>3, <3>2 DEF Still, WorkTypes
    <3>3. QED
      BY <3>1, <3>2
  <2>5. QED
    BY <1>1, <2>1, <2>2, <2>3, <2>4 DEF WorkTypes
<1>6. \A v \in Workers : Where(v)'
  <2>1. Where(w)'
    BY <1>1, <1>2 DEF Where
  <2>2. \A v \in Workers \ {w} : Where(v)'
    BY <1>3 DEF Still, Where, Path
  <2>3. QED
    BY <2>1, <2>2
<1>7. Apart'
  BY <1>1 DEF Apart
<1>8. TempHeld'
  <2>1. \A v \in Workers : pc[v] \in {"read", "write", "rename", "unlink"} => pc'[v] = pc[v]
    BY <1>1 DEF WorkTypes
  <2>2. QED
    BY <1>1, <2>1 DEF TempHeld
<1>9. QED
  BY <1>1, <1>2, <1>3, <1>4, <1>5, <1>6, <1>7, <1>8

\* A kill closes everything and leaves the files.
LEMMA KillStep ==
    ASSUME Parts, Kill
    PROVE  /\ Parts'
           /\ tree' = tree /\ DataKept /\ killed' = TRUE
           /\ unsettled' = unsettled \cup UNION {Touches(task[w]) : w \in Workers}
           /\ \A w \in Workers : /\ task'[w] = NoTask /\ pc'[w] = "idle" /\ dst'[w] = NoName
                                 /\ in'[w] = NotOpen /\ out'[w] = NotOpen
<1> USE DEF Parts
<1>1. /\ tree' = tree /\ killed' = TRUE /\ writes' = writes /\ taken' = taken
      /\ unsettled' = unsettled \cup UNION {Touches(task[w]) : w \in Workers}
      /\ task' = [w \in Workers |-> NoTask] /\ tries' = [w \in Workers |-> 0]
      /\ pc' = [w \in Workers |-> "idle"] /\ dst' = [w \in Workers |-> NoName]
      /\ in' = [w \in Workers |-> NotOpen] /\ out' = [w \in Workers |-> NotOpen]
      /\ pos' = [w \in Workers |-> 0] /\ buf' = [w \in Workers |-> Hole]
      /\ before' = [w \in Workers |-> NoHash]
  BY DEF Kill, Reset
<1>2. TreeTypes' /\ DataTypes' /\ DataKept
  BY RemovalFiles
<1>3. WorkTypes'
  <2>1. faults' \in 0 .. MaxFaults
    BY DiskFaults DEF Kill
  <2>2. unsettled' \subseteq Paths
    <3>1. \A w \in Workers : Touches(task[w]) \subseteq Paths
      BY TouchesPaths DEF WorkTypes, Touches
    <3>2. QED
      BY <1>1, <3>1 DEF WorkTypes
  <2>3. NoHash \in Hashes /\ 0 \in 0 .. MaxBlocks /\ 0 \in 0 .. MaxRetry
    BY FileAssumption, LocalAssumption DEF Hashes
  <2>4. QED
    BY <1>1, <2>1, <2>2, <2>3 DEF WorkTypes, Labels
<1>4. \A w \in Workers : Where(w)'
  BY <1>1 DEF Where
<1>5. Apart'
  <2>1. Shifts /\ OnlyCloses
    BY <1>1, LocalAssumption DEF Shifts, OnlyCloses
  <2>2. QED
    BY <2>1, ApartShifted
<1>6. TempHeld'
  BY <1>1 DEF TempHeld
<1>7. QED
  BY <1>1, <1>2, <1>3, <1>4, <1>5, <1>6

-----------------------------------------------------------------------------
(* The beginning *)

\* There are names enough for a file and its copy of each path.
LEMMA TwoNames ==
    2 * Cardinality(Paths) <= Cardinality(Names)
<1> DEFINE Two == {"source", "current"}
<1>1. IsFiniteSet(Two) /\ Cardinality(Two) = 2
  <2>1. Two = {"source"} \cup {"current"} /\ "current" \notin {"source"}
    OBVIOUS
  <2>2. IsFiniteSet({"source"}) /\ Cardinality({"source"}) = 1
    BY FS_Singleton
  <2> HIDE DEF Two
  <2>3. QED
    BY <2>1, <2>2, FS_AddElement
<1>2. Two \X Paths \subseteq Names
  BY DEF Names
<1> HIDE DEF Two
<1>3. Cardinality(Two \X Paths) = 2 * Cardinality(Paths)
  BY <1>1, FS_Product, LocalAssumption
<1>4. Cardinality(Two \X Paths) <= Cardinality(Names)
  BY <1>2, FiniteNames, FS_Subset
<1>5. QED
  BY <1>3, <1>4

\* The paths can be numbered.
LEMMA Numbering ==
    \E j \in [Paths -> 1 .. Cardinality(Paths)] : \A p, q \in Paths : j[p] = j[q] => p = q
<1> DEFINE N == Cardinality(Paths)
<1>1. PICK b : b \in Bijection(1 .. N, Paths)
  BY FS_CardinalityType, LocalAssumption DEF ExistsBijection
<1>2. b \in [1 .. N -> Paths] /\ \A p \in Paths : \E k \in 1 .. N : b[k] = p
  BY <1>1 DEF Bijection, Injection, Surjection
<1> DEFINE j == [p \in Paths |-> CHOOSE k \in 1 .. N : b[k] = p]
<1>3. \A p \in Paths : j[p] \in 1 .. N /\ b[j[p]] = p
  BY <1>2
<1>4. j \in [Paths -> 1 .. N] /\ \A p, q \in Paths : j[p] = j[q] => p = q
  BY <1>3
<1>5. QED
  BY <1>4

\* At first the backup is what the source is, and nothing is going on.
LEMMA InitFiles ==
    ASSUME Init
    PROVE  /\ TreeTypes /\ DataTypes
           /\ \A p \in Paths : /\ IsFile(tree[Source(p)]) =>
                                    Content(Current(p)) = Content(Source(p))
                               /\ tree[Source(p)] = Absent => tree[Current(p)] = Absent
           /\ \A n \in TempNames : tree[n] = Absent
<1> DEFINE N == Cardinality(Paths)
           i == CHOOSE j \in [Paths -> 1 .. N] : \A p, q \in Paths : j[p] = j[q] => p = q
           copy == [p \in Paths |-> i[p] + N]
<1>1. PICK f \in FirstTrees :
         /\ tree = [n \in Names |->
                      CASE n[1] = "source" -> IF IsFile(f[n[2]]) THEN i[n[2]] ELSE f[n[2]]
                        [] n[1] = "current" -> IF IsFile(f[n[2]]) THEN copy[n[2]] ELSE f[n[2]]
                        [] OTHER -> Absent]
         /\ data = [k \in UNION {{i[p], copy[p]} : p \in {q \in Paths : IsFile(f[q])}} |->
                      f[CHOOSE p \in Paths : k \in {i[p], copy[p]}]]
  BY DEF Init
<1>2. i \in [Paths -> 1 .. N] /\ \A p, q \in Paths : i[p] = i[q] => p = q
  BY Numbering
<1>3. f \in [Paths -> UserFiles \cup {Absent, Dir}]
  BY LocalAssumption
<1>4. \A p, q \in Paths : /\ i[p] \in Inodes /\ copy[p] \in Inodes /\ copy[p] # i[q]
                          /\ copy[p] = copy[q] => p = q
  <2>1. N \in Nat /\ 2 * N <= Cardinality(Names) /\ Cardinality(Names) \in Nat
        /\ Cardinality(Workers) \in Nat
    BY FiniteNames, TwoNames
  <2> HIDE DEF N
  <2>2. \A p \in Paths : copy[p] = i[p] + N
    OBVIOUS
  <2> HIDE DEF i, copy
  <2>3. \A p \in Paths : i[p] \in 1 .. N
    BY <1>2
  <2>4. 2 * N <= Cardinality(Names) + 2 * Cardinality(Workers)
    BY <2>1
  <2>5. \A p \in Paths : i[p] \in Nat /\ 1 <= i[p] /\ i[p] <= N
    BY <2>1, <2>3
  <2>6. \A p \in Paths : i[p] \in Inodes /\ copy[p] \in Inodes
    BY <2>1, <2>2, <2>4, <2>5 DEF Inodes
  <2>7. \A p, q \in Paths : copy[p] # i[q] /\ (copy[p] = copy[q] => i[p] = i[q])
    <3> SUFFICES ASSUME NEW p \in Paths, NEW q \in Paths
                 PROVE  copy[p] # i[q] /\ (copy[p] = copy[q] => i[p] = i[q])
      OBVIOUS
    <3>1. copy[p] = i[p] + N /\ copy[q] = i[q] + N
      BY <2>2
    <3>2. i[p] \in Nat /\ 1 <= i[p] /\ i[q] \in Nat /\ i[q] <= N
      BY <2>5
    <3>3. QED
      BY <2>1, <3>1, <3>2
  <2>8. QED
    BY <1>2, <2>6, <2>7
<1> HIDE DEF N, i, copy
<1>5. \A p \in Paths :
        /\ tree[Source(p)] = IF IsFile(f[p]) THEN i[p] ELSE f[p]
        /\ tree[Current(p)] = IF IsFile(f[p]) THEN copy[p] ELSE f[p]
  BY <1>1, NamesDiffer DEF Source, Current
<1>6. \A n \in Names : \/ \E p \in Paths : n \in {Source(p), Current(p)}
                       \/ tree[n] = Absent
  BY <1>1 DEF Names, Source, Current
<1>7. \A p \in Paths : f[p] \in UserFiles \cup {Absent, Dir}
  BY <1>3
<1>8. tree \in [Names -> Inodes \cup {Absent, Dir}]
  <2>1. DOMAIN tree = Names /\ tree = [n \in Names |-> tree[n]]
    BY <1>1
  <2>2. \A n \in Names : tree[n] \in Inodes \cup {Absent, Dir}
    BY <1>4, <1>5, <1>6, <1>7 DEF IsFile
  <2>3. QED
    BY <2>1, <2>2
<1>9. ASSUME NEW n \in Names, IsFile(tree[n])
      PROVE  \E p \in Paths : /\ IsFile(f[p])
                              /\ \/ n = Source(p) /\ tree[n] = i[p]
                                 \/ n = Current(p) /\ tree[n] = copy[p]
  BY <1>5, <1>6, <1>9 DEF IsFile
<1>10. Distinct
  <2> SUFFICES ASSUME NEW n \in Names, NEW m \in Names, IsFile(tree[n]), tree[n] = tree[m]
               PROVE  n = m
    BY DEF Distinct
  <2>1. PICK p \in Paths : \/ n = Source(p) /\ tree[n] = i[p]
                           \/ n = Current(p) /\ tree[n] = copy[p]
    BY <1>9
  <2>2. PICK q \in Paths : \/ m = Source(q) /\ tree[m] = i[q]
                           \/ m = Current(q) /\ tree[m] = copy[q]
    BY <1>9
  <2>3. copy[p] # i[q] /\ copy[q] # i[p]
    BY <1>4
  <2>4. p = q
    BY <1>2, <1>4, <2>1, <2>2, <2>3
  <2>5. QED
    BY <2>1, <2>2, <2>3, <2>4
<1>11. /\ \A w \in Workers : in[w] = NotOpen /\ out[w] = NotOpen
       /\ in = [w \in Workers |-> NotOpen] /\ out = [w \in Workers |-> NotOpen]
  BY DEF Init
<1>12. ASSUME NEW k
       PROVE  k \in DOMAIN data <=> k \in Inodes /\ Holds(k)
  <2>1. k \in DOMAIN data <=> \E p \in Paths : IsFile(f[p]) /\ k \in {i[p], copy[p]}
    BY <1>1
  <2>2. ASSUME NEW p \in Paths, IsFile(f[p]), k \in {i[p], copy[p]} PROVE k \in Inodes /\ Holds(k)
    BY <1>4, <1>5, <2>2, NamesDiffer DEF Holds
  <2>3. ASSUME k \in Inodes, Holds(k) PROVE \E p \in Paths : IsFile(f[p]) /\ k \in {i[p], copy[p]}
    <3>1. PICK n \in Names : tree[n] = k
      BY <1>11, <2>3, LocalAssumption DEF Holds
    <3>2. IsFile(tree[n])
      BY <2>3, <3>1, LocalAssumption DEF IsFile
    <3>3. QED
      BY <1>9, <3>1, <3>2
  <2>4. QED
    BY <2>1, <2>2, <2>3
<1>13. \A p \in Paths : IsFile(f[p]) => /\ i[p] \in DOMAIN data /\ data[i[p]] = f[p]
                                        /\ copy[p] \in DOMAIN data /\ data[copy[p]] = f[p]
  <2> SUFFICES ASSUME NEW p \in Paths, IsFile(f[p])
               PROVE  /\ i[p] \in DOMAIN data /\ data[i[p]] = f[p]
                      /\ copy[p] \in DOMAIN data /\ data[copy[p]] = f[p]
    OBVIOUS
  <2>1. i[p] \in DOMAIN data /\ copy[p] \in DOMAIN data
    BY <1>1
  <2>2. \A k \in {i[p], copy[p]} : (CHOOSE q \in Paths : k \in {i[q], copy[q]}) = p
    BY <1>2, <1>4
  <2>3. \A k \in DOMAIN data : data[k] = f[CHOOSE q \in Paths : k \in {i[q], copy[q]}]
    BY <1>1
  <2>4. QED
    BY <2>1, <2>2, <2>3
<1>14. data \in [DOMAIN data -> Files]
  <2>1. \A k \in DOMAIN data : data[k] \in Files
    <3> SUFFICES ASSUME NEW k \in DOMAIN data PROVE data[k] \in Files
      OBVIOUS
    <3>1. PICK p \in Paths : IsFile(f[p]) /\ k \in {i[p], copy[p]}
      BY <1>1
    <3>2. data[k] = f[p]
      BY <1>13, <3>1
    <3>3. QED
      BY <1>7, <3>1, <3>2, SomeFiles DEF IsFile
  <2>2. data = [k \in DOMAIN data |-> data[k]]
    BY <1>1
  <2>3. QED
    BY <2>1, <2>2
<1>15. TreeTypes /\ DataTypes
  <2>1. DOMAIN data = {k \in Inodes : Holds(k)}
    BY <1>12
  <2>2. QED
    BY <1>8, <1>10, <1>11, <1>14, <2>1 DEF TreeTypes, DataTypes
<1>16. ASSUME NEW p \in Paths
       PROVE  /\ IsFile(tree[Source(p)]) => Content(Current(p)) = Content(Source(p))
              /\ tree[Source(p)] = Absent => tree[Current(p)] = Absent
  <2>1. IsFile(i[p]) /\ IsFile(copy[p])
    BY <1>4, LocalAssumption DEF IsFile
  <2>2. QED
    BY <1>5, <1>13, <2>1 DEF Content, IsFile
<1>17. \A n \in TempNames : tree[n] = Absent
  <2>1. \A n \in TempNames : n \in Names /\ \A p \in Paths : n \notin {Source(p), Current(p)}
    BY NamesDiffer DEF TempNames
  <2>2. QED
    BY <1>6, <2>1
<1>18. QED
  BY <1>15, <1>16, <1>17

LEMMA InitParts ==
    ASSUME Init
    PROVE  Parts
<1>1. TreeTypes /\ DataTypes /\ \A n \in TempNames : tree[n] = Absent
  BY InitFiles
<1>2. WorkTypes
  <2>1. /\ NoHash \in Hashes /\ 0 \in 0 .. MaxBlocks /\ 0 \in 0 .. MaxRetry /\ 0 \in 0 .. MaxWrites
        /\ 0 \in 0 .. MaxTasks /\ 0 \in 0 .. MaxFaults
    BY FileAssumption, LocalAssumption DEF Hashes
  <2>2. QED
    BY <2>1 DEF Init, WorkTypes, Labels
<1>3. \A w \in Workers : Where(w)
  BY DEF Init, Where
<1>4. Apart
  BY <1>1, FileAssumption, LocalAssumption DEF Init, Apart
<1>5. TempHeld
  BY <1>1 DEF TempHeld, TempNames
<1>6. QED
  BY <1>1, <1>2, <1>3, <1>4, <1>5 DEF Parts

\* None of this is disturbed by any step.
LEMMA PartsKept ==
    ASSUME Parts, [Next]_vars
    PROVE  Parts'
<1>1. CASE User
  BY <1>1, UserStep, LocalAssumption DEF User
<1>2. CASE Kill
  BY <1>2, KillStep
<1>3. CASE \E w \in Workers, t \in Tasks : Take(w, t)
  BY <1>3, TakeStep
<1>4. CASE \E w \in Workers : Worker(w)
  <2>1. PICK w \in Workers : Worker(w)
    BY <1>4
  <2>2. TreeTypes' /\ DataTypes' /\ WorkTypes' /\ (\A v \in Workers : Where(v)') /\ Apart'
    BY <2>1, WorkerStep DEF Parts
  <2>3. TempHeld'
    BY <2>1, HeldByWorker DEF Parts
  <2>4. QED
    BY <2>2, <2>3 DEF Parts
<1>5. CASE UNCHANGED vars
  BY <1>5 DEF vars, workerVars, copyVars, auxVars, Parts, TreeTypes, Distinct, DataTypes, Holds,
              WorkTypes, Where, Path, Apart, TempHeld
<1>6. QED
  BY <1>1, <1>2, <1>3, <1>4, <1>5 DEF Next
-----------------------------------------------------------------------------
(* A path that a step has nothing to do with *)

\* Who copies to current/ has a task of that path, which is no directory.
CopiersTouch == \A v \in Workers, p \in Paths : dst[v] = Current(p) =>
    /\ p \in Touches(task[v]) /\ Path(v) = p /\ ~task[v].dir
    /\ task[v].type # "DELETE" /\ pc[v] # "idle"

LEMMA CopierTouches ==
    Parts => CopiersTouch
<1> SUFFICES ASSUME Parts, NEW v \in Workers, NEW p \in Paths, dst[v] = Current(p)
             PROVE  /\ p \in Touches(task[v]) /\ Path(v) = p /\ ~task[v].dir
                    /\ task[v].type # "DELETE" /\ pc[v] # "idle"
  BY DEF CopiersTouch
<1>1. Current(p) \in Names /\ Current(p) # NoName
  BY NamesDiffer, LocalAssumption
<1>2. pc[v] \in {"open", "create", "read", "write", "rename", "unlink", "check", "trash"}
  BY <1>1 DEF Parts, WorkTypes
<1>3. Path(v) \in Paths /\ Path(v) \in Touches(task[v])
  BY <1>2, TaskFields DEF Parts
<1>4. dst[v] \in {Current(Path(v)), Version(Path(v)), Trash(Path(v))}
  BY <1>2 DEF Parts, Where
<1>5. Path(v) = p /\ pc[v] # "trash"
  BY <1>2, <1>3, <1>4, NamesDiffer DEF Parts, Where
<1>6. QED
  BY <1>2, <1>3, <1>5 DEF Parts, Where

\* What is promised of a path stays when none of its names and none of its workers change,
\* and what its files contain.
LEMMA PathFrame ==
    ASSUME Parts, Parts', NEW p \in Paths, Updated(p), Removed(p),
           p \in unsettled => p \in unsettled',
           \A n \in {Source(p), Current(p), Temp(Current(p))} : tree'[n] = tree[n],
           IsFile(tree[Source(p)]) => data'[tree[Source(p)]] = data[tree[Source(p)]],
           IsFile(tree[Temp(Current(p))]) =>
               data'[tree[Temp(Current(p))]] = data[tree[Temp(Current(p))]],
           IsFile(tree[Current(p)]) /\ Owned(p) =>
               data'[tree[Current(p)]] = data[tree[Current(p)]],
           \A v \in Workers : IF p \in Touches(task[v]) THEN Still(v)
                              ELSE p \notin Touches(task'[v]),
           \A v \in Workers : p \notin Touches(task[v]) =>
               \/ out'[v] \in {out[v], NotOpen}
               \/ out'[v] \notin {tree[Current(p)], tree[Temp(Current(p))]}
    PROVE  Updated(p)' /\ Removed(p)'
<1> DEFINE c == Current(p)
           t == Temp(Current(p))
<1>1. \A v \in Workers : dst[v] = c => p \in Touches(task[v])
  BY CopierTouches DEF CopiersTouch
<1>2. \A v \in Workers : dst'[v] = c => p \in Touches(task'[v])
  <2>1. (Parts => CopiersTouch)'
    BY CopierTouches, PTL
  <2>2. QED
    BY <2>1 DEF CopiersTouch
<1>3. \A v \in Workers : p \in Touches(task'[v]) \/ dst'[v] = c \/ dst[v] = c => Still(v)
  BY <1>1, <1>2
<1>4. \A v \in Workers : p \in Touches(task'[v]) <=> p \in Touches(task[v])
  BY DEF Still
<1>5. \A v \in Workers : dst'[v] = c <=> dst[v] = c
  BY <1>1, <1>3 DEF Still
<1>6. Removed(p)'
  <2> SUFFICES ASSUME p \notin unsettled', tree'[Source(p)] = Absent
               PROVE  Removed(p)'
    BY DEF Removed
  <2>1. p \notin unsettled /\ tree[Source(p)] = Absent /\ tree'[c] = tree[c]
    OBVIOUS
  <2>2. \A w \in Workers : p \in Touches(task'[w]) => task'[w].type = "DELETE"
    BY <1>3, <1>4, <2>1 DEF Removed, Still
  <2>3. \A v, w \in Workers : p \in Touches(task'[v]) \cap Touches(task'[w]) => v = w
    BY <1>4, <2>1 DEF Removed
  <2>4. tree'[c] # Absent => \E w \in Workers : p \in Touches(task'[w])
    BY <1>4, <2>1 DEF Removed
  <2>5. QED
    BY <2>2, <2>3, <2>4 DEF Removed
<1>7. Updated(p)'
  <2> SUFFICES ASSUME p \notin unsettled', IsFile(tree'[Source(p)])
               PROVE  Updated(p)'
    BY DEF Updated
  <2>1. /\ p \notin unsettled /\ IsFile(tree[Source(p)])
        /\ tree'[Source(p)] = tree[Source(p)] /\ tree'[c] = tree[c] /\ tree'[t] = tree[t]
    OBVIOUS
  <2>2. \A w \in Workers : p \in Touches(task'[w]) => task'[w].type = "UPDATE"
    BY <1>3, <1>4, <2>1 DEF Updated, Still
  <2>3. \A w \in Workers : dst'[w] = c /\ in'[w] # NotOpen => in'[w] \in {tree'[Source(p)], Dir}
    BY <1>3, <1>5, <2>1 DEF Updated, Still
  <2>4. Content(Source(p))' = Content(Source(p))
    BY <2>1 DEF Content
  <2>5. \A w \in Workers : /\ Pending(w, p)' <=> Pending(w, p)
                           /\ Stale(w, p)' <=> Stale(w, p)
    BY <1>3, <1>4, <1>5, <2>4 DEF Pending, Stale, Still
  <2>6. ASSUME AllStale(p)'
        PROVE  /\ Owned(p)' /\ NewTemp(p)'
               /\ \/ \E w \in Workers : Pending(w, p)' \/ Mismatched(w, p)'
                  \/ Content(Current(p))' = Content(Source(p))'
    <3>1. AllStale(p)
      BY <2>5, <2>6 DEF AllStale
    <3>2. /\ Owned(p) /\ NewTemp(p)
          /\ \/ \E w \in Workers : Pending(w, p) \/ Mismatched(w, p)
             \/ Content(Current(p)) = Content(Source(p))
      BY <2>1, <3>1 DEF Updated
    <3>3. \A n \in {c, t} : IsFile(tree[n]) => data'[tree[n]] = data[tree[n]]
      BY <3>2
    <3>4. \A w \in Workers : out'[w] = tree[c] \/ out'[w] = tree[t] => out'[w] = out[w]
      <4> SUFFICES ASSUME NEW w \in Workers, out'[w] = tree[c] \/ out'[w] = tree[t]
                   PROVE  out'[w] = out[w]
        OBVIOUS
      <4>1. tree[c] # NotOpen /\ tree[t] # NotOpen
        <5>1. c \in Names /\ t \in Names
          BY NamesDiffer
        <5>2. QED
          BY <5>1, LocalAssumption DEF Parts, TreeTypes
      <4>2. CASE p \in Touches(task[w])
        BY <4>2 DEF Still
      <4>3. CASE p \notin Touches(task[w])
        BY <4>1, <4>3
      <4>4. QED
        BY <4>2, <4>3
    <3>5. Owned(p)'
      BY <1>5, <2>1, <3>2, <3>4 DEF Owned
    <3>6. NewTemp(p)'
      <4> SUFFICES ASSUME tree[t] # Absent PROVE NewTemp(p)'
        BY <2>1 DEF NewTemp
      <4>1. /\ Len(data[tree[t]]) <= Len(Content(Source(p)))
            /\ \A w \in Workers : out[w] = tree[t] /\ pc[w] = "write" =>
                 pos[w] < Len(Content(Source(p))) /\ buf[w] = Content(Source(p))[pos[w] + 1]
            /\ \E z \in Workers : Fills(z, p)
        BY <3>2 DEF NewTemp
      <4>2. IsFile(tree[t]) /\ tree[t] \in Inodes
        <5>1. t \in TempNames \cap Names
          BY SomeNames, NamesDiffer
        <5>2. QED
          BY <5>1, LocalAssumption DEF Parts, TreeTypes, Apart, IsFile
      <4>3. data'[tree'[t]] = data[tree[t]] /\ tree'[t] = tree[t]
        BY <2>1, <3>3, <4>2
      <4>4. \A w \in Workers : out'[w] = tree[t] => dst[w] = c
        BY <3>4, <4>2 DEF Parts, Apart
      <4>5. \A w \in Workers : out'[w] = tree[t] => Still(w)
        BY <1>3, <4>4
      <4>6. \A w \in Workers : out'[w] = tree'[t] /\ pc'[w] = "write" =>
                 pos'[w] < Len(Content(Source(p))') /\ buf'[w] = Content(Source(p))'[pos'[w] + 1]
        BY <2>4, <4>1, <4>3, <4>5 DEF Still
      <4>7. PICK z \in Workers : Fills(z, p)
        BY <4>1
      <4>8. Still(z) /\ Stale(z, p)'
        BY <1>3, <2>5, <4>7 DEF Fills, Stale
      <4>9. Fills(z, p)'
        BY <2>4, <4>3, <4>7, <4>8 DEF Fills, Still
      <4>10. Len(data'[tree'[t]]) <= Len(Content(Source(p))')
        BY <2>4, <4>1, <4>3
      <4>11. QED
        BY <4>6, <4>9, <4>10 DEF NewTemp
    <3>7. Content(c)' = Content(c) /\ Hash(c)' = Hash(c)
      BY <2>1, <3>3 DEF Content, Hash
    <3>8. \A w \in Workers : Mismatched(w, p)' <=> Mismatched(w, p)
      BY <1>3, <1>4, <3>7 DEF Mismatched, Still
    <3>9. QED
      BY <2>4, <2>5, <3>2, <3>5, <3>6, <3>7, <3>8
  <2>7. QED
    BY <2>2, <2>3, <2>6 DEF Updated
<1>8. QED
  BY <1>6, <1>7

\* A change by the user makes its own path unsettled, and is none of another's business.
LEMMA UserKeeps ==
    ASSUME Parts, NEW p \in Paths, Updated(p), Removed(p), NEW q \in Paths,
           UserRemove(q) \/ UserMakeDir(q) \/ \E x \in UserFiles : UserWrite(q, x)
    PROVE  Updated(p)' /\ Removed(p)'
<1>1. /\ Parts' /\ UNCHANGED workerVars /\ unsettled' = unsettled \cup {q}
      /\ tree' = [tree EXCEPT ![Source(q)] = tree'[Source(q)]]
      /\ \A i \in Inodes : Holds(i) /\ Holds(i)' /\ i # tree[Source(q)] => data'[i] = data[i]
  BY UserStep
<1>2. CASE p = q
  BY <1>1, <1>2 DEF Updated, Removed
<1>3. CASE p # q
  <2>1. \A n \in {Source(p), Current(p), Temp(Current(p))} : n \in Names \ {Source(q)}
    BY <1>3, NamesDiffer
  <2>2. \A n \in {Source(p), Current(p), Temp(Current(p))} : tree'[n] = tree[n]
    BY <1>1, <2>1 DEF Parts, TreeTypes
  <2>3. \A n \in {Source(p), Current(p), Temp(Current(p))} :
          IsFile(tree[n]) => data'[tree[n]] = data[tree[n]]
    <3> SUFFICES ASSUME NEW n \in {Source(p), Current(p), Temp(Current(p))}, IsFile(tree[n])
                 PROVE  data'[tree[n]] = data[tree[n]]
      OBVIOUS
    <3>1. tree[n] \in Inodes /\ Source(q) \in Names
      BY <2>1, NamesDiffer DEF Parts, TreeTypes, IsFile
    <3>2. tree[n] # tree[Source(q)]
      BY <2>1, <3>1 DEF Parts, TreeTypes, Distinct
    <3>3. PICK i \in Inodes : i = tree[n]
      BY <3>1
    <3>4. Holds(i) /\ Holds(i)'
      BY <2>1, <2>2, <3>3 DEF Holds
    <3>5. QED
      BY <1>1, <3>2, <3>3, <3>4
  <2>4. \A v \in Workers : Still(v) /\ out'[v] = out[v]
    BY <1>1 DEF Still, workerVars, copyVars
  <2>5. \A v \in Workers : IF p \in Touches(task[v]) THEN Still(v) ELSE p \notin Touches(task'[v])
    BY <2>4 DEF Still
  <2>6. p \in unsettled => p \in unsettled'
    BY <1>1
  <2>7. QED
    BY <1>1, <2>2, <2>3, <2>4, <2>5, <2>6, PathFrame
<1>4. QED
  BY <1>2, <1>3

\* Names that a worker does not change: those of other paths, and every source.
NamesOf(q) == {Current(q), Version(q), Trash(q), Temp(Current(q)), Temp(Version(q))}

LEMMA WorkerNames ==
    ASSUME Parts, NEW w \in Workers, Worker(w), NEW n \in Names,
           \A q \in Touches(task[w]) : n \notin NamesOf(q)
    PROVE  tree'[n] = tree[n]
<1> USE DEF Parts
<1>1. pc[w] # "idle"
  BY WorkerStep
<1>2. /\ Path(w) \in Touches(task[w]) /\ Path(w) \in Paths
      /\ task[w].type = "RENAME" => task[w].old \in Touches(task[w])
  <2>1. task[w].type = "RENAME" => task[w].old \in Paths
    BY <1>1, TaskFields
  <2>2. QED
    BY <1>1, <2>1, TaskFields, LocalAssumption DEF Touches
<1>3. /\ n \notin NamesOf(Path(w))
      /\ task[w].type = "RENAME" => n # Current(task[w].old)
  BY <1>2 DEF NamesOf
<1>4. NamesOf(Path(w)) \subseteq Names
  BY <1>2, NamesDiffer DEF NamesOf
<1>5. CASE DeleteMove(w)
  <2>1. tree' = tree \/ tree' = Moved(Current(Path(w)), Trash(Path(w)))
    BY <1>5 DEF DeleteMove, At, Where
  <2>2. QED
    BY <1>3, <2>1 DEF Moved, NamesOf, TreeTypes
<1>6. CASE RenameMoves(w)
  BY <1>3, <1>6 DEF RenameMoves, Moved, NamesOf, TreeTypes
<1>7. CASE MakeDir(w) \/ Backup(w)
  BY <1>3, <1>7 DEF MakeDir, Backup, DirMade, NamesOf, TreeTypes
<1>8. CASE CreateOut(w) \/ RenameTemp(w) \/ UnlinkTemp(w)
  <2>1. dst[w] \in {Current(Path(w)), Version(Path(w))}
    BY <1>8 DEF CreateOut, RenameTemp, UnlinkTemp, At, Where
  <2>2. n # dst[w] /\ n # Temp(dst[w])
    BY <1>3, <2>1 DEF NamesOf
  <2>3. QED
    BY <1>8, <2>2 DEF CreateOut, RenameTemp, UnlinkTemp, TempGone, Moved, TreeTypes
<1>9. QED
  BY <1>5, <1>6, <1>7, <1>8
     DEF Worker, DeleteNothing, DeleteStamp, RenameFails, SourceGone, SourceThere, NotPrepared,
         HashSource, OpenIn, ReadIn, WriteOut, CloseBoth, CopyError, RenameTempFails, Check

\* Contents that a worker changes: of what it has open, and what it empties.
LEMMA WorkerData ==
    ASSUME Parts, NEW w \in Workers, Worker(w), NEW n \in Names, IsFile(tree[n]),
           tree'[n] = tree[n],
           WriteOut(w) => tree[n] # out[w],
           CreateOut(w) => n # Temp(dst[w])
    PROVE  data'[tree[n]] = data[tree[n]]
<1> USE DEF Parts
<1>1. tree[n] \in Inodes /\ Holds(tree[n])
  BY DEF TreeTypes, Holds, IsFile
<1>2. tree[n] \in DOMAIN data /\ tree[n] \in DOMAIN data'
  <2>1. DataTypes'
    BY WorkerStep
  <2>2. \A i \in Inodes : i = tree'[n] => i \in DOMAIN data'
    BY <2>1 DEF DataTypes, Holds
  <2>3. QED
    BY <1>1, <2>2 DEF DataTypes
<1>3. CASE CreateOut(w)
  <2> DEFINE m == Temp(dst[w])
             i == IF tree[m] = Absent THEN NewInode ELSE tree[m]
  <2>1. /\ \A j \in DOMAIN data : j # i => data'[j] = data[j]
        /\ tree[m] = Absent => ~Holds(i)
        /\ i \in Inodes /\ m \in Names
    BY <1>3, CreateOutFiles
  <2>2. tree[n] # i
    <3>1. CASE tree[m] = Absent
      <4> HIDE DEF i
      <4>1. QED
        BY <1>1, <2>1, <3>1
    <3>2. CASE tree[m] # Absent
      BY <1>3, <2>1, <3>2 DEF TreeTypes, Distinct
    <3>3. QED
      BY <3>1, <3>2
  <2>3. QED
    BY <1>2, <2>1, <2>2
<1>4. CASE WriteOut(w)
  BY <1>2, <1>4, WriteOutFiles
<1>5. CASE Closing(w) \/ Moving(w) \/ OpenIn(w)
  <2>1. DataKept
    BY <1>5, ClosingFiles, MovingFiles, OpenInFiles
  <2>2. QED
    BY <1>2, <2>1 DEF DataKept
<1>6. QED
  BY <1>3, <1>4, <1>5, WorkerCases

\* A worker of other paths keeps off what a path has: whoever writes into its files copies
\* to it.
LEMMA WorkerElsewhere ==
    ASSUME Parts, NEW p \in Paths, Updated(p), Removed(p), NEW w \in Workers, Worker(w),
           p \notin Touches(task[w])
    PROVE  Updated(p)' /\ Removed(p)'
<1> USE DEF Parts
<1>1. TreeTypes' /\ DataTypes' /\ WorkTypes' /\ (\A v \in Workers : Where(v)') /\ Apart'
  BY WorkerStep
<1>2. /\ pc[w] # "idle" /\ \A v \in Workers \ {w} : Still(v)
      /\ \/ task' = task /\ unsettled' = unsettled
         \/ Ends(w)
  BY WorkerStep
<1>3. Parts'
  BY <1>1, HeldByWorker
<1>4. Touches(task[w]) \subseteq Paths /\ dst[w] # Current(p)
  BY <1>2, TaskFields, CopierTouches DEF CopiersTouch
<1>5. \A n \in {Source(p), Current(p), Temp(Current(p))} : n \in Names /\ tree'[n] = tree[n]
  <2> SUFFICES ASSUME NEW n \in {Source(p), Current(p), Temp(Current(p))}
               PROVE  n \in Names /\ tree'[n] = tree[n]
    OBVIOUS
  <2>1. n \in Names
    BY NamesDiffer
  <2>2. \A q \in Touches(task[w]) : n \notin NamesOf(q)
    BY <1>4, NamesDiffer DEF NamesOf
  <2>3. QED
    BY <2>1, <2>2, WorkerNames
<1>6. CreateOut(w) => /\ Temp(dst[w]) \in Names
                      /\ \A n \in {Source(p), Current(p), Temp(Current(p))} : n # Temp(dst[w])
                      /\ tree'[Temp(dst[w])] = out'[w] /\ out'[w] \in Inodes
  <2> SUFFICES ASSUME CreateOut(w)
               PROVE  /\ Temp(dst[w]) \in Names
                      /\ \A n \in {Source(p), Current(p), Temp(Current(p))} : n # Temp(dst[w])
                      /\ tree'[Temp(dst[w])] = out'[w] /\ out'[w] \in Inodes
    OBVIOUS
  <2>1. Path(w) \in Paths /\ dst[w] \in {Current(Path(w)), Version(Path(w))}
    BY <1>2, TaskFields DEF CreateOut, At, Where
  <2>2. \A n \in {Source(p), Current(p), Temp(Current(p))} : n # Temp(dst[w])
    BY <1>4, <2>1, NamesDiffer
  <2>3. Temp(dst[w]) \in Names
    BY <2>1, NamesDiffer
  <2>4. tree'[Temp(dst[w])] = out'[w] /\ out'[w] \in Inodes
    BY <2>3, CreateOutFiles DEF TreeTypes
  <2>5. QED
    BY <2>2, <2>3, <2>4
<1>7. ASSUME NEW n \in {Source(p), Temp(Current(p))}, IsFile(tree[n])
      PROVE  data'[tree[n]] = data[tree[n]]
  <2>1. n \in Names /\ tree'[n] = tree[n]
    BY <1>5
  <2>2. WriteOut(w) => tree[n] # out[w]
    <3>1. WriteOut(w) => out[w] \in Inodes
      BY WriteOutFiles
    <3>2. QED
      BY <1>4, <3>1 DEF Apart
  <2>3. CreateOut(w) => n # Temp(dst[w])
    BY <1>6
  <2>4. QED
    BY <1>7, <2>1, <2>2, <2>3, WorkerData
<1>8. ASSUME IsFile(tree[Current(p)]), Owned(p)
      PROVE  data'[tree[Current(p)]] = data[tree[Current(p)]]
  <2>1. Current(p) \in Names /\ tree'[Current(p)] = tree[Current(p)]
    BY <1>5
  <2>2. WriteOut(w) => tree[Current(p)] # out[w]
    <3>1. WriteOut(w) => out[w] \in Inodes
      BY WriteOutFiles
    <3>2. QED
      BY <1>4, <1>8, <3>1 DEF Owned
  <2>3. CreateOut(w) => Current(p) # Temp(dst[w])
    BY <1>6
  <2>4. QED
    BY <1>8, <2>1, <2>2, <2>3, WorkerData
<1>9. \A v \in Workers : IF p \in Touches(task[v]) THEN Still(v) ELSE p \notin Touches(task'[v])
  <2>1. p \notin Touches(task'[w])
    BY <1>2 DEF Ends, Touches
  <2>2. QED
    BY <1>2, <2>1 DEF Still
<1>10. \A v \in Workers : p \notin Touches(task[v]) =>
               \/ out'[v] \in {out[v], NotOpen}
               \/ out'[v] \notin {tree[Current(p)], tree[Temp(Current(p))]}
  <2>1. CASE CreateOut(w)
    <3>1. \A n \in {Current(p), Temp(Current(p))} : out'[w] # tree'[n]
      <4>1. IsFile(out'[w])
        BY <1>6, <2>1, LocalAssumption DEF IsFile
      <4>2. QED
        BY <1>1, <1>5, <1>6, <2>1, <4>1 DEF TreeTypes, Distinct
    <3>2. QED
      BY <1>2, <1>5, <3>1 DEF Still
  <2>2. CASE OpenIn(w)
    BY <2>2 DEF OpenIn
  <2>3. CASE ~CreateOut(w) /\ ~OpenIn(w)
    BY <1>2, <2>3, WorkerCloses DEF OnlyCloses
  <2>4. QED
    BY <2>1, <2>2, <2>3
<1>11. p \in unsettled => p \in unsettled'
  BY <1>2 DEF Ends
<1>12. QED
  BY <1>3, <1>5, <1>7, <1>8, <1>9, <1>10, <1>11, PathFrame

\* After a kill nothing is promised but of the paths that had no task.
LEMMA KillKeeps ==
    ASSUME Parts, NEW p \in Paths, Updated(p), Removed(p), Kill
    PROVE  Updated(p)' /\ Removed(p)'
<1>1. /\ Parts' /\ tree' = tree /\ DataKept
      /\ unsettled' = unsettled \cup UNION {Touches(task[w]) : w \in Workers}
      /\ \A w \in Workers : /\ task'[w] = NoTask /\ pc'[w] = "idle" /\ dst'[w] = NoName
                            /\ in'[w] = NotOpen /\ out'[w] = NotOpen
  BY KillStep
<1>2. CASE \E w \in Workers : p \in Touches(task[w])
  BY <1>1, <1>2 DEF Updated, Removed
<1>3. CASE \A w \in Workers : p \notin Touches(task[w])
  <2>1. \A n \in {Source(p), Current(p), Temp(Current(p))} :
          IsFile(tree[n]) => data'[tree[n]] = data[tree[n]]
    <3>1. \A n \in {Source(p), Current(p), Temp(Current(p))} : n \in Names
      BY NamesDiffer
    <3>2. \A n \in Names : IsFile(tree[n]) => tree[n] \in DOMAIN data'
      BY <1>1 DEF Parts, TreeTypes, DataTypes, Holds, IsFile
    <3>3. QED
      BY <1>1, <3>1, <3>2 DEF DataKept
  <2>2. \A v \in Workers : IF p \in Touches(task[v]) THEN Still(v) ELSE p \notin Touches(task'[v])
    BY <1>1, <1>3 DEF Touches
  <2>3. QED
    BY <1>1, <1>3, <2>1, <2>2, PathFrame
<1>4. QED
  BY <1>2, <1>3

\* A task of another path; one that fits what the user did last, which will end well; and one
\* of which nothing is known.
LEMMA TakeKeeps ==
    ASSUME Parts, NEW p \in Paths, Updated(p), Removed(p), NEW w \in Workers, NEW t \in Tasks,
           Take(w, t)
    PROVE  Updated(p)' /\ Removed(p)'
<1>1. /\ Parts' /\ UNCHANGED <<tree, data, in, out, dst>>
      /\ \A v \in Workers \ {w} : Still(v)
      /\ task[w] = NoTask /\ task'[w] = t /\ pc'[w] = "start" /\ dst[w] = NoName
  BY TakeStep
<1>2. /\ t.path \in Touches(t) /\ t.dir \in BOOLEAN
      /\ t.type # "RENAME" => Touches(t) = {t.path}
  BY TouchesPaths
<1>3. unsettled' = IF Settled(w, t) THEN unsettled \ {t.path} ELSE unsettled \cup Touches(t)
  BY DEF Take
<1>4. CASE p \notin Touches(t)
  <2>1. p \in unsettled => p \in unsettled'
    BY <1>2, <1>3, <1>4
  <2>2. \A v \in Workers : IF p \in Touches(task[v]) THEN Still(v) ELSE p \notin Touches(task'[v])
    BY <1>1, <1>4 DEF Still, Touches
  <2>3. QED
    BY <1>1, <2>1, <2>2, PathFrame
<1>5. CASE p \in Touches(t) /\ ~Settled(w, t)
  BY <1>3, <1>5 DEF Updated, Removed
<1>6. CASE p \in Touches(t) /\ Settled(w, t)
  <2>1. /\ ~Clashes(w, t) /\ ~CopiesRemoved(p) /\ p = t.path
        /\ \/ t.type = "UPDATE" /\ IsFile(tree[Source(p)])
           \/ t.type = "DELETE" /\ tree[Source(p)] = Absent
    BY <1>2, <1>6 DEF Settled
  <2>2. CASE t.type = "UPDATE" /\ IsFile(tree[Source(p)])
    <3>1. \A v \in Workers : p \in Touches(task'[v]) => task'[v].type = "UPDATE"
      BY <1>1, <1>6, <2>1, <2>2 DEF Clashes, Still
    <3>2. \A v \in Workers : dst'[v] = Current(p) /\ in'[v] # NotOpen =>
             in'[v] \in {tree'[Source(p)], Dir}
      BY <1>1, <2>1 DEF CopiesRemoved, Parts, TreeTypes, Apart
    <3>3. ~AllStale(p)'
      <4>1. ~t.dir
        BY <2>1, <2>2 DEF Take, IsFile
      <4>2. Pending(w, p)' /\ ~Stale(w, p)'
        BY <1>1, <1>6, <4>1 DEF Pending, Stale
      <4>3. QED
        BY <4>2 DEF AllStale
    <3>4. tree'[Source(p)] # Absent
      BY <1>1, <2>2 DEF IsFile
    <3>5. QED
      BY <3>1, <3>2, <3>3, <3>4 DEF Updated, Removed
  <2>3. CASE t.type = "DELETE" /\ tree[Source(p)] = Absent
    <3>1. \A v \in Workers : p \in Touches(task'[v]) => v = w
      BY <1>1, <1>6, <2>1, <2>3 DEF Clashes, Still
    <3>2. ~IsFile(tree'[Source(p)])
      BY <1>1, <2>3 DEF IsFile
    <3>3. QED
      BY <1>1, <1>6, <2>3, <3>1, <3>2 DEF Updated, Removed
  <2>4. QED
    BY <2>1, <2>2, <2>3
<1>7. QED
  BY <1>4, <1>5, <1>6
-----------------------------------------------------------------------------
(* A path that a step is about *)

\* The only task of a path that the source no longer has removes what the backup has.
LEMMA RemovedHere ==
    ASSUME Parts, NEW p \in Paths, Removed(p), NEW w \in Workers, Worker(w),
           p \in Touches(task[w])
    PROVE  Removed(p)'
<1> USE DEF Parts
<1>1. /\ pc[w] # "idle" /\ \A v \in Workers \ {w} : Still(v)
      /\ \/ task' = task /\ unsettled' = unsettled
         \/ Ends(w)
  BY WorkerStep
<1>2. Source(p) \in Names /\ tree'[Source(p)] = tree[Source(p)]
  <2>1. Touches(task[w]) \subseteq Paths
    BY <1>1, TaskFields
  <2>2. Source(p) \in Names /\ \A q \in Touches(task[w]) : Source(p) \notin NamesOf(q)
    BY <2>1, NamesDiffer DEF NamesOf
  <2>3. QED
    BY <2>2, WorkerNames
<1> SUFFICES ASSUME p \notin unsettled', tree'[Source(p)] = Absent
             PROVE  Removed(p)'
  BY DEF Removed
<1>3. /\ p \notin unsettled /\ tree[Source(p)] = Absent
  BY <1>1, <1>2 DEF Ends
<1>4. /\ task[w].type = "DELETE"
      /\ \A v \in Workers : p \in Touches(task[v]) => v = w
  BY <1>3 DEF Removed
<1>5. Path(w) = p /\ pc[w] \in {"start", "trash"}
  BY <1>1, <1>4, TaskFields DEF Where, WorkTypes, Labels
<1>6. task'[w] = task[w] \/ task'[w] = NoTask
  BY <1>1 DEF Ends
<1>7. \A v \in Workers : p \in Touches(task'[v]) => v = w /\ task'[v].type = "DELETE"
  BY <1>1, <1>4, <1>6 DEF Still, Touches
<1>8. tree'[Current(p)] # Absent => p \in Touches(task'[w])
  <2>1. DeleteNothing(w) \/ DeleteStamp(w) \/ DeleteMove(w)
    BY <1>4, <1>5
       DEF Worker, RenameMoves, RenameFails, MakeDir, SourceGone, SourceThere, NotPrepared, Backup,
           HashSource, OpenIn, CreateOut, ReadIn, WriteOut, CloseBoth, CopyError, RenameTemp,
           RenameTempFails, UnlinkTemp, Check, Uploads, At
  <2>2. CASE DeleteNothing(w)
    BY <1>5, <2>2 DEF DeleteNothing
  <2>3. CASE DeleteStamp(w)
    BY <2>3 DEF DeleteStamp, Quiet
  <2>4. CASE DeleteMove(w)
    <3>1. dst[w] = Trash(p)
      BY <1>5, <2>4 DEF DeleteMove, At, Where
    <3>2. \/ tree' = Moved(Current(p), Trash(p))
          \/ Fail(w)
      BY <1>5, <2>4, <3>1 DEF DeleteMove
    <3>3. CASE tree' = Moved(Current(p), Trash(p))
      BY <3>3, NamesDiffer DEF Moved, TreeTypes
    <3>4. CASE Fail(w)
      BY <1>3, <3>4 DEF Fail, RetryOrGiveUp
    <3>5. QED
      BY <3>2, <3>3, <3>4
  <2>5. QED
    BY <2>1, <2>2, <2>3, <2>4
<1>9. QED
  BY <1>7, <1>8 DEF Removed

\* A worker at an update of a path that is settled.
Here(w, p) ==
    /\ Parts /\ Parts' /\ Updated(p)
    /\ p \notin unsettled /\ p \notin unsettled' /\ IsFile(tree[Source(p)])
    /\ pc[w] # "idle" /\ Path(w) = p /\ p \in Touches(task[w]) /\ task[w].type = "UPDATE"
    /\ tree'[Source(p)] = tree[Source(p)] /\ Content(Source(p))' = Content(Source(p))
    /\ \A v \in Workers \ {w} : Still(v)
    /\ (task' = task /\ unsettled' = unsettled) \/ Ends(w)

LEMMA ComesHere ==
    ASSUME Parts, NEW p \in Paths, Updated(p), NEW w \in Workers, Worker(w),
           p \in Touches(task[w]), p \notin unsettled', IsFile(tree'[Source(p)])
    PROVE  Here(w, p)
<1> USE DEF Parts
<1>1. TreeTypes' /\ DataTypes' /\ WorkTypes' /\ (\A v \in Workers : Where(v)') /\ Apart'
  BY WorkerStep
<1>2. /\ pc[w] # "idle" /\ \A v \in Workers \ {w} : Still(v)
      /\ \/ task' = task /\ unsettled' = unsettled
         \/ Ends(w)
  BY WorkerStep
<1>3. Parts'
  BY <1>1, HeldByWorker
<1>4. Source(p) \in Names /\ tree'[Source(p)] = tree[Source(p)]
  <2>1. Touches(task[w]) \subseteq Paths
    BY <1>2, TaskFields
  <2>2. Source(p) \in Names /\ \A q \in Touches(task[w]) : Source(p) \notin NamesOf(q)
    BY <2>1, NamesDiffer DEF NamesOf
  <2>3. QED
    BY <2>2, WorkerNames
<1>5. p \notin unsettled /\ IsFile(tree[Source(p)])
  BY <1>2, <1>4 DEF Ends
<1>6. task[w].type = "UPDATE" /\ Path(w) = p
  BY <1>2, <1>5, TaskFields DEF Updated
<1>7. Content(Source(p))' = Content(Source(p))
  <2>1. WriteOut(w) => tree[Source(p)] # out[w]
    BY WriteOutFiles DEF Apart
  <2>2. CreateOut(w) => Source(p) # Temp(dst[w])
    <3>1. CreateOut(w) => dst[w] \in {Current(p), Version(p)}
      BY <1>6 DEF CreateOut, At, Where
    <3>2. QED
      BY <3>1, NamesDiffer
  <2>3. data'[tree[Source(p)]] = data[tree[Source(p)]]
    BY <1>4, <1>5, <2>1, <2>2, WorkerData
  <2>4. QED
    BY <1>4, <1>5, <2>3 DEF Content
<1>8. QED
  BY <1>2, <1>3, <1>4, <1>5, <1>6, <1>7 DEF Here

\* The worker will hash the source again.
LEMMA NotStale ==
    ASSUME NEW p \in Paths, NEW w \in Workers, Here(w, p), ~task[w].dir,
           \/ SourceThere(w) \/ Backup(w) \/ HashSource(w) \/ CopyError(w) \/ RenameTempFails(w)
           \/ Fail(w)
           \/ /\ OpenIn(w) \/ CreateOut(w) \/ ReadIn(w) \/ WriteOut(w) \/ CloseBoth(w)
                    \/ RenameTemp(w)
              /\ dst[w] # Current(p)
    PROVE  ~AllStale(p)'
<1> SUFFICES task'[w] = task[w] /\ pc'[w] # "check" /\ ~Stale(w, p)'
  BY DEF Pending, AllStale, Here
<1>1. pc \in [Workers -> Labels] /\ dst \in [Workers -> Names \cup {NoName}]
      /\ before \in [Workers -> Hashes] /\ WorkTypes
  BY DEF Here, Parts, WorkTypes
<1>2. CASE Fail(w)
  <2>1. p \notin unsettled' /\ p \in Touches(task[w])
    BY DEF Here
  <2>2. task' = task /\ pc' = [pc EXCEPT ![w] = "start"]
    BY <1>2, <2>1 DEF Fail, RetryOrGiveUp, GoTo
  <2>3. QED
    BY <1>1, <2>2 DEF Stale
<1>3. CASE SourceThere(w)
  BY <1>1, <1>3 DEF SourceThere, Quiet, GoTo, Stale
<1>4. CASE Backup(w)
  <2>1. /\ task' = task /\ pc'[w] \in {"open", "hash"} /\ dst'[w] \in {Version(p), NoName}
    BY <1>1, <1>4 DEF Backup, Quiet, GoTo, Here
  <2>2. dst'[w] # Current(p)
    BY <2>1, NamesDiffer, LocalAssumption
  <2>3. QED
    BY <2>1, <2>2 DEF Stale
<1>5. CASE HashSource(w)
  <2>1. /\ task' = task /\ pc'[w] = "open" /\ before'[w] = Hash(Source(p))
    BY <1>1, <1>5 DEF HashSource, Quiet, GoTo, Here
  <2>2. Hash(Source(p)) = Content(Source(p))'
    BY DEF Here, Hash, Content
  <2>3. QED
    BY <2>1, <2>2 DEF Stale
<1>6. CASE CopyError(w) \/ RenameTempFails(w)
  BY <1>1, <1>6 DEF CopyError, RenameTempFails, CopyFails, GoTo, Stale
<1>7. CASE /\ OpenIn(w) \/ CreateOut(w) \/ ReadIn(w) \/ WriteOut(w) \/ CloseBoth(w)
           /\ dst[w] # Current(p)
  BY <1>1, <1>7 DEF OpenIn, CreateOut, ReadIn, WriteOut, CloseBoth, Quiet, GoTo, Stale
<1>8. CASE RenameTemp(w) /\ dst[w] # Current(p)
  BY <1>1, <1>8 DEF RenameTemp, Quiet, GoTo, Stale, Here
<1>9. QED
  BY <1>2, <1>3, <1>4, <1>5, <1>6, <1>7, <1>8

\* The temporary file is what it was, and so are those who write it but for one.
LEMMA NewTempFrame ==
    ASSUME NEW p \in Paths, NEW w \in Workers, Here(w, p), NewTemp(p),
           tree'[Temp(Current(p))] = tree[Temp(Current(p))],
           IsFile(tree[Temp(Current(p))]) =>
               data'[tree[Temp(Current(p))]] = data[tree[Temp(Current(p))]],
           out'[w] = tree[Temp(Current(p))] /\ pc'[w] = "write" =>
               pos'[w] < Len(Content(Source(p))) /\ buf'[w] = Content(Source(p))[pos'[w] + 1],
           Fills(w, p) => Fills(w, p)'
    PROVE  NewTemp(p)'
<1> DEFINE t == Temp(Current(p))
           x == Content(Source(p))
<1> SUFFICES ASSUME tree[t] # Absent PROVE NewTemp(p)'
  BY DEF NewTemp
<1>1. IsFile(tree[t])
  <2>1. t \in TempNames \cap Names
    BY SomeNames, NamesDiffer
  <2>2. QED
    BY <2>1 DEF Here, Parts, Apart, IsFile
<1>2. data'[tree'[t]] = data[tree[t]] /\ tree'[t] = tree[t] /\ x' = x
  BY <1>1 DEF Here
<1>3. /\ Len(data[tree[t]]) <= Len(x)
      /\ \A v \in Workers : out[v] = tree[t] /\ pc[v] = "write" =>
           pos[v] < Len(x) /\ buf[v] = x[pos[v] + 1]
      /\ \E z \in Workers : Fills(z, p)
  BY DEF NewTemp
<1>4. Len(data'[tree'[t]]) <= Len(x')
  BY <1>2, <1>3
<1>5. ASSUME NEW v \in Workers, out'[v] = tree'[t], pc'[v] = "write"
      PROVE  pos'[v] < Len(x') /\ buf'[v] = x'[pos'[v] + 1]
  <2>1. CASE v = w
    BY <1>2, <1>5, <2>1
  <2>2. CASE v # w
    BY <1>2, <1>3, <1>5, <2>2 DEF Here, Still
  <2>3. QED
    BY <2>1, <2>2
<1>6. \E z \in Workers : Fills(z, p)'
  <2>1. PICK z \in Workers : Fills(z, p)
    BY <1>3
  <2>2. CASE z = w
    BY <2>1, <2>2
  <2>3. CASE z # w
    <3>1. Still(z)
      BY <2>3 DEF Here
    <3>2. Fills(z, p)'
      BY <1>2, <2>1, <3>1 DEF Fills, Stale, Still
    <3>3. QED
      BY <3>2
  <2>4. QED
    BY <2>2, <2>3
<1>7. QED
  BY <1>4, <1>5, <1>6 DEF NewTemp

\* What a stale writer appends to the temporary file is what the source has there.
LEMMA WriteHere ==
    ASSUME NEW p \in Paths, NEW w \in Workers, Here(w, p), NewTemp(p), Worker(w), WriteOut(w),
           out[w] = tree[Temp(Current(p))], Stale(w, p)'
    PROVE  NewTemp(p)'
<1> DEFINE t == Temp(Current(p))
           i == tree[t]
           x == Content(Source(p))
           y == data[i]
           z == data'[i]
<1>1. /\ i \in Inodes /\ z = WrittenInto(y, pos[w], <<buf[w]>>)
      /\ y \in Files /\ pos[w] \in 0 .. MaxBlocks /\ pos[w] < MaxBlocks
      /\ buf[w] \in Blocks \cup {Hole} /\ pc[w] = "write"
  BY WriteOutFiles DEF Here, Parts, WriteOut, At
<1>2. /\ Len(z) = IF pos[w] + 1 > Len(y) THEN pos[w] + 1 ELSE Len(y)
      /\ Len(y) \in 0 .. MaxBlocks
      /\ \A k \in 1 .. Len(z) : z[k] = IF k = pos[w] + 1 THEN buf[w]
                                       ELSE IF k <= Len(y) THEN y[k] ELSE Hole
      /\ z \in Files
  <2>1. /\ Len(WrittenInto(y, pos[w], <<buf[w]>>))
             = IF pos[w] + 1 > Len(y) THEN pos[w] + 1 ELSE Len(y)
        /\ Len(y) \in 0 .. MaxBlocks
        /\ WrittenInto(y, pos[w], <<buf[w]>>) \in Files
    BY <1>1, OneMoreBlock
  <2>2. \A k \in 1 .. Len(WrittenInto(y, pos[w], <<buf[w]>>)) :
          WrittenInto(y, pos[w], <<buf[w]>>)[k]
            = IF k = pos[w] + 1 THEN buf[w] ELSE IF k <= Len(y) THEN y[k] ELSE Hole
    BY <1>1, OneMoreBlock
  <2> HIDE DEF y
  <2>3. QED
    BY <1>1, <2>1, <2>2
<1>3. i # Absent
  BY <1>1, LocalAssumption
<1>4. /\ Len(y) <= Len(x) /\ pos[w] < Len(x) /\ buf[w] = x[pos[w] + 1]
      /\ \A v \in Workers : out[v] = i /\ pc[v] = "write" =>
           pos[v] < Len(x) /\ buf[v] = x[pos[v] + 1]
      /\ \E v \in Workers : Fills(v, p)
  BY <1>1, <1>3 DEF NewTemp
<1>5. /\ tree' = tree /\ out' = out /\ x' = x /\ dst' = dst /\ before' = before
      /\ pos' = [pos EXCEPT ![w] = pos[w] + 1] /\ pc' = [pc EXCEPT ![w] = "read"]
  BY DEF WriteOut, GoTo, Here
<1>6. x \in Files /\ Len(x) \in 0 .. MaxBlocks
  <2>1. x \in Files
    <3>1. Source(p) \in Names
      BY NamesDiffer
    <3>2. tree[Source(p)] \in DOMAIN data
      BY <3>1 DEF Here, Parts, TreeTypes, DataTypes, Holds, IsFile
    <3>3. QED
      BY <3>2 DEF Here, Parts, DataTypes, Content
  <2>2. QED
    BY <1>1, <2>1, OneMoreBlock
<1> HIDE DEF x, y, z
<1>7. Len(z) \in Nat /\ Len(y) \in Nat /\ pos[w] \in Nat /\ Len(x) \in Nat
  BY <1>1, <1>2, <1>6, FileAssumption
<1>8. Len(z) <= Len(x) /\ Len(y) <= Len(z) /\ pos[w] + 1 <= Len(z)
  BY <1>2, <1>4, <1>7
<1>9. z[pos[w] + 1] = x[pos[w] + 1]
  BY <1>2, <1>4, <1>7, <1>8
<1>10. ASSUME NEW k \in 1 .. Len(y), y[k] = x[k] PROVE z[k] = x[k]
  <2>1. k \in 1 .. Len(z)
    BY <1>7, <1>8
  <2>2. CASE k = pos[w] + 1
    BY <1>9, <2>2
  <2>3. CASE k # pos[w] + 1
    <3>1. k <= Len(y)
      BY <1>7
    <3>2. QED
      BY <1>2, <1>10, <2>1, <2>3, <3>1
  <2>4. QED
    BY <2>2, <2>3
<1>11. PICK v \in Workers : Fills(v, p)
  BY <1>4
<1>12. \/ /\ pc[v] \in {"read", "write"} /\ out[v] = i
          /\ pos[v] <= Len(y) /\ \A k \in 1 .. pos[v] : y[k] = x[k]
       \/ pc[v] = "rename" /\ y = x
  BY <1>11 DEF Fills, x, y
<1>13. pos[v] \in Nat
  BY DEF Here, Parts, WorkTypes
<1>14. Stale(v, p)'
  <2>1. v = w \/ Still(v)
    BY DEF Here
  <2>2. QED
    BY <1>5, <1>11, <2>1 DEF Fills, Stale, Still, x
<1>15. \/ /\ pc'[v] \in {"read", "write"} /\ out'[v] = i
          /\ pos'[v] <= Len(z) /\ \A k \in 1 .. pos'[v] : z[k] = x[k]
       \/ pc'[v] = "rename" /\ z = x
  <2>1. CASE v = w
    <3>1. /\ pos'[v] = pos[w] + 1 /\ pc'[v] = "read" /\ out'[v] = i
          /\ \A k \in 1 .. pos[w] : y[k] = x[k] /\ k \in 1 .. Len(y)
      BY <1>1, <1>5, <1>7, <1>12, <2>1 DEF Here, Parts, WorkTypes
    <3>2. \A k \in 1 .. pos[w] + 1 : k = pos[w] + 1 \/ k \in 1 .. pos[w]
      BY <1>7
    <3>3. \A k \in 1 .. pos[w] + 1 : z[k] = x[k]
      BY <1>9, <1>10, <3>1, <3>2
    <3>4. QED
      BY <1>8, <3>1, <3>3
  <2>2. CASE v # w /\ pc[v] = "rename"
    <3>1. y = x /\ pc'[v] = "rename"
      BY <1>12, <2>2 DEF Here, Still
    <3>2. Len(z) = Len(x) /\ \A k \in 1 .. Len(z) : z[k] = x[k]
      BY <1>7, <1>8, <1>10, <3>1
    <3>3. z = x
      <4>1. PICK m \in 0 .. MaxBlocks : z \in [1 .. m -> Blocks \cup {Hole}]
        BY <1>2 DEF Files
      <4>2. PICK n \in 0 .. MaxBlocks : x \in [1 .. n -> Blocks \cup {Hole}]
        BY <1>6 DEF Files
      <4>3. m = Len(z) /\ n = Len(x)
        BY <4>1, <4>2, FileAssumption
      <4>4. QED
        BY <3>2, <4>1, <4>2, <4>3
    <3>4. QED
      BY <3>1, <3>3
  <2>3. CASE v # w /\ pc[v] # "rename"
    <3>1. /\ pc'[v] \in {"read", "write"} /\ out'[v] = i /\ pos'[v] = pos[v]
          /\ pos[v] <= Len(y) /\ \A k \in 1 .. pos[v] : y[k] = x[k]
      BY <1>12, <2>3 DEF Here, Still
    <3>2. \A k \in 1 .. pos[v] : k \in 1 .. Len(y)
      BY <1>7, <1>13, <3>1
    <3>3. pos[v] <= Len(z)
      BY <1>7, <1>8, <1>13, <3>1
    <3>4. QED
      BY <1>10, <3>1, <3>2, <3>3
  <2>4. QED
    BY <2>1, <2>2, <2>3
<1>16. Fills(v, p)'
  BY <1>5, <1>14, <1>15 DEF Fills, x, z
<1>17. \A u \in Workers : out'[u] = i /\ pc'[u] = "write" =>
           pos'[u] < Len(x) /\ buf'[u] = x[pos'[u] + 1]
  <2> SUFFICES ASSUME NEW u \in Workers, out'[u] = i, pc'[u] = "write"
               PROVE  pos'[u] < Len(x) /\ buf'[u] = x[pos'[u] + 1]
    OBVIOUS
  <2>1. u # w
    BY <1>5 DEF Here, Parts, WorkTypes
  <2>2. Still(u)
    BY <2>1 DEF Here
  <2>3. QED
    BY <1>4, <2>2 DEF Still
<1>18. QED
  BY <1>5, <1>8, <1>16, <1>17 DEF NewTemp, x, z

\* Whoever creates or empties the temporary file is the last to have done so.
LEMMA CreateHere ==
    ASSUME NEW p \in Paths, NEW w \in Workers, Here(w, p), NewTemp(p), CreateOut(w),
           dst[w] = Current(p), Stale(w, p)'
    PROVE  NewTemp(p)'
<1> DEFINE t == Temp(Current(p))
           x == Content(Source(p))
           i == IF tree[t] = Absent THEN NewInode ELSE tree[t]
<1>1. /\ i \in Inodes /\ data'[i] = <<>> /\ t \in Names
      /\ tree[t] = Absent => ~Holds(i)
      /\ tree' = [tree EXCEPT ![t] = i] /\ out' = [out EXCEPT ![w] = i]
  BY CreateOutFiles DEF Here, Parts
<1>2. tree'[t] = i /\ out'[w] = i /\ pc'[w] = "read" /\ pos'[w] = 0 /\ x' = x
  <2>1. tree'[t] = i /\ out'[w] = i
    BY <1>1 DEF Here, Parts, TreeTypes
  <2>2. pc'[w] = "read" /\ pos'[w] = 0
    BY DEF CreateOut, At, GoTo, Here, Parts, WorkTypes, Where
  <2>3. QED
    BY <2>1, <2>2 DEF Here
<1>3. Len(x) >= 0
  <2>1. Source(p) \in Names
    BY NamesDiffer
  <2>2. x \in Files
    BY <2>1 DEF Here, Parts, TreeTypes, DataTypes, Holds, IsFile, Content
  <2>3. PICK n \in 0 .. MaxBlocks : x \in [1 .. n -> Blocks \cup {Hole}]
    BY <2>2 DEF Files
  <2>4. QED
    BY <2>3, FileAssumption
<1>4. \A u \in Workers : out'[u] = i /\ pc'[u] = "write" =>
           pos'[u] < Len(x) /\ buf'[u] = x[pos'[u] + 1]
  <2> SUFFICES ASSUME NEW u \in Workers, out'[u] = i, pc'[u] = "write"
               PROVE  pos'[u] < Len(x) /\ buf'[u] = x[pos'[u] + 1]
    OBVIOUS
  <2>1. u # w
    BY <1>2
  <2>2. Still(u)
    BY <2>1 DEF Here
  <2> HIDE DEF i
  <2>3. tree[t] # Absent
    BY <1>1, <2>2 DEF Still, Holds
  <2>4. out[u] = tree[t] /\ pc[u] = "write"
    BY <2>2, <2>3 DEF Still, i
  <2>5. pos[u] < Len(x) /\ buf[u] = x[pos[u] + 1]
    BY <2>3, <2>4 DEF NewTemp
  <2>6. QED
    BY <2>2, <2>5 DEF Still
<1> HIDE DEF i
<1>5. Fills(w, p)'
  BY <1>1, <1>2, <1>3 DEF Fills
<1>6. Len(data'[tree'[t]]) <= Len(x')
  BY <1>1, <1>2, <1>3
<1>7. QED
  BY <1>2, <1>4, <1>5, <1>6 DEF NewTemp

\* A stale copy to current/ goes on.
LEMMA CopyHere ==
    ASSUME NEW p \in Paths, NEW w \in Workers, Here(w, p), Worker(w), dst[w] = Current(p),
           OpenIn(w) \/ CreateOut(w) \/ ReadIn(w) \/ WriteOut(w) \/ CloseBoth(w), AllStale(p)'
    PROVE  Owned(p)' /\ NewTemp(p)' /\ Pending(w, p)'
<1> DEFINE c == Current(p)
           t == Temp(Current(p))
           x == Content(Source(p))
<1>1. /\ task' = task /\ dst' = dst /\ before' = before
      /\ pc[w] \in {"open", "create", "read", "write"}
      /\ pc'[w] \in {"create", "read", "write", "rename"}
  BY DEF OpenIn, CreateOut, ReadIn, WriteOut, CloseBoth, At, GoTo, Quiet, Here, Parts, WorkTypes
<1>2. ~task[w].dir /\ p \in Touches(task[w])
  BY CopierTouches DEF Here, CopiersTouch
<1>3. Pending(w, p)'
  BY <1>1, <1>2 DEF Pending
<1>4. \A v \in Workers : Pending(v, p) => Stale(v, p)' /\ Stale(v, p)
  <2> SUFFICES ASSUME NEW v \in Workers, Pending(v, p) PROVE Stale(v, p)' /\ Stale(v, p)
    OBVIOUS
  <2>1. Stale(v, p)'
    <3>1. Pending(v, p)'
      BY <1>3 DEF Pending, Still, Here
    <3>2. QED
      BY <3>1 DEF AllStale
  <2>2. CASE v = w
    BY <1>1, <2>1, <2>2 DEF Stale, Here
  <2>3. CASE v # w
    BY <2>1, <2>3 DEF Stale, Here, Still
  <2>4. QED
    BY <2>1, <2>2, <2>3
<1>5. AllStale(p) /\ Stale(w, p)'
  BY <1>1, <1>2, <1>4 DEF AllStale, Pending
<1>6. Owned(p) /\ NewTemp(p)
  BY <1>5 DEF Updated, Here
<1>7. c \in Names /\ t \in Names /\ c # t
  BY NamesDiffer
<1>8. tree'[c] = tree[c] /\ (~CreateOut(w) => tree' = tree)
  BY <1>7 DEF OpenIn, CreateOut, ReadIn, WriteOut, CloseBoth, Here, Parts, TreeTypes
<1>9. Owned(p)'
  <2> SUFFICES ASSUME NEW v \in Workers, out'[v] \in Inodes, out'[v] = tree'[c]
               PROVE  dst'[v] = c
    BY DEF Owned
  <2>1. CASE v = w
    BY <1>1, <2>1
  <2>2. CASE v # w
    BY <1>6, <1>8, <2>2 DEF Owned, Here, Still
  <2>3. QED
    BY <2>1, <2>2
<1>10. NewTemp(p)'
  <2>1. CASE CreateOut(w)
    BY <1>5, <1>6, <2>1, CreateHere
  <2>2. CASE WriteOut(w) /\ out[w] = tree[t]
    BY <1>5, <1>6, <2>2, WriteHere
  <2>3. CASE ~CreateOut(w) /\ ~(WriteOut(w) /\ out[w] = tree[t])
    <3>1. tree'[t] = tree[t]
      BY <1>8, <2>3
    <3>2. ASSUME IsFile(tree[t]) PROVE data'[tree[t]] = data[tree[t]]
      BY <1>7, <2>3, <3>1, <3>2, WorkerData DEF Here
    <3>3. CASE OpenIn(w)
      <4>1. pc'[w] = "create" /\ ~Fills(w, p)
        BY <3>3 DEF OpenIn, At, GoTo, Fills, Here, Parts, WorkTypes
      <4>2. QED
        BY <1>6, <3>1, <3>2, <4>1, NewTempFrame
    <3>4. CASE ReadIn(w)
      <4>1. in[w] = tree[Source(p)]
        BY <3>4 DEF ReadIn, At, Here, Parts, WorkTypes, Updated, IsFile
      <4>2. x = data[in[w]]
        BY <4>1 DEF Here, Content
      <4>3. /\ pos[w] < Len(x) /\ buf'[w] = x[pos[w] + 1] /\ pos' = pos /\ out' = out
            /\ pc[w] = "read" /\ pc'[w] = "write" /\ data' = data
        BY <3>4, <4>2 DEF ReadIn, At, GoTo, Here, Parts, WorkTypes
      <4>4. Fills(w, p) => Fills(w, p)'
        BY <1>5, <3>1, <4>3 DEF Fills, Here
      <4>5. QED
        BY <1>6, <3>1, <3>2, <4>3, <4>4, NewTempFrame
    <3>5. CASE WriteOut(w)
      <4>1. pc'[w] = "read" /\ pc[w] = "write"
        BY <3>5 DEF WriteOut, At, GoTo, Here, Parts, WorkTypes
      <4>2. ~Fills(w, p)
        BY <2>3, <3>5, <4>1 DEF Fills
      <4>3. QED
        BY <1>6, <3>1, <3>2, <4>1, <4>2, NewTempFrame
    <3>6. CASE CloseBoth(w)
      <4>1. in[w] = tree[Source(p)]
        BY <3>6 DEF CloseBoth, At, Here, Parts, WorkTypes, Updated, IsFile
      <4>2. x = data[in[w]]
        BY <4>1 DEF Here, Content
      <4>3. pos[w] >= Len(x) /\ pc[w] = "read" /\ pc'[w] = "rename"
        BY <3>6, <4>2 DEF CloseBoth, At, GoTo, Here, Parts, WorkTypes
      <4>4. ASSUME Fills(w, p) PROVE Fills(w, p)'
        <5>1. /\ out[w] = tree[t] /\ pos[w] <= Len(data[tree[t]])
              /\ \A k \in 1 .. pos[w] : data[tree[t]][k] = x[k]
          BY <4>3, <4>4 DEF Fills
        <5>2. /\ tree[t] \in Inodes /\ tree[t] \in DOMAIN data /\ IsFile(tree[t])
          BY <4>3, <5>1, LocalAssumption
             DEF Here, Parts, WorkTypes, TreeTypes, DataTypes, Holds, IsFile
        <5>3. tree[Source(p)] \in DOMAIN data
          BY NamesDiffer DEF Here, Parts, TreeTypes, DataTypes, Holds, IsFile
        <5>4. data[tree[t]] \in Files /\ x \in Files
          BY <4>1, <4>2, <5>2, <5>3 DEF Here, Parts, DataTypes
        <5>5. Len(data[tree[t]]) <= Len(x)
          BY <1>6, <5>2 DEF NewTemp, IsFile
        <5>6. PICK m \in 0 .. MaxBlocks : data[tree[t]] \in [1 .. m -> Blocks \cup {Hole}]
          BY <5>4 DEF Files
        <5>7. PICK n \in 0 .. MaxBlocks : x \in [1 .. n -> Blocks \cup {Hole}]
          BY <5>4 DEF Files
        <5>8. m = Len(data[tree[t]]) /\ n = Len(x) /\ m \in Nat /\ n \in Nat
          BY <5>6, <5>7, FileAssumption
        <5>9. pos[w] \in Nat
          BY DEF Here, Parts, WorkTypes
        <5>10. pos[w] = m /\ m = n
          BY <4>3, <5>1, <5>5, <5>8, <5>9
        <5> HIDE DEF x
        <5>11. data[tree[t]] = x
          BY <5>1, <5>6, <5>7, <5>10
        <5>12. data'[tree'[t]] = x /\ x' = x
          BY <3>1, <3>2, <5>2, <5>11 DEF Here, x
        <5>13. QED
          BY <1>5, <4>3, <5>12 DEF Fills, x
      <4>5. QED
        BY <1>6, <3>1, <3>2, <4>3, <4>4, NewTempFrame
    <3>7. QED
      BY <2>3, <3>3, <3>4, <3>5, <3>6
  <2>4. QED
    BY <2>1, <2>2, <2>3
<1>11. QED
  BY <1>3, <1>9, <1>10

\* The source of a settled update is a file.
LEMMA SourceIsFile ==
    ASSUME NEW p \in Paths, NEW w \in Workers, Here(w, p)
    PROVE  Content(Source(p)) \in Files
<1>1. tree[Source(p)] \in DOMAIN data
  BY NamesDiffer DEF Here, Parts, TreeTypes, DataTypes, Holds, IsFile
<1>2. QED
  BY <1>1 DEF Here, Parts, DataTypes, Content

\* The last of the copies of a path is renamed: it is what the source has, or its worker
\* finds out.
LEMMA RenameHere ==
    ASSUME NEW p \in Paths, NEW w \in Workers, Here(w, p), Worker(w), RenameTemp(w),
           dst[w] = Current(p)
    PROVE  /\ Owned(p)' /\ NewTemp(p)'
           /\ \/ \E v \in Workers : Pending(v, p)' \/ Mismatched(v, p)'
              \/ Content(Current(p))' = Content(Source(p))'
<1> DEFINE c == Current(p)
           t == Temp(Current(p))
           x == Content(Source(p))
<1>1. c \in Names /\ t \in Names \cap TempNames /\ c # t
  BY NamesDiffer, SomeNames
<1>2. tree[t] \in Inodes /\ tree'[t] = Absent /\ tree'[c] = tree[t]
  <2>1. tree[t] # Absent /\ tree[t] # Dir
    BY <1>1 DEF RenameTemp, CanRename, Here, Parts, Apart
  <2>2. tree' = Moved(t, c)
    BY DEF RenameTemp
  <2>3. QED
    BY <1>1, <2>1, <2>2 DEF Moved, Here, Parts, TreeTypes
<1>3. data'[tree[t]] = data[tree[t]]
  <2>1. DataKept
    BY ClosingFiles DEF Closing, Here, Parts
  <2>2. tree[t] \in DOMAIN data'
    BY <1>1, <1>2 DEF Here, Parts, DataTypes, Holds
  <2>3. QED
    BY <2>1, <2>2 DEF DataKept
<1>4. /\ task' = task /\ dst' = dst /\ out' = out /\ before' = before
      /\ pc[w] = "rename" /\ pc'[w] = "check"
  BY DEF RenameTemp, At, GoTo, Quiet, copyVars, Here, Parts, WorkTypes
<1>5. Owned(p)'
  BY <1>2, <1>4 DEF Owned, Here, Parts, Apart
<1>6. NewTemp(p)'
  BY <1>2 DEF NewTemp
<1>7. CASE \E v \in Workers : v # w /\ Pending(v, p)
  <2>1. PICK v \in Workers : v # w /\ Pending(v, p)
    BY <1>7
  <2>2. Pending(v, p)'
    BY <2>1 DEF Pending, Here, Still
  <2>3. QED
    BY <1>5, <1>6, <2>2
<1>8. CASE before[w] # x /\ ~\E v \in Workers : v # w /\ Pending(v, p)
  <2>1. Stale(w, p)
    BY <1>4, <1>8 DEF Stale
  <2>2. NewTemp(p)
    BY <1>8, <2>1 DEF AllStale, Updated, Here
  <2>3. PICK z \in Workers : Fills(z, p)
    BY <1>2, <2>2, LocalAssumption DEF NewTemp
  <2>4. Pending(z, p)
    BY <2>3, CopierTouches DEF Fills, Stale, Pending, Here, CopiersTouch
  <2>5. z = w
    BY <1>8, <2>4
  <2>6. data[tree[t]] = x
    BY <1>4, <2>3, <2>5 DEF Fills
  <2>7. Content(c)' = x
    BY <1>2, <1>3, <2>6, LocalAssumption DEF Content, IsFile
  <2>8. QED
    BY <1>5, <1>6, <2>7 DEF Here
<1>9. CASE before[w] = x
  <2>1. Hash(c)' = data[tree[t]] /\ Content(c)' = data[tree[t]]
    BY <1>2, <1>3, LocalAssumption DEF Hash, Content, IsFile
  <2>2. data[tree[t]] = x \/ Mismatched(w, p)'
    BY <1>4, <1>9, <2>1 DEF Mismatched, Here
  <2>3. QED
    BY <1>5, <1>6, <2>1, <2>2 DEF Here
<1>10. QED
  BY <1>7, <1>8, <1>9

\* A directory is made, or a copy turns out to be right: neither was relied upon.
LEMMA EndHere ==
    ASSUME NEW p \in Paths, NEW w \in Workers, Here(w, p), Worker(w), AllStale(p)',
           \/ MakeDir(w)
           \/ Check(w) /\ Succeed(w)
    PROVE  /\ Owned(p)' /\ NewTemp(p)'
           /\ \/ \E v \in Workers : Pending(v, p)' \/ Mismatched(v, p)'
              \/ Content(Current(p))' = Content(Source(p))'
<1> DEFINE c == Current(p)
           t == Temp(Current(p))
           x == Content(Source(p))
<1>1. c \in Names /\ t \in Names /\ c # t
  BY NamesDiffer
<1>2. /\ ~Pending(w, p) /\ ~Mismatched(w, p) /\ ~Fills(w, p)
      /\ out'[w] = NotOpen
  <2>1. CASE MakeDir(w)
    <3>1. task[w].dir /\ pc[w] \in {"start", "upload"}
      BY <2>1 DEF MakeDir, Uploads, At
    <3>2. out'[w] = NotOpen
      BY <2>1 DEF MakeDir, Succeed, Fail, Reset
    <3>3. QED
      BY <3>1, <3>2 DEF Pending, Mismatched, Fills
  <2>2. CASE Check(w) /\ Succeed(w)
    <3>1. pc[w] = "check" /\ out'[w] = NotOpen
      BY <2>2 DEF Check, At, Succeed, Reset
    <3>2. Hash(c) = before[w]
      <4>1. CASE CopyIsSource(w)
        BY <4>1 DEF CopyIsSource, Here
      <4>2. CASE ~CopyIsSource(w)
        <5>1. Fail(w)
          BY <2>2, <4>2 DEF Check
        <5>2. pc' = [pc EXCEPT ![w] = "start"]
          BY <5>1 DEF Fail, RetryOrGiveUp, GoTo, Here
        <5>3. pc' = [pc EXCEPT ![w] = "idle"]
          BY <2>2 DEF Succeed, GoTo
        <5>4. QED
          BY <5>2, <5>3 DEF Here, Parts, WorkTypes
      <4>3. QED
        BY <4>1, <4>2
    <3>3. QED
      BY <3>1, <3>2 DEF Pending, Mismatched, Fills
  <2>3. QED
    BY <2>1, <2>2
<1>3. tree'[t] = tree[t] /\ (tree'[c] = tree[c] \/ (tree[c] = Absent /\ tree'[c] = Dir))
  <2>1. CASE MakeDir(w)
    <3>1. tree' = tree \/ tree' = DirMade(c)
      BY <2>1 DEF MakeDir, Here
    <3>2. QED
      BY <1>1, <3>1 DEF DirMade, Here, Parts, TreeTypes
  <2>2. CASE Check(w)
    BY <2>2 DEF Check
  <2>3. QED
    BY <2>1, <2>2
<1>4. ~WriteOut(w) /\ ~CreateOut(w)
  BY DEF MakeDir, Check, Uploads, At, WriteOut, CreateOut
<1>5. ASSUME NEW n \in {c, t}, IsFile(tree[n]) PROVE tree'[n] = tree[n] /\ data'[tree[n]] = data[tree[n]]
  <2>1. tree'[n] = tree[n] /\ n \in Names
    BY <1>1, <1>3, <1>5 DEF IsFile
  <2>2. QED
    BY <1>4, <1>5, <2>1, WorkerData DEF Here
<1>6. ASSUME NEW v \in Workers, Pending(v, p) PROVE v # w /\ Still(v) /\ Pending(v, p)'
  <2>1. v # w /\ Still(v)
    BY <1>2, <1>6 DEF Here
  <2>2. QED
    BY <1>6, <2>1 DEF Pending, Still
<1>7. AllStale(p)
  <2> SUFFICES ASSUME NEW v \in Workers, Pending(v, p) PROVE Stale(v, p)
    BY DEF AllStale
  <2>1. Stale(v, p)' /\ Still(v)
    BY <1>6 DEF AllStale
  <2>2. QED
    BY <2>1 DEF Stale, Still, Here
<1>8. /\ Owned(p) /\ NewTemp(p)
      /\ \/ \E v \in Workers : Pending(v, p) \/ Mismatched(v, p)
         \/ Content(c) = x
  BY <1>7 DEF Updated, Here
<1>9. Owned(p)'
  <2> SUFFICES ASSUME NEW v \in Workers, out'[v] \in Inodes, out'[v] = tree'[c]
               PROVE  dst'[v] = c
    BY DEF Owned
  <2>1. v # w /\ tree'[c] = tree[c]
    BY <1>2, <1>3, LocalAssumption
  <2>2. QED
    BY <1>8, <2>1 DEF Owned, Here, Still
<1>10. NewTemp(p)'
  <2>1. IsFile(tree[t]) => data'[tree[t]] = data[tree[t]]
    BY <1>5
  <2>2. out'[w] = tree[t] => FALSE
    BY <1>1, <1>2, LocalAssumption DEF Here, Parts, TreeTypes
  <2>3. QED
    BY <1>2, <1>3, <1>8, <2>1, <2>2, NewTempFrame
<1>11. Hash(c)' = Hash(c)
  BY <1>3, <1>5 DEF Hash, IsFile
<1>12. CASE \E v \in Workers : Pending(v, p) \/ Mismatched(v, p)
  <2>1. PICK v \in Workers : Pending(v, p) \/ Mismatched(v, p)
    BY <1>12
  <2>2. v # w /\ Still(v)
    BY <1>2, <2>1 DEF Here
  <2>3. Pending(v, p)' \/ Mismatched(v, p)'
    BY <1>11, <2>1, <2>2 DEF Pending, Mismatched, Still
  <2>4. QED
    BY <1>9, <1>10, <2>3
<1>13. CASE Content(c) = x
  <2>1. tree[c] # Absent
    BY <1>13, SourceIsFile, FileAssumption DEF Content, IsFile
  <2>2. Content(c)' = Content(c)
    BY <1>3, <1>5, <2>1 DEF Content
  <2>3. QED
    BY <1>9, <1>10, <1>13, <2>2 DEF Here
<1>14. QED
  BY <1>8, <1>12, <1>13

\* No step of its own worker breaks what is promised of a path.
LEMMA UpdatedHere ==
    ASSUME Parts, NEW p \in Paths, Updated(p), NEW w \in Workers, Worker(w),
           p \in Touches(task[w])
    PROVE  Updated(p)'
<1> SUFFICES ASSUME p \notin unsettled', IsFile(tree'[Source(p)])
             PROVE  Updated(p)'
  BY DEF Updated
<1>1. Here(w, p)
  BY ComesHere
<1>2. task'[w] = task[w] \/ task'[w] = NoTask
  BY <1>1 DEF Here, Ends
<1>3. \A v \in Workers : p \in Touches(task'[v]) => task'[v].type = "UPDATE"
  BY <1>1, <1>2 DEF Here, Still, Updated, Touches
<1>4. \A v \in Workers : dst'[v] = Current(p) /\ in'[v] # NotOpen =>
         in'[v] \in {tree'[Source(p)], Dir}
  <2>1. ASSUME dst'[w] = Current(p), in'[w] # NotOpen
        PROVE  in'[w] \in {tree'[Source(p)], Dir}
    <3>1. CASE OpenIn(w)
      <4>1. From(w) = Source(p)
        BY <1>1, <2>1, <3>1 DEF OpenIn, From, Here
      <4>2. QED
        BY <1>1, <3>1, <4>1 DEF OpenIn, Here, Parts, TreeTypes
    <3>2. CASE CreateOut(w)
      BY <1>1, <2>1, <3>2 DEF CreateOut, Here, Updated
    <3>3. CASE ~OpenIn(w) /\ ~CreateOut(w)
      <4>1. OnlyCloses
        BY <1>1, <3>3, WorkerCloses DEF Here, Parts
      <4>2. in'[w] \in Inodes \cup {Dir}
        BY <1>1, <2>1 DEF Here, Parts, TreeTypes
      <4>3. in'[w] \in Inodes => in[w] = in'[w] /\ dst[w] = Current(p) /\ in[w] # NotOpen
        BY <2>1, <4>1 DEF OnlyCloses
      <4>4. QED
        BY <1>1, <4>2, <4>3 DEF Here, Updated
    <3>4. QED
      BY <3>1, <3>2, <3>3
  <2>2. QED
    BY <1>1, <2>1 DEF Here, Still, Updated
<1>5. ASSUME AllStale(p)'
      PROVE  /\ Owned(p)' /\ NewTemp(p)'
             /\ \/ \E v \in Workers : Pending(v, p)' \/ Mismatched(v, p)'
                \/ Content(Current(p))' = Content(Source(p))'
  <2>1. MakeDir(w) \/ ~task[w].dir
    <3>1. pc[w] \in {"start", "upload"} \/ ~task[w].dir
      <4>1. pc[w] \in Labels /\ pc[w] \notin {"idle", "trash"}
        BY <1>1 DEF Here, Parts, WorkTypes, Where
      <4>2. QED
        BY <1>1, <4>1 DEF Here, Parts, Where, Labels
    <3>2. QED
      BY <1>1, <3>1
         DEF Here, Worker, DeleteNothing, DeleteStamp, DeleteMove, RenameMoves, RenameFails,
             SourceGone, SourceThere, NotPrepared, Backup, HashSource, OpenIn, CreateOut, ReadIn,
             WriteOut, CloseBoth, CopyError, RenameTemp, RenameTempFails, UnlinkTemp, Check,
             Uploads, At
  <2>2. \/ MakeDir(w)
        \/ Check(w) /\ Succeed(w)
        \/ /\ OpenIn(w) \/ CreateOut(w) \/ ReadIn(w) \/ WriteOut(w) \/ CloseBoth(w)
           /\ dst[w] = Current(p)
        \/ RenameTemp(w) /\ dst[w] = Current(p)
    <3> SUFFICES ASSUME ~MakeDir(w), ~(Check(w) /\ Succeed(w))
                 PROVE  \/ /\ OpenIn(w) \/ CreateOut(w) \/ ReadIn(w) \/ WriteOut(w)
                                \/ CloseBoth(w)
                           /\ dst[w] = Current(p)
                        \/ RenameTemp(w) /\ dst[w] = Current(p)
      OBVIOUS
    <3>1. /\ ~SourceThere(w) /\ ~Backup(w) /\ ~HashSource(w) /\ ~CopyError(w)
          /\ ~RenameTempFails(w) /\ ~Fail(w)
      BY <1>1, <1>5, <2>1, NotStale
    <3>2. /\ ~DeleteNothing(w) /\ ~DeleteStamp(w) /\ ~DeleteMove(w) /\ ~RenameMoves(w)
          /\ ~RenameFails(w) /\ ~SourceGone(w)
      BY <1>1 DEF Here, DeleteNothing, DeleteStamp, DeleteMove, RenameMoves, RenameFails,
                  SourceGone, At, Parts, Where
    <3>3. ~NotPrepared(w) /\ ~UnlinkTemp(w) /\ ~Check(w)
      BY <3>1 DEF NotPrepared, UnlinkTemp, Check
    <3>4. OpenIn(w) \/ CreateOut(w) \/ ReadIn(w) \/ WriteOut(w) \/ CloseBoth(w) \/ RenameTemp(w)
      BY <3>1, <3>2, <3>3 DEF Worker
    <3>5. dst[w] = Current(p)
      BY <1>1, <1>5, <2>1, <3>4, NotStale
    <3>6. QED
      BY <3>4, <3>5
  <2>3. CASE MakeDir(w) \/ (Check(w) /\ Succeed(w))
    BY <1>1, <1>5, <2>3, EndHere
  <2>4. CASE /\ OpenIn(w) \/ CreateOut(w) \/ ReadIn(w) \/ WriteOut(w) \/ CloseBoth(w)
             /\ dst[w] = Current(p)
    BY <1>1, <1>5, <2>4, CopyHere
  <2>5. CASE RenameTemp(w) /\ dst[w] = Current(p)
    BY <1>1, <2>5, RenameHere
  <2>6. QED
    BY <2>2, <2>3, <2>4, <2>5
<1>6. QED
  BY <1>3, <1>4, <1>5 DEF Updated
-----------------------------------------------------------------------------
(* The theorems *)

\* The invariant holds at first and every step keeps it.
THEOREM Inductive == Spec => []IInv
<1>1. Init => IInv
  <2> SUFFICES ASSUME Init PROVE IInv
    OBVIOUS
  <2>1. Parts
    BY InitParts
  <2>2. ASSUME NEW p \in Paths PROVE Updated(p) /\ Removed(p)
    <3>1. /\ IsFile(tree[Source(p)]) => Content(Current(p)) = Content(Source(p))
          /\ tree[Source(p)] = Absent => tree[Current(p)] = Absent
          /\ tree[Temp(Current(p))] = Absent
      BY InitFiles DEF TempNames
    <3>2. \A w \in Workers : task[w] = NoTask /\ dst[w] = NoName /\ out[w] = NotOpen
      BY DEF Init
    <3>3. Current(p) # NoName /\ NotOpen \notin Inodes
      BY NamesDiffer, LocalAssumption
    <3>4. QED
      BY <3>1, <3>2, <3>3 DEF Updated, Removed, Owned, NewTemp, Touches
  <2>3. QED
    BY <2>1, <2>2 DEF Parts, IInv
<1>2. IInv /\ [Next]_vars => IInv'
  <2> SUFFICES ASSUME IInv, [Next]_vars PROVE IInv'
    OBVIOUS
  <2>1. Parts /\ Parts' /\ \A p \in Paths : Updated(p) /\ Removed(p)
    BY PartsKept DEF IInv, Parts
  <2>2. ASSUME NEW p \in Paths PROVE Updated(p)' /\ Removed(p)'
    <3>1. Updated(p) /\ Removed(p)
      BY <2>1
    <3>2. CASE User
      <4>1. PICK q \in Paths :
               UserRemove(q) \/ UserMakeDir(q) \/ \E x \in UserFiles : UserWrite(q, x)
        BY <3>2, LocalAssumption DEF User
      <4>2. QED
        BY <2>1, <3>1, <4>1, UserKeeps
    <3>3. CASE Kill
      BY <2>1, <3>1, <3>3, KillKeeps
    <3>4. CASE \E w \in Workers, t \in Tasks : Take(w, t)
      BY <2>1, <3>1, <3>4, TakeKeeps
    <3>5. CASE \E w \in Workers : Worker(w)
      <4>1. PICK w \in Workers : Worker(w)
        BY <3>5
      <4>2. CASE p \in Touches(task[w])
        BY <2>1, <3>1, <4>1, <4>2, UpdatedHere, RemovedHere
      <4>3. CASE p \notin Touches(task[w])
        BY <2>1, <3>1, <4>1, <4>3, WorkerElsewhere
      <4>4. QED
        BY <4>2, <4>3
    <3>6. CASE UNCHANGED vars
      BY <3>1, <3>6
         DEF vars, workerVars, copyVars, auxVars, Updated, Removed, AllStale, Pending, Stale, Owned,
             NewTemp, Fills, Mismatched, Content, Hash
    <3>7. QED
      BY <3>2, <3>3, <3>4, <3>5, <3>6 DEF Next
  <2>3. QED
    BY <2>1, <2>2 DEF IInv, Parts
<1>3. QED
  BY <1>1, <1>2, PTL DEF Spec

\* Every variable keeps its type, and data has the contents of exactly the inodes that
\* have a name or are open.
THEOREM TypeCorrect == Spec => []TypeOK
<1>1. IInv => TypeOK
  BY DEF IInv, TreeTypes, DataTypes, WorkTypes, Distinct, Holds, TypeOK
<1>2. QED
  BY <1>1, Inductive, PTL

\* No .syncing stays behind, however many workers make, rename and remove one, unless the
\* process is killed.
THEOREM NoTempLeftBehind == Spec => []NoTempLeft
<1>1. IInv => NoTempLeft
  <2> SUFFICES ASSUME IInv, ~killed, NEW p \in Paths, NEW n \in {Current(p), Version(p)},
                      tree[Temp(n)] # Absent
               PROVE  Busy(p)
    BY DEF NoTempLeft
  <2>1. PICK w \in Workers : dst[w] = n /\ pc[w] \in {"read", "write", "rename", "unlink"}
    BY DEF IInv, TempHeld
  <2>2. Path(w) \in Paths /\ Path(w) \in Touches(task[w])
    BY <2>1, TaskFields DEF IInv
  <2>3. n \in {Current(Path(w)), Version(Path(w))}
    BY <2>1 DEF IInv, Where
  <2>4. Path(w) = p
    BY <2>2, <2>3, NamesDiffer
  <2>5. QED
    BY <2>2, <2>4 DEF Busy
<1>2. QED
  BY <1>1, Inductive, PTL

\* Once every task of a path has ended well the backup has what the source has.
THEOREM QuietSynced == Spec => []QuietIsSynced
<1>1. IInv => QuietIsSynced
  <2> SUFFICES ASSUME IInv, NEW p \in Paths, ~Busy(p), p \notin unsettled, tree[Source(p)] # Dir
               PROVE  Content(Current(p)) = Content(Source(p))
    BY DEF QuietIsSynced
  <2>1. \A w \in Workers : p \notin Touches(task[w])
    BY DEF Busy
  <2>2. Updated(p) /\ Removed(p)
    BY DEF IInv
  <2>3. CASE IsFile(tree[Source(p)])
    <3>1. AllStale(p) /\ \A w \in Workers : ~Pending(w, p) /\ ~Mismatched(w, p)
      BY <2>1 DEF AllStale, Pending, Mismatched
    <3>2. QED
      BY <2>2, <2>3, <3>1 DEF Updated
  <2>4. CASE tree[Source(p)] = Absent
    BY <2>1, <2>2, <2>4 DEF Removed, Content, IsFile
  <2>5. QED
    BY <2>3, <2>4 DEF IsFile
<1>2. QED
  BY <1>1, Inductive, PTL
=============================================================================

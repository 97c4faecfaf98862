----------------------------- MODULE LocalSync -----------------------------
(***************************************************************************)
(* src/transfer.c, sync_task_local, over the calls of src/file_utils.c:    *)
(* the workers of a client change one backup tree without any lock.  Each  *)
(* system call is a step of its own, and names are links to inodes, so     *)
(* that a descriptor outlives its name and two workers can have the same   *)
(* .syncing file open.                                                     *)
(*                                                                         *)
(* As in RemoteSync a worker may take any task, stale ones included, and   *)
(* keeps it for its retries.  Hashing a file and a change by the user are  *)
(* one step each.  All stamps are of one second: other stamps only keep    *)
(* apart what workers would share.  Metadata and EXDEV are left out: a     *)
(* backup is one file system.                                              *)
(***************************************************************************)
EXTENDS FileData, FiniteSets

CONSTANTS
    Workers,        \* worker threads
    NoTask,         \* no task
    NotOpen,        \* no descriptor
    NoName,         \* no destination
    Paths, NoPath,  \* rel_path values, and the empty string
    MaxRetry,       \* MAX_RETRY_COUNT
    Kinds,          \* BOUND: the types of task that are taken
    ActivePaths,    \* BOUND: what the user changes; others are only renamed
    UserFiles,      \* BOUND: what the user writes
    FirstTrees,     \* BOUND: what the paths are at first
    MaxWrites,      \* BOUND: changes made by the user
    MaxTasks,       \* BOUND: tasks taken
    MaxFaults       \* BOUND: failing disk operations and kills

VARIABLES
    tree,       \* what each name is: an inode, Absent or Dir
    data,       \* the contents of each inode that has a name or is open
    task,       \* the SyncTask of each worker
    tries,      \* its retry_count
    pc,         \* where each worker is
    dst,        \* where its copy or its trash goes
    in, out,    \* the descriptors of copy_file_plain
    pos, buf,   \* their offset, and the block that was read
    before,     \* the hash of the source
    writes, taken, faults,  \* AUXILIARY: changes, tasks and faults so far
    unsettled,  \* AUXILIARY: paths of which nothing is promised, see Settled
    killed      \* AUXILIARY: the process was killed once

copyVars == <<in, out, pos, buf>>
workerVars == <<task, tries, pc, dst, copyVars, before>>
auxVars == <<writes, taken, faults, unsettled, killed>>
vars == <<tree, data, workerVars, auxVars>>

(***************************************************************************)
(* Names: src_root/<path>, current/<path>, and <path> in the directory of  *)
(* .versions and of .trash; and the temporary files of copy_file_atomic.   *)
(***************************************************************************)
Source(p) == <<"source", p>>
Current(p) == <<"current", p>>
Version(p) == <<"versions", p>>
Trash(p) == <<"trash", p>>
Temp(n) == <<IF n[1] = "current" THEN "current.syncing" ELSE "versions.syncing", n[2]>>

Names == {"source", "current", "versions", "trash", "current.syncing",
          "versions.syncing"} \X Paths

\* BOUND: every inode has a name or is open.
Inodes == 1 .. Cardinality(Names) + 2 * Cardinality(Workers)

Content(n) == IF IsFile(tree[n]) THEN data[tree[n]] ELSE tree[n]
Hash(n) == IF IsFile(tree[n]) THEN data[tree[n]] ELSE NoHash

Tasks ==
    [type : {"UPDATE", "DELETE"}, path : Paths, old : {NoPath}, dir : BOOLEAN]
      \cup [type : {"RENAME"}, path : Paths, old : Paths, dir : BOOLEAN]

ASSUME LocalAssumption ==
    /\ IsFiniteSet(Workers) /\ IsFiniteSet(Paths)
    /\ NoPath \notin Paths /\ NoTask \notin Tasks /\ NoName \notin Names
    /\ {Absent, Dir} \cap Inodes = {} /\ NotOpen \notin Inodes \cup {Absent, Dir}
    /\ MaxRetry \in Nat /\ MaxWrites \in Nat /\ MaxTasks \in Nat /\ MaxFaults \in Nat
    /\ Kinds \subseteq {"UPDATE", "DELETE", "RENAME"}
    /\ ActivePaths \subseteq Paths
    /\ FirstTrees \subseteq [Paths -> UserFiles \cup {Absent, Dir}]
    /\ UserFiles \subseteq UNION {[1 .. n -> Blocks] : n \in 0 .. MaxBlocks}

\* start: in sync_task_local; upload: past the rename; then backup_old_version
\* and the hash of the source; open .. rename: in copy_file_atomic; unlink: on
\* its error path; check: comparing the hashes; trash: in move_to_trash.
Labels == {"idle", "start", "upload", "backup", "hash", "open", "create", "read",
           "write", "rename", "unlink", "check", "trash"}

TypeOK ==
    /\ tree \in [Names -> Inodes \cup {Absent, Dir}]
    /\ \A n, m \in Names : IsFile(tree[n]) /\ tree[n] = tree[m] => n = m
    /\ data \in [DOMAIN data -> Files]
    /\ DOMAIN data = {i \in Inodes : \/ \E n \in Names : tree[n] = i
                                     \/ \E w \in Workers : i \in {in[w], out[w]}}
    /\ task \in [Workers -> Tasks \cup {NoTask}]
    /\ tries \in [Workers -> 0 .. MaxRetry]
    /\ pc \in [Workers -> Labels]
    /\ \A w \in Workers :
         /\ task[w] = NoTask <=> pc[w] = "idle"
         /\ dst[w] # NoName <=>
              pc[w] \in {"open", "create", "read", "write", "rename", "unlink",
                         "check", "trash"}
         /\ out[w] # NotOpen <=> pc[w] \in {"read", "write"}
         /\ in[w] # NotOpen <=> pc[w] \in {"create", "read", "write"}
    /\ dst \in [Workers -> Names \cup {NoName}]
    /\ in \in [Workers -> Inodes \cup {Dir, NotOpen}]
    /\ out \in [Workers -> Inodes \cup {NotOpen}]
    /\ pos \in [Workers -> 0 .. MaxBlocks]
    /\ buf \in [Workers -> Blocks \cup {Hole}]
    /\ before \in [Workers -> Hashes]
    /\ writes \in 0 .. MaxWrites /\ taken \in 0 .. MaxTasks /\ faults \in 0 .. MaxFaults
    /\ unsettled \subseteq Paths
    /\ killed \in BOOLEAN

-----------------------------------------------------------------------------
(* The file system *)

Live == Inodes \cap ({tree[n] : n \in Names}
                       \cup {in[w] : w \in Workers} \cup {out[w] : w \in Workers})

\* An inode goes with its last name and descriptor.
DataBecomes(d) == data' = [i \in Live' |-> d[i]]

NewInode == CHOOSE i \in Inodes : i \notin DOMAIN data
WithFile(i, x) == [k \in DOMAIN data \cup {i} |-> IF k = i THEN x ELSE data[k]]

Moved(from, to) == [tree EXCEPT ![from] = Absent, ![to] = tree[from]]

\* ensure_dir_exists: mkdir succeeds over a file, too, and leaves it.
DirMade(n) == [tree EXCEPT ![n] = IF @ = Absent THEN Dir ELSE @]

DiskFails == faults < MaxFaults /\ faults' = faults + 1
DiskWorks == UNCHANGED faults

-----------------------------------------------------------------------------
(* The user *)

MayChange(p) ==
    /\ writes < MaxWrites /\ writes' = writes + 1
    /\ unsettled' = unsettled \cup {p}
    /\ UNCHANGED <<workerVars, taken, faults, killed>>

\* A file is rewritten in place: who has it open sees the change.
UserWrite(p, x) ==
    /\ MayChange(p)
    /\ tree[Source(p)] # Dir /\ Content(Source(p)) # x
    /\ LET i == IF tree[Source(p)] = Absent THEN NewInode ELSE tree[Source(p)] IN
         /\ tree' = [tree EXCEPT ![Source(p)] = i]
         /\ data' = WithFile(i, x)

UserRemove(p) ==
    /\ MayChange(p)
    /\ tree[Source(p)] # Absent
    /\ tree' = [tree EXCEPT ![Source(p)] = Absent]
    /\ DataBecomes(data)

UserMakeDir(p) ==
    /\ MayChange(p)
    /\ tree[Source(p)] = Absent
    /\ tree' = [tree EXCEPT ![Source(p)] = Dir]
    /\ UNCHANGED data

User == \E p \in ActivePaths :
            UserRemove(p) \/ UserMakeDir(p) \/ \E x \in UserFiles : UserWrite(p, x)

-----------------------------------------------------------------------------
(* The life of a task *)

At(w, l) == pc[w] = l
GoTo(w, l) == pc' = [pc EXCEPT ![w] = l]
Path(w) == task[w].path
Touches(t) == IF t = NoTask THEN {} ELSE {t.path, t.old} \ {NoPath}

(***************************************************************************)
(* A path is unsettled from a change of the source until a task that fits  *)
(* the change is taken, and again when a task is given up or killed.  Two  *)
(* workers that delete and update one path at a time, or anything with a   *)
(* rename, leave what the last of them did: nothing is promised of that.   *)
(* Nor is it while a worker still copies a file that the user has removed: *)
(* it may rename that copy over a newer one, and its hashes agree.         *)
(***************************************************************************)
Clashes(w, t) ==
    \E v \in Workers \ {w} : /\ Touches(task[v]) \cap Touches(t) # {}
                             /\ {task[v].type, t.type} # {"UPDATE"}
CopiesRemoved(p) ==
    \E v \in Workers : /\ dst[v] = Current(p) /\ in[v] \in Inodes
                      /\ \A n \in Names : tree[n] # in[v]
Settled(w, t) ==
    /\ ~Clashes(w, t) /\ ~CopiesRemoved(t.path)
    /\ \/ t.type = "UPDATE" /\ IsFile(tree[Source(t.path)])
       \/ t.type = "DELETE" /\ tree[Source(t.path)] = Absent

\* A worker takes a task that was recorded now, as in RemoteSync.
Take(w, t) ==
    /\ At(w, "idle") /\ taken < MaxTasks
    /\ t.type \in Kinds /\ t.path \in ActivePaths
    /\ t.type = "UPDATE" => tree[Source(t.path)] # Absent
    /\ t.type = "DELETE" => ~t.dir
    /\ t.type # "DELETE" => (t.dir <=> tree[Source(t.path)] = Dir)
    /\ t.type = "RENAME" => t.old # t.path
    /\ taken' = taken + 1
    /\ unsettled' = IF Settled(w, t) THEN unsettled \ {t.path}
                    ELSE unsettled \cup Touches(t)
    /\ task' = [task EXCEPT ![w] = t]
    /\ GoTo(w, "start")
    /\ UNCHANGED <<tree, data, tries, dst, copyVars, before, writes, faults,
                   killed>>

\* Every descriptor is closed.
Reset(W) ==
    /\ dst' = [w \in Workers |-> IF w \in W THEN NoName ELSE dst[w]]
    /\ in' = [w \in Workers |-> IF w \in W THEN NotOpen ELSE in[w]]
    /\ out' = [w \in Workers |-> IF w \in W THEN NotOpen ELSE out[w]]
    /\ pos' = [w \in Workers |-> IF w \in W THEN 0 ELSE pos[w]]
    /\ buf' = [w \in Workers |-> IF w \in W THEN Hole ELSE buf[w]]
    /\ before' = [w \in Workers |-> IF w \in W THEN NoHash ELSE before[w]]

\* requeue_or_fail
RetryOrGiveUp(w) ==
    IF tries[w] < MaxRetry
    THEN /\ tries' = [tries EXCEPT ![w] = @ + 1]
         /\ GoTo(w, "start")
         /\ UNCHANGED <<task, unsettled>>
    ELSE /\ tries' = [tries EXCEPT ![w] = 0]
         /\ GoTo(w, "idle")
         /\ task' = [task EXCEPT ![w] = NoTask]
         /\ unsettled' = unsettled \cup Touches(task[w])

\* sync_task_local returns -1, or 0; the tree is for the caller to say.
Fail(w) ==
    /\ RetryOrGiveUp(w)
    /\ Reset({w})
    /\ DataBecomes(data)
    /\ UNCHANGED <<writes, taken, killed>>

Succeed(w) ==
    /\ tries' = [tries EXCEPT ![w] = 0]
    /\ GoTo(w, "idle")
    /\ task' = [task EXCEPT ![w] = NoTask]
    /\ Reset({w})
    /\ DataBecomes(data)
    /\ UNCHANGED <<writes, taken, unsettled, killed>>

\* The transfer process is killed; its files stay as they are.
Kill ==
    /\ DiskFails
    /\ \E w \in Workers : ~At(w, "idle")
    /\ task' = [w \in Workers |-> NoTask]
    /\ tries' = [w \in Workers |-> 0]
    /\ pc' = [w \in Workers |-> "idle"]
    /\ Reset(Workers)
    /\ unsettled' = unsettled \cup UNION {Touches(task[w]) : w \in Workers}
    /\ killed' = TRUE
    /\ UNCHANGED <<tree, writes, taken>>
    /\ DataBecomes(data)

\* A step that only moves the worker on.
Quiet == UNCHANGED <<task, tries, auxVars>>

-----------------------------------------------------------------------------
(* Deletes, renames and directories *)

\* move_to_trash: nothing to delete is a success.
DeleteNothing(w) ==
    /\ At(w, "start") /\ task[w].type = "DELETE"
    /\ tree[Current(Path(w))] = Absent
    /\ UNCHANGED <<tree, faults>>
    /\ Succeed(w)

DeleteStamp(w) ==
    /\ At(w, "start") /\ task[w].type = "DELETE"
    /\ tree[Current(Path(w))] # Absent
    /\ dst' = [dst EXCEPT ![w] = Trash(Path(w))]
    /\ GoTo(w, "trash")
    /\ Quiet /\ UNCHANGED <<tree, data, copyVars, before>>

DeleteMove(w) ==
    /\ At(w, "trash")
    /\ LET from == Current(Path(w)) IN
         \/ /\ CanRename(tree[from], tree[dst[w]]) /\ DiskWorks
            /\ tree' = Moved(from, dst[w])
            /\ Succeed(w)
         \/ /\ \/ ~CanRename(tree[from], tree[dst[w]]) /\ DiskWorks
               \/ DiskFails
            /\ UNCHANGED tree
            /\ Fail(w)

\* Both ends are in current/; when it fails the new path is synchronised.
RenameMoves(w) ==
    /\ At(w, "start") /\ task[w].type = "RENAME"
    /\ CanRename(tree[Current(task[w].old)], tree[Current(Path(w))])
    /\ tree' = Moved(Current(task[w].old), Current(Path(w)))
    /\ DiskWorks
    /\ Succeed(w)

RenameFails(w) ==
    /\ At(w, "start") /\ task[w].type = "RENAME"
    /\ \/ ~CanRename(tree[Current(task[w].old)], tree[Current(Path(w))]) /\ DiskWorks
       \/ DiskFails
    /\ GoTo(w, "upload")
    /\ UNCHANGED <<tree, data, task, tries, dst, copyVars, before, writes,
                   taken, unsettled, killed>>

Uploads(w) == At(w, "upload") \/ (At(w, "start") /\ task[w].type = "UPDATE")

MakeDir(w) ==
    /\ Uploads(w) /\ task[w].dir
    /\ \/ tree' = DirMade(Current(Path(w))) /\ DiskWorks /\ Succeed(w)
       \/ UNCHANGED tree /\ DiskFails /\ Fail(w)

-----------------------------------------------------------------------------
(* sync_local_file *)

\* "source disappeared" is a success.
SourceGone(w) ==
    /\ Uploads(w) /\ ~task[w].dir
    /\ ~IsFile(tree[Source(Path(w))])
    /\ UNCHANGED <<tree, faults>>
    /\ Succeed(w)

SourceThere(w) ==
    /\ Uploads(w) /\ ~task[w].dir
    /\ IsFile(tree[Source(Path(w))])
    /\ GoTo(w, "backup")
    /\ Quiet /\ UNCHANGED <<tree, data, dst, copyVars, before>>

\* The file cannot be opened or is "busy", locked by another process; or the
\* version of a directory cannot be made.
NotPrepared(w) ==
    /\ \/ Uploads(w) /\ ~task[w].dir /\ IsFile(tree[Source(Path(w))])
       \/ At(w, "backup") /\ tree[Current(Path(w))] = Dir
    /\ DiskFails
    /\ UNCHANGED tree
    /\ Fail(w)

\* backup_old_version as far as its copy.
Backup(w) ==
    /\ At(w, "backup")
    /\ LET old == tree[Current(Path(w))]
           version == Version(Path(w))
       IN  /\ GoTo(w, IF IsFile(old) THEN "open" ELSE "hash")
           /\ dst' = [dst EXCEPT ![w] = IF IsFile(old) THEN version ELSE NoName]
           /\ tree' = IF old = Dir THEN DirMade(version) ELSE tree
    /\ Quiet /\ UNCHANGED <<data, copyVars, before>>

HashSource(w) ==
    /\ At(w, "hash")
    /\ before' = [before EXCEPT ![w] = Hash(Source(Path(w)))]
    /\ dst' = [dst EXCEPT ![w] = Current(Path(w))]
    /\ GoTo(w, "open")
    /\ Quiet /\ UNCHANGED <<tree, data, copyVars>>

-----------------------------------------------------------------------------
(* copy_file_atomic: of the version from current/, of current/ from the source *)

From(w) == IF dst[w] = Current(Path(w)) THEN Source(Path(w)) ELSE Current(Path(w))

\* MUTANT: the error path forgets close(in).
CopyFailsOpen(w) ==
    /\ GoTo(w, "unlink")
    /\ out' = [out EXCEPT ![w] = NotOpen]
    /\ pos' = [pos EXCEPT ![w] = 0]
    /\ buf' = [buf EXCEPT ![w] = Hole]
    /\ UNCHANGED <<task, tries, dst, in, before, writes, taken, unsettled,
                   killed>>

CopyFails(w) ==
    /\ GoTo(w, "unlink")
    /\ in' = [in EXCEPT ![w] = NotOpen]
    /\ out' = [out EXCEPT ![w] = NotOpen]
    /\ pos' = [pos EXCEPT ![w] = 0]
    /\ buf' = [buf EXCEPT ![w] = Hole]
    /\ UNCHANGED <<task, tries, dst, before, writes, taken, unsettled, killed>>

OpenIn(w) ==
    /\ At(w, "open")
    /\ tree[From(w)] # Absent
    /\ in' = [in EXCEPT ![w] = tree[From(w)]]
    /\ GoTo(w, "create")
    /\ Quiet /\ UNCHANGED <<tree, data, dst, out, pos, buf, before>>

\* O_CREAT and O_TRUNC, whoever has it open.
CreateOut(w) ==
    /\ At(w, "create")
    /\ LET i == IF tree[Temp(dst[w])] = Absent THEN NewInode ELSE tree[Temp(dst[w])] IN
         /\ tree' = [tree EXCEPT ![Temp(dst[w])] = i]
         /\ out' = [out EXCEPT ![w] = i]
         /\ data' = WithFile(i, <<>>)
    /\ GoTo(w, "read")
    /\ Quiet /\ UNCHANGED <<dst, in, pos, buf, before>>

\* A directory can be opened, but not read.
ReadIn(w) ==
    /\ At(w, "read") /\ IsFile(in[w])
    /\ pos[w] < Len(data[in[w]])
    /\ buf' = [buf EXCEPT ![w] = data[in[w]][pos[w] + 1]]
    /\ GoTo(w, "write")
    /\ Quiet /\ UNCHANGED <<tree, data, dst, in, out, pos, before>>

WriteOut(w) ==
    /\ At(w, "write")
    /\ data' = [data EXCEPT ![out[w]] = WrittenInto(@, pos[w], <<buf[w]>>)]
    /\ pos' = [pos EXCEPT ![w] = @ + 1]
    /\ buf' = [buf EXCEPT ![w] = Hole]
    /\ GoTo(w, "read")
    /\ Quiet /\ UNCHANGED <<tree, dst, in, out, before>>

CloseBoth(w) ==
    /\ At(w, "read") /\ IsFile(in[w])
    /\ pos[w] >= Len(data[in[w]])
    /\ in' = [in EXCEPT ![w] = NotOpen]
    /\ out' = [out EXCEPT ![w] = NotOpen]
    /\ pos' = [pos EXCEPT ![w] = 0]
    /\ GoTo(w, "rename")
    /\ Quiet /\ UNCHANGED <<tree, dst, buf, before>>
    /\ DataBecomes(data)

\* An open, a read, a write or an fsync fails.
CopyError(w) ==
    /\ \/ At(w, "open") /\ tree[From(w)] = Absent /\ DiskWorks
       \/ At(w, "read") /\ in[w] = Dir /\ DiskWorks
       \/ pc[w] \in {"open", "create", "read", "write"} /\ DiskFails
    /\ CopyFails(w)
    /\ UNCHANGED tree
    /\ DataBecomes(data)

RenameTemp(w) ==
    /\ At(w, "rename")
    /\ CanRename(tree[Temp(dst[w])], tree[dst[w]])
    /\ tree' = Moved(Temp(dst[w]), dst[w])
    /\ IF dst[w] = Current(Path(w))
       THEN GoTo(w, "check") /\ UNCHANGED dst
       ELSE GoTo(w, "hash") /\ dst' = [dst EXCEPT ![w] = NoName]
    /\ Quiet /\ UNCHANGED <<copyVars, before>>
    /\ DataBecomes(data)

\* MUTANT: a .syncing that is gone is taken for renamed by somebody else.
RenameLost(w) ==
    /\ At(w, "rename")
    /\ ~CanRename(tree[Temp(dst[w])], tree[dst[w]]) /\ DiskWorks
    /\ UNCHANGED tree
    /\ Succeed(w)

RenameTempFails(w) ==
    /\ At(w, "rename")
    /\ \/ ~CanRename(tree[Temp(dst[w])], tree[dst[w]]) /\ DiskWorks
       \/ DiskFails
    /\ CopyFails(w)
    /\ UNCHANGED <<tree, data>>

\* MUTANT: the temporary file stays where it is.
TempLeft(w) == tree

TempGone(w) == [tree EXCEPT ![Temp(dst[w])] = Absent]

UnlinkTemp(w) ==
    /\ At(w, "unlink")
    /\ tree' = TempGone(w)
    /\ DiskWorks
    /\ Fail(w)

CopyIsSource(w) == Hash(Current(Path(w))) = before[w]

\* Only now are the hashes compared.
Check(w) ==
    /\ At(w, "check")
    /\ UNCHANGED tree
    /\ DiskWorks
    /\ IF CopyIsSource(w) THEN Succeed(w) ELSE Fail(w)

-----------------------------------------------------------------------------
Worker(w) ==
    \/ DeleteNothing(w) \/ DeleteStamp(w) \/ DeleteMove(w)
    \/ RenameMoves(w) \/ RenameFails(w) \/ MakeDir(w)
    \/ SourceGone(w) \/ SourceThere(w) \/ NotPrepared(w)
    \/ Backup(w) \/ HashSource(w)
    \/ OpenIn(w) \/ CreateOut(w) \/ ReadIn(w) \/ WriteOut(w) \/ CloseBoth(w)
    \/ CopyError(w) \/ RenameTemp(w) \/ RenameTempFails(w) \/ UnlinkTemp(w)
    \/ Check(w)

\* An earlier session has left the backup as the source is.
Init ==
    /\ \E f \in FirstTrees :
         LET i == CHOOSE j \in [Paths -> 1 .. Cardinality(Paths)] :
                     \A p, q \in Paths : j[p] = j[q] => p = q
             copy == [p \in Paths |-> i[p] + Cardinality(Paths)]
             Entry(j, p) == IF IsFile(f[p]) THEN j[p] ELSE f[p]
         IN  /\ tree = [n \in Names |->
                          CASE n[1] = "source" -> Entry(i, n[2])
                            [] n[1] = "current" -> Entry(copy, n[2])
                            [] OTHER -> Absent]
             /\ data = [k \in UNION {{i[p], copy[p]} : p \in {q \in Paths : IsFile(f[q])}} |->
                          f[CHOOSE p \in Paths : k \in {i[p], copy[p]}]]
    /\ task = [w \in Workers |-> NoTask]
    /\ tries = [w \in Workers |-> 0]
    /\ pc = [w \in Workers |-> "idle"]
    /\ dst = [w \in Workers |-> NoName]
    /\ in = [w \in Workers |-> NotOpen] /\ out = [w \in Workers |-> NotOpen]
    /\ pos = [w \in Workers |-> 0] /\ buf = [w \in Workers |-> Hole]
    /\ before = [w \in Workers |-> NoHash]
    /\ writes = 0 /\ taken = 0 /\ faults = 0
    /\ unsettled = {}
    /\ killed = FALSE

Next ==
    \/ \E w \in Workers : Worker(w) \/ \E t \in Tasks : Take(w, t)
    \/ User \/ Kill

Spec == Init /\ [][Next]_vars

-----------------------------------------------------------------------------
(* Properties *)

Busy(p) == \E w \in Workers : p \in Touches(task[w])

\* However two workers truncate, fill, rename and unlink one .syncing, once
\* every task of a path has ended well the backup has what the source has: the
\* worker whose file was spoilt finds out, and its retry repairs it.
QuietIsSynced ==
    \A p \in Paths : ~Busy(p) /\ p \notin unsettled /\ tree[Source(p)] # Dir =>
        Content(Current(p)) = Content(Source(p))

\* No .syncing stays behind unless the process was killed: whoever creates one
\* renames or removes it, or another worker has done so.
NoTempLeft ==
    ~killed => \A p \in Paths : ~Busy(p) =>
        tree[Temp(Current(p))] = Absent /\ tree[Temp(Version(p))] = Absent

\* README.md:74, "the target is first written to .syncing and renamed only after
\* its hash was verified": what is in current/ is a file that the user had.
CurrentIsWhole ==
    \A p \in Paths : IsFile(tree[Current(p)]) => Content(Current(p)) \in UserFiles
=============================================================================

------------------------------ MODULE Monitor ------------------------------
(***************************************************************************)
(* src/monitor.c: the monitor process turns changes of the source tree     *)
(* into tasks, by inotify watches on each directory and by comparing the   *)
(* tree with snapshots whenever a second has passed without an event.      *)
(*                                                                         *)
(* Directories are inodes, as watches stay with them wherever they are     *)
(* moved; what the monitor remembers is paths.  Opening, watching and      *)
(* listing one directory is one step, and so is all that is done for one   *)
(* entry of a list; the user may act between any two of them.              *)
(*                                                                         *)
(* What the tasks are good for is told by replica: the backup of a         *)
(* transfer process in local mode that does each task once and in order.   *)
(*                                                                         *)
(* Left out: failures of opendir and inotify_add_watch other than a path   *)
(* that is gone, the overflow of inotify's own queue, and the times of     *)
(* directories, for which a MODIFY does nothing to a backup that has them. *)
(***************************************************************************)
EXTENDS Naturals, Sequences, FiniteSets

CONSTANTS
    Root, Out,      \* the source directory, and one outside of it
    SubDirs,        \* inodes for directories in either
    RootNames, OutNames, InnerNames,    \* names in Root, in Out, in the others
    Absent, Dir,    \* no entry, and a directory
    NoStat,         \* the zeros of a task whose lstat failed
    NoMove,         \* a cleared MoveRecord
    MaxWatches, MaxSnapshots,   \* MAX_WATCHES, MAX_SNAPSHOTS
    FirstRoots,     \* BOUND: what the source has at first
    Changes,        \* BOUND: the kinds of changes
    MaxChanges      \* BOUND: the number of changes

Dirs == {Root, Out} \cup SubDirs
Names == RootNames \cup InnerNames
\* A file is what it has, and the size, time and mode that lstat tells.
Files == [val : 0 .. MaxChanges, stat : 0 .. MaxChanges]
Entries == Files \cup SubDirs \cup {Absent}
Paths == {<<n>> : n \in RootNames} \cup (RootNames \X InnerNames)
Moves == [cookie : 1 .. MaxChanges, path : Paths, waits : 0 .. 2]

ASSUME MonitorAssumption ==
    /\ MaxWatches \in Nat \ {0} /\ MaxSnapshots \in Nat /\ MaxChanges \in Nat
    /\ Changes \subseteq {"create", "write", "remove", "mkdir", "rename", "leave", "arrive"}
    /\ OutNames \subseteq RootNames
    /\ Root # Out /\ {Root, Out} \cap Entries = {}
    /\ {Absent, Dir} \cap (Files \cup SubDirs) = {} /\ Absent # Dir /\ Files \cap SubDirs = {}
    /\ {NoStat, Dir} \cap (0 .. MaxChanges) = {} /\ NoStat # Dir
    /\ NoMove \notin Moves
    \* A directory has one name.
    /\ \A f \in FirstRoots :
         /\ f \in [Names -> Entries] /\ \A n \in Names \ RootNames : f[n] = Absent
         /\ \A m, n \in RootNames : f[m] = f[n] /\ f[m] \in SubDirs => m = n

VARIABLES
    content,    \* the entries of each directory
    made,       \* the directories that were made so far
    watched,    \* the directories that have a watch in the kernel
    events,     \* inotify's queue
    watchItems, \* watch_items: the path for each watch descriptor
    snapshots,  \* what lstat told of each path
    seen,       \* the snapshots found by the poll that is running
    move,       \* the MoveRecord
    calls,      \* the calls that are running or to be made next
    pending,    \* the updates that wait, and whether they are of directories
    replica,    \* current/ in the backup
    suspect,    \* AUXILIARY: paths of which nothing is promised, see Suspects
    stale,      \* AUXILIARY: paths of which the poll may know nothing, see Astray
    changes     \* AUXILIARY: the number of changes so far

userVars == <<content, made, changes>>
backupVars == <<pending, replica, suspect, stale>>
monitorVars == <<watchItems, snapshots, seen, move, calls, backupVars>>
vars == <<userVars, watched, events, monitorVars>>

-----------------------------------------------------------------------------
(* Paths *)

Parent(p) == IF Len(p) < 2 THEN <<>> ELSE <<p[1]>>
Under(x, p) == x = p \/ Parent(x) = p

\* The entry that a path leads to.
Found(p) ==
    IF p = <<>> THEN Root
    ELSE IF Parent(p) = <<>> THEN content[Root][p[1]]
    ELSE LET d == content[Root][p[1]] IN
         IF d \in SubDirs THEN content[d][p[2]] ELSE Absent

IsFile(e) == e \notin {Absent, Dir} \cup SubDirs
View(p) == LET e == Found(p) IN IF e \in SubDirs THEN Dir ELSE e
StatOf(v) == IF v = Absent THEN NoStat ELSE IF v = Dir THEN Dir ELSE v.stat
Stat(p) == StatOf(View(p))

Listed(d) == {n \in Names : content[d][n] # Absent}

-----------------------------------------------------------------------------
(* The transfer process: updates wait, deletes and renames are done at once *)

\* ensure_dir_exists
WithDir(r, p) == IF p # <<>> /\ r[p] = Absent THEN [r EXCEPT ![p] = Dir] ELSE r
InDir(r, p) == Parent(p) = <<>> \/ r[Parent(p)] = Dir

\* sync_task_local of an update: a directory is made over nothing; a file that
\* is gone is left alone, and a file cannot replace a directory.
Updated(r, p, dir) ==
    LET in == WithDir(r, Parent(p)) IN
    CASE dir -> WithDir(in, p)
      [] ~dir /\ IsFile(View(p)) /\ r[p] # Dir /\ InDir(in, p) -> [in EXCEPT ![p] = View(p)]
      [] OTHER -> r

Deleted(r, S) == [x \in Paths |-> IF \E p \in S : Under(x, p) THEN Absent ELSE r[x]]

CanRename(r, old, p) ==
    /\ r[old] # Absent /\ InDir(r, p) /\ Parent(p) # old
    /\ IF r[old] = Dir THEN r[p] \in {Absent, Dir} /\ \A x \in Paths : Parent(x) = p => r[x] = Absent
       ELSE r[p] # Dir
Renamed(r, old, p) ==
    [x \in Paths |->
       IF x = p THEN r[old]
       ELSE IF Under(x, old) THEN Absent
       ELSE IF Under(x, p) /\ <<old[1], x[2]>> \in Paths /\ Parent(old) = <<>>
       THEN r[<<old[1], x[2]>>]
       ELSE r[x]]

Waiting(S) == [p \in S |-> pending[p]]

SendUpdate(p) ==
    /\ pending' = [x \in DOMAIN pending \cup {p} |-> IF x = p THEN View(p) = Dir ELSE pending[x]]
    /\ UNCHANGED <<replica, suspect>>

(***************************************************************************)
(* What the poll thinks that the backup has of a path, and the paths that  *)
(* go astray from it when tasks change them behind the poll's back: events *)
(* take no snapshots, and a snapshot may be older than what is copied.     *)
(***************************************************************************)
Known(p) == IF p \in DOMAIN snapshots THEN snapshots[p] ELSE NoStat
Agrees(p) == StatOf(replica[p]) = Known(p)
Astray(S) == {x \in Paths : ~Agrees(x)' /\ (x \in stale \/ x \in S)}
Below(S) == {x \in Paths : \E p \in S : Under(x, p)}

(***************************************************************************)
(* A path is suspect from a task that is done on a backup or a source that *)
(* are ahead of it or behind it, until an update of the path is done:      *)
(* a DELETE of what is in the source, a RENAME of an old copy, and a move  *)
(* out of the source of which the monitor has forgotten the first half.    *)
(***************************************************************************)
Suspects(r, S) ==
    suspect \cup {x \in Paths : r[x] # View(x) /\ (r[x] # replica[x] \/ \E p \in S : Under(x, p))}

Forgotten == IF move = NoMove THEN {} ELSE {x \in Paths : Under(x, move.path)}

SendDeletes(S, late) ==
    /\ pending' = Waiting(DOMAIN pending \ S)
    /\ replica' = Deleted(replica, S)
    /\ suspect' = IF late THEN Suspects(replica', S) ELSE suspect
    /\ stale' = Astray(Below(S))

SendRename(old, p) ==
    LET in == WithDir(replica, Parent(p)) IN
    /\ pending' = Waiting(DOMAIN pending \ {old, p})
    /\ replica' = IF CanRename(in, old, p) THEN Renamed(in, old, p)
                  ELSE Updated(in, p, View(p) = Dir)
    /\ suspect' = Suspects(replica', {old, p})
    /\ stale' = Astray(Below({old, p}))
SendUnpairedRename(p) ==
    /\ pending' = Waiting(DOMAIN pending \ {p})
    /\ replica' = Updated(replica, p, View(p) = Dir)
    /\ suspect' = Suspects(replica', {p}) \cup Forgotten
    /\ stale' = Astray(Below({p}))

\* An update has waited long enough.
Flush(p) ==
    /\ p \in DOMAIN pending
    /\ pending' = Waiting(DOMAIN pending \ {p})
    /\ replica' = Updated(replica, p, pending[p])
    /\ suspect' = IF replica'[p] = View(p) THEN suspect \ {p} ELSE suspect
    /\ UNCHANGED <<userVars, watched, events, watchItems, snapshots, seen, move, calls>>
    /\ stale' = Astray(IF Known(p) = Stat(p) THEN {} ELSE {p})

-----------------------------------------------------------------------------
(* The user *)

Event(d, mask, n, dir) == [wd |-> d, mask |-> mask, name |-> n, dir |-> dir, cookie |-> changes + 1]

\* The kernel tells of what happens in a directory that has a watch.
Told(e) == IF e.wd \in watched THEN <<e>> ELSE <<>>

MayChange(kind) ==
    /\ kind \in Changes /\ changes < MaxChanges
    /\ changes' = changes + 1
    /\ UNCHANGED monitorVars

Put(d, n, e) == content' = [content EXCEPT ![d][n] = e]
NamesIn(d) == IF d = Root THEN RootNames ELSE IF d = Out THEN OutNames ELSE InnerNames

\* Directories that the user or the monitor can see.
Live == {Root} \cup (made \cap ({content[Root][n] : n \in RootNames}
                                  \cup {content[Out][n] : n \in OutNames}))

\* Contents are numbered; size and seconds may be those of another file.
NewFiles == [val : {changes + 1}, stat : {0, changes + 1}]

Create(d, n, f) ==
    /\ MayChange("create")
    /\ content[d][n] = Absent
    /\ Put(d, n, f)
    /\ events' = events \o Told(Event(d, "CREATE", n, FALSE))
    /\ UNCHANGED <<made, watched>>

Write(d, n, f) ==
    /\ MayChange("write")
    /\ IsFile(content[d][n])
    /\ Put(d, n, f)
    /\ events' = events \o Told(Event(d, "MODIFY", n, FALSE))
    /\ UNCHANGED <<made, watched>>

\* unlink, or rmdir, which ends the watch of the directory
Remove(d, n) ==
    LET e == content[d][n] IN
    /\ MayChange("remove")
    /\ e # Absent /\ (e \in SubDirs => Listed(e) = {})
    /\ Put(d, n, Absent)
    /\ events' = events \o Told(Event(d, "DELETE", n, e \in SubDirs))
    /\ watched' = watched \ {e}
    /\ UNCHANGED made

MkDir(n) ==
    /\ MayChange("mkdir")
    /\ content[Root][n] = Absent /\ SubDirs # made
    /\ LET i == CHOOSE i \in SubDirs : i \notin made IN
         Put(Root, n, i) /\ made' = made \cup {i}
    /\ events' = events \o Told(Event(Root, "CREATE", n, TRUE))
    /\ UNCHANGED watched

\* rename, onto no entry or a file; a directory stays where directories may be
MoveEntry(d, n, to, m) ==
    LET e == content[d][n] IN
    /\ e # Absent /\ <<d, n>> # <<to, m>>
    /\ IF e \in SubDirs THEN to \in {Root, Out} /\ content[to][m] = Absent
       ELSE content[to][m] \notin SubDirs
    /\ content' = [content EXCEPT ![d][n] = Absent, ![to][m] = e]
    /\ events' = events \o Told(Event(d, "MOVED_FROM", n, e \in SubDirs))
                       \o Told(Event(to, "MOVED_TO", m, e \in SubDirs))
    /\ UNCHANGED <<made, watched>>

RenameEntry(d, n, to, m) ==
    Out \notin {d, to} /\ MayChange("rename") /\ MoveEntry(d, n, to, m)
Leave(d, n, m) == d # Out /\ MayChange("leave") /\ MoveEntry(d, n, Out, m)
Arrive(n, to, m) == to # Out /\ MayChange("arrive") /\ MoveEntry(Out, n, to, m)

User ==
    \E d \in Live : \E n \in NamesIn(d) :
       \/ \E f \in NewFiles : Create(d, n, f) \/ Write(d, n, f)
       \/ Remove(d, n)
       \/ d = Root /\ MkDir(n)
       \/ \E to \in Live : \E m \in NamesIn(to) : RenameEntry(d, n, to, m)
       \/ \E m \in OutNames : Leave(d, n, m) \/ Arrive(m, d, n)

-----------------------------------------------------------------------------
(* Recursive calls *)

\* A call that has no names to do is still to open its directory.
Call(op, p) == [op |-> op, dir |-> p, todo |-> {}]

CallNow(op) == calls # <<>> /\ Head(calls).op = op
Opens(op) == CallNow(op) /\ Head(calls).todo = {}
Visits(op) == CallNow(op) /\ Head(calls).todo # {}
Here == Head(calls).dir

\* The directory has names to visit, or the call is over.
Visiting(names) ==
    calls' = IF names = {} THEN Tail(calls)
             ELSE <<[Head(calls) EXCEPT !.todo = names]>> \o Tail(calls)
\* A name is done after the calls that it leads to.
Visited(n, new) ==
    calls' = LET left == Head(calls).todo \ {n} IN
             new \o (IF left = {} THEN <<>> ELSE <<[Head(calls) EXCEPT !.todo = left]>>)
                 \o Tail(calls)

\* add_watch_recursive and scan_directory_and_emit_tasks
WatchAndScan(p) == <<Call("watch", p), Call("scan", p)>>

IsDirectory(p) == Found(p) \in SubDirs \cup {Root}

\* MUTANT: the table is not seen to be full.
ItemAlways(i, p) == [k \in DOMAIN watchItems \cup {i} |-> IF k = i THEN p ELSE watchItems[k]]

\* add_watch_item: a known descriptor gets its new path; a full table stays.
ItemAdded(i, p) ==
    IF i \in DOMAIN watchItems \/ Cardinality(DOMAIN watchItems) < MaxWatches
    THEN [k \in DOMAIN watchItems \cup {i} |-> IF k = i THEN p ELSE watchItems[k]]
    ELSE watchItems

\* Only Root has directories in it.
WatchDir ==
    /\ Opens("watch")
    /\ IF IsDirectory(Here)
       THEN /\ watched' = watched \cup {Found(Here)}
            /\ watchItems' = ItemAdded(Found(Here), Here)
            /\ Visiting(IF Here = <<>> THEN Listed(Root) ELSE {})
       ELSE Visiting({}) /\ UNCHANGED <<watched, watchItems>>
    /\ UNCHANGED <<userVars, events, snapshots, seen, move, backupVars>>

WatchEntry ==
    /\ Visits("watch")
    /\ \E n \in Head(calls).todo :
         LET p == Append(Here, n) IN
         Visited(n, IF IsDirectory(p) THEN <<Call("watch", p)>> ELSE <<>>)
    /\ UNCHANGED <<userVars, watched, events, watchItems, snapshots, seen, move, backupVars>>

\* scan_directory_and_emit_tasks, poll_scan_path: opendir and readdir
ListDir ==
    /\ Opens("scan") \/ Opens("poll")
    /\ Visiting(IF IsDirectory(Here) THEN Listed(Found(Here)) ELSE {})
    /\ UNCHANGED <<userVars, watched, events, watchItems, snapshots, seen, move, backupVars>>

\* snapshot_update_from_task, in a slot that is free or has the path already
Slot(p) == p \in DOMAIN snapshots \/ Cardinality(DOMAIN snapshots) < MaxSnapshots
\* MUTANT: a snapshot that exists is not updated.
FirstSnapshotOf(p) ==
    [x \in DOMAIN snapshots \cup {p} |-> IF x \in DOMAIN snapshots THEN snapshots[x] ELSE Stat(p)]

SnapshotOf(p) ==
    [x \in DOMAIN snapshots \cup {p} |-> IF x = p THEN Stat(p) ELSE snapshots[x]]

\* A task is sent even when the entry is gone.
ScanEntry ==
    /\ Visits("scan")
    /\ \E n \in Head(calls).todo :
         LET p == Append(Here, n) IN
         /\ SendUpdate(p)
         /\ snapshots' = IF Slot(p) THEN SnapshotOf(p) ELSE snapshots
         /\ stale' = IF Slot(p) THEN stale \ {p} ELSE stale
         /\ Visited(n, IF IsDirectory(p) THEN WatchAndScan(p) ELSE <<>>)
    /\ UNCHANGED <<userVars, watched, events, watchItems, seen, move>>

SeenNow(p) == IF Slot(p) THEN seen \cup {p} ELSE seen

\* MUTANT: the poll looks only at entries it knows.
PollsKnown(p) == p \in DOMAIN snapshots /\ snapshots[p] # Stat(p)

PollEmits(p) ==
    IF p \in DOMAIN snapshots THEN snapshots[p] # Stat(p) ELSE Slot(p)

PollEntry ==
    /\ Visits("poll")
    /\ \E n \in Head(calls).todo :
         LET p == Append(Here, n) IN
         /\ IF PollEmits(p)
            THEN SendUpdate(p) /\ snapshots' = SnapshotOf(p) /\ stale' = stale \ {p}
            ELSE UNCHANGED <<backupVars, snapshots>>
         /\ seen' = SeenNow(p)
         /\ Visited(n, IF IsDirectory(p) THEN <<Call("poll", p)>> ELSE <<>>)
    /\ UNCHANGED <<userVars, watched, events, watchItems, move>>

\* poll_scan_and_emit_changes: a DELETE for each snapshot that was not found
PollDeletes ==
    /\ CallNow("deletes")
    /\ snapshots' = [p \in DOMAIN snapshots \cap seen |-> snapshots[p]]
    /\ SendDeletes(DOMAIN snapshots \ seen, FALSE)
    /\ seen' = {}
    /\ calls' = Tail(calls)
    /\ UNCHANGED <<userVars, watched, events, watchItems, move>>

-----------------------------------------------------------------------------
(* The loop of monitor_process *)

Selecting == calls = <<>>

\* handle_event.  Events of a directory that is in no item are ignored.
Handles(mask) ==
    /\ Selecting /\ events # <<>>
    /\ Head(events).mask = mask /\ Head(events).wd \in DOMAIN watchItems
    /\ events' = Tail(events)
    /\ UNCHANGED <<userVars, watched, watchItems, snapshots, seen>>
EventDir == watchItems[Head(events).wd]
EventPath == Append(EventDir, Head(events).name)

Ignored ==
    /\ Selecting /\ events # <<>>
    /\ Head(events).wd \notin DOMAIN watchItems
    /\ events' = Tail(events)
    /\ UNCHANGED <<userVars, watched, monitorVars>>

\* Whatever the record had is forgotten.
MovedFrom ==
    /\ Handles("MOVED_FROM")
    /\ move' = [cookie |-> Head(events).cookie, path |-> EventPath, waits |-> 0]
    /\ suspect' = suspect \cup Forgotten
    /\ UNCHANGED <<calls, pending, replica, stale>>

\* MUTANT: a directory that appears is not scanned.
OnlyWatched == IF Head(events).dir THEN <<Call("watch", EventPath)>> ELSE <<>>

NewDirCalls == IF Head(events).dir THEN WatchAndScan(EventPath) ELSE <<>>

MovedTo ==
    /\ Handles("MOVED_TO")
    /\ IF move # NoMove /\ move.cookie = Head(events).cookie
       THEN SendRename(move.path, EventPath) ELSE SendUnpairedRename(EventPath)
    /\ calls' = NewDirCalls
    /\ move' = NoMove

DeletedEntry ==
    /\ Handles("DELETE")
    /\ SendDeletes({EventPath}, Found(EventDir) # Head(events).wd)
    /\ UNCHANGED <<calls, move>>

CreatedEntry ==
    /\ Handles("CREATE")
    /\ SendUpdate(EventPath)
    /\ calls' = NewDirCalls
    /\ UNCHANGED <<move, stale>>

ModifiedEntry ==
    /\ Handles("MODIFY")
    /\ SendUpdate(EventPath)
    /\ UNCHANGED <<calls, move, stale>>

(***************************************************************************)
(* select times out after a second without events.  A MoveRecord that is   *)
(* more than two seconds old becomes a DELETE: at the third time-out, or   *)
(* sooner when events or long scans came in between.  Then the tree is     *)
(* polled.                                                                 *)
(***************************************************************************)
TimeOut(expired) ==
    /\ Selecting /\ events = <<>>
    /\ expired \in (IF move = NoMove THEN {FALSE}
                   ELSE IF move.waits = 2 THEN {TRUE} ELSE BOOLEAN)
    /\ UNCHANGED <<userVars, watched, events, watchItems, snapshots>>
    /\ IF expired THEN SendDeletes({move.path}, TRUE) ELSE UNCHANGED backupVars
    /\ move' = IF expired \/ move = NoMove THEN NoMove ELSE [move EXCEPT !.waits = @ + 1]
    /\ seen' = {}
    /\ calls' = <<Call("poll", <<>>), Call("deletes", <<>>)>>

-----------------------------------------------------------------------------
Step ==
    \/ WatchDir \/ WatchEntry \/ ListDir \/ ScanEntry \/ PollEntry \/ PollDeletes
    \/ Ignored \/ MovedFrom \/ MovedTo \/ DeletedEntry \/ CreatedEntry \/ ModifiedEntry
    \/ \E expired \in BOOLEAN : TimeOut(expired)

\* The monitor is started on files and empty directories; the backup has nothing.
Init ==
    /\ \E f \in FirstRoots :
         content = [d \in Dirs |-> IF d = Root THEN f ELSE [n \in Names |-> Absent]]
    /\ made = {content[Root][n] : n \in Names} \cap SubDirs /\ changes = 0
    /\ watched = {} /\ events = <<>>
    /\ watchItems = <<>> /\ snapshots = <<>> /\ seen = {}
    /\ move = NoMove
    /\ calls = WatchAndScan(<<>>)
    /\ pending = <<>> /\ suspect = {} /\ stale = {} /\ replica = [p \in Paths |-> Absent]

Next == Step \/ (\E p \in Paths : Flush(p)) \/ User

Spec == Init /\ [][Next]_vars

FairSpec == Spec /\ WF_vars(Step) /\ \A p \in Paths : WF_vars(Flush(p))

-----------------------------------------------------------------------------
(* Properties *)

TypeOK ==
    /\ content \in [Dirs -> [Names -> Entries]]
    /\ made \subseteq SubDirs
    /\ watched \subseteq Dirs \ {Out}
    /\ DOMAIN watchItems \subseteq Dirs \ {Out}
    /\ Cardinality(DOMAIN watchItems) <= MaxWatches
    /\ \A i \in DOMAIN watchItems : watchItems[i] \in {<<>>} \cup {<<n>> : n \in RootNames}
    /\ DOMAIN snapshots \subseteq Paths /\ seen \subseteq Paths
    /\ Cardinality(DOMAIN snapshots) <= MaxSnapshots
    /\ move \in Moves \cup {NoMove}
    /\ DOMAIN pending \subseteq Paths
    /\ replica \in [Paths -> Files \cup {Absent, Dir}]

InStep(p) == replica[p] = View(p)
Suspect(p) == \E q \in suspect : Under(p, q)

\* What the poll can tell, of a file that is in both.
LooksInStep(p) == IsFile(View(p)) /\ IsFile(replica[p]) /\ replica[p].stat = Stat(p)

\* The directory that has the path found a place in watch_items.
Watched(p) == Found(Parent(p)) \in SubDirs => Found(Parent(p)) \in DOMAIN watchItems

Drained == Selecting /\ events = <<>> /\ pending = <<>> /\ move = NoMove
PollFindsNothing ==
    \A p \in Paths : IF View(p) = Absent THEN p \notin DOMAIN snapshots ELSE ~PollEmits(p)
\* Nothing more is sent until the user changes something.
Settled == Drained /\ PollFindsNothing

\* Watches and short scans lose nothing, whenever in the making of a watch, a scan
\* or a poll a file or directory appears, changes, moves or goes (monitor.c:344-351,
\* 369-376): once all events are handled and all updates done, what the source has
\* in watched directories is in the backup, and of the names in its root also what
\* it has no more.
DrainedIsInStep ==
    Drained => \A p \in Paths :
        Parent(p) = <<>> \/ (View(p) # Absent /\ Watched(p)) => InStep(p) \/ Suspect(p)

\* The poll makes up for the rest (monitor.c:187-205): deletions that no watch saw
\* and directories that have no place in watch_items.  When it finds nothing new
\* the backup is the source, up to changes that keep size, second and mode, to
\* paths that went astray, and to files for which there is no snapshot left.
SettledIsInStep ==
    Settled => \A p \in Paths :
        \/ InStep(p) \/ Suspect(p) \/ LooksInStep(p) \/ p \in stale
        \/ (View(p) # Absent /\ ~Slot(p))

\* The poll comes to rest: it does not send the same change for ever (monitor.c:
\* 168-177, 192-204), and no move waits for ever for its second half.
AlwaysSettles == []<>Settled

\* README.md:142 calls the poll the safety net of the watches, and README.md:85-97
\* expects a file that was added in current/: a file that is there when the monitor
\* has nothing left to send is in the backup.
FilesAreBackedUp == Settled => \A p \in Paths : IsFile(View(p)) => IsFile(replica[p])
=============================================================================

# MiniSync in TLA+

MiniSync (`src/`) copies a directory tree into a backup while the user works in
it: to a local directory, or to a server over TCP. This directory holds TLA+
models of its core, the TLC configurations that check them, and TLAPS proofs.
References such as `server.c:137` are lines of `src/src/`; headers are in
`src/include/`, and README.md:74 is a line of `src/README.md`.

## 1. The system

```
 source tree ── inotify, poll ──> monitor process ──┐ event pipe (SyncTask)
                                   main process ────┤ EXIT
                                                    v
                        transfer process: scheduler thread ── task queue ── workers
                                                    │ local mode      │ remote mode
                                                    v                 v  one TCP connection per attempt
                                            local backup tree      server: a thread per connection
                                                                      │ server_file_mutex
 logger process <── log pipe ── every process                         v
                                                              backup tree of the server
```

| Component (files) | State | Operations | What makes it correct |
|---|---|---|---|
| Task queue (`task_queue.c`) | singly linked list `front`, `rear`, `size`; `stopped`; a mutex and a condition variable | push, pop, stop, destroy | the list stays a list, no node is lost, no wakeup is lost, FIFO order, a stop gets every worker out |
| Transfer process (`transfer.c` 19-193, 644-704) | `pending[]` with a time for each path, `ctx->stop`, the queue | read one event; debounce it or push it at once; flush what is stable; retry; stop and join | no event is lost or done twice, the order of a path's events, a full debounce, bounded tries, termination |
| Local synchronisation (`transfer.c` 195-309, `file_utils.c`) | the backup tree, shared by all workers without a lock | update, delete, rename, make a directory | the tree ends up as the source, no partial file, no litter |
| Remote synchronisation (`transfer.c` 311-642) | one socket, the offset, the hash of the file | the same four; uploads are small (one block) or large (resumed at the size of `.syncing`) | success means stored, every attempt ends |
| Server (`server.c`) | a header and `last_rel_path` for each connection; `server_file_mutex`; the tree | BEGIN, BLOCK, END, QUERY_OFFSET, DELETE, RENAME | no torn file in `current/`, old files are kept, the mutex is given back |
| Backup tree (`file_utils.c`) | `current/`, `.versions/<second>/`, `.trash/<second>/`, `.syncing` files | atomic copy, version, trash, rename | what is overwritten or deleted is kept |
| Monitor (`monitor.c`) | watch table, snapshots, one MoveRecord | inotify events, poll scan, full scan | every change becomes an event in the end |
| Main and logger (`client_main.c`, `logger.c`) | pids, pipes, `g_stop` | fork, signals, EXIT, waitpid; log records | orderly shutdown |
| Helpers (`net_utils.c`, `hash.c`) | none | readn/writen, header checks, FNV-1a | no short reads, no path that leaves the root |

The components share little: an event pipe with two writers, a log pipe, the
queue under its mutex, the backup tree. What is hard is therefore this:

* **threads**: workers sleep, are woken, and take tasks from each other; two
  workers can hold two tasks of the *same path*, since nothing in the queue keeps
  them apart (`transfer.c:173`);
* **the tree**: in local mode there is no lock at all, and `.syncing` has one name
  per path (`file_utils.c:235`); on the server a mutex is held while a file
  arrives, but not by QUERY_OFFSET (`server.c:224`);
* **the user**, who changes a file between the calls that look at it, hash it and
  read it, and between two pieces that one of them reads (`hash.c:38`);
* **signals**, which meet main's handler in a child that was just forked
  (`client_main.c:201`);
* **failures**: a connection that breaks with the ACK on its way, a server that
  dies with half a file in `.syncing`, a retry that comes after newer tasks.

`PROJECT.json` lists the hazards one by one, each with its line and with the
properties that are about it.

## 2. The modules

| Module | Models | Uses |
|---|---|---|
| `TaskFifo` | what `task_queue.h` promises: a FIFO that can be stopped | |
| `TaskQueue` | `task_queue.c`, statement groups under the mutex | `TaskFifo`, by refinement |
| `TaskQueueProofs` | proofs about `TaskQueue` | |
| `Transfer` | the transfer process, except what a worker does to the backup | the actions of `TaskFifo` |
| `TransferProofs` | proofs about `Transfer` | |
| `FileData` | files, hashes, rename and write | |
| `LocalSync` | `sync_task_local`, system call by system call | `FileData` |
| `LocalSyncProofs` | proofs about `LocalSync` | |
| `Server` | `server.c` | `FileData` |
| `ServerProofs` | lemmas about `Server`, for any clients | |
| `RemoteSync` | `sync_task_remote` with the server | `Server` |
| `RemoteSyncProofs` | proofs about `RemoteSync` and the server in it | |
| `Monitor` | `monitor.c`, a changing source tree, the backup that its tasks make | |
| `MonitorProofs` | proofs about `Monitor` | |
| `Client` | `client_main.c`, `logger.c`, and how the four processes of the client end | |
| `ClientProofs` | proofs about `Client` | |
| `MC...` | model values, small file sets and symmetry for TLC | |

### TaskQueue and TaskFifo

`front`, `rear`, `size`, `stopped`, `mutex`, `next` are the fields of the code;
`heap` is the set of allocated nodes and `node[t]` the local pointer of a thread.
`order` is auxiliary: the nodes in list order. A critical section is one step
(`PushLink`, `PushRefused`, `PopTake`, `PopDrained`, `PopWait`, `StopBroadcast`),
the lock before it another (`Lock`), and so are calloc and free outside it.
`pthread_cond_wait` releases the mutex and sleeps in one step (`PopWait`), and may
return without a signal (`SpuriousWakeup`). A signal wakes *some* sleeper, who
still has to compete for the mutex: another worker may steal the task meanwhile.

### Transfer

An event's identity is its place in `log`, the sequence of what was written to
the pipe. `pending` holds ids with their age in ticks. The scheduler goes round
`select`, `flush`, `push`; `ReadUpdate`, `ReadImmediate`, `ReadExit` are the
branches of `scheduler_thread_main`, `FlushScan`/`FlushPush`/`FlushDone` the two
flush functions, which read the clock once and then push slot by slot while the
workers run. A worker goes round `CheckStop`, `PopTask`, `SyncSucceeds` or
`SyncFails` or `GiveUp`, and `RetryPush` after its 300 ms. `ctx->stop` is read
without a lock and is set after the queue was stopped, which is why tasks may be
`abandoned` in the queue. `fate`, `tries` and `quiet` are auxiliary.

### LocalSync

Names of the source, of `current/`, `.versions/`, `.trash/` and of both `.syncing`
files are links to inodes (`tree`), and `data` has the contents of every inode
that has a name or is open. So two workers that open the same `.syncing` write
into one inode, `O_TRUNC` empties it under the other, and a renamed file goes on
being written under its new name. Each of open, create, read, write, close,
rename, unlink and each hash is a step. A failing task is retried by its worker;
which tasks there are, and in which order, is left open. All stamps are of one
second, the case in which workers share `.versions` names.

### Server and RemoteSync

`up[k]` and `down[k]` are the two directions of connection `k`. A server thread is
in `recv_header`, at `pthread_mutex_lock`, in `recv_file_blocks_until_end` with the
mutex, or gone. Requests that hold the mutex only for themselves (`MakeDir`,
`Delete`, `Rename`) are one step; an upload has one step for each block and keeps
`mutex` in between. Whatever a handler replies, the thread then closes the
connection (`Leave`), except after QUERY_OFFSET. `Cut` breaks a connection and
loses any suffix of what is under way in each direction; `ServerCrash` ends all
threads and leaves the tree as it is. A client worker has the program counter of
`sync_task_remote` and of the functions it calls: for a large file it asks for the
offset, opens the source, hashes it *by path again*, and reads block after block
through its descriptor, while the user changes, removes or replaces the file. The hash
has a descriptor of its own (`hashFd`) and takes a step for each block (`HashOpen`,
`HashBlock`, `HashEnd`, or `HashFails` with hash 0), so `sum` may become the hash of a file
that never existed; `torn` is auxiliary and collects those.

### Monitor

`content` is the source, directory by directory. Directories are inodes, so a
watch (`watched`) stays with its directory wherever that is moved, even out of the
tree, while `watchItems` still has the old path, as in `watch_items`; both
are keyed by the inode, as the kernel gives one descriptor to each. `events`
is inotify's queue, `snapshots` and `seen` are the fields of `snapshots[]`, `move`
is the one MoveRecord with the number of time-outs it has waited. The recursive
functions `add_watch_recursive`, `scan_directory_and_emit_tasks` and `poll_scan_path`
run on a stack, `calls`: `WatchDir` opens, watches and lists a directory in one
step, `ListDir` does so without a watch, and `WatchEntry`, `ScanEntry`, `PollEntry`
visit one entry. Between any two steps the user (`User`) may create, write, remove,
rename, move out of the tree or into it. `MovedFrom` ... `ModifiedEntry` are the
branches of `handle_event`, `TimeOut` and `PollDeletes` the idle second of
`monitor_process`.

Whether the tasks are any good can only be told by what they do. `pending` and
`replica` are therefore a receiver, a transfer process in local mode that
debounces updates, does deletes and renames at once, and does each task once and in
order (what it really does is in Transfer and LocalSync). `suspect` is auxiliary; it
names the paths of which the code can promise nothing until they are updated again:
the target of a DELETE that comes when the path exists again, of a RENAME that
moves an old copy, the path of a MoveRecord that was overwritten, and what a stale
watch reported. `stale` is auxiliary, too: the paths that went `Astray` of the poll. Handling an
event takes no snapshot (`monitor.c:380`), and an update copies what is there when it is done, not what
the snapshot saw; so a task may leave the backup with something else than the snapshot tells,
and when the path then comes to look as the snapshot says, the poll sees no difference. A path is
stale from such a task until the backup agrees with the snapshot or the path is sent again with a
new one.

### Client

Pipes are queues of whole records (a SyncTask and a LogMessage are smaller than
PIPE_BUF); a write waits while the pipe is full and fails when nobody can read.
`ends` has the pipe ends that each process holds, so that end of file and broken
pipes come from the close calls of the code: what each child closes (`ClosedBy`),
what main closes (`CloseReadEnds`, `CloseWriteEnds`), what a dying process closes. A
child is `forked`, with all the pipe ends and the signal handler of main; `int` and `term`
after its two calls of `signal`; `running` once it has closed what is not its own (`SetsUp`);
`ended` (a zombie) or `reaped`. SIGTERM is sent (`KillMonitor`) and taken later: it ends the
process (`DiesOfTerm`) or, before its default is back, is lost on the inherited handler
(`SwallowsTerm`). `Main` has the steps of `main`
from the first fork to the last waitpid. Of the monitor there is a writer of tasks
and of log records; of the transfer process a scheduler that reads up to EXIT or end
of file, and a worker that leaves when it sees `ctx->stop`. From outside come SIGTERM to
main, Ctrl-C for all, a failing fork, and the death of any process at any time.
`killed`, `swallowed`, `promised` and `lost` are auxiliary.

### What is abstracted

* A file is a sequence of at most `MaxBlocks` blocks and its hash is the file:
  FNV-1a without collisions. Hash 0 (`NoHash`) is kept apart, because the code
  gives it two meanings. The hash of a single block is left out: TCP delivers no
  corrupted bytes and the sender hashes what it sends.
* A message arrives whole: a half-received BLOCK is as good as none, since
  nothing is written before its data is complete (`server.c:72-89`).
* Paths are flat; parents exist. `ensure_dir_exists` succeeds over a file, and so
  do `MakeDir` and `DirMade`: a directory that replaced a file in the source stays
  a file in the backup until the delete arrives.
* The user's changes are atomic. The removal of an open file is not: it stays
  readable (`held` in RemoteSync, inodes in LocalSync).
* In RemoteSync the read of a small file, the server's hash of `.syncing` and its backup
  copy are one step. What the first yields counts only if the hash that was sent
  before is that of it; the others are done with the mutex, by a thread that nobody can
  interrupt except by killing it. The client's own hash of the source is taken block by
  block.
* In LocalSync the two hashes are one step each. A hash of a mixture does not help a worker
  there: the copy is made after that hash, of what the source has by then, and is hashed
  again. With both hashes block by block, `local_race` has 783 k states and the same
  result.
* In Monitor directories lie in the source itself, not deeper, and a file's size,
  mode and time are one value: as at the moment of its last change, or as before
  any (`stat`), so a change may keep all three. No symbolic links. A MODIFY of a
  directory (its time has changed) is left out, as it makes a directory that is
  there already.
* In Client a task is done in one step, and the worker has entered its loop before
  the end begins.
* Not modelled: power loss (fsync is no step), EXDEV, file modes and times, HELLO
  and EXIT messages of the protocol (the client never sends them).

## 3. The runs

| Run | Instance | Properties | Distinct states |
|---|---|---|---|
| `queue` | 2 workers, 2 nodes, 2 tasks, 3 pushes | TypeOK, ListShape, NodesAccounted, NoLostWakeup, ImplementsFifo, BacklogIsTaken, StopLeadsToJoin | 82 k |
| `transfer_debounce` | 1 worker, 3 paths for 2 slots, 3 events, debounce of 2 ticks | EveryEventAccounted, SupersededByNewer, FirstTriesInOrder, QueuedOnlyWhenStable | 1.2 M |
| `transfer_ends` | 2 workers, 1 path, 2 events, 2 retries | TypeOK, EveryEventAccounted, GivenUpAfterAllTries, EveryEventEnds, ExitEndsProcess | 198 k |
| `local_race` | 2 workers, 2 tasks, 1 path and one to rename from, 1 retry, 1 change, 1 failing call or kill | TypeOK, QuietIsSynced, NoTempLeft | 435 k |
| `remote_upload` | 2 workers, 2 uploads of 1 path, 1 fault, 2 changes | TypeOK, SuccessMeansApplied, CurrentIsWhole | 2.3 M |
| `remote_tree` | 2 workers, 2 paths, 4 connections, all tasks, 1 fault | OldFileKept | 966 k |
| `remote_ends` | 2 workers, 2 connections, 1 retry, 1 fault | EveryTaskEnds | 78 k |
| `monitor` | 2 directories, 2 names in the source and 1 in the others, 2 watches, 3 changes of any kind | TypeOK, DrainedIsInStep, SettledIsInStep, AlwaysSettles | 280 k |
| `client` | 2 tasks, an event pipe of 2 records, a log pipe of 1 | TypeOK, PromisedIsRead, LogComplete, EndsTogether, OrphansEnd | 327 k |
| `local_torn` | 1 worker, 1 change | CurrentIsWhole is violated | |
| `remote_resume_refused` | 1 worker, 1 retry, 1 fault | CompleteFileTaken is violated | |
| `monitor_late_delete` | 1 file, 2 changes | FilesAreBackedUp is violated | |

**Why the bounds are enough.** Two workers and two sleepers are what a lost
wakeup, a stolen task or a shared `.syncing` needs; the third push makes a worker
that pushed a retry meet the scheduler. Two blocks are the least for a file that
can be cut in the middle, for a mixture of two files (sent or hashed) and for an offset inside a
file; `Threshold = 1` makes one-block files small and two-block files large. One
fault is one broken connection, one crash or one failing call; with the retry it
leads through every error path and back. Three events for two slots fill the
pending table. `local_race` starts with no file at all or with large files under all
names, source and backup each (`FirstTrees`). Two watches are one for the source and one for
either of two directories, so that the other is seen by the poll alone; three
changes make a directory, put a file in it and move either, or move something out,
put another thing in its place and change that. Full pipes need one record more
than they hold: two tasks and EXIT for two records, any two lines for one.

Beyond these bounds `local_race` was tried with three tasks, two changes and no
fault (6.2 M states), and with tasks and a change on either of two paths (4.6 M),
both from an empty backup; `monitor` with one watch and one snapshot, so that both tables are full
at once, with three changes of a source with a directory (428 k) and with four of an empty source
(4.1 M), and in simulations with seven: nothing new appeared.

**Deadlock** is checked for the queue and the transfer process, which have a last
state (`Exited`). In LocalSync and RemoteSync the system rests once the bounded
number of tasks is used up, so those configurations switch it off; that no worker
is stuck is `EveryTaskEnds`. Client rests when all processes have ended, which is
what `EndsTogether` and `OrphansEnd` are about. The monitor never rests (it polls), and its
run checks deadlock.

**Symmetry** is used in safety runs only.

**What the passing runs say**, besides the proved part of section 5:

* Debouncing loses an update only to a newer event of its path that has been read
  (or to a full table, where it is dropped in silence); the first tries of a path
  are queued in order; nothing is queued sooner than `debounce_ms` after the last
  event of its path. *Retries* do overtake.
* Each event that was read is in one place at any time: a slot, the queue or a
  worker, also while the queue is stopped under a retry.
* Remote: whatever two uploads of a path leave in the shared `.syncing`, however
  the source changes while it is sent and connections break, what is stored in `current/`
  has the hash that the client sent, since the whole is hashed with the mutex held. So a
  part or a mixture gets there in two ways only: it was sent with hash 0 and stored
  unverified (`server.c:143`; `unhashed`), or the client's hash was itself taken while the
  file changed (`torn`). The second really happens, see section 4: without `torn`
  the property fails in this run.
* Remote: what an upload or a delete takes out of `current/` is in `.versions` or
  `.trash` (disk failures and renames excepted).
* Local: there are torn files in `current/` for a while, but the worker whose
  `.syncing` was spoilt always finds out, and retries; once all tasks of a path
  have ended well, the backup has what the source has. Exceptions, collected in
  `unsettled`: a path that is deleted and updated by two workers at once, renames
  (their fallback leaves the old path alone), and a worker that still copies a file
  which the user has replaced: it may rename its old copy over the newer one of
  another worker, its own hashes agreeing. The last one is a counterexample TLC
  gave to the property without that exception.
* Monitor: watch first and list afterwards works. Whenever a file appears, changes
  or moves while a directory is being watched, scanned or polled, it is in the
  backup once the events are handled, without the poll, if its directory has a
  place in `watch_items`. The poll finds the rest, deletions that no watch saw and
  directories without a place, and then finds nothing more: after each change the
  system comes to rest with the backup equal to the source. Exceptions: what the poll
  cannot see (`LooksInStep`), files without a place in `snapshots`, and `suspect` and
  `stale` (section 2), of which each member is a way the code fails: see section 4.
* Client: whichever process dies first, with pipes full or without readers, all of
  them end and main reaps them, unless the monitor has swallowed the SIGTERM (`SignalLost`,
  section 4; without this exception the property fails in this run); the log is complete up to LOG_EXIT; nothing that was in
  the event pipe before EXIT stays there. Without main (killed, or after a fork that
  failed) the logger and the transfer process end as soon as the monitor does. The
  monitor does not, as nothing tells it: `OrphansEnd` assumes its end.

## 4. Where the code does something else than its documentation

1. `local_torn`: README.md:74 says that `.syncing` is renamed after its hash was
   verified. `sync_local_file` (`transfer.c:252`) renames first and hashes the
   result; a source that changes during the copy leaves a torn file in `current/`,
   for good when the retries are used up.
2. `remote_resume_refused`: README.md:79 says that large files resume at the size
   of `.syncing`. When only the END was lost, the client sends END alone and is
   answered "unknown message type" (`server.c:346`), at every retry.
3. `monitor_late_delete`: README.md:142 calls the poll the safety net, and README.md:85-92
   expects an added file in the backup. A file that is moved out of the source is
   deleted from the backup two seconds later (`monitor.c:434`), even when the path was
   made again and copied meanwhile; the snapshot is that of the new file, so the poll
   finds nothing.

Met while modelling, without a run:

* README.md:74 speaks of a hash that is verified, and hashes are compared, but the client takes its
  own in pieces (`hash.c:27-57`) of a file that may change meanwhile (`transfer.c:539`). An upload
  of A1 A2 breaks and leaves A1 in `.syncing`; the retry gets the offset 1 and hashes A1; the user
  overwrites the file with B1 B2; the hash goes on with B2, and so does the upload. The server
  finds A1 B2 to have the hash of A1 B2 and renames it into `current/`. The update
  that the user's change causes repairs it later, if it succeeds.
* The client may hang when it is told to end while it starts. With `g_stop` set before the
  loop, main gets to `kill` (`client_main.c:237`) while the monitor may still have main's
  handler (`client_main.c:201`). That sets the monitor's copy of `g_stop`, which nobody reads;
  main waits for the monitor for ever (`client_main.c:240`).
* README.md:76 says that a file is copied to `.versions` before it is overwritten;
  `server_handle_file_rename` (`server.c:200`) overwrites its new path without.
* README.md:77 says that a delete does not remove the file; two deletes of a path
  within one second use one `.trash` name (`file_utils.c:338`), and the first is gone.
* Tasks that are queued when the process is told to end are mostly lost.
  `pending_flush_all` pushes all that waits, and `task_queue_pop` hands out what a
  stopped queue has, but each worker leaves its loop after the task it has, as
  `ctx->stop` is set (`transfer.c:145`, 172). These are the events that end as
  `abandoned` in Transfer, and the reason why `PromisedIsRead` says read, not done.
* Events written between EXIT and the end of the monitor are never read
  (`client_main.c:236`), and Ctrl-C ends the children before EXIT is sent, with all
  that is queued or pending.
* A second MOVED_FROM before the first one's MOVED_TO overwrites the MoveRecord
  (`monitor.c:324`): the first path stays in the backup if it has no snapshot.
* A directory that is moved out keeps its watch and its old path (`monitor.c:39`);
  what happens in it later is reported as if it were in the source.
* With all watches and all snapshots used, a new file in a directory without a watch
  is never sent (`monitor.c:161`).
* The poll compares the source with the snapshots, not with the backup, and those are two
  things. A scan takes the snapshot of a file, the user writes the file, the update copies
  what it has by then; when the next write makes it look as in the snapshot, with no watch that
  sees it, the poll finds it unchanged (`monitor.c:168`) and the backup keeps the middle state.
  A file that was sent when no snapshot was left and then removed where no watch sees it
  stays in the backup (`monitor.c:192`). These are the `stale` paths.
* The monitor goes on for ever when main is killed, or when the fork of the transfer process
  failed (`client_main.c:210`).

## 5. What is proved

The runs show the properties on small instances. The theorems below hold for every
value of the constants that satisfies the assumption of the module, which TLC
evaluates in the runs of that module. All rest, in each module, on a theorem
`Inductive == Spec => []IInv`: none of the checked invariants is inductive alone, and
`IInv` says what else is true whenever they are. TLC checked each `IInv` on the
instances of section 3 before it was proved.

### TaskQueueProofs

For every set of tasks and nodes, every finite set of workers and every number of
pushes:

| Theorem | Statement |
|---|---|
| `TypeCorrect` | `Spec => []TypeOK` |
| `ListWellFormed` | `Spec => []ListShape` |
| `NoNodeLost` | `Spec => []NodesAccounted` |
| `WakeupsNotLost` | `Spec => []NoLostWakeup` |
| `ListImplementsFifo` | `Spec => ImplementsFifo` |

The only assumption is `TaskQueueAssumption`: the scheduler is no worker, NULL is
no node and no thread, `NoTask` is no task, the workers are finite, `MaxPushes` is a
natural number. TLC checks it in the run `queue`.

    IInv == TypeOK /\ Control /\ ListShape /\ NodesAccounted /\ NoLostWakeup

`ListShape` needs
`NodesAccounted` (a node that is linked must not be in the list already, and the
node that is freed not be in it any more) and needs the new node's `next` to be NULL,
which calloc ensured before the lock. `NodesAccounted` needs to know which labels
own a node. Both need mutual exclusion: a thread inside a critical section is the
one that has the mutex. `NoLostWakeup`, the counting argument that while anyone
sleeps there are at least as many workers awake inside pop as there are tasks, needs
that only the scheduler stops the queue, and that a worker that pushes or frees is
not counted as awake. `Control` states these facts label by label. Each conjunct has
a lemma for its step (`TypeStep`, `ControlStep`, `ListStep`, `NodesStep`, `WakeStep`),
with a case for each action that can disturb it; the actions that leave the list
alone are dealt with at once by `QuietEffect`.

For `ListImplementsFifo` the queue of `TaskFifo` is the sequence of the items of the
nodes in list order. `PushLink` is `Push`, `PopTake` is `Pop`, `PopDrained` and the
stop are themselves, `Destroy` is `Discard`, and every other step is a stutter:
calloc and free only touch nodes outside the list (`SameContents`). `Transfer` uses the
actions of `TaskFifo` as its queue, so this is what justifies its abstraction.

### TransferProofs

For any number of workers, paths, slots, retries and events, and any length of the
debounce (`TransferAssumption`: finitely many workers, at least one slot, a debounce
of at least one tick, `NoPath` is no path):

| Theorem | Statement |
|---|---|
| `TypeCorrect` | `Spec => []TypeOK` |
| `EventsAccounted` | `Spec => []EveryEventAccounted` |
| `MergedIsSuperseded` | `Spec => []SupersededByNewer` |
| `FirstTriesOrdered` | `Spec => []FirstTriesInOrder` |
| `GivenUpAfterAll` | `Spec => []GivenUpAfterAllTries` |
| `OnlyStableQueued` | `Spec => QueuedOnlyWhenStable` |

    IInv == TypeOK /\ Control /\ Places /\ Tried /\ SlotsNewest
              /\ SupersededByNewer /\ FirstTriesInOrder /\ GivenUpAfterAllTries

`EveryEventAccounted` counts places. `Places` says it with sets: no id is twice in
the slots, the queue or the workers, the three are disjoint, and together they are the
events that were read and have not ended. That is what a step preserves, and
`PlacesAreCounted` turns it into the count. `SlotsNewest` (two slots never have the
same path, and a slot has the newest event about its path, with its true age) is
needed twice: an event that is merged away or cleared is older than the one that
replaces it, and a slot that is flushed as `Debounce` old was quiet for that long.
The latter also needs `Control`: between `FlushScan` and the last `FlushPush`
the slots that are due keep their age, though workers run in between. `Tried` ties
`tries`, which counts what was really done, to the `retry` field that travels with the task
through queue and worker. In `FirstTriesInOrder` the interesting step is `FlushPush`:
what is pushed must be newer than every first try about its paths that is queued, which
follows as the two were in that order when the newer one was read (`OrderFromSlots`).
`OnlyStableQueued` is an action property; only `ReadUpdate`, `ReadImmediate` and
`FlushPush` touch what it is about, and `QueuedFromDue` shows which ids they add.

### ClientProofs

For pipes of any size and any number of tasks (`ClientAssumption`: a pipe holds at
least one record, EXIT is neither a task nor a log line), whichever processes are killed and
whenever:

| Theorem | Statement |
|---|---|
| `TypeCorrect` | `Spec => []TypeOK` |
| `PromisesKept` | `Spec => []PromisedIsRead` |
| `NoLogLost` | `Spec => []LogComplete` |

    IInv == Types /\ Fds /\ Lives /\ Logs /\ Fresh /\ Promises

`Fds` says who has which pipe end open at each label of main, a child that still sets itself up
all four of them; `Lives` that
the children are forked in order and which of them main has seen end. `Logs` is the
argument for `LogComplete`: a record can be lost only when nobody can read, the logger
leaves only at LOG_EXIT or at end of file, and in both cases all other writers are gone
(`Silent`), because main writes LOG_EXIT after it has waited for both of them, and end of
file needs that every `logW` is closed. `Promises` is the argument for
`PromisedIsRead`: until the scheduler has stopped reading, each promised task was read
or waits in the pipe in front of EXIT; and when it stops, at EXIT or at end of file, the
pipe shows that none is left. `Fresh` says that the tasks in the pipe are new and
different, so that a task is not read twice.

### ServerProofs and RemoteSyncProofs

For any number of workers, connections, paths, blocks in a file, retries, faults and
changes by the user:

| Theorem | Statement |
|---|---|
| `TypeCorrect` | `Spec => []TypeOK` |
| `SuccessIsApplied` | `Spec => []SuccessMeansApplied` |
| `CurrentNeverTorn` | `Spec => []CurrentIsWhole` |
| `OldFilesKept` | `Spec => OldFileKept` |

The assumptions (`FileAssumption`, `ServerAssumption`, `RemoteAssumption`) say that the
bounds are natural numbers, that what the user writes is blocks, and that the values
that stand for nothing (`Absent`, `NoMsg`, `NoTask`, ...) are none of the things they
stand beside.

    IInv == \E G \in SUBSET Files : Inv(G)
    Inv(G) == /\ G \subseteq Files /\ G = UserFiles \cup torn
              /\ ServerInv(Sendable(G), G) /\ Connections /\ ClientTypes /\ Sums(G)
              /\ \A w \in Workers : WorkerOK(w)

G is what a hash may be the hash of: the files of the user, and the mixtures that were hashed so far.
It only grows, when a hash ends (`HashEndKeeps`), and everything that is true of a smaller G stays
true of a larger one (`MoreHashes`). The steps before that touch only the worker that hashes
(`HashIsLocal`).

`ServerInv(M, G)`, in `ServerProofs`, is the half of the server. It knows of its clients
only that their messages are in M, and of the files only those in G. `Threads` ties the
label of a thread to its request and to the mutex: two threads are never both in
`recv_file_blocks_until_end`. `OldSafe` is what carries `OldFileKept` over the many steps of
an upload: from BEGIN to END the old file is kept already *and* is still the
current one, which is so only because every handler that touches `current/` needs the
mutex. (The invariant names BEGIN: a resumed upload backs up the old file in `Finish`,
in the step that replaces it.) A new second moves what is kept into `archive`. `WholeOf(G)` is
`CurrentIsWhole` with G for the files that have a hash; `Finish` keeps it because it stores
only what has the hash of BEGIN or END, and a client sends only hashes from G (`Sums(G)`,
`Sendable(G)`). The blocks in `.syncing` may be anybody's. `Fitting` messages have
blocks inside a file, from which `WrittenIsFile` gives the types.

`WorkerOK` is the half of the client. `SuccessMeansApplied` needs all of it, since
`wait_for_ack` takes *any* reply that is no error for an acknowledgement, an OFFSET, too.
`Asking` says that until a worker has the offset, there is one message on its connection at
most, and `NoOffset` that later no OFFSET can come. `Hashed` says that all messages of
an upload, on their way or in the thread's hands, are about one file, so that what is
applied is this file. `Connections` gives every connection to one worker,
and says that those not yet made are empty. The step of the server's thread is done
once for a worker whose connection it is (`OwnThread`), and once for all others
(`StillKeeps`, `OthersKeep`); the steps of a worker are grouped by what they do to the
connection (`ConnectEffect`, `SendEffect`, `CloseEffect`).

### LocalSyncProofs

For any number of workers, paths, blocks in a file, retries, failing calls and changes
by the user:

| Theorem | Statement |
|---|---|
| `TypeCorrect` | `Spec => []TypeOK` |
| `NoTempLeftBehind` | `Spec => []NoTempLeft` |
| `QuietSynced` | `Spec => []QuietIsSynced` |

The assumptions are `FileAssumption` and `LocalAssumption`: finitely many workers and
paths (else there might be no free inode, `FreeInode`), bounds that are natural numbers,
and values that stand for nothing are none of the things they stand beside.

    IInv == TreeTypes /\ DataTypes /\ WorkTypes /\ (\A w \in Workers : Where(w))
              /\ Apart /\ TempHeld /\ \A p \in Paths : Updated(p) /\ Removed(p)

`TreeTypes`, `DataTypes` and `WorkTypes` are `TypeOK`, in parts. `Apart` is what keeps
workers without a lock from doing any harm to other paths: a descriptor of a worker never is
a source, and it is a `.syncing` of `current/` only if the worker copies to it. `TempHeld`
says who will rename or remove each `.syncing`.

`Updated(p)` is the argument for `QuietSynced`. A worker is `Stale` when it hashed what the
source no longer has. As long as some pending worker of the path is not, it will hash the
source itself, after its copy, and finds out whatever the others did to it. So the case to
look at is when all who are left are stale (`AllStale`): the file they leave was hashed
before the source changed, yet each opened `.syncing` and read the source later. `NewTemp`
says that what they write there is a beginning of what the source has now, and `Fills` that
the last of them to empty the file has written all of it up to its offset; so the last
rename puts the right file into `current/`, or it fails and is retried. `Owned` says
that nobody else still writes into what has the name by now. `PathFrame` deals at once with
all steps that have nothing to do with a path; of those that have, `NotStale` names the ones
after which some worker will hash again, and `CopyHere`, `RenameHere` and `EndHere` are about
the rest.

The proof found a mistake in the model. `Settled` asks that no worker still copies a file which the
user has removed, and took a worker without any open file for such a one (`NotOpen` is neither
`Absent` nor `Dir`). More paths were unsettled than the README said, and `QuietIsSynced`
promised less. It now says what was meant, and still holds.

### MonitorProofs

For any number of directories, names and changes and tables of any size (`MonitorAssumption`:
there is room for one watch, values that stand for nothing are none of the things they stand
beside, and a directory has one name in the source at first):

| Theorem | Statement |
|---|---|
| `TypeCorrect` | `Spec => []TypeOK` |
| `DrainedInStep` | `Spec => []DrainedIsInStep` |
| `SettledInStep` | `Spec => []SettledIsInStep` |

    IInv == UserTypes /\ MonitorTypes /\ BackupTypes /\ TreeInv /\ HeardInv /\ LastInv
              /\ StartInv /\ TableInv /\ ItemInv /\ StackInv /\ WatchInv /\ TopInv /\ InInv

Neither property says anything before the monitor rests, so the invariant must say, of any
moment, what is still on its way. `LastInv` is where it begins: every change in a watched directory
leaves an event, so the *last* event about an entry tells what is there, however old the ones
before it are. `TopComing` and `InComing` say that an entry which the backup does not have as it is
will be met: by an event, an update that waits, a scan that has not passed it yet, or the
MoveRecord. When a handler takes the last event about it, it sends what is there; when a scan passes,
it does; and when a directory got its watch late, a scan follows, as `add_watch_recursive` is always
called before `scan_directory_and_emit_tasks` (`WatchInv`). This is the hazard at `monitor.c:374`, for
every interleaving.

An event of a directory is reported under the path that `watch_items` has for it. `ItemInv` says that this
path is right, or that an event about the directory or the call that will watch it again is under
way; the scan that comes with that call makes up for what was reported elsewhere. `TableInv` and
`StackInv` give the shape of the table and of the calls (a poll is never mixed with a scan). `Unlike`,
`Outdated` and `Inner` are about what the backup has at a name where the source has something else:
a directory over a file stays what it is, as `ensure_dir_exists` is content with either, so a DELETE or
MOVED_FROM must still be coming (`Gone`; any event would not do, a CREATE repairs nothing). For the poll,
`TopPolled` and `InPolled` say that it deletes nothing that is there and of which nobody was told, and
`Remembered` that the backup has what the snapshots tell, or will have it, or is `stale`.

There is one lemma for each action (`UserKeeps`, `FlushKeeps`, `WatchDirKeeps`, ... `TimeOutKeeps`), and
before it lemmas for what many of them share: `ChangeTold` for the user's steps, `LastCall` and
its neighbours for the stack, the effects of updates, deletes and renames on the backup.

The attempt to prove it found mistakes in the model, all of them mended:

* `SettledIsInStep` was false with one more change and one watch less than were checked: the ways to
  miss a change that section 4 describes under `stale`, and files for which no snapshot is left. The
  property now names both exceptions. With one watch and one snapshot TLC finds it violated when
  either is left out; the theorem holds for tables of any size.
* The backup could rename a directory into itself, which rename(2) refuses (`CanRename`).
* `DrainedIsInStep` was said of what the source has. For names in the root it is true of what
  the source has no more, too, and is now stated so.

**Only model-checked** is liveness (`BacklogIsTaken`, `StopLeadsToJoin`, `EveryEventEnds`,
`ExitEndsProcess`, `EveryTaskEnds`, `AlwaysSettles`, `EndsTogether`, `OrphansEnd`), as TLAPS has
no rule for fairness here. Every safety property of the passing runs is a theorem.

## 6. Fairness

* `TaskQueue!FairSpec`: weak fairness for each thread that is past a lock; strong
  fairness for `Lock`, because the mutex is released and taken again by others in
  between; critical sections are a few instructions. Nobody has to push or to stop,
  and spurious wakeups are never relied upon.
* `Transfer!FairSpec`: time passes, the scheduler and each worker run, and a
  synchronisation ends, well or badly. In local mode it does: there are finitely
  many calls. In remote mode it does when the peer answers or the connection
  breaks.
* `RemoteSync!FairSpec`: weak fairness for each worker, strong for each server
  thread, which has to get the mutex that others hold and release. A connection
  delivers or breaks. The code has no timeout anywhere: a peer that stays connected
  and silent holds its thread for ever, with the mutex if it was sending a file
  (`server.c:137`, `transfer.c:314`). No property can hold there; it is listed as a
  hazard.
* `Monitor!FairSpec`: the monitor makes its next step, and an update that waits is
  flushed. `select` times out whenever there is no event, so a step is always
  possible. The user need not do anything.
* `Client!FairSpec`: main, the logger, the scheduler and the worker run, each child gets
  through its first calls to its own function (`SetsUp`), and a SIGTERM is delivered
  (`TakesTerm`), to whatever handler there is. Nothing is asked of the monitor after that: it
  may stay silent or be stuck in a write.

## 7. What is not modelled, and the plan

| Next | Content |
|---|---|
| `BackupStore` | an abstract backup (a map from paths to whole files, with a history) which Server implements |
| `Paths`, `Wire` | pure functions against reference definitions: `sanitize_rel_path`, `get_relative_path`, the payload of RENAME, `readn`/`writen`, header validation with the 16 MiB limit |
| `MiniSync` | Transfer with the effects of the workers: do retries that overtake newer tasks leave the backup different from the source? |

Not modelled, and why:

* symbolic links in the source (`monitor.c:233`), and trees deeper than two levels: a loop
  is cut only by the length of a path;
* failing `pthread_create` and `calloc` at the start of a process, failing `opendir`
  and `inotify_add_watch`, the overflow of inotify's queue: the code logs them
  or not, and has no way back that could be checked;
* the loop of accept and the start of the server (`server.c`, `server_main.c`): it hands
  each connection to a new thread, which is where Server begins;
* the modes of files, by which a read-only `.syncing` cannot be opened again
  (`server.c:127`), and the limit of 16 MiB for a block (`server.c:72`): both are
  listed as hazards;
* parsing of arguments, the build, the format of log records, FNV-1a beyond its use
  (collisions are outside what can be checked).

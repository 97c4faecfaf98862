------------------------------ MODULE Transfer ------------------------------
(***************************************************************************)
(* src/transfer.c: the transfer process, between the event pipe and the    *)
(* synchronisation of one task.  One scheduler thread reads the pipe,      *)
(* debounces updates in a fixed table of pending tasks and pushes to the   *)
(* queue; worker threads pop, synchronise, and push again what failed.     *)
(*                                                                         *)
(* The queue is TaskFifo, which TaskQueue implements.  What a worker does  *)
(* to the backup is its outcome only, success or failure.  The debounced   *)
(* types CREATE, MODIFY and FULLSCAN behave alike here and are "UPDATE".   *)
(* Other types than these, DELETE, RENAME and EXIT are never sent.         *)
(***************************************************************************)
EXTENDS Naturals, Sequences, FiniteSets

CONSTANTS
    Workers,        \* worker threads
    NoTask,         \* a SyncTask variable that was never filled
    Paths, NoPath,  \* rel_path values, and the empty string
    PendingSlots,   \* MAX_PENDING_TASKS
    Debounce,       \* debounce_ms, in ticks of the clock
    MaxRetry,       \* MAX_RETRY_COUNT
    MaxEvents       \* BOUND: events the monitor sends

ASSUME TransferAssumption ==
    /\ IsFiniteSet(Workers)
    /\ NoPath \notin Paths
    /\ PendingSlots \in Nat \ {0}
    /\ Debounce \in Nat \ {0}
    /\ MaxRetry \in Nat
    /\ MaxEvents \in Nat

VARIABLES
    log,         \* the events written to the pipe so far; an event's id is its
                 \* place in log, and all of it but the id lives here
    read,        \* how many of them the scheduler has read
    writersGone, \* every write end of the pipe is closed
    pending,     \* TransferContext.pending
    due,         \* scheduler: the slots its running flush still has to push
    schedPc,     \* scheduler: where it is
    fifo, stopped, task, drained,   \* the queue (TaskFifo)
    workerPc,    \* where each worker is
    fate,        \* AUXILIARY: how each event ended
    tries,       \* AUXILIARY: how often each event was popped
    quiet        \* AUXILIARY: ticks since an event of a path was last read

schedVars == <<log, read, writersGone, pending, due, schedPc, quiet>>
queueVars == <<fifo, stopped, task, drained>>
vars == <<schedVars, queueVars, workerPc, fate, tries>>

Ids == 1 .. MaxEvents
SlotIds == 1 .. PendingSlots
TaskSet == [id : Ids, retry : 0 .. MaxRetry]
Q == INSTANCE TaskFifo WITH Tasks <- TaskSet

FreeSlot == [id |-> 0, age |-> 0]

(***************************************************************************)
(* An event ends                                                           *)
(*   merged     overwritten in its slot by a newer update of its path      *)
(*   removed    taken out of its slot for a DELETE or a RENAME             *)
(*   dropped    not entered, every slot being used                         *)
(*   done, gaveup   synchronised, or failed for the last time              *)
(*   refused    its retry found the queue stopped                          *)
(*   abandoned  still queued when the queue was destroyed                  *)
(***************************************************************************)
Fates == {"open", "merged", "removed", "dropped", "done", "gaveup", "refused",
          "abandoned"}

\* select -> flush -> push -> select ..., and at the end
\* flush_all -> push_all -> stop -> done (ctx->stop is 1) -> joined.
SchedLabels == {"select", "flush", "push", "flush_all", "push_all", "stop",
                "done", "joined"}

\* loop: at the loop condition; pop: in task_queue_pop; sync: in
\* sync_task_local or sync_task_remote; backoff: sleeping before the retry.
WorkerLabels == {"loop", "pop", "sync", "backoff", "gone"}

Events ==
    [type : {"UPDATE", "DELETE"}, path : Paths, old : {NoPath}]
      \cup {e \in [type : {"RENAME"}, path : Paths, old : Paths] : e.path # e.old}
ExitEvent == [type |-> "EXIT", path |-> NoPath, old |-> NoPath]

\* The paths an event is about.
Concerns(i) == {log[i].path, log[i].old} \ {NoPath}

TypeOK ==
    /\ log \in Seq(Events \cup {ExitEvent})
    /\ read \in 0 .. Len(log)
    /\ writersGone \in BOOLEAN
    /\ pending \in [SlotIds -> [id : Ids, age : 0 .. Debounce] \cup {FreeSlot}]
    /\ due \subseteq {i \in SlotIds : pending[i] # FreeSlot}
    /\ schedPc \in SchedLabels
    /\ Q!FifoTypeOK
    /\ workerPc \in [Workers -> WorkerLabels]
    /\ \A w \in Workers : workerPc[w] \in {"sync", "backoff"} => task[w] \in TaskSet
    /\ fate \in [Ids -> Fates]
    /\ tries \in [Ids -> Nat]
    /\ quiet \in [Paths -> 0 .. Debounce]

Init ==
    /\ log = <<>> /\ read = 0 /\ writersGone = FALSE
    /\ pending = [i \in SlotIds |-> FreeSlot]
    /\ due = {}
    /\ schedPc = "select"
    /\ Q!FifoInit
    /\ workerPc = [w \in Workers |-> "loop"]
    /\ fate = [i \in Ids |-> "open"]
    /\ tries = [i \in Ids |-> 0]
    /\ quiet = [p \in Paths |-> Debounce]

-----------------------------------------------------------------------------
(* The other end of the pipe, and the clock *)

ExitSent == \E i \in DOMAIN log : log[i] = ExitEvent

Running == schedPc # "joined"

\* monitor_process sends an event, or main sends EXIT.  What is written after
\* EXIT is never read.
Emit(e) ==
    /\ Running /\ ~writersGone /\ ~ExitSent
    /\ Len(log) < MaxEvents
    /\ log' = Append(log, e)
    /\ UNCHANGED <<read, writersGone, pending, due, schedPc, quiet, queueVars,
                   workerPc, fate, tries>>

\* main sends EXIT once, when it stops.
SendExit == Emit(ExitEvent)

\* main and the monitor die: the scheduler will read end of file.
LoseWriters ==
    /\ Running /\ ~writersGone /\ ~ExitSent
    /\ writersGone' = TRUE
    /\ UNCHANGED <<log, read, pending, due, schedPc, quiet, queueVars, workerPc,
                   fate, tries>>

Older(n) == IF n < Debounce THEN n + 1 ELSE n

\* Time passes; once the scheduler leaves its loop nobody reads the clock.
Tick ==
    /\ schedPc \in {"select", "flush", "push"}
    /\ \/ \E i \in SlotIds : pending[i] # FreeSlot /\ pending[i].age < Debounce
       \/ \E p \in Paths : quiet[p] < Debounce
    /\ pending' = [i \in SlotIds |-> IF pending[i] = FreeSlot THEN FreeSlot
                                     ELSE [pending[i] EXCEPT !.age = Older(@)]]
    /\ quiet' = [p \in Paths |-> Older(quiet[p])]
    /\ UNCHANGED <<log, read, writersGone, due, schedPc, queueVars, workerPc,
                   fate, tries>>

-----------------------------------------------------------------------------
(* The pending table *)

PathOf(i) == log[pending[i].id].path
Used == {i \in SlotIds : pending[i] # FreeSlot}

\* MUTANT: a path that is not found clears the first slot.
SlotsOfOrFirst(p) ==
    LET found == {i \in Used : PathOf(i) = p} IN
    IF found = {} THEN {1} \cap Used ELSE found

\* pending_find: at most one slot has the path.
SlotsOf(p) == {i \in Used : PathOf(i) = p}

\* MUTANT: an update keeps the age of the slot it overwrites.
RefreshedKeepsAge(slot, i) == [id |-> i, age |-> slot.age]

\* The slot after pending_update_or_insert: last_update_ms is the present.
Refreshed(slot, i) == [id |-> i, age |-> 0]

\* pending_update_or_insert: the slot of the path, or else the first free one;
\* with neither the event is dropped, and nobody is told.
DebounceUpdate(i) ==
    LET same == SlotsOf(log[i].path)
        free == SlotIds \ Used
    IN  \/ \E s \in same :
            /\ pending' = [pending EXCEPT ![s] = Refreshed(@, i)]
            /\ fate' = [fate EXCEPT ![pending[s].id] = "merged"]
        \/ /\ same = {}
           /\ \E s \in free :
                /\ \A r \in free : s <= r
                /\ pending' = [pending EXCEPT ![s] = Refreshed(@, i)]
           /\ UNCHANGED fate
        \/ /\ same = {} /\ free = {}
           /\ fate' = [fate EXCEPT ![i] = "dropped"]
           /\ UNCHANGED pending

\* task_queue_push; its result is ignored by every caller.
Push(x) ==
    \/ Q!Push(x) /\ UNCHANGED fate
    \/ /\ stopped
       /\ fate' = [fate EXCEPT ![x.id] = "refused"]
       /\ UNCHANGED queueVars

FirstTry(i) == [id |-> i, retry |-> 0]

-----------------------------------------------------------------------------
(* scheduler_thread_main *)

\* MUTANT: a timeout goes back to select, as EINTR does.
AfterTimeoutSelect == "select"

AfterTimeout == "flush"

\* select times out: there is nothing to read, and the flush runs.
SelectTimeout ==
    /\ schedPc = "select"
    /\ read = Len(log) /\ ~writersGone
    /\ schedPc' = AfterTimeout
    /\ UNCHANGED <<log, read, writersGone, pending, due, quiet, queueVars, workerPc,
                   fate, tries>>

\* MUTANT: a RENAME clears the slot of its new path only.
ClearedNewOnly(i) == SlotsOf(log[i].path)

\* The pending slots that an immediate event clears.
Cleared(i) == UNION {SlotsOf(p) : p \in Concerns(i)}

ReadImmediate ==
    LET i == read + 1
        gone == Cleared(i)
    IN  /\ schedPc = "select"
        /\ read < Len(log)
        /\ log[i].type \in {"DELETE", "RENAME"}
        /\ pending' = [s \in SlotIds |-> IF s \in gone THEN FreeSlot ELSE pending[s]]
        /\ Q!Push(FirstTry(i))
        /\ fate' = [k \in Ids |-> IF \E s \in gone : pending[s].id = k THEN "removed"
                                  ELSE fate[k]]
        /\ read' = i
        /\ quiet' = [p \in Paths |-> IF p \in Concerns(i) THEN 0 ELSE quiet[p]]
        /\ schedPc' = "flush"
        /\ UNCHANGED <<log, writersGone, due, workerPc, tries>>

\* should_debounce
ReadUpdate ==
    LET i == read + 1
    IN  /\ schedPc = "select"
        /\ read < Len(log)
        /\ log[i].type = "UPDATE"
        /\ DebounceUpdate(i)
        /\ read' = i
        /\ quiet' = [quiet EXCEPT ![log[i].path] = 0]
        /\ schedPc' = "flush"
        /\ UNCHANGED <<log, writersGone, due, queueVars, workerPc, tries>>

\* MUTANT: end of file is taken for "nothing to read".
EndOfFileIgnored == FALSE

\* read_full returns -1: nothing is left, and nobody can write any more.
EndOfFile == read = Len(log) /\ writersGone

\* EXIT, or end of file.  A failing select would end the loop as well, but on
\* this descriptor it does not fail.
ReadExit ==
    /\ schedPc = "select"
    /\ \/ /\ read < Len(log) /\ log[read + 1] = ExitEvent
          /\ read' = read + 1
       \/ EndOfFile /\ UNCHANGED read
    /\ schedPc' = "flush_all"
    /\ UNCHANGED <<log, writersGone, pending, due, quiet, queueVars, workerPc, fate,
                   tries>>

IsDue(i) == pending[i].age >= Debounce

\* pending_flush_stable_tasks reads the clock once; pending_flush_all, never.
FlushScan ==
    /\ \/ schedPc = "flush" /\ schedPc' = "push" /\ due' = {i \in Used : IsDue(i)}
       \/ schedPc = "flush_all" /\ schedPc' = "push_all" /\ due' = Used
    /\ UNCHANGED <<log, read, writersGone, pending, quiet, queueVars, workerPc, fate,
                   tries>>

\* MUTANT: the slot is not cleared once its task is pushed.
AfterFlushKept(i) == pending

AfterFlush(i) == [pending EXCEPT ![i] = FreeSlot]

FlushPush ==
    /\ schedPc \in {"push", "push_all"}
    /\ \E i \in due :
        /\ \A j \in due : i <= j
        /\ Push(FirstTry(pending[i].id))
        /\ pending' = AfterFlush(i)
        /\ due' = due \ {i}
    /\ UNCHANGED <<log, read, writersGone, schedPc, quiet, workerPc, tries>>

FlushDone ==
    /\ due = {}
    /\ \/ schedPc = "push" /\ schedPc' = "select"
       \/ schedPc = "push_all" /\ schedPc' = "stop"
    /\ UNCHANGED <<log, read, writersGone, pending, due, quiet, queueVars, workerPc,
                   fate, tries>>

StopQueue ==
    /\ schedPc = "stop" /\ ~stopped
    /\ Q!Stop
    /\ UNCHANGED <<schedVars, workerPc, fate, tries>>

SetCtxStop ==
    /\ schedPc = "stop" /\ stopped
    /\ schedPc' = "done"
    /\ UNCHANGED <<log, read, writersGone, pending, due, quiet, queueVars, workerPc,
                   fate, tries>>

-----------------------------------------------------------------------------
(* worker_thread_main *)

WorkerGoes(w, from, to) == workerPc[w] = from /\ workerPc' = [workerPc EXCEPT ![w] = to]

CtxStop == schedPc \in {"done", "joined"}

\* `while (!ctx->stop)'; the SyncTask is a variable of the loop body.
CheckStop(w) ==
    /\ WorkerGoes(w, "loop", IF CtxStop THEN "gone" ELSE "pop")
    /\ task' = [task EXCEPT ![w] = NoTask]
    /\ UNCHANGED <<schedVars, fifo, stopped, drained, fate, tries>>

PopTask(w) ==
    /\ WorkerGoes(w, "pop", "sync")
    /\ Q!Pop(w)
    /\ tries' = [tries EXCEPT ![Head(fifo).id] = @ + 1]
    /\ UNCHANGED <<schedVars, fate>>

PopDrained(w) ==
    /\ WorkerGoes(w, "pop", "gone")
    /\ Q!PopDrained(w)
    /\ UNCHANGED <<schedVars, fate, tries>>

SyncSucceeds(w) ==
    /\ WorkerGoes(w, "sync", "loop")
    /\ fate' = [fate EXCEPT ![task[w].id] = "done"]
    /\ UNCHANGED <<schedVars, queueVars, tries>>

\* MUTANT: retry_count is not incremented.
RetriedUncounted(x) == x

Retried(x) == [x EXCEPT !.retry = @ + 1]

\* MUTANT: one retry more than MAX_RETRY_COUNT.
MayRetryOnceMore(x) == x.retry <= MaxRetry

MayRetry(x) == x.retry < MaxRetry

\* requeue_or_fail up to its sleep_ms(300).
SyncFails(w) ==
    /\ WorkerGoes(w, "sync", "backoff")
    /\ MayRetry(task[w])
    /\ task' = [task EXCEPT ![w] = Retried(@)]
    /\ UNCHANGED <<schedVars, fifo, stopped, drained, fate, tries>>

GiveUp(w) ==
    /\ WorkerGoes(w, "sync", "loop")
    /\ ~MayRetry(task[w])
    /\ fate' = [fate EXCEPT ![task[w].id] = "gaveup"]
    /\ UNCHANGED <<schedVars, queueVars, tries>>

\* The push of requeue_or_fail: `retry' is logged whether it was accepted or not.
RetryPush(w) ==
    /\ WorkerGoes(w, "backoff", "loop")
    /\ Push(task[w])
    /\ UNCHANGED <<schedVars, tries>>

\* transfer_process: join every thread and destroy the queue.
JoinAll ==
    /\ schedPc = "done"
    /\ \A w \in Workers : workerPc[w] = "gone"
    /\ Q!Discard
    /\ fate' = [i \in Ids |-> IF \E k \in DOMAIN fifo : fifo[k].id = i
                              THEN "abandoned" ELSE fate[i]]
    /\ schedPc' = "joined"
    /\ UNCHANGED <<log, read, writersGone, pending, due, quiet, workerPc, tries>>

\* _exit(0)
Exited == schedPc = "joined" /\ UNCHANGED vars

-----------------------------------------------------------------------------
Scheduler ==
    \/ SelectTimeout \/ ReadImmediate \/ ReadUpdate \/ ReadExit
    \/ FlushScan \/ FlushPush \/ FlushDone
    \/ StopQueue \/ SetCtxStop

Sync(w) == SyncSucceeds(w) \/ SyncFails(w) \/ GiveUp(w)

Worker(w) ==
    \/ CheckStop(w) \/ PopTask(w) \/ PopDrained(w)
    \/ Sync(w) \/ RetryPush(w)

Next ==
    \/ \E e \in Events : Emit(e)
    \/ SendExit \/ LoseWriters
    \/ Tick
    \/ Scheduler
    \/ \E w \in Workers : Worker(w)
    \/ JoinAll
    \/ Exited

Spec == Init /\ [][Next]_vars

(***************************************************************************)
(* Time passes, threads run, and a synchronisation ends, well or badly.    *)
(* The last is so in local mode; in remote mode the sockets have no        *)
(* timeout, and a server that stays silent holds its worker for ever.      *)
(***************************************************************************)
FairSpec ==
    /\ Spec
    /\ WF_vars(Tick) /\ WF_vars(Scheduler) /\ WF_vars(JoinAll)
    /\ \A w \in Workers : WF_vars(Worker(w))

-----------------------------------------------------------------------------
(* What must hold *)

InPending(i) == {s \in SlotIds : pending[s].id = i}
InQueue(i) == {k \in DOMAIN fifo : fifo[k].id = i}
HeldBy(i) == {w \in Workers : workerPc[w] \in {"sync", "backoff"} /\ task[w].id = i}

\* An event that was read, and has not ended, is in exactly one place, once: a
\* pending slot, the queue, or a worker.  An event that ended is in none
\* (transfer.c:37-79, 123-137, 149-163): no slot is flushed twice, no retry
\* duplicates a task, nothing vanishes without one of the recorded reasons.
EveryEventAccounted ==
    \A i \in Ids :
        LET places == Cardinality(InPending(i)) + Cardinality(InQueue(i))
                        + Cardinality(HeldBy(i))
        IN  places = IF i <= read /\ log[i] # ExitEvent /\ fate[i] = "open"
                     THEN 1 ELSE 0

\* What leaves the pending table without being pushed was superseded by a newer
\* event about the same path, which the scheduler has read (transfer.c:37-55,
\* 123-127); so of each path the newest event is never merged away.
SupersededByNewer ==
    \A i \in Ids : fate[i] \in {"merged", "removed"} =>
        \E j \in (i + 1) .. read : Concerns(i) \cap Concerns(j) # {}

\* Debouncing never reorders the events of a path: an event still pending is
\* newer than all the queued ones about its path, and the first tries in the
\* queue are in the order of the events (transfer.c:123-137).  Retries do
\* reorder.
FirstTriesInOrder ==
    /\ \A k, l \in DOMAIN fifo :
        /\ k < l /\ fifo[k].retry = 0 /\ fifo[l].retry = 0
        /\ Concerns(fifo[k].id) \cap Concerns(fifo[l].id) # {}
        => fifo[k].id < fifo[l].id
    /\ \A k \in DOMAIN fifo, s \in Used :
        PathOf(s) \in Concerns(fifo[k].id) => fifo[k].id < pending[s].id

\* A task is given up after exactly MaxRetry + 1 tries, and no task has more
\* (transfer.c:151-162).
GivenUpAfterAllTries ==
    \A i \in Ids : /\ tries[i] <= MaxRetry + 1
                   /\ fate[i] = "gaveup" => tries[i] = MaxRetry + 1

\* The debounce promise of transfer.c:57-69: while the scheduler runs, an update
\* enters the queue only as the newest event read about its path, and only when
\* nothing about that path was read for debounce_ms.
UpdateIsQueued(i) ==
    /\ log[i].type = "UPDATE"
    /\ schedPc = "push"
    /\ InQueue(i) = {} /\ InQueue(i)' # {} /\ HeldBy(i) = {}

QueuedOnlyWhenStable ==
    [][\A i \in 1 .. read : UpdateIsQueued(i) =>
         /\ quiet[log[i].path] = Debounce
         /\ \A j \in (i + 1) .. read : log[i].path \notin Concerns(j)]_vars

\* Every event that is read ends, and every event is read, unless the process
\* exits first: no event waits in the table for ever, no retry goes on for ever.
EveryEventEnds ==
    \A i \in Ids :
        (i <= Len(log) /\ log[i] # ExitEvent) ~> (fate[i] # "open" \/ schedPc = "joined")

\* EXIT, or the loss of the writers, ends the process: every worker is joined
\* (transfer.c:118-121, 143-146, 692-703).
ExitEndsProcess == (ExitSent \/ writersGone) ~> schedPc = "joined"
=============================================================================

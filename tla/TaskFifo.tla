------------------------------ MODULE TaskFifo ------------------------------
(***************************************************************************)
(* What include/task_queue.h promises its callers: an unbounded FIFO of    *)
(* tasks that can be stopped.  task_queue_push appends, and is refused     *)
(* once the queue is stopped.  task_queue_pop hands the oldest task to one *)
(* caller; it returns 0 only when the queue is stopped AND drained.        *)
(*                                                                         *)
(* TaskQueue (the linked list with its mutex and condition variable)       *)
(* implements this module, and Transfer uses its actions as its queue.     *)
(***************************************************************************)
EXTENDS Sequences

CONSTANTS
    Workers,    \* the threads that call task_queue_pop
    Tasks,      \* the SyncTask values that can be queued
    NoTask      \* the content of a SyncTask variable that was never filled

VARIABLES
    fifo,       \* the queued tasks, oldest first
    stopped,    \* TaskQueue.stopped
    task,       \* for each worker, the SyncTask that its last pop filled
    drained     \* the workers whose pop returned 0

fifoVars == <<fifo, stopped, task, drained>>

FifoTypeOK ==
    /\ fifo \in Seq(Tasks)
    /\ stopped \in BOOLEAN
    /\ task \in [Workers -> Tasks \cup {NoTask}]
    /\ drained \subseteq Workers

FifoInit ==
    /\ fifo = <<>>
    /\ stopped = FALSE
    /\ task = [w \in Workers |-> NoTask]
    /\ drained = {}

\* A push that is accepted.  A refused push returns -1 and changes nothing.
Push(x) ==
    /\ ~stopped
    /\ fifo' = Append(fifo, x)
    /\ UNCHANGED <<stopped, task, drained>>

\* A pop that returns 1.  A stopped queue still hands out what it holds.
Pop(w) ==
    /\ w \notin drained
    /\ fifo # <<>>
    /\ task' = [task EXCEPT ![w] = Head(fifo)]
    /\ fifo' = Tail(fifo)
    /\ UNCHANGED <<stopped, drained>>

\* A pop that returns 0.
PopDrained(w) ==
    /\ w \notin drained
    /\ fifo = <<>>
    /\ stopped
    /\ drained' = drained \cup {w}
    /\ UNCHANGED <<fifo, stopped, task>>

Stop ==
    /\ stopped' = TRUE
    /\ UNCHANGED <<fifo, task, drained>>

\* task_queue_destroy, once every worker is gone: what is left is discarded.
Discard ==
    /\ stopped
    /\ fifo' = <<>>
    /\ UNCHANGED <<stopped, task, drained>>

FifoNext ==
    \/ \E x \in Tasks : Push(x)
    \/ \E w \in Workers : Pop(w) \/ PopDrained(w)
    \/ Stop
    \/ Discard

FifoSpec == FifoInit /\ [][FifoNext]_fifoVars
=============================================================================

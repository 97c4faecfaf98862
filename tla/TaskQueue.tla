------------------------------ MODULE TaskQueue ------------------------------
(***************************************************************************)
(* src/task_queue.c at the grain of its mutex: calloc and free happen      *)
(* outside the lock, pthread_mutex_lock is a step of its own, and each     *)
(* critical section is one step, because every field of TaskQueue is read  *)
(* and written only under q->mutex.                                        *)
(*                                                                         *)
(* The callers are those of src/transfer.c: the scheduler pushes, then     *)
(* stops the queue, then sets ctx->stop; the workers pop, and push again   *)
(* what failed; transfer_process joins them all and destroys the queue.    *)
(***************************************************************************)
EXTENDS Naturals, Sequences, FiniteSets

CONSTANTS
    Workers,     \* threads running worker_thread_main
    Scheduler,   \* the thread running scheduler_thread_main
    Tasks,       \* SyncTask values
    NoTask,      \* a SyncTask variable that was never filled
    Nodes,       \* addresses calloc can return
    NULL,        \* the null pointer, and the owner of a free mutex
    MaxPushes    \* BOUND: calls of task_queue_push that get their node

ASSUME TaskQueueAssumption ==
    /\ Scheduler \notin Workers
    /\ NULL \notin Nodes \cup Workers \cup {Scheduler}
    /\ NoTask \notin Tasks
    /\ IsFiniteSet(Workers)
    /\ MaxPushes \in Nat

Threads == Workers \cup {Scheduler}

VARIABLES
    front, rear, size, stopped,   \* the TaskQueue fields
    mutex,       \* the thread that holds q->mutex, or NULL
    next, item,  \* TaskNode.next and TaskNode.task of every node
    heap,        \* the nodes that are allocated
    pc,          \* where each thread is
    node,        \* each thread's local pointer `node'
    task,        \* each worker's local SyncTask
    drained,     \* the workers whose pop returned 0
    pushes,      \* how many nodes were allocated so far (for MaxPushes)
    order        \* AUXILIARY: the linked nodes, oldest first

queueVars == <<front, rear, size, stopped, order>>
vars == <<front, rear, size, stopped, mutex, next, item, heap, pc, node,
          task, drained, pushes, order>>

(***************************************************************************)
(* idle        at the head of its loop                                     *)
(* holding     a worker popped a task and is synchronising it              *)
(* lock_xxx    about to call pthread_mutex_lock                            *)
(* push, pop, stop   inside the critical section                           *)
(* asleep      in pthread_cond_wait, mutex released                        *)
(* woken       in pthread_cond_wait, reacquiring the mutex                 *)
(* pop_free    popped and unlocked, node not freed yet                     *)
(* stopped     task_queue_stop returned, ctx->stop still 0 (scheduler)     *)
(* gone        the thread's main function returned; for the scheduler this *)
(*             is also ctx->stop = 1                                       *)
(* joined      transfer_process destroyed the queue (scheduler)            *)
(***************************************************************************)
Labels == {"idle", "holding", "lock_push", "push", "lock_pop", "pop", "asleep", "woken",
           "pop_free", "lock_stop", "stop", "stopped", "gone", "joined"}

TypeOK ==
    /\ front \in Nodes \cup {NULL}
    /\ rear \in Nodes \cup {NULL}
    /\ size \in Nat
    /\ stopped \in BOOLEAN
    /\ mutex \in Threads \cup {NULL}
    /\ next \in [Nodes -> Nodes \cup {NULL}]
    /\ item \in [Nodes -> Tasks \cup {NoTask}]
    /\ heap \subseteq Nodes
    /\ pc \in [Threads -> Labels]
    /\ node \in [Threads -> Nodes \cup {NULL}]
    /\ task \in [Workers -> Tasks \cup {NoTask}]
    /\ \A n \in heap : item[n] \in Tasks
    /\ drained \subseteq Workers
    /\ pushes \in Nat
    /\ order \in Seq(Nodes)

Init ==
    /\ front = NULL /\ rear = NULL /\ size = 0 /\ stopped = FALSE
    /\ mutex = NULL
    /\ next = [n \in Nodes |-> NULL]
    /\ item = [n \in Nodes |-> NoTask]
    /\ heap = {}
    /\ pc = [t \in Threads |-> "idle"]
    /\ node = [t \in Threads |-> NULL]
    /\ task = [w \in Workers |-> NoTask]
    /\ drained = {}
    /\ pushes = 0
    /\ order = <<>>

Asleep == {w \in Workers : pc[w] = "asleep"}

\* Workers inside task_queue_pop that will still look at the queue.
Awake == {w \in Workers : pc[w] \in {"lock_pop", "woken", "pop"}}

-----------------------------------------------------------------------------
\* pthread_mutex_lock, also the one inside pthread_cond_wait.
AfterLock(l) ==
    IF l = "lock_push" THEN "push" ELSE IF l = "lock_stop" THEN "stop" ELSE "pop"

Lock(t) ==
    /\ pc[t] \in {"lock_push", "lock_pop", "woken", "lock_stop"}
    /\ mutex = NULL
    /\ mutex' = t
    /\ pc' = [pc EXCEPT ![t] = AfterLock(pc[t])]
    /\ UNCHANGED <<front, rear, size, stopped, next, item, heap, node, task,
                   drained, pushes, order>>

-----------------------------------------------------------------------------
(* task_queue_push *)

\* The scheduler pushes what it read, a worker the task it failed to sync.
MayPush(t, x) ==
    \/ t = Scheduler /\ pc[t] = "idle"
    \/ t \in Workers /\ pc[t] = "holding" /\ x = task[t]

\* MUTANT: the copy of the task into the node is forgotten.
NodeTaskUnset(x) == NoTask

\* What the new node holds: `node->task = *task'.
NodeTask(x) == x

\* calloc zeroes the node.  When it returns NULL the push returns -1 and
\* nothing has changed: for a worker that is Finish.
PushCalloc(t, x) ==
    /\ MayPush(t, x)
    /\ pushes < MaxPushes
    /\ \E n \in Nodes \ heap :
        /\ heap' = heap \cup {n}
        /\ next' = [next EXCEPT ![n] = NULL]
        /\ item' = [item EXCEPT ![n] = NodeTask(x)]
        /\ node' = [node EXCEPT ![t] = n]
    /\ pushes' = pushes + 1
    /\ pc' = [pc EXCEPT ![t] = "lock_push"]
    /\ UNCHANGED <<queueVars, mutex, task, drained>>

\* MUTANT: the refused node is not freed.
PushRefusedLeaks(t) ==
    /\ pc[t] = "push"
    /\ stopped
    /\ mutex' = NULL
    /\ node' = [node EXCEPT ![t] = NULL]
    /\ pc' = [pc EXCEPT ![t] = "idle"]
    /\ UNCHANGED <<queueVars, next, item, heap, task, drained, pushes>>

PushRefused(t) ==
    /\ pc[t] = "push"
    /\ stopped
    /\ mutex' = NULL
    /\ heap' = heap \ {node[t]}
    /\ node' = [node EXCEPT ![t] = NULL]
    /\ pc' = [pc EXCEPT ![t] = "idle"]
    /\ UNCHANGED <<queueVars, next, item, task, drained, pushes>>

\* MUTANT: the new task is not signalled.
SignalForgotten(t) == pc' = [pc EXCEPT ![t] = "idle"]

\* MUTANT: only a push into an empty queue signals.
SignalIfWasEmpty(t) ==
    \/ (Asleep = {} \/ size > 0) /\ pc' = [pc EXCEPT ![t] = "idle"]
    \/ /\ size = 0
       /\ \E w \in Asleep : pc' = [pc EXCEPT ![t] = "idle", ![w] = "woken"]

\* pthread_cond_signal wakes one sleeper, if there is one.
Signal(t) ==
    \/ Asleep = {} /\ pc' = [pc EXCEPT ![t] = "idle"]
    \/ \E w \in Asleep : pc' = [pc EXCEPT ![t] = "idle", ![w] = "woken"]

PushLink(t) ==
    /\ pc[t] = "push"
    /\ ~stopped
    /\ IF rear # NULL
       THEN next' = [next EXCEPT ![rear] = node[t]] /\ UNCHANGED front
       ELSE front' = node[t] /\ UNCHANGED next
    /\ rear' = node[t]
    /\ size' = size + 1
    /\ order' = Append(order, node[t])
    /\ node' = [node EXCEPT ![t] = NULL]
    /\ Signal(t)
    /\ mutex' = NULL
    /\ UNCHANGED <<stopped, item, heap, task, drained, pushes>>

-----------------------------------------------------------------------------
(* task_queue_pop, called from the loop `while (!ctx->stop)' of a worker *)

PopCall(w) ==
    /\ pc[w] = "idle"
    /\ pc[Scheduler] \notin {"gone", "joined"}
    /\ pc' = [pc EXCEPT ![w] = "lock_pop"]
    /\ UNCHANGED <<queueVars, mutex, next, item, heap, node, task, drained, pushes>>

PopWait(w) ==
    /\ pc[w] = "pop"
    /\ size = 0 /\ ~stopped
    /\ mutex' = NULL
    /\ pc' = [pc EXCEPT ![w] = "asleep"]
    /\ UNCHANGED <<queueVars, next, item, heap, node, task, drained, pushes>>

\* pthread_cond_wait may return without a signal.
SpuriousWakeup(w) ==
    /\ pc[w] = "asleep"
    /\ pc' = [pc EXCEPT ![w] = "woken"]
    /\ UNCHANGED <<queueVars, mutex, next, item, heap, node, task, drained, pushes>>

\* MUTANT: a stopped queue is left with its tasks in it.
StoppedOnly == stopped

StoppedAndEmpty == size = 0 /\ stopped

\* pop returns 0 and the worker breaks out of its loop.
PopDrained(w) ==
    /\ pc[w] = "pop"
    /\ StoppedAndEmpty
    /\ mutex' = NULL
    /\ drained' = drained \cup {w}
    /\ pc' = [pc EXCEPT ![w] = "gone"]
    /\ UNCHANGED <<queueVars, next, item, heap, node, task, pushes>>

\* MUTANT: the last pop leaves rear pointing at the freed node.
RearKept == rear

RearAfterPop == IF next[front] = NULL THEN NULL ELSE rear

PopTake(w) ==
    /\ pc[w] = "pop"
    /\ size # 0
    /\ node' = [node EXCEPT ![w] = front]
    /\ front' = next[front]
    /\ rear' = RearAfterPop
    /\ size' = size - 1
    /\ task' = [task EXCEPT ![w] = item[front]]
    /\ order' = Tail(order)
    /\ mutex' = NULL
    /\ pc' = [pc EXCEPT ![w] = "pop_free"]
    /\ UNCHANGED <<stopped, next, item, heap, drained, pushes>>

PopFree(w) ==
    /\ pc[w] = "pop_free"
    /\ heap' = heap \ {node[w]}
    /\ node' = [node EXCEPT ![w] = NULL]
    /\ pc' = [pc EXCEPT ![w] = "holding"]
    /\ UNCHANGED <<queueVars, mutex, next, item, task, drained, pushes>>

\* The task was synchronised or given up, or its retry got no memory.
Finish(w) ==
    /\ pc[w] = "holding"
    /\ pc' = [pc EXCEPT ![w] = "idle"]
    /\ UNCHANGED <<queueVars, mutex, next, item, heap, node, task, drained, pushes>>

\* The loop condition `!ctx->stop' fails: the queue is not looked at again.
Leave(w) ==
    /\ pc[w] = "idle"
    /\ pc[Scheduler] = "gone"
    /\ pc' = [pc EXCEPT ![w] = "gone"]
    /\ UNCHANGED <<queueVars, mutex, next, item, heap, node, task, drained, pushes>>

-----------------------------------------------------------------------------
(* task_queue_stop and task_queue_destroy *)

StopCall ==
    /\ pc[Scheduler] = "idle"
    /\ pc' = [pc EXCEPT ![Scheduler] = "lock_stop"]
    /\ UNCHANGED <<queueVars, mutex, next, item, heap, node, task, drained, pushes>>

\* MUTANT: task_queue_stop signals where it must broadcast.
StopSignals ==
    /\ pc[Scheduler] = "stop"
    /\ stopped' = TRUE
    /\ \/ Asleep = {} /\ pc' = [pc EXCEPT ![Scheduler] = "stopped"]
       \/ \E w \in Asleep :
            pc' = [pc EXCEPT ![Scheduler] = "stopped", ![w] = "woken"]
    /\ mutex' = NULL
    /\ UNCHANGED <<front, rear, size, next, item, heap, node, task, drained,
                   pushes, order>>

StopBroadcast ==
    /\ pc[Scheduler] = "stop"
    /\ stopped' = TRUE
    /\ pc' = [t \in Threads |-> IF t = Scheduler THEN "stopped"
                                ELSE IF pc[t] = "asleep" THEN "woken" ELSE pc[t]]
    /\ mutex' = NULL
    /\ UNCHANGED <<front, rear, size, next, item, heap, node, task, drained,
                   pushes, order>>

\* ctx->stop = 1, and the scheduler thread returns.
SetCtxStop ==
    /\ pc[Scheduler] = "stopped"
    /\ pc' = [pc EXCEPT ![Scheduler] = "gone"]
    /\ UNCHANGED <<queueVars, mutex, next, item, heap, node, task, drained, pushes>>

Linked == {order[i] : i \in DOMAIN order}

\* Every thread was joined.  The walk from front along next frees every linked
\* node: ListShape says that these are the nodes of `order'.
Destroy ==
    /\ pc[Scheduler] = "gone"
    /\ \A w \in Workers : pc[w] = "gone"
    /\ heap' = heap \ Linked
    /\ front' = NULL /\ rear' = NULL /\ size' = 0 /\ order' = <<>>
    /\ pc' = [pc EXCEPT ![Scheduler] = "joined"]
    /\ UNCHANGED <<stopped, mutex, next, item, node, task, drained, pushes>>

\* _exit(0): the process is over, which is not a deadlock.
Exited == pc[Scheduler] = "joined" /\ UNCHANGED vars

-----------------------------------------------------------------------------
\* The steps a running thread goes on to take, whatever its caller wants.
Continue(t) ==
    \/ PushRefused(t)
    \/ PushLink(t)
    \/ /\ t \in Workers
       /\ \/ PopCall(t) \/ PopWait(t) \/ PopDrained(t) \/ PopTake(t)
          \/ PopFree(t) \/ Finish(t) \/ Leave(t)

Next ==
    \/ \E t \in Threads, x \in Tasks : PushCalloc(t, x)
    \/ \E t \in Threads : Lock(t) \/ Continue(t)
    \/ \E w \in Workers : SpuriousWakeup(w)
    \/ StopCall \/ StopBroadcast \/ SetCtxStop
    \/ Destroy
    \/ Exited

Spec == Init /\ [][Next]_vars

(***************************************************************************)
(* The operating system runs every thread that is not blocked, and does    *)
(* not starve one of them on a mutex that is released again and again      *)
(* (critical sections are a few instructions).  A worker's synchronisation *)
(* ends: Transfer says when that is justified.  Nobody is obliged to push  *)
(* or to stop, and no wakeup is promised except by signal and broadcast.   *)
(***************************************************************************)
FairSpec ==
    /\ Spec
    /\ \A t \in Threads : WF_vars(Continue(t)) /\ SF_vars(Lock(t))
    /\ WF_vars(StopBroadcast) /\ WF_vars(SetCtxStop) /\ WF_vars(Destroy)

-----------------------------------------------------------------------------
(* What must hold *)

\* The three redundant descriptions of the list agree (task_queue.c:73-79 and
\* 97-102): following next from front visits exactly size nodes and ends in
\* rear, and rear is NULL exactly when the list is empty.
ListShape ==
    /\ size = Len(order)
    /\ front = IF order = <<>> THEN NULL ELSE order[1]
    /\ rear = IF order = <<>> THEN NULL ELSE order[Len(order)]
    /\ \A i \in DOMAIN order :
        next[order[i]] = IF i = Len(order) THEN NULL ELSE order[i + 1]

\* Nodes are neither leaked nor freed twice nor used after free: an allocated
\* node is in the list or held by the one thread that is pushing it or about
\* to free it, never both (task_queue.c:60-69, 97-106).
NodesAccounted ==
    /\ heap = Linked \cup {node[t] : t \in {u \in Threads : node[u] # NULL}}
    /\ \A i, j \in DOMAIN order : order[i] = order[j] => i = j
    /\ \A t \in Threads : node[t] \notin Linked
    /\ \A t, u \in Threads : node[t] = node[u] /\ node[t] # NULL => t = u

\* No lost wakeup (task_queue.c:80, 88-90, 114): while some worker sleeps, the
\* queue runs, and there are at least as many workers awake inside pop as there
\* are tasks for them.  A worker that wakes too late finds its task taken and
\* sleeps again; this counts the tasks, so it covers those thefts too.
NoLostWakeup ==
    Asleep # {} => ~stopped /\ size <= Cardinality(Awake)

\* A queued task does not stay behind while the queue runs: it is taken, or
\* somebody stops the queue.
BacklogIsTaken == (size > 0 /\ ~stopped) ~> (size = 0 \/ stopped)

\* Once stopped, every worker leaves and transfer_process gets through its
\* joins to task_queue_destroy (task_queue.c:110-116, transfer.c:692-699).
StopLeadsToJoin == stopped ~> pc[Scheduler] = "joined"

-----------------------------------------------------------------------------
\* The linked list implements the FIFO.
Fifo == INSTANCE TaskFifo WITH fifo <- [i \in DOMAIN order |-> item[order[i]]]
ImplementsFifo == Fifo!FifoSpec
=============================================================================

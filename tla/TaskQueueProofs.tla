-------------------------- MODULE TaskQueueProofs --------------------------
(***************************************************************************)
(* What TLC checks of TaskQueue on a small instance, proved for any number *)
(* of workers, tasks, nodes and pushes: the linked list is well formed, no *)
(* node is leaked or used after free, no wakeup is lost, and the list      *)
(* implements the FIFO of TaskFifo.                                        *)
(***************************************************************************)
EXTENDS TaskQueue, FiniteSetTheorems, SequenceTheorems, TLAPS

\* The labels at which a thread holds the mutex, and at which it owns a node.
InSection == {"push", "pop", "stop"}
OwnsNode == {"lock_push", "push", "pop_free"}

\* Where each thread may be, and what it holds there.
Control ==
    /\ \A t \in Threads : mutex = t <=> pc[t] \in InSection
    /\ \A t \in Threads : node[t] # NULL <=> pc[t] \in OwnsNode
    /\ \A t \in Threads : pc[t] \in {"lock_push", "push"} => next[node[t]] = NULL
    /\ \A w \in Workers : pc[w] \notin {"lock_stop", "stop", "stopped", "joined"}
    /\ pc[Scheduler] \notin {"holding", "lock_pop", "pop", "asleep", "woken", "pop_free"}
    /\ stopped <=> pc[Scheduler] \in {"stopped", "gone", "joined"}
    /\ \A w \in Workers : pc[w] \in {"pop_free", "holding"} => task[w] \in Tasks
    /\ \A w \in drained : pc[w] = "gone"

\* The inductive invariant.
IInv == TypeOK /\ Control /\ ListShape /\ NodesAccounted /\ NoLostWakeup

-----------------------------------------------------------------------------
LEMMA InitIInv ==
    ASSUME Init PROVE IInv
<1>1. TypeOK
  <2>1. order \in Seq(Nodes)
    BY DEF Init
  <2>2. QED
    BY <2>1, TaskQueueAssumption DEF Init, TypeOK, Labels, Threads
<1>2. Control
  BY TaskQueueAssumption DEF Init, Control, InSection, OwnsNode, Threads
<1>3. ListShape
  BY DEF Init, ListShape
<1>4. NodesAccounted
  BY TaskQueueAssumption DEF Init, NodesAccounted, Linked, Threads
<1>5. NoLostWakeup
  BY DEF Init, NoLostWakeup, Asleep, Threads
<1>6. QED
  BY <1>1, <1>2, <1>3, <1>4, <1>5 DEF IInv

\* A worker that takes a task finds the list non-empty, and takes its first node.
LEMMA FrontIsFirst ==
    ASSUME TypeOK, ListShape, size # 0
    PROVE  /\ order # <<>> /\ front = order[1] /\ front \in Nodes
           /\ front \in Linked /\ 1 \in DOMAIN order
<1>1. order # <<>>
  BY DEF TypeOK, ListShape
<1>2. 1 \in DOMAIN order /\ order[1] \in Nodes
  BY <1>1 DEF TypeOK
<1>3. QED
  BY <1>1, <1>2 DEF ListShape, Linked

\* pthread_cond_signal moves at most one sleeper, and nobody else.
LEMMA SignalEffect ==
    ASSUME NEW t \in Threads, pc \in [Threads -> Labels], pc[t] = "push", Signal(t)
    PROVE  /\ pc'[t] = "idle" /\ pc' \in [Threads -> Labels]
           /\ \A u \in Threads \ {t} :
                pc'[u] # pc[u] => pc[u] = "asleep" /\ pc'[u] = "woken"
           /\ Asleep # {} => \E w \in Asleep :
                /\ pc'[w] = "woken"
                /\ \A u \in Threads \ {t, w} : pc'[u] = pc[u]
<1>1. CASE Asleep = {} /\ pc' = [pc EXCEPT ![t] = "idle"]
  <2>1. pc' \in [Threads -> Labels]
    BY <1>1 DEF Labels
  <2>2. pc'[t] = "idle" /\ \A u \in Threads : u # t => pc'[u] = pc[u]
    BY <1>1
  <2>3. QED
    BY <1>1, <2>1, <2>2
<1>2. CASE \E w \in Asleep : pc' = [pc EXCEPT ![t] = "idle", ![w] = "woken"]
  <2>1. PICK w \in Asleep : pc' = [pc EXCEPT ![t] = "idle", ![w] = "woken"]
    BY <1>2
  <2>2. w \in Threads /\ w # t /\ pc[w] = "asleep"
    BY DEF Asleep, Threads
  <2>3. \A u \in Threads : pc'[u] = IF u = w THEN "woken"
                                   ELSE IF u = t THEN "idle" ELSE pc[u]
    BY <2>1, <2>2
  <2>4. pc' \in [Threads -> Labels]
    BY <2>1, <2>2 DEF Labels
  <2>5. pc'[t] = "idle" /\ pc'[w] = "woken"
    BY <2>2, <2>3
  <2>6. \A u \in Threads \ {t, w} : pc'[u] = pc[u]
    BY <2>3
  <2>7. \A u \in Threads \ {t} :
        pc'[u] # pc[u] => pc[u] = "asleep" /\ pc'[u] = "woken"
    BY <2>2, <2>5, <2>6
  <2>8. QED
    BY <2>4, <2>5, <2>6, <2>7
<1>3. QED
  BY <1>1, <1>2 DEF Signal

LEMMA RearIsLinked ==
    ASSUME TypeOK, ListShape, rear # NULL
    PROVE  /\ order # <<>> /\ rear = order[Len(order)] /\ rear \in Linked
           /\ Len(order) \in DOMAIN order
<1>1. order # <<>> /\ rear = order[Len(order)]
  BY DEF ListShape
<1>2. Len(order) \in DOMAIN order
  BY <1>1 DEF TypeOK
<1>3. QED
  BY <1>1, <1>2 DEF Linked

-----------------------------------------------------------------------------
LEMMA TypeStep ==
    ASSUME IInv, Next PROVE TypeOK'
<1> USE TaskQueueAssumption DEF IInv, TypeOK, Labels, Threads, queueVars
<1>1. ASSUME NEW t \in Threads, NEW x \in Tasks, PushCalloc(t, x)
      PROVE  TypeOK'
  BY <1>1 DEF PushCalloc, NodeTask
<1>2. ASSUME NEW t \in Threads, Lock(t)
      PROVE  TypeOK'
  BY <1>2 DEF Lock, AfterLock
<1>3. ASSUME NEW t \in Threads, PushRefused(t)
      PROVE  TypeOK'
  BY <1>3 DEF PushRefused
<1>4. ASSUME NEW t \in Threads, PushLink(t)
      PROVE  TypeOK'
  <2>1. node[t] \in Nodes
    BY <1>4 DEF PushLink, Control, OwnsNode
  <2>2. pc' \in [Threads -> Labels]
    BY <1>4 DEF PushLink, Signal, Asleep
  <2>3. order' \in Seq(Nodes)
    BY <1>4, <2>1 DEF PushLink
  <2>4. front' \in Nodes \cup {NULL} /\ next' \in [Nodes -> Nodes \cup {NULL}]
    BY <1>4, <2>1 DEF PushLink
  <2>5. rear' \in Nodes /\ size' \in Nat /\ node' \in [Threads -> Nodes \cup {NULL}]
    BY <1>4, <2>1 DEF PushLink
  <2>6. QED
    BY <1>4, <2>2, <2>3, <2>4, <2>5 DEF PushLink
<1>5. ASSUME NEW w \in Workers, PopCall(w) \/ PopWait(w) \/ PopDrained(w)
                                \/ PopFree(w) \/ Finish(w) \/ Leave(w)
      PROVE  TypeOK'
  BY <1>5 DEF PopCall, PopWait, PopDrained, PopFree, Finish, Leave
<1>6. ASSUME NEW w \in Workers, PopTake(w)
      PROVE  TypeOK'
  <2>1. order # <<>> /\ front \in Nodes /\ front \in Linked
    BY <1>6, FrontIsFirst DEF PopTake
  <2>2. item[front] \in Tasks
    BY <2>1 DEF NodesAccounted
  <2>3. order' \in Seq(Nodes)
    BY <1>6, <2>1 DEF PopTake
  <2>4. QED
    BY <1>6, <2>1, <2>2, <2>3 DEF PopTake, RearAfterPop
<1>7. ASSUME NEW w \in Workers, SpuriousWakeup(w)
      PROVE  TypeOK'
  BY <1>7 DEF SpuriousWakeup
<1>8. ASSUME StopCall \/ StopBroadcast \/ SetCtxStop \/ Destroy
      PROVE  TypeOK'
  <2>1. CASE StopCall \/ StopBroadcast \/ SetCtxStop
    <3>1. CASE StopCall
      BY <3>1 DEF StopCall
    <3>2. CASE StopBroadcast
      BY <3>2 DEF StopBroadcast
    <3>3. CASE SetCtxStop
      BY <3>3 DEF SetCtxStop
    <3>4. QED
      BY <2>1, <3>1, <3>2, <3>3
  <2>2. CASE Destroy
    <3>1. order' \in Seq(Nodes)
      BY <2>2 DEF Destroy
    <3>2. QED
      BY <2>2, <3>1 DEF Destroy
  <2>3. QED
    BY <1>8, <2>1, <2>2
<1>9. ASSUME Exited
      PROVE  TypeOK'
  BY <1>9 DEF Exited, vars
<1>10. QED
  BY <1>1, <1>2, <1>3, <1>4, <1>5, <1>6, <1>7, <1>8, <1>9 DEF Next, Continue

LEMMA ControlStep ==
    ASSUME IInv, Next PROVE Control'
<1> USE TaskQueueAssumption
    DEF IInv, TypeOK, Control, InSection, OwnsNode, Labels, Threads, queueVars
<1>1. ASSUME NEW t \in Threads, NEW x \in Tasks, PushCalloc(t, x)
      PROVE  Control'
  BY <1>1 DEF PushCalloc, MayPush, NodesAccounted
<1>2. ASSUME NEW t \in Threads, Lock(t)
      PROVE  Control'
  BY <1>2 DEF Lock, AfterLock
<1>3. ASSUME NEW t \in Threads, PushRefused(t)
      PROVE  Control'
  BY <1>3 DEF PushRefused
<1>4. ASSUME NEW t \in Threads, PushLink(t)
      PROVE  Control'
  <2>1. pc[t] = "push" /\ node[t] \in Nodes /\ mutex = t /\ mutex' = NULL
    BY <1>4 DEF PushLink
  <2>2. \A u \in Threads \ {t} :
        pc'[u] # pc[u] => pc[u] = "asleep" /\ pc'[u] = "woken"
    BY <1>4, <2>1, SignalEffect DEF PushLink
  <2>3. pc'[t] = "idle"
    BY <1>4, <2>1, SignalEffect DEF PushLink
  <2>4. \A u \in Threads : u # t /\ node[u] # NULL => next'[node[u]] = next[node[u]]
    <3>1. SUFFICES ASSUME NEW u \in Threads, node[u] # NULL
                   PROVE  next'[node[u]] = next[node[u]]
      OBVIOUS
    <3>2. node[u] \in Nodes /\ node[u] \notin Linked
      BY <3>1 DEF NodesAccounted
    <3>3. CASE rear = NULL
      BY <1>4, <3>3 DEF PushLink
    <3>4. CASE rear # NULL
      <4>1. rear # node[u]
        BY <3>2, <3>4, RearIsLinked
      <4>2. QED
        BY <1>4, <3>2, <3>4, <4>1 DEF PushLink
    <3>5. QED
      BY <3>3, <3>4
  <2>5. node' = [node EXCEPT ![t] = NULL] /\ stopped' = stopped /\ task' = task
    BY <1>4 DEF PushLink
  <2>6. pc'[Scheduler] \in {"stopped", "gone", "joined"}
          <=> pc[Scheduler] \in {"stopped", "gone", "joined"}
    BY <2>1, <2>2, <2>3
  <2>7. drained' = drained /\ \A w \in drained : pc'[w] = "gone"
    BY <1>4, <2>1, <2>2 DEF PushLink
  <2>8. QED
    BY <2>1, <2>2, <2>3, <2>4, <2>5, <2>6, <2>7
<1>5. ASSUME NEW w \in Workers, PopCall(w) \/ PopWait(w) \/ PopDrained(w)
                                \/ PopFree(w) \/ Finish(w) \/ Leave(w)
      PROVE  Control'
  <2>1. CASE PopCall(w) \/ Finish(w) \/ Leave(w)
    BY <2>1 DEF PopCall, Finish, Leave
  <2>2. CASE PopWait(w) \/ PopFree(w)
    BY <2>2 DEF PopWait, PopFree
  <2>3. CASE PopDrained(w)
    BY <2>3 DEF PopDrained
  <2>4. QED
    BY <1>5, <2>1, <2>2, <2>3
<1>6. ASSUME NEW w \in Workers, PopTake(w)
      PROVE  Control'
  <2>1. front \in Nodes /\ item[front] \in Tasks
    BY <1>6, FrontIsFirst DEF PopTake, NodesAccounted
  <2>2. QED
    BY <1>6, <2>1 DEF PopTake
<1>7. ASSUME NEW w \in Workers, SpuriousWakeup(w)
      PROVE  Control'
  BY <1>7 DEF SpuriousWakeup
<1>8. ASSUME StopCall \/ StopBroadcast \/ SetCtxStop \/ Destroy
      PROVE  Control'
  BY <1>8 DEF StopCall, StopBroadcast, SetCtxStop, Destroy
<1>9. ASSUME Exited
      PROVE  Control'
  BY <1>9 DEF Exited, vars
<1>10. QED
  BY <1>1, <1>2, <1>3, <1>4, <1>5, <1>6, <1>7, <1>8, <1>9 DEF Next, Continue

-----------------------------------------------------------------------------
\* What a push and a pop do to the sequence of linked nodes.
LEMMA LinkAppends ==
    ASSUME TypeOK, ListShape, NodesAccounted, NEW n \in Nodes, n \notin Linked,
           order' = Append(order, n)
    PROVE  /\ Linked' = Linked \cup {n}
           /\ \A i, j \in DOMAIN order' : order'[i] = order'[j] => i = j
           /\ Len(order') = size + 1 /\ order' # <<>>
           /\ order'[Len(order')] = n
           /\ \A i \in 1 .. size : order'[i] = order[i]
<1>1. /\ Len(order) = size /\ Len(order') = size + 1 /\ size \in Nat
      /\ DOMAIN order = 1 .. size /\ DOMAIN order' = 1 .. (size + 1)
  BY DEF TypeOK, ListShape
<1>2. order'[size + 1] = n /\ \A i \in 1 .. size : order'[i] = order[i]
  BY <1>1 DEF TypeOK
<1>3. Linked' = Linked \cup {n}
  BY <1>1, <1>2 DEF Linked
<1>4. \A i, j \in DOMAIN order' : order'[i] = order'[j] => i = j
  BY <1>1, <1>2 DEF NodesAccounted, Linked
<1>5. QED
  BY <1>1, <1>2, <1>3, <1>4

LEMMA UnlinkTails ==
    ASSUME TypeOK, ListShape, NodesAccounted, size # 0, order' = Tail(order)
    PROVE  /\ Linked' = Linked \ {front}
           /\ \A i, j \in DOMAIN order' : order'[i] = order'[j] => i = j
           /\ Len(order') = size - 1
           /\ \A i \in 1 .. (size - 1) : order'[i] = order[i + 1]
<1>1. /\ Len(order) = size /\ Len(order') = size - 1 /\ size \in Nat
      /\ DOMAIN order = 1 .. size /\ DOMAIN order' = 1 .. (size - 1)
      /\ front = order[1]
  BY DEF TypeOK, ListShape
<1>2. \A i \in 1 .. (size - 1) : order'[i] = order[i + 1]
  BY <1>1 DEF TypeOK
<1>3. Linked' = Linked \ {front}
  <2>1. \A n : n \in Linked' => n \in Linked \ {front}
    BY <1>1, <1>2 DEF Linked, NodesAccounted
  <2>2. ASSUME NEW n \in Linked, n # front
        PROVE  n \in Linked'
    <3>1. PICK i \in 1 .. size : n = order[i]
      BY <1>1 DEF Linked
    <3>2. i - 1 \in 1 .. (size - 1)
      BY <1>1, <2>2, <3>1
    <3>3. order'[i - 1] = n
      BY <1>1, <1>2, <3>1, <3>2
    <3>4. QED
      BY <1>1, <3>2, <3>3 DEF Linked
  <2>3. QED
    BY <2>1, <2>2
<1>4. \A i, j \in DOMAIN order' : order'[i] = order'[j] => i = j
  BY <1>1, <1>2 DEF NodesAccounted
<1>5. QED
  BY <1>1, <1>2, <1>3, <1>4

\* The steps that leave the list and its links alone.
QuietStep ==
    \/ \E t \in Threads : Lock(t) \/ PushRefused(t)
    \/ \E w \in Workers : \/ PopCall(w) \/ PopWait(w) \/ PopDrained(w) \/ PopFree(w)
                         \/ Finish(w) \/ Leave(w) \/ SpuriousWakeup(w)
    \/ StopCall \/ StopBroadcast \/ SetCtxStop \/ Exited

LEMMA QuietEffect ==
    ASSUME QuietStep
    PROVE  UNCHANGED <<front, rear, size, next, item, order, Linked>>
BY DEF QuietStep, Lock, PushRefused, PopCall, PopWait, PopDrained, PopFree, Finish,
       Leave, SpuriousWakeup, StopCall, StopBroadcast, SetCtxStop, Exited, queueVars,
       vars, Linked

LEMMA NextCases ==
    ASSUME Next
    PROVE  \/ QuietStep
           \/ \E t \in Threads, x \in Tasks : PushCalloc(t, x)
           \/ \E t \in Threads : PushLink(t)
           \/ \E w \in Workers : PopTake(w)
           \/ Destroy
BY DEF Next, Continue, QuietStep

LEMMA ListStep ==
    ASSUME IInv, Next PROVE ListShape'
<1> USE DEF IInv
<1>1. ASSUME QuietStep
      PROVE  ListShape'
  BY <1>1, QuietEffect DEF ListShape
<1>2. ASSUME NEW t \in Threads, NEW x \in Tasks, PushCalloc(t, x)
      PROVE  ListShape'
  <2>1. \A i \in DOMAIN order : order[i] \in heap /\ order[i] \in Nodes
    BY DEF NodesAccounted, Linked, TypeOK
  <2>2. \A i \in DOMAIN order : next'[order[i]] = next[order[i]]
    BY <1>2, <2>1 DEF PushCalloc, TypeOK
  <2>3. QED
    BY <1>2, <2>2 DEF ListShape, PushCalloc, queueVars
<1>3. ASSUME NEW t \in Threads, PushLink(t)
      PROVE  ListShape'
  <2>1. /\ node[t] \in Nodes /\ node[t] \notin Linked /\ next[node[t]] = NULL
        /\ size \in Nat /\ DOMAIN order = 1 .. size
    BY <1>3 DEF PushLink, Control, TypeOK, OwnsNode, NodesAccounted, ListShape
  <2>2. /\ Len(order') = size + 1 /\ order' # <<>> /\ order'[Len(order')] = node[t]
        /\ \A i \in 1 .. size : order'[i] = order[i]
        /\ DOMAIN order' = 1 .. (size + 1)
    BY <1>3, <2>1, LinkAppends DEF PushLink, TypeOK
  <2>3. size' = size + 1 /\ rear' = node[t]
    BY <1>3 DEF PushLink
  <2>4. CASE order = <<>>
    <3>1. size = 0 /\ rear = NULL
      BY <2>4 DEF ListShape
    <3>2. front' = node[t] /\ next' = next
      BY <1>3, <3>1 DEF PushLink
    <3>3. QED
      BY <2>1, <2>2, <2>3, <3>1, <3>2 DEF ListShape
  <2>5. CASE order # <<>>
    <3>1. size > 0 /\ rear = order[size] /\ rear \in Nodes /\ rear # NULL /\ front = order[1]
      BY <2>1, <2>5, TaskQueueAssumption DEF ListShape, TypeOK
    <3>2. front' = front /\ next' = [next EXCEPT ![rear] = node[t]]
      BY <1>3, <3>1 DEF PushLink
    <3>3. next'[rear] = node[t] /\ next'[node[t]] = NULL
      BY <2>1, <3>1, <3>2 DEF TypeOK, Linked
    <3>4. \A i \in 1 .. (size - 1) : next'[order[i]] = order[i + 1]
      <4>1. SUFFICES ASSUME NEW i \in 1 .. (size - 1) PROVE next'[order[i]] = order[i + 1]
        OBVIOUS
      <4>2. order[i] # rear /\ order[i] \in Nodes /\ next[order[i]] = order[i + 1]
        <5>1. i \in DOMAIN order /\ size \in DOMAIN order /\ i # size /\ size = Len(order)
          BY <2>1, <3>1, <4>1 DEF ListShape
        <5>2. order[i] # order[size] /\ next[order[i]] = order[i + 1]
          BY <5>1 DEF NodesAccounted, ListShape
        <5>3. order[i] \in Nodes
          BY <5>1 DEF TypeOK
        <5>4. QED
          BY <3>1, <5>2, <5>3
      <4>3. QED
        BY <3>2, <4>2 DEF TypeOK
    <3>5. \A i \in DOMAIN order' :
             next'[order'[i]] = IF i = Len(order') THEN NULL ELSE order'[i + 1]
      <4>1. SUFFICES ASSUME NEW i \in 1 .. (size + 1)
                     PROVE  next'[order'[i]] = IF i = size + 1 THEN NULL ELSE order'[i + 1]
        BY <2>2
      <4>2. CASE i = size + 1
        BY <2>2, <3>3, <4>2
      <4>3. CASE i = size
        BY <2>1, <2>2, <3>1, <3>3, <4>3
      <4>4. CASE i \in 1 .. (size - 1)
        <5>1. i \in 1 .. size /\ i + 1 \in 1 .. size /\ i # size + 1
          BY <2>1, <4>4
        <5>2. order'[i] = order[i] /\ order'[i + 1] = order[i + 1]
          BY <2>2, <5>1
        <5>3. QED
          BY <3>4, <4>4, <5>1, <5>2
      <4>5. QED
        BY <2>1, <4>2, <4>3, <4>4
    <3>6. QED
      BY <2>1, <2>2, <2>3, <3>1, <3>2, <3>5 DEF ListShape
  <2>6. QED
    BY <2>4, <2>5
<1>4. ASSUME NEW w \in Workers, PopTake(w)
      PROVE  ListShape'
  <2>1. /\ size \in Nat \ {0} /\ DOMAIN order = 1 .. size /\ Len(order) = size
        /\ front = order[1] /\ rear = order[size]
    BY <1>4, FrontIsFirst DEF PopTake, TypeOK, ListShape
  <2>2. /\ size' = size - 1 /\ Len(order') = size - 1 /\ DOMAIN order' = 1 .. (size - 1)
        /\ \A i \in 1 .. (size - 1) : order'[i] = order[i + 1]
        /\ next' = next /\ front' = next[front] /\ rear' = RearAfterPop
    BY <1>4, <2>1, UnlinkTails DEF PopTake, TypeOK
  <2>3. CASE size = 1
    <3>1. next[front] = NULL /\ order' = <<>>
      BY <1>4, <2>1, <2>2, <2>3 DEF ListShape, PopTake
    <3>2. QED
      BY <2>2, <2>3, <3>1 DEF ListShape, RearAfterPop
  <2>4. CASE size # 1
    <3>1. /\ next[front] = order[2] /\ order[2] \in Nodes /\ order'[1] = order[2]
          /\ order' # <<>> /\ order'[size - 1] = rear
      BY <2>1, <2>2, <2>4 DEF ListShape, TypeOK
    <3>2. rear' = rear
      BY <2>2, <3>1, TaskQueueAssumption DEF RearAfterPop
    <3>3. \A i \in 1 .. (size - 1) :
             next[order'[i]] = IF i = size - 1 THEN NULL ELSE order'[i + 1]
      BY <2>1, <2>2, <2>4 DEF ListShape
    <3>4. QED
      BY <2>1, <2>2, <2>4, <3>1, <3>2, <3>3 DEF ListShape
  <2>5. QED
    BY <2>3, <2>4
<1>5. ASSUME Destroy
      PROVE  ListShape'
  BY <1>5 DEF Destroy, ListShape
<1>6. QED
  BY <1>1, <1>2, <1>3, <1>4, <1>5, NextCases

-----------------------------------------------------------------------------
\* The nodes that some thread owns.
Held == {node[t] : t \in {u \in Threads : node[u] # NULL}}

LEMMA NodesStep ==
    ASSUME IInv, Next PROVE NodesAccounted'
<1> USE TaskQueueAssumption DEF IInv
<1>1. /\ node \in [Threads -> Nodes \cup {NULL}] /\ Workers \subseteq Threads
      /\ \A t \in Threads : node[t] # NULL => node[t] \in heap /\ node[t] \notin Linked
      /\ heap = Linked \cup Held /\ NULL \notin Linked /\ Linked \subseteq heap
      /\ \A t \in Threads : node[t] # NULL <=> pc[t] \in OwnsNode
  BY DEF NodesAccounted, TypeOK, Control, Held, Linked, Threads
<1>2. ASSUME QuietStep, UNCHANGED <<node, heap>>
      PROVE  NodesAccounted'
  BY <1>2, QuietEffect DEF NodesAccounted
<1>3. ASSUME NEW t \in Threads, node[t] # NULL, node' = [node EXCEPT ![t] = NULL],
             \/ heap' = heap \ {node[t]} /\ UNCHANGED <<order, Linked>>
             \/ /\ heap' = heap /\ Linked' = Linked \cup {node[t]}
                /\ \A i, j \in DOMAIN order' : order'[i] = order'[j] => i = j
      PROVE  NodesAccounted'
  <2>1. \A u \in Threads : node'[u] = IF u = t THEN NULL ELSE node[u]
    BY <1>1, <1>3
  <2>2. Held' = Held \ {node[t]}
    BY <1>3, <2>1 DEF Held, NodesAccounted
  <2>3. heap' = Linked' \cup Held'
    BY <1>1, <1>3, <2>2 DEF Held
  <2>4. \A i, j \in DOMAIN order' : order'[i] = order'[j] => i = j
    BY <1>3 DEF NodesAccounted
  <2>5. \A u \in Threads : node'[u] \notin Linked'
    BY <1>1, <1>3, <2>1 DEF NodesAccounted, TypeOK
  <2>6. \A u, v \in Threads : node'[u] = node'[v] /\ node'[u] # NULL => u = v
    BY <2>1 DEF NodesAccounted
  <2>7. QED
    BY <2>3, <2>4, <2>5, <2>6 DEF NodesAccounted, Held
<1>4. ASSUME NEW t \in Threads, NEW n \in Nodes, node[t] = NULL,
             node' = [node EXCEPT ![t] = n], n \notin Held,
             \/ /\ n \notin Linked /\ heap' = heap \cup {n}
                /\ UNCHANGED <<order, Linked>>
             \/ /\ n \in Linked /\ heap' = heap /\ Linked' = Linked \ {n}
                /\ \A i, j \in DOMAIN order' : order'[i] = order'[j] => i = j
      PROVE  NodesAccounted'
  <2>1. \A u \in Threads : node'[u] = IF u = t THEN n ELSE node[u]
    BY <1>1, <1>4
  <2>2. Held' = Held \cup {n}
    <3>1. \A u \in Threads : node'[u] # NULL <=> u = t \/ node[u] # NULL
      BY <1>4, <2>1
    <3>2. QED
      BY <1>4, <2>1, <3>1 DEF Held
  <2>3. heap' = Linked' \cup Held'
    BY <1>1, <1>4, <2>2
  <2>4. \A i, j \in DOMAIN order' : order'[i] = order'[j] => i = j
    BY <1>4 DEF NodesAccounted
  <2>5. \A u \in Threads : node'[u] \notin Linked'
    BY <1>1, <1>4, <2>1 DEF NodesAccounted
  <2>6. \A u, v \in Threads : node'[u] = node'[v] /\ node'[u] # NULL => u = v
    BY <1>4, <2>1 DEF NodesAccounted, Held
  <2>7. QED
    BY <2>3, <2>4, <2>5, <2>6 DEF NodesAccounted, Held
<1>5. ASSUME QuietStep
      PROVE  NodesAccounted'
  <2>1. CASE UNCHANGED <<node, heap>>
    BY <1>2, <1>5, <2>1
  <2>2. CASE \E t \in Threads : PushRefused(t)
    <3>1. PICK t \in Threads : PushRefused(t)
      BY <2>2
    <3>2. QED
      BY <1>1, <1>3, <3>1, <1>5, QuietEffect DEF PushRefused, OwnsNode
  <2>3. CASE \E w \in Workers : PopFree(w)
    <3>1. PICK w \in Workers : PopFree(w)
      BY <2>3
    <3>2. QED
      BY <1>1, <1>3, <3>1, <1>5, QuietEffect DEF PopFree, OwnsNode
  <2>4. QED
    BY <1>5, <2>1, <2>2, <2>3
       DEF QuietStep, Lock, PopCall, PopWait, PopDrained, Finish, Leave, SpuriousWakeup,
           StopCall, StopBroadcast, SetCtxStop, Exited, vars
<1>6. ASSUME NEW t \in Threads, NEW x \in Tasks, PushCalloc(t, x)
      PROVE  NodesAccounted'
  <2>1. PICK n \in Nodes \ heap : heap' = heap \cup {n} /\ node' = [node EXCEPT ![t] = n]
    BY <1>6 DEF PushCalloc
  <2>2. node[t] = NULL
    BY <1>1, <1>6 DEF PushCalloc, MayPush, OwnsNode
  <2>3. order' = order /\ Linked' = Linked
    BY <1>6 DEF PushCalloc, queueVars, Linked
  <2>4. QED
    BY <1>1, <1>4, <2>1, <2>2, <2>3
<1>7. ASSUME NEW t \in Threads, PushLink(t)
      PROVE  NodesAccounted'
  <2>1. node[t] # NULL /\ node[t] \in Nodes /\ node[t] \notin Linked
    BY <1>1, <1>7 DEF PushLink, OwnsNode
  <2>2. QED
    BY <1>3, <1>7, <2>1, LinkAppends DEF PushLink
<1>8. ASSUME NEW w \in Workers, PopTake(w)
      PROVE  NodesAccounted'
  <2>1. front \in Nodes /\ front \in Linked /\ front \notin Held /\ node[w] = NULL
    BY <1>1, <1>8, FrontIsFirst DEF PopTake, Held, OwnsNode
  <2>2. QED
    BY <1>1, <1>4, <1>8, <2>1, UnlinkTails DEF PopTake
<1>9. ASSUME Destroy
      PROVE  NodesAccounted'
  <2>1. order' = <<>> /\ Linked' = {} /\ heap' = heap \ Linked /\ node' = node
    BY <1>9 DEF Destroy, Linked
  <2>2. Held' = Held /\ Held \cap Linked = {}
    BY <1>1, <2>1 DEF Held
  <2>3. QED
    BY <1>1, <2>1, <2>2 DEF NodesAccounted, Held
<1>10. QED
  BY <1>5, <1>6, <1>7, <1>8, <1>9, NextCases

-----------------------------------------------------------------------------
\* The steps after which at least the same workers look at the queue, and no
\* more of them sleep.
LEMMA SameDemand ==
    ASSUME NoLostWakeup, stopped' = stopped, size \in Nat, size' = size,
           Awake \subseteq Awake', Asleep' \subseteq Asleep
    PROVE  NoLostWakeup'
<1>1. IsFiniteSet(Awake')
  BY FS_Subset, TaskQueueAssumption DEF Awake
<1>2. Cardinality(Awake) <= Cardinality(Awake') /\ IsFiniteSet(Awake)
  BY <1>1, FS_Subset
<1>3. Cardinality(Awake) \in Nat /\ Cardinality(Awake') \in Nat
  BY <1>1, <1>2, FS_CardinalityType
<1>4. QED
  BY <1>2, <1>3 DEF NoLostWakeup

LEMMA WakeStep ==
    ASSUME IInv, Next PROVE NoLostWakeup'
<1> USE DEF IInv
<1>1. /\ pc \in [Threads -> Labels] /\ Workers \subseteq Threads /\ size \in Nat
      /\ IsFiniteSet(Awake) /\ Cardinality(Awake) \in Nat
  BY FS_Subset, FS_CardinalityType, TaskQueueAssumption DEF TypeOK, Threads, Awake
<1>2. ASSUME NEW t \in Threads, NEW x \in Tasks, PushCalloc(t, x)
      PROVE  NoLostWakeup'
  <2>1. Awake \subseteq Awake' /\ Asleep' \subseteq Asleep
    BY <1>1, <1>2 DEF PushCalloc, MayPush, Awake, Asleep
  <2>2. QED
    BY <1>1, <1>2, <2>1, SameDemand DEF PushCalloc, queueVars
<1>3. ASSUME NEW t \in Threads, Lock(t) \/ PushRefused(t)
      PROVE  NoLostWakeup'
  <2>1. Awake \subseteq Awake' /\ Asleep' \subseteq Asleep
    <3>1. CASE Lock(t)
      BY <1>1, <3>1, TaskQueueAssumption
         DEF Lock, AfterLock, Awake, Asleep, Control, Threads
    <3>2. CASE PushRefused(t)
      BY <1>1, <3>2 DEF PushRefused, Awake, Asleep
    <3>3. QED
      BY <1>3, <3>1, <3>2
  <2>2. QED
    BY <1>1, <1>3, <2>1, SameDemand DEF Lock, PushRefused, queueVars
<1>4. ASSUME NEW t \in Threads, PushLink(t)
      PROVE  NoLostWakeup'
  <2>1. pc[t] = "push" /\ Signal(t) /\ size' = size + 1 /\ stopped' = stopped /\ ~stopped
    BY <1>4 DEF PushLink
  <2>2. Awake \subseteq Awake' /\ Asleep' \subseteq Asleep
    BY <1>1, <2>1, SignalEffect DEF Awake, Asleep
  <2>3. CASE Asleep = {}
    BY <2>2, <2>3 DEF NoLostWakeup
  <2>4. CASE Asleep # {}
    <3>1. PICK w \in Asleep : pc'[w] = "woken"
      BY <1>1, <2>1, <2>4, SignalEffect
    <3>2. w \in Awake' /\ w \notin Awake
      BY <3>1 DEF Awake, Asleep
    <3>3. IsFiniteSet(Awake')
      BY FS_Subset, TaskQueueAssumption DEF Awake
    <3>4. Cardinality(Awake \cup {w}) = Cardinality(Awake) + 1
      BY <1>1, <3>2, FS_AddElement
    <3>5. Cardinality(Awake \cup {w}) <= Cardinality(Awake')
      BY <2>2, <3>2, <3>3, FS_Subset
    <3>6. Cardinality(Awake') \in Nat
      BY <3>3, FS_CardinalityType
    <3>7. QED
      BY <1>1, <2>1, <2>4, <3>4, <3>5, <3>6 DEF NoLostWakeup
  <2>5. QED
    BY <2>3, <2>4
<1>5. ASSUME NEW w \in Workers,
             PopCall(w) \/ PopFree(w) \/ Finish(w) \/ Leave(w) \/ SpuriousWakeup(w)
      PROVE  NoLostWakeup'
  <2>1. Awake \subseteq Awake' /\ Asleep' \subseteq Asleep
    BY <1>1, <1>5 DEF PopCall, PopFree, Finish, Leave, SpuriousWakeup, Awake, Asleep
  <2>2. QED
    BY <1>1, <1>5, <2>1, SameDemand
       DEF PopCall, PopFree, Finish, Leave, SpuriousWakeup, queueVars
<1>6. ASSUME NEW w \in Workers, PopWait(w)
      PROVE  NoLostWakeup'
  <2>1. IsFiniteSet(Awake')
    BY FS_Subset, TaskQueueAssumption DEF Awake
  <2>2. Cardinality(Awake') \in Nat
    BY <2>1, FS_CardinalityType
  <2>3. QED
    BY <1>6, <2>2 DEF PopWait, NoLostWakeup, queueVars
<1>7. ASSUME NEW w \in Workers, PopDrained(w)
      PROVE  NoLostWakeup'
  <2>1. Asleep = {}
    BY <1>7 DEF PopDrained, StoppedAndEmpty, NoLostWakeup
  <2>2. Asleep' = {}
    BY <1>1, <1>7, <2>1 DEF PopDrained, Asleep
  <2>3. QED
    BY <2>2 DEF NoLostWakeup
<1>8. ASSUME NEW w \in Workers, PopTake(w)
      PROVE  NoLostWakeup'
  <2>1. Awake' = Awake \ {w} /\ w \in Awake /\ Asleep' = Asleep
    BY <1>1, <1>8 DEF PopTake, Awake, Asleep
  <2>2. Cardinality(Awake') = Cardinality(Awake) - 1
    BY <1>1, <2>1, FS_RemoveElement
  <2>3. QED
    BY <1>1, <1>8, <2>1, <2>2 DEF PopTake, NoLostWakeup
<1>9. ASSUME StopCall \/ SetCtxStop \/ Destroy
      PROVE  NoLostWakeup'
  <2>1. pc' \in [Threads -> Labels] /\ \A w \in Workers : pc'[w] = pc[w]
    BY <1>1, <1>9, TaskQueueAssumption
       DEF StopCall, SetCtxStop, Destroy, Labels
  <2>2. Awake' = Awake /\ Asleep' = Asleep
    BY <2>1 DEF Awake, Asleep
  <2>3. CASE StopCall \/ SetCtxStop
    BY <1>1, <2>2, <2>3, SameDemand DEF StopCall, SetCtxStop, queueVars
  <2>4. CASE Destroy
    BY <1>1, <2>2, <2>4 DEF Destroy, NoLostWakeup
  <2>5. QED
    BY <1>9, <2>3, <2>4
<1>10. ASSUME StopBroadcast
      PROVE  NoLostWakeup'
  BY <1>10 DEF StopBroadcast, NoLostWakeup, Asleep, Threads
<1>11. ASSUME Exited
      PROVE  NoLostWakeup'
  BY <1>11 DEF Exited, vars, NoLostWakeup, Asleep, Awake
<1>12. QED
  BY <1>2, <1>3, <1>4, <1>5, <1>6, <1>7, <1>8, <1>9, <1>10, <1>11 DEF Next, Continue

-----------------------------------------------------------------------------
LEMMA StutterIInv ==
    ASSUME IInv, UNCHANGED vars PROVE IInv'
BY DEF IInv, vars, TypeOK, Control, ListShape, NodesAccounted, NoLostWakeup, Linked,
       Asleep, Awake

\* The inductive invariant holds of every reachable state of task_queue.c.
THEOREM Inductive == Spec => []IInv
<1>1. IInv /\ [Next]_vars => IInv'
  <2>1. CASE Next
    BY <2>1, TypeStep, ControlStep, ListStep, NodesStep, WakeStep DEF IInv
  <2>2. CASE UNCHANGED vars
    BY <2>2, StutterIInv
  <2>3. QED
    BY <2>1, <2>2
<1>2. QED
  BY <1>1, InitIInv, PTL DEF Spec

\* Every variable of TaskQueue keeps its type, whatever the threads do.
THEOREM TypeCorrect == Spec => []TypeOK
BY Inductive, PTL DEF IInv

\* task_queue.c:73-79, 97-102: front, rear, size and the next pointers always
\* describe the same list.
THEOREM ListWellFormed == Spec => []ListShape
BY Inductive, PTL DEF IInv

\* task_queue.c:60-69, 97-106: no node is leaked, freed twice or used after free.
THEOREM NoNodeLost == Spec => []NodesAccounted
BY Inductive, PTL DEF IInv

\* task_queue.c:80, 88-90, 114: no wakeup is lost, for any number of workers.
THEOREM WakeupsNotLost == Spec => []NoLostWakeup
BY Inductive, PTL DEF IInv

-----------------------------------------------------------------------------
(* The linked list implements the FIFO. *)

\* The queued tasks, oldest first, that the linked list stands for.
Contents == [i \in DOMAIN order |-> item[order[i]]]

LEMMA ContentsType ==
    ASSUME TypeOK, ListShape, NodesAccounted
    PROVE  /\ Contents \in Seq(Tasks) /\ Len(Contents) = size
           /\ \A i \in 1 .. size : order[i] \in heap /\ Contents[i] = item[order[i]]
<1>1. DOMAIN order = 1 .. size /\ size \in Nat
  BY DEF TypeOK, ListShape
<1>2. \A i \in 1 .. size : order[i] \in heap /\ item[order[i]] \in Tasks
  BY <1>1 DEF NodesAccounted, Linked, TypeOK
<1>3. QED
  BY <1>1, <1>2 DEF Contents

\* A step that leaves the list and the allocated nodes' tasks alone.
LEMMA SameContents ==
    ASSUME TypeOK, ListShape, NodesAccounted, order' = order,
           \A n \in heap : item'[n] = item[n]
    PROVE  Contents' = Contents
<1>1. DOMAIN order = 1 .. size
  BY DEF TypeOK, ListShape
<1>2. \A i \in DOMAIN order : item'[order[i]] = item[order[i]]
  BY <1>1, ContentsType
<1>3. QED
  BY <1>2 DEF Contents

LEMMA FifoStep ==
    ASSUME IInv, Next
    PROVE  [Fifo!FifoNext]_(Fifo!fifoVars)
<1> USE DEF IInv
<1>1. Contents \in Seq(Tasks) /\ Len(Contents) = size /\ size \in Nat
  BY ContentsType DEF TypeOK
<1>2. ASSUME UNCHANGED <<order, stopped, task, drained>>,
             \A n \in heap : item'[n] = item[n]
      PROVE  UNCHANGED Fifo!fifoVars
  BY <1>2, SameContents DEF Fifo!fifoVars, Contents
<1>3. ASSUME NEW t \in Threads, NEW x \in Tasks, PushCalloc(t, x)
      PROVE  UNCHANGED Fifo!fifoVars
  <2>1. \A n \in heap : item'[n] = item[n]
    BY <1>3 DEF PushCalloc, TypeOK
  <2>2. QED
    BY <1>2, <1>3, <2>1 DEF PushCalloc, queueVars
<1>4. ASSUME NEW t \in Threads, PushLink(t)
      PROVE  Fifo!FifoNext
  <2>1. /\ node[t] \in Nodes /\ node[t] \notin Linked /\ order' = Append(order, node[t])
        /\ ~stopped /\ item[node[t]] \in Tasks
        /\ UNCHANGED <<stopped, task, drained, item>>
    BY <1>4 DEF PushLink, Control, OwnsNode, TypeOK, NodesAccounted
  <2>2. Contents' = Append(Contents, item[node[t]])
    <3>1. /\ DOMAIN order = 1 .. size /\ DOMAIN order' = 1 .. (size + 1)
          /\ order'[size + 1] = node[t] /\ \A i \in 1 .. size : order'[i] = order[i]
      BY <2>1, LinkAppends DEF ListShape, TypeOK
    <3>2. Contents' = [i \in 1 .. (size + 1) |-> item[order'[i]]]
      BY <2>1, <3>1 DEF Contents
    <3>3. Append(Contents, item[node[t]])
            = [i \in 1 .. (size + 1) |-> IF i = size + 1 THEN item[node[t]] ELSE Contents[i]]
      BY <1>1
    <3>4. \A i \in 1 .. (size + 1) :
            item[order'[i]] = IF i = size + 1 THEN item[node[t]] ELSE Contents[i]
      BY <1>1, <3>1, ContentsType
    <3>5. QED
      BY <3>2, <3>3, <3>4
  <2>3. PICK x \in Tasks : x = item[node[t]]
    BY <2>1
  <2>4. Fifo!Push(x)
    BY <2>1, <2>2, <2>3 DEF Fifo!Push, Contents
  <2>5. QED
    BY <2>4 DEF Fifo!FifoNext
<1>5. ASSUME NEW w \in Workers, PopTake(w)
      PROVE  Fifo!FifoNext
  <2>1. /\ size # 0 /\ order' = Tail(order) /\ task' = [task EXCEPT ![w] = item[front]]
        /\ UNCHANGED <<stopped, drained, item>> /\ front = order[1]
    BY <1>5, FrontIsFirst DEF PopTake
  <2>2. Contents' = Tail(Contents)
    <3>1. /\ DOMAIN order' = 1 .. (size - 1)
          /\ \A i \in 1 .. (size - 1) : order'[i] = order[i + 1]
      BY <1>1, <2>1, UnlinkTails DEF TypeOK
    <3>2. Contents' = [i \in 1 .. (size - 1) |-> item[order'[i]]]
      BY <2>1, <3>1 DEF Contents
    <3>3. Tail(Contents) = [i \in 1 .. (size - 1) |-> Contents[i + 1]]
      <4>1. /\ Tail(Contents) \in Seq(Tasks) /\ Len(Tail(Contents)) = size - 1
            /\ \A i \in 1 .. (size - 1) : Tail(Contents)[i] = Contents[i + 1]
        BY <1>1, <2>1
      <4>2. \A i \in 1 .. (size - 1) : Contents[i + 1] \in Tasks
        BY <1>1, <2>1
      <4>3. /\ [i \in 1 .. (size - 1) |-> Contents[i + 1]] \in Seq(Tasks)
            /\ Len([i \in 1 .. (size - 1) |-> Contents[i + 1]]) = size - 1
        BY <1>1, <2>1, <4>2
      <4>4. QED
        BY <4>1, <4>3, SeqEqual
    <3>4. \A i \in 1 .. (size - 1) : item[order'[i]] = Contents[i + 1]
      BY <1>1, <3>1, ContentsType
    <3>5. QED
      BY <3>2, <3>3, <3>4
  <2>3. Contents # <<>> /\ Head(Contents) = item[front]
    BY <1>1, <2>1, ContentsType
  <2>4. w \notin drained
    BY <1>5 DEF PopTake, Control
  <2>5. Fifo!Pop(w)
    BY <2>1, <2>2, <2>3, <2>4 DEF Fifo!Pop, Contents
  <2>6. QED
    BY <2>5 DEF Fifo!FifoNext
<1>6. ASSUME NEW w \in Workers, PopDrained(w)
      PROVE  Fifo!FifoNext
  <2>1. /\ size = 0 /\ stopped /\ drained' = drained \cup {w}
        /\ UNCHANGED <<order, stopped, item, task>> /\ w \notin drained
    BY <1>6 DEF PopDrained, StoppedAndEmpty, queueVars, Control
  <2>2. Contents = <<>> /\ Contents' = Contents
    BY <1>1, <2>1 DEF Contents
  <2>3. Fifo!PopDrained(w)
    BY <2>1, <2>2 DEF Fifo!PopDrained, Contents
  <2>4. QED
    BY <2>3 DEF Fifo!FifoNext
<1>7. ASSUME StopBroadcast
      PROVE  Fifo!FifoNext
  <2>1. stopped' = TRUE /\ UNCHANGED <<order, item, task, drained>>
    BY <1>7 DEF StopBroadcast
  <2>2. Fifo!Stop
    BY <2>1 DEF Fifo!Stop, Contents
  <2>3. QED
    BY <2>2 DEF Fifo!FifoNext
<1>8. ASSUME Destroy
      PROVE  Fifo!FifoNext
  <2>1. stopped /\ order' = <<>> /\ UNCHANGED <<stopped, item, task, drained>>
    BY <1>8 DEF Destroy, Control
  <2>2. Contents' = <<>>
    BY <2>1 DEF Contents
  <2>3. Fifo!Discard
    BY <2>1, <2>2 DEF Fifo!Discard, Contents
  <2>4. QED
    BY <2>3 DEF Fifo!FifoNext
<1>9. ASSUME \/ \E t \in Threads : Lock(t) \/ PushRefused(t)
             \/ \E w \in Workers : \/ PopCall(w) \/ PopWait(w) \/ PopFree(w)
                                  \/ Finish(w) \/ Leave(w) \/ SpuriousWakeup(w)
             \/ StopCall \/ SetCtxStop \/ Exited
      PROVE  UNCHANGED Fifo!fifoVars
  <2>1. UNCHANGED <<order, stopped, task, drained, item>>
    BY <1>9 DEF Lock, PushRefused, PopCall, PopWait, PopFree, Finish, Leave,
                SpuriousWakeup, StopCall, SetCtxStop, Exited, queueVars, vars
  <2>2. QED
    BY <1>2, <2>1
<1>10. QED
  BY <1>3, <1>4, <1>5, <1>6, <1>7, <1>8, <1>9 DEF Next, Continue

\* Every run of the linked list under its mutex is a run of the FIFO promised
\* by include/task_queue.h: tasks leave in the order they entered, each goes to
\* one worker, and only a stopped and empty queue turns a worker away.
THEOREM ListImplementsFifo == Spec => ImplementsFifo
<1>1. Init => Fifo!FifoInit
  BY DEF Init, Fifo!FifoInit
<1>2. IInv /\ [Next]_vars => [Fifo!FifoNext]_(Fifo!fifoVars)
  <2>1. ASSUME UNCHANGED vars
        PROVE  UNCHANGED Fifo!fifoVars
    BY <2>1 DEF vars, Fifo!fifoVars
  <2>2. QED
    BY <2>1, FifoStep
<1>3. QED
  BY <1>1, <1>2, Inductive, PTL DEF Spec, ImplementsFifo, Fifo!FifoSpec
=============================================================================

--------------------------- MODULE TransferProofs ---------------------------
(***************************************************************************)
(* What TLC checks of Transfer on small instances, proved for any number   *)
(* of workers, paths, slots, retries and events and any length of the      *)
(* debounce: every event that was read is in exactly one place, what is    *)
(* merged away was superseded, first tries are queued in order, a task is  *)
(* tried MaxRetry + 1 times, and only stable updates are queued.           *)
(***************************************************************************)
EXTENDS Transfer, FiniteSetTheorems, SequenceTheorems, TLAPS

\* The workers that have a task, and the ids in each of the three places.
Busy == {w \in Workers : workerPc[w] \in {"sync", "backoff"}}
Slotted == {pending[s].id : s \in Used}
Queued == {fifo[k].id : k \in DOMAIN fifo}
Held == {task[w].id : w \in Busy}

\* The events that were read and have not ended.
OpenIds == {i \in 1 .. read : log[i] # ExitEvent /\ fate[i] = "open"}

\* Where the scheduler is, and what has not happened yet to an unread event.
Control ==
    /\ Len(log) <= MaxEvents
    /\ schedPc \notin {"push", "push_all"} => due = {}
    /\ schedPc = "push" => \A s \in due : pending[s].age = Debounce
    /\ \A i \in Ids : i > read => fate[i] = "open" /\ tries[i] = 0

\* An open event is in one of the places, once.
Places ==
    /\ \A s, t \in Used : pending[s].id = pending[t].id => s = t
    /\ \A k, l \in DOMAIN fifo : fifo[k].id = fifo[l].id => k = l
    /\ \A v, w \in Busy : task[v].id = task[w].id => v = w
    /\ Slotted \cap Queued = {} /\ Slotted \cap Held = {} /\ Queued \cap Held = {}
    /\ Slotted \cup Queued \cup Held = OpenIds

\* How often a task was tried, by where it is.
Tried ==
    /\ \A s \in Used : tries[pending[s].id] = 0
    /\ \A k \in DOMAIN fifo : tries[fifo[k].id] = fifo[k].retry
    /\ \A w \in Workers :
         /\ workerPc[w] = "sync" => tries[task[w].id] = task[w].retry + 1
         /\ workerPc[w] = "backoff" => tries[task[w].id] = task[w].retry /\ task[w].retry > 0

\* A slot has the newest event of its path, an update, and knows its age.
SlotsNewest ==
    /\ \A s, t \in Used : PathOf(s) = PathOf(t) => s = t
    /\ \A s \in Used : /\ log[pending[s].id].type = "UPDATE"
                       /\ quiet[PathOf(s)] = pending[s].age
                       /\ \A j \in (pending[s].id + 1) .. read : PathOf(s) \notin Concerns(j)

\* The inductive invariant.
IInv ==
    /\ TypeOK /\ Control /\ Places /\ Tried /\ SlotsNewest
    /\ SupersededByNewer /\ FirstTriesInOrder /\ GivenUpAfterAllTries
-----------------------------------------------------------------------------
(* Lemmas about events, the queue and the places *)

LEMMA EventFacts ==
    ASSUME TypeOK, NEW i \in 1 .. Len(log), log[i] # ExitEvent
    PROVE  /\ log[i] \in Events
           /\ log[i].type \in {"UPDATE", "DELETE", "RENAME"}
           /\ log[i].path \in Paths /\ log[i].path \in Concerns(i)
           /\ Concerns(i) \subseteq Paths
           /\ log[i].type # "RENAME" => Concerns(i) = {log[i].path}
<1>1. log[i] \in Events
  BY DEF TypeOK
<1>2. log[i].path \in Paths /\ log[i].old \in Paths \cup {NoPath}
  BY <1>1 DEF Events
<1>3. log[i].type \in {"UPDATE", "DELETE", "RENAME"}
  BY <1>1 DEF Events
<1>4. log[i].type # "RENAME" => log[i].old = NoPath
  BY <1>1 DEF Events
<1>5. QED
  BY <1>1, <1>2, <1>3, <1>4, TransferAssumption DEF Concerns

LEMMA ExitIsNoUpdate ==
    ASSUME TypeOK, NEW i \in 1 .. Len(log), log[i].type # "EXIT"
    PROVE  log[i] # ExitEvent
BY DEF ExitEvent

\* Appending to log changes nothing of what was read.
LEMMA OldEventsStay ==
    ASSUME TypeOK, NEW e \in Events \cup {ExitEvent}, log' = Append(log, e)
    PROVE  /\ log' \in Seq(Events \cup {ExitEvent}) /\ Len(log') = Len(log) + 1
           /\ \A i \in 1 .. Len(log) : log'[i] = log[i] /\ Concerns(i)' = Concerns(i)
<1>1. /\ log' \in Seq(Events \cup {ExitEvent}) /\ Len(log') = Len(log) + 1
      /\ \A i \in 1 .. Len(log) : log'[i] = log[i]
  BY DEF TypeOK
<1>2. QED
  BY <1>1 DEF Concerns

LEMMA PushAppends ==
    ASSUME TypeOK, NEW x \in TaskSet, fifo' = Append(fifo, x)
    PROVE  /\ fifo' \in Seq(TaskSet)
           /\ DOMAIN fifo = 1 .. Len(fifo) /\ DOMAIN fifo' = 1 .. (Len(fifo) + 1)
           /\ \A k \in DOMAIN fifo : fifo'[k] = fifo[k]
           /\ fifo'[Len(fifo) + 1] = x /\ Len(fifo) \in Nat
           /\ Queued' = Queued \cup {x.id}
<1>1. fifo \in Seq(TaskSet)
  BY DEF TypeOK, Q!FifoTypeOK
<1>2. /\ fifo' \in Seq(TaskSet) /\ Len(fifo) \in Nat
      /\ DOMAIN fifo = 1 .. Len(fifo) /\ DOMAIN fifo' = 1 .. (Len(fifo) + 1)
      /\ \A k \in DOMAIN fifo : fifo'[k] = fifo[k]
      /\ fifo'[Len(fifo) + 1] = x
  BY <1>1
<1>3. Queued' = Queued \cup {x.id}
  BY <1>2 DEF Queued
<1>4. QED
  BY <1>2, <1>3

LEMMA PopTails ==
    ASSUME TypeOK, fifo # <<>>, fifo' = Tail(fifo)
    PROVE  /\ fifo' \in Seq(TaskSet) /\ Head(fifo) \in TaskSet /\ Head(fifo) = fifo[1]
           /\ DOMAIN fifo = 1 .. Len(fifo) /\ DOMAIN fifo' = 1 .. (Len(fifo) - 1)
           /\ Len(fifo) \in Nat \ {0} /\ 1 \in DOMAIN fifo
           /\ \A k \in DOMAIN fifo' : k + 1 \in DOMAIN fifo /\ fifo'[k] = fifo[k + 1]
           /\ (\A k, l \in DOMAIN fifo : fifo[k].id = fifo[l].id => k = l)
                => Queued' = Queued \ {Head(fifo).id}
<1>1. fifo \in Seq(TaskSet)
  BY DEF TypeOK, Q!FifoTypeOK
<1>2. /\ fifo' \in Seq(TaskSet) /\ Head(fifo) \in TaskSet /\ Head(fifo) = fifo[1]
      /\ DOMAIN fifo = 1 .. Len(fifo) /\ DOMAIN fifo' = 1 .. (Len(fifo) - 1)
      /\ Len(fifo) \in Nat \ {0} /\ 1 \in DOMAIN fifo
      /\ \A k \in DOMAIN fifo' : k + 1 \in DOMAIN fifo /\ fifo'[k] = fifo[k + 1]
  BY <1>1
<1>3. ASSUME \A k, l \in DOMAIN fifo : fifo[k].id = fifo[l].id => k = l
      PROVE  Queued' = Queued \ {Head(fifo).id}
  <2>1. \A i \in Queued' : i \in Queued \ {Head(fifo).id}
    BY <1>2, <1>3 DEF Queued
  <2>2. ASSUME NEW i \in Queued, i # Head(fifo).id
        PROVE  i \in Queued'
    <3>1. PICK k \in DOMAIN fifo : i = fifo[k].id
      BY DEF Queued
    <3>2. k - 1 \in DOMAIN fifo' /\ (k - 1) + 1 = k
      BY <1>2, <2>2, <3>1
    <3>3. QED
      BY <1>2, <3>1, <3>2 DEF Queued
  <2>3. QED
    BY <2>1, <2>2
<1>4. QED
  BY <1>2, <1>3

LEMMA AtMostOne ==
    ASSUME NEW S, \A x, y \in S : x = y
    PROVE  Cardinality(S) = IF S = {} THEN 0 ELSE 1
<1>1. CASE S = {}
  BY <1>1, FS_EmptySet
<1>2. CASE S # {}
  <2>1. PICK x \in S : TRUE
    BY <1>2
  <2>2. S = {x}
    BY <2>1
  <2>3. QED
    BY <2>2, FS_Singleton
<1>3. QED
  BY <1>1, <1>2

\* A slot that is used has a proper id, and so the sets of places are those of the ids.
LEMMA PlacesOfIds ==
    ASSUME TypeOK, NEW i \in Ids
    PROVE  /\ InPending(i) = {s \in Used : pending[s].id = i}
           /\ HeldBy(i) = {w \in Busy : task[w].id = i}
           /\ InPending(i) # {} <=> i \in Slotted
           /\ InQueue(i) # {} <=> i \in Queued
           /\ HeldBy(i) # {} <=> i \in Held
<1>1. InPending(i) = {s \in Used : pending[s].id = i}
  BY DEF InPending, Used, FreeSlot, Ids
<1>2. HeldBy(i) = {w \in Busy : task[w].id = i}
  BY DEF HeldBy, Busy
<1>3. InPending(i) # {} <=> i \in Slotted
  BY <1>1 DEF Slotted
<1>4. InQueue(i) # {} <=> i \in Queued
  BY DEF InQueue, Queued
<1>5. HeldBy(i) # {} <=> i \in Held
  BY <1>2 DEF Held
<1>6. QED
  BY <1>1, <1>2, <1>3, <1>4, <1>5

\* What the invariant says of places is what EveryEventAccounted counts.
LEMMA PlacesAreCounted ==
    ASSUME TypeOK, Places
    PROVE  EveryEventAccounted
<1>1. SUFFICES ASSUME NEW i \in Ids
               PROVE  Cardinality(InPending(i)) + Cardinality(InQueue(i)) + Cardinality(HeldBy(i))
                        = IF i <= read /\ log[i] # ExitEvent /\ fate[i] = "open" THEN 1 ELSE 0
  BY DEF EveryEventAccounted
<1>2. Cardinality(InPending(i)) = IF i \in Slotted THEN 1 ELSE 0
  BY PlacesOfIds, AtMostOne DEF Places
<1>3. Cardinality(InQueue(i)) = IF i \in Queued THEN 1 ELSE 0
  <2>1. \A k, l \in InQueue(i) : k = l
    BY DEF InQueue, Places
  <2>2. QED
    BY <2>1, PlacesOfIds, AtMostOne
<1>4. Cardinality(HeldBy(i)) = IF i \in Held THEN 1 ELSE 0
  BY PlacesOfIds, AtMostOne DEF Places
<1>5. i \in OpenIds <=> i <= read /\ log[i] # ExitEvent /\ fate[i] = "open"
  BY DEF OpenIds, Ids, TypeOK
<1>6. QED
  BY <1>2, <1>3, <1>4, <1>5 DEF Places

-----------------------------------------------------------------------------
LEMMA InitIInv ==
    ASSUME Init PROVE IInv
<1> USE TransferAssumption
<1>1. Used = {} /\ Busy = {} /\ DOMAIN fifo = {} /\ OpenIds = {} /\ read = 0
  BY DEF Init, Used, Busy, OpenIds, Q!FifoInit
<1>2. TypeOK
  <2>1. log \in Seq(Events \cup {ExitEvent}) /\ fifo \in Seq(TaskSet)
    BY DEF Init, Q!FifoInit
  <2>2. read \in 0 .. Len(log) /\ Q!FifoTypeOK
    <3>1. read = 0 /\ Len(log) = 0
      BY DEF Init
    <3>2. Q!FifoTypeOK
      BY <2>1 DEF Init, Q!FifoInit, Q!FifoTypeOK
    <3>3. QED
      BY <3>1, <3>2
  <2>3. /\ pending \in [SlotIds -> [id : Ids, age : 0 .. Debounce] \cup {FreeSlot}]
        /\ due \subseteq {i \in SlotIds : pending[i] # FreeSlot}
    BY DEF Init
  <2>4. /\ workerPc \in [Workers -> WorkerLabels]
        /\ \A w \in Workers : workerPc[w] \in {"sync", "backoff"} => task[w] \in TaskSet
    BY DEF Init, WorkerLabels
  <2>5. quiet \in [Paths -> 0 .. Debounce] /\ tries \in [Ids -> Nat] /\ fate \in [Ids -> Fates]
    BY DEF Init, Fates
  <2>6. QED
    BY <2>1, <2>2, <2>3, <2>4, <2>5 DEF Init, TypeOK, SchedLabels
<1>3. Control
  BY DEF Init, Control, Ids
<1>4. Places
  BY <1>1 DEF Places, Slotted, Queued, Held
<1>5. Tried /\ SlotsNewest
  BY <1>1 DEF Tried, SlotsNewest, Init
<1>6. SupersededByNewer /\ FirstTriesInOrder /\ GivenUpAfterAllTries
  BY <1>1 DEF Init, SupersededByNewer, FirstTriesInOrder, GivenUpAfterAllTries
<1>7. QED
  BY <1>2, <1>3, <1>4, <1>5, <1>6 DEF IInv

\* The actions, in groups by what they change of the places.
\* Nothing that was read moves or ends.
QuietStep ==
    \/ LoseWriters \/ SelectTimeout \/ ReadExit \/ FlushScan \/ FlushDone
    \/ StopQueue \/ SetCtxStop \/ Exited
    \/ \E w \in Workers : CheckStop(w) \/ PopDrained(w)

LEMMA NextCases ==
    ASSUME Next
    PROVE  \/ QuietStep
           \/ \E e \in Events \cup {ExitEvent} : Emit(e)
           \/ Tick
           \/ ReadUpdate \/ ReadImmediate \/ FlushPush \/ JoinAll
           \/ \E w \in Workers : \/ PopTask(w) \/ SyncSucceeds(w) \/ SyncFails(w)
                                \/ GiveUp(w) \/ RetryPush(w)
BY DEF Next, QuietStep, SendExit, Scheduler, Worker, Sync

LEMMA PushType ==
    ASSUME TypeOK, NEW x \in TaskSet, Push(x)
    PROVE  Q!FifoTypeOK' /\ fate' \in [Ids -> Fates] /\ task' = task
<1>1. CASE Q!Push(x) /\ UNCHANGED fate
  BY <1>1, PushAppends DEF Q!Push, TypeOK, Q!FifoTypeOK
<1>2. CASE stopped /\ fate' = [fate EXCEPT ![x.id] = "refused"] /\ UNCHANGED queueVars
  BY <1>2 DEF queueVars, TypeOK, Q!FifoTypeOK, Fates
<1>3. QED
  BY <1>1, <1>2 DEF Push

LEMMA TypeStep ==
    ASSUME IInv, Next PROVE TypeOK'
<1> USE TransferAssumption DEF IInv, TypeOK, Q!FifoTypeOK, schedVars, queueVars, Used
<1>1. ASSUME QuietStep
      PROVE  TypeOK'
  <2>1. CASE LoseWriters \/ SelectTimeout \/ FlushDone \/ SetCtxStop
    BY <2>1 DEF LoseWriters, SelectTimeout, AfterTimeout, FlushDone, SetCtxStop, SchedLabels
  <2>5. CASE Exited
    BY <2>5 DEF Exited, vars
  <2>6. CASE ReadExit
    <3>1. read' \in 0 .. Len(log)
      BY <2>6 DEF ReadExit
    <3>2. QED
      BY <2>6, <3>1 DEF ReadExit, SchedLabels
  <2>2. CASE FlushScan \/ StopQueue
    BY <2>2 DEF FlushScan, StopQueue, Q!Stop, SchedLabels
  <2>3. CASE \E w \in Workers : CheckStop(w) \/ PopDrained(w)
    <3>1. CASE \E w \in Workers : CheckStop(w)
      BY <3>1 DEF CheckStop, WorkerGoes, WorkerLabels
    <3>2. CASE \E w \in Workers : PopDrained(w)
      BY <3>2 DEF PopDrained, Q!PopDrained, WorkerGoes, WorkerLabels
    <3>3. QED
      BY <2>3, <3>1, <3>2
  <2>4. QED
    BY <1>1, <2>1, <2>2, <2>3, <2>5, <2>6 DEF QuietStep
<1>2. ASSUME NEW e \in Events \cup {ExitEvent}, Emit(e)
      PROVE  TypeOK'
  BY <1>2, OldEventsStay DEF Emit
<1>3. ASSUME Tick
      PROVE  TypeOK'
  <2>1. \A n \in 0 .. Debounce : Older(n) \in 0 .. Debounce
    BY DEF Older
  <2>2. pending' \in [SlotIds -> [id : Ids, age : 0 .. Debounce] \cup {FreeSlot}]
    BY <1>3, <2>1 DEF Tick
  <2>3. \A i \in SlotIds : pending[i] # FreeSlot => pending'[i] # FreeSlot
    <3>1. SUFFICES ASSUME NEW i \in SlotIds, pending[i] # FreeSlot
                   PROVE  pending'[i] # FreeSlot
      OBVIOUS
    <3>2. pending'[i] = [pending[i] EXCEPT !.age = Older(@)]
      BY <1>3, <3>1 DEF Tick
    <3>3. pending[i] \in [id : Ids, age : 0 .. Debounce]
      BY <3>1
    <3>4. pending'[i].id = pending[i].id /\ pending[i].id \in Ids
      BY <3>2, <3>3
    <3>5. QED
      BY <3>4 DEF FreeSlot, Ids
  <2>4. QED
    BY <1>3, <2>1, <2>2, <2>3 DEF Tick
<1>4. ASSUME ReadUpdate
      PROVE  TypeOK'
  <2>0. read + 1 \in 1 .. Len(log) /\ log[read + 1] # ExitEvent
    BY <1>4 DEF ReadUpdate, ExitEvent
  <2>1. read + 1 \in Ids /\ log[read + 1].path \in Paths /\ due = {}
    BY <1>4, <2>0, EventFacts DEF ReadUpdate, Control, Ids
  <2>2. pending' \in [SlotIds -> [id : Ids, age : 0 .. Debounce] \cup {FreeSlot}]
    BY <1>4, <2>1 DEF ReadUpdate, DebounceUpdate, Refreshed, SlotsOf
  <2>3. fate' \in [Ids -> Fates]
    BY <1>4, <2>1 DEF ReadUpdate, DebounceUpdate, Fates
  <2>4. QED
    BY <1>4, <2>1, <2>2, <2>3 DEF ReadUpdate, SchedLabels
<1>5. ASSUME ReadImmediate
      PROVE  TypeOK'
  <2>1. read + 1 \in Ids /\ due = {} /\ FirstTry(read + 1) \in TaskSet
    BY <1>5 DEF ReadImmediate, Control, Ids, FirstTry, TaskSet
  <2>2. fifo' \in Seq(TaskSet)
    BY <1>5, <2>1, PushAppends DEF ReadImmediate, Q!Push
  <2>3. QED
    BY <1>5, <2>1, <2>2 DEF ReadImmediate, Q!Push, SchedLabels, Fates
<1>6. ASSUME FlushPush
      PROVE  TypeOK'
  <2>1. PICK i \in due : /\ Push(FirstTry(pending[i].id))
                        /\ pending' = AfterFlush(i) /\ due' = due \ {i}
    BY <1>6 DEF FlushPush
  <2>2. i \in SlotIds /\ FirstTry(pending[i].id) \in TaskSet
    BY <2>1 DEF FirstTry, TaskSet
  <2>3. Q!FifoTypeOK' /\ fate' \in [Ids -> Fates] /\ task' = task
    BY <2>1, <2>2, PushType
  <2>4. QED
    BY <1>6, <2>1, <2>2, <2>3 DEF FlushPush, AfterFlush
<1>7. ASSUME JoinAll
      PROVE  TypeOK'
  <2>1. fifo' \in Seq(TaskSet)
    BY <1>7 DEF JoinAll, Q!Discard
  <2>2. QED
    BY <1>7, <2>1 DEF JoinAll, Q!Discard, SchedLabels, Fates
<1>8. ASSUME NEW w \in Workers, PopTask(w)
      PROVE  TypeOK'
  <2>1. fifo' \in Seq(TaskSet) /\ Head(fifo) \in TaskSet
    BY <1>8, PopTails DEF PopTask, Q!Pop
  <2>2. Head(fifo).id \in Ids
    BY <2>1 DEF TaskSet
  <2>3. tries' \in [Ids -> Nat] /\ task' \in [Workers -> TaskSet \cup {NoTask}]
    BY <1>8, <2>1, <2>2 DEF PopTask, Q!Pop
  <2>4. QED
    BY <1>8, <2>1, <2>3 DEF PopTask, Q!Pop, WorkerGoes, WorkerLabels
<1>9. ASSUME NEW w \in Workers, SyncSucceeds(w) \/ GiveUp(w)
      PROVE  TypeOK'
  BY <1>9 DEF SyncSucceeds, GiveUp, WorkerGoes, WorkerLabels, Fates
<1>10. ASSUME NEW w \in Workers, SyncFails(w)
       PROVE  TypeOK'
  <2>1. task[w] \in TaskSet /\ task[w].retry < MaxRetry
    BY <1>10 DEF SyncFails, MayRetry, WorkerGoes
  <2>2. task[w].id \in Ids /\ task[w].retry + 1 \in 0 .. MaxRetry
    BY <2>1 DEF TaskSet
  <2>3. Retried(task[w]) = [id |-> task[w].id, retry |-> task[w].retry + 1]
    <3>1. PICK i \in Ids, r \in 0 .. MaxRetry : task[w] = [id |-> i, retry |-> r]
      BY <2>1 DEF TaskSet
    <3>2. QED
      BY <3>1 DEF Retried
  <2>4. Retried(task[w]) \in TaskSet
    BY <2>2, <2>3 DEF TaskSet
  <2>5. QED
    BY <1>10, <2>4 DEF SyncFails, WorkerGoes, WorkerLabels
<1>11. ASSUME NEW w \in Workers, RetryPush(w)
       PROVE  TypeOK'
  <2>1. Q!FifoTypeOK' /\ fate' \in [Ids -> Fates] /\ task' = task
    BY <1>11, PushType DEF RetryPush, WorkerGoes
  <2>2. QED
    BY <1>11, <2>1 DEF RetryPush, WorkerGoes, WorkerLabels
<1>12. QED
  BY <1>1, <1>2, <1>3, <1>4, <1>5, <1>6, <1>7, <1>8, <1>9, <1>10, <1>11, NextCases

-----------------------------------------------------------------------------
(* What the invariant says of every event that is somewhere *)

LEMMA Known ==
    ASSUME IInv
    PROVE  /\ read \in Nat /\ Len(log) \in Nat /\ read <= Len(log) /\ Len(log) <= MaxEvents
           /\ 1 .. read \subseteq Ids /\ 1 .. read \subseteq 1 .. Len(log)
           /\ \A i \in Slotted \cup Queued \cup Held :
                i \in 1 .. read /\ log[i] # ExitEvent /\ fate[i] = "open"
           /\ \A k \in DOMAIN fifo : fifo[k] \in TaskSet /\ fifo[k].id \in Queued
           /\ \A w \in Busy : task[w] \in TaskSet /\ task[w].id \in Held
<1>1. /\ read \in Nat /\ Len(log) \in Nat /\ read <= Len(log) /\ Len(log) <= MaxEvents
      /\ 1 .. read \subseteq Ids /\ 1 .. read \subseteq 1 .. Len(log)
  BY TransferAssumption DEF IInv, TypeOK, Control, Ids
<1>2. \A i \in Slotted \cup Queued \cup Held :
        i \in 1 .. read /\ log[i] # ExitEvent /\ fate[i] = "open"
  BY DEF IInv, Places, OpenIds
<1>3. \A k \in DOMAIN fifo : fifo[k] \in TaskSet /\ fifo[k].id \in Queued
  BY DEF IInv, TypeOK, Q!FifoTypeOK, Queued
<1>4. \A w \in Busy : task[w] \in TaskSet /\ task[w].id \in Held
  BY DEF IInv, TypeOK, Busy, Held
<1>5. QED
  BY <1>1, <1>2, <1>3, <1>4

LEMMA KnownSlots ==
    ASSUME IInv, NEW s \in Used
    PROVE  /\ s \in SlotIds /\ pending[s] \in [id : Ids, age : 0 .. Debounce]
           /\ pending[s].id \in Slotted /\ pending[s].id \in 1 .. read
           /\ PathOf(s) \in Paths /\ Concerns(pending[s].id) = {PathOf(s)}
<1>1. s \in SlotIds /\ pending[s] \in [id : Ids, age : 0 .. Debounce]
  BY DEF IInv, TypeOK, Used
<1>2. pending[s].id \in Slotted /\ pending[s].id \in 1 .. read
  BY Known DEF Slotted
<1>3. log[pending[s].id] # ExitEvent /\ pending[s].id \in 1 .. Len(log)
  BY <1>2, Known
<1>4. log[pending[s].id].type = "UPDATE"
  BY DEF IInv, SlotsNewest
<1>5. QED
  BY <1>1, <1>2, <1>3, <1>4, EventFacts DEF IInv, PathOf

\* The second half of FirstTriesInOrder follows from the other parts: a slot has the
\* newest event of its path.
LEMMA OrderFromSlots ==
    ASSUME TypeOK', Places', SlotsNewest',
           (\A k, l \in DOMAIN fifo :
              /\ k < l /\ fifo[k].retry = 0 /\ fifo[l].retry = 0
              /\ Concerns(fifo[k].id) \cap Concerns(fifo[l].id) # {}
              => fifo[k].id < fifo[l].id)'
    PROVE  FirstTriesInOrder'
<1>1. SUFFICES ASSUME NEW k \in DOMAIN fifo', NEW s \in Used',
                      PathOf(s)' \in Concerns(fifo[k].id)'
               PROVE  fifo'[k].id < pending'[s].id
  BY DEF FirstTriesInOrder
<1>2. fifo'[k].id \in Queued' /\ pending'[s].id \in Slotted'
  BY DEF Queued, Slotted
<1>3. fifo'[k].id \in 1 .. read' /\ pending'[s].id \in 1 .. read'
  BY <1>2 DEF Places, OpenIds
<1>4. fifo'[k].id # pending'[s].id
  BY <1>2 DEF Places
<1>5. fifo'[k].id \notin (pending'[s].id + 1) .. read'
  BY <1>1 DEF SlotsNewest
<1>6. read' \in Nat
  BY DEF TypeOK
<1>7. QED
  BY <1>3, <1>4, <1>5, <1>6

\* IInv without its types and the half that OrderFromSlots gives.
Rest ==
    /\ Control /\ Places /\ Tried /\ SlotsNewest /\ SupersededByNewer
    /\ \A k, l \in DOMAIN fifo :
         /\ k < l /\ fifo[k].retry = 0 /\ fifo[l].retry = 0
         /\ Concerns(fifo[k].id) \cap Concerns(fifo[l].id) # {}
         => fifo[k].id < fifo[l].id
    /\ GivenUpAfterAllTries

LEMMA RestSuffices ==
    ASSUME TypeOK', Rest' PROVE IInv'
BY OrderFromSlots DEF Rest, IInv

-----------------------------------------------------------------------------
(* One lemma for every action, or group of actions *)

LEMMA QuietKeeps ==
    ASSUME IInv, QuietStep, TypeOK' PROVE Rest'
<1>1. /\ log' = log /\ pending' = pending /\ quiet' = quiet /\ fifo' = fifo
      /\ fate' = fate /\ tries' = tries
  BY DEF QuietStep, LoseWriters, SelectTimeout, ReadExit, FlushScan, FlushDone, StopQueue, Q!Stop,
         SetCtxStop, Exited, CheckStop, PopDrained, Q!PopDrained, vars, schedVars, queueVars
<1>2. read' = read \/ (read' = read + 1 /\ read < Len(log) /\ log[read + 1] = ExitEvent)
  BY DEF QuietStep, LoseWriters, SelectTimeout, ReadExit, FlushScan, FlushDone, StopQueue,
         SetCtxStop, Exited, CheckStop, PopDrained, vars, schedVars, queueVars
<1>3. /\ Busy' = Busy /\ \A w \in Busy : task'[w] = task[w] /\ workerPc'[w] = workerPc[w]
  <2>1. CASE \E w \in Workers : CheckStop(w) \/ PopDrained(w)
    BY <2>1 DEF CheckStop, PopDrained, Q!PopDrained, WorkerGoes, Busy, IInv, TypeOK, Q!FifoTypeOK
  <2>2. CASE UNCHANGED <<workerPc, task>>
    BY <2>2 DEF Busy
  <2>3. QED
    BY <2>1, <2>2 DEF QuietStep, LoseWriters, SelectTimeout, ReadExit, FlushScan, FlushDone,
         StopQueue, Q!Stop, SetCtxStop, Exited, vars, schedVars, queueVars
<1>4. Used' = Used /\ Slotted' = Slotted /\ Queued' = Queued /\ Held' = Held
  BY <1>1, <1>3 DEF Used, Slotted, Queued, Held
<1>5. OpenIds' = OpenIds
  BY <1>1, <1>2, Known DEF OpenIds
<1>6. Places'
  BY <1>1, <1>3, <1>4, <1>5 DEF IInv, Places
<1>7. Tried'
  <2>1. \A w \in Workers : workerPc'[w] \in {"sync", "backoff"} => w \in Busy
    BY <1>3 DEF Busy
  <2>2. QED
    BY <1>1, <1>3, <1>4, <2>1 DEF IInv, Tried
<1>8. \A i : Concerns(i)' = Concerns(i)
  BY <1>1 DEF Concerns
<1>9. SlotsNewest'
  <2>1. \A s \in Used : PathOf(s)' = PathOf(s)
    BY <1>1 DEF PathOf
  <2>2. read' = read + 1 => Concerns(read + 1) = {}
    BY <1>2, Known DEF Concerns, ExitEvent
  <2>3. \A s \in Used : \A j \in (pending[s].id + 1) .. read' : PathOf(s) \notin Concerns(j)
    BY <1>2, <2>2, Known, KnownSlots DEF IInv, SlotsNewest
  <2>4. QED
    BY <1>1, <1>4, <1>8, <2>1, <2>3 DEF IInv, SlotsNewest
<1>10. SupersededByNewer'
  BY <1>1, <1>2, <1>8, Known DEF IInv, SupersededByNewer
<1>11. Control'
  <2>1. CASE FlushScan
    BY <2>1, <1>1, <1>2, TransferAssumption DEF FlushScan, IsDue, Used, IInv, TypeOK, Control
  <2>2. CASE ~FlushScan
    <3>1. due' = due /\ (schedPc' = schedPc \/ due = {} \/ schedPc' \in {"select", "flush"})
      BY <2>2 DEF QuietStep, LoseWriters, SelectTimeout, ReadExit, FlushDone, StopQueue, IInv,
           Control, SetCtxStop, Exited, CheckStop, PopDrained, vars, schedVars, queueVars
    <3>2. due = {} \/ schedPc' = schedPc
      BY <2>2 DEF QuietStep, LoseWriters, SelectTimeout, ReadExit, FlushDone, StopQueue, IInv,
           Control, SetCtxStop, Exited, CheckStop, PopDrained, vars, schedVars, queueVars
    <3>3. QED
      BY <1>1, <1>2, <3>1, <3>2, Known DEF IInv, Control, Ids
  <2>3. QED
    BY <2>1, <2>2
<1>12. QED
  BY <1>1, <1>6, <1>7, <1>8, <1>9, <1>10, <1>11
     DEF IInv, Rest, FirstTriesInOrder, GivenUpAfterAllTries

LEMMA EmitKeeps ==
    ASSUME IInv, NEW e \in Events \cup {ExitEvent}, Emit(e), TypeOK' PROVE Rest'
<1>1. /\ log' = Append(log, e) /\ Len(log) < MaxEvents
      /\ UNCHANGED <<read, pending, due, schedPc, quiet, fifo, task, workerPc, fate, tries>>
  BY DEF Emit, queueVars
<1>2. /\ Len(log') <= MaxEvents
      /\ \A i \in 1 .. Len(log) : log'[i] = log[i] /\ Concerns(i)' = Concerns(i)
  BY <1>1, OldEventsStay, Known, TransferAssumption DEF IInv
<1>3. Used' = Used /\ Busy' = Busy /\ Slotted' = Slotted /\ Queued' = Queued /\ Held' = Held
  BY <1>1 DEF Used, Busy, Slotted, Queued, Held
<1>4. OpenIds' = OpenIds
  BY <1>1, <1>2, Known DEF OpenIds
<1>5. Control' /\ Places' /\ Tried'
  BY <1>1, <1>2, <1>3, <1>4 DEF IInv, Control, Places, Tried
<1>6. SlotsNewest'
  <2>1. \A s \in Used : PathOf(s)' = PathOf(s) /\ log'[pending[s].id] = log[pending[s].id]
    BY <1>1, <1>2, KnownSlots, Known DEF PathOf
  <2>2. \A j \in 1 .. read : Concerns(j)' = Concerns(j)
    BY <1>2, Known
  <2>3. \A s \in Used : \A j \in (pending[s].id + 1) .. read : j \in 1 .. read
    BY KnownSlots
  <2>4. QED
    <3>1. \A s, t \in Used' : PathOf(s)' = PathOf(t)' => s = t
      BY <1>3, <2>1 DEF IInv, SlotsNewest
    <3>2. ASSUME NEW s \in Used'
          PROVE  /\ log'[pending'[s].id].type = "UPDATE"
                 /\ quiet'[PathOf(s)'] = pending'[s].age
                 /\ \A j \in (pending'[s].id + 1) .. read' : PathOf(s)' \notin Concerns(j)'
      <4>1. \A j \in (pending[s].id + 1) .. read : PathOf(s) \notin Concerns(j)
        BY <1>3 DEF IInv, SlotsNewest
      <4>2. \A j \in (pending[s].id + 1) .. read : PathOf(s)' \notin Concerns(j)'
        BY <1>3, <2>1, <2>2, <2>3, <4>1
      <4>3. QED
        BY <1>1, <1>3, <2>1, <4>2 DEF IInv, SlotsNewest
    <3>3. QED
      BY <3>1, <3>2 DEF SlotsNewest
<1>7. SupersededByNewer'
  <2>1. \A i \in Ids : \A j \in (i + 1) .. read : Concerns(i)' = Concerns(i)
                                              /\ Concerns(j)' = Concerns(j)
    BY <1>2, Known DEF Ids
  <2>2. QED
    BY <1>1, <2>1 DEF IInv, SupersededByNewer
<1>8. \A k \in DOMAIN fifo : Concerns(fifo[k].id)' = Concerns(fifo[k].id)
  BY <1>1, <1>2, Known
<1>9. QED
  BY <1>1, <1>5, <1>6, <1>7, <1>8 DEF IInv, Rest, FirstTriesInOrder, GivenUpAfterAllTries

LEMMA TickKeeps ==
    ASSUME IInv, Tick, TypeOK' PROVE Rest'
<1>1. /\ UNCHANGED <<log, read, due, schedPc, fifo, task, workerPc, fate, tries>>
      /\ quiet' = [p \in Paths |-> Older(quiet[p])]
  BY DEF Tick, queueVars
<1>2. \A s \in SlotIds : pending[s] = FreeSlot => pending'[s] = FreeSlot
  BY DEF Tick
<1>3. ASSUME NEW s \in Used
      PROVE  /\ pending'[s].id = pending[s].id /\ pending'[s].age = Older(pending[s].age)
             /\ pending'[s] # FreeSlot
  <2>1. pending'[s] = [pending[s] EXCEPT !.age = Older(@)]
    BY DEF Tick, Used
  <2>2. pending'[s].id = pending[s].id /\ pending'[s].age = Older(pending[s].age)
    BY <2>1, KnownSlots
  <2>3. QED
    BY <2>2, KnownSlots DEF FreeSlot
<1>4. Used' = Used
  BY <1>2, <1>3 DEF Used
<1>5. Busy' = Busy /\ Slotted' = Slotted /\ Queued' = Queued /\ Held' = Held
  BY <1>1, <1>3, <1>4 DEF Busy, Slotted, Queued, Held
<1>6. OpenIds' = OpenIds /\ \A i : Concerns(i)' = Concerns(i)
  BY <1>1 DEF OpenIds, Concerns
<1>7. Control'
  <2>1. due \subseteq Used /\ Older(Debounce) = Debounce
    BY TransferAssumption DEF IInv, TypeOK, Used, Older
  <2>2. QED
    BY <1>1, <1>3, <2>1 DEF IInv, Control
<1>8. Places' /\ Tried'
  BY <1>1, <1>3, <1>4, <1>5, <1>6 DEF IInv, Places, Tried
<1>9. SlotsNewest'
  <2>1. \A s \in Used : PathOf(s)' = PathOf(s) /\ PathOf(s) \in Paths
    BY <1>1, <1>3, KnownSlots DEF PathOf
  <2>2. QED
    BY <1>1, <1>3, <1>4, <1>6, <2>1 DEF IInv, SlotsNewest
<1>10. QED
  BY <1>1, <1>6, <1>7, <1>8, <1>9
     DEF IInv, Rest, SupersededByNewer, FirstTriesInOrder, GivenUpAfterAllTries

\* The event that is read next is in no place and newer than all that are.
LEMMA NextEvent ==
    ASSUME IInv, read < Len(log), log[read + 1].type # "EXIT"
    PROVE  /\ read + 1 \in Ids /\ read + 1 \in 1 .. Len(log) /\ log[read + 1] # ExitEvent
           /\ log[read + 1].path \in Concerns(read + 1) /\ Concerns(read + 1) \subseteq Paths
           /\ log[read + 1].path \in Paths
           /\ log[read + 1].type # "RENAME" => Concerns(read + 1) = {log[read + 1].path}
           /\ fate[read + 1] = "open" /\ tries[read + 1] = 0
           /\ read + 1 \notin Slotted \cup Queued \cup Held
<1>1. read + 1 \in Ids /\ read + 1 \in 1 .. Len(log) /\ log[read + 1] # ExitEvent
  BY Known, TransferAssumption DEF ExitEvent, Ids
<1>2. fate[read + 1] = "open" /\ tries[read + 1] = 0
  BY <1>1, Known DEF IInv, Control
<1>3. read + 1 \notin Slotted \cup Queued \cup Held
  BY Known
<1>4. QED
  BY <1>1, <1>2, <1>3, EventFacts DEF IInv

\* The two outcomes of ReadUpdate that enter the event: it takes slot s, whose event, if
\* it had one, is merged away.
LEMMA SlotTakes ==
    ASSUME IInv, TypeOK', ReadUpdate, NEW s \in SlotIds, NEW gone,
           gone = {pending[t].id : t \in Used \cap {s}},
           pending' = [pending EXCEPT ![s] = [id |-> read + 1, age |-> 0]],
           fate' = [k \in Ids |-> IF k \in gone THEN "merged" ELSE fate[k]],
           s \in Used => PathOf(s) = log[read + 1].path,
           \A t \in Used \ {s} : PathOf(t) # log[read + 1].path
    PROVE  Rest'
<1> DEFINE i == read + 1
           path == log[i].path
<1>1. /\ UNCHANGED <<log, due, fifo, task, workerPc, tries>>
      /\ read' = i /\ schedPc' = "flush" /\ due = {}
      /\ quiet' = [quiet EXCEPT ![path] = 0]
  BY DEF ReadUpdate, queueVars, IInv, Control
<1>2. /\ i \in Ids /\ i \in 1 .. Len(log) /\ log[i] # ExitEvent /\ log[i].type = "UPDATE"
      /\ Concerns(i) = {path} /\ path \in Paths
      /\ fate[i] = "open" /\ tries[i] = 0 /\ i \notin Slotted \cup Queued \cup Held
  BY NextEvent DEF ReadUpdate
<1>3. pending'[s] = [id |-> i, age |-> 0] /\ \A t \in SlotIds \ {s} : pending'[t] = pending[t]
  BY DEF IInv, TypeOK
<1>4. Used' = Used \cup {s}
  BY <1>2, <1>3 DEF Used, FreeSlot, Ids
<1>5. Slotted' = (Slotted \ gone) \cup {i}
  <2>1. \A t \in Used \ {s} : pending[t].id \notin gone
    BY DEF IInv, Places
  <2>2. QED
    BY <1>3, <1>4, <2>1, KnownSlots DEF Slotted
<1>6. Busy' = Busy /\ Queued' = Queued /\ Held' = Held /\ gone \subseteq Slotted
  BY <1>1 DEF Busy, Queued, Held, Slotted
<1>7. \A k : Concerns(k)' = Concerns(k)
  BY <1>1 DEF Concerns
<1>8. i \notin gone /\ gone \subseteq 1 .. read /\ gone \cap Queued = {} /\ gone \cap Held = {}
  BY <1>2, <1>6, Known DEF IInv, Places
<1>9. OpenIds' = (OpenIds \ gone) \cup {i}
  BY <1>1, <1>2, <1>8, Known DEF OpenIds
<1>10. Control'
  <2>1. \A k \in Ids : k > read' => fate'[k] = "open" /\ tries'[k] = 0
    BY <1>1, <1>8, Known DEF IInv, Control, Ids
  <2>2. QED
    BY <1>1, <2>1 DEF IInv, Control
<1>11. Places'
  <2>1. \A t, u \in Used' : pending'[t].id = pending'[u].id => t = u
    BY <1>2, <1>3, <1>4, KnownSlots DEF IInv, Places
  <2>2. QED
    BY <1>1, <1>2, <1>5, <1>6, <1>8, <1>9, <2>1 DEF IInv, Places
<1>12. Tried'
  BY <1>1, <1>2, <1>3, <1>4, KnownSlots DEF IInv, Tried
<1>13. PathOf(s)' = path /\ \A t \in Used \ {s} : PathOf(t)' = PathOf(t)
  BY <1>1, <1>3, KnownSlots DEF PathOf
<1>14. SlotsNewest'
  <2>1. \A t, u \in Used' : PathOf(t)' = PathOf(u)' => t = u
    BY <1>4, <1>13 DEF IInv, SlotsNewest
  <2>2. /\ log'[pending'[s].id].type = "UPDATE" /\ quiet'[PathOf(s)'] = pending'[s].age
        /\ \A j \in (pending'[s].id + 1) .. read' : PathOf(s)' \notin Concerns(j)'
    BY <1>1, <1>2, <1>3, <1>13, Known DEF IInv, TypeOK
  <2>3. ASSUME NEW t \in Used \ {s}
        PROVE  /\ log'[pending'[t].id].type = "UPDATE" /\ quiet'[PathOf(t)'] = pending'[t].age
               /\ \A j \in (pending'[t].id + 1) .. read' : PathOf(t)' \notin Concerns(j)'
    <3>1. PathOf(t) # path /\ PathOf(t) \in Paths /\ pending'[t] = pending[t]
      BY <1>3, KnownSlots
    <3>2. \A j \in (pending[t].id + 1) .. read : PathOf(t) \notin Concerns(j)
      BY DEF IInv, SlotsNewest
    <3>3. \A j \in (pending[t].id + 1) .. read' : PathOf(t) \notin Concerns(j)
      BY <1>1, <1>2, <3>1, <3>2, Known, KnownSlots
    <3>4. quiet'[PathOf(t)] = quiet[PathOf(t)]
      BY <1>1, <3>1 DEF IInv, TypeOK
    <3>5. QED
      BY <1>1, <1>7, <1>13, <3>1, <3>3, <3>4 DEF IInv, SlotsNewest
  <2>4. QED
    BY <1>4, <2>1, <2>2, <2>3 DEF SlotsNewest
<1>15. SupersededByNewer'
  <2>1. SUFFICES ASSUME NEW k \in Ids, fate'[k] \in {"merged", "removed"}
                 PROVE  \E j \in (k + 1) .. i : Concerns(k) \cap Concerns(j) # {}
    BY <1>1, <1>7 DEF SupersededByNewer
  <2>2. CASE k \in gone
    <3>1. k \in 1 .. read /\ Concerns(k) = {path}
      BY <1>8, <2>2, KnownSlots
    <3>2. i \in (k + 1) .. i
      BY <3>1, Known
    <3>3. QED
      BY <1>2, <3>1, <3>2
  <2>3. CASE k \notin gone
    <3>1. PICK j \in (k + 1) .. read : Concerns(k) \cap Concerns(j) # {}
      BY <2>1, <2>3 DEF IInv, SupersededByNewer
    <3>2. j \in (k + 1) .. i
      BY <3>1, Known DEF Ids
    <3>3. QED
      BY <3>1, <3>2
  <2>4. QED
    BY <2>2, <2>3
<1>16. GivenUpAfterAllTries'
  BY <1>1 DEF IInv, GivenUpAfterAllTries
<1>17. QED
  BY <1>1, <1>7, <1>10, <1>11, <1>12, <1>14, <1>15, <1>16 DEF IInv, Rest, FirstTriesInOrder

LEMMA ReadUpdateKeeps ==
    ASSUME IInv, ReadUpdate, TypeOK' PROVE Rest'
<1> DEFINE i == read + 1
           same == SlotsOf(log[i].path)
<1>1. /\ UNCHANGED <<log, due, fifo, task, workerPc, tries>>
      /\ read' = i /\ schedPc' = "flush" /\ due = {}
      /\ quiet' = [quiet EXCEPT ![log[i].path] = 0]
  BY DEF ReadUpdate, queueVars, IInv, Control
<1>2. /\ i \in Ids /\ i \in 1 .. Len(log) /\ log[i] # ExitEvent /\ log[i].type = "UPDATE"
      /\ Concerns(i) = {log[i].path} /\ log[i].path \in Paths
      /\ fate[i] = "open" /\ tries[i] = 0 /\ i \notin Slotted \cup Queued \cup Held
  BY NextEvent DEF ReadUpdate
<1>3. fate = [k \in Ids |-> fate[k]]
  BY DEF IInv, TypeOK
<1>4. CASE \E s \in same : /\ pending' = [pending EXCEPT ![s] = Refreshed(@, i)]
                           /\ fate' = [fate EXCEPT ![pending[s].id] = "merged"]
  <2>1. PICK s \in same : /\ pending' = [pending EXCEPT ![s] = Refreshed(@, i)]
                          /\ fate' = [fate EXCEPT ![pending[s].id] = "merged"]
    BY <1>4
  <2>2. s \in Used /\ s \in SlotIds /\ PathOf(s) = log[i].path
    BY <2>1 DEF SlotsOf, Used
  <2>3. {pending[t].id : t \in Used \cap {s}} = {pending[s].id}
    BY <2>2
  <2>4. fate' = [k \in Ids |-> IF k \in {pending[s].id} THEN "merged" ELSE fate[k]]
    BY <1>3, <2>1
  <2>5. \A t \in Used \ {s} : PathOf(t) # log[i].path
    BY <2>2 DEF IInv, SlotsNewest
  <2>6. pending' = [pending EXCEPT ![s] = [id |-> i, age |-> 0]]
    BY <2>1 DEF Refreshed
  <2>7. QED
    BY <2>2, <2>3, <2>4, <2>5, <2>6, SlotTakes
<1>5. CASE /\ same = {}
           /\ \E s \in SlotIds \ Used : pending' = [pending EXCEPT ![s] = Refreshed(@, i)]
           /\ UNCHANGED fate
  <2>1. PICK s \in SlotIds \ Used : pending' = [pending EXCEPT ![s] = Refreshed(@, i)]
    BY <1>5
  <2>2. {pending[t].id : t \in Used \cap {s}} = {}
    BY <2>1
  <2>3. fate' = [k \in Ids |-> IF k \in {} THEN "merged" ELSE fate[k]]
    BY <1>3, <1>5
  <2>4. \A t \in Used \ {s} : PathOf(t) # log[i].path
    BY <1>5 DEF SlotsOf
  <2>5. pending' = [pending EXCEPT ![s] = [id |-> i, age |-> 0]]
    BY <2>1 DEF Refreshed
  <2>6. QED
    BY <2>1, <2>2, <2>3, <2>4, <2>5, SlotTakes
<1>6. CASE /\ same = {} /\ UNCHANGED pending
           /\ fate' = [fate EXCEPT ![i] = "dropped"]
  <2>1. Used' = Used /\ Busy' = Busy /\ Slotted' = Slotted /\ Queued' = Queued /\ Held' = Held
    BY <1>1, <1>6 DEF Used, Busy, Slotted, Queued, Held
  <2>2. /\ \A k : Concerns(k)' = Concerns(k)
        /\ \A s \in Used : PathOf(s)' = PathOf(s)
    BY <1>1, <1>6 DEF Concerns, PathOf
  <2>3. /\ fate'[i] = "dropped" /\ \A k \in Ids \ {i} : fate'[k] = fate[k]
    BY <1>2, <1>3, <1>6
  <2>4. OpenIds' = OpenIds
    BY <1>1, <2>3, Known DEF OpenIds
  <2>5. \A k \in Ids : k > read' => fate'[k] = "open" /\ tries'[k] = 0
    BY <1>1, <2>3, Known DEF IInv, Control, Ids
  <2>6. Control' /\ Places' /\ Tried'
    BY <1>1, <1>6, <2>1, <2>4, <2>5 DEF IInv, Control, Places, Tried
  <2>7. SlotsNewest'
    <3>1. ASSUME NEW s \in Used
          PROVE  /\ quiet'[PathOf(s)] = quiet[PathOf(s)]
                 /\ \A j \in (pending[s].id + 1) .. read' : PathOf(s) \notin Concerns(j)
      <4>1. PathOf(s) # log[i].path /\ PathOf(s) \in Paths
        BY <1>6, KnownSlots DEF SlotsOf
      <4>2. \A j \in (pending[s].id + 1) .. read : PathOf(s) \notin Concerns(j)
        BY DEF IInv, SlotsNewest
      <4>3. \A j \in (pending[s].id + 1) .. read' : PathOf(s) \notin Concerns(j)
        BY <1>1, <1>2, <4>1, <4>2, Known, KnownSlots
      <4>4. QED
        BY <1>1, <4>1, <4>3 DEF IInv, TypeOK
    <3>2. QED
      BY <1>1, <1>6, <2>1, <2>2, <3>1 DEF IInv, SlotsNewest
  <2>8. SupersededByNewer'
    <3>1. \A k \in Ids : \A j \in (k + 1) .. read : j \in (k + 1) .. read'
      BY <1>1, Known DEF Ids
    <3>2. QED
      BY <1>1, <2>2, <2>3, <3>1 DEF IInv, SupersededByNewer
  <2>9. GivenUpAfterAllTries'
    BY <1>1, <2>3 DEF IInv, GivenUpAfterAllTries
  <2>10. QED
    BY <1>1, <2>2, <2>6, <2>7, <2>8, <2>9 DEF IInv, Rest, FirstTriesInOrder
<1>7. QED
  BY <1>4, <1>5, <1>6 DEF ReadUpdate, DebounceUpdate

\* The slots G are cleared.
LEMMA SlotsFreed ==
    ASSUME IInv, NEW G \in SUBSET Used,
           pending' = [s \in SlotIds |-> IF s \in G THEN FreeSlot ELSE pending[s]]
    PROVE  /\ Used' = Used \ G /\ \A s \in Used' : pending'[s] = pending[s]
           /\ Slotted' = Slotted \ {pending[s].id : s \in G}
           /\ {pending[s].id : s \in G} \subseteq Slotted
           /\ \A s, t \in Used' : pending'[s].id = pending'[t].id => s = t
<1>1. Used' = Used \ G /\ \A s \in Used' : pending'[s] = pending[s]
  BY DEF Used
<1>2. \A s \in Used', t \in G : pending[s].id # pending[t].id
  BY <1>1 DEF IInv, Places
<1>3. Slotted' = Slotted \ {pending[s].id : s \in G} /\ {pending[s].id : s \in G} \subseteq Slotted
  BY <1>1, <1>2 DEF Slotted
<1>4. QED
  BY <1>1, <1>3 DEF IInv, Places

LEMMA ReadImmediateKeeps ==
    ASSUME IInv, ReadImmediate, TypeOK' PROVE Rest'
<1> DEFINE i == read + 1
           G == Cleared(i)
           gone == {pending[s].id : s \in G}
<1>1. /\ UNCHANGED <<log, due, stopped, task, workerPc, tries>>
      /\ read' = i /\ schedPc' = "flush" /\ due = {}
      /\ fifo' = Append(fifo, FirstTry(i))
      /\ quiet' = [p \in Paths |-> IF p \in Concerns(i) THEN 0 ELSE quiet[p]]
      /\ pending' = [s \in SlotIds |-> IF s \in G THEN FreeSlot ELSE pending[s]]
      /\ fate' = [k \in Ids |-> IF k \in gone THEN "removed" ELSE fate[k]]
  BY DEF ReadImmediate, Q!Push, IInv, Control
<1>2. /\ i \in Ids /\ i \in 1 .. Len(log) /\ log[i] # ExitEvent
      /\ fate[i] = "open" /\ tries[i] = 0 /\ i \notin Slotted \cup Queued \cup Held
  BY NextEvent DEF ReadImmediate
<1>3. G \in SUBSET Used /\ \A s \in Used : s \in G <=> PathOf(s) \in Concerns(i)
  BY DEF Cleared, SlotsOf
<1>4. /\ Used' = Used \ G /\ \A s \in Used' : pending'[s] = pending[s]
      /\ Slotted' = Slotted \ gone /\ gone \subseteq Slotted
      /\ \A s, t \in Used' : pending'[s].id = pending'[t].id => s = t
  BY <1>1, <1>3, SlotsFreed
<1>5. FirstTry(i) \in TaskSet /\ FirstTry(i).id = i /\ FirstTry(i).retry = 0
  BY <1>2, TransferAssumption DEF FirstTry, TaskSet
<1>6. /\ DOMAIN fifo = 1 .. Len(fifo) /\ DOMAIN fifo' = 1 .. (Len(fifo) + 1)
      /\ \A k \in DOMAIN fifo : fifo'[k] = fifo[k]
      /\ fifo'[Len(fifo) + 1] = FirstTry(i) /\ Len(fifo) \in Nat
      /\ Queued' = Queued \cup {i}
  BY <1>1, <1>5, PushAppends DEF IInv
<1>7. Busy' = Busy /\ Held' = Held /\ \A k : Concerns(k)' = Concerns(k)
  BY <1>1 DEF Busy, Held, Concerns
<1>8. i \notin gone /\ gone \subseteq 1 .. read /\ gone \cap Queued = {} /\ gone \cap Held = {}
  BY <1>2, <1>4, Known DEF IInv, Places
<1>9. OpenIds' = (OpenIds \ gone) \cup {i}
  BY <1>1, <1>2, <1>8, Known DEF OpenIds
<1>10. Control'
  <2>1. \A k \in Ids : k > read' => fate'[k] = "open" /\ tries'[k] = 0
    BY <1>1, <1>8, Known DEF IInv, Control, Ids
  <2>2. QED
    BY <1>1, <2>1 DEF IInv, Control
<1>11. Places'
  <2>1. \A k, l \in DOMAIN fifo' : fifo'[k].id = fifo'[l].id => k = l
    BY <1>2, <1>5, <1>6, Known DEF IInv, Places
  <2>2. \A v, w \in Busy' : task'[v].id = task'[w].id => v = w
    BY <1>1, <1>7 DEF IInv, Places
  <2>3. /\ Slotted' \cap Queued' = {} /\ Slotted' \cap Held' = {} /\ Queued' \cap Held' = {}
        /\ Slotted' \cup Queued' \cup Held' = OpenIds'
    BY <1>2, <1>4, <1>6, <1>7, <1>8, <1>9 DEF IInv, Places
  <2>4. QED
    BY <1>4, <2>1, <2>2, <2>3 DEF Places
<1>12. Tried'
  BY <1>1, <1>2, <1>4, <1>5, <1>6 DEF IInv, Tried
<1>13. SlotsNewest'
  <2>1. \A s \in Used' : PathOf(s)' = PathOf(s) /\ s \in Used
    BY <1>1, <1>4 DEF PathOf
  <2>2. ASSUME NEW s \in Used'
        PROVE  /\ quiet'[PathOf(s)] = quiet[PathOf(s)]
               /\ \A j \in (pending[s].id + 1) .. read' : PathOf(s) \notin Concerns(j)
    <3>1. PathOf(s) \notin Concerns(i) /\ PathOf(s) \in Paths /\ pending[s].id \in 1 .. read
      BY <1>3, <1>4, <2>1, KnownSlots
    <3>2. \A j \in (pending[s].id + 1) .. read : PathOf(s) \notin Concerns(j)
      BY <2>1 DEF IInv, SlotsNewest
    <3>3. \A j \in (pending[s].id + 1) .. read' : PathOf(s) \notin Concerns(j)
      BY <1>1, <3>1, <3>2, Known
    <3>4. QED
      BY <1>1, <3>1, <3>3
  <2>3. QED
    <3>1. \A s, t \in Used' : PathOf(s)' = PathOf(t)' => s = t
      BY <2>1 DEF IInv, SlotsNewest
    <3>2. ASSUME NEW s \in Used'
          PROVE  /\ log'[pending'[s].id].type = "UPDATE" /\ quiet'[PathOf(s)'] = pending'[s].age
                 /\ \A j \in (pending'[s].id + 1) .. read' : PathOf(s)' \notin Concerns(j)'
      <4>1. s \in Used /\ pending'[s] = pending[s] /\ PathOf(s)' = PathOf(s)
        BY <1>4, <2>1
      <4>2. log'[pending'[s].id].type = "UPDATE" /\ quiet'[PathOf(s)'] = pending'[s].age
        BY <1>1, <2>2, <4>1 DEF IInv, SlotsNewest
      <4>3. \A j \in (pending'[s].id + 1) .. read' : PathOf(s)' \notin Concerns(j)'
        BY <1>7, <2>2, <4>1
      <4>4. QED
        BY <4>2, <4>3
    <3>3. QED
      BY <3>1, <3>2 DEF SlotsNewest
<1>14. SupersededByNewer'
  <2>1. SUFFICES ASSUME NEW k \in Ids, fate'[k] \in {"merged", "removed"}
                 PROVE  \E j \in (k + 1) .. i : Concerns(k) \cap Concerns(j) # {}
    BY <1>1, <1>7 DEF SupersededByNewer
  <2>2. CASE k \in gone
    <3>1. PICK s \in G : k = pending[s].id
      BY <2>2
    <3>2. k \in 1 .. read /\ Concerns(k) = {PathOf(s)} /\ PathOf(s) \in Concerns(i)
      BY <1>3, <1>8, <2>2, <3>1, KnownSlots
    <3>3. i \in (k + 1) .. i
      BY <3>2, Known
    <3>4. QED
      BY <3>2, <3>3
  <2>3. CASE k \notin gone
    <3>1. PICK j \in (k + 1) .. read : Concerns(k) \cap Concerns(j) # {}
      BY <1>1, <2>1, <2>3 DEF IInv, SupersededByNewer
    <3>2. j \in (k + 1) .. i
      BY <3>1, Known DEF Ids
    <3>3. QED
      BY <3>1, <3>2
  <2>4. QED
    BY <2>2, <2>3
<1>15. (\A k, l \in DOMAIN fifo :
          /\ k < l /\ fifo[k].retry = 0 /\ fifo[l].retry = 0
          /\ Concerns(fifo[k].id) \cap Concerns(fifo[l].id) # {}
          => fifo[k].id < fifo[l].id)'
  <2>1. SUFFICES ASSUME NEW k \in DOMAIN fifo', NEW l \in DOMAIN fifo', k < l,
                        fifo'[k].retry = 0, fifo'[l].retry = 0,
                        Concerns(fifo'[k].id) \cap Concerns(fifo'[l].id) # {}
                 PROVE  fifo'[k].id < fifo'[l].id
    BY <1>7
  <2>2. k \in DOMAIN fifo /\ fifo'[k] = fifo[k]
    BY <1>6, <2>1
  <2>3. CASE l \in DOMAIN fifo
    BY <1>6, <2>1, <2>2, <2>3 DEF IInv, FirstTriesInOrder
  <2>4. CASE l = Len(fifo) + 1
    BY <1>5, <1>6, <2>2, <2>4, Known
  <2>5. QED
    BY <1>6, <2>3, <2>4
<1>16. GivenUpAfterAllTries'
  BY <1>1 DEF IInv, GivenUpAfterAllTries
<1>17. QED
  BY <1>10, <1>11, <1>12, <1>13, <1>14, <1>15, <1>16 DEF Rest

LEMMA FlushPushKeeps ==
    ASSUME IInv, FlushPush, TypeOK' PROVE Rest'
<1>1. PICK i \in due : /\ Push(FirstTry(pending[i].id))
                      /\ pending' = AfterFlush(i) /\ due' = due \ {i}
  BY DEF FlushPush
<1> DEFINE x == pending[i].id
<1>2. i \in Used /\ x \in Ids /\ x \in 1 .. read /\ x \in Slotted
      /\ Concerns(x) = {PathOf(i)} /\ fate[x] = "open"
      /\ x \notin Queued \cup Held /\ tries[x] = 0
  <2>1. i \in Used
    BY DEF IInv, TypeOK, Used
  <2>2. QED
    BY <2>1, Known, KnownSlots DEF IInv, Places, Tried
<1>3. FirstTry(x) \in TaskSet /\ FirstTry(x).id = x /\ FirstTry(x).retry = 0
  BY <1>2, TransferAssumption DEF FirstTry, TaskSet
<1>4. UNCHANGED <<log, read, quiet, schedPc, task, workerPc, tries>>
  BY <1>1 DEF FlushPush, Push, Q!Push, queueVars
<1>5. pending' = [s \in SlotIds |-> IF s \in {i} THEN FreeSlot ELSE pending[s]]
  BY <1>1 DEF AfterFlush, IInv, TypeOK
<1>6. /\ Used' = Used \ {i} /\ \A s \in Used' : pending'[s] = pending[s]
      /\ Slotted' = Slotted \ {x}
      /\ \A s, t \in Used' : pending'[s].id = pending'[t].id => s = t
  <2>1. {i} \in SUBSET Used /\ {pending[s].id : s \in {i}} = {x}
    BY <1>2
  <2>2. QED
    BY <1>5, <2>1, SlotsFreed
<1>7. Busy' = Busy /\ Held' = Held /\ \A k : Concerns(k)' = Concerns(k)
  BY <1>4 DEF Busy, Held, Concerns
<1>8. \/ /\ fate' = fate /\ fifo' = Append(fifo, FirstTry(x))
      \/ /\ fate' = [fate EXCEPT ![x] = "refused"] /\ fifo' = fifo
  BY <1>1, <1>3 DEF Push, Q!Push, queueVars
<1>9. /\ \A k \in Ids \ {x} : fate'[k] = fate[k]
      /\ fate'[x] \in {"open", "refused"}
  BY <1>2, <1>8 DEF IInv, TypeOK
<1>10. /\ fate' = fate => OpenIds' = OpenIds
       /\ fate'[x] = "refused" => OpenIds' = OpenIds \ {x}
  BY <1>4, <1>9, Known DEF OpenIds
<1>11. fifo' = Append(fifo, FirstTry(x)) =>
         /\ DOMAIN fifo = 1 .. Len(fifo) /\ DOMAIN fifo' = 1 .. (Len(fifo) + 1)
         /\ \A k \in DOMAIN fifo : fifo'[k] = fifo[k]
         /\ fifo'[Len(fifo) + 1] = FirstTry(x) /\ Len(fifo) \in Nat
         /\ Queued' = Queued \cup {x}
  BY <1>3, PushAppends DEF IInv
<1>12. Control'
  <2>1. \A k \in Ids : k > read' => fate'[k] = "open" /\ tries'[k] = 0
    BY <1>2, <1>4, <1>9, Known DEF IInv, Control
  <2>2. schedPc \in {"push", "push_all"}
    BY DEF FlushPush
  <2>3. \A s \in due' : s \in due /\ s \in Used'
    BY <1>1, <1>6 DEF IInv, TypeOK, Used
  <2>4. QED
    BY <1>4, <1>6, <2>1, <2>2, <2>3 DEF IInv, Control
<1>13. Places'
  <2>1. \A v, w \in Busy' : task'[v].id = task'[w].id => v = w
    BY <1>4, <1>7 DEF IInv, Places
  <2>2. CASE fate' = fate /\ fifo' = Append(fifo, FirstTry(x))
    <3>1. \A k, l \in DOMAIN fifo' : fifo'[k].id = fifo'[l].id => k = l
      BY <1>2, <1>3, <1>11, <2>2, Known DEF IInv, Places
    <3>2. /\ Slotted' \cap Queued' = {} /\ Slotted' \cap Held' = {} /\ Queued' \cap Held' = {}
          /\ Slotted' \cup Queued' \cup Held' = OpenIds'
      BY <1>2, <1>6, <1>7, <1>10, <1>11, <2>2 DEF IInv, Places
    <3>3. QED
      BY <1>6, <2>1, <3>1, <3>2 DEF Places
  <2>3. CASE fate' = [fate EXCEPT ![x] = "refused"] /\ fifo' = fifo
    <3>1. fate'[x] = "refused" /\ Queued' = Queued
      BY <1>2, <2>3 DEF IInv, TypeOK, Queued
    <3>2. /\ Slotted' \cap Queued' = {} /\ Slotted' \cap Held' = {} /\ Queued' \cap Held' = {}
          /\ Slotted' \cup Queued' \cup Held' = OpenIds'
      BY <1>2, <1>6, <1>7, <1>10, <3>1 DEF IInv, Places
    <3>3. QED
      BY <1>6, <2>1, <2>3, <3>2 DEF IInv, Places
  <2>4. QED
    BY <1>8, <2>2, <2>3
<1>14. Tried'
  <2>1. \A k \in DOMAIN fifo' : tries'[fifo'[k].id] = fifo'[k].retry
    BY <1>2, <1>3, <1>4, <1>8, <1>11 DEF IInv, Tried
  <2>2. QED
    BY <1>4, <1>6, <2>1 DEF IInv, Tried
<1>15. \A s \in Used' : s \in Used /\ s # i /\ PathOf(s)' = PathOf(s) /\ PathOf(s) # PathOf(i)
  BY <1>2, <1>4, <1>6 DEF PathOf, IInv, SlotsNewest
<1>16. SlotsNewest'
  <2>1. \A s, t \in Used' : PathOf(s)' = PathOf(t)' => s = t
    BY <1>15 DEF IInv, SlotsNewest
  <2>2. ASSUME NEW s \in Used'
        PROVE  /\ log'[pending'[s].id].type = "UPDATE" /\ quiet'[PathOf(s)'] = pending'[s].age
               /\ \A j \in (pending'[s].id + 1) .. read' : PathOf(s)' \notin Concerns(j)'
    <3>1. s \in Used /\ pending'[s] = pending[s] /\ PathOf(s)' = PathOf(s)
      BY <1>6, <1>15
    <3>2. QED
      BY <1>4, <1>7, <3>1 DEF IInv, SlotsNewest
  <2>3. QED
    BY <2>1, <2>2 DEF SlotsNewest
<1>17. SupersededByNewer'
  BY <1>4, <1>7, <1>9 DEF IInv, SupersededByNewer
<1>18. (\A k, l \in DOMAIN fifo :
          /\ k < l /\ fifo[k].retry = 0 /\ fifo[l].retry = 0
          /\ Concerns(fifo[k].id) \cap Concerns(fifo[l].id) # {}
          => fifo[k].id < fifo[l].id)'
  <2>1. SUFFICES ASSUME NEW k \in DOMAIN fifo', NEW l \in DOMAIN fifo', k < l,
                        fifo'[k].retry = 0, fifo'[l].retry = 0,
                        Concerns(fifo[k].id)' \cap Concerns(fifo[l].id)' # {}
                 PROVE  fifo'[k].id < fifo'[l].id
    OBVIOUS
  <2>2. CASE fifo' = fifo
    <3>1. Concerns(fifo[k].id) \cap Concerns(fifo[l].id) # {}
      BY <1>4, <2>1, <2>2 DEF Concerns
    <3>2. QED
      BY <2>1, <2>2, <3>1 DEF IInv, FirstTriesInOrder
  <2>3. CASE fifo' = Append(fifo, FirstTry(x)) /\ l \in DOMAIN fifo
    <3>1. k \in DOMAIN fifo /\ fifo'[k] = fifo[k] /\ fifo'[l] = fifo[l]
      BY <1>11, <2>1, <2>3
    <3>2. Concerns(fifo[k].id) \cap Concerns(fifo[l].id) # {}
      BY <1>4, <2>1, <3>1 DEF Concerns
    <3>3. QED
      BY <2>1, <2>3, <3>1, <3>2 DEF IInv, FirstTriesInOrder
  <2>4. CASE fifo' = Append(fifo, FirstTry(x)) /\ l = Len(fifo) + 1
    <3>1. k \in DOMAIN fifo /\ fifo'[k] = fifo[k] /\ fifo'[l].id = x
      BY <1>3, <1>11, <2>1, <2>4
    <3>2. Concerns(fifo[k].id) \cap Concerns(x) # {}
      BY <1>4, <2>1, <3>1 DEF Concerns
    <3>3. PathOf(i) \in Concerns(fifo[k].id)
      BY <1>2, <3>2
    <3>4. QED
      BY <1>2, <3>1, <3>3 DEF IInv, FirstTriesInOrder
  <2>5. QED
    BY <1>8, <1>11, <2>2, <2>3, <2>4
<1>19. GivenUpAfterAllTries'
  BY <1>4, <1>9 DEF IInv, GivenUpAfterAllTries
<1>20. QED
  BY <1>12, <1>13, <1>14, <1>16, <1>17, <1>18, <1>19 DEF Rest

LEMMA JoinAllKeeps ==
    ASSUME IInv, JoinAll, TypeOK' PROVE Rest'
<1>1. /\ UNCHANGED <<log, read, pending, due, quiet, task, workerPc, tries>>
      /\ fifo' = <<>> /\ schedPc = "done" /\ schedPc' = "joined"
      /\ fate' = [i \in Ids |-> IF i \in Queued THEN "abandoned" ELSE fate[i]]
  BY DEF JoinAll, Q!Discard, Queued
<1>2. Busy = {} /\ Busy' = {} /\ Held = {} /\ Held' = {}
  BY <1>1 DEF JoinAll, Busy, Held
<1>3. Used' = Used /\ Slotted' = Slotted
  BY <1>1 DEF Used, Slotted
<1>4. DOMAIN fifo' = {} /\ Queued' = {}
  BY <1>1 DEF Queued
<1>5. OpenIds' = OpenIds \ Queued
  BY <1>1, Known DEF OpenIds
<1>6. /\ \A k : Concerns(k)' = Concerns(k)
      /\ \A s \in Used : PathOf(s)' = PathOf(s)
  BY <1>1 DEF Concerns, PathOf
<1>7. Control'
  BY <1>1, Known DEF IInv, Control, Ids
<1>8. Places'
  BY <1>1, <1>2, <1>3, <1>4, <1>5 DEF IInv, Places
<1>9. Tried'
  <2>1. \A w \in Workers : workerPc'[w] = "gone"
    BY <1>1 DEF JoinAll
  <2>2. QED
    BY <1>1, <1>3, <1>4, <2>1 DEF IInv, Tried
<1>10. SlotsNewest'
  BY <1>1, <1>3, <1>6 DEF IInv, SlotsNewest
<1>11. SupersededByNewer' /\ GivenUpAfterAllTries'
  BY <1>1, <1>6 DEF IInv, SupersededByNewer, GivenUpAfterAllTries
<1>12. QED
  BY <1>4, <1>7, <1>8, <1>9, <1>10, <1>11 DEF Rest

\* What a worker does changes neither the pipe nor the pending table.
LEMMA WorkerKeeps ==
    ASSUME IInv, UNCHANGED schedVars
    PROVE  /\ UNCHANGED <<log, read, pending, due, schedPc, quiet>>
           /\ Used' = Used /\ Slotted' = Slotted /\ SlotsNewest'
           /\ \A k : Concerns(k)' = Concerns(k)
           /\ (\A k \in Ids : k > read => fate'[k] = "open" /\ tries'[k] = 0) => Control'
<1>1. UNCHANGED <<log, read, pending, due, schedPc, quiet>>
  BY DEF schedVars
<1>2. Used' = Used /\ Slotted' = Slotted
  BY <1>1 DEF Used, Slotted
<1>3. /\ \A k : Concerns(k)' = Concerns(k)
      /\ \A s \in Used : PathOf(s)' = PathOf(s)
  BY <1>1 DEF Concerns, PathOf
<1>4. SlotsNewest'
  BY <1>1, <1>2, <1>3 DEF IInv, SlotsNewest
<1>5. (\A k \in Ids : k > read => fate'[k] = "open" /\ tries'[k] = 0) => Control'
  BY <1>1 DEF IInv, Control
<1>6. QED
  BY <1>1, <1>2, <1>3, <1>4, <1>5

LEMMA PopTaskKeeps ==
    ASSUME IInv, NEW w \in Workers, PopTask(w), TypeOK' PROVE Rest'
<1> DEFINE x == Head(fifo)
<1>1. /\ UNCHANGED schedVars /\ fate' = fate /\ fifo # <<>> /\ fifo' = Tail(fifo)
      /\ tries' = [tries EXCEPT ![x.id] = @ + 1] /\ task' = [task EXCEPT ![w] = x]
      /\ workerPc[w] = "pop" /\ workerPc' = [workerPc EXCEPT ![w] = "sync"]
  BY DEF PopTask, Q!Pop, WorkerGoes
<1>2. /\ DOMAIN fifo = 1 .. Len(fifo) /\ DOMAIN fifo' = 1 .. (Len(fifo) - 1)
      /\ Len(fifo) \in Nat \ {0} /\ 1 \in DOMAIN fifo /\ x = fifo[1] /\ x \in TaskSet
      /\ \A k \in DOMAIN fifo' : k + 1 \in DOMAIN fifo /\ fifo'[k] = fifo[k + 1]
      /\ Queued' = Queued \ {x.id}
  BY <1>1, PopTails DEF IInv, Places
<1>3. x.id \in Queued /\ x.id \in 1 .. read /\ x.id \in Ids
  BY <1>2, Known
<1>4. /\ UNCHANGED <<log, read, pending, due, schedPc, quiet>>
      /\ Used' = Used /\ Slotted' = Slotted /\ SlotsNewest'
      /\ \A k : Concerns(k)' = Concerns(k)
      /\ (\A k \in Ids : k > read => fate'[k] = "open" /\ tries'[k] = 0) => Control'
  BY <1>1, WorkerKeeps
<1>5. /\ w \notin Busy /\ Busy' = Busy \cup {w} /\ task'[w] = x /\ workerPc'[w] = "sync"
      /\ \A v \in Workers \ {w} : task'[v] = task[v] /\ workerPc'[v] = workerPc[v]
  BY <1>1 DEF Busy, IInv, TypeOK, Q!FifoTypeOK
<1>6. Held' = Held \cup {x.id} /\ OpenIds' = OpenIds
  <2>1. \A v \in Busy : task'[v] = task[v]
    BY <1>5 DEF Busy
  <2>2. Held' = Held \cup {x.id}
    BY <1>5, <2>1 DEF Held
  <2>3. QED
    BY <1>1, <1>4, <2>2 DEF OpenIds
<1>7. /\ tries'[x.id] = tries[x.id] + 1
      /\ \A k \in Ids \ {x.id} : tries'[k] = tries[k]
  BY <1>1, <1>3 DEF IInv, TypeOK
<1>8. Control'
  BY <1>1, <1>3, <1>4, <1>7, Known DEF IInv, Control
<1>9. Places'
  <2>1. \A k, l \in DOMAIN fifo' : fifo'[k].id = fifo'[l].id => k = l
    <3>1. SUFFICES ASSUME NEW k \in DOMAIN fifo', NEW l \in DOMAIN fifo', fifo'[k].id = fifo'[l].id
                   PROVE  k = l
      OBVIOUS
    <3>2. k + 1 = l + 1
      BY <1>2, <3>1 DEF IInv, Places
    <3>3. QED
      BY <1>2, <3>2
  <2>2. \A v, u \in Busy' : task'[v].id = task'[u].id => v = u
    <3>1. x.id \notin Held
      BY <1>3 DEF IInv, Places
    <3>2. \A v \in Busy : task'[v] = task[v] /\ task'[v].id # x.id
      BY <1>5, <3>1 DEF Held, Busy
    <3>3. QED
      BY <1>5, <3>2 DEF IInv, Places
  <2>3. QED
    BY <1>2, <1>3, <1>4, <1>6, <2>1, <2>2 DEF IInv, Places
<1>10. Tried'
  <2>1. \A s \in Used' : tries'[pending'[s].id] = 0
    <3>1. \A s \in Used : pending[s].id # x.id /\ pending[s].id \in Ids
      BY <1>3, Known, KnownSlots DEF IInv, Places
    <3>2. QED
      BY <1>4, <1>7, <3>1 DEF IInv, Tried
  <2>2. \A k \in DOMAIN fifo' : tries'[fifo'[k].id] = fifo'[k].retry
    <3>1. SUFFICES ASSUME NEW k \in DOMAIN fifo'
                   PROVE  tries'[fifo'[k].id] = fifo'[k].retry
      OBVIOUS
    <3>2. k + 1 \in DOMAIN fifo /\ fifo'[k] = fifo[k + 1] /\ k + 1 # 1
      BY <1>2
    <3>3. fifo'[k].id # x.id /\ fifo'[k].id \in Ids
      BY <1>2, <3>2, Known DEF IInv, Places
    <3>4. QED
      BY <1>7, <3>2, <3>3 DEF IInv, Tried
  <2>3. tries'[task'[w].id] = task'[w].retry + 1
    BY <1>2, <1>5, <1>7 DEF IInv, Tried
  <2>4. ASSUME NEW v \in Workers \ {w}
        PROVE  /\ workerPc'[v] = "sync" => tries'[task'[v].id] = task'[v].retry + 1
               /\ workerPc'[v] = "backoff" => /\ tries'[task'[v].id] = task'[v].retry
                                              /\ task'[v].retry > 0
    <3>1. v \in Busy => task[v].id # x.id /\ task[v].id \in Ids
      BY <1>3, Known DEF IInv, Places
    <3>2. v \in Busy => tries'[task'[v].id] = tries[task[v].id]
      BY <1>5, <1>7, <3>1
    <3>3. QED
      BY <1>5, <3>2 DEF IInv, Tried, Busy
  <2>5. QED
    BY <1>5, <2>1, <2>2, <2>3, <2>4 DEF Tried
<1>11. SupersededByNewer'
  BY <1>1, <1>4 DEF IInv, SupersededByNewer
<1>12. (\A k, l \in DOMAIN fifo :
          /\ k < l /\ fifo[k].retry = 0 /\ fifo[l].retry = 0
          /\ Concerns(fifo[k].id) \cap Concerns(fifo[l].id) # {}
          => fifo[k].id < fifo[l].id)'
  <2>1. SUFFICES ASSUME NEW k \in DOMAIN fifo', NEW l \in DOMAIN fifo', k < l,
                        fifo'[k].retry = 0, fifo'[l].retry = 0,
                        Concerns(fifo[k].id)' \cap Concerns(fifo[l].id)' # {}
                 PROVE  fifo'[k].id < fifo'[l].id
    OBVIOUS
  <2>2. /\ k + 1 \in DOMAIN fifo /\ fifo'[k] = fifo[k + 1]
        /\ l + 1 \in DOMAIN fifo /\ fifo'[l] = fifo[l + 1] /\ k + 1 < l + 1
    BY <1>2, <2>1
  <2>3. Concerns(fifo[k + 1].id) \cap Concerns(fifo[l + 1].id) # {}
    BY <1>4, <2>1, <2>2 DEF Concerns
  <2>4. QED
    BY <2>1, <2>2, <2>3 DEF IInv, FirstTriesInOrder
<1>13. GivenUpAfterAllTries'
  <2>1. tries'[x.id] <= MaxRetry + 1
    BY <1>2, <1>7, TransferAssumption DEF IInv, Tried, TaskSet
  <2>2. fate[x.id] = "open"
    BY <1>3, Known
  <2>3. QED
    BY <1>1, <1>7, <2>1, <2>2 DEF IInv, GivenUpAfterAllTries
<1>14. QED
  BY <1>4, <1>8, <1>9, <1>10, <1>11, <1>12, <1>13 DEF Rest

\* The two ends of a task in its worker.
LEMMA EndKeeps ==
    ASSUME IInv, NEW w \in Workers, SyncSucceeds(w) \/ GiveUp(w), TypeOK' PROVE Rest'
<1> DEFINE x == task[w].id
<1>1. /\ UNCHANGED <<schedVars, fifo, task, tries>>
      /\ workerPc[w] = "sync" /\ workerPc' = [workerPc EXCEPT ![w] = "loop"]
      /\ \/ fate' = [fate EXCEPT ![x] = "done"]
         \/ fate' = [fate EXCEPT ![x] = "gaveup"] /\ ~MayRetry(task[w])
  BY DEF SyncSucceeds, GiveUp, WorkerGoes, queueVars
<1>2. w \in Busy /\ task[w] \in TaskSet /\ x \in Held /\ x \in 1 .. read /\ x \in Ids
      /\ x \notin Slotted \cup Queued
  <2>1. w \in Busy
    BY <1>1 DEF Busy
  <2>2. QED
    BY <2>1, Known DEF IInv, Places
<1>3. /\ \A k \in Ids \ {x} : fate'[k] = fate[k]
      /\ fate'[x] \in {"done", "gaveup"}
      /\ fate'[x] = "gaveup" => ~MayRetry(task[w])
  BY <1>1, <1>2 DEF IInv, TypeOK
<1>4. /\ UNCHANGED <<log, read, pending, due, schedPc, quiet>>
      /\ Used' = Used /\ Slotted' = Slotted /\ SlotsNewest'
      /\ \A k : Concerns(k)' = Concerns(k)
      /\ (\A k \in Ids : k > read => fate'[k] = "open" /\ tries'[k] = 0) => Control'
  BY <1>1, WorkerKeeps
<1>5. /\ Busy' = Busy \ {w} /\ workerPc'[w] = "loop"
      /\ \A v \in Workers \ {w} : workerPc'[v] = workerPc[v]
  BY <1>1 DEF Busy, IInv, TypeOK
<1>6. Held' = Held \ {x} /\ Queued' = Queued
  <2>1. \A v \in Busy' : task'[v] = task[v] /\ task[v].id # x
    BY <1>1, <1>2, <1>5 DEF IInv, Places
  <2>2. QED
    BY <1>1, <1>5, <2>1 DEF Held, Queued
<1>7. OpenIds' = OpenIds \ {x}
  BY <1>3, <1>4, Known DEF OpenIds
<1>8. Control'
  BY <1>1, <1>2, <1>3, <1>4, Known DEF IInv, Control
<1>9. Places'
  BY <1>1, <1>2, <1>4, <1>5, <1>6, <1>7 DEF IInv, Places
<1>10. Tried'
  BY <1>1, <1>4, <1>5 DEF IInv, Tried
<1>11. SupersededByNewer'
  BY <1>3, <1>4 DEF IInv, SupersededByNewer
<1>12. (\A k, l \in DOMAIN fifo :
          /\ k < l /\ fifo[k].retry = 0 /\ fifo[l].retry = 0
          /\ Concerns(fifo[k].id) \cap Concerns(fifo[l].id) # {}
          => fifo[k].id < fifo[l].id)'
  BY <1>1, <1>4 DEF IInv, FirstTriesInOrder
<1>13. GivenUpAfterAllTries'
  <2>1. tries[x] = task[w].retry + 1
    BY <1>1 DEF IInv, Tried
  <2>2. ~MayRetry(task[w]) => tries[x] = MaxRetry + 1
    BY <1>2, <2>1, TransferAssumption DEF MayRetry, TaskSet
  <2>3. QED
    BY <1>1, <1>3, <2>2 DEF IInv, GivenUpAfterAllTries
<1>14. QED
  BY <1>4, <1>8, <1>9, <1>10, <1>11, <1>12, <1>13 DEF Rest

LEMMA SyncFailsKeeps ==
    ASSUME IInv, NEW w \in Workers, SyncFails(w), TypeOK' PROVE Rest'
<1>1. /\ UNCHANGED <<schedVars, fifo, tries, fate>>
      /\ workerPc[w] = "sync" /\ workerPc' = [workerPc EXCEPT ![w] = "backoff"]
      /\ task' = [task EXCEPT ![w] = Retried(@)]
  BY DEF SyncFails, WorkerGoes
<1>2. w \in Busy /\ task[w] \in TaskSet
  <2>1. w \in Busy
    BY <1>1 DEF Busy
  <2>2. QED
    BY <2>1, Known
<1>3. /\ UNCHANGED <<log, read, pending, due, schedPc, quiet>>
      /\ Used' = Used /\ Slotted' = Slotted /\ SlotsNewest'
      /\ \A k : Concerns(k)' = Concerns(k)
      /\ (\A k \in Ids : k > read => fate'[k] = "open" /\ tries'[k] = 0) => Control'
  BY <1>1, WorkerKeeps
<1>4. /\ workerPc'[w] = "backoff" /\ task'[w].id = task[w].id
      /\ task'[w].retry = task[w].retry + 1
      /\ \A v \in Workers \ {w} : workerPc'[v] = workerPc[v] /\ task'[v] = task[v]
  BY <1>1, <1>2 DEF IInv, TypeOK, Q!FifoTypeOK, Retried, TaskSet
<1>5. Busy' = Busy /\ \A v \in Busy : task'[v].id = task[v].id
  BY <1>1, <1>4 DEF Busy
<1>6. Held' = Held /\ Queued' = Queued /\ OpenIds' = OpenIds
  BY <1>1, <1>3, <1>5 DEF Held, Queued, OpenIds
<1>7. Control'
  BY <1>1, <1>3 DEF IInv, Control
<1>8. Places'
  BY <1>1, <1>3, <1>5, <1>6 DEF IInv, Places
<1>9. Tried'
  <2>1. tries'[task'[w].id] = task'[w].retry /\ task'[w].retry > 0
    BY <1>1, <1>2, <1>4 DEF IInv, Tried, TaskSet
  <2>2. QED
    BY <1>1, <1>3, <1>4, <2>1 DEF IInv, Tried
<1>10. SupersededByNewer' /\ GivenUpAfterAllTries'
  BY <1>1, <1>3 DEF IInv, SupersededByNewer, GivenUpAfterAllTries
<1>11. (\A k, l \in DOMAIN fifo :
          /\ k < l /\ fifo[k].retry = 0 /\ fifo[l].retry = 0
          /\ Concerns(fifo[k].id) \cap Concerns(fifo[l].id) # {}
          => fifo[k].id < fifo[l].id)'
  BY <1>1, <1>3 DEF IInv, FirstTriesInOrder
<1>12. QED
  BY <1>3, <1>7, <1>8, <1>9, <1>10, <1>11 DEF Rest

LEMMA RetryPushKeeps ==
    ASSUME IInv, NEW w \in Workers, RetryPush(w), TypeOK' PROVE Rest'
<1> DEFINE y == task[w]
           x == y.id
<1>1. /\ UNCHANGED <<schedVars, task, tries>> /\ Push(y)
      /\ workerPc[w] = "backoff" /\ workerPc' = [workerPc EXCEPT ![w] = "loop"]
  BY DEF RetryPush, WorkerGoes, Push, Q!Push, queueVars
<1>2. w \in Busy /\ y \in TaskSet /\ x \in Held /\ x \in 1 .. read /\ x \in Ids
      /\ x \notin Slotted \cup Queued /\ fate[x] = "open"
      /\ tries[x] = y.retry /\ y.retry > 0
  <2>1. w \in Busy
    BY <1>1 DEF Busy
  <2>2. tries[x] = y.retry /\ y.retry > 0
    BY <1>1 DEF IInv, Tried
  <2>3. QED
    BY <2>1, <2>2, Known DEF IInv, Places
<1>3. /\ UNCHANGED <<log, read, pending, due, schedPc, quiet>>
      /\ Used' = Used /\ Slotted' = Slotted /\ SlotsNewest'
      /\ \A k : Concerns(k)' = Concerns(k)
      /\ (\A k \in Ids : k > read => fate'[k] = "open" /\ tries'[k] = 0) => Control'
  BY <1>1, WorkerKeeps
<1>4. \/ /\ fate' = fate /\ fifo' = Append(fifo, y)
      \/ /\ fate' = [fate EXCEPT ![x] = "refused"] /\ fifo' = fifo
  BY <1>1 DEF Push, Q!Push, queueVars
<1>5. /\ \A k \in Ids \ {x} : fate'[k] = fate[k]
      /\ fate'[x] \in {"open", "refused"}
  BY <1>2, <1>4 DEF IInv, TypeOK
<1>6. /\ fate' = fate => OpenIds' = OpenIds
      /\ fate'[x] = "refused" => OpenIds' = OpenIds \ {x}
  BY <1>3, <1>5, Known DEF OpenIds
<1>7. fifo' = Append(fifo, y) =>
        /\ DOMAIN fifo = 1 .. Len(fifo) /\ DOMAIN fifo' = 1 .. (Len(fifo) + 1)
        /\ \A k \in DOMAIN fifo : fifo'[k] = fifo[k]
        /\ fifo'[Len(fifo) + 1] = y /\ Len(fifo) \in Nat
        /\ Queued' = Queued \cup {x}
  BY <1>2, PushAppends DEF IInv
<1>8. /\ Busy' = Busy \ {w} /\ workerPc'[w] = "loop"
      /\ \A v \in Workers \ {w} : workerPc'[v] = workerPc[v]
  BY <1>1 DEF Busy, IInv, TypeOK
<1>9. Held' = Held \ {x}
  <2>1. \A v \in Busy' : task'[v] = task[v] /\ task[v].id # x
    BY <1>1, <1>2, <1>8 DEF IInv, Places
  <2>2. QED
    BY <1>8, <2>1 DEF Held
<1>10. Control'
  BY <1>1, <1>2, <1>3, <1>5, Known DEF IInv, Control
<1>11. Places'
  <2>1. \A v, u \in Busy' : task'[v].id = task'[u].id => v = u
    BY <1>1, <1>8 DEF IInv, Places
  <2>2. CASE fate' = fate /\ fifo' = Append(fifo, y)
    <3>1. \A k, l \in DOMAIN fifo' : fifo'[k].id = fifo'[l].id => k = l
      BY <1>2, <1>7, <2>2, Known DEF IInv, Places
    <3>2. /\ Slotted' \cap Queued' = {} /\ Slotted' \cap Held' = {} /\ Queued' \cap Held' = {}
          /\ Slotted' \cup Queued' \cup Held' = OpenIds'
      BY <1>2, <1>3, <1>6, <1>7, <1>9, <2>2 DEF IInv, Places
    <3>3. QED
      BY <1>3, <2>1, <3>1, <3>2 DEF IInv, Places
  <2>3. CASE fate' = [fate EXCEPT ![x] = "refused"] /\ fifo' = fifo
    <3>1. fate'[x] = "refused" /\ Queued' = Queued
      BY <1>2, <2>3 DEF IInv, TypeOK, Queued
    <3>2. /\ Slotted' \cap Queued' = {} /\ Slotted' \cap Held' = {} /\ Queued' \cap Held' = {}
          /\ Slotted' \cup Queued' \cup Held' = OpenIds'
      BY <1>2, <1>3, <1>6, <1>9, <3>1 DEF IInv, Places
    <3>3. QED
      BY <1>3, <2>1, <2>3, <3>2 DEF IInv, Places
  <2>4. QED
    BY <1>4, <2>2, <2>3
<1>12. Tried'
  <2>1. \A k \in DOMAIN fifo' : tries'[fifo'[k].id] = fifo'[k].retry
    BY <1>1, <1>2, <1>4, <1>7 DEF IInv, Tried
  <2>2. QED
    BY <1>1, <1>3, <1>8, <2>1 DEF IInv, Tried
<1>13. SupersededByNewer'
  BY <1>3, <1>5 DEF IInv, SupersededByNewer
<1>14. (\A k, l \in DOMAIN fifo :
          /\ k < l /\ fifo[k].retry = 0 /\ fifo[l].retry = 0
          /\ Concerns(fifo[k].id) \cap Concerns(fifo[l].id) # {}
          => fifo[k].id < fifo[l].id)'
  <2>1. SUFFICES ASSUME NEW k \in DOMAIN fifo', NEW l \in DOMAIN fifo', k < l,
                        fifo'[k].retry = 0, fifo'[l].retry = 0,
                        Concerns(fifo[k].id)' \cap Concerns(fifo[l].id)' # {}
                 PROVE  fifo'[k].id < fifo'[l].id
    OBVIOUS
  <2>2. /\ k \in DOMAIN fifo /\ fifo'[k] = fifo[k]
        /\ l \in DOMAIN fifo /\ fifo'[l] = fifo[l]
    BY <1>2, <1>4, <1>7, <2>1
  <2>3. Concerns(fifo[k].id) \cap Concerns(fifo[l].id) # {}
    BY <1>3, <2>1, <2>2 DEF Concerns
  <2>4. QED
    BY <2>1, <2>2, <2>3 DEF IInv, FirstTriesInOrder
<1>15. GivenUpAfterAllTries'
  BY <1>1, <1>5 DEF IInv, GivenUpAfterAllTries
<1>16. QED
  BY <1>3, <1>10, <1>11, <1>12, <1>13, <1>14, <1>15 DEF Rest

-----------------------------------------------------------------------------
(* The theorems *)

LEMMA StutterKeeps ==
    ASSUME IInv, UNCHANGED vars PROVE IInv'
<1>1. /\ UNCHANGED <<log, read, writersGone, pending, due, schedPc, quiet>>
      /\ UNCHANGED <<fifo, stopped, task, drained, workerPc, fate, tries>>
  BY DEF vars, schedVars, queueVars
<1>2. TypeOK'
  BY <1>1 DEF IInv, TypeOK, Q!FifoTypeOK
<1>3. /\ Used' = Used /\ Busy' = Busy /\ Slotted' = Slotted /\ Queued' = Queued /\ Held' = Held
      /\ OpenIds' = OpenIds
  BY <1>1 DEF Used, Busy, Slotted, Queued, Held, OpenIds
<1>4. /\ \A k : Concerns(k)' = Concerns(k)
      /\ \A s : PathOf(s)' = PathOf(s)
  BY <1>1 DEF Concerns, PathOf
<1>5. Control' /\ Places' /\ Tried' /\ SlotsNewest'
  BY <1>1, <1>3, <1>4 DEF IInv, Control, Places, Tried, SlotsNewest
<1>6. SupersededByNewer' /\ FirstTriesInOrder' /\ GivenUpAfterAllTries'
  BY <1>1, <1>3, <1>4 DEF IInv, SupersededByNewer, FirstTriesInOrder, GivenUpAfterAllTries
<1>7. QED
  BY <1>2, <1>5, <1>6 DEF IInv

\* Every step of the transfer process keeps the inductive invariant.
LEMMA NextKeeps ==
    ASSUME IInv, [Next]_vars PROVE IInv'
<1>1. ASSUME Next PROVE IInv'
  <2>1. TypeOK'
    BY <1>1, TypeStep
  <2>2. Rest'
    BY <1>1, <2>1, NextCases, QuietKeeps, EmitKeeps, TickKeeps, ReadUpdateKeeps,
       ReadImmediateKeeps, FlushPushKeeps, JoinAllKeeps, PopTaskKeeps, EndKeeps,
       SyncFailsKeeps, RetryPushKeeps
  <2>3. QED
    BY <2>1, <2>2, RestSuffices
<1>2. QED
  BY <1>1, StutterKeeps

\* The invariant the others follow from: types, control, places, tries and ages.
THEOREM Inductive == Spec => []IInv
<1>1. Init => IInv
  BY InitIInv
<1>2. IInv /\ [Next]_vars => IInv'
  BY NextKeeps
<1>3. QED
  BY <1>1, <1>2, PTL DEF Spec

\* The types of the transfer process's state (transfer.c:11-35, 117-174).
THEOREM TypeCorrect == Spec => []TypeOK
<1>1. IInv => TypeOK
  BY DEF IInv
<1>2. QED
  BY <1>1, Inductive, PTL

\* However many events, slots, workers and retries there are: an event that was read and
\* has not ended is in exactly one slot, queue entry or worker, and an event that ended is
\* in none (transfer.c:37-79, 123-137, 149-163).
THEOREM EventsAccounted == Spec => []EveryEventAccounted
<1>1. IInv => EveryEventAccounted
  BY PlacesAreCounted DEF IInv
<1>2. QED
  BY <1>1, Inductive, PTL

\* An update that is merged away, or cleared for a DELETE or a RENAME, was superseded by
\* a newer event about its path (transfer.c:37-55, 123-127).
THEOREM MergedIsSuperseded == Spec => []SupersededByNewer
<1>1. IInv => SupersededByNewer
  BY DEF IInv
<1>2. QED
  BY <1>1, Inductive, PTL

\* Debouncing never reorders the events of a path, however the flushes, the immediate
\* pushes and the retries of the workers interleave (transfer.c:123-137).
THEOREM FirstTriesOrdered == Spec => []FirstTriesInOrder
<1>1. IInv => FirstTriesInOrder
  BY DEF IInv
<1>2. QED
  BY <1>1, Inductive, PTL

\* No task has more than MaxRetry + 1 tries, and none is given up after fewer
\* (transfer.c:151-162).
THEOREM GivenUpAfterAll == Spec => []GivenUpAfterAllTries
<1>1. IInv => GivenUpAfterAllTries
  BY DEF IInv
<1>2. QED
  BY <1>1, Inductive, PTL

\* An id that enters the queue while the scheduler flushes, and was not with a worker,
\* comes from a slot the flush found due.
LEMMA QueuedFromDue ==
    ASSUME IInv, [Next]_vars, NEW i \in 1 .. read, UpdateIsQueued(i)
    PROVE  \E s \in due : s \in Used /\ pending[s].id = i
<1>1. /\ schedPc = "push" /\ i \in Ids /\ i \notin Queued /\ i \notin Held /\ i \in Queued'
  <2>1. i \in Ids
    BY Known
  <2>2. i \in Queued'
    BY DEF UpdateIsQueued, InQueue, Queued
  <2>3. QED
    BY <2>1, <2>2, PlacesOfIds DEF UpdateIsQueued, IInv
<1>2. ASSUME fifo' = fifo PROVE FALSE
  BY <1>1, <1>2 DEF Queued
<1>3. CASE \/ QuietStep \/ Tick \/ ReadUpdate \/ UNCHANGED vars
           \/ \E e \in Events \cup {ExitEvent} : Emit(e)
           \/ \E w \in Workers : SyncSucceeds(w) \/ SyncFails(w) \/ GiveUp(w)
  <2>1. fifo' = fifo
    BY <1>3 DEF QuietStep, LoseWriters, SelectTimeout, ReadExit, FlushScan, FlushDone, StopQueue,
         Q!Stop, SetCtxStop, Exited, CheckStop, PopDrained, Q!PopDrained, Tick, ReadUpdate, Emit,
         SyncSucceeds, SyncFails, GiveUp, vars, queueVars
  <2>2. QED
    BY <1>2, <2>1
<1>4. CASE ReadImmediate \/ JoinAll
  BY <1>1, <1>4 DEF ReadImmediate, JoinAll
<1>5. CASE FlushPush
  <2>1. PICK s \in due : Push(FirstTry(pending[s].id))
    BY <1>5 DEF FlushPush
  <2>2. s \in Used /\ pending[s].id \in Ids
    BY <2>1, KnownSlots, Known DEF IInv, TypeOK, Used
  <2>3. FirstTry(pending[s].id) \in TaskSet
    BY <2>2, TransferAssumption DEF FirstTry, TaskSet
  <2>4. fifo' = Append(fifo, FirstTry(pending[s].id))
    BY <1>2, <2>1 DEF Push, Q!Push, queueVars
  <2>5. Queued' = Queued \cup {pending[s].id}
    BY <2>3, <2>4, PushAppends DEF IInv, FirstTry
  <2>6. QED
    BY <1>1, <2>1, <2>2, <2>5
<1>6. ASSUME NEW w \in Workers, PopTask(w) PROVE FALSE
  <2>1. Queued' = Queued \ {Head(fifo).id}
    BY <1>6, PopTails DEF PopTask, Q!Pop, IInv, Places
  <2>2. QED
    BY <1>1, <2>1
<1>7. ASSUME NEW w \in Workers, RetryPush(w) PROVE FALSE
  <2>1. w \in Busy /\ Push(task[w])
    BY <1>7 DEF RetryPush, WorkerGoes, Busy
  <2>2. task[w] \in TaskSet /\ task[w].id \in Held
    BY <2>1, Known
  <2>3. fifo' = Append(fifo, task[w])
    BY <1>2, <2>1 DEF Push, Q!Push, queueVars
  <2>4. Queued' = Queued \cup {task[w].id}
    BY <2>2, <2>3, PushAppends DEF IInv
  <2>5. QED
    BY <1>1, <2>2, <2>4
<1>8. QED
  BY <1>3, <1>4, <1>5, <1>6, <1>7, NextCases

\* The debounce promise: while the scheduler runs, an update enters the queue only as the
\* newest event read about its path, and only when nothing about the path was read for
\* debounce_ms (transfer.c:57-69).
THEOREM OnlyStableQueued == Spec => QueuedOnlyWhenStable
<1>1. ASSUME IInv, [Next]_vars, NEW i \in 1 .. read, UpdateIsQueued(i)
      PROVE  /\ quiet[log[i].path] = Debounce
             /\ \A j \in (i + 1) .. read : log[i].path \notin Concerns(j)
  <2>1. PICK s \in due : s \in Used /\ pending[s].id = i
    BY <1>1, QueuedFromDue
  <2>2. pending[s].age = Debounce
    BY <1>1, <2>1 DEF IInv, Control, UpdateIsQueued
  <2>3. PathOf(s) = log[i].path
    BY <2>1 DEF PathOf
  <2>4. QED
    BY <1>1, <2>1, <2>2, <2>3 DEF IInv, SlotsNewest
<1>2. IInv /\ [Next]_vars =>
        [\A i \in 1 .. read : UpdateIsQueued(i) =>
           /\ quiet[log[i].path] = Debounce
           /\ \A j \in (i + 1) .. read : log[i].path \notin Concerns(j)]_vars
  BY <1>1
<1>3. QED
  BY <1>2, Inductive, PTL DEF Spec, QueuedOnlyWhenStable
=============================================================================

---------------------------- MODULE ClientProofs ----------------------------
(***************************************************************************)
(* The safety of Client, proved for pipes of any size and any number of    *)
(* tasks, whatever process is killed and whenever: an orderly end leaves   *)
(* no task in front of EXIT unread, and the logger misses no record.       *)
(***************************************************************************)
EXTENDS Client, SequenceTheorems, TLAPS

\* Where main is: before it closes its read ends, until EXIT is sent, until its write
\* ends are closed, and after.
Early == {"start", "fork monitor", "fork transfer", "close"}
Serving == {"started", "loop", "stopping", "exit"}
Ending == {"kill", "wait monitor", "wait transfer", "log exit", "close all"}
Closed == {"wait logger", "ended", "failed", "killed"}

\* The ends that a child keeps.
Own(c) == PipeEnds \ ClosedBy(c)

Types ==
    /\ TypeOK
    /\ mainPc \in Early \cup Serving \cup Ending \cup Closed
    /\ schedPc \in {"read", "log", "log exit", "stopped"}
    /\ eventPipe \in Seq(Tasks \cup {EXIT})
    /\ logPipe \in Seq({LINE, EXIT})
    /\ termed \subseteq {"monitor"}

\* Who has which end of a pipe open.
Fds ==
    /\ ends["main"] = IF mainPc \in Early THEN PipeEnds
                      ELSE IF mainPc \in Closed THEN {} ELSE {"eventW", "logW"}
    /\ \A c \in Children : ends[c] = IF Running(c) THEN Own(c) ELSE IF Alive(c) THEN PipeEnds ELSE {}

\* The children are forked in order, and main knows which of them have ended.
Lives ==
    /\ mainPc = "start" => state["logger"] = "none"
    /\ mainPc \in {"start", "fork monitor"} => state["monitor"] = "none"
    /\ mainPc \in {"start", "fork monitor", "fork transfer"} => state["transfer"] = "none"
    /\ mainPc \notin {"start", "failed", "killed"} => state["logger"] # "none"
    /\ mainPc \notin {"start", "fork monitor", "failed", "killed"} => state["monitor"] # "none"
    /\ mainPc \notin Early \cup {"failed", "killed"} => state["transfer"] # "none"
    /\ mainPc = "close" => state["transfer"] # "none"
    /\ state["logger"] = "none" => state["monitor"] = "none"
    /\ state["monitor"] = "none" => state["transfer"] = "none"
    /\ mainPc \in {"wait transfer", "log exit", "close all", "wait logger", "ended"}
         => Over("monitor")
    /\ mainPc \in {"log exit", "close all", "wait logger", "ended"} => Over("transfer")

\* Nobody writes a record behind LOG_EXIT, or after the logger has ended by itself.
Silent ==
    /\ ~Alive("monitor") /\ ~Alive("transfer")
    /\ mainPc \in {"close all", "wait logger", "ended", "failed", "killed"}

Logs ==
    /\ \A k \in DOMAIN logPipe : logPipe[k] = EXIT => Silent /\ k = Len(logPipe)
    /\ "logger" \notin killed => lost = {}
    /\ "logger" \notin killed /\ Over("logger") => Silent /\ logPipe = <<>>

\* The scheduler will read no task any more.
Finished == schedPc \in {"log exit", "stopped"}

\* A task is in the pipe, in front of EXIT.
Waiting(t) == \E k \in DOMAIN eventPipe :
                 /\ eventPipe[k] = t
                 /\ \A l \in DOMAIN eventPipe : l < k => eventPipe[l] # EXIT

\* The tasks in the pipe are new and different.
Fresh ==
    /\ \A k \in DOMAIN eventPipe :
         eventPipe[k] # EXIT => eventPipe[k] \in 1 .. emitted /\ eventPipe[k] \notin backlog \cup done
    /\ \A k, l \in DOMAIN eventPipe :
         eventPipe[k] = eventPipe[l] /\ eventPipe[k] # EXIT => k = l

\* What is promised was read or will be, and nothing is promised once EXIT is sent.
Promises ==
    /\ mainPc \in Early \cup Serving => promised = Tasks
    /\ mainPc \in Ending \cup {"wait logger", "ended"} => promised \subseteq 1 .. emitted
    /\ \A k \in DOMAIN eventPipe :
         eventPipe[k] = EXIT => promised \subseteq 1 .. emitted /\ mainPc \in Ending \cup Closed
    /\ ~Finished /\ (Alive("transfer") \/ mainPc \in Early)
         => \A t \in promised \cap 1 .. emitted : t \in backlog \cup done \/ Waiting(t)
    /\ Finished => /\ promised \cap 1 .. emitted \subseteq backlog \cup done
                   /\ promised \subseteq 1 .. emitted \/ ~Alive("monitor")
                   /\ mainPc \in Ending \cup Closed
    /\ Over("transfer") /\ "transfer" \notin killed => Finished
    /\ state["transfer"] = "none" => schedPc = "read"

IInv == Types /\ Fds /\ Lives /\ Logs /\ Fresh /\ Promises
-----------------------------------------------------------------------------
(* Lemmas about pipes and processes *)

LEMMA OwnEnds ==
    /\ Own("logger") = {"logR"} /\ Own("monitor") = {"eventW", "logW"}
    /\ Own("transfer") = {"eventR", "logW"}
BY DEF Own, ClosedBy, PipeEnds

\* A process that writes has its pipe open, and so the logger must have ended by force
\* for a record to be lost.
LEMMA LogReaders ==
    ASSUME IInv, ~Silent, mainPc # "start" \/ Alive("monitor") \/ Alive("transfer"),
           mainPc \notin {"failed", "killed"} \/ Alive("monitor") \/ Alive("transfer")
    PROVE  /\ \A k \in DOMAIN logPipe : logPipe[k] # EXIT
           /\ "logger" \notin killed => Alive("logger") /\ Open("logR") # {}
<1>1. \A k \in DOMAIN logPipe : logPipe[k] # EXIT
  BY DEF IInv, Logs
<1>2. state["logger"] # "none"
  BY DEF IInv, Lives, Alive, Running, SettingUp
<1>3. ASSUME "logger" \notin killed
      PROVE  Alive("logger") /\ Open("logR") # {}
  <2>1. ~Over("logger")
    BY <1>3 DEF IInv, Logs
  <2>2. Alive("logger")
    BY <1>2, <2>1 DEF Over, Alive, Running, States, IInv, Types, TypeOK, Children
  <2>3. "logR" \in ends["logger"]
    BY <2>2, OwnEnds DEF IInv, Fds, Children, PipeEnds
  <2>4. QED
    BY <2>2, <2>3 DEF Open, Processes, Children
<1>4. QED
  BY <1>1, <1>3

\* The steps of Next, taken apart.
LEMMA Steps ==
    ASSUME Next
    PROVE  \/ \E c \in Children : Fork(c) \/ ForkFails(c) \/ ChildKilled(c)
           \/ \E c \in Children : SetsUp(c) \/ SwallowsTerm(c) \/ DiesOfTerm(c)
           \/ CloseReadEnds \/ ReapAny \/ LeaveLoop \/ SendExit \/ KillMonitor \/ CloseWriteEnds
           \/ MainLogs("started", "loop", LINE) \/ MainLogs("stopping", "exit", LINE)
           \/ MainLogs("log exit", "close all", EXIT)
           \/ WaitFor("monitor", "wait monitor", "wait transfer")
           \/ WaitFor("transfer", "wait transfer", "log exit")
           \/ WaitFor("logger", "wait logger", "ended")
           \/ MonitorSends \/ MonitorLogs
           \/ ReadTask \/ ReadExit \/ SchedulerLogs \/ TransferExits
           \/ WorkerEndsTask \/ PopDrained \/ WorkerLogs
           \/ LoggerReads \/ LoggerAtEnd
           \/ Terminate \/ Interrupt \/ MainKilled
BY DEF Next, Main, Shutdown, TakesTerm, Monitor, Scheduler, Worker, Logger, Outside

LEMMA InitIInv ==
    ASSUME Init PROVE IInv
<1>1. logPipe = <<>> /\ eventPipe = <<>> /\ DOMAIN logPipe = {} /\ DOMAIN eventPipe = {}
      /\ Len(logPipe) = 0 /\ Len(eventPipe) = 0
  BY DEF Init
<1>2. TypeOK
  <2>1. /\ state \in [Children -> States]
        /\ ends \in [Processes -> SUBSET PipeEnds]
    BY DEF Init, Children, States
  <2>2. /\ emitted \in 0 .. MaxTasks /\ backlog \cup done \subseteq 1 .. emitted
        /\ Len(eventPipe) <= EventCap /\ Len(logPipe) <= LogCap
    BY <1>1, ClientAssumption DEF Init
  <2>3. QED
    BY <2>1, <2>2 DEF Init, TypeOK
<1>3. Types
  <2>1. eventPipe \in Seq(Tasks \cup {EXIT}) /\ logPipe \in Seq({LINE, EXIT})
    BY <1>1
  <2>2. QED
    BY <1>2, <2>1 DEF Init, Types, Early
<1>4. Fds
  BY DEF Init, Fds, Alive, Running, SettingUp, Processes, Children, Early
<1>5. Lives
  BY DEF Init, Lives, Children, Over, Early
<1>6. Logs
  BY <1>1 DEF Init, Logs, Over, Children
<1>7. Fresh
  BY <1>1 DEF Fresh
<1>8. Promises
  BY <1>1 DEF Init, Promises, Finished, Over, Children, Early, Serving, Ending, Closed
<1>9. QED
  BY <1>3, <1>4, <1>5, <1>6, <1>7, <1>8 DEF IInv

\* Who has an end open stays known: a fork hands down main's ends, a child closes those
\* that are not its own, and all that it has when it ends.
LEMMA FdsStep ==
    ASSUME IInv, Next PROVE Fds'
<1> USE OwnEnds DEF Children, Processes, MainAt, Alive, Running, SettingUp
<1>1. ends \in [Processes -> SUBSET PipeEnds] /\ state \in [Children -> States]
      /\ Fds
  BY DEF IInv, Types, TypeOK
<1>2. ASSUME NEW c \in Children, Fork(c) PROVE Fds'
  BY <1>1, <1>2 DEF Fork, Forking, Forked, Fds, Early, Closed
<1>3. CASE CloseReadEnds \/ CloseWriteEnds \/ \E c \in Children : ForkFails(c)
  <2>1. CASE CloseReadEnds
    BY <1>1, <2>1 DEF CloseReadEnds, Fds, Early, Closed, ReadEnds, PipeEnds
  <2>2. CASE CloseWriteEnds
    BY <1>1, <2>2 DEF CloseWriteEnds, Fds, Early, Closed, ReadEnds, PipeEnds
  <2>3. CASE \E c \in Children : ForkFails(c)
    BY <1>1, <2>3 DEF ForkFails, Forking, Fds, Early, Closed
  <2>4. QED
    BY <1>3, <2>1, <2>2, <2>3
<1>4. ASSUME NEW Q \in SUBSET Children, Ended(Q), UNCHANGED mainPc PROVE Fds'
  BY <1>1, <1>4 DEF Ended, Fds
<1>5. CASE \/ \E c \in Children : DiesOfTerm(c) \/ ChildKilled(c)
           \/ TransferExits \/ LoggerAtEnd \/ Interrupt
  BY <1>4, <1>5 DEF DiesOfTerm, ChildKilled, TransferExits, LoggerAtEnd, Interrupt, mainVars
<1>6. CASE LoggerReads
  BY <1>1, <1>4, <1>6 DEF LoggerReads, mainVars, Fds
<1>7. CASE MainKilled
  BY <1>1, <1>7 DEF MainKilled, Ended, Fds, Closed, Early
<1>8. CASE ReapAny \/ LeaveLoop \/ SendExit \/ KillMonitor \/ Terminate
  <2>1. CASE ReapAny \/ LeaveLoop
    <3>1. CASE ReapAny
      BY <1>1, <3>1 DEF ReapAny, Fds, Closed, Early
    <3>2. CASE LeaveLoop
      BY <1>1, <3>2 DEF LeaveLoop, Fds, Closed, Early
    <3>3. QED
      BY <2>1, <3>1, <3>2
  <2>2. CASE SendExit \/ KillMonitor
    BY <1>1, <2>2 DEF SendExit, KillMonitor, Fds, Closed, Early
  <2>3. CASE Terminate
    BY <1>1, <2>3 DEF Terminate, Fds, Closed, Early
  <2>4. QED
    BY <1>8, <2>1, <2>2, <2>3
<1>9. CASE \/ MainLogs("started", "loop", LINE) \/ MainLogs("stopping", "exit", LINE)
           \/ MainLogs("log exit", "close all", EXIT)
           \/ WaitFor("monitor", "wait monitor", "wait transfer")
           \/ WaitFor("transfer", "wait transfer", "log exit")
           \/ WaitFor("logger", "wait logger", "ended")
  <2>1. CASE \/ MainLogs("started", "loop", LINE) \/ MainLogs("stopping", "exit", LINE)
             \/ MainLogs("log exit", "close all", EXIT)
    BY <1>1, <2>1 DEF MainLogs, Fds, Closed, Early
  <2>2. CASE \/ WaitFor("monitor", "wait monitor", "wait transfer")
             \/ WaitFor("transfer", "wait transfer", "log exit")
             \/ WaitFor("logger", "wait logger", "ended")
    <3>1. CASE WaitFor("monitor", "wait monitor", "wait transfer")
      BY <1>1, <3>1 DEF WaitFor, Fds, Closed, Early
    <3>2. CASE WaitFor("transfer", "wait transfer", "log exit")
      BY <1>1, <3>2 DEF WaitFor, Fds, Closed, Early
    <3>3. CASE WaitFor("logger", "wait logger", "ended")
      BY <1>1, <3>3 DEF WaitFor, Fds, Closed, Early
    <3>4. QED
      BY <2>2, <3>1, <3>2, <3>3
  <2>3. QED
    BY <1>9, <2>1, <2>2
<1>10. CASE \/ MonitorSends \/ MonitorLogs \/ ReadTask \/ ReadExit \/ SchedulerLogs
            \/ WorkerEndsTask \/ PopDrained \/ WorkerLogs
  <2>1. UNCHANGED <<mainPc, state, ends>>
    BY <1>10 DEF MonitorSends, MonitorLogs, ReadTask, ReadExit, SchedulerLogs, WorkerEndsTask,
                 PopDrained, WorkerLogs, WorkerGoes, mainVars
  <2>2. QED
    BY <1>1, <2>1 DEF Fds
<1>11. ASSUME NEW c \in Children, SetsUp(c) PROVE Fds'
  <2>1. CASE state[c] # "term"
    BY <1>1, <1>11, <2>1 DEF SetsUp, mainVars, Fds
  <2>2. CASE state[c] = "term"
    <3>1. /\ state' = [state EXCEPT ![c] = "running"] /\ UNCHANGED mainPc
          /\ ends' = [ends EXCEPT ![c] = ends[c] \ ClosedBy(c)]
      BY <1>11, <2>2 DEF SetsUp, mainVars
    <3>2. ends[c] \ ClosedBy(c) = Own(c)
      BY <1>1, <2>2 DEF Fds, Own
    <3>3. QED
      BY <1>1, <3>1, <3>2 DEF Fds
  <2>3. QED
    BY <2>1, <2>2
<1>12. CASE \E c \in Children : SwallowsTerm(c)
  BY <1>1, <1>12 DEF SwallowsTerm, mainVars, Fds
<1>13. QED
  BY <1>2, <1>3, <1>5, <1>6, <1>7, <1>8, <1>9, <1>10, <1>11, <1>12, Steps

LEMMA LivesStep ==
    ASSUME IInv, Next PROVE Lives'
<1> USE DEF Children, MainAt, Alive, Running, SettingUp, Over
<1>1. state \in [Children -> States] /\ Lives
  BY DEF IInv, Types, TypeOK
<1>2. ASSUME NEW c \in Children, Fork(c) PROVE Lives'
  BY <1>1, <1>2 DEF Fork, Forking, Forked, Lives, Early
<1>3. CASE CloseReadEnds \/ CloseWriteEnds \/ \E c \in Children : ForkFails(c)
  BY <1>1, <1>3 DEF CloseReadEnds, CloseWriteEnds, ForkFails, Forking, Lives, Early
<1>4. ASSUME NEW Q \in SUBSET Children, Ended(Q), UNCHANGED mainPc PROVE Lives'
  BY <1>1, <1>4 DEF Ended, Lives
<1>5. CASE \/ \E c \in Children : DiesOfTerm(c) \/ ChildKilled(c)
           \/ TransferExits \/ LoggerAtEnd \/ Interrupt
  BY <1>4, <1>5 DEF DiesOfTerm, ChildKilled, TransferExits, LoggerAtEnd, Interrupt, mainVars
<1>6. CASE LoggerReads
  BY <1>1, <1>4, <1>6 DEF LoggerReads, mainVars, Lives
<1>7. CASE MainKilled
  BY <1>1, <1>7 DEF MainKilled, Ended, Lives, Early
<1>8. CASE LeaveLoop \/ SendExit \/ KillMonitor \/ Terminate
  BY <1>1, <1>8 DEF LeaveLoop, SendExit, KillMonitor, Terminate, Lives, Early
<1>9. CASE ReapAny
  BY <1>1, <1>9 DEF ReapAny, Lives, Early
<1>10. CASE \/ MainLogs("started", "loop", LINE) \/ MainLogs("stopping", "exit", LINE)
            \/ MainLogs("log exit", "close all", EXIT)
  BY <1>1, <1>10 DEF MainLogs, Lives, Early
<1>11. CASE \/ WaitFor("monitor", "wait monitor", "wait transfer")
            \/ WaitFor("transfer", "wait transfer", "log exit")
            \/ WaitFor("logger", "wait logger", "ended")
  BY <1>1, <1>11 DEF WaitFor, Lives, Early
<1>12. CASE \/ MonitorSends \/ MonitorLogs \/ ReadTask \/ ReadExit \/ SchedulerLogs
            \/ WorkerEndsTask \/ PopDrained \/ WorkerLogs
  <2>1. UNCHANGED <<mainPc, state>>
    BY <1>12 DEF MonitorSends, MonitorLogs, ReadTask, ReadExit, SchedulerLogs, WorkerEndsTask,
                 PopDrained, WorkerLogs, WorkerGoes, mainVars
  <2>2. QED
    BY <1>1, <2>1 DEF Lives
<1>13. ASSUME NEW c \in Children, SetsUp(c) \/ SwallowsTerm(c) PROVE Lives'
  BY <1>1, <1>13 DEF SetsUp, SwallowsTerm, mainVars, Lives
<1>14. QED
  BY <1>2, <1>3, <1>5, <1>6, <1>7, <1>8, <1>9, <1>10, <1>11, <1>12, <1>13, Steps

\* What a write to the log pipe does.
LEMMA LogWrites ==
    ASSUME IInv, NEW q \in Processes, NEW record \in {LINE, EXIT}, Log(q, record)
    PROVE  /\ logPipe' \in Seq({LINE, EXIT}) /\ Len(logPipe') <= LogCap /\ lost' \subseteq Processes
           /\ UNCHANGED <<killed, swallowed, promised>>
           /\ Open("logR") # {} =>
                /\ lost' = lost
                /\ DOMAIN logPipe' = 1 .. Len(logPipe') /\ Len(logPipe') = Len(logPipe) + 1
                /\ Len(logPipe) \in Nat /\ DOMAIN logPipe = 1 .. Len(logPipe)
                /\ logPipe'[Len(logPipe')] = record
                /\ \A k \in DOMAIN logPipe : logPipe'[k] = logPipe[k]
           /\ Open("logR") = {} => logPipe' = logPipe
<1>1. logPipe \in Seq({LINE, EXIT}) /\ Len(logPipe) <= LogCap /\ lost \subseteq Processes
  BY DEF IInv, Types, TypeOK
<1>2. CASE Open("logR") = {}
  BY <1>1, <1>2 DEF Log
<1>3. CASE Open("logR") # {}
  BY <1>1, <1>3, ClientAssumption DEF Log
<1>4. QED
  BY <1>2, <1>3

LEMMA SendWrites ==
    ASSUME IInv, NEW event \in Tasks \cup {EXIT}, SendEvent(event)
    PROVE  /\ eventPipe' \in Seq(Tasks \cup {EXIT}) /\ Len(eventPipe') <= EventCap
           /\ DOMAIN eventPipe = 1 .. Len(eventPipe) /\ Len(eventPipe) \in Nat
           /\ DOMAIN eventPipe' = 1 .. Len(eventPipe')
           /\ Open("eventR") = {} => eventPipe' = eventPipe
           /\ Open("eventR") # {} =>
                /\ Len(eventPipe') = Len(eventPipe) + 1
                /\ eventPipe'[Len(eventPipe')] = event
                /\ \A k \in DOMAIN eventPipe : eventPipe'[k] = eventPipe[k]
                /\ \A k \in DOMAIN eventPipe' : k \in DOMAIN eventPipe \/ k = Len(eventPipe')
<1>1. eventPipe \in Seq(Tasks \cup {EXIT}) /\ Len(eventPipe) <= EventCap
  BY DEF IInv, Types, TypeOK
<1>2. CASE Open("eventR") = {}
  BY <1>1, <1>2 DEF SendEvent
<1>3. CASE Open("eventR") # {}
  <2>1. eventPipe' = Append(eventPipe, event) /\ Len(eventPipe) < EventCap
    BY <1>3 DEF SendEvent
  <2>2. /\ eventPipe' \in Seq(Tasks \cup {EXIT}) /\ Len(eventPipe') = Len(eventPipe) + 1
        /\ Len(eventPipe) \in Nat /\ DOMAIN eventPipe = 1 .. Len(eventPipe)
        /\ DOMAIN eventPipe' = 1 .. Len(eventPipe')
        /\ eventPipe'[Len(eventPipe')] = event
        /\ \A k \in DOMAIN eventPipe : eventPipe'[k] = eventPipe[k]
    BY <1>1, <2>1
  <2>3. \A k \in 1 .. (Len(eventPipe) + 1) : k \in 1 .. Len(eventPipe) \/ k = Len(eventPipe) + 1
    BY <2>2
  <2>4. \A k \in DOMAIN eventPipe' : k \in DOMAIN eventPipe \/ k = Len(eventPipe')
    BY <2>2, <2>3
  <2>5. Len(eventPipe') <= EventCap
    BY <2>1, <2>2, ClientAssumption
  <2>6. QED
    BY <1>3, <2>2, <2>4, <2>5
<1>4. QED
  BY <1>2, <1>3

\* What reading the event pipe leaves in it.
LEMMA EventTails ==
    ASSUME IInv, eventPipe # <<>>, eventPipe' = Tail(eventPipe)
    PROVE  /\ eventPipe' \in Seq(Tasks \cup {EXIT}) /\ Len(eventPipe') <= EventCap
           /\ Head(eventPipe) = eventPipe[1] /\ eventPipe[1] \in Tasks \cup {EXIT}
           /\ 1 \in DOMAIN eventPipe /\ Len(eventPipe) \in Nat /\ Len(eventPipe') = Len(eventPipe) - 1
           /\ DOMAIN eventPipe = 1 .. Len(eventPipe) /\ DOMAIN eventPipe' = 1 .. Len(eventPipe')
           /\ \A k \in DOMAIN eventPipe' : k + 1 \in DOMAIN eventPipe /\ eventPipe'[k] = eventPipe[k + 1]
<1>1. eventPipe \in Seq(Tasks \cup {EXIT}) /\ Len(eventPipe) <= EventCap
  BY DEF IInv, Types, TypeOK
<1>2. Len(eventPipe) \in Nat \ {0}
  BY <1>1
<1>3. QED
  BY <1>1, <1>2, ClientAssumption

LEMMA TypesStep ==
    ASSUME IInv, Next PROVE Types'
<1> USE DEF MainAt, mainVars, monitorVars, transferVars, auxVars, Early, Serving, Ending, Closed
<1>1. Types /\ TypeOK /\ Fresh
  BY DEF IInv, Types
<1>0. /\ MaxTasks \in Nat /\ LogCap \in Nat /\ emitted \in 0 .. MaxTasks /\ Len(logPipe) <= LogCap
      /\ ends \in [Processes -> SUBSET PipeEnds] /\ "main" \in Processes
      /\ ends["main"] \in SUBSET PipeEnds
  BY <1>1, ClientAssumption DEF TypeOK, Processes
<1>2. ASSUME NEW Q \in SUBSET Processes, Ended(Q)
      PROVE  /\ state' \in [Children -> States]
             /\ ends' \in [Processes -> SUBSET PipeEnds]
  BY <1>1, <1>2 DEF Ended, TypeOK, States
<1>3. ASSUME NEW c \in Children, Fork(c) \/ ForkFails(c) PROVE Types'
  <2>1. mainPc' \in Early \cup {"failed"}
    BY <1>3 DEF Fork, ForkFails, Forked, Children
  <2>2. state' \in [Children -> States]
    BY <1>1, <1>3 DEF Fork, ForkFails, TypeOK, States, SettingUp
  <2>3. ends' \in [Processes -> SUBSET PipeEnds]
    <3>1. CASE Fork(c)
      BY <1>0, <3>1 DEF Fork
    <3>2. CASE ForkFails(c)
      BY <1>0, <3>2 DEF ForkFails
    <3>3. QED
      BY <1>3, <3>1, <3>2
  <2>4. QED
    BY <1>1, <1>3, <2>1, <2>2, <2>3 DEF Fork, ForkFails, Types, TypeOK
<1>4. CASE CloseReadEnds \/ CloseWriteEnds \/ LeaveLoop \/ KillMonitor \/ Terminate
  <2>1. ends' \in [Processes -> SUBSET PipeEnds]
    <3>1. CASE CloseReadEnds
      <4>1. ends["main"] \ ReadEnds \in SUBSET PipeEnds
        BY <1>0
      <4>2. ends' = [ends EXCEPT !["main"] = ends["main"] \ ReadEnds]
        BY <3>1 DEF CloseReadEnds
      <4>3. QED
        BY <1>0, <4>1, <4>2
    <3>2. CASE CloseWriteEnds
      BY <1>0, <3>2 DEF CloseWriteEnds
    <3>3. CASE LeaveLoop \/ KillMonitor \/ Terminate
      BY <1>0, <3>3 DEF LeaveLoop, KillMonitor, Terminate
    <3>4. QED
      BY <1>4, <3>1, <3>2, <3>3
  <2>2. QED
    <3>1. CASE CloseReadEnds \/ CloseWriteEnds
      BY <1>1, <2>1, <3>1 DEF CloseReadEnds, CloseWriteEnds, Types, TypeOK, Children
    <3>2. CASE LeaveLoop \/ KillMonitor
      BY <1>1, <2>1, <3>2 DEF LeaveLoop, KillMonitor, Termed, Types, TypeOK, Children
    <3>3. CASE Terminate
      BY <1>1, <2>1, <3>3 DEF Terminate, Termed, Types, TypeOK, Children
    <3>4. QED
      BY <1>4, <3>1, <3>2, <3>3
<1>5. CASE \/ ReapAny
           \/ WaitFor("monitor", "wait monitor", "wait transfer")
           \/ WaitFor("transfer", "wait transfer", "log exit")
           \/ WaitFor("logger", "wait logger", "ended")
  <2>1. state' \in [Children -> States]
    BY <1>1, <1>5 DEF ReapAny, WaitFor, TypeOK, States
  <2>2. stop' \in BOOLEAN
    BY <1>1, <1>5 DEF ReapAny, WaitFor, TypeOK
  <2>3. QED
    BY <1>1, <1>5, <2>1, <2>2 DEF ReapAny, WaitFor, Types, TypeOK
<1>6. CASE \/ MainLogs("started", "loop", LINE) \/ MainLogs("stopping", "exit", LINE)
           \/ MainLogs("log exit", "close all", EXIT)
  <2>1. /\ logPipe' \in Seq({LINE, EXIT}) /\ Len(logPipe') <= LogCap /\ lost' \subseteq Processes
        /\ UNCHANGED <<killed, swallowed, promised>>
    BY <1>6, LogWrites DEF MainLogs, Processes
  <2>2. QED
    BY <1>1, <1>6, <2>1 DEF MainLogs, Types, TypeOK
<1>7. CASE SendExit
  <2>1. eventPipe' \in Seq(Tasks \cup {EXIT}) /\ Len(eventPipe') <= EventCap
    BY <1>7, SendWrites DEF SendExit
  <2>2. promised' \subseteq Tasks
    BY <1>0, <1>7 DEF SendExit, Tasks
  <2>3. QED
    BY <1>1, <1>7, <2>1, <2>2 DEF SendExit, Types, TypeOK
<1>8. CASE MonitorSends
  <2>1. emitted + 1 \in Tasks /\ emitted' = emitted + 1 /\ emitted' \in 0 .. MaxTasks
    BY <1>0, <1>8 DEF MonitorSends, Tasks
  <2>2. eventPipe' \in Seq(Tasks \cup {EXIT}) /\ Len(eventPipe') <= EventCap
    BY <1>8, <2>1, SendWrites DEF MonitorSends
  <2>3. backlog' \cup done' \subseteq 1 .. emitted'
    <3>1. backlog \cup done \subseteq 1 .. emitted /\ UNCHANGED <<backlog, done>>
      BY <1>1, <1>8 DEF MonitorSends, TypeOK
    <3>2. 1 .. emitted \subseteq 1 .. emitted'
      BY <1>0, <2>1
    <3>3. QED
      BY <3>1, <3>2
  <2>4. QED
    BY <1>1, <1>8, <2>1, <2>2, <2>3 DEF MonitorSends, Types, TypeOK
<1>9. CASE MonitorLogs \/ SchedulerLogs \/ WorkerLogs
  <2>1. /\ logPipe' \in Seq({LINE, EXIT}) /\ Len(logPipe') <= LogCap /\ lost' \subseteq Processes
        /\ UNCHANGED <<killed, swallowed, promised>>
    BY <1>9, LogWrites DEF MonitorLogs, SchedulerLogs, WorkerLogs, Processes, Children
  <2>2. QED
    <3>1. CASE MonitorLogs
      BY <1>1, <2>1, <3>1 DEF MonitorLogs, Types, TypeOK
    <3>2. CASE SchedulerLogs
      BY <1>1, <2>1, <3>2 DEF SchedulerLogs, Types, TypeOK
    <3>3. CASE WorkerLogs
      BY <1>1, <2>1, <3>3 DEF WorkerLogs, WorkerGoes, Types, TypeOK
    <3>4. QED
      BY <1>9, <3>1, <3>2, <3>3
<1>10. CASE ReadTask
  <2>1. /\ eventPipe' \in Seq(Tasks \cup {EXIT}) /\ Len(eventPipe') <= EventCap
        /\ Head(eventPipe) = eventPipe[1] /\ 1 \in DOMAIN eventPipe
    BY <1>10, EventTails DEF ReadTask
  <2>2. Head(eventPipe) \in 1 .. emitted /\ Head(eventPipe) \notin done
    BY <1>1, <1>10, <2>1 DEF ReadTask, IsTask, Fresh
  <2>3. QED
    BY <1>1, <1>10, <2>1, <2>2 DEF ReadTask, Types, TypeOK
<1>11. CASE ReadExit
  <2>1. eventPipe' \in Seq(Tasks \cup {EXIT}) /\ Len(eventPipe') <= EventCap
    BY <1>1, <1>11, EventTails DEF ReadExit, Types, TypeOK
  <2>2. QED
    BY <1>1, <1>11, <2>1 DEF ReadExit, Types, TypeOK
<1>12. CASE TransferExits
  <2>1. /\ logPipe' \in Seq({LINE, EXIT}) /\ Len(logPipe') <= LogCap /\ lost' \subseteq Processes
        /\ UNCHANGED <<killed, swallowed, promised>>
    BY <1>12, LogWrites DEF TransferExits, Processes, Children
  <2>2. /\ state' \in [Children -> States]
        /\ ends' \in [Processes -> SUBSET PipeEnds]
    BY <1>2, <1>12 DEF TransferExits, Processes, Children
  <2>3. QED
    BY <1>1, <1>12, <2>1, <2>2 DEF TransferExits, Types, TypeOK
<1>13. CASE WorkerEndsTask \/ PopDrained
  BY <1>1, <1>13 DEF WorkerEndsTask, PopDrained, WorkerGoes, Types, TypeOK
<1>14. CASE LoggerReads
  <2>1. logPipe' \in Seq({LINE, EXIT}) /\ Len(logPipe') <= LogCap
    <3>1. logPipe \in Seq({LINE, EXIT}) /\ logPipe # <<>> /\ logPipe' = Tail(logPipe)
      BY <1>1, <1>14 DEF LoggerReads, Types
    <3>2. Len(logPipe') = Len(logPipe) - 1 /\ Len(logPipe) \in Nat
      BY <3>1
    <3>3. QED
      BY <1>0, <3>1, <3>2
  <2>2. /\ state' \in [Children -> States]
        /\ ends' \in [Processes -> SUBSET PipeEnds]
    BY <1>1, <1>2, <1>14 DEF LoggerReads, TypeOK, Processes, Children
  <2>3. QED
    BY <1>1, <1>14, <2>1, <2>2 DEF LoggerReads, Types, TypeOK
<1>15. CASE LoggerAtEnd \/ Interrupt \/ MainKilled \/ \E c \in Children : DiesOfTerm(c) \/ ChildKilled(c)
  <2>1. PICK Q \in SUBSET Processes : Ended(Q)
    BY <1>15 DEF LoggerAtEnd, Interrupt, MainKilled, DiesOfTerm, ChildKilled, Processes, Children
  <2>2. /\ state' \in [Children -> States]
        /\ ends' \in [Processes -> SUBSET PipeEnds]
    BY <1>2, <2>1
  <2>3. killed' \subseteq Processes /\ stop' \in BOOLEAN
    BY <1>1, <1>15 DEF LoggerAtEnd, Interrupt, MainKilled, DiesOfTerm, ChildKilled, Processes, TypeOK
  <2>4. QED
    <3>1. CASE LoggerAtEnd \/ Interrupt
      BY <1>1, <2>2, <2>3, <3>1 DEF LoggerAtEnd, Interrupt, Types, TypeOK
    <3>2. CASE MainKilled
      BY <1>1, <2>2, <2>3, <3>2 DEF MainKilled, Types, TypeOK
    <3>3. CASE \E c \in Children : DiesOfTerm(c) \/ ChildKilled(c)
      BY <1>1, <2>2, <2>3, <3>3 DEF DiesOfTerm, ChildKilled, Types, TypeOK
    <3>4. QED
      BY <1>15, <3>1, <3>2, <3>3
<1>16. ASSUME NEW c \in Children, SetsUp(c) PROVE Types'
  <2>1. state' \in [Children -> States]
    BY <1>1, <1>16 DEF SetsUp, TypeOK, States, SettingUp
  <2>2. ends' \in [Processes -> SUBSET PipeEnds]
    <3>1. ends[c] \ ClosedBy(c) \in SUBSET PipeEnds
      BY <1>0 DEF Processes
    <3>2. ends' = ends \/ ends' = [ends EXCEPT ![c] = ends[c] \ ClosedBy(c)]
      BY <1>16 DEF SetsUp
    <3>3. QED
      BY <1>0, <3>1, <3>2
  <2>3. QED
    BY <1>1, <1>16, <2>1, <2>2 DEF SetsUp, Types, TypeOK
<1>17. ASSUME NEW c \in Children, SwallowsTerm(c) PROVE Types'
  BY <1>1, <1>17 DEF SwallowsTerm, Types, TypeOK
<1>18. QED
  BY <1>3, <1>4, <1>5, <1>6, <1>7, <1>8, <1>9, <1>10, <1>11, <1>12, <1>13, <1>14, <1>15, <1>16,
     <1>17, Steps

LEMMA LogsStep ==
    ASSUME IInv, Next PROVE Logs'
<1> USE DEF MainAt, mainVars, monitorVars, transferVars, auxVars, Children, Alive, Running, SettingUp, Over
<1>1. /\ Logs /\ Lives /\ logPipe \in Seq({LINE, EXIT}) /\ LINE # EXIT
      /\ state \in [Children -> States]
  BY ClientAssumption DEF IInv, Types, TypeOK
<1>2. ASSUME Silent, UNCHANGED mainPc \/ mainPc' \in {"wait logger", "ended", "killed"},
             \A c \in Children : Alive(c)' => Alive(c)
      PROVE  Silent'
  BY <1>2 DEF Silent
\* A write by someone whose death no one caused goes to a logger that runs.
<1>3. ASSUME NEW q \in Processes, Log(q, LINE), ~Silent,
             \/ Alive("monitor") \/ Alive("transfer") \/ mainPc \in {"started", "stopping"},
             state'["logger"] = state["logger"]
      PROVE  Logs'
  <2>1. /\ \A k \in DOMAIN logPipe : logPipe[k] # EXIT
        /\ "logger" \notin killed => Alive("logger") /\ Open("logR") # {}
    BY <1>3, LogReaders
  <2>2. /\ UNCHANGED <<killed, swallowed, promised>>
        /\ Open("logR") # {} =>
             /\ lost' = lost
             /\ DOMAIN logPipe' = 1 .. Len(logPipe') /\ Len(logPipe') = Len(logPipe) + 1
             /\ Len(logPipe) \in Nat /\ DOMAIN logPipe = 1 .. Len(logPipe)
             /\ logPipe'[Len(logPipe')] = LINE
             /\ \A k \in DOMAIN logPipe : logPipe'[k] = logPipe[k]
        /\ Open("logR") = {} => logPipe' = logPipe
    BY <1>3, LogWrites
  <2>3. \A k \in DOMAIN logPipe' : logPipe'[k] # EXIT
    BY <1>1, <2>1, <2>2
  <2>4. QED
    BY <1>1, <1>3, <2>1, <2>2, <2>3 DEF Logs
<1>4. CASE MonitorLogs
  BY <1>3, <1>4 DEF MonitorLogs, Silent, Processes
<1>5. CASE SchedulerLogs \/ WorkerLogs
  BY <1>3, <1>5 DEF SchedulerLogs, WorkerLogs, WorkerGoes, Silent, Processes
<1>6. CASE TransferExits
  <2>1. state'["logger"] = state["logger"]
    BY <1>6 DEF TransferExits, Ended
  <2>2. QED
    BY <1>3, <1>6, <2>1 DEF TransferExits, Silent, Processes
<1>7. CASE MainLogs("started", "loop", LINE) \/ MainLogs("stopping", "exit", LINE)
  BY <1>3, <1>7 DEF MainLogs, Silent, Processes
<1>8. CASE MainLogs("log exit", "close all", EXIT)
  <2>1. ~Silent /\ mainPc = "log exit"
    BY <1>8 DEF MainLogs, Silent
  <2>2. Silent'
    BY <1>1, <1>8 DEF MainLogs, Silent, Lives
  <2>3. /\ \A k \in DOMAIN logPipe : logPipe[k] # EXIT
        /\ "logger" \notin killed => Alive("logger") /\ Open("logR") # {}
    BY <2>1, LogReaders
  <2>4. /\ UNCHANGED <<killed, swallowed, promised>>
        /\ Open("logR") # {} =>
             /\ lost' = lost
             /\ DOMAIN logPipe' = 1 .. Len(logPipe') /\ Len(logPipe') = Len(logPipe) + 1
             /\ Len(logPipe) \in Nat /\ DOMAIN logPipe = 1 .. Len(logPipe)
             /\ logPipe'[Len(logPipe')] = EXIT
             /\ \A k \in DOMAIN logPipe : logPipe'[k] = logPipe[k]
        /\ Open("logR") = {} => logPipe' = logPipe
    BY <1>8, LogWrites DEF MainLogs, Processes
  <2>5. \A k \in DOMAIN logPipe' : logPipe'[k] = EXIT => k = Len(logPipe')
    BY <2>3, <2>4
  <2>6. QED
    BY <1>1, <1>8, <2>2, <2>3, <2>4, <2>5 DEF MainLogs, Logs
<1>9. ASSUME UNCHANGED <<logPipe, lost, killed>>, UNCHANGED mainPc \/ mainPc' \in {"wait logger", "ended", "killed"},
             \A c \in Children : Alive(c)' => Alive(c),
             Over("logger")' => Over("logger")
      PROVE  Logs'
  BY <1>1, <1>2, <1>9 DEF Logs
<1>10. ASSUME ~Silent, UNCHANGED <<logPipe, lost, killed>>,
              Over("logger")' => Over("logger")
       PROVE  Logs'
  BY <1>1, <1>10 DEF Logs
<1>11. CASE ReapAny \/ Terminate \/ CloseWriteEnds \/ WaitFor("logger", "wait logger", "ended")
  BY <1>1, <1>9, <1>11 DEF ReapAny, Terminate, CloseWriteEnds, WaitFor
<1>12. CASE MonitorSends \/ ReadTask \/ ReadExit \/ WorkerEndsTask \/ PopDrained
  BY <1>9, <1>12 DEF MonitorSends, ReadTask, ReadExit, WorkerEndsTask, PopDrained, WorkerGoes
<1>13. CASE \/ CloseReadEnds \/ LeaveLoop \/ KillMonitor \/ SendExit
            \/ WaitFor("monitor", "wait monitor", "wait transfer")
            \/ WaitFor("transfer", "wait transfer", "log exit")
  BY <1>1, <1>10, <1>13 DEF CloseReadEnds, LeaveLoop, KillMonitor, SendExit, WaitFor, Silent
<1>14. ASSUME NEW c \in Children, Fork(c) \/ ForkFails(c)
       PROVE  Logs'
  BY <1>1, <1>10, <1>14 DEF Fork, ForkFails, Forking, Forked, Silent
<1>15. ASSUME NEW c \in Children, c # "logger", DiesOfTerm(c) PROVE Logs'
  BY <1>1, <1>9, <1>15 DEF DiesOfTerm, Ended
<1>16. ASSUME DiesOfTerm("logger") PROVE FALSE
  BY <1>16 DEF DiesOfTerm, IInv, Types
<1>17. CASE LoggerReads
  <2>1. CASE Head(logPipe) = EXIT
    <3>1. logPipe # <<>> /\ logPipe' = Tail(logPipe)
      BY <1>17 DEF LoggerReads
    <3>2. Head(logPipe) = logPipe[1] /\ 1 \in DOMAIN logPipe
      BY <1>1, <3>1
    <3>3. Silent /\ Len(logPipe) = 1
      BY <1>1, <2>1, <3>2 DEF Logs
    <3>4. logPipe' = <<>>
      BY <1>1, <3>1, <3>3
    <3>5. \A c \in Children : Alive(c)' => Alive(c)
      BY <1>1, <1>17, <2>1 DEF LoggerReads, Ended
    <3>6. Silent'
      BY <1>2, <1>17, <3>3, <3>5 DEF LoggerReads
    <3>7. DOMAIN logPipe' = {}
      BY <3>4
    <3>8. QED
      BY <1>1, <1>17, <3>4, <3>6, <3>7 DEF LoggerReads, Logs
  <2>2. CASE Head(logPipe) # EXIT
    <3>1. /\ logPipe # <<>> /\ logPipe' = Tail(logPipe) /\ Running("logger")
          /\ UNCHANGED <<mainPc, state, killed, lost>>
      BY <1>17, <2>2 DEF LoggerReads
    <3>2. Len(logPipe) \in Nat /\ Len(logPipe') = Len(logPipe) - 1 /\ DOMAIN logPipe' = 1 .. Len(logPipe')
          /\ \A k \in DOMAIN logPipe' : k + 1 \in DOMAIN logPipe /\ logPipe'[k] = logPipe[k + 1]
      BY <1>1, <3>1
    <3>3. \A k \in DOMAIN logPipe' : logPipe'[k] = EXIT => Silent /\ k = Len(logPipe')
      BY <1>1, <3>2 DEF Logs
    <3>4. Silent' <=> Silent
      BY <3>1 DEF Silent
    <3>5. QED
      BY <1>1, <3>1, <3>3, <3>4 DEF Logs
  <2>3. QED
    BY <2>1, <2>2
<1>18. CASE LoggerAtEnd
  <2>1. Silent
    <3>1. ends["main"] \cap {"logW"} = {} /\ ends["monitor"] \cap {"logW"} = {}
          /\ ends["transfer"] \cap {"logW"} = {}
      BY <1>18 DEF LoggerAtEnd, Open, Processes
    <3>2. QED
      BY <3>1, OwnEnds DEF IInv, Fds, Closed, Silent, PipeEnds
  <2>2. /\ \A c \in Children : Alive(c)' => Alive(c)
        /\ UNCHANGED <<logPipe, lost, killed, mainPc>> /\ logPipe = <<>>
    BY <1>1, <1>18 DEF LoggerAtEnd, Ended
  <2>3. Silent'
    BY <1>2, <2>1, <2>2
  <2>4. QED
    BY <1>1, <2>2, <2>3 DEF Logs
<1>19. CASE Interrupt \/ MainKilled \/ \E c \in Children : ChildKilled(c)
  <2>1. /\ UNCHANGED <<logPipe, lost>> /\ killed \subseteq killed'
        /\ UNCHANGED mainPc \/ mainPc' = "killed"
    BY <1>19 DEF Interrupt, MainKilled, ChildKilled
  <2>2. /\ \A c \in Children : Alive(c)' => Alive(c)
        /\ state'["logger"] = state["logger"] \/ "logger" \in killed'
    BY <1>1, <1>19 DEF Interrupt, MainKilled, ChildKilled, Ended
  <2>3. QED
    BY <1>1, <1>2, <2>1, <2>2 DEF Logs
<1>20. ASSUME NEW c \in Children, SetsUp(c) \/ SwallowsTerm(c) PROVE Logs'
  BY <1>1, <1>9, <1>20 DEF SetsUp, SwallowsTerm
<1>21. QED
  BY <1>4, <1>5, <1>6, <1>7, <1>8, <1>11, <1>12, <1>13, <1>14, <1>15, <1>16, <1>17, <1>18, <1>19,
     <1>20, Steps

\* What leaves the event pipe, the tasks and the scheduler alone.
ElseStep ==
    \/ \E c \in Children : Fork(c) \/ ForkFails(c) \/ ChildKilled(c)
    \/ \E c \in Children : SetsUp(c) \/ SwallowsTerm(c) \/ DiesOfTerm(c)
    \/ CloseReadEnds \/ ReapAny \/ LeaveLoop \/ KillMonitor \/ CloseWriteEnds
    \/ MainLogs("started", "loop", LINE) \/ MainLogs("stopping", "exit", LINE)
    \/ MainLogs("log exit", "close all", EXIT)
    \/ WaitFor("monitor", "wait monitor", "wait transfer")
    \/ WaitFor("transfer", "wait transfer", "log exit")
    \/ WaitFor("logger", "wait logger", "ended")
    \/ MonitorLogs \/ TransferExits \/ LoggerReads \/ LoggerAtEnd
    \/ Terminate \/ Interrupt \/ MainKilled

LEMMA ElseFrame ==
    ASSUME ElseStep
    PROVE  UNCHANGED <<eventPipe, emitted, backlog, done, schedPc, promised>>
BY DEF ElseStep, Fork, ForkFails, SetsUp, SwallowsTerm, DiesOfTerm, ChildKilled, CloseReadEnds, ReapAny, LeaveLoop,
       KillMonitor, CloseWriteEnds, MainLogs, WaitFor, MonitorLogs, TransferExits, LoggerReads,
       LoggerAtEnd, Terminate, Interrupt, MainKilled, Log, monitorVars, transferVars, auxVars

LEMMA EventSteps ==
    ASSUME Next
    PROVE  \/ ElseStep \/ SendExit \/ MonitorSends \/ ReadTask \/ ReadExit
           \/ SchedulerLogs \/ WorkerEndsTask \/ PopDrained \/ WorkerLogs
BY Steps DEF ElseStep

LEMMA FreshStep ==
    ASSUME IInv, Next PROVE Fresh'
<1> USE DEF monitorVars, transferVars, auxVars
<1>1. /\ Fresh /\ eventPipe \in Seq(Tasks \cup {EXIT}) /\ emitted \in Nat
      /\ backlog \cup done \subseteq 1 .. emitted
  <2>1. Fresh /\ eventPipe \in Seq(Tasks \cup {EXIT}) /\ TypeOK
    BY DEF IInv, Types
  <2>2. emitted \in 0 .. MaxTasks /\ backlog \cup done \subseteq 1 .. emitted
    BY <2>1 DEF TypeOK
  <2>3. emitted \in Nat
    BY <2>2, ClientAssumption
  <2>4. QED
    BY <2>1, <2>2, <2>3
<1>2. CASE ElseStep \/ SchedulerLogs \/ WorkerEndsTask \/ PopDrained \/ WorkerLogs
  <2>1. UNCHANGED <<eventPipe, emitted>> /\ backlog' \cup done' = backlog \cup done
    BY <1>2, ElseFrame DEF SchedulerLogs, WorkerEndsTask, PopDrained, WorkerLogs, WorkerGoes
  <2>2. QED
    BY <1>1, <2>1 DEF Fresh
<1>3. CASE SendExit
  <2>1. /\ UNCHANGED <<emitted, backlog, done>>
        /\ DOMAIN eventPipe = 1 .. Len(eventPipe) /\ Len(eventPipe) \in Nat
        /\ DOMAIN eventPipe' = 1 .. Len(eventPipe')
        /\ Open("eventR") = {} => eventPipe' = eventPipe
        /\ Open("eventR") # {} =>
             /\ Len(eventPipe') = Len(eventPipe) + 1
             /\ eventPipe'[Len(eventPipe')] = EXIT
             /\ \A k \in DOMAIN eventPipe : eventPipe'[k] = eventPipe[k]
             /\ \A k \in DOMAIN eventPipe' : k \in DOMAIN eventPipe \/ k = Len(eventPipe')
    BY <1>3, SendWrites DEF SendExit
  <2>2. CASE Open("eventR") = {}
    BY <1>1, <2>1, <2>2 DEF Fresh
  <2>3. CASE Open("eventR") # {}
    <3>1. \A k \in DOMAIN eventPipe' :
            eventPipe'[k] # EXIT => k \in DOMAIN eventPipe /\ eventPipe'[k] = eventPipe[k]
      BY <2>1, <2>3
    <3>2. QED
      BY <1>1, <2>1, <3>1 DEF Fresh
  <2>4. QED
    BY <2>2, <2>3
<1>4. CASE MonitorSends
  <2>0. emitted + 1 \in Tasks
    BY <1>1, <1>4, ClientAssumption DEF MonitorSends, Tasks
  <2>1. /\ UNCHANGED <<backlog, done>> /\ emitted' = emitted + 1
        /\ DOMAIN eventPipe = 1 .. Len(eventPipe) /\ Len(eventPipe) \in Nat
        /\ DOMAIN eventPipe' = 1 .. Len(eventPipe')
        /\ Open("eventR") = {} => eventPipe' = eventPipe
        /\ Open("eventR") # {} =>
             /\ Len(eventPipe') = Len(eventPipe) + 1
             /\ eventPipe'[Len(eventPipe')] = emitted + 1
             /\ \A k \in DOMAIN eventPipe : eventPipe'[k] = eventPipe[k]
             /\ \A k \in DOMAIN eventPipe' : k \in DOMAIN eventPipe \/ k = Len(eventPipe')
    BY <1>4, <2>0, SendWrites DEF MonitorSends
  <2>2. \A k \in DOMAIN eventPipe : eventPipe[k] # EXIT => eventPipe[k] \in 1 .. emitted
    BY <1>1 DEF Fresh
  <2>3. /\ 1 .. emitted \subseteq 1 .. emitted' /\ emitted' \in 1 .. emitted'
        /\ emitted' \notin backlog \cup done /\ emitted' \notin 1 .. emitted
    <3>1. emitted \in Nat /\ emitted' = emitted + 1 /\ backlog \cup done \subseteq 1 .. emitted
      BY <1>1, <2>1
    <3>2. 1 .. emitted \subseteq 1 .. emitted' /\ emitted' \in 1 .. emitted' /\ emitted' \notin 1 .. emitted
      BY <3>1
    <3>3. QED
      BY <3>1, <3>2
  <2>4. CASE Open("eventR") = {}
    BY <1>1, <2>1, <2>3, <2>4 DEF Fresh
  <2>5. CASE Open("eventR") # {}
    <3>1. \A k \in DOMAIN eventPipe' :
            \/ k \in DOMAIN eventPipe /\ eventPipe'[k] = eventPipe[k]
            \/ k = Len(eventPipe') /\ eventPipe'[k] = emitted'
      BY <2>1, <2>5
    <3>2. \A k \in DOMAIN eventPipe' : eventPipe'[k] # EXIT =>
            eventPipe'[k] \in 1 .. emitted' /\ eventPipe'[k] \notin backlog' \cup done'
      BY <1>1, <2>1, <2>3, <3>1 DEF Fresh
    <3>3. \A k, l \in DOMAIN eventPipe' :
            eventPipe'[k] = eventPipe'[l] /\ eventPipe'[k] # EXIT => k = l
      BY <1>1, <2>2, <2>3, <3>1 DEF Fresh
    <3>4. QED
      BY <3>2, <3>3 DEF Fresh
  <2>6. QED
    BY <2>4, <2>5
<1>5. CASE ReadTask
  <2>1. /\ Head(eventPipe) = eventPipe[1] /\ eventPipe[1] # EXIT /\ 1 \in DOMAIN eventPipe
        /\ Len(eventPipe) \in Nat /\ DOMAIN eventPipe' = 1 .. Len(eventPipe')
        /\ \A k \in DOMAIN eventPipe' : k + 1 \in DOMAIN eventPipe /\ eventPipe'[k] = eventPipe[k + 1]
        /\ DOMAIN eventPipe' \subseteq Nat \ {0}
        /\ backlog' = backlog \cup {eventPipe[1]} /\ UNCHANGED <<emitted, done>>
    BY <1>5, EventTails DEF ReadTask, IsTask
  <2>2. \A k \in DOMAIN eventPipe' :
          eventPipe'[k] # EXIT => eventPipe'[k] \in 1 .. emitted' /\ eventPipe'[k] \notin backlog' \cup done'
    BY <1>1, <2>1 DEF Fresh
  <2>3. ASSUME NEW k \in DOMAIN eventPipe', NEW l \in DOMAIN eventPipe',
               eventPipe'[k] = eventPipe'[l], eventPipe'[k] # EXIT
        PROVE  k = l
    <3>1. k + 1 = l + 1
      BY <1>1, <2>1, <2>3 DEF Fresh
    <3>2. QED
      BY <2>1, <3>1
  <2>4. QED
    BY <2>2, <2>3 DEF Fresh
<1>6. CASE ReadExit
  <2>1. CASE eventPipe = <<>>
    BY <1>1, <1>6, <2>1 DEF ReadExit, Fresh
  <2>2. CASE eventPipe # <<>>
    <3>1. /\ UNCHANGED <<emitted, backlog, done>> /\ DOMAIN eventPipe' \subseteq Nat
          /\ \A k \in DOMAIN eventPipe' : k + 1 \in DOMAIN eventPipe /\ eventPipe'[k] = eventPipe[k + 1]
      <4>1. UNCHANGED <<emitted, backlog, done>> /\ eventPipe' = Tail(eventPipe)
        BY <1>6, <2>2 DEF ReadExit
      <4>2. QED
        BY <2>2, <4>1, EventTails
    <3>2. ASSUME NEW k \in DOMAIN eventPipe', NEW l \in DOMAIN eventPipe',
                 eventPipe'[k] = eventPipe'[l], eventPipe'[k] # EXIT
          PROVE  k = l
      <4>1. k + 1 = l + 1
        BY <1>1, <3>1, <3>2 DEF Fresh
      <4>2. QED
        BY <3>1, <4>1
    <3>3. QED
      BY <1>1, <3>1, <3>2 DEF Fresh
  <2>3. QED
    BY <2>1, <2>2
<1>7. QED
  BY <1>2, <1>3, <1>4, <1>5, <1>6, EventSteps

\* How main, the monitor and the transfer process may go on without touching the events.
LEMMA ElseLives ==
    ASSUME IInv, ElseStep
    PROVE  /\ mainPc' \in Ending \cup {"wait logger", "ended"} => mainPc \in Ending \cup {"wait logger", "ended"}
           /\ mainPc \in Ending \cup Closed => mainPc' \in Ending \cup Closed
           /\ mainPc' \in Early => mainPc \in Early
           /\ mainPc' \in Early \cup Serving => mainPc \in Early \cup Serving
           /\ Alive("transfer")' => Alive("transfer") \/ mainPc \in Early
           /\ mainPc \in Ending \cup Closed /\ Alive("monitor")' => Alive("monitor")
           /\ state'["transfer"] = "none" => state["transfer"] = "none"
           /\ state'["transfer"] \in {"ended", "reaped"} /\ "transfer" \notin killed' =>
                \/ state["transfer"] \in {"ended", "reaped"} /\ "transfer" \notin killed
                \/ schedPc = "stopped"
<1> USE DEF MainAt, mainVars, Children, Alive, Running, SettingUp, Early, Serving, Ending, Closed
<1>1. /\ state \in [Children -> States] /\ termed \subseteq {"monitor"}
      /\ mainPc \in Early \cup Serving \cup Ending \cup Closed
  BY DEF IInv, Types, TypeOK
<1>2. CASE \E c \in Children : Fork(c) \/ ForkFails(c)
  BY <1>1, <1>2 DEF Fork, ForkFails, Forking, Forked, auxVars
<1>3. CASE \/ CloseReadEnds \/ ReapAny \/ LeaveLoop \/ KillMonitor \/ CloseWriteEnds \/ Terminate
           \/ WaitFor("monitor", "wait monitor", "wait transfer")
           \/ WaitFor("transfer", "wait transfer", "log exit")
           \/ WaitFor("logger", "wait logger", "ended")
  BY <1>1, <1>3 DEF CloseReadEnds, ReapAny, LeaveLoop, KillMonitor, CloseWriteEnds, Terminate, WaitFor, auxVars
<1>4. CASE \/ MainLogs("started", "loop", LINE) \/ MainLogs("stopping", "exit", LINE)
           \/ MainLogs("log exit", "close all", EXIT) \/ MonitorLogs
  BY <1>1, <1>4 DEF MainLogs, MonitorLogs, Log
<1>5. CASE TransferExits \/ LoggerReads \/ LoggerAtEnd \/ \E c \in Children : DiesOfTerm(c)
  BY <1>1, <1>5 DEF TransferExits, LoggerReads, LoggerAtEnd, DiesOfTerm, Ended, Log, Running, auxVars
<1>6. CASE Interrupt \/ MainKilled \/ \E c \in Children : ChildKilled(c)
  BY <1>1, <1>6 DEF Interrupt, MainKilled, ChildKilled, Ended, Running
<1>7. CASE \E c \in Children : SetsUp(c) \/ SwallowsTerm(c)
  BY <1>1, <1>7 DEF SetsUp, SwallowsTerm, auxVars
<1>8. QED
  BY <1>2, <1>3, <1>4, <1>5, <1>6, <1>7 DEF ElseStep

LEMMA PromisesStep ==
    ASSUME IInv, Next PROVE Promises'
<1> USE DEF monitorVars, transferVars, auxVars, mainVars, Alive, Running, SettingUp, Over
<1>1. /\ Promises /\ eventPipe \in Seq(Tasks \cup {EXIT}) /\ promised \subseteq Tasks
      /\ mainPc \in Early \cup Serving \cup Ending \cup Closed /\ Fds
      /\ state \in [Children -> States]
  BY DEF IInv, Types, TypeOK
<1>2. emitted \in Nat /\ MaxTasks \in Nat /\ EXIT \notin Nat
  <2>1. emitted \in 0 .. MaxTasks
    BY DEF IInv, Types, TypeOK
  <2>2. QED
    BY <2>1, ClientAssumption
<1>3. CASE ElseStep
  <2>1. UNCHANGED <<eventPipe, emitted, backlog, done, schedPc, promised>>
    BY <1>3, ElseFrame
  <2>2. /\ Finished' <=> Finished
        /\ \A t : Waiting(t)' <=> Waiting(t)
    BY <2>1 DEF Finished, Waiting
  <2>3. /\ mainPc' \in Ending \cup {"wait logger", "ended"} => mainPc \in Ending \cup {"wait logger", "ended"}
        /\ mainPc \in Ending \cup Closed => mainPc' \in Ending \cup Closed
        /\ mainPc' \in Early => mainPc \in Early
        /\ mainPc' \in Early \cup Serving => mainPc \in Early \cup Serving
        /\ Alive("transfer")' => Alive("transfer") \/ mainPc \in Early
        /\ mainPc \in Ending \cup Closed /\ Alive("monitor")' => Alive("monitor")
        /\ state'["transfer"] = "none" => state["transfer"] = "none"
        /\ state'["transfer"] \in {"ended", "reaped"} /\ "transfer" \notin killed' =>
             \/ state["transfer"] \in {"ended", "reaped"} /\ "transfer" \notin killed
             \/ schedPc = "stopped"
    BY <1>3, ElseLives
  <2>4. /\ mainPc' \in Early \cup Serving => promised' = Tasks
        /\ mainPc' \in Ending \cup {"wait logger", "ended"} => promised' \subseteq 1 .. emitted'
    BY <1>1, <2>1, <2>3 DEF Promises
  <2>5. \A k \in DOMAIN eventPipe' : eventPipe'[k] = EXIT =>
          promised' \subseteq 1 .. emitted' /\ mainPc' \in Ending \cup Closed
    BY <1>1, <2>1, <2>3 DEF Promises
  <2>6. ~Finished' /\ (Alive("transfer")' \/ mainPc' \in Early) =>
          \A t \in promised' \cap 1 .. emitted' : t \in backlog' \cup done' \/ Waiting(t)'
    BY <1>1, <2>1, <2>2, <2>3 DEF Promises
  <2>7. Finished' => /\ promised' \cap 1 .. emitted' \subseteq backlog' \cup done'
                     /\ promised' \subseteq 1 .. emitted' \/ ~Alive("monitor")'
                     /\ mainPc' \in Ending \cup Closed
    BY <1>1, <2>1, <2>2, <2>3 DEF Promises
  <2>8. /\ Over("transfer")' /\ "transfer" \notin killed' => Finished'
        /\ state'["transfer"] = "none" => schedPc' = "read"
    BY <1>1, <2>1, <2>3 DEF Promises, Finished
  <2>9. QED
    BY <2>4, <2>5, <2>6, <2>7, <2>8 DEF Promises
<1>4. CASE SendExit
  <2>1. /\ mainPc = "exit" /\ mainPc' = "kill" /\ promised' = 1 .. emitted
        /\ UNCHANGED <<state, emitted, backlog, done, schedPc, killed>>
    BY <1>4 DEF SendExit, MainAt
  <2>2. /\ promised = Tasks /\ ~Finished
        /\ \A k \in DOMAIN eventPipe : eventPipe[k] # EXIT
    BY <1>1, <2>1 DEF Promises, Serving, Early, Ending, Closed
  <2>3. 1 .. emitted \subseteq Tasks
    <3>1. emitted \in 0 .. MaxTasks
      BY DEF IInv, Types, TypeOK
    <3>2. QED
      BY <1>2, <3>1 DEF Tasks
  <2>4. ASSUME Alive("transfer"), NEW t \in 1 .. emitted PROVE t \in backlog \cup done \/ Waiting(t)'
    <3>1. Open("eventR") # {}
      BY <1>1, <2>4, OwnEnds DEF Fds, Open, Processes, Children, PipeEnds
    <3>2. /\ \A k \in DOMAIN eventPipe : k \in DOMAIN eventPipe' /\ eventPipe'[k] = eventPipe[k]
          /\ \A k \in DOMAIN eventPipe' : k \in DOMAIN eventPipe \/ k = Len(eventPipe) + 1
          /\ DOMAIN eventPipe = 1 .. Len(eventPipe) /\ Len(eventPipe) \in Nat
      BY <1>4, <3>1, SendWrites DEF SendExit
    <3>3. t \in backlog \cup done \/ \E k \in DOMAIN eventPipe : eventPipe[k] = t
      BY <1>1, <2>2, <2>3, <2>4 DEF Promises, Waiting
    <3>4. ASSUME NEW k \in DOMAIN eventPipe, eventPipe[k] = t PROVE Waiting(t)'
      <4>1. k \in DOMAIN eventPipe' /\ eventPipe'[k] = t
        BY <3>2, <3>4
      <4>2. \A l \in DOMAIN eventPipe' : l < k => l \in DOMAIN eventPipe
        BY <3>2
      <4>3. \A l \in DOMAIN eventPipe' : l < k => eventPipe'[l] # EXIT
        BY <2>2, <3>2, <4>2
      <4>4. QED
        BY <4>1, <4>3 DEF Waiting
    <3>5. QED
      BY <3>3, <3>4
  <2>5. QED
    BY <1>1, <2>1, <2>2, <2>4 DEF Promises, Finished, Early, Serving, Ending, Closed
<1>5. CASE MonitorSends
  <2>1. /\ UNCHANGED <<mainPc, state, backlog, done, schedPc, killed, promised>>
        /\ emitted' = emitted + 1 /\ Running("monitor") /\ emitted + 1 \in Tasks
    BY <1>2, <1>5 DEF MonitorSends, Tasks
  <2>2. /\ Len(eventPipe) \in Nat /\ DOMAIN eventPipe = 1 .. Len(eventPipe)
        /\ DOMAIN eventPipe' = 1 .. Len(eventPipe')
        /\ Open("eventR") = {} => eventPipe' = eventPipe
        /\ Open("eventR") # {} =>
             /\ Len(eventPipe') = Len(eventPipe) + 1
             /\ eventPipe'[Len(eventPipe')] = emitted + 1
             /\ \A k \in DOMAIN eventPipe : eventPipe'[k] = eventPipe[k]
             /\ \A k \in DOMAIN eventPipe' : k \in DOMAIN eventPipe \/ k = Len(eventPipe')
    BY <1>5, <2>1, SendWrites DEF MonitorSends
  <2>3. 1 .. emitted \subseteq 1 .. emitted' /\ \A t \in 1 .. emitted' : t \in 1 .. emitted \/ t = emitted'
    BY <1>2, <2>1
  <2>4. /\ mainPc' \in Early \cup Serving => promised' = Tasks
        /\ mainPc' \in Ending \cup {"wait logger", "ended"} => promised' \subseteq 1 .. emitted'
    BY <1>1, <2>1, <2>3 DEF Promises
  <2>5. \A k \in DOMAIN eventPipe' : eventPipe'[k] = EXIT => k \in DOMAIN eventPipe /\ eventPipe[k] = EXIT
    <3>1. emitted + 1 # EXIT
      BY <1>2
    <3>2. QED
      BY <2>2, <3>1
  <2>6. \A k \in DOMAIN eventPipe' : eventPipe'[k] = EXIT =>
          promised' \subseteq 1 .. emitted' /\ mainPc' \in Ending \cup Closed
    BY <1>1, <2>1, <2>3, <2>5 DEF Promises
  <2>7. ASSUME ~Finished, Alive("transfer") \/ mainPc \in Early,
               NEW t \in promised \cap 1 .. emitted'
        PROVE  t \in backlog \cup done \/ Waiting(t)'
    <3>1. Open("eventR") # {}
      BY <1>1, <2>7, OwnEnds DEF Fds, Open, Processes, Children, PipeEnds
    <3>2. CASE t \in 1 .. emitted
      <4>1. CASE t \in backlog \cup done
        BY <4>1
      <4>2. CASE Waiting(t)
        <5>1. PICK k \in DOMAIN eventPipe : /\ eventPipe[k] = t
                                            /\ \A l \in DOMAIN eventPipe : l < k => eventPipe[l] # EXIT
          BY <4>2 DEF Waiting
        <5>2. k \in DOMAIN eventPipe' /\ eventPipe'[k] = t
          <6>1. \A j \in DOMAIN eventPipe : j \in DOMAIN eventPipe' /\ eventPipe'[j] = eventPipe[j]
            BY <1>5, <2>1, <3>1, SendWrites DEF MonitorSends
          <6>2. QED
            BY <5>1, <6>1
        <5>3. \A l \in DOMAIN eventPipe' : l < k => eventPipe'[l] # EXIT
          BY <2>5, <5>1
        <5>4. QED
          BY <5>2, <5>3 DEF Waiting
      <4>3. QED
        BY <1>1, <2>7, <3>2, <4>1, <4>2 DEF Promises
    <3>3. CASE t = emitted'
      <4>1. ~(promised \subseteq 1 .. emitted)
        BY <1>2, <2>1, <2>7, <3>3
      <4>2. \A k \in DOMAIN eventPipe' : eventPipe'[k] # EXIT
        BY <1>1, <2>5, <4>1 DEF Promises
      <4>3. Len(eventPipe') \in DOMAIN eventPipe' /\ eventPipe'[Len(eventPipe')] = t
        <5>1. Len(eventPipe') = Len(eventPipe) + 1 /\ eventPipe'[Len(eventPipe')] = emitted + 1
          BY <2>2, <3>1
        <5>2. Len(eventPipe') \in 1 .. Len(eventPipe')
          BY <2>2, <5>1
        <5>3. QED
          BY <2>1, <2>2, <3>3, <5>1, <5>2
      <4>4. QED
        BY <4>2, <4>3 DEF Waiting
    <3>4. QED
      BY <2>3, <2>7, <3>2, <3>3
  <2>8. ASSUME Finished
        PROVE  /\ promised \cap 1 .. emitted' \subseteq backlog \cup done
               /\ promised \subseteq 1 .. emitted' /\ mainPc \in Ending \cup Closed
    <3>1. promised \subseteq 1 .. emitted /\ promised \cap 1 .. emitted \subseteq backlog \cup done
          /\ mainPc \in Ending \cup Closed
      BY <1>1, <2>1, <2>8 DEF Promises
    <3>2. QED
      BY <2>3, <3>1
  <2>9. /\ Over("transfer")' /\ "transfer" \notin killed' => Finished'
        /\ state'["transfer"] = "none" => schedPc' = "read"
        /\ Finished' <=> Finished
    BY <1>1, <2>1 DEF Promises, Finished
  <2>10. QED
    BY <2>1, <2>4, <2>6, <2>7, <2>8, <2>9 DEF Promises
<1>6. CASE ReadTask
  <2>1. /\ UNCHANGED <<mainPc, state, emitted, done, killed, promised>>
        /\ backlog' = backlog \cup {eventPipe[1]} /\ schedPc = "read" /\ schedPc' = "log"
        /\ state["transfer"] = "running" /\ eventPipe[1] # EXIT
        /\ 1 \in DOMAIN eventPipe /\ DOMAIN eventPipe = 1 .. Len(eventPipe) /\ Len(eventPipe) \in Nat
        /\ DOMAIN eventPipe' = 1 .. Len(eventPipe') /\ Len(eventPipe') = Len(eventPipe) - 1
        /\ \A k \in DOMAIN eventPipe' : k + 1 \in DOMAIN eventPipe /\ eventPipe'[k] = eventPipe[k + 1]
    BY <1>6, EventTails DEF ReadTask, IsTask
  <2>2. ~Finished /\ ~Finished'
    BY <2>1 DEF Finished
  <2>3. ASSUME NEW t \in promised \cap 1 .. emitted PROVE t \in backlog' \cup done' \/ Waiting(t)'
    <3>1. CASE t \in backlog \cup done \/ t = eventPipe[1]
      BY <2>1, <3>1
    <3>2. CASE Waiting(t) /\ t # eventPipe[1]
      <4>1. PICK k \in DOMAIN eventPipe : /\ eventPipe[k] = t
                                          /\ \A l \in DOMAIN eventPipe : l < k => eventPipe[l] # EXIT
        BY <3>2 DEF Waiting
      <4>2. k # 1
        BY <3>2, <4>1
      <4>3. k - 1 \in DOMAIN eventPipe' /\ (k - 1) + 1 = k
        BY <2>1, <4>2
      <4>4. eventPipe'[k - 1] = t
        BY <2>1, <4>1, <4>3
      <4>5. \A l \in DOMAIN eventPipe' : l < k - 1 => eventPipe'[l] # EXIT
        <5>1. \A l \in DOMAIN eventPipe' : l < k - 1 => l + 1 < k
          BY <2>1
        <5>2. QED
          BY <2>1, <4>1, <5>1
      <4>6. QED
        BY <4>3, <4>4, <4>5 DEF Waiting
    <3>3. QED
      BY <1>1, <2>1, <2>2, <2>3, <3>1, <3>2 DEF Promises
  <2>4. \A k \in DOMAIN eventPipe' : eventPipe'[k] = EXIT =>
          promised' \subseteq 1 .. emitted' /\ mainPc' \in Ending \cup Closed
    BY <1>1, <2>1 DEF Promises
  <2>5. QED
    BY <1>1, <2>1, <2>2, <2>3, <2>4 DEF Promises
<1>7. CASE ReadExit
  <2>1. /\ UNCHANGED <<mainPc, state, emitted, backlog, done, killed, promised>>
        /\ schedPc = "read" /\ schedPc' = "log exit" /\ state["transfer"] = "running"
    BY <1>7 DEF ReadExit
  <2>2. ~Finished /\ Finished'
    BY <2>1 DEF Finished
  <2>3. CASE eventPipe = <<>>
    <3>1. Open("eventW") = {} /\ eventPipe' = <<>> /\ DOMAIN eventPipe = {} /\ DOMAIN eventPipe' = {}
      <4>1. Open("eventW") = {} /\ eventPipe' = eventPipe
        BY <1>7, <2>3 DEF ReadExit
      <4>2. QED
        BY <2>3, <4>1
    <3>2. promised \cap 1 .. emitted \subseteq backlog \cup done
      BY <1>1, <2>1, <2>2, <3>1 DEF Promises, Waiting
    <3>3. ~Alive("monitor") /\ mainPc \in Closed
      BY <1>1, <3>1, OwnEnds DEF Fds, Open, Processes, Children, PipeEnds
    <3>4. QED
      BY <1>1, <2>1, <2>2, <3>1, <3>2, <3>3 DEF Promises
  <2>4. CASE eventPipe # <<>>
    <3>1. eventPipe' = Tail(eventPipe) /\ Head(eventPipe) = EXIT
      BY <1>7, <2>4 DEF ReadExit, IsTask
    <3>2. /\ eventPipe[1] = EXIT /\ 1 \in DOMAIN eventPipe
          /\ DOMAIN eventPipe = 1 .. Len(eventPipe) /\ Len(eventPipe) \in Nat
          /\ \A k \in DOMAIN eventPipe' : k + 1 \in DOMAIN eventPipe /\ eventPipe'[k] = eventPipe[k + 1]
      BY <2>4, <3>1, EventTails
    <3>3. promised \subseteq 1 .. emitted /\ mainPc \in Ending \cup Closed
      BY <1>1, <3>2 DEF Promises
    <3>4. ASSUME NEW t \in 1 .. emitted, Waiting(t) PROVE FALSE
      <4>1. PICK k \in DOMAIN eventPipe : /\ eventPipe[k] = t
                                          /\ \A l \in DOMAIN eventPipe : l < k => eventPipe[l] # EXIT
        BY <3>4 DEF Waiting
      <4>2. k = 1
        BY <3>2, <4>1
      <4>3. t = EXIT /\ t \in Nat
        BY <1>2, <3>2, <4>1, <4>2
      <4>4. QED
        BY <1>2, <4>3
    <3>5. promised \cap 1 .. emitted \subseteq backlog \cup done
      BY <1>1, <2>1, <2>2, <3>4 DEF Promises
    <3>6. QED
      BY <1>1, <2>1, <2>2, <3>2, <3>3, <3>5 DEF Promises
  <2>5. QED
    BY <2>3, <2>4
<1>8. CASE SchedulerLogs \/ WorkerEndsTask \/ PopDrained \/ WorkerLogs
  <2>1. /\ UNCHANGED <<mainPc, state, emitted, killed, promised, eventPipe>>
        /\ backlog' \cup done' = backlog \cup done /\ state["transfer"] = "running"
    BY <1>8 DEF SchedulerLogs, WorkerEndsTask, PopDrained, WorkerLogs, WorkerGoes, Log
  <2>2. /\ Finished' <=> Finished
        /\ \A t : Waiting(t)' <=> Waiting(t)
    BY <1>8, <2>1 DEF SchedulerLogs, WorkerEndsTask, PopDrained, WorkerLogs, WorkerGoes, Finished, Waiting
  <2>3. QED
    BY <1>1, <2>1, <2>2 DEF Promises
<1>9. QED
  BY <1>3, <1>4, <1>5, <1>6, <1>7, <1>8, EventSteps

-----------------------------------------------------------------------------
(* The theorems *)

LEMMA NextKeeps ==
    ASSUME IInv, [Next]_vars PROVE IInv'
<1>1. CASE Next
  BY <1>1, TypesStep, FdsStep, LivesStep, LogsStep, FreshStep, PromisesStep DEF IInv
<1>2. CASE UNCHANGED vars
  <2>1. UNCHANGED <<mainPc, stop, state, ends, termed, eventPipe, logPipe, monitorLogs, emitted,
                    schedPc, backlog, done, workerPc, killed, swallowed, promised, lost>>
    BY <1>2 DEF vars, mainVars, monitorVars, transferVars, auxVars
  <2>2. Types'
    BY <2>1 DEF IInv, Types, TypeOK
  <2>3. Fds' /\ Lives' /\ Logs'
    BY <2>1 DEF IInv, Fds, Lives, Logs, Silent, Alive, Running, Over
  <2>4. Fresh'
    BY <2>1 DEF IInv, Fresh
  <2>5. Finished' = Finished /\ \A t : Waiting(t)' = Waiting(t)
    BY <2>1 DEF Finished, Waiting
  <2>6. Promises'
    BY <2>1, <2>5 DEF IInv, Promises, Alive, Running, Over
  <2>7. QED
    BY <2>2, <2>3, <2>4, <2>6 DEF IInv
<1>3. QED
  BY <1>1, <1>2

\* Types, pipe ends, the order of the forks and ends, and what is in the pipes.
THEOREM Inductive == Spec => []IInv
<1>1. Init => IInv
  BY InitIInv
<1>2. IInv /\ [Next]_vars => IInv'
  BY NextKeeps
<1>3. QED
  BY <1>1, <1>2, PTL DEF Spec

\* The types of the client's state (client_main.c:173-246): the pipes keep their capacity,
\* and a task is queued or done, never both.
THEOREM TypeCorrect == Spec => []TypeOK
<1>1. IInv => TypeOK
  BY DEF IInv, Types
<1>2. QED
  BY <1>1, Inductive, PTL

\* However large the pipes and however many the tasks: an orderly end leaves no task in the
\* event pipe in front of EXIT, or at all when EXIT was not sent (client_main.c:235-241).
THEOREM PromisesKept == Spec => []PromisedIsRead
<1>1. IInv => PromisedIsRead
  BY DEF IInv, Promises, PromisedIsRead
<1>2. QED
  BY <1>1, Inductive, PTL

\* Whichever processes are killed and whenever, unless it is the logger: its LOG_EXIT is the
\* last record, and none is written without a reader (client_main.c:239-246, logger.c:51-72).
THEOREM NoLogLost == Spec => []LogComplete
<1>1. IInv => LogComplete
  BY DEF IInv, Logs, LogComplete
<1>2. QED
  BY <1>1, Inductive, PTL
=============================================================================

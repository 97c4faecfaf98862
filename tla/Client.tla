------------------------------- MODULE Client -------------------------------
(***************************************************************************)
(* src/client_main.c and src/logger.c: the four processes of the client,   *)
(* the pipes between them, and how they end: by SIGTERM to main, by Ctrl-C *)
(* that every process gets, by the death of any of them.                   *)
(*                                                                         *)
(* Pipes are queues of records.  A SyncTask and a LogMessage are smaller   *)
(* than PIPE_BUF, so a record is written whole or not at all; a writer     *)
(* waits while a pipe is full, and fails when no one can read from it.     *)
(*                                                                         *)
(* A child starts with main's signal handlers and pipe ends and gives them *)
(* up step by step; only its two or three close calls are one step.        *)
(*                                                                         *)
(* Of the monitor and the transfer process there is what main sees of      *)
(* them: tasks that are numbered, read, and done by one worker.            *)
(***************************************************************************)
EXTENDS Naturals, Sequences, FiniteSets

CONSTANTS
    EXIT,               \* EVENT_EXIT, and LOG_EXIT
    LINE,               \* any other LogMessage
    EventCap, LogCap,   \* BOUND: how many records a pipe holds
    MaxTasks            \* BOUND: tasks the monitor sends

ASSUME ClientAssumption ==
    /\ EventCap \in Nat \ {0} /\ LogCap \in Nat \ {0} /\ MaxTasks \in Nat
    /\ EXIT \notin Nat /\ LINE # EXIT

Children == {"logger", "monitor", "transfer"}
Processes == Children \cup {"main"}
PipeEnds == {"eventR", "eventW", "logR", "logW"}
Tasks == 1 .. MaxTasks

VARIABLES
    mainPc, stop,   \* main, and g_stop
    state,          \* of each child
    ends,           \* the pipe ends that each process has open
    termed,         \* children that have a SIGTERM to take
    eventPipe, logPipe,
    monitorLogs, emitted,   \* the monitor has a record to write; tasks sent so far
    schedPc, backlog, done, \* the transfer process: scheduler, tasks read, tasks done
    workerPc,               \* the worker of the transfer process
    killed,         \* AUXILIARY: processes that someone else made to end
    swallowed,      \* AUXILIARY: children whose inherited handler took it
    promised,       \* AUXILIARY: tasks that are not behind EXIT in the event pipe
    lost            \* AUXILIARY: processes whose log records had no reader

mainVars == <<mainPc, stop>>
monitorVars == <<monitorLogs, emitted>>
transferVars == <<schedPc, backlog, done, workerPc>>
auxVars == <<killed, swallowed, promised, lost>>
vars == <<mainVars, state, ends, termed, eventPipe, logPipe, monitorVars, transferVars, auxVars>>

-----------------------------------------------------------------------------
(* Pipes and processes *)

Open(e) == {q \in Processes : e \in ends[q]}

\* forked: with all that main has; int, term: with the default for SIGINT, for SIGTERM
\* as well; running: in its own function; ended: a zombie.
SettingUp == {"forked", "int", "term"}
States == SettingUp \cup {"none", "running", "ended", "reaped"}
Running(c) == state[c] = "running"
Alive(c) == Running(c) \/ state[c] \in SettingUp
DiesOfInt(c) == Alive(c) /\ state[c] # "forked"

\* write_full to the log pipe: it waits for room, or fails without readers.
Log(q, record) ==
    /\ Open("logR") = {} \/ Len(logPipe) < LogCap
    /\ IF Open("logR") = {} THEN lost' = lost \cup {q} /\ UNCHANGED logPipe
       ELSE logPipe' = Append(logPipe, record) /\ UNCHANGED lost
    /\ UNCHANGED <<killed, swallowed, promised>>

SendEvent(event) ==
    /\ Open("eventR") = {} \/ Len(eventPipe) < EventCap
    /\ eventPipe' = IF Open("eventR") = {} THEN eventPipe ELSE Append(eventPipe, event)

\* Processes that end close what they have; what no one has open is gone.
Ended(Q) ==
    /\ state' = [c \in Children |-> IF c \in Q /\ Alive(c) THEN "ended" ELSE state[c]]
    /\ ends' = [q \in Processes |-> IF q \in Q THEN {} ELSE ends[q]]

-----------------------------------------------------------------------------
(* main *)

MainAt(from, to) ==
    /\ mainPc = from /\ mainPc' = to
    /\ UNCHANGED stop

\* MUTANT: the transfer process keeps the write end of its own pipe.
LeavesOpen(c) ==
    CASE c = "logger" -> {"eventR", "eventW", "logW"}
      [] OTHER -> {"logR"} \cup IF c = "monitor" THEN {"eventR"} ELSE {}

\* The pipe ends that are not its own.
ClosedBy(c) ==
    CASE c = "logger" -> {"eventR", "eventW", "logW"}
      [] c = "monitor" -> {"eventR", "logR"}
      [] c = "transfer" -> {"eventW", "logR"}

Forking(c) == CASE c = "logger" -> "start" [] c = "monitor" -> "fork monitor"
                [] c = "transfer" -> "fork transfer"
Forked(c) == CASE c = "logger" -> "fork monitor" [] c = "monitor" -> "fork transfer"
               [] c = "transfer" -> "close"

Fork(c) ==
    /\ MainAt(Forking(c), Forked(c))
    /\ state' = [state EXCEPT ![c] = "forked"]
    /\ ends' = [ends EXCEPT ![c] = ends["main"]]
    /\ UNCHANGED <<termed, eventPipe, logPipe, monitorVars, transferVars, auxVars>>

\* main returns 1 and leaves the children that it has.
ForkFails(c) ==
    /\ MainAt(Forking(c), "failed")
    /\ ends' = [ends EXCEPT !["main"] = {}]
    /\ UNCHANGED <<state, termed, eventPipe, logPipe, monitorVars, transferVars, auxVars>>

ReadEnds == {"eventR", "logR"}

CloseReadEnds ==
    /\ MainAt("close", "started")
    /\ ends' = [ends EXCEPT !["main"] = @ \ ReadEnds]
    /\ UNCHANGED <<state, termed, eventPipe, logPipe, monitorVars, transferVars, auxVars>>

MainLogs(from, to, record) ==
    /\ MainAt(from, to)
    /\ Log("main", record)
    /\ UNCHANGED <<state, ends, termed, eventPipe, monitorVars, transferVars>>

\* MUTANT: only the monitor is watched.
MonitorOnly == {"monitor"}

Watched == {"monitor", "transfer"}

\* waitpid(-1, WNOHANG) after each 200 ms, until g_stop; a logger is reaped and
\* forgotten
ReapAny ==
    /\ mainPc = "loop"
    /\ \E c \in Children :
         /\ state[c] = "ended"
         /\ state' = [state EXCEPT ![c] = "reaped"]
         /\ stop' = (stop \/ c \in Watched)
    /\ UNCHANGED <<mainPc, ends, termed, eventPipe, logPipe, monitorVars, transferVars, auxVars>>

LeaveLoop ==
    /\ mainPc = "loop" /\ stop /\ mainPc' = "stopping"
    /\ UNCHANGED <<stop, state, ends, termed, eventPipe, logPipe, monitorVars, transferVars, auxVars>>

SendExit ==
    /\ MainAt("exit", "kill")
    /\ SendEvent(EXIT)
    /\ promised' = 1 .. emitted
    /\ UNCHANGED <<state, ends, termed, logPipe, monitorVars, transferVars, killed, swallowed, lost>>

\* MUTANT: the transfer process is ended the same way.
BothTermed == {"monitor", "transfer"}

Termed == {"monitor"}

KillMonitor ==
    /\ MainAt("kill", "wait monitor")
    /\ termed' = termed \cup Termed
    /\ UNCHANGED <<state, ends, eventPipe, logPipe, monitorVars, transferVars, auxVars>>

\* waitpid fails at once when the child was reaped before.
WaitFor(c, from, to) ==
    /\ MainAt(from, to)
    /\ state[c] \in {"ended", "reaped"}
    /\ state' = [state EXCEPT ![c] = "reaped"]
    /\ UNCHANGED <<ends, termed, eventPipe, logPipe, monitorVars, transferVars, auxVars>>

CloseWriteEnds ==
    /\ MainAt("close all", "wait logger")
    /\ ends' = [ends EXCEPT !["main"] = {}]
    /\ UNCHANGED <<state, termed, eventPipe, logPipe, monitorVars, transferVars, auxVars>>

\* MUTANT: the logger is told to end while the transfer process still works.
LogExitFirst ==
    \/ WaitFor("monitor", "wait monitor", "log exit")
    \/ MainLogs("log exit", "wait transfer", EXIT)
    \/ WaitFor("transfer", "wait transfer", "close all")

Shutdown ==
    \/ WaitFor("monitor", "wait monitor", "wait transfer")
    \/ WaitFor("transfer", "wait transfer", "log exit")
    \/ MainLogs("log exit", "close all", EXIT)

Main ==
    \/ \E c \in Children : Fork(c)
    \/ CloseReadEnds
    \/ MainLogs("started", "loop", LINE)
    \/ ReapAny \/ LeaveLoop
    \/ MainLogs("stopping", "exit", LINE)
    \/ SendExit \/ KillMonitor
    \/ Shutdown
    \/ CloseWriteEnds
    \/ WaitFor("logger", "wait logger", "ended")

-----------------------------------------------------------------------------
(* The children *)

\* signal(SIGINT, SIG_DFL), signal(SIGTERM, SIG_DFL), and the close calls.
SetsUp(c) ==
    /\ \/ /\ state[c] = "forked" /\ state' = [state EXCEPT ![c] = "int"]
          /\ UNCHANGED ends
       \/ /\ state[c] = "int" /\ state' = [state EXCEPT ![c] = "term"]
          /\ UNCHANGED ends
       \/ /\ state[c] = "term" /\ state' = [state EXCEPT ![c] = "running"]
          /\ ends' = [ends EXCEPT ![c] = @ \ ClosedBy(c)]
    /\ UNCHANGED <<mainVars, termed, eventPipe, logPipe, monitorVars, transferVars, auxVars>>

MonitorSends ==
    /\ Running("monitor") /\ ~monitorLogs /\ emitted < MaxTasks
    /\ SendEvent(emitted + 1)
    /\ emitted' = emitted + 1 /\ monitorLogs' = TRUE
    /\ UNCHANGED <<mainVars, state, ends, termed, logPipe, transferVars, auxVars>>

MonitorLogs ==
    /\ Running("monitor") /\ monitorLogs
    /\ Log("monitor", LINE) /\ monitorLogs' = FALSE
    /\ UNCHANGED <<mainVars, state, ends, termed, eventPipe, emitted, transferVars>>

\* MUTANT: EXIT is a task like the others.
AnyTask(event) == TRUE

IsTask(event) == event # EXIT

ReadTask ==
    /\ Running("transfer") /\ schedPc = "read"
    /\ eventPipe # <<>> /\ IsTask(Head(eventPipe))
    /\ eventPipe' = Tail(eventPipe)
    /\ backlog' = backlog \cup {Head(eventPipe)} /\ schedPc' = "log"
    /\ UNCHANGED <<mainVars, state, ends, termed, logPipe, monitorVars, done, workerPc, auxVars>>

\* EXIT, or the end of the pipe when all that could write to it have closed it.
ReadExit ==
    /\ Running("transfer") /\ schedPc = "read"
    /\ IF eventPipe = <<>> THEN Open("eventW") = {} /\ UNCHANGED eventPipe
       ELSE ~IsTask(Head(eventPipe)) /\ eventPipe' = Tail(eventPipe)
    /\ schedPc' = "log exit"
    /\ UNCHANGED <<mainVars, state, ends, termed, logPipe, monitorVars, backlog, done,
                   workerPc, auxVars>>

SchedulerLogs ==
    /\ Running("transfer") /\ schedPc \in {"log", "log exit"}
    /\ Log("transfer", LINE)
    /\ schedPc' = IF schedPc = "log" THEN "read" ELSE "stopped"
    /\ UNCHANGED <<mainVars, state, ends, termed, eventPipe, monitorVars, backlog, done, workerPc>>

WorkerGoes(from, to) ==
    /\ Running("transfer") /\ workerPc = from
    /\ workerPc' = to
    /\ UNCHANGED <<mainVars, state, termed, eventPipe, monitorVars, schedPc>>

WorkerEndsTask ==
    /\ WorkerGoes("pop", "log")
    /\ \E t \in backlog : backlog' = backlog \ {t} /\ done' = done \cup {t}
    /\ UNCHANGED <<ends, logPipe, auxVars>>

PopDrained ==
    /\ WorkerGoes("pop", "log exit")
    /\ backlog = {} /\ schedPc = "stopped"
    /\ UNCHANGED <<ends, logPipe, backlog, done, auxVars>>

\* What the task ended with; then a worker that sees ctx->stop takes no other.
WorkerLogs ==
    /\ \/ WorkerGoes("log", IF schedPc = "stopped" THEN "log exit" ELSE "pop")
       \/ WorkerGoes("log exit", "gone")
    /\ Log("transfer", LINE)
    /\ UNCHANGED <<ends, backlog, done>>

\* All threads are joined; what is still queued is freed.
TransferExits ==
    /\ Running("transfer") /\ schedPc = "stopped" /\ workerPc = "gone"
    /\ Log("transfer", LINE)
    /\ Ended({"transfer"})
    /\ UNCHANGED <<mainVars, termed, eventPipe, monitorVars, transferVars>>

\* logger_process ends with LOG_EXIT or the end of its pipe.
LoggerReads ==
    /\ Running("logger") /\ logPipe # <<>>
    /\ logPipe' = Tail(logPipe)
    /\ IF Head(logPipe) = EXIT THEN Ended({"logger"}) ELSE UNCHANGED <<state, ends>>
    /\ UNCHANGED <<mainVars, termed, eventPipe, monitorVars, transferVars, auxVars>>

LoggerAtEnd ==
    /\ Running("logger") /\ logPipe = <<>> /\ Open("logW") = {}
    /\ Ended({"logger"})
    /\ UNCHANGED <<mainVars, termed, eventPipe, logPipe, monitorVars, transferVars, auxVars>>

\* SIGTERM meets handle_signal, which only sets the child's copy of g_stop.
SwallowsTerm(c) ==
    /\ c \in termed /\ state[c] \in {"forked", "int"}
    /\ termed' = termed \ {c}
    /\ swallowed' = swallowed \cup {c}
    /\ UNCHANGED <<mainVars, state, ends, eventPipe, logPipe, monitorVars, transferVars, killed,
                   promised, lost>>

\* SIGTERM does its default.
DiesOfTerm(c) ==
    /\ c \in termed /\ state[c] \in {"term", "running"}
    /\ Ended({c})
    /\ UNCHANGED <<mainVars, termed, eventPipe, logPipe, monitorVars, transferVars, auxVars>>

TakesTerm(c) == SwallowsTerm(c) \/ DiesOfTerm(c)
Monitor == MonitorSends \/ MonitorLogs
Scheduler == ReadTask \/ ReadExit \/ SchedulerLogs \/ TransferExits
Worker == WorkerEndsTask \/ PopDrained \/ WorkerLogs
Logger == LoggerReads \/ LoggerAtEnd

-----------------------------------------------------------------------------
(* What comes from outside *)

MainAlive == mainPc \notin {"ended", "failed", "killed"}

\* SIGTERM to main alone
Terminate ==
    /\ MainAlive /\ ~stop /\ stop' = TRUE
    /\ UNCHANGED <<mainPc, state, ends, termed, eventPipe, logPipe, monitorVars, transferVars, auxVars>>

\* Ctrl-C: main has its handler, and so has a child that was just forked.
Interrupt ==
    /\ MainAlive
    /\ LET hit == {c \in Children : DiesOfInt(c)} IN
         killed' = killed \cup hit /\ Ended(hit)
    /\ stop' = TRUE
    /\ UNCHANGED <<mainPc, termed, eventPipe, logPipe, monitorVars, transferVars, swallowed, promised,
                   lost>>

\* A child crashes or is killed; so does the monitor when inotify fails.
ChildKilled(c) ==
    /\ Alive(c)
    /\ killed' = killed \cup {c} /\ Ended({c})
    /\ UNCHANGED <<mainVars, termed, eventPipe, logPipe, monitorVars, transferVars, swallowed, promised,
                   lost>>

MainKilled ==
    /\ MainAlive /\ mainPc' = "killed"
    /\ killed' = killed \cup {"main"} /\ Ended({"main"})
    /\ UNCHANGED <<stop, termed, eventPipe, logPipe, monitorVars, transferVars, swallowed, promised,
                   lost>>

Outside ==
    \/ Terminate \/ Interrupt \/ MainKilled
    \/ \E c \in Children : ChildKilled(c) \/ ForkFails(c)

-----------------------------------------------------------------------------
Init ==
    /\ mainPc = "start" /\ stop = FALSE
    /\ state = [c \in Children |-> "none"]
    /\ ends = [q \in Processes |-> IF q = "main" THEN PipeEnds ELSE {}]
    /\ termed = {} /\ eventPipe = <<>> /\ logPipe = <<>>
    /\ monitorLogs = FALSE /\ emitted = 0
    /\ schedPc = "read" /\ backlog = {} /\ done = {} /\ workerPc = "pop"
    /\ killed = {} /\ swallowed = {} /\ promised = Tasks /\ lost = {}

Next ==
    \/ Main \/ Monitor \/ Scheduler \/ Worker \/ Logger
    \/ \E c \in Children : SetsUp(c) \/ TakesTerm(c)
    \/ Outside

Spec == Init /\ [][Next]_vars

\* Main, each child as far as its own function, the logger and the threads of the
\* transfer process run, and a signal arrives; nothing is asked of monitor_process.
FairSpec ==
    /\ Spec
    /\ WF_vars(Main) /\ WF_vars(Logger) /\ WF_vars(Scheduler) /\ WF_vars(Worker)
    /\ \A c \in Children : WF_vars(SetsUp(c)) /\ WF_vars(TakesTerm(c))

-----------------------------------------------------------------------------
(* Properties *)

TypeOK ==
    /\ stop \in BOOLEAN /\ monitorLogs \in BOOLEAN
    /\ workerPc \in {"pop", "log", "log exit", "gone"}
    /\ state \in [Children -> States]
    /\ ends \in [Processes -> SUBSET PipeEnds]
    /\ termed \cup swallowed \subseteq Children /\ killed \subseteq Processes /\ lost \subseteq Processes
    /\ Len(eventPipe) <= EventCap /\ Len(logPipe) <= LogCap
    /\ emitted \in 0 .. MaxTasks
    /\ backlog \cup done \subseteq 1 .. emitted /\ backlog \cap done = {}
    /\ promised \subseteq Tasks

Over(c) == state[c] \in {"ended", "reaped"}

\* An orderly end leaves no task behind in the event pipe (client_main.c:235-241):
\* the transfer process reads all that is in front of EXIT, and without EXIT all
\* that there is, unless someone else makes it end.  It does not do all of them:
\* what is queued when ctx->stop is seen is left (transfer.c:145, 172).
PromisedIsRead ==
    Over("transfer") /\ "transfer" \notin killed => promised \cap 1 .. emitted \subseteq backlog \cup done

\* No process writes a record that the logger does not read (client_main.c:239-246,
\* logger.c:51-72): its LOG_EXIT is the last one, whichever way the others end.
LogComplete ==
    "logger" \notin killed =>
        /\ lost = {}
        /\ Over("logger") => logPipe = <<>>

\* main waits for a monitor that took SIGTERM for its own g_stop, which it never reads.
SignalLost == mainPc = "wait monitor" /\ Alive("monitor") /\ "monitor" \in swallowed

\* A signal, or the end of the monitor or of the transfer process, ends them all,
\* and main reaps them (client_main.c:226-246), whatever waits in full pipes; unless
\* main came to kill (client_main.c:237) before the monitor had SIGTERM's default back
\* (client_main.c:201), and waits in vain.
EndsTogether ==
    (stop \/ Over("monitor") \/ Over("transfer")) ~>
        \/ ~MainAlive /\ (mainPc = "ended" => \A c \in Children : state[c] = "reaped")
        \/ SignalLost

\* Without main, the end of the monitor ends the rest: no process keeps an end of a
\* pipe open that is not its own (client_main.c:185-221).
OrphansEnd ==
    (mainPc \in {"failed", "killed"} /\ ~Alive("monitor")) ~>
        (\A c \in Children : ~Alive(c))
=============================================================================

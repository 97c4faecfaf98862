----------------------------- MODULE RemoteSync -----------------------------
(***************************************************************************)
(* src/transfer.c, sync_task_remote: the workers of a client against the   *)
(* server, while the user goes on changing the source tree.                *)
(*                                                                         *)
(* A worker synchronises one task over one connection, two when a rename   *)
(* falls back to an upload, and tries again up to MaxRetry times with the  *)
(* task as it was recorded.  Which tasks there are, and in which order,    *)
(* is Transfer's matter: here a worker may take any, stale ones included.  *)
(* The user's changes are atomic, but fall anywhere between two steps of   *)
(* an upload, between two blocks that are hashed or sent as well; a file   *)
(* removed while it is open stays readable.                                *)
(***************************************************************************)
EXTENDS Server

CONSTANTS
    Workers,      \* worker threads of the client
    NoTask,       \* no task
    NotOpen,      \* held, hashFd: no file is open
    AtPath,       \* held, hashFd: the file is still the one at its path
    Threshold,    \* hash_threshold, in blocks
    MaxRetry,     \* MAX_RETRY_COUNT
    Kinds,        \* BOUND: the types of task that are taken
    UserFiles,    \* BOUND: what the user writes
    UserRemoves,  \* BOUND: whether the user also removes files
    MaxWrites,    \* BOUND: changes made by the user
    MaxTasks      \* BOUND: tasks taken

VARIABLES
    source,       \* src_root/<path>
    writes,       \* AUXILIARY: changes made by the user
    taken,        \* AUXILIARY: tasks taken
    made,         \* connections made
    task,         \* the SyncTask of each worker
    tries,        \* its retry_count
    cliPc,        \* where each worker is
    conn,         \* its connection, 0 when it has none
    sum,          \* total_hash, of the blocks read so far while it is taken
    hashFd,       \* fd of hash_file_fnv1a
    torn,         \* AUXILIARY: hashes that no longer were those of their file
    held,         \* the file it sends: a copy once the user removed it
    pos           \* pos, the offset of its next block

userVars == <<source, writes>>
sumVars == <<sum, hashFd, torn>>
cliVars == <<taken, made, task, tries, cliPc, conn, sumVars, held, pos>>
vars == <<serverVars, userVars, cliVars>>

Tasks ==
    [type : {"UPDATE", "DELETE"}, path : Paths, old : {NoPath}, size : 0 .. MaxBlocks,
     dir : BOOLEAN]
      \cup [type : {"RENAME"}, path : Paths, old : Paths, size : 0 .. MaxBlocks,
            dir : BOOLEAN]

ASSUME RemoteAssumption ==
    /\ Threshold \in Nat /\ MaxRetry \in Nat /\ MaxWrites \in Nat /\ MaxTasks \in Nat
    /\ Kinds \subseteq {"UPDATE", "DELETE", "RENAME"}
    /\ UserFiles \subseteq UNION {[1 .. n -> Blocks] : n \in 0 .. MaxBlocks}
    /\ UserRemoves \in BOOLEAN
    /\ NoTask \notin Tasks
    /\ NotOpen # AtPath /\ {NotOpen, AtPath} \cap (UserFiles \cup {Dir}) = {}

\* start: in sync_task_remote; rename: waiting for the answer to RENAME; upload:
\* past it; connect: is_regular_file was true; small hash, begin, read: in the upload
\* of a small file; offset, large hash, blocks: of a large one; ack: in wait_for_ack;
\* done: sync_task_remote returned 0.
ClientLabels == {"idle", "start", "rename", "upload", "connect", "small hash", "begin",
                 "read", "offset", "large hash", "blocks", "ack", "done"}
HashLabels == {"small hash", "large hash"}

TypeOK ==
    /\ ServerTypeOK
    /\ source \in [Paths -> UserFiles \cup {Absent, Dir}]
    /\ writes \in 0 .. MaxWrites /\ taken \in 0 .. MaxTasks /\ made \in 0 .. MaxConns
    /\ task \in [Workers -> Tasks \cup {NoTask}]
    /\ \A w \in Workers : task[w] = NoTask <=> cliPc[w] = "idle"
    /\ tries \in [Workers -> 0 .. MaxRetry]
    /\ cliPc \in [Workers -> ClientLabels]
    /\ conn \in [Workers -> 0 .. made]
    /\ \A w \in Workers :
         cliPc[w] \in HashLabels \cup {"rename", "begin", "read", "offset", "blocks", "ack"} =>
             conn[w] # 0 /\ link[conn[w]] \in {"open", "cut"}
    /\ \A k \in Conns : link[k] = "none" <=> k > made
    /\ sum \in [Workers -> Hashes]
    /\ torn \subseteq Files
    /\ hashFd \in [Workers -> UserFiles \cup {NotOpen, AtPath, Dir}]
    /\ held \in [Workers -> UserFiles \cup {NotOpen, AtPath, Dir}]
    /\ pos \in [Workers -> 0 .. MaxBlocks]

Init ==
    /\ ServerInit
    /\ source \in [Paths -> UserFiles \cup {Absent, Dir}]
    /\ writes = 0 /\ taken = 0 /\ made = 0
    /\ task = [w \in Workers |-> NoTask]
    /\ tries = [w \in Workers |-> 0]
    /\ cliPc = [w \in Workers |-> "idle"]
    /\ conn = [w \in Workers |-> 0]
    /\ sum = [w \in Workers |-> NoHash]
    /\ hashFd = [w \in Workers |-> NotOpen]
    /\ torn = {}
    /\ held = [w \in Workers |-> NotOpen]
    /\ pos = [w \in Workers |-> 0]

-----------------------------------------------------------------------------
(* The user *)

MayChange == writes < MaxWrites /\ writes' = writes + 1

UserWrite(p, x) ==
    /\ MayChange /\ source[p] # Dir /\ source[p] # x
    /\ source' = [source EXCEPT ![p] = x]
    /\ UNCHANGED <<serverVars, cliVars>>

\* A file that a worker has open is no longer at its path p.
Unlinked(fds, p) ==
    [w \in Workers |->
       IF fds[w] = AtPath /\ task[w].path = p THEN source[p] ELSE fds[w]]

UserRemove(p) ==
    /\ MayChange /\ UserRemoves /\ source[p] # Absent
    /\ source' = [source EXCEPT ![p] = Absent]
    /\ held' = Unlinked(held, p)
    /\ hashFd' = Unlinked(hashFd, p)
    /\ UNCHANGED <<serverVars, taken, made, task, tries, cliPc, conn, sum, torn, pos>>

UserMakeDir(p) ==
    /\ MayChange /\ UserRemoves /\ source[p] = Absent
    /\ source' = [source EXCEPT ![p] = Dir]
    /\ UNCHANGED <<serverVars, cliVars>>

-----------------------------------------------------------------------------
(* A worker *)

At(w, l) == cliPc[w] = l
GoTo(w, l) == cliPc' = [cliPc EXCEPT ![w] = l]
Path(w) == task[w].path

\* What read(2) sees through a descriptor.
Through(fds, w) == IF fds[w] = AtPath THEN source[Path(w)] ELSE fds[w]
Held(w) == Through(held, w)

\* close(fd), of the socket and of the file.
Closed(w) ==
    IF conn[w] # 0 /\ link[conn[w]] = "open"
    THEN [link EXCEPT ![conn[w]] = "closed"] ELSE link

\* A worker takes a task that was recorded now: of a file or directory that is
\* there, or that was there when the event was queued.
Take(w, t) ==
    /\ At(w, "idle") /\ taken < MaxTasks
    /\ t.type \in Kinds
    /\ t.type = "UPDATE" => source[t.path] # Absent
    /\ t.type = "DELETE" => t.size = 0 /\ ~t.dir
    /\ t.type # "DELETE" => /\ t.size = SizeOf(source[t.path])
                            /\ t.dir <=> source[t.path] = Dir
    /\ t.type = "RENAME" => t.old # t.path
    /\ taken' = taken + 1
    /\ task' = [task EXCEPT ![w] = t]
    /\ GoTo(w, "start")
    /\ UNCHANGED <<serverVars, userVars, made, tries, conn, sumVars, held, pos>>

\* The attempt returns -1: the task is pushed again, or given up.
Fail(w) ==
    /\ IF tries[w] < MaxRetry
       THEN /\ tries' = [tries EXCEPT ![w] = @ + 1]
            /\ GoTo(w, "start") /\ UNCHANGED task
       ELSE /\ tries' = [tries EXCEPT ![w] = 0]
            /\ GoTo(w, "idle") /\ task' = [task EXCEPT ![w] = NoTask]
    /\ link' = Closed(w)
    /\ conn' = [conn EXCEPT ![w] = 0]
    /\ sum' = [sum EXCEPT ![w] = NoHash]
    /\ held' = [held EXCEPT ![w] = NotOpen]
    /\ pos' = [pos EXCEPT ![w] = 0]
    /\ UNCHANGED <<hashFd, torn>>

\* It returns 0.
Succeed(w) ==
    /\ GoTo(w, "done")
    /\ link' = Closed(w)
    /\ held' = [held EXCEPT ![w] = NotOpen]
    /\ pos' = [pos EXCEPT ![w] = 0]
    /\ UNCHANGED <<tries, task, conn, sumVars>>

\* connect and send the first message, if any; the server has a thread for it.
Connect(w, ms) ==
    /\ made < MaxConns /\ made' = made + 1
    /\ conn' = [conn EXCEPT ![w] = made']
    /\ up' = [up EXCEPT ![made'] = ms]
    /\ link' = [link EXCEPT ![made'] = "open"]
    /\ srvPc' = [srvPc EXCEPT ![made'] = "recv"]
    /\ UNCHANGED <<down, req, last, mutex, treeVars, faults, userVars, taken, task, tries,
                   sumVars, held, pos>>

\* What a broken or closed connection does not take any more is lost, and the
\* worker finds out when it waits for the answer.
Send(w, ms) ==
    up' = IF link[conn[w]] = "open" /\ srvPc[conn[w]] # "gone"
          THEN [up EXCEPT ![conn[w]] = @ \o ms] ELSE up

\* Nothing more will arrive.
Broken(w) ==
    /\ down[conn[w]] = <<>>
    /\ link[conn[w]] = "cut" \/ srvPc[conn[w]] = "gone"
Answer(w) == Head(down[conn[w]])
Answered(w) == down[conn[w]] # <<>>
TakeAnswer(w) == down' = [down EXCEPT ![conn[w]] = Tail(@)]

ServerRest == <<threadVars, treeVars, faults>>

SendDelete(w) ==
    /\ At(w, "start") /\ task[w].type = "DELETE"
    /\ Connect(w, <<[type |-> "DELETE", path |-> Path(w)]>>)
    /\ GoTo(w, "ack")

SendRename(w) ==
    /\ At(w, "start") /\ task[w].type = "RENAME"
    /\ Connect(w, <<[type |-> "RENAME", path |-> Path(w), old |-> task[w].old]>>)
    /\ GoTo(w, "rename")

\* "remote rename fallback sync": the new path is uploaded instead.
RenameFails(w) ==
    /\ \/ At(w, "start") /\ task[w].type = "RENAME" /\ UNCHANGED <<down, link>>
       \/ /\ At(w, "rename") /\ Answered(w) /\ Answer(w).type = "ERROR"
          /\ TakeAnswer(w) /\ link' = Closed(w)
       \/ At(w, "rename") /\ Broken(w) /\ UNCHANGED down /\ link' = Closed(w)
    /\ GoTo(w, "upload")
    /\ conn' = [conn EXCEPT ![w] = 0]
    /\ UNCHANGED <<up, ServerRest, userVars, taken, made, task, tries, sumVars, held, pos>>

Uploads(w) == At(w, "upload") \/ (At(w, "start") /\ task[w].type = "UPDATE")

SendDirCreate(w) ==
    /\ Uploads(w) /\ task[w].dir
    /\ Connect(w, <<[type |-> "BEGIN", path |-> Path(w), dir |-> TRUE, hash |-> NoHash]>>)
    /\ GoTo(w, "ack")

\* "source disappeared" is a success; otherwise the upload goes on.
Upload(w) ==
    /\ Uploads(w) /\ ~task[w].dir
    /\ IF IsFile(source[Path(w)])
       THEN GoTo(w, "connect") /\ UNCHANGED <<link, task, tries, conn, sumVars, held, pos>>
       ELSE Succeed(w)
    /\ UNCHANGED <<up, down, ServerRest, userVars, taken, made>>

\* connect fails, or another process has the file locked.
ConnectFails(w) ==
    /\ \/ At(w, "start") /\ task[w].type = "DELETE"
       \/ Uploads(w) /\ (task[w].dir \/ IsFile(source[Path(w)]))
       \/ At(w, "connect")
    /\ Fail(w)
    /\ UNCHANGED <<up, down, ServerRest, userVars, taken, made>>

SmallConnect(w) ==
    /\ At(w, "connect") /\ task[w].size <= Threshold
    /\ Connect(w, <<>>)
    /\ GoTo(w, "small hash")

\* hash_file_fnv1a returns: 0 if it could not read all of the file.
HashIs(w, x) ==
    /\ sum' = [sum EXCEPT ![w] = x]
    /\ hashFd' = [hashFd EXCEPT ![w] = NotOpen]
    /\ GoTo(w, IF At(w, "small hash") THEN "begin" ELSE "blocks")
    /\ UNCHANGED <<serverVars, userVars, taken, made, task, tries, conn, held, pos>>

Hashing(w) == cliPc[w] \in HashLabels /\ hashFd[w] # NotOpen

\* It opens the path, which for a large file is open already.
HashOpen(w) ==
    /\ cliPc[w] \in HashLabels /\ hashFd[w] = NotOpen /\ source[Path(w)] # Absent
    /\ hashFd' = [hashFd EXCEPT ![w] = AtPath]
    /\ sum' = [sum EXCEPT ![w] = <<>>]
    /\ UNCHANGED <<serverVars, userVars, taken, made, task, tries, cliPc, conn, torn, held, pos>>

\* The path is gone, or a directory by now.
HashFails(w) ==
    /\ \/ cliPc[w] \in HashLabels /\ hashFd[w] = NotOpen /\ source[Path(w)] = Absent
       \/ Hashing(w) /\ ~IsFile(Through(hashFd, w))
    /\ HashIs(w, NoHash) /\ UNCHANGED torn

HashBlock(w) == LET x == Through(hashFd, w) IN
    /\ Hashing(w) /\ IsFile(x) /\ Len(sum[w]) < Len(x)
    /\ sum' = [sum EXCEPT ![w] = Append(@, x[Len(@) + 1])]
    /\ UNCHANGED <<serverVars, userVars, taken, made, task, tries, cliPc, conn, hashFd, torn,
                   held, pos>>

HashEnd(w) == LET x == Through(hashFd, w) IN
    /\ Hashing(w) /\ IsFile(x) /\ Len(sum[w]) >= Len(x)
    /\ HashIs(w, sum[w])
    /\ torn' = torn \cup ({sum[w]} \ {x})

SmallBegin(w) ==
    /\ At(w, "begin")
    /\ Send(w, <<[type |-> "BEGIN", path |-> Path(w), dir |-> FALSE, hash |-> sum[w]]>>)
    /\ GoTo(w, "read")
    /\ UNCHANGED <<down, link, ServerRest, userVars, taken, made, task, tries, conn, sumVars,
                   held, pos>>

\* It reads as many bytes as the task says, sends them as one block, and END.
SmallRead(w) ==
    /\ At(w, "read")
    /\ source[Path(w)] # Absent /\ SizeOf(source[Path(w)]) >= task[w].size
    /\ Send(w, (IF task[w].size = 0 THEN <<>>
                ELSE <<[type |-> "BLOCK", offset |-> 0, hash |-> sum[w],
                        data |-> SubSeq(source[Path(w)], 1, task[w].size)]>>)
               \o <<[type |-> "END", hash |-> sum[w]]>>)
    /\ GoTo(w, "ack")
    /\ UNCHANGED <<down, link, ServerRest, userVars, taken, made, task, tries, conn, sumVars,
                   held, pos>>

\* The file is gone or too short by now.
SmallReadFails(w) ==
    /\ At(w, "read")
    /\ \/ source[Path(w)] = Absent
       \/ SizeOf(source[Path(w)]) < task[w].size
    /\ Fail(w)
    /\ UNCHANGED <<up, down, ServerRest, userVars, taken, made>>

LargeQuery(w) ==
    /\ At(w, "connect") /\ task[w].size > Threshold
    /\ Connect(w, <<[type |-> "QUERY", path |-> Path(w)]>>)
    /\ GoTo(w, "offset")

\* The offset arrives and the file is opened.
LargeOpen(w) ==
    /\ At(w, "offset") /\ Answered(w) /\ Answer(w).type = "OFFSET"
    /\ source[Path(w)] # Absent
    /\ TakeAnswer(w)
    /\ pos' = [pos EXCEPT ![w] = Answer(w).offset]
    /\ held' = [held EXCEPT ![w] = AtPath]
    /\ GoTo(w, "large hash")
    /\ UNCHANGED <<up, link, ServerRest, userVars, taken, made, task, tries, conn, sumVars>>

LargeOpenFails(w) ==
    /\ At(w, "offset")
    /\ \/ Broken(w)
       \/ Answered(w) /\ (Answer(w).type # "OFFSET" \/ source[Path(w)] = Absent)
    /\ Fail(w)
    /\ UNCHANGED <<up, down, ServerRest, userVars, taken, made>>

LargeBlock(w) ==
    /\ At(w, "blocks") /\ pos[w] < SizeOf(Held(w))
    /\ Send(w, <<[type |-> "BLOCK", offset |-> pos[w], hash |-> sum[w],
                  data |-> <<Held(w)[pos[w] + 1]>>]>>)
    /\ pos' = [pos EXCEPT ![w] = @ + 1]
    /\ UNCHANGED <<down, link, ServerRest, userVars, taken, made, task, tries, cliPc,
                   conn, sumVars, held>>

LargeEnd(w) ==
    /\ At(w, "blocks") /\ IsFile(Held(w)) /\ pos[w] >= Len(Held(w))
    /\ Send(w, <<[type |-> "END", hash |-> sum[w]]>>)
    /\ held' = [held EXCEPT ![w] = NotOpen]
    /\ pos' = [pos EXCEPT ![w] = 0]
    /\ GoTo(w, "ack")
    /\ UNCHANGED <<down, link, ServerRest, userVars, taken, made, task, tries, conn, sumVars>>

\* What was opened is a directory by now.
LargeReadFails(w) ==
    /\ At(w, "blocks") /\ ~IsFile(Held(w))
    /\ Fail(w)
    /\ UNCHANGED <<up, down, ServerRest, userVars, taken, made>>

\* wait_for_ack takes an offset for an acknowledgement, too.
Acknowledged(w) ==
    /\ At(w, "ack") \/ At(w, "rename")
    /\ Answered(w) /\ Answer(w).type \in {"ACK", "OFFSET"}
    /\ TakeAnswer(w)
    /\ Succeed(w)
    /\ UNCHANGED <<up, ServerRest, userVars, taken, made>>

NotAcknowledged(w) ==
    /\ At(w, "ack")
    /\ \/ Broken(w) /\ UNCHANGED down
       \/ Answered(w) /\ Answer(w).type = "ERROR" /\ TakeAnswer(w)
    /\ Fail(w)
    /\ UNCHANGED <<up, ServerRest, userVars, taken, made>>

\* The worker goes on to its next task.
Return(w) ==
    /\ At(w, "done")
    /\ GoTo(w, "idle")
    /\ task' = [task EXCEPT ![w] = NoTask]
    /\ tries' = [tries EXCEPT ![w] = 0]
    /\ conn' = [conn EXCEPT ![w] = 0]
    /\ sum' = [sum EXCEPT ![w] = NoHash]
    /\ UNCHANGED <<serverVars, userVars, taken, made, hashFd, torn, held, pos>>

Worker(w) ==
    \/ SendDelete(w) \/ SendRename(w) \/ RenameFails(w) \/ SendDirCreate(w)
    \/ Upload(w) \/ ConnectFails(w)
    \/ HashOpen(w) \/ HashBlock(w) \/ HashEnd(w) \/ HashFails(w)
    \/ SmallConnect(w) \/ SmallBegin(w) \/ SmallRead(w) \/ SmallReadFails(w)
    \/ LargeQuery(w) \/ LargeOpen(w) \/ LargeOpenFails(w)
    \/ LargeBlock(w) \/ LargeEnd(w) \/ LargeReadFails(w)
    \/ Acknowledged(w) \/ NotAcknowledged(w) \/ Return(w)

User ==
    \E p \in Paths :
        UserRemove(p) \/ UserMakeDir(p) \/ \E x \in UserFiles : UserWrite(p, x)

Next ==
    \/ ServerNext /\ UNCHANGED <<userVars, cliVars>>
    \/ User
    \/ \E w \in Workers : Worker(w) \/ \E t \in Tasks : Take(w, t)

Spec == Init /\ [][Next]_vars

\* Every thread gets to run and every connection either delivers or breaks.  A
\* thread that waits for the mutex gets it: each holder is served, and there
\* are finitely many of them.
FairSpec ==
    /\ Spec
    /\ \A k \in Conns : SF_vars(ServerThread(k) /\ UNCHANGED <<userVars, cliVars>>)
    /\ \A w \in Workers : WF_vars(Worker(w))

-----------------------------------------------------------------------------
(* Properties *)

\* When sync_task_remote returns 0 after an answer, the server did what was
\* asked on that connection, and an upload whose file could be hashed put
\* exactly the file that was hashed into current/.
SuccessMeansApplied ==
    \A w \in Workers : cliPc[w] = "done" /\ conn[w] # 0 =>
        /\ applied[conn[w]] # NoEffect
        /\ sum[w] # NoHash => applied[conn[w]] = sum[w]

\* Whatever other uploads left in a temporary file, and however the source changes
\* while it is sent, a file in current/ is one that the user had.  It is a part of one
\* or a mixture only where the hash that the server compares with is no protection:
\* taken block by block (hash.c:27-57), it was itself that of a mixture, because the
\* file changed before the last block was read; or it is 0, "nothing to compare"
\* (server.c:143), because the file could not be read.
CurrentIsWhole ==
    \A p \in Paths :
        IsFile(current[p]) => current[p] \in UserFiles \cup torn \cup unhashed

\* Every attempt comes to its end: no worker waits for ever for the mutex that
\* the threads of other connections hold, or for an answer.
EveryTaskEnds ==
    \A w \in Workers : cliPc[w] # "idle" ~> cliPc[w] = "idle"
=============================================================================

------------------------------- MODULE Server -------------------------------
(***************************************************************************)
(* src/server.c: one thread per connection over the backup tree, every     *)
(* change of the tree under server_file_mutex, which a thread that         *)
(* receives a file keeps until the client has sent all of it.              *)
(*                                                                         *)
(* Files are those of FileData.  TCP delivers in order and without         *)
(* corruption what it delivers, so the hash of each block always matches   *)
(* and is left out; a connection may lose what is under way when it        *)
(* breaks.  Paths are flat: no path is below another.                      *)
(*                                                                         *)
(* The module has the actions of the server; RemoteSync adds the clients.  *)
(***************************************************************************)
EXTENDS FileData, FiniteSets

CONSTANTS
    MaxConns,       \* BOUND: connections ever made, each with a number
    Paths, NoPath,  \* rel_path values, and the empty string
    NoMsg,          \* no request
    NoEffect,       \* a connection that changed nothing
    MaxFaults       \* BOUND: breaks, crashes and failing disk operations

VARIABLES
    up, down,      \* bytes under way to the server, to the client
    link,          \* what became of each connection
    srvPc,         \* where the thread of each connection is
    req,           \* the header it is handling
    last,          \* its last_rel_path
    mutex,         \* the connection whose thread has server_file_mutex, or 0
    current, temp, \* current/<path> and current/<path>.syncing
    versions, trash,  \* .versions and .trash of the current second
    archive,       \* AUXILIARY: what they had when earlier seconds ended
    applied,       \* AUXILIARY: what each connection changed its path to
    unhashed,      \* AUXILIARY: files that were stored with nothing to compare
    faults         \* AUXILIARY: faults so far

netVars == <<up, down, link>>
threadVars == <<srvPc, req, last, mutex>>
treeVars == <<current, temp, versions, trash, archive, applied, unhashed>>
serverVars == <<netVars, threadVars, treeVars, faults>>

Conns == 1 .. MaxConns

Requests ==
    [type : {"BEGIN"}, path : Paths, dir : BOOLEAN, hash : Hashes]
      \cup [type : {"QUERY", "DELETE"}, path : Paths]
      \cup [type : {"RENAME"}, path : Paths, old : Paths]
      \cup [type : {"BLOCK"}, offset : 0 .. MaxBlocks, data : Files, hash : Hashes]
      \cup [type : {"END"}, hash : Hashes]
Replies == [type : {"ACK", "ERROR"}] \cup [type : {"OFFSET"}, offset : 0 .. MaxBlocks]

ASSUME ServerAssumption ==
    /\ MaxConns \in Nat /\ MaxFaults \in Nat
    /\ NoPath \notin Paths /\ NoMsg \notin Requests
    /\ NoEffect \notin Files \cup {Absent, Dir}

\* A type is checked message by message: Requests is a large set.
IsRequest(m) ==
    \/ m.type = "BEGIN" /\ m.path \in Paths /\ m.dir \in BOOLEAN /\ m.hash \in Hashes
    \/ m.type \in {"QUERY", "DELETE"} /\ m.path \in Paths
    \/ m.type = "RENAME" /\ m.path \in Paths /\ m.old \in Paths
    \/ /\ m.type = "BLOCK" /\ m.offset \in 0 .. MaxBlocks
       /\ m.data \in Files /\ m.hash \in Hashes
    \/ m.type = "END" /\ m.hash \in Hashes

\* none: never made; open; closed: by the client; cut: broken
Links == {"none", "open", "closed", "cut"}

\* recv: in recv_header; lock: at pthread_mutex_lock; blocks: in
\* recv_file_blocks_until_end, with the mutex; gone: the thread has returned.
ThreadLabels == {"none", "recv", "lock", "blocks", "gone"}

ServerTypeOK ==
    /\ \A k \in Conns :
         /\ \A i \in DOMAIN up[k] : IsRequest(up[k][i])
         /\ \A i \in DOMAIN down[k] : down[k][i] \in Replies
         /\ req[k] # NoMsg => IsRequest(req[k])
         /\ req[k] # NoMsg <=> srvPc[k] \in {"lock", "blocks"}
    /\ link \in [Conns -> Links]
    /\ srvPc \in [Conns -> ThreadLabels]
    /\ last \in [Conns -> Paths \cup {NoPath}]
    /\ mutex \in Conns \cup {0}
    /\ \A k \in Conns : srvPc[k] = "blocks" <=> mutex = k
    /\ current \in [Paths -> Files \cup {Absent, Dir}]
    /\ temp \in [Paths -> Files \cup {Absent}]
    /\ versions \in [Paths -> Files \cup {Absent, Dir}]
    /\ trash \in [Paths -> Files \cup {Absent, Dir}]
    /\ archive \in [Paths -> SUBSET Files]
    /\ applied \in [Conns -> Files \cup {Absent, Dir, NoEffect}]
    /\ unhashed \subseteq Files
    /\ faults \in 0 .. MaxFaults

ServerInit ==
    /\ up = [k \in Conns |-> <<>>] /\ down = [k \in Conns |-> <<>>]
    /\ link = [k \in Conns |-> "none"]
    /\ srvPc = [k \in Conns |-> "none"]
    /\ req = [k \in Conns |-> NoMsg]
    /\ last = [k \in Conns |-> NoPath]
    /\ mutex = 0
    /\ current = [p \in Paths |-> Absent] /\ temp = [p \in Paths |-> Absent]
    /\ versions = [p \in Paths |-> Absent] /\ trash = [p \in Paths |-> Absent]
    /\ archive = [p \in Paths |-> {}]
    /\ applied = [k \in Conns |-> NoEffect]
    /\ unhashed = {}
    /\ faults = 0

-----------------------------------------------------------------------------
(* The backup tree *)

\* backup_old_version fails for a file whose version of this second is a
\* directory; ensure_dir_exists succeeds over a file and leaves it.
CanBackup(p) == IsFile(current[p]) => versions[p] # Dir
BackedUp(p) ==
    CASE IsFile(current[p]) -> [versions EXCEPT ![p] = current[p]]
      [] current[p] = Dir /\ versions[p] = Absent -> [versions EXCEPT ![p] = Dir]
      [] OTHER -> versions

SizeOf(x) == IF IsFile(x) THEN Len(x) ELSE 0

\* pwrite into the temporary file, which open(2) creates.
Written(x, offset, data) ==
    WrittenInto(IF x = Absent THEN <<>> ELSE x, offset, data)

\* A disk operation fails, at the cost of one fault.
DiskFails == faults < MaxFaults /\ faults' = faults + 1
DiskWorks == UNCHANGED faults

\* make_timestamp_dirname has another value from now on.
FilesIn(x) == {x} \ {Absent, Dir}
NewSecond ==
    /\ archive' = [p \in Paths |-> archive[p] \cup FilesIn(versions[p])
                                               \cup FilesIn(trash[p])]
    /\ versions' = [p \in Paths |-> Absent]
    /\ trash' = [p \in Paths |-> Absent]
    /\ UNCHANGED <<netVars, threadVars, current, temp, applied, unhashed, faults>>

-----------------------------------------------------------------------------
(* One connection *)

Arrives(k, type) == up[k] # <<>> /\ Head(up[k]).type = type
EndOfStream(k) == up[k] = <<>> /\ link[k] \in {"closed", "cut"}

Sent(k, r) == IF link[k] = "open" THEN [down EXCEPT ![k] = Append(@, r)] ELSE down
Ack == [type |-> "ACK"]
Error == [type |-> "ERROR"]

Receive(k) == up' = [up EXCEPT ![k] = Tail(@)]

\* The handler replies and returns, and the thread closes the connection.
Leave(k, reply) ==
    /\ down' = IF reply = NoMsg THEN down ELSE Sent(k, reply)
    /\ up' = [up EXCEPT ![k] = <<>>]
    /\ srvPc' = [srvPc EXCEPT ![k] = "gone"]
    /\ req' = [req EXCEPT ![k] = NoMsg]
    /\ last' = [last EXCEPT ![k] = NoPath]
    /\ UNCHANGED link

\* A request that needs the mutex: its handler gets to pthread_mutex_lock.
RecvRequest(k) ==
    /\ srvPc[k] = "recv" /\ up[k] # <<>>
    /\ LET m == Head(up[k]) IN
         /\ \/ m.type \in {"BEGIN", "DELETE", "RENAME"}
            \/ m.type = "BLOCK" /\ last[k] # NoPath
         /\ last' = IF m.type = "BEGIN" THEN [last EXCEPT ![k] = m.path] ELSE last
         /\ req' = [req EXCEPT ![k] = m]
    /\ Receive(k)
    /\ srvPc' = [srvPc EXCEPT ![k] = "lock"]
    /\ UNCHANGED <<down, link, mutex, treeVars, faults>>

\* server_handle_query_offset takes no mutex, and the loop goes on.
RecvQuery(k) ==
    /\ srvPc[k] = "recv" /\ Arrives(k, "QUERY")
    /\ LET p == Head(up[k]).path IN
         /\ last' = [last EXCEPT ![k] = p]
         /\ down' = Sent(k, [type |-> "OFFSET", offset |-> SizeOf(temp[p])])
    /\ Receive(k)
    /\ UNCHANGED <<link, srvPc, req, mutex, treeVars, faults>>

\* "unknown message type", or a block with no path before it.
RecvUnknown(k) ==
    /\ srvPc[k] = "recv" /\ up[k] # <<>>
    /\ Head(up[k]).type \in {"END"} \cup (IF last[k] = NoPath THEN {"BLOCK"} ELSE {})
    /\ Leave(k, Error)
    /\ UNCHANGED <<mutex, treeVars, faults>>

RecvEof(k) ==
    /\ srvPc[k] = "recv" /\ EndOfStream(k)
    /\ Leave(k, NoMsg)
    /\ UNCHANGED <<mutex, treeVars, faults>>

-----------------------------------------------------------------------------
(* Requests that the mutex makes one step: directory, delete, rename *)

Handles(k, type) == srvPc[k] = "lock" /\ mutex = 0 /\ req[k].type = type

\* ensure_dir_exists succeeds over a file, too, and leaves it.
MakeDir(k) ==
    /\ Handles(k, "BEGIN") /\ req[k].dir
    /\ LET p == req[k].path IN
         \/ /\ DiskWorks
            /\ current' = [current EXCEPT ![p] = IF @ = Absent THEN Dir ELSE @]
            /\ applied' = [applied EXCEPT ![k] = current'[p]]
            /\ Leave(k, Ack)
         \/ DiskFails /\ Leave(k, Error) /\ UNCHANGED <<current, applied>>
    /\ UNCHANGED <<mutex, temp, versions, trash, archive, unhashed>>

\* move_to_trash; nothing to delete is a success.
Delete(k) ==
    /\ Handles(k, "DELETE")
    /\ LET p == req[k].path IN
         \/ /\ current[p] = Absent \/ CanRename(current[p], trash[p])
            /\ DiskWorks
            /\ trash' = IF current[p] = Absent THEN trash
                        ELSE [trash EXCEPT ![p] = current[p]]
            /\ current' = [current EXCEPT ![p] = Absent]
            /\ applied' = [applied EXCEPT ![k] = Absent]
            /\ Leave(k, Ack)
         \/ /\ current[p] # Absent
            /\ \/ ~CanRename(current[p], trash[p]) /\ DiskWorks
               \/ DiskFails
            /\ Leave(k, Error)
            /\ UNCHANGED <<current, trash, applied>>
    /\ UNCHANGED <<mutex, temp, versions, archive, unhashed>>

\* server_handle_file_rename: no backup of what new_path has.
Rename(k) ==
    /\ Handles(k, "RENAME")
    /\ LET p == req[k].path
           old == req[k].old
       IN
         \/ /\ CanRename(current[old], current[p])
            /\ DiskWorks
            /\ current' = [current EXCEPT ![old] = Absent, ![p] = current[old]]
            /\ applied' = [applied EXCEPT ![k] = current[old]]
            /\ Leave(k, Ack)
         \/ /\ \/ ~CanRename(current[old], current[p]) /\ DiskWorks
               \/ DiskFails
            /\ Leave(k, Error)
            /\ UNCHANGED <<current, applied>>
    /\ UNCHANGED <<mutex, temp, versions, trash, archive, unhashed>>

-----------------------------------------------------------------------------
(* Receiving a file, with the mutex from the first block to the last *)

\* The path a thread receives into: that of BEGIN, or of the QUERY before.
Target(k) == last[k]

\* server_handle_file_begin: back up, then truncate the temporary file.
BeginFile(k) ==
    /\ Handles(k, "BEGIN") /\ ~req[k].dir
    /\ CanBackup(Target(k)) /\ DiskWorks
    /\ versions' = BackedUp(Target(k))
    /\ temp' = [temp EXCEPT ![Target(k)] = <<>>]
    /\ mutex' = k
    /\ srvPc' = [srvPc EXCEPT ![k] = "blocks"]
    /\ UNCHANGED <<netVars, req, last, current, trash, archive, applied, unhashed,
                   faults>>

\* "prepare destination failed", or "open temp failed" after the backup.
BeginFileFails(k) ==
    /\ Handles(k, "BEGIN") /\ ~req[k].dir
    /\ \/ ~CanBackup(Target(k)) /\ DiskWorks /\ UNCHANGED versions
       \/ DiskFails /\ UNCHANGED versions
       \/ CanBackup(Target(k)) /\ DiskFails /\ versions' = BackedUp(Target(k))
    /\ Leave(k, Error)
    /\ UNCHANGED <<mutex, current, temp, trash, archive, applied, unhashed>>

\* handle_large_block_stream: no truncation, the first block at its offset.
BeginResume(k) ==
    /\ Handles(k, "BLOCK")
    /\ temp' = [temp EXCEPT ![Target(k)] = Written(@, req[k].offset, req[k].data)]
    /\ mutex' = k
    /\ srvPc' = [srvPc EXCEPT ![k] = "blocks"]
    /\ UNCHANGED <<netVars, req, last, current, versions, trash, archive, applied,
                   unhashed, faults>>

BeginResumeFails(k) ==
    /\ Handles(k, "BLOCK") /\ DiskFails
    /\ Leave(k, Error)
    /\ UNCHANGED <<mutex, treeVars>>

ReceiveBlock(k) ==
    /\ srvPc[k] = "blocks" /\ Arrives(k, "BLOCK")
    /\ LET m == Head(up[k]) IN
         temp' = [temp EXCEPT ![Target(k)] = Written(@, m.offset, m.data)]
    /\ Receive(k)
    /\ UNCHANGED <<down, link, threadVars, current, versions, trash, archive,
                   applied, unhashed, faults>>

\* MUTANT: an early end of the stream returns without pthread_mutex_unlock.
ReceiveFailsLocked(k) ==
    /\ srvPc[k] = "blocks" /\ EndOfStream(k) /\ DiskWorks
    /\ Leave(k, Error)
    /\ UNCHANGED <<mutex, treeVars>>

StreamEnds(k) ==
    IF up[k] = <<>> THEN EndOfStream(k) ELSE Head(up[k]).type \notin {"BLOCK", "END"}

\* The stream ends early, holds another message, or the disk fails.
ReceiveFails(k) ==
    /\ srvPc[k] = "blocks"
    /\ \/ StreamEnds(k) /\ DiskWorks
       \/ DiskFails
    /\ Leave(k, Error)
    /\ mutex' = 0
    /\ UNCHANGED treeVars

\* MUTANT: only a BEGIN tells what to expect.
ExpectedOfBegin(k, end) == IF req[k].type = "BEGIN" THEN req[k].hash ELSE NoHash

\* What END has to match: its own hash, or that of the first header; 0 in
\* both means that nothing is compared.
Expected(k, end) == IF end.hash # NoHash THEN end.hash ELSE req[k].hash
\* MUTANT: the file that was received is never hashed.
HashNotCompared(k, end) ==
    req[k].type = "BEGIN" /\ req[k].hash # NoHash => Expected(k, end) = req[k].hash
HashMatches(k, end) ==
    /\ Expected(k, end) # NoHash => temp[Target(k)] = Expected(k, end)
    /\ req[k].type = "BEGIN" /\ req[k].hash # NoHash => Expected(k, end) = req[k].hash

\* MUTANT: a resumed file is never backed up.
BackupForgotten(k) == UNCHANGED versions /\ DiskWorks

\* A resumed file is backed up only now, and whether it was is not asked.
BackupNow(k) ==
    \/ req[k].type = "BEGIN" /\ UNCHANGED versions /\ DiskWorks
    \/ /\ req[k].type = "BLOCK" /\ CanBackup(Target(k))
       /\ versions' = BackedUp(Target(k)) /\ DiskWorks
    \/ /\ req[k].type = "BLOCK" /\ UNCHANGED versions
       /\ \/ ~CanBackup(Target(k)) /\ DiskWorks
          \/ DiskFails

\* The temporary file becomes the file.
Finish(k) ==
    /\ srvPc[k] = "blocks" /\ Arrives(k, "END")
    /\ HashMatches(k, Head(up[k]))
    /\ CanRename(temp[Target(k)], current[Target(k)])
    /\ BackupNow(k)
    /\ current' = [current EXCEPT ![Target(k)] = temp[Target(k)]]
    /\ temp' = [temp EXCEPT ![Target(k)] = Absent]
    /\ applied' = [applied EXCEPT ![k] = temp[Target(k)]]
    /\ mutex' = 0
    /\ Leave(k, Ack)
    /\ unhashed' = IF req[k].hash = NoHash /\ Head(up[k]).hash = NoHash
                   THEN unhashed \cup {temp[Target(k)]} ELSE unhashed
    /\ UNCHANGED <<trash, archive>>

\* MUTANT: a mismatch returns without pthread_mutex_unlock.
FinishRefusedLocked(k) ==
    /\ srvPc[k] = "blocks" /\ Arrives(k, "END")
    /\ ~HashMatches(k, Head(up[k])) /\ DiskWorks
    /\ Leave(k, Error)
    /\ UNCHANGED <<mutex, treeVars>>

\* "file receive failed": the temporary file stays.
FinishRefused(k) ==
    /\ srvPc[k] = "blocks" /\ Arrives(k, "END")
    /\ \/ ~HashMatches(k, Head(up[k])) /\ UNCHANGED versions /\ DiskWorks
       \/ /\ HashMatches(k, Head(up[k]))
          /\ ~CanRename(temp[Target(k)], current[Target(k)])
          /\ BackupNow(k)
    /\ mutex' = 0
    /\ Leave(k, Error)
    /\ UNCHANGED <<current, temp, trash, archive, applied, unhashed>>

-----------------------------------------------------------------------------
(* Faults of the network and of the server *)

\* A connection breaks, and any part of what was under way is lost.  So it is
\* when accept's thread cannot be made.
Cut(k) ==
    /\ link[k] = "open" /\ faults < MaxFaults /\ faults' = faults + 1
    /\ \E n \in 0 .. Len(up[k]) : up' = [up EXCEPT ![k] = SubSeq(@, 1, n)]
    /\ \E n \in 0 .. Len(down[k]) : down' = [down EXCEPT ![k] = SubSeq(@, 1, n)]
    /\ link' = [link EXCEPT ![k] = "cut"]
    /\ UNCHANGED <<threadVars, treeVars>>

\* The server dies and starts again: its threads are gone, its mutex is free,
\* and the tree with its temporary files is as they left it.
ServerCrash ==
    /\ faults < MaxFaults /\ faults' = faults + 1
    /\ \E k \in Conns : srvPc[k] \in {"recv", "lock", "blocks"}
    /\ LET dead == {k \in Conns : srvPc[k] \in {"recv", "lock", "blocks"}} IN
         /\ srvPc' = [k \in Conns |-> IF k \in dead THEN "gone" ELSE srvPc[k]]
         /\ req' = [k \in Conns |-> IF k \in dead THEN NoMsg ELSE req[k]]
         /\ last' = [k \in Conns |-> IF k \in dead THEN NoPath ELSE last[k]]
         /\ up' = [k \in Conns |-> IF k \in dead THEN <<>> ELSE up[k]]
         /\ link' = [k \in Conns |->
                       IF k \in dead /\ link[k] = "open" THEN "cut" ELSE link[k]]
    /\ mutex' = 0
    /\ UNCHANGED <<down, treeVars>>

ServerThread(k) ==
    \/ RecvRequest(k) \/ RecvQuery(k) \/ RecvUnknown(k) \/ RecvEof(k)
    \/ MakeDir(k) \/ Delete(k) \/ Rename(k)
    \/ BeginFile(k) \/ BeginFileFails(k) \/ BeginResume(k) \/ BeginResumeFails(k)
    \/ ReceiveBlock(k) \/ ReceiveFails(k) \/ Finish(k) \/ FinishRefused(k)

ServerNext ==
    \/ \E k \in Conns : ServerThread(k) \/ Cut(k)
    \/ NewSecond \/ ServerCrash

-----------------------------------------------------------------------------
(* Properties *)

\* What the backup keeps of a path, in the directory of any second.
Kept(p) == archive[p] \cup {versions[p], trash[p]}

\* An upload, a resumed upload or a delete that changes what a path has in
\* current/ has put the old file into .versions or .trash before, whatever
\* became of other connections in between.
OldFileKept ==
    [][(\A k \in Conns : ~Rename(k)) /\ DiskWorks =>
         \A p \in Paths :
             IsFile(current[p]) /\ CanBackup(p) /\ current'[p] # current[p] =>
                 current[p] \in Kept(p)']_serverVars
\* README.md:79, "asks the server for the size of .syncing and resumes there": an
\* END is not refused when the temporary file of the path that was asked for has
\* all blocks already and the very hash that END announces.
CompleteFileTaken ==
    [][\A k \in Conns : RecvUnknown(k) /\ last[k] # NoPath =>
         temp[last[k]] # Head(up[k]).hash]_serverVars
=============================================================================

---------------------------- MODULE ServerProofs ----------------------------
(***************************************************************************)
(* What Server keeps, whatever its clients are, as long as they send only  *)
(* messages of a set M: types, mutual exclusion, and that nothing but      *)
(* whole files of a set G gets its name.  A module that composes Server    *)
(* with clients chooses M and G and cites ServerKeeps and ThreadEffect.    *)
(***************************************************************************)
EXTENDS Server, SequenceTheorems, TLAPS

\* The messages whose blocks lie inside a file.
Fitting == {m \in Requests : m.type = "BLOCK" => m.offset + Len(m.data) <= MaxBlocks}

\* The types of connections whose clients send messages of M, and of the tree.
WireTypes(M) ==
    /\ up \in [Conns -> Seq(M)] /\ down \in [Conns -> Seq(Replies)]
    /\ link \in [Conns -> Links]
    /\ srvPc \in [Conns -> ThreadLabels]
    /\ req \in [Conns -> M \cup {NoMsg}]
    /\ last \in [Conns -> Paths \cup {NoPath}]
    /\ mutex \in Conns \cup {0}

TreeTypes ==
    /\ current \in [Paths -> Files \cup {Absent, Dir}]
    /\ temp \in [Paths -> Files \cup {Absent}]
    /\ versions \in [Paths -> Files \cup {Absent, Dir}]
    /\ trash \in [Paths -> Files \cup {Absent, Dir}]
    /\ archive \in [Paths -> SUBSET Files]
    /\ applied \in [Conns -> Files \cup {Absent, Dir, NoEffect}]
    /\ unhashed \subseteq Files
    /\ faults \in 0 .. MaxFaults

ServerTypes(M) == WireTypes(M) /\ TreeTypes

\* What a thread is at by its label, and who has the mutex.
Threads == \A k \in Conns :
    /\ req[k] # NoMsg <=> srvPc[k] \in {"lock", "blocks"}
    /\ srvPc[k] = "blocks" <=> mutex = k
    /\ srvPc[k] = "lock" => req[k].type \in {"BEGIN", "DELETE", "RENAME", "BLOCK"}
    /\ srvPc[k] = "blocks" => req[k].type \in {"BEGIN", "BLOCK"} /\ last[k] # NoPath
    /\ srvPc[k] \in {"lock", "blocks"} =>
         /\ req[k].type = "BEGIN" => last[k] = req[k].path
         /\ req[k].type = "BLOCK" => last[k] # NoPath

\* The old file of a path that is being uploaded was kept, and is the current one still.
OldSafe == \A k \in Conns :
    srvPc[k] = "blocks" /\ req[k].type = "BEGIN" /\ IsFile(current[last[k]])
      => current[last[k]] \in Kept(last[k])

\* An acknowledgement on its way means that the connection changed its path.
AckApplied == \A k \in Conns : \A i \in DOMAIN down[k] :
    down[k][i].type = "ACK" => applied[k] # NoEffect

\* Files under their name are files of G, or were never compared.
WholeOf(G) == \A p \in Paths : IsFile(current[p]) => current[p] \in G \cup unhashed
-----------------------------------------------------------------------------
(* Lemmas about files and messages *)

\* Files, as sequences: what the theorems about sequences speak of.
LEMMA FilesAreSequences ==
    Files = {x \in Seq(Blocks \cup {Hole}) : Len(x) <= MaxBlocks}
<1>1. ASSUME NEW x \in Files
      PROVE  x \in Seq(Blocks \cup {Hole}) /\ Len(x) <= MaxBlocks
  <2>1. PICK n \in 0 .. MaxBlocks : x \in [1 .. n -> Blocks \cup {Hole}]
    BY DEF Files
  <2>2. n \in Nat /\ n <= MaxBlocks
    BY FileAssumption
  <2>3. x \in Seq(Blocks \cup {Hole})
    BY <2>1, <2>2, SeqDef
  <2>4. DOMAIN x = 1 .. n /\ Len(x) = n
    BY <2>1, <2>2, <2>3, LenProperties
  <2>5. QED
    BY <2>2, <2>3, <2>4
<1>2. ASSUME NEW x \in Seq(Blocks \cup {Hole}), Len(x) <= MaxBlocks
      PROVE  x \in Files
  <2>1. Len(x) \in 0 .. MaxBlocks /\ x \in [1 .. Len(x) -> Blocks \cup {Hole}]
    BY <1>2, LenProperties, FileAssumption
  <2>2. QED
    BY <2>1 DEF Files
<1>3. QED
  BY <1>1, <1>2

\* A file is a function over its length.
LEMMA FileLength ==
    ASSUME NEW x \in Files
    PROVE  /\ Len(x) \in 0 .. MaxBlocks /\ x \in [1 .. Len(x) -> Blocks \cup {Hole}]
           /\ x \in Seq(Blocks \cup {Hole}) /\ IsFile(x)
<1>1. x \in Seq(Blocks \cup {Hole}) /\ Len(x) <= MaxBlocks
  BY FilesAreSequences
<1>2. QED
  BY <1>1, LenProperties, FileAssumption DEF IsFile

\* A function over an initial segment of 1 .. MaxBlocks is a file.
LEMMA FileFromFunction ==
    ASSUME NEW n \in 0 .. MaxBlocks, NEW f \in [1 .. n -> Blocks \cup {Hole}]
    PROVE  f \in Files
BY DEF Files

\* A write of a block that lies inside a file gives a file, whatever was there.
LEMMA WrittenIsFile ==
    ASSUME NEW x \in Files \cup {Absent}, NEW offset \in 0 .. MaxBlocks, NEW data \in Files,
           offset + Len(data) <= MaxBlocks
    PROVE  Written(x, offset, data) \in Files
<1> DEFINE y == IF x = Absent THEN <<>> ELSE x
           end == offset + Len(data)
           n == IF end > Len(y) THEN end ELSE Len(y)
<1>1. y \in Files
  <2>1. <<>> \in Files
    BY FilesAreSequences, EmptySeq, FileAssumption
  <2>2. QED
    BY <2>1
<1>2. Len(y) \in 0 .. MaxBlocks /\ y \in [1 .. Len(y) -> Blocks \cup {Hole}]
  BY <1>1, FileLength
<1>3. Len(data) \in 0 .. MaxBlocks /\ data \in [1 .. Len(data) -> Blocks \cup {Hole}]
  BY FileLength
<1>4. n \in 0 .. MaxBlocks
  BY <1>2, <1>3, FileAssumption
<1> DEFINE f == [i \in 1 .. n |->
                   IF i \in offset + 1 .. end THEN data[i - offset]
                   ELSE IF i <= Len(y) THEN y[i] ELSE Hole]
<1>5. f \in [1 .. n -> Blocks \cup {Hole}]
  <2>1. ASSUME NEW i \in 1 .. n, i \in offset + 1 .. end
        PROVE  data[i - offset] \in Blocks \cup {Hole}
    <3>1. i - offset \in 1 .. Len(data)
      BY <2>1, <1>3, <1>4, FileAssumption
    <3>2. QED
      BY <3>1, <1>3
  <2>2. ASSUME NEW i \in 1 .. n, i <= Len(y)
        PROVE  y[i] \in Blocks \cup {Hole}
    <3>1. i \in 1 .. Len(y)
      BY <2>2, <1>2, <1>4, FileAssumption
    <3>2. QED
      BY <3>1, <1>2
  <2> HIDE DEF n, end, y
  <2>3. QED
    BY <2>1, <2>2
<1>6. f \in Files
  <2> HIDE DEF f, n
  <2>1. QED
    BY <1>4, <1>5, FileFromFunction
<1>7. QED
  BY <1>6 DEF Written, WrittenInto

\* Every message of Requests is one that IsRequest describes.
LEMMA RequestFields ==
    ASSUME NEW m \in Requests
    PROVE  /\ IsRequest(m) /\ m # NoMsg
           /\ m.type \in {"BEGIN", "QUERY", "DELETE", "RENAME", "BLOCK", "END"}
BY ServerAssumption DEF Requests, IsRequest

\* A thread that has a request, has one that its client sent, with the fields of its type.
LEMMA RequestOf ==
    ASSUME NEW M, M \subseteq Fitting, WireTypes(M), Threads,
           NEW k \in Conns, srvPc[k] \in {"lock", "blocks"}
    PROVE  /\ req[k] \in M /\ IsRequest(req[k])
           /\ req[k].type \in {"BEGIN", "BLOCK"} => last[k] \in Paths
           /\ req[k].type = "BLOCK" => req[k].offset + Len(req[k].data) <= MaxBlocks
<1>1. req[k] \in M /\ req[k] \in Fitting /\ req[k] \in Requests
  BY DEF WireTypes, Threads, Fitting
<1>2. IsRequest(req[k])
  BY <1>1, RequestFields
<1>3. last[k] \in Paths \cup {NoPath}
  BY DEF WireTypes
<1>4. ASSUME req[k].type = "BEGIN" PROVE last[k] \in Paths
  BY <1>2, <1>4 DEF IsRequest, Threads
<1>5. ASSUME req[k].type = "BLOCK" PROVE last[k] \in Paths
  BY <1>3, <1>5 DEF Threads
<1>6. req[k].type = "BLOCK" => req[k].offset + Len(req[k].data) <= MaxBlocks
  BY <1>1 DEF Fitting
<1>7. QED
  BY <1>1, <1>2, <1>4, <1>5, <1>6

\* What a thread receives next, and that the rest are still such messages.
LEMMA NextMessage ==
    ASSUME NEW M, M \subseteq Fitting, WireTypes(M), NEW k \in Conns, up[k] # <<>>
    PROVE  /\ up[k] \in Seq(M) /\ Head(up[k]) = up[k][1] /\ 1 \in DOMAIN up[k]
           /\ Head(up[k]) \in M /\ IsRequest(Head(up[k]))
           /\ Head(up[k]).type \in {"BEGIN", "QUERY", "DELETE", "RENAME", "BLOCK", "END"}
           /\ Tail(up[k]) \in Seq(M) /\ Len(Tail(up[k])) = Len(up[k]) - 1
           /\ \A i \in DOMAIN Tail(up[k]) : i + 1 \in DOMAIN up[k] /\ Tail(up[k])[i] = up[k][i + 1]
           /\ Head(up[k]).type = "BLOCK" =>
                Head(up[k]).offset + Len(Head(up[k]).data) <= MaxBlocks
<1>1. up[k] \in Seq(M)
  BY DEF WireTypes
<1>2. /\ Head(up[k]) \in M /\ Head(up[k]) = up[k][1] /\ 1 \in DOMAIN up[k]
      /\ Tail(up[k]) \in Seq(M) /\ Len(Tail(up[k])) = Len(up[k]) - 1
      /\ \A i \in DOMAIN Tail(up[k]) : i + 1 \in DOMAIN up[k] /\ Tail(up[k])[i] = up[k][i + 1]
  BY <1>1
<1>3. Head(up[k]) \in Fitting /\ Head(up[k]) \in Requests
  BY <1>2 DEF Fitting
<1>4. /\ IsRequest(Head(up[k]))
      /\ Head(up[k]).type \in {"BEGIN", "QUERY", "DELETE", "RENAME", "BLOCK", "END"}
  BY <1>3, RequestFields
<1>5. Head(up[k]).type = "BLOCK" =>
                Head(up[k]).offset + Len(Head(up[k]).data) <= MaxBlocks
  BY <1>3 DEF Fitting
<1>6. QED
  BY <1>1, <1>2, <1>4, <1>5

\* What a thread that returns leaves behind.
LEMMA LeaveEffect ==
    ASSUME NEW M, WireTypes(M), NEW k \in Conns, NEW reply \in {Ack, Error, NoMsg},
           Leave(k, reply), mutex' \in {mutex, 0}
    PROVE  /\ WireTypes(M)'
           /\ up'[k] = <<>> /\ srvPc'[k] = "gone" /\ req'[k] = NoMsg /\ link' = link
           /\ down'[k] \in {down[k], Append(down[k], reply)}
           /\ reply = NoMsg => down'[k] = down[k]
           /\ \A j \in Conns \ {k} : /\ up'[j] = up[j] /\ down'[j] = down[j]
                                     /\ srvPc'[j] = srvPc[j] /\ req'[j] = req[j]
                                     /\ last'[j] = last[j]
<1>1. reply # NoMsg => reply \in Replies
  BY DEF Ack, Error, Replies
<1>2. down' \in [Conns -> Seq(Replies)]
  <2>1. down \in [Conns -> Seq(Replies)]
    BY DEF WireTypes
  <2>2. CASE down' = down
    BY <2>1, <2>2
  <2>3. CASE reply # NoMsg /\ down' = [down EXCEPT ![k] = Append(@, reply)]
    <3>1. Append(down[k], reply) \in Seq(Replies)
      BY <1>1, <2>1, <2>3
    <3>2. QED
      BY <2>1, <2>3, <3>1
  <2>4. QED
    BY <2>2, <2>3 DEF Leave, Sent
<1>3. up' \in [Conns -> Seq(M)]
  <2>1. <<>> \in Seq(M)
    BY EmptySeq
  <2>2. QED
    BY <2>1 DEF Leave, WireTypes
<1>4. /\ link' \in [Conns -> Links] /\ srvPc' \in [Conns -> ThreadLabels]
      /\ req' \in [Conns -> M \cup {NoMsg}] /\ last' \in [Conns -> Paths \cup {NoPath}]
      /\ mutex' \in Conns \cup {0}
  BY DEF Leave, WireTypes, ThreadLabels
<1>5. WireTypes(M)'
  BY <1>2, <1>3, <1>4 DEF WireTypes
<1>6. /\ up'[k] = <<>> /\ srvPc'[k] = "gone" /\ req'[k] = NoMsg /\ link' = link
      /\ down'[k] \in {down[k], Append(down[k], reply)}
      /\ reply = NoMsg => down'[k] = down[k]
  BY DEF Leave, WireTypes, Sent
<1>7. \A j \in Conns \ {k} : /\ up'[j] = up[j] /\ down'[j] = down[j]
                             /\ srvPc'[j] = srvPc[j] /\ req'[j] = req[j]
                             /\ last'[j] = last[j]
  BY DEF Leave, WireTypes, Sent
<1>8. QED
  BY <1>5, <1>6, <1>7

\* Receiving a request leaves the rest of what is under way.
LEMMA ReceiveEffect ==
    ASSUME NEW M, M \subseteq Fitting, WireTypes(M), NEW k \in Conns, up[k] # <<>>, Receive(k)
    PROVE  up' \in [Conns -> Seq(M)] /\ up'[k] = Tail(up[k])
<1>1. Tail(up[k]) \in Seq(M)
  BY NextMessage
<1>2. QED
  BY <1>1 DEF Receive, WireTypes

\* backup_old_version leaves files and directories under .versions.
LEMMA BackedUpType ==
    ASSUME TreeTypes, NEW p \in Paths
    PROVE  BackedUp(p) \in [Paths -> Files \cup {Absent, Dir}]
BY DEF BackedUp, TreeTypes

\* The size of a temporary file is an offset that QUERY_OFFSET can answer.
LEMMA SizeIsOffset ==
    ASSUME TreeTypes, NEW p \in Paths
    PROVE  SizeOf(temp[p]) \in 0 .. MaxBlocks
<1>1. temp[p] \in Files \cup {Absent}
  BY DEF TreeTypes
<1>2. QED
  BY <1>1, FileLength, FileAssumption DEF SizeOf, IsFile
-----------------------------------------------------------------------------
(* Types *)

\* At first nothing is connected and the tree is empty.
LEMMA InitTypes ==
    ASSUME NEW M, ServerInit PROVE ServerTypes(M) /\ Threads
<1>1. <<>> \in Seq(M) /\ <<>> \in Seq(Replies)
  BY EmptySeq
<1>2. WireTypes(M)
  BY <1>1 DEF WireTypes, ServerInit, Links, ThreadLabels
<1>3. TreeTypes
  BY ServerAssumption DEF TreeTypes, ServerInit
<1>4. Threads
  BY ServerAssumption DEF Threads, ServerInit, Conns
<1>5. QED
  BY <1>2, <1>3, <1>4 DEF ServerTypes

\* Types survive when the tree is left alone.
LEMMA TreeFrame ==
    ASSUME TreeTypes, UNCHANGED treeVars, faults' \in 0 .. MaxFaults
    PROVE  TreeTypes'
BY DEF TreeTypes, treeVars

\* Faults are counted up to their bound.
LEMMA DiskFaults ==
    ASSUME TreeTypes, DiskWorks \/ DiskFails
    PROVE  faults' \in 0 .. MaxFaults
BY ServerAssumption DEF TreeTypes, DiskWorks, DiskFails

\* A thread keeps the types of the connections.
LEMMA WireStep ==
    ASSUME NEW M, M \subseteq Fitting, ServerTypes(M), Threads,
           NEW k \in Conns, ServerThread(k)
    PROVE  WireTypes(M)'
<1> USE DEF ServerTypes
<1>1. ASSUME NEW reply \in {Ack, Error, NoMsg}, Leave(k, reply), mutex' \in {mutex, 0}
      PROVE  WireTypes(M)'
  BY <1>1, LeaveEffect
<1>2. CASE RecvUnknown(k) \/ RecvEof(k) \/ MakeDir(k) \/ Delete(k) \/ Rename(k)
  BY <1>1, <1>2 DEF RecvUnknown, RecvEof, MakeDir, Delete, Rename
<1>3. CASE BeginFileFails(k) \/ BeginResumeFails(k) \/ ReceiveFails(k) \/ Finish(k) \/ FinishRefused(k)
  BY <1>1, <1>3 DEF BeginFileFails, BeginResumeFails, ReceiveFails, Finish, FinishRefused
<1>4. CASE RecvRequest(k)
  <2>1. /\ up' \in [Conns -> Seq(M)] /\ Head(up[k]) \in M /\ IsRequest(Head(up[k]))
    BY <1>4, ReceiveEffect, NextMessage DEF RecvRequest
  <2>2. Head(up[k]).type = "BEGIN" => Head(up[k]).path \in Paths
    BY <2>1 DEF IsRequest
  <2>3. QED
    BY <1>4, <2>1, <2>2 DEF RecvRequest, WireTypes, ThreadLabels
<1>5. CASE RecvQuery(k)
  <2> DEFINE p == Head(up[k]).path
             r == [type |-> "OFFSET", offset |-> SizeOf(temp[p])]
  <2>1. up[k] # <<>> /\ Head(up[k]).type = "QUERY"
    BY <1>5 DEF RecvQuery, Arrives
  <2>2. /\ up' \in [Conns -> Seq(M)] /\ IsRequest(Head(up[k]))
    BY <1>5, <2>1, ReceiveEffect, NextMessage DEF RecvQuery
  <2>3. p \in Paths
    BY <2>1, <2>2 DEF IsRequest
  <2>4. r \in Replies
    BY <2>3, SizeIsOffset DEF Replies
  <2>5. down' = Sent(k, r) /\ last' = [last EXCEPT ![k] = p]
    BY <1>5 DEF RecvQuery
  <2>6. down' \in [Conns -> Seq(Replies)]
    <3>1. down[k] \in Seq(Replies) /\ down \in [Conns -> Seq(Replies)]
      BY DEF WireTypes
    <3>2. Append(down[k], r) \in Seq(Replies)
      BY <2>4, <3>1, AppendProperties
    <3> HIDE DEF r
    <3>3. QED
      BY <2>5, <3>1, <3>2 DEF Sent
  <2> HIDE DEF r, p
  <2>7. QED
    BY <1>5, <2>2, <2>3, <2>5, <2>6 DEF RecvQuery, WireTypes
<1>6. CASE BeginFile(k) \/ BeginResume(k)
  BY <1>6 DEF BeginFile, BeginResume, WireTypes, netVars, ThreadLabels
<1>7. CASE ReceiveBlock(k)
  <2>1. up' \in [Conns -> Seq(M)]
    BY <1>7, ReceiveEffect DEF ReceiveBlock, Arrives
  <2>2. QED
    BY <1>7, <2>1 DEF ReceiveBlock, WireTypes, threadVars
<1>8. QED
  BY <1>2, <1>3, <1>4, <1>5, <1>6, <1>7 DEF ServerThread

\* A thread keeps the types of the tree: blocks fit into files.
LEMMA TreeStep ==
    ASSUME NEW M, M \subseteq Fitting, ServerTypes(M), Threads,
           NEW k \in Conns, ServerThread(k)
    PROVE  TreeTypes'
<1> USE DEF ServerTypes
<1>1. faults \in 0 .. MaxFaults
  BY DEF TreeTypes
<1>2. CASE RecvRequest(k) \/ RecvQuery(k) \/ RecvUnknown(k) \/ RecvEof(k)
  BY <1>1, <1>2, TreeFrame DEF RecvRequest, RecvQuery, RecvUnknown, RecvEof
<1>3. CASE BeginResumeFails(k) \/ ReceiveFails(k)
  BY <1>3, TreeFrame, DiskFaults DEF BeginResumeFails, ReceiveFails
<1>4. CASE MakeDir(k)
  <2>1. req[k].path \in Paths
    BY <1>4, RequestOf DEF MakeDir, Handles, IsRequest
  <2>2. faults' \in 0 .. MaxFaults
    BY <1>4, DiskFaults DEF MakeDir
  <2>3. QED
    BY <1>4, <2>1, <2>2 DEF MakeDir, TreeTypes
<1>5. CASE Delete(k)
  <2>1. req[k].path \in Paths
    BY <1>5, RequestOf DEF Delete, Handles, IsRequest
  <2>2. faults' \in 0 .. MaxFaults
    BY <1>5, DiskFaults DEF Delete
  <2>3. QED
    BY <1>5, <2>1, <2>2 DEF Delete, TreeTypes
<1>6. CASE Rename(k)
  <2>1. req[k].path \in Paths /\ req[k].old \in Paths
    BY <1>6, RequestOf DEF Rename, Handles, IsRequest
  <2>2. faults' \in 0 .. MaxFaults
    BY <1>6, DiskFaults DEF Rename
  <2>3. QED
    BY <1>6, <2>1, <2>2 DEF Rename, TreeTypes
<1>7. CASE BeginFile(k) \/ BeginFileFails(k)
  <2>1. Target(k) \in Paths
    BY <1>7, RequestOf DEF BeginFile, BeginFileFails, Handles, Target
  <2>2. faults' \in 0 .. MaxFaults
    BY <1>1, <1>7, DiskFaults DEF BeginFile, BeginFileFails
  <2>3. versions' \in [Paths -> Files \cup {Absent, Dir}]
    BY <1>7, <2>1, BackedUpType DEF BeginFile, BeginFileFails, TreeTypes
  <2>4. temp' \in [Paths -> Files \cup {Absent}]
    <3>1. <<>> \in Files
      BY FilesAreSequences, EmptySeq, FileAssumption
    <3>2. QED
      BY <1>7, <3>1 DEF BeginFile, BeginFileFails, TreeTypes
  <2>5. QED
    BY <1>7, <2>2, <2>3, <2>4 DEF BeginFile, BeginFileFails, TreeTypes
<1>8. CASE BeginResume(k)
  <2>1. /\ Target(k) \in Paths /\ req[k].offset \in 0 .. MaxBlocks /\ req[k].data \in Files
        /\ req[k].offset + Len(req[k].data) <= MaxBlocks
    BY <1>8, RequestOf DEF BeginResume, Handles, IsRequest, Target
  <2>2. temp[Target(k)] \in Files \cup {Absent}
    BY <2>1 DEF TreeTypes
  <2>3. Written(temp[Target(k)], req[k].offset, req[k].data) \in Files
    BY <2>1, <2>2, WrittenIsFile
  <2>4. QED
    BY <1>8, <2>1, <2>3 DEF BeginResume, TreeTypes
<1>9. CASE ReceiveBlock(k)
  <2> DEFINE m == Head(up[k])
  <2>1. /\ Target(k) \in Paths
    BY <1>9, RequestOf DEF ReceiveBlock, Threads, Target
  <2>2. /\ m.offset \in 0 .. MaxBlocks /\ m.data \in Files
        /\ m.offset + Len(m.data) <= MaxBlocks
    BY <1>9, NextMessage DEF ReceiveBlock, Arrives, IsRequest
  <2>3. temp[Target(k)] \in Files \cup {Absent}
    BY <2>1 DEF TreeTypes
  <2>4. Written(temp[Target(k)], m.offset, m.data) \in Files
    BY <2>2, <2>3, WrittenIsFile
  <2>5. QED
    BY <1>9, <2>1, <2>4 DEF ReceiveBlock, TreeTypes
<1>10. CASE Finish(k) \/ FinishRefused(k)
  <2>1. Target(k) \in Paths
    BY <1>10, RequestOf DEF Finish, FinishRefused, Threads, Target
  <2>2. faults' \in 0 .. MaxFaults
    BY <1>1, <1>10, DiskFaults DEF Finish, FinishRefused, BackupNow
  <2>3. versions' \in [Paths -> Files \cup {Absent, Dir}]
    BY <1>10, <2>1, BackedUpType DEF Finish, FinishRefused, BackupNow, TreeTypes
  <2>4. CASE Finish(k)
    <3>1. temp[Target(k)] \in Files
      BY <2>1, <2>4, FileAssumption DEF Finish, CanRename, TreeTypes
    <3>2. QED
      BY <2>1, <2>2, <2>3, <2>4, <3>1 DEF Finish, TreeTypes
  <2>5. CASE FinishRefused(k)
    BY <2>2, <2>3, <2>5 DEF FinishRefused, TreeTypes
  <2>6. QED
    BY <1>10, <2>4, <2>5
<1>11. QED
  BY <1>2, <1>3, <1>4, <1>5, <1>6, <1>7, <1>8, <1>9, <1>10 DEF ServerThread
-----------------------------------------------------------------------------
(* Threads, the mutex and the tree *)

\* A thread is served on its own connection and leaves the others alone.
SameConn(j) ==
    /\ up'[j] = up[j] /\ down'[j] = down[j] /\ link'[j] = link[j]
    /\ srvPc'[j] = srvPc[j] /\ req'[j] = req[j] /\ last'[j] = last[j]
    /\ applied'[j] = applied[j]

\* A thread leaves the other connections alone.
LEMMA OtherConns ==
    ASSUME NEW M, ServerTypes(M), NEW k \in Conns, ServerThread(k), NEW j \in Conns \ {k}
    PROVE  SameConn(j) /\ link' = link
<1> USE DEF ServerTypes
<1>1. ASSUME NEW reply \in {Ack, Error, NoMsg}, Leave(k, reply), mutex' \in {mutex, 0},
             applied'[j] = applied[j]
      PROVE  SameConn(j) /\ link' = link
  BY <1>1, LeaveEffect DEF SameConn
<1>2. applied'[j] = applied[j]
  BY DEF TreeTypes, ServerThread, RecvRequest, RecvQuery, RecvUnknown, RecvEof, MakeDir, Delete,
         Rename, BeginFile, BeginFileFails, BeginResume, BeginResumeFails, ReceiveBlock,
         ReceiveFails, Finish, FinishRefused, treeVars
<1>3. CASE RecvUnknown(k) \/ RecvEof(k) \/ MakeDir(k) \/ Delete(k) \/ Rename(k)
  BY <1>1, <1>2, <1>3 DEF RecvUnknown, RecvEof, MakeDir, Delete, Rename
<1>4. CASE BeginFileFails(k) \/ BeginResumeFails(k) \/ ReceiveFails(k) \/ Finish(k) \/ FinishRefused(k)
  BY <1>1, <1>2, <1>4 DEF BeginFileFails, BeginResumeFails, ReceiveFails, Finish, FinishRefused
<1>5. CASE RecvRequest(k) \/ RecvQuery(k)
  BY <1>2, <1>5 DEF RecvRequest, RecvQuery, Receive, Sent, SameConn, WireTypes
<1>6. CASE BeginFile(k) \/ BeginResume(k) \/ ReceiveBlock(k)
  BY <1>2, <1>6 DEF BeginFile, BeginResume, ReceiveBlock, Receive, netVars, threadVars, SameConn,
                    WireTypes
<1>7. QED
  BY <1>3, <1>4, <1>5, <1>6 DEF ServerThread

\* The mutex changes hands only through the thread that moves.
LEMMA MutexMoves ==
    ASSUME NEW M, ServerTypes(M), Threads, NEW k \in Conns, ServerThread(k)
    PROVE  /\ mutex \in {0, k} \/ mutex' = mutex
           /\ mutex' \in {0, k} \/ mutex' = mutex
           /\ srvPc'[k] = "blocks" <=> mutex' = k
<1> USE DEF ServerTypes
<1>1. k # 0 /\ (srvPc[k] = "blocks" <=> mutex = k)
  BY DEF Threads, Conns
<1>2. ASSUME NEW reply \in {Ack, Error, NoMsg}, Leave(k, reply), mutex' \in {mutex, 0},
             mutex' # k
      PROVE  srvPc'[k] = "blocks" <=> mutex' = k
  BY <1>2, LeaveEffect
<1>3. CASE RecvUnknown(k) \/ RecvEof(k) \/ MakeDir(k) \/ Delete(k) \/ Rename(k)
  BY <1>1, <1>2, <1>3 DEF RecvUnknown, RecvEof, MakeDir, Delete, Rename, Handles
<1>4. CASE BeginFileFails(k) \/ BeginResumeFails(k) \/ ReceiveFails(k) \/ Finish(k) \/ FinishRefused(k)
  BY <1>1, <1>2, <1>4 DEF BeginFileFails, BeginResumeFails, ReceiveFails, Finish, FinishRefused,
                          Handles
<1>5. CASE RecvRequest(k) \/ RecvQuery(k)
  BY <1>1, <1>5 DEF RecvRequest, RecvQuery, WireTypes
<1>6. CASE BeginFile(k) \/ BeginResume(k) \/ ReceiveBlock(k)
  BY <1>1, <1>6 DEF BeginFile, BeginResume, ReceiveBlock, Handles, threadVars, WireTypes
<1>7. QED
  BY <1>3, <1>4, <1>5, <1>6 DEF ServerThread

\* A thread keeps its label, its request and the mutex together.
LEMMA ThreadsStep ==
    ASSUME NEW M, M \subseteq Fitting, ServerTypes(M), Threads,
           NEW k \in Conns, ServerThread(k)
    PROVE  Threads'
<1> USE DEF ServerTypes
<1> DEFINE T(j) ==
      /\ req[j] # NoMsg <=> srvPc[j] \in {"lock", "blocks"}
      /\ srvPc[j] = "blocks" <=> mutex = j
      /\ srvPc[j] = "lock" => req[j].type \in {"BEGIN", "DELETE", "RENAME", "BLOCK"}
      /\ srvPc[j] = "blocks" => req[j].type \in {"BEGIN", "BLOCK"} /\ last[j] # NoPath
      /\ srvPc[j] \in {"lock", "blocks"} =>
           /\ req[j].type = "BEGIN" => last[j] = req[j].path
           /\ req[j].type = "BLOCK" => last[j] # NoPath
<1>1. ASSUME NEW j \in Conns \ {k} PROVE T(j)'
  <2>1. T(j) /\ j # 0 /\ j # k
    BY DEF Threads, Conns
  <2>2. SameConn(j)
    BY OtherConns
  <2>3. mutex' = j <=> mutex = j
    BY <2>1, MutexMoves
  <2>4. QED
    BY <2>1, <2>2, <2>3 DEF SameConn
<1>2. T(k)'
  <2>1. T(k) /\ (srvPc'[k] = "blocks" <=> mutex' = k)
    BY MutexMoves DEF Threads
  <2>2. ASSUME NEW reply \in {Ack, Error, NoMsg}, Leave(k, reply), mutex' \in {mutex, 0}
        PROVE  T(k)'
    BY <2>1, <2>2, LeaveEffect
  <2>3. CASE RecvUnknown(k) \/ RecvEof(k) \/ MakeDir(k) \/ Delete(k) \/ Rename(k)
    BY <2>2, <2>3 DEF RecvUnknown, RecvEof, MakeDir, Delete, Rename
  <2>4. CASE \/ BeginFileFails(k) \/ BeginResumeFails(k) \/ ReceiveFails(k) \/ Finish(k)
             \/ FinishRefused(k)
    BY <2>2, <2>4 DEF BeginFileFails, BeginResumeFails, ReceiveFails, Finish, FinishRefused
  <2>5. CASE RecvRequest(k)
    <3> DEFINE m == Head(up[k])
    <3>1. /\ up[k] # <<>> /\ srvPc'[k] = "lock" /\ req'[k] = m
          /\ m.type \in {"BEGIN", "DELETE", "RENAME"} \/ (m.type = "BLOCK" /\ last[k] # NoPath)
          /\ m.type = "BEGIN" => last'[k] = m.path
          /\ m.type # "BEGIN" => last'[k] = last[k]
      BY <2>5 DEF RecvRequest, WireTypes
    <3>2. m \in M /\ m \in Requests /\ m # NoMsg
      BY <3>1, NextMessage, RequestFields DEF Fitting
    <3> HIDE DEF m
    <3>3. QED
      BY <2>1, <3>1, <3>2
  <2>6. CASE RecvQuery(k)
    BY <2>1, <2>6 DEF RecvQuery, WireTypes
  <2>7. CASE BeginFile(k) \/ BeginResume(k) \/ ReceiveBlock(k)
    <3>1. /\ req' = req /\ last' = last /\ srvPc'[k] = "blocks"
          /\ srvPc[k] \in {"lock", "blocks"} /\ req[k].type \in {"BEGIN", "BLOCK"}
      BY <2>1, <2>7 DEF BeginFile, BeginResume, ReceiveBlock, threadVars, Handles, WireTypes
    <3>2. last[k] # NoPath
      BY <3>1, RequestOf, ServerAssumption
    <3>3. QED
      BY <2>1, <3>1, <3>2
  <2>8. QED
    BY <2>3, <2>4, <2>5, <2>6, <2>7 DEF ServerThread
<1>3. \A j \in Conns : T(j)'
  BY <1>1, <1>2
<1>4. QED
  BY <1>3 DEF Threads

\* While another thread has the mutex a thread leaves the tree alone.
LEMMA TreeMoves ==
    ASSUME NEW M, ServerTypes(M), Threads, NEW k \in Conns, ServerThread(k), mutex \notin {0, k}
    PROVE  UNCHANGED <<current, temp, versions, trash, archive, unhashed>>
<1>1. srvPc[k] # "blocks"
  BY DEF Threads
<1>2. QED
  BY <1>1 DEF ServerThread, RecvRequest, RecvQuery, RecvUnknown, RecvEof, MakeDir, Delete, Rename,
         BeginFile, BeginFileFails, BeginResume, BeginResumeFails, ReceiveBlock, ReceiveFails,
         Finish, FinishRefused, treeVars, Handles

\* What backup_old_version leaves under .versions.
LEMMA BackedUpKeeps ==
    ASSUME TreeTypes, NEW p \in Paths, IsFile(current[p])
    PROVE  BackedUp(p)[p] = current[p]
<1>1. BackedUp(p) = [versions EXCEPT ![p] = current[p]]
  BY DEF BackedUp
<1>2. QED
  BY <1>1 DEF TreeTypes

\* While an upload has the mutex nobody else replaces what it has kept.
LEMMA OldSafeStep ==
    ASSUME NEW M, M \subseteq Fitting, ServerTypes(M), Threads, OldSafe,
           NEW k \in Conns, ServerThread(k)
    PROVE  OldSafe'
<1> USE DEF ServerTypes
<1> SUFFICES ASSUME NEW j \in Conns, srvPc'[j] = "blocks", req'[j].type = "BEGIN",
                    IsFile(current'[last'[j]])
             PROVE  current'[last'[j]] \in archive'[last'[j]] \cup {versions'[last'[j]], trash'[last'[j]]}
  BY DEF OldSafe, Kept
<1>1. CASE j # k
  <2>1. SameConn(j)
    BY <1>1, OtherConns
  <2>2. mutex \notin {0, k}
    BY <1>1, <2>1 DEF SameConn, Threads, Conns
  <2>3. UNCHANGED <<current, versions, trash, archive>>
    BY <2>2, TreeMoves
  <2>4. QED
    BY <2>1, <2>3 DEF SameConn, OldSafe, Kept
<1>2. CASE j = k
  <2>1. ASSUME NEW reply \in {Ack, Error, NoMsg}, Leave(k, reply), mutex' \in {mutex, 0}
        PROVE  FALSE
    BY <1>2, <2>1, LeaveEffect
  <2>2. CASE RecvUnknown(k) \/ RecvEof(k) \/ MakeDir(k) \/ Delete(k) \/ Rename(k)
    BY <2>1, <2>2 DEF RecvUnknown, RecvEof, MakeDir, Delete, Rename
  <2>3. CASE \/ BeginFileFails(k) \/ BeginResumeFails(k) \/ ReceiveFails(k) \/ Finish(k)
             \/ FinishRefused(k)
    BY <2>1, <2>3 DEF BeginFileFails, BeginResumeFails, ReceiveFails, Finish, FinishRefused
  <2>4. CASE RecvRequest(k) \/ RecvQuery(k) \/ BeginResume(k)
    BY <1>2, <2>4 DEF RecvRequest, RecvQuery, BeginResume, Handles, WireTypes
  <2>5. CASE BeginFile(k)
    <3>1. last[k] \in Paths
      BY <2>5, RequestOf DEF BeginFile, Handles
    <3>2. versions' = BackedUp(last[k]) /\ current' = current /\ last' = last
      BY <2>5 DEF BeginFile, Target
    <3>3. versions'[last[k]] = current[last[k]]
      BY <1>2, <3>1, <3>2, BackedUpKeeps
    <3>4. QED
      BY <1>2, <3>2, <3>3
  <2>6. CASE ReceiveBlock(k)
    BY <1>2, <2>6 DEF ReceiveBlock, threadVars, OldSafe, Kept
  <2>7. QED
    BY <2>2, <2>3, <2>4, <2>5, <2>6 DEF ServerThread
<1>3. QED
  BY <1>1, <1>2

\* What a step that is no rename, and in which no disk operation fails, takes out of
\* current/ is kept.
LEMMA OldFileStep ==
    ASSUME NEW M, M \subseteq Fitting, ServerTypes(M), Threads, OldSafe,
           NEW k \in Conns, ServerThread(k), ~Rename(k), DiskWorks,
           NEW p \in Paths, IsFile(current[p]), CanBackup(p), current'[p] # current[p]
    PROVE  current[p] \in Kept(p)'
<1> USE DEF ServerTypes
<1>1. CASE MakeDir(k)
  BY <1>1 DEF MakeDir, TreeTypes, IsFile
<1>2. CASE Delete(k)
  <2>1. req[k].path = p /\ trash'[p] = current[p]
    BY <1>2 DEF Delete, TreeTypes
  <2>2. QED
    BY <2>1 DEF Kept
<1>3. CASE Finish(k)
  <2>1. last[k] = p
    BY <1>3 DEF Finish, Target, TreeTypes
  <2>2. CASE req[k].type = "BEGIN"
    <3>1. current[p] \in Kept(p)
      BY <1>3, <2>1, <2>2 DEF Finish, OldSafe
    <3>2. UNCHANGED <<versions, trash, archive>>
      BY <1>3, <2>2 DEF Finish, BackupNow
    <3>3. QED
      BY <3>1, <3>2 DEF Kept
  <2>3. CASE req[k].type # "BEGIN"
    <3>1. ~DiskFails
      BY ServerAssumption DEF DiskWorks, DiskFails, TreeTypes
    <3>2. versions' = BackedUp(p)
      BY <1>3, <2>1, <2>3, <3>1 DEF Finish, BackupNow, Target
    <3>3. versions'[p] = current[p]
      BY <3>2, BackedUpKeeps
    <3>4. QED
      BY <3>3 DEF Kept
  <2>4. QED
    BY <2>2, <2>3
<1>4. current' = current \/ MakeDir(k) \/ Delete(k) \/ Finish(k)
  BY DEF ServerThread, RecvRequest, RecvQuery, RecvUnknown, RecvEof,
         BeginFile, BeginFileFails, BeginResume, BeginResumeFails, ReceiveBlock, ReceiveFails,
         FinishRefused, treeVars
<1>5. QED
  BY <1>1, <1>2, <1>3, <1>4

\* A request that changes a path says so in applied, and any other step says nothing.
LEMMA ChangeIsApplied ==
    ASSUME NEW M, M \subseteq Fitting, ServerTypes(M), Threads, NEW k \in Conns,
           MakeDir(k) \/ Delete(k) \/ Rename(k) \/ Finish(k)
    PROVE  \/ applied'[k] # NoEffect
           \/ applied' = applied /\ Leave(k, Error) /\ mutex' \in {mutex, 0}
<1> USE DEF ServerTypes
<1>1. CASE MakeDir(k)
  <2>1. req[k].path \in Paths
    BY <1>1, RequestOf DEF MakeDir, Handles, IsRequest
  <2>2. QED
    BY <1>1, <2>1, ServerAssumption DEF MakeDir, TreeTypes
<1>2. CASE Delete(k)
  BY <1>2, ServerAssumption DEF Delete, TreeTypes
<1>3. CASE Rename(k)
  <2>1. req[k].old \in Paths
    BY <1>3, RequestOf DEF Rename, Handles, IsRequest
  <2>2. QED
    BY <1>3, <2>1, ServerAssumption DEF Rename, TreeTypes
<1>4. CASE Finish(k)
  <2>1. Target(k) \in Paths
    BY <1>4, RequestOf DEF Finish, Threads, Target
  <2>2. QED
    BY <1>4, <2>1, ServerAssumption DEF Finish, TreeTypes
<1>5. QED
  BY <1>1, <1>2, <1>3, <1>4

\* A thread acknowledges only what it did.
LEMMA AckStep ==
    ASSUME NEW M, M \subseteq Fitting, ServerTypes(M), Threads, AckApplied,
           NEW k \in Conns, ServerThread(k)
    PROVE  AckApplied'
<1> USE DEF ServerTypes
<1> SUFFICES ASSUME NEW j \in Conns, NEW i \in DOMAIN down'[j], down'[j][i].type = "ACK"
             PROVE  applied'[j] # NoEffect
  BY DEF AckApplied
<1>1. CASE j # k
  BY <1>1, OtherConns DEF SameConn, AckApplied
<1>2. CASE j = k
  <2>1. down[k] \in Seq(Replies)
    BY DEF WireTypes
  <2>2. ASSUME NEW r, down'[k] \in {down[k], Append(down[k], r)}, r.type # "ACK",
               applied'[k] = applied[k]
        PROVE  applied'[j] # NoEffect
    <3>1. i \in DOMAIN down[k] /\ down[k][i].type = "ACK"
      BY <1>2, <2>1, <2>2
    <3>2. QED
      BY <1>2, <2>2, <3>1 DEF AckApplied
  <2>3. ASSUME down'[k] = down[k], applied'[k] = applied[k]
        PROVE  applied'[j] # NoEffect
    BY <1>2, <2>3 DEF AckApplied
  <2>4. ASSUME NEW reply \in {Error, NoMsg}, Leave(k, reply), mutex' \in {mutex, 0}, applied'[k] = applied[k]
        PROVE  applied'[j] # NoEffect
    <3>1. /\ down'[k] \in {down[k], Append(down[k], reply)}
          /\ reply = NoMsg => down'[k] = down[k]
      BY <2>4, LeaveEffect
    <3>2. QED
      BY <2>2, <2>3, <2>4, <3>1 DEF Error
  <2>5. CASE RecvRequest(k) \/ BeginFile(k) \/ BeginResume(k) \/ ReceiveBlock(k)
    BY <2>3, <2>5 DEF RecvRequest, BeginFile, BeginResume, ReceiveBlock, netVars, treeVars
  <2>6. CASE RecvQuery(k)
    <3> DEFINE r == [type |-> "OFFSET", offset |-> SizeOf(temp[Head(up[k]).path])]
    <3>1. down' = Sent(k, r) /\ applied' = applied
      BY <2>6 DEF RecvQuery, treeVars
    <3>2. r.type # "ACK"
      OBVIOUS
    <3> HIDE DEF r
    <3>3. down'[k] \in {down[k], Append(down[k], r)}
      BY <3>1 DEF Sent, WireTypes
    <3>4. QED
      BY <2>2, <3>1, <3>2, <3>3
  <2>7. CASE RecvUnknown(k) \/ RecvEof(k) \/ BeginFileFails(k) \/ BeginResumeFails(k)
             \/ ReceiveFails(k) \/ FinishRefused(k)
    BY <2>4, <2>7 DEF RecvUnknown, RecvEof, BeginFileFails, BeginResumeFails, ReceiveFails,
                      FinishRefused, treeVars
  <2>8. CASE MakeDir(k) \/ Delete(k) \/ Rename(k) \/ Finish(k)
    <3>1. \/ applied'[k] # NoEffect
          \/ applied' = applied /\ Leave(k, Error) /\ mutex' \in {mutex, 0}
      BY <2>8, ChangeIsApplied
    <3>2. QED
      BY <1>2, <2>4, <3>1
  <2>9. QED
    BY <2>5, <2>6, <2>7, <2>8 DEF ServerThread
<1>3. QED
  BY <1>1, <1>2

\* What a file is stored for: its hash was compared with one that a client computed.
LEMMA WholeStep ==
    ASSUME NEW M, M \subseteq Fitting, ServerTypes(M), Threads, NEW G, WholeOf(G),
           \A m \in M : m.type \in {"BEGIN", "BLOCK", "END"} => m.hash \in G \cup {NoHash},
           NEW k \in Conns, ServerThread(k)
    PROVE  WholeOf(G)'
<1> USE DEF ServerTypes
<1> SUFFICES ASSUME NEW p \in Paths, IsFile(current'[p])
             PROVE  current'[p] \in G \cup unhashed'
  BY DEF WholeOf
<1>1. CASE current' = current /\ unhashed' = unhashed
  BY <1>1 DEF WholeOf
<1>2. CASE MakeDir(k)
  BY <1>2 DEF MakeDir, TreeTypes, WholeOf, IsFile
<1>3. CASE Delete(k)
  BY <1>3 DEF Delete, TreeTypes, WholeOf, IsFile
<1>4. CASE Rename(k)
  <2>1. req[k].old \in Paths
    BY <1>4, RequestOf DEF Rename, Handles, IsRequest
  <2>2. QED
    BY <1>4, <2>1 DEF Rename, TreeTypes, WholeOf, IsFile
<1>5. CASE Finish(k)
  <2> DEFINE end == Head(up[k])
             x == temp[last[k]]
  <2>1. /\ end \in M /\ end.type = "END" /\ req[k] \in M /\ req[k].type \in {"BEGIN", "BLOCK"}
        /\ current' = [current EXCEPT ![last[k]] = x]
        /\ HashMatches(k, end)
    BY <1>5, NextMessage, RequestOf DEF Finish, Arrives, Threads, Target
  <2>2. end.hash \in G \cup {NoHash} /\ req[k].hash \in G \cup {NoHash}
    BY <2>1
  <2>3. x \in G \cup unhashed'
    <3>1. CASE Expected(k, end) # NoHash
      <4>1. x = Expected(k, end)
        BY <2>1, <3>1 DEF HashMatches, Target
      <4>2. QED
        BY <2>2, <3>1, <4>1 DEF Expected
    <3>2. CASE Expected(k, end) = NoHash
      <4>1. end.hash = NoHash /\ req[k].hash = NoHash
        BY <3>2 DEF Expected
      <4>2. QED
        BY <1>5, <4>1 DEF Finish, Target
    <3>3. QED
      BY <3>1, <3>2
  <2>4. unhashed \subseteq unhashed'
    BY <1>5 DEF Finish
  <2> HIDE DEF x, end
  <2>5. QED
    BY <2>1, <2>3, <2>4 DEF WholeOf, TreeTypes
<1>6. QED
  BY <1>1, <1>2, <1>3, <1>4, <1>5 DEF ServerThread, RecvRequest, RecvQuery, RecvUnknown, RecvEof,
         BeginFile, BeginFileFails, BeginResume, BeginResumeFails, ReceiveBlock, ReceiveFails,
         FinishRefused, treeVars
-----------------------------------------------------------------------------
(* All steps of the server *)

ServerInv(M, G) ==
    ServerTypes(M) /\ Threads /\ OldSafe /\ AckApplied /\ WholeOf(G)

\* Prefixes of what is under way are sequences of the same messages.
LEMMA CutSequences ==
    ASSUME NEW S, NEW s \in Seq(S), NEW n \in 0 .. Len(s)
    PROVE  /\ SubSeq(s, 1, n) \in Seq(S) /\ Len(SubSeq(s, 1, n)) = n
           /\ DOMAIN SubSeq(s, 1, n) \subseteq DOMAIN s
           /\ \A i \in DOMAIN SubSeq(s, 1, n) : SubSeq(s, 1, n)[i] = s[i]
<1>1. n \in Nat /\ Len(s) \in Nat
  OBVIOUS
<1>2. QED
  BY <1>1, SubSeqProperties

\* A connection that breaks loses a suffix of what is under way.
LEMMA CutEffect ==
    ASSUME NEW M, WireTypes(M), NEW k \in Conns, Cut(k)
    PROVE  /\ up' \in [Conns -> Seq(M)] /\ down' \in [Conns -> Seq(Replies)]
           /\ link' = [link EXCEPT ![k] = "cut"] /\ link[k] = "open"
           /\ UNCHANGED <<threadVars, treeVars>>
           /\ \A j \in Conns : /\ Len(up'[j]) <= Len(up[j]) /\ Len(down'[j]) <= Len(down[j])
                               /\ j # k => up'[j] = up[j] /\ down'[j] = down[j]
                               /\ DOMAIN up'[j] \subseteq DOMAIN up[j]
                               /\ \A i \in DOMAIN up'[j] : up'[j][i] = up[j][i]
                               /\ DOMAIN down'[j] \subseteq DOMAIN down[j]
                               /\ \A i \in DOMAIN down'[j] : down'[j][i] = down[j][i]
                               /\ up[j] = <<>> => up'[j] = <<>>
                               /\ down[j] = <<>> => down'[j] = <<>>
<1>1. up \in [Conns -> Seq(M)] /\ down \in [Conns -> Seq(Replies)]
  BY DEF WireTypes
<1>2. PICK n \in 0 .. Len(up[k]) : up' = [up EXCEPT ![k] = SubSeq(@, 1, n)]
  BY DEF Cut
<1>3. PICK m \in 0 .. Len(down[k]) : down' = [down EXCEPT ![k] = SubSeq(@, 1, m)]
  BY DEF Cut
<1> DEFINE u == SubSeq(up[k], 1, n)
           d == SubSeq(down[k], 1, m)
<1>4. /\ u \in Seq(M) /\ Len(u) = n /\ DOMAIN u \subseteq DOMAIN up[k]
      /\ \A i \in DOMAIN u : u[i] = up[k][i]
  BY <1>1, CutSequences
<1>5. /\ d \in Seq(Replies) /\ Len(d) = m /\ DOMAIN d \subseteq DOMAIN down[k]
      /\ \A i \in DOMAIN d : d[i] = down[k][i]
  BY <1>1, CutSequences
<1>6. up' = [up EXCEPT ![k] = u] /\ down' = [down EXCEPT ![k] = d]
  BY <1>2, <1>3
<1>7. n <= Len(up[k]) /\ m <= Len(down[k])
  OBVIOUS
<1>8. \A j \in Conns : Len(up[j]) \in Nat /\ Len(down[j]) \in Nat
  BY <1>1
<1> HIDE DEF u, d
<1>9. /\ up' \in [Conns -> Seq(M)] /\ down' \in [Conns -> Seq(Replies)]
      /\ up'[k] = u /\ down'[k] = d
      /\ \A j \in Conns \ {k} : up'[j] = up[j] /\ down'[j] = down[j]
  BY <1>1, <1>4, <1>5, <1>6
<1>10. (up[k] = <<>> => u = <<>>) /\ (down[k] = <<>> => d = <<>>)
  BY <1>4, <1>5, <1>7, EmptySeq
<1>11. QED
  BY <1>4, <1>5, <1>7, <1>8, <1>9, <1>10 DEF Cut

\* A broken connection keeps the invariant.
LEMMA CutKeeps ==
    ASSUME NEW M, NEW G, ServerInv(M, G), NEW k \in Conns, Cut(k)
    PROVE  ServerInv(M, G)'
<1> USE DEF ServerInv, ServerTypes
<1>1. WireTypes(M)'
  <2>1. link' \in [Conns -> Links]
    BY CutEffect DEF WireTypes, Links
  <2>2. QED
    BY <2>1, CutEffect DEF WireTypes, threadVars
<1>2. TreeTypes'
  BY ServerAssumption DEF Cut, TreeTypes, treeVars
<1>3. Threads'
  BY DEF Cut, Threads, threadVars
<1>4. OldSafe' /\ WholeOf(G)'
  BY DEF Cut, OldSafe, WholeOf, Kept, threadVars, treeVars
<1>5. AckApplied'
  BY CutEffect DEF AckApplied, treeVars
<1>6. QED
  BY <1>1, <1>2, <1>3, <1>4, <1>5

\* What is kept stays kept when the second is over.
LEMMA NewSecondKeeps ==
    ASSUME NEW M, NEW G, ServerInv(M, G), NewSecond
    PROVE  ServerInv(M, G)'
<1> USE DEF ServerInv, ServerTypes
<1>1. WireTypes(M)' /\ Threads' /\ AckApplied' /\ WholeOf(G)'
  BY DEF NewSecond, WireTypes, Threads, AckApplied, WholeOf, netVars, threadVars
<1>2. TreeTypes'
  <2>1. archive' \in [Paths -> SUBSET Files]
    <3>1. \A p \in Paths : FilesIn(versions[p]) \subseteq Files /\ FilesIn(trash[p]) \subseteq Files
      BY DEF TreeTypes, FilesIn
    <3>2. QED
      BY <3>1 DEF NewSecond, TreeTypes
  <2>2. QED
    BY <2>1 DEF NewSecond, TreeTypes
<1>3. OldSafe'
  <2> SUFFICES ASSUME NEW k \in Conns, srvPc[k] = "blocks", req[k].type = "BEGIN",
                      IsFile(current[last[k]])
               PROVE  current[last[k]] \in archive'[last[k]]
    BY DEF OldSafe, NewSecond, threadVars, Kept
  <2>1. last[k] \in Paths
    BY DEF Threads, WireTypes
  <2>2. current[last[k]] \in Kept(last[k])
    BY DEF OldSafe
  <2>3. QED
    BY <2>1, <2>2 DEF NewSecond, Kept, FilesIn, IsFile
<1>4. QED
  BY <1>1, <1>2, <1>3

\* A crash ends the threads and leaves the tree as it is.
LEMMA CrashEffect ==
    ASSUME NEW M, WireTypes(M), ServerCrash
    PROVE  /\ mutex' = 0 /\ UNCHANGED <<down, treeVars>>
           /\ \A k \in Conns :
                \/ /\ srvPc[k] \in {"recv", "lock", "blocks"} /\ srvPc'[k] = "gone"
                   /\ up'[k] = <<>> /\ req'[k] = NoMsg /\ last'[k] = NoPath
                   /\ link'[k] = IF link[k] = "open" THEN "cut" ELSE link[k]
                \/ /\ srvPc[k] \in {"none", "gone"} /\ srvPc'[k] = srvPc[k]
                   /\ up'[k] = up[k] /\ req'[k] = req[k] /\ last'[k] = last[k]
                   /\ link'[k] = link[k]
BY DEF ServerCrash, WireTypes, ThreadLabels

\* A crash keeps the invariant.
LEMMA CrashKeeps ==
    ASSUME NEW M, NEW G, ServerInv(M, G), ServerCrash
    PROVE  ServerInv(M, G)'
<1> USE DEF ServerInv, ServerTypes
<1>1. WireTypes(M)'
  <2>1. <<>> \in Seq(M)
    BY EmptySeq
  <2>2. up' \in [Conns -> Seq(M)] /\ link' \in [Conns -> Links] /\ srvPc' \in [Conns -> ThreadLabels]
    BY <2>1 DEF ServerCrash, WireTypes, Links, ThreadLabels
  <2>3. req' \in [Conns -> M \cup {NoMsg}] /\ last' \in [Conns -> Paths \cup {NoPath}]
    BY DEF ServerCrash, WireTypes
  <2>4. QED
    BY <2>2, <2>3 DEF ServerCrash, WireTypes
<1>2. TreeTypes'
  BY ServerAssumption DEF ServerCrash, TreeTypes, treeVars
<1>3. Threads'
  <2>1. \A k \in Conns : k # 0
    BY DEF Conns
  <2>2. QED
    BY <2>1, CrashEffect DEF Threads
<1>4. OldSafe'
  BY CrashEffect DEF OldSafe
<1>5. AckApplied' /\ WholeOf(G)'
  BY DEF ServerCrash, AckApplied, WholeOf, treeVars
<1>6. QED
  BY <1>1, <1>2, <1>3, <1>4, <1>5

\* Every step of the server keeps the invariant.
LEMMA ServerKeeps ==
    ASSUME NEW M, M \subseteq Fitting, NEW G, ServerInv(M, G), ServerNext,
           \A m \in M : m.type \in {"BEGIN", "BLOCK", "END"} => m.hash \in G \cup {NoHash}
    PROVE  ServerInv(M, G)'
<1>1. ASSUME NEW k \in Conns, ServerThread(k)
      PROVE  ServerInv(M, G)'
  BY <1>1, WireStep, TreeStep, ThreadsStep, OldSafeStep, AckStep, WholeStep
     DEF ServerInv, ServerTypes
<1>2. QED
  BY <1>1, CutKeeps, NewSecondKeeps, CrashKeeps DEF ServerNext

\* The step of the whole server that takes a file out of current/.
LEMMA OldFileKeeps ==
    ASSUME NEW M, M \subseteq Fitting, NEW G, ServerInv(M, G), ServerNext,
           \A k \in Conns : ~Rename(k), DiskWorks,
           NEW p \in Paths, IsFile(current[p]), CanBackup(p), current'[p] # current[p]
    PROVE  current[p] \in Kept(p)'
<1>1. ASSUME NEW k \in Conns, ServerThread(k)
      PROVE  current[p] \in Kept(p)'
  BY <1>1, OldFileStep DEF ServerInv
<1>2. QED
  BY <1>1 DEF ServerNext, Cut, NewSecond, ServerCrash, treeVars
-----------------------------------------------------------------------------
(* What a client can observe *)

\* A thread consumes messages, one by one or all at once, and answers once.
LEMMA ThreadEffect ==
    ASSUME NEW M, M \subseteq Fitting, ServerTypes(M), Threads, NEW k \in Conns, ServerThread(k)
    PROVE  /\ srvPc[k] \in {"recv", "lock", "blocks"}
           /\ \A i \in DOMAIN up'[k] : \E j \in DOMAIN up[k] : up'[k][i] = up[k][j]
           /\ \/ req'[k] \in {req[k], NoMsg}
              \/ \E j \in DOMAIN up[k] : req'[k] = up[k][j]
           /\ \/ RecvQuery(k)
              \/ down'[k] \in {down[k], Append(down[k], Ack), Append(down[k], Error)}
<1> USE DEF ServerTypes
<1>2. ASSUME NEW reply \in {Ack, Error, NoMsg}, Leave(k, reply), mutex' \in {mutex, 0}
      PROVE  /\ up'[k] = <<>> /\ req'[k] = NoMsg
             /\ down'[k] \in {down[k], Append(down[k], Ack), Append(down[k], Error)}
  BY <1>2, LeaveEffect
<1>3. ASSUME up'[k] = <<>>
      PROVE  \A i \in DOMAIN up'[k] : \E j \in DOMAIN up[k] : up'[k][i] = up[k][j]
  BY <1>3
<1>4. ASSUME up[k] # <<>>, Receive(k)
      PROVE  \A i \in DOMAIN up'[k] : \E j \in DOMAIN up[k] : up'[k][i] = up[k][j]
  <2>1. up'[k] = Tail(up[k])
    BY <1>4, ReceiveEffect
  <2>2. \A i \in DOMAIN Tail(up[k]) : i + 1 \in DOMAIN up[k] /\ Tail(up[k])[i] = up[k][i + 1]
    BY <1>4, NextMessage
  <2>3. QED
    BY <2>1, <2>2
<1>5. CASE RecvUnknown(k) \/ RecvEof(k)
  BY <1>2, <1>3, <1>5 DEF RecvUnknown, RecvEof
<1>6. CASE MakeDir(k) \/ Delete(k) \/ Rename(k) \/ BeginFileFails(k) \/ BeginResumeFails(k)
  BY <1>2, <1>3, <1>6 DEF MakeDir, Delete, Rename, BeginFileFails, BeginResumeFails, Handles
<1>7. CASE ReceiveFails(k) \/ Finish(k) \/ FinishRefused(k)
  BY <1>2, <1>3, <1>7 DEF ReceiveFails, Finish, FinishRefused
<1>8. CASE RecvRequest(k)
  <2>1. /\ up[k] # <<>> /\ Receive(k) /\ req'[k] = Head(up[k]) /\ down' = down /\ srvPc[k] = "recv"
    BY <1>8 DEF RecvRequest, WireTypes
  <2>2. Head(up[k]) = up[k][1] /\ 1 \in DOMAIN up[k]
    BY <2>1, NextMessage
  <2>3. QED
    BY <1>4, <2>1, <2>2
<1>9. CASE RecvQuery(k)
  BY <1>4, <1>9 DEF RecvQuery, Arrives
<1>10. CASE BeginFile(k) \/ BeginResume(k)
  BY <1>10 DEF BeginFile, BeginResume, Handles, netVars
<1>11. CASE ReceiveBlock(k)
  BY <1>4, <1>11 DEF ReceiveBlock, Arrives, threadVars
<1>12. QED
  BY <1>5, <1>6, <1>7, <1>8, <1>9, <1>10, <1>11 DEF ServerThread
=============================================================================

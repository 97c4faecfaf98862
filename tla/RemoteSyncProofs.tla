-------------------------- MODULE RemoteSyncProofs --------------------------
(***************************************************************************)
(* The safety of RemoteSync for any number of workers, connections, paths, *)
(* blocks and retries: a success was applied, what is in current/ was      *)
(* hashed or is known not to be, and what is replaced was kept.            *)
(***************************************************************************)
EXTENDS RemoteSync, ServerProofs

\* What a client sends when its hashes are of the files of G: blocks inside a file.
Sendable(G) ==
    {m \in Fitting : m.type \in {"BEGIN", "BLOCK", "END"} => m.hash \in G \cup {NoHash}}

ClientTypes ==
    /\ source \in [Paths -> UserFiles \cup {Absent, Dir}]
    /\ writes \in 0 .. MaxWrites /\ taken \in 0 .. MaxTasks
    /\ task \in [Workers -> Tasks \cup {NoTask}]
    /\ tries \in [Workers -> 0 .. MaxRetry]
    /\ cliPc \in [Workers -> ClientLabels]
    /\ sum \in [Workers -> Hashes]
    /\ hashFd \in [Workers -> UserFiles \cup {NotOpen, AtPath, Dir}]
    /\ held \in [Workers -> UserFiles \cup {NotOpen, AtPath, Dir}]
    /\ pos \in [Workers -> 0 .. MaxBlocks]

\* The labels at which a worker waits for or uses a connection.
Linked == {"rename", "small hash", "begin", "read", "offset", "large hash", "blocks", "ack"}

\* The labels after the hash was taken.
Summed == {"begin", "read", "blocks", "ack", "done"}

\* Connections that were not made yet are untouched, and no two workers share one.
Connections ==
    /\ made \in 0 .. MaxConns /\ conn \in [Workers -> 0 .. made]
    /\ \A k \in Conns : link[k] = "none" <=> k > made
    /\ \A k \in Conns : k > made => /\ up[k] = <<>> /\ down[k] = <<>> /\ srvPc[k] = "none"
                                    /\ applied[k] = NoEffect
    /\ \A v, w \in Workers : conn[v] = conn[w] /\ conn[v] # 0 => v = w

\* What a worker holds at each label.
Local(w) ==
    /\ task[w] = NoTask <=> cliPc[w] = "idle"
    /\ cliPc[w] \in {"idle", "start", "upload", "connect"} => conn[w] = 0
    /\ cliPc[w] \in Linked => conn[w] # 0 /\ link[conn[w]] \in {"open", "cut"}
    /\ cliPc[w] \notin HashLabels \cup Summed => sum[w] = NoHash
    /\ cliPc[w] \notin HashLabels => hashFd[w] = NotOpen
    /\ hashFd[w] = AtPath => source[Path(w)] # Absent
    /\ hashFd[w] # NotOpen => sum[w] \in Files
    /\ cliPc[w] \notin {"large hash", "blocks"} => held[w] = NotOpen
    /\ cliPc[w] \in {"large hash", "blocks"} =>
         held[w] # NotOpen /\ (held[w] = AtPath => source[Path(w)] # Absent)

\* Until the offset was asked for and told, and the hash taken, nothing is under way.
Asking(w) == LET k == conn[w] IN
    cliPc[w] \in {"offset", "begin"} \cup HashLabels =>
        /\ Len(up[k]) <= 1 /\ Len(down[k]) <= 1 /\ (up[k] = <<>> \/ down[k] = <<>>)
        /\ \A i \in DOMAIN up[k] : up[k][i].type = "QUERY"
        /\ srvPc[k] \in {"recv", "gone"} /\ applied[k] = NoEffect
        /\ cliPc[w] # "offset" => up[k] = <<>> /\ down[k] = <<>>

\* Afterwards no offset can be taken for an acknowledgement.
NoOffset(w) == LET k == conn[w] IN
    cliPc[w] \in {"rename", "read", "blocks", "ack"} =>
        /\ \A i \in DOMAIN up[k] : up[k][i].type # "QUERY"
        /\ \A i \in DOMAIN down[k] : down[k][i].type # "OFFSET"

\* A message of an upload of the file with hash x.
OfUpload(m, x) ==
    /\ m.type \in {"BEGIN", "BLOCK", "END"}
    /\ m.type = "BEGIN" => ~m.dir
    /\ m.type = "END" => m.hash = x

\* A connection for a hashed file stores that file or nothing.
Hashed(w) == LET k == conn[w] IN
    k # 0 /\ cliPc[w] \in Summed /\ sum[w] # NoHash =>
        /\ \A i \in DOMAIN up[k] : OfUpload(up[k][i], sum[w])
        /\ req[k] # NoMsg => OfUpload(req[k], sum[w])
        /\ applied[k] \in {NoEffect, sum[w]}

WorkerOK(w) ==
    /\ Local(w) /\ Asking(w) /\ NoOffset(w) /\ Hashed(w)
    /\ cliPc[w] = "done" /\ conn[w] # 0 => applied[conn[w]] # NoEffect

\* The hashes that were taken are of the files of G.
Sums(G) == \A w \in Workers : cliPc[w] \in Summed => sum[w] \in G \cup {NoHash}

\* With G the files of the user and the mixtures that were hashed so far.
Inv(G) ==
    /\ G \subseteq Files /\ G = UserFiles \cup torn
    /\ ServerInv(Sendable(G), G) /\ Connections /\ ClientTypes /\ Sums(G)
    /\ \A w \in Workers : WorkerOK(w)

IInv == \E G \in SUBSET Files : Inv(G)
-----------------------------------------------------------------------------
(* Lemmas about files and messages *)

\* What the user writes has no holes, but is a file.
LEMMA UserFilesAreFiles ==
    UserFiles \subseteq Files
BY RemoteAssumption DEF Files

\* 0 is no connection.
LEMMA NoConn == 0 \notin Conns
BY DEF Conns

\* Nothing under way.
LEMMA EmptySequence ==
    ASSUME NEW s, s = <<>> PROVE Len(s) = 0 /\ Len(s) <= 1 /\ DOMAIN s = {}
<1>1. Len(s) = 0
  OBVIOUS
<1>2. DOMAIN s = {}
  OBVIOUS
<1>3. QED
  BY <1>1, <1>2

\* Every message that a worker puts together is sendable.
LEMMA SendableMessages ==
    ASSUME NEW G, G \subseteq Files
    PROVE  /\ Sendable(G) \subseteq Fitting
           /\ \A m \in Sendable(G) :
                m.type \in {"BEGIN", "BLOCK", "END"} => m.hash \in G \cup {NoHash}
           /\ \A p \in Paths : [type |-> "DELETE", path |-> p] \in Sendable(G)
           /\ \A p \in Paths : [type |-> "QUERY", path |-> p] \in Sendable(G)
           /\ \A p, q \in Paths : [type |-> "RENAME", path |-> p, old |-> q] \in Sendable(G)
           /\ \A p \in Paths : \A d \in BOOLEAN : \A h \in G \cup {NoHash} :
                [type |-> "BEGIN", path |-> p, dir |-> d, hash |-> h] \in Sendable(G)
           /\ \A h \in G \cup {NoHash} : [type |-> "END", hash |-> h] \in Sendable(G)
           /\ \A o \in 0 .. MaxBlocks : \A x \in Files : \A h \in G \cup {NoHash} :
                o + Len(x) <= MaxBlocks =>
                  [type |-> "BLOCK", offset |-> o, hash |-> h, data |-> x] \in Sendable(G)
<1>1. G \cup {NoHash} \subseteq Hashes
  BY DEF Hashes
<1>2. \A p \in Paths : [type |-> "DELETE", path |-> p] \in Sendable(G)
  BY DEF Sendable, Fitting, Requests
<1>3. \A p \in Paths : [type |-> "QUERY", path |-> p] \in Sendable(G)
  BY DEF Sendable, Fitting, Requests
<1>4. \A p, q \in Paths : [type |-> "RENAME", path |-> p, old |-> q] \in Sendable(G)
  BY DEF Sendable, Fitting, Requests
<1>5. \A p \in Paths : \A d \in BOOLEAN : \A h \in G \cup {NoHash} :
         [type |-> "BEGIN", path |-> p, dir |-> d, hash |-> h] \in Sendable(G)
  BY <1>1 DEF Sendable, Fitting, Requests
<1>6. \A h \in G \cup {NoHash} : [type |-> "END", hash |-> h] \in Sendable(G)
  BY <1>1 DEF Sendable, Fitting, Requests
<1>7. ASSUME NEW o \in 0 .. MaxBlocks, NEW x \in Files, NEW h \in G \cup {NoHash},
             o + Len(x) <= MaxBlocks
      PROVE  [type |-> "BLOCK", offset |-> o, hash |-> h, data |-> x] \in Sendable(G)
  BY <1>1, <1>7 DEF Sendable, Fitting, Requests
<1>8. QED
  BY <1>2, <1>3, <1>4, <1>5, <1>6, <1>7 DEF Sendable

\* A hash more makes more messages sendable, and more files whole.
LEMMA MoreHashes ==
    ASSUME NEW G, NEW H, G \subseteq H, ServerInv(Sendable(G), G)'
    PROVE  ServerInv(Sendable(H), H)'
<1>1. Sendable(G) \subseteq Sendable(H)
  BY DEF Sendable
<1>2. Seq(Sendable(G)) \subseteq Seq(Sendable(H))
  BY <1>1
<1>3. WireTypes(Sendable(H))'
  BY <1>1, <1>2 DEF ServerInv, ServerTypes, WireTypes
<1>4. WholeOf(H)'
  BY DEF ServerInv, WholeOf
<1>5. QED
  BY <1>3, <1>4 DEF ServerInv, ServerTypes

\* The invariant holds at first.
LEMMA InitIInv ==
    ASSUME Init PROVE IInv
<1>1. ServerInv(Sendable(UserFiles), UserFiles)
  <2>1. ServerTypes(Sendable(UserFiles)) /\ Threads
    BY InitTypes DEF Init
  <2>2. OldSafe /\ AckApplied /\ WholeOf(UserFiles)
    BY DEF Init, ServerInit, OldSafe, AckApplied, WholeOf, IsFile
  <2>3. QED
    BY <2>1, <2>2 DEF ServerInv
<1>2. Connections
  <2>1. \A k \in Conns : k > 0
    BY DEF Conns
  <2>2. QED
    BY <2>1, ServerAssumption DEF Init, ServerInit, Connections
<1>3. ClientTypes
  BY RemoteAssumption, FileAssumption DEF Init, ClientTypes, ClientLabels, Hashes
<1>4. ASSUME NEW w \in Workers PROVE WorkerOK(w)
  BY RemoteAssumption
     DEF Init, WorkerOK, Local, Asking, NoOffset, Hashed, Linked, HashLabels, Summed
<1>5. Sums(UserFiles)
  BY DEF Init, Sums
<1>6. Inv(UserFiles)
  BY <1>1, <1>2, <1>3, <1>4, <1>5, UserFilesAreFiles DEF Inv, Init
<1>7. QED
  BY <1>6, UserFilesAreFiles DEF IInv
-----------------------------------------------------------------------------
(* What the steps of a client do to the connections *)

\* What a client does not touch, and how little it needs of the rest.
LEMMA ClientSide ==
    ASSUME NEW G, ServerInv(Sendable(G), G), UNCHANGED <<req, last, mutex, treeVars, faults>>,
           up' \in [Conns -> Seq(Sendable(G))], down' \in [Conns -> Seq(Replies)],
           link' \in [Conns -> Links], srvPc' \in [Conns -> ThreadLabels],
           \A k \in Conns : srvPc'[k] = srvPc[k] \/ (srvPc[k] = "none" /\ srvPc'[k] = "recv"),
           \A k \in Conns : \A i \in DOMAIN down'[k] :
             \E j \in DOMAIN down[k] : down'[k][i] = down[k][j]
    PROVE  ServerInv(Sendable(G), G)'
<1> USE DEF ServerInv, ServerTypes
<1>1. WireTypes(Sendable(G))' /\ TreeTypes'
  BY DEF WireTypes, TreeTypes, treeVars
<1>2. Threads' /\ OldSafe'
  <2>1. Threads'
    BY DEF Threads, treeVars
  <2>2. OldSafe'
    BY DEF OldSafe, Kept, treeVars
  <2>3. QED
    BY <2>1, <2>2
<1>3. AckApplied' /\ WholeOf(G)'
  BY DEF AckApplied, WholeOf, treeVars
<1>4. QED
  BY <1>1, <1>2, <1>3

\* The other workers, and their connections, stay as they are.
Apart(w) == \A v \in Workers \ {w} :
    conn'[v] = conn[v] /\ (conn[v] # 0 => SameConn(conn[v]))

\* A new connection has a fresh thread and carries what was sent first.
LEMMA ConnectEffect ==
    ASSUME NEW G, ServerInv(Sendable(G), G), Connections, NEW w \in Workers, conn[w] = 0,
           NEW ms \in Seq(Sendable(G)), Connect(w, ms)
    PROVE  /\ ServerInv(Sendable(G), G)' /\ Connections' /\ Apart(w)
           /\ conn'[w] \in Conns /\ up'[conn'[w]] = ms /\ down'[conn'[w]] = <<>>
           /\ link'[conn'[w]] = "open" /\ srvPc'[conn'[w]] = "recv"
           /\ req'[conn'[w]] = NoMsg /\ applied'[conn'[w]] = NoEffect
<1> DEFINE k == made + 1
<1>1. k \in Conns /\ made \in Nat /\ k > made /\ made' = k
  BY ServerAssumption DEF Connect, Connections, Conns
<1>2. /\ up[k] = <<>> /\ down[k] = <<>> /\ srvPc[k] = "none" /\ link[k] = "none"
      /\ applied[k] = NoEffect /\ req[k] = NoMsg
  BY <1>1 DEF Connections, ServerInv, Threads
<1>3. /\ conn' = [conn EXCEPT ![w] = k] /\ up' = [up EXCEPT ![k] = ms]
      /\ link' = [link EXCEPT ![k] = "open"] /\ srvPc' = [srvPc EXCEPT ![k] = "recv"]
      /\ UNCHANGED <<down, req, last, mutex, treeVars, faults>>
  BY <1>1 DEF Connect
<1>4. WireTypes(Sendable(G))
  BY DEF ServerInv, ServerTypes
<1>5. conn \in [Workers -> 0 .. made]
  BY DEF Connections
<1> HIDE DEF k
<1>6. ServerInv(Sendable(G), G)'
  <2>2. /\ up' \in [Conns -> Seq(Sendable(G))] /\ down' \in [Conns -> Seq(Replies)]
        /\ link' \in [Conns -> Links] /\ srvPc' \in [Conns -> ThreadLabels]
    BY <1>3, <1>4 DEF WireTypes, Links, ThreadLabels
  <2>3. \A j \in Conns : srvPc'[j] = srvPc[j] \/ (srvPc[j] = "none" /\ srvPc'[j] = "recv")
    BY <1>2, <1>3, <1>4 DEF WireTypes
  <2>4. \A j \in Conns : \A i \in DOMAIN down'[j] : \E l \in DOMAIN down[j] : down'[j][i] = down[j][l]
    BY <1>3
  <2>5. QED
    BY <1>3, <2>2, <2>3, <2>4, ClientSide
<1>7. \A v \in Workers : conn[v] < k /\ conn[v] # k
  BY <1>1, <1>5 DEF k
<1>8. Apart(w)
  <2> SUFFICES ASSUME NEW v \in Workers \ {w}
               PROVE  conn'[v] = conn[v] /\ (conn[v] # 0 => SameConn(conn[v]))
    BY DEF Apart
  <2>1. conn[v] # k /\ conn'[v] = conn[v]
    BY <1>3, <1>5, <1>7
  <2>2. QED
    BY <1>3, <1>4, <2>1 DEF SameConn, WireTypes, treeVars
<1>9. Connections'
  <2>1. made' \in 0 .. MaxConns /\ conn' \in [Workers -> 0 .. made']
    BY <1>1, <1>3, <1>5, ServerAssumption DEF Conns, k
  <2>2. \A j \in Conns : j > made' <=> j > made /\ j # k
    BY <1>1 DEF Conns, k
  <2>3. \A j \in Conns : link'[j] = "none" <=> j > made'
    BY <1>3, <1>4, <2>2 DEF Connections, WireTypes
  <2>4. \A j \in Conns : j > made' => /\ up'[j] = <<>> /\ down'[j] = <<>> /\ srvPc'[j] = "none"
                                      /\ applied'[j] = NoEffect
    BY <1>3, <1>4, <2>2 DEF Connections, WireTypes, treeVars
  <2>5. \A u, v \in Workers : conn'[u] = conn'[v] /\ conn'[u] # 0 => u = v
    BY <1>3, <1>5, <1>7 DEF Connections
  <2>6. QED
    BY <2>1, <2>3, <2>4, <2>5 DEF Connections
<1>10. QED
  BY <1>1, <1>2, <1>3, <1>4, <1>5, <1>6, <1>8, <1>9 DEF WireTypes, treeVars

\* The connection of a worker was made.
LEMMA OwnConn ==
    ASSUME Connections, NEW w \in Workers, conn[w] # 0
    PROVE  conn[w] \in Conns /\ conn[w] <= made
BY ServerAssumption DEF Connections, Conns

\* What is sent is delivered whole or, on a broken connection, not at all.
LEMMA SendEffect ==
    ASSUME NEW G, ServerInv(Sendable(G), G), Connections, NEW w \in Workers, conn[w] # 0,
           NEW ms \in Seq(Sendable(G)), Send(w, ms),
           UNCHANGED <<down, link, ServerRest, made, conn>>
    PROVE  /\ ServerInv(Sendable(G), G)' /\ Connections' /\ Apart(w)
           /\ up'[conn[w]] \in {up[conn[w]], up[conn[w]] \o ms}
<1> DEFINE k == conn[w]
<1>1. k \in Conns /\ k <= made
  BY OwnConn
<1>2. WireTypes(Sendable(G)) /\ up \in [Conns -> Seq(Sendable(G))]
  BY DEF ServerInv, ServerTypes, WireTypes
<1>3. up' \in {up, [up EXCEPT ![k] = up[k] \o ms]}
  BY DEF Send
<1>4. up[k] \o ms \in Seq(Sendable(G))
  BY <1>1, <1>2, ConcatProperties
<1>5. up' \in [Conns -> Seq(Sendable(G))] /\ \A j \in Conns \ {k} : up'[j] = up[j]
  BY <1>2, <1>3, <1>4
<1>6. ServerInv(Sendable(G), G)'
  <2>1. /\ down' \in [Conns -> Seq(Replies)] /\ link' \in [Conns -> Links]
        /\ srvPc' \in [Conns -> ThreadLabels]
    BY <1>2 DEF WireTypes, ServerRest, threadVars
  <2>2. QED
    BY <1>5, <2>1, ClientSide DEF ServerRest, threadVars
<1>7. Apart(w)
  <2> SUFFICES ASSUME NEW v \in Workers \ {w}, conn[v] # 0
               PROVE  SameConn(conn[v])
    BY DEF Apart
  <2>1. conn[v] \in Conns \ {k}
    BY OwnConn DEF Connections
  <2>2. QED
    BY <1>5, <2>1 DEF SameConn, ServerRest, threadVars, treeVars
<1>8. Connections'
  <2>1. made \in Nat
    BY DEF Connections
  <2>2. \A j \in Conns : j > made => j # k
    BY <1>1, <2>1 DEF Conns
  <2> HIDE DEF k
  <2>3. QED
    BY <1>5, <2>2 DEF Connections, ServerRest, threadVars, treeVars
<1>9. QED
  BY <1>1, <1>2, <1>3, <1>6, <1>7, <1>8

\* An answer that is there is the first of the replies.
LEMMA AnswerHead ==
    ASSUME NEW G, ServerInv(Sendable(G), G), Connections, NEW w \in Workers, conn[w] # 0,
           Answered(w)
    PROVE  /\ Answer(w) \in Replies /\ Answer(w) = down[conn[w]][1] /\ 1 \in DOMAIN down[conn[w]]
           /\ Tail(down[conn[w]]) \in Seq(Replies)
           /\ Len(Tail(down[conn[w]])) = Len(down[conn[w]]) - 1 /\ Len(down[conn[w]]) \in Nat \ {0}
           /\ \A i \in DOMAIN Tail(down[conn[w]]) :
                i + 1 \in DOMAIN down[conn[w]] /\ Tail(down[conn[w]])[i] = down[conn[w]][i + 1]
<1>1. down[conn[w]] \in Seq(Replies) /\ down[conn[w]] # <<>>
  BY OwnConn DEF ServerInv, ServerTypes, WireTypes, Answered
<1>2. QED
  BY <1>1 DEF Answer

\* A worker takes an answer, closes its connection, or both.
LEMMA CloseEffect ==
    ASSUME NEW G, ServerInv(Sendable(G), G), Connections, NEW w \in Workers,
           UNCHANGED <<up, ServerRest, made>>,
           down' = down \/ (conn[w] # 0 /\ Answered(w) /\ TakeAnswer(w)),
           link' \in {link, Closed(w)}, conn' \in {conn, [conn EXCEPT ![w] = 0]}
    PROVE  /\ ServerInv(Sendable(G), G)' /\ Connections' /\ Apart(w)
           /\ down' # down => down'[conn[w]] = Tail(down[conn[w]])
           /\ conn[w] # 0 => \A i \in DOMAIN down'[conn[w]] :
                               \E j \in DOMAIN down[conn[w]] : down'[conn[w]][i] = down[conn[w]][j]
<1> DEFINE k == conn[w]
<1>1. conn \in [Workers -> 0 .. made] /\ (k # 0 => k \in Conns /\ k <= made)
  BY OwnConn DEF Connections
<1>2. /\ up \in [Conns -> Seq(Sendable(G))] /\ down \in [Conns -> Seq(Replies)]
      /\ link \in [Conns -> Links] /\ srvPc \in [Conns -> ThreadLabels]
  BY DEF ServerInv, ServerTypes, WireTypes
<1>3. /\ down' \in [Conns -> Seq(Replies)]
      /\ \A j \in Conns : j # k => down'[j] = down[j]
      /\ \A j \in Conns : \A i \in DOMAIN down'[j] : \E l \in DOMAIN down[j] : down'[j][i] = down[j][l]
      /\ down' # down => down'[k] = Tail(down[k])
  <2>1. CASE down' = down
    BY <1>2, <2>1
  <2>2. CASE k # 0 /\ Answered(w) /\ TakeAnswer(w)
    <3>1. down' = [down EXCEPT ![k] = Tail(down[k])] /\ k \in Conns
      BY <1>1, <2>2 DEF TakeAnswer
    <3>2. /\ Tail(down[k]) \in Seq(Replies)
          /\ \A i \in DOMAIN Tail(down[k]) : i + 1 \in DOMAIN down[k] /\ Tail(down[k])[i] = down[k][i + 1]
      BY <2>2, AnswerHead
    <3> HIDE DEF k
    <3>3. /\ down' \in [Conns -> Seq(Replies)] /\ down'[k] = Tail(down[k])
          /\ \A j \in Conns : j # k => down'[j] = down[j]
      BY <1>2, <3>1, <3>2
    <3>4. QED
      BY <3>1, <3>2, <3>3
  <2>3. QED
    BY <2>1, <2>2
<1>4. /\ link' \in [Conns -> Links]
      /\ \A j \in Conns : /\ j # k => link'[j] = link[j]
                          /\ link'[j] = "none" <=> link[j] = "none"
  BY <1>1, <1>2 DEF Closed, Links
<1>5. ServerInv(Sendable(G), G)'
  BY <1>2, <1>3, <1>4, ClientSide DEF ServerRest, threadVars
<1>6. Apart(w)
  <2> SUFFICES ASSUME NEW v \in Workers \ {w}
               PROVE  conn'[v] = conn[v] /\ (conn[v] # 0 => SameConn(conn[v]))
    BY DEF Apart
  <2>1. conn'[v] = conn[v] /\ (conn[v] # 0 => conn[v] \in Conns \ {k})
    BY <1>1, OwnConn DEF Connections
  <2>2. QED
    BY <1>3, <1>4, <2>1 DEF SameConn, ServerRest, threadVars, treeVars
<1>7. Connections'
  <2>1. \A j \in Conns : j > made => j # k
    BY <1>1 DEF Conns, Connections
  <2>2. conn' \in [Workers -> 0 .. made]
    BY <1>1 DEF Connections
  <2>3. \A u, v \in Workers : conn'[u] = conn'[v] /\ conn'[u] # 0 => u = v
    BY <1>1 DEF Connections
  <2> HIDE DEF k
  <2>4. QED
    BY <1>3, <1>4, <2>1, <2>2, <2>3 DEF Connections, ServerRest, threadVars, treeVars
<1>8. QED
  BY <1>1, <1>3, <1>5, <1>6, <1>7
-----------------------------------------------------------------------------
(* A worker that does not move *)

\* What a worker keeps when another one or the user moves.
Still(v) ==
    /\ task'[v] = task[v] /\ cliPc'[v] = cliPc[v] /\ sum'[v] = sum[v]
    /\ hashFd'[v] = hashFd[v] /\ held'[v] = held[v]

\* A worker that does not move, and whose connection does not, stays as it is.
LEMMA StillKeeps ==
    ASSUME Connections, NEW v \in Workers, WorkerOK(v), Still(v), conn'[v] = conn[v],
           conn[v] # 0 => SameConn(conn[v]),
           source' = source
    PROVE  WorkerOK(v)'
<1>1. Local(v)'
  BY DEF WorkerOK, Local, Still, SameConn, Path, Linked
<1>2. cliPc[v] \in Linked => conn[v] # 0
  BY DEF WorkerOK, Local
<1>3. Asking(v)'
  BY <1>2 DEF WorkerOK, Linked, Asking, Still, SameConn, HashLabels
<1>4. NoOffset(v)' /\ Hashed(v)'
  BY <1>2 DEF WorkerOK, Linked, NoOffset, Hashed, Still, SameConn
<1>5. QED
  BY <1>1, <1>3, <1>4 DEF WorkerOK, Still, SameConn

\* A step of one worker leaves what holds of the others.
LEMMA OthersKeep ==
    ASSUME NEW G, Connections, \A v \in Workers : WorkerOK(v), Sums(G),
           NEW w \in Workers, Apart(w), \A v \in Workers \ {w} : Still(v),
           source' = source, WorkerOK(w)', cliPc'[w] \in Summed => sum'[w] \in G \cup {NoHash}
    PROVE  (\A v \in Workers : WorkerOK(v)') /\ Sums(G)'
<1>1. ASSUME NEW v \in Workers, v # w PROVE WorkerOK(v)'
  BY <1>1, StillKeeps DEF Apart
<1>2. Sums(G)'
  BY DEF Sums, Still
<1>3. QED
  BY <1>1, <1>2
-----------------------------------------------------------------------------
(* A step of the server *)

\* The server makes no connections.
LEMMA ServerConnections ==
    ASSUME NEW G, G \subseteq Files, ServerInv(Sendable(G), G), Connections, ServerNext, UNCHANGED cliVars
    PROVE  Connections'
<1> USE DEF ServerInv, ServerTypes
<1>1. \A k \in Conns : k > made => srvPc[k] = "none" /\ link[k] = "none" /\ up[k] = <<>>
                                   /\ down[k] = <<>> /\ applied[k] = NoEffect
  BY DEF Connections
<1>2. made' = made /\ conn' = conn
  BY DEF cliVars
<1>3. CASE \E k \in Conns : ServerThread(k)
  <2>1. PICK k \in Conns : ServerThread(k)
    BY <1>3
  <2>2. ~(k > made)
    BY <1>1, <2>1, ThreadEffect, SendableMessages
  <2>3. \A j \in Conns : j # k => SameConn(j) /\ link' = link
    BY <2>1, OtherConns
  <2>4. link' = link
    BY <2>1 DEF ServerThread, RecvRequest, RecvQuery, RecvUnknown, RecvEof, MakeDir, Delete, Rename,
         BeginFile, BeginFileFails, BeginResume, BeginResumeFails, ReceiveBlock, ReceiveFails,
         Finish, FinishRefused, Leave, netVars
  <2>5. QED
    BY <1>1, <1>2, <2>2, <2>3, <2>4 DEF Connections, SameConn
<1>4. ASSUME NEW k \in Conns, Cut(k)
      PROVE  Connections'
  <2>1. /\ ~(k > made) /\ link' = [link EXCEPT ![k] = "cut"] /\ link[k] = "open"
        /\ UNCHANGED <<threadVars, treeVars>>
        /\ \A j \in Conns : j # k => up'[j] = up[j] /\ down'[j] = down[j]
    BY <1>1, <1>4, CutEffect
  <2>2. \A j \in Conns : link'[j] = "none" <=> link[j] = "none"
    BY <2>1 DEF WireTypes
  <2>3. QED
    BY <1>2, <2>1, <2>2 DEF Connections, threadVars, treeVars
<1>5. CASE NewSecond
  BY <1>2, <1>5 DEF NewSecond, Connections, netVars, threadVars
<1>6. CASE ServerCrash
  <2>1. \A j \in Conns : link'[j] = "none" <=> link[j] = "none"
    BY <1>6, CrashEffect
  <2>2. \A j \in Conns : j > made => up'[j] = <<>> /\ srvPc'[j] = "none"
    BY <1>1, <1>6, CrashEffect
  <2>3. down' = down /\ applied' = applied
    BY <1>6 DEF ServerCrash, treeVars
  <2>4. QED
    BY <1>2, <2>1, <2>2, <2>3 DEF Connections
<1>7. QED
  BY <1>3, <1>4, <1>5, <1>6 DEF ServerNext

\* The thread of a worker's own connection.
LEMMA OwnThread ==
    ASSUME NEW G, G \subseteq Files, ServerInv(Sendable(G), G), Connections, NEW w \in Workers, WorkerOK(w),
           conn[w] # 0, ServerThread(conn[w]), UNCHANGED <<userVars, cliVars>>
    PROVE  WorkerOK(w)'
<1> DEFINE k == conn[w]
<1> USE DEF ServerInv, ServerTypes
<1>1. k \in Conns /\ conn' = conn /\ task' = task /\ cliPc' = cliPc /\ sum' = sum /\ held' = held
      /\ hashFd' = hashFd /\ source' = source
  BY OwnConn DEF cliVars, sumVars, userVars
<1>2. /\ srvPc[k] \in {"recv", "lock", "blocks"}
      /\ \A i \in DOMAIN up'[k] : \E j \in DOMAIN up[k] : up'[k][i] = up[k][j]
      /\ req'[k] \in {req[k], NoMsg} \/ \E j \in DOMAIN up[k] : req'[k] = up[k][j]
      /\ \/ RecvQuery(k)
         \/ down'[k] \in {down[k], Append(down[k], Ack), Append(down[k], Error)}
  BY <1>1, ThreadEffect, SendableMessages
<1>3. down[k] \in Seq(Replies) /\ up[k] \in Seq(Sendable(G)) /\ link \in [Conns -> Links]
  BY <1>1 DEF WireTypes
<1>4. Local(w)'
  <2>1. link' = link
    BY DEF ServerThread, RecvRequest, RecvQuery, RecvUnknown, RecvEof, MakeDir, Delete, Rename,
         BeginFile, BeginFileFails, BeginResume, BeginResumeFails, ReceiveBlock, ReceiveFails,
         Finish, FinishRefused, Leave, netVars
  <2>2. QED
    BY <1>1, <2>1 DEF WorkerOK, Local, Linked, Path
<1>5. NoOffset(w)'
  <2> SUFFICES ASSUME cliPc[w] \in {"rename", "read", "blocks", "ack"}
               PROVE  /\ \A i \in DOMAIN up'[k] : up'[k][i].type # "QUERY"
                      /\ \A i \in DOMAIN down'[k] : down'[k][i].type # "OFFSET"
    BY <1>1 DEF NoOffset
  <2>1. /\ \A i \in DOMAIN up[k] : up[k][i].type # "QUERY"
        /\ \A i \in DOMAIN down[k] : down[k][i].type # "OFFSET"
    BY DEF WorkerOK, NoOffset
  <2>2. ~RecvQuery(k)
    <3>1. up[k] # <<>> => Head(up[k]) = up[k][1] /\ 1 \in DOMAIN up[k]
      BY <1>3
    <3>2. QED
      BY <2>1, <3>1 DEF RecvQuery, Arrives
  <2>3. Ack.type # "OFFSET" /\ Error.type # "OFFSET"
    BY DEF Ack, Error
  <2>4. \A i \in DOMAIN down'[k] : down'[k][i].type # "OFFSET"
    <3>1. ASSUME NEW r, r.type # "OFFSET", down'[k] = Append(down[k], r)
          PROVE  \A i \in DOMAIN down'[k] : down'[k][i].type # "OFFSET"
      BY <1>3, <2>1, <3>1
    <3>2. QED
      BY <1>2, <2>1, <2>2, <2>3, <3>1
  <2>5. QED
    BY <1>2, <2>1, <2>4
<1>6. Asking(w)'
  <2> SUFFICES ASSUME cliPc[w] \in {"offset", "begin"} \cup HashLabels
               PROVE  /\ Len(up'[k]) <= 1 /\ Len(down'[k]) <= 1 /\ (up'[k] = <<>> \/ down'[k] = <<>>)
                      /\ \A i \in DOMAIN up'[k] : up'[k][i].type = "QUERY"
                      /\ srvPc'[k] \in {"recv", "gone"} /\ applied'[k] = NoEffect
                      /\ cliPc[w] # "offset" => up'[k] = <<>> /\ down'[k] = <<>>
    BY <1>1 DEF Asking
  <2>1. /\ Len(up[k]) <= 1 /\ Len(down[k]) <= 1 /\ (up[k] = <<>> \/ down[k] = <<>>)
        /\ \A i \in DOMAIN up[k] : up[k][i].type = "QUERY"
        /\ srvPc[k] = "recv" /\ applied[k] = NoEffect
        /\ cliPc[w] # "offset" => up[k] = <<>> /\ down[k] = <<>>
    BY <1>2 DEF WorkerOK, Asking
  <2>2. up[k] # <<>> => Head(up[k]).type = "QUERY"
    BY <1>3, <2>1
  <2>3. RecvQuery(k) \/ RecvEof(k)
    BY <2>1, <2>2 DEF ServerThread, RecvRequest, RecvUnknown, MakeDir, Delete, Rename,
         BeginFile, BeginFileFails, BeginResume, BeginResumeFails, ReceiveBlock, ReceiveFails,
         Finish, FinishRefused, Handles
  <2>4. CASE RecvEof(k)
    <3>1. up'[k] = <<>> /\ srvPc'[k] = "gone" /\ down'[k] = down[k] /\ applied' = applied
      BY <1>1, <2>4, LeaveEffect DEF RecvEof, treeVars
    <3>2. Len(up'[k]) <= 1 /\ DOMAIN up'[k] = {}
      BY <3>1
    <3>3. QED
      BY <2>1, <3>1, <3>2
  <2>5. CASE RecvQuery(k)
    <3> DEFINE r == [type |-> "OFFSET", offset |-> SizeOf(temp[Head(up[k]).path])]
    <3>1. /\ up[k] # <<>> /\ up'[k] = Tail(up[k]) /\ srvPc' = srvPc /\ applied' = applied
          /\ down' = Sent(k, r)
      BY <1>1, <2>5, ReceiveEffect, SendableMessages DEF RecvQuery, Arrives, treeVars
    <3> HIDE DEF r
    <3>2. down'[k] \in {down[k], Append(down[k], r)}
      BY <1>1, <3>1 DEF Sent, WireTypes
    <3>3. down[k] = <<>> /\ Len(down'[k]) <= 1
      BY <2>1, <3>1, <3>2
    <3>4. up'[k] = <<>> /\ Len(up'[k]) <= 1 /\ DOMAIN up'[k] = {}
      BY <1>3, <2>1, <3>1
    <3>5. QED
      BY <2>1, <3>1, <3>3, <3>4
  <2>6. QED
    BY <2>3, <2>4, <2>5
<1>7. applied[k] # NoEffect => applied'[k] # NoEffect
  <2>1. applied'[k] = applied[k] \/ MakeDir(k) \/ Delete(k) \/ Rename(k) \/ Finish(k)
    BY DEF ServerThread, RecvRequest, RecvQuery, RecvUnknown, RecvEof, BeginFile, BeginFileFails,
           BeginResume, BeginResumeFails, ReceiveBlock, ReceiveFails, FinishRefused, treeVars
  <2>2. QED
    BY <1>1, <2>1, ChangeIsApplied, SendableMessages
<1>8. Hashed(w)'
  <2> SUFFICES ASSUME cliPc[w] \in Summed, sum[w] # NoHash
               PROVE  /\ \A i \in DOMAIN up'[k] : OfUpload(up'[k][i], sum[w])
                      /\ req'[k] # NoMsg => OfUpload(req'[k], sum[w])
                      /\ applied'[k] \in {NoEffect, sum[w]}
    BY <1>1 DEF Hashed
  <2>1. /\ \A i \in DOMAIN up[k] : OfUpload(up[k][i], sum[w])
        /\ req[k] # NoMsg => OfUpload(req[k], sum[w])
        /\ applied[k] \in {NoEffect, sum[w]}
    BY DEF WorkerOK, Hashed
  <2>2. /\ \A i \in DOMAIN up'[k] : OfUpload(up'[k][i], sum[w])
        /\ req'[k] # NoMsg => OfUpload(req'[k], sum[w])
    BY <1>2, <2>1
  <2>3. ~MakeDir(k) /\ ~Delete(k) /\ ~Rename(k)
    BY <1>1, <2>1 DEF Threads, OfUpload, MakeDir, Delete, Rename, Handles
  <2>4. ASSUME Finish(k) PROVE applied'[k] \in {NoEffect, sum[w]}
    <3> DEFINE end == Head(up[k])
    <3>1. end = up[k][1] /\ 1 \in DOMAIN up[k] /\ end.type = "END" /\ HashMatches(k, end)
      BY <1>3, <2>4 DEF Finish, Arrives
    <3>2. end.hash = sum[w]
      BY <2>1, <3>1 DEF OfUpload
    <3>3. temp[Target(k)] = sum[w]
      BY <3>1, <3>2 DEF HashMatches, Expected
    <3>4. QED
      BY <1>1, <2>4, <3>3 DEF Finish, TreeTypes
  <2>5. ASSUME ~Finish(k) PROVE applied'[k] \in {NoEffect, sum[w]}
    <3>1. applied'[k] = applied[k]
      BY <2>3, <2>5 DEF ServerThread, RecvRequest, RecvQuery, RecvUnknown, RecvEof, BeginFile,
         BeginFileFails, BeginResume, BeginResumeFails, ReceiveBlock, ReceiveFails, FinishRefused,
         treeVars
    <3>2. QED
      BY <2>1, <3>1
  <2>6. QED
    BY <2>2, <2>4, <2>5
<1>9. QED
  BY <1>1, <1>4, <1>5, <1>6, <1>7, <1>8 DEF WorkerOK

\* A worker whose connection breaks.
LEMMA CutWorker ==
    ASSUME NEW G, ServerInv(Sendable(G), G), Connections, NEW w \in Workers, WorkerOK(w),
           conn[w] # 0, Cut(conn[w]), UNCHANGED <<userVars, cliVars>>
    PROVE  WorkerOK(w)'
<1> DEFINE k == conn[w]
<1>1. k \in Conns /\ conn' = conn /\ task' = task /\ cliPc' = cliPc /\ sum' = sum /\ held' = held
      /\ hashFd' = hashFd /\ source' = source
  BY OwnConn DEF cliVars, sumVars, userVars
<1>2. WireTypes(Sendable(G))
  BY DEF ServerInv, ServerTypes
<1>3. /\ link'[k] = "cut" /\ srvPc' = srvPc /\ req' = req /\ applied' = applied
      /\ Len(up'[k]) <= Len(up[k]) /\ Len(down'[k]) <= Len(down[k])
      /\ DOMAIN up'[k] \subseteq DOMAIN up[k] /\ \A i \in DOMAIN up'[k] : up'[k][i] = up[k][i]
      /\ DOMAIN down'[k] \subseteq DOMAIN down[k]
      /\ \A i \in DOMAIN down'[k] : down'[k][i] = down[k][i]
      /\ up[k] = <<>> => up'[k] = <<>>
      /\ down[k] = <<>> => down'[k] = <<>>
  BY <1>1, <1>2, CutEffect DEF WireTypes, threadVars, treeVars
<1>4. Local(w)'
  BY <1>1, <1>3 DEF WorkerOK, Local, Linked, Path
<1>5. NoOffset(w)' /\ Hashed(w)'
  BY <1>1, <1>3 DEF WorkerOK, NoOffset, Hashed
<1>6. Asking(w)'
  <2>1. Len(up[k]) \in Nat /\ Len(down[k]) \in Nat /\ Len(up'[k]) \in Nat /\ Len(down'[k]) \in Nat
    BY <1>1, <1>2, CutEffect DEF WireTypes
  <2>2. (Len(up[k]) <= 1 => Len(up'[k]) <= 1) /\ (Len(down[k]) <= 1 => Len(down'[k]) <= 1)
    BY <1>3, <2>1
  <2>3. QED
    BY <1>1, <1>3, <2>2 DEF WorkerOK, Asking
<1>7. QED
  BY <1>1, <1>3, <1>4, <1>5, <1>6 DEF WorkerOK

\* A worker whose server dies.
LEMMA CrashWorker ==
    ASSUME NEW G, ServerInv(Sendable(G), G), Connections, NEW w \in Workers, WorkerOK(w),
           conn[w] # 0, ServerCrash, UNCHANGED <<userVars, cliVars>>
    PROVE  WorkerOK(w)'
<1> DEFINE k == conn[w]
<1>1. k \in Conns /\ conn' = conn /\ task' = task /\ cliPc' = cliPc /\ sum' = sum /\ held' = held
      /\ hashFd' = hashFd /\ source' = source
  BY OwnConn DEF cliVars, sumVars, userVars
<1>2. WireTypes(Sendable(G))
  BY DEF ServerInv, ServerTypes
<1>3. /\ down' = down /\ applied' = applied
      /\ link'[k] \in {link[k], "cut"} /\ (link[k] # "open" => link'[k] = link[k])
      /\ srvPc'[k] \in {srvPc[k], "gone"} /\ req'[k] \in {req[k], NoMsg}
      /\ up'[k] = up[k] \/ up'[k] = <<>>
  BY <1>1, <1>2, CrashEffect DEF treeVars
<1>4. Local(w)'
  BY <1>1, <1>3 DEF WorkerOK, Local, Linked, Path
<1>5. NoOffset(w)' /\ Hashed(w)'
  BY <1>1, <1>3 DEF WorkerOK, NoOffset, Hashed
<1>6. Asking(w)'
  BY <1>1, <1>3 DEF WorkerOK, Asking
<1>7. QED
  BY <1>1, <1>3, <1>4, <1>5, <1>6 DEF WorkerOK

\* The steps of the server keep the invariant.
LEMMA ServerStepKeeps ==
    ASSUME NEW G, Inv(G), ServerNext, UNCHANGED <<userVars, cliVars>>
    PROVE  Inv(G)'
<1>1. ServerInv(Sendable(G), G)'
  <2>1. /\ G \subseteq Files /\ ServerInv(Sendable(G), G)
        /\ Sendable(G) \subseteq Fitting
        /\ \A m \in Sendable(G) :
             m.type \in {"BEGIN", "BLOCK", "END"} => m.hash \in G \cup {NoHash}
    BY SendableMessages DEF Inv
  <2>2. QED
    BY <2>1, ServerKeeps
<1>2. Connections'
  BY ServerConnections DEF Inv
<1>3. ClientTypes' /\ Sums(G)' /\ torn' = torn
  BY DEF Inv, ClientTypes, Sums, userVars, cliVars, sumVars
<1>4. ASSUME NEW w \in Workers PROVE WorkerOK(w)'
  <2>1. WorkerOK(w) /\ Connections /\ ServerInv(Sendable(G), G) /\ G \subseteq Files
    BY DEF Inv
  <2>2. Still(w) /\ conn' = conn /\ source' = source
    BY DEF Still, userVars, cliVars, sumVars
  <2>3. ASSUME conn[w] # 0 => SameConn(conn[w]) PROVE WorkerOK(w)'
    BY <2>1, <2>2, <2>3, StillKeeps
  <2>4. ASSUME NEW k \in Conns, ServerThread(k) PROVE WorkerOK(w)'
    <3>1. CASE conn[w] = k
      BY <2>1, <2>4, <3>1, OwnThread DEF Conns
    <3>2. CASE conn[w] # k
      BY <2>1, <2>3, <2>4, <3>2, OtherConns, OwnConn DEF ServerInv
    <3>3. QED
      BY <3>1, <3>2
  <2>5. ASSUME NEW k \in Conns, Cut(k) PROVE WorkerOK(w)'
    <3>1. CASE conn[w] = k
      BY <2>1, <2>5, <3>1, CutWorker DEF Conns
    <3>2. CASE conn[w] # k
      <4>1. \A j \in Conns \ {k} : SameConn(j)
        <5>1. WireTypes(Sendable(G)) /\ link \in [Conns -> Links]
          BY <2>1 DEF ServerInv, ServerTypes, WireTypes
        <5>2. /\ link' = [link EXCEPT ![k] = "cut"] /\ UNCHANGED <<threadVars, treeVars>>
              /\ \A j \in Conns : j # k => up'[j] = up[j] /\ down'[j] = down[j]
          BY <2>5, <5>1, CutEffect
        <5>3. QED
          BY <5>1, <5>2 DEF SameConn, threadVars, treeVars
      <4>2. QED
        BY <2>1, <2>3, <3>2, <4>1, OwnConn
    <3>3. QED
      BY <3>1, <3>2
  <2>6. CASE NewSecond
    BY <2>3, <2>6 DEF NewSecond, SameConn, netVars, threadVars
  <2>7. CASE ServerCrash
    <3>1. CASE conn[w] # 0
      BY <2>1, <2>7, <3>1, CrashWorker
    <3>2. CASE conn[w] = 0
      BY <2>3, <3>2
    <3>3. QED
      BY <3>1, <3>2
  <2>8. QED
    BY <2>4, <2>5, <2>6, <2>7 DEF ServerNext
<1>5. QED
  BY <1>1, <1>2, <1>3, <1>4 DEF Inv
-----------------------------------------------------------------------------
(* A step of a worker *)

\* The steps of a worker, by what they do to the connections.
Connecting(w) ==
    SendDelete(w) \/ SendRename(w) \/ SendDirCreate(w) \/ SmallConnect(w) \/ LargeQuery(w)
Sending(w) == SmallBegin(w) \/ SmallRead(w) \/ LargeBlock(w) \/ LargeEnd(w)
Failing(w) ==
    ConnectFails(w) \/ SmallReadFails(w) \/ LargeOpenFails(w) \/ LargeReadFails(w)
      \/ NotAcknowledged(w)

\* The steps of a worker by what they do to its connection.
LEMMA WorkerCases ==
    ASSUME NEW w \in Workers, Worker(w)
    PROVE  \/ Connecting(w) \/ Sending(w) \/ Failing(w)
           \/ RenameFails(w) \/ Upload(w) \/ LargeOpen(w) \/ Acknowledged(w) \/ Return(w)
           \/ HashOpen(w) \/ HashBlock(w) \/ HashEnd(w) \/ HashFails(w)
BY DEF Worker, Connecting, Sending, Failing

\* The fields of a task that was taken.
LEMMA TaskFields ==
    ASSUME ClientTypes, NEW w \in Workers, task[w] # NoTask
    PROVE  /\ task[w] \in Tasks /\ Path(w) \in Paths /\ task[w].size \in 0 .. MaxBlocks
           /\ task[w].dir \in BOOLEAN /\ task[w].type \in {"UPDATE", "DELETE", "RENAME"}
           /\ task[w].type = "RENAME" => task[w].old \in Paths
<1>1. task[w] \in Tasks
  BY DEF ClientTypes
<1>2. QED
  BY <1>1 DEF Tasks, Path

\* Steps that make a connection and send its first request, if any.
LEMMA ConnectingKeeps ==
    ASSUME NEW G, Inv(G), NEW w \in Workers, Connecting(w)
    PROVE  Inv(G)'
<1> DEFINE k == conn'[w]
<1>1. /\ ServerInv(Sendable(G), G) /\ Connections /\ ClientTypes /\ WorkerOK(w) /\ G \subseteq Files
      /\ conn[w] = 0 /\ task[w] # NoTask /\ sum[w] = NoHash /\ held[w] = NotOpen
      /\ hashFd[w] = NotOpen
  BY DEF Inv, WorkerOK, Local, Connecting, SendDelete, SendRename, SendDirCreate, SmallConnect,
         LargeQuery, At, Uploads, HashLabels, Summed
<1>2. Path(w) \in Paths /\ (task[w].type = "RENAME" => task[w].old \in Paths)
  BY <1>1, TaskFields
<1> DEFINE Sends(m, l) == Connect(w, <<m>>) /\ cliPc' = [cliPc EXCEPT ![w] = l]
<1>3. \/ Connect(w, <<>>) /\ cliPc' = [cliPc EXCEPT ![w] = "small hash"]
      \/ \E m \in Sendable(G) :
           \/ m.type \in {"DELETE", "BEGIN"} /\ Sends(m, "ack")
           \/ m.type = "RENAME" /\ Sends(m, "rename")
           \/ m.type = "QUERY" /\ Sends(m, "offset")
  <2>1. CASE SmallConnect(w)
    BY <2>1 DEF SmallConnect, GoTo
  <2>2. CASE SendDelete(w)
    <3> DEFINE m == [type |-> "DELETE", path |-> Path(w)]
    <3>1. m \in Sendable(G) /\ m.type = "DELETE" /\ Sends(m, "ack")
      BY <1>1, <1>2, <2>2, SendableMessages DEF SendDelete, GoTo
    <3> HIDE DEF m, Sends
    <3>2. QED
      BY <3>1
  <2>3. CASE SendRename(w)
    <3> DEFINE m == [type |-> "RENAME", path |-> Path(w), old |-> task[w].old]
    <3>1. m \in Sendable(G) /\ m.type = "RENAME" /\ Sends(m, "rename")
      BY <1>1, <1>2, <2>3, SendableMessages DEF SendRename, GoTo
    <3> HIDE DEF m, Sends
    <3>2. QED
      BY <3>1
  <2>4. CASE SendDirCreate(w)
    <3> DEFINE m == [type |-> "BEGIN", path |-> Path(w), dir |-> TRUE, hash |-> NoHash]
    <3>1. m \in Sendable(G) /\ m.type = "BEGIN" /\ Sends(m, "ack")
      BY <1>1, <1>2, <2>4, SendableMessages DEF SendDirCreate, GoTo
    <3> HIDE DEF m, Sends
    <3>2. QED
      BY <3>1
  <2>5. CASE LargeQuery(w)
    <3> DEFINE m == [type |-> "QUERY", path |-> Path(w)]
    <3>1. m \in Sendable(G) /\ m.type = "QUERY" /\ Sends(m, "offset")
      BY <1>1, <1>2, <2>5, SendableMessages DEF LargeQuery, GoTo
    <3> HIDE DEF m, Sends
    <3>2. QED
      BY <3>1
  <2>6. QED
    BY <2>1, <2>2, <2>3, <2>4, <2>5 DEF Connecting
<1> DEFINE First(ms) ==
        /\ Connect(w, ms) /\ Len(ms) <= 1
        /\ \E l \in {"small hash", "ack", "rename", "offset"} :
             /\ cliPc' = [cliPc EXCEPT ![w] = l]
             /\ l = "small hash" => ms = <<>>
             /\ l = "offset" => \A i \in DOMAIN ms : ms[i].type = "QUERY"
             /\ l \in {"ack", "rename"} => \A i \in DOMAIN ms : ms[i].type # "QUERY"
<1>4. PICK ms \in Seq(Sendable(G)) : First(ms)
  <2>1. CASE Connect(w, <<>>) /\ cliPc' = [cliPc EXCEPT ![w] = "small hash"]
    <3>1. PICK none : none = <<>>
      OBVIOUS
    <3>2. Connect(w, none)
      BY <2>1, <3>1
    <3>3. none \in Seq(Sendable(G))
      BY <3>1
    <3>4. First(none)
      BY <2>1, <3>1, <3>2, EmptySequence
    <3> HIDE DEF First
    <3>5. QED
      BY <3>3, <3>4
  <2>2. ASSUME NEW m \in Sendable(G),
               \/ m.type \in {"DELETE", "BEGIN"} /\ Sends(m, "ack")
               \/ m.type = "RENAME" /\ Sends(m, "rename")
               \/ m.type = "QUERY" /\ Sends(m, "offset")
        PROVE  <<m>> \in Seq(Sendable(G)) /\ First(<<m>>)
    <3>1. <<m>> \in Seq(Sendable(G)) /\ Len(<<m>>) = 1 /\ \A i \in DOMAIN <<m>> : <<m>>[i] = m
      OBVIOUS
    <3>2. QED
      BY <2>2, <3>1
  <2>3. QED
    BY <1>3, <2>1, <2>2
<1>5. Connect(w, ms) /\ Len(ms) <= 1
  BY <1>4
<1>6. PICK l \in {"small hash", "ack", "rename", "offset"} :
        /\ cliPc' = [cliPc EXCEPT ![w] = l]
        /\ l = "small hash" => ms = <<>>
        /\ l = "offset" => \A i \in DOMAIN ms : ms[i].type = "QUERY"
        /\ l \in {"ack", "rename"} => \A i \in DOMAIN ms : ms[i].type # "QUERY"
  BY <1>4
<1> HIDE DEF First, Sends
<1>7. UNCHANGED <<source, writes, taken, task, tries, sum, hashFd, torn, held, pos>>
  BY <1>5 DEF Connect, userVars, sumVars
<1>8. /\ ServerInv(Sendable(G), G)' /\ Connections' /\ Apart(w)
      /\ k \in Conns /\ up'[k] = ms /\ down'[k] = <<>> /\ link'[k] = "open"
      /\ srvPc'[k] = "recv" /\ req'[k] = NoMsg /\ applied'[k] = NoEffect
  BY <1>1, <1>5, ConnectEffect
<1>9. ClientTypes'
  BY <1>1, <1>6, <1>7 DEF ClientTypes, ClientLabels
<1>10. \A v \in Workers \ {w} : Still(v)
  BY <1>1, <1>6, <1>7 DEF Still, ClientTypes
<1>11. WorkerOK(w)' /\ sum'[w] = NoHash
  <2>1. /\ cliPc'[w] = l /\ task'[w] # NoTask /\ sum'[w] = NoHash /\ hashFd'[w] = NotOpen
        /\ held'[w] = NotOpen /\ NotOpen # AtPath /\ k # 0
    <3>1. NotOpen # AtPath
      BY RemoteAssumption
    <3>2. k # 0
      BY <1>8, NoConn
    <3>3. QED
      BY <1>1, <1>6, <1>7, <1>9, <3>1, <3>2 DEF ClientTypes
  <2> HIDE DEF k
  <2>2. conn'[w] = k
    BY DEF k
  <2>3. Local(w)'
    BY <1>8, <2>1, <2>2 DEF Local, Linked
  <2>4. Len(up'[k]) <= 1
    BY <1>5, <1>8
  <2>5. Len(down'[k]) <= 1 /\ DOMAIN down'[k] = {}
    BY <1>8, EmptySequence
  <2>6. Asking(w)'
    <3>1. l = "small hash" => DOMAIN up'[k] = {} /\ up'[k] = <<>>
      BY <1>6, <1>8, EmptySequence
    <3>2. QED
      BY <1>6, <1>8, <2>1, <2>2, <2>4, <2>5, <3>1 DEF Asking, HashLabels
  <2>7. NoOffset(w)'
    BY <1>6, <1>8, <2>1, <2>2, <2>5 DEF NoOffset
  <2>8. Hashed(w)'
    BY <2>1 DEF Hashed
  <2>9. QED
    BY <2>1, <2>3, <2>6, <2>7, <2>8 DEF WorkerOK
<1>12. QED
  BY <1>7, <1>8, <1>9, <1>10, <1>11, OthersKeep DEF Inv

\* A worker that sends blocks has a file or a directory open.
LEMMA HeldFile ==
    ASSUME NEW G, Inv(G), NEW w \in Workers, At(w, "blocks")
    PROVE  Held(w) \in UserFiles \cup {Dir}
<1>1. /\ Path(w) \in Paths /\ held[w] # NotOpen /\ (held[w] = AtPath => source[Path(w)] # Absent)
  <2>1. task[w] # NoTask
    BY DEF Inv, WorkerOK, Local, At
  <2>2. QED
    BY <2>1, TaskFields DEF Inv, WorkerOK, Local, At
<1>2. source[Path(w)] \in UserFiles \cup {Absent, Dir} /\ held[w] \in UserFiles \cup {NotOpen, AtPath, Dir}
  BY <1>1 DEF Inv, ClientTypes
<1>3. QED
  BY <1>1, <1>2 DEF Held, Through

\* A prefix of a file, and a single block, are files.
LEMMA PartsAreFiles ==
    ASSUME NEW x \in Files
    PROVE  /\ \A n \in 1 .. Len(x) : SubSeq(x, 1, n) \in Files /\ Len(SubSeq(x, 1, n)) = n
           /\ \A i \in 1 .. Len(x) : <<x[i]>> \in Files /\ Len(<<x[i]>>) = 1
<1>1. Len(x) \in 0 .. MaxBlocks /\ x \in Seq(Blocks \cup {Hole})
  BY FileLength
<1>2. ASSUME NEW n \in 1 .. Len(x)
      PROVE  SubSeq(x, 1, n) \in Files /\ Len(SubSeq(x, 1, n)) = n
  <2>1. n \in 0 .. Len(x) /\ n <= MaxBlocks
    BY <1>1, FileAssumption
  <2>2. SubSeq(x, 1, n) \in Seq(Blocks \cup {Hole}) /\ Len(SubSeq(x, 1, n)) = n
    BY <1>1, <2>1, CutSequences
  <2>3. QED
    BY <2>1, <2>2, FilesAreSequences
<1>3. ASSUME NEW i \in 1 .. Len(x)
      PROVE  <<x[i]>> \in Files /\ Len(<<x[i]>>) = 1
  <2>1. x[i] \in Blocks \cup {Hole} /\ 1 <= MaxBlocks
    BY <1>1, FileAssumption, ElementOfSeq
  <2>2. <<x[i]>> \in Seq(Blocks \cup {Hole}) /\ Len(<<x[i]>>) = 1
    BY <2>1
  <2>3. QED
    BY <2>1, <2>2, FilesAreSequences
<1>4. QED
  BY <1>2, <1>3

\* Steps that send on a connection.
LEMMA SendingKeeps ==
    ASSUME NEW G, Inv(G), NEW w \in Workers, Sending(w)
    PROVE  Inv(G)'
<1> DEFINE k == conn[w]
           Mine(m) == m \in Sendable(G) /\ OfUpload(m, sum[w])
<1>1. /\ ServerInv(Sendable(G), G) /\ Connections /\ ClientTypes /\ WorkerOK(w) /\ G \subseteq Files
      /\ cliPc[w] \in {"begin", "read", "blocks"} /\ k # 0 /\ task[w] # NoTask
      /\ sum[w] \in G \cup {NoHash} /\ hashFd[w] = NotOpen
  BY DEF Inv, Sums, WorkerOK, Local, Linked, Sending, SmallBegin, SmallRead, LargeBlock, LargeEnd,
         At, HashLabels, Summed
<1>2. /\ Path(w) \in Paths /\ source[Path(w)] \in UserFiles \cup {Absent, Dir}
      /\ task[w].size \in 0 .. MaxBlocks
  BY <1>1, TaskFields DEF ClientTypes
<1>3. Mine([type |-> "END", hash |-> sum[w]])
  BY <1>1, SendableMessages DEF OfUpload
<1>4. PICK ms : /\ ms \in Seq(Sendable(G)) /\ Send(w, ms)
                /\ \A i \in DOMAIN ms : Mine(ms[i])
  <2>1. CASE SmallRead(w)
    <3> DEFINE b == [type |-> "BLOCK", offset |-> 0, hash |-> sum[w],
                     data |-> SubSeq(source[Path(w)], 1, task[w].size)]
               e == [type |-> "END", hash |-> sum[w]]
    <3>1. CASE task[w].size = 0
      <4>1. Send(w, <<>> \o <<e>>)
        BY <2>1, <3>1 DEF SmallRead
      <4>2. <<>> \o <<e>> = <<e>>
        OBVIOUS
      <4> HIDE DEF e, Mine
      <4>3. <<e>> \in Seq(Sendable(G)) /\ \A i \in DOMAIN <<e>> : Mine(<<e>>[i])
        BY <1>3 DEF e, Mine
      <4>4. QED
        BY <4>1, <4>2, <4>3
    <3>2. CASE task[w].size # 0
      <4>1. /\ source[Path(w)] \in Files /\ task[w].size \in 1 .. Len(source[Path(w)])
        <5>1. IsFile(source[Path(w)])
          BY <1>2, <2>1, <3>2 DEF SmallRead, SizeOf
        <5>2. source[Path(w)] \in Files
          BY <1>2, <5>1, UserFilesAreFiles DEF IsFile
        <5>3. Len(source[Path(w)]) \in Nat /\ Len(source[Path(w)]) >= task[w].size
          BY <2>1, <5>1, <5>2, FileLength, FileAssumption DEF SmallRead, SizeOf
        <5>4. QED
          BY <1>2, <3>2, <5>2, <5>3
      <4>2. /\ SubSeq(source[Path(w)], 1, task[w].size) \in Files
            /\ Len(SubSeq(source[Path(w)], 1, task[w].size)) = task[w].size
        BY <4>1, PartsAreFiles
      <4>3. 0 \in 0 .. MaxBlocks /\ 0 + task[w].size <= MaxBlocks
        BY <1>2, FileAssumption
      <4>4. b \in Sendable(G)
        BY <1>1, <4>2, <4>3, SendableMessages
      <4>5. b.type = "BLOCK"
        OBVIOUS
      <4>6. Send(w, <<b>> \o <<e>>)
        BY <2>1, <3>2 DEF SmallRead
      <4>7. Mine(b) /\ Mine(e)
        BY <1>3, <4>4, <4>5 DEF OfUpload
      <4> HIDE DEF b, e
      <4> DEFINE u == <<b>>
                 v == <<e>>
      <4>8. /\ u \in Seq(Sendable(G)) /\ Len(u) = 1 /\ u[1] = b
            /\ v \in Seq(Sendable(G)) /\ Len(v) = 1 /\ v[1] = e
        BY <4>7
      <4>9. Send(w, u \o v)
        BY <4>6
      <4> HIDE DEF u, v, Mine
      <4>10. /\ u \o v \in Seq(Sendable(G)) /\ Len(u \o v) = 2
             /\ (u \o v)[1] = b /\ (u \o v)[2] = e
        BY <4>8, ConcatProperties
      <4>11. \A i \in DOMAIN (u \o v) : Mine((u \o v)[i])
        BY <4>7, <4>10
      <4>12. QED
        BY <4>9, <4>10, <4>11
    <3>3. QED
      BY <3>1, <3>2
  <2>0. CASE SmallBegin(w)
    <3> DEFINE b == [type |-> "BEGIN", path |-> Path(w), dir |-> FALSE, hash |-> sum[w]]
    <3>1. Send(w, <<b>>)
      BY <2>0 DEF SmallBegin
    <3>2. Mine(b)
      BY <1>1, <1>2, SendableMessages DEF OfUpload
    <3> HIDE DEF b, Mine
    <3>3. <<b>> \in Seq(Sendable(G)) /\ \A i \in DOMAIN <<b>> : Mine(<<b>>[i])
      BY <3>2 DEF Mine
    <3>4. QED
      BY <3>1, <3>3
  <2>2. CASE LargeBlock(w)
    <3> DEFINE b == [type |-> "BLOCK", offset |-> pos[w], hash |-> sum[w],
                     data |-> <<Held(w)[pos[w] + 1]>>]
    <3>1. At(w, "blocks") /\ pos[w] < SizeOf(Held(w)) /\ Send(w, <<b>>)
      BY <2>2 DEF LargeBlock
    <3>2. pos[w] \in 0 .. MaxBlocks
      BY <1>1 DEF ClientTypes
    <3>3. Held(w) \in Files /\ pos[w] < Len(Held(w))
      BY <3>1, <3>2, HeldFile, UserFilesAreFiles, FileAssumption DEF SizeOf, IsFile
    <3>4. Len(Held(w)) \in 0 .. MaxBlocks
      BY <3>3, FileLength
    <3>5. pos[w] + 1 \in 1 .. Len(Held(w)) /\ pos[w] + 1 <= MaxBlocks
      BY <3>2, <3>3, <3>4, FileAssumption
    <3>6. <<Held(w)[pos[w] + 1]>> \in Files /\ Len(<<Held(w)[pos[w] + 1]>>) = 1
      BY <3>3, <3>5, PartsAreFiles
    <3>7. b \in Sendable(G)
      BY <1>1, <3>2, <3>5, <3>6, SendableMessages
    <3>8. b.type = "BLOCK"
      OBVIOUS
    <3> HIDE DEF b
    <3>9. <<b>> \in Seq(Sendable(G)) /\ \A i \in DOMAIN <<b>> : Mine(<<b>>[i])
      BY <3>7, <3>8 DEF OfUpload
    <3>10. QED
      BY <3>1, <3>9
  <2>3. CASE LargeEnd(w)
    <3> DEFINE e == [type |-> "END", hash |-> sum[w]]
    <3>1. Send(w, <<e>>)
      BY <2>3 DEF LargeEnd
    <3> HIDE DEF e, Mine
    <3>2. <<e>> \in Seq(Sendable(G)) /\ \A i \in DOMAIN <<e>> : Mine(<<e>>[i])
      BY <1>3 DEF e, Mine
    <3>3. QED
      BY <3>1, <3>2
  <2>4. QED
    BY <2>0, <2>1, <2>2, <2>3 DEF Sending
<1>5. UNCHANGED <<down, link, ServerRest, source, writes, taken, made, task, tries, conn, sum,
                  hashFd, torn>>
  BY DEF Sending, SmallBegin, SmallRead, LargeBlock, LargeEnd, userVars, sumVars
<1>6. /\ ServerInv(Sendable(G), G)' /\ Connections' /\ Apart(w)
      /\ up'[k] \in {up[k], up[k] \o ms}
  BY <1>1, <1>4, <1>5, SendEffect
<1>7. /\ held' \in [Workers -> UserFiles \cup {NotOpen, AtPath, Dir}]
      /\ pos' \in [Workers -> 0 .. MaxBlocks] /\ cliPc' \in [Workers -> ClientLabels]
  <2>1. CASE SmallBegin(w) \/ SmallRead(w)
    BY <1>1, <2>1 DEF SmallBegin, SmallRead, GoTo, ClientTypes, ClientLabels
  <2>2. CASE LargeBlock(w)
    <3>1. pos[w] \in 0 .. MaxBlocks /\ pos[w] + 1 \in 0 .. MaxBlocks
      <4>1. pos[w] \in 0 .. MaxBlocks
        BY <1>1 DEF ClientTypes
      <4>2. pos[w] < SizeOf(Held(w))
        BY <2>2 DEF LargeBlock
      <4>3. Held(w) \in Files /\ pos[w] < Len(Held(w))
        BY <2>2, <4>1, <4>2, HeldFile, UserFilesAreFiles, FileAssumption DEF SizeOf, IsFile, LargeBlock
      <4>4. Len(Held(w)) \in 0 .. MaxBlocks
        BY <4>3, FileLength
      <4>5. QED
        BY <4>1, <4>3, <4>4, FileAssumption
    <3>2. QED
      BY <1>1, <2>2, <3>1 DEF LargeBlock, ClientTypes
  <2>3. CASE LargeEnd(w)
    <3>1. /\ held' = [held EXCEPT ![w] = NotOpen] /\ pos' = [pos EXCEPT ![w] = 0]
          /\ cliPc' = [cliPc EXCEPT ![w] = "ack"]
      BY <2>3 DEF LargeEnd, GoTo
    <3>2. 0 \in 0 .. MaxBlocks
      BY FileAssumption
    <3>3. QED
      BY <1>1, <3>1, <3>2 DEF ClientTypes, ClientLabels
  <2>4. QED
    BY <2>1, <2>2, <2>3 DEF Sending
<1>8. ClientTypes'
  BY <1>1, <1>5, <1>7 DEF ClientTypes
<1>9. \A v \in Workers \ {w} : Still(v)
  BY <1>1, <1>5 DEF Still, ClientTypes, Sending, SmallBegin, SmallRead, LargeBlock, LargeEnd, GoTo
<1>10. WorkerOK(w)'
  <2>1. \/ cliPc'[w] = "read" /\ cliPc[w] = "begin" /\ held' = held
        \/ cliPc'[w] = "ack" /\ cliPc[w] = "read" /\ held' = held
        \/ cliPc'[w] = "ack" /\ held'[w] = NotOpen
        \/ cliPc' = cliPc /\ cliPc[w] = "blocks" /\ held' = held
    BY <1>1 DEF Sending, SmallBegin, SmallRead, LargeBlock, LargeEnd, GoTo, ClientTypes, At
  <2>2. Local(w)'
    BY <1>1, <1>5, <2>1 DEF WorkerOK, Local, Linked, Path, HashLabels, Summed
  <2>3. \A i \in DOMAIN up'[k] : (\E j \in DOMAIN up[k] : up'[k][i] = up[k][j]) \/ Mine(up'[k][i])
    <3>1. up[k] \in Seq(Sendable(G))
      BY <1>1, OwnConn DEF ServerInv, ServerTypes, WireTypes
    <3>2. CASE up'[k] = up[k]
      BY <3>2
    <3>3. CASE up'[k] = up[k] \o ms
      <4>1. \A i \in DOMAIN (up[k] \o ms) :
              \/ i \in DOMAIN up[k] /\ (up[k] \o ms)[i] = up[k][i]
              \/ i - Len(up[k]) \in DOMAIN ms /\ (up[k] \o ms)[i] = ms[i - Len(up[k])]
        BY <1>4, <3>1
      <4> HIDE DEF Mine
      <4>2. QED
        BY <1>4, <3>3, <4>1
    <3>4. QED
      BY <1>6, <3>2, <3>3
  <2>4. Asking(w)' /\ NoOffset(w)'
    <3>1. /\ \A i \in DOMAIN up[k] : up[k][i].type # "QUERY"
          /\ \A i \in DOMAIN down[k] : down[k][i].type # "OFFSET"
      BY <1>1 DEF WorkerOK, NoOffset, Asking
    <3>2. \A i \in DOMAIN up'[k] : up'[k][i].type # "QUERY"
      BY <2>3, <3>1 DEF OfUpload
    <3>3. QED
      BY <1>1, <1>5, <2>1, <3>1, <3>2 DEF Asking, NoOffset, HashLabels
  <2>5. Hashed(w)'
    <3> SUFFICES ASSUME sum[w] # NoHash
                 PROVE  \A i \in DOMAIN up'[k] : OfUpload(up'[k][i], sum[w])
      BY <1>1, <1>5 DEF Hashed, WorkerOK, Summed, ServerRest, threadVars, treeVars
    <3>1. \A i \in DOMAIN up[k] : OfUpload(up[k][i], sum[w])
      BY <1>1 DEF WorkerOK, Hashed, Summed
    <3>2. QED
      BY <2>3, <3>1
  <2>6. QED
    BY <1>1, <2>1, <2>2, <2>4, <2>5 DEF WorkerOK
<1>11. QED
  BY <1>1, <1>5, <1>6, <1>8, <1>9, <1>10, OthersKeep DEF Inv

\* A worker that has neither a connection nor a file open.
LEMMA NoConnection ==
    ASSUME NEW w \in Workers, task'[w] = NoTask <=> cliPc'[w] = "idle",
           cliPc'[w] \in {"idle", "start", "upload", "connect", "done"},
           conn'[w] = 0, sum'[w] = NoHash, hashFd'[w] = NotOpen, held'[w] = NotOpen
    PROVE  WorkerOK(w)'
<1>1. NotOpen # AtPath
  BY RemoteAssumption
<1>2. Local(w)'
  BY <1>1 DEF Local, Linked
<1>3. Asking(w)' /\ NoOffset(w)' /\ Hashed(w)'
  BY DEF Asking, NoOffset, Hashed, HashLabels
<1>4. QED
  BY <1>2, <1>3 DEF WorkerOK

\* Steps at which an attempt fails.
LEMMA FailingKeeps ==
    ASSUME NEW G, Inv(G), NEW w \in Workers, Failing(w)
    PROVE  Inv(G)'
<1>1. /\ ServerInv(Sendable(G), G) /\ Connections /\ ClientTypes /\ WorkerOK(w)
      /\ task[w] # NoTask /\ hashFd[w] = NotOpen /\ conn \in [Workers -> 0 .. made]
  BY DEF Inv, WorkerOK, Local, Failing, ConnectFails, SmallReadFails, LargeOpenFails,
         LargeReadFails, NotAcknowledged, At, Uploads, Connections, HashLabels
<1>2. Fail(w) /\ UNCHANGED <<up, ServerRest, source, writes, taken, made>>
  BY DEF Failing, ConnectFails, SmallReadFails, LargeOpenFails, LargeReadFails, NotAcknowledged,
         userVars
<1>3. down' = down \/ (conn[w] # 0 /\ Answered(w) /\ TakeAnswer(w))
  BY <1>1 DEF Failing, ConnectFails, SmallReadFails, LargeOpenFails, LargeReadFails,
              NotAcknowledged, WorkerOK, Local, Linked, At
<1>4. link' = Closed(w) /\ conn' = [conn EXCEPT ![w] = 0]
  BY <1>2 DEF Fail
<1>5. ServerInv(Sendable(G), G)' /\ Connections' /\ Apart(w)
  BY <1>1, <1>2, <1>3, <1>4, CloseEffect
<1>6. ClientTypes'
  <2>1. /\ sum' \in [Workers -> Hashes] /\ hashFd' = hashFd
        /\ held' \in [Workers -> UserFiles \cup {NotOpen, AtPath, Dir}]
        /\ pos' \in [Workers -> 0 .. MaxBlocks]
    BY <1>1, <1>2, FileAssumption DEF Fail, ClientTypes, Hashes
  <2>2. task' \in [Workers -> Tasks \cup {NoTask}] /\ cliPc' \in [Workers -> ClientLabels]
    BY <1>1, <1>2 DEF Fail, GoTo, ClientTypes, ClientLabels
  <2>3. tries' \in [Workers -> 0 .. MaxRetry]
    <3>1. tries \in [Workers -> 0 .. MaxRetry] /\ 0 \in 0 .. MaxRetry
      BY <1>1, RemoteAssumption DEF ClientTypes
    <3>2. tries[w] < MaxRetry => tries[w] + 1 \in 0 .. MaxRetry
      BY <3>1, RemoteAssumption
    <3>3. QED
      BY <1>2, <3>1, <3>2 DEF Fail
  <2>4. QED
    BY <1>1, <1>2, <2>1, <2>2, <2>3 DEF ClientTypes
<1>7. \A v \in Workers \ {w} : Still(v)
  BY <1>1, <1>2 DEF Still, Fail, GoTo, ClientTypes
<1>8. WorkerOK(w)' /\ sum'[w] = NoHash
  <2>1. /\ \/ cliPc'[w] = "start" /\ task' = task
           \/ cliPc'[w] = "idle" /\ task'[w] = NoTask
        /\ conn'[w] = 0 /\ sum'[w] = NoHash /\ hashFd'[w] = NotOpen /\ held'[w] = NotOpen
    BY <1>1, <1>2 DEF Fail, GoTo, ClientTypes
  <2>2. QED
    BY <1>1, <2>1, NoConnection
<1>9. torn' = torn
  BY <1>2 DEF Fail
<1>10. QED
  BY <1>1, <1>2, <1>5, <1>6, <1>7, <1>8, <1>9, OthersKeep DEF Inv

\* The steps after which a worker has no connection, or has one as before.
LEMMA UnlinkedKeeps ==
    ASSUME NEW G, Inv(G), NEW w \in Workers, RenameFails(w) \/ Upload(w) \/ Return(w)
    PROVE  Inv(G)'
<1>1. /\ ServerInv(Sendable(G), G) /\ Connections /\ ClientTypes /\ WorkerOK(w)
      /\ conn \in [Workers -> 0 .. made] /\ task[w] # NoTask
      /\ hashFd[w] = NotOpen
  BY DEF Inv, Connections, WorkerOK, Local, RenameFails, Upload, Return, At, Uploads, HashLabels
<1>2. UNCHANGED <<up, ServerRest, source, writes, taken, made, hashFd, torn>>
  BY DEF RenameFails, Upload, Succeed, Return, sumVars, serverVars, netVars, ServerRest, userVars
<1>3. /\ down' = down \/ (conn[w] # 0 /\ Answered(w) /\ TakeAnswer(w))
      /\ link' \in {link, Closed(w)} /\ conn' \in {conn, [conn EXCEPT ![w] = 0]}
  BY <1>1 DEF RenameFails, Upload, Succeed, Return, serverVars, netVars, WorkerOK, Local, Linked, At
<1>4. ServerInv(Sendable(G), G)' /\ Connections' /\ Apart(w)
  BY <1>1, <1>2, <1>3, CloseEffect
<1>5. ClientTypes'
  <2>1. /\ task' \in [Workers -> Tasks \cup {NoTask}] /\ tries' \in [Workers -> 0 .. MaxRetry]
        /\ cliPc' \in [Workers -> ClientLabels]
    <3>1. CASE RenameFails(w)
      BY <1>1, <3>1 DEF RenameFails, GoTo, ClientTypes, ClientLabels
    <3>2. CASE Upload(w)
      BY <1>1, <3>2 DEF Upload, Succeed, GoTo, ClientTypes, ClientLabels
    <3>3. CASE Return(w)
      <4>1. 0 \in 0 .. MaxRetry
        BY RemoteAssumption
      <4>2. QED
        BY <1>1, <3>3, <4>1 DEF Return, GoTo, ClientTypes, ClientLabels
    <3>4. QED
      BY <3>1, <3>2, <3>3
  <2>2. /\ sum' \in [Workers -> Hashes]
        /\ held' \in [Workers -> UserFiles \cup {NotOpen, AtPath, Dir}]
        /\ pos' \in [Workers -> 0 .. MaxBlocks]
    BY <1>1, FileAssumption DEF RenameFails, Upload, Succeed, Return, ClientTypes, Hashes, sumVars
  <2>3. QED
    BY <1>1, <1>2, <2>1, <2>2 DEF ClientTypes
<1>6. \A v \in Workers \ {w} : Still(v)
  BY <1>1, <1>2 DEF Still, RenameFails, Upload, Succeed, Return, GoTo, ClientTypes, sumVars
<1>7. WorkerOK(w)' /\ sum'[w] = NoHash
  <2>1. cliPc[w] \in {"start", "rename", "upload", "done"}
    BY DEF RenameFails, Upload, Return, At, Uploads
  <2>2. /\ \/ cliPc'[w] \in {"upload", "connect", "done"} /\ task' = task
           \/ cliPc'[w] = "idle" /\ task'[w] = NoTask
        /\ conn'[w] = 0 /\ sum'[w] = NoHash /\ held'[w] = NotOpen
    <3>1. CASE RenameFails(w)
      BY <1>1, <2>1, <3>1 DEF RenameFails, GoTo, ClientTypes, WorkerOK, Local, At, sumVars,
             HashLabels, Summed
    <3>2. CASE Upload(w)
      BY <1>1, <2>1, <3>2 DEF Upload, Uploads, Succeed, GoTo, ClientTypes, WorkerOK, Local, At, sumVars,
             HashLabels, Summed
    <3>3. CASE Return(w)
      BY <1>1, <2>1, <3>3 DEF Return, GoTo, ClientTypes, WorkerOK, Local, At, sumVars,
             HashLabels, Summed
    <3>4. QED
      BY <3>1, <3>2, <3>3
  <2>3. QED
    BY <1>1, <1>2, <2>2, NoConnection
<1>8. QED
  BY <1>1, <1>2, <1>4, <1>5, <1>6, <1>7, OthersKeep DEF Inv

\* wait_for_ack: what it takes for an acknowledgement is one.
LEMMA AcknowledgedKeeps ==
    ASSUME NEW G, Inv(G), NEW w \in Workers, Acknowledged(w)
    PROVE  Inv(G)'
<1> DEFINE k == conn[w]
<1>1. /\ ServerInv(Sendable(G), G) /\ Connections /\ ClientTypes /\ WorkerOK(w)
      /\ cliPc[w] \in {"ack", "rename"} /\ k # 0 /\ task[w] # NoTask
      /\ sum[w] \in G \cup {NoHash}
  BY DEF Inv, WorkerOK, Local, Linked, Acknowledged, At, Sums, HashLabels, Summed
<1>2. UNCHANGED <<up, ServerRest, source, writes, taken, made, task, tries, conn, sum,
                  hashFd, torn>>
  BY DEF Acknowledged, Succeed, userVars, sumVars
<1>3. Answered(w) /\ TakeAnswer(w) /\ link' = Closed(w)
  BY DEF Acknowledged, Succeed
<1>4. /\ ServerInv(Sendable(G), G)' /\ Connections' /\ Apart(w)
      /\ \A i \in DOMAIN down'[k] : \E j \in DOMAIN down[k] : down'[k][i] = down[k][j]
  BY <1>1, <1>2, <1>3, CloseEffect
<1>5. ClientTypes'
  <2>1. /\ held' = [held EXCEPT ![w] = NotOpen] /\ pos' = [pos EXCEPT ![w] = 0]
        /\ cliPc' = [cliPc EXCEPT ![w] = "done"]
    BY DEF Acknowledged, Succeed, GoTo
  <2>2. 0 \in 0 .. MaxBlocks
    BY FileAssumption
  <2>3. QED
    BY <1>1, <1>2, <2>1, <2>2 DEF ClientTypes, ClientLabels
<1>6. \A v \in Workers \ {w} : Still(v)
  BY <1>1, <1>2 DEF Still, Acknowledged, Succeed, GoTo, ClientTypes
<1>7. applied[k] # NoEffect
  <2>1. 1 \in DOMAIN down[k] /\ Answer(w) = down[k][1]
    BY <1>1, <1>3, AnswerHead
  <2>2. down[k][1].type # "OFFSET"
    BY <1>1, <2>1 DEF WorkerOK, NoOffset
  <2>3. down[k][1].type = "ACK"
    BY <2>1, <2>2 DEF Acknowledged
  <2>4. k \in Conns
    BY <1>1, OwnConn
  <2>5. QED
    BY <1>1, <2>1, <2>3, <2>4 DEF ServerInv, AckApplied
<1>8. WorkerOK(w)'
  <2>1. cliPc'[w] = "done" /\ held'[w] = NotOpen /\ applied' = applied /\ req' = req
    BY <1>1, <1>2 DEF Acknowledged, Succeed, GoTo, ClientTypes, ServerRest, threadVars, treeVars
  <2>2. Local(w)'
    BY <1>1, <1>2, <2>1, RemoteAssumption DEF Local, Linked, WorkerOK, HashLabels, Summed
  <2>3. Asking(w)' /\ NoOffset(w)'
    BY <2>1 DEF Asking, NoOffset, HashLabels
  <2>4. Hashed(w)'
    <3>1. sum[w] # NoHash => cliPc[w] = "ack"
      BY <1>1 DEF WorkerOK, Local, HashLabels, Summed
    <3>2. QED
      BY <1>1, <1>2, <2>1, <3>1 DEF WorkerOK, Hashed, Summed
  <2>5. QED
    BY <1>2, <1>7, <2>1, <2>2, <2>3, <2>4 DEF WorkerOK
<1>9. QED
  BY <1>1, <1>2, <1>4, <1>5, <1>6, <1>8, OthersKeep DEF Inv

\* The step that takes the offset from the server.
LEMMA LargeOpenKeeps ==
    ASSUME NEW G, Inv(G), NEW w \in Workers, LargeOpen(w)
    PROVE  Inv(G)'
<1> DEFINE k == conn[w]
<1>1. /\ ServerInv(Sendable(G), G) /\ Connections /\ ClientTypes /\ WorkerOK(w)
      /\ cliPc[w] = "offset" /\ k # 0 /\ task[w] # NoTask /\ conn \in [Workers -> 0 .. made]
  BY DEF Inv, WorkerOK, Local, Linked, LargeOpen, At, Connections
<1>2. UNCHANGED <<up, link, ServerRest, source, writes, taken, made, task, tries, conn, sum,
                  hashFd, torn>>
  BY DEF LargeOpen, userVars, sumVars
<1>3. Answered(w) /\ TakeAnswer(w)
  BY DEF LargeOpen
<1>4. /\ ServerInv(Sendable(G), G)' /\ Connections' /\ Apart(w)
      /\ down' # down => down'[k] = Tail(down[k])
  BY <1>1, <1>2, <1>3, CloseEffect
<1>5. /\ Answer(w) \in Replies /\ Answer(w).type = "OFFSET"
      /\ Len(Tail(down[k])) = Len(down[k]) - 1 /\ Len(down[k]) \in Nat \ {0}
      /\ Tail(down[k]) \in Seq(Replies)
  BY <1>1, <1>3, AnswerHead DEF LargeOpen
<1>6. Answer(w).offset \in 0 .. MaxBlocks
  BY <1>5 DEF Replies
<1>7. ClientTypes'
  BY <1>1, <1>2, <1>6 DEF LargeOpen, GoTo, ClientTypes, ClientLabels
<1>8. \A v \in Workers \ {w} : Still(v)
  BY <1>1, <1>2 DEF Still, LargeOpen, GoTo, ClientTypes
<1>9. WorkerOK(w)'
  <2>1. /\ cliPc'[w] = "large hash" /\ held'[w] = AtPath /\ source[Path(w)] # Absent
        /\ applied' = applied /\ req' = req /\ srvPc' = srvPc
    BY <1>1, <1>2 DEF LargeOpen, GoTo, ClientTypes, ServerRest, threadVars, treeVars
  <2>2. Local(w)'
    BY <1>1, <1>2, <2>1, RemoteAssumption DEF Local, Linked, WorkerOK, Path, HashLabels, Summed
  <2>3. /\ Len(down[k]) <= 1 /\ (up[k] = <<>> \/ down[k] = <<>>)
        /\ \A i \in DOMAIN up[k] : up[k][i].type = "QUERY"
        /\ srvPc[k] \in {"recv", "gone"} /\ applied[k] = NoEffect
    BY <1>1 DEF WorkerOK, Asking
  <2>4. up[k] = <<>> /\ Tail(down[k]) = <<>>
    BY <1>3, <1>5, <2>3 DEF Answered
  <2>5. k \in Conns /\ down \in [Conns -> Seq(Replies)]
    BY <1>1, OwnConn DEF ServerInv, ServerTypes, WireTypes
  <2>6. down'[k] = <<>> /\ Len(up[k]) = 0 /\ Len(down'[k]) = 0
    BY <1>3, <2>4, <2>5 DEF TakeAnswer
  <2>7. Asking(w)'
    <3>1. /\ up'[k] = <<>> /\ srvPc'[k] \in {"recv", "gone"} /\ applied'[k] = NoEffect
          /\ conn'[w] = k /\ Len(up'[k]) <= 1 /\ Len(down'[k]) <= 1
          /\ \A i \in DOMAIN up'[k] : up'[k][i].type = "QUERY"
      <4>1. DOMAIN up[k] = {} /\ Len(up[k]) <= 1 /\ Len(down'[k]) <= 1
        BY <2>4, <2>6
      <4>2. UNCHANGED <<up, srvPc, applied, conn>>
        BY <1>2, <2>1
      <4>3. QED
        BY <2>3, <2>4, <4>1, <4>2
    <3> HIDE DEF k
    <3>2. QED
      BY <2>1, <2>6, <3>1 DEF Asking
  <2>8. NoOffset(w)' /\ Hashed(w)'
    BY <1>1, <1>2, <2>1 DEF NoOffset, Hashed, Summed
  <2>9. QED
    BY <2>1, <2>2, <2>7, <2>8 DEF WorkerOK
<1>10. cliPc'[w] \notin Summed
  BY <1>1 DEF LargeOpen, GoTo, ClientTypes, Summed
<1>11. QED
  BY <1>1, <1>2, <1>4, <1>7, <1>8, <1>9, <1>10, OthersKeep DEF Inv

\* A step of the hash: the connection is not touched, nor is any other worker.
LEMMA HashLocal ==
    ASSUME NEW G, Inv(G), NEW w \in Workers, cliPc[w] \in HashLabels,
           UNCHANGED <<serverVars, userVars, taken, made, task, tries, conn, held, pos>>,
           sum' \in [Workers -> Hashes], \A v \in Workers \ {w} : sum'[v] = sum[v],
           hashFd' \in [Workers -> UserFiles \cup {NotOpen, AtPath, Dir}],
           \A v \in Workers \ {w} : hashFd'[v] = hashFd[v],
           \/ cliPc' = cliPc
           \/ /\ cliPc' = [cliPc EXCEPT ![w] = IF At(w, "small hash") THEN "begin" ELSE "blocks"]
              /\ hashFd'[w] = NotOpen,
           hashFd'[w] = AtPath => source[Path(w)] # Absent,
           hashFd'[w] # NotOpen => sum'[w] \in Files
    PROVE  /\ ServerInv(Sendable(G), G)' /\ Connections' /\ ClientTypes' /\ Apart(w)
           /\ (\A v \in Workers \ {w} : Still(v)) /\ source' = source /\ WorkerOK(w)'
<1> DEFINE k == conn[w]
<1>1. /\ ServerInv(Sendable(G), G) /\ Connections /\ ClientTypes /\ WorkerOK(w) /\ G \subseteq Files
      /\ k # 0 /\ task[w] # NoTask
  BY DEF Inv, WorkerOK, Local, Linked, HashLabels
<1>2. UNCHANGED <<up, down, link, ServerRest, source, writes>>
  BY DEF serverVars, netVars, ServerRest, userVars
<1>3. ServerInv(Sendable(G), G)' /\ Connections' /\ Apart(w)
  BY <1>1, <1>2, CloseEffect
<1>4. cliPc' \in [Workers -> ClientLabels] /\ \A v \in Workers \ {w} : cliPc'[v] = cliPc[v]
  BY <1>1 DEF ClientTypes, ClientLabels
<1>5. ClientTypes'
  BY <1>1, <1>2, <1>4 DEF ClientTypes
<1>6. \A v \in Workers \ {w} : Still(v)
  BY <1>4 DEF Still
<1>7. WorkerOK(w)'
  <2>1. /\ \/ cliPc'[w] = cliPc[w]
           \/ cliPc[w] = "small hash" /\ cliPc'[w] = "begin" /\ hashFd'[w] = NotOpen
           \/ cliPc[w] = "large hash" /\ cliPc'[w] = "blocks" /\ hashFd'[w] = NotOpen
        /\ applied' = applied /\ req' = req /\ srvPc' = srvPc
    BY <1>1, <1>2 DEF ClientTypes, HashLabels, At, ServerRest, threadVars, treeVars
  <2>2. Local(w)'
    BY <1>1, <1>2, <2>1, RemoteAssumption
       DEF WorkerOK, Local, Linked, Path, HashLabels, Summed
  <2>3. /\ up[k] = <<>> /\ down[k] = <<>>
        /\ srvPc[k] \in {"recv", "gone"} /\ applied[k] = NoEffect
    BY <1>1 DEF WorkerOK, Asking, HashLabels
  <2>4. req[k] = NoMsg
    BY <1>1, <2>3, OwnConn DEF ServerInv, Threads
  <2>5. DOMAIN up[k] = {} /\ DOMAIN down[k] = {} /\ Len(up[k]) <= 1 /\ Len(down[k]) <= 1
    BY <2>3, EmptySequence
  <2>6. /\ up'[k] = up[k] /\ down'[k] = down[k] /\ up'[k] = <<>> /\ down'[k] = <<>> /\ srvPc'[k] \in {"recv", "gone"}
        /\ applied'[k] = NoEffect /\ req'[k] = NoMsg /\ conn'[w] = k
    BY <1>2, <2>1, <2>3, <2>4
  <2> HIDE DEF k
  <2>7. Asking(w)' /\ NoOffset(w)' /\ Hashed(w)'
    BY <2>5, <2>6 DEF Asking, NoOffset, Hashed
  <2>8. cliPc'[w] # "done"
    BY <2>1 DEF HashLabels
  <2>9. QED
    BY <2>2, <2>7, <2>8 DEF WorkerOK
<1>8. QED
  BY <1>2, <1>3, <1>5, <1>6, <1>7

\* hash_file_fnv1a opens the file.
LEMMA HashOpenKeeps ==
    ASSUME NEW G, Inv(G), NEW w \in Workers, HashOpen(w)
    PROVE  Inv(G)'
<1>1. ClientTypes /\ <<>> \in Files
  BY FilesAreSequences, FileAssumption DEF Inv
<1>2. /\ sum' \in [Workers -> Hashes] /\ sum'[w] \in Files
      /\ \A v \in Workers \ {w} : sum'[v] = sum[v]
      /\ hashFd' \in [Workers -> UserFiles \cup {NotOpen, AtPath, Dir}]
      /\ \A v \in Workers \ {w} : hashFd'[v] = hashFd[v]
  BY <1>1 DEF HashOpen, ClientTypes, Hashes
<1>3. /\ cliPc[w] \in HashLabels /\ cliPc' = cliPc /\ torn' = torn /\ source[Path(w)] # Absent
      /\ UNCHANGED <<serverVars, userVars, taken, made, task, tries, conn, held, pos>>
  BY DEF HashOpen
<1>4. /\ ServerInv(Sendable(G), G)' /\ Connections' /\ ClientTypes' /\ Apart(w)
      /\ (\A v \in Workers \ {w} : Still(v)) /\ source' = source /\ WorkerOK(w)'
  BY <1>2, <1>3, HashLocal
<1>5. cliPc'[w] \notin Summed
  BY <1>3 DEF HashLabels, Summed
<1>6. QED
  BY <1>3, <1>4, <1>5, OthersKeep DEF Inv

\* What is hashed is a file or a directory.
LEMMA HashedFile ==
    ASSUME NEW G, Inv(G), NEW w \in Workers, Hashing(w)
    PROVE  /\ Through(hashFd, w) \in UserFiles \cup {Dir} /\ sum[w] \in Files
           /\ hashFd[w] = AtPath => source[Path(w)] # Absent
<1>1. ClientTypes /\ Local(w) /\ task[w] # NoTask
  BY DEF Inv, WorkerOK, Local, Hashing, HashLabels
<1>2. Path(w) \in Paths
  BY <1>1, TaskFields
<1>3. QED
  BY <1>1, <1>2 DEF Local, Hashing, ClientTypes, Through

\* It reads one more block, of whatever the file is by now.
LEMMA HashBlockKeeps ==
    ASSUME NEW G, Inv(G), NEW w \in Workers, HashBlock(w)
    PROVE  Inv(G)'
<1> DEFINE x == Through(hashFd, w)
           b == x[Len(sum[w]) + 1]
<1>1. /\ ClientTypes /\ sum[w] \in Files /\ x \in Files /\ Len(sum[w]) < Len(x)
      /\ hashFd[w] = AtPath => source[Path(w)] # Absent
  BY HashedFile, UserFilesAreFiles DEF Inv, HashBlock, IsFile
<1>2. Append(sum[w], b) \in Files
  <2>1. /\ sum[w] \in Seq(Blocks \cup {Hole}) /\ Len(sum[w]) \in 0 .. MaxBlocks
        /\ x \in [1 .. Len(x) -> Blocks \cup {Hole}] /\ Len(x) \in 0 .. MaxBlocks
    BY <1>1, FileLength
  <2> HIDE DEF x
  <2>2. Len(sum[w]) + 1 \in 1 .. Len(x) /\ Len(sum[w]) + 1 <= MaxBlocks
    BY <1>1, <2>1, FileAssumption
  <2>3. b \in Blocks \cup {Hole}
    BY <2>1, <2>2
  <2> HIDE DEF b
  <2>4. Append(sum[w], b) \in Seq(Blocks \cup {Hole}) /\ Len(Append(sum[w], b)) = Len(sum[w]) + 1
    BY <2>1, <2>3
  <2>5. QED
    BY <2>2, <2>4, FilesAreSequences
<1>3. sum' = [sum EXCEPT ![w] = Append(sum[w], b)]
  BY DEF HashBlock
<1>4. /\ sum' \in [Workers -> Hashes] /\ sum'[w] \in Files
      /\ \A v \in Workers \ {w} : sum'[v] = sum[v]
  BY <1>1, <1>2, <1>3 DEF ClientTypes, Hashes
<1>5. /\ cliPc[w] \in HashLabels /\ cliPc' = cliPc /\ torn' = torn /\ hashFd' = hashFd
      /\ UNCHANGED <<serverVars, userVars, taken, made, task, tries, conn, held, pos>>
  BY DEF HashBlock, Hashing
<1>6. /\ ServerInv(Sendable(G), G)' /\ Connections' /\ ClientTypes' /\ Apart(w)
      /\ (\A v \in Workers \ {w} : Still(v)) /\ source' = source /\ WorkerOK(w)'
  BY <1>1, <1>4, <1>5, HashLocal DEF ClientTypes
<1>7. cliPc'[w] \notin Summed
  BY <1>5 DEF HashLabels, Summed
<1>8. QED
  BY <1>5, <1>6, <1>7, OthersKeep DEF Inv

\* What hash_file_fnv1a returns goes into the messages.
LEMMA HashIsLocal ==
    ASSUME NEW G, Inv(G), NEW w \in Workers, cliPc[w] \in HashLabels, NEW x \in Hashes, HashIs(w, x)
    PROVE  /\ ServerInv(Sendable(G), G)' /\ Connections' /\ ClientTypes' /\ Apart(w)
           /\ (\A v \in Workers \ {w} : Still(v)) /\ source' = source /\ WorkerOK(w)'
           /\ sum'[w] = x
<1>1. ClientTypes
  BY DEF Inv
<1>2. /\ sum' \in [Workers -> Hashes] /\ sum'[w] = x /\ \A v \in Workers \ {w} : sum'[v] = sum[v]
      /\ hashFd' \in [Workers -> UserFiles \cup {NotOpen, AtPath, Dir}] /\ hashFd'[w] = NotOpen
      /\ \A v \in Workers \ {w} : hashFd'[v] = hashFd[v]
  BY <1>1 DEF HashIs, ClientTypes
<1>3. /\ cliPc' = [cliPc EXCEPT ![w] = IF At(w, "small hash") THEN "begin" ELSE "blocks"]
      /\ UNCHANGED <<serverVars, userVars, taken, made, task, tries, conn, held, pos>>
  BY DEF HashIs, GoTo
<1>4. NotOpen # AtPath
  BY RemoteAssumption
<1>5. QED
  BY <1>2, <1>3, <1>4, HashLocal

\* The file could not be read.
LEMMA HashFailsKeeps ==
    ASSUME NEW G, Inv(G), NEW w \in Workers, HashFails(w)
    PROVE  Inv(G)'
<1>1. cliPc[w] \in HashLabels /\ HashIs(w, NoHash) /\ torn' = torn /\ NoHash \in Hashes
  BY DEF HashFails, Hashing, Hashes
<1>2. /\ ServerInv(Sendable(G), G)' /\ Connections' /\ ClientTypes' /\ Apart(w)
      /\ (\A v \in Workers \ {w} : Still(v)) /\ source' = source /\ WorkerOK(w)'
      /\ sum'[w] = NoHash
  BY <1>1, HashIsLocal
<1>3. QED
  BY <1>1, <1>2, OthersKeep DEF Inv

\* All of the file is read: what was hashed is a file of the user, or one hash more that is
\* of a mixture.
LEMMA HashEndKeeps ==
    ASSUME NEW G, Inv(G), NEW w \in Workers, HashEnd(w)
    PROVE  IInv'
<1>1. PICK x : x = sum[w]
  OBVIOUS
<1>2. /\ cliPc[w] \in HashLabels /\ HashIs(w, x) /\ x \in Files
      /\ torn' = torn \cup ({x} \ {Through(hashFd, w)})
      /\ x \in UserFiles \/ x # Through(hashFd, w)
  BY <1>1, HashedFile, UserFilesAreFiles, FileAssumption DEF HashEnd, Hashing, IsFile
<1>3. /\ ServerInv(Sendable(G), G)' /\ Connections' /\ ClientTypes' /\ Apart(w)
      /\ (\A v \in Workers \ {w} : Still(v)) /\ source' = source /\ WorkerOK(w)'
      /\ sum'[w] = x
  BY <1>2, HashIsLocal DEF Hashes
<1>4. PICK H : H = G \cup {x}
  OBVIOUS
<1>5. H \subseteq Files /\ H = UserFiles \cup torn'
  BY <1>2, <1>4 DEF Inv
<1>6. ServerInv(Sendable(H), H)'
  BY <1>3, <1>4, MoreHashes
<1>7. (\A v \in Workers : WorkerOK(v)') /\ Sums(H)'
  <2>1. Sums(H) /\ Connections /\ \A v \in Workers : WorkerOK(v)
    BY <1>4 DEF Inv, Sums
  <2>2. QED
    BY <1>3, <1>4, <2>1, OthersKeep
<1>8. Inv(H)'
  BY <1>3, <1>5, <1>6, <1>7 DEF Inv
<1>9. QED
  BY <1>5, <1>8 DEF IInv

\* A worker takes a task.
LEMMA TakeKeeps ==
    ASSUME NEW G, Inv(G), NEW w \in Workers, NEW t \in Tasks, Take(w, t)
    PROVE  Inv(G)'
<1>1. /\ ServerInv(Sendable(G), G) /\ Connections /\ ClientTypes /\ WorkerOK(w)
      /\ cliPc[w] = "idle" /\ taken < MaxTasks
  BY DEF Inv, Take, At
<1>2. UNCHANGED <<serverVars, source, writes, made, tries, conn, sum, hashFd, torn, held, pos>>
  BY DEF Take, userVars, sumVars
<1>3. UNCHANGED <<up, down, link, ServerRest>>
  BY <1>2 DEF serverVars, netVars, ServerRest
<1>4. /\ ServerInv(Sendable(G), G)' /\ Connections' /\ Apart(w)
  BY <1>1, <1>2, <1>3, CloseEffect
<1>5. taken' \in 0 .. MaxTasks
  <2>1. taken \in 0 .. MaxTasks /\ taken' = taken + 1
    BY <1>1 DEF Take, ClientTypes
  <2>2. QED
    BY <1>1, <2>1, RemoteAssumption
<1>6. ClientTypes'
  BY <1>1, <1>2, <1>5 DEF Take, GoTo, ClientTypes, ClientLabels
<1>7. \A v \in Workers \ {w} : Still(v)
  BY <1>1, <1>2 DEF Still, Take, GoTo, ClientTypes
<1>8. WorkerOK(w)'
  <2>1. cliPc'[w] = "start" /\ task'[w] = t /\ t # NoTask
    BY <1>1, RemoteAssumption DEF Take, GoTo, ClientTypes
  <2>2. conn'[w] = 0 /\ sum'[w] = NoHash /\ hashFd'[w] = NotOpen /\ held'[w] = NotOpen
    BY <1>1, <1>2 DEF WorkerOK, Local, HashLabels, Summed
  <2>3. QED
    BY <2>1, <2>2, NoConnection
<1>9. cliPc'[w] \notin Summed
  BY <1>1 DEF Take, GoTo, ClientTypes, Summed
<1>10. QED
  BY <1>1, <1>2, <1>4, <1>6, <1>7, <1>8, <1>9, OthersKeep DEF Inv

\* The user changes a file under a worker that has it open.
LEMMA UserKeeps ==
    ASSUME NEW G, Inv(G), User
    PROVE  Inv(G)'
<1>1. PICK p \in Paths : UserRemove(p) \/ UserMakeDir(p) \/ \E x \in UserFiles : UserWrite(p, x)
  BY DEF User
<1>2. /\ ServerInv(Sendable(G), G) /\ Connections /\ ClientTypes
      /\ \A w \in Workers : WorkerOK(w)
  BY DEF Inv
<1>3. UNCHANGED <<serverVars, taken, made, task, tries, cliPc, conn, sum, torn, pos>>
  BY <1>1 DEF UserRemove, UserMakeDir, UserWrite, cliVars, sumVars
<1>4. UNCHANGED <<up, down, link, srvPc, req, last, mutex, treeVars, faults>>
  BY <1>3 DEF serverVars, netVars, threadVars
<1>5. ServerInv(Sendable(G), G)'
  <2>1. WireTypes(Sendable(G))
    BY <1>2 DEF ServerInv, ServerTypes
  <2>2. QED
    BY <1>2, <1>4, <2>1, ClientSide DEF WireTypes
<1>6. Connections'
  BY <1>2, <1>3, <1>4 DEF Connections, treeVars
<1>7. /\ source' \in [Paths -> UserFiles \cup {Absent, Dir}]
      /\ held' \in [Workers -> UserFiles \cup {NotOpen, AtPath, Dir}]
      /\ hashFd' \in [Workers -> UserFiles \cup {NotOpen, AtPath, Dir}]
  BY <1>1, <1>2 DEF UserRemove, UserMakeDir, UserWrite, Unlinked, ClientTypes, cliVars, sumVars
<1>8. ClientTypes' /\ Sums(G)'
  <2>1. writes' \in 0 .. MaxWrites
    <3>1. writes \in 0 .. MaxWrites /\ writes < MaxWrites /\ writes' = writes + 1
      BY <1>1, <1>2 DEF UserRemove, UserMakeDir, UserWrite, MayChange, ClientTypes
    <3>2. QED
      BY <3>1, RemoteAssumption
  <2>2. QED
    BY <1>2, <1>3, <1>7, <2>1 DEF ClientTypes, Inv, Sums
<1>9. ASSUME NEW w \in Workers PROVE WorkerOK(w)'
  <2>1. \A k \in Conns : SameConn(k)
    BY <1>4 DEF SameConn, treeVars
  <2>2. (conn[w] # 0 => SameConn(conn[w])) /\ conn'[w] = conn[w]
    BY <1>2, <1>3, <2>1, OwnConn
  <2>3. WorkerOK(w)
    BY <1>2
  <2>4. Asking(w)' /\ NoOffset(w)' /\ Hashed(w)'
    BY <1>3, <1>4, <2>3 DEF WorkerOK, Asking, NoOffset, Hashed, treeVars
  <2>5. ASSUME NEW fds, NEW after, fds \in UserFiles \cup {NotOpen, AtPath, Dir},
               \/ UserRemove(p) /\ after = IF fds = AtPath /\ Path(w) = p THEN source[p] ELSE fds
               \/ ~UserRemove(p) /\ after = fds,
               task[w] # NoTask, fds = AtPath => source[Path(w)] # Absent
        PROVE  /\ after = NotOpen <=> fds = NotOpen
               /\ after = AtPath => source'[Path(w)] # Absent
    <3>1. Path(w) \in Paths /\ source \in [Paths -> UserFiles \cup {Absent, Dir}]
      BY <1>2, <2>5, TaskFields DEF ClientTypes
    <3>2. CASE UserRemove(p)
      <4>1. source' = [source EXCEPT ![p] = Absent] /\ source[p] \in UserFiles \cup {Dir}
        BY <3>1, <3>2 DEF UserRemove
      <4>2. QED
        BY <2>5, <3>1, <3>2, <4>1, RemoteAssumption
    <3>3. CASE ~UserRemove(p)
      <4>1. PICK x \in UserFiles \cup {Dir} : source' = [source EXCEPT ![p] = x]
        BY <1>1, <3>3 DEF UserMakeDir, UserWrite
      <4>2. x # Absent
        BY UserFilesAreFiles, FileAssumption
      <4>3. QED
        BY <2>5, <3>1, <3>3, <4>1, <4>2
    <3>4. QED
      BY <3>2, <3>3
  <2>6. /\ held'[w] = IF UserRemove(p) /\ held[w] = AtPath /\ Path(w) = p THEN source[p] ELSE held[w]
        /\ hashFd'[w] = IF UserRemove(p) /\ hashFd[w] = AtPath /\ Path(w) = p
                        THEN source[p] ELSE hashFd[w]
    BY <1>1, <1>2 DEF UserRemove, UserMakeDir, UserWrite, Unlinked, Path, cliVars, sumVars
  <2>7. task[w] # NoTask =>
          /\ (held[w] = AtPath => source[Path(w)] # Absent) =>
               (held'[w] = NotOpen <=> held[w] = NotOpen) /\ (held'[w] = AtPath => source'[Path(w)] # Absent)
          /\ (hashFd[w] = AtPath => source[Path(w)] # Absent) =>
               /\ hashFd'[w] = NotOpen <=> hashFd[w] = NotOpen
               /\ hashFd'[w] = AtPath => source'[Path(w)] # Absent
    BY <1>2, <2>5, <2>6 DEF ClientTypes
  <2>8. Local(w)'
    <3>1. CASE task[w] = NoTask
      BY <1>3, <1>4, <2>3, <2>6, <3>1, RemoteAssumption
         DEF WorkerOK, Local, Linked, Path, HashLabels, Summed
    <3>2. CASE task[w] # NoTask
      <4>1. /\ held[w] = AtPath => source[Path(w)] # Absent
            /\ hashFd[w] = AtPath => source[Path(w)] # Absent
        BY <2>3, RemoteAssumption DEF WorkerOK, Local
      <4>2. QED
        BY <1>3, <1>4, <2>3, <2>7, <3>2, <4>1 DEF WorkerOK, Local, Linked, Path
    <3>3. QED
      BY <3>1, <3>2
  <2>9. QED
    BY <1>3, <1>4, <2>3, <2>4, <2>8 DEF WorkerOK, treeVars
<1>10. QED
  BY <1>3, <1>5, <1>6, <1>8, <1>9 DEF Inv

\* Every step of a worker keeps the invariant.
LEMMA WorkerKeeps ==
    ASSUME NEW G, Inv(G), NEW w \in Workers, Worker(w)
    PROVE  IInv'
<1>1. Inv(G)' => IInv'
  BY DEF Inv, IInv
<1>2. QED
  BY <1>1, WorkerCases, ConnectingKeeps, SendingKeeps, FailingKeeps, UnlinkedKeeps, LargeOpenKeeps,
     AcknowledgedKeeps, HashOpenKeeps, HashBlockKeeps, HashEndKeeps, HashFailsKeeps

\* Every step keeps the invariant.
LEMMA NextKeeps ==
    ASSUME IInv, [Next]_vars
    PROVE  IInv'
<1>1. PICK G : Inv(G)
  BY DEF IInv
<1>2. Inv(G)' => IInv'
  BY DEF Inv, IInv
<1>3. CASE ServerNext /\ UNCHANGED <<userVars, cliVars>>
  BY <1>1, <1>2, <1>3, ServerStepKeeps
<1>4. CASE User
  BY <1>1, <1>2, <1>4, UserKeeps
<1>5. ASSUME NEW w \in Workers, Worker(w) \/ \E t \in Tasks : Take(w, t)
      PROVE  IInv'
  BY <1>1, <1>2, <1>5, WorkerKeeps, TakeKeeps
<1>6. CASE UNCHANGED vars
  <2>1. UNCHANGED <<serverVars, userVars, cliVars, sumVars>>
    BY <1>6 DEF vars, cliVars
  <2>2. ServerInv(Sendable(G), G)'
    BY <1>1, <2>1 DEF Inv, serverVars, netVars, threadVars, treeVars, ServerInv, ServerTypes,
         WireTypes, TreeTypes, Threads, OldSafe, Kept, AckApplied, WholeOf
  <2>3. Connections' /\ ClientTypes' /\ Sums(G)' /\ torn' = torn
    BY <1>1, <2>1 DEF Inv, serverVars, netVars, threadVars, treeVars, userVars, cliVars, sumVars,
         Connections, ClientTypes, Sums
  <2>4. ASSUME NEW w \in Workers PROVE WorkerOK(w)'
    <3>1. WorkerOK(w)
      BY <1>1 DEF Inv
    <3>2. QED
      BY <2>1, <3>1 DEF serverVars, netVars, threadVars, treeVars, userVars, cliVars, sumVars,
         WorkerOK, Local, Path, Asking, NoOffset, Hashed
  <2>5. QED
    BY <1>1, <1>2, <2>2, <2>3, <2>4 DEF Inv
<1>7. QED
  BY <1>3, <1>4, <1>5, <1>6 DEF Next
-----------------------------------------------------------------------------
(* Theorems *)

\* The inductive invariant holds: every hash that is under way is of a file of the user or of
\* a mixture that was hashed before, and what is current is of the same files.
THEOREM Inductive == Spec => []IInv
<1>1. Init => IInv
  BY InitIInv
<1>2. IInv /\ [Next]_vars => IInv'
  BY NextKeeps
<1>3. QED
  BY <1>1, <1>2, PTL DEF Spec

\* Every variable keeps its type: a block is never written outside a file, a thread has
\* the mutex exactly while it receives a file, a worker waits only on a connection it has.
THEOREM TypeCorrect == Spec => []TypeOK
<1>1. IInv => TypeOK
  <2> SUFFICES ASSUME IInv PROVE TypeOK
    OBVIOUS
  <2>0. PICK G : Inv(G)
    BY DEF IInv
  <2>1. /\ WireTypes(Sendable(G)) /\ torn \subseteq Files /\ TreeTypes /\ Threads /\ Connections /\ ClientTypes
        /\ \A w \in Workers : Local(w)
    BY <2>0 DEF Inv, ServerInv, ServerTypes, WorkerOK
  <2>2. \A k \in Conns : \A i \in DOMAIN up[k] : IsRequest(up[k][i])
    <3> SUFFICES ASSUME NEW k \in Conns, NEW i \in DOMAIN up[k] PROVE IsRequest(up[k][i])
      OBVIOUS
    <3>1. up[k] \in Seq(Sendable(G))
      BY <2>1 DEF WireTypes
    <3>2. up[k][i] \in Sendable(G)
      BY <3>1
    <3>3. QED
      BY <3>2, RequestFields DEF Sendable, Fitting
  <2>3. \A k \in Conns : \A i \in DOMAIN down[k] : down[k][i] \in Replies
    <3> SUFFICES ASSUME NEW k \in Conns, NEW i \in DOMAIN down[k] PROVE down[k][i] \in Replies
      OBVIOUS
    <3>1. down[k] \in Seq(Replies)
      BY <2>1 DEF WireTypes
    <3>2. QED
      BY <3>1
  <2>4. \A k \in Conns : req[k] # NoMsg => IsRequest(req[k])
    BY <2>1, RequestFields DEF WireTypes, Sendable, Fitting
  <2>5. ServerTypeOK
    BY <2>1, <2>2, <2>3, <2>4 DEF ServerTypeOK, WireTypes, TreeTypes, Threads
  <2>6. QED
    BY <2>1, <2>5 DEF TypeOK, Connections, ClientTypes, Local, Linked, HashLabels
<1>2. QED
  BY <1>1, Inductive, PTL

\* A worker that goes on after an answer was served: the server did on its connection what
\* was asked, and stored the very file that was hashed (transfer.c:311, wait_for_ack).
THEOREM SuccessIsApplied == Spec => []SuccessMeansApplied
<1>1. IInv => SuccessMeansApplied
  BY DEF IInv, Inv, WorkerOK, Hashed, Summed, SuccessMeansApplied
<1>2. QED
  BY <1>1, Inductive, PTL

\* A file that gets into current/ is one the user had, or the very sequence of blocks that a
\* client hashed while its file changed (hash.c:27-57), or one that no hash was sent for:
\* whatever was left in .syncing and however the blocks change between the hash and the send,
\* the server adds no other mixture (server.c:145, 285 compare with the mutex held).
THEOREM CurrentNeverTorn == Spec => []CurrentIsWhole
<1>1. IInv => CurrentIsWhole
  BY DEF IInv, Inv, ServerInv, WholeOf, CurrentIsWhole
<1>2. QED
  BY <1>1, Inductive, PTL

\* What an upload or a delete takes out of current/ is kept in .versions or .trash
\* (backup_old_version, move_to_trash), whatever other connections do in between.
THEOREM OldFilesKept == Spec => OldFileKept
<1>1. ASSUME IInv, [Next]_vars, \A k \in Conns : ~Rename(k), DiskWorks,
             NEW p \in Paths, IsFile(current[p]), CanBackup(p), current'[p] # current[p]
      PROVE  current[p] \in Kept(p)'
  <2>1. ServerNext
    <3>1. CASE User
      BY <1>1, <3>1 DEF User, UserRemove, UserMakeDir, UserWrite, serverVars, treeVars
    <3>2. ASSUME NEW w \in Workers, Worker(w) \/ \E t \in Tasks : Take(w, t)
          PROVE  current' = current
      BY <3>2 DEF Worker, Take, SendDelete, SendRename, RenameFails, SendDirCreate, Upload,
             ConnectFails, SmallConnect, SmallBegin, SmallRead, SmallReadFails, LargeQuery, LargeOpen,
             LargeOpenFails, LargeBlock, LargeEnd, LargeReadFails, Acknowledged,
             NotAcknowledged, Return, Connect, HashOpen, HashBlock, HashEnd, HashFails, HashIs,
             ServerRest, serverVars, treeVars
    <3>3. CASE UNCHANGED vars
      BY <1>1, <3>3 DEF vars, serverVars, treeVars
    <3>4. QED
      BY <1>1, <3>1, <3>2, <3>3 DEF Next
  <2>2. QED
    <3>1. PICK G : Inv(G)
      BY <1>1 DEF IInv
    <3>2. G \subseteq Files /\ ServerInv(Sendable(G), G) /\ Sendable(G) \subseteq Fitting
      BY <3>1, SendableMessages DEF Inv
    <3>3. QED
      BY <1>1, <2>1, <3>2, OldFileKeeps
<1>2. IInv /\ [Next]_vars =>
        [(\A k \in Conns : ~Rename(k)) /\ DiskWorks =>
           \A p \in Paths :
             IsFile(current[p]) /\ CanBackup(p) /\ current'[p] # current[p] =>
                 current[p] \in Kept(p)']_serverVars
  BY <1>1
<1>3. QED
  BY <1>2, Inductive, PTL DEF Spec, OldFileKept
=============================================================================

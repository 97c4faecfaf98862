--------------------------- MODULE MonitorProofs ---------------------------
(***************************************************************************)
(* The safety of Monitor, proved for any number of directories, names and  *)
(* changes and for tables of any size: what watched directories have is in *)
(* the backup once nothing is on its way, and so is the rest as soon as    *)
(* the poll finds nothing.                                                 *)
(*                                                                         *)
(* The argument.  Every change in a watched directory leaves an event, and *)
(* the last event about an entry tells what is there (LastInv).  So as     *)
(* long as an entry differs from the backup something is on its way to it: *)
(* an event, an update that waits, a scan that will come by, or the move   *)
(* record.  Events are reported under paths that may be old, but then an   *)
(* event about the directory, or the call that will watch it again, is on  *)
(* its way too (ItemInv), and with it a scan of all of the directory.      *)
(***************************************************************************)
EXTENDS Monitor, FiniteSetTheorems, SequenceTheorems, TLAPS

Tops == {<<n>> : n \in RootNames}
Views == Files \cup {Absent, Dir}
Stats == 0 .. MaxChanges \cup {NoStat, Dir}
Masks == {"CREATE", "MODIFY", "DELETE", "MOVED_FROM", "MOVED_TO"}
Appears == {"CREATE", "MODIFY", "MOVED_TO"}
Ops == {"watch", "scan", "poll", "deletes"}
Events == [wd : {Root} \cup SubDirs, mask : Masks, name : Names, dir : BOOLEAN,
           cookie : 1 .. MaxChanges]
Calls == [op : Ops, dir : {<<>>} \cup Tops, todo : (SUBSET RootNames) \cup (SUBSET InnerNames)]

UserTypes ==
    /\ content \in [Dirs -> [Names -> Entries]]
    /\ made \subseteq SubDirs /\ changes \in 0 .. MaxChanges
    /\ watched \subseteq {Root} \cup made
    /\ events \in Seq(Events)

MonitorTypes ==
    /\ watchItems \in [DOMAIN watchItems -> {<<>>} \cup Tops]
    /\ IsFiniteSet(DOMAIN watchItems) /\ Cardinality(DOMAIN watchItems) <= MaxWatches
    /\ snapshots \in [DOMAIN snapshots -> Stats] /\ DOMAIN snapshots \subseteq Paths
    /\ IsFiniteSet(DOMAIN snapshots) /\ Cardinality(DOMAIN snapshots) <= MaxSnapshots
    /\ seen \subseteq Paths
    /\ move \in Moves \cup {NoMove}
    /\ calls \in Seq(Calls)

BackupTypes ==
    /\ pending \in [DOMAIN pending -> BOOLEAN] /\ DOMAIN pending \subseteq Paths
    /\ replica \in [Paths -> Views]
    /\ suspect \subseteq Paths /\ stale \subseteq Paths

-----------------------------------------------------------------------------
(* The tree and the events about it *)

Top(n) == content[Root][n]
Placed(c, i) == \E d \in {Root, Out} : \E n \in Names : c[d][n] = i

\* Directories are in Root and Out only, each under one name.
Tree(c, M) ==
    /\ \A d \in {Root, Out}, n \in Names : c[d][n] \in SubDirs => c[d][n] \in M
    /\ \A d \in SubDirs, n \in Names : c[d][n] \notin SubDirs
    /\ \A d \in Dirs, n \in Names : c[d][n] # Absent => n \in NamesIn(d)
    /\ \A d, e \in {Root, Out}, n, k \in Names :
         c[d][n] \in SubDirs /\ c[d][n] = c[e][k] => d = e /\ n = k

\* A directory has a watch as long as it has a name, and its events are of its entries.
Of(c, M, W, e) ==
    /\ \/ e.wd = Root /\ Root \in W
       \/ e.wd \in M /\ (e.wd \in W \/ ~Placed(c, e.wd))
    /\ e.dir => e.wd = Root /\ e.mask # "MODIFY"
    /\ e.name \in NamesIn(e.wd)
Heard(c, M, W, es) == \A j \in DOMAIN es : Of(c, M, W, es[j])

Matches(c, e) ==
    LET x == c[e.wd][e.name] IN
    /\ e.mask \in Appears <=> x # Absent
    /\ x # Absent => (e.dir <=> x \in SubDirs)
About(e, d, n) == e.wd = d /\ e.name = n

\* The last event about an entry tells what is there.
Last(c, es) ==
    \A j \in DOMAIN es :
        \/ Matches(c, es[j])
        \/ \E k \in DOMAIN es : k > j /\ About(es[k], es[j].wd, es[j].name)

Named(d, n) == \E j \in DOMAIN events : About(events[j], d, n)
\* ... by an event that says that what was there went, or that something came in its place
Gone(d, n) ==
    \E j \in DOMAIN events : About(events[j], d, n) /\ events[j].mask \notin {"CREATE", "MODIFY"}

TreeInv == Tree(content, made)
HeardInv == Heard(content, made, watched, events)
LastInv == Last(content, events)

-----------------------------------------------------------------------------
(* The watch table and the calls *)

\* Before its first step the monitor has nothing but its first two calls.
Fresh ==
    /\ calls = WatchAndScan(<<>>) /\ events = <<>> /\ watched = {} /\ DOMAIN watchItems = {}
    /\ replica = [p \in Paths |-> Absent] /\ DOMAIN snapshots = {} /\ DOMAIN pending = {}
    /\ move = NoMove /\ suspect = {} /\ stale = {}
Started == Root \in watched /\ Root \in DOMAIN watchItems /\ watchItems[Root] = <<>>
StartInv == Fresh \/ Started

\* Only Root has the empty path; a directory that has a name here or outside keeps its watch.
TableInv ==
    \A i \in DOMAIN watchItems \ {Root} :
        i \in made /\ (i \in watched \/ ~Placed(content, i)) /\ watchItems[i] # <<>>

LeftOf(c, n) == c.todo = {} \/ n \in c.todo
\* A call will come by an entry of Root, by an entry of another directory, by all of that.
Meets(c, op, n) == c.op = op /\ c.dir = <<>> /\ LeftOf(c, n)
Enters(c, op, n, m) == Meets(c, op, n) \/ (c.op = op /\ c.dir = <<n>> /\ LeftOf(c, m))
Whole(c, op, n) == Meets(c, op, n) \/ (c.op = op /\ c.dir = <<n>> /\ c.todo = {})

WillMeet(op, n) == \E j \in DOMAIN calls : Meets(calls[j], op, n)
WillEnter(op, n, m) == \E j \in DOMAIN calls : Enters(calls[j], op, n, m)
WillDo(op, n) == \E j \in DOMAIN calls : Whole(calls[j], op, n)

\* A directory has its path in the table, or will get it.
ItemInv ==
    \A n \in RootNames : Top(n) \in SubDirs \cap DOMAIN watchItems =>
        watchItems[Top(n)] = <<n>> \/ Named(Root, n) \/ WillDo("watch", n)

Polling == \E j \in DOMAIN calls : calls[j].op = "deletes"
\* A poll ends with its deletes and does nothing else, and no other call does any of it.
StackInv ==
    /\ Polling <=> \E j \in DOMAIN calls : calls[j].op = "poll" \/ calls[j].op = "deletes"
    /\ \A j \in DOMAIN calls :
         /\ Polling => calls[j].op = IF j = Len(calls) THEN "deletes" ELSE "poll"
         /\ calls[j].op = "deletes" => calls[j].todo = {}
         /\ calls[j].todo \subseteq IF calls[j].dir = <<>> THEN RootNames ELSE InnerNames

\* What is to be watched will be scanned afterwards.
WatchInv ==
    \A j \in DOMAIN calls, n \in RootNames :
        Whole(calls[j], "watch", n) => \E k \in DOMAIN calls : k > j /\ Whole(calls[k], "scan", n)

-----------------------------------------------------------------------------
(* The backup and what is on its way to it *)

Moving(n) == move # NoMove /\ move.path = <<n>>
SameKind(u, v) == u = v \/ (IsFile(u) /\ IsFile(v))

\* A name of Root that has something else in the backup.
Unlike(n) ==
    replica[<<n>>] # Absent /\ ~SameKind(replica[<<n>>], View(<<n>>))
      => <<n>> \in suspect \/ Gone(Root, n) \/ Moving(n)

\* An update that waits for what is no more there.
Outdated(n) ==
    <<n>> \in DOMAIN pending =>
      /\ View(<<n>>) # Absent /\ (pending[<<n>>] # (View(<<n>>) = Dir)) => Named(Root, n)
      /\ View(<<n>>) # Dir /\ pending[<<n>>] => <<n>> \in suspect \/ Gone(Root, n) \/ Moving(n)

TopComing(n) ==
    View(<<n>>) # Absent =>
      \/ InStep(<<n>>) \/ <<n>> \in suspect \/ <<n>> \in DOMAIN pending
      \/ Named(Root, n) \/ Moving(n) \/ WillMeet("scan", n)

InComing(n, m) ==
    View(<<n, m>>) # Absent /\ Top(n) \in DOMAIN watchItems =>
      \/ InStep(<<n, m>>) \/ <<n, m>> \in suspect \/ <<n, m>> \in DOMAIN pending
      \/ Named(Root, n) \/ (Named(Top(n), m) /\ watchItems[Top(n)] = <<n>>)
      \/ WillEnter("scan", n, m) \/ IsFile(replica[<<n>>])

\* Inner names have files; a directory gets there only by a rename that made it suspect.
Inner(n, m) ==
    /\ replica[<<n, m>>] = Dir => <<n, m>> \in suspect
    /\ replica[<<n, m>>] # Absent => replica[<<n>>] = Dir
    /\ <<n, m>> \in DOMAIN pending => ~pending[<<n, m>>]

\* What the poll would delete and is there again has been told.
TopPolled(n) ==
    Polling /\ View(<<n>>) # Absent /\ <<n>> \in DOMAIN snapshots =>
      <<n>> \in seen \/ WillMeet("poll", n) \/ Named(Root, n)
InPolled(n, m) ==
    Polling /\ View(<<n, m>>) # Absent /\ Top(n) \in DOMAIN watchItems
      /\ <<n, m>> \in DOMAIN snapshots =>
      <<n, m>> \in seen \/ WillEnter("poll", n, m) \/ Named(Root, n) \/ Named(Top(n), m)

\* The backup has what the snapshots tell, will have it, or went astray.
Remembered(n, m) ==
    \/ Agrees(<<n, m>>) \/ <<n, m>> \in stale
    \/ <<n, m>> \in DOMAIN snapshots /\ (<<n, m>> \in DOMAIN pending \/ snapshots[<<n, m>>] = NoStat)
    \/ replica[<<n, m>>] = Dir \/ IsFile(replica[<<n>>])

TopInv == \A n \in RootNames : Unlike(n) /\ Outdated(n) /\ TopComing(n) /\ TopPolled(n)
InInv == \A n \in RootNames, m \in InnerNames :
           InComing(n, m) /\ Inner(n, m) /\ InPolled(n, m) /\ Remembered(n, m)

IInv ==
    /\ UserTypes /\ MonitorTypes /\ BackupTypes
    /\ TreeInv /\ HeardInv /\ LastInv
    /\ StartInv /\ TableInv /\ ItemInv /\ StackInv /\ WatchInv
    /\ TopInv /\ InInv
-----------------------------------------------------------------------------
(* Paths *)

\* The paths are the names in Root and the names in a directory of Root.
LEMMA TopPath ==
    ASSUME NEW n \in RootNames
    PROVE  /\ <<n>> \in Paths /\ Parent(<<n>>) = <<>> /\ Append(<<>>, n) = <<n>> /\ <<n>> # <<>>
           /\ Found(<<n>>) = Top(n)
           /\ \A p \in Paths : Under(p, <<n>>) <=> p = <<n>> \/ \E m \in InnerNames : p = <<n, m>>
<1>1. <<n>> \in Paths /\ Append(<<>>, n) = <<n>> /\ <<n>> # <<>>
  BY DEF Paths
<1>2. Parent(<<n>>) = <<>>
  BY DEF Parent
<1>3. Found(<<n>>) = Top(n)
  BY <1>2 DEF Found, Top
<1>4. ASSUME NEW p \in Paths
      PROVE Under(p, <<n>>) <=> p = <<n>> \/ \E m \in InnerNames : p = <<n, m>>
  <2>1. CASE \E k \in RootNames : p = <<k>>
    BY <2>1 DEF Under, Parent
  <2>2. CASE \E k \in RootNames, m \in InnerNames : p = <<k, m>>
    BY <2>2 DEF Under, Parent
  <2>3. QED
    BY <2>1, <2>2 DEF Paths
<1>5. QED
  BY <1>1, <1>2, <1>3, <1>4

LEMMA InnerPath ==
    ASSUME NEW n \in RootNames, NEW m \in InnerNames
    PROVE  /\ <<n, m>> \in Paths /\ Parent(<<n, m>>) = <<n>> /\ Append(<<n>>, m) = <<n, m>>
           /\ Found(<<n, m>>) = IF Top(n) \in SubDirs THEN content[Top(n)][m] ELSE Absent
           /\ \A p \in Paths : Under(p, <<n, m>>) <=> p = <<n, m>>
<1>1. <<n, m>> \in Paths /\ Append(<<n>>, m) = <<n, m>>
  <2> DEFINE s == Append(<<n>>, m)
  <2>1. /\ s \in Seq({n, m}) /\ Len(s) = 2
        /\ <<n, m>> \in Seq({n, m}) /\ Len(<<n, m>>) = 2
    OBVIOUS
  <2>2. s[1] = n /\ s[2] = m
    OBVIOUS
  <2> HIDE DEF s
  <2>3. s = <<n, m>>
    BY <2>1, <2>2
  <2>4. <<n, m>> \in Paths
    BY DEF Paths
  <2>5. QED
    BY <2>3, <2>4 DEF s
<1>2. Parent(<<n, m>>) = <<n>>
  BY DEF Parent
<1>3. Found(<<n, m>>) = IF Top(n) \in SubDirs THEN content[Top(n)][m] ELSE Absent
  <2>1. <<n>> # <<>> /\ <<n, m>> # <<>>
    OBVIOUS
  <2>2. Parent(<<n, m>>)[1] = n /\ <<n, m>>[1] = n /\ <<n, m>>[2] = m
    BY <1>2
  <2>3. QED
    BY <1>2, <2>1, <2>2 DEF Found, Top
<1>4. ASSUME NEW p \in Paths PROVE Under(p, <<n, m>>) <=> p = <<n, m>>
  <2>1. CASE \E k \in RootNames : p = <<k>>
    BY <2>1 DEF Under, Parent
  <2>2. CASE \E k \in RootNames, l \in InnerNames : p = <<k, l>>
    BY <2>2 DEF Under, Parent
  <2>3. QED
    BY <2>1, <2>2 DEF Paths
<1>5. QED
  BY <1>1, <1>2, <1>3, <1>4

LEMMA PathCases ==
    ASSUME NEW p \in Paths
    PROVE  \/ \E n \in RootNames : p = <<n>>
           \/ \E n \in RootNames, m \in InnerNames : p = <<n, m>>
BY DEF Paths

\* Paths of one name differ from those of two, and each from the others.
LEMMA PathsDiffer ==
    \A n, k, m, l :
      /\ <<n>> # <<k, m>> /\ (<<n>> = <<k>> <=> n = k)
      /\ <<n, m>> = <<k, l>> <=> n = k /\ m = l
OBVIOUS
-----------------------------------------------------------------------------
(* The user *)

LEMMA EventParts ==
    ASSUME NEW e \in Events
    PROVE  /\ e.wd \in {Root} \cup SubDirs /\ e.wd \in Dirs /\ e.name \in Names
           /\ e.mask \in Masks /\ e.dir \in BOOLEAN /\ e.cookie \in 1 .. MaxChanges
BY DEF Events, Dirs

Changed(c, d, n, y, b) == b = [c EXCEPT ![d][n] = y]
Queued(es, e, fs) == fs = es \o Told(e)
Follows(d, e, es, fs) ==
    /\ \A j \in DOMAIN es : j \in DOMAIN fs /\ fs[j] = es[j]
    /\ \A j \in DOMAIN fs : j \in DOMAIN es \/ (d \in watched /\ fs[j] = e)
    /\ IF d \in watched THEN \E j \in DOMAIN fs : fs[j] = e ELSE fs = es

\* A change of an entry is told if its directory has a watch, and behind all the rest.
LEMMA ChangeTold ==
    ASSUME NEW c \in [Dirs -> [Names -> Entries]], NEW es \in Seq(Events), Last(c, es),
           NEW d \in Dirs, NEW n \in Names, NEW y \in Entries, NEW e,
           d \in watched => e \in Events, About(e, d, n),
           d \in watched \/ \A j \in DOMAIN es : es[j].wd # d,
           NEW b, Changed(c, d, n, y, b), NEW fs, Queued(es, e, fs),
           Matches(b, e)
    PROVE  /\ b \in [Dirs -> [Names -> Entries]] /\ fs \in Seq(Events) /\ Last(b, fs)
           /\ Follows(d, e, es, fs)
<1>1. /\ b \in [Dirs -> [Names -> Entries]]
      /\ \A k \in Dirs, l \in Names : b[k][l] = IF k = d /\ l = n THEN y ELSE c[k][l]
  BY DEF Changed
<1>2. CASE d \in watched
  <2>1. fs = es \o <<e>> /\ e \in Events /\ e.wd = d /\ e.name = n
    BY <1>2 DEF Told, About, Queued
  <2>2. /\ fs \in Seq(Events) /\ Len(fs) = Len(es) + 1 /\ fs[Len(es) + 1] = e
        /\ \A j \in DOMAIN es : j \in DOMAIN fs /\ fs[j] = es[j]
        /\ \A j \in DOMAIN fs : j \in DOMAIN es \/ j = Len(es) + 1
        /\ Len(es) + 1 \in DOMAIN fs /\ \A j \in DOMAIN es : Len(es) + 1 > j
    BY <2>1
  <2>3. Last(b, fs)
    <3> SUFFICES ASSUME NEW j \in DOMAIN fs, ~Matches(b, fs[j])
                 PROVE \E k \in DOMAIN fs : k > j /\ About(fs[k], fs[j].wd, fs[j].name)
      BY DEF Last
    <3>1. j \in DOMAIN es /\ fs[j] = es[j]
      BY <2>2
    <3>2. CASE About(es[j], d, n)
      BY <2>1, <2>2, <3>1, <3>2 DEF About
    <3>3. CASE ~About(es[j], d, n)
      <4>1. es[j] \in Events /\ es[j].wd \in Dirs /\ es[j].name \in Names
        BY <3>1, EventParts
      <4>2. ~Matches(c, es[j])
        BY <1>1, <3>1, <3>3, <4>1 DEF Matches, About
      <4>3. PICK k \in DOMAIN es : k > j /\ About(es[k], es[j].wd, es[j].name)
        BY <3>1, <4>2 DEF Last
      <4>4. QED
        BY <2>2, <3>1, <4>3
    <3>4. QED
      BY <3>2, <3>3
  <2>4. QED
    BY <1>1, <1>2, <2>2, <2>3 DEF Follows
<1>3. CASE d \notin watched
  <2>1. fs = es
    BY <1>3 DEF Told, About, Queued
  <2>2. Last(b, fs)
    <3> SUFFICES ASSUME NEW j \in DOMAIN es, ~Matches(b, es[j]) PROVE ~Matches(c, es[j])
      BY <2>1 DEF Last
    <3>1. es[j] \in Events /\ es[j].wd \in Dirs /\ es[j].name \in Names /\ es[j].wd # d
      BY <1>3, EventParts
    <3>2. QED
      BY <1>1, <3>1 DEF Matches
  <2>3. QED
    BY <1>1, <1>3, <2>1, <2>2 DEF Follows
<1>4. QED
  BY <1>2, <1>3

LEMMA NamesOfDirs ==
    \A d \in Dirs : NamesIn(d) \subseteq Names
BY MonitorAssumption DEF NamesIn, Names

\* Where the user acts: a directory without a watch has no event.
LEMMA LiveDirs ==
    ASSUME UserTypes, TreeInv, HeardInv, NEW d \in Live \cup {Out}
    PROVE  /\ d \in Dirs
           /\ d \in {Root, Out} \/ (d \in made /\ d \in SubDirs /\ d \notin {Root, Out})
           /\ d \in SubDirs => Placed(content, d)
           /\ d \in watched \/ \A j \in DOMAIN events : events[j].wd # d
           /\ d \in watched => d \in {Root} \cup SubDirs
<1>1. d \in Dirs
  BY DEF Live, Dirs, UserTypes
<1>2. d \in {Root, Out} \/ (d \in made /\ d \in SubDirs /\ d \notin {Root, Out})
  BY MonitorAssumption DEF Live, UserTypes, Entries
<1>3. d \in SubDirs => Placed(content, d)
  BY <1>2, MonitorAssumption DEF Live, Placed, Names, Entries
<1>4. d \in watched \/ \A j \in DOMAIN events : events[j].wd # d
  <2> SUFFICES ASSUME d \notin watched, NEW j \in DOMAIN events, events[j].wd = d PROVE FALSE
    OBVIOUS
  <2>1. Of(content, made, watched, events[j])
    BY DEF HeardInv, Heard
  <2>2. events[j].wd \in {Root} \cup SubDirs
    BY EventParts DEF UserTypes
  <2>3. QED
    BY <1>3, <2>1, <2>2, MonitorAssumption DEF Of, UserTypes, Entries
<1>5. d \in watched => d \in {Root} \cup SubDirs
  BY DEF UserTypes
<1>6. QED
  BY <1>1, <1>2, <1>3, <1>4, <1>5

\* A step of the user makes no name for a directory that has none, and ends the watch only
\* of one that loses its name.
Keeps ==
    /\ changes' \in 0 .. MaxChanges
    /\ made \subseteq made' /\ made' \subseteq SubDirs
    /\ \A i \in made : ~Placed(content, i) => ~Placed(content', i)
    /\ watched' \subseteq watched
    /\ \A i \in watched \ watched' : i \in SubDirs /\ i \in made /\ ~Placed(content', i)
    /\ UNCHANGED monitorVars

Grows(x, y) == x = Absent \/ (IsFile(x) /\ IsFile(y))

\* What the rest of the proof needs of a step of the user.
UserDoes ==
    /\ UserTypes' /\ TreeInv' /\ HeardInv' /\ LastInv' /\ Keeps
    /\ \A j \in DOMAIN events : j \in DOMAIN events' /\ events'[j] = events[j]
    /\ \A d \in watched, n \in Names : content'[d][n] # content[d][n] =>
         /\ Named(d, n)'
         /\ Gone(d, n)' \/ Grows(content[d][n], content'[d][n])
    /\ watched = {} => events' = events

LEMMA HeardAgain ==
    ASSUME UserTypes, HeardInv, Keeps, NEW c \in [Dirs -> [Names -> Entries]], content' = c,
           events' \in Seq(Events),
           \A j \in DOMAIN events' : \/ j \in DOMAIN events /\ events'[j] = events[j]
                                     \/ Of(content', made', watched', events'[j])
    PROVE  UserTypes' /\ HeardInv'
<1>1. UserTypes'
  BY DEF UserTypes, Keeps
<1>2. HeardInv'
  <2> SUFFICES ASSUME NEW j \in DOMAIN events, events'[j] = events[j]
               PROVE Of(content', made', watched', events[j])
    BY DEF HeardInv, Heard
  <2>1. Of(content, made, watched, events[j])
    BY DEF HeardInv, Heard
  <2>2. events[j].wd = Root \/ events[j].wd # Root
    OBVIOUS
  <2>3. Root \notin SubDirs
    BY MonitorAssumption DEF Entries
  <2>4. QED
    BY <2>1, <2>3 DEF Of, Keeps, UserTypes
<1>3. QED
  BY <1>1, <1>2

LEMMA OneChange ==
    ASSUME UserTypes, TreeInv, HeardInv, LastInv, Keeps, TreeInv',
           changes < MaxChanges,
           NEW d \in Live, NEW n \in NamesIn(d), NEW y \in Entries,
           NEW mask \in Masks, NEW dir \in BOOLEAN,
           Put(d, n, y), events' = events \o Told(Event(d, mask, n, dir)),
           mask \in Appears <=> y # Absent, y # Absent => (dir <=> y \in SubDirs),
           d \in watched /\ dir => d = Root /\ mask # "MODIFY",
           mask \in {"CREATE", "MODIFY"} => Grows(content[d][n], y)
    PROVE  UserDoes
<1> DEFINE e == Event(d, mask, n, dir)
           b == [content EXCEPT ![d][n] = y]
<1>1. /\ d \in Dirs /\ n \in Names /\ content \in [Dirs -> [Names -> Entries]]
      /\ d \in watched \/ \A j \in DOMAIN events : events[j].wd # d
      /\ d \in watched => d \in {Root} \cup SubDirs
  BY LiveDirs, NamesOfDirs DEF UserTypes
<1>2. e.wd = d /\ e.mask = mask /\ e.name = n /\ e.dir = dir /\ About(e, d, n)
  BY DEF Event, About
<1>3. d \in watched => e \in Events
  <2>1. changes + 1 \in 1 .. MaxChanges
    BY MonitorAssumption DEF UserTypes
  <2>2. QED
    BY <1>1, <2>1 DEF Event, Events
<1>4. Matches(b, e)
  BY <1>1, <1>2 DEF Matches
<1>5. content' = b /\ events' = events \o Told(e)
  BY DEF Put
<1>6. Last(content, events) /\ events \in Seq(Events)
  BY DEF LastInv, UserTypes
<1> DEFINE fs == events \o Told(e)
<1> HIDE DEF e
<1>7. /\ b \in [Dirs -> [Names -> Entries]] /\ fs \in Seq(Events) /\ Last(b, fs)
      /\ Follows(d, e, events, fs)
  <2>1. Changed(content, d, n, y, b) /\ Queued(events, e, fs)
    BY DEF Changed, Queued
  <2> HIDE DEF b, fs
  <2>2. QED
    BY <1>1, <1>2, <1>3, <1>4, <1>6, <2>1, ChangeTold
<1> HIDE DEF b, fs
<1>8. /\ content' \in [Dirs -> [Names -> Entries]] /\ events' \in Seq(Events) /\ Last(content', events')
      /\ Follows(d, e, events, events')
  BY <1>5, <1>7 DEF b, fs
<1>9. ASSUME d \in watched PROVE Of(content', made', watched', e)
  <2>1. Root \notin SubDirs
    BY MonitorAssumption DEF Entries
  <2>2. CASE d = Root
    BY <1>2, <1>9, <2>1, <2>2 DEF Of, Keeps
  <2>3. CASE d # Root
    BY <1>1, <1>2, <1>9, <2>3 DEF Of, Keeps, UserTypes
  <2>4. QED
    BY <2>2, <2>3
<1>10. UserTypes' /\ HeardInv'
  BY <1>8, <1>9, HeardAgain DEF Follows
<1>11. LastInv'
  BY <1>8 DEF LastInv
<1>12. ASSUME NEW k \in watched, NEW l \in Names, content'[k][l] # content[k][l]
       PROVE  Named(k, l)' /\ (Gone(k, l)' \/ Grows(content[k][l], content'[k][l]))
  <2>1. k = d /\ l = n /\ content'[d][n] = y
    BY <1>1, <1>5, <1>12 DEF b, UserTypes, Dirs
  <2>2. QED
    BY <1>2, <1>8, <1>12, <2>1 DEF Named, Gone, Follows
<1>13. QED
  BY <1>8, <1>10, <1>11, <1>12 DEF UserDoes, Follows

\* What is no directory moves none.
LEMMA FileChange ==
    ASSUME UserTypes, TreeInv, NEW d \in Dirs, NEW n \in Names, NEW y \in Entries \ SubDirs,
           y # Absent => n \in NamesIn(d), Put(d, n, y), made' = made
    PROVE  /\ TreeInv' /\ \A i \in SubDirs : ~Placed(content, i) => ~Placed(content', i)
           /\ content[d][n] \in SubDirs => d \in {Root, Out} /\ ~Placed(content', content[d][n])
<1>1. /\ content' \in [Dirs -> [Names -> Entries]] /\ {Root, Out} \subseteq Dirs /\ SubDirs \subseteq Dirs
      /\ \A k \in Dirs, l \in Names : content'[k][l] = IF k = d /\ l = n THEN y ELSE content[k][l]
  BY DEF UserTypes, Put, Dirs
<1>2. \A k \in Dirs, l \in Names : content'[k][l] \in SubDirs => content'[k][l] = content[k][l]
  BY <1>1
<1>3. \A k \in Dirs, l \in Names : content'[k][l] # Absent => l \in NamesIn(k)
  BY <1>1 DEF TreeInv, Tree
<1>4. TreeInv'
  <2>1. \A k \in {Root, Out}, l \in Names : content'[k][l] \in SubDirs => content'[k][l] \in made'
    BY <1>1, <1>2 DEF TreeInv, Tree
  <2>2. \A k \in SubDirs, l \in Names : content'[k][l] \notin SubDirs
    BY <1>1, <1>2 DEF TreeInv, Tree
  <2>3. \A k, j \in {Root, Out}, l, i \in Names :
          content'[k][l] \in SubDirs /\ content'[k][l] = content'[j][i] => k = j /\ l = i
    <3> SUFFICES ASSUME NEW k \in {Root, Out}, NEW j \in {Root, Out}, NEW l \in Names, NEW i \in Names,
                        content'[k][l] \in SubDirs, content'[k][l] = content'[j][i]
                 PROVE  k = j /\ l = i
      OBVIOUS
    <3>1. content[k][l] \in SubDirs /\ content[k][l] = content[j][i]
      BY <1>1, <1>2
    <3>2. QED
      BY <3>1 DEF TreeInv, Tree
  <2>4. QED
    BY <1>3, <2>1, <2>2, <2>3 DEF TreeInv, Tree
<1>5. \A i \in SubDirs : ~Placed(content, i) => ~Placed(content', i)
  BY <1>1, <1>2 DEF Placed
<1>6. ASSUME content[d][n] \in SubDirs
      PROVE  d \in {Root, Out} /\ ~Placed(content', content[d][n])
  <2>1. d \in {Root, Out}
    BY <1>6 DEF TreeInv, Tree, Dirs
  <2>2. QED
    BY <1>1, <1>2, <1>6, <2>1, MonitorAssumption DEF TreeInv, Tree, Placed, Entries
<1>7. QED
  BY <1>4, <1>5, <1>6

LEMMA FileDoes ==
    ASSUME UserTypes, TreeInv, HeardInv, LastInv, NEW d \in Live, NEW n \in NamesIn(d),
           NEW f \in NewFiles, Create(d, n, f) \/ Write(d, n, f)
    PROVE  UserDoes
<1>1. /\ changes < MaxChanges /\ changes' = changes + 1 /\ UNCHANGED monitorVars
      /\ Put(d, n, f) /\ UNCHANGED <<made, watched>>
      /\ \/ events' = events \o Told(Event(d, "CREATE", n, FALSE)) /\ content[d][n] = Absent
         \/ events' = events \o Told(Event(d, "MODIFY", n, FALSE)) /\ IsFile(content[d][n])
  BY DEF Create, Write, MayChange
<1>2. changes' \in 0 .. MaxChanges
  BY <1>1, MonitorAssumption DEF UserTypes
<1>3. f \in Files
  BY <1>1, <1>2, MonitorAssumption DEF NewFiles, Files, UserTypes
<1>4. f \in Entries \ SubDirs /\ f # Absent
  BY <1>3, MonitorAssumption DEF Entries
<1>5. d \in Dirs /\ n \in Names
  BY LiveDirs, NamesOfDirs
<1>6. TreeInv' /\ \A i \in SubDirs : ~Placed(content, i) => ~Placed(content', i)
  BY <1>1, <1>4, <1>5, FileChange
<1>7. Keeps
  BY <1>1, <1>2, <1>6 DEF Keeps, UserTypes
<1>8. IsFile(f)
  BY <1>3, MonitorAssumption DEF IsFile
<1>9. CASE events' = events \o Told(Event(d, "CREATE", n, FALSE)) /\ content[d][n] = Absent
  BY <1>1, <1>4, <1>6, <1>7, <1>9, OneChange DEF Masks, Appears, Grows
<1>10. CASE events' = events \o Told(Event(d, "MODIFY", n, FALSE)) /\ IsFile(content[d][n])
  BY <1>1, <1>4, <1>6, <1>7, <1>10, <1>8, OneChange DEF Masks, Appears, Grows
<1>11. QED
  BY <1>1, <1>9, <1>10

LEMMA RemoveDoes ==
    ASSUME UserTypes, TreeInv, HeardInv, LastInv, NEW d \in Live, NEW n \in NamesIn(d),
           Remove(d, n)
    PROVE  UserDoes
<1> DEFINE e == content[d][n]
           dir == e \in SubDirs
<1>1. /\ changes < MaxChanges /\ changes' = changes + 1 /\ UNCHANGED monitorVars
      /\ Put(d, n, Absent) /\ UNCHANGED made /\ watched' = watched \ {e}
      /\ events' = events \o Told(Event(d, "DELETE", n, dir))
  BY DEF Remove, MayChange
<1>2. changes' \in 0 .. MaxChanges
  BY <1>1, MonitorAssumption DEF UserTypes
<1>3. Absent \in Entries \ SubDirs
  BY MonitorAssumption DEF Entries
<1>4. d \in Dirs /\ n \in Names /\ e \in Entries
  BY LiveDirs, NamesOfDirs DEF UserTypes
<1>5. /\ TreeInv' /\ \A i \in SubDirs : ~Placed(content, i) => ~Placed(content', i)
      /\ e \in SubDirs => d \in {Root, Out} /\ ~Placed(content', e)
  BY <1>1, <1>3, <1>4, FileChange
<1>6. e \in watched => e \in SubDirs /\ e \in made
  BY <1>4, MonitorAssumption DEF UserTypes
<1>7. Keeps
  BY <1>1, <1>2, <1>5, <1>6 DEF Keeps, UserTypes
<1>8. dir \in BOOLEAN /\ (d \in watched /\ dir => d = Root)
  BY <1>5, MonitorAssumption DEF UserTypes, Entries
<1> HIDE DEF e, dir
<1>9. QED
  BY <1>1, <1>3, <1>5, <1>7, <1>8, OneChange DEF Masks, Appears

LEMMA MkDirDoes ==
    ASSUME UserTypes, TreeInv, HeardInv, LastInv, Root \in Live, NEW n \in RootNames, MkDir(n)
    PROVE  UserDoes
<1> DEFINE i == CHOOSE i \in SubDirs : i \notin made
<1>1. /\ changes < MaxChanges /\ changes' = changes + 1 /\ UNCHANGED monitorVars
      /\ Put(Root, n, i) /\ made' = made \cup {i} /\ UNCHANGED watched /\ content[Root][n] = Absent
      /\ events' = events \o Told(Event(Root, "CREATE", n, TRUE))
  BY DEF MkDir, MayChange
<1>2. changes' \in 0 .. MaxChanges
  BY <1>1, MonitorAssumption DEF UserTypes
<1>3. i \in SubDirs /\ i \notin made
  BY DEF MkDir, UserTypes
<1> HIDE DEF i
<1>4. i \in Entries /\ i # Absent /\ i # Root /\ i # Out /\ Root # Out /\ Root \notin SubDirs
  BY <1>3, MonitorAssumption DEF Entries
<1>5. Root \in Dirs /\ Out \in Dirs /\ SubDirs \subseteq Dirs /\ n \in Names /\ n \in NamesIn(Root)
  BY DEF Names, NamesIn, Dirs
<1>6. /\ content' \in [Dirs -> [Names -> Entries]]
      /\ \A k \in Dirs, l \in Names : content'[k][l] = IF k = Root /\ l = n THEN i ELSE content[k][l]
  BY <1>1, <1>4, <1>5 DEF UserTypes, Put
<1>7. \A k \in {Root, Out}, l \in Names : content[k][l] # i
  BY <1>3 DEF TreeInv, Tree
<1>8. TreeInv'
  <2>1. \A k \in Dirs, l \in Names : content'[k][l] # Absent => l \in NamesIn(k)
    BY <1>5, <1>6 DEF TreeInv, Tree
  <2>2. \A k \in SubDirs, l \in Names : content'[k][l] \notin SubDirs
    BY <1>4, <1>5, <1>6 DEF TreeInv, Tree
  <2>3. \A k \in {Root, Out}, l \in Names : content'[k][l] \in SubDirs => content'[k][l] \in made'
    BY <1>1, <1>5, <1>6 DEF TreeInv, Tree
  <2>4. \A k, g \in {Root, Out}, l, h \in Names :
          content'[k][l] \in SubDirs /\ content'[k][l] = content'[g][h] => k = g /\ l = h
    BY <1>5, <1>6, <1>7 DEF TreeInv, Tree
  <2>5. QED
    BY <2>1, <2>2, <2>3, <2>4 DEF TreeInv, Tree
<1>9. \A k \in made : ~Placed(content, k) => ~Placed(content', k)
  BY <1>3, <1>5, <1>6 DEF Placed
<1>10. Keeps
  BY <1>1, <1>2, <1>3, <1>9 DEF Keeps, UserTypes
<1>11. QED
  BY <1>1, <1>3, <1>4, <1>5, <1>8, <1>10, OneChange DEF Masks, Appears, Grows

LEMMA MoveDoes ==
    ASSUME UserTypes, TreeInv, HeardInv, LastInv, changes < MaxChanges, changes' = changes + 1,
           UNCHANGED monitorVars,
           NEW d \in Live \cup {Out}, NEW n \in NamesIn(d),
           NEW to \in Live \cup {Out}, NEW m \in NamesIn(to), MoveEntry(d, n, to, m)
    PROVE  UserDoes
<1> DEFINE e == content[d][n]
           dir == e \in SubDirs
           v == Event(d, "MOVED_FROM", n, dir)
           w == Event(to, "MOVED_TO", m, dir)
           c == [content EXCEPT ![d][n] = Absent]
           es == events \o Told(v)
<1>1. /\ e # Absent /\ <<d, n>> # <<to, m>>
      /\ dir => to \in {Root, Out} /\ content[to][m] = Absent
      /\ ~dir => content[to][m] \notin SubDirs
      /\ content' = [content EXCEPT ![d][n] = Absent, ![to][m] = e]
      /\ events' = es \o Told(w) /\ UNCHANGED <<made, watched>>
  BY DEF MoveEntry
<1>2. changes' \in 0 .. MaxChanges /\ changes + 1 \in 1 .. MaxChanges
  BY MonitorAssumption DEF UserTypes
<1>3. /\ d \in Dirs /\ n \in Names /\ to \in Dirs /\ m \in Names /\ e \in Entries /\ dir \in BOOLEAN
      /\ content \in [Dirs -> [Names -> Entries]] /\ Absent \in Entries /\ Absent \notin SubDirs
      /\ d \in watched \/ \A j \in DOMAIN events : events[j].wd # d
      /\ to \in watched \/ \A j \in DOMAIN events : events[j].wd # to
      /\ d \in watched => d \in {Root} \cup SubDirs
      /\ to \in watched => to \in {Root} \cup SubDirs
  BY LiveDirs, NamesOfDirs, MonitorAssumption DEF UserTypes, Entries
<1>4. /\ v.wd = d /\ v.mask = "MOVED_FROM" /\ v.name = n /\ v.dir = dir /\ About(v, d, n)
      /\ w.wd = to /\ w.mask = "MOVED_TO" /\ w.name = m /\ w.dir = dir /\ About(w, to, m)
      /\ d \in watched => v \in Events
      /\ to \in watched => w \in Events
  BY <1>2, <1>3 DEF Event, Events, Masks, About
<1>5. /\ content' \in [Dirs -> [Names -> Entries]] /\ {Root, Out} \subseteq Dirs /\ SubDirs \subseteq Dirs
      /\ \A k \in Dirs, l \in Names :
           content'[k][l] = IF k = to /\ l = m THEN e ELSE IF k = d /\ l = n THEN Absent ELSE content[k][l]
  BY <1>1, <1>3 DEF Dirs
<1>6. /\ c \in [Dirs -> [Names -> Entries]]
      /\ \A k \in Dirs, l \in Names : c[k][l] = IF k = d /\ l = n THEN Absent ELSE content[k][l]
      /\ Changed(content, d, n, Absent, c) /\ Queued(events, v, es)
      /\ Queued(es, w, events')
  BY <1>1, <1>3 DEF Changed, Queued
<1>7. Changed(c, to, m, e, content')
  BY <1>1, <1>3 DEF Changed
<1> HIDE DEF c, es, v, w
<1>8. e = content[d][n] /\ (dir <=> e \in SubDirs) /\ e # Absent
  BY <1>1
<1> HIDE DEF e, dir
<1>9. Matches(c, v) /\ Matches(content', w)
  <2>1. Matches(c, v)
    BY <1>3, <1>4, <1>6 DEF Matches, Appears
  <2>2. content'[to][m] = e
    BY <1>3, <1>5
  <2>3. QED
    BY <1>3, <1>4, <1>8, <2>1, <2>2 DEF Matches, Appears
<1>10. es \in Seq(Events) /\ Last(c, es) /\ Follows(d, v, events, es)
  <2>1. Last(content, events) /\ events \in Seq(Events)
    BY DEF LastInv, UserTypes
  <2>2. QED
    BY <1>3, <1>4, <1>6, <1>9, <2>1, ChangeTold
<1>11. to \in watched \/ \A j \in DOMAIN es : es[j].wd # to
  BY <1>3, <1>4, <1>10 DEF Follows
<1>12. events' \in Seq(Events) /\ Last(content', events') /\ Follows(to, w, es, events')
  BY <1>3, <1>4, <1>6, <1>7, <1>9, <1>10, <1>11, ChangeTold
<1>13. dir => e \in SubDirs /\ d \in {Root, Out} /\ to \in {Root, Out} /\ content[to][m] = Absent
  BY <1>1, <1>3 DEF TreeInv, Tree, Dirs, e, dir
<1>14. \A i \in SubDirs : ~Placed(content, i) => ~Placed(content', i)
  BY <1>3, <1>5, <1>13 DEF Placed, dir, e
<1>15. Keeps
  BY <1>1, <1>2, <1>14 DEF Keeps, UserTypes
<1>16. \A k \in {d, to} : k \in watched => k = Root \/ (k # Root /\ k \in made)
  BY <1>3 DEF UserTypes
<1>17. (d \in watched \/ to \in watched) /\ dir => (d \in watched => d = Root) /\ (to \in watched => to = Root)
  BY <1>3, <1>13, MonitorAssumption DEF Entries
<1>18. /\ d \in watched => Of(content', made', watched', v)
       /\ to \in watched => Of(content', made', watched', w)
  BY <1>1, <1>4, <1>16, <1>17 DEF Of
<1>19. \A j \in DOMAIN events' : \/ j \in DOMAIN events /\ events'[j] = events[j]
                                 \/ Of(content', made', watched', events'[j])
  BY <1>10, <1>12, <1>18 DEF Follows
<1>20. UserTypes' /\ HeardInv'
  BY <1>5, <1>12, <1>15, <1>19, HeardAgain
<1>21. LastInv'
  BY <1>12 DEF LastInv
<1>22. TreeInv'
  <2>1. \A k \in Dirs, l \in Names : content'[k][l] # Absent => l \in NamesIn(k)
    BY <1>5 DEF TreeInv, Tree
  <2>2. \A k \in SubDirs, l \in Names : content'[k][l] \notin SubDirs
    BY <1>3, <1>5, <1>13, MonitorAssumption DEF TreeInv, Tree, dir, Entries
  <2>3. ASSUME NEW k \in {Root, Out}, NEW l \in Names, content'[k][l] \in SubDirs
        PROVE  content'[k][l] \in made'
    <3>1. content'[k][l] = e \/ content'[k][l] = content[k][l]
      BY <1>3, <1>5, <2>3
    <3>2. e \in SubDirs => e \in made
      BY <1>3, <1>13, <1>8 DEF TreeInv, Tree
    <3>3. content[k][l] \in SubDirs => content[k][l] \in made
      BY DEF TreeInv, Tree
    <3>4. QED
      BY <1>1, <2>3, <3>1, <3>2, <3>3
  <2>4. ASSUME NEW k \in {Root, Out}, NEW g \in {Root, Out}, NEW l \in Names, NEW h \in Names,
               content'[k][l] \in SubDirs, content'[k][l] = content'[g][h]
        PROVE  k = g /\ l = h
    BY <1>3, <1>5, <1>13, <1>8, <2>4 DEF TreeInv, Tree
  <2>5. QED
    BY <2>1, <2>2, <2>3, <2>4 DEF TreeInv, Tree
<1>23. \A j \in DOMAIN events : j \in DOMAIN events' /\ events'[j] = events[j]
  BY <1>10, <1>12 DEF Follows
<1>24. ASSUME NEW k \in watched, NEW l \in Names, content'[k][l] # content[k][l]
       PROVE  Named(k, l)' /\ Gone(k, l)'
  <2>1. (k = d /\ l = n) \/ (k = to /\ l = m)
    BY <1>5, <1>24 DEF UserTypes, Dirs
  <2>2. QED
    BY <1>4, <1>10, <1>12, <1>24, <2>1 DEF Named, Gone, Follows
<1>25. QED
  BY <1>10, <1>12, <1>15, <1>20, <1>21, <1>22, <1>23, <1>24 DEF UserDoes, Follows

LEMMA UserSteps ==
    ASSUME UserTypes, TreeInv, HeardInv, LastInv, User
    PROVE  UserDoes
<1>1. PICK d \in Live : \E n \in NamesIn(d) :
         \/ \E f \in NewFiles : Create(d, n, f) \/ Write(d, n, f)
         \/ Remove(d, n)
         \/ d = Root /\ MkDir(n)
         \/ \E to \in Live : \E m \in NamesIn(to) : RenameEntry(d, n, to, m)
         \/ \E m \in OutNames : Leave(d, n, m) \/ Arrive(m, d, n)
  BY DEF User
<1>2. PICK n \in NamesIn(d) :
         \/ \E f \in NewFiles : Create(d, n, f) \/ Write(d, n, f)
         \/ Remove(d, n)
         \/ d = Root /\ MkDir(n)
         \/ \E to \in Live : \E m \in NamesIn(to) : RenameEntry(d, n, to, m)
         \/ \E m \in OutNames : Leave(d, n, m) \/ Arrive(m, d, n)
  BY <1>1
<1>3. CASE \E f \in NewFiles : Create(d, n, f) \/ Write(d, n, f)
  BY <1>3, FileDoes
<1>4. CASE Remove(d, n)
  BY <1>4, RemoveDoes
<1>5. CASE d = Root /\ MkDir(n)
  BY <1>5, MkDirDoes DEF NamesIn
<1>6. CASE \E to \in Live : \E m \in NamesIn(to) : RenameEntry(d, n, to, m)
  <2>1. PICK to \in Live : \E m \in NamesIn(to) : RenameEntry(d, n, to, m)
    BY <1>6
  <2>2. PICK m \in NamesIn(to) : RenameEntry(d, n, to, m)
    BY <2>1
  <2>3. /\ changes < MaxChanges /\ changes' = changes + 1 /\ UNCHANGED monitorVars
        /\ MoveEntry(d, n, to, m)
    BY <2>2 DEF RenameEntry, MayChange
  <2>4. QED
    BY <2>3, MoveDoes
<1>7. CASE \E m \in OutNames : Leave(d, n, m) \/ Arrive(m, d, n)
  <2>1. PICK m \in OutNames : Leave(d, n, m) \/ Arrive(m, d, n)
    BY <1>7
  <2>2. /\ changes < MaxChanges /\ changes' = changes + 1 /\ UNCHANGED monitorVars
        /\ MoveEntry(d, n, Out, m) \/ MoveEntry(Out, m, d, n)
    BY <2>1 DEF Leave, Arrive, MayChange
  <2>3. m \in NamesIn(Out)
    BY MonitorAssumption DEF NamesIn
  <2>4. QED
    BY <2>2, <2>3, MoveDoes
<1>8. QED
  BY <1>3, <1>4, <1>5, <1>6, <1>7, <1>2

\* What paths lead to.
ViewFacts ==
    /\ \A n \in RootNames : View(<<n>>) = IF Top(n) \in SubDirs THEN Dir ELSE Top(n)
    /\ \A n \in RootNames, m \in InnerNames :
         /\ View(<<n, m>>) # Absent => Top(n) \in SubDirs
         /\ View(<<n, m>>) = LET e == content[Top(n)][m] IN
              IF Top(n) \notin SubDirs THEN Absent ELSE IF e \in SubDirs THEN Dir ELSE e

LEMMA PathViews == ViewFacts
BY TopPath, InnerPath, MonitorAssumption DEF View, Entries, ViewFacts

LEMMA PathViewsNext == ViewFacts'
BY PathViews, PTL
-----------------------------------------------------------------------------
(* The user keeps the invariant *)

LEMMA FreshFacts == Fresh => TopInv /\ InInv
<1> SUFFICES ASSUME Fresh PROVE TopInv /\ InInv
  OBVIOUS
<1>1. /\ Len(calls) = 2 /\ calls[1] = Call("watch", <<>>) /\ calls[2] = Call("scan", <<>>)
      /\ DOMAIN calls = {1, 2}
  BY DEF Fresh, WatchAndScan
<1>2. ~Polling
  BY <1>1 DEF Polling, Call
<1>3. ASSUME NEW n \in RootNames PROVE WillMeet("scan", n)
  BY <1>1 DEF WillMeet, Meets, LeftOf, Call
<1>4. TopInv
  BY <1>2, <1>3, TopPath DEF TopInv, Unlike, Outdated, TopComing, TopPolled, Fresh
<1>5. ASSUME NEW n \in RootNames, NEW m \in InnerNames
      PROVE  InComing(n, m) /\ Inner(n, m) /\ InPolled(n, m) /\ Remembered(n, m)
  <2>1. replica[<<n>>] = Absent /\ replica[<<n, m>>] = Absent /\ <<n, m>> \in Paths
    BY TopPath, InnerPath DEF Fresh
  <2>2. WillEnter("scan", n, m)
    BY <1>3 DEF WillMeet, WillEnter, Enters
  <2>3. Remembered(n, m)
    BY <2>1 DEF Remembered, Agrees, Known, StatOf, Fresh
  <2>4. QED
    BY <1>2, <2>1, <2>2, <2>3, MonitorAssumption DEF InComing, Inner, InPolled, Fresh
<1>6. InInv
  BY <1>5 DEF InInv
<1>7. QED
  BY <1>4, <1>6

LEMMA FreshFactsNext == Fresh' => TopInv' /\ InInv'
BY FreshFacts, PTL

\* An entry that changed has an event; others have those that they had.
LEMMA UserTold ==
    ASSUME UserDoes
    PROVE  /\ \A d, n : Named(d, n) => Named(d, n)'
           /\ \A d, n : Gone(d, n) => Gone(d, n)'
           /\ \A d \in watched, n \in Names : content'[d][n] # content[d][n] =>
                Named(d, n)' /\ (Gone(d, n)' \/ Grows(content[d][n], content'[d][n]))
           /\ UNCHANGED monitorVars
           /\ UNCHANGED <<calls, watchItems, move, replica, suspect, stale, pending, snapshots, seen>>
BY DEF UserDoes, Keeps, Named, Gone, About, monitorVars, backupVars

LEMMA CallsStay ==
    ASSUME UNCHANGED calls
    PROVE  /\ (StackInv' <=> StackInv) /\ (WatchInv' <=> WatchInv) /\ (Polling' <=> Polling)
           /\ \A op, n : (WillMeet(op, n)' <=> WillMeet(op, n)) /\ (WillDo(op, n)' <=> WillDo(op, n))
           /\ \A op, n, m : WillEnter(op, n, m)' <=> WillEnter(op, n, m)
<1>1. StackInv' <=> StackInv
  BY DEF StackInv, Polling
<1>2. WatchInv' <=> WatchInv
  BY DEF WatchInv
<1>3. Polling' <=> Polling
  BY DEF Polling
<1>4. \A op, n : (WillMeet(op, n)' <=> WillMeet(op, n)) /\ (WillDo(op, n)' <=> WillDo(op, n))
  BY DEF WillMeet, WillDo
<1>5. \A op, n, m : WillEnter(op, n, m)' <=> WillEnter(op, n, m)
  BY DEF WillEnter
<1>6. QED
  BY <1>1, <1>2, <1>3, <1>4, <1>5

LEMMA UserKeepsCalls ==
    ASSUME IInv, UserDoes
    PROVE  (StartInv /\ TableInv /\ ItemInv /\ StackInv /\ WatchInv /\ MonitorTypes /\ BackupTypes)'
<1>1. /\ UNCHANGED <<calls, watchItems, move, replica, suspect, stale, pending, snapshots, seen>>
      /\ \A d, n : Named(d, n) => Named(d, n)'
  BY UserTold
<1>2. MonitorTypes' /\ BackupTypes'
  BY <1>1 DEF IInv, MonitorTypes, BackupTypes
<1>3. StackInv' /\ WatchInv'
  BY <1>1, CallsStay DEF IInv
<1>4. StartInv'
  <2>1. CASE Fresh
    <3>1. watched' = {} /\ events' = events
      BY <2>1 DEF Fresh, UserDoes, Keeps
    <3>2. QED
      BY <1>1, <2>1, <3>1 DEF StartInv, Fresh
  <2>2. CASE Started
    BY <1>1, <2>2, MonitorAssumption DEF StartInv, Started, UserDoes, Keeps, Entries
  <2>3. QED
    BY <2>1, <2>2 DEF IInv, StartInv
<1>5. TableInv'
  BY <1>1 DEF IInv, TableInv, UserDoes, Keeps
<1>6. ItemInv'
  <2> SUFFICES ASSUME NEW n \in RootNames, Top(n)' \in SubDirs \cap DOMAIN watchItems
               PROVE  watchItems[Top(n)'] = <<n>> \/ Named(Root, n)' \/ WillDo("watch", n)'
    BY <1>1 DEF ItemInv
  <2>1. Root \in watched
    BY DEF IInv, StartInv, Fresh, Started
  <2>2. CASE Top(n)' # Top(n)
    BY <2>1, <2>2, UserTold DEF Top, Names
  <2>3. CASE Top(n)' = Top(n)
    BY <1>1, <2>3, CallsStay DEF IInv, ItemInv
  <2>4. QED
    BY <2>2, <2>3
<1>7. QED
  BY <1>2, <1>3, <1>4, <1>5, <1>6

\* A directory that is to be watched again is to be scanned.
ItemScan ==
    \A n \in RootNames, m \in InnerNames : Top(n) \in SubDirs \cap DOMAIN watchItems =>
        watchItems[Top(n)] = <<n>> \/ Named(Root, n) \/ WillEnter("scan", n, m)

LEMMA ItemOrScan == ItemInv /\ WatchInv => ItemScan
<1> SUFFICES ASSUME ItemInv, WatchInv, NEW n \in RootNames, NEW m \in InnerNames,
                    Top(n) \in SubDirs \cap DOMAIN watchItems, WillDo("watch", n)
             PROVE  WillEnter("scan", n, m)
  BY DEF ItemScan, ItemInv
<1>1. PICK k \in DOMAIN calls : Whole(calls[k], "scan", n)
  BY DEF WillDo, WatchInv
<1>2. QED
  BY <1>1 DEF Whole, WillEnter, Enters, LeftOf

LEMMA ItemOrScanNext == ItemInv' /\ WatchInv' => ItemScan'
BY ItemOrScan, PTL

LEMMA UserKeepsTop ==
    ASSUME IInv, UserDoes, Root \in watched
    PROVE  TopInv'
<1> SUFFICES ASSUME NEW n \in RootNames
             PROVE  Unlike(n)' /\ Outdated(n)' /\ TopComing(n)' /\ TopPolled(n)'
  BY DEF TopInv
<1>1. /\ UNCHANGED <<calls, watchItems, move, replica, suspect, stale, pending, snapshots, seen>>
      /\ \A d, k : Named(d, k) => Named(d, k)'
      /\ Gone(Root, n) => Gone(Root, n)'
  BY UserTold
<1>2. /\ View(<<n>>) = IF Top(n) \in SubDirs THEN Dir ELSE Top(n)
      /\ View(<<n>>)' = IF Top(n)' \in SubDirs THEN Dir ELSE Top(n)'
  BY PathViews, PathViewsNext DEF ViewFacts
<1>3. Unlike(n) /\ Outdated(n) /\ TopComing(n) /\ TopPolled(n)
  BY DEF IInv, TopInv
<1>4. CASE Top(n)' # Top(n)
  <2>1. Named(Root, n)' /\ (Gone(Root, n)' \/ Grows(Top(n), Top(n)'))
    BY <1>4, UserTold DEF Top, Names
  <2>2. TopComing(n)' /\ TopPolled(n)'
    BY <2>1 DEF TopComing, TopPolled
  <2>3. CASE Gone(Root, n)'
    <3>1. Unlike(n)'
      BY <2>3 DEF Unlike
    <3>2. Outdated(n)'
      BY <2>1, <2>3 DEF Outdated
    <3>3. QED
      BY <2>2, <3>1, <3>2
  <2>4. CASE Grows(Top(n), Top(n)')
    <3>1. View(<<n>>) = Absent \/ (IsFile(View(<<n>>)) /\ IsFile(View(<<n>>)'))
      BY <1>2, <2>4, MonitorAssumption DEF Grows, IsFile, Entries
    <3>2. Unlike(n)'
      BY <1>1, <1>3, <3>1 DEF Unlike, SameKind, Moving, IsFile
    <3>3. Outdated(n)'
      BY <1>1, <1>3, <2>1, <3>1, MonitorAssumption DEF Outdated, Moving, IsFile
    <3>4. QED
      BY <2>2, <3>2, <3>3
  <2>5. QED
    BY <2>1, <2>3, <2>4, <2>2
<1>5. CASE Top(n)' = Top(n)
  <2>1. View(<<n>>)' = View(<<n>>)
    BY <1>2, <1>5
  <2>2. Unlike(n)' /\ Outdated(n)'
    BY <1>1, <1>3, <2>1 DEF Unlike, Outdated, Moving
  <2>3. TopComing(n)' /\ TopPolled(n)'
    BY <1>1, <1>3, <2>1 DEF TopComing, TopPolled, InStep, Moving, WillMeet, Meets, LeftOf, Polling
  <2>4. QED
    BY <2>2, <2>3
<1>6. QED
  BY <1>4, <1>5

LEMMA UserKeepsIn ==
    ASSUME IInv, UserDoes, Root \in watched, ItemInv', WatchInv', TableInv'
    PROVE  InInv'
<1> SUFFICES ASSUME NEW n \in RootNames, NEW m \in InnerNames
             PROVE  InComing(n, m)' /\ Inner(n, m)' /\ InPolled(n, m)' /\ Remembered(n, m)'
  BY DEF InInv
<1>1. /\ UNCHANGED <<calls, watchItems, move, replica, suspect, stale, pending, snapshots, seen>>
      /\ \A d, k : Named(d, k) => Named(d, k)'
  BY UserTold
<1>2. InComing(n, m) /\ Inner(n, m) /\ InPolled(n, m) /\ Remembered(n, m)
  BY DEF IInv, InInv
<1>3. Inner(n, m)' /\ Remembered(n, m)'
  BY <1>1, <1>2 DEF Inner, Remembered, Agrees, Known
<1>4. CASE Named(Root, n)'
  BY <1>3, <1>4 DEF InComing, InPolled
<1>5. CASE ~Named(Root, n)'
  <2>1. Top(n)' = Top(n)
    BY <1>5, UserTold DEF Top, Names
  <2>2. Root \notin SubDirs /\ n \in Names /\ m \in Names
    BY MonitorAssumption DEF Entries, Names
  <2>3. CASE Top(n) \notin SubDirs
    BY <1>3, <2>1, <2>3, PathViewsNext DEF InComing, InPolled, ViewFacts
  <2>4. CASE Top(n) \notin DOMAIN watchItems
    BY <1>1, <1>3, <2>1, <2>4 DEF InComing, InPolled
  <2>5. CASE Top(n) \in SubDirs /\ Top(n) \in DOMAIN watchItems
    <3>1. Placed(content, Top(n))
      BY <2>2 DEF Placed, Top
    <3>2. Top(n) \in watched
      BY <2>2, <2>5, <3>1 DEF IInv, TableInv
    <3>3. CASE content'[Top(n)][m] # content[Top(n)][m]
      <4>1. Named(Top(n), m)'
        BY <2>1, <2>2, <3>2, <3>3, UserTold
      <4>2. \/ watchItems'[Top(n)'] = <<n>> \/ WillEnter("scan", n, m)'
        BY <1>1, <1>5, <2>1, <2>5, ItemOrScanNext DEF ItemScan
      <4>3. QED
        BY <1>3, <2>1, <4>1, <4>2 DEF InComing, InPolled
    <3>4. CASE content'[Top(n)][m] = content[Top(n)][m]
      <4>1. View(<<n, m>>)' = View(<<n, m>>)
        BY <2>1, <3>4, PathViews, PathViewsNext DEF ViewFacts
      <4>2. InComing(n, m)'
        BY <1>1, <1>2, <1>5, <2>1, <4>1 DEF InComing, InStep, WillEnter, Enters, Meets, LeftOf
      <4>3. InPolled(n, m)'
        BY <1>1, <1>2, <1>5, <2>1, <4>1 DEF InPolled, WillEnter, Enters, Meets, LeftOf, Polling
      <4>4. QED
        BY <1>3, <4>2, <4>3
    <3>5. QED
      BY <3>3, <3>4
  <2>6. QED
    BY <2>3, <2>4, <2>5
<1>6. QED
  BY <1>4, <1>5

LEMMA UserKeeps == IInv /\ User => IInv'
<1> SUFFICES ASSUME IInv, User PROVE IInv'
  OBVIOUS
<1>1. UserDoes
  BY UserSteps DEF IInv
<1>2. (StartInv /\ TableInv /\ ItemInv /\ StackInv /\ WatchInv /\ MonitorTypes /\ BackupTypes)'
  BY <1>1, UserKeepsCalls
<1>3. TopInv' /\ InInv'
  <2>1. CASE Root \in watched
    BY <1>1, <1>2, <2>1, UserKeepsTop, UserKeepsIn
  <2>2. CASE Root \notin watched
    <3>1. Root \notin watched'
      BY <1>1, <2>2 DEF UserDoes, Keeps
    <3>2. Fresh'
      BY <1>2, <3>1 DEF StartInv, Started
    <3>3. QED
      BY <3>2, FreshFactsNext
  <2>3. QED
    BY <2>1, <2>2
<1>4. QED
  BY <1>1, <1>2, <1>3 DEF IInv, UserDoes
-----------------------------------------------------------------------------
(* Calls *)

\* The first call goes on as more calls, or is over.
Instead(pre) == calls' = pre \o Tail(calls)

\* More calls that may take the place of the first: they are of its kind, and
\* watch nothing that they do not scan unless it was to be watched anyway.
Fits(pre) ==
    /\ pre \in Seq(Calls)
    /\ \A j \in DOMAIN pre :
         /\ pre[j].todo \subseteq IF pre[j].dir = <<>> THEN RootNames ELSE InnerNames
         /\ IF Head(calls).op = "poll" THEN pre[j].op = "poll" ELSE pre[j].op \in {"watch", "scan"}
         /\ \A n \in RootNames : Whole(pre[j], "watch", n) =>
              \/ Whole(Head(calls), "watch", n)
              \/ \E k \in DOMAIN pre : k > j /\ Whole(pre[k], "scan", n)

\* Where the calls are afterwards.
After(pre) ==
    /\ \A j \in DOMAIN pre : j \in DOMAIN calls' /\ calls'[j] = pre[j]
    /\ \A j \in DOMAIN calls : j = 1 \/ \E k \in DOMAIN calls' : calls'[k] = calls[j]
    /\ 1 \in DOMAIN calls /\ Head(calls) = calls[1]

LEMMA StackAfter ==
    ASSUME calls \in Seq(Calls), calls # <<>>, Head(calls).op # "deletes",
           StackInv, WatchInv, NEW pre, Instead(pre), Fits(pre)
    PROVE  /\ calls' \in Seq(Calls) /\ StackInv' /\ WatchInv' /\ (Polling' <=> Polling)
           /\ After(pre)
<1> DEFINE h == Len(pre)
           c == Len(calls)
<1>1. /\ pre \in Seq(Calls) /\ h \in Nat /\ c \in Nat /\ c > 0 /\ 1 \in DOMAIN calls
      /\ DOMAIN pre = 1 .. h /\ DOMAIN calls = 1 .. c /\ Head(calls) = calls[1]
  BY DEF Fits
<1>2. Tail(calls) \in Seq(Calls) /\ Len(Tail(calls)) = c - 1 /\ \A j \in 1 .. c - 1 : Tail(calls)[j] = calls[j + 1]
  BY <1>1
<1>3. calls' \in Seq(Calls) /\ Len(calls') = h + (c - 1) /\ DOMAIN calls' = 1 .. h + (c - 1)
  BY <1>1, <1>2 DEF Instead
<1>4. \A j \in 1 .. h : calls'[j] = pre[j]
  BY <1>1, <1>2 DEF Instead
<1>5. \A j \in 1 .. c - 1 : calls'[h + j] = calls[j + 1]
  BY <1>1, <1>2 DEF Instead
<1> HIDE DEF h, c
<1>6. \A j \in 2 .. c : (j - 1) + h \in DOMAIN calls' /\ calls'[(j - 1) + h] = calls[j]
  <2> SUFFICES ASSUME NEW j \in 2 .. c PROVE (j - 1) + h \in DOMAIN calls' /\ calls'[(j - 1) + h] = calls[j]
    OBVIOUS
  <2>1. j - 1 \in 1 .. c - 1 /\ (j - 1) + 1 = j /\ (j - 1) + h = h + (j - 1)
    BY <1>1
  <2>2. calls'[h + (j - 1)] = calls[j]
    BY <1>5, <2>1
  <2>3. QED
    BY <1>1, <1>3, <2>1, <2>2
<1>7. \A j \in DOMAIN calls' : j \notin 1 .. h =>
         j - h + 1 \in 2 .. c /\ calls'[j] = calls[j - h + 1]
  <2>1. ASSUME NEW j \in DOMAIN calls', j \notin 1 .. h
        PROVE  j - h + 1 \in 2 .. c /\ calls'[j] = calls[j - h + 1]
    <3>1. j - h \in 1 .. c - 1 /\ h + (j - h) = j
      BY <1>1, <1>3, <2>1
    <3>2. calls'[h + (j - h)] = calls[(j - h) + 1]
      BY <1>5, <3>1
    <3>3. QED
      BY <1>1, <3>1, <3>2
  <2>2. QED
    BY <2>1
<1>8. WatchInv'
  <2> SUFFICES ASSUME NEW j \in DOMAIN calls', NEW n \in RootNames, Whole(calls'[j], "watch", n)
               PROVE  \E k \in DOMAIN calls' : k > j /\ Whole(calls'[k], "scan", n)
    BY DEF WatchInv
  <2>1. ASSUME NEW i \in DOMAIN calls, Whole(calls[i], "watch", n)
        PROVE  \E k \in DOMAIN calls' : k > (i - 1) + h /\ Whole(calls'[k], "scan", n)
    <3>1. PICK k \in DOMAIN calls : k > i /\ Whole(calls[k], "scan", n)
      BY <2>1 DEF WatchInv
    <3>2. k \in 2 .. c /\ (k - 1) + h > (i - 1) + h
      BY <1>1, <3>1
    <3>3. QED
      BY <1>6, <3>1, <3>2
  <2>2. CASE j \in 1 .. h
    <3>1. calls'[j] = pre[j] /\ j \in DOMAIN pre
      BY <1>1, <1>4, <2>2
    <3>2. CASE Whole(Head(calls), "watch", n)
      <4>1. PICK k \in DOMAIN calls' : k > (1 - 1) + h /\ Whole(calls'[k], "scan", n)
        BY <1>1, <2>1, <3>2
      <4>2. k > j
        BY <1>1, <1>3, <2>2, <4>1
      <4>3. QED
        BY <4>1, <4>2
    <3>3. CASE \E k \in DOMAIN pre : k > j /\ Whole(pre[k], "scan", n)
      <4>1. PICK k \in DOMAIN pre : k > j /\ Whole(pre[k], "scan", n)
        BY <3>3
      <4>2. k \in DOMAIN calls' /\ calls'[k] = pre[k]
        BY <1>1, <1>3, <1>4
      <4>3. QED
        BY <4>1, <4>2
    <3>4. QED
      BY <3>1, <3>2, <3>3 DEF Fits
  <2>3. CASE j - h + 1 \in 2 .. c /\ calls'[j] = calls[j - h + 1]
    <3> DEFINE i == j - h + 1
    <3>1. i \in DOMAIN calls /\ Whole(calls[i], "watch", n) /\ (i - 1) + h = j
      BY <1>1, <1>3, <2>3
    <3> HIDE DEF i
    <3>2. PICK k \in DOMAIN calls' : k > (i - 1) + h /\ Whole(calls'[k], "scan", n)
      BY <2>1, <3>1
    <3>3. QED
      BY <3>1, <3>2
  <2>4. QED
    BY <1>7, <2>2, <2>3
<1>9. (Polling' <=> Polling) /\ StackInv'
  <2>1. CASE Head(calls).op = "poll"
    <3>1. Polling
      BY <1>1, <2>1 DEF StackInv
    <3>2. \A j \in DOMAIN calls : calls[j].op = IF j = c THEN "deletes" ELSE "poll"
      BY <3>1 DEF StackInv, c
    <3>3. c > 1 /\ c \in 2 .. c
      BY <1>1, <2>1, <3>2
    <3>4. (c - 1) + h \in DOMAIN calls' /\ calls'[(c - 1) + h].op = "deletes" /\ Len(calls') = (c - 1) + h
      <4>1. (c - 1) + h \in DOMAIN calls' /\ calls'[(c - 1) + h] = calls[c]
        BY <1>6, <3>3
      <4>2. calls[c].op = "deletes" /\ Len(calls') = (c - 1) + h
        BY <1>1, <1>3, <3>2, <3>3
      <4>3. QED
        BY <4>1, <4>2
    <3>5. Polling'
      BY <3>4 DEF Polling
    <3>6. ASSUME NEW j \in DOMAIN calls'
          PROVE  /\ calls'[j].op = IF j = Len(calls') THEN "deletes" ELSE "poll"
                 /\ calls'[j].op = "deletes" => calls'[j].todo = {}
                 /\ calls'[j].todo \subseteq IF calls'[j].dir = <<>> THEN RootNames ELSE InnerNames
      <4>1. CASE j \in 1 .. h
        BY <1>1, <1>3, <1>4, <2>1, <3>3, <4>1 DEF Fits
      <4>2. CASE j - h + 1 \in 2 .. c /\ calls'[j] = calls[j - h + 1]
        <5>1. j - h + 1 \in DOMAIN calls /\ (j - h + 1 = c <=> j = Len(calls'))
          BY <1>1, <1>3, <4>2
        <5>2. QED
          BY <3>2, <4>2, <5>1 DEF StackInv
      <4>3. QED
        BY <1>7, <4>1, <4>2
    <3>7. QED
      BY <3>1, <3>5, <3>6 DEF StackInv, Polling
  <2>2. CASE Head(calls).op # "poll"
    <3>1. ~Polling
      <4>1. c = 1 \/ c # 1
        OBVIOUS
      <4>2. QED
        BY <1>1, <2>2 DEF StackInv
    <3>2. ASSUME NEW j \in DOMAIN calls'
          PROVE  /\ calls'[j].op # "poll" /\ calls'[j].op # "deletes"
                 /\ calls'[j].todo \subseteq IF calls'[j].dir = <<>> THEN RootNames ELSE InnerNames
      <4>1. CASE j \in 1 .. h
        BY <1>1, <1>4, <2>2, <4>1 DEF Fits
      <4>2. CASE j - h + 1 \in 2 .. c /\ calls'[j] = calls[j - h + 1]
        <5>1. j - h + 1 \in DOMAIN calls
          BY <1>1, <4>2
        <5>2. QED
          BY <3>1, <4>2, <5>1 DEF StackInv
      <4>3. QED
        BY <1>7, <4>1, <4>2
    <3>3. QED
      BY <3>1, <3>2 DEF StackInv, Polling
  <2>3. QED
    BY <2>1, <2>2
<1>10. \A j \in DOMAIN calls : j = 1 \/ \E k \in DOMAIN calls' : calls'[k] = calls[j]
  BY <1>1, <1>6
<1>11. \A j \in DOMAIN pre : j \in DOMAIN calls' /\ calls'[j] = pre[j]
  BY <1>1, <1>3, <1>4
<1>12. QED
  BY <1>1, <1>3, <1>8, <1>9, <1>10, <1>11 DEF After

LEMMA WillStill ==
    ASSUME NEW pre, After(pre)
    PROVE  /\ \A op, n : /\ WillMeet(op, n) => WillMeet(op, n)' \/ Meets(Head(calls), op, n)
                         /\ (\E j \in DOMAIN pre : Meets(pre[j], op, n)) => WillMeet(op, n)'
                         /\ WillDo(op, n) => WillDo(op, n)' \/ Whole(Head(calls), op, n)
                         /\ (\E j \in DOMAIN pre : Whole(pre[j], op, n)) => WillDo(op, n)'
           /\ \A op, n, m : /\ WillEnter(op, n, m) => WillEnter(op, n, m)' \/ Enters(Head(calls), op, n, m)
                            /\ (\E j \in DOMAIN pre : Enters(pre[j], op, n, m)) => WillEnter(op, n, m)'
BY DEF After, WillMeet, WillDo, WillEnter

LEMMA HeadCall ==
    ASSUME calls \in Seq(Calls), calls # <<>>, StackInv
    PROVE  /\ Head(calls) \in Calls /\ Head(calls).op \in Ops /\ Here \in {<<>>} \cup Tops
           /\ Head(calls).todo \subseteq IF Here = <<>> THEN RootNames ELSE InnerNames
           /\ Head(calls).op = "deletes" => Head(calls).todo = {}
           /\ Head(calls) = calls[1] /\ 1 \in DOMAIN calls
<1>1. Head(calls) = calls[1] /\ 1 \in DOMAIN calls /\ Head(calls) \in Calls
  OBVIOUS
<1>2. QED
  BY <1>1 DEF Calls, Here, StackInv

LEMMA VisitingStep ==
    ASSUME calls \in Seq(Calls), StackInv, WatchInv, Opens("watch") \/ Opens("scan") \/ Opens("poll"),
           NEW names, Visiting(names),
           names \subseteq IF Here = <<>> THEN RootNames ELSE InnerNames
    PROVE  /\ calls' \in Seq(Calls) /\ StackInv' /\ WatchInv' /\ (Polling' <=> Polling)
           /\ \A op, n : WillMeet(op, n) =>
                \/ WillMeet(op, n)'
                \/ Opens(op) /\ Here = <<>> /\ n \notin names
           /\ \A op, n, m : WillEnter(op, n, m) =>
                \/ WillEnter(op, n, m)'
                \/ Opens(op) /\ Here = <<>> /\ n \notin names
                \/ Opens(op) /\ Here = <<n>> /\ m \notin names
           /\ \A op, n : WillDo(op, n) =>
                \/ WillDo(op, n)'
                \/ Opens(op) /\ Here = <<>> /\ n \notin names
                \/ Opens(op) /\ Here = <<n>>
<1> DEFINE left == [Head(calls) EXCEPT !.todo = names]
           pre == IF names = {} THEN <<>> ELSE <<left>>
<1>1. /\ calls # <<>> /\ Head(calls).todo = {} /\ Head(calls).op \in {"watch", "scan", "poll"}
      /\ Head(calls) \in Calls /\ Here \in {<<>>} \cup Tops /\ Here = Head(calls).dir
  BY HeadCall DEF Opens, CallNow, Here
<1>2. Tail(calls) \in Seq(Calls)
  BY <1>1
<1>3. left \in Calls /\ left.op = Head(calls).op /\ left.dir = Here /\ left.todo = names
  <2>1. names \in (SUBSET RootNames) \cup (SUBSET InnerNames)
    OBVIOUS
  <2>2. QED
    BY <1>1, <2>1 DEF Calls
<1>4. Instead(pre)
  <2>1. CASE names = {}
    <3>1. pre = <<>> /\ calls' = Tail(calls)
      BY <2>1 DEF Visiting
    <3>2. Tail(calls) = <<>> \o Tail(calls)
      BY <1>2
    <3>3. QED
      BY <3>1, <3>2 DEF Instead
  <2>2. CASE names # {}
    BY <2>2 DEF Visiting, Instead
  <2>3. QED
    BY <2>1, <2>2
<1>5. /\ pre \in Seq(Calls)
      /\ \A j \in DOMAIN pre : pre[j] = left /\ names # {}
      /\ names # {} => 1 \in DOMAIN pre
  BY <1>3
<1> HIDE DEF left, pre
<1>6. Fits(pre)
  BY <1>1, <1>3, <1>5 DEF Fits, Whole, Meets, LeftOf
<1>7. /\ calls' \in Seq(Calls) /\ StackInv' /\ WatchInv' /\ (Polling' <=> Polling) /\ After(pre)
  BY <1>1, <1>4, <1>6, StackAfter
<1>8. \A op, n : /\ WillMeet(op, n) => WillMeet(op, n)' \/ Meets(Head(calls), op, n)
                 /\ names # {} /\ Meets(left, op, n) => WillMeet(op, n)'
                 /\ WillDo(op, n) => WillDo(op, n)' \/ Whole(Head(calls), op, n)
                 /\ names # {} /\ Whole(left, op, n) => WillDo(op, n)'
  BY <1>5, <1>7, WillStill
<1>9. \A op, n, m : /\ WillEnter(op, n, m) => WillEnter(op, n, m)' \/ Enters(Head(calls), op, n, m)
                    /\ names # {} /\ Enters(left, op, n, m) => WillEnter(op, n, m)'
  BY <1>5, <1>7, WillStill
<1>10. ASSUME NEW op, NEW n, WillMeet(op, n), ~WillMeet(op, n)'
       PROVE  Opens(op) /\ Here = <<>> /\ n \notin names
  BY <1>1, <1>3, <1>8, <1>10 DEF Meets, LeftOf, Opens, CallNow
<1>11. ASSUME NEW op, NEW n, NEW m, WillEnter(op, n, m), ~WillEnter(op, n, m)'
       PROVE  \/ Opens(op) /\ Here = <<>> /\ n \notin names
              \/ Opens(op) /\ Here = <<n>> /\ m \notin names
  BY <1>1, <1>3, <1>9, <1>11 DEF Enters, Meets, LeftOf, Opens, CallNow
<1>12. ASSUME NEW op, NEW n, WillDo(op, n), ~WillDo(op, n)'
       PROVE  \/ Opens(op) /\ Here = <<>> /\ n \notin names
              \/ Opens(op) /\ Here = <<n>>
  BY <1>1, <1>3, <1>8, <1>12 DEF Whole, Meets, LeftOf, Opens, CallNow
<1>13. QED
  BY <1>7, <1>10, <1>11, <1>12

\* What a name leads to: calls for a directory in Root.
Leads(n, new) ==
    \/ new = <<>>
    \/ /\ Here = <<>> /\ n \in RootNames
       /\ new = IF Head(calls).op = "scan" THEN WatchAndScan(<<n>>)
                ELSE <<Call(Head(calls).op, <<n>>)>>

LEMMA VisitedStep ==
    ASSUME calls \in Seq(Calls), StackInv, WatchInv, Visits("watch") \/ Visits("scan") \/ Visits("poll"),
           NEW n \in Head(calls).todo, NEW new, Visited(n, new), Leads(n, new)
    PROVE  /\ calls' \in Seq(Calls) /\ StackInv' /\ WatchInv' /\ (Polling' <=> Polling)
           /\ \A op, k : WillMeet(op, k) =>
                \/ WillMeet(op, k)'
                \/ Visits(op) /\ Here = <<>> /\ k = n
           /\ \A op, k, m : WillEnter(op, k, m) =>
                \/ WillEnter(op, k, m)'
                \/ Visits(op) /\ Here = <<>> /\ k = n /\ new = <<>>
                \/ Visits(op) /\ Here = <<k>> /\ m = n
           /\ \A op, k : WillDo(op, k) =>
                \/ WillDo(op, k)'
                \/ Visits(op) /\ Here = <<>> /\ k = n /\ new = <<>>
<1> DEFINE names == Head(calls).todo \ {n}
           left == [Head(calls) EXCEPT !.todo = names]
           rest == IF names = {} THEN <<>> ELSE <<left>>
           pre == new \o rest
<1>1. /\ calls # <<>> /\ Head(calls).todo # {} /\ Head(calls).op \in {"watch", "scan", "poll"}
      /\ Head(calls) \in Calls /\ Here \in {<<>>} \cup Tops /\ Here = Head(calls).dir
      /\ Head(calls).todo \subseteq IF Here = <<>> THEN RootNames ELSE InnerNames
  BY HeadCall DEF Visits, CallNow, Here
<1>2. left \in Calls /\ left.op = Head(calls).op /\ left.dir = Here /\ left.todo = names
  <2>1. names \in (SUBSET RootNames) \cup (SUBSET InnerNames)
    BY <1>1
  <2>2. QED
    BY <1>1, <2>1 DEF Calls
<1>3. Instead(pre)
  BY DEF Visited, Instead
<1>4. /\ rest \in Seq(Calls) /\ Len(rest) \in {0, 1}
      /\ \A j \in DOMAIN rest : rest[j] = left /\ names # {} /\ j = 1
      /\ names # {} => 1 \in DOMAIN rest
  <2>1. CASE names = {}
    BY <2>1
  <2>2. CASE names # {}
    <3>1. rest = <<left>>
      BY <2>2
    <3> HIDE DEF left, rest, names
    <3>2. QED
      BY <1>2, <2>2, <3>1
  <2>3. QED
    BY <2>1, <2>2
<1> DEFINE op == Head(calls).op
<1>5. /\ new \in Seq(Calls)
      /\ \A j \in DOMAIN new :
           /\ Here = <<>> /\ n \in RootNames /\ new[j].dir = <<n>> /\ new[j].todo = {}
           /\ new[j].op \in {op, "watch"}
           /\ new[j].op # op => op = "scan" /\ j = 1 /\ 2 \in DOMAIN new
                                /\ new[2].op = "scan" /\ new[2].dir = <<n>> /\ new[2].todo = {}
      /\ new # <<>> => \E j \in DOMAIN new : new[j].op = op /\ new[j].dir = <<n>> /\ new[j].todo = {}
  <2>1. CASE new = <<>>
    BY <2>1
  <2>2. CASE new # <<>>
    <3>1. Here = <<>> /\ n \in RootNames /\ <<n>> \in Tops
      BY <2>2 DEF Leads, Tops
    <3>2. \A x \in Ops : Call(x, <<n>>) \in Calls /\ Call(x, <<n>>).op = x
                         /\ Call(x, <<n>>).dir = <<n>> /\ Call(x, <<n>>).todo = {}
      BY <3>1 DEF Call, Calls
    <3>3. "watch" \in Ops /\ "scan" \in Ops /\ op \in Ops
      BY <1>1 DEF Ops
    <3>4. CASE op = "scan"
      <4>1. new = <<Call("watch", <<n>>), Call("scan", <<n>>)>>
        BY <2>2, <3>4 DEF Leads, WatchAndScan
      <4>2. /\ new \in Seq(Calls) /\ DOMAIN new = {1, 2} /\ new # <<>>
            /\ new[1] = Call("watch", <<n>>) /\ new[2] = Call("scan", <<n>>)
        BY <3>2, <3>3, <4>1
      <4> HIDE DEF op
      <4>3. new[1].op = "watch" /\ new[2].op = "scan"
            /\ \A j \in {1, 2} : new[j].dir = <<n>> /\ new[j].todo = {}
        BY <3>2, <3>3, <4>2
      <4>4. QED
        BY <3>1, <3>4, <4>2, <4>3
    <3>5. CASE op # "scan"
      <4>1. new = <<Call(op, <<n>>)>>
        BY <2>2, <3>5 DEF Leads
      <4> HIDE DEF op
      <4>2. QED
        BY <3>1, <3>2, <3>3, <3>5, <4>1
    <3>6. QED
      BY <3>4, <3>5
  <2>3. QED
    BY <2>1, <2>2
<1> HIDE DEF left, rest, names
<1>6. /\ pre \in Seq(Calls)
      /\ \A j \in DOMAIN new : j \in DOMAIN pre /\ pre[j] = new[j]
      /\ \A j \in DOMAIN pre : (j \in DOMAIN new /\ pre[j] = new[j]) \/ (pre[j] = left /\ names # {})
      /\ names # {} => \E j \in DOMAIN pre : pre[j] = left
  <2>1. new \in Seq(Calls) /\ rest \in Seq(Calls)
    BY <1>4, <1>5
  <2>2. /\ pre \in Seq(Calls) /\ Len(pre) = Len(new) + Len(rest)
        /\ \A j \in 1 .. Len(new) : pre[j] = new[j]
        /\ \A j \in 1 .. Len(rest) : pre[Len(new) + j] = rest[j]
    BY <2>1
  <2>3. Len(rest) = 0 \/ Len(rest) = 1
    BY <1>4
  <2>4. DOMAIN new = 1 .. Len(new) /\ DOMAIN rest = 1 .. Len(rest) /\ Len(new) \in Nat
        /\ DOMAIN pre = 1 .. Len(pre)
    BY <2>1, <2>2
  <2> HIDE DEF pre
  <2>5. CASE Len(rest) = 0
    BY <1>4, <2>2, <2>4, <2>5
  <2>6. CASE Len(rest) = 1
    <3>1. names # {} /\ pre[Len(new) + 1] = left
      BY <1>4, <2>2, <2>4, <2>6
    <3>2. QED
      BY <2>2, <2>4, <2>6, <3>1
  <2>7. QED
    BY <2>3, <2>5, <2>6
<1> HIDE DEF pre, op
<1>7. op = Head(calls).op
  BY DEF op
<1>8. \A k \in RootNames : Whole(left, "watch", k) /\ names # {} => Whole(Head(calls), "watch", k)
  BY <1>1, <1>2 DEF Whole, Meets, LeftOf, names
<1>9. Fits(pre)
  <2> SUFFICES ASSUME NEW j \in DOMAIN pre
               PROVE  /\ pre[j].todo \subseteq IF pre[j].dir = <<>> THEN RootNames ELSE InnerNames
                      /\ IF Head(calls).op = "poll" THEN pre[j].op = "poll" ELSE pre[j].op \in {"watch", "scan"}
                      /\ \A k \in RootNames : Whole(pre[j], "watch", k) =>
                           \/ Whole(Head(calls), "watch", k)
                           \/ \E i \in DOMAIN pre : i > j /\ Whole(pre[i], "scan", k)
    BY <1>6 DEF Fits
  <2>1. CASE pre[j] = left /\ names # {}
    BY <1>1, <1>2, <1>7, <1>8, <2>1 DEF names
  <2>2. CASE j \in DOMAIN new /\ pre[j] = new[j]
    <3>1. /\ pre[j].todo = {} /\ pre[j].op \in {op, "watch"} /\ pre[j].dir = <<n>>
          /\ pre[j].op # op => op = "scan"
      BY <1>5, <2>2
    <3>2. ASSUME NEW k \in RootNames, Whole(pre[j], "watch", k)
          PROVE  \/ Whole(Head(calls), "watch", k)
                 \/ \E i \in DOMAIN pre : i > j /\ Whole(pre[i], "scan", k)
      <4>1. pre[j].op = "watch" /\ k = n
        BY <3>1, <3>2 DEF Whole, Meets
      <4>2. CASE op = "watch"
        BY <1>1, <1>5, <1>7, <2>2, <4>1, <4>2 DEF Whole, Meets, LeftOf
      <4>3. CASE op # "watch"
        <5>1. j = 1 /\ 2 \in DOMAIN new /\ Whole(new[2], "scan", n)
          BY <1>5, <2>2, <4>1, <4>3 DEF Whole
        <5>2. QED
          BY <1>6, <4>1, <5>1
      <4>4. QED
        BY <4>2, <4>3
    <3>3. QED
      BY <1>1, <1>7, <3>1, <3>2
  <2>3. QED
    BY <1>6, <2>1, <2>2
<1>10. /\ calls' \in Seq(Calls) /\ StackInv' /\ WatchInv' /\ (Polling' <=> Polling) /\ After(pre)
  BY <1>1, <1>3, <1>9, StackAfter
<1>11. \A o, k : /\ WillMeet(o, k) => WillMeet(o, k)' \/ Meets(Head(calls), o, k)
                 /\ names # {} /\ Meets(left, o, k) => WillMeet(o, k)'
                 /\ WillDo(o, k) => WillDo(o, k)' \/ Whole(Head(calls), o, k)
                 /\ names # {} /\ Whole(left, o, k) => WillDo(o, k)'
                 /\ new # <<>> /\ o = op /\ k = n => WillDo(o, k)'
  <2>1. new # <<>> => \E j \in DOMAIN pre : Whole(pre[j], op, n)
    BY <1>5, <1>6 DEF Whole
  <2>2. QED
    BY <1>6, <1>10, <2>1, WillStill
<1>12. \A o, k, m : /\ WillEnter(o, k, m) => WillEnter(o, k, m)' \/ Enters(Head(calls), o, k, m)
                    /\ names # {} /\ Enters(left, o, k, m) => WillEnter(o, k, m)'
                    /\ new # <<>> /\ o = op /\ k = n => WillEnter(o, k, m)'
  <2>1. new # <<>> => \E j \in DOMAIN pre : \A m : Enters(pre[j], op, n, m)
    BY <1>5, <1>6 DEF Enters, LeftOf
  <2>2. QED
    BY <1>6, <1>10, <2>1, WillStill
<1>13. \A k : k \in Head(calls).todo /\ k # n => k \in names /\ names # {}
  BY DEF names
<1>14. ASSUME NEW o, NEW k, WillMeet(o, k), ~WillMeet(o, k)'
       PROVE  Visits(o) /\ Here = <<>> /\ k = n
  BY <1>1, <1>2, <1>11, <1>13, <1>14 DEF Meets, LeftOf, Visits, CallNow
<1>15. ASSUME NEW o, NEW k, NEW m, WillEnter(o, k, m), ~WillEnter(o, k, m)'
       PROVE  \/ Visits(o) /\ Here = <<>> /\ k = n /\ new = <<>>
              \/ Visits(o) /\ Here = <<k>> /\ m = n
  BY <1>1, <1>2, <1>7, <1>12, <1>13, <1>15 DEF Enters, Meets, LeftOf, Visits, CallNow
<1>16. ASSUME NEW o, NEW k, WillDo(o, k), ~WillDo(o, k)'
       PROVE  Visits(o) /\ Here = <<>> /\ k = n /\ new = <<>>
  BY <1>1, <1>2, <1>7, <1>11, <1>13, <1>16 DEF Whole, Meets, LeftOf, Visits, CallNow
<1>17. QED
  BY <1>10, <1>14, <1>15, <1>16
-----------------------------------------------------------------------------
(* What a step of the monitor leaves alone *)

LEMMA ViewsStay ==
    ASSUME UNCHANGED content
    PROVE  /\ \A p : Found(p)' = Found(p) /\ View(p)' = View(p) /\ Stat(p)' = Stat(p)
           /\ \A n : Top(n)' = Top(n)
           /\ \A i : Placed(content, i)' = Placed(content, i)
BY DEF Found, View, Stat, StatOf, Top, Placed

LEMMA NamesStay ==
    ASSUME UNCHANGED events
    PROVE  \A d, n : (Named(d, n)' <=> Named(d, n)) /\ (Gone(d, n)' <=> Gone(d, n))
BY DEF Named, Gone, About

LEMMA UserStays ==
    ASSUME IInv, UNCHANGED <<userVars, events>>, watched \subseteq watched',
           watched' \subseteq {Root} \cup made
    PROVE  UserTypes' /\ TreeInv' /\ HeardInv' /\ LastInv'
<1>1. UNCHANGED <<content, made, changes, events>>
  BY DEF userVars
<1>2. UserTypes' /\ TreeInv' /\ LastInv'
  BY <1>1 DEF IInv, UserTypes, TreeInv, LastInv
<1>3. HeardInv'
  BY <1>1 DEF IInv, HeardInv, Heard, Of
<1>4. QED
  BY <1>2, <1>3

\* The names of what is there.
LEMMA TopFacts ==
    ASSUME UserTypes, TreeInv, NEW n \in RootNames
    PROVE  /\ Top(n) \in Entries /\ Top(n) # Root /\ Root \notin SubDirs /\ Absent \notin SubDirs
           /\ Top(n) \in SubDirs => Top(n) \in made /\ Placed(content, Top(n))
           /\ \A k \in RootNames : Top(n) \in SubDirs /\ Top(k) = Top(n) => k = n
           /\ View(<<n>>) # Absent => n \in Listed(Root)
           /\ IsDirectory(<<n>>) <=> Top(n) \in SubDirs
           /\ n \in Names
<1>1. n \in Names /\ Root \in Dirs /\ Top(n) \in Entries
  BY DEF UserTypes, Dirs, Names, Top
<1>2. Top(n) # Root /\ Root \notin SubDirs /\ Absent \notin SubDirs
  BY <1>1, MonitorAssumption DEF Entries
<1>3. Top(n) \in SubDirs => Top(n) \in made /\ Placed(content, Top(n))
  BY <1>1 DEF TreeInv, Tree, Top, Placed
<1>4. \A k \in RootNames : Top(n) \in SubDirs /\ Top(k) = Top(n) => k = n
  BY <1>1 DEF TreeInv, Tree, Top, Names
<1>5. View(<<n>>) # Absent => n \in Listed(Root)
  BY <1>1, <1>2, PathViews DEF ViewFacts, Listed, Top
<1>6. IsDirectory(<<n>>) <=> Top(n) \in SubDirs
  BY <1>2, TopPath DEF IsDirectory
<1>7. QED
  BY <1>1, <1>2, <1>3, <1>4, <1>5, <1>6

LEMMA ListedNames ==
    ASSUME UserTypes, TreeInv
    PROVE  /\ Found(<<>>) = Root /\ IsDirectory(<<>>) /\ Listed(Root) \subseteq RootNames
           /\ \A n \in RootNames : Top(n) \in SubDirs => Listed(Top(n)) \subseteq InnerNames
           /\ \A n \in RootNames, m \in InnerNames :
                /\ View(<<n, m>>) # Absent => Top(n) \in SubDirs /\ m \in Listed(Top(n)) /\ View(<<n>>) = Dir
                                               /\ View(<<n>>) # Absent
                /\ IsFile(View(<<n, m>>)) \/ View(<<n, m>>) = Absent
                /\ View(<<n, m>>) \in Files \cup {Absent}
<1>1. Found(<<>>) = Root /\ IsDirectory(<<>>)
  BY DEF Found, IsDirectory
<1>2. Listed(Root) \subseteq RootNames
  BY DEF Listed, TreeInv, Tree, NamesIn, Dirs
<1>3. ASSUME NEW n \in RootNames, Top(n) \in SubDirs
      PROVE  Listed(Top(n)) \subseteq InnerNames
  BY <1>3, MonitorAssumption DEF Listed, TreeInv, Tree, NamesIn, Dirs, Entries
<1>4. ASSUME NEW n \in RootNames, NEW m \in InnerNames
      PROVE  /\ View(<<n, m>>) # Absent => Top(n) \in SubDirs /\ m \in Listed(Top(n)) /\ View(<<n>>) = Dir
                                             /\ View(<<n>>) # Absent
             /\ IsFile(View(<<n, m>>)) \/ View(<<n, m>>) = Absent
             /\ View(<<n, m>>) \in Files \cup {Absent}
  <2>1. CASE Top(n) \notin SubDirs
    BY <2>1, PathViews DEF ViewFacts
  <2>2. CASE Top(n) \in SubDirs
    <3>1. content[Top(n)][m] \in Entries \ SubDirs /\ m \in Names
      BY <2>2 DEF UserTypes, TreeInv, Tree, Names, Dirs
    <3>2. View(<<n, m>>) = content[Top(n)][m] /\ View(<<n>>) = Dir
      BY <2>2, <3>1, PathViews DEF ViewFacts
    <3>3. QED
      BY <2>2, <3>1, <3>2, MonitorAssumption DEF Listed, IsFile, Entries
  <2>3. QED
    BY <2>1, <2>2
<1>5. QED
  BY <1>1, <1>2, <1>3, <1>4

\* Steps that only go on with calls.
CallsGoOn ==
    /\ \A n \in RootNames, op \in {"scan", "poll"} :
         View(<<n>>) # Absent /\ WillMeet(op, n) => WillMeet(op, n)'
    /\ \A n \in RootNames, m \in InnerNames, op \in {"scan", "poll"} :
         View(<<n, m>>) # Absent /\ WillEnter(op, n, m) => WillEnter(op, n, m)'

LEMMA OnlyCalls ==
    ASSUME IInv, UNCHANGED <<content, events, backupVars, move, snapshots, seen>>,
           Polling' <=> Polling, CallsGoOn,
           \A n \in RootNames, m \in InnerNames :
             View(<<n, m>>) # Absent /\ Top(n) \in DOMAIN watchItems' =>
               \/ Top(n) \in DOMAIN watchItems /\ (watchItems[Top(n)] = <<n>> => watchItems'[Top(n)] = <<n>>)
               \/ WillEnter("scan", n, m)' /\ ~Polling
    PROVE  BackupTypes' /\ TopInv' /\ InInv'
<1>1. /\ \A p : View(p)' = View(p)
      /\ \A n : Top(n)' = Top(n)
      /\ \A d, n : (Named(d, n)' <=> Named(d, n)) /\ (Gone(d, n)' <=> Gone(d, n))
      /\ UNCHANGED <<replica, pending, suspect, stale>>
  BY ViewsStay, NamesStay DEF backupVars
<1>2. ASSUME NEW n \in RootNames
      PROVE  Unlike(n)' /\ Outdated(n)' /\ TopComing(n)' /\ TopPolled(n)'
  <2>1. Unlike(n) /\ Outdated(n) /\ TopComing(n) /\ TopPolled(n)
    BY DEF IInv, TopInv
  <2>2. Unlike(n)' /\ Outdated(n)'
    BY <1>1, <2>1 DEF Unlike, Outdated, Moving
  <2>3. TopComing(n)' /\ TopPolled(n)'
    BY <1>1, <2>1 DEF TopComing, TopPolled, InStep, Moving, CallsGoOn
  <2>4. QED
    BY <2>2, <2>3
<1>3. ASSUME NEW n \in RootNames, NEW m \in InnerNames
      PROVE  InComing(n, m)' /\ Inner(n, m)' /\ InPolled(n, m)' /\ Remembered(n, m)'
  <2>1. InComing(n, m) /\ Inner(n, m) /\ InPolled(n, m) /\ Remembered(n, m)
    BY DEF IInv, InInv
  <2>2. Inner(n, m)' /\ Remembered(n, m)'
    BY <1>1, <2>1 DEF Inner, Remembered, Agrees, Known
  <2>3. InComing(n, m)' /\ InPolled(n, m)'
    BY <1>1, <2>1 DEF InComing, InPolled, InStep, CallsGoOn
  <2>4. QED
    BY <2>2, <2>3
<1>4. BackupTypes'
  BY <1>1 DEF IInv, BackupTypes
<1>5. QED
  BY <1>2, <1>3, <1>4 DEF TopInv, InInv
-----------------------------------------------------------------------------
(* Watching and listing *)

\* Before its first call the monitor can do nothing else.
LEMMA FreshCalls ==
    ASSUME Fresh
    PROVE  /\ Opens("watch") /\ Here = <<>> /\ ~Opens("scan") /\ ~Opens("poll") /\ ~CallNow("deletes")
           /\ ~Visits("watch") /\ ~Visits("scan") /\ ~Visits("poll") /\ calls # <<>>
<1>1. calls # <<>> /\ Head(calls) = Call("watch", <<>>)
  BY DEF Fresh, WatchAndScan
<1>2. QED
  BY <1>1 DEF Opens, Visits, CallNow, Here, Call

LEMMA StartedStays ==
    ASSUME Started, watched \subseteq watched', UNCHANGED watchItems
    PROVE  StartInv'
BY DEF Started, StartInv

LEMMA ItemAddedFacts ==
    ASSUME MonitorTypes, NEW i, NEW p \in {<<>>} \cup Tops
    PROVE  LET t == ItemAdded(i, p) IN
           /\ t \in [DOMAIN t -> {<<>>} \cup Tops]
           /\ IsFiniteSet(DOMAIN t) /\ Cardinality(DOMAIN t) <= MaxWatches
           /\ DOMAIN watchItems \subseteq DOMAIN t /\ DOMAIN t \subseteq DOMAIN watchItems \cup {i}
           /\ i \in DOMAIN t => t[i] = p
           /\ \A k \in DOMAIN t : k # i => k \in DOMAIN watchItems /\ t[k] = watchItems[k]
           /\ DOMAIN watchItems = {} => i \in DOMAIN t
<1> DEFINE t == ItemAdded(i, p)
           D == DOMAIN watchItems
           add == i \in D \/ Cardinality(D) < MaxWatches
<1>1. /\ watchItems \in [D -> {<<>>} \cup Tops] /\ IsFiniteSet(D) /\ Cardinality(D) <= MaxWatches
      /\ MaxWatches \in Nat \ {0} /\ Cardinality(D) \in Nat
  BY MonitorAssumption, FS_CardinalityType DEF MonitorTypes
<1>2. IsFiniteSet(D \cup {i}) /\ Cardinality(D \cup {i}) = IF i \in D THEN Cardinality(D) ELSE Cardinality(D) + 1
  BY <1>1, FS_AddElement
<1>3. CASE add
  <2>1. t = [k \in D \cup {i} |-> IF k = i THEN p ELSE watchItems[k]]
    BY <1>3 DEF ItemAdded
  <2> HIDE DEF t
  <2>2. DOMAIN t = D \cup {i} /\ \A k \in D \cup {i} : t[k] = IF k = i THEN p ELSE watchItems[k]
    BY <2>1
  <2>3. Cardinality(D \cup {i}) <= MaxWatches
    BY <1>1, <1>2, <1>3
  <2>4. t \in [DOMAIN t -> {<<>>} \cup Tops]
    BY <1>1, <2>1, <2>2
  <2>5. QED
    BY <1>2, <2>2, <2>3, <2>4 DEF t
<1>4. CASE ~add
  <2>1. t = watchItems /\ i \notin D
    BY <1>4 DEF ItemAdded
  <2>2. D # {}
    BY <1>1, <1>4, FS_EmptySet
  <2> HIDE DEF t
  <2>3. QED
    BY <1>1, <2>1, <2>2 DEF t
<1>5. QED
  BY <1>3, <1>4

LEMMA WatchDirKeeps == IInv /\ WatchDir => IInv'
<1> SUFFICES ASSUME IInv, WatchDir PROVE IInv'
  OBVIOUS
<1> DEFINE names == IF IsDirectory(Here) /\ Here = <<>> THEN Listed(Root) ELSE {}
<1>1. /\ Opens("watch") /\ ~Opens("scan") /\ ~Opens("poll") /\ calls # <<>>
      /\ Head(calls).op = "watch" /\ Here \in {<<>>} \cup Tops /\ Head(calls).todo = {}
      /\ UserTypes /\ TreeInv /\ StackInv /\ WatchInv /\ calls \in Seq(Calls) /\ MonitorTypes
      /\ Head(calls) = calls[1] /\ 1 \in DOMAIN calls
  BY HeadCall DEF WatchDir, Opens, CallNow, IInv, MonitorTypes
<1>2. /\ Visiting(names)
      /\ IF IsDirectory(Here)
         THEN watched' = watched \cup {Found(Here)} /\ watchItems' = ItemAdded(Found(Here), Here)
         ELSE UNCHANGED <<watched, watchItems>>
      /\ UNCHANGED <<userVars, events, snapshots, seen, move, backupVars>>
  BY DEF WatchDir
<1>3. names \subseteq IF Here = <<>> THEN RootNames ELSE InnerNames
  BY <1>1, ListedNames
<1> HIDE DEF names
<1>4. /\ calls' \in Seq(Calls) /\ StackInv' /\ WatchInv' /\ (Polling' <=> Polling)
      /\ \A op, n : WillMeet(op, n) =>
           \/ WillMeet(op, n)'
           \/ Opens(op) /\ Here = <<>> /\ n \notin names
      /\ \A op, n, m : WillEnter(op, n, m) =>
           \/ WillEnter(op, n, m)'
           \/ Opens(op) /\ Here = <<>> /\ n \notin names
           \/ Opens(op) /\ Here = <<n>> /\ m \notin names
      /\ \A op, n : WillDo(op, n) =>
           \/ WillDo(op, n)'
           \/ Opens(op) /\ Here = <<>> /\ n \notin names
           \/ Opens(op) /\ Here = <<n>>
  BY <1>1, <1>2, <1>3, VisitingStep
<1>5. ~Polling
  BY <1>1 DEF StackInv
<1>6. CASE ~IsDirectory(Here)
  <2>1. UNCHANGED <<content, watched, watchItems, events, backupVars, move, snapshots, seen>>
    BY <1>2, <1>6 DEF userVars
  <2>2. CallsGoOn
    BY <1>1, <1>4 DEF CallsGoOn
  <2>3. BackupTypes' /\ TopInv' /\ InInv'
    BY <1>4, <2>1, <2>2, OnlyCalls
  <2>4. UserTypes' /\ TreeInv' /\ HeardInv' /\ LastInv'
    BY <1>1, <1>2, <2>1, UserStays DEF UserTypes
  <2>5. MonitorTypes'
    BY <1>1, <1>4, <2>1 DEF MonitorTypes
  <2>6. StartInv'
    <3>1. Started
      BY <1>1, <1>6, FreshCalls, ListedNames DEF IInv, StartInv
    <3>2. QED
      BY <2>1, <3>1, StartedStays
  <2>7. TableInv'
    BY <1>2, <2>1 DEF IInv, TableInv, userVars
  <2>8. ItemInv'
    <3> SUFFICES ASSUME NEW n \in RootNames, Top(n) \in SubDirs \cap DOMAIN watchItems
                 PROVE  watchItems[Top(n)] = <<n>> \/ Named(Root, n) \/ WillDo("watch", n)'
      BY <2>1, ViewsStay, NamesStay DEF ItemInv
    <3>1. watchItems[Top(n)] = <<n>> \/ Named(Root, n) \/ WillDo("watch", n)
      BY DEF IInv, ItemInv
    <3>2. Here # <<>> /\ Here # <<n>>
      BY <1>1, <1>6, TopFacts, ListedNames
    <3>3. QED
      BY <1>4, <3>1, <3>2
  <2>9. QED
    BY <1>4, <2>3, <2>4, <2>5, <2>6, <2>7, <2>8 DEF IInv
<1>7. CASE IsDirectory(Here)
  <2> DEFINE i == Found(Here)
  <2>1. /\ watched' = watched \cup {i} /\ watchItems' = ItemAdded(i, Here)
        /\ UNCHANGED <<content, made, changes, events, backupVars, move, snapshots, seen>>
        /\ UNCHANGED <<pending, replica, suspect, stale>>
    BY <1>2, <1>7 DEF userVars, backupVars
  <2>2. \/ Here = <<>> /\ i = Root /\ names = Listed(Root)
        \/ \E n \in RootNames : Here = <<n>> /\ i = Top(n) /\ Top(n) \in SubDirs
    <3>1. CASE Here = <<>>
      BY <1>1, <1>7, <3>1, ListedNames DEF names
    <3>2. CASE Here # <<>>
      BY <1>1, <1>7, <3>2, TopFacts, TopPath DEF Tops
    <3>3. QED
      BY <3>1, <3>2
  <2> HIDE DEF i
  <2>3. /\ watchItems' \in [DOMAIN watchItems' -> {<<>>} \cup Tops]
        /\ IsFiniteSet(DOMAIN watchItems') /\ Cardinality(DOMAIN watchItems') <= MaxWatches
        /\ DOMAIN watchItems \subseteq DOMAIN watchItems' /\ DOMAIN watchItems' \subseteq DOMAIN watchItems \cup {i}
        /\ i \in DOMAIN watchItems' => watchItems'[i] = Here
        /\ \A k \in DOMAIN watchItems' : k # i => k \in DOMAIN watchItems /\ watchItems'[k] = watchItems[k]
        /\ DOMAIN watchItems = {} => i \in DOMAIN watchItems'
    BY <1>1, <2>1, ItemAddedFacts
  <2>4. \A n \in RootNames : Top(n) = i /\ Top(n) \in SubDirs => Here = <<n>>
    BY <1>1, <2>2, TopFacts
  <2>5. i = Root \/ (i # Root /\ i \in made /\ i \in SubDirs)
    BY <1>1, <2>2, TopFacts
  <2>6. UserTypes' /\ TreeInv' /\ HeardInv' /\ LastInv'
    <3>1. watched' \subseteq {Root} \cup made
      BY <1>1, <2>1, <2>5 DEF UserTypes
    <3>2. QED
      BY <1>2, <2>1, <3>1, UserStays
  <2>7. MonitorTypes'
    BY <1>1, <1>4, <2>1, <2>3 DEF MonitorTypes
  <2>8. StartInv'
    <3>1. CASE Fresh
      <4>1. Here = <<>> /\ i = Root
        BY <1>1, <2>2, <3>1, FreshCalls
      <4>2. Root \in DOMAIN watchItems'
        BY <2>3, <3>1, <4>1 DEF Fresh
      <4>3. QED
        BY <2>1, <2>3, <4>1, <4>2 DEF StartInv, Started
    <3>2. CASE Started
      <4>1. Root \in watched /\ Root \in DOMAIN watchItems /\ watchItems[Root] = <<>>
        BY <3>2 DEF Started
      <4>2. watchItems'[Root] = <<>>
        <5>1. CASE i = Root
          BY <1>1, <2>2, <2>3, <4>1, <5>1, TopFacts
        <5>2. CASE i # Root
          BY <2>3, <4>1, <5>2
        <5>3. QED
          BY <5>1, <5>2
      <4>3. QED
        BY <2>1, <2>3, <4>1, <4>2 DEF StartInv, Started
    <3>3. QED
      BY <3>1, <3>2 DEF IInv, StartInv
  <2>9. TableInv'
    <3> SUFFICES ASSUME NEW k \in DOMAIN watchItems', k # Root
                 PROVE  k \in made /\ (k \in watched' \/ ~Placed(content, k)) /\ watchItems'[k] # <<>>
      BY <2>1, ViewsStay DEF TableInv
    <3>1. CASE k = i
      BY <2>1, <2>2, <2>3, <2>5, <3>1, TopPath
    <3>2. CASE k # i
      BY <2>1, <2>3, <3>2 DEF IInv, TableInv
    <3>3. QED
      BY <3>1, <3>2
  <2>10. ItemInv'
    <3> SUFFICES ASSUME NEW n \in RootNames, Top(n) \in SubDirs \cap DOMAIN watchItems'
                 PROVE  watchItems'[Top(n)] = <<n>> \/ Named(Root, n) \/ WillDo("watch", n)'
      BY <2>1, ViewsStay, NamesStay DEF ItemInv
    <3>1. CASE Top(n) = i
      BY <2>3, <2>4, <3>1
    <3>2. CASE Top(n) # i
      <4>1. watchItems'[Top(n)] = <<n>> \/ Named(Root, n) \/ WillDo("watch", n)
        BY <2>3, <3>2 DEF IInv, ItemInv
      <4>2. Here # <<n>>
        BY <2>2, <3>2, TopPath DEF i
      <4>3. Here = <<>> => n \in names
        <5>1. View(<<n>>) # Absent
          BY PathViews, MonitorAssumption DEF ViewFacts
        <5>2. QED
          BY <1>1, <2>2, <5>1, TopFacts, TopPath
      <4>4. QED
        BY <1>4, <4>1, <4>2, <4>3
    <3>3. QED
      BY <3>1, <3>2
  <2>11. TopInv' /\ InInv' /\ BackupTypes'
    <3>1. CallsGoOn
      BY <1>1, <1>4 DEF CallsGoOn
    <3>2. ASSUME NEW n \in RootNames, NEW m \in InnerNames, View(<<n, m>>) # Absent,
                 Top(n) \in DOMAIN watchItems'
          PROVE  \/ Top(n) \in DOMAIN watchItems /\ (watchItems[Top(n)] = <<n>> => watchItems'[Top(n)] = <<n>>)
                 \/ WillEnter("scan", n, m)' /\ ~Polling
      <4>1. Top(n) \in SubDirs
        BY <1>1, <3>2, ListedNames
      <4>2. CASE Top(n) = i
        <5>1. Whole(calls[1], "watch", n)
          BY <1>1, <2>4, <4>1, <4>2 DEF Whole, Here
        <5>2. PICK k \in DOMAIN calls : Whole(calls[k], "scan", n)
          BY <1>1, <5>1 DEF WatchInv
        <5>3. WillEnter("scan", n, m)
          BY <5>2 DEF Whole, WillEnter, Enters, LeftOf
        <5>4. QED
          BY <1>1, <1>4, <1>5, <5>3
      <4>3. CASE Top(n) # i
        BY <2>3, <3>2, <4>3
      <4>4. QED
        BY <4>2, <4>3
    <3>3. QED
      BY <1>4, <2>1, <3>1, <3>2, OnlyCalls
  <2>12. QED
    BY <1>4, <2>6, <2>7, <2>8, <2>9, <2>10, <2>11 DEF IInv
<1>8. QED
  BY <1>6, <1>7

\* Steps of calls that watch nothing.
LEMMA CallStep ==
    ASSUME IInv, Started, UNCHANGED <<userVars, watched, events, watchItems>>, WatchInv', StackInv',
           \A n \in RootNames : Top(n) \in SubDirs /\ WillDo("watch", n) => WillDo("watch", n)'
    PROVE  /\ UserTypes' /\ TreeInv' /\ HeardInv' /\ LastInv' /\ StartInv' /\ TableInv' /\ ItemInv'
<1>1. UNCHANGED <<content, made>>
  BY DEF userVars
<1>2. UserTypes' /\ TreeInv' /\ HeardInv' /\ LastInv'
  BY UserStays DEF IInv, UserTypes
<1>3. StartInv'
  BY StartedStays
<1>4. TableInv'
  BY <1>1, ViewsStay DEF IInv, TableInv
<1>5. ItemInv'
  BY <1>1, ViewsStay, NamesStay DEF IInv, ItemInv
<1>6. QED
  BY <1>2, <1>3, <1>4, <1>5

LEMMA EntryPath ==
    ASSUME UserTypes, TreeInv, StackInv, calls \in Seq(Calls), calls # <<>>,
           NEW n \in Head(calls).todo
    PROVE  LET p == Append(Here, n) IN
           /\ p \in Paths
           /\ \/ Here = <<>> /\ n \in RootNames /\ p = <<n>>
              \/ /\ \E k \in RootNames : Here = <<k>> /\ n \in InnerNames /\ p = <<k, n>>
                 /\ ~IsDirectory(p) /\ Here # <<>>
<1>1. Here \in {<<>>} \cup Tops /\ n \in (IF Here = <<>> THEN RootNames ELSE InnerNames)
  BY HeadCall
<1>2. CASE Here = <<>>
  BY <1>1, <1>2, TopPath
<1>3. CASE Here # <<>>
  <2>1. PICK k \in RootNames : Here = <<k>> /\ n \in InnerNames
    BY <1>1, <1>3 DEF Tops
  <2>2. Append(Here, n) = <<k, n>> /\ <<k, n>> \in Paths
    BY <2>1, InnerPath
  <2>3. Found(<<k, n>>) = IF Top(k) \in SubDirs THEN content[Top(k)][n] ELSE Absent
    BY <2>1, InnerPath
  <2>4. Top(k) \in SubDirs => content[Top(k)][n] \in Entries \ SubDirs
    BY <2>1 DEF UserTypes, TreeInv, Tree, Names, Dirs
  <2>5. ~IsDirectory(<<k, n>>)
    BY <2>3, <2>4, MonitorAssumption DEF IsDirectory, Entries
  <2>6. QED
    BY <1>3, <2>1, <2>2, <2>5
<1>4. QED
  BY <1>2, <1>3

LEMMA WatchEntryKeeps == IInv /\ WatchEntry => IInv'
<1> SUFFICES ASSUME IInv, WatchEntry PROVE IInv'
  OBVIOUS
<1>1. /\ Visits("watch") /\ ~Visits("scan") /\ ~Visits("poll") /\ calls # <<>>
      /\ UserTypes /\ TreeInv /\ StackInv /\ WatchInv /\ calls \in Seq(Calls) /\ MonitorTypes
      /\ Head(calls).op = "watch"
  BY DEF WatchEntry, Visits, CallNow, IInv, MonitorTypes
<1>2. UNCHANGED <<userVars, watched, events, watchItems, snapshots, seen, move, backupVars, content>>
  BY DEF WatchEntry, userVars
<1>3. PICK n \in Head(calls).todo :
        Visited(n, IF IsDirectory(Append(Here, n)) THEN <<Call("watch", Append(Here, n))>> ELSE <<>>)
  BY DEF WatchEntry
<1> DEFINE p == Append(Here, n)
           new == IF IsDirectory(p) THEN <<Call("watch", p)>> ELSE <<>>
<1>4. \/ Here = <<>> /\ n \in RootNames /\ p = <<n>>
      \/ ~IsDirectory(p) /\ Here # <<>>
  BY <1>1, EntryPath
<1>5. Leads(n, new) /\ (IsDirectory(p) => new # <<>>)
  <2>1. <<Call("watch", p)>> # <<>>
    OBVIOUS
  <2>2. QED
    BY <1>1, <1>4, <2>1 DEF Leads
<1>6. Visited(n, new)
  BY <1>3
<1> HIDE DEF p, new
<1>7. /\ calls' \in Seq(Calls) /\ StackInv' /\ WatchInv' /\ (Polling' <=> Polling)
      /\ \A op, k : WillMeet(op, k) =>
           \/ WillMeet(op, k)'
           \/ Visits(op) /\ Here = <<>> /\ k = n
      /\ \A op, k, m : WillEnter(op, k, m) =>
           \/ WillEnter(op, k, m)'
           \/ Visits(op) /\ Here = <<>> /\ k = n /\ new = <<>>
           \/ Visits(op) /\ Here = <<k>> /\ m = n
      /\ \A op, k : WillDo(op, k) =>
           \/ WillDo(op, k)'
           \/ Visits(op) /\ Here = <<>> /\ k = n /\ new = <<>>
  BY <1>1, <1>5, <1>6, VisitedStep
<1>8. CallsGoOn
  BY <1>1, <1>7 DEF CallsGoOn
<1>9. BackupTypes' /\ TopInv' /\ InInv'
  BY <1>2, <1>7, <1>8, OnlyCalls
<1>10. Started
  BY <1>1, FreshCalls DEF IInv, StartInv
<1>11. ASSUME NEW k \in RootNames, Top(k) \in SubDirs, WillDo("watch", k)
       PROVE  WillDo("watch", k)'
  BY <1>1, <1>4, <1>5, <1>7, <1>11, TopFacts
<1>12. UserTypes' /\ TreeInv' /\ HeardInv' /\ LastInv' /\ StartInv' /\ TableInv' /\ ItemInv'
  BY <1>2, <1>7, <1>10, <1>11, CallStep
<1>13. MonitorTypes'
  BY <1>1, <1>2, <1>7 DEF MonitorTypes
<1>14. QED
  BY <1>7, <1>9, <1>12, <1>13 DEF IInv

LEMMA ListDirKeeps == IInv /\ ListDir => IInv'
<1> SUFFICES ASSUME IInv, ListDir PROVE IInv'
  OBVIOUS
<1> DEFINE names == IF IsDirectory(Here) THEN Listed(Found(Here)) ELSE {}
<1>1. /\ (Opens("scan") \/ Opens("poll")) /\ ~Opens("watch")
      /\ UserTypes /\ TreeInv /\ StackInv /\ WatchInv /\ calls \in Seq(Calls) /\ MonitorTypes
  BY DEF ListDir, Opens, CallNow, IInv, MonitorTypes
<1>2. UNCHANGED <<userVars, watched, events, watchItems, snapshots, seen, move, backupVars, content>>
  BY DEF ListDir, userVars
<1>3. Visiting(names) /\ calls # <<>>
  BY DEF ListDir, Opens, CallNow
<1>4. Here \in {<<>>} \cup Tops
  BY <1>1, <1>3, HeadCall
<1>5. /\ names \subseteq IF Here = <<>> THEN RootNames ELSE InnerNames
      /\ Here = <<>> => names = Listed(Root)
      /\ \A k \in RootNames : Here = <<k>> => names = IF Top(k) \in SubDirs THEN Listed(Top(k)) ELSE {}
  <2>1. CASE Here = <<>>
    BY <1>1, <2>1, ListedNames, TopPath
  <2>2. CASE Here # <<>>
    <3>1. PICK k \in RootNames : Here = <<k>>
      BY <1>4, <2>2 DEF Tops
    <3>2. names = IF Top(k) \in SubDirs THEN Listed(Top(k)) ELSE {}
      BY <1>1, <3>1, TopPath, TopFacts
    <3>3. \A j \in RootNames : Here = <<j>> => j = k
      BY <3>1
    <3> HIDE DEF names
    <3>4. QED
      BY <1>1, <2>2, <3>2, <3>3, ListedNames
  <2>3. QED
    BY <2>1, <2>2
<1> HIDE DEF names
<1>6. /\ calls' \in Seq(Calls) /\ StackInv' /\ WatchInv' /\ (Polling' <=> Polling)
      /\ \A op, n : WillMeet(op, n) =>
           \/ WillMeet(op, n)'
           \/ Opens(op) /\ Here = <<>> /\ n \notin names
      /\ \A op, n, m : WillEnter(op, n, m) =>
           \/ WillEnter(op, n, m)'
           \/ Opens(op) /\ Here = <<>> /\ n \notin names
           \/ Opens(op) /\ Here = <<n>> /\ m \notin names
      /\ \A op, n : WillDo(op, n) =>
           \/ WillDo(op, n)'
           \/ Opens(op) /\ Here = <<>> /\ n \notin names
           \/ Opens(op) /\ Here = <<n>>
  BY <1>1, <1>3, <1>5, VisitingStep
<1>7. CallsGoOn
  <2>1. ASSUME NEW n \in RootNames, View(<<n>>) # Absent PROVE Here = <<>> => n \in names
    BY <1>1, <1>5, <2>1, TopFacts
  <2>2. ASSUME NEW n \in RootNames, NEW m \in InnerNames, View(<<n, m>>) # Absent
        PROVE  (Here = <<>> => n \in names) /\ (Here = <<n>> => m \in names)
    BY <1>1, <1>5, <2>1, <2>2, ListedNames
  <2>3. QED
    BY <1>6, <2>1, <2>2 DEF CallsGoOn
<1>8. BackupTypes' /\ TopInv' /\ InInv'
  BY <1>2, <1>6, <1>7, OnlyCalls
<1>9. Started
  BY <1>1, FreshCalls DEF IInv, StartInv
<1>10. UserTypes' /\ TreeInv' /\ HeardInv' /\ LastInv' /\ StartInv' /\ TableInv' /\ ItemInv'
  BY <1>1, <1>2, <1>6, <1>9, CallStep
<1>11. MonitorTypes'
  BY <1>1, <1>2, <1>6 DEF MonitorTypes
<1>12. QED
  BY <1>6, <1>8, <1>10, <1>11 DEF IInv
-----------------------------------------------------------------------------
(* Updates *)

LEMMA ViewTypes ==
    ASSUME UserTypes, TreeInv, NEW p \in Paths
    PROVE  View(p) \in Views /\ Stat(p) \in Stats
<1>1. View(p) \in Views
  <2>1. CASE \E n \in RootNames : p = <<n>>
    BY <2>1, PathViews, TopFacts DEF ViewFacts, Entries, Views
  <2>2. CASE \E n \in RootNames, m \in InnerNames : p = <<n, m>>
    BY <2>2, ListedNames DEF Views
  <2>3. QED
    BY <2>1, <2>2, PathCases
<1>2. QED
  BY <1>1 DEF Stat, StatOf, Stats, Views, Files

LEMMA SentUpdate ==
    ASSUME BackupTypes, NEW p \in Paths, SendUpdate(p)
    PROVE  /\ DOMAIN pending' = DOMAIN pending \cup {p}
           /\ pending'[p] <=> View(p) = Dir
           /\ \A x \in DOMAIN pending : x # p => (pending'[x] <=> pending[x]) /\ pending'[x] = pending[x]
           /\ pending' \in [DOMAIN pending' -> BOOLEAN] /\ DOMAIN pending' \subseteq Paths
           /\ UNCHANGED <<replica, suspect>>
<1> DEFINE D == DOMAIN pending \cup {p}
<1>1. pending' = [x \in D |-> IF x = p THEN View(p) = Dir ELSE pending[x]] /\ UNCHANGED <<replica, suspect>>
  BY DEF SendUpdate
<1>2. pending \in [DOMAIN pending -> BOOLEAN] /\ DOMAIN pending \subseteq Paths
  BY DEF BackupTypes
<1>3. /\ DOMAIN pending' = D
      /\ pending'[p] = (View(p) = Dir)
      /\ \A x \in DOMAIN pending : x # p => pending'[x] = pending[x]
  BY <1>1
<1>4. \A x \in D : pending'[x] \in BOOLEAN
  <2> SUFFICES ASSUME NEW x \in D PROVE pending'[x] \in BOOLEAN
    OBVIOUS
  <2>1. CASE x = p
    BY <1>3, <2>1
  <2>2. CASE x # p
    BY <1>2, <1>3, <2>2
  <2>3. QED
    BY <2>1, <2>2
<1>5. pending' \in [D -> BOOLEAN]
  BY <1>1, <1>3, <1>4
<1>6. QED
  BY <1>1, <1>2, <1>3, <1>5

LEMMA SnapshotFacts ==
    ASSUME MonitorTypes, NEW p \in Paths, Stat(p) \in Stats, Slot(p)
    PROVE  LET t == SnapshotOf(p) IN
           /\ DOMAIN t = DOMAIN snapshots \cup {p} /\ t[p] = Stat(p)
           /\ \A x \in DOMAIN snapshots : x # p => t[x] = snapshots[x]
           /\ t \in [DOMAIN t -> Stats] /\ DOMAIN t \subseteq Paths
           /\ IsFiniteSet(DOMAIN t) /\ Cardinality(DOMAIN t) <= MaxSnapshots
<1> DEFINE D == DOMAIN snapshots
           t == SnapshotOf(p)
<1>1. /\ snapshots \in [D -> Stats] /\ D \subseteq Paths /\ IsFiniteSet(D) /\ Cardinality(D) <= MaxSnapshots
      /\ MaxSnapshots \in Nat /\ Cardinality(D) \in Nat
  BY MonitorAssumption, FS_CardinalityType DEF MonitorTypes
<1>2. IsFiniteSet(D \cup {p}) /\ Cardinality(D \cup {p}) = IF p \in D THEN Cardinality(D) ELSE Cardinality(D) + 1
  BY <1>1, FS_AddElement
<1>3. Cardinality(D \cup {p}) <= MaxSnapshots
  BY <1>1, <1>2 DEF Slot
<1>4. DOMAIN t = D \cup {p} /\ \A x \in D \cup {p} : t[x] = IF x = p THEN Stat(p) ELSE snapshots[x]
  BY DEF SnapshotOf
<1>5. t \in [D \cup {p} -> Stats]
  BY <1>1 DEF SnapshotOf
<1> HIDE DEF t
<1>6. QED
  BY <1>1, <1>2, <1>3, <1>4, <1>5 DEF t

\* The snapshot that is taken with an update, or none.
Snaps(p) ==
    \/ Slot(p) /\ snapshots' = SnapshotOf(p) /\ stale' = stale \ {p}
    \/ UNCHANGED <<snapshots, stale>>

SnapshotTypes ==
    /\ snapshots \in [DOMAIN snapshots -> Stats] /\ DOMAIN snapshots \subseteq Paths
    /\ IsFiniteSet(DOMAIN snapshots) /\ Cardinality(DOMAIN snapshots) <= MaxSnapshots

\* What an update is for is on its way, and the rest as before.
StillComing(p) ==
    /\ \A n \in RootNames :
         /\ Gone(Root, n) => Gone(Root, n)'
         /\ Named(Root, n) => Named(Root, n)' \/ <<n>> = p
         /\ View(<<n>>) # Absent /\ WillMeet("scan", n) => WillMeet("scan", n)' \/ <<n>> = p
    /\ \A n \in RootNames, m \in InnerNames :
         View(<<n, m>>) # Absent /\ Top(n) \in DOMAIN watchItems =>
           /\ Named(Root, n) => Named(Root, n)' \/ WillEnter("scan", n, m)'
           /\ Named(Top(n), m) /\ watchItems[Top(n)] = <<n>> => Named(Top(n), m)' \/ <<n, m>> = p
           /\ WillEnter("scan", n, m) => WillEnter("scan", n, m)' \/ <<n, m>> = p

LEMMA UpdateKeeps ==
    ASSUME IInv, UNCHANGED <<content, watchItems, move>>, NEW p \in Paths, SendUpdate(p), Snaps(p),
           StillComing(p)
    PROVE  /\ BackupTypes' /\ SnapshotTypes'
           /\ \A n \in RootNames : Unlike(n)' /\ Outdated(n)' /\ TopComing(n)'
           /\ \A n \in RootNames, m \in InnerNames : InComing(n, m)' /\ Inner(n, m)' /\ Remembered(n, m)'
<1>1. /\ UserTypes /\ TreeInv /\ MonitorTypes /\ BackupTypes /\ Stat(p) \in Stats
      /\ \A x : View(x)' = View(x)
      /\ \A n : Top(n)' = Top(n)
  BY ViewsStay, ViewTypes DEF IInv
<1>2. /\ DOMAIN pending' = DOMAIN pending \cup {p}
      /\ pending'[p] <=> View(p) = Dir
      /\ \A x \in DOMAIN pending : x # p => (pending'[x] <=> pending[x]) /\ pending'[x] = pending[x]
      /\ pending' \in [DOMAIN pending' -> BOOLEAN] /\ DOMAIN pending' \subseteq Paths
      /\ UNCHANGED <<replica, suspect>>
  BY <1>1, SentUpdate
<1>3. /\ SnapshotTypes' /\ stale' \subseteq Paths
      /\ \A x \in Paths : \/ x = p /\ p \in DOMAIN snapshots'
                          \/ /\ x \in DOMAIN snapshots' <=> x \in DOMAIN snapshots
                             /\ x \in DOMAIN snapshots => snapshots'[x] = snapshots[x]
                             /\ x \in stale => x \in stale'
  <2>1. CASE Slot(p) /\ snapshots' = SnapshotOf(p) /\ stale' = stale \ {p}
    BY <1>1, <2>1, SnapshotFacts DEF SnapshotTypes, BackupTypes
  <2>2. CASE UNCHANGED <<snapshots, stale>>
    BY <1>1, <2>2 DEF SnapshotTypes, BackupTypes, MonitorTypes
  <2>3. QED
    BY <2>1, <2>2 DEF Snaps
<1>4. BackupTypes'
  BY <1>1, <1>2, <1>3 DEF BackupTypes
<1>5. ASSUME NEW n \in RootNames
      PROVE  Unlike(n)' /\ Outdated(n)' /\ TopComing(n)'
  <2>1. /\ Unlike(n) /\ Outdated(n) /\ TopComing(n)
        /\ Gone(Root, n) => Gone(Root, n)'
        /\ Named(Root, n) => Named(Root, n)' \/ <<n>> = p
        /\ View(<<n>>) # Absent /\ WillMeet("scan", n) => WillMeet("scan", n)' \/ <<n>> = p
        /\ Moving(n)' <=> Moving(n)
    BY DEF IInv, TopInv, StillComing, Moving
  <2>2. Unlike(n)'
    BY <1>1, <1>2, <2>1 DEF Unlike
  <2>3. TopComing(n)'
    BY <1>1, <1>2, <2>1 DEF TopComing, InStep
  <2>4. Outdated(n)'
    <3>1. CASE <<n>> = p
      BY <1>1, <1>2, <3>1 DEF Outdated
    <3>2. CASE <<n>> # p
      BY <1>1, <1>2, <2>1, <3>2 DEF Outdated
    <3>3. QED
      BY <3>1, <3>2
  <2>5. QED
    BY <2>2, <2>3, <2>4
<1>6. ASSUME NEW n \in RootNames, NEW m \in InnerNames
      PROVE  InComing(n, m)' /\ Inner(n, m)' /\ Remembered(n, m)'
  <2>1. /\ InComing(n, m) /\ Inner(n, m) /\ Remembered(n, m) /\ <<n, m>> \in Paths
        /\ View(<<n, m>>) # Dir
    BY <1>1, ListedNames, InnerPath, MonitorAssumption DEF IInv, InInv, IsFile
  <2>2. Inner(n, m)'
    BY <1>1, <1>2, <2>1 DEF Inner
  <2>3. InComing(n, m)'
    BY <1>1, <1>2, <2>1 DEF InComing, InStep, StillComing
  <2>4. Remembered(n, m)'
    <3>1. CASE <<n, m>> = p /\ p \in DOMAIN snapshots'
      BY <1>2, <3>1 DEF Remembered
    <3>2. CASE ~(<<n, m>> = p /\ p \in DOMAIN snapshots')
      <4>1. /\ <<n, m>> \in DOMAIN snapshots' <=> <<n, m>> \in DOMAIN snapshots
            /\ <<n, m>> \in DOMAIN snapshots => snapshots'[<<n, m>>] = snapshots[<<n, m>>]
            /\ <<n, m>> \in stale => <<n, m>> \in stale'
        BY <1>3, <2>1, <3>2
      <4>2. Agrees(<<n, m>>) => Agrees(<<n, m>>)'
        BY <1>2, <4>1 DEF Agrees, Known
      <4>3. QED
        BY <1>2, <2>1, <4>1, <4>2 DEF Remembered
    <3>3. QED
      BY <3>1, <3>2
  <2>5. QED
    BY <2>2, <2>3, <2>4
<1>7. QED
  BY <1>3, <1>4, <1>5, <1>6

LEMMA NoUpdateKeeps ==
    ASSUME IInv, UNCHANGED <<content, watchItems, move, events, backupVars, snapshots>>,
           \A n, m : /\ WillMeet("scan", n) => WillMeet("scan", n)'
                     /\ WillEnter("scan", n, m) => WillEnter("scan", n, m)'
    PROVE  /\ BackupTypes' /\ SnapshotTypes'
           /\ \A n \in RootNames : Unlike(n)' /\ Outdated(n)' /\ TopComing(n)'
           /\ \A n \in RootNames, m \in InnerNames : InComing(n, m)' /\ Inner(n, m)' /\ Remembered(n, m)'
<1>1. /\ \A p : View(p)' = View(p)
      /\ \A n : Top(n)' = Top(n)
      /\ \A d, n : (Named(d, n)' <=> Named(d, n)) /\ (Gone(d, n)' <=> Gone(d, n))
      /\ UNCHANGED <<replica, pending, suspect, stale>>
  BY ViewsStay, NamesStay DEF backupVars
<1>2. ASSUME NEW n \in RootNames
      PROVE  Unlike(n)' /\ Outdated(n)' /\ TopComing(n)'
  <2>1. Unlike(n) /\ Outdated(n) /\ TopComing(n)
    BY DEF IInv, TopInv
  <2>2. Unlike(n)' /\ Outdated(n)'
    BY <1>1, <2>1 DEF Unlike, Outdated, Moving
  <2>3. TopComing(n)'
    BY <1>1, <2>1 DEF TopComing, InStep, Moving
  <2>4. QED
    BY <2>2, <2>3
<1>3. ASSUME NEW n \in RootNames, NEW m \in InnerNames
      PROVE  InComing(n, m)' /\ Inner(n, m)' /\ Remembered(n, m)'
  <2>1. InComing(n, m) /\ Inner(n, m) /\ Remembered(n, m)
    BY DEF IInv, InInv
  <2>2. Inner(n, m)' /\ Remembered(n, m)'
    BY <1>1, <2>1 DEF Inner, Remembered, Agrees, Known
  <2>3. InComing(n, m)'
    BY <1>1, <2>1 DEF InComing, InStep
  <2>4. QED
    BY <2>2, <2>3
<1>4. BackupTypes' /\ SnapshotTypes'
  BY <1>1 DEF IInv, BackupTypes, MonitorTypes, SnapshotTypes
<1>5. QED
  BY <1>2, <1>3, <1>4

LEMMA ScanEntryKeeps == IInv /\ ScanEntry => IInv'
<1> SUFFICES ASSUME IInv, ScanEntry PROVE IInv'
  OBVIOUS
<1>1. /\ Visits("scan") /\ ~Visits("watch") /\ ~Visits("poll") /\ calls # <<>>
      /\ UserTypes /\ TreeInv /\ StackInv /\ WatchInv /\ calls \in Seq(Calls) /\ MonitorTypes
      /\ Head(calls).op = "scan"
  BY DEF ScanEntry, Visits, CallNow, IInv, MonitorTypes
<1>2. UNCHANGED <<userVars, watched, events, watchItems, seen, move, content>>
  BY DEF ScanEntry, userVars
<1>3. PICK n \in Head(calls).todo :
        LET p == Append(Here, n) IN
        /\ SendUpdate(p)
        /\ snapshots' = IF Slot(p) THEN SnapshotOf(p) ELSE snapshots
        /\ stale' = IF Slot(p) THEN stale \ {p} ELSE stale
        /\ Visited(n, IF IsDirectory(p) THEN WatchAndScan(p) ELSE <<>>)
  BY DEF ScanEntry
<1> DEFINE p == Append(Here, n)
           new == IF IsDirectory(p) THEN WatchAndScan(p) ELSE <<>>
<1>4. /\ p \in Paths
      /\ \/ Here = <<>> /\ n \in RootNames /\ p = <<n>>
         \/ ~IsDirectory(p) /\ Here # <<>> /\ \E k \in RootNames : Here = <<k>> /\ p = <<k, n>>
  BY <1>1, EntryPath
<1>5. Leads(n, new) /\ (IsDirectory(p) => new # <<>>)
  <2>1. WatchAndScan(p) # <<>>
    BY DEF WatchAndScan
  <2>2. QED
    BY <1>1, <1>4, <2>1 DEF Leads
<1>6. Visited(n, new) /\ SendUpdate(p) /\ Snaps(p)
  BY <1>3 DEF Snaps
<1> HIDE DEF p, new
<1>7. /\ calls' \in Seq(Calls) /\ StackInv' /\ WatchInv' /\ (Polling' <=> Polling)
      /\ \A op, k : WillMeet(op, k) =>
           \/ WillMeet(op, k)'
           \/ Visits(op) /\ Here = <<>> /\ k = n
      /\ \A op, k, m : WillEnter(op, k, m) =>
           \/ WillEnter(op, k, m)'
           \/ Visits(op) /\ Here = <<>> /\ k = n /\ new = <<>>
           \/ Visits(op) /\ Here = <<k>> /\ m = n
      /\ \A op, k : WillDo(op, k) =>
           \/ WillDo(op, k)'
           \/ Visits(op) /\ Here = <<>> /\ k = n /\ new = <<>>
  BY <1>1, <1>5, <1>6, VisitedStep
<1>8. StillComing(p)
  <2>1. \A d, k : (Named(d, k)' <=> Named(d, k)) /\ (Gone(d, k)' <=> Gone(d, k))
    BY <1>2, NamesStay
  <2>2. \A k : Top(k)' = Top(k)
    BY <1>2, ViewsStay
  <2>3. ASSUME NEW k \in RootNames PROVE WillMeet("scan", k) => WillMeet("scan", k)' \/ <<k>> = p
    BY <1>4, <1>7
  <2>4. ASSUME NEW k \in RootNames, NEW m \in InnerNames, View(<<k, m>>) # Absent, WillEnter("scan", k, m)
        PROVE  WillEnter("scan", k, m)' \/ <<k, m>> = p
    <3>1. Top(k) \in SubDirs /\ IsDirectory(<<k>>)
      BY <1>1, <2>4, ListedNames, TopFacts
    <3>2. ASSUME Here = <<>>, k = n PROVE new # <<>>
      BY <1>4, <1>5, <3>1, <3>2
    <3>3. ASSUME Here = <<k>>, m = n PROVE <<k, m>> = p
      <4>1. PICK j \in RootNames : Here = <<j>> /\ p = <<j, n>>
        BY <1>4, <3>3
      <4>2. j = k
        BY <3>3, <4>1
      <4>3. QED
        BY <3>3, <4>1, <4>2
    <3>4. QED
      BY <1>7, <2>4, <3>2, <3>3
  <2>5. QED
    BY <1>2, <2>1, <2>2, <2>3, <2>4 DEF StillComing
<1>9. /\ BackupTypes' /\ SnapshotTypes'
      /\ \A k \in RootNames : Unlike(k)' /\ Outdated(k)' /\ TopComing(k)'
      /\ \A k \in RootNames, m \in InnerNames : InComing(k, m)' /\ Inner(k, m)' /\ Remembered(k, m)'
  BY <1>2, <1>4, <1>6, <1>8, UpdateKeeps
<1>10. ~Polling'
  <2>1. Head(calls) = calls[1] /\ 1 \in DOMAIN calls
    BY <1>1
  <2>2. QED
    BY <1>1, <1>7, <2>1 DEF StackInv
<1>11. TopInv' /\ InInv'
  BY <1>9, <1>10 DEF TopInv, InInv, TopPolled, InPolled
<1>12. Started
  BY <1>1, FreshCalls DEF IInv, StartInv
<1>13. UserTypes' /\ TreeInv' /\ HeardInv' /\ LastInv' /\ StartInv' /\ TableInv' /\ ItemInv'
  BY <1>1, <1>2, <1>7, <1>12, CallStep
<1>14. MonitorTypes'
  BY <1>1, <1>2, <1>7, <1>9 DEF MonitorTypes, SnapshotTypes
<1>15. QED
  BY <1>7, <1>9, <1>11, <1>13, <1>14 DEF IInv

LEMMA PollEntryKeeps == IInv /\ PollEntry => IInv'
<1> SUFFICES ASSUME IInv, PollEntry PROVE IInv'
  OBVIOUS
<1>1. /\ Visits("poll") /\ ~Visits("watch") /\ ~Visits("scan") /\ calls # <<>>
      /\ UserTypes /\ TreeInv /\ StackInv /\ WatchInv /\ calls \in Seq(Calls) /\ MonitorTypes
      /\ Head(calls).op = "poll"
  BY DEF PollEntry, Visits, CallNow, IInv, MonitorTypes
<1>2. UNCHANGED <<userVars, watched, events, watchItems, move, content>>
  BY DEF PollEntry, userVars
<1>3. PICK n \in Head(calls).todo :
        LET p == Append(Here, n) IN
        /\ IF PollEmits(p)
           THEN SendUpdate(p) /\ snapshots' = SnapshotOf(p) /\ stale' = stale \ {p}
           ELSE UNCHANGED <<backupVars, snapshots>>
        /\ seen' = SeenNow(p)
        /\ Visited(n, IF IsDirectory(p) THEN <<Call("poll", p)>> ELSE <<>>)
  BY DEF PollEntry
<1> DEFINE p == Append(Here, n)
           new == IF IsDirectory(p) THEN <<Call("poll", p)>> ELSE <<>>
<1>4. /\ p \in Paths
      /\ \/ Here = <<>> /\ n \in RootNames /\ p = <<n>>
         \/ ~IsDirectory(p) /\ Here # <<>> /\ \E k \in RootNames : Here = <<k>> /\ p = <<k, n>>
  BY <1>1, EntryPath
<1>5. Leads(n, new) /\ (IsDirectory(p) => new # <<>>)
  <2>1. <<Call("poll", p)>> # <<>>
    OBVIOUS
  <2>2. QED
    BY <1>1, <1>4, <2>1 DEF Leads
<1>6. Visited(n, new)
  BY <1>3
<1>7. /\ seen' = SeenNow(p)
      /\ IF PollEmits(p)
         THEN SendUpdate(p) /\ snapshots' = SnapshotOf(p) /\ stale' = stale \ {p}
         ELSE UNCHANGED <<backupVars, snapshots>>
      /\ PollEmits(p) => Slot(p)
  BY <1>3 DEF PollEmits, Slot
<1> HIDE DEF p, new
<1>8. /\ calls' \in Seq(Calls) /\ StackInv' /\ WatchInv' /\ (Polling' <=> Polling)
      /\ \A op, k : WillMeet(op, k) =>
           \/ WillMeet(op, k)'
           \/ Visits(op) /\ Here = <<>> /\ k = n
      /\ \A op, k, m : WillEnter(op, k, m) =>
           \/ WillEnter(op, k, m)'
           \/ Visits(op) /\ Here = <<>> /\ k = n /\ new = <<>>
           \/ Visits(op) /\ Here = <<k>> /\ m = n
      /\ \A op, k : WillDo(op, k) =>
           \/ WillDo(op, k)'
           \/ Visits(op) /\ Here = <<>> /\ k = n /\ new = <<>>
  BY <1>1, <1>5, <1>6, VisitedStep
<1>9. /\ \A d, k : (Named(d, k)' <=> Named(d, k)) /\ (Gone(d, k)' <=> Gone(d, k))
      /\ \A k : Top(k)' = Top(k)
      /\ \A x : View(x)' = View(x)
  BY <1>2, NamesStay, ViewsStay
<1>10. /\ BackupTypes' /\ SnapshotTypes'
       /\ \A k \in RootNames : Unlike(k)' /\ Outdated(k)' /\ TopComing(k)'
       /\ \A k \in RootNames, m \in InnerNames : InComing(k, m)' /\ Inner(k, m)' /\ Remembered(k, m)'
  <2>1. CASE PollEmits(p)
    <3>1. SendUpdate(p) /\ Snaps(p)
      BY <1>7, <2>1 DEF Snaps
    <3>2. StillComing(p)
      BY <1>1, <1>2, <1>8, <1>9 DEF StillComing
    <3>3. QED
      BY <1>2, <1>4, <3>1, <3>2, UpdateKeeps
  <2>2. CASE ~PollEmits(p)
    BY <1>1, <1>2, <1>7, <1>8, <2>2, NoUpdateKeeps
  <2>3. QED
    BY <2>1, <2>2
<1>11. /\ seen \subseteq seen' /\ seen' \subseteq Paths
       /\ p \in DOMAIN snapshots' => p \in seen'
       /\ \A x \in DOMAIN snapshots' : x # p => x \in DOMAIN snapshots
  <2>1. Slot(p) => p \in seen'
    BY <1>7 DEF SeenNow
  <2>2. CASE PollEmits(p)
    BY <1>1, <1>4, <1>7, <2>1, <2>2 DEF SeenNow, SnapshotOf, MonitorTypes
  <2>3. CASE ~PollEmits(p)
    BY <1>1, <1>4, <1>7, <2>1, <2>3 DEF SeenNow, Slot, MonitorTypes
  <2>4. QED
    BY <2>2, <2>3
<1>12. ASSUME NEW k \in RootNames PROVE TopPolled(k)'
  <2>1. TopPolled(k)
    BY DEF IInv, TopInv
  <2>2. WillMeet("poll", k) => WillMeet("poll", k)' \/ <<k>> = p
    BY <1>4, <1>8
  <2>3. QED
    BY <1>8, <1>9, <1>11, <2>1, <2>2 DEF TopPolled
<1>13. ASSUME NEW k \in RootNames, NEW m \in InnerNames PROVE InPolled(k, m)'
  <2>1. InPolled(k, m)
    BY DEF IInv, InInv
  <2>2. ASSUME View(<<k, m>>) # Absent, WillEnter("poll", k, m)
        PROVE  WillEnter("poll", k, m)' \/ <<k, m>> = p
    <3>1. Top(k) \in SubDirs /\ IsDirectory(<<k>>)
      BY <1>1, <2>2, ListedNames, TopFacts
    <3>2. ASSUME Here = <<>>, k = n PROVE new # <<>>
      BY <1>4, <1>5, <3>1, <3>2
    <3>3. ASSUME Here = <<k>>, m = n PROVE <<k, m>> = p
      <4>1. PICK j \in RootNames : Here = <<j>> /\ p = <<j, n>>
        BY <1>4, <3>3
      <4>2. j = k
        BY <3>3, <4>1
      <4>3. QED
        BY <3>3, <4>1, <4>2
    <3>4. QED
      BY <1>8, <2>2, <3>2, <3>3
  <2>3. QED
    BY <1>2, <1>8, <1>9, <1>11, <2>1, <2>2 DEF InPolled
<1>14. TopInv' /\ InInv'
  BY <1>10, <1>12, <1>13 DEF TopInv, InInv
<1>15. Started
  BY <1>1, FreshCalls DEF IInv, StartInv
<1>16. UserTypes' /\ TreeInv' /\ HeardInv' /\ LastInv' /\ StartInv' /\ TableInv' /\ ItemInv'
  BY <1>1, <1>2, <1>8, <1>15, CallStep
<1>17. MonitorTypes'
  BY <1>1, <1>2, <1>8, <1>10, <1>11 DEF MonitorTypes, SnapshotTypes
<1>18. QED
  BY <1>8, <1>10, <1>14, <1>16, <1>17 DEF IInv
-----------------------------------------------------------------------------
(* What tasks do *)

LEMMA WaitingFacts ==
    ASSUME BackupTypes, NEW S, pending' = Waiting(DOMAIN pending \ S)
    PROVE  /\ DOMAIN pending' = DOMAIN pending \ S
           /\ \A x \in DOMAIN pending \ S : pending'[x] = pending[x] /\ (pending'[x] <=> pending[x])
           /\ pending' \in [DOMAIN pending' -> BOOLEAN] /\ DOMAIN pending' \subseteq Paths
<1>1. pending' = [x \in DOMAIN pending \ S |-> pending[x]]
  BY DEF Waiting
<1>2. pending \in [DOMAIN pending -> BOOLEAN] /\ DOMAIN pending \subseteq Paths
  BY DEF BackupTypes
<1>3. DOMAIN pending' = DOMAIN pending \ S /\ \A x \in DOMAIN pending \ S : pending'[x] = pending[x]
  BY <1>1
<1>4. pending' \in [DOMAIN pending \ S -> BOOLEAN]
  BY <1>1, <1>2
<1>5. QED
  BY <1>2, <1>3, <1>4

\* A file or directory of Root is done unless something else is in its place.
LEMMA UpdatedTop ==
    ASSUME NEW n \in RootNames, View(<<n>>) \in Views, NEW r \in [Paths -> Views], NEW dir
    PROVE  LET u == Updated(r, <<n>>, dir) IN
           /\ u \in [Paths -> Views]
           /\ \A x \in Paths : x # <<n>> => u[x] = r[x]
           /\ u[<<n>>] = IF dir THEN IF r[<<n>>] = Absent THEN Dir ELSE r[<<n>>]
                         ELSE IF IsFile(View(<<n>>)) /\ r[<<n>>] # Dir THEN View(<<n>>) ELSE r[<<n>>]
<1> DEFINE p == <<n>>
<1>1. p \in Paths /\ Parent(p) = <<>> /\ p # <<>>
  BY TopPath
<1> HIDE DEF p
<1>2. WithDir(r, Parent(p)) = r /\ InDir(r, p) /\ WithDir(r, p) = IF r[p] = Absent THEN [r EXCEPT ![p] = Dir] ELSE r
  BY <1>1 DEF WithDir, InDir
<1>3. CASE dir
  BY <1>1, <1>2, <1>3 DEF Updated, Views, p
<1>4. CASE ~dir /\ IsFile(View(p)) /\ r[p] # Dir
  BY <1>1, <1>2, <1>4 DEF Updated, Views, p
<1>5. CASE ~dir /\ ~(IsFile(View(p)) /\ r[p] # Dir)
  BY <1>1, <1>2, <1>5 DEF Updated, Views, p
<1>6. QED
  BY <1>3, <1>4, <1>5 DEF p

\* A file in a directory is done with the directory, unless something else is in the place of either.
LEMMA UpdatedIn ==
    ASSUME NEW n \in RootNames, NEW m \in InnerNames, View(<<n, m>>) \in Views,
           NEW r \in [Paths -> Views], NEW dir, ~dir
    PROVE  LET u == Updated(r, <<n, m>>, dir)
               does == IsFile(View(<<n, m>>)) /\ r[<<n, m>>] # Dir /\ r[<<n>>] \in {Absent, Dir} IN
           /\ u \in [Paths -> Views]
           /\ \A x \in Paths : x \notin {<<n>>, <<n, m>>} => u[x] = r[x]
           /\ u[<<n>>] = IF does THEN Dir ELSE r[<<n>>]
           /\ u[<<n, m>>] = IF does THEN View(<<n, m>>) ELSE r[<<n, m>>]
<1> DEFINE p == <<n, m>>
           q == <<n>>
           does == IsFile(View(p)) /\ r[p] # Dir /\ r[q] \in {Absent, Dir}
           in == WithDir(r, q)
<1>1. p \in Paths /\ q \in Paths /\ Parent(p) = q /\ q # <<>> /\ p # q
  BY TopPath, InnerPath, PathsDiffer
<1> HIDE DEF p, q
<1>2. /\ in \in [Paths -> Views] /\ in[q] = IF r[q] = Absent THEN Dir ELSE r[q]
      /\ \A x \in Paths : x # q => in[x] = r[x]
  <2>1. CASE r[q] = Absent
    BY <1>1, <2>1 DEF WithDir, Views
  <2>2. CASE r[q] # Absent
    BY <1>1, <2>2 DEF WithDir
  <2>3. QED
    BY <2>1, <2>2
<1> HIDE DEF in
<1>3. InDir(in, p) <=> r[q] \in {Absent, Dir}
  BY <1>1, <1>2, MonitorAssumption DEF InDir
<1>4. CASE does
  <2>1. Updated(r, p, dir) = [in EXCEPT ![p] = View(p)]
    BY <1>1, <1>3, <1>4 DEF Updated, in
  <2>2. QED
    BY <1>1, <1>2, <1>4, <2>1 DEF p, q
<1>5. CASE ~does
  <2>1. Updated(r, p, dir) = r
    BY <1>1, <1>3, <1>5 DEF Updated, in
  <2>2. QED
    BY <1>1, <1>5, <2>1 DEF p, q
<1>6. QED
  BY <1>4, <1>5

\* What a task may change for a file in a directory, such that what the poll knows stays.
LEMMA StillRemembered ==
    ASSUME NEW n \in RootNames, NEW m \in InnerNames, Remembered(n, m), <<n, m>> \in Paths,
           replica'[<<n, m>>] = replica[<<n, m>>],
           IsFile(replica[<<n>>]) => IsFile(replica'[<<n>>]),
           \/ <<n, m>> \notin DOMAIN snapshots /\ <<n, m>> \notin DOMAIN snapshots'
           \/ /\ <<n, m>> \in DOMAIN snapshots /\ <<n, m>> \in DOMAIN snapshots'
              /\ snapshots'[<<n, m>>] = snapshots[<<n, m>>],
           <<n, m>> \in DOMAIN pending => <<n, m>> \in DOMAIN pending',
           <<n, m>> \in stale => Agrees(<<n, m>>)' \/ <<n, m>> \in stale'
    PROVE  Remembered(n, m)'
<1>1. Agrees(<<n, m>>) => Agrees(<<n, m>>)'
  BY DEF Agrees, Known
<1>2. QED
  BY <1>1 DEF Remembered

LEMMA FlushTypes ==
    ASSUME IInv, NEW p \in Paths, Flush(p)
    PROVE  /\ UNCHANGED <<userVars, watched, events, watchItems, snapshots, seen, move, calls, content>>
           /\ p \in DOMAIN pending /\ pending[p] \in BOOLEAN /\ replica' = Updated(replica, p, pending[p])
           /\ replica \in [Paths -> Views] /\ View(p) \in Views
           /\ \A x \in Paths : x \in suspect => x \in suspect' \/ (x = p /\ replica'[x] = View(x))
           /\ suspect' \subseteq suspect
           /\ \A x \in Paths : x \in stale => Agrees(x)' \/ x \in stale'
           /\ Known(p) # Stat(p) => Agrees(p)' \/ p \in stale'
           /\ DOMAIN pending' = DOMAIN pending \ {p}
           /\ \A x \in DOMAIN pending \ {p} : pending'[x] = pending[x] /\ (pending'[x] <=> pending[x])
           /\ pending' \in [DOMAIN pending' -> BOOLEAN] /\ DOMAIN pending' \subseteq Paths
           /\ stale' \subseteq Paths
           /\ \A x : View(x)' = View(x)
           /\ \A n : Top(n)' = Top(n)
           /\ \A d, n : (Named(d, n)' <=> Named(d, n)) /\ (Gone(d, n)' <=> Gone(d, n))
           /\ \A n : Moving(n)' <=> Moving(n)
           /\ \A op, n : WillMeet(op, n)' <=> WillMeet(op, n)
           /\ \A op, n, m : WillEnter(op, n, m)' <=> WillEnter(op, n, m)
           /\ Polling' <=> Polling
<1>1. /\ UNCHANGED <<userVars, watched, events, watchItems, snapshots, seen, move, calls, content>>
      /\ p \in DOMAIN pending /\ replica' = Updated(replica, p, pending[p])
      /\ pending' = Waiting(DOMAIN pending \ {p})
      /\ suspect' = IF replica'[p] = View(p) THEN suspect \ {p} ELSE suspect
      /\ stale' = Astray(IF Known(p) = Stat(p) THEN {} ELSE {p})
  BY DEF Flush, userVars
<1>2. pending[p] \in BOOLEAN /\ replica \in [Paths -> Views] /\ View(p) \in Views
  BY <1>1, ViewTypes DEF IInv, BackupTypes
<1>3. /\ \A x \in Paths : x \in suspect => x \in suspect' \/ (x = p /\ replica'[x] = View(x))
      /\ suspect' \subseteq suspect
  BY <1>1
<1>4. /\ \A x \in Paths : x \in stale => Agrees(x)' \/ x \in stale'
      /\ Known(p) # Stat(p) => Agrees(p)' \/ p \in stale'
      /\ stale' \subseteq Paths
  BY <1>1 DEF Astray
<1>5. /\ DOMAIN pending' = DOMAIN pending \ {p}
      /\ \A x \in DOMAIN pending \ {p} : pending'[x] = pending[x] /\ (pending'[x] <=> pending[x])
      /\ pending' \in [DOMAIN pending' -> BOOLEAN] /\ DOMAIN pending' \subseteq Paths
  BY <1>1, WaitingFacts DEF IInv
<1>6. /\ \A x : View(x)' = View(x)
      /\ \A n : Top(n)' = Top(n)
      /\ \A d, n : (Named(d, n)' <=> Named(d, n)) /\ (Gone(d, n)' <=> Gone(d, n))
  BY <1>1, ViewsStay, NamesStay
<1>7. /\ \A n : Moving(n)' <=> Moving(n)
      /\ \A op, n : WillMeet(op, n)' <=> WillMeet(op, n)
      /\ \A op, n, m : WillEnter(op, n, m)' <=> WillEnter(op, n, m)
      /\ Polling' <=> Polling
  BY <1>1 DEF Moving, WillMeet, WillEnter, Meets, Enters, LeftOf, Polling
<1>8. QED
  BY <1>1, <1>2, <1>3, <1>4, <1>5, <1>6, <1>7

LEMMA FlushTop ==
    ASSUME IInv, NEW k \in RootNames, <<k>> \in Paths, Flush(<<k>>)
    PROVE  /\ replica' \in [Paths -> Views]
           /\ \A n \in RootNames : Unlike(n)' /\ Outdated(n)' /\ TopComing(n)'
           /\ \A n \in RootNames, m \in InnerNames : InComing(n, m)' /\ Inner(n, m)' /\ Remembered(n, m)'
<1> DEFINE p == <<k>>
<1>1. /\ UNCHANGED <<userVars, watched, events, watchItems, snapshots, seen, move, calls, content>>
      /\ p \in DOMAIN pending /\ pending[p] \in BOOLEAN /\ replica' = Updated(replica, p, pending[p])
      /\ replica \in [Paths -> Views] /\ View(p) \in Views
      /\ \A x \in Paths : x \in suspect => x \in suspect' \/ (x = p /\ replica'[x] = View(x))
      /\ \A x \in Paths : x \in stale => Agrees(x)' \/ x \in stale'
      /\ DOMAIN pending' = DOMAIN pending \ {p}
      /\ \A x \in DOMAIN pending \ {p} : pending'[x] = pending[x] /\ (pending'[x] <=> pending[x])
      /\ \A x : View(x)' = View(x)
      /\ \A n : Top(n)' = Top(n)
      /\ \A d, n : (Named(d, n)' <=> Named(d, n)) /\ (Gone(d, n)' <=> Gone(d, n))
      /\ \A n : Moving(n)' <=> Moving(n)
      /\ \A op, n : WillMeet(op, n)' <=> WillMeet(op, n)
      /\ \A op, n, m : WillEnter(op, n, m)' <=> WillEnter(op, n, m)
  BY FlushTypes
<1>2. /\ replica' \in [Paths -> Views]
      /\ \A x \in Paths : x # p => replica'[x] = replica[x]
      /\ replica'[p] = IF pending[p] THEN IF replica[p] = Absent THEN Dir ELSE replica[p]
                       ELSE IF IsFile(View(p)) /\ replica[p] # Dir THEN View(p) ELSE replica[p]
  <2> DEFINE d == pending[p]
             u == Updated(replica, p, d)
  <2>1. replica' = u /\ replica \in [Paths -> Views] /\ View(p) \in Views
    BY <1>1
  <2> HIDE DEF d
  <2>2. /\ u \in [Paths -> Views]
        /\ \A x \in Paths : x # p => u[x] = replica[x]
        /\ u[p] = IF d THEN IF replica[p] = Absent THEN Dir ELSE replica[p]
                  ELSE IF IsFile(View(p)) /\ replica[p] # Dir THEN View(p) ELSE replica[p]
    BY <2>1, UpdatedTop
  <2> HIDE DEF u
  <2>3. QED
    BY <2>1, <2>2 DEF d
<1>3. ASSUME NEW n \in RootNames, n # k
      PROVE  Unlike(n)' /\ Outdated(n)' /\ TopComing(n)'
  <2>1. <<n>> \in Paths /\ <<n>> # p
    BY <1>3, TopPath, PathsDiffer
  <2>2. replica'[<<n>>] = replica[<<n>>] /\ (<<n>> \in suspect => <<n>> \in suspect')
    BY <1>1, <1>2, <2>1
  <2>3. Unlike(n) /\ Outdated(n) /\ TopComing(n)
    BY DEF IInv, TopInv
  <2>4. Unlike(n)' /\ TopComing(n)'
    BY <1>1, <2>1, <2>2, <2>3 DEF Unlike, TopComing, InStep
  <2>5. Outdated(n)'
    BY <1>1, <2>1, <2>2, <2>3 DEF Outdated
  <2>6. QED
    BY <2>4, <2>5
<1>4. Unlike(k) /\ Outdated(k) /\ TopComing(k)
  BY DEF IInv, TopInv
<1>5. Gone(Root, k) => Named(Root, k)
  BY DEF Gone, Named
<1>6. Unlike(k)' /\ TopComing(k)' /\ Outdated(k)'
  <2>1. Outdated(k)'
    BY <1>1 DEF Outdated
  <2>2. View(p) = Dir \/ View(p) = Absent \/ IsFile(View(p))
    BY <1>1, MonitorAssumption DEF Views, IsFile
  <2>3. replica[p] = Dir \/ replica[p] = Absent \/ IsFile(replica[p])
    BY <1>1, MonitorAssumption DEF Views, IsFile
  <2>4. Unlike(k)'
    <3>1. CASE pending[p]
      BY <1>1, <1>2, <1>4, <2>3, <3>1, MonitorAssumption DEF Unlike, Outdated, SameKind, IsFile
    <3>2. CASE ~pending[p]
      BY <1>1, <1>2, <1>4, <2>3, <3>2, MonitorAssumption DEF Unlike, SameKind, IsFile
    <3>3. QED
      BY <3>1, <3>2
  <2>5. TopComing(k)'
    <3>1. CASE View(p) = Absent
      BY <1>1, <3>1 DEF TopComing
    <3>2. CASE View(p) = Dir
      BY <1>1, <1>2, <1>4, <1>5, <2>3, <3>2, MonitorAssumption DEF TopComing, Unlike, Outdated, SameKind, IsFile, InStep
    <3>3. CASE IsFile(View(p))
      BY <1>1, <1>2, <1>4, <1>5, <2>3, <3>3, MonitorAssumption DEF TopComing, Unlike, Outdated, SameKind, IsFile, InStep
    <3>4. QED
      BY <2>2, <3>1, <3>2, <3>3
  <2>6. QED
    BY <2>1, <2>4, <2>5
<1>7. /\ IsFile(replica[p]) => IsFile(replica'[p])
      /\ replica[p] = Dir => replica'[p] = Dir
  BY <1>2, MonitorAssumption DEF IsFile
<1>8. ASSUME NEW n \in RootNames, NEW m \in InnerNames
      PROVE  InComing(n, m)' /\ Inner(n, m)' /\ Remembered(n, m)'
  <2>1. <<n, m>> \in Paths /\ <<n>> \in Paths /\ <<n, m>> # p
    BY TopPath, InnerPath, PathsDiffer
  <2>2. /\ replica'[<<n, m>>] = replica[<<n, m>>]
        /\ <<n, m>> \in suspect => <<n, m>> \in suspect'
        /\ <<n, m>> \in DOMAIN pending => <<n, m>> \in DOMAIN pending' /\ (pending'[<<n, m>>] <=> pending[<<n, m>>])
        /\ <<n, m>> \in DOMAIN pending' => <<n, m>> \in DOMAIN pending
        /\ IsFile(replica[<<n>>]) => IsFile(replica'[<<n>>])
        /\ replica[<<n>>] = Dir => replica'[<<n>>] = Dir
    BY <1>1, <1>2, <1>7, <2>1
  <2>3. InComing(n, m) /\ Inner(n, m) /\ Remembered(n, m)
    BY DEF IInv, InInv
  <2>4. InComing(n, m)'
    BY <1>1, <2>2, <2>3 DEF InComing, InStep
  <2>5. Inner(n, m)'
    BY <2>2, <2>3 DEF Inner
  <2>6. Remembered(n, m)'
    BY <1>1, <2>1, <2>2, <2>3, StillRemembered
  <2>7. QED
    BY <2>4, <2>5, <2>6
<1>9. QED
  BY <1>2, <1>3, <1>6, <1>8

LEMMA FlushIn ==
    ASSUME IInv, NEW k \in RootNames, NEW l \in InnerNames, <<k, l>> \in Paths, Flush(<<k, l>>)
    PROVE  /\ replica' \in [Paths -> Views]
           /\ \A n \in RootNames : Unlike(n)' /\ Outdated(n)' /\ TopComing(n)'
           /\ \A n \in RootNames, m \in InnerNames : InComing(n, m)' /\ Inner(n, m)' /\ Remembered(n, m)'
<1> DEFINE p == <<k, l>>
           q == <<k>>
           does == IsFile(View(p)) /\ replica[p] # Dir /\ replica[q] \in {Absent, Dir}
<1>1. /\ UNCHANGED <<userVars, watched, events, watchItems, snapshots, seen, move, calls, content>>
      /\ p \in DOMAIN pending /\ pending[p] \in BOOLEAN /\ replica' = Updated(replica, p, pending[p])
      /\ replica \in [Paths -> Views] /\ View(p) \in Views
      /\ \A x \in Paths : x \in suspect => x \in suspect' \/ (x = p /\ replica'[x] = View(x))
      /\ \A x \in Paths : x \in stale => Agrees(x)' \/ x \in stale'
      /\ Known(p) # Stat(p) => Agrees(p)' \/ p \in stale'
      /\ DOMAIN pending' = DOMAIN pending \ {p}
      /\ \A x \in DOMAIN pending \ {p} : pending'[x] = pending[x] /\ (pending'[x] <=> pending[x])
      /\ \A x : View(x)' = View(x)
      /\ \A n : Top(n)' = Top(n)
      /\ \A d, n : (Named(d, n)' <=> Named(d, n)) /\ (Gone(d, n)' <=> Gone(d, n))
      /\ \A n : Moving(n)' <=> Moving(n)
      /\ \A op, n : WillMeet(op, n)' <=> WillMeet(op, n)
      /\ \A op, n, m : WillEnter(op, n, m)' <=> WillEnter(op, n, m)
  BY FlushTypes
<1>2. InComing(k, l) /\ Inner(k, l) /\ Remembered(k, l) /\ Unlike(k) /\ Outdated(k) /\ TopComing(k)
  BY DEF IInv, InInv, TopInv
<1>3. /\ replica' \in [Paths -> Views]
      /\ \A x \in Paths : x \notin {q, p} => replica'[x] = replica[x]
      /\ replica'[q] = IF does THEN Dir ELSE replica[q]
      /\ replica'[p] = IF does THEN View(p) ELSE replica[p]
  <2> DEFINE d == pending[p]
             u == Updated(replica, p, d)
  <2>1. replica' = u /\ replica \in [Paths -> Views] /\ View(p) \in Views /\ ~d
    BY <1>1, <1>2 DEF Inner
  <2> HIDE DEF d
  <2>2. /\ u \in [Paths -> Views]
        /\ \A x \in Paths : x \notin {q, p} => u[x] = replica[x]
        /\ u[q] = IF does THEN Dir ELSE replica[q]
        /\ u[p] = IF does THEN View(p) ELSE replica[p]
    BY <2>1, UpdatedIn
  <2> HIDE DEF u
  <2>3. QED
    BY <2>1, <2>2
<1>4. /\ IsFile(View(p)) \/ View(p) = Absent
      /\ View(p) # Absent => View(q) = Dir /\ View(q) # Absent
      /\ View(p) # Dir /\ p \in Paths /\ q \in Paths /\ p # q /\ ~IsFile(Dir) /\ ~IsFile(Absent) /\ Dir # Absent
  <2>1. UserTypes /\ TreeInv
    BY DEF IInv
  <2>2. QED
    BY <2>1, ListedNames, TopPath, InnerPath, PathsDiffer, MonitorAssumption DEF IsFile
<1>5. replica[p] = Dir \/ replica[p] = Absent \/ IsFile(replica[p])
  BY <1>1, <1>4, MonitorAssumption DEF Views, IsFile
<1>6. replica[q] = Dir \/ replica[q] = Absent \/ IsFile(replica[q])
  BY <1>1, <1>4, MonitorAssumption DEF Views, IsFile
<1>7. /\ IsFile(replica[q]) => IsFile(replica'[q])
      /\ replica[q] = Dir => replica'[q] = Dir
      /\ replica'[q] = replica[q] \/ (replica'[q] = View(q) /\ View(q) = Dir)
  BY <1>3, <1>4
<1> HIDE DEF p, q
<1>8. ASSUME NEW n \in RootNames
      PROVE  Unlike(n)' /\ Outdated(n)' /\ TopComing(n)'
  <2>1. <<n>> \in Paths /\ <<n>> # p /\ (<<n>> = q <=> n = k)
    BY TopPath, PathsDiffer DEF p, q
  <2>2. replica'[<<n>>] = replica[<<n>>] \/ replica'[<<n>>] = View(<<n>>)
    BY <1>3, <1>7, <2>1 DEF q
  <2>3. /\ Unlike(n) /\ Outdated(n) /\ TopComing(n)
        /\ <<n>> \in suspect => <<n>> \in suspect'
    BY <1>1, <2>1 DEF IInv, TopInv, p
  <2>4. Unlike(n)' /\ TopComing(n)'
    BY <1>1, <2>1, <2>2, <2>3 DEF Unlike, TopComing, InStep, SameKind, p
  <2>5. Outdated(n)'
    BY <1>1, <2>1, <2>3 DEF Outdated, p
  <2>6. QED
    BY <2>4, <2>5
<1>9. ASSUME NEW n \in RootNames, NEW m \in InnerNames, <<n, m>> # p
      PROVE  InComing(n, m)' /\ Inner(n, m)' /\ Remembered(n, m)'
  <2>1. <<n, m>> \in Paths /\ <<n>> \in Paths /\ <<n, m>> # q /\ <<n>> # p
    BY TopPath, InnerPath, PathsDiffer DEF p, q
  <2>2. /\ replica'[<<n, m>>] = replica[<<n, m>>]
        /\ <<n, m>> \in suspect => <<n, m>> \in suspect'
        /\ <<n, m>> \in DOMAIN pending => <<n, m>> \in DOMAIN pending' /\ (pending'[<<n, m>>] <=> pending[<<n, m>>])
        /\ <<n, m>> \in DOMAIN pending' => <<n, m>> \in DOMAIN pending
        /\ IsFile(replica[<<n>>]) => IsFile(replica'[<<n>>])
        /\ replica[<<n>>] = Dir => replica'[<<n>>] = Dir
    BY <1>1, <1>3, <1>7, <1>9, <2>1 DEF p
  <2>3. InComing(n, m) /\ Inner(n, m) /\ Remembered(n, m)
    BY DEF IInv, InInv
  <2>4. InComing(n, m)'
    BY <1>1, <2>2, <2>3 DEF InComing, InStep
  <2>5. Inner(n, m)'
    BY <2>2, <2>3 DEF Inner
  <2>6. Remembered(n, m)'
    BY <1>1, <2>1, <2>2, <2>3, StillRemembered
  <2>7. QED
    BY <2>4, <2>5, <2>6
<1>10. Inner(k, l)'
  <2>1. replica'[p] = Dir => p \in suspect'
    BY <1>1, <1>2, <1>3, <1>4 DEF Inner, p
  <2>2. replica'[p] # Absent => replica'[q] = Dir
    BY <1>2, <1>3, <1>4, <1>7 DEF Inner, p, q
  <2>3. QED
    BY <1>1, <2>1, <2>2 DEF Inner, p, q
<1>11. InComing(k, l)'
  <2> SUFFICES ASSUME View(p) # Absent
               PROVE  InStep(p)' \/ p \in suspect' \/ IsFile(replica'[q])
    BY <1>1 DEF InComing, p, q
  <2>1. CASE does
    BY <1>1, <1>3, <2>1 DEF InStep, p
  <2>2. CASE ~does /\ replica[p] = Dir
    BY <1>1, <1>2, <1>3, <1>4, <2>2 DEF Inner, p
  <2>3. CASE ~does /\ replica[p] # Dir
    BY <1>3, <1>4, <1>6, <2>3
  <2>4. QED
    BY <2>1, <2>2, <2>3
<1>12. Remembered(k, l)'
  <2>1. CASE Known(p) # Stat(p)
    BY <1>1, <2>1 DEF Remembered, p
  <2>2. CASE Known(p) = Stat(p) /\ does
    <3>1. StatOf(replica'[p]) = Stat(p)
      BY <1>3, <2>2 DEF Stat
    <3>2. Agrees(p)'
      BY <1>1, <2>2, <3>1 DEF Agrees, Known, p
    <3>3. QED
      BY <3>2 DEF Remembered, p
  <2>3. CASE Known(p) = Stat(p) /\ ~does
    <3>1. replica'[p] = replica[p] /\ replica'[q] = replica[q]
      BY <1>3, <2>3
    <3>2. Agrees(p) => Agrees(p)'
      BY <1>1, <3>1 DEF Agrees, Known, p
    <3>3. CASE IsFile(View(p))
      BY <1>6, <2>3, <3>1, <3>3 DEF Remembered, p, q
    <3>4. CASE View(p) = Absent
      <4>1. Known(p) = NoStat
        BY <2>3, <3>4 DEF Stat, StatOf
      <4>2. p \in DOMAIN snapshots => snapshots'[p] = NoStat
        BY <1>1, <4>1 DEF Known, p
      <4>3. QED
        BY <1>1, <1>2, <3>1, <3>2, <4>2 DEF Remembered, p, q
    <3>5. QED
      BY <1>4, <3>3, <3>4
  <2>4. QED
    BY <2>1, <2>2, <2>3
<1>13. ASSUME NEW n \in RootNames, NEW m \in InnerNames
       PROVE  InComing(n, m)' /\ Inner(n, m)' /\ Remembered(n, m)'
  <2>1. CASE <<n, m>> # p
    BY <1>9, <2>1
  <2>2. CASE <<n, m>> = p
    <3>1. n = k /\ m = l
      BY <2>2, PathsDiffer DEF p
    <3>2. QED
      BY <1>10, <1>11, <1>12, <3>1
  <2>3. QED
    BY <2>1, <2>2
<1>14. QED
  BY <1>3, <1>8, <1>13

LEMMA FlushKeeps == \A p \in Paths : IInv /\ Flush(p) => IInv'
<1> SUFFICES ASSUME NEW p \in Paths, IInv, Flush(p) PROVE IInv'
  OBVIOUS
<1>1. /\ UNCHANGED <<userVars, watched, events, watchItems, snapshots, seen, move, calls, content>>
      /\ p \in DOMAIN pending
      /\ pending' \in [DOMAIN pending' -> BOOLEAN] /\ DOMAIN pending' \subseteq Paths
      /\ suspect' \subseteq suspect /\ stale' \subseteq Paths
      /\ \A x : View(x)' = View(x)
      /\ \A n : Top(n)' = Top(n)
      /\ \A d, n : (Named(d, n)' <=> Named(d, n)) /\ (Gone(d, n)' <=> Gone(d, n))
      /\ \A op, n : WillMeet(op, n)' <=> WillMeet(op, n)
      /\ \A op, n, m : WillEnter(op, n, m)' <=> WillEnter(op, n, m)
      /\ Polling' <=> Polling
  BY FlushTypes
<1>2. /\ replica' \in [Paths -> Views]
      /\ \A n \in RootNames : Unlike(n)' /\ Outdated(n)' /\ TopComing(n)'
      /\ \A n \in RootNames, m \in InnerNames : InComing(n, m)' /\ Inner(n, m)' /\ Remembered(n, m)'
  <2>1. CASE \E n \in RootNames : p = <<n>>
    BY <2>1, FlushTop
  <2>2. CASE \E n \in RootNames, m \in InnerNames : p = <<n, m>>
    BY <2>2, FlushIn
  <2>3. QED
    BY <2>1, <2>2, PathCases
<1>3. BackupTypes'
  BY <1>1, <1>2 DEF IInv, BackupTypes
<1>4. (\A n \in RootNames : TopPolled(n)') /\ (\A n \in RootNames, m \in InnerNames : InPolled(n, m)')
  BY <1>1 DEF IInv, TopInv, InInv, TopPolled, InPolled
<1>5. TopInv' /\ InInv'
  BY <1>2, <1>4 DEF TopInv, InInv
<1>6. Started
  BY <1>1 DEF IInv, StartInv, Fresh
<1>7. StackInv' /\ WatchInv' /\ MonitorTypes'
  BY <1>1, CallsStay DEF IInv, MonitorTypes
<1>8. \A n \in RootNames : WillDo("watch", n) => WillDo("watch", n)'
  BY <1>1, CallsStay
<1>9. UserTypes' /\ TreeInv' /\ HeardInv' /\ LastInv' /\ StartInv' /\ TableInv' /\ ItemInv'
  BY <1>1, <1>6, <1>7, <1>8, CallStep
<1>10. QED
  BY <1>3, <1>5, <1>7, <1>9 DEF IInv

LEMMA BelowFacts ==
    ASSUME NEW S \in SUBSET Paths
    PROVE  /\ \A n \in RootNames : <<n>> \in Below(S) <=> <<n>> \in S
           /\ \A n \in RootNames, m \in InnerNames : <<n, m>> \in Below(S) <=> <<n>> \in S \/ <<n, m>> \in S
<1>1. ASSUME NEW n \in RootNames PROVE <<n>> \in Below(S) <=> <<n>> \in S
  <2>1. <<n>> \in Paths /\ Parent(<<n>>) = <<>>
    BY TopPath
  <2>2. \A p \in Paths : p # <<>>
    BY DEF Paths
  <2>3. QED
    BY <2>1, <2>2 DEF Below, Under
<1>2. ASSUME NEW n \in RootNames, NEW m \in InnerNames
      PROVE  <<n, m>> \in Below(S) <=> <<n>> \in S \/ <<n, m>> \in S
  BY InnerPath DEF Below, Under
<1>3. QED
  BY <1>1, <1>2

\* Entries have directories above them.
Nested(r) == \A n \in RootNames, m \in InnerNames : r[<<n, m>>] # Absent => r[<<n>>] = Dir

\* A task of some paths makes a directory elsewhere at most.
Confined(r, u, S) ==
    /\ u \in [Paths -> Views] /\ Nested(u)
    /\ \A n \in RootNames, m \in InnerNames : <<n, m>> \notin Below(S) => u[<<n, m>>] = r[<<n, m>>]
    /\ \A n \in RootNames : <<n>> \notin S => u[<<n>>] = r[<<n>>] \/ r[<<n>>] = Absent

LEMMA DeletedConfined ==
    ASSUME NEW r \in [Paths -> Views], Nested(r), NEW S \in SUBSET Paths
    PROVE  Confined(r, Deleted(r, S), S)
<1> DEFINE u == Deleted(r, S)
<1>1. /\ u \in [Paths -> Views]
      /\ \A x \in Paths : u[x] = IF x \in Below(S) THEN Absent ELSE r[x]
  BY DEF Deleted, Below, Views
<1>2. \A n \in RootNames : <<n>> \in Paths /\ (<<n>> \in Below(S) <=> <<n>> \in S)
  BY TopPath, BelowFacts
<1>3. \A n \in RootNames, m \in InnerNames :
        <<n, m>> \in Paths /\ (<<n, m>> \in Below(S) <=> <<n>> \in S \/ <<n, m>> \in S)
  BY InnerPath, BelowFacts
<1> HIDE DEF u
<1>4. Nested(u)
  BY <1>1, <1>2, <1>3 DEF Nested
<1>5. QED
  BY <1>1, <1>2, <1>3, <1>4 DEF Confined, u

LEMMA WithDirFacts ==
    ASSUME NEW r \in [Paths -> Views], Nested(r), NEW p \in Paths
    PROVE  LET in == WithDir(r, Parent(p)) IN
           /\ in \in [Paths -> Views] /\ Nested(in)
           /\ \A n \in RootNames, m \in InnerNames : in[<<n, m>>] = r[<<n, m>>]
           /\ \A n \in RootNames : in[<<n>>] = r[<<n>>] \/ r[<<n>>] = Absent
<1> DEFINE in == WithDir(r, Parent(p))
<1>1. \A n \in RootNames, m \in InnerNames : <<n>> \in Paths /\ <<n, m>> \in Paths
  BY TopPath, InnerPath
<1>2. CASE \E n \in RootNames : p = <<n>>
  <2>1. in = r
    BY <1>2, TopPath DEF WithDir
  <2>2. QED
    BY <2>1
<1>3. CASE \E n \in RootNames, m \in InnerNames : p = <<n, m>>
  <2>1. PICK n \in RootNames : Parent(p) = <<n>>
    BY <1>3, InnerPath
  <2>2. \A k \in RootNames, l \in InnerNames : <<k, l>> # <<n>>
    BY PathsDiffer
  <2>3. /\ in \in [Paths -> Views]
        /\ \A x \in Paths : in[x] = r[x] \/ (x = <<n>> /\ r[x] = Absent /\ in[x] = Dir)
    <3>1. <<n>> \in Paths /\ <<n>> # <<>>
      BY TopPath
    <3> DEFINE q == <<n>>
    <3>2. Parent(p) = q /\ q \in Paths /\ q # <<>>
      BY <2>1, <3>1
    <3> HIDE DEF q
    <3>3. /\ in \in [Paths -> Views]
          /\ \A x \in Paths : in[x] = r[x] \/ (x = q /\ r[x] = Absent /\ in[x] = Dir)
      <4>1. CASE r[q] = Absent
        <5>1. in = [r EXCEPT ![q] = Dir]
          BY <3>2, <4>1 DEF WithDir
        <5>2. QED
          BY <3>2, <4>1, <5>1 DEF Views
      <4>2. CASE r[q] # Absent
        BY <3>2, <4>2 DEF WithDir
      <4>3. QED
        BY <4>1, <4>2
    <3>4. QED
      BY <3>3 DEF q
  <2> HIDE DEF in
  <2>4. Nested(in)
    BY <1>1, <2>2, <2>3 DEF Nested
  <2>5. \A k \in RootNames, l \in InnerNames : in[<<k, l>>] = r[<<k, l>>]
    BY <1>1, <2>2, <2>3
  <2>6. \A k \in RootNames : in[<<k>>] = r[<<k>>] \/ r[<<k>>] = Absent
    <3> SUFFICES ASSUME NEW k \in RootNames PROVE in[<<k>>] = r[<<k>>] \/ r[<<k>>] = Absent
      OBVIOUS
    <3>1. <<k>> \in Paths
      BY TopPath
    <3>2. QED
      BY <2>3, <3>1
  <2>7. QED
    BY <2>3, <2>4, <2>5, <2>6 DEF in
<1>4. QED
  BY <1>2, <1>3, PathCases

\* What lies where after a rename.
AfterRename(r, u, old, p) ==
    /\ u \in [Paths -> Views]
    /\ \A n \in RootNames : u[<<n>>] = IF <<n>> = p THEN r[old] ELSE IF <<n>> = old THEN Absent ELSE r[<<n>>]
    /\ \A n \in RootNames, m \in InnerNames :
         /\ <<n, m>> = p => u[<<n, m>>] = r[old]
         /\ <<n, m>> # p /\ (<<n, m>> = old \/ <<n>> = old) => u[<<n, m>>] = Absent
         /\ <<n, m>> # p /\ <<n, m>> # old /\ <<n>> # old =>
              \/ u[<<n, m>>] = r[<<n, m>>] /\ ~(<<n>> = p /\ Parent(old) = <<>>)
              \/ <<n>> = p /\ \E k \in RootNames : old = <<k>> /\ u[<<n, m>>] = r[<<k, m>>]

LEMMA RenamedParts ==
    ASSUME NEW r \in [Paths -> Views], NEW old \in Paths, NEW p \in Paths
    PROVE  AfterRename(r, Renamed(r, old, p), old, p)
<1> DEFINE u == Renamed(r, old, p)
<1>1. \A x \in Paths : u[x] = IF x = p THEN r[old]
       ELSE IF Under(x, old) THEN Absent
       ELSE IF Under(x, p) /\ <<old[1], x[2]>> \in Paths /\ Parent(old) = <<>>
       THEN r[<<old[1], x[2]>>]
       ELSE r[x]
  BY DEF Renamed
<1>2. u \in [Paths -> Views]
  BY DEF Renamed, Views
<1>3. \A q \in Paths : q # <<>>
  BY DEF Paths
<1> HIDE DEF u
<1>4. ASSUME NEW n \in RootNames
      PROVE  u[<<n>>] = IF <<n>> = p THEN r[old] ELSE IF <<n>> = old THEN Absent ELSE r[<<n>>]
  <2>1. <<n>> \in Paths /\ \A q \in Paths : Under(<<n>>, q) <=> <<n>> = q
    BY <1>3, TopPath DEF Under
  <2>2. QED
    BY <1>1, <2>1
<1>5. ASSUME NEW n \in RootNames, NEW m \in InnerNames
      PROVE  /\ <<n, m>> = p => u[<<n, m>>] = r[old]
             /\ <<n, m>> # p /\ (<<n, m>> = old \/ <<n>> = old) => u[<<n, m>>] = Absent
             /\ <<n, m>> # p /\ <<n, m>> # old /\ <<n>> # old =>
                  \/ u[<<n, m>>] = r[<<n, m>>] /\ ~(<<n>> = p /\ Parent(old) = <<>>)
                  \/ <<n>> = p /\ \E k \in RootNames : old = <<k>> /\ u[<<n, m>>] = r[<<k, m>>]
  <2>1. <<n, m>> \in Paths /\ \A q : Under(<<n, m>>, q) <=> <<n, m>> = q \/ <<n>> = q
    BY InnerPath DEF Under
  <2>2. CASE \E k \in RootNames : old = <<k>>
    <3>1. PICK k \in RootNames : old = <<k>>
      BY <2>2
    <3>2. Parent(old) = <<>> /\ <<old[1], <<n, m>>[2]>> = <<k, m>> /\ <<k, m>> \in Paths
      BY <3>1, TopPath, InnerPath
    <3>3. QED
      BY <1>1, <2>1, <3>1, <3>2
  <2>3. CASE \E k \in RootNames, l \in InnerNames : old = <<k, l>>
    <3>1. Parent(old) # <<>>
      <4>1. PICK k \in RootNames, l \in InnerNames : old = <<k, l>>
        BY <2>3
      <4>2. QED
        BY <4>1, InnerPath, TopPath
    <3>2. QED
      BY <1>1, <2>1, <3>1
  <2>4. QED
    BY <2>2, <2>3, PathCases
<1>6. QED
  BY <1>2, <1>4, <1>5 DEF AfterRename, u

LEMMA RenamedConfined ==
    ASSUME NEW r \in [Paths -> Views], Nested(r), NEW old \in Paths, NEW p \in Paths,
           NEW in, in = WithDir(r, Parent(p)), CanRename(in, old, p)
    PROVE  Confined(r, Renamed(in, old, p), {old, p})
<1> DEFINE u == Renamed(in, old, p)
<1>1. /\ in \in [Paths -> Views] /\ Nested(in)
      /\ \A n \in RootNames, m \in InnerNames : in[<<n, m>>] = r[<<n, m>>]
      /\ \A n \in RootNames : in[<<n>>] = r[<<n>>] \/ r[<<n>>] = Absent
  BY WithDirFacts
<1>2. AfterRename(in, u, old, p)
  <2>1. in \in [Paths -> Views]
    BY <1>1
  <2>2. QED
    BY <2>1, RenamedParts
<1>3. /\ in[old] # Absent /\ InDir(in, p) /\ Parent(p) # old
      /\ IF in[old] = Dir THEN in[p] \in {Absent, Dir} /\ \A x \in Paths : Parent(x) = p => in[x] = Absent
         ELSE in[p] # Dir
  BY DEF CanRename
<1>4. \A n \in RootNames, m \in InnerNames :
        /\ <<n>> \in Paths /\ <<n, m>> \in Paths /\ Parent(<<n, m>>) = <<n>> /\ <<n>> # <<>>
        /\ <<n, m>> \in Below({old, p}) <=> <<n>> \in {old, p} \/ <<n, m>> \in {old, p}
  BY TopPath, InnerPath, BelowFacts
<1> HIDE DEF u
<1>5. ASSUME NEW n \in RootNames, NEW m \in InnerNames, u[<<n, m>>] # Absent
      PROVE  u[<<n>>] = Dir
  <2>1. CASE <<n, m>> = p
    <3>1. in[<<n>>] = Dir /\ <<n>> # old
      BY <1>3, <1>4, <2>1 DEF InDir
    <3>2. <<n>> # p
      BY <2>1, PathsDiffer
    <3>3. QED
      BY <1>2, <3>1, <3>2 DEF AfterRename
  <2>2. CASE <<n, m>> # p /\ <<n>> = p
    <3>1. <<n, m>> # old /\ <<n>> # old
      BY <1>2, <1>5, <2>2 DEF AfterRename
    <3>2. CASE u[<<n, m>>] = in[<<n, m>>] /\ ~(<<n>> = p /\ Parent(old) = <<>>)
      <4>1. in[<<n>>] = Dir /\ in[p] = Dir /\ in[<<n, m>>] # Absent
        BY <1>1, <1>5, <2>2, <3>2 DEF Nested
      <4>2. QED
        BY <1>3, <1>4, <2>2, <4>1
    <3>3. CASE \E k \in RootNames : old = <<k>> /\ u[<<n, m>>] = in[<<k, m>>]
      <4>1. in[old] = Dir
        BY <1>1, <1>5, <3>3 DEF Nested
      <4>2. QED
        BY <1>2, <2>2, <4>1 DEF AfterRename
    <3>4. QED
      BY <1>2, <2>2, <3>1, <3>2, <3>3 DEF AfterRename
  <2>3. CASE <<n, m>> # p /\ <<n>> # p
    <3>1. <<n, m>> # old /\ <<n>> # old
      BY <1>2, <1>5, <2>3 DEF AfterRename
    <3>2. u[<<n, m>>] = in[<<n, m>>] /\ u[<<n>>] = in[<<n>>]
      BY <1>2, <2>3, <3>1 DEF AfterRename
    <3>3. QED
      BY <1>1, <1>5, <3>2 DEF Nested
  <2>4. QED
    BY <2>1, <2>2, <2>3
<1>6. Nested(u)
  BY <1>5 DEF Nested
<1>7. ASSUME NEW n \in RootNames, NEW m \in InnerNames, <<n, m>> \notin Below({old, p})
      PROVE  u[<<n, m>>] = r[<<n, m>>]
  BY <1>1, <1>2, <1>4, <1>7 DEF AfterRename
<1>8. ASSUME NEW n \in RootNames, <<n>> \notin {old, p}
      PROVE  u[<<n>>] = r[<<n>>] \/ r[<<n>>] = Absent
  BY <1>1, <1>2, <1>8 DEF AfterRename
<1>9. QED
  BY <1>2, <1>6, <1>7, <1>8 DEF Confined, u, AfterRename

\* A rename that cannot be done is an update in its place.
LEMMA UpdatedConfined ==
    ASSUME UserTypes, TreeInv, NEW r \in [Paths -> Views], Nested(r), NEW p \in Paths, NEW S, p \in S,
           NEW in \in {r, WithDir(r, Parent(p))}, S \in SUBSET Paths
    PROVE  Confined(r, Updated(in, p, View(p) = Dir), S)
<1> DEFINE u == Updated(in, p, View(p) = Dir)
<1>1. /\ in \in [Paths -> Views] /\ Nested(in)
      /\ \A n \in RootNames, m \in InnerNames : in[<<n, m>>] = r[<<n, m>>]
      /\ \A n \in RootNames : in[<<n>>] = r[<<n>>] \/ r[<<n>>] = Absent
  BY WithDirFacts
<1>2. \A n \in RootNames, m \in InnerNames :
        /\ <<n>> \in Paths /\ <<n, m>> \in Paths
        /\ <<n, m>> \in Below(S) <=> <<n>> \in S \/ <<n, m>> \in S
  BY TopPath, InnerPath, BelowFacts
<1>3. View(p) \in Views
  BY ViewTypes
<1>4. CASE \E n \in RootNames : p = <<n>>
  <2>1. PICK n \in RootNames : p = <<n>>
    BY <1>4
  <2>2. /\ u \in [Paths -> Views]
        /\ \A x \in Paths : x # <<n>> => u[x] = in[x]
        /\ u[<<n>>] = in[<<n>>] \/ in[<<n>>] # Dir
    <3> DEFINE dir == View(p) = Dir
               v == Updated(in, <<n>>, dir)
    <3>1. in \in [Paths -> Views] /\ View(<<n>>) \in Views /\ u = v
      BY <1>1, <1>3, <2>1
    <3> HIDE DEF dir, u
    <3>2. /\ v \in [Paths -> Views]
          /\ \A x \in Paths : x # <<n>> => v[x] = in[x]
          /\ v[<<n>>] = IF dir THEN IF in[<<n>>] = Absent THEN Dir ELSE in[<<n>>]
                        ELSE IF IsFile(View(<<n>>)) /\ in[<<n>>] # Dir THEN View(<<n>>) ELSE in[<<n>>]
      BY <3>1, UpdatedTop
    <3> HIDE DEF v
    <3>3. QED
      BY <3>1, <3>2, MonitorAssumption
  <2>3. \A k \in RootNames, m \in InnerNames : <<k, m>> # <<n>>
    BY PathsDiffer
  <2> HIDE DEF u
  <2>4. Nested(u)
    BY <1>1, <1>2, <2>2, <2>3 DEF Nested
  <2>5. \A k \in RootNames, m \in InnerNames : u[<<k, m>>] = r[<<k, m>>]
    BY <1>1, <1>2, <2>2, <2>3
  <2>6. \A k \in RootNames : <<k>> \notin S => u[<<k>>] = r[<<k>>] \/ r[<<k>>] = Absent
    <3> SUFFICES ASSUME NEW k \in RootNames, <<k>> \notin S PROVE u[<<k>>] = r[<<k>>] \/ r[<<k>>] = Absent
      OBVIOUS
    <3>1. <<k>> \in Paths /\ <<k>> # <<n>>
      BY <2>1, TopPath
    <3>2. QED
      BY <1>1, <2>2, <3>1
  <2>7. QED
    BY <2>2, <2>4, <2>5, <2>6 DEF Confined, u
<1>5. CASE \E n \in RootNames, m \in InnerNames : p = <<n, m>>
  <2>1. PICK n \in RootNames, m \in InnerNames : p = <<n, m>>
    BY <1>5
  <2>2. View(p) # Dir
    BY <2>1, ListedNames, MonitorAssumption DEF IsFile
  <2>3. /\ u \in [Paths -> Views]
        /\ \A x \in Paths : x \notin {<<n>>, <<n, m>>} => u[x] = in[x]
        /\ \/ u[<<n>>] = in[<<n>>] /\ u[<<n, m>>] = in[<<n, m>>]
           \/ u[<<n>>] = Dir /\ in[<<n>>] \in {Absent, Dir}
    <3> DEFINE dir == View(p) = Dir
               v == Updated(in, <<n, m>>, dir)
               does == IsFile(View(<<n, m>>)) /\ in[<<n, m>>] # Dir /\ in[<<n>>] \in {Absent, Dir}
    <3>1. in \in [Paths -> Views] /\ View(<<n, m>>) \in Views /\ u = v /\ ~dir
      BY <1>1, <1>3, <2>1, <2>2
    <3> HIDE DEF dir, u
    <3>2. /\ v \in [Paths -> Views]
          /\ \A x \in Paths : x \notin {<<n>>, <<n, m>>} => v[x] = in[x]
          /\ v[<<n>>] = IF does THEN Dir ELSE in[<<n>>]
          /\ v[<<n, m>>] = IF does THEN View(<<n, m>>) ELSE in[<<n, m>>]
      BY <3>1, UpdatedIn
    <3> HIDE DEF v
    <3>3. QED
      BY <3>1, <3>2
  <2>4. \A k, l, j : <<k>> # <<l, j>> /\ (<<k>> = <<l>> <=> k = l)
    BY PathsDiffer
  <2> HIDE DEF u
  <2>5. Nested(u)
    <3> SUFFICES ASSUME NEW k \in RootNames, NEW l \in InnerNames, u[<<k, l>>] # Absent PROVE u[<<k>>] = Dir
      BY DEF Nested
    <3>1. CASE k = n
      <4>1. <<k, l>> = <<n, m>> \/ u[<<k, l>>] = in[<<k, l>>]
        BY <1>2, <2>3, <2>4
      <4>2. QED
        BY <1>1, <2>3, <3>1, <4>1 DEF Nested
    <3>2. CASE k # n
      <4>1. u[<<k, l>>] = in[<<k, l>>] /\ u[<<k>>] = in[<<k>>]
        BY <1>2, <2>3, <2>4, <3>2, PathsDiffer
      <4>2. QED
        BY <1>1, <4>1 DEF Nested
    <3>3. QED
      BY <3>1, <3>2
  <2>6. \A k \in RootNames, l \in InnerNames : <<k, l>> \notin Below(S) => u[<<k, l>>] = r[<<k, l>>]
    BY <1>1, <1>2, <2>1, <2>3, <2>4
  <2>7. \A k \in RootNames : u[<<k>>] = r[<<k>>] \/ r[<<k>>] = Absent
    <3> SUFFICES ASSUME NEW k \in RootNames PROVE u[<<k>>] = r[<<k>>] \/ r[<<k>>] = Absent
      OBVIOUS
    <3>1. u[<<k>>] = in[<<k>>] \/ (k = n /\ u[<<k>>] = Dir /\ in[<<k>>] \in {Absent, Dir})
      BY <1>2, <2>3, <2>4
    <3>2. QED
      BY <1>1, <3>1, MonitorAssumption
  <2>8. QED
    BY <2>3, <2>5, <2>6, <2>7 DEF Confined, u
<1>6. QED
  BY <1>4, <1>5, PathCases

\* A delete or rename, and what is left to come afterwards.
AfterTask(S) ==
    /\ pending' = Waiting(DOMAIN pending \ S) /\ stale' = Astray(Below(S))
    /\ \A n \in RootNames :
         /\ ~WillMeet("scan", n)
         /\ Named(Root, n) => Named(Root, n)' \/ <<n>> \in S
         /\ Gone(Root, n) => Gone(Root, n)' \/ <<n>> \in S
         /\ Moving(n) => Moving(n)' \/ <<n>> \in suspect' \/ <<n>> \in S
    /\ \A n \in RootNames, m \in InnerNames :
         View(<<n, m>>) # Absent /\ Top(n) \in DOMAIN watchItems =>
           /\ ~WillEnter("scan", n, m)
           /\ Named(Root, n) => Named(Root, n)' \/ WillEnter("scan", n, m)'
           /\ Named(Top(n), m) /\ watchItems[Top(n)] = <<n>> => Named(Top(n), m)' \/ <<n, m>> \in S

LEMMA TaskFacts ==
    ASSUME IInv, NEW S \in SUBSET Paths, AfterTask(S), UNCHANGED content
    PROVE  /\ DOMAIN pending' = DOMAIN pending \ S
           /\ \A x \in DOMAIN pending \ S : pending'[x] = pending[x] /\ (pending'[x] <=> pending[x])
           /\ pending' \in [DOMAIN pending' -> BOOLEAN] /\ DOMAIN pending' \subseteq Paths
           /\ stale' \subseteq Paths
           /\ \A x \in Paths : x \in stale \/ x \in Below(S) => Agrees(x)' \/ x \in stale'
           /\ \A x : View(x)' = View(x)
           /\ \A n : Top(n)' = Top(n)
BY WaitingFacts, ViewsStay DEF AfterTask, Astray, IInv

\* Of all that a late task changes, or should have, the paths are suspect.
LEMMA LateTask ==
    ASSUME IInv, NEW S \in SUBSET Paths, AfterTask(S), UNCHANGED <<content, watchItems, snapshots>>,
           suspect' \subseteq Paths, Suspects(replica', S) \subseteq suspect',
           Confined(replica, replica', S)
    PROVE  /\ BackupTypes'
           /\ \A n \in RootNames : Unlike(n)' /\ Outdated(n)' /\ TopComing(n)'
           /\ \A n \in RootNames, m \in InnerNames : InComing(n, m)' /\ Inner(n, m)' /\ Remembered(n, m)'
<1>1. /\ DOMAIN pending' = DOMAIN pending \ S
      /\ \A x \in DOMAIN pending \ S : pending'[x] = pending[x] /\ (pending'[x] <=> pending[x])
      /\ pending' \in [DOMAIN pending' -> BOOLEAN] /\ DOMAIN pending' \subseteq Paths
      /\ stale' \subseteq Paths
      /\ \A x \in Paths : x \in stale \/ x \in Below(S) => Agrees(x)' \/ x \in stale'
      /\ \A x : View(x)' = View(x)
      /\ \A n : Top(n)' = Top(n)
  BY TaskFacts
<1>2. /\ \A x \in Paths : \/ replica'[x] = View(x) \/ x \in suspect'
                          \/ replica'[x] = replica[x] /\ x \notin Below(S)
      /\ suspect \subseteq suspect'
  BY DEF Suspects, Below
<1>3. /\ BackupTypes' /\ Nested(replica')
      /\ \A n \in RootNames, m \in InnerNames : <<n, m>> \notin Below(S) => replica'[<<n, m>>] = replica[<<n, m>>]
      /\ \A n \in RootNames : <<n>> \notin S => replica'[<<n>>] = replica[<<n>>] \/ replica[<<n>>] = Absent
  BY <1>1 DEF BackupTypes, Confined
<1>4. ASSUME NEW n \in RootNames
      PROVE  Unlike(n)' /\ Outdated(n)' /\ TopComing(n)'
  <2>1. <<n>> \in Paths /\ (<<n>> \in Below(S) <=> <<n>> \in S)
    BY TopPath, BelowFacts
  <2>2. /\ Unlike(n) /\ Outdated(n) /\ TopComing(n)
        /\ ~WillMeet("scan", n)
        /\ Named(Root, n) => Named(Root, n)' \/ <<n>> \in S
        /\ Gone(Root, n) => Gone(Root, n)' \/ <<n>> \in S
        /\ Moving(n) => Moving(n)' \/ <<n>> \in suspect' \/ <<n>> \in S
    BY DEF IInv, TopInv, AfterTask
  <2>3. Unlike(n)'
    BY <1>1, <1>2, <1>3, <2>1, <2>2 DEF Unlike, SameKind
  <2>4. TopComing(n)'
    BY <1>1, <1>2, <2>1, <2>2 DEF TopComing, InStep
  <2>5. Outdated(n)'
    BY <1>1, <1>2, <2>1, <2>2 DEF Outdated
  <2>6. QED
    BY <2>3, <2>4, <2>5
<1>5. ASSUME NEW n \in RootNames, NEW m \in InnerNames
      PROVE  InComing(n, m)' /\ Inner(n, m)' /\ Remembered(n, m)'
  <2>1. /\ <<n, m>> \in Paths /\ (<<n, m>> \in Below(S) <=> <<n>> \in S \/ <<n, m>> \in S)
        /\ <<n>> \in Paths /\ View(<<n, m>>) # Dir
        /\ InComing(n, m) /\ Inner(n, m) /\ Remembered(n, m)
    BY TopPath, InnerPath, BelowFacts, ListedNames, MonitorAssumption DEF IInv, InInv, IsFile
  <2>2. <<n, m>> \notin Below(S) /\ IsFile(replica[<<n>>]) => IsFile(replica'[<<n>>])
    BY <1>3, <2>1 DEF IsFile
  <2>3. InComing(n, m)'
    BY <1>1, <1>2, <1>3, <2>1, <2>2 DEF InComing, InStep, AfterTask
  <2>4. Inner(n, m)'
    BY <1>1, <1>2, <1>3, <2>1 DEF Inner, Nested
  <2>5. Remembered(n, m)'
    <3>1. CASE <<n, m>> \in Below(S)
      BY <1>1, <2>1, <3>1 DEF Remembered
    <3>2. CASE <<n, m>> \notin Below(S)
      BY <1>1, <1>3, <2>1, <2>2, <3>2, StillRemembered
    <3>3. QED
      BY <3>1, <3>2
  <2>6. QED
    BY <2>3, <2>4, <2>5
<1>6. QED
  BY <1>3, <1>4, <1>5

\* A delete of what is gone, or was gone when it was told and has been told of again.
LEMMA TimelyDelete ==
    ASSUME IInv, NEW S \in SUBSET Paths, AfterTask(S), UNCHANGED <<content, watchItems, move, suspect>>,
           replica' = Deleted(replica, S),
           \A x \in Paths \ S : /\ x \in DOMAIN snapshots' <=> x \in DOMAIN snapshots
                                /\ x \in DOMAIN snapshots => snapshots'[x] = snapshots[x],
           \A n \in RootNames : <<n>> \in S /\ View(<<n>>) # Absent => Named(Root, n)',
           \A n \in RootNames, m \in InnerNames :
             <<n, m>> \in S /\ View(<<n, m>>) # Absent /\ Top(n) \in DOMAIN watchItems =>
               Named(Root, n)' \/ (Named(Top(n), m)' /\ watchItems[Top(n)] = <<n>>)
    PROVE  /\ BackupTypes'
           /\ \A n \in RootNames : Unlike(n)' /\ Outdated(n)' /\ TopComing(n)'
           /\ \A n \in RootNames, m \in InnerNames : InComing(n, m)' /\ Inner(n, m)' /\ Remembered(n, m)'
<1>1. /\ DOMAIN pending' = DOMAIN pending \ S
      /\ \A x \in DOMAIN pending \ S : pending'[x] = pending[x] /\ (pending'[x] <=> pending[x])
      /\ pending' \in [DOMAIN pending' -> BOOLEAN] /\ DOMAIN pending' \subseteq Paths
      /\ stale' \subseteq Paths
      /\ \A x \in Paths : x \in stale \/ x \in Below(S) => Agrees(x)' \/ x \in stale'
      /\ \A x : View(x)' = View(x)
      /\ \A n : Top(n)' = Top(n)
  BY TaskFacts
<1>2. replica \in [Paths -> Views] /\ suspect \subseteq Paths /\ UserTypes /\ TreeInv
  BY DEF IInv, BackupTypes
<1>3. /\ \A x \in Paths : replica'[x] = IF x \in Below(S) THEN Absent ELSE replica[x]
      /\ replica' \in [Paths -> Views]
  BY <1>2 DEF Deleted, Below, Views
<1>4. BackupTypes'
  BY <1>1, <1>2, <1>3 DEF BackupTypes
<1>5. ASSUME NEW n \in RootNames
      PROVE  Unlike(n)' /\ Outdated(n)' /\ TopComing(n)'
  <2>1. <<n>> \in Paths /\ (<<n>> \in Below(S) <=> <<n>> \in S)
    BY TopPath, BelowFacts
  <2>2. /\ Unlike(n) /\ Outdated(n) /\ TopComing(n)
        /\ ~WillMeet("scan", n)
        /\ Named(Root, n) => Named(Root, n)' \/ <<n>> \in S
        /\ Gone(Root, n) => Gone(Root, n)' \/ <<n>> \in S
        /\ Moving(n) <=> Moving(n)'
    BY DEF IInv, TopInv, AfterTask, Moving
  <2>3. Unlike(n)'
    BY <1>1, <1>3, <2>1, <2>2 DEF Unlike
  <2>4. TopComing(n)'
    BY <1>1, <1>3, <2>1, <2>2 DEF TopComing, InStep
  <2>5. Outdated(n)'
    BY <1>1, <2>1, <2>2 DEF Outdated
  <2>6. QED
    BY <2>3, <2>4, <2>5
<1>6. ASSUME NEW n \in RootNames, NEW m \in InnerNames
      PROVE  InComing(n, m)' /\ Inner(n, m)' /\ Remembered(n, m)'
  <2>1. /\ <<n, m>> \in Paths /\ (<<n, m>> \in Below(S) <=> <<n>> \in S \/ <<n, m>> \in S)
        /\ <<n>> \in Paths /\ (<<n>> \in Below(S) <=> <<n>> \in S)
        /\ InComing(n, m) /\ Inner(n, m) /\ Remembered(n, m)
        /\ View(<<n, m>>) # Absent => View(<<n>>) # Absent
    BY <1>2, TopPath, InnerPath, BelowFacts, ListedNames DEF IInv, InInv
  <2>2. replica'[<<n, m>>] # Absent => replica'[<<n, m>>] = replica[<<n, m>>] /\ replica'[<<n>>] = replica[<<n>>]
    BY <1>3, <2>1
  <2>3. InComing(n, m)'
    <3>1. CASE <<n, m>> \in Below(S)
      BY <1>1, <2>1, <3>1 DEF InComing
    <3>2. CASE <<n, m>> \notin Below(S)
      <4>1. replica'[<<n, m>>] = replica[<<n, m>>] /\ replica'[<<n>>] = replica[<<n>>]
        BY <1>3, <2>1, <3>2
      <4>2. QED
        BY <1>1, <2>1, <3>2, <4>1 DEF InComing, InStep, AfterTask
    <3>3. QED
      BY <3>1, <3>2
  <2>4. Inner(n, m)'
    BY <1>1, <2>1, <2>2, MonitorAssumption DEF Inner
  <2>5. Remembered(n, m)'
    <3>1. CASE <<n, m>> \in Below(S)
      BY <1>1, <2>1, <3>1 DEF Remembered
    <3>2. CASE <<n, m>> \notin Below(S)
      BY <1>1, <1>3, <2>1, <3>2, StillRemembered
    <3>3. QED
      BY <3>1, <3>2
  <2>6. QED
    BY <2>3, <2>4, <2>5
<1>7. QED
  BY <1>4, <1>5, <1>6
-----------------------------------------------------------------------------
(* The end of a poll *)

NoCalls ==
    /\ calls \in Seq(Calls) /\ StackInv /\ WatchInv /\ ~Polling
    /\ \A op, n : ~WillMeet(op, n) /\ ~WillDo(op, n)
    /\ \A op, n, m : ~WillEnter(op, n, m)

LEMMA NothingRuns == Selecting => NoCalls
<1> SUFFICES ASSUME calls = <<>> PROVE NoCalls
  BY DEF Selecting
<1>1. DOMAIN calls = {} /\ calls \in Seq(Calls)
  OBVIOUS
<1>2. QED
  BY <1>1 DEF NoCalls, StackInv, WatchInv, Polling, WillMeet, WillDo, WillEnter

LEMMA NothingRunsNext == Selecting' => NoCalls'
BY NothingRuns, PTL

LEMMA LastCall ==
    ASSUME calls \in Seq(Calls), StackInv, CallNow("deletes")
    PROVE  /\ Polling /\ calls # <<>> /\ Tail(calls) = <<>>
           /\ \A op \in {"watch", "scan", "poll"} : \A n : ~WillMeet(op, n) /\ ~WillDo(op, n)
           /\ \A op \in {"watch", "scan", "poll"} : \A n, m : ~WillEnter(op, n, m)
<1>1. /\ calls # <<>> /\ Len(calls) \in Nat /\ DOMAIN calls = 1 .. Len(calls) /\ 1 \in DOMAIN calls
      /\ calls[1].op = "deletes"
  BY DEF CallNow
<1>2. Polling
  BY <1>1 DEF Polling
<1>3. Len(calls) = 1
  BY <1>1, <1>2 DEF StackInv
<1>4. Tail(calls) = <<>>
  <2>1. Tail(calls) \in Seq(Calls) /\ Len(Tail(calls)) = 0
    BY <1>1, <1>3
  <2>2. QED
    BY <2>1, EmptySeq
<1>5. \A j \in DOMAIN calls : calls[j].op = "deletes"
  BY <1>1, <1>3
<1>6. QED
  BY <1>1, <1>2, <1>4, <1>5 DEF WillMeet, WillDo, WillEnter, Enters, Meets, Whole

LEMMA PollDeletesKeeps == IInv /\ PollDeletes => IInv'
<1> SUFFICES ASSUME IInv, PollDeletes PROVE IInv'
  OBVIOUS
<1> DEFINE S == DOMAIN snapshots \ seen
<1>1. /\ UserTypes /\ TreeInv /\ StackInv /\ WatchInv /\ calls \in Seq(Calls) /\ MonitorTypes
      /\ CallNow("deletes") /\ S \in SUBSET Paths
  BY DEF PollDeletes, IInv, MonitorTypes
<1>2. /\ UNCHANGED <<userVars, watched, events, watchItems, move, content, suspect>>
      /\ calls' = Tail(calls) /\ seen' = {}
      /\ snapshots' = [p \in DOMAIN snapshots \cap seen |-> snapshots[p]]
      /\ pending' = Waiting(DOMAIN pending \ S) /\ stale' = Astray(Below(S))
      /\ replica' = Deleted(replica, S)
  BY DEF PollDeletes, SendDeletes, userVars
<1>3. /\ Polling /\ calls # <<>> /\ calls' = <<>>
      /\ \A op \in {"watch", "scan", "poll"} : \A n : ~WillMeet(op, n) /\ ~WillDo(op, n)
      /\ \A op \in {"watch", "scan", "poll"} : \A n, m : ~WillEnter(op, n, m)
  BY <1>1, <1>2, LastCall
<1>4. NoCalls'
  BY <1>3, NothingRunsNext DEF Selecting
<1>5. /\ \A d, n : (Named(d, n)' <=> Named(d, n)) /\ (Gone(d, n)' <=> Gone(d, n))
      /\ \A n : Top(n)' = Top(n) /\ (Moving(n)' <=> Moving(n))
  BY <1>2, NamesStay, ViewsStay DEF Moving
<1>6. AfterTask(S)
  BY <1>2, <1>3, <1>5 DEF AfterTask
<1>7. /\ DOMAIN snapshots' = DOMAIN snapshots \cap seen
      /\ \A x \in DOMAIN snapshots' : snapshots'[x] = snapshots[x]
  BY <1>2
<1>8. \A x \in Paths \ S : /\ x \in DOMAIN snapshots' <=> x \in DOMAIN snapshots
                           /\ x \in DOMAIN snapshots => snapshots'[x] = snapshots[x]
  BY <1>7
<1>9. ASSUME NEW n \in RootNames, <<n>> \in S, View(<<n>>) # Absent
      PROVE  Named(Root, n)'
  BY <1>3, <1>5, <1>9 DEF IInv, TopInv, TopPolled
<1>10. ASSUME NEW n \in RootNames, NEW m \in InnerNames,
              <<n, m>> \in S, View(<<n, m>>) # Absent, Top(n) \in DOMAIN watchItems
       PROVE  Named(Root, n)' \/ (Named(Top(n), m)' /\ watchItems[Top(n)] = <<n>>)
  <2>1. Top(n) \in SubDirs
    BY <1>1, <1>10, ListedNames
  <2>2. watchItems[Top(n)] = <<n>> \/ Named(Root, n)
    BY <1>3, <1>10, <2>1 DEF IInv, ItemInv
  <2>3. Named(Root, n) \/ Named(Top(n), m)
    BY <1>3, <1>10 DEF IInv, InInv, InPolled
  <2>4. QED
    BY <1>5, <2>2, <2>3 DEF Named
<1> HIDE DEF S
<1>11. /\ BackupTypes'
       /\ \A n \in RootNames : Unlike(n)' /\ Outdated(n)' /\ TopComing(n)'
       /\ \A n \in RootNames, m \in InnerNames : InComing(n, m)' /\ Inner(n, m)' /\ Remembered(n, m)'
  BY <1>1, <1>2, <1>6, <1>8, <1>9, <1>10, TimelyDelete
<1>12. \A n \in RootNames : TopPolled(n)' /\ \A m \in InnerNames : InPolled(n, m)'
  BY <1>4 DEF NoCalls, TopPolled, InPolled
<1>13. TopInv' /\ InInv'
  BY <1>11, <1>12 DEF TopInv, InInv
<1>14. Started
  BY <1>1, FreshCalls DEF IInv, StartInv
<1>15. UserTypes' /\ TreeInv' /\ HeardInv' /\ LastInv' /\ StartInv' /\ TableInv' /\ ItemInv'
  BY <1>2, <1>3, <1>4, <1>14, CallStep DEF NoCalls
<1>16. MonitorTypes'
  <2>1. IsFiniteSet(DOMAIN snapshots') /\ Cardinality(DOMAIN snapshots') <= Cardinality(DOMAIN snapshots)
        /\ Cardinality(DOMAIN snapshots') \in Nat /\ Cardinality(DOMAIN snapshots) \in Nat
    BY <1>1, <1>7, FS_Subset, FS_CardinalityType DEF MonitorTypes
  <2>2. Cardinality(DOMAIN snapshots') <= MaxSnapshots
    BY <1>1, <2>1, MonitorAssumption DEF MonitorTypes
  <2>3. snapshots' \in [DOMAIN snapshots' -> Stats] /\ DOMAIN snapshots' \subseteq Paths
    <3>1. snapshots \in [DOMAIN snapshots -> Stats] /\ DOMAIN snapshots \subseteq Paths
      BY <1>1 DEF MonitorTypes
    <3>2. QED
      BY <1>2, <1>7, <3>1
  <2>4. QED
    BY <1>1, <1>2, <1>4, <2>1, <2>2, <2>3 DEF MonitorTypes, NoCalls
<1>17. QED
  BY <1>4, <1>11, <1>13, <1>15, <1>16 DEF IInv, NoCalls
-----------------------------------------------------------------------------
(* Events *)

\* The monitor takes the first event.
Takes ==
    /\ Selecting /\ events # <<>> /\ events' = Tail(events)
    /\ UNCHANGED <<userVars, watched, watchItems, snapshots, seen>>

\* What is lost with it: an event about an entry is its last only if it tells what is there.
LEMMA HeadEvent ==
    ASSUME IInv, Takes
    PROVE  /\ Started /\ Head(events) \in Events /\ Of(content, made, watched, Head(events))
           /\ UserTypes' /\ TreeInv' /\ HeardInv' /\ LastInv'
           /\ \A d, n : Named(d, n) =>
                Named(d, n)' \/ (About(Head(events), d, n) /\ Matches(content, Head(events)))
           /\ \A d, n : Gone(d, n) =>
                Gone(d, n)' \/ (About(Head(events), d, n) /\ Head(events).mask \notin {"CREATE", "MODIFY"})
<1> DEFINE e == Head(events)
<1>1. /\ events \in Seq(Events) /\ events # <<>> /\ events' = Tail(events)
      /\ UNCHANGED <<content, made, changes, watched>>
  BY DEF Takes, userVars, IInv, UserTypes
<1>2. /\ e = events[1] /\ 1 \in DOMAIN events /\ e \in Events /\ events' \in Seq(Events)
      /\ DOMAIN events \subseteq Nat
      /\ \A j \in DOMAIN events' : j + 1 \in DOMAIN events /\ events'[j] = events[j + 1]
      /\ \A j \in DOMAIN events : j = 1 \/ (j - 1 \in DOMAIN events' /\ events'[j - 1] = events[j] /\ j > 1)
  BY <1>1
<1> HIDE DEF e
<1>3. Started
  BY <1>1 DEF IInv, StartInv, Fresh
<1>4. Of(content, made, watched, e)
  BY <1>2 DEF IInv, HeardInv, Heard
<1>5. UserTypes' /\ TreeInv'
  BY <1>1, <1>2 DEF IInv, UserTypes, TreeInv
<1>6. HeardInv'
  BY <1>1, <1>2 DEF IInv, HeardInv, Heard
<1>7. LastInv'
  <2> SUFFICES ASSUME NEW j \in DOMAIN events', ~Matches(content, events'[j])
               PROVE \E k \in DOMAIN events' : k > j /\ About(events'[k], events'[j].wd, events'[j].name)
    BY <1>1 DEF LastInv, Last
  <2>1. j + 1 \in DOMAIN events /\ events'[j] = events[j + 1] /\ j + 1 \in Nat /\ j \in Nat
    BY <1>2
  <2>2. PICK k \in DOMAIN events : k > j + 1 /\ About(events[k], events[j + 1].wd, events[j + 1].name)
    BY <2>1 DEF IInv, LastInv, Last
  <2>3. k # 1 /\ k \in Nat
    BY <1>2, <1>1, <2>1, <2>2
  <2>4. k - 1 \in DOMAIN events' /\ events'[k - 1] = events[k] /\ k - 1 > j
    BY <1>2, <2>1, <2>2, <2>3
  <2>5. QED
    BY <2>1, <2>2, <2>4
<1>8. ASSUME NEW d, NEW n, Named(d, n), ~Named(d, n)'
      PROVE  About(e, d, n) /\ Matches(content, e)
  <2>1. \A j \in DOMAIN events : About(events[j], d, n) => j = 1
    BY <1>2, <1>8 DEF Named
  <2>2. About(e, d, n)
    BY <1>2, <1>8, <2>1 DEF Named
  <2>3. QED
    BY <1>2, <2>1, <2>2 DEF IInv, LastInv, Last, About
<1>9. ASSUME NEW d, NEW n, Gone(d, n), ~Gone(d, n)'
      PROVE  About(e, d, n) /\ e.mask \notin {"CREATE", "MODIFY"}
  <2>1. \A j \in DOMAIN events : About(events[j], d, n) /\ events[j].mask \notin {"CREATE", "MODIFY"} => j = 1
    BY <1>2, <1>9 DEF Gone
  <2>2. QED
    BY <1>2, <1>9, <2>1 DEF Gone
<1>10. QED
  BY <1>2, <1>3, <1>4, <1>5, <1>6, <1>7, <1>8, <1>9 DEF e

\* The path of an event: a name in Root, or a file in a directory that is in the table.
LEMMA EventPlace ==
    ASSUME IInv, Takes, Head(events).wd \in DOMAIN watchItems
    PROVE  /\ EventPath \in Paths
           /\ \/ /\ Head(events).wd = Root /\ Head(events).name \in RootNames
                 /\ EventDir = <<>> /\ EventPath = <<Head(events).name>>
              \/ /\ Head(events).wd # Root /\ Head(events).wd \in SubDirs /\ ~Head(events).dir
                 /\ Head(events).name \in InnerNames
                 /\ \E k \in RootNames : EventDir = <<k>> /\ EventPath = <<k, Head(events).name>>
<1>1. /\ Started /\ Head(events) \in Events /\ Of(content, made, watched, Head(events))
      /\ TableInv /\ made \subseteq SubDirs
      /\ watchItems \in [DOMAIN watchItems -> {<<>>} \cup Tops]
  BY HeadEvent DEF IInv, UserTypes, MonitorTypes
<1>2. CASE Head(events).wd = Root
  <2>1. EventDir = <<>> /\ Head(events).name \in RootNames
    BY <1>1, <1>2 DEF EventDir, Started, Of, NamesIn
  <2>2. EventPath = <<Head(events).name>>
    BY <2>1, TopPath DEF EventPath
  <2>3. QED
    BY <1>2, <2>1, <2>2, TopPath
<1>3. CASE Head(events).wd # Root
  <2>1. Head(events).wd \in SubDirs /\ watchItems[Head(events).wd] \in Tops
    BY <1>1, <1>3 DEF TableInv
  <2>2. PICK k \in RootNames : EventDir = <<k>>
    BY <2>1 DEF EventDir, Tops
  <2>3. ~Head(events).dir /\ Head(events).name \in InnerNames
    BY <1>1, <1>3, <2>1, MonitorAssumption DEF Of, NamesIn, Entries
  <2>4. EventPath = <<k, Head(events).name>> /\ EventPath \in Paths
    BY <2>2, <2>3, InnerPath DEF EventPath
  <2>5. QED
    BY <1>3, <2>1, <2>2, <2>3, <2>4
<1>4. QED
  BY <1>2, <1>3

\* A directory that appears is watched and scanned.
Scanning(n) == calls = WatchAndScan(<<n>>)
ScanningCalls ==
    \A n \in RootNames : Scanning(n) =>
        /\ calls \in Seq(Calls) /\ StackInv /\ WatchInv /\ ~Polling
        /\ WillDo("watch", n) /\ \A m : WillEnter("scan", n, m)

LEMMA ScanningFacts == ScanningCalls
<1> SUFFICES ASSUME NEW n \in RootNames, Scanning(n)
             PROVE  /\ calls \in Seq(Calls) /\ StackInv /\ WatchInv /\ ~Polling
                    /\ WillDo("watch", n) /\ \A m : WillEnter("scan", n, m)
  BY DEF ScanningCalls
<1> DEFINE p == <<n>>
<1>1. p \in Tops /\ p # <<>>
  BY TopPath DEF Tops
<1>2. /\ Len(calls) = 2 /\ calls[1] = Call("watch", p) /\ calls[2] = Call("scan", p)
      /\ DOMAIN calls = {1, 2} /\ Call("watch", p) \in Calls /\ Call("scan", p) \in Calls
  BY <1>1 DEF Scanning, WatchAndScan, Call, Calls, Ops
<1>3. calls \in Seq(Calls)
  BY <1>2 DEF Scanning, WatchAndScan
<1> HIDE DEF p
<1>4. ~Polling
  BY <1>2 DEF Polling, Call
<1>5. StackInv
  BY <1>1, <1>2, <1>4 DEF StackInv, Call
<1>6. \A k : Whole(calls[2], "scan", k) <=> p = <<k>>
  BY <1>1, <1>2 DEF Whole, Meets, LeftOf, Call
<1>7. \A k : /\ Whole(calls[1], "watch", k) <=> p = <<k>>
             /\ ~Whole(calls[2], "watch", k)
  BY <1>1, <1>2 DEF Whole, Meets, LeftOf, Call
<1>8. WatchInv
  BY <1>2, <1>6, <1>7 DEF WatchInv
<1>9. WillDo("watch", n)
  BY <1>2, <1>7 DEF WillDo, p
<1>10. \A m : WillEnter("scan", n, m)
  BY <1>2 DEF WillEnter, Enters, LeftOf, Call, p
<1>11. QED
  BY <1>3, <1>4, <1>5, <1>8, <1>9, <1>10

LEMMA ScanningFactsNext == ScanningCalls'
BY ScanningFacts, PTL

\* The calls that an event leads to.
LeadsToScan ==
    /\ Selecting' \/ \E n \in RootNames : Scanning(n)'
    /\ \A n \in RootNames :
         About(Head(events), Root, n) /\ Head(events).dir /\ Head(events).mask \in {"CREATE", "MOVED_TO"} =>
           Scanning(n)'

LEMMA Handled ==
    ASSUME IInv, Takes, LeadsToScan, move' \in Moves \cup {NoMove}
    PROVE  /\ UserTypes' /\ MonitorTypes' /\ TreeInv' /\ HeardInv' /\ LastInv'
           /\ StartInv' /\ TableInv' /\ ItemInv' /\ StackInv' /\ WatchInv'
           /\ \A n \in RootNames : TopPolled(n)' /\ \A m \in InnerNames : InPolled(n, m)'
           /\ \A n \in RootNames, m \in InnerNames : View(<<n, m>>) # Absent /\ Named(Root, n) =>
                Named(Root, n)' \/ WillEnter("scan", n, m)'
<1>1. /\ Started /\ Head(events) \in Events /\ Of(content, made, watched, Head(events))
      /\ UserTypes' /\ TreeInv' /\ HeardInv' /\ LastInv'
      /\ \A n : Named(Root, n) =>
           Named(Root, n)' \/ (About(Head(events), Root, n) /\ Matches(content, Head(events)))
  BY HeadEvent
<1>2. /\ UNCHANGED <<content, made, watched, watchItems, snapshots, seen>> /\ Selecting
      /\ UserTypes /\ TreeInv /\ MonitorTypes
      /\ \A n : Top(n)' = Top(n)
  BY ViewsStay DEF Takes, userVars, IInv
<1>3. /\ calls' \in Seq(Calls) /\ StackInv' /\ WatchInv' /\ ~Polling'
      /\ \A n \in RootNames : Scanning(n)' => WillDo("watch", n)' /\ \A m : WillEnter("scan", n, m)'
  <2>1. \A n \in RootNames : Scanning(n)' =>
          /\ calls' \in Seq(Calls) /\ StackInv' /\ WatchInv' /\ ~Polling'
          /\ WillDo("watch", n)' /\ \A m : WillEnter("scan", n, m)'
    BY ScanningFactsNext DEF ScanningCalls
  <2>2. Selecting' => calls' \in Seq(Calls) /\ StackInv' /\ WatchInv' /\ ~Polling'
    BY NothingRunsNext DEF NoCalls
  <2>3. QED
    BY <2>1, <2>2 DEF LeadsToScan
<1>4. ASSUME NEW n \in RootNames, Top(n) \in SubDirs, Named(Root, n), ~Named(Root, n)'
      PROVE  Scanning(n)'
  <2>1. About(Head(events), Root, n) /\ Matches(content, Head(events))
    BY <1>1, <1>4
  <2>2. Head(events).dir /\ Head(events).mask \in Appears
    BY <1>2, <1>4, <2>1, TopFacts DEF Matches, About, Top
  <2>3. Head(events).mask \in {"CREATE", "MOVED_TO"}
    BY <1>1, <2>2 DEF Of, Appears
  <2>4. QED
    BY <2>1, <2>2, <2>3 DEF LeadsToScan
<1>5. StartInv'
  BY <1>1, <1>2, StartedStays
<1>6. TableInv'
  BY <1>2, ViewsStay DEF IInv, TableInv
<1>7. ItemInv'
  <2> SUFFICES ASSUME NEW n \in RootNames, Top(n) \in SubDirs \cap DOMAIN watchItems
               PROVE  watchItems[Top(n)] = <<n>> \/ Named(Root, n)' \/ WillDo("watch", n)'
    BY <1>2 DEF ItemInv
  <2>1. watchItems[Top(n)] = <<n>> \/ Named(Root, n)
    BY <1>2, NothingRuns DEF IInv, ItemInv, NoCalls
  <2>2. QED
    BY <1>3, <1>4, <2>1
<1>8. MonitorTypes'
  BY <1>2, <1>3 DEF MonitorTypes
<1>9. \A n \in RootNames : TopPolled(n)' /\ \A m \in InnerNames : InPolled(n, m)'
  BY <1>3 DEF TopPolled, InPolled
<1>10. ASSUME NEW n \in RootNames, NEW m \in InnerNames, View(<<n, m>>) # Absent, Named(Root, n)
       PROVE  Named(Root, n)' \/ WillEnter("scan", n, m)'
  BY <1>2, <1>3, <1>4, <1>10, ListedNames
<1>11. QED
  BY <1>1, <1>3, <1>5, <1>6, <1>7, <1>8, <1>9, <1>10

\* Of the rest, only the path of the event has something less to come.
LEMMA LessToCome ==
    ASSUME IInv, Takes, Head(events).wd \in DOMAIN watchItems,
           NEW n \in RootNames
    PROVE  /\ ~WillMeet("scan", n)
           /\ Named(Root, n) => Named(Root, n)'
                \/ (<<n>> = EventPath /\ (Head(events).mask \in Appears <=> View(<<n>>) # Absent))
           /\ Gone(Root, n) => Gone(Root, n)'
                \/ (<<n>> = EventPath /\ Head(events).mask \notin {"CREATE", "MODIFY"})
           /\ \A m \in InnerNames :
                /\ ~WillEnter("scan", n, m)
                /\ View(<<n, m>>) # Absent /\ Named(Top(n), m) /\ watchItems[Top(n)] = <<n>> =>
                     Named(Top(n), m)' \/ (<<n, m>> = EventPath /\ Head(events).mask \in Appears)
<1>1. /\ \A d, k : Named(d, k) =>
           Named(d, k)' \/ (About(Head(events), d, k) /\ Matches(content, Head(events)))
      /\ \A d, k : Gone(d, k) =>
           Gone(d, k)' \/ (About(Head(events), d, k) /\ Head(events).mask \notin {"CREATE", "MODIFY"})
  BY HeadEvent
<1>2. /\ UserTypes /\ TreeInv /\ Selecting
      /\ \A k : Top(k)' = Top(k)
  BY ViewsStay DEF IInv, Takes, userVars
<1>3. \/ /\ Head(events).wd = Root /\ Head(events).name \in RootNames
         /\ EventDir = <<>> /\ EventPath = <<Head(events).name>>
      \/ /\ Head(events).wd # Root
         /\ \E k \in RootNames : EventDir = <<k>> /\ EventPath = <<k, Head(events).name>>
  BY EventPlace
<1>4. ~WillMeet("scan", n) /\ \A m : ~WillEnter("scan", n, m)
  BY <1>2, NothingRuns DEF NoCalls
<1>5. Named(Root, n) => Named(Root, n)'
        \/ (<<n>> = EventPath /\ (Head(events).mask \in Appears <=> View(<<n>>) # Absent))
  <2> SUFFICES ASSUME Named(Root, n), ~Named(Root, n)'
               PROVE  <<n>> = EventPath /\ (Head(events).mask \in Appears <=> View(<<n>>) # Absent)
    OBVIOUS
  <2>1. /\ Head(events).wd = Root /\ Head(events).name = n
        /\ Head(events).mask \in Appears <=> Top(n) # Absent
    BY <1>1 DEF About, Matches, Top
  <2>2. View(<<n>>) # Absent <=> Top(n) # Absent
    BY <1>2, TopFacts, TopPath, MonitorAssumption DEF View
  <2>3. QED
    BY <1>3, <2>1, <2>2
<1>6. Gone(Root, n) => Gone(Root, n)' \/ (<<n>> = EventPath /\ Head(events).mask \notin {"CREATE", "MODIFY"})
  BY <1>1, <1>3 DEF About
<1>7. ASSUME NEW m \in InnerNames, View(<<n, m>>) # Absent,
             Named(Top(n), m), watchItems[Top(n)] = <<n>>, ~Named(Top(n), m)'
      PROVE  <<n, m>> = EventPath /\ Head(events).mask \in Appears
  <2>1. /\ Head(events).wd = Top(n) /\ Head(events).name = m
        /\ Head(events).mask \in Appears <=> content[Top(n)][m] # Absent
    BY <1>1, <1>2, <1>7 DEF About, Matches
  <2>2. EventDir = <<n>> /\ Head(events).wd # Root
    BY <1>2, <1>7, <2>1, TopFacts DEF EventDir
  <2>3. content[Top(n)][m] # Absent
    BY <1>2, <1>7, ListedNames DEF Listed
  <2>4. QED
    BY <1>3, <2>1, <2>2, <2>3
<1>8. QED
  BY <1>2, <1>4, <1>5, <1>6, <1>7

LEMMA IgnoredKeeps == IInv /\ Ignored => IInv'
<1> SUFFICES ASSUME IInv, Ignored PROVE IInv'
  OBVIOUS
<1>1. /\ Takes /\ Selecting /\ Selecting' /\ Head(events).wd \notin DOMAIN watchItems
      /\ UNCHANGED <<content, watchItems, snapshots, seen, move, calls, pending, replica, suspect, stale>>
  BY DEF Ignored, Takes, Selecting, userVars, monitorVars, backupVars
<1>2. /\ Started /\ UserTypes /\ TreeInv
      /\ \A d, n : Named(d, n) => Named(d, n)' \/ d = Head(events).wd
      /\ \A d, n : Gone(d, n) => Gone(d, n)' \/ d = Head(events).wd
      /\ \A n : Top(n)' = Top(n)
      /\ \A p : View(p)' = View(p)
  BY <1>1, HeadEvent, ViewsStay DEF About, IInv
<1>3. Head(events).wd # Root
  BY <1>1, <1>2 DEF Started
<1>4. LeadsToScan /\ move' \in Moves \cup {NoMove}
  BY <1>1, <1>3 DEF LeadsToScan, About, IInv, MonitorTypes
<1>5. /\ UserTypes' /\ MonitorTypes' /\ TreeInv' /\ HeardInv' /\ LastInv'
      /\ StartInv' /\ TableInv' /\ ItemInv' /\ StackInv' /\ WatchInv'
      /\ \A n \in RootNames : TopPolled(n)' /\ \A m \in InnerNames : InPolled(n, m)'
  BY <1>1, <1>4, Handled
<1>6. BackupTypes'
  BY <1>1 DEF IInv, BackupTypes
<1>7. NoCalls
  BY <1>1, NothingRuns
<1>8. ASSUME NEW n \in RootNames PROVE Unlike(n)' /\ Outdated(n)' /\ TopComing(n)'
  <2>1. Unlike(n) /\ Outdated(n) /\ TopComing(n) /\ ~WillMeet("scan", n)
    BY <1>7 DEF IInv, TopInv, NoCalls
  <2>2. Unlike(n)' /\ Outdated(n)'
    BY <1>1, <1>2, <1>3, <2>1 DEF Unlike, Outdated, Moving
  <2>3. TopComing(n)'
    BY <1>1, <1>2, <1>3, <2>1 DEF TopComing, InStep, Moving
  <2>4. QED
    BY <2>2, <2>3
<1>9. ASSUME NEW n \in RootNames, NEW m \in InnerNames
      PROVE  InComing(n, m)' /\ Inner(n, m)' /\ Remembered(n, m)'
  <2>1. InComing(n, m) /\ Inner(n, m) /\ Remembered(n, m) /\ ~WillEnter("scan", n, m)
    BY <1>7 DEF IInv, InInv, NoCalls
  <2>2. Inner(n, m)' /\ Remembered(n, m)'
    BY <1>1, <2>1 DEF Inner, Remembered, Agrees, Known
  <2>3. InComing(n, m)'
    BY <1>1, <1>2, <1>3, <2>1 DEF InComing, InStep
  <2>4. QED
    BY <2>2, <2>3
<1>10. TopInv' /\ InInv'
  BY <1>5, <1>8, <1>9 DEF TopInv, InInv
<1>11. QED
  BY <1>5, <1>6, <1>10 DEF IInv

\* A handler of events of its kind; what it does next is to watch and scan a directory that appeared.
LEMMA HandlerTakes ==
    ASSUME IInv, NEW mask, Handles(mask),
           (UNCHANGED calls /\ mask \notin {"CREATE", "MOVED_TO"}) \/ calls' = NewDirCalls
    PROVE  /\ Takes /\ LeadsToScan /\ Head(events).wd \in DOMAIN watchItems /\ Head(events).mask = mask
           /\ UNCHANGED <<content, watchItems, snapshots>>
<1>1. /\ Takes /\ Selecting /\ Head(events).wd \in DOMAIN watchItems /\ Head(events).mask = mask
      /\ UNCHANGED <<content, watchItems, snapshots>>
  BY DEF Handles, Takes, userVars
<1>2. CASE UNCHANGED calls /\ mask \notin {"CREATE", "MOVED_TO"}
  BY <1>1, <1>2 DEF LeadsToScan, Selecting
<1>3. CASE calls' = NewDirCalls
  <2>1. \/ Head(events).wd = Root /\ Head(events).name \in RootNames /\ EventPath = <<Head(events).name>>
        \/ Head(events).wd # Root /\ ~Head(events).dir
    BY <1>1, EventPlace
  <2>2. CASE Head(events).dir
    <3>1. PICK n \in RootNames : Head(events).name = n /\ EventPath = <<n>>
      BY <2>1, <2>2
    <3>2. calls' = WatchAndScan(EventPath)
      BY <1>3, <2>2 DEF NewDirCalls
    <3>3. Scanning(n)'
      BY <3>1, <3>2 DEF Scanning, WatchAndScan
    <3>4. QED
      BY <1>1, <3>1, <3>3 DEF LeadsToScan, About, Scanning
  <2>3. CASE ~Head(events).dir
    <3>1. calls' = <<>>
      BY <1>3, <2>3 DEF NewDirCalls
    <3>2. Selecting'
      BY <3>1 DEF Selecting
    <3>3. \A n : ~(About(Head(events), Root, n) /\ Head(events).dir /\ Head(events).mask \in {"CREATE", "MOVED_TO"})
      BY <2>3
    <3>4. QED
      BY <1>1, <3>2, <3>3 DEF LeadsToScan
  <2>4. QED
    BY <2>2, <2>3
<1>4. QED
  BY <1>1, <1>2, <1>3

LEMMA MovedFromKeeps == IInv /\ MovedFrom => IInv'
<1> SUFFICES ASSUME IInv, MovedFrom PROVE IInv'
  OBVIOUS
<1> DEFINE e == Head(events)
<1>1. /\ Takes /\ LeadsToScan /\ e.wd \in DOMAIN watchItems /\ e.mask = "MOVED_FROM"
      /\ UNCHANGED <<content, watchItems, snapshots, pending, replica, stale>>
      /\ e.mask \notin Appears
      /\ move' = [cookie |-> e.cookie, path |-> EventPath, waits |-> 0]
      /\ suspect' = suspect \cup Forgotten
  BY HandlerTakes DEF MovedFrom, Appears
<1>2. e.cookie \in 1 .. MaxChanges /\ EventPath \in Paths
  BY <1>1, HeadEvent, EventPlace, EventParts
<1> HIDE DEF e
<1>3. move' \in Moves /\ move' # NoMove /\ move'.path = EventPath
  BY <1>1, <1>2, MonitorAssumption DEF Moves
<1>4. /\ UserTypes' /\ MonitorTypes' /\ TreeInv' /\ HeardInv' /\ LastInv'
      /\ StartInv' /\ TableInv' /\ ItemInv' /\ StackInv' /\ WatchInv'
      /\ \A n \in RootNames : TopPolled(n)' /\ \A m \in InnerNames : InPolled(n, m)'
      /\ \A n \in RootNames, m \in InnerNames : View(<<n, m>>) # Absent /\ Named(Root, n) =>
           Named(Root, n)' \/ WillEnter("scan", n, m)'
  BY <1>1, <1>3, Handled
<1>5. /\ \A n : Top(n)' = Top(n)
      /\ \A p : View(p)' = View(p)
      /\ suspect' \subseteq Paths /\ suspect \subseteq suspect'
      /\ \A n \in RootNames : Moving(n) => <<n>> \in suspect'
  <2>1. \A n \in RootNames : Moving(n) => <<n>> \in Forgotten
    BY TopPath DEF Moving, Forgotten, Under
  <2>2. QED
    BY <1>1, <2>1, ViewsStay DEF IInv, BackupTypes, Forgotten
<1>6. BackupTypes'
  BY <1>1, <1>5 DEF IInv, BackupTypes
<1>7. ASSUME NEW n \in RootNames PROVE Unlike(n)' /\ Outdated(n)' /\ TopComing(n)'
  <2>1. Unlike(n) /\ Outdated(n) /\ TopComing(n)
    BY DEF IInv, TopInv
  <2>2. /\ ~WillMeet("scan", n)
        /\ Named(Root, n) => Named(Root, n)' \/ View(<<n>>) = Absent
        /\ Gone(Root, n) => Gone(Root, n)' \/ Moving(n)'
    BY <1>1, <1>3, LessToCome DEF Moving, e
  <2>3. Unlike(n)' /\ Outdated(n)'
    BY <1>1, <1>5, <2>1, <2>2 DEF Unlike, Outdated
  <2>4. TopComing(n)'
    BY <1>1, <1>5, <2>1, <2>2 DEF TopComing, InStep
  <2>5. QED
    BY <2>3, <2>4
<1>8. ASSUME NEW n \in RootNames, NEW m \in InnerNames
      PROVE  InComing(n, m)' /\ Inner(n, m)' /\ Remembered(n, m)'
  <2>1. InComing(n, m) /\ Inner(n, m) /\ Remembered(n, m)
    BY DEF IInv, InInv
  <2>2. Inner(n, m)' /\ Remembered(n, m)'
    BY <1>1, <1>5, <2>1 DEF Inner, Remembered, Agrees, Known
  <2>3. ~WillEnter("scan", n, m)
    BY <1>1, LessToCome DEF e
  <2>4. View(<<n, m>>) # Absent /\ Named(Top(n), m) /\ watchItems[Top(n)] = <<n>> =>
          Named(Top(n), m)' \/ (<<n, m>> = EventPath /\ e.mask \in Appears)
    BY <1>1, LessToCome DEF e
  <2>5. InComing(n, m)'
    BY <1>1, <1>4, <1>5, <2>1, <2>3, <2>4 DEF InComing, InStep
  <2>6. QED
    BY <2>2, <2>5
<1>9. TopInv' /\ InInv'
  BY <1>4, <1>7, <1>8 DEF TopInv, InInv
<1>10. QED
  BY <1>4, <1>6, <1>9 DEF IInv

LEMMA EventTask ==
    ASSUME IInv, Takes, LeadsToScan, Head(events).wd \in DOMAIN watchItems, move' \in Moves \cup {NoMove},
           NEW S, EventPath \in S, pending' = Waiting(DOMAIN pending \ S), stale' = Astray(Below(S)),
           \A n \in RootNames : Moving(n) => Moving(n)' \/ <<n>> \in suspect' \/ <<n>> \in S
    PROVE  AfterTask(S)
<1>1. \A n \in RootNames :
        /\ ~WillMeet("scan", n)
        /\ Named(Root, n) => Named(Root, n)' \/ <<n>> \in S
        /\ Gone(Root, n) => Gone(Root, n)' \/ <<n>> \in S
  BY LessToCome
<1>2. ASSUME NEW n \in RootNames, NEW m \in InnerNames, View(<<n, m>>) # Absent
      PROVE  /\ ~WillEnter("scan", n, m)
             /\ Named(Root, n) => Named(Root, n)' \/ WillEnter("scan", n, m)'
             /\ Named(Top(n), m) /\ watchItems[Top(n)] = <<n>> => Named(Top(n), m)' \/ <<n, m>> \in S
  <2>1. Named(Root, n) => Named(Root, n)' \/ WillEnter("scan", n, m)'
    BY <1>2, Handled
  <2>2. /\ ~WillEnter("scan", n, m)
        /\ Named(Top(n), m) /\ watchItems[Top(n)] = <<n>> => Named(Top(n), m)' \/ <<n, m>> \in S
    BY <1>2, LessToCome
  <2>3. QED
    BY <2>1, <2>2
<1>3. QED
  BY <1>1, <1>2 DEF AfterTask

\* What is there again has been told once more: it was not the last event.
LEMMA ToldAgain ==
    ASSUME IInv, Takes, Head(events).wd \in DOMAIN watchItems, Head(events).mask \notin Appears
    PROVE  /\ \A n \in RootNames : <<n>> = EventPath /\ View(<<n>>) # Absent => Named(Root, n)'
           /\ \A n \in RootNames, m \in InnerNames :
                <<n, m>> = EventPath /\ View(<<n, m>>) # Absent /\ Found(EventDir) = Head(events).wd =>
                  Named(Top(n), m)' /\ watchItems[Top(n)] = <<n>>
<1>1. \/ /\ Head(events).wd = Root /\ Head(events).name \in RootNames
         /\ EventPath = <<Head(events).name>>
      \/ \E k \in RootNames : EventDir = <<k>> /\ EventPath = <<k, Head(events).name>>
  BY EventPlace
<1>2. Named(Head(events).wd, Head(events).name)
  <2>1. events \in Seq(Events) /\ events # <<>>
    BY DEF IInv, UserTypes, Takes
  <2>2. 1 \in DOMAIN events /\ Head(events) = events[1]
    BY <2>1
  <2>3. QED
    BY <2>2 DEF Named, About
<1>3. ASSUME NEW n \in RootNames, <<n>> = EventPath, View(<<n>>) # Absent
      PROVE  Named(Root, n)'
  <2>1. Head(events).wd = Root /\ Head(events).name = n
    BY <1>1, <1>3, PathsDiffer
  <2>2. Named(Root, n)
    BY <1>2, <2>1
  <2>3. QED
    BY <1>3, <2>2, LessToCome
<1>4. ASSUME NEW n \in RootNames, NEW m \in InnerNames,
             <<n, m>> = EventPath, View(<<n, m>>) # Absent, Found(EventDir) = Head(events).wd
      PROVE  Named(Top(n), m)' /\ watchItems[Top(n)] = <<n>>
  <2>1. EventDir = <<n>> /\ Head(events).name = m
    BY <1>1, <1>4, PathsDiffer
  <2>2. Head(events).wd = Top(n) /\ watchItems[Top(n)] = <<n>>
    BY <1>4, <2>1, TopPath DEF EventDir
  <2>3. Named(Top(n), m)
    BY <1>2, <2>1, <2>2
  <2>4. QED
    BY <1>4, <2>2, <2>3, LessToCome
<1>5. QED
  BY <1>3, <1>4

LEMMA BackupNested ==
    ASSUME IInv
    PROVE  replica \in [Paths -> Views] /\ Nested(replica)
BY DEF IInv, BackupTypes, InInv, Inner, Nested

LEMMA DeletedEntryKeeps == IInv /\ DeletedEntry => IInv'
<1> SUFFICES ASSUME IInv, DeletedEntry PROVE IInv'
  OBVIOUS
<1> DEFINE S == {EventPath}
           late == Found(EventDir) # Head(events).wd
<1>1. /\ Takes /\ LeadsToScan /\ Head(events).wd \in DOMAIN watchItems /\ Head(events).mask = "DELETE"
      /\ UNCHANGED <<content, watchItems, snapshots, move>>
      /\ Head(events).mask \notin Appears
  BY HandlerTakes DEF DeletedEntry, Appears
<1>2. /\ pending' = Waiting(DOMAIN pending \ S) /\ replica' = Deleted(replica, S)
      /\ suspect' = IF late THEN Suspects(replica', S) ELSE suspect
      /\ stale' = Astray(Below(S))
  BY DEF DeletedEntry, SendDeletes
<1>3. EventPath \in Paths /\ S \in SUBSET Paths /\ EventPath \in S /\ move' \in Moves \cup {NoMove}
  BY <1>1, EventPlace DEF IInv, MonitorTypes
<1>4. /\ UserTypes' /\ MonitorTypes' /\ TreeInv' /\ HeardInv' /\ LastInv'
      /\ StartInv' /\ TableInv' /\ ItemInv' /\ StackInv' /\ WatchInv'
      /\ \A n \in RootNames : TopPolled(n)' /\ \A m \in InnerNames : InPolled(n, m)'
  BY <1>1, <1>3, Handled
<1>5. \A n \in RootNames : Moving(n) => Moving(n)'
  BY <1>1 DEF Moving
<1>6. AfterTask(S)
  <2> HIDE DEF S
  <2>1. QED
    BY <1>1, <1>2, <1>3, <1>5, EventTask
<1>7. /\ BackupTypes'
      /\ \A n \in RootNames : Unlike(n)' /\ Outdated(n)' /\ TopComing(n)'
      /\ \A n \in RootNames, m \in InnerNames : InComing(n, m)' /\ Inner(n, m)' /\ Remembered(n, m)'
  <2>1. CASE late
    <3>1. Confined(replica, replica', S)
      BY <1>2, <1>3, BackupNested, DeletedConfined
    <3>2. suspect' = Suspects(replica', S) /\ suspect' \subseteq Paths
      BY <1>2, <2>1 DEF Suspects, IInv, BackupTypes
    <3> HIDE DEF S
    <3>3. QED
      BY <1>1, <1>3, <1>6, <3>1, <3>2, LateTask
  <2>2. CASE ~late
    <3>1. UNCHANGED suspect
      BY <1>2, <2>2
    <3>2. \A n \in RootNames : <<n>> \in S /\ View(<<n>>) # Absent => Named(Root, n)'
      BY <1>1, ToldAgain
    <3>3. \A n \in RootNames, m \in InnerNames :
            <<n, m>> \in S /\ View(<<n, m>>) # Absent /\ Top(n) \in DOMAIN watchItems =>
              Named(Root, n)' \/ (Named(Top(n), m)' /\ watchItems[Top(n)] = <<n>>)
      BY <1>1, <2>2, ToldAgain
    <3>4. \A x \in Paths \ S : /\ x \in DOMAIN snapshots' <=> x \in DOMAIN snapshots
                               /\ x \in DOMAIN snapshots => snapshots'[x] = snapshots[x]
      BY <1>1
    <3> HIDE DEF S
    <3>5. QED
      BY <1>1, <1>2, <1>3, <1>6, <3>1, <3>2, <3>3, <3>4, TimelyDelete
  <2>3. QED
    BY <2>1, <2>2
<1>8. TopInv' /\ InInv'
  BY <1>4, <1>7 DEF TopInv, InInv
<1>9. QED
  BY <1>4, <1>7, <1>8 DEF IInv

LEMMA MovedToKeeps == IInv /\ MovedTo => IInv'
<1> SUFFICES ASSUME IInv, MovedTo PROVE IInv'
  OBVIOUS
<1>1. /\ Takes /\ LeadsToScan /\ Head(events).wd \in DOMAIN watchItems /\ Head(events).mask = "MOVED_TO"
      /\ UNCHANGED <<content, watchItems, snapshots>> /\ move' = NoMove
  BY HandlerTakes DEF MovedTo
<1>2. /\ EventPath \in Paths /\ move' \in Moves \cup {NoMove} /\ move \in Moves \cup {NoMove}
      /\ UserTypes /\ TreeInv /\ suspect \subseteq Paths
  BY <1>1, EventPlace DEF IInv, MonitorTypes, BackupTypes
<1>3. /\ UserTypes' /\ MonitorTypes' /\ TreeInv' /\ HeardInv' /\ LastInv'
      /\ StartInv' /\ TableInv' /\ ItemInv' /\ StackInv' /\ WatchInv'
      /\ \A n \in RootNames : TopPolled(n)' /\ \A m \in InnerNames : InPolled(n, m)'
  BY <1>1, <1>2, Handled
<1>4. replica \in [Paths -> Views] /\ Nested(replica)
  BY BackupNested
<1>5. ASSUME NEW S, EventPath \in S, S \in SUBSET Paths, Confined(replica, replica', S),
             pending' = Waiting(DOMAIN pending \ S), stale' = Astray(Below(S)),
             suspect' \subseteq Paths, Suspects(replica', S) \subseteq suspect',
             \A n \in RootNames : Moving(n) => <<n>> \in suspect' \/ <<n>> \in S
      PROVE  /\ BackupTypes'
             /\ \A n \in RootNames : Unlike(n)' /\ Outdated(n)' /\ TopComing(n)'
             /\ \A n \in RootNames, m \in InnerNames : InComing(n, m)' /\ Inner(n, m)' /\ Remembered(n, m)'
  <2>1. AfterTask(S)
    BY <1>1, <1>2, <1>5, EventTask
  <2>2. QED
    BY <1>1, <1>5, <2>1, LateTask
<1>6. /\ BackupTypes'
      /\ \A n \in RootNames : Unlike(n)' /\ Outdated(n)' /\ TopComing(n)'
      /\ \A n \in RootNames, m \in InnerNames : InComing(n, m)' /\ Inner(n, m)' /\ Remembered(n, m)'
  <2>1. CASE move # NoMove /\ move.cookie = Head(events).cookie
    <3> DEFINE old == move.path
               S == {old, EventPath}
               in == WithDir(replica, Parent(EventPath))
    <3>1. SendRename(old, EventPath)
      BY <2>1 DEF MovedTo
    <3>2. old \in Paths
      BY <1>2, <2>1 DEF Moves
    <3>3. /\ pending' = Waiting(DOMAIN pending \ S) /\ stale' = Astray(Below(S))
          /\ suspect' = Suspects(replica', S)
          /\ replica' = IF CanRename(in, old, EventPath) THEN Renamed(in, old, EventPath)
                        ELSE Updated(in, EventPath, View(EventPath) = Dir)
      BY <3>1 DEF SendRename
    <3>4. EventPath \in S /\ S \in SUBSET Paths /\ in \in {replica, WithDir(replica, Parent(EventPath))}
      BY <1>2, <3>2
    <3>5. Confined(replica, replica', S)
      <4>1. CASE CanRename(in, old, EventPath)
        BY <1>2, <1>4, <3>2, <3>3, <4>1, RenamedConfined
      <4>2. CASE ~CanRename(in, old, EventPath)
        <5>1. replica' = Updated(in, EventPath, View(EventPath) = Dir)
          BY <3>3, <4>2
        <5> HIDE DEF S, in
        <5>2. Confined(replica, Updated(in, EventPath, View(EventPath) = Dir), S)
          BY <1>2, <1>4, <3>4, UpdatedConfined
        <5>3. QED
          BY <5>1, <5>2
      <4>3. QED
        BY <4>1, <4>2
    <3>6. \A n \in RootNames : Moving(n) => <<n>> \in S
      BY DEF Moving
    <3>7. suspect' \subseteq Paths
      BY <1>2, <3>3 DEF Suspects
    <3> HIDE DEF S
    <3>8. QED
      BY <1>5, <3>3, <3>4, <3>5, <3>6, <3>7
  <2>2. CASE ~(move # NoMove /\ move.cookie = Head(events).cookie)
    <3> DEFINE S == {EventPath}
    <3>1. SendUnpairedRename(EventPath)
      BY <2>2 DEF MovedTo
    <3>2. /\ pending' = Waiting(DOMAIN pending \ S) /\ stale' = Astray(Below(S))
          /\ suspect' = Suspects(replica', S) \cup Forgotten
          /\ replica' = Updated(replica, EventPath, View(EventPath) = Dir)
      BY <3>1 DEF SendUnpairedRename
    <3>3. EventPath \in S /\ S \in SUBSET Paths
      BY <1>2
    <3> HIDE DEF S
    <3>4. Confined(replica, Updated(replica, EventPath, View(EventPath) = Dir), S)
      BY <1>2, <1>4, <3>3, UpdatedConfined
    <3>5. \A n \in RootNames : Moving(n) => <<n>> \in suspect'
      BY <3>2, TopPath DEF Moving, Forgotten, Under
    <3>6. suspect' \subseteq Paths
      BY <1>2, <3>2 DEF Suspects, Forgotten
    <3>7. QED
      BY <1>5, <3>2, <3>3, <3>4, <3>5, <3>6
  <2>3. QED
    BY <2>1, <2>2
<1>7. TopInv' /\ InInv'
  BY <1>3, <1>6 DEF TopInv, InInv
<1>8. QED
  BY <1>3, <1>6, <1>7 DEF IInv

\* An update that is sent for an event.
LEMMA EventUpdate ==
    ASSUME IInv, NEW mask \in {"CREATE", "MODIFY"}, Handles(mask), SendUpdate(EventPath),
           UNCHANGED <<move, stale>>,
           (UNCHANGED calls /\ mask \notin {"CREATE", "MOVED_TO"}) \/ calls' = NewDirCalls
    PROVE  IInv'
<1>1. /\ Takes /\ LeadsToScan /\ Head(events).wd \in DOMAIN watchItems /\ Head(events).mask = mask
      /\ UNCHANGED <<content, watchItems, snapshots, move>>
  BY HandlerTakes
<1>2. /\ EventPath \in Paths /\ move' \in Moves \cup {NoMove} /\ Snaps(EventPath)
  BY <1>1, EventPlace DEF IInv, MonitorTypes, Snaps
<1>3. /\ UserTypes' /\ MonitorTypes' /\ TreeInv' /\ HeardInv' /\ LastInv'
      /\ StartInv' /\ TableInv' /\ ItemInv' /\ StackInv' /\ WatchInv'
      /\ \A n \in RootNames : TopPolled(n)' /\ \A m \in InnerNames : InPolled(n, m)'
      /\ \A n \in RootNames, m \in InnerNames : View(<<n, m>>) # Absent /\ Named(Root, n) =>
           Named(Root, n)' \/ WillEnter("scan", n, m)'
  BY <1>1, <1>2, Handled
<1>4. \A n \in RootNames :
        /\ ~WillMeet("scan", n)
        /\ Named(Root, n) => Named(Root, n)' \/ <<n>> = EventPath
        /\ Gone(Root, n) => Gone(Root, n)'
  BY <1>1, LessToCome
<1>5. ASSUME NEW n \in RootNames, NEW m \in InnerNames, View(<<n, m>>) # Absent
      PROVE  /\ ~WillEnter("scan", n, m)
             /\ Named(Top(n), m) /\ watchItems[Top(n)] = <<n>> => Named(Top(n), m)' \/ <<n, m>> = EventPath
  BY <1>1, <1>5, LessToCome
<1>6. StillComing(EventPath)
  BY <1>3, <1>4, <1>5 DEF StillComing
<1>7. /\ BackupTypes' /\ SnapshotTypes'
      /\ \A n \in RootNames : Unlike(n)' /\ Outdated(n)' /\ TopComing(n)'
      /\ \A n \in RootNames, m \in InnerNames : InComing(n, m)' /\ Inner(n, m)' /\ Remembered(n, m)'
  BY <1>1, <1>2, <1>6, UpdateKeeps
<1>8. TopInv' /\ InInv'
  BY <1>3, <1>7 DEF TopInv, InInv
<1>9. QED
  BY <1>3, <1>7, <1>8 DEF IInv

LEMMA CreatedEntryKeeps == IInv /\ CreatedEntry => IInv'
<1> SUFFICES ASSUME IInv, CreatedEntry PROVE IInv'
  OBVIOUS
<1>1. Handles("CREATE") /\ SendUpdate(EventPath) /\ UNCHANGED <<move, stale>> /\ calls' = NewDirCalls
  BY DEF CreatedEntry
<1>2. QED
  BY <1>1, EventUpdate

LEMMA ModifiedEntryKeeps == IInv /\ ModifiedEntry => IInv'
<1> SUFFICES ASSUME IInv, ModifiedEntry PROVE IInv'
  OBVIOUS
<1>1. Handles("MODIFY") /\ SendUpdate(EventPath) /\ UNCHANGED <<calls, move, stale>>
  BY DEF ModifiedEntry
<1>2. QED
  BY <1>1, EventUpdate
-----------------------------------------------------------------------------
(* Time-outs *)

\* A poll has all of the tree before it.
Starting == calls = <<Call("poll", <<>>), Call("deletes", <<>>)>>
WholePoll ==
    /\ calls \in Seq(Calls) /\ StackInv /\ WatchInv
    /\ \A n : WillMeet("poll", n) /\ \A m : WillEnter("poll", n, m)

LEMMA StartingPoll == Starting => WholePoll
<1> SUFFICES ASSUME Starting PROVE WholePoll
  OBVIOUS
<1> DEFINE p == <<>>
<1>1. /\ Len(calls) = 2 /\ calls[1] = Call("poll", p) /\ calls[2] = Call("deletes", p)
      /\ DOMAIN calls = {1, 2} /\ Call("poll", p) \in Calls /\ Call("deletes", p) \in Calls
  BY DEF Starting, Call, Calls, Ops
<1>2. calls \in Seq(Calls)
  BY <1>1 DEF Starting
<1>3. Polling
  BY <1>1 DEF Polling, Call
<1>4. StackInv
  BY <1>1, <1>3 DEF StackInv, Call
<1>5. WatchInv
  BY <1>1 DEF WatchInv, Whole, Meets, Call
<1>6. \A n : WillMeet("poll", n) /\ \A m : WillEnter("poll", n, m)
  BY <1>1 DEF WillMeet, WillEnter, Enters, Meets, LeftOf, Call
<1>7. QED
  BY <1>2, <1>4, <1>5, <1>6 DEF WholePoll

LEMMA StartingPollNext == Starting' => WholePoll'
BY StartingPoll, PTL

LEMMA TimeOutKeeps == ASSUME NEW expired, IInv, TimeOut(expired) PROVE IInv'
<1>1. /\ Selecting /\ UNCHANGED <<userVars, content, watched, events, watchItems, snapshots>>
      /\ seen' = {} /\ Starting'
      /\ move' = IF expired \/ move = NoMove THEN NoMove ELSE [move EXCEPT !.waits = @ + 1]
      /\ expired \in (IF move = NoMove THEN {FALSE} ELSE IF move.waits = 2 THEN {TRUE} ELSE BOOLEAN)
      /\ IF expired THEN SendDeletes({move.path}, TRUE) ELSE UNCHANGED backupVars
  BY DEF TimeOut, Starting, userVars
<1>2. /\ calls' \in Seq(Calls) /\ StackInv' /\ WatchInv'
      /\ \A n : WillMeet("poll", n)' /\ \A m : WillEnter("poll", n, m)'
  BY <1>1, StartingPollNext DEF WholePoll
<1>3. NoCalls
  BY <1>1, NothingRuns
<1>4. /\ \A d, n : (Named(d, n)' <=> Named(d, n)) /\ (Gone(d, n)' <=> Gone(d, n))
      /\ \A n : Top(n)' = Top(n)
      /\ \A p : View(p)' = View(p)
  BY <1>1, NamesStay, ViewsStay
<1>5. /\ move \in Moves \cup {NoMove} /\ suspect \subseteq Paths
      /\ ~expired => (move # NoMove => /\ move' \in Moves /\ move' # NoMove /\ move'.path = move.path)
      /\ move' \in Moves \cup {NoMove}
  <2>1. move \in Moves \cup {NoMove} /\ suspect \subseteq Paths
    BY DEF IInv, MonitorTypes, BackupTypes
  <2>2. ASSUME ~expired, move # NoMove
        PROVE  move' \in Moves /\ move' # NoMove /\ move'.path = move.path
    <3>1. move \in Moves /\ move.waits # 2 /\ move' = [move EXCEPT !.waits = @ + 1]
      BY <1>1, <2>1, <2>2
    <3>2. move.waits + 1 \in 0 .. 2
      BY <3>1 DEF Moves
    <3>3. move' \in Moves /\ move'.path = move.path
      BY <3>1, <3>2 DEF Moves
    <3>4. QED
      BY <3>3, MonitorAssumption
  <2>3. QED
    BY <1>1, <2>1, <2>2
<1>6. Started
  BY <1>1 DEF IInv, StartInv, Fresh, Selecting, WatchAndScan
<1>7. UserTypes' /\ TreeInv' /\ HeardInv' /\ LastInv' /\ StartInv' /\ TableInv' /\ ItemInv'
  BY <1>1, <1>2, <1>3, <1>6, CallStep DEF NoCalls
<1>8. MonitorTypes'
  BY <1>1, <1>2, <1>5 DEF IInv, MonitorTypes
<1>9. \A n \in RootNames : TopPolled(n)' /\ \A m \in InnerNames : InPolled(n, m)'
  BY <1>2 DEF TopPolled, InPolled
<1>10. /\ BackupTypes'
       /\ \A n \in RootNames : Unlike(n)' /\ Outdated(n)' /\ TopComing(n)'
       /\ \A n \in RootNames, m \in InnerNames : InComing(n, m)' /\ Inner(n, m)' /\ Remembered(n, m)'
  <2>1. CASE expired
    <3> DEFINE S == {move.path}
    <3>1. move # NoMove /\ move.path \in Paths
      BY <1>1, <1>5, <2>1 DEF Moves
    <3>2. /\ pending' = Waiting(DOMAIN pending \ S) /\ replica' = Deleted(replica, S)
          /\ suspect' = Suspects(replica', S) /\ stale' = Astray(Below(S))
      BY <1>1, <2>1 DEF SendDeletes
    <3>3. /\ S \in SUBSET Paths /\ suspect' \subseteq Paths
          /\ \A n \in RootNames : Moving(n) => <<n>> \in S
      BY <1>5, <3>1, <3>2 DEF Moving, Suspects
    <3> HIDE DEF S
    <3>4. AfterTask(S)
      BY <1>3, <1>4, <3>2, <3>3 DEF AfterTask, NoCalls
    <3>5. Confined(replica, replica', S)
      BY <3>2, <3>3, BackupNested, DeletedConfined
    <3>6. QED
      BY <1>1, <3>2, <3>3, <3>4, <3>5, LateTask
  <2>2. CASE ~expired
    <3>1. /\ UNCHANGED <<pending, replica, suspect, stale, watchItems, snapshots>>
          /\ \A n : Moving(n) => Moving(n)'
      BY <1>1, <1>5, <2>2 DEF Moving, backupVars
    <3>2. BackupTypes'
      BY <3>1 DEF IInv, BackupTypes
    <3>3. ASSUME NEW n \in RootNames PROVE Unlike(n)' /\ Outdated(n)' /\ TopComing(n)'
      <4>1. Unlike(n) /\ Outdated(n) /\ TopComing(n) /\ ~WillMeet("scan", n)
        BY <1>3 DEF IInv, TopInv, NoCalls
      <4>2. Unlike(n)' /\ Outdated(n)'
        BY <1>4, <3>1, <4>1 DEF Unlike, Outdated
      <4>3. TopComing(n)'
        BY <1>4, <3>1, <4>1 DEF TopComing, InStep
      <4>4. QED
        BY <4>2, <4>3
    <3>4. ASSUME NEW n \in RootNames, NEW m \in InnerNames
          PROVE  InComing(n, m)' /\ Inner(n, m)' /\ Remembered(n, m)'
      <4>1. InComing(n, m) /\ Inner(n, m) /\ Remembered(n, m) /\ ~WillEnter("scan", n, m)
        BY <1>3 DEF IInv, InInv, NoCalls
      <4>2. Inner(n, m)' /\ Remembered(n, m)'
        BY <3>1, <4>1 DEF Inner, Remembered, Agrees, Known
      <4>3. InComing(n, m)'
        BY <1>4, <3>1, <4>1 DEF InComing, InStep
      <4>4. QED
        BY <4>2, <4>3
    <3>5. QED
      BY <3>2, <3>3, <3>4
  <2>3. QED
    BY <2>1, <2>2
<1>11. TopInv' /\ InInv'
  BY <1>9, <1>10 DEF TopInv, InInv
<1>12. QED
  BY <1>2, <1>7, <1>8, <1>10, <1>11 DEF IInv
-----------------------------------------------------------------------------
(* The invariant *)

\* The monitor starts with an empty table, no snapshots and an empty backup, and is to
\* watch and to scan all of its source (monitor.c:405-409).
LEMMA InitHolds == Init => IInv
<1> SUFFICES ASSUME Init PROVE IInv
  OBVIOUS
<1>1. PICK f \in FirstRoots :
        content = [d \in Dirs |-> IF d = Root THEN f ELSE [n \in Names |-> Absent]]
  BY DEF Init
<1>2. /\ made = {content[Root][n] : n \in Names} \cap SubDirs /\ changes = 0
      /\ watched = {} /\ events = <<>> /\ watchItems = <<>> /\ snapshots = <<>> /\ seen = {}
      /\ move = NoMove /\ calls = WatchAndScan(<<>>)
      /\ pending = <<>> /\ suspect = {} /\ stale = {} /\ replica = [p \in Paths |-> Absent]
  BY DEF Init
<1>3. /\ DOMAIN watchItems = {} /\ DOMAIN snapshots = {} /\ DOMAIN pending = {} /\ DOMAIN events = {}
      /\ events \in Seq(Events)
  BY <1>2
<1>4. /\ f \in [Names -> Entries] /\ \A n \in Names \ RootNames : f[n] = Absent
      /\ \A m, n \in RootNames : f[m] = f[n] /\ f[m] \in SubDirs => m = n
      /\ Root \in Dirs /\ Root \notin SubDirs /\ Absent \notin SubDirs /\ Root # Out /\ Absent \in Entries
  BY MonitorAssumption DEF Dirs, Entries
<1>5. \A d \in Dirs : content[d] = IF d = Root THEN f ELSE [n \in Names |-> Absent]
  BY <1>1
<1>6. UserTypes
  <2>1. content \in [Dirs -> [Names -> Entries]]
    BY <1>1, <1>4
  <2>2. QED
    BY <1>2, <1>3, <2>1, MonitorAssumption DEF UserTypes
<1>7. TreeInv
  <2>1. \A d \in Dirs, n \in Names : content[d][n] = IF d = Root THEN f[n] ELSE Absent
    BY <1>5
  <2>2. \A n \in Names : f[n] # Absent => n \in RootNames
    BY <1>4
  <2>3. {Root, Out} \subseteq Dirs /\ SubDirs \subseteq Dirs
    BY DEF Dirs
  <2>4. \A d \in {Root, Out}, n \in Names : content[d][n] \in SubDirs => content[d][n] \in made
    BY <1>2, <1>4, <2>1, <2>3
  <2>5. \A d \in SubDirs, n \in Names : content[d][n] \notin SubDirs
    BY <1>4, <2>1, <2>3
  <2>6. \A d \in Dirs, n \in Names : content[d][n] # Absent => n \in NamesIn(d)
    BY <2>1, <2>2 DEF NamesIn
  <2>7. \A d, e \in {Root, Out}, n, k \in Names :
          content[d][n] \in SubDirs /\ content[d][n] = content[e][k] => d = e /\ n = k
    BY <1>4, <2>1, <2>2, <2>3
  <2>8. QED
    BY <2>4, <2>5, <2>6, <2>7 DEF TreeInv, Tree
<1>8. HeardInv /\ LastInv
  BY <1>3 DEF HeardInv, Heard, LastInv, Last
<1>9. Fresh
  BY <1>2, <1>3 DEF Fresh
<1>10. StartInv /\ TableInv /\ ItemInv
  BY <1>3, <1>9 DEF StartInv, TableInv, ItemInv
<1>11. /\ Len(calls) = 2 /\ calls[1] = Call("watch", <<>>) /\ calls[2] = Call("scan", <<>>)
       /\ DOMAIN calls = {1, 2} /\ calls \in Seq(Calls)
  BY <1>2 DEF WatchAndScan, Call, Calls, Ops
<1>12. ~Polling
  BY <1>11 DEF Polling, Call
<1>13. StackInv
  BY <1>11, <1>12 DEF StackInv, Call
<1>14. WatchInv
  <2>1. \A n : Whole(calls[2], "scan", n) /\ ~Whole(calls[2], "watch", n)
    BY <1>11 DEF Whole, Meets, LeftOf, Call
  <2>2. QED
    BY <1>11, <2>1 DEF WatchInv
<1>15. MonitorTypes
  <2>1. IsFiniteSet({}) /\ Cardinality({}) = 0
    BY FS_EmptySet
  <2>2. watchItems \in [{} -> {<<>>} \cup Tops] /\ snapshots \in [{} -> Stats]
    BY <1>2, <1>3
  <2>3. QED
    BY <1>2, <1>3, <1>11, <2>1, <2>2, MonitorAssumption DEF MonitorTypes
<1>16. BackupTypes
  <2>1. pending \in [{} -> BOOLEAN]
    BY <1>2, <1>3
  <2>2. QED
    BY <1>2, <1>3, <2>1 DEF BackupTypes, Views
<1>17. TopInv /\ InInv
  BY <1>9, FreshFacts
<1>18. QED
  BY <1>6, <1>7, <1>8, <1>10, <1>13, <1>14, <1>15, <1>16, <1>17 DEF IInv

LEMMA StutterKeeps == IInv /\ UNCHANGED vars => IInv'
<1> SUFFICES ASSUME IInv, UNCHANGED vars PROVE IInv'
  OBVIOUS
<1>1. UNCHANGED <<content, made, changes, watched, events, watchItems, snapshots, seen, move, calls,
                  backupVars, pending, replica, suspect, stale>>
  BY DEF vars, userVars, monitorVars, backupVars
<1>2. UserTypes' /\ TreeInv' /\ HeardInv' /\ LastInv'
  BY <1>1 DEF IInv, UserTypes, TreeInv, HeardInv, LastInv
<1>3. StartInv' /\ StackInv' /\ WatchInv' /\ (Polling' <=> Polling)
  BY <1>1, CallsStay DEF IInv, StartInv, Fresh, Started
<1>4. TableInv' /\ ItemInv'
  BY <1>1, ViewsStay, NamesStay, CallsStay DEF IInv, TableInv, ItemInv
<1>5. MonitorTypes'
  BY <1>1 DEF IInv, MonitorTypes
<1>6. CallsGoOn
  BY <1>1, CallsStay DEF CallsGoOn
<1>7. BackupTypes' /\ TopInv' /\ InInv'
  BY <1>1, <1>3, <1>6, OnlyCalls
<1>8. QED
  BY <1>2, <1>3, <1>4, <1>5, <1>7 DEF IInv

\* No step of the user, of a waiting update, of a call, of a handler or of a time-out
\* loses what is on its way to a path that differs from the backup.
LEMMA NextKeeps == IInv /\ [Next]_vars => IInv'
<1> SUFFICES ASSUME IInv, [Next]_vars PROVE IInv'
  OBVIOUS
<1>1. CASE User
  BY <1>1, UserKeeps
<1>2. CASE \E p \in Paths : Flush(p)
  BY <1>2, FlushKeeps
<1>3. CASE Step
  <2>1. CASE WatchDir
    BY <2>1, WatchDirKeeps
  <2>2. CASE WatchEntry
    BY <2>2, WatchEntryKeeps
  <2>3. CASE ListDir
    BY <2>3, ListDirKeeps
  <2>4. CASE ScanEntry
    BY <2>4, ScanEntryKeeps
  <2>5. CASE PollEntry
    BY <2>5, PollEntryKeeps
  <2>6. CASE PollDeletes
    BY <2>6, PollDeletesKeeps
  <2>7. CASE Ignored
    BY <2>7, IgnoredKeeps
  <2>8. CASE MovedFrom
    BY <2>8, MovedFromKeeps
  <2>9. CASE MovedTo
    BY <2>9, MovedToKeeps
  <2>10. CASE DeletedEntry
    BY <2>10, DeletedEntryKeeps
  <2>11. CASE CreatedEntry
    BY <2>11, CreatedEntryKeeps
  <2>12. CASE ModifiedEntry
    BY <2>12, ModifiedEntryKeeps
  <2>13. CASE \E expired \in BOOLEAN : TimeOut(expired)
    BY <2>13, TimeOutKeeps
  <2>14. QED
    BY <1>3, <2>1, <2>2, <2>3, <2>4, <2>5, <2>6, <2>7, <2>8, <2>9, <2>10, <2>11, <2>12, <2>13 DEF Step
<1>4. CASE UNCHANGED vars
  BY <1>4, StutterKeeps
<1>5. QED
  BY <1>1, <1>2, <1>3, <1>4 DEF Next

LEMMA Inductive == Spec => []IInv
BY InitHolds, NextKeeps, PTL DEF Spec
-----------------------------------------------------------------------------
(* What the invariant tells *)

LEMMA InvTypeOK == IInv => TypeOK
<1> SUFFICES ASSUME IInv PROVE TypeOK
  OBVIOUS
<1>1. UserTypes /\ MonitorTypes /\ BackupTypes /\ TableInv
  BY DEF IInv
<1>2. Root \in Dirs \ {Out} /\ SubDirs \subseteq Dirs \ {Out}
  BY MonitorAssumption DEF Dirs, Entries
<1>3. watched \subseteq Dirs \ {Out} /\ DOMAIN watchItems \subseteq Dirs \ {Out}
  BY <1>1, <1>2 DEF UserTypes, TableInv
<1>4. \A i \in DOMAIN watchItems : watchItems[i] \in {<<>>} \cup {<<n>> : n \in RootNames}
  BY <1>1 DEF MonitorTypes, Tops
<1>5. replica \in [Paths -> Files \cup {Absent, Dir}]
  BY <1>1 DEF BackupTypes, Views
<1>6. QED
  BY <1>1, <1>3, <1>4, <1>5 DEF TypeOK, UserTypes, MonitorTypes, BackupTypes

\* When nothing is on its way, what differs is suspect.
LEMMA InvDrained == IInv => DrainedIsInStep
<1> SUFFICES ASSUME IInv, Drained, NEW p \in Paths, Parent(p) = <<>> \/ (View(p) # Absent /\ Watched(p))
             PROVE  InStep(p) \/ Suspect(p)
  BY DEF DrainedIsInStep
<1>1. /\ NoCalls /\ DOMAIN pending = {} /\ move = NoMove
      /\ \A d, n : ~Named(d, n) /\ ~Gone(d, n)
      /\ UserTypes /\ TreeInv
  <2>1. DOMAIN events = {} /\ DOMAIN pending = {}
    BY DEF Drained
  <2>2. QED
    BY <2>1, NothingRuns DEF Drained, Named, Gone, IInv
<1>2. ASSUME NEW n \in RootNames, ~InStep(<<n>>) PROVE <<n>> \in suspect
  <2>1. Unlike(n) /\ TopComing(n) /\ ~WillMeet("scan", n)
    BY <1>1 DEF IInv, TopInv, NoCalls
  <2>2. CASE View(<<n>>) # Absent
    BY <1>1, <1>2, <2>1, <2>2 DEF TopComing, Moving
  <2>3. CASE View(<<n>>) = Absent
    BY <1>1, <1>2, <2>1, <2>3 DEF Unlike, SameKind, IsFile, InStep, Moving
  <2>4. QED
    BY <2>2, <2>3
<1>3. CASE \E n \in RootNames : p = <<n>>
  BY <1>2, <1>3 DEF Suspect, Under
<1>4. CASE \E n \in RootNames, m \in InnerNames : p = <<n, m>>
  <2>1. PICK n \in RootNames, m \in InnerNames : p = <<n, m>>
    BY <1>4
  <2>2. Parent(p) = <<n>> /\ Parent(p) # <<>> /\ Found(Parent(p)) = Top(n)
    BY <2>1, InnerPath, TopPath
  <2>3. View(p) # Absent /\ Top(n) \in SubDirs /\ View(<<n>>) = Dir
    BY <1>1, <2>1, <2>2, ListedNames
  <2>4. Top(n) \in DOMAIN watchItems
    BY <2>2, <2>3 DEF Watched
  <2>5. InStep(p) \/ p \in suspect \/ IsFile(replica[<<n>>])
    BY <1>1, <2>1, <2>3, <2>4 DEF IInv, InInv, InComing, NoCalls
  <2>6. IsFile(replica[<<n>>]) => ~InStep(<<n>>)
    BY <2>3 DEF InStep, IsFile
  <2>7. <<n>> \in suspect => Suspect(p)
    BY <2>2 DEF Suspect, Under
  <2>8. QED
    BY <1>2, <2>5, <2>6, <2>7 DEF Suspect, Under
<1>5. QED
  BY <1>3, <1>4, PathCases

\* What the poll knows of a file it would have told, had it changed.
LEMMA InvSettled == IInv => SettledIsInStep
<1> SUFFICES ASSUME IInv, Settled, NEW p \in Paths,
                    ~InStep(p), ~Suspect(p), ~LooksInStep(p), p \notin stale
             PROVE  View(p) # Absent /\ ~Slot(p)
  BY DEF SettledIsInStep
<1>1. /\ Drained /\ UserTypes /\ TreeInv /\ replica \in [Paths -> Views] /\ DOMAIN pending = {}
      /\ IF View(p) = Absent THEN p \notin DOMAIN snapshots ELSE ~PollEmits(p)
  BY DEF Settled, PollFindsNothing, Drained, IInv, BackupTypes
<1>2. Parent(p) # <<>>
  BY <1>1, InvDrained DEF DrainedIsInStep
<1>3. PICK n \in RootNames, m \in InnerNames : p = <<n, m>>
  BY <1>2, PathCases, TopPath
<1>4. /\ Parent(p) = <<n>> /\ <<n>> \in Paths /\ Parent(<<n>>) = <<>>
      /\ View(p) \in Files \cup {Absent}
      /\ View(p) # Absent => View(<<n>>) = Dir
      /\ p \notin suspect /\ <<n>> \notin suspect
  BY <1>1, <1>3, InnerPath, TopPath, ListedNames DEF Suspect, Under
<1>5. Inner(n, m) /\ Remembered(n, m)
  BY DEF IInv, InInv
<1>6. replica[<<n>>] = View(<<n>>)
  <2>1. InStep(<<n>>) \/ Suspect(<<n>>)
    BY <1>1, <1>4, InvDrained DEF DrainedIsInStep
  <2>2. \A q : Under(<<n>>, q) /\ q \in Paths => q = <<n>>
    BY <1>4 DEF Under, Paths
  <2>3. suspect \subseteq Paths
    BY DEF IInv, BackupTypes
  <2>4. QED
    BY <1>4, <2>1, <2>2, <2>3 DEF Suspect, InStep
<1>7. replica[p] \in Files \cup {Absent}
  BY <1>1, <1>3, <1>4, <1>5 DEF Inner, Views
<1>8. ~IsFile(replica[<<n>>])
  <2>1. CASE View(p) = Absent
    BY <1>3, <1>5, <2>1, MonitorAssumption DEF Inner, InStep, IsFile
  <2>2. CASE View(p) # Absent
    BY <1>4, <1>6, <2>2 DEF IsFile
  <2>3. QED
    BY <2>1, <2>2
<1>9. \A f \in Files : f.stat \in 0 .. MaxChanges /\ f # Absent /\ f # Dir /\ f.stat # NoStat /\ f.stat # Dir /\ IsFile(f)
  BY MonitorAssumption DEF Files, IsFile
<1>10. Stat(p) = IF View(p) = Absent THEN NoStat ELSE View(p).stat
  BY <1>4, <1>9 DEF Stat, StatOf
<1>11. StatOf(replica[p]) = IF replica[p] = Absent THEN NoStat ELSE replica[p].stat
  BY <1>7, <1>9 DEF StatOf
<1>12. CASE View(p) = Absent
  <2>1. p \notin DOMAIN snapshots
    BY <1>1, <1>12
  <2>2. replica[p] # Absent /\ replica[p] \in Files
    BY <1>7, <1>12 DEF InStep
  <2>3. ~Agrees(p)
    BY <1>9, <1>11, <2>1, <2>2 DEF Agrees, Known
  <2>4. QED
    BY <1>3, <1>5, <1>8, <1>9, <2>1, <2>2, <2>3 DEF Remembered
<1>13. CASE View(p) # Absent
  <2>1. ~PollEmits(p)
    BY <1>1, <1>13
  <2>2. CASE p \in DOMAIN snapshots
    <3>1. snapshots[p] = Stat(p) /\ Stat(p) = View(p).stat /\ View(p) \in Files
      BY <1>4, <1>10, <1>13, <2>1, <2>2 DEF PollEmits
    <3>2. ~Agrees(p)
      BY <1>7, <1>9, <1>11, <2>2, <3>1 DEF Agrees, Known, LooksInStep
    <3>3. snapshots[p] # NoStat /\ replica[p] # Dir
      BY <1>7, <1>9, <3>1, MonitorAssumption
    <3>4. QED
      BY <1>1, <1>3, <1>5, <1>8, <3>2, <3>3 DEF Remembered
  <2>3. CASE p \notin DOMAIN snapshots
    BY <1>13, <2>1, <2>3 DEF PollEmits
  <2>4. QED
    BY <2>2, <2>3
<1>14. QED
  BY <1>12, <1>13
-----------------------------------------------------------------------------
(* Theorems *)

\* All variables keep their types; watch_items and snapshots never outgrow
\* MAX_WATCHES and MAX_SNAPSHOTS (monitor.c:44, 104-112).
THEOREM TypeCorrect == Spec => []TypeOK
BY Inductive, InvTypeOK, PTL

\* Watches and short scans lose nothing (monitor.c:344-351, 369-376): whenever all
\* events are handled and all updates done, every name in the root, and every file in
\* a directory that has a place in watch_items, is in the backup as it is in the
\* source, up to paths of which a late delete or rename left nothing to promise.
THEOREM DrainedInStep == Spec => []DrainedIsInStep
BY Inductive, InvDrained, PTL

\* The poll makes up for what has no watch (monitor.c:187-205): when it finds nothing
\* to send the backup is the source, up to changes that keep size, second and mode, to
\* paths that went astray behind the poll, and to files that get no snapshot as all
\* slots are taken.
THEOREM SettledInStep == Spec => []SettledIsInStep
BY Inductive, InvSettled, PTL
=============================================================================

---------------------------- MODULE WriteProofs ----------------------------
(***************************************************************************)
(* Proofs about WritePath, for any number of writers, deleters, flushes,   *)
(* failed operations and crashes: types, the durability of acknowledged    *)
(* rows, the view of a query, the order of deletes, and, as long as no     *)
(* operation fails, that every open finds its files.                       *)
(*                                                                         *)
(* The inductive invariant is a chain of layers.  Each layer is preserved  *)
(* by a step whose two states satisfy the layers before it.                *)
(***************************************************************************)
EXTENDS WritePath, TLAPS

-----------------------------------------------------------------------------
(* Layer 1: shapes.                                                        *)

Segment == [file : Tickets, seq : Nat, rows : SUBSET Writers]
ManifestType ==
    [version : Nat, segs : SUBSET Segment, tombs : SUBSET Nat, torn : BOOLEAN]
FlusherPcs ==
    {"wait", "write", "sync", "sync_dir", "commit", "publish", "clear", "resolve", "exited"}
FlusherType ==
    [pc : FlusherPcs, batch : SUBSET Writers, ticket : 0 .. MaxFlushes, ok : BOOLEAN]
PubSteps == {"apply", "written", "synced", "renamed", "published"}
PubType == [step : PubSteps, by : Deleters \union {"flusher"}, next : ManifestType]
ClientPcs == {"idle", "wait", "commit", "publish", "done", "lost"}
ClientType ==
    [pc : ClientPcs, on : Seq(Tickets), ok : BOOLEAN, saw : SUBSET Writers, seq : Nat]

Shapes ==
    /\ current \in ManifestType /\ visible \in ManifestType
    /\ durable \subseteq ManifestType
    /\ pending \subseteq Writers /\ in_flight \subseteq Writers
    /\ ticket \in 1 .. MaxFlushes + 1 /\ in_flight_ticket \in 0 .. MaxFlushes
    /\ pending # {} => ticket \in Tickets
    /\ done \in [Tickets -> {"none", "ok", "err"}]
    /\ closing \in BOOLEAN
    /\ flusher \in FlusherType
    /\ pub = NoPub \/ pub \in PubType
    /\ files \in [Tickets -> {"none", "written", "synced", "durable"}]
    /\ tmp \in {"none", "written", "synced"}
    /\ client \in [Clients -> ClientType]
    /\ failures \in Nat /\ crashes \in Nat
    /\ \A c \in Clients : Len(client[c].on) <= 2

-----------------------------------------------------------------------------
(* Layer 2: who is where.                                                  *)

\* The flusher has taken a batch and its ticket is unresolved.
Flushing == flusher.pc \notin {"wait", "exited"}
\* The batch is in flight: neither installed nor given up.
Carrying ==
    \/ flusher.pc \in {"write", "sync", "sync_dir", "commit", "publish"}
    \/ flusher.pc = "clear" /\ ~flusher.ok

FlusherSync ==
    /\ Flushing => /\ flusher.ticket \in Tickets /\ flusher.ticket < ticket
                   /\ done[flusher.ticket] = "none"
    /\ in_flight = IF Carrying THEN flusher.batch ELSE {}
    /\ in_flight_ticket =
         IF flusher.pc \in {"wait", "resolve", "exited"} THEN 0 ELSE flusher.ticket
    /\ \A t \in Tickets : t >= ticket => done[t] = "none"
    /\ flusher.pc \in {"write", "sync", "sync_dir", "commit", "publish"} => ~flusher.ok
    /\ flusher.pc = "exited" => closing /\ pending = {}
PubSync ==
    /\ flusher.pc = "publish" <=> pub # NoPub /\ pub.by = "flusher"
    /\ \A d \in Deleters : client[d].pc = "publish" <=> pub # NoPub /\ pub.by = d
    /\ \A c \in Clients :
         /\ client[c].pc \in {"commit", "publish"} => c \in Deleters
         /\ client[c].ok => client[c].pc = "done"
    /\ closing => Busy = {}

-----------------------------------------------------------------------------
(* Layer 3: what a commit publishes.                                       *)

\* Manifests that are or may become current.
Manifests == durable \union {current}

\* The segment of the flush under way, once committed.
FlushSegment ==
    [file |-> flusher.ticket, seq |-> current.version + 1, rows |-> flusher.batch]
PubNext ==
    pub # NoPub =>
      /\ pub.next.version = current.version + 1
      /\ pub.next.segs = current.segs \union
           (IF pub.by = "flusher" THEN {FlushSegment} ELSE {})
      /\ pub.step = "synced" => tmp = "synced"
      /\ pub.step \in {"renamed", "published"} => visible = pub.next
      /\ pub.step = "published" => durable = {visible}
Published ==
    /\ visible \in durable
    /\ current.segs \subseteq visible.segs
    /\ \A m \in Manifests : \A s \in m.segs : s.seq <= m.version

-----------------------------------------------------------------------------
(* Layer 4: rows.                                                          *)

\* No row is in two segments of a manifest.
OnceIn(m) == \A s, u \in m.segs : s.rows \intersect u.rows # {} => s = u
\* Nobody has a row that has not been written.
Unwritten(w) ==
    /\ w \notin pending /\ w \notin in_flight /\ w \notin flusher.batch
    /\ \A m \in Manifests : w \notin RowsIn(m)
    /\ \A d \in Deleters : w \notin client[d].saw
RowsApart ==
    /\ pending \intersect in_flight = {}
    /\ in_flight \intersect RowsIn(current) = {}
    /\ \A m \in Manifests : pending \intersect RowsIn(m) = {} /\ OnceIn(m)
    /\ \A w \in Writers : client[w].pc = "idle" => Unwritten(w)

-----------------------------------------------------------------------------
(* Layer 5: acknowledgements.                                              *)

Stored(w) == \A m \in Manifests : w \in RowsIn(m)
\* What has become of the row of a writer waiting on ticket t.
Tracked(w, t) ==
    \/ t = ticket /\ w \in pending
    \/ Flushing /\ t = flusher.ticket /\ w \in flusher.batch
    \/ t < ticket /\ done[t] = "err"
    \/ t < ticket /\ done[t] = "ok" /\ Stored(w)
Acks ==
    /\ flusher.pc \in {"clear", "resolve"} /\ flusher.ok =>
         \A w \in flusher.batch : Stored(w)
    /\ \A w \in Writers :
         /\ client[w].ok => Stored(w)
         /\ client[w].pc = "wait" =>
              Len(client[w].on) = 1 /\ Tracked(w, client[w].on[1])

-----------------------------------------------------------------------------
(* Layer 6: deletes.                                                       *)

WaitsFor(d, t) == \E i \in 1 .. Len(client[d].on) : client[d].on[i] = t
\* A deleter waits for the flushes its rows are in, commits when they are in none,
\* and its tombstone is above them from then on.
DeleteWaits(d) == client[d].pc = "wait" => \A r \in client[d].saw :
    (r \in pending => WaitsFor(d, ticket)) /\
      (r \in in_flight => WaitsFor(d, flusher.ticket))
DeleteClear(d) == client[d].pc \in {"commit", "publish"} \/ client[d].ok =>
    client[d].saw \intersect (pending \union in_flight) = {}
DeleteAbove(d) == client[d].ok => \A m \in Manifests : \A s \in m.segs :
    s.rows \intersect client[d].saw # {} => s.seq < client[d].seq
Deletes == \A d \in Deleters : DeleteWaits(d) /\ DeleteClear(d) /\ DeleteAbove(d)

-----------------------------------------------------------------------------
(* Layer 7: files, as long as no operation has failed or none has died.    *)

\* The flusher is still to commit the file it writes.
Writing == flusher.pc \in {"write", "sync", "sync_dir", "commit"}
\* Manifests are whole, and name files of earlier flushes only.
NamesOld(m) ==
    ~m.torn /\ \A s \in m.segs : s.file < ticket /\ (Writing => s.file # flusher.ticket)
\* The file of a flush being committed is durable.
FlushDurable ==
    flusher.pc \in {"commit", "publish"} => files[flusher.ticket] = "durable"
Unfailed ==
    /\ pub = NoPub \/ pub.step \in {"apply", "written", "synced"} => visible = current
    /\ \A m \in durable :
         m.segs \subseteq visible.segs /\ \A s \in m.segs : files[s.file] = "durable"
\* What a load reads has its files.
FilesThere == \A s \in visible.segs : files[s.file] # "none"
Files ==
    /\ \A m \in Manifests : NamesOld(m)
    /\ pub # NoPub => ~pub.next.torn
    /\ FlushDurable
    /\ failures = 0 => Unfailed
    /\ crashes = 0 => FilesThere

-----------------------------------------------------------------------------
(* Layer 1 holds.                                                          *)

(* What a view or a manifest shows are rows of writers.                    *)
LEMMA RowsInRows ==
    ASSUME NEW m, m.segs \subseteq Segment
    PROVE  RowsIn(m) \subseteq Writers
BY DEF RowsIn, Segment

(* The edit of a commit makes a manifest.                                  *)
LEMMA NextIsManifest ==
    ASSUME Shapes, NEW S, NEW T, \A s \in S :
           s.ticket \in Tickets /\ s.batch \subseteq Writers
    PROVE  NextManifest(S, T) \in ManifestType
BY DEF Shapes, NextManifest, ManifestType, Segment

(* The empty store has its shape.                                          *)
LEMMA ShapesInit == Init => Shapes
<1> SUFFICES ASSUME Init PROVE Shapes
  OBVIOUS
<1>1. EmptyManifest \in ManifestType
  BY DEF EmptyManifest, ManifestType
<1>2. Waiting \in FlusherType
  BY WritePathAssumption DEF Waiting, FlusherType, FlusherPcs
<1>3. IdleClient \in ClientType /\ IdleClient.on = <<>>
  BY DEF IdleClient, ClientType, ClientPcs
<1>4. client \in [Clients -> ClientType] /\ \A c \in Clients : Len(client[c].on) <= 2
  BY <1>3 DEF Init
<1>5. /\ 1 \in 1 .. MaxFlushes + 1 /\ 0 \in 0 .. MaxFlushes
      /\ [t \in Tickets |-> "none"] \in [Tickets -> {"none", "ok", "err"}]
      /\ [t \in Tickets |-> "none"] \in [Tickets -> {"none", "written", "synced",
           "durable"}]
  BY WritePathAssumption
<1> QED
  BY <1>1, <1>2, <1>4, <1>5 DEF Init, Shapes

(* One caller's record changes.                                            *)
LEMMA ClientsTyped ==
    ASSUME client \in [Clients -> ClientType], \A c \in Clients :
           Len(client[c].on) <= 2,
           NEW c \in Clients, NEW r \in ClientType, Len(r.on) <= 2,
           client' = [client EXCEPT ![c] = r]
    PROVE  client' \in [Clients -> ClientType] /\ \A e \in Clients :
           Len(client'[e].on) <= 2
OBVIOUS

(* The flusher's record with its place, and its outcome, changed.          *)
LEMMA FlusherTyped ==
    ASSUME NEW f \in FlusherType, NEW p \in FlusherPcs, NEW b \in BOOLEAN
    PROVE  [f EXCEPT !.pc = p] \in FlusherType /\
           [f EXCEPT !.pc = p, !.ok = b] \in FlusherType
BY DEF FlusherType

(* A step of a commit's record.                                            *)
LEMMA PubTyped ==
    ASSUME NEW p \in PubType, NEW s \in PubSteps
    PROVE  [p EXCEPT !.step = s] \in PubType
BY DEF PubType

(* A caller's record with its place and tickets changed.                   *)
LEMMA ClientTyped ==
    ASSUME NEW r \in ClientType, NEW p \in ClientPcs, NEW o \in Seq(Tickets)
    PROVE  /\ [r EXCEPT !.pc = p, !.on = o] \in ClientType
           /\ [r EXCEPT !.pc = p, !.on = o].on = o
           /\ [r EXCEPT !.pc = p, !.ok = TRUE, !.on = o] \in ClientType
           /\ [r EXCEPT !.pc = p, !.ok = TRUE, !.on = o].on = o
BY DEF ClientType

(* The tickets a caller may wait for, in order.                            *)
LEMMA OnSeqs ==
    ASSUME NEW t \in Tickets, NEW u \in Tickets
    PROVE  /\ <<>> \in Seq(Tickets) /\ Len(<<>>) = 0
           /\ <<t>> \in Seq(Tickets) /\ Len(<<t>>) = 1 /\ <<t>>[1] = t
           /\ <<t, u>> \in Seq(Tickets) /\ Len(<<t, u>>) = 2 /\ <<t, u>>[1] = t /\
                <<t, u>>[2] = u
OBVIOUS

(* A caller with other tickets to wait for is a caller still.              *)
LEMMA WaitsOn ==
    ASSUME NEW x \in ClientType, NEW o \in Seq(Tickets)
    PROVE  [x EXCEPT !.on = o] \in ClientType /\ [x EXCEPT !.on = o].on = o
<1> DEFINE S == Seq(Tickets)
<1>1. ClientType = [pc : ClientPcs, on : S, ok : BOOLEAN, saw : SUBSET Writers, seq : Nat]
  BY DEF ClientType
<1>2. o \in S
  OBVIOUS
<1> HIDE DEF S
<1> QED
  BY <1>1, <1>2

(* A caller whose process is gone is a caller still.                       *)
LEMMA LostClient ==
    ASSUME NEW x \in ClientType
    PROVE  [x EXCEPT !.pc = "lost"] \in ClientType /\ [x EXCEPT !.pc = "lost"].on = x.on
<1> DEFINE S == Seq(Tickets)
<1>1. ClientType = [pc : ClientPcs, on : S, ok : BOOLEAN, saw : SUBSET Writers, seq : Nat]
  BY DEF ClientType
<1>2. "lost" \in ClientPcs
  BY DEF ClientPcs
<1> HIDE DEF S
<1> QED
  BY <1>1, <1>2

(* Every action leaves the state in its shape.                             *)
LEMMA ShapesStep ==
    ASSUME Shapes, FlusherSync, [Next]_vars
    PROVE  Shapes'
<1> USE DEF Shapes
<1>1. CASE \E w \in Writers \union EmptyWriters : WriteMany(w)
  <2>1. PICK w \in Writers \union EmptyWriters : WriteMany(w)
    BY <1>1
  <2> DEFINE o == <<ticket>>
             r == [client[w] EXCEPT !.pc = "wait", !.on = o]
  <2>2. w \in Clients /\ ticket \in Tickets
    BY <2>1 DEF WriteMany, Clients
  <2>3. r \in ClientType /\ Len(r.on) <= 2
    <3>1. client[w] \in ClientType /\ o \in Seq(Tickets) /\ Len(o) = 1
      BY <2>2, OnSeqs
    <3> HIDE DEF o
    <3>2. r.on = o
      BY <3>1 DEF ClientType
    <3>3. r = [client[w] EXCEPT !.pc = "wait", !.on = o]
      OBVIOUS
    <3> HIDE DEF r
    <3>4. r \in ClientType
      BY <3>1, <3>3 DEF ClientPcs, ClientType
    <3>5. Len(r.on) = Len(o)
      BY <3>2, Zenon
    <3> QED
      BY <3>1, <3>4, <3>5
  <2>4. client' = [client EXCEPT ![w] = r]
    BY <2>1, <2>2 DEF WriteMany
  <2>5. client' \in [Clients -> ClientType] /\ \A e \in Clients :
        Len(client'[e].on) <= 2
    BY <2>2, <2>3, <2>4, ClientsTyped
  <2> QED
    BY <2>1, <2>2, <2>5 DEF WriteMany, disk, faults
<1>2. CASE \E d \in Deleters : Delete(d)
  <2>1. PICK d \in Deleters : Delete(d)
    BY <1>2
  <2> DEFINE o == TicketsToWait(pending, ticket, in_flight_ticket)
             r == [client[d] EXCEPT !.pc = "wait", !.on = o, !.saw = Seen]
  <2>2. d \in Clients
    BY DEF Clients
  <2>3. in_flight_ticket # 0 => in_flight_ticket \in Tickets
    BY WritePathAssumption DEF Tickets
  <2>4. o \in Seq(Tickets) /\ Len(o) <= 2
    BY <2>3, OnSeqs DEF TicketsToWait
  <2>5. Seen \subseteq Writers
    BY RowsInRows DEF Seen, ManifestType
  <2>6. r \in ClientType /\ Len(r.on) <= 2
    <3> HIDE DEF o
    <3>1. client[d] \in ClientType
      BY <2>2
    <3>2. r.on = o
      BY <3>1 DEF ClientType
    <3> QED
      BY <2>4, <2>5, <3>1, <3>2 DEF ClientPcs, ClientType
  <2>7. client' = [client EXCEPT ![d] = r]
    BY <2>1, <2>2 DEF Delete
  <2>8. client' \in [Clients -> ClientType] /\ \A e \in Clients :
        Len(client'[e].on) <= 2
    BY <2>2, <2>6, <2>7, ClientsTyped
  <2> QED
    BY <2>1, <2>8 DEF Delete, buffer, disk, faults
<1>3. CASE \E c \in Clients : WaitOver(c)
  <2>1. PICK c \in Clients : WaitOver(c)
    BY <1>3
  <2> DEFINE o == <<client[c].on[2]>>
             e == <<>>
             r == IF Len(client[c].on) > 1 THEN [client[c] EXCEPT !.on = o]
                  ELSE IF c \in Deleters THEN [client[c] EXCEPT !.pc = "commit",
                    !.on = e]
                  ELSE [client[c] EXCEPT !.pc = "done", !.ok = TRUE, !.on = e]
  <2>2. client[c] \in ClientType /\ client[c].on \in Seq(Tickets)
    BY DEF ClientType
  <2>3. Len(client[c].on) > 1 => client[c].on[2] \in Tickets
    BY <2>2
  <2>4. e \in Seq(Tickets) /\ Len(e) = 0
    OBVIOUS
  <2>5. r \in ClientType /\ Len(r.on) <= 2
    <3>1. CASE Len(client[c].on) > 1
      <4>1. o \in Seq(Tickets) /\ Len(o) = 1
        BY <3>1, <2>3, OnSeqs
      <4> HIDE DEF o, e
      <4> DEFINE z == [client[c] EXCEPT !.on = o]
      <4>2. r = z
        BY <3>1
      <4> HIDE DEF r
      <4>3. z \in ClientType /\ z.on = o
        BY <4>1, <2>2, WaitsOn
      <4>4. Len(o) <= 2
        BY <4>1
      <4> HIDE DEF z
      <4> QED
        BY <4>2, <4>3, <4>4
    <3>2. CASE ~(Len(client[c].on) > 1) /\ c \in Deleters
      <4> HIDE DEF e
      <4>1. r = [client[c] EXCEPT !.pc = "commit", !.on = e]
        BY <3>2
      <4>2. r.on = e
        BY <4>1, <2>2 DEF ClientType
      <4> HIDE DEF r
      <4>3. r \in ClientType
        BY <4>1, <2>2, <2>4 DEF ClientPcs, ClientType
      <4> QED
        BY <4>2, <4>3, <2>4
    <3>3. CASE ~(Len(client[c].on) > 1) /\ c \notin Deleters
      <4> HIDE DEF e
      <4>1. r = [client[c] EXCEPT !.pc = "done", !.ok = TRUE, !.on = e]
        BY <3>3
      <4>2. r.on = e
        BY <4>1, <2>2 DEF ClientType
      <4> HIDE DEF r
      <4>3. r \in ClientType
        BY <4>1, <2>2, <2>4 DEF ClientPcs, ClientType
      <4> QED
        BY <4>2, <4>3, <2>4
    <3> QED
      BY <3>1, <3>2, <3>3
  <2>6. client' = [client EXCEPT ![c] = r]
    BY <2>1 DEF WaitOver
  <2>7. client' \in [Clients -> ClientType] /\ \A x \in Clients :
        Len(client'[x].on) <= 2
    BY <2>5, <2>6, ClientsTyped
  <2> QED
    BY <2>1, <2>7 DEF WaitOver, buffer, disk, faults
<1>4. CASE \E c \in Clients : WaitFailed(c)
  <2>1. PICK c \in Clients : WaitFailed(c)
    BY <1>4
  <2> DEFINE e == <<>>
             r == [client[c] EXCEPT !.pc = "done", !.on = e]
  <2>2. e \in Seq(Tickets) /\ Len(e) = 0
    OBVIOUS
  <2>3. r \in ClientType /\ Len(r.on) <= 2
    <3>1. client[c] \in ClientType
      OBVIOUS
    <3> HIDE DEF e
    <3>2. "done" \in ClientPcs
      BY DEF ClientPcs
    <3>3. r \in ClientType /\ r.on = e
      BY <2>2, <3>1, <3>2, ClientTyped
    <3> QED
      BY <2>2, <3>3
  <2>4. client' = [client EXCEPT ![c] = r]
    BY <2>1 DEF WaitFailed
  <2>5. client' \in [Clients -> ClientType] /\ \A x \in Clients :
        Len(client'[x].on) <= 2
    BY <2>3, <2>4, ClientsTyped
  <2> QED
    BY <2>1, <2>5 DEF WaitFailed, buffer, disk, faults
<1>5. CASE \E d \in Deleters : DeleteCommit(d)
  <2>1. PICK d \in Deleters : DeleteCommit(d)
    BY <1>5
  <2> DEFINE r == [client[d] EXCEPT !.pc = "publish"]
  <2>2. d \in Clients
    BY DEF Clients
  <2>3. r \in ClientType /\ Len(r.on) <= 2
    <3>1. client[d] \in ClientType /\ Len(client[d].on) <= 2
      BY <2>2
    <3>2. r.on = client[d].on
      BY <3>1 DEF ClientType
    <3> QED
      BY <3>1, <3>2 DEF ClientPcs, ClientType
  <2>4. client' = [client EXCEPT ![d] = r]
    BY <2>1 DEF DeleteCommit
  <2>5. client' \in [Clients -> ClientType] /\ \A e \in Clients :
        Len(client'[e].on) <= 2
    BY <2>2, <2>3, <2>4, ClientsTyped
  <2>6. NextManifest({}, {d}) \in ManifestType
    BY NextIsManifest
  <2>7. pub' \in PubType
    BY <2>1, <2>6 DEF DeleteCommit, PubType, PubSteps
  <2> QED
    BY <2>1, <2>5, <2>7 DEF DeleteCommit, buffer, disk, faults
<1>6. CASE FlushTake
  <2>1. ticket \in Tickets /\ ticket + 1 \in 1 .. MaxFlushes + 1 /\
        ticket \in 0 .. MaxFlushes
    BY <1>6, WritePathAssumption DEF FlushTake, Tickets
  <2>2. flusher' \in FlusherType
    BY <1>6, <2>1 DEF FlushTake, FlusherType, FlusherPcs
  <2> QED
    BY <1>6, <2>1, <2>2 DEF FlushTake, disk, faults
<1>7. CASE SegmentWrite
  <2>1. flusher' \in FlusherType
    BY <1>7, FlusherTyped DEF SegmentWrite, SegmentStep, FlusherPcs
  <2>2. files' \in [Tickets -> {"none", "written", "synced", "durable"}]
    BY <1>7 DEF SegmentWrite, SegmentStep
  <2> QED
    BY <1>7, <2>1, <2>2 DEF SegmentWrite, SegmentStep, buffer, faults
<1>8. CASE FlushClear
  <2>1. flusher' \in FlusherType
    BY <1>8, FlusherTyped DEF FlushClear, FlusherPcs
  <2> QED
    BY <1>8, <2>1, WritePathAssumption DEF FlushClear, disk, faults
<1>9. CASE FlushResolve
  <2>1. flusher' \in FlusherType
    BY <1>9, WritePathAssumption DEF FlushResolve, Waiting, FlusherType, FlusherPcs
  <2>2. done' \in [Tickets -> {"none", "ok", "err"}]
    BY <1>9 DEF FlushResolve
  <2> QED
    BY <1>9, <2>1, <2>2 DEF FlushResolve, buffer, disk, faults
<1>10. CASE FlushCommit
  <2>1. flusher' \in FlusherType
    BY <1>10, FlusherTyped DEF FlushCommit, FlusherPcs
  <2>2. flusher.ticket \in Tickets /\ flusher.batch \subseteq Writers
    BY <1>10 DEF FlushCommit, FlusherSync, Flushing, FlusherType
  <2>3. NextManifest({flusher}, {}) \in ManifestType
    BY <2>2, NextIsManifest
  <2>4. pub' \in PubType
    BY <1>10, <2>3 DEF FlushCommit, PubType, PubSteps
  <2> QED
    BY <1>10, <2>1, <2>4 DEF FlushCommit, buffer, disk, faults
<1>11. CASE FlusherExit
  <2>1. flusher' \in FlusherType
    BY <1>11, FlusherTyped DEF FlusherExit, FlusherPcs
  <2> QED
    BY <1>11, <2>1 DEF FlusherExit, buffer, disk, faults
<1>12. CASE WriteTmp \/ SyncTmp \/ Rename \/ SyncRoot
  <2>1. pub \in PubType
    BY <1>12 DEF WriteTmp, SyncTmp, Rename, SyncRoot, PubStep, NoPub
  <2>2. pub' \in PubType
    BY <1>12, <2>1, PubTyped DEF WriteTmp, SyncTmp, Rename, SyncRoot, PubStep, PubSteps
  <2>3. pub.next \in ManifestType /\ [pub.next EXCEPT !.torn = TRUE] \in ManifestType
    BY <2>1 DEF PubType, ManifestType
  <2> QED
    BY <1>12, <2>1, <2>2, <2>3 DEF WriteTmp, SyncTmp, Rename, SyncRoot, PubStep, buffer,
       faults
<1>13. ASSUME NEW ok \in BOOLEAN, pub \in PubType, Returns(ok)
       PROVE  /\ flusher' \in FlusherType
              /\ client' \in [Clients -> ClientType]
              /\ \A e \in Clients : Len(client'[e].on) <= 2
  <2>1. CASE pub.by = "flusher"
    BY <1>13, <2>1, FlusherTyped DEF Returns, FlusherPcs
  <2>2. CASE pub.by # "flusher"
    <3> DEFINE r == [client[pub.by] EXCEPT !.pc = "done", !.ok = ok,
          !.seq = pub.next.version]
    <3>1. pub.by \in Clients /\ pub.next.version \in Nat
      BY <1>13, <2>2 DEF PubType, ManifestType, Clients
    <3>2. r \in ClientType /\ Len(r.on) <= 2
      <4>1. client[pub.by] \in ClientType /\ Len(client[pub.by].on) <= 2
        BY <3>1
      <4>2. r.on = client[pub.by].on
        BY <4>1 DEF ClientType
      <4> QED
        BY <1>13, <3>1, <4>1, <4>2 DEF ClientPcs, ClientType
    <3>3. client' = [client EXCEPT ![pub.by] = r]
      BY <1>13, <2>2, <3>1 DEF Returns
    <3> QED
      BY <1>13, <2>2, <3>1, <3>2, <3>3, ClientsTyped DEF Returns
  <2> QED
    BY <2>1, <2>2
<1>14. CASE Swap
  <2>1. pub \in PubType /\ pub.next \in ManifestType
    BY <1>14 DEF Swap, NoPub, PubType
  <2> QED
    BY <1>14, <1>13, <2>1 DEF Swap, disk, faults
<1>15. CASE FlushError
  <2>1. flusher' \in FlusherType
    BY <1>15, FlusherTyped DEF FlushError, FlusherPcs
  <2> QED
    BY <1>15, <2>1 DEF FlushError, buffer, disk
<1>16. CASE PublishError
  <2>1. pub \in PubType
    BY <1>16 DEF PublishError, NoPub
  <2>2. Returns(FALSE)
    BY <1>16 DEF PublishError
  <2>3. /\ flusher' \in FlusherType /\ client' \in [Clients -> ClientType]
        /\ \A e \in Clients : Len(client'[e].on) <= 2
    BY <1>13, <2>1, <2>2
  <2>4. /\ pub' = NoPub /\ failures' \in Nat /\ crashes' = crashes
        /\ UNCHANGED <<current, buffer, done, disk>>
    BY <1>16 DEF PublishError
  <2> QED
    BY <2>3, <2>4 DEF buffer, disk
<1>17. CASE Close
  BY <1>17 DEF Close, disk, faults
<1> DEFINE Opened ==
        /\ current' \in ManifestType /\ flusher' \in FlusherType
        /\ files' \in [Tickets -> {"none", "written", "synced", "durable"}]
        /\ client' \in [Clients -> ClientType]
        /\ \A e \in Clients : Len(client'[e].on) <= 2
        /\ pending' = {} /\ in_flight' = {} /\ in_flight_ticket' = 0 /\
             closing' = FALSE /\ pub' = NoPub
        /\ ticket' \in 1 .. MaxFlushes + 1 /\ tmp' = tmp /\ done' = done
<1>18. ASSUME NEW m \in ManifestType,
              NEW fs \in [Tickets -> {"none", "written", "synced", "durable"}],
              OpenOn(m, fs)
       PROVE  Opened
  <2>1. flusher' \in FlusherType
    BY <1>18, WritePathAssumption DEF OpenOn, Waiting, FlusherType, FlusherPcs
  <2>2. \A c \in Clients : /\ [client[c] EXCEPT !.pc = "lost"] \in ClientType
                           /\ [client[c] EXCEPT !.pc = "lost"].on = client[c].on
    BY LostClient
  <2>3. client' \in [Clients -> ClientType] /\ \A e \in Clients :
        Len(client'[e].on) <= 2
    BY <1>18, <2>2 DEF OpenOn
  <2>4. ticket' \in 1 .. MaxFlushes + 1
    BY <1>18, WritePathAssumption DEF OpenOn, Tickets
  <2> QED
    BY <1>18, <2>1, <2>3, <2>4 DEF OpenOn
<1>19. CASE Reopen
  <2>1. OpenOn(visible, files) /\ visible' = visible /\ durable' = durable /\
        failures' = failures /\ crashes' = crashes
    BY <1>19 DEF Reopen, faults
  <2>2. Opened
    BY <2>1, <1>18
  <2>3. 0 \in 0 .. MaxFlushes
    BY WritePathAssumption
  <2> QED
    BY <2>1, <2>2, <2>3
<1>20. CASE Kill
  <2>1. OpenOn(visible, files) /\ visible' = visible /\ durable' = durable /\
        failures' = failures /\ crashes' \in Nat
    BY <1>20 DEF Kill
  <2>2. Opened
    BY <2>1, <1>18
  <2>3. 0 \in 0 .. MaxFlushes
    BY WritePathAssumption
  <2> QED
    BY <2>1, <2>2, <2>3
<1>21. CASE PowerLoss
  <2>1. PICK m \in durable :
           /\ visible' = m
           /\ durable' = {m}
           /\ OpenOn(m, [t \in Tickets |-> IF files[t] = "durable" THEN "durable" ELSE "none"])
    BY <1>21 DEF PowerLoss
  <2>2. [t \in Tickets |-> IF files[t] = "durable" THEN "durable" ELSE "none"]
           \in [Tickets -> {"none", "written", "synced", "durable"}]
    OBVIOUS
  <2>3. m \in ManifestType /\ failures' = failures /\ crashes' \in Nat
    BY <1>21, <2>1 DEF PowerLoss
  <2>4. Opened
    BY <2>1, <2>2, <2>3, <1>18
  <2>5. 0 \in 0 .. MaxFlushes
    BY WritePathAssumption
  <2> QED
    BY <2>1, <2>3, <2>4, <2>5
<1>22. CASE UNCHANGED vars
  BY <1>22 DEF vars, buffer, disk, faults
<1> QED
  BY <1>1, <1>2, <1>3, <1>4, <1>5, <1>6, <1>7, <1>8, <1>9, <1>10, <1>11, <1>12, <1>14,
     <1>15, <1>16,
     <1>17, <1>19, <1>20, <1>21, <1>22
     DEF Next, ClientStep, FlusherStep, PubStepTaken

-----------------------------------------------------------------------------
(* What each action does to the records, field by field.                   *)

SameButPcOn(c) ==
    /\ client'[c].ok = client[c].ok /\ client'[c].saw = client[c].saw /\
         client'[c].seq = client[c].seq
OthersSame(c) == \A e \in Clients : e # c => client'[e] = client[e]

(* write_many moves its caller to wait on the current ticket.              *)
LEMMA WriteManyDoes ==
    ASSUME Shapes, NEW w \in Writers \union EmptyWriters, WriteMany(w)
    PROVE  /\ w \in Clients /\ ticket \in Tickets
           /\ client'[w].pc = "wait" /\ client'[w].on = <<ticket>> /\ SameButPcOn(w) /\
                OthersSame(w)
<1>1. w \in Clients /\ client[w] \in ClientType
  BY DEF Shapes, Clients
<1> QED
  BY <1>1 DEF Shapes, WriteMany, ClientType, SameButPcOn, OthersSame

(* delete moves its caller to wait, with what it sees and its tickets.     *)
LEMMA DeleteDoes ==
    ASSUME Shapes, NEW d \in Deleters, Delete(d)
    PROVE  /\ d \in Clients
           /\ client'[d].pc = "wait" /\
                client'[d].on = TicketsToWait(pending, ticket, in_flight_ticket)
           /\ client'[d].saw = Seen /\ client'[d].ok = client[d].ok /\
                client'[d].seq = client[d].seq
           /\ OthersSame(d)
<1>1. d \in Clients /\ client[d] \in ClientType
  BY DEF Shapes, Clients
<1> QED
  BY <1>1 DEF Shapes, Delete, ClientType, OthersSame

(* A wait that ends well: the next ticket, the commit, or the return.      *)
LEMMA WaitOverDoes ==
    ASSUME Shapes, NEW c \in Clients, WaitOver(c)
    PROVE  /\ SameButPcOn(c) \/ (client'[c].ok /\ c \notin Deleters)
           /\ client'[c].saw = client[c].saw /\ client'[c].seq = client[c].seq
           /\ OthersSame(c)
           /\ \/ /\ Len(client[c].on) = 2 /\ client'[c].pc = "wait" /\
                      client'[c].on = <<client[c].on[2]>>
                 /\ SameButPcOn(c)
              \/ /\ Len(client[c].on) <= 1 /\ c \in Deleters /\ client'[c].pc = "commit"
                 /\ SameButPcOn(c)
              \/ /\ Len(client[c].on) <= 1 /\ c \notin Deleters /\
                      client'[c].pc = "done" /\ client'[c].ok
<1>1. client[c] \in ClientType /\ Len(client[c].on) <= 2 /\ Len(client[c].on) \in Nat
  BY DEF Shapes, ClientType
<1> DEFINE L == Len(client[c].on)
<1>2. CASE L > 1
  <2>1. client' = [client EXCEPT ![c].on = <<client[c].on[2]>>]
    BY <1>2 DEF WaitOver
  <2>2. /\ client'[c].on = <<client[c].on[2]>> /\ client'[c].pc = "wait"
        /\ SameButPcOn(c) /\ OthersSame(c)
    BY <1>1, <2>1 DEF Shapes, WaitOver, ClientType, SameButPcOn, OthersSame
  <2>3. L = 2
    <3>1. L \in Nat /\ L <= 2 /\ L > 1
      BY <1>1, <1>2
    <3> HIDE DEF L
    <3> QED
      BY <3>1
  <2> QED
    BY <2>2, <2>3 DEF SameButPcOn
<1>3. CASE ~(L > 1) /\ c \in Deleters
  <2>1. client' = [client EXCEPT ![c].pc = "commit", ![c].on = <<>>]
    BY <1>3 DEF WaitOver
  <2> QED
    BY <1>1, <1>3, <2>1 DEF Shapes, WaitOver, ClientType, SameButPcOn, OthersSame
<1>4. CASE ~(L > 1) /\ c \notin Deleters
  <2>1. client' = [client EXCEPT ![c].pc = "done", ![c].ok = TRUE, ![c].on = <<>>]
    BY <1>4 DEF WaitOver
  <2>2. /\ client'[c].pc = "done" /\ client'[c].ok = TRUE /\ OthersSame(c)
        /\ client'[c].saw = client[c].saw /\ client'[c].seq = client[c].seq
    BY <1>1, <2>1 DEF Shapes, ClientType, OthersSame
  <2>3. L <= 1
    BY <1>1, <1>4
  <2> QED
    BY <1>4, <2>2, <2>3
<1> QED
  BY <1>2, <1>3, <1>4

(* A wait that ends badly: the call returns.                               *)
LEMMA WaitFailedDoes ==
    ASSUME Shapes, NEW c \in Clients, WaitFailed(c)
    PROVE  client'[c].pc = "done" /\ SameButPcOn(c) /\ OthersSame(c)
<1>1. client[c] \in ClientType
  BY DEF Shapes
<1> QED
  BY <1>1 DEF Shapes, WaitFailed, ClientType, SameButPcOn, OthersSame

(* A delete's commit: current with one more tombstone.                     *)
LEMMA DeleteCommitDoes ==
    ASSUME Shapes, NEW d \in Deleters, DeleteCommit(d)
    PROVE  /\ d \in Clients /\ client'[d].pc = "publish" /\ client'[d].on = client[d].on
           /\ SameButPcOn(d) /\ OthersSame(d)
           /\ pub'.step = "apply" /\ pub'.by = d /\ pub' # NoPub
           /\ pub'.next.version = current.version + 1 /\ pub'.next.segs = current.segs
           /\ pub'.next.torn = FALSE
<1>1. d \in Clients /\ client[d] \in ClientType
  BY DEF Shapes, Clients
<1>2. client'[d].pc = "publish" /\ client'[d].on = client[d].on /\ SameButPcOn(d) /\
      OthersSame(d)
  BY <1>1 DEF Shapes, DeleteCommit, ClientType, SameButPcOn, OthersSame
<1>3. pub'.step = "apply" /\ pub'.by = d /\ pub'.next = NextManifest({}, {d})
  BY DEF DeleteCommit
<1>4. pub' # NoPub
  BY <1>3 DEF NoPub
<1> QED
  BY <1>1, <1>2, <1>3, <1>4 DEF NextManifest

(* A flush's commit: current with its segment.                             *)
LEMMA FlushCommitDoes ==
    ASSUME Shapes, FlushCommit
    PROVE  /\ pub'.step = "apply" /\ pub'.by = "flusher" /\ pub' # NoPub
           /\ pub'.next.version = current.version + 1 /\ pub'.next.torn = FALSE
           /\ pub'.next.segs = current.segs \union {FlushSegment}
<1>1. pub'.step = "apply" /\ pub'.by = "flusher" /\
      pub'.next = NextManifest({flusher}, {})
  BY DEF FlushCommit
<1>2. pub' # NoPub
  BY <1>1 DEF NoPub
<1> QED
  BY <1>1, <1>2 DEF NextManifest, FlushSegment

(* A step of the flusher that only moves it.                               *)
LEMMA FlusherMoves ==
    ASSUME Shapes, NEW p, flusher' = [flusher EXCEPT !.pc = p]
    PROVE  /\ flusher'.pc = p /\ flusher'.batch = flusher.batch
           /\ flusher'.ticket = flusher.ticket /\ flusher'.ok = flusher.ok
BY DEF Shapes, FlusherType

(* A step of publish that only moves it.                                   *)
LEMMA PubMoves ==
    ASSUME Shapes, NEW f \in PubSteps, NEW s \in PubSteps, PubStep(f, s)
    PROVE  /\ pub \in PubType /\ pub # NoPub /\ pub' # NoPub
           /\ pub'.step = s /\ pub'.by = pub.by /\ pub'.next = pub.next
<1>1. pub \in PubType /\ pub # NoPub
  BY DEF Shapes, PubStep, PubSteps, NoPub
<1>2. pub'.step = s /\ pub'.by = pub.by /\ pub'.next = pub.next
  BY <1>1 DEF PubStep, PubType
<1>3. pub' # NoPub
  BY <1>2 DEF PubSteps, NoPub
<1> QED
  BY <1>1, <1>2, <1>3

(* The owner of a commit is told its outcome.                              *)
LEMMA ReturnsDoes ==
    ASSUME Shapes, NEW ok \in BOOLEAN, pub # NoPub, Returns(ok)
    PROVE  /\ pub \in PubType /\ pub.next.version \in Nat
           /\ pub.by = "flusher" =>
                /\ client' = client /\ flusher'.pc = "clear" /\ flusher'.ok = ok
                /\ flusher'.batch = flusher.batch /\ flusher'.ticket = flusher.ticket
           /\ pub.by # "flusher" =>
                /\ flusher' = flusher /\ pub.by \in Deleters /\ pub.by \in Clients
                /\ client'[pub.by].pc = "done" /\ client'[pub.by].ok = ok
                /\ client'[pub.by].seq = pub.next.version
                /\ client'[pub.by].saw = client[pub.by].saw /\
                     client'[pub.by].on = client[pub.by].on
                /\ OthersSame(pub.by)
<1>1. pub \in PubType /\ pub.by \in Deleters \union {"flusher"} /\
      pub.next.version \in Nat
  BY DEF Shapes, PubType, ManifestType
<1>2. CASE pub.by = "flusher"
  BY <1>1, <1>2 DEF Shapes, Returns, FlusherType
<1>3. CASE pub.by # "flusher"
  <2>1. pub.by \in Clients /\ client[pub.by] \in ClientType
    BY <1>1, <1>3 DEF Shapes, Clients
  <2> QED
    BY <1>1, <1>3, <2>1, SMTT(30) DEF Shapes, Returns, ClientType, OthersSame
<1> QED
  BY <1>2, <1>3

(* A store is opened: what it left to the callers.                         *)
LEMMA OpenDoes ==
    ASSUME Shapes, NEW m, NEW fs, OpenOn(m, fs)
    PROVE  /\ \A c \in Clients :
                /\ client'[c].ok = client[c].ok /\ client'[c].saw = client[c].saw
                /\ client'[c].seq = client[c].seq /\ client'[c].on = client[c].on
                /\ \/ client[c].pc \in {"wait", "commit", "publish"} /\
                        client'[c].pc = "lost"
                   \/ client[c].pc \notin {"wait", "commit", "publish"} /\
                        client'[c].pc = client[c].pc
           /\ flusher'.pc = "wait" /\ flusher'.batch = {} /\ flusher'.ok = FALSE
           /\ pub' = NoPub /\ current' = m /\ pending' = {} /\ in_flight' = {}
           /\ in_flight_ticket' = 0 /\ closing' = FALSE /\ done' = done
           /\ ticket' >= ticket /\ ticket \in Nat /\ ticket' \in Nat
<1>1. ASSUME NEW c \in Clients
      PROVE  /\ client'[c].ok = client[c].ok /\ client'[c].saw = client[c].saw
             /\ client'[c].seq = client[c].seq /\ client'[c].on = client[c].on
             /\ \/ client[c].pc \in {"wait", "commit", "publish"} /\
                     client'[c].pc = "lost"
                \/ client[c].pc \notin {"wait", "commit", "publish"} /\
                     client'[c].pc = client[c].pc
  <2>1. client[c] \in ClientType
    BY DEF Shapes
  <2>2. client'[c] = IF client[c].pc \in {"wait", "commit", "publish"}
                       THEN [client[c] EXCEPT !.pc = "lost"] ELSE client[c]
    BY DEF OpenOn, Busy
  <2> QED
    BY <2>1, <2>2 DEF ClientType
<1>2. flusher'.pc = "wait" /\ flusher'.batch = {} /\ flusher'.ok = FALSE
  BY DEF OpenOn, Waiting
<1>3. ticket' >= ticket /\ ticket \in Nat /\ ticket' \in Nat
  BY DEF Shapes, OpenOn
<1> QED
  BY <1>1, <1>2, <1>3 DEF OpenOn

-----------------------------------------------------------------------------
(* Layer 2 holds.                                                          *)

(* Initially the flusher has nothing.                                      *)
LEMMA FlusherSyncInit == Init => FlusherSync
BY DEF Init, Waiting, FlusherSync, Flushing, Carrying

(* The flusher's batch, ticket and flags go together.                       *)
LEMMA FlusherSyncStep ==
    ASSUME Shapes, FlusherSync, PubSync, [Next]_vars
    PROVE  FlusherSync'
<1>1. CASE \E w \in Writers \union EmptyWriters : WriteMany(w)
  <2>1. PICK w \in Writers \union EmptyWriters : WriteMany(w)
    BY <1>1
  <2> QED
    BY <2>1 DEF WriteMany, FlusherSync, Flushing, Carrying, vars, buffer, disk, faults
<1>2. CASE \E d \in Deleters : Delete(d)
  <2>1. PICK d \in Deleters : Delete(d)
    BY <1>2
  <2> QED
    BY <2>1 DEF Delete, FlusherSync, Flushing, Carrying, vars, buffer, disk, faults
<1>3. CASE \E c \in Clients : WaitOver(c)
  <2>1. PICK c \in Clients : WaitOver(c)
    BY <1>3
  <2> QED
    BY <2>1 DEF WaitOver, FlusherSync, Flushing, Carrying, vars, buffer, disk, faults
<1>4. CASE \E c \in Clients : WaitFailed(c)
  <2>1. PICK c \in Clients : WaitFailed(c)
    BY <1>4
  <2> QED
    BY <2>1 DEF WaitFailed, FlusherSync, Flushing, Carrying, vars, buffer, disk, faults
<1>5. CASE \E d \in Deleters : DeleteCommit(d)
  <2>1. PICK d \in Deleters : DeleteCommit(d)
    BY <1>5
  <2> QED
    BY <2>1 DEF DeleteCommit, FlusherSync, Flushing, Carrying, vars, buffer, disk,
       faults
<1>6. CASE FlushTake
  <2>1. ticket \in Tickets /\ ticket \in Nat
    BY <1>6 DEF FlushTake, Shapes, Tickets
  <2>2. /\ flusher'.pc = "write" /\ flusher'.batch = pending /\ flusher'.ticket = ticket
        /\ flusher'.ok = FALSE
    BY <1>6 DEF FlushTake
  <2> QED
    BY <1>6, <2>1, <2>2 DEF FlushTake, FlusherSync, Flushing, Carrying, Tickets
<1>7. CASE SegmentWrite
  <2>1. PICK p \in {"sync", "sync_dir", "commit"} : flusher' = [flusher EXCEPT !.pc = p]
    BY <1>7 DEF SegmentWrite, SegmentStep
  <2> QED
    BY <1>7, <2>1, FlusherMoves DEF SegmentWrite, SegmentStep, FlusherSync, Flushing,
       Carrying, buffer
<1>8. CASE FlushClear
  <2>1. flusher' = [flusher EXCEPT !.pc = "resolve"]
    BY <1>8 DEF FlushClear
  <2> QED
    BY <1>8, <2>1, FlusherMoves DEF FlushClear, FlusherSync, Flushing, Carrying
<1>9. CASE FlushResolve
  <2>1. flusher'.pc = "wait"
    BY <1>9 DEF FlushResolve, Waiting
  <2>2. flusher.ticket \in Tickets /\ flusher.ticket < ticket /\ ticket \in Nat
    BY <1>9 DEF FlushResolve, FlusherSync, Flushing, Shapes
  <2>3. \A t \in Tickets : t >= ticket' => done'[t] = "none"
    BY <1>9, <2>2 DEF FlushResolve, FlusherSync, Shapes, buffer, Tickets
  <2> QED
    BY <1>9, <2>1, <2>3 DEF FlushResolve, FlusherSync, Flushing, Carrying, buffer
<1>10. CASE FlushCommit
  <2>1. flusher' = [flusher EXCEPT !.pc = "publish"]
    BY <1>10 DEF FlushCommit
  <2> QED
    BY <1>10, <2>1, FlusherMoves DEF FlushCommit, FlusherSync, Flushing, Carrying,
       buffer
<1>11. CASE FlusherExit
  <2>1. flusher' = [flusher EXCEPT !.pc = "exited"]
    BY <1>11 DEF FlusherExit
  <2> QED
    BY <1>11, <2>1, FlusherMoves DEF FlusherExit, FlusherSync, Flushing, Carrying,
       buffer
<1>12. CASE WriteTmp
  BY <1>12 DEF WriteTmp, PubStep, FlusherSync, Flushing, Carrying, vars, buffer, disk,
     faults
<1>13. CASE SyncTmp
  BY <1>13 DEF SyncTmp, PubStep, FlusherSync, Flushing, Carrying, vars, buffer, disk,
     faults
<1>14. CASE Rename
  BY <1>14 DEF Rename, PubStep, FlusherSync, Flushing, Carrying, vars, buffer, disk,
     faults
<1>15. CASE SyncRoot
  BY <1>15 DEF SyncRoot, PubStep, FlusherSync, Flushing, Carrying, vars, buffer, disk,
     faults
<1>16. CASE Swap
  <2>1. pub # NoPub
    BY <1>16 DEF Swap, NoPub
  <2>3. Returns(TRUE)
    BY <1>16 DEF Swap
  <2>2. pub.by = "flusher" => flusher.pc = "publish"
    BY <2>1 DEF PubSync
  <2> QED
    BY <1>16, <2>1, <2>2, <2>3, ReturnsDoes DEF Swap, FlusherSync, Flushing, Carrying
<1>17. CASE FlushError
  <2>1. flusher' = [flusher EXCEPT !.pc = "clear"]
    BY <1>17 DEF FlushError
  <2> QED
    BY <1>17, <2>1, FlusherMoves DEF FlushError, FlusherSync, Flushing, Carrying, buffer
<1>18. CASE PublishError
  <2>1. pub # NoPub
    BY <1>18 DEF PublishError, NoPub
  <2>3. Returns(FALSE)
    BY <1>18 DEF PublishError
  <2>2. pub.by = "flusher" => flusher.pc = "publish"
    BY <2>1 DEF PubSync
  <2> QED
    BY <1>18, <2>1, <2>2, <2>3, ReturnsDoes DEF PublishError, FlusherSync, Flushing,
       Carrying, buffer
<1>19. CASE Close
  BY <1>19 DEF Close, FlusherSync, Flushing, Carrying, vars, buffer, disk, faults
<1>20. CASE Reopen
  <2>1. OpenOn(visible, files)
    BY <1>20 DEF Reopen
  <2>2. \A t \in Tickets : t >= ticket' => done'[t] = "none"
    <3>1. done' = done /\ ticket' >= ticket /\ ticket \in Nat /\ ticket' \in Nat
      BY <2>1, OpenDoes
    <3>2. \A t \in Tickets : t >= ticket' => t >= ticket
      BY <3>1, WritePathAssumption DEF Tickets
    <3> QED
      BY <3>1, <3>2 DEF FlusherSync
  <2> QED
    BY <2>1, <2>2, OpenDoes DEF FlusherSync, Flushing, Carrying
<1>21. CASE Kill
  <2>1. OpenOn(visible, files)
    BY <1>21 DEF Kill
  <2>2. \A t \in Tickets : t >= ticket' => done'[t] = "none"
    <3>1. done' = done /\ ticket' >= ticket /\ ticket \in Nat /\ ticket' \in Nat
      BY <2>1, OpenDoes
    <3>2. \A t \in Tickets : t >= ticket' => t >= ticket
      BY <3>1, WritePathAssumption DEF Tickets
    <3> QED
      BY <3>1, <3>2 DEF FlusherSync
  <2> QED
    BY <2>1, <2>2, OpenDoes DEF FlusherSync, Flushing, Carrying
<1>22. CASE PowerLoss
  <2>1. PICK m, fs : OpenOn(m, fs)
    BY <1>22 DEF PowerLoss
  <2>2. \A t \in Tickets : t >= ticket' => done'[t] = "none"
    <3>1. done' = done /\ ticket' >= ticket /\ ticket \in Nat /\ ticket' \in Nat
      BY <2>1, OpenDoes
    <3>2. \A t \in Tickets : t >= ticket' => t >= ticket
      BY <3>1, WritePathAssumption DEF Tickets
    <3> QED
      BY <3>1, <3>2 DEF FlusherSync
  <2> QED
    BY <2>1, <2>2, OpenDoes DEF FlusherSync, Flushing, Carrying
<1>23. CASE UNCHANGED vars
  BY <1>23 DEF FlusherSync, Flushing, Carrying, vars, buffer, disk, faults
<1> QED
  BY <1>1, <1>2, <1>3, <1>4, <1>5, <1>6, <1>7, <1>8, <1>9, <1>10, <1>11, <1>12, <1>13,
     <1>14, <1>15, <1>16, <1>17, <1>18, <1>19, <1>20, <1>21, <1>22, <1>23
     DEF Next, ClientStep, FlusherStep, PubStepTaken

(* Initially nobody commits.                                               *)
LEMMA PubSyncInit == Init => PubSync
BY DEF Init, Waiting, IdleClient, PubSync, Busy, Clients

(* After an open nobody commits, and nobody that waited has an answer.     *)
LEMMA OpenSync ==
    ASSUME Shapes, PubSync, NEW m, NEW fs, OpenOn(m, fs)
    PROVE  PubSync'
<1>1. pub' = NoPub /\ flusher'.pc = "wait" /\ closing' = FALSE
  BY OpenDoes
<1>2. ASSUME NEW c \in Clients
      PROVE  client'[c].pc \notin {"commit", "publish"} /\ (client'[c].ok => client'[c].pc = "done")
  <2>1. client[c].ok => client[c].pc = "done"
    BY DEF PubSync
  <2>2. /\ client'[c].ok = client[c].ok
        /\ \/ client[c].pc \in {"wait", "commit", "publish"} /\ client'[c].pc = "lost"
           \/ client[c].pc \notin {"wait", "commit", "publish"} /\ client'[c].pc = client[c].pc
    BY OpenDoes
  <2> QED
    BY <2>1, <2>2
<1>3. Deleters \subseteq Clients
  BY DEF Clients
<1> QED
  BY <1>1, <1>2, <1>3 DEF PubSync

(* Whoever holds the commit mutex is publishing.                           *)
LEMMA PubSyncStep ==
    ASSUME Shapes, FlusherSync, PubSync, [Next]_vars
    PROVE  PubSync'
<1>1. CASE \E w \in Writers \union EmptyWriters : WriteMany(w)
  <2>1. PICK w \in Writers \union EmptyWriters : WriteMany(w)
    BY <1>1
  <2>2. w \in Clients /\ OthersSame(w)
    BY <2>1, WriteManyDoes
  <2>3. /\ client[w].pc \notin {"publish", "done"} /\ client'[w].pc # "publish"
        /\ client'[w].pc = "commit" => w \in Deleters
        /\ client'[w].ok => client'[w].pc = "done"
    BY <2>1, <2>2, WriteManyDoes DEF WriteMany, PubSync, SameButPcOn
  <2>4. closing' = closing /\ ~closing /\ pub' = pub /\ flusher' = flusher
    BY <2>1, <2>2 DEF WriteMany, PubSync, Busy
  <2> QED
    BY <2>2, <2>3, <2>4 DEF PubSync, Clients, OthersSame
<1>2. CASE \E d \in Deleters : Delete(d)
  <2>1. PICK d \in Deleters : Delete(d)
    BY <1>2
  <2>2. d \in Clients /\ OthersSame(d)
    BY <2>1, DeleteDoes
  <2>3. /\ client[d].pc \notin {"publish", "done"} /\ client'[d].pc # "publish"
        /\ client'[d].pc = "commit" => d \in Deleters
        /\ client'[d].ok => client'[d].pc = "done"
    BY <2>1, <2>2, DeleteDoes DEF Delete, buffer, PubSync, SameButPcOn
  <2>4. closing' = closing /\ ~closing /\ pub' = pub /\ flusher' = flusher
    BY <2>1, <2>2 DEF Delete, buffer, PubSync, Busy
  <2> QED
    BY <2>2, <2>3, <2>4 DEF PubSync, Clients, OthersSame
<1>3. CASE \E c \in Clients : WaitOver(c)
  <2>1. PICK c \in Clients : WaitOver(c)
    BY <1>3
  <2>2. c \in Clients /\ OthersSame(c)
    BY <2>1, WaitOverDoes
  <2>3. /\ client[c].pc \notin {"publish", "done"} /\ client'[c].pc # "publish"
        /\ client'[c].pc = "commit" => c \in Deleters
        /\ client'[c].ok => client'[c].pc = "done"
    BY <2>1, <2>2, WaitOverDoes DEF WaitOver, buffer, PubSync, SameButPcOn
  <2>4. closing' = closing /\ ~closing /\ pub' = pub /\ flusher' = flusher
    BY <2>1, <2>2 DEF WaitOver, buffer, PubSync, Busy
  <2> QED
    BY <2>2, <2>3, <2>4 DEF PubSync, Clients, OthersSame
<1>4. CASE \E c \in Clients : WaitFailed(c)
  <2>1. PICK c \in Clients : WaitFailed(c)
    BY <1>4
  <2>2. c \in Clients /\ OthersSame(c)
    BY <2>1, WaitFailedDoes
  <2>3. /\ client[c].pc \notin {"publish", "done"} /\ client'[c].pc # "publish"
        /\ client'[c].pc = "commit" => c \in Deleters
        /\ client'[c].ok => client'[c].pc = "done"
    BY <2>1, <2>2, WaitFailedDoes DEF WaitFailed, buffer, PubSync, SameButPcOn
  <2>4. closing' = closing /\ ~closing /\ pub' = pub /\ flusher' = flusher
    BY <2>1, <2>2 DEF WaitFailed, buffer, PubSync, Busy
  <2> QED
    BY <2>2, <2>3, <2>4 DEF PubSync, Clients, OthersSame
<1>5. CASE \E d \in Deleters : DeleteCommit(d)
  <2>1. PICK d \in Deleters : DeleteCommit(d)
    BY <1>5
  <2>2. /\ d \in Clients /\ OthersSame(d) /\ client'[d].pc = "publish" /\
             client'[d].ok = client[d].ok
        /\ pub' # NoPub /\ pub'.by = d
    BY <2>1, DeleteCommitDoes DEF SameButPcOn
  <2>3. pub = NoPub /\ client[d].pc = "commit" /\ closing' = closing /\
        flusher' = flusher
    BY <2>1 DEF DeleteCommit, buffer
  <2>4. d # "flusher" /\ ~closing
    BY <2>2, <2>3, WritePathAssumption DEF PubSync, Busy
  <2> QED
    BY <2>2, <2>3, <2>4 DEF PubSync, Clients, OthersSame
<1>6. CASE FlushTake
  <2>1. flusher'.pc = "write"
    BY <1>6 DEF FlushTake
  <2> QED
    BY <1>6, <2>1 DEF FlushTake, PubSync, Busy
<1>7. CASE SegmentWrite
  <2>1. PICK p \in {"sync", "sync_dir", "commit"} : flusher' = [flusher EXCEPT !.pc = p]
    BY <1>7 DEF SegmentWrite, SegmentStep
  <2> QED
    BY <1>7, <2>1, FlusherMoves DEF SegmentWrite, SegmentStep, PubSync, Busy, buffer
<1>8. CASE FlushClear
  <2>1. flusher' = [flusher EXCEPT !.pc = "resolve"]
    BY <1>8 DEF FlushClear
  <2> QED
    BY <1>8, <2>1, FlusherMoves DEF FlushClear, PubSync, Busy, buffer
<1>9. CASE FlushResolve
  <2>1. flusher'.pc = "wait"
    BY <1>9 DEF FlushResolve, Waiting
  <2> QED
    BY <1>9, <2>1 DEF FlushResolve, PubSync, Busy, buffer
<1>10. CASE FlushCommit
  <2>1. flusher'.pc = "publish"
    BY <1>10, FlusherMoves DEF FlushCommit
  <2>2. \A d \in Deleters : client[d].pc # "publish" /\ d # "flusher"
    BY <1>10, WritePathAssumption DEF FlushCommit, PubSync
  <2> QED
    BY <1>10, <2>1, <2>2, FlushCommitDoes DEF FlushCommit, PubSync, Busy, buffer
<1>11. CASE FlusherExit
  <2>1. flusher' = [flusher EXCEPT !.pc = "exited"]
    BY <1>11 DEF FlusherExit
  <2> QED
    BY <1>11, <2>1, FlusherMoves DEF FlusherExit, PubSync, Busy, buffer
<1>12. CASE WriteTmp
  <2>1. PubStep("apply", "written")
    BY <1>12 DEF WriteTmp
  <2>2. pub # NoPub /\ pub' # NoPub /\ pub'.by = pub.by
    BY <2>1, PubMoves DEF PubSteps
  <2> QED
    BY <2>1, <2>2 DEF PubStep, PubSync, Busy, buffer
<1>13. CASE SyncTmp
  <2>1. PubStep("written", "synced")
    BY <1>13 DEF SyncTmp
  <2>2. pub # NoPub /\ pub' # NoPub /\ pub'.by = pub.by
    BY <2>1, PubMoves DEF PubSteps
  <2> QED
    BY <2>1, <2>2 DEF PubStep, PubSync, Busy, buffer
<1>14. CASE Rename
  <2>1. PubStep("synced", "renamed")
    BY <1>14 DEF Rename
  <2>2. pub # NoPub /\ pub' # NoPub /\ pub'.by = pub.by
    BY <2>1, PubMoves DEF PubSteps
  <2> QED
    BY <2>1, <2>2 DEF PubStep, PubSync, Busy, buffer
<1>15. CASE SyncRoot
  <2>1. PubStep("renamed", "published")
    BY <1>15 DEF SyncRoot
  <2>2. pub # NoPub /\ pub' # NoPub /\ pub'.by = pub.by
    BY <2>1, PubMoves DEF PubSteps
  <2> QED
    BY <2>1, <2>2 DEF PubStep, PubSync, Busy, buffer
<1>16. CASE Swap
  <2>1. pub # NoPub
    BY <1>16 DEF Swap, NoPub
  <2>2. Returns(TRUE)
    BY <1>16 DEF Swap
  <2>3. pub' = NoPub /\ closing' = closing
    BY <1>16 DEF Swap, buffer
  <2>4. CASE pub.by = "flusher"
    <3>1. client' = client /\ flusher'.pc = "clear"
      BY <2>1, <2>2, <2>4, ReturnsDoes
    <3>2. \A d \in Deleters : client[d].pc # "publish"
      BY <2>1, <2>4, WritePathAssumption DEF PubSync
    <3> QED
      BY <2>3, <3>1, <3>2 DEF PubSync, Busy
  <2>5. CASE pub.by # "flusher"
    <3>1. flusher' = flusher /\ client'[pub.by].pc = "done" /\ OthersSame(pub.by) /\
          pub.by \in Clients
      BY <2>1, <2>2, <2>5, ReturnsDoes
    <3>2. flusher.pc # "publish" /\ \A d \in Deleters :
          d # pub.by => client[d].pc # "publish"
      BY <2>1, <2>5 DEF PubSync
    <3> QED
      BY <2>3, <3>1, <3>2 DEF PubSync, Busy, Clients, OthersSame
  <2> QED
    BY <2>4, <2>5
<1>17. CASE FlushError
  <2>1. flusher' = [flusher EXCEPT !.pc = "clear"]
    BY <1>17 DEF FlushError
  <2> QED
    BY <1>17, <2>1, FlusherMoves DEF FlushError, PubSync, Busy, buffer
<1>18. CASE PublishError
  <2>1. pub # NoPub
    BY <1>18 DEF PublishError, NoPub
  <2>2. Returns(FALSE)
    BY <1>18 DEF PublishError
  <2>3. pub' = NoPub /\ closing' = closing
    BY <1>18 DEF PublishError, buffer
  <2>4. CASE pub.by = "flusher"
    <3>1. client' = client /\ flusher'.pc = "clear"
      BY <2>1, <2>2, <2>4, ReturnsDoes
    <3>2. \A d \in Deleters : client[d].pc # "publish"
      BY <2>1, <2>4, WritePathAssumption DEF PubSync
    <3> QED
      BY <2>3, <3>1, <3>2 DEF PubSync, Busy
  <2>5. CASE pub.by # "flusher"
    <3>1. flusher' = flusher /\ client'[pub.by].pc = "done" /\ OthersSame(pub.by) /\
          pub.by \in Clients
      BY <2>1, <2>2, <2>5, ReturnsDoes
    <3>2. flusher.pc # "publish" /\ \A d \in Deleters :
          d # pub.by => client[d].pc # "publish"
      BY <2>1, <2>5 DEF PubSync
    <3> QED
      BY <2>3, <3>1, <3>2 DEF PubSync, Busy, Clients, OthersSame
  <2> QED
    BY <2>4, <2>5
<1>19. CASE Close
  BY <1>19 DEF Close, PubSync, Busy, vars, buffer, disk, faults
<1>20. CASE Reopen
  <2>1. OpenOn(visible, files)
    BY <1>20 DEF Reopen
  <2> QED
    BY <2>1, OpenSync
<1>21. CASE Kill
  <2>1. OpenOn(visible, files)
    BY <1>21 DEF Kill
  <2> QED
    BY <2>1, OpenSync
<1>22. CASE PowerLoss
  <2>1. PICK m, fs : OpenOn(m, fs)
    BY <1>22 DEF PowerLoss
  <2> QED
    BY <2>1, OpenSync
<1>23. CASE UNCHANGED vars
  BY <1>23 DEF PubSync, Busy, vars, buffer, disk, faults
<1> QED
  BY <1>1, <1>2, <1>3, <1>4, <1>5, <1>6, <1>7, <1>8, <1>9, <1>10, <1>11, <1>12, <1>13,
     <1>14, <1>15, <1>16, <1>17, <1>18, <1>19, <1>20, <1>21, <1>22, <1>23
     DEF Next, ClientStep, FlusherStep, PubStepTaken

-----------------------------------------------------------------------------
(* Layer 3 holds.                                                          *)

(* Initially nothing is being published.                                   *)
LEMMA PubNextInit == Init => PubNext
BY DEF Init, PubNext

(* The manifest being published is current with the flush's segment, if any. *)
LEMMA PubNextStep ==
    ASSUME Shapes, FlusherSync, PubSync, PubNext, [Next]_vars
    PROVE  PubNext'
<1>1. CASE \E w \in Writers \union EmptyWriters : WriteMany(w)
  <2>1. PICK w \in Writers \union EmptyWriters : WriteMany(w)
    BY <1>1
  <2> QED
    BY <2>1 DEF WriteMany, disk, PubNext, FlushSegment
<1>2. CASE \E d \in Deleters : Delete(d)
  <2>1. PICK d \in Deleters : Delete(d)
    BY <1>2
  <2> QED
    BY <2>1 DEF Delete, disk, PubNext, FlushSegment
<1>3. CASE \E c \in Clients : WaitOver(c)
  <2>1. PICK c \in Clients : WaitOver(c)
    BY <1>3
  <2> QED
    BY <2>1 DEF WaitOver, disk, PubNext, FlushSegment
<1>4. CASE \E c \in Clients : WaitFailed(c)
  <2>1. PICK c \in Clients : WaitFailed(c)
    BY <1>4
  <2> QED
    BY <2>1 DEF WaitFailed, disk, PubNext, FlushSegment
<1>5. CASE \E d \in Deleters : DeleteCommit(d)
  <2>1. PICK d \in Deleters : DeleteCommit(d)
    BY <1>5
  <2>2. /\ pub'.step = "apply" /\ pub'.by = d /\ d # "flusher"
        /\ pub'.next.version = current.version + 1 /\ pub'.next.segs = current.segs
    BY <2>1, DeleteCommitDoes, WritePathAssumption
  <2> QED
    BY <2>1, <2>2 DEF DeleteCommit, PubNext
<1>6. CASE FlushTake
  <2>1. pub # NoPub => pub.by # "flusher"
    BY <1>6 DEF FlushTake, PubSync
  <2> QED
    BY <1>6, <2>1 DEF FlushTake, PubNext, disk
<1>7. CASE SegmentWrite
  <2>1. PICK p \in {"sync", "sync_dir", "commit"} : flusher' = [flusher EXCEPT !.pc = p]
    BY <1>7 DEF SegmentWrite, SegmentStep
  <2>2. FlushSegment' = FlushSegment
    BY <1>7, <2>1, FlusherMoves DEF SegmentWrite, SegmentStep, FlushSegment
  <2> QED
    BY <1>7, <2>2 DEF SegmentWrite, SegmentStep, PubNext
<1>8. CASE FlushClear
  <2>1. flusher' = [flusher EXCEPT !.pc = "resolve"]
    BY <1>8 DEF FlushClear
  <2>2. FlushSegment' = FlushSegment
    BY <1>8, <2>1, FlusherMoves DEF FlushClear, FlushSegment
  <2> QED
    BY <1>8, <2>2 DEF FlushClear, PubNext, disk
<1>9. CASE FlushResolve
  <2>1. pub # NoPub => pub.by # "flusher"
    BY <1>9 DEF FlushResolve, PubSync
  <2> QED
    BY <1>9, <2>1 DEF FlushResolve, PubNext, disk
<1>10. CASE FlushCommit
  <2>1. flusher' = [flusher EXCEPT !.pc = "publish"]
    BY <1>10 DEF FlushCommit
  <2>2. FlushSegment' = FlushSegment
    BY <1>10, <2>1, FlusherMoves DEF FlushCommit, FlushSegment
  <2> QED
    BY <1>10, <2>2, FlushCommitDoes DEF FlushCommit, PubNext
<1>11. CASE FlusherExit
  <2>1. flusher' = [flusher EXCEPT !.pc = "exited"]
    BY <1>11 DEF FlusherExit
  <2>2. FlushSegment' = FlushSegment
    BY <1>11, <2>1, FlusherMoves DEF FlusherExit, FlushSegment
  <2> QED
    BY <1>11, <2>2 DEF FlusherExit, PubNext, disk
<1>12. CASE WriteTmp
  <2>1. PubStep("apply", "written")
    BY <1>12 DEF WriteTmp
  <2>2. /\ pub # NoPub /\ pub.step = "apply"
        /\ pub' # NoPub /\ pub'.by = pub.by /\ pub'.next = pub.next /\
             pub'.step = "written"
    BY <2>1, PubMoves DEF PubSteps, PubStep
  <2>3. FlushSegment' = FlushSegment /\ current' = current
    BY <2>1 DEF PubStep, FlushSegment
  <2> QED
    BY <1>12, <2>2, <2>3 DEF WriteTmp, PubNext
<1>13. CASE SyncTmp
  <2>1. PubStep("written", "synced")
    BY <1>13 DEF SyncTmp
  <2>2. /\ pub # NoPub /\ pub.step = "written"
        /\ pub' # NoPub /\ pub'.by = pub.by /\ pub'.next = pub.next /\
             pub'.step = "synced"
    BY <2>1, PubMoves DEF PubSteps, PubStep
  <2>3. FlushSegment' = FlushSegment /\ current' = current
    BY <2>1 DEF PubStep, FlushSegment
  <2> QED
    BY <1>13, <2>2, <2>3 DEF SyncTmp, PubNext
<1>14. CASE Rename
  <2>1. PubStep("synced", "renamed")
    BY <1>14 DEF Rename
  <2>2. /\ pub # NoPub /\ pub.step = "synced"
        /\ pub' # NoPub /\ pub'.by = pub.by /\ pub'.next = pub.next /\
             pub'.step = "renamed"
    BY <2>1, PubMoves DEF PubSteps, PubStep
  <2>3. FlushSegment' = FlushSegment /\ current' = current
    BY <2>1 DEF PubStep, FlushSegment
  <2> QED
    BY <1>14, <2>2, <2>3 DEF Rename, PubNext
<1>15. CASE SyncRoot
  <2>1. PubStep("renamed", "published")
    BY <1>15 DEF SyncRoot
  <2>2. /\ pub # NoPub /\ pub.step = "renamed"
        /\ pub' # NoPub /\ pub'.by = pub.by /\ pub'.next = pub.next /\
             pub'.step = "published"
    BY <2>1, PubMoves DEF PubSteps, PubStep
  <2>3. FlushSegment' = FlushSegment /\ current' = current
    BY <2>1 DEF PubStep, FlushSegment
  <2> QED
    BY <1>15, <2>2, <2>3 DEF SyncRoot, PubNext
<1>16. CASE Swap
  BY <1>16 DEF Swap, PubNext
<1>17. CASE FlushError
  <2>1. flusher' = [flusher EXCEPT !.pc = "clear"]
    BY <1>17 DEF FlushError
  <2>2. FlushSegment' = FlushSegment
    BY <1>17, <2>1, FlusherMoves DEF FlushError, FlushSegment
  <2> QED
    BY <1>17, <2>2 DEF FlushError, PubNext, disk
<1>18. CASE PublishError
  BY <1>18 DEF PublishError, PubNext
<1>19. CASE Close
  BY <1>19 DEF Close, PubNext, FlushSegment, disk
<1>20. CASE Reopen
  <2>1. OpenOn(visible, files)
    BY <1>20 DEF Reopen
  <2> QED
    BY <2>1, OpenDoes DEF PubNext
<1>21. CASE Kill
  <2>1. OpenOn(visible, files)
    BY <1>21 DEF Kill
  <2> QED
    BY <2>1, OpenDoes DEF PubNext
<1>22. CASE PowerLoss
  <2>1. PICK m, fs : OpenOn(m, fs)
    BY <1>22 DEF PowerLoss
  <2> QED
    BY <2>1, OpenDoes DEF PubNext
<1>23. CASE UNCHANGED vars
  BY <1>23 DEF vars, PubNext, FlushSegment, disk
<1> QED
  BY <1>1, <1>2, <1>3, <1>4, <1>5, <1>6, <1>7, <1>8, <1>9, <1>10, <1>11, <1>12, <1>13,
     <1>14, <1>15, <1>16, <1>17, <1>18, <1>19, <1>20, <1>21, <1>22, <1>23
     DEF Next, ClientStep, FlusherStep, PubStepTaken

(* Initially current is what a load reads.                                 *)
LEMMA PublishedInit == Init => Published
BY DEF Init, EmptyManifest, Published, Manifests

(* The seqs of a manifest about to be published.                           *)
LEMMA NextSeqs ==
    ASSUME Shapes, PubNext, Published, pub # NoPub
    PROVE  \A s \in pub.next.segs : s.seq <= pub.next.version
<1>1. current.version \in Nat /\ \A s \in current.segs : s.seq \in Nat
  BY DEF Shapes, ManifestType, Segment
<1>2. FlushSegment.seq = current.version + 1
  BY DEF FlushSegment
<1>3. \A s \in current.segs : s.seq <= current.version + 1
  BY <1>1 DEF Published, Manifests
<1> QED
  BY <1>1, <1>2, <1>3 DEF PubNext

(* A load may only find a manifest at or after current.                    *)
LEMMA PublishedStep ==
    ASSUME Shapes, PubNext, Published, [Next]_vars
    PROVE  Published'
<1>1. CASE \E w \in Writers \union EmptyWriters : WriteMany(w)
  <2>1. PICK w \in Writers \union EmptyWriters : WriteMany(w)
    BY <1>1
  <2> QED
    BY <2>1 DEF WriteMany, Published, Manifests, vars, buffer, disk, faults
<1>2. CASE \E d \in Deleters : Delete(d)
  <2>1. PICK d \in Deleters : Delete(d)
    BY <1>2
  <2> QED
    BY <2>1 DEF Delete, Published, Manifests, vars, buffer, disk, faults
<1>3. CASE \E c \in Clients : WaitOver(c)
  <2>1. PICK c \in Clients : WaitOver(c)
    BY <1>3
  <2> QED
    BY <2>1 DEF WaitOver, Published, Manifests, vars, buffer, disk, faults
<1>4. CASE \E c \in Clients : WaitFailed(c)
  <2>1. PICK c \in Clients : WaitFailed(c)
    BY <1>4
  <2> QED
    BY <2>1 DEF WaitFailed, Published, Manifests, vars, buffer, disk, faults
<1>5. CASE \E d \in Deleters : DeleteCommit(d)
  <2>1. PICK d \in Deleters : DeleteCommit(d)
    BY <1>5
  <2> QED
    BY <2>1 DEF DeleteCommit, Published, Manifests, vars, buffer, disk, faults
<1>6. CASE FlushTake
  BY <1>6 DEF FlushTake, Published, Manifests, vars, buffer, disk, faults
<1>7. CASE SegmentWrite
  BY <1>7 DEF SegmentWrite, SegmentStep, Published, Manifests, vars, buffer, disk,
     faults
<1>8. CASE FlushClear
  BY <1>8 DEF FlushClear, Published, Manifests, vars, buffer, disk, faults
<1>9. CASE FlushResolve
  BY <1>9 DEF FlushResolve, Published, Manifests, vars, buffer, disk, faults
<1>10. CASE FlushCommit
  BY <1>10 DEF FlushCommit, Published, Manifests, vars, buffer, disk, faults
<1>11. CASE FlusherExit
  BY <1>11 DEF FlusherExit, Published, Manifests, vars, buffer, disk, faults
<1>12. CASE WriteTmp
  BY <1>12 DEF WriteTmp, PubStep, Published, Manifests, vars, buffer, disk, faults
<1>13. CASE SyncTmp
  BY <1>13 DEF SyncTmp, PubStep, Published, Manifests, vars, buffer, disk, faults
<1>14. CASE Rename
  <2>1. PubStep("synced", "renamed")
    BY <1>14 DEF Rename
  <2>2. pub # NoPub /\ pub.step = "synced" /\ current' = current
    BY <2>1, PubMoves DEF PubSteps, PubStep
  <2>3. visible' = pub.next /\ durable' = durable \union {pub.next}
    BY <1>14, <2>2 DEF Rename, PubNext
  <2>4. current.segs \subseteq pub.next.segs
    BY <2>2 DEF PubNext
  <2> QED
    BY <2>2, <2>3, <2>4, NextSeqs DEF Published, Manifests
<1>15. CASE SyncRoot
  BY <1>15 DEF SyncRoot, PubStep, Published, Manifests, vars, buffer, disk, faults
<1>16. CASE Swap
  <2>1. pub # NoPub /\ pub.step = "published" /\ current' = pub.next
    BY <1>16 DEF Swap, NoPub
  <2>2. visible = pub.next
    BY <2>1 DEF PubNext
  <2> QED
    BY <1>16, <2>1, <2>2 DEF Swap, Published, Manifests, disk
<1>17. CASE FlushError
  BY <1>17 DEF FlushError, Published, Manifests, vars, buffer, disk, faults
<1>18. CASE PublishError
  BY <1>18 DEF PublishError, Returns, Published, Manifests, vars, buffer, disk, faults
<1>19. CASE Close
  BY <1>19 DEF Close, Published, Manifests, vars, buffer, disk, faults
<1>20. CASE Reopen
  <2>1. OpenOn(visible, files)
    BY <1>20 DEF Reopen
  <2>2. current' = visible
    BY <2>1 DEF OpenOn
  <2> QED
    BY <1>20, <2>2 DEF Reopen, Published, Manifests
<1>21. CASE Kill
  <2>1. OpenOn(visible, files)
    BY <1>21 DEF Kill
  <2>2. current' = visible
    BY <2>1 DEF OpenOn
  <2> QED
    BY <1>21, <2>2 DEF Kill, Published, Manifests
<1>22. CASE PowerLoss
  <2>1. PICK m \in durable : visible' = m /\ durable' = {m} /\ current' = m
    BY <1>22 DEF PowerLoss, OpenOn
  <2> QED
    BY <2>1 DEF Published, Manifests
<1>23. CASE UNCHANGED vars
  BY <1>23 DEF Published, Manifests, vars, buffer, disk, faults
<1> QED
  BY <1>1, <1>2, <1>3, <1>4, <1>5, <1>6, <1>7, <1>8, <1>9, <1>10, <1>11, <1>12, <1>13,
     <1>14, <1>15, <1>16, <1>17, <1>18, <1>19, <1>20, <1>21, <1>22, <1>23
     DEF Next, ClientStep, FlusherStep, PubStepTaken

-----------------------------------------------------------------------------
(* Layer 4 holds.                                                          *)

(* A row of a manifest is a row of one of its segments.                    *)
LEMMA RowsInIff ==
    ASSUME NEW m, NEW w
    PROVE  w \in RowsIn(m) <=> \E s \in m.segs : w \in s.rows
BY DEF RowsIn

(* The rows of a manifest about to be published: those of current, and the *)
(* batch in flight when it is a flush.                                     *)
LEMMA NextRows ==
    ASSUME Shapes, FlusherSync, PubSync, PubNext, RowsApart, pub # NoPub
    PROVE  /\ RowsIn(pub.next) = RowsIn(current) \union
                (IF pub.by = "flusher" THEN in_flight ELSE {})
           /\ pending \intersect RowsIn(pub.next) = {}
           /\ OnceIn(pub.next)
<1>1. FlushSegment.rows = flusher.batch
  BY DEF FlushSegment
<1>2. pub.by = "flusher" => flusher.batch = in_flight
  BY DEF FlusherSync, PubSync, Carrying
<1>3. RowsIn(pub.next) = RowsIn(current) \union
      (IF pub.by = "flusher" THEN in_flight ELSE {})
  <2>1. CASE pub.by = "flusher"
    <3>1. \A w : w \in RowsIn(pub.next) <=>
          (w \in RowsIn(current) \/ w \in FlushSegment.rows)
      BY <2>1, RowsInIff DEF PubNext
    <3> QED
      BY <1>1, <1>2, <2>1, <3>1
  <2>2. CASE pub.by # "flusher"
    <3>1. \A w : w \in RowsIn(pub.next) <=> w \in RowsIn(current)
      BY <2>2, RowsInIff DEF PubNext
    <3> QED
      BY <2>2, <3>1
  <2> QED
    BY <2>1, <2>2
<1>4. pending \intersect RowsIn(pub.next) = {}
  BY <1>3 DEF RowsApart, Manifests
<1>5. OnceIn(pub.next)
  <2> SUFFICES ASSUME NEW s \in pub.next.segs, NEW u \in pub.next.segs, NEW w,
                      w \in s.rows, w \in u.rows
               PROVE  s = u
    BY DEF OnceIn
  <2>1. CASE s \in current.segs /\ u \in current.segs
    BY <2>1 DEF RowsApart, Manifests, OnceIn
  <2>2. CASE s \notin current.segs \/ u \notin current.segs
    <3>1. pub.by = "flusher" /\ pub.next.segs = current.segs \union {FlushSegment}
      BY <2>2 DEF PubNext
    <3>2. s = FlushSegment \/ u = FlushSegment
      BY <2>2, <3>1
    <3>3. w \in in_flight
      BY <1>1, <1>2, <3>1, <3>2
    <3>4. w \notin RowsIn(current)
      BY <3>3 DEF RowsApart
    <3>5. s \notin current.segs /\ u \notin current.segs
      BY <3>4, RowsInIff
    <3> QED
      BY <3>1, <3>5
  <2> QED
    BY <2>1, <2>2
<1> QED
  BY <1>3, <1>4, <1>5

(* Initially there are no rows.                                            *)
LEMMA RowsApartInit == Init => RowsApart
<1> SUFFICES ASSUME Init PROVE RowsApart
  OBVIOUS
<1>1. \A m \in Manifests : m = EmptyManifest
  BY DEF Init, Manifests
<1>2. RowsIn(EmptyManifest) = {} /\ EmptyManifest.segs = {}
  BY DEF EmptyManifest, RowsIn
<1>3. \A m \in Manifests : RowsIn(m) = {} /\ m.segs = {}
  BY <1>1, <1>2
<1>4. flusher.batch = {}
  BY DEF Init, Waiting
<1>5. \A d \in Deleters : client[d].saw = {}
  BY DEF Init, Clients, IdleClient
<1> QED
  BY <1>3, <1>4, <1>5 DEF Init, RowsApart, Unwritten, OnceIn

(* A step that moves no row and forgets none keeps them apart.             *)
LEMMA RowsSame ==
    ASSUME RowsApart, pending' = pending, in_flight' \subseteq in_flight,
           flusher'.batch \subseteq flusher.batch,
           current' = current, durable' \subseteq durable,
           \A e \in Clients : /\ client'[e].pc = "idle" => client[e].pc = "idle"
                              /\ client'[e].saw = client[e].saw
    PROVE  RowsApart'
<1>1. \A m \in Manifests' : m \in Manifests
  BY DEF Manifests
<1>2. \A w \in Writers : client'[w].pc = "idle" => Unwritten(w)'
  BY <1>1 DEF RowsApart, Unwritten, Clients
<1> QED
  BY <1>1, <1>2 DEF RowsApart

(* No row is in two places a query looks at.                               *)
LEMMA RowsApartStep ==
    ASSUME Shapes, FlusherSync, PubSync, PubNext, Published, RowsApart, [Next]_vars
    PROVE  RowsApart'
<1>1. CASE \E w \in Writers \union EmptyWriters : WriteMany(w)
  <2>1. PICK w \in Writers \union EmptyWriters : WriteMany(w)
    BY <1>1
  <2>2. w \in Clients /\ OthersSame(w) /\ client'[w].pc = "wait" /\
        client'[w].saw = client[w].saw
    BY <2>1, WriteManyDoes DEF SameButPcOn
  <2>3. \A e \in Clients : e # w => client'[e] = client[e]
    BY <2>2 DEF OthersSame
  <2>4. /\ UNCHANGED <<in_flight, flusher, current, durable>>
        /\ pending' = pending \union ({w} \intersect Writers) /\ client[w].pc = "idle"
    BY <2>1 DEF WriteMany, disk
  <2>5. w \in Writers => Unwritten(w)
    BY <2>4 DEF RowsApart
  <2>6. ASSUME NEW v \in Writers, client'[v].pc = "idle"
        PROVE  Unwritten(v)'
    <3>1. v # w /\ Unwritten(v)
      BY <2>2, <2>3, <2>6 DEF RowsApart, Clients
    <3>2. \A d \in Deleters : client'[d].saw = client[d].saw
      BY <2>2, <2>3 DEF Clients
    <3> QED
      BY <2>4, <3>1, <3>2 DEF Unwritten, Manifests
  <2>7. \A m \in Manifests' : pending' \intersect RowsIn(m) = {} /\ OnceIn(m)
    BY <2>4, <2>5 DEF RowsApart, Unwritten, Manifests
  <2>8. pending' \intersect in_flight' = {} /\
        in_flight' \intersect RowsIn(current') = {}
    BY <2>4, <2>5 DEF RowsApart, Unwritten
  <2> QED
    BY <2>6, <2>7, <2>8 DEF RowsApart
<1>2. CASE \E d \in Deleters : Delete(d)
  <2>1. PICK d \in Deleters : Delete(d)
    BY <1>2
  <2>2. d \in Clients /\ OthersSame(d) /\ client'[d].pc = "wait" /\
        client'[d].saw = Seen
    BY <2>1, DeleteDoes
  <2>3. \A e \in Clients : e # d => client'[e] = client[e]
    BY <2>2 DEF OthersSame
  <2>4. UNCHANGED <<pending, in_flight, flusher, current, durable>>
    BY <2>1 DEF Delete, buffer, disk
  <2>5. ASSUME NEW v \in Writers, client'[v].pc = "idle"
        PROVE  Unwritten(v)'
    <3>1. Unwritten(v)
      BY <2>2, <2>3, <2>5 DEF RowsApart, Clients
    <3>2. v \notin Seen
      BY <3>1 DEF Unwritten, Seen, Manifests
    <3>3. \A e \in Deleters : v \notin client'[e].saw
      BY <2>2, <2>3, <3>1, <3>2 DEF Unwritten, Clients
    <3> QED
      BY <2>4, <3>1, <3>3 DEF Unwritten, Manifests
  <2>6. \A m \in Manifests' : pending' \intersect RowsIn(m) = {} /\ OnceIn(m)
    BY <2>4 DEF RowsApart, Manifests
  <2>7. pending' \intersect in_flight' = {} /\
        in_flight' \intersect RowsIn(current') = {}
    BY <2>4 DEF RowsApart
  <2> QED
    BY <2>5, <2>6, <2>7 DEF RowsApart
<1>3. CASE \E c \in Clients : WaitOver(c)
  <2>1. PICK c \in Clients : WaitOver(c)
    BY <1>3
  <2>2. c \in Clients /\ OthersSame(c) /\ client'[c].pc # "idle" /\
        client'[c].saw = client[c].saw
    BY <2>1, WaitOverDoes DEF SameButPcOn
  <2>3. \A e \in Clients : (client'[e].pc = "idle" => client[e].pc = "idle") /\
        client'[e].saw = client[e].saw
    BY <2>2 DEF OthersSame
  <2>4. UNCHANGED <<pending, in_flight, flusher, current, durable>>
    BY <2>1 DEF WaitOver, buffer, disk
  <2> QED
    BY <2>3, <2>4, RowsSame
<1>4. CASE \E c \in Clients : WaitFailed(c)
  <2>1. PICK c \in Clients : WaitFailed(c)
    BY <1>4
  <2>2. c \in Clients /\ OthersSame(c) /\ client'[c].pc # "idle" /\
        client'[c].saw = client[c].saw
    BY <2>1, WaitFailedDoes DEF SameButPcOn
  <2>3. \A e \in Clients : (client'[e].pc = "idle" => client[e].pc = "idle") /\
        client'[e].saw = client[e].saw
    BY <2>2 DEF OthersSame
  <2>4. UNCHANGED <<pending, in_flight, flusher, current, durable>>
    BY <2>1 DEF WaitFailed, buffer, disk
  <2> QED
    BY <2>3, <2>4, RowsSame
<1>5. CASE \E d \in Deleters : DeleteCommit(d)
  <2>1. PICK d \in Deleters : DeleteCommit(d)
    BY <1>5
  <2>2. d \in Clients /\ OthersSame(d) /\ client'[d].pc # "idle" /\
        client'[d].saw = client[d].saw
    BY <2>1, DeleteCommitDoes DEF SameButPcOn
  <2>3. \A e \in Clients : (client'[e].pc = "idle" => client[e].pc = "idle") /\
        client'[e].saw = client[e].saw
    BY <2>2 DEF OthersSame
  <2>4. UNCHANGED <<pending, in_flight, flusher, current, durable>>
    BY <2>1 DEF DeleteCommit, buffer, disk
  <2> QED
    BY <2>3, <2>4, RowsSame
<1>6. CASE FlushTake
  <2>1. /\ pending' = {} /\ in_flight' = pending /\ flusher'.batch = pending
        /\ UNCHANGED <<client, current, durable>>
    BY <1>6 DEF FlushTake, disk
  <2>2. \A m \in Manifests' : OnceIn(m)
    BY <2>1 DEF RowsApart, Manifests
  <2>3. in_flight' \intersect RowsIn(current') = {}
    BY <2>1 DEF RowsApart, Manifests
  <2>4. \A w \in Writers : client'[w].pc = "idle" => Unwritten(w)'
    BY <2>1 DEF RowsApart, Unwritten, Manifests
  <2> QED
    BY <2>1, <2>2, <2>3, <2>4 DEF RowsApart
<1>7. CASE SegmentWrite
  <2>1. PICK p \in {"sync", "sync_dir", "commit"} : flusher' = [flusher EXCEPT !.pc = p]
    BY <1>7 DEF SegmentWrite, SegmentStep
  <2>2. flusher'.batch = flusher.batch
    BY <2>1, FlusherMoves
  <2>3. UNCHANGED <<client, pending, in_flight, current, durable>>
    BY <1>7 DEF SegmentWrite, SegmentStep, buffer
  <2> QED
    BY <2>2, <2>3, RowsSame
<1>8. CASE FlushClear
  <2>1. flusher' = [flusher EXCEPT !.pc = "resolve"] /\ in_flight' \subseteq in_flight
    BY <1>8 DEF FlushClear
  <2>2. flusher'.batch = flusher.batch
    BY <2>1, FlusherMoves
  <2>3. UNCHANGED <<client, pending, current, durable>>
    BY <1>8 DEF FlushClear, disk
  <2> QED
    BY <2>1, <2>2, <2>3, RowsSame
<1>9. CASE FlushResolve
  <2>1. flusher'.batch = {}
    BY <1>9 DEF FlushResolve, Waiting
  <2>2. UNCHANGED <<client, pending, in_flight, current, durable>>
    BY <1>9 DEF FlushResolve, buffer, disk
  <2> QED
    BY <2>1, <2>2, RowsSame
<1>10. CASE FlushCommit
  <2>1. flusher' = [flusher EXCEPT !.pc = "publish"]
    BY <1>10 DEF FlushCommit
  <2>2. flusher'.batch = flusher.batch
    BY <2>1, FlusherMoves
  <2>3. UNCHANGED <<client, pending, in_flight, current, durable>>
    BY <1>10 DEF FlushCommit, buffer, disk
  <2> QED
    BY <2>2, <2>3, RowsSame
<1>11. CASE FlusherExit
  <2>1. flusher' = [flusher EXCEPT !.pc = "exited"]
    BY <1>11 DEF FlusherExit
  <2>2. flusher'.batch = flusher.batch
    BY <2>1, FlusherMoves
  <2>3. UNCHANGED <<client, pending, in_flight, current, durable>>
    BY <1>11 DEF FlusherExit, buffer, disk
  <2> QED
    BY <2>2, <2>3, RowsSame
<1>12. CASE WriteTmp
  <2>1. UNCHANGED <<client, pending, in_flight, flusher, current, durable>>
    BY <1>12 DEF WriteTmp, PubStep, buffer, disk
  <2> QED
    BY <2>1, RowsSame
<1>13. CASE SyncTmp
  <2>1. UNCHANGED <<client, pending, in_flight, flusher, current, durable>>
    BY <1>13 DEF SyncTmp, PubStep, buffer, disk
  <2> QED
    BY <2>1, RowsSame
<1>14. CASE Rename
  <2>1. PubStep("synced", "renamed")
    BY <1>14 DEF Rename
  <2>2. pub # NoPub /\ pub.step = "synced"
    BY <2>1, PubMoves DEF PubSteps, PubStep
  <2>3. durable' = durable \union {pub.next}
    BY <1>14, <2>2 DEF Rename, PubNext
  <2>4. UNCHANGED <<client, pending, in_flight, flusher, current>>
    BY <2>1 DEF PubStep, buffer
  <2>5. \A m \in Manifests' : pending' \intersect RowsIn(m) = {} /\ OnceIn(m)
    BY <2>2, <2>3, <2>4, NextRows DEF RowsApart, Manifests
  <2>6. ASSUME NEW v \in Writers, client'[v].pc = "idle"
        PROVE  Unwritten(v)'
    <3>1. Unwritten(v)
      BY <2>4, <2>6 DEF RowsApart
    <3>2. v \notin RowsIn(pub.next)
      BY <2>2, <3>1, NextRows DEF Unwritten, Manifests
    <3> QED
      BY <2>3, <2>4, <3>1, <3>2 DEF Unwritten, Manifests
  <2> QED
    BY <2>4, <2>5, <2>6 DEF RowsApart
<1>15. CASE SyncRoot
  <2>1. durable' = {visible} /\
        UNCHANGED <<client, pending, in_flight, flusher, current>>
    BY <1>15 DEF SyncRoot, PubStep, buffer
  <2>2. durable' \subseteq durable
    BY <2>1 DEF Published
  <2> QED
    BY <2>1, <2>2, RowsSame
<1>16. CASE Swap
  <2>1. /\ pub # NoPub /\ current' = pub.next /\ pub.step = "published"
        /\ in_flight' = IF pub.by = "flusher" THEN {} ELSE in_flight
        /\ pending' = pending /\ durable' = durable
    BY <1>16 DEF Swap, NoPub, disk
  <2>2. pub.next \in durable
    BY <2>1 DEF PubNext, Published
  <2>3. Returns(TRUE)
    BY <1>16 DEF Swap
  <2>4. flusher'.batch = flusher.batch
    BY <2>1, <2>3, ReturnsDoes
  <2>5. \A e \in Clients : (client'[e].pc = "idle" => client[e].pc = "idle") /\
        client'[e].saw = client[e].saw
    BY <2>1, <2>3, ReturnsDoes DEF OthersSame
  <2>6. \A m \in Manifests' : pending' \intersect RowsIn(m) = {} /\ OnceIn(m)
    BY <2>1, <2>2 DEF RowsApart, Manifests
  <2>7. in_flight' \intersect RowsIn(current') = {} /\
        pending' \intersect in_flight' = {}
    BY <2>1, NextRows DEF RowsApart
  <2>8. \A w \in Writers : client'[w].pc = "idle" => Unwritten(w)'
    BY <2>1, <2>2, <2>4, <2>5 DEF RowsApart, Unwritten, Manifests, Clients
  <2> QED
    BY <2>6, <2>7, <2>8 DEF RowsApart
<1>17. CASE FlushError
  <2>1. flusher' = [flusher EXCEPT !.pc = "clear"]
    BY <1>17 DEF FlushError
  <2>2. flusher'.batch = flusher.batch
    BY <2>1, FlusherMoves
  <2>3. UNCHANGED <<client, pending, in_flight, current, durable>>
    BY <1>17 DEF FlushError, buffer, disk
  <2> QED
    BY <2>2, <2>3, RowsSame
<1>18. CASE PublishError
  <2>1. pub # NoPub /\ UNCHANGED <<pending, in_flight, current, durable>>
    BY <1>18 DEF PublishError, NoPub, buffer, disk
  <2>2. Returns(FALSE)
    BY <1>18 DEF PublishError
  <2>3. flusher'.batch = flusher.batch
    BY <2>1, <2>2, ReturnsDoes
  <2>4. \A e \in Clients : (client'[e].pc = "idle" => client[e].pc = "idle") /\
        client'[e].saw = client[e].saw
    BY <2>1, <2>2, ReturnsDoes DEF OthersSame
  <2> QED
    BY <2>1, <2>3, <2>4, RowsSame
<1>19. CASE Close
  <2>1. UNCHANGED <<client, pending, in_flight, flusher, current, durable>>
    BY <1>19 DEF Close, buffer, disk
  <2> QED
    BY <2>1, RowsSame
<1>20. CASE Reopen
  <2>1. OpenOn(visible, files)
    BY <1>20 DEF Reopen
  <2>2. /\ visible \in durable /\ durable' \subseteq durable /\ current' = visible
        /\ pending' = {} /\ in_flight' = {} /\ flusher'.batch = {}
    BY <1>20, <2>1, OpenDoes DEF Reopen, Published
  <2>3. \A e \in Clients : (client'[e].pc = "idle" => client[e].pc = "idle") /\
        client'[e].saw = client[e].saw
    BY <2>1, OpenDoes
  <2> QED
    BY <2>2, <2>3 DEF RowsApart, Unwritten, Manifests, Clients
<1>21. CASE Kill
  <2>1. OpenOn(visible, files)
    BY <1>21 DEF Kill
  <2>2. /\ visible \in durable /\ durable' \subseteq durable /\ current' = visible
        /\ pending' = {} /\ in_flight' = {} /\ flusher'.batch = {}
    BY <1>21, <2>1, OpenDoes DEF Kill, Published
  <2>3. \A e \in Clients : (client'[e].pc = "idle" => client[e].pc = "idle") /\
        client'[e].saw = client[e].saw
    BY <2>1, OpenDoes
  <2> QED
    BY <2>2, <2>3 DEF RowsApart, Unwritten, Manifests, Clients
<1>22. CASE PowerLoss
  <2>1. PICK m \in durable :
           /\ durable' = {m}
           /\ OpenOn(m, [t \in Tickets |-> IF files[t] = "durable" THEN "durable" ELSE "none"])
    BY <1>22 DEF PowerLoss
  <2>2. current' = m /\ pending' = {} /\ in_flight' = {} /\ flusher'.batch = {}
    BY <2>1, OpenDoes
  <2>3. \A e \in Clients : (client'[e].pc = "idle" => client[e].pc = "idle") /\
        client'[e].saw = client[e].saw
    BY <2>1, OpenDoes
  <2> QED
    BY <2>1, <2>2, <2>3 DEF RowsApart, Unwritten, Manifests, Clients
<1>23. CASE UNCHANGED vars
  <2>1. UNCHANGED <<client, pending, in_flight, flusher, current, durable>>
    BY <1>23 DEF vars, buffer, disk
  <2> QED
    BY <2>1, RowsSame
<1> QED
  BY <1>1, <1>2, <1>3, <1>4, <1>5, <1>6, <1>7, <1>8, <1>9, <1>10, <1>11, <1>12, <1>13,
     <1>14, <1>15, <1>16, <1>17, <1>18, <1>19, <1>20, <1>21, <1>22, <1>23
     DEF Next, ClientStep, FlusherStep, PubStepTaken

-----------------------------------------------------------------------------
(* Layer 5 holds.                                                          *)

(* The only manifest a step makes current or durable is the one being      *)
(* published.                                                              *)
LEMMA NewManifests ==
    ASSUME Shapes, PubNext, Published, [Next]_vars
    PROVE  \A m \in Manifests' : m \in Manifests \/ (pub # NoPub /\ m = pub.next)
<1>1. CASE \E w \in Writers \union EmptyWriters : WriteMany(w)
  BY <1>1 DEF WriteMany, Published, Manifests, vars, disk
<1>2. CASE \E d \in Deleters : Delete(d)
  BY <1>2 DEF Delete, Published, Manifests, vars, disk
<1>3. CASE \E c \in Clients : WaitOver(c)
  BY <1>3 DEF WaitOver, Published, Manifests, vars, disk
<1>4. CASE \E c \in Clients : WaitFailed(c)
  BY <1>4 DEF WaitFailed, Published, Manifests, vars, disk
<1>5. CASE \E d \in Deleters : DeleteCommit(d)
  BY <1>5 DEF DeleteCommit, Published, Manifests, vars, disk
<1>6. CASE FlushTake
  BY <1>6 DEF FlushTake, Published, Manifests, vars, disk
<1>7. CASE SegmentWrite
  BY <1>7 DEF SegmentWrite, SegmentStep, Published, Manifests, vars, disk
<1>8. CASE FlushClear
  BY <1>8 DEF FlushClear, Published, Manifests, vars, disk
<1>9. CASE FlushResolve
  BY <1>9 DEF FlushResolve, Published, Manifests, vars, disk
<1>10. CASE FlushCommit
  BY <1>10 DEF FlushCommit, Published, Manifests, vars, disk
<1>11. CASE FlusherExit
  BY <1>11 DEF FlusherExit, Published, Manifests, vars, disk
<1>12. CASE WriteTmp
  BY <1>12 DEF WriteTmp, PubStep, Published, Manifests, vars, disk
<1>13. CASE SyncTmp
  BY <1>13 DEF SyncTmp, PubStep, Published, Manifests, vars, disk
<1>14. CASE Rename
  <2>1. PubStep("synced", "renamed")
    BY <1>14 DEF Rename
  <2>2. pub # NoPub /\ pub.step = "synced" /\ current' = current
    BY <2>1, PubMoves DEF PubSteps, PubStep
  <2>3. durable' = durable \union {pub.next}
    BY <1>14, <2>2 DEF Rename, PubNext
  <2> QED
    BY <2>2, <2>3 DEF Manifests
<1>15. CASE SyncRoot
  BY <1>15 DEF SyncRoot, PubStep, Published, Manifests, vars, disk
<1>16. CASE Swap
  BY <1>16 DEF Swap, NoPub, Published, Manifests, vars, disk
<1>17. CASE FlushError
  BY <1>17 DEF FlushError, Published, Manifests, vars, disk
<1>18. CASE PublishError
  BY <1>18 DEF PublishError, Published, Manifests, vars, disk
<1>19. CASE Close
  BY <1>19 DEF Close, Published, Manifests, vars, disk
<1>20. CASE Reopen
  BY <1>20 DEF Reopen, OpenOn, Published, Manifests, vars, disk
<1>21. CASE Kill
  BY <1>21 DEF Kill, OpenOn, Published, Manifests, vars, disk
<1>22. CASE PowerLoss
  BY <1>22 DEF PowerLoss, OpenOn, Published, Manifests, vars, disk
<1>23. CASE UNCHANGED vars
  BY <1>23 DEF Published, Manifests, vars, disk
<1> QED
  BY <1>1, <1>2, <1>3, <1>4, <1>5, <1>6, <1>7, <1>8, <1>9, <1>10, <1>11, <1>12, <1>13,
     <1>14, <1>15, <1>16, <1>17, <1>18, <1>19, <1>20, <1>21, <1>22, <1>23
     DEF Next, ClientStep, FlusherStep, PubStepTaken

(* What every manifest has, every later one has.                           *)
LEMMA StoredStays ==
    ASSUME Shapes, FlusherSync, PubSync, PubNext, Published, RowsApart, [Next]_vars,
           NEW w, Stored(w)
    PROVE  Stored(w)'
<1>1. \A m \in Manifests' : m \in Manifests \/ (pub # NoPub /\ m = pub.next)
  BY NewManifests
<1>2. pub # NoPub => RowsIn(current) \subseteq RowsIn(pub.next)
  BY NextRows
<1>3. current \in Manifests
  BY DEF Manifests
<1> QED
  BY <1>1, <1>2, <1>3 DEF Stored

(* A step that leaves the tickets alone and acknowledges nobody.           *)
LEMMA AcksSame ==
    ASSUME Shapes, FlusherSync, PubSync, PubNext, Published, RowsApart, Acks,
           [Next]_vars,
           pending' = pending, ticket' = ticket, done' = done,
           Flushing => Flushing', flusher'.batch = flusher.batch,
             flusher'.ticket = flusher.ticket,
           flusher'.pc \in {"clear", "resolve"} /\ flusher'.ok =>
              flusher.pc \in {"clear", "resolve"} /\ flusher.ok,
           \A w \in Writers : client'[w] = client[w]
    PROVE  Acks'
<1>1. \A v, t : Tracked(v, t) => Tracked(v, t)'
  BY StoredStays DEF Tracked
<1> QED
  BY <1>1, StoredStays DEF Acks

(* Initially nobody waits or was acknowledged.                             *)
LEMMA AcksInit == Init => Acks
BY DEF Init, Waiting, IdleClient, Acks, Clients

(* An acknowledged row is in every manifest an open may find.              *)
LEMMA AcksStep ==
    ASSUME Shapes, FlusherSync, PubSync, PubNext, Published, RowsApart, Acks,
           [Next]_vars
    PROVE  Acks'
<1>1. CASE \E w \in Writers \union EmptyWriters : WriteMany(w)
  <2>1. PICK w \in Writers \union EmptyWriters : WriteMany(w)
    BY <1>1
  <2>2. /\ w \in Clients /\ OthersSame(w) /\ client'[w].on = <<ticket>> /\
             client'[w].ok = client[w].ok
        /\ ticket \in Tickets
    BY <2>1, WriteManyDoes DEF SameButPcOn
  <2>3. UNCHANGED <<flusher, ticket, done>> /\
        pending' = pending \union ({w} \intersect Writers)
    BY <2>1 DEF WriteMany
  <2>4. \A v, t : Tracked(v, t) => Tracked(v, t)'
    BY <2>3, StoredStays DEF Tracked, Flushing
  <2>5. ASSUME NEW v \in Writers
        PROVE  /\ client'[v].ok => Stored(v)'
               /\ client'[v].pc = "wait" => Len(client'[v].on) = 1 /\
                    Tracked(v, client[v].on[1])'
    <3>1. CASE v = w
      <4>1. Len(client'[v].on) = 1 /\ client'[v].on[1] = ticket
        BY <2>2, <3>1, OnSeqs
      <4>2. Tracked(v, ticket)'
        BY <2>3, <3>1 DEF Tracked
      <4>3. client'[v].ok => Stored(v)'
        BY <2>2, <3>1, StoredStays DEF Acks
      <4> QED
        BY <2>3, <4>1, <4>2, <4>3
    <3>2. CASE v # w
      <4>1. client'[v] = client[v]
        BY <2>2, <3>2 DEF OthersSame, Clients
      <4> QED
        BY <4>1, <2>4, StoredStays DEF Acks
    <3> QED
      BY <3>1, <3>2
  <2> QED
    BY <2>3, <2>5, StoredStays DEF Acks
<1>2. CASE \E d \in Deleters : Delete(d)
  <2>1. PICK d \in Deleters : Delete(d)
    BY <1>2
  <2>2. UNCHANGED <<pending, flusher, ticket, done>> /\ \A w \in Writers :
        client'[w] = client[w]
    BY <2>1, DeleteDoes, WritePathAssumption DEF Delete, OthersSame, Clients, buffer
  <2> QED
    BY <2>2, AcksSame DEF Flushing
<1>3. CASE \E c \in Clients : WaitOver(c)
  <2>1. PICK c \in Clients : WaitOver(c)
    BY <1>3
  <2>2. UNCHANGED <<pending, flusher, ticket, done>> /\ client[c].pc = "wait"
    BY <2>1 DEF WaitOver, buffer
  <2>3. OthersSame(c)
    BY <2>1, WaitOverDoes
  <2>4. CASE c \notin Writers
    <3>1. \A w \in Writers : client'[w] = client[w]
      BY <2>3, <2>4 DEF OthersSame, Clients
    <3> QED
      BY <2>2, <3>1, AcksSame DEF Flushing
  <2>5. CASE c \in Writers
    <3>1. Len(client[c].on) = 1 /\ Tracked(c, client[c].on[1])
      BY <2>2, <2>5 DEF Acks
    <3>2. client[c].on # <<>> /\ client[c].on[1] \in Tickets
      BY <3>1 DEF Shapes, ClientType
    <3>3. done[client[c].on[1]] = "ok"
      BY <2>1, <3>2 DEF WaitOver
    <3>4. client[c].on[1] # ticket
      BY <3>2, <3>3 DEF FlusherSync, Shapes, Tickets
    <3>5. ~(Flushing /\ client[c].on[1] = flusher.ticket)
      BY <3>3 DEF FlusherSync
    <3>6. Stored(c)
      BY <3>1, <3>3, <3>4, <3>5 DEF Tracked
    <3>7. client'[c].pc = "done"
      BY <2>1, <2>5, <3>1, WaitOverDoes, WritePathAssumption
    <3>8. \A v, t : Tracked(v, t) => Tracked(v, t)'
      BY <2>2, StoredStays DEF Tracked, Flushing
    <3>9. ASSUME NEW v \in Writers
          PROVE  /\ client'[v].ok => Stored(v)'
                 /\ client'[v].pc = "wait" => Len(client'[v].on) = 1 /\
                      Tracked(v, client[v].on[1])'
      <4>1. CASE v = c
        BY <3>6, <3>7, <4>1, StoredStays
      <4>2. CASE v # c
        <5>1. client'[v] = client[v]
          BY <2>3, <4>2 DEF OthersSame, Clients
        <5> QED
          BY <5>1, <3>8, StoredStays DEF Acks
      <4> QED
        BY <4>1, <4>2
    <3> QED
      BY <2>2, <3>9, StoredStays DEF Acks
  <2> QED
    BY <2>4, <2>5
<1>4. CASE \E c \in Clients : WaitFailed(c)
  <2>1. PICK c \in Clients : WaitFailed(c)
    BY <1>4
  <2>2. UNCHANGED <<pending, flusher, ticket, done>>
    BY <2>1 DEF WaitFailed, buffer
  <2>3. client'[c].pc = "done" /\ client'[c].ok = client[c].ok /\ OthersSame(c)
    BY <2>1, WaitFailedDoes DEF SameButPcOn
  <2>4. \A v, t : Tracked(v, t) => Tracked(v, t)'
    BY <2>2, StoredStays DEF Tracked, Flushing
  <2>5. ASSUME NEW v \in Writers
        PROVE  /\ client'[v].ok => Stored(v)'
               /\ client'[v].pc = "wait" => Len(client'[v].on) = 1 /\
                    Tracked(v, client[v].on[1])'
    <3>1. CASE v = c
      BY <2>3, <3>1, StoredStays DEF Acks
    <3>2. CASE v # c
      <4>1. client'[v] = client[v]
        BY <2>3, <3>2 DEF OthersSame, Clients
      <4> QED
        BY <4>1, <2>4, StoredStays DEF Acks
    <3> QED
      BY <3>1, <3>2
  <2> QED
    BY <2>2, <2>5, StoredStays DEF Acks
<1>5. CASE \E d \in Deleters : DeleteCommit(d)
  <2>1. PICK d \in Deleters : DeleteCommit(d)
    BY <1>5
  <2>2. UNCHANGED <<pending, flusher, ticket, done>> /\ \A w \in Writers :
        client'[w] = client[w]
    BY <2>1, DeleteCommitDoes, WritePathAssumption DEF DeleteCommit, OthersSame,
       Clients, buffer
  <2> QED
    BY <2>2, AcksSame DEF Flushing
<1>6. CASE FlushTake
  <2>1. /\ client' = client /\ done' = done /\ ticket' = ticket + 1 /\ ticket \in Nat
        /\ flusher'.pc = "write" /\ flusher'.batch = pending /\ flusher'.ticket = ticket
        /\ flusher.pc = "wait"
    BY <1>6 DEF FlushTake, Shapes
  <2>2. ASSUME NEW v \in Writers, NEW t \in Tickets, Tracked(v, t)
        PROVE  Tracked(v, t)'
    <3>1. CASE t = ticket /\ v \in pending
      BY <2>1, <3>1 DEF Tracked, Flushing
    <3>2. CASE t < ticket /\ (done[t] = "err" \/ (done[t] = "ok" /\ Stored(v)))
      <4>1. t < ticket'
        BY <2>1, <3>2, WritePathAssumption DEF Tickets
      <4> QED
        BY <2>1, <3>2, <4>1, StoredStays DEF Tracked
    <3> QED
      BY <2>1, <2>2, <3>1, <3>2 DEF Tracked, Flushing
  <2>3. \A w \in Writers : client[w].pc = "wait" => client[w].on[1] \in Tickets
    BY DEF Acks, Shapes, ClientType, Clients
  <2> QED
    BY <2>1, <2>2, <2>3, StoredStays DEF Acks
<1>7. CASE SegmentWrite
  <2>1. PICK p \in {"sync", "sync_dir", "commit"} : flusher' = [flusher EXCEPT !.pc = p]
    BY <1>7 DEF SegmentWrite, SegmentStep
  <2>2. UNCHANGED <<client, pending, ticket, done>>
    BY <1>7 DEF SegmentWrite, SegmentStep, buffer
  <2>3. flusher'.pc \in {"sync", "sync_dir", "commit"}
    BY <2>1, FlusherMoves
  <2>4. Flushing'
    BY <2>3 DEF Flushing
  <2>5. flusher'.batch = flusher.batch /\ flusher'.ticket = flusher.ticket
    BY <2>1, FlusherMoves
  <2> QED
    BY <2>2, <2>3, <2>4, <2>5, AcksSame DEF Flushing
<1>8. CASE FlushClear
  <2>1. flusher' = [flusher EXCEPT !.pc = "resolve"]
    BY <1>8 DEF FlushClear
  <2>2. UNCHANGED <<client, pending, ticket, done>>
    BY <1>8 DEF FlushClear, buffer
  <2>3. Flushing => Flushing'
    BY <1>8, <2>1, FlusherMoves DEF FlushClear, Flushing
  <2>4. /\ flusher'.batch = flusher.batch /\ flusher'.ticket = flusher.ticket
        /\ flusher'.pc \in {"clear", "resolve"} /\ flusher'.ok =>
             flusher.pc \in {"clear", "resolve"} /\ flusher.ok
    BY <1>8, <2>1, FlusherMoves DEF FlushClear, FlusherSync
  <2> QED
    BY <2>2, <2>3, <2>4, AcksSame DEF Flushing
<1>9. CASE FlushResolve
  <2>1. /\ UNCHANGED <<client, pending, ticket>> /\ flusher.pc = "resolve" /\
             flusher'.pc = "wait"
        /\ done' = [done EXCEPT ![flusher.ticket] = IF flusher.ok THEN "ok" ELSE "err"]
    BY <1>9 DEF FlushResolve, Waiting, buffer
  <2>2. /\ flusher.ticket \in Tickets /\ flusher.ticket < ticket /\
             done[flusher.ticket] = "none"
    BY <2>1 DEF FlusherSync, Flushing
  <2>3. /\ done'[flusher.ticket] = IF flusher.ok THEN "ok" ELSE "err"
        /\ \A t \in Tickets : t # flusher.ticket => done'[t] = done[t]
    BY <2>1, <2>2 DEF Shapes
  <2>4. ASSUME NEW v \in Writers, NEW t \in Tickets, Tracked(v, t)
        PROVE  Tracked(v, t)'
    <3>1. CASE t = ticket /\ v \in pending
      BY <2>1, <3>1 DEF Tracked
    <3>2. CASE t = flusher.ticket /\ v \in flusher.batch
      BY <2>1, <2>2, <2>3, <3>2, StoredStays DEF Tracked, Acks
    <3>3. CASE t < ticket /\ (done[t] = "err" \/ (done[t] = "ok" /\ Stored(v)))
      BY <2>1, <2>2, <2>3, <3>3, StoredStays DEF Tracked
    <3> QED
      BY <2>4, <3>1, <3>2, <3>3 DEF Tracked
  <2>5. \A w \in Writers : client[w].pc = "wait" => client[w].on[1] \in Tickets
    BY DEF Acks, Shapes, ClientType, Clients
  <2> QED
    BY <2>1, <2>4, <2>5, StoredStays DEF Acks
<1>10. CASE FlushCommit
  <2>1. flusher' = [flusher EXCEPT !.pc = "publish"]
    BY <1>10 DEF FlushCommit
  <2>2. UNCHANGED <<client, pending, ticket, done>>
    BY <1>10 DEF FlushCommit, buffer
  <2>3. Flushing => Flushing'
    BY <1>10, <2>1, FlusherMoves DEF FlushCommit, Flushing
  <2>4. /\ flusher'.batch = flusher.batch /\ flusher'.ticket = flusher.ticket
        /\ flusher'.pc \in {"clear", "resolve"} /\ flusher'.ok =>
             flusher.pc \in {"clear", "resolve"} /\ flusher.ok
    BY <1>10, <2>1, FlusherMoves DEF FlushCommit, FlusherSync
  <2> QED
    BY <2>2, <2>3, <2>4, AcksSame DEF Flushing
<1>11. CASE FlusherExit
  <2>1. flusher' = [flusher EXCEPT !.pc = "exited"]
    BY <1>11 DEF FlusherExit
  <2>2. UNCHANGED <<client, pending, ticket, done>>
    BY <1>11 DEF FlusherExit, buffer
  <2>3. Flushing => Flushing'
    BY <1>11, <2>1, FlusherMoves DEF FlusherExit, Flushing
  <2>4. /\ flusher'.batch = flusher.batch /\ flusher'.ticket = flusher.ticket
        /\ flusher'.pc \in {"clear", "resolve"} /\ flusher'.ok =>
             flusher.pc \in {"clear", "resolve"} /\ flusher.ok
    BY <1>11, <2>1, FlusherMoves DEF FlusherExit, FlusherSync
  <2> QED
    BY <2>2, <2>3, <2>4, AcksSame DEF Flushing
<1>12. CASE WriteTmp
  <2>1. UNCHANGED <<client, pending, flusher, ticket, done>>
    BY <1>12 DEF WriteTmp, PubStep, buffer, disk
  <2> QED
    BY <2>1, AcksSame DEF Flushing
<1>13. CASE SyncTmp
  <2>1. UNCHANGED <<client, pending, flusher, ticket, done>>
    BY <1>13 DEF SyncTmp, PubStep, buffer, disk
  <2> QED
    BY <2>1, AcksSame DEF Flushing
<1>14. CASE Rename
  <2>1. UNCHANGED <<client, pending, flusher, ticket, done>>
    BY <1>14 DEF Rename, PubStep, buffer, disk
  <2> QED
    BY <2>1, AcksSame DEF Flushing
<1>15. CASE SyncRoot
  <2>1. UNCHANGED <<client, pending, flusher, ticket, done>>
    BY <1>15 DEF SyncRoot, PubStep, buffer, disk
  <2> QED
    BY <2>1, AcksSame DEF Flushing
<1>16. CASE Swap
  <2>1. pub # NoPub /\ UNCHANGED <<pending, ticket, done>>
    BY <1>16 DEF Swap, NoPub
  <2>2. Returns(TRUE)
    BY <1>16 DEF Swap
  <2>3. CASE pub.by = "flusher"
    <3>1. /\ client' = client /\ flusher'.pc = "clear"
          /\ flusher'.batch = flusher.batch /\ flusher'.ticket = flusher.ticket
      BY <2>1, <2>2, <2>3, ReturnsDoes
    <3>2. \A w \in flusher.batch : Stored(w)'
      <4>1. Manifests' = {pub.next}
        BY <1>16, <2>1 DEF Swap, PubNext, Manifests, disk
      <4>2. flusher.batch = in_flight
        BY <2>1, <2>3 DEF PubSync, FlusherSync, Carrying
      <4> QED
        BY <2>1, <2>3, <4>1, <4>2, NextRows DEF Stored
    <3>3. Flushing'
      BY <3>1 DEF Flushing
    <3>4. \A v, t : Tracked(v, t) => Tracked(v, t)'
      BY <2>1, <3>1, <3>3, StoredStays DEF Tracked
    <3> QED
      BY <3>1, <3>2, <3>4, StoredStays DEF Acks
  <2>4. CASE pub.by # "flusher"
    <3>1. flusher' = flusher /\ \A w \in Writers : client'[w] = client[w]
      BY <2>1, <2>2, <2>4, ReturnsDoes, WritePathAssumption DEF OthersSame, Clients
    <3> QED
      BY <2>1, <3>1, AcksSame DEF Flushing
  <2> QED
    BY <2>3, <2>4
<1>17. CASE FlushError
  <2>1. flusher' = [flusher EXCEPT !.pc = "clear"]
    BY <1>17 DEF FlushError
  <2>2. UNCHANGED <<client, pending, ticket, done>>
    BY <1>17 DEF FlushError, buffer
  <2>3. Flushing => Flushing'
    BY <1>17, <2>1, FlusherMoves DEF FlushError, Flushing
  <2>4. /\ flusher'.batch = flusher.batch /\ flusher'.ticket = flusher.ticket
        /\ flusher'.pc \in {"clear", "resolve"} /\ flusher'.ok =>
             flusher.pc \in {"clear", "resolve"} /\ flusher.ok
    BY <1>17, <2>1, FlusherMoves DEF FlushError, FlusherSync
  <2> QED
    BY <2>2, <2>3, <2>4, AcksSame DEF Flushing
<1>18. CASE PublishError
  <2>1. pub # NoPub /\ UNCHANGED <<pending, ticket, done>>
    BY <1>18 DEF PublishError, NoPub, buffer
  <2>2. Returns(FALSE)
    BY <1>18 DEF PublishError
  <2>3. CASE pub.by = "flusher"
    <3>1. /\ client' = client /\ flusher'.pc = "clear" /\ flusher'.ok = FALSE
          /\ flusher'.batch = flusher.batch /\ flusher'.ticket = flusher.ticket
      BY <2>1, <2>2, <2>3, ReturnsDoes
    <3>2. Flushing'
      BY <3>1 DEF Flushing
    <3> QED
      BY <2>1, <3>1, <3>2, AcksSame DEF Flushing
  <2>4. CASE pub.by # "flusher"
    <3>1. flusher' = flusher /\ \A w \in Writers : client'[w] = client[w]
      BY <2>1, <2>2, <2>4, ReturnsDoes, WritePathAssumption DEF OthersSame, Clients
    <3> QED
      BY <2>1, <3>1, AcksSame DEF Flushing
  <2> QED
    BY <2>3, <2>4
<1>19. CASE Close
  <2>1. UNCHANGED <<client, pending, flusher, ticket, done>>
    BY <1>19 DEF Close, buffer, disk
  <2> QED
    BY <2>1, AcksSame DEF Flushing
<1>20. CASE Reopen
  <2>1. OpenOn(visible, files)
    BY <1>20 DEF Reopen
  <2>2. flusher'.ok = FALSE /\ \A c \in Clients : client'[c].ok = client[c].ok /\
        client'[c].pc # "wait"
    BY <2>1, OpenDoes
  <2> QED
    BY <2>2, StoredStays DEF Acks, Clients
<1>21. CASE Kill
  <2>1. OpenOn(visible, files)
    BY <1>21 DEF Kill
  <2>2. flusher'.ok = FALSE /\ \A c \in Clients : client'[c].ok = client[c].ok /\
        client'[c].pc # "wait"
    BY <2>1, OpenDoes
  <2> QED
    BY <2>2, StoredStays DEF Acks, Clients
<1>22. CASE PowerLoss
  <2>1. PICK m, fs : OpenOn(m, fs)
    BY <1>22 DEF PowerLoss
  <2>2. flusher'.ok = FALSE /\ \A c \in Clients : client'[c].ok = client[c].ok /\
        client'[c].pc # "wait"
    BY <2>1, OpenDoes
  <2> QED
    BY <2>2, StoredStays DEF Acks, Clients
<1>23. CASE UNCHANGED vars
  <2>1. UNCHANGED <<client, pending, flusher, ticket, done>>
    BY <1>23 DEF vars, buffer, disk
  <2> QED
    BY <2>1, AcksSame DEF Flushing
<1> QED
  BY <1>1, <1>2, <1>3, <1>4, <1>5, <1>6, <1>7, <1>8, <1>9, <1>10, <1>11, <1>12, <1>13,
     <1>14, <1>15, <1>16, <1>17, <1>18, <1>19, <1>20, <1>21, <1>22, <1>23
     DEF Next, ClientStep, FlusherStep, PubStepTaken

-----------------------------------------------------------------------------
(* Layer 6 holds.                                                          *)

(* Initially no delete was called.                                         *)
LEMMA DeletesInit == Init => Deletes
BY DEF Init, IdleClient, Deletes, DeleteWaits, DeleteClear, DeleteAbove, Clients

(* A flush published after a delete has none of the rows the delete saw.   *)
LEMMA AboveStays ==
    ASSUME Shapes, FlusherSync, PubSync, PubNext, Published, RowsApart, Deletes,
           [Next]_vars, NEW d \in Deleters,
           client'[d].ok => client[d].ok /\ client'[d].saw = client[d].saw /\
             client'[d].seq = client[d].seq
    PROVE  DeleteAbove(d)'
<1> SUFFICES ASSUME client'[d].ok, NEW m \in Manifests', NEW s \in m.segs,
                    s.rows \intersect client[d].saw # {}
             PROVE  s.seq < client[d].seq
  BY DEF DeleteAbove
<1>1. m \in Manifests \/ (pub # NoPub /\ m = pub.next)
  BY NewManifests
<1>2. DeleteClear(d) /\ DeleteAbove(d) /\ client[d].ok /\ current \in Manifests
  BY DEF Deletes, Manifests
<1>3. CASE m \in Manifests
  BY <1>2, <1>3 DEF DeleteAbove
<1>4. CASE pub # NoPub /\ m = pub.next
  <2>1. s \in current.segs \/ (pub.by = "flusher" /\ s = FlushSegment)
    BY <1>4 DEF PubNext
  <2>2. pub.by = "flusher" => FlushSegment.rows = in_flight
    BY <1>4 DEF FlushSegment, PubSync, FlusherSync, Carrying
  <2>3. s \in current.segs
    BY <1>2, <2>1, <2>2 DEF DeleteClear
  <2> QED
    BY <1>2, <2>3 DEF DeleteAbove
<1> QED
  BY <1>1, <1>3, <1>4

(* A step that is not this deleter's.                                      *)
LEMMA DeleteSame ==
    ASSUME Shapes, FlusherSync, PubSync, PubNext, Published, RowsApart, Deletes,
           [Next]_vars, NEW d \in Deleters,
           client'[d] = client[d], ticket' = ticket, in_flight' \subseteq in_flight,
           flusher'.ticket = flusher.ticket \/ in_flight' = {},
           \A r \in pending' : r \in pending \/ r \notin client[d].saw
    PROVE  DeleteWaits(d)' /\ DeleteClear(d)' /\ DeleteAbove(d)'
<1>1. DeleteAbove(d)'
  BY AboveStays
<1>2. DeleteClear(d)'
  BY DEF Deletes, DeleteClear
<1>3. \A t : WaitsFor(d, t)' = WaitsFor(d, t)
  BY DEF WaitsFor
<1>4. DeleteWaits(d)'
  BY <1>3 DEF Deletes, DeleteWaits
<1> QED
  BY <1>1, <1>2, <1>4

(* A tombstone is above every row its delete saw.                          *)
LEMMA DeletesStep ==
    ASSUME Shapes, FlusherSync, PubSync, PubNext, Published, RowsApart, Deletes,
           [Next]_vars
    PROVE  Deletes'
<1>1. CASE \E w \in Writers \union EmptyWriters : WriteMany(w)
  <2>1. PICK w \in Writers \union EmptyWriters : WriteMany(w)
    BY <1>1
  <2>2. /\ pending' = pending \union ({w} \intersect Writers) /\ client[w].pc = "idle"
        /\ UNCHANGED <<in_flight, ticket, flusher>>
    BY <2>1 DEF WriteMany
  <2>3. \A d \in Deleters : client'[d] = client[d]
    BY <2>1, WriteManyDoes, WritePathAssumption DEF OthersSame, Clients
  <2>4. w \in Writers => \A d \in Deleters : w \notin client[d].saw
    BY <2>2 DEF RowsApart, Unwritten
  <2> QED
    BY <2>2, <2>3, <2>4, DeleteSame DEF Deletes
<1>2. CASE \E d \in Deleters : Delete(d)
  <2>1. PICK d \in Deleters : Delete(d)
    BY <1>2
  <2>2. /\ client'[d].pc = "wait" /\
             client'[d].on = TicketsToWait(pending, ticket, in_flight_ticket)
        /\ client'[d].ok = client[d].ok
    BY <2>1, DeleteDoes
  <2>3. OthersSame(d)
    BY <2>1, DeleteDoes
  <2>4. UNCHANGED <<pending, in_flight, ticket, flusher>> /\ client[d].pc = "idle"
    BY <2>1 DEF Delete, buffer
  <2>9. ASSUME NEW e \in Deleters, e # d
        PROVE  DeleteWaits(e)' /\ DeleteClear(e)' /\ DeleteAbove(e)'
    BY <2>3, <2>4, <2>9, DeleteSame DEF OthersSame, Clients
  <2>5. client'[d].ok = FALSE
    BY <2>2, <2>4 DEF PubSync, Clients, Shapes, ClientType
  <2>6. in_flight # {} => in_flight_ticket # 0 /\ in_flight_ticket = flusher.ticket
    BY DEF FlusherSync, Carrying, Flushing, Tickets
  <2>7. /\ pending # {} => \E i \in 1 .. Len(client'[d].on) : client'[d].on[i] = ticket
        /\ in_flight # {} => \E i \in 1 .. Len(client'[d].on) :
             client'[d].on[i] = flusher.ticket
    <3> DEFINE o == TicketsToWait(pending, ticket, in_flight_ticket)
    <3>1. CASE pending # {} /\ in_flight_ticket # 0
      <4>1. Len(o) = 2 /\ o[1] = in_flight_ticket /\ o[2] = ticket
        BY <3>1 DEF TicketsToWait
      <4> HIDE DEF o
      <4>2. 1 \in 1 .. 2 /\ 2 \in 1 .. 2
        OBVIOUS
      <4> QED
        BY <4>1, <4>2, <2>2, <2>6 DEF o
    <3>2. CASE pending # {} /\ in_flight_ticket = 0
      <4>1. Len(o) = 1 /\ o[1] = ticket
        BY <3>2 DEF TicketsToWait
      <4>2. 1 \in 1 .. 1
        OBVIOUS
      <4> HIDE DEF o
      <4> QED
        BY <4>1, <4>2, <3>2, <2>2, <2>6 DEF o
    <3>3. CASE pending = {} /\ in_flight_ticket # 0
      <4>1. Len(o) = 1 /\ o[1] = in_flight_ticket
        BY <3>3 DEF TicketsToWait
      <4>2. 1 \in 1 .. 1
        OBVIOUS
      <4> HIDE DEF o
      <4> QED
        BY <4>1, <4>2, <3>3, <2>2, <2>6 DEF o
    <3> QED
      BY <2>6, <3>1, <3>2, <3>3
  <2>8. DeleteWaits(d)' /\ DeleteClear(d)' /\ DeleteAbove(d)'
    BY <2>2, <2>4, <2>5, <2>7 DEF DeleteWaits, DeleteClear, DeleteAbove, WaitsFor
  <2> QED
    BY <2>8, <2>9 DEF Deletes
<1>3. CASE \E c \in Clients : WaitOver(c)
  <2>1. PICK c \in Clients : WaitOver(c)
    BY <1>3
  <2>2. client[c].pc = "wait" /\ (client[c].on # <<>> => done[client[c].on[1]] = "ok")
    BY <2>1 DEF WaitOver
  <2>3. OthersSame(c)
    BY <2>1, WaitOverDoes
  <2>4. UNCHANGED <<pending, in_flight, ticket, flusher>>
    BY <2>1 DEF WaitOver, buffer
  <2>9. ASSUME NEW e \in Deleters, e # c
        PROVE  DeleteWaits(e)' /\ DeleteClear(e)' /\ DeleteAbove(e)'
    BY <2>3, <2>4, <2>9, DeleteSame DEF OthersSame, Clients
  <2>5. ASSUME c \in Deleters
        PROVE  DeleteWaits(c)' /\ DeleteClear(c)' /\ DeleteAbove(c)'
    <3>1. client'[c].saw = client[c].saw /\ client'[c].ok = FALSE
      BY <2>1, <2>2, <2>5, WaitOverDoes DEF SameButPcOn, PubSync, Shapes, ClientType
    <3>2. DeleteWaits(c)
      BY <2>5 DEF Deletes
    <3> DEFINE o == client[c].on
    <3>3. o \in Seq(Tickets)
      BY DEF Shapes, ClientType
    <3>4. o # <<>> => o[1] \in Tickets /\ done[o[1]] = "ok"
      BY <2>2, <3>3
    <3>5. o # <<>> /\ pending # {} => o[1] # ticket
      BY <3>4 DEF FlusherSync, Shapes, Tickets
    <3>6. o # <<>> /\ in_flight # {} => o[1] # flusher.ticket
      BY <3>4 DEF FlusherSync, Carrying, Flushing
    <3>7. CASE Len(o) = 2 /\ client'[c].pc = "wait" /\ client'[c].on = <<o[2]>>
      <4>1. ASSUME NEW t, WaitsFor(c, t), t # o[1]
            PROVE  WaitsFor(c, t)'
        <5>1. PICK i \in 1 .. 2 : o[i] = t
          BY <3>7, <4>1 DEF WaitsFor
        <5>2. o[2] = t
          BY <4>1, <5>1
        <5>3. Len(client'[c].on) = 1 /\ client'[c].on[1] = t
          BY <3>7, <5>2
        <5>4. 1 \in 1 .. 1
          OBVIOUS
        <5> QED
          BY <5>3, <5>4 DEF WaitsFor
      <4>2. o # <<>>
        BY <3>7
      <4>3. \A r \in client[c].saw : /\ r \in pending => WaitsFor(c, ticket)'
                                     /\ r \in in_flight => WaitsFor(c, flusher.ticket)'
        BY <2>2, <2>4, <3>2, <3>5, <3>6, <4>1, <4>2 DEF DeleteWaits
      <4> QED
        BY <2>4, <3>1, <3>7, <4>3 DEF DeleteWaits, DeleteClear, DeleteAbove
    <3>8. CASE Len(o) <= 1 /\ client'[c].pc = "commit"
      <4>1. ASSUME NEW t, WaitsFor(c, t)
            PROVE  o # <<>> /\ t = o[1]
        BY <3>3, <3>8, <4>1 DEF WaitsFor
      <4>2. client[c].saw \intersect (pending \union in_flight) = {}
        BY <2>2, <3>2, <3>5, <3>6, <4>1 DEF DeleteWaits
      <4> QED
        BY <2>4, <3>1, <3>8, <4>2 DEF DeleteWaits, DeleteClear, DeleteAbove
    <3> QED
      BY <2>1, <2>5, <3>7, <3>8, WaitOverDoes
  <2> QED
    BY <2>5, <2>9 DEF Deletes
<1>4. CASE \E c \in Clients : WaitFailed(c)
  <2>1. PICK c \in Clients : WaitFailed(c)
    BY <1>4
  <2>2. client'[c].pc = "done" /\ client'[c].ok = FALSE
    <3>1. client'[c].pc = "done" /\ client'[c].ok = client[c].ok
      BY <2>1, WaitFailedDoes DEF SameButPcOn
    <3>2. client[c].pc = "wait" /\ client[c].ok \in BOOLEAN
      BY <2>1 DEF WaitFailed, Shapes, ClientType
    <3> QED
      BY <3>1, <3>2 DEF PubSync
  <2>3. OthersSame(c)
    BY <2>1, WaitFailedDoes
  <2>4. UNCHANGED <<pending, in_flight, ticket, flusher>>
    BY <2>1 DEF WaitFailed, buffer
  <2>9. ASSUME NEW e \in Deleters, e # c
        PROVE  DeleteWaits(e)' /\ DeleteClear(e)' /\ DeleteAbove(e)'
    BY <2>3, <2>4, <2>9, DeleteSame DEF OthersSame, Clients
  <2>5. DeleteWaits(c)' /\ DeleteClear(c)' /\ DeleteAbove(c)'
    BY <2>2 DEF DeleteWaits, DeleteClear, DeleteAbove
  <2> QED
    BY <2>5, <2>9 DEF Deletes
<1>5. CASE \E d \in Deleters : DeleteCommit(d)
  <2>1. PICK d \in Deleters : DeleteCommit(d)
    BY <1>5
  <2>2. client[d].pc = "commit" /\ client'[d].pc = "publish" /\ ~client'[d].ok /\
        client'[d].saw = client[d].saw
    <3>1. d \in Clients /\ client'[d].pc = "publish" /\ client'[d].ok = client[d].ok /\
          client'[d].saw = client[d].saw
      BY <2>1, DeleteCommitDoes DEF SameButPcOn
    <3>2. client[d].pc = "commit"
      BY <2>1 DEF DeleteCommit
    <3>3. ~client[d].ok
      BY <3>1, <3>2 DEF PubSync
    <3> QED
      BY <3>1, <3>2, <3>3
  <2>3. OthersSame(d)
    BY <2>1, DeleteCommitDoes
  <2>4. UNCHANGED <<pending, in_flight, ticket, flusher>>
    BY <2>1 DEF DeleteCommit, buffer
  <2>9. ASSUME NEW e \in Deleters, e # d
        PROVE  DeleteWaits(e)' /\ DeleteClear(e)' /\ DeleteAbove(e)'
    BY <2>3, <2>4, <2>9, DeleteSame DEF OthersSame, Clients
  <2>5. DeleteWaits(d)' /\ DeleteClear(d)' /\ DeleteAbove(d)'
    BY <2>2, <2>4 DEF Deletes, DeleteWaits, DeleteClear, DeleteAbove
  <2> QED
    BY <2>5, <2>9 DEF Deletes
<1>6. CASE FlushTake
  <2>1. /\ client' = client /\ flusher'.ticket = ticket /\ in_flight' = pending /\
             pending' = {}
    BY <1>6 DEF FlushTake
  <2>2. \A d \in Deleters : DeleteAbove(d)'
    BY <2>1, AboveStays
  <2>3. \A d \in Deleters : DeleteWaits(d)'
    BY <2>1 DEF Deletes, DeleteWaits, WaitsFor
  <2>4. \A d \in Deleters : DeleteClear(d)'
    BY <2>1 DEF Deletes, DeleteClear
  <2> QED
    BY <2>2, <2>3, <2>4 DEF Deletes
<1>7. CASE SegmentWrite
  <2>1. PICK p \in {"sync", "sync_dir", "commit"} : flusher' = [flusher EXCEPT !.pc = p]
    BY <1>7 DEF SegmentWrite, SegmentStep
  <2>2. flusher'.ticket = flusher.ticket
    BY <2>1, FlusherMoves
  <2>3. UNCHANGED <<client, pending, ticket, in_flight>>
    BY <1>7 DEF SegmentWrite, SegmentStep, buffer
  <2> QED
    BY <2>2, <2>3, DeleteSame DEF Deletes
<1>8. CASE FlushClear
  <2>1. flusher' = [flusher EXCEPT !.pc = "resolve"]
    BY <1>8 DEF FlushClear
  <2>2. flusher'.ticket = flusher.ticket
    BY <2>1, FlusherMoves
  <2>3. UNCHANGED <<client, pending, ticket>> /\ in_flight' \subseteq in_flight
    BY <1>8 DEF FlushClear, buffer
  <2> QED
    BY <2>2, <2>3, DeleteSame DEF Deletes
<1>9. CASE FlushResolve
  <2>1. UNCHANGED <<client, pending, ticket, in_flight>> /\ in_flight = {}
    BY <1>9 DEF FlushResolve, FlusherSync, Carrying, buffer
  <2> QED
    BY <2>1, DeleteSame DEF Deletes
<1>10. CASE FlushCommit
  <2>1. flusher' = [flusher EXCEPT !.pc = "publish"]
    BY <1>10 DEF FlushCommit
  <2>2. flusher'.ticket = flusher.ticket
    BY <2>1, FlusherMoves
  <2>3. UNCHANGED <<client, pending, ticket>> /\ in_flight' \subseteq in_flight
    BY <1>10 DEF FlushCommit, buffer
  <2> QED
    BY <2>2, <2>3, DeleteSame DEF Deletes
<1>11. CASE FlusherExit
  <2>1. flusher' = [flusher EXCEPT !.pc = "exited"]
    BY <1>11 DEF FlusherExit
  <2>2. flusher'.ticket = flusher.ticket
    BY <2>1, FlusherMoves
  <2>3. UNCHANGED <<client, pending, ticket>> /\ in_flight' \subseteq in_flight
    BY <1>11 DEF FlusherExit, buffer
  <2> QED
    BY <2>2, <2>3, DeleteSame DEF Deletes
<1>12. CASE WriteTmp
  <2>1. UNCHANGED <<client, pending, in_flight, ticket, flusher>>
    BY <1>12 DEF WriteTmp, PubStep, buffer, disk
  <2> QED
    BY <2>1, DeleteSame DEF Deletes
<1>13. CASE SyncTmp
  <2>1. UNCHANGED <<client, pending, in_flight, ticket, flusher>>
    BY <1>13 DEF SyncTmp, PubStep, buffer, disk
  <2> QED
    BY <2>1, DeleteSame DEF Deletes
<1>14. CASE Rename
  <2>1. UNCHANGED <<client, pending, in_flight, ticket, flusher>>
    BY <1>14 DEF Rename, PubStep, buffer, disk
  <2> QED
    BY <2>1, DeleteSame DEF Deletes
<1>15. CASE SyncRoot
  <2>1. UNCHANGED <<client, pending, in_flight, ticket, flusher>>
    BY <1>15 DEF SyncRoot, PubStep, buffer, disk
  <2> QED
    BY <2>1, DeleteSame DEF Deletes
<1>16. CASE Swap
  <2>1. pub # NoPub /\ UNCHANGED <<pending, ticket>> /\ in_flight' \subseteq in_flight
    BY <1>16 DEF Swap, NoPub
  <2>2. Returns(TRUE)
    BY <1>16 DEF Swap
  <2>3. flusher'.ticket = flusher.ticket
    BY <2>1, <2>2, ReturnsDoes
  <2>4. ASSUME NEW e \in Deleters, client'[e] = client[e]
        PROVE  DeleteWaits(e)' /\ DeleteClear(e)' /\ DeleteAbove(e)'
    BY <2>1, <2>3, <2>4, DeleteSame
  <2>5. CASE pub.by = "flusher"
    <3>1. client' = client
      BY <2>1, <2>2, <2>5, ReturnsDoes
    <3> QED
      BY <2>4, <3>1 DEF Deletes
  <2>6. CASE pub.by # "flusher"
    <3>0. PICK d \in Deleters : d = pub.by
      BY <2>1, <2>2, <2>6, ReturnsDoes
    <3>1. /\ d \in Deleters /\ d \in Clients /\ client'[d].pc = "done" /\
               client'[d].seq = pub.next.version
          /\ client'[d].saw = client[d].saw /\ OthersSame(d)
      BY <2>1, <2>2, <2>6, <3>0, ReturnsDoes
    <3>2. client[d].pc = "publish"
      BY <2>1, <3>0 DEF PubSync
    <3>3. DeleteWaits(d)' /\ DeleteClear(d)'
      BY <2>1, <3>1, <3>2 DEF Deletes, DeleteWaits, DeleteClear
    <3>4. Manifests' = {pub.next} /\ pub.next.segs = current.segs /\
          pub.next.version = current.version + 1
      BY <1>16, <2>1, <2>6 DEF Swap, PubNext, Manifests, disk
    <3>5. \A s \in current.segs : s.seq <= current.version /\ s.seq \in Nat /\
          current.version \in Nat
      BY DEF Published, Manifests, Shapes, ManifestType, Segment
    <3>6. \A s \in current.segs : s.seq < client'[d].seq
      BY <3>1, <3>4, <3>5
    <3>7. DeleteAbove(d)'
      BY <3>4, <3>6 DEF DeleteAbove
    <3> QED
      BY <2>4, <3>1, <3>3, <3>7 DEF Deletes, OthersSame, Clients
  <2> QED
    BY <2>5, <2>6
<1>17. CASE FlushError
  <2>1. flusher' = [flusher EXCEPT !.pc = "clear"]
    BY <1>17 DEF FlushError
  <2>2. flusher'.ticket = flusher.ticket
    BY <2>1, FlusherMoves
  <2>3. UNCHANGED <<client, pending, ticket>> /\ in_flight' \subseteq in_flight
    BY <1>17 DEF FlushError, buffer
  <2> QED
    BY <2>2, <2>3, DeleteSame DEF Deletes
<1>18. CASE PublishError
  <2>1. pub # NoPub /\ UNCHANGED <<pending, ticket, in_flight>>
    BY <1>18 DEF PublishError, NoPub, buffer
  <2>2. Returns(FALSE)
    BY <1>18 DEF PublishError
  <2>3. flusher'.ticket = flusher.ticket
    BY <2>1, <2>2, ReturnsDoes
  <2>4. ASSUME NEW e \in Deleters, client'[e] = client[e]
        PROVE  DeleteWaits(e)' /\ DeleteClear(e)' /\ DeleteAbove(e)'
    BY <2>1, <2>3, <2>4, DeleteSame
  <2>5. CASE pub.by = "flusher"
    <3>1. client' = client
      BY <2>1, <2>2, <2>5, ReturnsDoes
    <3> QED
      BY <2>4, <3>1 DEF Deletes
  <2>6. CASE pub.by # "flusher"
    <3>0. PICK d \in Deleters : d = pub.by
      BY <2>1, <2>2, <2>6, ReturnsDoes
    <3>1. /\ d \in Deleters /\ d \in Clients /\ client'[d].pc = "done" /\
               client'[d].ok = FALSE /\ OthersSame(d)
      BY <2>1, <2>2, <2>6, <3>0, ReturnsDoes
    <3>2. DeleteWaits(d)' /\ DeleteClear(d)' /\ DeleteAbove(d)'
      BY <3>1 DEF DeleteWaits, DeleteClear, DeleteAbove
    <3> QED
      BY <2>4, <3>1, <3>2 DEF Deletes, OthersSame, Clients
  <2> QED
    BY <2>5, <2>6
<1>19. CASE Close
  <2>1. UNCHANGED <<client, pending, in_flight, ticket, flusher>>
    BY <1>19 DEF Close, buffer, disk
  <2> QED
    BY <2>1, DeleteSame DEF Deletes
<1>20. CASE Reopen
  <2>1. OpenOn(visible, files)
    BY <1>20 DEF Reopen
  <2>2. /\ pending' = {} /\ in_flight' = {}
        /\ \A c \in Clients : client'[c].ok = client[c].ok /\
             client'[c].saw = client[c].saw
                              /\ client'[c].seq = client[c].seq /\
                                   client'[c].pc # "wait"
    BY <2>1, OpenDoes
  <2>3. \A d \in Deleters : DeleteAbove(d)'
    BY <2>2, AboveStays DEF Clients
  <2> QED
    BY <2>2, <2>3 DEF Deletes, DeleteWaits, DeleteClear
<1>21. CASE Kill
  <2>1. OpenOn(visible, files)
    BY <1>21 DEF Kill
  <2>2. /\ pending' = {} /\ in_flight' = {}
        /\ \A c \in Clients : client'[c].ok = client[c].ok /\
             client'[c].saw = client[c].saw
                              /\ client'[c].seq = client[c].seq /\
                                   client'[c].pc # "wait"
    BY <2>1, OpenDoes
  <2>3. \A d \in Deleters : DeleteAbove(d)'
    BY <2>2, AboveStays DEF Clients
  <2> QED
    BY <2>2, <2>3 DEF Deletes, DeleteWaits, DeleteClear
<1>22. CASE PowerLoss
  <2>1. PICK m, fs : OpenOn(m, fs)
    BY <1>22 DEF PowerLoss
  <2>2. /\ pending' = {} /\ in_flight' = {}
        /\ \A c \in Clients : client'[c].ok = client[c].ok /\
             client'[c].saw = client[c].saw
                              /\ client'[c].seq = client[c].seq /\
                                   client'[c].pc # "wait"
    BY <2>1, OpenDoes
  <2>3. \A d \in Deleters : DeleteAbove(d)'
    BY <2>2, AboveStays DEF Clients
  <2> QED
    BY <2>2, <2>3 DEF Deletes, DeleteWaits, DeleteClear
<1>23. CASE UNCHANGED vars
  <2>1. UNCHANGED <<client, pending, in_flight, ticket, flusher>>
    BY <1>23 DEF vars, buffer, disk
  <2> QED
    BY <2>1, DeleteSame DEF Deletes
<1> QED
  BY <1>1, <1>2, <1>3, <1>4, <1>5, <1>6, <1>7, <1>8, <1>9, <1>10, <1>11, <1>12, <1>13,
     <1>14, <1>15, <1>16, <1>17, <1>18, <1>19, <1>20, <1>21, <1>22, <1>23
     DEF Next, ClientStep, FlusherStep, PubStepTaken

-----------------------------------------------------------------------------
(* Layer 7 holds.                                                          *)

(* Initially no file is named.                                             *)
LEMMA FilesInit == Init => Files
<1> SUFFICES ASSUME Init PROVE Files
  OBVIOUS
<1>1. \A m \in Manifests : m = EmptyManifest
  BY DEF Init, Manifests
<1>2. EmptyManifest.segs = {} /\ EmptyManifest.torn = FALSE
  BY DEF EmptyManifest
<1>3. flusher.pc = "wait" /\ pub = NoPub /\ visible = current /\
      durable \subseteq Manifests /\ visible \in Manifests
  BY DEF Init, Waiting, Manifests
<1> QED
  BY <1>1, <1>2, <1>3 DEF Files, NamesOld, FlushDurable, Unfailed, FilesThere

(* A step that leaves the disk and the commit alone.                       *)
LEMMA FilesSame ==
    ASSUME Files, UNCHANGED <<current, ticket, pub, files, visible, durable, failures,
           crashes>>,
           flusher'.ticket = flusher.ticket, Writing' => Writing,
           flusher'.pc \in {"commit", "publish"} => flusher.pc \in {"commit", "publish"}
    PROVE  Files'
<1>1. \A m \in Manifests' : NamesOld(m)'
  BY DEF Files, NamesOld, Manifests
<1>2. FlushDurable'
  BY DEF Files, FlushDurable
<1>3. failures' = 0 => Unfailed'
  BY DEF Files, Unfailed
<1>4. crashes' = 0 => FilesThere'
  BY DEF Files, FilesThere
<1> QED
  BY <1>1, <1>2, <1>3, <1>4 DEF Files

(* The manifests after an open name only files of earlier flushes.         *)
LEMMA OpenNames ==
    ASSUME Shapes, Shapes', Files, durable' \subseteq durable, current' \in durable,
           flusher'.pc = "wait",
           ticket' >= ticket
    PROVE  \A m \in Manifests' : NamesOld(m)'
<1>1. \A m \in Manifests' : m \in Manifests
  BY DEF Manifests
<1>2. \A m \in Manifests : \A s \in m.segs : s.file \in Nat
  BY WritePathAssumption DEF Manifests, Shapes, ManifestType, Segment, Tickets
<1>3. ticket \in Nat /\ ticket' \in Nat
  BY DEF Shapes
<1>4. \A m \in Manifests : \A s \in m.segs : s.file < ticket => s.file < ticket'
  BY <1>2, <1>3
<1> QED
  BY <1>1, <1>4 DEF Files, NamesOld, Writing

(* As long as no operation fails, whatever an open may find is whole.      *)
LEMMA FilesStep ==
    ASSUME Shapes, FlusherSync, PubSync, PubNext, Published, Shapes', Files, [Next]_vars
    PROVE  Files'
<1>1. CASE \E w \in Writers \union EmptyWriters : WriteMany(w)
  <2>0. PICK w \in Writers \union EmptyWriters : WriteMany(w)
    BY <1>1
  <2>1. UNCHANGED <<current, ticket, flusher, pub, files, visible, durable, failures,
        crashes>>
    BY <2>0 DEF WriteMany, buffer, disk, faults
  <2> QED
    BY <2>1, FilesSame DEF Writing
<1>2. CASE \E d \in Deleters : Delete(d)
  <2>0. PICK d \in Deleters : Delete(d)
    BY <1>2
  <2>1. UNCHANGED <<current, ticket, flusher, pub, files, visible, durable, failures,
        crashes>>
    BY <2>0 DEF Delete, buffer, disk, faults
  <2> QED
    BY <2>1, FilesSame DEF Writing
<1>3. CASE \E c \in Clients : WaitOver(c)
  <2>0. PICK c \in Clients : WaitOver(c)
    BY <1>3
  <2>1. UNCHANGED <<current, ticket, flusher, pub, files, visible, durable, failures,
        crashes>>
    BY <2>0 DEF WaitOver, buffer, disk, faults
  <2> QED
    BY <2>1, FilesSame DEF Writing
<1>4. CASE \E c \in Clients : WaitFailed(c)
  <2>0. PICK c \in Clients : WaitFailed(c)
    BY <1>4
  <2>1. UNCHANGED <<current, ticket, flusher, pub, files, visible, durable, failures,
        crashes>>
    BY <2>0 DEF WaitFailed, buffer, disk, faults
  <2> QED
    BY <2>1, FilesSame DEF Writing
<1>5. CASE \E d \in Deleters : DeleteCommit(d)
  <2>1. PICK d \in Deleters : DeleteCommit(d)
    BY <1>5
  <2>2. pub = NoPub /\ UNCHANGED <<current, ticket, flusher, files, visible, durable,
        failures, crashes>>
    BY <2>1 DEF DeleteCommit, buffer, disk, faults
  <2>3. pub' # NoPub /\ pub'.step = "apply" /\ ~pub'.next.torn
    BY <2>1, DeleteCommitDoes
  <2> QED
    BY <2>2, <2>3 DEF Files, FlushDurable, Unfailed, FilesThere, NamesOld, Writing,
       Manifests
<1>6. CASE FlushTake
  <2>1. /\ flusher'.pc = "write" /\ flusher'.ticket = ticket /\ ticket' = ticket + 1 /\
             ticket \in Nat
        /\ UNCHANGED <<current, pub, files, visible, durable, failures, crashes>>
    BY <1>6 DEF FlushTake, Shapes, disk, faults
  <2>2. \A m \in Manifests' : m \in Manifests
    BY <2>1 DEF Manifests
  <2>3. \A m \in Manifests : \A s \in m.segs : s.file \in Nat
    BY WritePathAssumption DEF Manifests, Shapes, ManifestType, Segment, Tickets
  <2>4. \A m \in Manifests' : NamesOld(m)'
    BY <2>1, <2>2, <2>3 DEF Files, NamesOld
  <2> QED
    BY <2>1, <2>4 DEF Files, FlushDurable, Unfailed, FilesThere
<1>7. CASE SegmentWrite
  <2>1. PICK p \in {"sync", "sync_dir", "commit"} : flusher' = [flusher EXCEPT !.pc = p]
    BY <1>7 DEF SegmentWrite, SegmentStep
  <2>2. flusher'.pc = p /\ flusher'.ticket = flusher.ticket
    BY <2>1, FlusherMoves
  <2>3. /\ UNCHANGED <<current, ticket, pub, visible, durable, failures, crashes>>
        /\ flusher.pc \in {"write", "sync", "sync_dir"}
        /\ \E x \in {"written", "synced", "durable"} :
             files' = [files EXCEPT ![flusher.ticket] = x]
    BY <1>7 DEF SegmentWrite, SegmentStep, buffer, faults
  <2>4. p = "commit" => files' = [files EXCEPT ![flusher.ticket] = "durable"]
    BY <1>7, <2>1, <2>2, FlusherMoves DEF SegmentWrite, SegmentStep
  <2>5. flusher.ticket \in Tickets /\ Writing
    BY <2>3 DEF FlusherSync, Flushing, Writing
  <2>6. \A t \in Tickets : t # flusher.ticket => files'[t] = files[t]
    BY <2>3 DEF Shapes
  <2>7. FlushDurable'
    BY <2>2, <2>4, <2>5 DEF FlushDurable, Shapes
  <2>8. \A m \in Manifests' : NamesOld(m)'
    BY <2>2, <2>3, <2>5 DEF Files, NamesOld, Manifests
  <2>9. failures' = 0 => Unfailed'
    <3>1. \A m \in durable : \A s \in m.segs :
          s.file \in Tickets /\ s.file # flusher.ticket
      BY <2>5 DEF Shapes, ManifestType, Segment, Files, NamesOld, Manifests
    <3> QED
      BY <2>3, <2>6, <3>1 DEF Files, Unfailed
  <2>10. crashes' = 0 => FilesThere'
    <3>1. \A s \in visible.segs : s.file \in Tickets
      BY DEF Shapes, ManifestType, Segment
    <3>2. \A t \in Tickets : files[t] # "none" => files'[t] # "none"
      BY <2>3, <2>6, <2>5 DEF Shapes
    <3> QED
      BY <2>3, <3>1, <3>2 DEF Files, FilesThere
  <2> QED
    BY <2>3, <2>7, <2>8, <2>9, <2>10 DEF Files
<1>8. CASE FlushClear
  <2>1. flusher' = [flusher EXCEPT !.pc = "resolve"]
    BY <1>8 DEF FlushClear
  <2>2. /\ flusher'.ticket = flusher.ticket /\ (Writing' => Writing)
        /\ flusher'.pc \in {"commit", "publish"} => flusher.pc \in {"commit", "publish"}
    BY <1>8, <2>1, FlusherMoves DEF FlushClear, Writing
  <2>3. UNCHANGED <<current, ticket, pub, files, visible, durable, failures, crashes>>
    BY <1>8 DEF FlushClear, buffer, disk, faults
  <2> QED
    BY <2>2, <2>3, FilesSame
<1>9. CASE FlushResolve
  <2>1. flusher'.pc = "wait" /\
        UNCHANGED <<current, ticket, pub, files, visible, durable, failures, crashes>>
    BY <1>9 DEF FlushResolve, Waiting, buffer, disk, faults
  <2> QED
    BY <2>1 DEF Files, FlushDurable, Unfailed, FilesThere, NamesOld, Writing, Manifests
<1>10. CASE FlushCommit
  <2>1. flusher' = [flusher EXCEPT !.pc = "publish"] /\ flusher.pc = "commit"
    BY <1>10 DEF FlushCommit
  <2>2. pub = NoPub /\ UNCHANGED <<current, ticket, files, visible, durable, failures,
        crashes>>
    BY <1>10 DEF FlushCommit, buffer, disk, faults
  <2>3. pub' # NoPub /\ pub'.step = "apply" /\ ~pub'.next.torn
    BY <1>10, FlushCommitDoes
  <2>4. flusher'.pc = "publish" /\ flusher'.ticket = flusher.ticket
    BY <2>1, FlusherMoves
  <2> QED
    BY <2>1, <2>2, <2>3, <2>4 DEF Files, FlushDurable, Unfailed, FilesThere, NamesOld,
       Writing, Manifests
<1>11. CASE FlusherExit
  <2>1. flusher' = [flusher EXCEPT !.pc = "exited"]
    BY <1>11 DEF FlusherExit
  <2>2. /\ flusher'.ticket = flusher.ticket /\ (Writing' => Writing)
        /\ flusher'.pc \in {"commit", "publish"} => flusher.pc \in {"commit", "publish"}
    BY <1>11, <2>1, FlusherMoves DEF FlusherExit, Writing
  <2>3. UNCHANGED <<current, ticket, pub, files, visible, durable, failures, crashes>>
    BY <1>11 DEF FlusherExit, buffer, disk, faults
  <2> QED
    BY <2>2, <2>3, FilesSame
<1>12. CASE WriteTmp
  <2>1. PubStep("apply", "written") /\ UNCHANGED <<visible, durable>>
    BY <1>12 DEF WriteTmp
  <2>2. UNCHANGED <<current, ticket, flusher, files, failures, crashes>> /\
        pub.step = "apply"
    BY <2>1 DEF PubStep, buffer, faults
  <2>3. pub # NoPub /\ pub' # NoPub /\ pub'.next = pub.next
    BY <2>1, PubMoves DEF PubSteps
  <2> QED
    BY <2>1, <2>2, <2>3 DEF Files, FlushDurable, Unfailed, FilesThere, NamesOld,
       Writing, Manifests
<1>13. CASE SyncTmp
  <2>1. PubStep("written", "synced") /\ UNCHANGED <<visible, durable>>
    BY <1>13 DEF SyncTmp
  <2>2. UNCHANGED <<current, ticket, flusher, files, failures, crashes>> /\
        pub.step = "written"
    BY <2>1 DEF PubStep, buffer, faults
  <2>3. pub # NoPub /\ pub' # NoPub /\ pub'.next = pub.next
    BY <2>1, PubMoves DEF PubSteps
  <2> QED
    BY <2>1, <2>2, <2>3 DEF Files, FlushDurable, Unfailed, FilesThere, NamesOld,
       Writing, Manifests
<1>14. CASE Rename
  <2>1. PubStep("synced", "renamed")
    BY <1>14 DEF Rename
  <2>2. /\ pub # NoPub /\ pub.step = "synced" /\ pub' # NoPub /\
             pub'.step = "renamed" /\ pub'.next = pub.next
        /\ UNCHANGED <<current, ticket, flusher, files, failures, crashes>>
    BY <2>1, PubMoves DEF PubSteps, PubStep, buffer, faults
  <2>3. visible' = pub.next /\ durable' = durable \union {pub.next}
    BY <1>14, <2>2 DEF Rename, PubNext
  <2>4. \A s \in pub.next.segs :
        s \in current.segs \/ (pub.by = "flusher" /\ s = FlushSegment)
    BY <2>2 DEF PubNext
  <2>5. current.segs \subseteq pub.next.segs
    BY <2>2 DEF PubNext
  <2>6. pub.by = "flusher" => /\ flusher.pc = "publish" /\
                                   FlushSegment.file = flusher.ticket
                              /\ flusher.ticket < ticket /\
                                   files[flusher.ticket] = "durable"
    BY <2>2 DEF PubSync, FlusherSync, Flushing, FlushSegment, Files, FlushDurable
  <2>7. NamesOld(pub.next)
    <3>1. NamesOld(current) /\ ~pub.next.torn
      BY <2>2 DEF Files, Manifests
    <3> QED
      BY <2>4, <2>6, <3>1 DEF NamesOld, Writing
  <2>8. \A m \in Manifests' : NamesOld(m)'
    BY <2>2, <2>3, <2>7 DEF Files, NamesOld, Writing, Manifests
  <2>9. failures' = 0 => Unfailed'
    <3> SUFFICES ASSUME failures = 0 PROVE Unfailed'
      BY <2>2
    <3>1. visible = current /\ Unfailed
      BY <2>2 DEF Files, Unfailed
    <3>2. \A s \in pub.next.segs : files[s.file] = "durable"
      BY <2>4, <2>6, <3>1 DEF Unfailed, Published
    <3> QED
      BY <2>2, <2>3, <2>5, <3>1, <3>2 DEF Unfailed
  <2>10. crashes' = 0 => FilesThere'
    BY <2>2, <2>3, <2>4, <2>6 DEF Files, FilesThere, Published
  <2> QED
    BY <2>2, <2>8, <2>9, <2>10 DEF Files, FlushDurable
<1>15. CASE SyncRoot
  <2>1. PubStep("renamed", "published") /\ durable' = {visible} /\ visible' = visible
    BY <1>15 DEF SyncRoot
  <2>2. UNCHANGED <<current, ticket, flusher, files, failures, crashes>>
    BY <2>1 DEF PubStep, buffer, faults
  <2>3. pub # NoPub /\ pub' # NoPub /\ pub'.next = pub.next /\ pub'.step = "published"
    BY <2>1, PubMoves DEF PubSteps
  <2>4. visible \in durable
    BY DEF Published
  <2> QED
    BY <2>1, <2>2, <2>3, <2>4 DEF Files, FlushDurable, Unfailed, FilesThere, NamesOld,
       Writing, Manifests
<1>16. CASE Swap
  <2>1. /\ pub # NoPub /\ pub.step = "published" /\ pub' = NoPub /\ current' = pub.next
        /\ UNCHANGED <<ticket, files, visible, durable, failures, crashes>>
    BY <1>16 DEF Swap, NoPub, disk, faults
  <2>2. Returns(TRUE)
    BY <1>16 DEF Swap
  <2>3. /\ flusher'.ticket = flusher.ticket /\ (Writing' => Writing)
        /\ flusher'.pc \in {"commit", "publish"} => flusher.pc \in {"commit", "publish"}
    BY <2>1, <2>2, ReturnsDoes DEF Writing
  <2>4. visible = pub.next /\ visible \in durable
    BY <2>1 DEF PubNext, Published
  <2>5. \A m \in Manifests' : NamesOld(m)'
    BY <2>1, <2>3, <2>4 DEF Files, NamesOld, Manifests
  <2> QED
    BY <2>1, <2>3, <2>4, <2>5 DEF Files, FlushDurable, Unfailed, FilesThere
<1>17. CASE FlushError
  <2>1. flusher' = [flusher EXCEPT !.pc = "clear"]
    BY <1>17 DEF FlushError
  <2>2. flusher'.pc = "clear" /\ flusher'.ticket = flusher.ticket
    BY <2>1, FlusherMoves
  <2>3. UNCHANGED <<current, ticket, pub, files, visible, durable, crashes>> /\
        failures' # 0
    BY <1>17 DEF FlushError, buffer, disk, Shapes
  <2> QED
    BY <2>2, <2>3 DEF Files, FlushDurable, FilesThere, NamesOld, Writing, Manifests
<1>18. CASE PublishError
  <2>1. pub # NoPub /\ pub' = NoPub /\
        UNCHANGED <<current, ticket, files, visible, durable, crashes>> /\ failures' # 0
    BY <1>18 DEF PublishError, NoPub, buffer, disk, Shapes
  <2>2. Returns(FALSE)
    BY <1>18 DEF PublishError
  <2>3. /\ flusher'.ticket = flusher.ticket /\ (Writing' => Writing)
        /\ flusher'.pc \in {"commit", "publish"} => flusher.pc \in {"commit", "publish"}
    BY <2>1, <2>2, ReturnsDoes DEF Writing
  <2> QED
    BY <2>1, <2>3 DEF Files, FlushDurable, FilesThere, NamesOld, Manifests
<1>19. CASE Close
  <2>1. UNCHANGED <<current, ticket, flusher, pub, files, visible, durable, failures,
        crashes>>
    BY <1>19 DEF Close, buffer, disk, faults
  <2> QED
    BY <2>1, FilesSame DEF Writing
<1>20. CASE Reopen
  <2>1. OpenOn(visible, files) /\ UNCHANGED <<visible, durable, failures>>
    BY <1>20 DEF Reopen, faults
  <2>2. flusher'.pc = "wait" /\ pub' = NoPub /\ current' = visible /\ ticket' >= ticket
    BY <2>1, OpenDoes
  <2>3. \A t \in Tickets : (\E s \in visible.segs : s.file = t) => files'[t] = files[t]
    BY <2>1 DEF OpenOn
  <2>4. durable' \subseteq durable /\ visible' \in durable /\ visible' = current'
    BY <2>1, <2>2 DEF Published
  <2>5. \A m \in Manifests' : NamesOld(m)'
    BY <2>1, <2>2, <2>4, OpenNames
  <2>6. FlushDurable' /\ (pub' # NoPub => ~pub'.next.torn)
    BY <2>2 DEF FlushDurable
  <2>7. failures' = 0 => Unfailed'
    <3> SUFFICES ASSUME failures' = 0
                 PROVE  \A m \in durable : m.segs \subseteq visible.segs /\
                        \A s \in m.segs : files'[s.file] = "durable"
      BY <2>1, <2>4 DEF Unfailed
    <3>1. Unfailed
      BY <2>1 DEF Files
    <3>2. \A m \in durable : \A s \in m.segs : s.file \in Tickets
      BY DEF Shapes, ManifestType, Segment
    <3> QED
      BY <2>3, <3>1, <3>2 DEF Unfailed
  <2>8. crashes' = 0 => FilesThere'
    <3>1. crashes' = crashes
      BY <1>20 DEF Reopen, faults
    <3>2. \A s \in visible.segs : s.file \in Tickets
      BY DEF Shapes, ManifestType, Segment
    <3> QED
      BY <2>1, <2>3, <3>1, <3>2 DEF Files, FilesThere
  <2> QED
    BY <2>5, <2>6, <2>7, <2>8 DEF Files
<1>21. CASE Kill
  <2>1. OpenOn(visible, files) /\ UNCHANGED <<visible, durable, failures>>
    BY <1>21 DEF Kill, faults
  <2>2. flusher'.pc = "wait" /\ pub' = NoPub /\ current' = visible /\ ticket' >= ticket
    BY <2>1, OpenDoes
  <2>3. \A t \in Tickets : (\E s \in visible.segs : s.file = t) => files'[t] = files[t]
    BY <2>1 DEF OpenOn
  <2>4. durable' \subseteq durable /\ visible' \in durable /\ visible' = current'
    BY <2>1, <2>2 DEF Published
  <2>5. \A m \in Manifests' : NamesOld(m)'
    BY <2>1, <2>2, <2>4, OpenNames
  <2>6. FlushDurable' /\ (pub' # NoPub => ~pub'.next.torn)
    BY <2>2 DEF FlushDurable
  <2>7. failures' = 0 => Unfailed'
    <3> SUFFICES ASSUME failures' = 0
                 PROVE  \A m \in durable : m.segs \subseteq visible.segs /\
                        \A s \in m.segs : files'[s.file] = "durable"
      BY <2>1, <2>4 DEF Unfailed
    <3>1. Unfailed
      BY <2>1 DEF Files
    <3>2. \A m \in durable : \A s \in m.segs : s.file \in Tickets
      BY DEF Shapes, ManifestType, Segment
    <3> QED
      BY <2>3, <3>1, <3>2 DEF Unfailed
  <2>8. crashes' = 0 => FilesThere'
    BY <1>21 DEF Kill, Shapes
  <2> QED
    BY <2>5, <2>6, <2>7, <2>8 DEF Files
<1>22. CASE PowerLoss
  <2>1. PICK m \in durable :
           /\ visible' = m /\ durable' = {m}
           /\ OpenOn(m, [t \in Tickets |-> IF files[t] = "durable" THEN "durable" ELSE "none"])
    BY <1>22 DEF PowerLoss
  <2>2. flusher'.pc = "wait" /\ pub' = NoPub /\ current' = m /\ ticket' >= ticket
    BY <2>1, OpenDoes
  <2>3. \A t \in Tickets : (\E s \in m.segs : s.file = t) /\ files[t] = "durable" =>
        files'[t] = "durable"
    BY <2>1 DEF OpenOn
  <2>4. \A n \in Manifests' : NamesOld(n)'
    BY <2>1, <2>2, OpenNames
  <2>5. FlushDurable' /\ (pub' # NoPub => ~pub'.next.torn)
    BY <2>2 DEF FlushDurable
  <2>6. failures' = 0 => Unfailed'
    <3> SUFFICES ASSUME failures' = 0 PROVE \A s \in m.segs : files'[s.file] = "durable"
      BY <2>1, <2>2 DEF Unfailed
    <3>1. \A s \in m.segs : files[s.file] = "durable" /\ s.file \in Tickets
      BY <1>22 DEF PowerLoss, Files, Unfailed, Shapes, ManifestType, Segment
    <3> QED
      BY <2>3, <3>1
  <2>7. crashes' # 0
    BY <1>22 DEF PowerLoss, Shapes
  <2> QED
    BY <2>4, <2>5, <2>6, <2>7 DEF Files
<1>23. CASE UNCHANGED vars
  <2>1. UNCHANGED <<current, ticket, flusher, pub, files, visible, durable, failures,
        crashes>>
    BY <1>23 DEF vars, buffer, disk, faults
  <2> QED
    BY <2>1, FilesSame DEF Writing
<1> QED
  BY <1>1, <1>2, <1>3, <1>4, <1>5, <1>6, <1>7, <1>8, <1>9, <1>10, <1>11, <1>12, <1>13,
     <1>14, <1>15, <1>16, <1>17, <1>18, <1>19, <1>20, <1>21, <1>22, <1>23
     DEF Next, ClientStep, FlusherStep, PubStepTaken

-----------------------------------------------------------------------------
(* Theorems.                                                               *)

Inv ==
    /\ Shapes /\ FlusherSync /\ PubSync /\ PubNext /\ Published /\ RowsApart
    /\ Acks /\ Deletes /\ Files

(* The invariant holds: initially, and after every step of a writer, a     *)
(* deleter, the flusher or a publication, a failed operation, a close, a   *)
(* kill, a power loss and an open.                                         *)
LEMMA InvHolds == Spec => []Inv
<1>1. Init => Inv
  BY ShapesInit, FlusherSyncInit, PubSyncInit, PubNextInit, PublishedInit,
     RowsApartInit, AcksInit,
     DeletesInit, FilesInit DEF Inv
<1>2. Inv /\ [Next]_vars => Inv'
  <2> SUFFICES ASSUME Inv, [Next]_vars PROVE Inv'
    OBVIOUS
  <2> USE DEF Inv
  <2>1. Shapes'
    BY ShapesStep
  <2>2. FlusherSync' /\ PubSync' /\ PubNext' /\ Published'
    BY FlusherSyncStep, PubSyncStep, PubNextStep, PublishedStep
  <2>3. RowsApart' /\ Acks' /\ Deletes'
    BY RowsApartStep, AcksStep, DeletesStep
  <2>4. Files'
    BY <2>1, FilesStep
  <2> QED
    BY <2>1, <2>2, <2>3, <2>4
<1> QED
  BY <1>1, <1>2, PTL DEF Spec

(* Types, and flush() finds a ticket in flight exactly while the flusher   *)
(* has one to resolve (State::in_flight_ticket).                           *)
THEOREM WriteTypes == Spec => []TypeOK
<1>1. Inv => TypeOK
  <2> SUFFICES ASSUME Inv PROVE TypeOK
    OBVIOUS
  <2>1. (in_flight_ticket = 0) <=> (flusher.pc \in {"wait", "resolve", "exited"})
    BY DEF Inv, FlusherSync, Flushing, Tickets
  <2>2. flusher.pc \in FlusherPcs
    BY DEF Inv, Shapes, FlusherType
  <2> QED
    BY <2>1, <2>2 DEF Inv, Shapes, Published, TypeOK, FlusherPcs
<1> QED
  BY <1>1, InvHolds, PTL

(* "An acknowledged write survives a crash": the row of a write_many that  *)
(* returned Ok is in every manifest that a kill or a power loss may leave, *)
(* however operations fail and however often the store is opened.          *)
THEOREM WriteAckedSurvives == Spec => []AckedSurvives
<1>1. Inv => AckedSurvives
  BY DEF Inv, Acks, Stored, Manifests, AckedSurvives
<1> QED
  BY <1>1, InvHolds, PTL

(* A query sees a row once: commit swaps current and clears in_flight      *)
(* under one lock, and no flush carries a row another one has published.   *)
THEOREM WriteSeenOnce == Spec => []SeenOnce
<1>1. Inv => SeenOnce
  BY DEF Inv, RowsApart, OnceIn, Manifests, SeenOnce
<1> QED
  BY <1>1, InvHolds, PTL

(* The rows a delete saw are in segments below its tombstone: delete       *)
(* waited for the flushes they were in before it committed.                *)
THEOREM WriteDeleteOrder == Spec => []DeleteOrder
<1>1. Inv => DeleteOrder
  BY DEF Inv, Deletes, DeleteClear, DeleteAbove, Manifests, DeleteOrder
<1> QED
  BY <1>1, InvHolds, PTL

(* An open finds a whole manifest and every segment file it names, after   *)
(* any kills and power losses as long as no file operation has failed, and *)
(* after any failures as long as the process was only ever closed.         *)
THEOREM WriteLoadable == Spec => [](failures = 0 \/ crashes = 0 => AlwaysLoadable)
<1>1. Inv => (failures = 0 \/ crashes = 0 => AlwaysLoadable)
  BY DEF Inv, Published, Files, Unfailed, FilesThere, NamesOld, Manifests,
     AlwaysLoadable
<1> QED
  BY <1>1, InvHolds, PTL

(* What a query sees stays in view while it moves on to the next place.    *)
LEMMA SeenGrows ==
    ASSUME pending \subseteq pending' \union in_flight',
           in_flight \subseteq in_flight' \union RowsIn(current'),
           RowsIn(current) \subseteq RowsIn(current')
    PROVE  Seen \subseteq Seen'
BY DEF Seen

(* "A View never sees a gap": what a query sees it sees after every step   *)
(* but the clearing of its own failed flush and the death of the process.  *)
THEOREM WriteNoGap == Spec => NoGap
<1> DEFINE Kept == \/ Seen \subseteq Seen'
                   \/ flusher.pc = "clear" /\ ~flusher.ok /\
                        Seen \ Seen' \subseteq flusher.batch
                   \/ crashes' # crashes
<1>1. Inv /\ [Next]_vars => [Kept]_vars
  <2> SUFFICES ASSUME Inv, [Next]_vars PROVE Kept
    OBVIOUS
  <2> USE DEF Inv
  <2>0. Seen \subseteq Seen' => Kept
    OBVIOUS
  <2> HIDE DEF Kept
  <2>1. CASE \E w \in Writers \union EmptyWriters : WriteMany(w)
    <3>1. pending \subseteq pending' /\ in_flight' = in_flight /\ current' = current
      BY <2>1 DEF WriteMany, buffer
    <3> QED
      BY <3>1, SeenGrows, <2>0
  <2>2. CASE \E d \in Deleters : Delete(d)
    <3>1. pending \subseteq pending' /\ in_flight' = in_flight /\ current' = current
      BY <2>2 DEF Delete, buffer
    <3> QED
      BY <3>1, SeenGrows, <2>0
  <2>3. CASE \E c \in Clients : WaitOver(c)
    <3>1. pending \subseteq pending' /\ in_flight' = in_flight /\ current' = current
      BY <2>3 DEF WaitOver, buffer
    <3> QED
      BY <3>1, SeenGrows, <2>0
  <2>4. CASE \E c \in Clients : WaitFailed(c)
    <3>1. pending \subseteq pending' /\ in_flight' = in_flight /\ current' = current
      BY <2>4 DEF WaitFailed, buffer
    <3> QED
      BY <3>1, SeenGrows, <2>0
  <2>5. CASE \E d \in Deleters : DeleteCommit(d)
    <3>1. pending \subseteq pending' /\ in_flight' = in_flight /\ current' = current
      BY <2>5 DEF DeleteCommit, buffer
    <3> QED
      BY <3>1, SeenGrows, <2>0
  <2>6. CASE FlushTake
    <3>1. in_flight = {}
      BY <2>6 DEF FlushTake, FlusherSync, Carrying
    <3> QED
      BY <2>6, <3>1, SeenGrows, <2>0 DEF FlushTake
  <2>7. CASE SegmentWrite
    <3>1. pending \subseteq pending' /\ in_flight' = in_flight /\ current' = current
      BY <2>7 DEF SegmentWrite, SegmentStep, buffer
    <3> QED
      BY <3>1, SeenGrows, <2>0
  <2>8. CASE FlushClear
    <3>1. flusher.pc = "clear" /\ in_flight' = (IF flusher.ok THEN in_flight ELSE {})
          /\ UNCHANGED <<pending, current>>
      BY <2>8 DEF FlushClear
    <3>2. CASE flusher.ok
      BY <3>1, <3>2, SeenGrows, <2>0
    <3>3. CASE ~flusher.ok
      <4>1. in_flight = flusher.batch
        BY <3>1, <3>3 DEF FlusherSync, Carrying
      <4> QED
        BY <3>1, <3>3, <4>1 DEF Seen, Kept
    <3> QED
      BY <3>2, <3>3
  <2>9. CASE FlushResolve
    <3>1. pending \subseteq pending' /\ in_flight' = in_flight /\ current' = current
      BY <2>9 DEF FlushResolve, buffer
    <3> QED
      BY <3>1, SeenGrows, <2>0
  <2>10. CASE FlushCommit
    <3>1. pending \subseteq pending' /\ in_flight' = in_flight /\ current' = current
      BY <2>10 DEF FlushCommit, buffer
    <3> QED
      BY <3>1, SeenGrows, <2>0
  <2>11. CASE FlusherExit
    <3>1. pending \subseteq pending' /\ in_flight' = in_flight /\ current' = current
      BY <2>11 DEF FlusherExit, buffer
    <3> QED
      BY <3>1, SeenGrows, <2>0
  <2>12. CASE WriteTmp
    <3>1. pending \subseteq pending' /\ in_flight' = in_flight /\ current' = current
      BY <2>12 DEF WriteTmp, PubStep, buffer
    <3> QED
      BY <3>1, SeenGrows, <2>0
  <2>13. CASE SyncTmp
    <3>1. pending \subseteq pending' /\ in_flight' = in_flight /\ current' = current
      BY <2>13 DEF SyncTmp, PubStep, buffer
    <3> QED
      BY <3>1, SeenGrows, <2>0
  <2>14. CASE Rename
    <3>1. pending \subseteq pending' /\ in_flight' = in_flight /\ current' = current
      BY <2>14 DEF Rename, PubStep, buffer
    <3> QED
      BY <3>1, SeenGrows, <2>0
  <2>15. CASE SyncRoot
    <3>1. pending \subseteq pending' /\ in_flight' = in_flight /\ current' = current
      BY <2>15 DEF SyncRoot, PubStep, buffer
    <3> QED
      BY <3>1, SeenGrows, <2>0
  <2>16. CASE Swap
    <3>1. /\ pub # NoPub /\ current' = pub.next /\ pending' = pending
          /\ in_flight' = IF pub.by = "flusher" THEN {} ELSE in_flight
      BY <2>16 DEF Swap, NoPub
    <3> QED
      BY <3>1, NextRows, SeenGrows, <2>0
  <2>17. CASE FlushError
    <3>1. pending \subseteq pending' /\ in_flight' = in_flight /\ current' = current
      BY <2>17 DEF FlushError, buffer
    <3> QED
      BY <3>1, SeenGrows, <2>0
  <2>18. CASE PublishError
    <3>1. pending \subseteq pending' /\ in_flight' = in_flight /\ current' = current
      BY <2>18 DEF PublishError, buffer
    <3> QED
      BY <3>1, SeenGrows, <2>0
  <2>19. CASE Close
    <3>1. pending \subseteq pending' /\ in_flight' = in_flight /\ current' = current
      BY <2>19 DEF Close, buffer
    <3> QED
      BY <3>1, SeenGrows, <2>0
  <2>20. CASE Reopen
    <3>1. OpenOn(visible, files) /\ flusher.pc = "exited"
      BY <2>20 DEF Reopen
    <3>2. pending = {} /\ in_flight = {} /\ current' = visible
      BY <3>1, OpenDoes DEF FlusherSync, Carrying
    <3>3. RowsIn(current) \subseteq RowsIn(visible)
      BY RowsInIff DEF Published
    <3> QED
      BY <3>2, <3>3, SeenGrows, <2>0
  <2>21. CASE Kill
    BY <2>21 DEF Kill, Shapes, Kept
  <2>22. CASE PowerLoss
    BY <2>22 DEF PowerLoss, Shapes, Kept
  <2>23. CASE UNCHANGED vars
    <3>1. pending \subseteq pending' /\ in_flight' = in_flight /\ current' = current
      BY <2>23 DEF vars, buffer
    <3> QED
      BY <3>1, SeenGrows, <2>0
  <2> QED
    BY <2>1, <2>2, <2>3, <2>4, <2>5, <2>6, <2>7, <2>8, <2>9, <2>10, <2>11, <2>12, <2>13,
       <2>14, <2>15, <2>16, <2>17, <2>18, <2>19, <2>20, <2>21, <2>22, <2>23
       DEF Next, ClientStep, FlusherStep, PubStepTaken
<1> QED
  BY <1>1, InvHolds, PTL DEF Spec, NoGap

=============================================================================

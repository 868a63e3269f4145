-------------------------- MODULE RetentionProofs --------------------------
(***************************************************************************)
(* Proofs about Retention, for any number of collectors, views, readers,   *)
(* failures and crashes, any window and any grace period: no file that a   *)
(* retained manifest, a held view or a young reader needs is ever removed. *)
(*                                                                         *)
(* The argument: a file is removed because it is on the garbage list of a  *)
(* manifest gc read, and nothing of a version at or after the one it was   *)
(* removed at names it.  What is older is out of the window, or older than *)
(* the grace period, or was in `live`.  From then on the file is dead:     *)
(* nothing can come to name it again.  An open keeps what the manifest on  *)
(* disk names or has as garbage, and that covers the window.               *)
(***************************************************************************)
EXTENDS Retention, TLAPS

-----------------------------------------------------------------------------
(* Layer 1: shapes, and how the manifests of the moment are related.       *)

GarbageType == [id : Nat, removed_at : Nat, removed_at_version : Nat]
ManifestType ==
    [version : Nat, at : Nat, named : SUBSET Nat, garbage : SUBSET GarbageType,
      next_id : Nat]
CommitSteps == {"rename", "link", "prune", "swap"}
CommitType == [step : CommitSteps, next : ManifestType]
GcType ==
    {IdleGc} \union [pc : {"manifest"}, now : Nat]
    \union [pc : {"live"}, now : Nat, m : ManifestType]
    \union [pc : {"remove"}, doomed : SUBSET Nat, removed : SUBSET Nat]

Shapes ==
    /\ clock \in Nat /\ next_id \in Nat
    /\ current \in ManifestType /\ disk \in ManifestType /\ links \subseteq ManifestType
    /\ publish = NoCommit \/ publish \in CommitType
    /\ views \in [Viewers -> [named : SUBSET Nat, retained : BOOLEAN]]
    /\ readers \in [Readers -> ManifestType]
    /\ gc \in [Collectors -> GcType]
    /\ failures \in Nat /\ crashes \in Nat

Committing == publish # NoCommit
Renamed == publish.step \in {"link", "prune", "swap"}

\* The manifest on disk is current, or the one being published, or one whose
\* commit failed after the rename.
Versions ==
    /\ Committing => publish.next.version = current.version + 1
    /\ Renamed => disk = publish.next
    /\ ~Renamed => disk = current \/
         (disk.version = current.version + 1 /\ disk \in phantoms)
    /\ \A l \in links : l.version <= current.version \/
         (publish.step \in {"prune", "swap"} /\ l = publish.next)
\* Ids are handed out once, as long as the process lives.
IdsBelow(m, n) == \A i \in Keep(m) : i < n
Ids ==
    /\ IdsBelow(current, current.next_id) /\ current.next_id <= next_id
    /\ IdsBelow(disk, disk.next_id) /\ disk.next_id <= next_id
    /\ Committing =>
         IdsBelow(publish.next, publish.next.next_id) /\ publish.next.next_id <= next_id
\* Garbage is of the past.
Past(m) == m.at <= clock /\ \A g \in m.garbage : g.removed_at_version <= m.version
Times ==
    /\ Past(current) /\ Past(disk) /\ (Committing => Past(publish.next))
    /\ \A r \in Readers : readers[r].at <= clock
GcRead(c) ==
    /\ gc[c].pc \in {"manifest", "live"} => gc[c].now <= clock
    /\ gc[c].pc = "live" => /\ gc[c].m.version <= current.version
                            /\ Past(gc[c].m) /\ IdsBelow(gc[c].m, next_id)
GcReads == \A c \in Collectors : GcRead(c)

-----------------------------------------------------------------------------
(* Layer 2: garbage.                                                       *)

\* No manifest from the version of its removal on names what m has as garbage.
Gone(m, n) ==
    \A g \in m.garbage : g.removed_at_version <= n.version => g.id \notin n.named
GoneFrom(m) ==
    /\ Gone(m, current) /\ Gone(m, disk) /\ (Committing => Gone(m, publish.next))
    /\ \A l \in links : Gone(m, l)
Garbage ==
    /\ GoneFrom(current)
    /\ Gone(disk, disk) /\ \A l \in links : Gone(disk, l)
    /\ Committing =>
         Gone(publish.next, publish.next) /\ \A l \in links : Gone(publish.next, l)
    /\ \A c \in Collectors : gc[c].pc = "live" => GoneFrom(gc[c].m)

-----------------------------------------------------------------------------
(* Layer 3: the age of garbage, against the manifests of readers.          *)

\* What names garbage of m was published before it became garbage.
Older(m, n) == \A g \in m.garbage : g.id \in n.named => n.at <= g.removed_at
OlderAll(n) ==
    /\ Older(current, n) /\ Older(disk, n) /\ (Committing => Older(publish.next, n))
    /\ \A c \in Collectors : gc[c].pc = "live" => Older(gc[c].m, n)
Ages ==
    /\ disk \notin phantoms => OlderAll(disk)
    /\ \A r \in Readers : readers[r] \notin phantoms => OlderAll(readers[r])

-----------------------------------------------------------------------------
(* Layer 4: files gc has decided to remove.                                *)

Young(r) == clock < readers[r].at + Grace /\ readers[r] \notin phantoms
Dead(i) ==
    /\ i < next_id /\ i \notin current.named /\ i \notin disk.named
    /\ Committing => i \notin publish.next.named
    /\ \A l \in links : InWindow(l) => i \notin l.named
    /\ \A v \in Viewers : views[v].retained => i \notin views[v].named
    /\ \A r \in Readers : Young(r) => i \notin readers[r].named
Collected == \A c \in Collectors : gc[c].pc = "remove" =>
    \A i \in gc[c].doomed \union gc[c].removed : Dead(i)

-----------------------------------------------------------------------------
(* Layer 5: what an open keeps.                                            *)

\* Links of the window of m, as far as they are not of its future.
Covers(m) == \A l \in links :
    l.version <= m.version /\ l.version > m.version - Retain =>
      l.named \subseteq Keep(m)
\* What r's manifest names is kept, whichever manifest an open finds.
ReaderKept(r) ==
    /\ readers[r].named \subseteq Keep(disk)
    /\ Committing => readers[r].named \subseteq Keep(publish.next)
    /\ readers[r].named \subseteq Keep(current) \/ (Renamed /\ readers[r] = disk)
Kept ==
    /\ Covers(current) /\ Covers(disk)
    /\ Committing => Covers(publish.next) /\ current.named \subseteq Keep(publish.next)
    /\ \A r \in Readers : Young(r) => ReaderKept(r)

-----------------------------------------------------------------------------
(* Layer 6: the files are there.                                           *)

Present ==
    /\ RetainedReadable /\ HeldViewsReadable /\ YoungManifestReadable
    /\ Committing => publish.next.named \subseteq files

-----------------------------------------------------------------------------
(* Facts about the operators.                                              *)

(* What an open keeps of a manifest.                                       *)
LEMMA KeepIff ==
    ASSUME NEW m, NEW i
    PROVE  i \in Keep(m) <=> (i \in m.named \/ \E g \in m.garbage : g.id = i)
BY DEF Keep

(* The fields of an edited manifest.                                       *)
LEMMA EditedFields ==
    ASSUME NEW add, NEW gone
    PROVE  /\ Edited(add, gone).version = current.version + 1
           /\ Edited(add, gone).at = 0
           /\ Edited(add, gone).named = (current.named \ gone) \union add
           /\ Edited(add, gone).garbage = current.garbage \union
                {[id |-> i, removed_at |-> clock,
                  removed_at_version |-> current.version + 1] : i \in gone}
           /\ Edited(add, gone).next_id =
                IF add = {} THEN current.next_id ELSE next_id + 1
BY DEF Edited

(* An edited manifest is one.                                              *)
LEMMA EditedTyped ==
    ASSUME Shapes, NEW add \in SUBSET Nat, NEW gone \in SUBSET current.named
    PROVE  Edited(add, gone) \in ManifestType
<1>1. current.version + 1 \in Nat /\ current.next_id \in Nat /\ next_id + 1 \in Nat /\
      current.named \subseteq Nat
      /\ current.garbage \subseteq GarbageType /\ clock \in Nat
  BY DEF Shapes, ManifestType
<1>2. {[id |-> i, removed_at |-> clock, removed_at_version |-> current.version + 1] :
      i \in gone} \subseteq GarbageType
  BY <1>1 DEF GarbageType
<1> QED
  BY <1>1, <1>2 DEF Edited, ManifestType

(* The record of a gc call, by where it is.                                *)
LEMMA GcFields ==
    ASSUME Shapes, NEW c \in Collectors
    PROVE  /\ gc[c].pc \in {"idle", "manifest", "live", "remove"}
           /\ gc[c].pc \in {"manifest", "live"} => gc[c].now \in Nat
           /\ gc[c].pc = "live" => gc[c].m \in ManifestType
           /\ gc[c].pc = "remove" =>
                gc[c] \in [pc : {"remove"}, doomed : SUBSET Nat, removed : SUBSET Nat]
<1>1. gc[c] \in GcType
  BY DEF Shapes
<1>2. CASE gc[c] = IdleGc
  BY <1>2 DEF IdleGc
<1>3. CASE gc[c] \in [pc : {"manifest"}, now : Nat]
  BY <1>3
<1>4. CASE gc[c] \in [pc : {"live"}, now : Nat, m : ManifestType]
  BY <1>4
<1>5. CASE gc[c] \in [pc : {"remove"}, doomed : SUBSET Nat, removed : SUBSET Nat]
  BY <1>5
<1> QED
  BY <1>1, <1>2, <1>3, <1>4, <1>5 DEF GcType

(* A manifest's fields.                                                    *)
LEMMA ManifestFields ==
    ASSUME NEW m \in ManifestType
    PROVE  /\ m.version \in Nat /\ m.at \in Nat /\ m.named \subseteq Nat /\
                m.next_id \in Nat
           /\ \A g \in m.garbage : g.id \in Nat /\ g.removed_at \in Nat /\
                g.removed_at_version \in Nat
BY DEF ManifestType, GarbageType

-----------------------------------------------------------------------------
(* Layer 1 holds: shapes.                                                  *)

(* The empty store has its shape.                                          *)
LEMMA ShapesInit == Init => Shapes
<1> SUFFICES ASSUME Init PROVE Shapes
  OBVIOUS
<1>1. EmptyManifest \in ManifestType
  BY DEF EmptyManifest, ManifestType
<1>2. NoView \in [named : SUBSET Nat, retained : BOOLEAN] /\ IdleGc \in GcType
  BY DEF NoView, GcType
<1> QED
  BY <1>1, <1>2 DEF Init, Shapes

(* The record of a gc call changes.                                        *)
LEMMA GcTyped ==
    ASSUME Shapes, NEW c \in Collectors, NEW r \in GcType, gc' = [gc EXCEPT ![c] = r]
    PROVE  gc' \in [Collectors -> GcType] /\ gc'[c] = r /\ \A e \in Collectors :
           e # c => gc'[e] = gc[e]
BY DEF Shapes

(* Every action leaves the state in its shape.                             *)
LEMMA ShapesStep ==
    ASSUME Shapes, [Next]_vars
    PROVE  Shapes'
<1> USE DEF Shapes
<1>1. CASE Tick
  BY <1>1 DEF Tick, store, users
<1>2. ASSUME NEW m \in ManifestType, Begin(m)
      PROVE  publish' \in CommitType /\ current' = current /\ disk' = disk /\
             links' = links
  BY <1>2 DEF Begin, CommitType, CommitSteps
<1>3. ASSUME NEW gone \in SUBSET current.named, Write(gone) PROVE Shapes'
  <2>1. Edited({next_id}, gone) \in ManifestType
    BY EditedTyped
  <2>2. Begin(Edited({next_id}, gone)) /\ next_id' \in Nat
        /\ UNCHANGED <<clock, users, gc, failures, crashes, phantoms>>
    BY <1>3 DEF Write
  <2> QED
    BY <1>2, <2>1, <2>2 DEF users
<1>4. ASSUME NEW gone \in SUBSET current.named, ReleaseOnly(gone) PROVE Shapes'
  <2>1. Edited({}, gone) \in ManifestType
    BY EditedTyped
  <2>2. Begin(Edited({}, gone)) /\
        UNCHANGED <<clock, next_id, users, gc, failures, crashes, phantoms>>
    BY <1>4 DEF ReleaseOnly
  <2> QED
    BY <1>2, <2>1, <2>2 DEF users
<1>5. CASE Rename
  <2>1. publish \in CommitType
    BY <1>5 DEF Rename, NoCommit
  <2>2. [publish.next EXCEPT !.at = clock] \in ManifestType
    BY <2>1 DEF CommitType, ManifestType
  <2> HIDE DEF Shapes
  <2>3. disk' \in ManifestType /\ publish' \in CommitType
    BY <1>5, <2>2 DEF Rename, CommitType, CommitSteps
  <2> QED
    BY <1>5, <2>3 DEF Rename, users, Shapes
<1>6. CASE Link
  <2>1. publish \in CommitType
    BY <1>6 DEF Link, NoCommit
  <2>2. publish' \in CommitType /\ links' \subseteq ManifestType
    BY <1>6, <2>1 DEF Link, CommitType, CommitSteps
  <2> QED
    BY <1>6, <2>2 DEF Link, Fails, users
<1>7. CASE Prune
  <2>1. publish \in CommitType
    BY <1>7 DEF Prune, NoCommit
  <2>2. publish' \in CommitType /\ links' \subseteq ManifestType
    BY <1>7, <2>1 DEF Prune, CommitType, CommitSteps
  <2> QED
    BY <1>7, <2>2 DEF Prune, Fails, users
<1>8. CASE Swap
  <2>1. publish \in CommitType
    BY <1>8 DEF Swap, NoCommit
  <2> QED
    BY <1>8, <2>1 DEF Swap, CommitType, users
<1>9. CASE PublishError
  BY <1>9 DEF PublishError, Fails, users
<1>10. ASSUME NEW v \in Viewers, Snapshot(v) PROVE Shapes'
  <2>1. [named |-> current.named, retained |-> TRUE] \in [named : SUBSET Nat,
        retained : BOOLEAN]
    BY ManifestFields
  <2> QED
    BY <1>10, <2>1 DEF Snapshot, store
<1>11. ASSUME NEW v \in Viewers, ViewAt(v) PROVE Shapes'
  <2>1. PICK l \in links : views' = [views EXCEPT ![v] = [named |-> l.named,
          retained |-> InWindow(l)]]
    BY <1>11 DEF ViewAt
  <2>2. [named |-> l.named, retained |-> InWindow(l)] \in [named : SUBSET Nat,
        retained : BOOLEAN]
    BY ManifestFields DEF InWindow
  <2> QED
    BY <1>11, <2>1, <2>2 DEF ViewAt, store
<1>12. ASSUME NEW v \in Viewers, DropView(v) PROVE Shapes'
  <2>1. NoView \in [named : SUBSET Nat, retained : BOOLEAN]
    BY DEF NoView
  <2> QED
    BY <1>12, <2>1 DEF DropView, store
<1>13. ASSUME NEW r \in Readers, ReaderLoad(r) PROVE Shapes'
  BY <1>13 DEF ReaderLoad, store
<1>14. ASSUME NEW c \in Collectors, GcStart(c) PROVE Shapes'
  <2>1. [pc |-> "manifest", now |-> clock] \in GcType
    BY DEF GcType
  <2> QED
    BY <1>14, <2>1, GcTyped DEF GcStart, store, users
<1>15. ASSUME NEW c \in Collectors, GcReadManifest(c) PROVE Shapes'
  <2>1. gc[c].now \in Nat
    BY <1>15, GcFields DEF GcReadManifest
  <2>2. [pc |-> "live", now |-> gc[c].now, m |-> current] \in GcType
    BY <2>1 DEF GcType
  <2> QED
    BY <1>15, <2>2, GcTyped DEF GcReadManifest, store, users
<1>16. ASSUME NEW c \in Collectors, GcReadLive(c) PROVE Shapes'
  <2> DEFINE d == Doomed(gc[c].m, gc[c].now, LiveNames)
             r == IF d = {} THEN IdleGc ELSE [pc |-> "remove", doomed |-> d,
               removed |-> {}]
  <2>1. gc[c].m \in ManifestType
    BY <1>16, GcFields DEF GcReadLive
  <2>2. d \subseteq Nat
    BY <2>1, ManifestFields DEF Doomed
  <2>3. r \in GcType
    BY <2>2 DEF GcType
  <2>4. gc' = [gc EXCEPT ![c] = r] /\
        UNCHANGED <<clock, store, files, users, failures, crashes, phantoms>>
    BY <1>16 DEF GcReadLive
  <2> HIDE DEF r, d
  <2> QED
    BY <2>3, <2>4, GcTyped DEF store, users
<1>17. ASSUME NEW c \in Collectors, GcRemove(c) PROVE Shapes'
  <2>1. PICK i \in gc[c].doomed :
          gc' = [gc EXCEPT ![c].doomed = @ \ {i}, ![c].removed = @ \union {i}]
    BY <1>17 DEF GcRemove
  <2>2. gc[c] \in [pc : {"remove"}, doomed : SUBSET Nat, removed : SUBSET Nat]
    BY <1>17, GcFields DEF GcRemove
  <2> DEFINE r == [gc[c] EXCEPT !.doomed = @ \ {i}, !.removed = @ \union {i}]
  <2>3. r \in [pc : {"remove"}, doomed : SUBSET Nat, removed : SUBSET Nat]
    BY <2>2
  <2>4. gc' = [gc EXCEPT ![c] = r]
    BY <2>1
  <2>5. gc' \in [Collectors -> GcType]
    BY <2>3, <2>4 DEF GcType
  <2> QED
    BY <1>17, <2>5 DEF GcRemove, store, users
<1>18. ASSUME NEW c \in Collectors, GcError(c) PROVE Shapes'
  <2>1. IdleGc \in GcType
    BY DEF GcType
  <2> QED
    BY <1>18, <2>1, GcTyped DEF GcError, Fails, store, users
<1>19. ASSUME NEW c \in Collectors, GcForget(c) PROVE Shapes'
  <2>1. IdleGc \in GcType
    BY DEF GcType
  <2> DEFINE n == [Edited({}, {}) EXCEPT !.garbage = {g \in @ :
        g.id \notin gc[c].removed}]
  <2>2. Edited({}, {}) \in ManifestType
    BY EditedTyped
  <2>3. n \in ManifestType
    BY <2>2 DEF ManifestType
  <2>4. Begin(n) /\ gc' = [gc EXCEPT ![c] = IdleGc]
        /\ UNCHANGED <<clock, next_id, users, failures, crashes, phantoms>>
    BY <1>19 DEF GcForget
  <2> HIDE DEF n
  <2> QED
    BY <1>2, <2>1, <2>3, <2>4, GcTyped DEF users
<1>20. CASE Reopen
  <2>1. NoView \in [named : SUBSET Nat, retained : BOOLEAN] /\ IdleGc \in GcType
    BY DEF NoView, GcType
  <2>2. disk.next_id \in Nat
    BY ManifestFields
  <2> QED
    BY <1>20, <2>1, <2>2 DEF Reopen
<1>21. CASE UNCHANGED vars
  BY <1>21 DEF vars, store, users
<1> QED
  BY <1>1, <1>3, <1>4, <1>5, <1>6, <1>7, <1>8, <1>9, <1>10, <1>11, <1>12, <1>13, <1>14,
     <1>15, <1>16,
     <1>17, <1>18, <1>19, <1>20, <1>21 DEF Next

-----------------------------------------------------------------------------
(* Steps, by what they do to the state the proofs are about.               *)

StoreSame == UNCHANGED <<current, publish, disk, links, next_id>>
UsersSame == UNCHANGED <<clock, views, readers, phantoms>>

\* A commit begins: a write, a release, or gc forgetting what it removed.
Starts(m) ==
    /\ publish = NoCommit /\ publish' # NoCommit /\ publish'.step = "rename" /\
         publish'.next = m
    /\ m.version = current.version + 1 /\ m.at = 0
    /\ \A i \in m.named :
         i \in current.named \/ (i = next_id /\ i \in files' /\ m.next_id = next_id + 1)
    /\ \A g \in m.garbage :
         \/ g \in current.garbage
         \/ /\ g.id \in current.named /\ g.id \notin m.named
            /\ g.removed_at = clock /\ g.removed_at_version = m.version
    /\ current.next_id <= m.next_id /\ m.next_id <= next_id' /\ next_id <= next_id' /\
         files \subseteq files'
    /\ \A i \in current.named : i \in m.named \/ \E g \in m.garbage : g.id = i
    /\ \A g \in current.garbage : g \in m.garbage \/ \E c \in Collectors :
         gc[c].pc = "remove" /\ g.id \in gc[c].removed
    /\ UNCHANGED <<current, disk, links>> /\ UsersSame
    /\ \A c \in Collectors : gc'[c] = gc[c] \/ gc'[c].pc = "idle"
\* The commit moves on, and its link may appear or others go.
Moves ==
    /\ publish \in CommitType /\ publish'.next = publish.next /\ publish' # NoCommit
    /\ \/ publish.step = "link" /\ publish'.step = "prune" /\
            links' \subseteq links \union {publish.next}
       \/ publish.step = "prune" /\ publish'.step = "swap" /\ links' \subseteq links
    /\ UNCHANGED <<current, disk, next_id, files, gc>> /\ UsersSame
RenameStep ==
    /\ publish \in CommitType /\ publish.step = "rename" /\ publish'.step = "link"
    /\ publish' # NoCommit /\ publish'.next = disk' /\ disk' \in ManifestType
    /\ disk'.version = publish.next.version /\ disk'.at = clock /\
         disk'.named = publish.next.named
    /\ disk'.garbage = publish.next.garbage /\ disk'.next_id = publish.next.next_id
    /\ UNCHANGED <<current, links, next_id, files, gc>> /\ UsersSame
ViewStep ==
    /\ StoreSame /\ UNCHANGED <<clock, files, readers, gc, phantoms>>
    /\ \A v \in Viewers :
         \/ views'[v] = views[v]
         \/ views'[v].retained =>
              \E m \in {current} \union {l \in links : InWindow(l)} :
                views'[v].named = m.named
\* A gc call is where it was, starts, or is over.
GcQuiet ==
    /\ StoreSame /\ UsersSame /\ files' = files
    /\ \A c \in Collectors : \/ gc'[c] = gc[c] \/ gc'[c].pc = "idle"
                             \/ gc'[c].pc = "manifest" /\ gc'[c].now = clock
OnlyGc(c) == StoreSame /\ UsersSame /\ \A e \in Collectors : e # c => gc'[e] = gc[e]
ReadStep(c) ==
    /\ OnlyGc(c) /\ files' = files /\ gc[c].pc = "manifest"
    /\ gc'[c].pc = "live" /\ gc'[c].now = gc[c].now /\ gc'[c].m = current
DoomStep(c) ==
    /\ OnlyGc(c) /\ files' = files /\ gc[c].pc = "live"
    /\ \/ gc'[c].pc = "idle"
       \/ /\ gc'[c].pc = "remove" /\ gc'[c].removed = {}
          /\ gc'[c].doomed = Doomed(gc[c].m, gc[c].now, LiveNames)
RemoveStep(c) ==
    /\ OnlyGc(c) /\ gc[c].pc = "remove" /\ gc'[c].pc = "remove"
    /\ gc'[c].doomed \union gc'[c].removed = gc[c].doomed \union gc[c].removed
    /\ \E i \in gc[c].doomed : files' = files \ {i}

(* A write, a release and gc's last commit all begin a commit.             *)
LEMMA WriteStarts ==
    ASSUME Shapes, Ids, NEW gone \in SUBSET current.named, Write(gone) \/
           ReleaseOnly(gone)
    PROVE  \E m \in ManifestType : Starts(m)
<1> DEFINE add == IF Write(gone) THEN {next_id} ELSE {}
           m == Edited(add, gone)
<1>1. m \in ManifestType
  BY EditedTyped DEF Shapes
<1>2. Begin(m) /\ UsersSame /\ gc' = gc /\ files' = files \union add
      /\ next_id' = (IF add = {} THEN next_id ELSE next_id + 1)
  BY DEF Write, ReleaseOnly, UsersSame, users
<1>3. /\ publish = NoCommit /\ publish' # NoCommit /\ publish'.step = "rename" /\
           publish'.next = m
      /\ UNCHANGED <<current, disk, links>>
  BY <1>2 DEF Begin, NoCommit
<1>4. /\ m.version = current.version + 1 /\ m.at = 0 /\
           m.named = (current.named \ gone) \union add
      /\ m.garbage = current.garbage \union
           {[id |-> i, removed_at |-> clock,
             removed_at_version |-> current.version + 1] : i \in gone}
      /\ m.next_id = IF add = {} THEN current.next_id ELSE next_id + 1
  BY EditedFields
<1>5. /\ next_id \in Nat /\ current.next_id \in Nat /\ current.next_id <= next_id
      /\ \A i \in current.named : i < current.next_id /\ i \in Nat
  BY KeepIff, ManifestFields DEF Shapes, Ids, IdsBelow
<1>6. next_id \notin current.named /\ add \subseteq {next_id}
  BY <1>5
<1> HIDE DEF m, add
<1>7. \A i \in m.named : i \in current.named \/ (i = next_id /\ i \in files' /\
      m.next_id = next_id + 1)
  BY <1>2, <1>4, <1>6
<1>8. ASSUME NEW g \in m.garbage
      PROVE  \/ g \in current.garbage
             \/ /\ g.id \in current.named /\ g.id \notin m.named
                /\ g.removed_at = clock /\ g.removed_at_version = m.version
  <2>1. CASE g \in current.garbage
    BY <2>1
  <2>2. CASE g \notin current.garbage
    <3>1. PICK i \in gone : g = [id |-> i, removed_at |-> clock,
            removed_at_version |-> current.version + 1]
      BY <1>4, <2>2
    <3>2. g.id = i /\ g.removed_at = clock /\ g.removed_at_version = m.version
      BY <1>4, <3>1
    <3> QED
      BY <1>4, <1>6, <3>2
  <2> QED
    BY <2>1, <2>2
<1>9. current.next_id <= m.next_id /\ m.next_id <= next_id' /\ next_id <= next_id' /\
      files \subseteq files'
  BY <1>2, <1>4, <1>5
<1>10. ASSUME NEW i \in current.named
       PROVE  i \in m.named \/ \E g \in m.garbage : g.id = i
  <2>1. CASE i \in gone
    <3> DEFINE g == [id |-> i, removed_at |-> clock,
          removed_at_version |-> current.version + 1]
    <3>1. g \in m.garbage /\ g.id = i
      BY <1>4, <2>1
    <3> QED
      BY <3>1
  <2>2. CASE i \notin gone
    BY <1>4, <2>2
  <2> QED
    BY <2>1, <2>2
<1>11. Starts(m)
  BY <1>2, <1>3, <1>4, <1>7, <1>8, <1>9, <1>10 DEF Starts
<1> QED
  BY <1>1, <1>11

(* gc's last commit only drops what it removed from the garbage list.      *)
LEMMA ForgetStarts ==
    ASSUME Shapes, Ids, NEW c \in Collectors, GcForget(c)
    PROVE  \E m \in ManifestType : Starts(m)
<1> DEFINE e == Edited({}, {})
           m == [e EXCEPT !.garbage = {g \in @ : g.id \notin gc[c].removed}]
<1>1. e \in ManifestType
  BY EditedTyped DEF Shapes
<1>2. m \in ManifestType
  BY <1>1 DEF ManifestType
<1>3. Begin(m) /\ UsersSame /\ gc' = [gc EXCEPT ![c] = IdleGc] /\ files' = files /\
      next_id' = next_id
      /\ gc[c].pc = "remove"
  BY DEF GcForget, UsersSame, users
<1>4. /\ publish = NoCommit /\ publish' # NoCommit /\ publish'.step = "rename" /\
           publish'.next = m
      /\ UNCHANGED <<current, disk, links>>
  BY <1>3 DEF Begin, NoCommit
<1>5. /\ e.version = current.version + 1 /\ e.at = 0 /\ e.named = current.named
      /\ e.garbage = current.garbage /\ e.next_id = current.next_id
  <2>1. (current.named \ {}) \union {} = current.named
    OBVIOUS
  <2>2. current.garbage \union
          {[id |-> i, removed_at |-> clock,
            removed_at_version |-> current.version + 1] : i \in {}} = current.garbage
    OBVIOUS
  <2> QED
    BY <2>1, <2>2 DEF Edited
<1> HIDE DEF e
<1>6. /\ m.version = current.version + 1 /\ m.at = 0 /\ m.named = current.named /\
           m.next_id = current.next_id
      /\ m.garbage = {g \in current.garbage : g.id \notin gc[c].removed}
  BY <1>1, <1>5 DEF ManifestType
<1>7. next_id \in Nat /\ current.next_id \in Nat /\ current.next_id <= next_id
  BY ManifestFields DEF Shapes, Ids
<1>8. \A d \in Collectors : gc'[d] = gc[d] \/ gc'[d].pc = "idle"
  BY <1>3 DEF Shapes, IdleGc
<1> HIDE DEF m
<1>9. Starts(m)
  BY <1>3, <1>4, <1>6, <1>7, <1>8 DEF Starts
<1> QED
  BY <1>2, <1>9

(* Every step is one of these.                                             *)
LEMMA StepCases ==
    ASSUME Shapes, Ids, [Next]_vars
    PROVE  \/ Tick \/ (\E m \in ManifestType : Starts(m)) \/ RenameStep \/ Moves \/
                Swap \/ PublishError
           \/ ViewStep \/ (\E r \in Readers : ReaderLoad(r)) \/ GcQuiet
           \/ (\E c \in Collectors : ReadStep(c) \/ DoomStep(c) \/ RemoveStep(c)) \/
                Reopen
<1>1. CASE Rename
  <2>1. publish \in CommitType /\ publish.step = "rename" /\
        publish.next \in ManifestType
    BY <1>1 DEF Rename, Shapes, NoCommit, CommitType
  <2> DEFINE m == [publish.next EXCEPT !.at = clock]
  <2>2. /\ m \in ManifestType /\ m.version = publish.next.version /\ m.at = clock /\
             m.named = publish.next.named
        /\ m.garbage = publish.next.garbage /\ m.next_id = publish.next.next_id
    BY <2>1 DEF Shapes, ManifestType
  <2>3. disk' = m /\ publish' = [step |-> "link", next |-> m]
    BY <1>1 DEF Rename
  <2> HIDE DEF m
  <2>4. publish'.step = "link" /\ publish'.next = m /\ publish' # NoCommit
    BY <2>3 DEF NoCommit
  <2>5. UNCHANGED <<current, links, next_id, files, gc>> /\ UsersSame
    BY <1>1 DEF Rename, UsersSame, users
  <2>6. RenameStep
    BY <2>1, <2>2, <2>3, <2>4, <2>5 DEF RenameStep
  <2> QED
    BY <2>6
<1>2. CASE Link \/ Prune
  <2>1. publish \in CommitType
    BY <1>2 DEF Link, Prune, Shapes, NoCommit
  <2>2. \/ publish.step = "link" /\ publish' = [publish EXCEPT !.step = "prune"] /\
             links' \subseteq links \union {publish.next}
        \/ publish.step = "prune" /\ publish' = [publish EXCEPT !.step = "swap"] /\
             links' \subseteq links
    BY <1>2 DEF Link, Prune
  <2>3. /\ publish'.next = publish.next
        /\ \/ publish.step = "link" /\ publish'.step = "prune" /\
                links' \subseteq links \union {publish.next}
           \/ publish.step = "prune" /\ publish'.step = "swap" /\ links' \subseteq links
    BY <2>1, <2>2 DEF CommitType
  <2>4. publish' # NoCommit
    BY <2>3 DEF NoCommit
  <2>5. UNCHANGED <<current, disk, next_id, files, gc>> /\ UsersSame
    BY <1>2 DEF Link, Prune, UsersSame, users
  <2>6. Moves
    BY <2>1, <2>3, <2>4, <2>5 DEF Moves
  <2> QED
    BY <2>6
<1>3. ASSUME NEW v \in Viewers, Snapshot(v) \/ ViewAt(v) \/ DropView(v) PROVE ViewStep
  <2>1. PICK w : views' = [views EXCEPT ![v] = w]
                 /\ (w.retained => \E m \in {current} \union {l \in links :
                      InWindow(l)} : w.named = m.named)
    <3>1. CASE Snapshot(v)
      <4> DEFINE x == [named |-> current.named, retained |-> TRUE]
      <4>1. views' = [views EXCEPT ![v] = x] /\ x.named = current.named
        BY <3>1 DEF Snapshot
      <4> HIDE DEF x
      <4> QED
        BY <4>1
    <3>2. CASE ViewAt(v)
      <4>1. PICK l \in links : views' = [views EXCEPT ![v] = [named |-> l.named,
              retained |-> InWindow(l)]]
        BY <3>2 DEF ViewAt
      <4> DEFINE x == [named |-> l.named, retained |-> InWindow(l)]
      <4>2. views' = [views EXCEPT ![v] = x] /\ x.named = l.named /\
            (x.retained => InWindow(l))
        BY <4>1
      <4> HIDE DEF x
      <4> QED
        BY <4>2
    <3>3. CASE DropView(v)
      <4>1. views' = [views EXCEPT ![v] = NoView] /\ ~NoView.retained
        BY <3>3 DEF DropView, NoView
      <4> QED
        BY <4>1
    <3> QED
      BY <1>3, <3>1, <3>2, <3>3
  <2>2. StoreSame /\ UNCHANGED <<clock, files, readers, gc, phantoms>>
    BY <1>3 DEF Snapshot, ViewAt, DropView, StoreSame, store
  <2>3. \A u \in Viewers : views'[u] = IF u = v THEN w ELSE views[u]
    BY <2>1 DEF Shapes
  <2> QED
    BY <2>1, <2>2, <2>3 DEF ViewStep
<1>4. ASSUME NEW c \in Collectors, GcStart(c) \/ GcError(c) PROVE GcQuiet
  <2>1. PICK r : gc' = [gc EXCEPT ![c] = r] /\
          (r.pc = "idle" \/ (r.pc = "manifest" /\ r.now = clock))
    <3>1. CASE GcStart(c)
      <4> DEFINE x == [pc |-> "manifest", now |-> clock]
      <4>1. gc' = [gc EXCEPT ![c] = x] /\ x.pc = "manifest" /\ x.now = clock
        BY <3>1 DEF GcStart
      <4> HIDE DEF x
      <4> QED
        BY <4>1
    <3>2. CASE GcError(c)
      <4>1. gc' = [gc EXCEPT ![c] = IdleGc] /\ IdleGc.pc = "idle"
        BY <3>2 DEF GcError, IdleGc
      <4> QED
        BY <4>1
    <3> QED
      BY <1>4, <3>1, <3>2
  <2>2. StoreSame /\ UsersSame /\ files' = files
    BY <1>4 DEF GcStart, GcError, StoreSame, UsersSame, store, users
  <2>3. \A e \in Collectors : gc'[e] = IF e = c THEN r ELSE gc[e]
    BY <2>1 DEF Shapes
  <2> QED
    BY <2>1, <2>2, <2>3 DEF GcQuiet
<1>5. ASSUME NEW c \in Collectors, GcReadManifest(c) PROVE ReadStep(c)
  <2>1. gc' = [gc EXCEPT ![c] = [pc |-> "live", now |-> gc[c].now, m |-> current]]
    BY <1>5 DEF GcReadManifest
  <2>2. \A e \in Collectors :
        gc'[e] = IF e = c THEN [pc |-> "live", now |-> gc[c].now, m |-> current] ELSE gc[e]
    BY <2>1 DEF Shapes
  <2> QED
    BY <1>5, <2>2 DEF GcReadManifest, ReadStep, OnlyGc, StoreSame, UsersSame, store,
       users
<1>6. ASSUME NEW c \in Collectors, GcReadLive(c) PROVE DoomStep(c)
  <2> DEFINE d == Doomed(gc[c].m, gc[c].now, LiveNames)
             r == IF d = {} THEN IdleGc ELSE [pc |-> "remove", doomed |-> d,
               removed |-> {}]
  <2>1. gc' = [gc EXCEPT ![c] = r]
    BY <1>6 DEF GcReadLive
  <2>2. r.pc = "idle" \/ (r.pc = "remove" /\ r.removed = {} /\ r.doomed = d)
    BY DEF IdleGc
  <2> HIDE DEF r
  <2>3. \A e \in Collectors : gc'[e] = IF e = c THEN r ELSE gc[e]
    BY <2>1 DEF Shapes
  <2> QED
    BY <1>6, <2>2, <2>3 DEF GcReadLive, DoomStep, OnlyGc, StoreSame, UsersSame, store,
       users
<1>7. ASSUME NEW c \in Collectors, GcRemove(c) PROVE RemoveStep(c)
  <2>1. PICK i \in gc[c].doomed : /\ files' = files \ {i}
                                  /\ gc' = [gc EXCEPT ![c].doomed = @ \ {i},
                                       ![c].removed = @ \union {i}]
    BY <1>7 DEF GcRemove
  <2>2. gc[c] \in [pc : {"remove"}, doomed : SUBSET Nat, removed : SUBSET Nat]
    BY <1>7, GcFields DEF GcRemove
  <2>3. /\ gc'[c].pc = "remove" /\ gc'[c].doomed = gc[c].doomed \ {i} /\
             gc'[c].removed = gc[c].removed \union {i}
        /\ \A e \in Collectors : e # c => gc'[e] = gc[e]
    BY <2>1, <2>2 DEF Shapes
  <2>4. gc[c].pc = "remove" /\ StoreSame /\ UsersSame
    BY <1>7 DEF GcRemove, StoreSame, UsersSame, store, users
  <2> QED
    BY <2>1, <2>3, <2>4 DEF RemoveStep, OnlyGc
<1>8. CASE UNCHANGED vars
  BY <1>8 DEF vars, GcQuiet, StoreSame, UsersSame, store, users
<1> QED
  BY <1>1, <1>2, <1>3, <1>4, <1>5, <1>6, <1>7, <1>8, WriteStarts, ForgetStarts DEF Next

-----------------------------------------------------------------------------
(* Layer 1 holds: versions, ids and times.                                 *)

(* Initially the empty manifest is current and on disk.                    *)
LEMMA RelationsInit == Init => Versions /\ Ids /\ Times /\ GcReads
<1> SUFFICES ASSUME Init PROVE Versions /\ Ids /\ Times /\ GcReads
  OBVIOUS
<1>1. /\ publish = NoCommit /\ NoCommit.step = "none" /\ disk = current /\ links = {}
      /\ \A c \in Collectors : gc[c].pc = "idle"
  BY DEF Init, NoCommit, IdleGc
<1>2. Versions
  BY <1>1 DEF Versions, Committing, Renamed
<1>3. Keep(EmptyManifest) = {} /\ EmptyManifest.next_id = 0 /\ EmptyManifest.at = 0 /\
      EmptyManifest.garbage = {}
  BY DEF EmptyManifest, Keep
<1>4. Ids
  BY <1>1, <1>3 DEF Init, Ids, IdsBelow, Committing
<1>5. Times
  BY <1>1, <1>3 DEF Init, Times, Past, Committing
<1>6. GcReads
  BY <1>1 DEF GcReads, GcRead
<1> QED
  BY <1>2, <1>4, <1>5, <1>6

(* Where no commit is under way.                                           *)
LEMMA Uncommitted ==
    ASSUME Shapes
    PROVE  /\ ~Committing => ~Renamed /\ publish.step = "none"
           /\ Committing => publish \in CommitType /\ publish.next \in ManifestType /\
                publish.step \in CommitSteps
BY DEF Shapes, Committing, Renamed, NoCommit, CommitType

(* The manifest on disk is at most one version ahead.                      *)
LEMMA DiskVersion ==
    ASSUME Shapes, Versions
    PROVE  current.version <= disk.version /\ current.version \in Nat /\
           disk.version \in Nat
<1>1. current.version \in Nat /\ disk.version \in Nat
  BY ManifestFields DEF Shapes
<1>2. CASE Renamed
  BY <1>1, <1>2, Uncommitted DEF Versions
<1>3. CASE ~Renamed
  BY <1>1, <1>3 DEF Versions
<1> QED
  BY <1>1, <1>2, <1>3

(* A commit is one version ahead of current, and disk is one of the two.   *)
LEMMA VersionsStep ==
    ASSUME Shapes, Ids, Versions, [Next]_vars
    PROVE  Versions'
<1>1. CASE Tick
  BY <1>1 DEF Tick, store, users, Versions, Committing, Renamed
<1>2. CASE \E m \in ManifestType : Starts(m)
  <2>1. PICK m \in ManifestType : Starts(m)
    BY <1>2
  <2>2. ~Renamed /\ ~Renamed'
    BY <2>1, Uncommitted DEF Starts, Committing, Renamed
  <2> QED
    BY <2>1, <2>2, Uncommitted DEF Starts, UsersSame, Versions, Committing
<1>3. CASE RenameStep
  <2>1. Committing /\ publish.step = "rename" /\ Renamed' /\ Committing'
    BY <1>3 DEF RenameStep, Committing, Renamed, NoCommit, CommitType
  <2> QED
    BY <1>3, <2>1 DEF RenameStep, UsersSame, Versions
<1>4. CASE Moves
  <2>1. Committing /\ Renamed /\ Renamed' /\ Committing'
    BY <1>4 DEF Moves, Committing, Renamed, NoCommit, CommitType
  <2>2. \A l \in links' : l.version <= current.version \/
        (publish'.step \in {"prune", "swap"} /\ l = publish.next)
    BY <1>4, <2>1 DEF Moves, Versions
  <2> QED
    BY <1>4, <2>1, <2>2 DEF Moves, UsersSame, Versions
<1>5. CASE Swap
  <2>1. Committing /\ Renamed /\ ~Committing' /\ ~Renamed' /\ current' = publish.next /\
        disk' = disk /\ links' = links
    BY <1>5 DEF Swap, Committing, Renamed, NoCommit
  <2>2. publish.next.version = current.version + 1 /\ disk = publish.next /\
        current.version \in Nat
    BY <2>1, ManifestFields DEF Versions, Shapes
  <2>3. \A l \in links : l.version <= current'.version
    <3> SUFFICES ASSUME NEW l \in links PROVE l.version <= publish.next.version
      BY <2>1
    <3>1. l.version \in Nat
      BY ManifestFields DEF Shapes
    <3> QED
      BY <2>2, <3>1 DEF Versions
  <2> QED
    BY <2>1, <2>2, <2>3 DEF Versions
<1>6. CASE PublishError
  <2>1. ~Committing' /\ ~Renamed' /\ UNCHANGED <<current, disk, links>> /\
        publish.step \in {"rename", "link"}
    BY <1>6 DEF PublishError, Committing, Renamed, NoCommit
  <2>2. CASE publish.step = "link"
    <3>1. Committing /\ Renamed /\ phantoms' = phantoms \union {publish.next}
      BY <1>6, <2>2 DEF PublishError, Committing, Renamed, NoCommit
    <3>2. disk = publish.next /\ disk.version = current.version + 1
      BY <3>1 DEF Versions
    <3> QED
      BY <2>1, <2>2, <3>1, <3>2 DEF Versions
  <2>3. CASE publish.step = "rename"
    <3>1. ~Renamed /\ phantoms' = phantoms
      BY <1>6, <2>3 DEF PublishError, Renamed
    <3> QED
      BY <2>1, <2>3, <3>1 DEF Versions
  <2> QED
    BY <2>1, <2>2, <2>3
<1>7. CASE ViewStep
  BY <1>7 DEF ViewStep, StoreSame, Versions, Committing, Renamed
<1>8. CASE \E r \in Readers : ReaderLoad(r)
  <2>1. PICK r \in Readers : ReaderLoad(r)
    BY <1>8
  <2> QED
    BY <2>1 DEF ReaderLoad, store, Versions, Committing, Renamed
<1>9. CASE GcQuiet
  BY <1>9 DEF GcQuiet, StoreSame, UsersSame, Versions, Committing, Renamed
<1>10. CASE \E c \in Collectors : ReadStep(c)
  <2>1. PICK c \in Collectors : ReadStep(c)
    BY <1>10
  <2> QED
    BY <2>1 DEF ReadStep, OnlyGc, StoreSame, UsersSame, Versions, Committing, Renamed
<1>11. CASE \E c \in Collectors : DoomStep(c)
  <2>1. PICK c \in Collectors : DoomStep(c)
    BY <1>11
  <2> QED
    BY <2>1 DEF DoomStep, OnlyGc, StoreSame, UsersSame, Versions, Committing, Renamed
<1>12. CASE \E c \in Collectors : RemoveStep(c)
  <2>1. PICK c \in Collectors : RemoveStep(c)
    BY <1>12
  <2> QED
    BY <2>1 DEF RemoveStep, OnlyGc, StoreSame, UsersSame, Versions, Committing, Renamed
<1>13. CASE Reopen
  <2>1. ~Committing' /\ ~Renamed' /\ current' = disk /\ UNCHANGED <<disk, links>>
    BY <1>13 DEF Reopen, Committing, Renamed, NoCommit
  <2>2. current.version \in Nat /\ disk.version \in Nat /\ \A l \in links :
        l.version \in Nat
    BY ManifestFields DEF Shapes
  <2>3. current.version <= disk.version
    BY <2>2, Uncommitted, DiskVersion
  <2>4. \A l \in links : l.version <= disk.version
    <3> SUFFICES ASSUME NEW l \in links PROVE l.version <= disk.version
      OBVIOUS
    <3>1. CASE l.version <= current.version
      BY <2>2, <2>3, <3>1
    <3>2. CASE publish.step \in {"prune", "swap"} /\ l = publish.next
      BY <2>2, <3>2 DEF Versions, Renamed
    <3> QED
      BY <3>1, <3>2 DEF Versions
  <2> QED
    BY <2>1, <2>4 DEF Versions
<1> QED
  BY <1>1, <1>2, <1>3, <1>4, <1>5, <1>6, <1>7, <1>8, <1>9, <1>10, <1>11, <1>12, <1>13,
     StepCases

(* Ids named or kept are below the counters.                               *)
LEMMA IdsStep ==
    ASSUME Shapes, Shapes', Ids, [Next]_vars
    PROVE  Ids'
<1>1. CASE Tick
  BY <1>1 DEF Tick, store, users, Ids, IdsBelow, Committing
<1>2. CASE \E m \in ManifestType : Starts(m)
  <2>1. PICK m \in ManifestType : Starts(m)
    BY <1>2
  <2>2. \A i \in Keep(m) : i < m.next_id
    <3>1. \A i \in Keep(m) : i \in Keep(current) \/
          (i = next_id /\ m.next_id = next_id + 1)
      BY <2>1, KeepIff DEF Starts
    <3>2. current.next_id \in Nat /\ m.next_id \in Nat /\ next_id \in Nat /\
          \A i \in Keep(current) : i \in Nat
      BY ManifestFields, KeepIff DEF Shapes
    <3>3. current.next_id <= m.next_id
      BY <2>1 DEF Starts
    <3> QED
      BY <3>1, <3>2, <3>3 DEF Ids, IdsBelow
  <2>3. current.next_id \in Nat /\ disk.next_id \in Nat /\ next_id \in Nat /\
        next_id' \in Nat
    BY ManifestFields DEF Shapes
  <2>4. current.next_id <= next_id' /\ disk.next_id <= next_id'
    BY <2>1, <2>3 DEF Starts, Ids
  <2> QED
    BY <2>1, <2>2, <2>4 DEF Starts, Ids, IdsBelow, Committing
<1>3. CASE RenameStep
  <2>1. Keep(disk') = Keep(publish.next)
    BY <1>3 DEF RenameStep, Keep
  <2>2. Committing
    BY <1>3 DEF RenameStep, Committing, NoCommit, CommitType
  <2> QED
    BY <1>3, <2>1, <2>2 DEF RenameStep, Ids, IdsBelow, Committing
<1>4. CASE Moves
  <2>1. Committing
    BY <1>4 DEF Moves, Committing, NoCommit, CommitType
  <2> QED
    BY <1>4, <2>1 DEF Moves, Ids, IdsBelow, Committing
<1>5. CASE Swap
  <2>1. Committing
    BY <1>5 DEF Swap, Committing, NoCommit
  <2> QED
    BY <1>5, <2>1 DEF Swap, Ids, IdsBelow, Committing
<1>6. CASE PublishError
  BY <1>6 DEF PublishError, users, Ids, IdsBelow, Committing
<1>7. CASE ViewStep
  BY <1>7 DEF ViewStep, StoreSame, Ids, IdsBelow, Committing
<1>8. CASE \E r \in Readers : ReaderLoad(r)
  <2>1. PICK r \in Readers : ReaderLoad(r)
    BY <1>8
  <2> QED
    BY <2>1 DEF ReaderLoad, store, Ids, IdsBelow, Committing
<1>9. CASE GcQuiet
  BY <1>9 DEF GcQuiet, StoreSame, UsersSame, Ids, IdsBelow, Committing
<1>10. CASE \E c \in Collectors : ReadStep(c)
  <2>1. PICK c \in Collectors : ReadStep(c)
    BY <1>10
  <2> QED
    BY <2>1 DEF ReadStep, OnlyGc, StoreSame, UsersSame, Ids, IdsBelow, Committing
<1>11. CASE \E c \in Collectors : DoomStep(c)
  <2>1. PICK c \in Collectors : DoomStep(c)
    BY <1>11
  <2> QED
    BY <2>1 DEF DoomStep, OnlyGc, StoreSame, UsersSame, Ids, IdsBelow, Committing
<1>12. CASE \E c \in Collectors : RemoveStep(c)
  <2>1. PICK c \in Collectors : RemoveStep(c)
    BY <1>12
  <2> QED
    BY <2>1 DEF RemoveStep, OnlyGc, StoreSame, UsersSame, Ids, IdsBelow, Committing
<1>13. CASE Reopen
  <2>1. disk.next_id <= disk.next_id
    BY ManifestFields DEF Shapes
  <2> QED
    BY <1>13, <2>1 DEF Reopen, Ids, IdsBelow, Committing
<1> QED
  BY <1>1, <1>2, <1>3, <1>4, <1>5, <1>6, <1>7, <1>8, <1>9, <1>10, <1>11, <1>12, <1>13,
     StepCases

(* No manifest is of the future.                                           *)
LEMMA TimesStep ==
    ASSUME Shapes, Shapes', Ids, Times, [Next]_vars
    PROVE  Times'
<1>1. CASE Tick
  <2>1. clock' = clock + 1 /\ clock \in Nat /\
        UNCHANGED <<current, disk, publish, readers>>
    BY <1>1 DEF Tick, store, users, Shapes
  <2>2. \A m \in ManifestType : Past(m) => Past(m)'
    BY <2>1, ManifestFields DEF Past
  <2>3. \A r \in Readers : readers[r].at \in Nat /\ readers[r].at <= clock
    BY ManifestFields DEF Shapes, Times
  <2>4. \A r \in Readers : readers[r].at <= clock'
    BY <2>1, <2>3
  <2>5. current \in ManifestType /\ disk \in ManifestType /\
        (Committing => publish.next \in ManifestType)
    BY Uncommitted DEF Shapes
  <2>6. Past(current)' /\ Past(disk)' /\ (Committing => Past(publish.next)')
    BY <2>1, <2>2, <2>5 DEF Times
  <2> QED
    BY <2>1, <2>4, <2>6 DEF Times, Committing
<1>2. CASE \E m \in ManifestType : Starts(m)
  <2>1. PICK m \in ManifestType : Starts(m)
    BY <1>2
  <2>2. Past(m)'
    <3>1. m.at <= clock
      BY <2>1 DEF Starts, Shapes
    <3>2. \A g \in m.garbage : g.removed_at_version <= m.version
      <4> SUFFICES ASSUME NEW g \in m.garbage PROVE g.removed_at_version <= m.version
        OBVIOUS
      <4>1. m.version = current.version + 1 /\ current.version \in Nat /\
            g.removed_at_version \in Nat
        BY <2>1, ManifestFields DEF Starts, Shapes
      <4>2. CASE g \in current.garbage
        BY <4>1, <4>2 DEF Times, Past
      <4>3. CASE g.removed_at_version = m.version
        BY <4>1, <4>3
      <4> QED
        BY <2>1, <4>2, <4>3 DEF Starts
    <3> QED
      BY <2>1, <3>1, <3>2 DEF Starts, UsersSame, Past
  <2> QED
    BY <2>1, <2>2 DEF Starts, UsersSame, Times, Past, Committing
<1>3. CASE RenameStep
  <2>1. Committing
    BY <1>3 DEF RenameStep, Committing, NoCommit, CommitType
  <2>2. Past(disk)'
    BY <1>3, <2>1 DEF RenameStep, UsersSame, Times, Past, Shapes
  <2> QED
    BY <1>3, <2>1, <2>2 DEF RenameStep, UsersSame, Times, Past, Committing
<1>4. CASE Moves
  <2>1. Committing
    BY <1>4 DEF Moves, Committing, NoCommit, CommitType
  <2> QED
    BY <1>4, <2>1 DEF Moves, UsersSame, Times, Past, Committing
<1>5. CASE Swap
  <2>1. Committing
    BY <1>5 DEF Swap, Committing, NoCommit
  <2> QED
    BY <1>5, <2>1 DEF Swap, users, Times, Past, Committing
<1>6. CASE PublishError
  BY <1>6 DEF PublishError, users, Times, Past, Committing
<1>7. CASE ViewStep
  BY <1>7 DEF ViewStep, StoreSame, Times, Past, Committing
<1>8. CASE \E r \in Readers : ReaderLoad(r)
  <2>1. PICK r \in Readers : ReaderLoad(r)
    BY <1>8
  <2>2. readers' = [readers EXCEPT ![r] = disk] /\
        UNCHANGED <<clock, current, disk, publish>>
    BY <2>1 DEF ReaderLoad, store
  <2>3. \A e \in Readers : readers'[e].at <= clock
    BY <2>2 DEF Shapes, Times, Past
  <2> QED
    BY <2>2, <2>3 DEF Times, Past, Committing
<1>9. CASE GcQuiet
  BY <1>9 DEF GcQuiet, StoreSame, UsersSame, Times, Past, Committing
<1>10. CASE \E c \in Collectors : ReadStep(c)
  <2>1. PICK c \in Collectors : ReadStep(c)
    BY <1>10
  <2> QED
    BY <2>1 DEF ReadStep, OnlyGc, StoreSame, UsersSame, Times, Past, Committing
<1>11. CASE \E c \in Collectors : DoomStep(c)
  <2>1. PICK c \in Collectors : DoomStep(c)
    BY <1>11
  <2> QED
    BY <2>1 DEF DoomStep, OnlyGc, StoreSame, UsersSame, Times, Past, Committing
<1>12. CASE \E c \in Collectors : RemoveStep(c)
  <2>1. PICK c \in Collectors : RemoveStep(c)
    BY <1>12
  <2> QED
    BY <2>1 DEF RemoveStep, OnlyGc, StoreSame, UsersSame, Times, Past, Committing
<1>13. CASE Reopen
  BY <1>13 DEF Reopen, Times, Past, Committing
<1> QED
  BY <1>1, <1>2, <1>3, <1>4, <1>5, <1>6, <1>7, <1>8, <1>9, <1>10, <1>11, <1>12, <1>13,
     StepCases

(* A step in which versions and counters only grow.                        *)
LEMMA GcReadsSame ==
    ASSUME Shapes, Shapes', GcReads, clock <= clock',
           current.version <= current'.version, next_id <= next_id',
           \A c \in Collectors : gc'[c] = gc[c] \/ gc'[c].pc = "idle" \/
             (gc'[c].pc = "manifest" /\ gc'[c].now = clock)
    PROVE  GcReads'
<1>1. clock \in Nat /\ clock' \in Nat /\ current.version \in Nat /\
      current'.version \in Nat /\ next_id \in Nat /\ next_id' \in Nat
  BY ManifestFields DEF Shapes
<1> SUFFICES ASSUME NEW c \in Collectors PROVE GcRead(c)'
  BY DEF GcReads
<1>2. CASE gc'[c] = gc[c]
  <2>1. GcRead(c)
    BY DEF GcReads
  <2>2. /\ gc[c].pc \in {"manifest", "live"} => gc[c].now \in Nat
        /\ gc[c].pc = "live" => gc[c].m \in ManifestType
    BY GcFields
  <2>3. gc[c].pc \in {"manifest", "live"} => gc[c].now <= clock'
    BY <1>1, <2>1, <2>2 DEF GcRead
  <2>4. ASSUME gc[c].pc = "live"
        PROVE  gc[c].m.version <= current'.version /\ gc[c].m.at <= clock' /\
               \A i \in Keep(gc[c].m) : i < next_id'
    <3>1. gc[c].m.version \in Nat /\ gc[c].m.at \in Nat /\ \A i \in Keep(gc[c].m) :
          i \in Nat
      BY <2>2, <2>4, ManifestFields, KeepIff
    <3>2. gc[c].m.version <= current.version /\ gc[c].m.at <= clock /\
          \A i \in Keep(gc[c].m) : i < next_id
      BY <2>1, <2>4 DEF GcRead, Past, IdsBelow
    <3> QED
      BY <1>1, <3>1, <3>2
  <2> QED
    BY <1>2, <2>1, <2>3, <2>4 DEF GcRead, Past, IdsBelow
<1>3. CASE gc'[c].pc = "idle" \/ (gc'[c].pc = "manifest" /\ gc'[c].now = clock)
  BY <1>1, <1>3 DEF GcRead
<1> QED
  BY <1>2, <1>3

(* A gc call has read a manifest of the past.                              *)
LEMMA GcReadsStep ==
    ASSUME Shapes, Shapes', Versions, Ids, Times, GcReads, [Next]_vars
    PROVE  GcReads'
<1>1. CASE Tick
  <2>1. clock' = clock + 1 /\ clock \in Nat /\ UNCHANGED <<current, next_id, gc>>
    BY <1>1 DEF Tick, store, Shapes
  <2>2. clock <= clock' /\ current.version <= current'.version /\ next_id <= next_id'
    BY <2>1, ManifestFields DEF Shapes
  <2> QED
    BY <2>1, <2>2, GcReadsSame
<1>2. CASE \E m \in ManifestType : Starts(m)
  <2>1. PICK m \in ManifestType : Starts(m)
    BY <1>2
  <2>2. clock' = clock /\ current' = current /\ next_id <= next_id' /\
        \A c \in Collectors : gc'[c] = gc[c] \/ gc'[c].pc = "idle"
    BY <2>1 DEF Starts, UsersSame
  <2>3. clock <= clock' /\ current.version <= current'.version
    BY <2>2, ManifestFields DEF Shapes
  <2> QED
    BY <2>2, <2>3, GcReadsSame
<1>3. CASE RenameStep
  <2>1. /\ UNCHANGED <<clock, current, next_id>>
        /\ \A c \in Collectors : gc'[c] = gc[c] \/ gc'[c].pc = "idle" \/
             (gc'[c].pc = "manifest" /\ gc'[c].now = clock)
    BY <1>3 DEF RenameStep, UsersSame
  <2>2. clock <= clock' /\ current.version <= current'.version /\ next_id <= next_id'
    BY <2>1, ManifestFields DEF Shapes
  <2> QED
    BY <2>1, <2>2, GcReadsSame
<1>4. CASE Moves
  <2>1. /\ UNCHANGED <<clock, current, next_id>>
        /\ \A c \in Collectors : gc'[c] = gc[c] \/ gc'[c].pc = "idle" \/
             (gc'[c].pc = "manifest" /\ gc'[c].now = clock)
    BY <1>4 DEF Moves, UsersSame
  <2>2. clock <= clock' /\ current.version <= current'.version /\ next_id <= next_id'
    BY <2>1, ManifestFields DEF Shapes
  <2> QED
    BY <2>1, <2>2, GcReadsSame
<1>5. CASE Swap
  <2>1. Committing /\ current' = publish.next /\ UNCHANGED <<clock, next_id, gc>>
    BY <1>5 DEF Swap, Committing, NoCommit
  <2>2. clock <= clock' /\ current.version <= current'.version /\ next_id <= next_id'
    BY <2>1, ManifestFields DEF Shapes, Versions
  <2> QED
    BY <2>1, <2>2, GcReadsSame
<1>6. CASE PublishError
  <2>1. /\ UNCHANGED <<clock, current, next_id>>
        /\ \A c \in Collectors : gc'[c] = gc[c] \/ gc'[c].pc = "idle" \/
             (gc'[c].pc = "manifest" /\ gc'[c].now = clock)
    BY <1>6 DEF PublishError, users
  <2>2. clock <= clock' /\ current.version <= current'.version /\ next_id <= next_id'
    BY <2>1, ManifestFields DEF Shapes
  <2> QED
    BY <2>1, <2>2, GcReadsSame
<1>7. CASE ViewStep
  <2>1. /\ UNCHANGED <<clock, current, next_id>>
        /\ \A c \in Collectors : gc'[c] = gc[c] \/ gc'[c].pc = "idle" \/
             (gc'[c].pc = "manifest" /\ gc'[c].now = clock)
    BY <1>7 DEF ViewStep, StoreSame
  <2>2. clock <= clock' /\ current.version <= current'.version /\ next_id <= next_id'
    BY <2>1, ManifestFields DEF Shapes
  <2> QED
    BY <2>1, <2>2, GcReadsSame
<1>8. CASE \E r \in Readers : ReaderLoad(r)
  <2>1. PICK r \in Readers : ReaderLoad(r)
    BY <1>8
  <2>2. UNCHANGED <<clock, current, next_id, gc>>
    BY <2>1 DEF ReaderLoad, store
  <2>3. clock <= clock' /\ current.version <= current'.version /\ next_id <= next_id'
    BY <2>2, ManifestFields DEF Shapes
  <2> QED
    BY <2>2, <2>3, GcReadsSame
<1>9. CASE GcQuiet
  <2>1. /\ UNCHANGED <<clock, current, next_id>>
        /\ \A c \in Collectors : gc'[c] = gc[c] \/ gc'[c].pc = "idle" \/
             (gc'[c].pc = "manifest" /\ gc'[c].now = clock)
    BY <1>9 DEF GcQuiet, StoreSame, UsersSame
  <2>2. clock <= clock' /\ current.version <= current'.version /\ next_id <= next_id'
    BY <2>1, ManifestFields DEF Shapes
  <2> QED
    BY <2>1, <2>2, GcReadsSame
<1>10. CASE \E c \in Collectors : ReadStep(c)
  <2>1. PICK c \in Collectors : ReadStep(c)
    BY <1>10
  <2>2. UNCHANGED <<clock, current, next_id>> /\ \A e \in Collectors :
        e # c => gc'[e] = gc[e]
    BY <2>1 DEF ReadStep, OnlyGc, StoreSame, UsersSame
  <2>4. GcRead(c)'
    <3>1. /\ gc'[c].pc = "live" /\ gc'[c].now = gc[c].now /\ gc'[c].m = current /\
               gc[c].pc = "manifest"
      BY <2>1 DEF ReadStep
    <3>2. current.version <= current.version /\ IdsBelow(current, next_id) /\
          Past(current)
      <4>1. /\ current.version \in Nat /\ current.next_id \in Nat /\ next_id \in Nat
            /\ current.next_id <= next_id /\ \A i \in Keep(current) :
                 i \in Nat /\ i < current.next_id
        BY ManifestFields, KeepIff DEF Shapes, Ids, IdsBelow
      <4> QED
        BY <4>1 DEF IdsBelow, Times
    <3> QED
      BY <2>2, <3>1, <3>2 DEF GcReads, GcRead, Past, IdsBelow
  <2>3. \A e \in Collectors : e # c => GcRead(e)'
    BY <2>2 DEF GcReads, GcRead, Past, IdsBelow
  <2> QED
    BY <2>3, <2>4 DEF GcReads
<1>11. CASE \E c \in Collectors : DoomStep(c)
  <2>1. PICK c \in Collectors : DoomStep(c)
    BY <1>11
  <2>2. UNCHANGED <<clock, current, next_id>> /\ \A e \in Collectors :
        e # c => gc'[e] = gc[e]
    BY <2>1 DEF DoomStep, OnlyGc, StoreSame, UsersSame
  <2>4. GcRead(c)'
    BY <2>1 DEF DoomStep, GcRead
  <2>3. \A e \in Collectors : e # c => GcRead(e)'
    BY <2>2 DEF GcReads, GcRead, Past, IdsBelow
  <2> QED
    BY <2>3, <2>4 DEF GcReads
<1>12. CASE \E c \in Collectors : RemoveStep(c)
  <2>1. PICK c \in Collectors : RemoveStep(c)
    BY <1>12
  <2>2. UNCHANGED <<clock, current, next_id>> /\ \A e \in Collectors :
        e # c => gc'[e] = gc[e]
    BY <2>1 DEF RemoveStep, OnlyGc, StoreSame, UsersSame
  <2>4. GcRead(c)'
    BY <2>1 DEF RemoveStep, GcRead
  <2>3. \A e \in Collectors : e # c => GcRead(e)'
    BY <2>2 DEF GcReads, GcRead, Past, IdsBelow
  <2> QED
    BY <2>3, <2>4 DEF GcReads
<1>13. CASE Reopen
  <2>1. \A c \in Collectors : gc'[c].pc = "idle"
    BY <1>13 DEF Reopen, IdleGc
  <2> QED
    BY <2>1 DEF GcReads, GcRead
<1> QED
  BY <1>1, <1>2, <1>3, <1>4, <1>5, <1>6, <1>7, <1>8, <1>9, <1>10, <1>11, <1>12, <1>13,
     StepCases

-----------------------------------------------------------------------------
(* Layer 2 holds.                                                          *)

(* There is no garbage yet.                                                *)
LEMMA GarbageInit == Init => Garbage
<1> SUFFICES ASSUME Init PROVE Garbage
  OBVIOUS
<1>1. /\ publish = NoCommit /\ disk = EmptyManifest /\ current = EmptyManifest /\
           links = {}
      /\ \A c \in Collectors : gc[c].pc = "idle"
  BY DEF Init, IdleGc
<1>2. EmptyManifest.garbage = {}
  BY DEF EmptyManifest
<1> QED
  BY <1>1, <1>2 DEF Garbage, GoneFrom, Gone, Committing

(* A step that changes no manifest, and no gc call comes to hold one.      *)
LEMMA GarbageSame ==
    ASSUME Garbage, StoreSame, \A c \in Collectors :
           gc'[c] = gc[c] \/ gc'[c].pc # "live"
    PROVE  Garbage'
BY DEF StoreSame, Garbage, GoneFrom, Gone, Committing

(* What is garbage is not named again.                                     *)
LEMMA GarbageStep ==
    ASSUME Shapes, Versions, Ids, Times, GcReads, Garbage, [Next]_vars
    PROVE  Garbage'
<1>1. CASE Tick
  <2>1. StoreSame /\ \A c \in Collectors : gc'[c] = gc[c]
    BY <1>1 DEF Tick, StoreSame, store
  <2> QED
    BY <2>1, GarbageSame
<1>2. CASE \E m \in ManifestType : Starts(m)
  <2>1. PICK m \in ManifestType : Starts(m)
    BY <1>2
  <2>2. /\ ~Committing /\ Committing' /\ publish'.next = m /\
             UNCHANGED <<current, disk, links>>
        /\ \A c \in Collectors : gc'[c] = gc[c] \/ gc'[c].pc = "idle"
    BY <2>1 DEF Starts, Committing
  <2>3. /\ m.version = current.version + 1 /\ current.version \in Nat /\ next_id \in Nat
        /\ \A l \in links : l.version \in Nat /\ l.version <= current.version
    BY <2>1, <2>2, Uncommitted, ManifestFields DEF Starts, Versions, Shapes
  <2>4. ASSUME NEW n \in ManifestType, n.version <= current.version, Past(n),
               IdsBelow(n, next_id), GoneFrom(n),
               NEW g \in n.garbage
        PROVE  g.id \notin m.named
    <3>1. g.removed_at_version <= n.version /\ g.removed_at_version \in Nat /\
          n.version \in Nat
          /\ g.id \in Nat /\ g.id < next_id
      BY <2>4, KeepIff, ManifestFields DEF Past, IdsBelow
    <3>2. g.removed_at_version <= current.version
      BY <2>3, <2>4, <3>1
    <3>3. g.id \notin current.named
      BY <2>4, <3>2 DEF GoneFrom, Gone
    <3>4. g.id # next_id
      BY <2>3, <3>1
    <3> QED
      BY <2>1, <3>3, <3>4 DEF Starts
  <2>5. \A g \in current.garbage : g.id \notin m.named
    <3>1. current \in ManifestType /\ current.version <= current.version /\
          Past(current) /\ GoneFrom(current)
      BY <2>3 DEF Shapes, Times, Garbage
    <3>2. IdsBelow(current, next_id)
      <4>1. /\ current.next_id \in Nat /\ next_id \in Nat /\ current.next_id <= next_id
            /\ \A i \in Keep(current) : i \in Nat /\ i < current.next_id
        BY ManifestFields, KeepIff DEF Shapes, Ids, IdsBelow
      <4> QED
        BY <4>1 DEF IdsBelow
    <3> QED
      BY <2>4, <3>1, <3>2
  <2>6. GoneFrom(current)'
    BY <2>2, <2>5 DEF Garbage, GoneFrom, Gone
  <2>7. Gone(m, m)
    BY <2>1, <2>5 DEF Starts, Gone
  <2>8. \A l \in links : Gone(m, l)
    <3> SUFFICES ASSUME NEW l \in links, NEW g \in m.garbage,
                        g.removed_at_version <= l.version
                 PROVE  g.id \notin l.named
      BY DEF Gone
    <3>1. CASE g \in current.garbage
      BY <3>1 DEF Garbage, GoneFrom, Gone
    <3>2. CASE g.removed_at_version = m.version
      BY <2>3, <3>2
    <3> QED
      BY <2>1, <3>1, <3>2 DEF Starts
  <2>9. ASSUME NEW c \in Collectors, gc'[c].pc = "live" PROVE GoneFrom(gc[c].m)' /\
               gc'[c] = gc[c]
    <3>1. gc'[c] = gc[c] /\ gc[c].pc = "live"
      BY <2>2, <2>9
    <3>2. /\ gc[c].m \in ManifestType /\ gc[c].m.version <= current.version /\
               Past(gc[c].m)
          /\ IdsBelow(gc[c].m, next_id) /\ GoneFrom(gc[c].m)
      BY <3>1, GcFields DEF GcReads, GcRead, Garbage
    <3>3. \A g \in gc[c].m.garbage : g.id \notin m.named
      BY <2>4, <3>2
    <3> QED
      BY <2>2, <3>1, <3>2, <3>3 DEF GoneFrom, Gone
  <2> QED
    BY <2>2, <2>6, <2>7, <2>8, <2>9 DEF Garbage, Gone, GoneFrom
<1>3. CASE RenameStep
  <2>1. /\ Committing /\ Committing' /\ publish'.next = disk' /\
             disk'.version = publish.next.version
        /\ disk'.named = publish.next.named /\ disk'.garbage = publish.next.garbage
        /\ UNCHANGED <<current, links, gc>>
    BY <1>3 DEF RenameStep, Committing, NoCommit, CommitType
  <2> QED
    BY <2>1 DEF Garbage, GoneFrom, Gone
<1>4. CASE Moves
  <2>1. /\ Committing /\ Renamed /\ Committing' /\ publish'.next = publish.next
        /\ links' \subseteq links \union {publish.next} /\
             UNCHANGED <<current, disk, gc>>
    BY <1>4 DEF Moves, Committing, Renamed, NoCommit, CommitType
  <2>2. disk = publish.next
    BY <2>1 DEF Versions
  <2> QED
    BY <2>1, <2>2 DEF Garbage, GoneFrom, Gone
<1>5. CASE Swap
  <2>1. /\ Committing /\ Renamed /\ ~Committing' /\ current' = publish.next /\
             UNCHANGED <<disk, links, gc>>
    BY <1>5 DEF Swap, Committing, Renamed, NoCommit
  <2>2. disk = publish.next
    BY <2>1 DEF Versions
  <2> QED
    BY <2>1, <2>2 DEF Garbage, GoneFrom, Gone
<1>6. CASE PublishError
  <2>1. ~Committing' /\ UNCHANGED <<current, disk, links, gc>>
    BY <1>6 DEF PublishError, Committing
  <2> QED
    BY <2>1 DEF Garbage, GoneFrom, Gone
<1>7. CASE ViewStep
  <2>1. StoreSame /\ \A c \in Collectors : gc'[c] = gc[c]
    BY <1>7 DEF ViewStep
  <2> QED
    BY <2>1, GarbageSame
<1>8. CASE \E r \in Readers : ReaderLoad(r)
  <2>1. PICK r \in Readers : ReaderLoad(r)
    BY <1>8
  <2>2. StoreSame /\ \A c \in Collectors : gc'[c] = gc[c]
    BY <2>1 DEF ReaderLoad, StoreSame, store
  <2> QED
    BY <2>2, GarbageSame
<1>9. CASE GcQuiet
  <2>1. StoreSame /\ \A c \in Collectors : gc'[c] = gc[c] \/ gc'[c].pc # "live"
    BY <1>9 DEF GcQuiet
  <2> QED
    BY <2>1, GarbageSame
<1>10. CASE \E c \in Collectors : ReadStep(c)
  <2>1. PICK c \in Collectors : ReadStep(c)
    BY <1>10
  <2>2. /\ StoreSame /\ gc'[c].m = current
        /\ \A e \in Collectors : e # c => gc'[e] = gc[e]
    BY <2>1 DEF ReadStep, OnlyGc
  <2> QED
    BY <2>2 DEF StoreSame, Garbage, GoneFrom, Gone, Committing
<1>11. CASE \E c \in Collectors : DoomStep(c)
  <2>1. PICK c \in Collectors : DoomStep(c)
    BY <1>11
  <2>2. StoreSame /\ \A e \in Collectors : gc'[e] = gc[e] \/ gc'[e].pc # "live"
    BY <2>1 DEF DoomStep, OnlyGc
  <2> QED
    BY <2>2, GarbageSame
<1>12. CASE \E c \in Collectors : RemoveStep(c)
  <2>1. PICK c \in Collectors : RemoveStep(c)
    BY <1>12
  <2>2. StoreSame /\ \A e \in Collectors : gc'[e] = gc[e] \/ gc'[e].pc # "live"
    BY <2>1 DEF RemoveStep, OnlyGc
  <2> QED
    BY <2>2, GarbageSame
<1>13. CASE Reopen
  <2>1. /\ ~Committing' /\ current' = disk /\ UNCHANGED <<disk, links>>
        /\ \A c \in Collectors : gc'[c].pc = "idle"
    BY <1>13 DEF Reopen, Committing, IdleGc
  <2> QED
    BY <2>1 DEF Garbage, GoneFrom, Gone
<1> QED
  BY <1>1, <1>2, <1>3, <1>4, <1>5, <1>6, <1>7, <1>8, <1>9, <1>10, <1>11, <1>12, <1>13,
     StepCases

-----------------------------------------------------------------------------
(* Layer 3 holds.                                                          *)

(* There is no garbage yet.                                                *)
LEMMA AgesInit == Init => Ages
<1> SUFFICES ASSUME Init PROVE Ages
  OBVIOUS
<1>1. /\ publish = NoCommit /\ disk = EmptyManifest /\ current = EmptyManifest
      /\ \A c \in Collectors : gc[c].pc = "idle"
  BY DEF Init, IdleGc
<1>2. EmptyManifest.garbage = {}
  BY DEF EmptyManifest
<1> QED
  BY <1>1, <1>2 DEF Ages, OlderAll, Older, Committing

(* A later manifest names none of it.                                      *)
LEMMA LaterNamesNone ==
    ASSUME NEW m \in ManifestType, NEW n \in ManifestType, Past(m), Gone(m, n),
           m.version <= n.version
    PROVE  \A g \in m.garbage : g.id \notin n.named
BY ManifestFields DEF Past, Gone

(* A step in which gc's manifests and everyone's are among those before.   *)
LEMMA AgesSame ==
    ASSUME Ages, phantoms \subseteq phantoms', disk' = disk,
           current' \in {current, disk},
           Committing' => Committing /\ publish'.next = publish.next,
           \A r \in Readers : readers'[r] \in {readers[r], disk},
           \A c \in Collectors : gc'[c] = gc[c] \/ gc'[c].pc # "live" \/
             gc'[c].m = current
    PROVE  Ages'
<1>1. ASSUME NEW n, OlderAll(n)
      PROVE  /\ Older(current', n) /\ Older(disk', n) /\
                  (Committing' => Older(publish'.next, n))
             /\ \A c \in Collectors : gc'[c].pc = "live" => Older(gc'[c].m, n)
  BY <1>1 DEF OlderAll
<1>2. disk' \notin phantoms' => disk \notin phantoms
  OBVIOUS
<1>3. \A r \in Readers : readers'[r] \notin phantoms' => OlderAll(readers'[r])
  BY DEF Ages
<1> QED
  BY <1>1, <1>2, <1>3 DEF Ages, OlderAll, Older

(* Garbage is not older than a manifest that names it.                     *)
LEMMA AgesStep ==
    ASSUME Shapes, Versions, Ids, Times, GcReads, Garbage, Ages, [Next]_vars
    PROVE  Ages'
<1>1. CASE Tick
  <2>1. /\ phantoms \subseteq phantoms' /\ disk' = disk /\ current' \in {current, disk}
        /\ Committing' => Committing /\ publish'.next = publish.next
        /\ \A r \in Readers : readers'[r] \in {readers[r], disk}
        /\ \A c \in Collectors : gc'[c] = gc[c] \/ gc'[c].pc # "live" \/
             gc'[c].m = current
    BY <1>1 DEF Tick, store, users, Committing
  <2> QED
    BY <2>1, AgesSame
<1>2. CASE \E m \in ManifestType : Starts(m)
  <2>1. PICK m \in ManifestType : Starts(m)
    BY <1>2
  <2>2. /\ ~Committing /\ Committing' /\ publish'.next = m /\
             UNCHANGED <<current, disk, readers, phantoms>>
        /\ \A c \in Collectors : gc'[c] = gc[c] \/ gc'[c].pc = "idle"
    BY <2>1 DEF Starts, UsersSame, Committing
  <2>3. ASSUME NEW n, n.at <= clock, OlderAll(n)
        PROVE  OlderAll(n)'
    <3>1. Older(m, n)
      BY <2>1, <2>3 DEF Starts, OlderAll, Older
    <3>2. /\ Older(current', n) /\ Older(disk', n)
          /\ \A c \in Collectors : gc'[c].pc = "live" => Older(gc'[c].m, n)
      BY <2>2, <2>3 DEF OlderAll
    <3> QED
      BY <2>2, <3>1, <3>2 DEF OlderAll, Older
  <2>4. disk \notin phantoms => OlderAll(disk)'
    <3>1. disk.at <= clock
      BY DEF Times, Past
    <3> QED
      BY <2>2, <2>3, <3>1 DEF Ages, OlderAll, Older
  <2>5. ASSUME NEW r \in Readers, readers[r] \notin phantoms PROVE OlderAll(readers[r])'
    <3>1. readers[r].at <= clock
      BY DEF Times
    <3> QED
      BY <2>2, <2>3, <2>5, <3>1 DEF Ages, OlderAll, Older
  <2> QED
    BY <2>2, <2>4, <2>5 DEF Ages
<1>3. CASE RenameStep
  <2>1. /\ Committing /\ Committing' /\ publish'.next = disk' /\
             disk'.version = publish.next.version
        /\ disk'.named = publish.next.named /\ disk'.garbage = publish.next.garbage /\
             disk' \in ManifestType
        /\ UNCHANGED <<current, links, gc, readers, phantoms>>
    BY <1>3 DEF RenameStep, UsersSame, Committing, NoCommit, CommitType
  <2>2. current.version <= publish.next.version /\ publish.next \in ManifestType /\
        publish.next.version <= publish.next.version
        /\ current.version \in Nat /\ publish.next.version \in Nat /\
             publish.next.version = current.version + 1
    BY <2>1, Uncommitted, ManifestFields DEF Versions, Shapes
  <2>3. \A g \in current.garbage : g.id \notin publish.next.named
    BY <2>1, <2>2, LaterNamesNone DEF Shapes, Times, Garbage, GoneFrom
  <2>4. \A g \in publish.next.garbage : g.id \notin publish.next.named
    BY <2>1, <2>2, LaterNamesNone DEF Shapes, Times, Garbage, GoneFrom
  <2>5. ASSUME NEW c \in Collectors, gc[c].pc = "live"
        PROVE  \A g \in gc[c].m.garbage : g.id \notin publish.next.named
    <3>1. gc[c].m \in ManifestType /\ gc[c].m.version <= current.version /\
          Past(gc[c].m) /\ Gone(gc[c].m, publish.next)
      BY <2>1, <2>5, GcFields DEF GcReads, GcRead, Garbage, GoneFrom
    <3>2. gc[c].m.version <= publish.next.version
      BY <2>2, <3>1, ManifestFields
    <3> QED
      BY <2>2, <3>1, <3>2, LaterNamesNone
  <2>6. OlderAll(disk)'
    BY <2>1, <2>3, <2>4, <2>5 DEF OlderAll, Older
  <2>7. ASSUME NEW n, OlderAll(n)
        PROVE  /\ Older(current', n) /\ Older(disk', n) /\ Older(publish'.next, n)
               /\ \A c \in Collectors : gc'[c].pc = "live" => Older(gc'[c].m, n)
    BY <2>1, <2>7 DEF OlderAll, Older
  <2>8. \A r \in Readers : readers[r] \notin phantoms => OlderAll(readers[r])
    BY DEF Ages
  <2> QED
    BY <2>1, <2>6, <2>7, <2>8 DEF Ages, OlderAll, Older
<1>4. CASE Moves
  <2>1. /\ phantoms \subseteq phantoms' /\ disk' = disk /\ current' \in {current, disk}
        /\ Committing' => Committing /\ publish'.next = publish.next
        /\ \A r \in Readers : readers'[r] \in {readers[r], disk}
        /\ \A c \in Collectors : gc'[c] = gc[c] \/ gc'[c].pc # "live" \/
             gc'[c].m = current
    BY <1>4 DEF Moves, UsersSame, NoCommit, CommitType, Committing
  <2> QED
    BY <2>1, AgesSame
<1>5. CASE Swap
  <2>1. /\ Committing /\ Renamed /\ current' = publish.next /\
             UNCHANGED <<disk, phantoms, gc, readers>> /\ ~Committing'
    BY <1>5 DEF Swap, users, Committing, Renamed, NoCommit
  <2>2. current' \in {current, disk}
    BY <2>1 DEF Versions
  <2> QED
    BY <2>1, <2>2, AgesSame
<1>6. CASE PublishError
  <2>1. /\ phantoms \subseteq phantoms' /\ disk' = disk /\ current' \in {current, disk}
        /\ Committing' => Committing /\ publish'.next = publish.next
        /\ \A r \in Readers : readers'[r] \in {readers[r], disk}
        /\ \A c \in Collectors : gc'[c] = gc[c] \/ gc'[c].pc # "live" \/
             gc'[c].m = current
    BY <1>6 DEF PublishError, users, Committing
  <2> QED
    BY <2>1, AgesSame
<1>7. CASE ViewStep
  <2>1. /\ phantoms \subseteq phantoms' /\ disk' = disk /\ current' \in {current, disk}
        /\ Committing' => Committing /\ publish'.next = publish.next
        /\ \A r \in Readers : readers'[r] \in {readers[r], disk}
        /\ \A c \in Collectors : gc'[c] = gc[c] \/ gc'[c].pc # "live" \/
             gc'[c].m = current
    BY <1>7 DEF ViewStep, StoreSame, Committing
  <2> QED
    BY <2>1, AgesSame
<1>8. CASE \E r \in Readers : ReaderLoad(r)
  <2>1. PICK r \in Readers : ReaderLoad(r)
    BY <1>8
  <2>2. /\ phantoms \subseteq phantoms' /\ disk' = disk /\ current' \in {current, disk}
        /\ Committing' => Committing /\ publish'.next = publish.next
        /\ \A e \in Readers : readers'[e] \in {readers[e], disk}
        /\ \A c \in Collectors : gc'[c] = gc[c] \/ gc'[c].pc # "live" \/
             gc'[c].m = current
    BY <2>1 DEF ReaderLoad, store, Shapes, Committing
  <2> QED
    BY <2>2, AgesSame
<1>9. CASE GcQuiet
  <2>1. /\ phantoms \subseteq phantoms' /\ disk' = disk /\ current' \in {current, disk}
        /\ Committing' => Committing /\ publish'.next = publish.next
        /\ \A r \in Readers : readers'[r] \in {readers[r], disk}
        /\ \A c \in Collectors : gc'[c] = gc[c] \/ gc'[c].pc # "live" \/
             gc'[c].m = current
    BY <1>9 DEF GcQuiet, StoreSame, UsersSame, Committing
  <2> QED
    BY <2>1, AgesSame
<1>10. CASE \E c \in Collectors : ReadStep(c)
  <2>1. PICK c \in Collectors : ReadStep(c)
    BY <1>10
  <2>2. /\ phantoms \subseteq phantoms' /\ disk' = disk /\ current' \in {current, disk}
        /\ Committing' => Committing /\ publish'.next = publish.next
        /\ \A r \in Readers : readers'[r] \in {readers[r], disk}
        /\ \A e \in Collectors : gc'[e] = gc[e] \/ gc'[e].pc # "live" \/
             gc'[e].m = current
    BY <2>1 DEF ReadStep, OnlyGc, StoreSame, UsersSame, Committing
  <2> QED
    BY <2>2, AgesSame
<1>11. CASE \E c \in Collectors : DoomStep(c)
  <2>1. PICK c \in Collectors : DoomStep(c)
    BY <1>11
  <2>2. /\ phantoms \subseteq phantoms' /\ disk' = disk /\ current' \in {current, disk}
        /\ Committing' => Committing /\ publish'.next = publish.next
        /\ \A r \in Readers : readers'[r] \in {readers[r], disk}
        /\ \A e \in Collectors : gc'[e] = gc[e] \/ gc'[e].pc # "live" \/
             gc'[e].m = current
    BY <2>1 DEF DoomStep, OnlyGc, StoreSame, UsersSame, Committing
  <2> QED
    BY <2>2, AgesSame
<1>12. CASE \E c \in Collectors : RemoveStep(c)
  <2>1. PICK c \in Collectors : RemoveStep(c)
    BY <1>12
  <2>2. /\ phantoms \subseteq phantoms' /\ disk' = disk /\ current' \in {current, disk}
        /\ Committing' => Committing /\ publish'.next = publish.next
        /\ \A r \in Readers : readers'[r] \in {readers[r], disk}
        /\ \A e \in Collectors : gc'[e] = gc[e] \/ gc'[e].pc # "live" \/
             gc'[e].m = current
    BY <2>1 DEF RemoveStep, OnlyGc, StoreSame, UsersSame, Committing
  <2> QED
    BY <2>2, AgesSame
<1>13. CASE Reopen
  <2>1. /\ phantoms \subseteq phantoms' /\ disk' = disk /\ current' \in {current, disk}
        /\ Committing' => Committing /\ publish'.next = publish.next
        /\ \A r \in Readers : readers'[r] \in {readers[r], disk}
        /\ \A c \in Collectors : gc'[c] = gc[c] \/ gc'[c].pc # "live" \/
             gc'[c].m = current
    BY <1>13 DEF Reopen, IdleGc, Committing
  <2> QED
    BY <2>1, AgesSame
<1> QED
  BY <1>1, <1>2, <1>3, <1>4, <1>5, <1>6, <1>7, <1>8, <1>9, <1>10, <1>11, <1>12, <1>13,
     StepCases

-----------------------------------------------------------------------------
(* Layer 4 holds.                                                          *)

(* No gc has run yet.                                                      *)
LEMMA CollectedInit == Init => Collected
BY DEF Init, IdleGc, Collected

(* Readers grow old, and a failed commit makes phantoms, never the other   *)
(* way round.                                                              *)
LEMMA YoungBefore ==
    ASSUME Shapes, Shapes', NEW r \in Readers, Young(r)', readers'[r] = readers[r],
           phantoms \subseteq phantoms', clock <= clock'
    PROVE  Young(r)
<1>1. readers[r].at \in Nat /\ clock \in Nat /\ clock' \in Nat /\ Grace \in Nat
  BY RetentionAssumption, ManifestFields DEF Shapes
<1>2. clock' < readers[r].at + Grace
  BY DEF Young
<1>3. clock < readers[r].at + Grace
  BY <1>1, <1>2
<1> QED
  BY <1>3 DEF Young

(* What is dead stays dead as long as the process lives.                   *)
LEMMA DeadSame ==
    ASSUME Shapes, Shapes', NEW i \in Nat, Dead(i), phantoms \subseteq phantoms',
           clock <= clock', next_id <= next_id',
           i \notin current'.named, i \notin disk'.named, Committing' =>
             i \notin publish'.next.named,
           current.version <= current'.version,
           \A l \in links' : l \in links \/ i \notin l.named,
           \A v \in Viewers : views'[v] = views[v] \/ (views'[v].retained =>
             i \notin views'[v].named),
           \A r \in Readers : readers'[r] = readers[r] \/ i \notin readers'[r].named
    PROVE  Dead(i)'
<1>1. /\ i < next_id /\ \A l \in links : InWindow(l) => i \notin l.named
      /\ \A v \in Viewers : views[v].retained => i \notin views[v].named
      /\ \A r \in Readers : Young(r) => i \notin readers[r].named
  BY DEF Dead
<1>2. i < next_id'
  BY <1>1 DEF Shapes
<1>3. \A l \in links' : InWindow(l)' => i \notin l.named
  <2> SUFFICES ASSUME NEW l \in links', InWindow(l)', l \in links PROVE i \notin l.named
    OBVIOUS
  <2>1. current.version \in Nat /\ current'.version \in Nat /\ l.version \in Nat /\
        Retain \in Nat
    BY RetentionAssumption, ManifestFields DEF Shapes
  <2>2. InWindow(l)
    BY <2>1 DEF InWindow
  <2> QED
    BY <1>1, <2>2
<1>4. \A v \in Viewers : views'[v].retained => i \notin views'[v].named
  BY <1>1
<1>5. \A r \in Readers : Young(r)' => i \notin readers'[r].named
  BY <1>1, YoungBefore
<1> QED
  BY <1>2, <1>3, <1>4, <1>5 DEF Dead

(* What is dead stays dead, short of an open.                              *)
LEMMA DeadStep ==
    ASSUME Shapes, Shapes', Versions, Ids, NEW i \in Nat, Dead(i), ~Reopen, [Next]_vars
    PROVE  Dead(i)'
<1>1. CASE Tick
  <2>1. phantoms \subseteq phantoms' /\ clock <= clock' /\ next_id <= next_id' /\
        current.version <= current'.version
    BY <1>1, ManifestFields DEF Tick, store, users, Shapes
  <2>2. /\ i \notin current'.named /\ i \notin disk'.named /\
             (Committing' => i \notin publish'.next.named)
        /\ \A l \in links' : l \in links \/ i \notin l.named
    BY <1>1 DEF Tick, store, users, Dead, Committing
  <2>3. /\ \A v \in Viewers :
             views'[v] = views[v] \/ (views'[v].retained => i \notin views'[v].named)
        /\ \A e \in Readers : readers'[e] = readers[e] \/ i \notin readers'[e].named
    BY <1>1 DEF Tick, store, users, Dead
  <2> QED
    BY <2>1, <2>2, <2>3, DeadSame
<1>2. CASE \E m \in ManifestType : Starts(m)
  <2>1. PICK m \in ManifestType : Starts(m)
    BY <1>2
  <2>2. i < next_id /\ i # next_id /\ next_id \in Nat
    BY DEF Dead, Shapes
  <2>3. phantoms \subseteq phantoms' /\ clock <= clock' /\ next_id <= next_id' /\
        current.version <= current'.version
    BY <2>1, <2>2, ManifestFields DEF Starts, UsersSame, Shapes
  <2>4. /\ i \notin current'.named /\ i \notin disk'.named /\
             (Committing' => i \notin publish'.next.named)
        /\ \A l \in links' : l \in links \/ i \notin l.named
    BY <2>1, <2>2 DEF Starts, UsersSame, Dead, Committing
  <2>5. /\ \A v \in Viewers :
             views'[v] = views[v] \/ (views'[v].retained => i \notin views'[v].named)
        /\ \A e \in Readers : readers'[e] = readers[e] \/ i \notin readers'[e].named
    BY <2>1, <2>2 DEF Starts, UsersSame, Dead
  <2> QED
    BY <2>3, <2>4, <2>5, DeadSame
<1>3. CASE RenameStep
  <2>1. phantoms \subseteq phantoms' /\ clock <= clock' /\ next_id <= next_id' /\
        current.version <= current'.version
    BY <1>3, ManifestFields DEF RenameStep, UsersSame, Shapes
  <2>2. /\ i \notin current'.named /\ i \notin disk'.named /\
             (Committing' => i \notin publish'.next.named)
        /\ \A l \in links' : l \in links \/ i \notin l.named
    BY <1>3 DEF RenameStep, UsersSame, Dead, Committing, NoCommit, CommitType
  <2>3. /\ \A v \in Viewers :
             views'[v] = views[v] \/ (views'[v].retained => i \notin views'[v].named)
        /\ \A e \in Readers : readers'[e] = readers[e] \/ i \notin readers'[e].named
    BY <1>3 DEF RenameStep, UsersSame, Dead
  <2> QED
    BY <2>1, <2>2, <2>3, DeadSame
<1>4. CASE Moves
  <2>1. phantoms \subseteq phantoms' /\ clock <= clock' /\ next_id <= next_id' /\
        current.version <= current'.version
    BY <1>4, ManifestFields DEF Moves, UsersSame, Shapes
  <2>2. /\ i \notin current'.named /\ i \notin disk'.named /\
             (Committing' => i \notin publish'.next.named)
        /\ \A l \in links' : l \in links \/ i \notin l.named
    BY <1>4 DEF Moves, UsersSame, Dead, Committing, NoCommit, CommitType
  <2>3. /\ \A v \in Viewers :
             views'[v] = views[v] \/ (views'[v].retained => i \notin views'[v].named)
        /\ \A e \in Readers : readers'[e] = readers[e] \/ i \notin readers'[e].named
    BY <1>4 DEF Moves, UsersSame, Dead
  <2> QED
    BY <2>1, <2>2, <2>3, DeadSame
<1>5. CASE Swap
  <2>1. Committing /\ current.version <= publish.next.version /\
        i \notin publish.next.named
    BY <1>5, ManifestFields DEF Swap, Committing, NoCommit, Versions, Shapes, Dead
  <2>2. phantoms \subseteq phantoms' /\ clock <= clock' /\ next_id <= next_id' /\
        current.version <= current'.version
    BY <1>5, <2>1, ManifestFields DEF Swap, users, Shapes
  <2>3. /\ i \notin current'.named /\ i \notin disk'.named /\
             (Committing' => i \notin publish'.next.named)
        /\ \A l \in links' : l \in links \/ i \notin l.named
    BY <1>5, <2>1 DEF Swap, users, Dead, Committing
  <2>4. /\ \A v \in Viewers :
             views'[v] = views[v] \/ (views'[v].retained => i \notin views'[v].named)
        /\ \A e \in Readers : readers'[e] = readers[e] \/ i \notin readers'[e].named
    BY <1>5, <2>1 DEF Swap, users, Dead
  <2> QED
    BY <2>2, <2>3, <2>4, DeadSame
<1>6. CASE PublishError
  <2>1. phantoms \subseteq phantoms' /\ clock <= clock' /\ next_id <= next_id' /\
        current.version <= current'.version
    BY <1>6, ManifestFields DEF PublishError, users, Shapes
  <2>2. /\ i \notin current'.named /\ i \notin disk'.named /\
             (Committing' => i \notin publish'.next.named)
        /\ \A l \in links' : l \in links \/ i \notin l.named
    BY <1>6 DEF PublishError, users, Dead, Committing
  <2>3. /\ \A v \in Viewers :
             views'[v] = views[v] \/ (views'[v].retained => i \notin views'[v].named)
        /\ \A e \in Readers : readers'[e] = readers[e] \/ i \notin readers'[e].named
    BY <1>6 DEF PublishError, users, Dead
  <2> QED
    BY <2>1, <2>2, <2>3, DeadSame
<1>7. CASE ViewStep
  <2>1. phantoms \subseteq phantoms' /\ clock <= clock' /\ next_id <= next_id' /\
        current.version <= current'.version
    BY <1>7, ManifestFields DEF ViewStep, StoreSame, Shapes
  <2>2. /\ i \notin current'.named /\ i \notin disk'.named /\
             (Committing' => i \notin publish'.next.named)
        /\ \A l \in links' : l \in links \/ i \notin l.named
    BY <1>7 DEF ViewStep, StoreSame, Dead, Committing
  <2>3. /\ \A v \in Viewers :
             views'[v] = views[v] \/ (views'[v].retained => i \notin views'[v].named)
        /\ \A e \in Readers : readers'[e] = readers[e] \/ i \notin readers'[e].named
    BY <1>7 DEF ViewStep, StoreSame, Dead
  <2> QED
    BY <2>1, <2>2, <2>3, DeadSame
<1>8. CASE \E r \in Readers : ReaderLoad(r)
  <2>1. PICK r \in Readers : ReaderLoad(r)
    BY <1>8
  <2>2. phantoms \subseteq phantoms' /\ clock <= clock' /\ next_id <= next_id' /\
        current.version <= current'.version
    BY <2>1, ManifestFields DEF ReaderLoad, store, Shapes
  <2>3. /\ i \notin current'.named /\ i \notin disk'.named /\
             (Committing' => i \notin publish'.next.named)
        /\ \A l \in links' : l \in links \/ i \notin l.named
    BY <2>1 DEF ReaderLoad, store, Dead, Committing
  <2>4. /\ \A v \in Viewers :
             views'[v] = views[v] \/ (views'[v].retained => i \notin views'[v].named)
        /\ \A e \in Readers : readers'[e] = readers[e] \/ i \notin readers'[e].named
    BY <2>1 DEF ReaderLoad, store, Dead, Shapes
  <2> QED
    BY <2>2, <2>3, <2>4, DeadSame
<1>9. CASE GcQuiet
  <2>1. phantoms \subseteq phantoms' /\ clock <= clock' /\ next_id <= next_id' /\
        current.version <= current'.version
    BY <1>9, ManifestFields DEF GcQuiet, StoreSame, UsersSame, Shapes
  <2>2. /\ i \notin current'.named /\ i \notin disk'.named /\
             (Committing' => i \notin publish'.next.named)
        /\ \A l \in links' : l \in links \/ i \notin l.named
    BY <1>9 DEF GcQuiet, StoreSame, UsersSame, Dead, Committing
  <2>3. /\ \A v \in Viewers :
             views'[v] = views[v] \/ (views'[v].retained => i \notin views'[v].named)
        /\ \A e \in Readers : readers'[e] = readers[e] \/ i \notin readers'[e].named
    BY <1>9 DEF GcQuiet, StoreSame, UsersSame, Dead
  <2> QED
    BY <2>1, <2>2, <2>3, DeadSame
<1>10. CASE \E c \in Collectors : ReadStep(c)
  <2>1. PICK c \in Collectors : ReadStep(c)
    BY <1>10
  <2>2. phantoms \subseteq phantoms' /\ clock <= clock' /\ next_id <= next_id' /\
        current.version <= current'.version
    BY <2>1, ManifestFields DEF ReadStep, OnlyGc, StoreSame, UsersSame, Shapes
  <2>3. /\ i \notin current'.named /\ i \notin disk'.named /\
             (Committing' => i \notin publish'.next.named)
        /\ \A l \in links' : l \in links \/ i \notin l.named
    BY <2>1 DEF ReadStep, OnlyGc, StoreSame, UsersSame, Dead, Committing
  <2>4. /\ \A v \in Viewers :
             views'[v] = views[v] \/ (views'[v].retained => i \notin views'[v].named)
        /\ \A e \in Readers : readers'[e] = readers[e] \/ i \notin readers'[e].named
    BY <2>1 DEF ReadStep, OnlyGc, StoreSame, UsersSame, Dead
  <2> QED
    BY <2>2, <2>3, <2>4, DeadSame
<1>11. CASE \E c \in Collectors : DoomStep(c)
  <2>1. PICK c \in Collectors : DoomStep(c)
    BY <1>11
  <2>2. phantoms \subseteq phantoms' /\ clock <= clock' /\ next_id <= next_id' /\
        current.version <= current'.version
    BY <2>1, ManifestFields DEF DoomStep, OnlyGc, StoreSame, UsersSame, Shapes
  <2>3. /\ i \notin current'.named /\ i \notin disk'.named /\
             (Committing' => i \notin publish'.next.named)
        /\ \A l \in links' : l \in links \/ i \notin l.named
    BY <2>1 DEF DoomStep, OnlyGc, StoreSame, UsersSame, Dead, Committing
  <2>4. /\ \A v \in Viewers :
             views'[v] = views[v] \/ (views'[v].retained => i \notin views'[v].named)
        /\ \A e \in Readers : readers'[e] = readers[e] \/ i \notin readers'[e].named
    BY <2>1 DEF DoomStep, OnlyGc, StoreSame, UsersSame, Dead
  <2> QED
    BY <2>2, <2>3, <2>4, DeadSame
<1>12. CASE \E c \in Collectors : RemoveStep(c)
  <2>1. PICK c \in Collectors : RemoveStep(c)
    BY <1>12
  <2>2. phantoms \subseteq phantoms' /\ clock <= clock' /\ next_id <= next_id' /\
        current.version <= current'.version
    BY <2>1, ManifestFields DEF RemoveStep, OnlyGc, StoreSame, UsersSame, Shapes
  <2>3. /\ i \notin current'.named /\ i \notin disk'.named /\
             (Committing' => i \notin publish'.next.named)
        /\ \A l \in links' : l \in links \/ i \notin l.named
    BY <2>1 DEF RemoveStep, OnlyGc, StoreSame, UsersSame, Dead, Committing
  <2>4. /\ \A v \in Viewers :
             views'[v] = views[v] \/ (views'[v].retained => i \notin views'[v].named)
        /\ \A e \in Readers : readers'[e] = readers[e] \/ i \notin readers'[e].named
    BY <2>1 DEF RemoveStep, OnlyGc, StoreSame, UsersSame, Dead
  <2> QED
    BY <2>2, <2>3, <2>4, DeadSame
<1>13. CASE Reopen
  BY <1>13
<1> QED
  BY <1>1, <1>2, <1>3, <1>4, <1>5, <1>6, <1>7, <1>8, <1>9, <1>10, <1>11, <1>12, <1>13,
     StepCases

(* What gc decides to remove is dead: its window, its grace period and the *)
(* registered views cover everyone who might name it.                      *)
LEMMA DoomedDead ==
    ASSUME Shapes, Versions, Times, GcReads, Garbage, Ages, NEW c \in Collectors,
           gc[c].pc = "live",
           NEW i \in Doomed(gc[c].m, gc[c].now, LiveNames)
    PROVE  Dead(i)
<1> DEFINE m == gc[c].m
           now == gc[c].now
<1>1. PICK g \in m.garbage : g.id = i /\ Aged(g, now) /\ ~Protected(g, m) /\
        i \notin LiveNames
  BY DEF Doomed
<1>2. /\ m \in ManifestType /\ now \in Nat /\ now <= clock /\
           m.version <= current.version /\ Past(m)
      /\ IdsBelow(m, next_id) /\ GoneFrom(m)
  BY GcFields DEF GcReads, GcRead, Garbage
<1> HIDE DEF m, now
<1>3. /\ g.removed_at \in Nat /\ g.removed_at_version \in Nat /\ m.version \in Nat /\
           i \in Nat
      /\ current.version \in Nat /\ disk.version \in Nat /\
           current.version <= disk.version
      /\ clock \in Nat /\ Grace \in Nat /\ Retain \in Nat
  BY <1>1, <1>2, ManifestFields, DiskVersion, RetentionAssumption DEF Shapes
<1>4. g.removed_at_version <= m.version /\ i < next_id
  BY <1>1, <1>2, KeepIff DEF Past, IdsBelow
<1>5. g.removed_at_version <= current.version /\ g.removed_at_version <= disk.version
  BY <1>2, <1>3, <1>4
<1>6. i \notin current.named /\ i \notin disk.named
  BY <1>1, <1>2, <1>5 DEF GoneFrom, Gone
<1>7. Committing => i \notin publish.next.named
  <2>1. Committing => g.removed_at_version <= publish.next.version
    BY <1>3, <1>5 DEF Versions
  <2> QED
    BY <1>1, <1>2, <2>1 DEF GoneFrom, Gone
<1>8. ASSUME NEW l \in links, InWindow(l) PROVE i \notin l.named
  <2>1. l.version \in Nat
    BY ManifestFields DEF Shapes
  <2>2. g.removed_at_version + Retain <= m.version + 1
    BY <1>1, <1>3 DEF Protected
  <2>3. l.version > current.version - Retain
    BY <1>8 DEF InWindow
  <2>4. g.removed_at_version <= l.version
    BY <1>2, <1>3, <2>1, <2>2, <2>3
  <2> QED
    BY <1>1, <1>2, <2>4 DEF GoneFrom, Gone
<1>9. \A v \in Viewers : i \notin views[v].named
  BY <1>1 DEF LiveNames
<1>10. ASSUME NEW r \in Readers, Young(r) PROVE i \notin readers[r].named
  <2> SUFFICES ASSUME i \in readers[r].named PROVE FALSE
    OBVIOUS
  <2>1. readers[r].at \in Nat /\ readers[r].at <= clock
    BY ManifestFields DEF Shapes, Times
  <2>2. clock < readers[r].at + Grace /\ readers[r] \notin phantoms
    BY <1>10 DEF Young
  <2>3. Older(m, readers[r])
    BY <2>2 DEF Ages, OlderAll, m
  <2>4. readers[r].at <= g.removed_at
    BY <1>1, <2>3 DEF Older
  <2>5. (IF now > g.removed_at THEN now - g.removed_at ELSE 0) >= Grace
    BY <1>1 DEF Aged
  <2>6. CASE now > g.removed_at
    <3>1. now - g.removed_at >= Grace
      BY <2>5, <2>6
    <3> QED
      BY <1>2, <1>3, <2>1, <2>2, <2>4, <3>1
  <2>7. CASE ~(now > g.removed_at)
    <3>1. Grace = 0
      BY <1>3, <2>5, <2>7
    <3> QED
      BY <1>3, <2>1, <2>2, <3>1
  <2> QED
    BY <2>6, <2>7
<1> QED
  BY <1>4, <1>6, <1>7, <1>8, <1>9, <1>10 DEF Dead

(* What gc removes, or has removed, is dead.                               *)
LEMMA CollectedStep ==
    ASSUME Shapes, Shapes', Versions, Ids, Times, GcReads, Garbage, Ages, Collected,
           [Next]_vars
    PROVE  Collected'
<1>1. CASE Reopen
  BY <1>1 DEF Reopen, IdleGc, Collected
<1>2. CASE ~Reopen
  <2>1. ASSUME NEW c \in Collectors, gc[c].pc = "remove",
               NEW i \in gc[c].doomed \union gc[c].removed
        PROVE  Dead(i)'
    <3>1. i \in Nat
      BY <2>1, GcFields
    <3>2. Dead(i)
      BY <2>1 DEF Collected
    <3> QED
      BY <1>2, <3>1, <3>2, DeadStep
  <2>2. ASSUME NEW c \in Collectors, gc[c].pc = "live",
               NEW i \in Doomed(gc[c].m, gc[c].now, LiveNames)
        PROVE  Dead(i)'
    <3>1. i \in Nat
      <4>1. gc[c].m \in ManifestType
        BY <2>2, GcFields
      <4> QED
        BY <4>1, ManifestFields DEF Doomed
    <3>2. Dead(i)
      BY <2>2, DoomedDead
    <3> QED
      BY <1>2, <3>1, <3>2, DeadStep
  <2>3. \A c \in Collectors : gc'[c].pc = "remove" =>
          \/ gc[c].pc = "remove" /\
               gc'[c].doomed \union gc'[c].removed = gc[c].doomed \union gc[c].removed
          \/ gc[c].pc = "live" /\
               gc'[c].doomed \union gc'[c].removed = Doomed(gc[c].m, gc[c].now,
                 LiveNames)
    <3>1. CASE \E d \in Collectors : DoomStep(d)
      BY <3>1 DEF DoomStep, OnlyGc
    <3>2. CASE \E d \in Collectors : RemoveStep(d) \/ ReadStep(d)
      BY <3>2 DEF RemoveStep, ReadStep, OnlyGc
    <3>3. CASE ~(\E d \in Collectors : ReadStep(d) \/ DoomStep(d) \/ RemoveStep(d))
      <4>1. \A c \in Collectors : gc'[c] = gc[c] \/ gc'[c].pc \in {"idle", "manifest"}
        BY <1>2, <3>3, StepCases DEF Tick, Starts, RenameStep, Moves, Swap,
           PublishError, ViewStep, ReaderLoad, GcQuiet
      <4> QED
        BY <4>1
    <3> QED
      BY <3>1, <3>2, <3>3
  <2> QED
    BY <2>1, <2>2, <2>3 DEF Collected
<1> QED
  BY <1>1, <1>2

-----------------------------------------------------------------------------
(* Layer 5 holds.                                                          *)

(* Nothing is named yet.                                                   *)
LEMMA KeptInit == Init => Kept
<1> SUFFICES ASSUME Init PROVE Kept
  OBVIOUS
<1>1. publish = NoCommit /\ links = {} /\ \A r \in Readers : readers[r].named = {}
  BY DEF Init, EmptyManifest
<1> QED
  BY <1>1 DEF Kept, Covers, ReaderKept, Committing

(* A commit keeps all but what gc has removed.                             *)
LEMMA StartKeeps ==
    ASSUME Collected, NEW m \in ManifestType, Starts(m), NEW i \in Keep(current)
    PROVE  i \in Keep(m) \/ Dead(i)
<1>1. CASE i \in current.named
  BY <1>1, KeepIff DEF Starts
<1>2. CASE i \notin current.named
  <2>1. PICK g \in current.garbage : g.id = i
    BY <1>2, KeepIff
  <2>2. CASE g \in m.garbage
    BY <2>1, <2>2, KeepIff
  <2>3. CASE g \notin m.garbage
    BY <2>1, <2>3 DEF Starts, Collected
  <2> QED
    BY <2>2, <2>3
<1> QED
  BY <1>1, <1>2

(* A step that leaves the manifests and the readers as they are.           *)
LEMMA KeptSame ==
    ASSUME Shapes, Shapes', Kept, UNCHANGED <<current, publish, disk, links, readers>>,
           clock <= clock', phantoms' = phantoms
    PROVE  Kept'
<1>1. \A r \in Readers : Young(r)' => Young(r)
  BY YoungBefore
<1> QED
  BY <1>1 DEF Kept, Covers, ReaderKept, Committing, Renamed, Keep

(* What an open keeps covers the window and the young readers.             *)
LEMMA KeptStep ==
    ASSUME Shapes, Shapes', Versions, Ids, Collected, Kept, [Next]_vars
    PROVE  Kept'
<1>1. CASE Tick
  <2>1. UNCHANGED <<current, publish, disk, links, readers>> /\ clock <= clock' /\
        phantoms' = phantoms
    BY <1>1 DEF Tick, store, users, StoreSame, Shapes
  <2> QED
    BY <2>1, KeptSame
<1>2. CASE \E m \in ManifestType : Starts(m)
  <2>1. PICK m \in ManifestType : Starts(m)
    BY <1>2
  <2>2. /\ ~Committing /\ Committing' /\ publish'.next = m /\
             m.version = current.version + 1
        /\ UNCHANGED <<current, disk, links, readers, clock, phantoms>>
    BY <2>1 DEF Starts, UsersSame, Committing
  <2>3. ~Renamed /\ ~Renamed'
    BY <2>1, <2>2, Uncommitted DEF Starts, Renamed
  <2>4. Covers(m)'
    <3> SUFFICES ASSUME NEW l \in links, l.version > m.version - Retain,
                        NEW i \in l.named
                 PROVE  i \in Keep(m)
      BY <2>2 DEF Covers
    <3>1. l.version \in Nat /\ current.version \in Nat /\ Retain \in Nat /\
          l.version <= current.version
      BY <2>2, <2>3, Uncommitted, ManifestFields, RetentionAssumption DEF Shapes,
         Versions
    <3>2. InWindow(l) /\ l.version > current.version - Retain
      BY <2>2, <3>1 DEF InWindow
    <3>3. i \in Keep(current)
      BY <3>1, <3>2 DEF Kept, Covers
    <3>4. ~Dead(i)
      BY <3>2 DEF Dead
    <3> QED
      BY <2>1, <3>3, <3>4, StartKeeps
  <2>5. ASSUME NEW r \in Readers, Young(r)'
        PROVE  /\ readers[r].named \subseteq Keep(disk) /\
                    readers[r].named \subseteq Keep(current)
               /\ readers[r].named \subseteq Keep(m)
    <3>1. Young(r)
      BY <2>2, <2>5 DEF Young
    <3>2. readers[r].named \subseteq Keep(disk) /\
          readers[r].named \subseteq Keep(current)
      BY <2>3, <3>1 DEF Kept, ReaderKept
    <3>3. \A i \in readers[r].named : ~Dead(i)
      BY <3>1 DEF Dead
    <3> QED
      BY <2>1, <3>2, <3>3, StartKeeps
  <2>6. current.named \subseteq Keep(m)
    BY <2>1, KeepIff DEF Starts
  <2>7. \A r \in Readers : Young(r)' => ReaderKept(r)'
    BY <2>2, <2>5 DEF ReaderKept, Keep
  <2> QED
    BY <2>2, <2>4, <2>6, <2>7 DEF Kept, Covers, Keep
<1>3. CASE RenameStep
  <2>1. /\ Committing /\ ~Renamed /\ Committing' /\ publish'.next = disk' /\
             disk'.version = publish.next.version
        /\ disk'.named = publish.next.named /\ disk'.garbage = publish.next.garbage
        /\ UNCHANGED <<current, links, readers, clock, phantoms>>
    BY <1>3 DEF RenameStep, UsersSame, Committing, Renamed, NoCommit, CommitType
  <2>2. Keep(disk') = Keep(publish.next)
    BY <2>1 DEF Keep
  <2>3. \A r \in Readers : Young(r)' => Young(r) /\ ReaderKept(r)
    BY <2>1 DEF Young, Kept
  <2> QED
    BY <2>1, <2>2, <2>3 DEF Kept, Covers, ReaderKept
<1>4. CASE Moves
  <2>1. /\ Committing /\ Renamed /\ Renamed' /\ Committing' /\
             publish'.next = publish.next
        /\ links' \subseteq links \union {publish.next} /\
             UNCHANGED <<current, disk, readers, clock, phantoms>>
    BY <1>4 DEF Moves, UsersSame, Committing, Renamed, NoCommit, CommitType
  <2>2. disk = publish.next /\ publish.next.version = current.version + 1 /\
        current.version \in Nat
    BY <2>1, ManifestFields DEF Versions, Shapes
  <2>3. ~(publish.next.version <= current.version) /\
        publish.next.named \subseteq Keep(publish.next)
    BY <2>2, KeepIff
  <2>4. \A r \in Readers : Young(r)' => Young(r) /\ ReaderKept(r)
    BY <2>1 DEF Young, Kept
  <2> QED
    BY <2>1, <2>2, <2>3, <2>4 DEF Kept, Covers, ReaderKept
<1>5. CASE Swap
  <2>1. /\ Committing /\ Renamed /\ ~Committing' /\ current' = publish.next
        /\ UNCHANGED <<disk, links, readers, clock, phantoms>>
    BY <1>5 DEF Swap, users, Committing, Renamed, NoCommit
  <2>2. disk = publish.next
    BY <2>1 DEF Versions
  <2>3. \A r \in Readers : Young(r)' => Young(r) /\ ReaderKept(r)
    BY <2>1 DEF Young, Kept
  <2> QED
    BY <2>1, <2>2, <2>3 DEF Kept, Covers, ReaderKept
<1>6. CASE PublishError
  <2>1. /\ ~Committing' /\ UNCHANGED <<current, disk, links, readers, clock>> /\
             phantoms \subseteq phantoms'
        /\ Renamed => Committing /\ publish.next \in phantoms'
    BY <1>6 DEF PublishError, users, Committing, Renamed, NoCommit
  <2>2. Renamed => disk \in phantoms'
    BY <2>1 DEF Versions
  <2>3. \A r \in Readers : Young(r)' => Young(r) /\ ReaderKept(r) /\
        ~(Renamed /\ readers[r] = disk)
    BY <2>1, <2>2 DEF Young, Kept
  <2> QED
    BY <2>1, <2>3 DEF Kept, Covers, ReaderKept
<1>7. CASE ViewStep
  <2>1. UNCHANGED <<current, publish, disk, links, readers>> /\ clock <= clock' /\
        phantoms' = phantoms
    BY <1>7 DEF ViewStep, StoreSame, Shapes
  <2> QED
    BY <2>1, KeptSame
<1>8. CASE \E r \in Readers : ReaderLoad(r)
  <2>1. PICK r \in Readers : ReaderLoad(r)
    BY <1>8
  <2>2. readers' = [readers EXCEPT ![r] = disk] /\
        UNCHANGED <<current, publish, disk, links, clock, phantoms>>
    BY <2>1 DEF ReaderLoad, store
  <2>3. readers'[r] = disk /\ \A e \in Readers : e # r => readers'[e] = readers[e]
    BY <2>2 DEF Shapes
  <2>4. \A e \in Readers : e # r /\ Young(e)' => ReaderKept(e)'
    BY <2>2, <2>3 DEF Young, Kept, ReaderKept, Committing, Renamed, Keep
  <2>5. ASSUME Young(r)' PROVE ReaderKept(r)'
    <3>1. disk.named \subseteq Keep(disk) /\ disk \notin phantoms
      BY <2>2, <2>3, <2>5, KeepIff DEF Young
    <3>2. CASE Renamed
      <4>1. disk = publish.next
        BY <3>2 DEF Versions
      <4> QED
        BY <2>2, <2>3, <3>1, <3>2, <4>1 DEF ReaderKept, Committing, Renamed, Keep
    <3>3. CASE ~Renamed
      <4>1. disk = current
        BY <3>1, <3>3 DEF Versions
      <4> QED
        BY <2>2, <2>3, <3>1, <4>1 DEF ReaderKept, Kept, Committing, Renamed, Keep
    <3> QED
      BY <3>2, <3>3
  <2>6. \A e \in Readers : Young(e)' => ReaderKept(e)'
    BY <2>4, <2>5
  <2> QED
    BY <2>2, <2>6 DEF Kept, Covers, Committing, Keep
<1>9. CASE GcQuiet
  <2>1. UNCHANGED <<current, publish, disk, links, readers>> /\ clock <= clock' /\
        phantoms' = phantoms
    BY <1>9 DEF GcQuiet, StoreSame, UsersSame, Shapes
  <2> QED
    BY <2>1, KeptSame
<1>10. CASE \E c \in Collectors : ReadStep(c)
  <2>1. PICK c \in Collectors : ReadStep(c)
    BY <1>10
  <2>2. UNCHANGED <<current, publish, disk, links, readers>> /\ clock <= clock' /\
        phantoms' = phantoms
    BY <2>1 DEF ReadStep, OnlyGc, StoreSame, UsersSame, Shapes
  <2> QED
    BY <2>2, KeptSame
<1>11. CASE \E c \in Collectors : DoomStep(c)
  <2>1. PICK c \in Collectors : DoomStep(c)
    BY <1>11
  <2>2. UNCHANGED <<current, publish, disk, links, readers>> /\ clock <= clock' /\
        phantoms' = phantoms
    BY <2>1 DEF DoomStep, OnlyGc, StoreSame, UsersSame, Shapes
  <2> QED
    BY <2>2, KeptSame
<1>12. CASE \E c \in Collectors : RemoveStep(c)
  <2>1. PICK c \in Collectors : RemoveStep(c)
    BY <1>12
  <2>2. UNCHANGED <<current, publish, disk, links, readers>> /\ clock <= clock' /\
        phantoms' = phantoms
    BY <2>1 DEF RemoveStep, OnlyGc, StoreSame, UsersSame, Shapes
  <2> QED
    BY <2>2, KeptSame
<1>13. CASE Reopen
  <2>1. /\ ~Committing' /\ current' = disk /\
             UNCHANGED <<disk, links, readers, clock, phantoms>>
    BY <1>13 DEF Reopen, Committing
  <2>2. \A r \in Readers : Young(r)' => Young(r) /\ ReaderKept(r)
    BY <2>1 DEF Young, Kept
  <2> QED
    BY <2>1, <2>2 DEF Kept, Covers, ReaderKept
<1> QED
  BY <1>1, <1>2, <1>3, <1>4, <1>5, <1>6, <1>7, <1>8, <1>9, <1>10, <1>11, <1>12, <1>13,
     StepCases

-----------------------------------------------------------------------------
(* Layer 6 holds.                                                          *)

(* Nothing is named yet.                                                   *)
LEMMA PresentInit == Init => Present
<1> SUFFICES ASSUME Init PROVE Present
  OBVIOUS
<1>1. /\ publish = NoCommit /\ links = {} /\ current.named = {} /\ disk.named = {}
      /\ (\A r \in Readers : readers[r].named = {}) /\ \A v \in Viewers :
           views[v].named = {}
  BY DEF Init, EmptyManifest, NoView
<1> QED
  BY <1>1 DEF Present, RetainedReadable, HeldViewsReadable, YoungManifestReadable,
     Committing

(* The files needed in the next state, as conditions on it.                *)
LEMMA PresentNext ==
    ASSUME \A i \in current'.named : i \in files', \A i \in disk'.named : i \in files',
           Committing' => \A i \in publish'.next.named : i \in files',
           \A l \in links' : InWindow(l)' => l.named \subseteq files',
           \A v \in Viewers : views'[v].retained => views'[v].named \subseteq files',
           \A r \in Readers : Young(r)' => readers'[r].named \subseteq files'
    PROVE  Present'
BY DEF Present, RetainedReadable, HeldViewsReadable, YoungManifestReadable, Young

(* The files needed now.                                                   *)
LEMMA PresentNow ==
    ASSUME Present
    PROVE  /\ current.named \subseteq files /\ disk.named \subseteq files
           /\ Committing => publish.next.named \subseteq files
           /\ \A l \in links : InWindow(l) => l.named \subseteq files
           /\ \A v \in Viewers : views[v].retained => views[v].named \subseteq files
           /\ \A r \in Readers : Young(r) => readers[r].named \subseteq files
BY DEF Present, RetainedReadable, HeldViewsReadable, YoungManifestReadable, Young

(* A window moves forward only.                                            *)
LEMMA WindowBefore ==
    ASSUME Shapes, Shapes', NEW l \in links, InWindow(l)',
           current.version <= current'.version
    PROVE  InWindow(l)
<1>1. current.version \in Nat /\ current'.version \in Nat /\ l.version \in Nat /\
      Retain \in Nat
  BY RetentionAssumption, ManifestFields DEF Shapes
<1> QED
  BY <1>1 DEF InWindow

(* No file that is needed goes: every step.                                *)
LEMMA PresentStep ==
    ASSUME Shapes, Shapes', Versions, Versions', Ids, Collected, Kept, Present,
           [Next]_vars
    PROVE  Present'
<1>1. CASE Reopen
  <2>1. /\ ~Committing' /\ current' = disk /\
             UNCHANGED <<disk, links, readers, clock, phantoms>>
        /\ files' = files \intersect Keep(disk) /\ \A v \in Viewers :
             views'[v].named = {}
    BY <1>1 DEF Reopen, Committing, NoView
  <2>2. \A i \in disk.named : i \in files'
    BY <2>1, PresentNow, KeepIff
  <2>3. ASSUME NEW l \in links, InWindow(l)' PROVE l.named \subseteq files'
    <3>1. InWindow(l)
      BY <2>1, <2>3, WindowBefore, DiskVersion
    <3>2. l.version <= disk.version /\ l.version > disk.version - Retain
      BY <2>1, <2>3 DEF Versions, InWindow, Committing, NoCommit
    <3> QED
      BY <2>1, <3>1, <3>2, PresentNow DEF Kept, Covers
  <2>4. ASSUME NEW r \in Readers, Young(r)' PROVE readers[r].named \subseteq files'
    <3>1. Young(r)
      BY <2>1, <2>4 DEF Young
    <3> QED
      BY <2>1, <3>1, PresentNow DEF Kept, ReaderKept
  <2> QED
    BY <2>1, <2>2, <2>3, <2>4, PresentNext
<1>2. CASE \E c \in Collectors : RemoveStep(c)
  <2>1. PICK c \in Collectors : RemoveStep(c)
    BY <1>2
  <2>2. PICK i \in gc[c].doomed : files' = files \ {i}
    BY <2>1 DEF RemoveStep
  <2>3. Dead(i) /\ StoreSame /\ UsersSame
    BY <2>1 DEF RemoveStep, OnlyGc, Collected
  <2>4. /\ \A l \in links : InWindow(l)' => InWindow(l)
        /\ \A r \in Readers : Young(r)' => Young(r)
    BY <2>3 DEF StoreSame, UsersSame, InWindow, Young
  <2>5. (Committing' => Committing) /\
        UNCHANGED <<current, publish, disk, links, views, readers>>
    BY <2>3 DEF StoreSame, UsersSame, Committing
  <2> QED
    BY <2>2, <2>3, <2>4, <2>5, PresentNow, PresentNext DEF Dead
<1>3. CASE ~Reopen /\ ~(\E c \in Collectors : RemoveStep(c))
  <2>1. files \subseteq files'
    BY <1>3, StepCases DEF Tick, Starts, RenameStep, Moves, Swap, PublishError,
       ViewStep, ReaderLoad, GcQuiet, ReadStep, DoomStep
  <2>2. current' = current \/ (Committing /\ current' = publish.next)
    BY <1>3, StepCases DEF Tick, store, Starts, RenameStep, Moves, Swap, PublishError,
       ViewStep, ReaderLoad, GcQuiet, ReadStep, DoomStep,
       OnlyGc, StoreSame, Committing, NoCommit
  <2>3. disk' = disk \/ (Committing /\ disk'.named = publish.next.named)
    BY <1>3, StepCases DEF Tick, store, Starts, RenameStep, Moves, Swap, PublishError,
       ViewStep, ReaderLoad, GcQuiet, ReadStep, DoomStep,
       OnlyGc, StoreSame, Committing, NoCommit, CommitType
  <2>4. Committing' => \A i \in publish'.next.named : i \in files'
    <3>1. CASE \E m \in ManifestType : Starts(m)
      BY <2>1, <3>1, PresentNow DEF Starts
    <3>2. CASE ~(\E m \in ManifestType : Starts(m))
      <4>1. Committing' => Committing /\ publish'.next.named = publish.next.named
        BY <1>3, <3>2, StepCases DEF Tick, store, RenameStep, Moves, Swap, PublishError,
           ViewStep, ReaderLoad, GcQuiet, ReadStep, DoomStep,
           OnlyGc, StoreSame, Committing, NoCommit, CommitType
      <4> QED
        BY <2>1, <4>1, PresentNow
    <3> QED
      BY <3>1, <3>2
  <2>5. \A l \in links' : l \in links \/ (Committing /\ l = publish.next)
    BY <1>3, StepCases DEF Tick, store, Starts, RenameStep, Moves, Swap, PublishError,
       ViewStep, ReaderLoad, GcQuiet, ReadStep, DoomStep,
       OnlyGc, StoreSame, Committing, NoCommit, CommitType
  <2>6. current.version <= current'.version
    BY <2>2, ManifestFields DEF Versions, Shapes
  <2>7. \A v \in Viewers : views'[v] = views[v]
          \/ (views'[v].retained =>
               \E m \in {current} \union {l \in links : InWindow(l)} :
                 views'[v].named = m.named)
    BY <1>3, StepCases DEF Tick, users, Starts, RenameStep, Moves, Swap, PublishError,
       ViewStep, ReaderLoad, GcQuiet, ReadStep, DoomStep,
       OnlyGc, UsersSame
  <2>8. \A r \in Readers : readers'[r] = readers[r] \/ readers'[r] = disk
    BY <1>3, StepCases DEF Tick, users, Starts, RenameStep, Moves, Swap, PublishError,
       ViewStep, ReaderLoad, GcQuiet, ReadStep, DoomStep,
       OnlyGc, UsersSame, Shapes
  <2>9. phantoms \subseteq phantoms' /\ clock <= clock'
    BY <1>3, StepCases DEF Tick, Starts, RenameStep, Moves, Swap, PublishError,
       ViewStep, ReaderLoad, GcQuiet, ReadStep, DoomStep,
       OnlyGc, UsersSame, Shapes
  <2>10. (\A i \in current'.named : i \in files') /\ \A i \in disk'.named : i \in files'
    BY <2>1, <2>2, <2>3, PresentNow
  <2>11. \A l \in links' : InWindow(l)' => l.named \subseteq files'
    BY <2>1, <2>5, <2>6, WindowBefore, PresentNow
  <2>12. \A v \in Viewers : views'[v].retained => views'[v].named \subseteq files'
    BY <2>1, <2>7, PresentNow
  <2>13. \A r \in Readers : Young(r)' => readers'[r].named \subseteq files'
    BY <2>1, <2>8, <2>9, YoungBefore, PresentNow
  <2> QED
    BY <2>4, <2>10, <2>11, <2>12, <2>13, PresentNext
<1> QED
  BY <1>1, <1>2, <1>3

-----------------------------------------------------------------------------
(* The invariant, and what follows.                                        *)

Inv ==
    /\ Shapes /\ Versions /\ Ids /\ Times /\ GcReads
    /\ Garbage /\ Ages /\ Collected /\ Kept /\ Present

(* The inductive invariant holds in every reachable state.                 *)
LEMMA InvHolds == Spec => []Inv
<1>1. Init => Inv
  BY ShapesInit, RelationsInit, GarbageInit, AgesInit, CollectedInit, KeptInit,
     PresentInit DEF Inv
<1>2. ASSUME Inv, [Next]_vars PROVE Inv'
  <2>1. Shapes /\ Versions /\ Ids /\ Times /\ GcReads /\ Garbage /\ Ages /\ Collected /\
        Kept /\ Present
    BY <1>2 DEF Inv
  <2>2. Shapes' /\ Versions'
    BY <1>2, <2>1, ShapesStep, VersionsStep
  <2>3. Ids' /\ Times' /\ GcReads'
    BY <1>2, <2>1, <2>2, IdsStep, TimesStep, GcReadsStep
  <2>4. Garbage' /\ Ages'
    BY <1>2, <2>1, GarbageStep, AgesStep
  <2>5. Collected' /\ Kept' /\ Present'
    BY <1>2, <2>1, <2>2, CollectedStep, KeptStep, PresentStep
  <2> QED
    BY <2>2, <2>3, <2>4, <2>5 DEF Inv
<1> QED
  BY <1>1, <1>2, PTL DEF Spec

(* A retained manifest is readable (D0014): whatever gc calls, failed file *)
(* operations and crashes come between, every file named by the current    *)
(* manifest, by the one on disk and by each link of the window is there.   *)
THEOREM RetentionReadable == Spec => []RetainedReadable
<1>1. Inv => RetainedReadable
  BY DEF Inv, Present
<1> QED
  BY <1>1, InvHolds, PTL

(* A View's files stay for as long as it is held, although gc reads the    *)
(* manifest and the registered views in two steps.                         *)
THEOREM RetentionViews == Spec => []HeldViewsReadable
<1>1. Inv => HeldViewsReadable
  BY DEF Inv, Present
<1> QED
  BY <1>1, InvHolds, PTL

(* A reader process that nobody knows of finds every file of a manifest    *)
(* younger than the grace period, an open's orphan cleanup included.       *)
THEOREM RetentionGrace == Spec => []YoungManifestReadable
<1>1. Inv => YoungManifestReadable
  BY DEF Inv, Present
<1> QED
  BY <1>1, InvHolds, PTL

=============================================================================

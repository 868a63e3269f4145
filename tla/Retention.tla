----------------------------- MODULE Retention -----------------------------
(***************************************************************************)
(* Which segment files are on disk, and who may still need them:           *)
(* publishing with its manifest.<v> links, gc, snapshots and version views *)
(* of the writer's process, readers of other processes, and the orphan     *)
(* cleanup of an open (src/src/storage/{gc,mod}.rs, manifest/publish.rs).  *)
(*                                                                         *)
(* A manifest here is the set of segments it names (tables, retired        *)
(* definitions and jobs together), its garbage list and its id counter:    *)
(* TableStore shows that what stops being named is on the garbage list of  *)
(* the same commit, and never comes back.                                  *)
(***************************************************************************)
EXTENDS Integers, FiniteSets

CONSTANTS
    Collectors,   \* threads calling gc
    Viewers,      \* callers holding a View of the writer's process
    Readers,      \* reader processes
    Retain,       \* StoreOptions::retain_manifests
    Grace,        \* StoreOptions::gc_grace, in ticks of the clock
    MaxVersion,   \* bound on the versions published
    MaxSegments,  \* bound on the segment ids handed out
    MaxTime,      \* bound on the clock
    MaxFailures,  \* bound on failed file operations
    MaxCrashes    \* bound on kills

ASSUME RetentionAssumption ==
    /\ Retain \in Nat \ {0}
    /\ {Grace, MaxVersion, MaxSegments, MaxTime, MaxFailures, MaxCrashes} \subseteq Nat

VARIABLES
    clock,      \* now_ms()
    current,    \* State::current
    publish,    \* the commit holding the commit mutex: [step, next]
    disk,       \* the manifest file
    links,      \* the manifests linked as manifest.<v>
    swept,      \* Publisher::swept
    next_id,    \* Shared::next_id
    files,      \* the segment files, by id
    views,      \* the manifest each View holds
    readers,    \* the manifest each reader process holds
    gc,         \* what each gc call has read and removed
    failures, crashes,
    phantoms    \* manifests renamed into place by a commit that then failed

store == <<current, publish, disk, links, swept, next_id>>
users == <<views, readers>>
vars == <<clock, store, files, users, gc, failures, crashes, phantoms>>

EmptyManifest == [version |-> 0, at |-> 0, named |-> {}, garbage |-> {}, next_id |-> 0]
NoCommit == [step |-> "none"]
NoView == [named |-> {}, retained |-> FALSE]
IdleGc == [pc |-> "idle"]

Init ==
    /\ clock = 0
    /\ current = EmptyManifest /\ disk = EmptyManifest
    /\ publish = NoCommit
    /\ links = {} /\ swept = FALSE
    /\ next_id = 0 /\ files = {}
    /\ views = [v \in Viewers |-> NoView]
    /\ readers = [r \in Readers |-> EmptyManifest]
    /\ gc = [c \in Collectors |-> IdleGc]
    /\ failures = 0 /\ crashes = 0
    /\ phantoms = {}

Tick ==
    /\ clock < MaxTime
    /\ clock' = clock + 1
    /\ UNCHANGED <<store, files, users, gc, failures, crashes, phantoms>>

Fails ==
    /\ failures < MaxFailures
    /\ failures' = failures + 1

-----------------------------------------------------------------------------
(* Commits.                                                                *)

\* The next manifest: add is new, gone stops being named and goes to garbage.
Edited(add, gone) ==
    [version |-> current.version + 1, at |-> 0,
     named   |-> (current.named \ gone) \union add,
     garbage |-> current.garbage \union
                   {[id |-> i, removed_at |-> clock,
                     removed_at_version |-> current.version + 1] : i \in gone},
     next_id |-> IF add = {} THEN current.next_id ELSE next_id + 1]

Begin(m) ==
    /\ publish = NoCommit
    /\ current.version < MaxVersion
    /\ publish' = [step |-> "rename", next |-> m]
    /\ UNCHANGED <<current, disk, links, swept>>

\* A flush (gone is empty) or a compaction: its file is on disk before it commits.
Write(gone) ==
    /\ next_id < MaxSegments
    /\ files' = files \union {next_id}
    /\ next_id' = next_id + 1
    /\ Begin(Edited({next_id}, gone))
    /\ UNCHANGED <<clock, users, gc, failures, crashes, phantoms>>

\* TRUNCATE, a cancelled job, expired definitions.
ReleaseOnly(gone) ==
    /\ gone # {}
    /\ Begin(Edited({}, gone))
    /\ UNCHANGED <<clock, next_id, files, users, gc, failures, crashes, phantoms>>

\* The rename and the sync of the root directory.
Rename ==
    /\ publish.step = "rename"
    /\ LET m == [publish.next EXCEPT !.at = clock]
       IN  /\ disk' = m
           /\ publish' = [step |-> "link", next |-> m]
    /\ UNCHANGED <<clock, current, links, swept, next_id, files, users, gc, failures, crashes,
                   phantoms>>

\* A failed link is ignored: the version is not retained.
Link ==
    /\ publish.step = "link"
    /\ publish' = [publish EXCEPT !.step = "prune"]
    /\ \/ links' = links \union {publish.next} /\ UNCHANGED failures
       \/ Fails /\ UNCHANGED links
    /\ UNCHANGED <<clock, current, disk, swept, next_id, files, users, gc, crashes, phantoms>>

\* The first prune after an open sweeps; later ones remove the one link that
\* just fell out of the window.
Pruned(latest) ==
    LET cutoff == latest - Retain
    IN  IF latest < Retain THEN {}
        ELSE {l \in links : IF swept THEN l.version = cutoff ELSE l.version <= cutoff}

\* A failed removal is ignored too, and not tried again.
Prune ==
    /\ publish.step = "prune"
    /\ publish' = [publish EXCEPT !.step = "swap"]
    /\ \/ links' = links \ Pruned(publish.next.version) /\ UNCHANGED failures
       \/ Fails /\ UNCHANGED links
    /\ swept' = (swept \/ publish.next.version >= Retain)
    /\ UNCHANGED <<clock, current, disk, next_id, files, users, gc, crashes, phantoms>>

Swap ==
    /\ publish.step = "swap"
    /\ current' = publish.next
    /\ publish' = NoCommit
    /\ UNCHANGED <<clock, disk, links, swept, next_id, files, users, gc, failures, crashes,
                   phantoms>>

\* publish fails before the rename, or syncing the root directory fails after it.
PublishError ==
    /\ publish.step \in {"rename", "link"}
    /\ Fails
    /\ phantoms' = IF publish.step = "link" THEN phantoms \union {publish.next} ELSE phantoms
    /\ publish' = NoCommit
    /\ UNCHANGED <<clock, current, disk, links, swept, next_id, files, users, gc, crashes>>

-----------------------------------------------------------------------------
(* Views and readers.                                                      *)

\* snapshot(): read and registered under the state lock.
Snapshot(v) ==
    /\ views[v] = NoView
    /\ views' = [views EXCEPT ![v] = [named |-> current.named, retained |-> TRUE]]
    /\ UNCHANGED <<clock, store, files, readers, gc, failures, crashes, phantoms>>

InWindow(l) == l.version > current.version - Retain

\* view_at(): an older version's link, read and registered under the state lock.
\* A link that outlived its prune is trusted.
ViewAt(v) ==
    /\ views[v] = NoView
    /\ \E l \in links :
         /\ l.version < current.version
         /\ views' = [views EXCEPT ![v] = [named |-> l.named, retained |-> InWindow(l)]]
    /\ UNCHANGED <<clock, store, files, readers, gc, failures, crashes, phantoms>>

DropView(v) ==
    /\ views[v] # NoView
    /\ views' = [views EXCEPT ![v] = NoView]
    /\ UNCHANGED <<clock, store, files, readers, gc, failures, crashes, phantoms>>

\* Reader::snapshot: the manifest file is read; nobody knows of it.
ReaderLoad(r) ==
    /\ readers[r] # disk
    /\ readers' = [readers EXCEPT ![r] = disk]
    /\ UNCHANGED <<clock, store, files, views, gc, failures, crashes, phantoms>>

-----------------------------------------------------------------------------
(* gc::run.  Its first commit, ExpireRetired, is a ReleaseOnly.            *)

GcStart(c) ==
    /\ gc[c].pc = "idle"
    /\ gc' = [gc EXCEPT ![c] = [pc |-> "manifest", now |-> clock]]
    /\ UNCHANGED <<clock, store, files, users, failures, crashes, phantoms>>

GcReadManifest(c) ==
    /\ gc[c].pc = "manifest"
    /\ gc' = [gc EXCEPT ![c] = [pc |-> "live", now |-> gc[c].now, m |-> current]]
    /\ UNCHANGED <<clock, store, files, users, failures, crashes, phantoms>>

\* Mutant: the grace period is not looked at.
AgedAlways(g, now) == TRUE

Aged(g, now) == (IF now > g.removed_at THEN now - g.removed_at ELSE 0) >= Grace

\* Mutant: the window is one version too short.
ProtectedShort(g, m) == g.removed_at_version + Retain > m.version + 2

\* A retained manifest may name it.
Protected(g, m) == g.removed_at_version + Retain > m.version + 1

\* Mutant: a version view is not registered.
LiveNamesOfCurrent == UNION {views[v].named : v \in {v \in Viewers : views[v].named = current.named}}

LiveNames == UNION {views[v].named : v \in Viewers}

Doomed(m, now, live) ==
    {g.id : g \in {g \in m.garbage : /\ Aged(g, now)
                                     /\ ~Protected(g, m)
                                     /\ g.id \notin live \union m.named}}

\* live is read after the manifest.
GcReadLive(c) ==
    /\ gc[c].pc = "live"
    /\ LET doomed == Doomed(gc[c].m, gc[c].now, LiveNames)
       IN  gc' = [gc EXCEPT ![c] = IF doomed = {} THEN IdleGc
                    ELSE [pc |-> "remove", doomed |-> doomed, removed |-> {}]]
    /\ UNCHANGED <<clock, store, files, users, failures, crashes, phantoms>>

\* A file that is already gone is no error.
GcRemove(c) ==
    /\ gc[c].pc = "remove"
    /\ \E i \in gc[c].doomed :
         /\ files' = files \ {i}
         /\ gc' = [gc EXCEPT ![c].doomed = @ \ {i}, ![c].removed = @ \union {i}]
    /\ UNCHANGED <<clock, store, users, failures, crashes, phantoms>>

\* A removal fails: gc returns, and what it removed stays on the garbage list.
GcError(c) ==
    /\ gc[c].pc = "remove"
    /\ gc[c].doomed # {}
    /\ Fails
    /\ gc' = [gc EXCEPT ![c] = IdleGc]
    /\ UNCHANGED <<clock, store, files, users, crashes, phantoms>>

GcForget(c) ==
    /\ gc[c].pc = "remove"
    /\ gc[c].doomed = {}
    /\ Begin([Edited({}, {}) EXCEPT !.garbage = {g \in @ : g.id \notin gc[c].removed}])
    /\ gc' = [gc EXCEPT ![c] = IdleGc]
    /\ UNCHANGED <<clock, next_id, files, users, failures, crashes, phantoms>>

-----------------------------------------------------------------------------
\* cleanup_orphans keeps what the manifest names and its garbage.
Keep(m) == m.named \union {g.id : g \in m.garbage}

\* The process dies and the store is opened again; reader processes live on.
Reopen ==
    /\ crashes < MaxCrashes
    /\ crashes' = crashes + 1
    /\ current' = disk
    /\ publish' = NoCommit
    /\ swept' = FALSE
    /\ next_id' = disk.next_id
    /\ files' = files \intersect Keep(disk)
    /\ views' = [v \in Viewers |-> NoView]
    /\ gc' = [c \in Collectors |-> IdleGc]
    /\ UNCHANGED <<clock, disk, links, readers, failures, phantoms>>

Next ==
    \/ Tick
    \/ \E gone \in SUBSET current.named : Write(gone) \/ ReleaseOnly(gone)
    \/ Rename \/ Link \/ Prune \/ Swap \/ PublishError
    \/ \E v \in Viewers : Snapshot(v) \/ ViewAt(v) \/ DropView(v)
    \/ \E r \in Readers : ReaderLoad(r)
    \/ \E c \in Collectors :
         \/ GcStart(c) \/ GcReadManifest(c) \/ GcReadLive(c)
         \/ GcRemove(c) \/ GcError(c) \/ GcForget(c)
    \/ Reopen

Spec == Init /\ [][Next]_vars

-----------------------------------------------------------------------------
(* Properties.                                                             *)

\* "A retained manifest version is readable, so GC keeps what it names" (D0014):
\* every file named by the current manifest, by the one on disk and by each link
\* of the window is there, whatever gc calls, failures and crashes came between.
RetainedReadable ==
    \A m \in {current, disk} \union {l \in links : InWindow(l)} : m.named \subseteq files

\* A View keeps its files for as long as it is held: gc sees it in `live` or had
\* read a manifest that still names them ("a gc that reads current after us also
\* sees us in live").  Excepted is a view_at of a link whose prune failed.
HeldViewsReadable ==
    \A v \in Viewers : views[v].retained => views[v].named \subseteq files

\* "A scan from a manifest older than the grace can fail" (SPEC.md 6), and only
\* one: a reader process that nobody knows of finds every file of a manifest
\* published less than a grace period ago, unless that commit failed.
YoungManifestReadable ==
    \A r \in Readers :
        (clock < readers[r].at + Grace /\ readers[r] \notin phantoms)
            => readers[r].named \subseteq files
=============================================================================

----------------------------- MODULE WritePath -----------------------------
(***************************************************************************)
(* The write path under the locks: writers filling the buffer and waiting  *)
(* on their flush's ticket, the flusher thread, DELETE, the commit mutex,  *)
(* and the publication of a manifest as the file operations it is made of  *)
(* (src/src/storage/{mod,buffer,flush}.rs, manifest/publish.rs).  Any      *)
(* operation may fail, the process may be killed or the machine may lose   *)
(* power between any two of them, and the store is opened again.           *)
(*                                                                         *)
(* Each writer writes one row, named after it.  A manifest here is its     *)
(* version, its segments (one per flush) and the seqs of its tombstones.   *)
(***************************************************************************)
EXTENDS Integers, Sequences

CONSTANTS
    Writers,       \* clients calling write_many with one row
    EmptyWriters,  \* clients calling write_many with no row
    Deleters,      \* clients calling delete
    MaxFlushes,    \* bound on the tickets used
    MaxFailures,   \* bound on failed file operations
    MaxMishaps     \* bound on failed operations, kills and power losses together

ASSUME WritePathAssumption ==
    /\ MaxFlushes \in Nat \ {0}
    /\ MaxFailures \in Nat
    /\ MaxMishaps \in Nat
    /\ Writers \intersect (EmptyWriters \union Deleters) = {}
    /\ EmptyWriters \intersect Deleters = {}
    /\ "flusher" \notin Deleters

VARIABLES
    current,           \* State::current
    pending,           \* State::pending
    in_flight,         \* State::in_flight
    ticket,            \* State::ticket, numbered from 1
    in_flight_ticket,  \* State::in_flight_ticket, 0 for None
    done,              \* FlushTicket::done of each ticket
    closing,           \* State::closing
    flusher,           \* the flusher thread
    pub,               \* the holder of the commit mutex and its publication
    files,             \* the segment file of each flush
    tmp,               \* manifest.tmp: none, written or synced
    visible,           \* the manifest a load reads
    durable,           \* the manifests a power loss may leave
    client,            \* what each caller is doing
    failures, crashes  \* how many of each have happened

buffer == <<pending, in_flight, ticket, in_flight_ticket, closing>>
disk == <<files, tmp, visible, durable>>
faults == <<failures, crashes>>
vars == <<current, buffer, done, flusher, pub, disk, client, faults>>

Clients == Writers \union EmptyWriters \union Deleters
Tickets == 1 .. MaxFlushes

EmptyManifest == [version |-> 0, segs |-> {}, tombs |-> {}, torn |-> FALSE]
RowsIn(m) == UNION {s.rows : s \in m.segs}

Waiting == [pc |-> "wait", batch |-> {}, ticket |-> 0, ok |-> FALSE]
NoPub == [step |-> "none"]
IdleClient == [pc |-> "idle", on |-> <<>>, ok |-> FALSE, saw |-> {}, seq |-> 0]
\* Calls that have not returned.
Busy == {c \in Clients : client[c].pc \in {"wait", "commit", "publish"}}

Init ==
    /\ current = EmptyManifest
    /\ pending = {} /\ in_flight = {}
    /\ ticket = 1 /\ in_flight_ticket = 0
    /\ done = [t \in Tickets |-> "none"]
    /\ closing = FALSE
    /\ flusher = Waiting
    /\ pub = NoPub
    /\ files = [t \in Tickets |-> "none"]
    /\ tmp = "none"
    /\ visible = EmptyManifest /\ durable = {EmptyManifest}
    /\ client = [c \in Clients |-> IdleClient]
    /\ failures = 0 /\ crashes = 0

\* What a View taken now returns.
Seen == pending \union in_flight \union RowsIn(current)

-----------------------------------------------------------------------------
(* Callers.                                                                *)

\* write_many under the state lock: the rows go to the buffer and the caller
\* waits on the ticket of the flush they will be in.
WriteMany(w) ==
    /\ client[w].pc = "idle"
    /\ ~closing
    /\ ticket \in Tickets
    /\ pending' = pending \union ({w} \intersect Writers)
    /\ client' = [client EXCEPT ![w].pc = "wait", ![w].on = <<ticket>>]
    /\ UNCHANGED <<current, in_flight, ticket, in_flight_ticket, closing, done, flusher,
                   pub, disk, faults>>

\* Mutant: only the flush still to come is waited for.
TicketsOfPendingOnly(p, t, f) == IF p # {} THEN <<t>> ELSE <<>>

\* The tickets flush() waits for, in order: the flush under way, then the one
\* the pending rows will be in.
TicketsToWait(p, t, f) ==
    CASE p # {} /\ f # 0 -> <<f, t>>
      [] p # {} /\ f = 0 -> <<t>>
      [] p = {} /\ f # 0 -> <<f>>
      [] OTHER           -> <<>>

\* delete() calls flush() first.
Delete(d) ==
    /\ client[d].pc = "idle"
    /\ ~closing
    /\ client' = [client EXCEPT
          ![d].pc = "wait", ![d].on = TicketsToWait(pending, ticket, in_flight_ticket),
          ![d].saw = Seen]
    /\ UNCHANGED <<current, buffer, done, flusher, pub, disk, faults>>

\* FlushTicket::wait returns Ok: the caller waits for the next ticket, or is
\* acknowledged, or goes on to commit its tombstone.
WaitOver(c) ==
    /\ client[c].pc = "wait"
    /\ client[c].on # <<>> => done[client[c].on[1]] = "ok"
    /\ client' =
         IF Len(client[c].on) > 1
           THEN [client EXCEPT ![c].on = <<client[c].on[2]>>]
           ELSE IF c \in Deleters
                  THEN [client EXCEPT ![c].pc = "commit", ![c].on = <<>>]
                  ELSE [client EXCEPT ![c].pc = "done", ![c].ok = TRUE, ![c].on = <<>>]
    /\ UNCHANGED <<current, buffer, done, flusher, pub, disk, faults>>

\* It returns Err: the call fails at once.
WaitFailed(c) ==
    /\ client[c].pc = "wait"
    /\ client[c].on # <<>>
    /\ done[client[c].on[1]] = "err"
    /\ client' = [client EXCEPT ![c].pc = "done", ![c].on = <<>>]
    /\ UNCHANGED <<current, buffer, done, flusher, pub, disk, faults>>

-----------------------------------------------------------------------------
(* The flusher.                                                            *)

\* wait_for_work finds a flush due.  The row and byte limits, the interval and
\* force decide when; any moment with rows pending is possible, and the interval
\* makes one come.
FlushTake ==
    /\ flusher.pc = "wait"
    /\ pending # {}
    /\ flusher' = [pc |-> "write", batch |-> pending, ticket |-> ticket, ok |-> FALSE]
    /\ in_flight' = pending
    /\ pending' = {}
    /\ in_flight_ticket' = ticket
    /\ ticket' = ticket + 1
    /\ UNCHANGED <<current, closing, done, pub, disk, client, faults>>

\* run: the segment is written, synced, and its directory synced.
SegmentStep(from, to, state) ==
    /\ flusher.pc = from
    /\ flusher' = [flusher EXCEPT !.pc = to]
    /\ files' = [files EXCEPT ![flusher.ticket] = state]
    /\ UNCHANGED <<current, buffer, done, pub, tmp, visible, durable, client, faults>>

\* Mutant: the partition directory is not synced.
SegmentUnsynced ==
    \/ SegmentStep("write", "sync", "written")
    \/ SegmentStep("sync", "sync_dir", "synced")
    \/ SegmentStep("sync_dir", "commit", "synced")

SegmentWrite ==
    \/ SegmentStep("write", "sync", "written")
    \/ SegmentStep("sync", "sync_dir", "synced")
    \/ SegmentStep("sync_dir", "commit", "durable")

\* A file operation of the flush fails.
FlushError ==
    /\ flusher.pc \in {"write", "sync", "sync_dir"}
    /\ failures < MaxFailures /\ failures + crashes < MaxMishaps
    /\ failures' = failures + 1
    /\ flusher' = [flusher EXCEPT !.pc = "clear"]
    /\ UNCHANGED <<current, buffer, done, pub, disk, client, crashes>>

\* Mutant: in_flight_ticket is left behind.
FlushClearTicketKept ==
    /\ flusher.pc = "clear"
    /\ in_flight' = IF flusher.ok THEN in_flight ELSE {}
    /\ flusher' = [flusher EXCEPT !.pc = "resolve"]
    /\ UNCHANGED <<current, pending, ticket, in_flight_ticket, closing, done, pub, disk,
                   client, faults>>

\* loop_forever after run: the state is tidied, then the ticket resolved.
FlushClear ==
    /\ flusher.pc = "clear"
    /\ in_flight' = IF flusher.ok THEN in_flight ELSE {}
    /\ in_flight_ticket' = 0
    /\ flusher' = [flusher EXCEPT !.pc = "resolve"]
    /\ UNCHANGED <<current, pending, ticket, closing, done, pub, disk, client, faults>>

\* Mutant: a failed flush does not resolve its ticket.
FlushResolveOkOnly ==
    /\ flusher.pc = "resolve"
    /\ done' = IF flusher.ok THEN [done EXCEPT ![flusher.ticket] = "ok"] ELSE done
    /\ flusher' = Waiting
    /\ UNCHANGED <<current, buffer, pub, disk, client, faults>>

FlushResolve ==
    /\ flusher.pc = "resolve"
    /\ done' = [done EXCEPT ![flusher.ticket] = IF flusher.ok THEN "ok" ELSE "err"]
    /\ flusher' = Waiting
    /\ UNCHANGED <<current, buffer, pub, disk, client, faults>>

-----------------------------------------------------------------------------
(* Commits: Shared::commit and Publisher::publish.                         *)

\* The edit: the flush's segment at the new version, or a tombstone at it.
NextManifest(segs, tombs) ==
    LET v == current.version + 1
    IN  [version |-> v, torn |-> FALSE,
         segs  |-> current.segs \union {[file |-> s.ticket, seq |-> v, rows |-> s.batch] : s \in segs},
         tombs |-> current.tombs \union {v : d \in tombs}]

\* Mutant: the batches leave in_flight before the new manifest is swapped in.
FlushCommitClears ==
    /\ flusher.pc = "commit"
    /\ pub = NoPub
    /\ pub' = [step |-> "apply", by |-> "flusher", next |-> NextManifest({flusher}, {})]
    /\ flusher' = [flusher EXCEPT !.pc = "publish"]
    /\ in_flight' = {}
    /\ UNCHANGED <<current, pending, ticket, in_flight_ticket, closing, done, disk, client,
                   faults>>

\* The commit mutex is taken and the edits applied to current.
FlushCommit ==
    /\ flusher.pc = "commit"
    /\ pub = NoPub
    /\ pub' = [step |-> "apply", by |-> "flusher", next |-> NextManifest({flusher}, {})]
    /\ flusher' = [flusher EXCEPT !.pc = "publish"]
    /\ UNCHANGED <<current, buffer, done, disk, client, faults>>
DeleteCommit(d) ==
    /\ client[d].pc = "commit"
    /\ pub = NoPub
    /\ pub' = [step |-> "apply", by |-> d, next |-> NextManifest({}, {d})]
    /\ client' = [client EXCEPT ![d].pc = "publish"]
    /\ UNCHANGED <<current, buffer, done, flusher, disk, faults>>

PubStep(from, to) ==
    /\ pub.step = from
    /\ pub' = [pub EXCEPT !.step = to]
    /\ UNCHANGED <<current, buffer, done, flusher, files, client, faults>>

WriteTmp ==
    /\ PubStep("apply", "written")
    /\ tmp' = "written"
    /\ UNCHANGED <<visible, durable>>
SyncTmp ==
    /\ PubStep("written", "synced")
    /\ tmp' = "synced"
    /\ UNCHANGED <<visible, durable>>
\* After the rename a power loss leaves the old or the new manifest, and a torn
\* one if the new one's bytes were not synced.
Rename ==
    /\ PubStep("synced", "renamed")
    /\ tmp' = "none"
    /\ visible' = pub.next
    /\ durable' = durable \union {pub.next} \union
                  (IF tmp = "synced" THEN {} ELSE {[pub.next EXCEPT !.torn = TRUE]})
\* Mutant: success is reported before the root directory is synced.
SyncRootSkipped ==
    /\ PubStep("renamed", "published")
    /\ UNCHANGED <<tmp, visible, durable>>

SyncRoot ==
    /\ PubStep("renamed", "published")
    /\ durable' = {visible}
    /\ UNCHANGED <<tmp, visible>>

\* The owner of the commit learns how it went.
Returns(ok) ==
    IF pub.by = "flusher"
      THEN /\ flusher' = [flusher EXCEPT !.pc = "clear", !.ok = ok]
           /\ UNCHANGED client
      ELSE /\ client' = [client EXCEPT ![pub.by].pc = "done", ![pub.by].ok = ok,
                                       ![pub.by].seq = pub.next.version]
           /\ UNCHANGED flusher

\* Mutant: the flushed batches stay in flight.
SwapKeepsInFlight ==
    /\ pub.step = "published"
    /\ current' = pub.next
    /\ Returns(TRUE)
    /\ pub' = NoPub
    /\ UNCHANGED <<buffer, done, disk, faults>>

\* Under the state lock, current and in_flight change together.
Swap ==
    /\ pub.step = "published"
    /\ current' = pub.next
    /\ in_flight' = IF pub.by = "flusher" THEN {} ELSE in_flight
    /\ Returns(TRUE)
    /\ pub' = NoPub
    /\ UNCHANGED <<pending, ticket, in_flight_ticket, closing, done, disk, faults>>

\* A file operation of publish fails.  After the rename the new manifest stays
\* where a later load reads it.
PublishError ==
    /\ pub.step \in {"apply", "written", "synced", "renamed"}
    /\ failures < MaxFailures /\ failures + crashes < MaxMishaps
    /\ failures' = failures + 1
    /\ Returns(FALSE)
    /\ pub' = NoPub
    /\ UNCHANGED <<current, buffer, done, disk, crashes>>

-----------------------------------------------------------------------------
(* Close, kill, power loss and open.                                       *)

\* close takes the Store by value: no other call is under way.
Close ==
    /\ Busy = {}
    /\ ~closing
    /\ closing' = TRUE
    /\ UNCHANGED <<current, pending, in_flight, ticket, in_flight_ticket, done, flusher,
                   pub, disk, client, faults>>
FlusherExit ==
    /\ flusher.pc = "wait"
    /\ closing
    /\ pending = {}
    /\ flusher' = [flusher EXCEPT !.pc = "exited"]
    /\ UNCHANGED <<current, buffer, done, pub, disk, client, faults>>

\* open_internal on manifest m: whatever m does not name is removed, and calls
\* under way are gone with their process.
OpenOn(m, fs) ==
    /\ current' = m
    /\ pending' = {} /\ in_flight' = {}
    /\ ticket' = IF pending = {} THEN ticket ELSE ticket + 1
    /\ in_flight_ticket' = 0
    /\ closing' = FALSE
    /\ flusher' = Waiting
    /\ pub' = NoPub
    /\ files' = [t \in Tickets |-> IF \E s \in m.segs : s.file = t THEN fs[t] ELSE "none"]
    /\ client' = [c \in Clients |->
                    IF c \in Busy THEN [client[c] EXCEPT !.pc = "lost"] ELSE client[c]]
    /\ UNCHANGED <<tmp, done>>
Reopen ==
    /\ flusher.pc = "exited"
    /\ OpenOn(visible, files)
    /\ UNCHANGED <<visible, durable, faults>>
Kill ==
    /\ failures + crashes < MaxMishaps
    /\ crashes' = crashes + 1
    /\ OpenOn(visible, files)
    /\ UNCHANGED <<visible, durable, failures>>
\* A file that was not made durable may be gone.
PowerLoss ==
    /\ failures + crashes < MaxMishaps
    /\ crashes' = crashes + 1
    /\ \E m \in durable :
         /\ visible' = m
         /\ durable' = {m}
         /\ OpenOn(m, [t \in Tickets |-> IF files[t] = "durable" THEN "durable" ELSE "none"])
    /\ UNCHANGED failures

-----------------------------------------------------------------------------
FlusherStep == FlushTake \/ SegmentWrite \/ FlushClear \/ FlushResolve \/ FlushCommit
               \/ FlusherExit
PubStepTaken == WriteTmp \/ SyncTmp \/ Rename \/ SyncRoot \/ Swap
ClientStep(c) == WaitOver(c) \/ WaitFailed(c) \/ (c \in Deleters /\ DeleteCommit(c))

Next ==
    \/ \E w \in Writers \union EmptyWriters : WriteMany(w)
    \/ \E d \in Deleters : Delete(d)
    \/ \E c \in Clients : ClientStep(c)
    \/ FlusherStep \/ PubStepTaken
    \/ FlushError \/ PublishError
    \/ Close \/ Reopen \/ Kill \/ PowerLoss

\* Threads that can run do: the flusher (its wait has a timeout), the owner of
\* the commit mutex, and every caller.
Fairness ==
    /\ WF_vars(FlusherStep)
    /\ WF_vars(PubStepTaken)
    /\ \A c \in Clients : WF_vars(ClientStep(c))

Spec == Init /\ [][Next]_vars /\ Fairness

-----------------------------------------------------------------------------
(* Properties.                                                             *)

\* Types, and: flush() can find a flush in flight only while one is, or it would
\* wait on a ticket long resolved and report another flush's error as its own.
TypeOK ==
    /\ pending \subseteq Writers /\ in_flight \subseteq Writers
    /\ ticket \in 1 .. MaxFlushes + 1
    /\ in_flight_ticket \in 0 .. MaxFlushes
    /\ done \in [Tickets -> {"none", "ok", "err"}]
    /\ files \in [Tickets -> {"none", "written", "synced", "durable"}]
    /\ tmp \in {"none", "written", "synced"}
    /\ flusher.pc \in {"wait", "write", "sync", "sync_dir", "commit", "publish", "clear",
                       "resolve", "exited"}
    /\ visible \in durable
    /\ (in_flight_ticket = 0) <=> (flusher.pc \in {"wait", "resolve", "exited"})

\* "An acknowledged write survives a crash" (SPEC.md 6): whatever manifest the
\* next open may find, it has the row of every write_many that returned Ok.
AckedSurvives ==
    \A w \in Writers : client[w].ok => \A m \in durable : w \in RowsIn(m)

\* An open finds a whole manifest, and every segment it names: a segment's bytes
\* and directory entry are synced before the manifest naming it is renamed, the
\* manifest's own bytes before that, and the orphans an open removes are named by
\* nothing an open may still find.
AlwaysLoadable ==
    ~visible.torn /\ \A s \in visible.segs : files[s.file] # "none"

\* A query sees a row once: never both buffered and published, nor twice buffered
\* (commit swaps current and clears in_flight under one lock).
SeenOnce ==
    /\ pending \intersect in_flight = {}
    /\ (pending \union in_flight) \intersect RowsIn(current) = {}
    /\ \A s, u \in current.segs : s.rows \intersect u.rows # {} => s = u

\* "A View never sees a gap" (mod.rs:119): a row once seen stays seen, unless its
\* own flush failed or the process died.
NoGap ==
    [][\/ Seen \subseteq Seen'
       \/ flusher.pc = "clear" /\ ~flusher.ok /\ Seen \ Seen' \subseteq flusher.batch
       \/ crashes' # crashes]_vars

\* "Rows written before the delete therefore always sit at a lower seq than it":
\* once a delete has returned, everything that was visible when it was called is
\* in a segment below its tombstone or was lost, and no longer buffered.
DeleteOrder ==
    \A d \in Deleters : client[d].ok =>
        /\ client[d].saw \intersect (pending \union in_flight) = {}
        /\ \A s \in current.segs : s.rows \intersect client[d].saw # {} => s.seq < client[d].seq

\* "Acknowledgement latency is roughly the flush interval plus an fsync" (SPEC.md 6):
\* every call under way returns, whatever fails, unless its process dies.  A caller
\* calls once, so that all calls return is that there is always a later moment
\* without any.
EveryCallReturns == []<>(Busy = {})
=============================================================================

------------------------------- MODULE Query -------------------------------
(***************************************************************************)
(* The execution of one query (src/src/exec/{execute,context}.rs,          *)
(* src/src/exec/pipeline/mod.rs): a plan is a chain of stages, each a      *)
(* pipeline whose workers claim morsels from a shared counter and push     *)
(* them through a filter into a sink of their own; the partial sinks are   *)
(* merged in worker order, and the batches of the result are the morsels   *)
(* of the next stage.  All reservations draw on one memory budget.  The    *)
(* first stage scans a table: its morsels are the segments, whose bytes    *)
(* are reserved while they are read, then the buffered batches.  Reads may *)
(* fail and workers may panic, and the query may be cancelled or time out  *)
(* at any moment.                                                          *)
(***************************************************************************)
EXTENDS Sinks

CONSTANTS
    Threads,    \* ExecOptions::threads
    Tables,     \* what it may scan: [segments, buffered], two sequences of morsels
    Plans,      \* the plans it may run: sequences of stages
    Limits,     \* the values ExecOptions::memory_limit may have
    MaxFaults   \* bound on failed reads and panics

ASSUME QueryAssumption ==
    /\ Threads \in Nat \ {0}
    /\ \A t \in Tables : {t.segments, t.buffered} \subseteq Seq(Seq(Seq(Rows)))
    /\ Plans \subseteq Seq(StageType) \ {<<>>}
    /\ Limits \subseteq Nat
    /\ MaxFaults \in Nat

VARIABLES
    plan, limit,  \* chosen at the start
    segments,     \* how many morsels of the scan are segments
    sources,      \* the morsels of each stage so far, the current one's last
    next,         \* the shared morsel counter
    stop,         \* the shared stop flag
    error,        \* the first error recorded
    cancelled,    \* the cancel token, or the deadline is past
    used, peak,   \* MemoryBudget
    workers,      \* the workers of the current stage
    merging,      \* the main thread after the join
    result,       \* what execute returned
    faults

budget == <<used, peak>>
shared == <<next, stop, error>>
query == <<plan, limit, segments, sources>>
main == <<merging, result>>
vars == <<query, shared, cancelled, budget, workers, main, faults>>

None == [none |-> TRUE]
NoError == "none"
Stage == plan[Len(sources)]
Morsels == sources[Len(sources)]
IsScan == Len(sources) = 1

\* One sink per worker; todo holds the batches of the morsel being pushed, and
\* raised the value fetch_max is still to be called with.
NewWorker == [pc |-> "claim", morsel |-> 0, todo |-> <<>>, held |-> <<>>,
              res |-> 0, reading |-> 0, raised |-> 0, err |-> NoError]
Pool(morsels) ==
    [w \in 1 .. Min({Threads, Max({Len(morsels), 1})}) |-> NewWorker]

Init ==
    /\ plan \in Plans /\ limit \in Limits
    /\ \E t \in Tables :
          /\ segments = Len(t.segments)
          /\ sources = <<t.segments \o t.buffered>>
          /\ workers = Pool(t.segments \o t.buffered)
    /\ next = 1 /\ stop = FALSE /\ error = NoError
    /\ cancelled = FALSE
    /\ used = 0 /\ peak = 0
    /\ merging = None /\ result = None
    /\ faults = 0

Running == result = None /\ merging = None

\* Worker w at pc, with no fetch_max outstanding.
At(w, pc) == Running /\ w \in DOMAIN workers /\ workers[w].pc = pc /\ workers[w].raised = 0

\* Worker w returns an error; a read in progress gives its bytes back.
FailsWith(w, e) == [workers[w] EXCEPT !.pc = "fail", !.err = e, !.reading = 0]

-----------------------------------------------------------------------------
(* Workers: run_worker.                                                    *)

\* The stop flag and the counter are read.  The flag is a relaxed atomic: a
\* worker may not see yet that it was set.
Claim(w) ==
    /\ At(w, "claim")
    /\ \/ /\ stop
          /\ workers' = [workers EXCEPT ![w].pc = "done"]
          /\ UNCHANGED next
       \/ /\ next' = next + 1
          /\ workers' = [workers EXCEPT ![w] =
                IF next > Len(Morsels) THEN [@ EXCEPT !.pc = "done"]
                ELSE IF cancelled THEN FailsWith(w, "cancelled")
                ELSE [@ EXCEPT !.pc = "read", !.morsel = next]]
    /\ UNCHANGED <<query, stop, error, cancelled, budget, main, faults>>

\* MemoryBudget::grow: fetch_update of used; fetch_max of peak is a step of its own.
Fits(bytes) == used + bytes <= limit

OnDisk(w) == IsScan /\ workers[w].morsel <= segments

\* read_segment reserves the segment's bytes before it reads the file.
Read(w) ==
    /\ At(w, "read") /\ OnDisk(w)
    /\ LET bytes == Bytes(Morsels[workers[w].morsel])
       IN  \/ /\ ~cancelled /\ Fits(bytes)
              /\ used' = used + bytes
              /\ workers' = [workers EXCEPT ![w] =
                    [@ EXCEPT !.pc = "reading", !.reading = bytes, !.raised = used']]
           \/ /\ cancelled \/ ~Fits(bytes)
              /\ workers' = [workers EXCEPT ![w] =
                    FailsWith(w, IF cancelled THEN "cancelled" ELSE "budget")]
              /\ UNCHANGED used
    /\ UNCHANGED <<query, shared, cancelled, peak, main, faults>>

\* A buffered batch of the scan, or BatchSource::read, which does not check.
ReadMemory(w) ==
    /\ At(w, "read") /\ ~OnDisk(w)
    /\ workers' = [workers EXCEPT ![w] =
          IF IsScan /\ cancelled THEN FailsWith(w, "cancelled")
          ELSE [@ EXCEPT !.pc = "push", !.todo = Morsels[workers[w].morsel]]]
    /\ UNCHANGED <<query, shared, cancelled, budget, main, faults>>

RaisePeak(w) ==
    /\ Running /\ w \in DOMAIN workers
    /\ workers[w].raised # 0
    /\ peak' = Max({peak, workers[w].raised})
    /\ workers' = [workers EXCEPT ![w].raised = 0]
    /\ UNCHANGED <<query, shared, cancelled, used, main, faults>>

\* The segment is decoded and its bytes given back.
ReadOver(w) ==
    /\ At(w, "reading")
    /\ used' = used - workers[w].reading
    /\ workers' = [workers EXCEPT ![w] =
          [@ EXCEPT !.pc = "push", !.reading = 0, !.todo = Morsels[workers[w].morsel]]]
    /\ UNCHANGED <<query, shared, cancelled, peak, main, faults>>

\* The file is gone or damaged.
ReadError(w) ==
    /\ At(w, "reading")
    /\ faults < MaxFaults
    /\ faults' = faults + 1
    /\ used' = used - workers[w].reading
    /\ workers' = [workers EXCEPT ![w] = FailsWith(w, "source")]
    /\ UNCHANGED <<query, shared, cancelled, peak, main>>

\* After a batch: done() of the sink.
AfterPush(held, todo) ==
    IF SinkDone(Stage, held) THEN "done" ELSE IF todo = <<>> THEN "claim" ELSE "push"

\* One batch through the filter into the sink.  The reservation grows first.
Push(w) ==
    /\ At(w, "push") /\ workers[w].todo # <<>>
    /\ LET me == workers[w]
           batch == Filtered(Stage, Head(me.todo))
           held == IF batch = <<>> THEN me.held ELSE SinkPush(Stage, me.held, batch)
           more == Bytes(held) - me.res
       IN  \/ /\ ~cancelled /\ Fits(more)
              /\ used' = used + more
              /\ workers' = [workers EXCEPT ![w] =
                    [@ EXCEPT !.held = held, !.res = Bytes(held), !.todo = Tail(me.todo),
                              !.raised = IF more > 0 THEN used' ELSE 0,
                              !.pc = AfterPush(held, Tail(me.todo))]]
           \/ /\ cancelled \/ ~Fits(more)
              /\ workers' = [workers EXCEPT ![w] =
                    FailsWith(w, IF cancelled THEN "cancelled" ELSE "budget")]
              /\ UNCHANGED used
    /\ UNCHANGED <<query, shared, cancelled, peak, main, faults>>

\* A morsel all of whose row groups were pruned has no batch.
EmptyMorsel(w) ==
    /\ At(w, "push") /\ workers[w].todo = <<>>
    /\ workers' = [workers EXCEPT ![w].pc = "claim"]
    /\ UNCHANGED <<query, shared, cancelled, budget, main, faults>>

\* record_error: the flag first, then the slot, if it is still empty.
SetStop(w) ==
    /\ At(w, "fail")
    /\ stop' = TRUE
    /\ workers' = [workers EXCEPT ![w].pc = "record"]
    /\ UNCHANGED <<query, next, error, cancelled, budget, main, faults>>

\* Mutant: the error of a worker that finds the others already stopping is lost.
RecordNothing(w) ==
    /\ At(w, "record")
    /\ workers' = [workers EXCEPT ![w].pc = "drop"]
    /\ UNCHANGED <<query, shared, cancelled, budget, main, faults>>

RecordError(w) ==
    /\ At(w, "record")
    /\ error' = IF error = NoError THEN workers[w].err ELSE error
    /\ workers' = [workers EXCEPT ![w].pc = "drop"]
    /\ UNCHANGED <<query, next, stop, cancelled, budget, main, faults>>

\* The failed worker's sink goes, and its reservation with it.
DropSink(w) ==
    /\ At(w, "drop")
    /\ used' = used - workers[w].res
    /\ workers' = [workers EXCEPT ![w] =
          [@ EXCEPT !.pc = "failed", !.held = <<>>, !.res = 0]]
    /\ UNCHANGED <<query, shared, cancelled, peak, main, faults>>

\* Unwinding drops what the worker holds; the others are not told.
Panic(w) ==
    /\ \/ At(w, "reading")
       \/ At(w, "push")
    /\ faults < MaxFaults
    /\ faults' = faults + 1
    /\ used' = used - workers[w].res - workers[w].reading
    /\ workers' = [workers EXCEPT ![w] = [NewWorker EXCEPT !.pc = "panicked"]]
    /\ UNCHANGED <<query, shared, cancelled, peak, main>>

-----------------------------------------------------------------------------
(* The main thread: join, merge, finish.                                   *)

\* Mutant: each worker reports its end itself, and one that panics cannot.
AllReported == \A w \in DOMAIN workers :
                  workers[w].pc \in {"done", "failed"} /\ workers[w].raised = 0

\* join returns for a worker that panicked, too.
AllOver == \A w \in DOMAIN workers :
              workers[w].pc \in {"done", "failed", "panicked"} /\ workers[w].raised = 0

\* What the sinks that are still there have reserved.
Held == (IF merging = None THEN 0 ELSE merging.res)
        + SumFunction([w \in DOMAIN workers |-> workers[w].res])

\* execute returns: the sinks that are still there are dropped.
Return(r) ==
    /\ result' = r
    /\ merging' = None /\ workers' = <<>>
    /\ used' = used - Held
    /\ UNCHANGED <<query, shared, cancelled, faults>>

Join ==
    /\ Running /\ AllOver
    /\ IF \E w \in DOMAIN workers : workers[w].pc = "panicked"
         THEN Return([panic |-> TRUE]) /\ UNCHANGED peak
       ELSE IF error # NoError
         THEN Return([err |-> error]) /\ UNCHANGED peak
       ELSE /\ merging' = [held |-> workers[1].held, res |-> workers[1].res, left |-> 2]
            /\ workers' = [workers EXCEPT ![1] = [NewWorker EXCEPT !.pc = "done"]]
            /\ UNCHANGED <<query, shared, cancelled, budget, result, faults>>

\* Mutant: the other partial's reservation is still held while it is pushed again.
UsedMergingTwice(held) == used + Bytes(held) - merging.res

\* The budget in use while the next partial is merged: it gives its bytes back first.
UsedMerging(held) == used - workers[merging.left].res + Bytes(held) - merging.res

\* merge checks for cancellation before it takes a batch over.
MergeChecks == Stage.sink \in {"topk", "aggregate"} \/ workers[merging.left].held # <<>>

Merge ==
    /\ merging # None /\ merging.left \in DOMAIN workers
    /\ LET held == SinkMerge(Stage, merging.held, workers[merging.left].held)
           total == UsedMerging(held)
       IN  IF MergeChecks /\ cancelled THEN Return([err |-> "cancelled"]) /\ UNCHANGED peak
           ELSE IF total > limit THEN Return([err |-> "budget"]) /\ UNCHANGED peak
           ELSE /\ used' = total
                /\ peak' = Max({peak, total})
                /\ merging' = [held |-> held, res |-> Bytes(held), left |-> merging.left + 1]
                /\ workers' = [workers EXCEPT ![merging.left] = [NewWorker EXCEPT !.pc = "done"]]
                /\ UNCHANGED <<query, shared, cancelled, result, faults>>

\* finish: a sort takes the bytes of the concatenated input once more.
FinishBytes == IF Stage.sink = "sort" THEN Bytes(merging.held) ELSE 0
FinishChecks ==
    Stage.sink = "aggregate" \/ (Stage.sink = "sort" /\ merging.held # <<>>)

\* The result's batches are the morsels of the next stage, or the answer.
Finish ==
    /\ merging # None /\ merging.left \notin DOMAIN workers
    /\ LET out == SinkFinish(Stage, merging.held)
           morsels == [b \in DOMAIN out |-> <<out[b]>>]
       IN  IF FinishChecks /\ cancelled THEN Return([err |-> "cancelled"]) /\ UNCHANGED peak
           ELSE IF ~Fits(FinishBytes) THEN Return([err |-> "budget"]) /\ UNCHANGED peak
           ELSE /\ peak' = Max({peak, used + FinishBytes})
                /\ used' = used - merging.res
                /\ merging' = None
                /\ IF Len(sources) = Len(plan)
                     THEN /\ result' = [ok |-> Concat(out)]
                          /\ workers' = <<>>
                          /\ UNCHANGED <<sources, shared>>
                     ELSE /\ sources' = Append(sources, morsels)
                          /\ workers' = Pool(morsels)
                          /\ next' = 1 /\ stop' = FALSE /\ error' = NoError
                          /\ UNCHANGED result
                /\ UNCHANGED <<plan, limit, segments, cancelled, faults>>

\* CancelToken::cancel, or the deadline passes.
Cancel ==
    /\ result = None /\ ~cancelled
    /\ cancelled' = TRUE
    /\ UNCHANGED <<query, shared, budget, workers, main, faults>>

-----------------------------------------------------------------------------
WorkerStep(w) ==
    \/ Claim(w) \/ Read(w) \/ ReadMemory(w) \/ RaisePeak(w) \/ ReadOver(w) \/ Push(w) \/ EmptyMorsel(w)
    \/ SetStop(w) \/ RecordError(w) \/ DropSink(w)
MainStep == Join \/ Merge \/ Finish

Next ==
    \/ \E w \in 1 .. Threads : WorkerStep(w) \/ ReadError(w) \/ Panic(w)
    \/ MainStep
    \/ Cancel

\* Every thread keeps running; nothing is assumed of faults and cancellation.
Fairness == (\A w \in 1 .. Threads : WF_vars(WorkerStep(w))) /\ WF_vars(MainStep)

Spec == Init /\ [][Next]_vars /\ Fairness

-----------------------------------------------------------------------------
(* Properties.                                                             *)

\* The budget is exact: what the shared counter says is what the sinks and reads
\* of all workers hold, through failures, panics and merges; no more than the
\* limit; and nothing once the query is over (Reservation's Drop).
BudgetExact ==
    /\ used <= limit
    /\ used = Held + SumFunction([w \in DOMAIN workers |-> workers[w].reading])
    /\ result # None => used = 0

\* Merging partial sinks that fit the budget never runs out of it ("re-pushing
\* them while its reservation lives would count them twice").  An aggregate is left
\* out: it counts the capacity of its vectors, which may double in a merge.
MergeWithinBudget ==
    (/\ merging # None /\ merging.left \in DOMAIN workers
     /\ Stage.sink # "aggregate") =>
        UsedMerging(SinkMerge(Stage, merging.held, workers[merging.left].held)) <= limit

\* QueryStats::peak_memory is never below what is in use, but for the moment
\* between the two atomic updates of grow.
PeakCoversUse ==
    (\A w \in DOMAIN workers : workers[w].raised = 0) => used <= peak

\* The memory budget as a whole (Budget and Reservation, exec/mod.rs): exact at every
\* step, enough for the merge of what was held, and reported in full.
BudgetKept == BudgetExact /\ MergeWithinBudget /\ PeakCoversUse

\* A stage that finishes has the right answer over all of its input, whichever
\* worker read which morsel: in particular a worker's error, a panic or the stop
\* flag never turn into a partial answer, and LIMIT keeps its count across partials.
StagesRight ==
    /\ \A s \in 1 .. Len(sources) - 1 :
          StageAnswer(plan[s], Concat(Concat(sources[s])), Concat(Concat(sources[s + 1])))
    /\ "ok" \in DOMAIN result => StageAnswer(Stage, Concat(Concat(Morsels)), result.ok)

\* ORDER BY k LIMIT n OFFSET m (planner.rs:808: TOP-K of n + m rows, then LIMIT):
\* the answer is the slice of the sorted table, in order, as long as it is one batch.
OrderedSlice ==
    (/\ "ok" \in DOMAIN result
     /\ plan[1].sink = "topk" /\ plan[2].limit <= BatchRows) =>
        LET s == plan[1]
            l == plan[2]
            sorted == Keys(StableSort(Matching(s, Concat(Concat(sources[1])))))
        IN  Keys(result.ok) = SubSeq(sorted, l.offset + 1, Min({l.offset + l.limit, Len(sorted)}))

\* "A sort key (ORDER BY) orders ..." (SPEC.md 3): the answer to a query that
\* ends in ORDER BY is in order.
AnswerInOrder ==
    ("ok" \in DOMAIN result /\ \E s \in DOMAIN plan : plan[s].sink = "sort") =>
        \A i, j \in DOMAIN result.ok : i < j => result.ok[i].key <= result.ok[j].key

\* Every query ends, with an answer or an error: nobody waits for anybody.
QueryEnds == <>(result # None)
=============================================================================

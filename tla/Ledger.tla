------------------------------- MODULE Ledger -------------------------------
(***************************************************************************)
(* storage/ledger.rs, the migration ledger: a directory of numbered files,  *)
(* each run and then recorded in the manifest.  The directory changes       *)
(* between calls; a call holds the ledger mutex, so calls follow each       *)
(* other.  A crash, a file that fails or a record that does not commit ends *)
(* a call between any two steps and leaves what is recorded.                *)
(*                                                                          *)
(* A file is its number, the rest of its name and its checksum; number 0    *)
(* stands for a name without one.  The job's out is                         *)
(* [dir, recorded, pending, at, log, stopped, edits]: what is left to do,   *)
(* the step the call is at, each execution with what was recorded then, the *)
(* calls that stopped after an execution, and the changes to the directory. *)
(***************************************************************************)
EXTENDS Integers, FiniteSets, SequencesExt, FiniteSetsExt, Jobs

CONSTANTS FileNumbers,   \* the numbers files have
          MaxEdits,      \* bound on the changes to the directory
          MaxStops       \* bound on the calls that stop halfway

LedgerFiles == [num : FileNumbers \cup {0}, id : {"a", "b"}, sum : {0, 1}]
FileName(f) == <<f.num, f.id>>
LedgerStart == [dir |-> {}, recorded |-> <<>>, pending |-> <<>>, at |-> "idle", log |-> <<>>, stopped |-> 0, edits |-> 0]
\* list: every name has a number, and no two the same.
ListValid(dir) == \A f, g \in dir : f.num # 0 /\ (f # g => f.num # g.num)
list(dir) == SetToSortSeq(dir, LAMBDA f, g : f.num < g.num)
\* Every recorded file is still there, unchanged.
RecordedKept(dir, recorded) == \A i \in DOMAIN recorded : recorded[i] \in dir
IsRecorded(f, recorded) == \E i \in DOMAIN recorded : FileName(recorded[i]) = FileName(f)
TooLow_never(f, recorded) == FALSE
TooLow(f, recorded) == recorded # <<>> /\ f.num <= Max({recorded[i].num : i \in DOMAIN recorded})
PendingFiles(dir, recorded) == SelectSeq(list(dir), LAMBDA f : ~IsRecorded(f, recorded))
ApplyAllowed(dir, recorded) ==
    /\ ListValid(dir) /\ RecordedKept(dir, recorded)
    /\ \A f \in dir : IsRecorded(f, recorded) \/ ~TooLow(f, recorded)

\* apply_migrations up to its first exec; a dry run, and a call the checks refuse, end here.
BeginApply ==
    /\ Is("ledger", "start") /\ out.at = "idle" /\ ApplyAllowed(out.dir, out.recorded)
    /\ PendingFiles(out.dir, out.recorded) # <<>>
    /\ out' = [out EXCEPT !.pending = PendingFiles(out.dir, out.recorded), !.at = "exec"]
    /\ UNCHANGED <<job, pc>>
\* exec ran the file, all of it or until the statement that failed.
ExecFile ==
    /\ Is("ledger", "start") /\ out.at = "exec"
    /\ out' = [out EXCEPT !.at = "record", !.log = Append(@, [f |-> Head(out.pending), then |-> out.recorded])]
    /\ UNCHANGED <<job, pc>>
RecordFile ==
    /\ Is("ledger", "start") /\ out.at = "record"
    /\ out' = [out EXCEPT !.recorded = Append(@, Head(out.pending)), !.pending = Tail(@),
                          !.at = IF Len(out.pending) = 1 THEN "idle" ELSE "exec"]
    /\ UNCHANGED <<job, pc>>
\* exec fails, or the process dies at the fail point before the record or in its commit.
StopApply ==
    /\ Is("ledger", "start") /\ out.at # "idle" /\ out.stopped < MaxStops
    /\ out' = [out EXCEPT !.pending = <<>>, !.at = "idle", !.stopped = IF out.at = "record" THEN @ + 1 ELSE @]
    /\ UNCHANGED <<job, pc>>
\* A file is added, removed or rewritten, also while a call runs: the call has read it.
EditDir ==
    /\ Is("ledger", "start") /\ out.edits < MaxEdits
    /\ \E f \in LedgerFiles :
         LET others == {g \in out.dir : FileName(g) # FileName(f)}
         IN \E dir \in {others, others \cup {f}} :
              dir # out.dir /\ out' = [out EXCEPT !.dir = dir, !.edits = @ + 1]
    /\ UNCHANGED <<job, pc>>

\* What is recorded was executed, as recorded, and in the order of its numbers, however the
\* directory changed and wherever calls stopped: storage/ledger.rs, the checks of
\* apply_migrations.
LedgerOrdered ==
    job.kind = "ledger" =>
        \A i \in DOMAIN out.recorded :
            /\ \E e \in DOMAIN out.log : out.log[e].f = out.recorded[i]
            /\ \A j \in 1 .. i - 1 : out.recorded[j].num < out.recorded[i].num
\* At least once, and once more only for a call that stopped between a file's execution
\* and its record: storage/ledger.rs, the fail point before the record.
LedgerReruns ==
    job.kind = "ledger" =>
        /\ Len(out.log) = Len(out.recorded) + out.stopped + (IF out.at = "record" THEN 1 ELSE 0)
        /\ \A e \in DOMAIN out.log : ~IsRecorded(out.log[e].f, out.log[e].then)
LedgerInit == job = [kind |-> "ledger"] /\ pc = "start" /\ out = LedgerStart
LedgerNext == BeginApply \/ ExecFile \/ RecordFile \/ StopApply \/ EditDir
\* The ledger as a whole (storage/ledger.rs): at least once, in order, and again only after
\* an interruption.
LedgerRight == LedgerOrdered /\ LedgerReruns
=============================================================================

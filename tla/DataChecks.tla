----------------------------- MODULE DataChecks -----------------------------
(***************************************************************************)
(* The checks of the sequential code together: each initial state is a job  *)
(* of one part, and only that part's actions run it.                        *)
(***************************************************************************)
EXTENDS AggJobs, RegexpJobs, ManifestJobs, SqlJobs, IngestJobs, Ledger

Init == \/ TypeInit \/ SegmentInit \/ ExprInit \/ RegexpInit \/ AggInit
        \/ ManifestInit \/ SqlInit \/ IngestInit \/ LedgerInit
Next == \/ TypeNext \/ SegmentNext \/ ExprNext \/ RegexpNext \/ AggNext
        \/ ManifestNext \/ SqlNext \/ IngestNext \/ LedgerNext
Spec == Init /\ [][Next]_vars
=============================================================================

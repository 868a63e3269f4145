---------------------------- MODULE MCTableStore ----------------------------
(***************************************************************************)
(* Instances of TableStore for TLC: the rows, the clause lists of ALTER    *)
(* TABLE and the optional operations each run gives its clients.  Rows and *)
(* workers differ only in name.                                            *)
(***************************************************************************)
EXTENDS TableStore, TLC

CONSTANTS r1, r2, w1, w2

ColumnsAB == {<<"a", "b">>}
EitherOrder == {<<"a", "b">>, <<"b", "a">>}

OneRow == {r1}
TwoRows == {r1, r2}
OneWorker == {w1}
TwoWorkers == {w1, w2}

\* DELETE WHERE matching every row, written so far or not.
DeleteAll == {Rows}

\* Drop and re-add b; sort by b, which rewrites every segment.
Readd   == <<[op |-> "drop", col |-> "b"], [op |-> "add", col |-> "b"]>>
Resort  == <<[op |-> "order_by", col |-> "b"]>>
\* The names a and b change places.
Exchange == <<[op |-> "rename", col |-> "a", to |-> "c"],
              [op |-> "rename", col |-> "b", to |-> "a"],
              [op |-> "rename", col |-> "c", to |-> "b"]>>
NoAlters == {}
ReuseAlters == {Readd, Exchange}
SortAlters == {Resort}

RevertOps == {"revert", "truncate"}
RewriteOps == {"compact", "cancel", "reopen"}
LifecycleOps == {"compact", "truncate", "drop", "undrop", "expire", "gc", "reopen"}
RecreateOps == {"drop", "revert"}

Symmetry == Permutations(Rows) \union Permutations(Workers)
=============================================================================

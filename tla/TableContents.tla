--------------------------- MODULE TableContents ---------------------------
(***************************************************************************)
(* What the store promises a reader, with no segments in it: each live     *)
(* name has its rows, with the number of times a scan returns each, and    *)
(* each dropped definition keeps its own.  Rows enter by a flush, once,    *)
(* and are changed by nothing but the statement a client asked for or the  *)
(* expiry of a dropped definition: `asked` says which, and every step that *)
(* is none of these changes nothing.                                       *)
(***************************************************************************)
EXTENDS Naturals

CONSTANTS Names, Rows

VARIABLES
    live,      \* the live names: how often a scan of the table returns each row
    dropped,   \* definitions UNDROP can bring back: [name, rows, at]
    inserted,  \* every row ever inserted
    asked      \* what the last step was asked to change

vars == <<live, dropped, inserted, asked>>

Unasked == [op |-> "none"]
NoRows == [r \in Rows |-> 0]

With(f, n, v) == [m \in DOMAIN f \union {n} |-> IF m = n THEN v ELSE f[m]]
Without(f, n) == [m \in DOMAIN f \ {n} |-> f[m]]

Init ==
    /\ live = [n \in {} |-> NoRows]
    /\ dropped = {}
    /\ inserted = {}
    /\ asked = Unasked

Create(n) ==
    /\ asked' = [op |-> "create", table |-> n]
    /\ n \notin DOMAIN live
    /\ live' = With(live, n, NoRows)
    /\ UNCHANGED <<dropped, inserted>>

\* One flush: the rows of all its tables appear together, each for the first
\* time and once.
Insert(new) ==
    /\ asked' = Unasked
    /\ \A n \in DOMAIN new : new[n] \intersect inserted = {}
    /\ live' = [n \in DOMAIN live |->
                  IF n \in DOMAIN new
                    THEN [r \in Rows |-> IF r \in new[n] THEN 1 ELSE live[n][r]]
                    ELSE live[n]]
    /\ inserted' = inserted \union UNION {new[n] : n \in DOMAIN new}
    /\ UNCHANGED dropped

\* A DELETE removes the rows its predicate matches and no other.
Delete(n, kills) ==
    /\ asked' = [op |-> "delete", table |-> n, rows |-> kills]
    /\ live' = With(live, n, [r \in Rows |-> IF r \in kills THEN 0 ELSE live[n][r]])
    /\ UNCHANGED <<dropped, inserted>>

Truncate(n) ==
    /\ asked' = [op |-> "truncate", table |-> n]
    /\ live' = With(live, n, NoRows)
    /\ UNCHANGED <<dropped, inserted>>

Drop(n) ==
    /\ asked' = [op |-> "drop", table |-> n]
    /\ live' = Without(live, n)
    /\ \E d \in dropped' :
         /\ d.name = n /\ d.rows = live[n]
         /\ \A e \in dropped : e.at < d.at
         /\ dropped' = dropped \union {d}
    /\ UNCHANGED inserted

\* The last definition dropped under the name comes back as it was.
Undrop(d) ==
    /\ asked' = [op |-> "undrop", table |-> d.name]
    /\ d.name \notin DOMAIN live
    /\ \A e \in dropped : e.name = d.name => e.at <= d.at
    /\ live' = With(live, d.name, d.rows)
    /\ dropped' = dropped \ {d}
    /\ UNCHANGED inserted

\* gc gives up the dropped definitions that are old enough, and no other.
Expire ==
    /\ \E old \in SUBSET {d.at : d \in dropped} :
         /\ asked' = [op |-> "expire", dropped |-> old]
         /\ dropped' = {d \in dropped : d.at \notin old}
    /\ UNCHANGED <<live, inserted>>

\* Everything else the store does.
Quiet ==
    /\ asked' = Unasked
    /\ UNCHANGED <<live, dropped, inserted>>

Next ==
    \/ \E n \in Names : Create(n)
    \/ \E n \in DOMAIN live : Truncate(n) \/ Drop(n)
    \/ \E n \in DOMAIN live, kills \in SUBSET Rows : Delete(n, kills)
    \/ \E ns \in SUBSET DOMAIN live : \E new \in [ns -> SUBSET Rows] : Insert(new)
    \/ \E d \in dropped : Undrop(d)
    \/ Expire
    \/ Quiet

Spec == Init /\ [][Next]_vars
=============================================================================

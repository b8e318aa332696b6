------------------------------ MODULE PriceHistory ------------------------------
(***************************************************************************)
(* What db.Store promises of the raw and the averaged rows of              *)
(* prices_history (internal/db/db.go, the interface's comments): a raw row *)
(* is added by InsertRate, and ConsolidateDay replaces all raw rows of a   *)
(* day by one average row, in one step.                                    *)
(*                                                                         *)
(* A price is not a number here.  A raw row stands for the fetch that      *)
(* observed it, an average row for the set of fetches it was computed of.  *)
(***************************************************************************)
EXTENDS Integers, FiniteSets

CONSTANTS
    Currency,   \* the currencies that are consolidated
    Day,        \* calendar days in UTC-4
    Fetch       \* the fetches, by number

VARIABLE rows   \* the committed rows of prices_history

Row == [currency : Currency, day : Day, average : BOOLEAN, of : SUBSET Fetch]

\* The rows of a currency in the window of a day: what GetHistory answers.
RowsOfDay(c, d) == {r \in rows : r.currency = c /\ r.day = d}
RawRows(c, d) == {r \in RowsOfDay(c, d) : ~r.average}
AverageRows(c, d) == {r \in RowsOfDay(c, d) : r.average}

RawRow(c, d, f) == [currency |-> c, day |-> d, average |-> FALSE, of |-> {f}]
AverageRow(c, d, fs) == [currency |-> c, day |-> d, average |-> TRUE, of |-> fs]

Init == rows = {}

\* A price observed on a day that has not been consolidated yet.
Record(c, d, f) ==
    /\ AverageRows(c, d) = {}
    /\ rows' = rows \cup {RawRow(c, d, f)}

\* All raw rows of a day give way to the average of them all.
Consolidate(c, d) ==
    /\ RawRows(c, d) # {}
    /\ rows' = (rows \ RowsOfDay(c, d))
                 \cup {AverageRow(c, d, UNION {r.of : r \in RawRows(c, d)})}

Next ==
    \E c \in Currency, d \in Day :
        \/ \E f \in Fetch : Record(c, d, f)
        \/ Consolidate(c, d)

Spec == Init /\ [][Next]_rows
================================================================================

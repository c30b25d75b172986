---------------------------- MODULE AlertLedger ----------------------------
(***************************************************************************)
(* What the alert table promises the dashboard that reads it: an alert is  *)
(* opened at most once at a time for each condition, is closed once, and   *)
(* keeps its beginning and its end for ever.                               *)
(***************************************************************************)
EXTENDS Naturals, Sequences

CONSTANTS Conds, Times

VARIABLE rows       \* alert_events, in the order written; cleared = 0: open

Row == [cond : Conds, since : Times, cleared : Times \cup {0}]

OpenRows(c) == {i \in DOMAIN rows : rows[i].cond = c /\ rows[i].cleared = 0}

Init == rows = <<>>

\* A row more: an alert that opens, or an episode that is over before the table
\* could be written.
Writes ==
    /\ Len(rows') = Len(rows) + 1
    /\ \E row \in Row : /\ rows' = Append(rows, row)
                        /\ row.cleared = 0 => OpenRows(row.cond) = {}

Closes(i) ==
    /\ rows[i].cleared = 0
    /\ \E t \in Times \ {0} : rows' = [rows EXCEPT ![i].cleared = t]

Next == Writes \/ \E i \in DOMAIN rows : Closes(i)

Spec == Init /\ [][Next]_rows
=============================================================================

------------------------------- MODULE Pages -------------------------------
(***************************************************************************)
(* What a paginated query promises while other processes change the table: *)
(* a client that follows nextCursor to the end has seen every row that was *)
(* there all the time, and no row twice.  A page is the first rows, in the *)
(* order of their keys, after the cursor; the cursor is the key of the     *)
(* last row of the page before.  A server may also refuse to continue.     *)
(***************************************************************************)
EXTENDS PageOrder

VARIABLES
    table,      \* the keys of the rows the query matches now
    cursor,     \* key of the last row sent
    reported,   \* the keys sent so far
    sent,       \* how many rows were sent
    kept,       \* the keys that were in the table since the scan began
    status      \* "open", "done" or "refused"

vars == <<table, cursor, reported, sent, kept, status>>

Remaining == {k \in table : cursor = Start \/ Before(cursor, k)}

\* The first keys of a set, and the last of them.
FirstOf(page, rows) == \A k \in page, other \in rows \ page : Before(k, other)
LastOf(k, page) == k \in page /\ \A other \in page : other = k \/ Before(other, k)

Init ==
    /\ table \in SUBSET Keys
    /\ cursor = Start
    /\ reported = {}
    /\ sent = 0
    /\ kept = table
    /\ status = "open"

Store ==
    /\ table' \in SUBSET Keys
    /\ kept' = kept \cap table'
    /\ UNCHANGED <<cursor, reported, sent, status>>

Send(page) ==
    /\ reported' = reported \cup page
    /\ sent' = sent + Cardinality(page)
    /\ UNCHANGED <<table, kept>>

\* A full page, with the cursor of its last row.
SendPage(page) ==
    /\ status = "open"
    /\ page # Remaining
    /\ FirstOf(page, Remaining)
    /\ Cardinality(page) <= MaxLimit
    /\ \E k \in page : LastOf(k, page) /\ cursor' = k
    /\ Send(page)
    /\ UNCHANGED status

\* What remains fits the limit.
SendLast ==
    /\ status = "open"
    /\ Cardinality(Remaining) <= MaxLimit
    /\ Send(Remaining)
    /\ status' = "done"
    /\ UNCHANGED cursor

Refuse ==
    /\ status = "open"
    /\ status' = "refused"
    /\ UNCHANGED <<table, cursor, reported, sent, kept>>

Next ==
    \/ Store
    \/ \E page \in SUBSET Remaining : SendPage(page)
    \/ SendLast
    \/ Refuse

Spec == Init /\ [][Next]_vars

-----------------------------------------------------------------------------
\* A row that was there all the time is among the rows of the pages: no store
\* between two pages makes the cursor step over it.
NoRowSkipped == status = "done" => kept \subseteq reported

\* No row is on two pages, even if it was removed and stored again meanwhile.
NoRowTwice == sent = Cardinality(reported)
=============================================================================

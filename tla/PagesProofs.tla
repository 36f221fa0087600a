---------------------------- MODULE PagesProofs ----------------------------
(***************************************************************************)
(* A scan in pages skips and repeats no row, for every set of keys, order, *)
(* limit and sequence of stores.  The inductive invariant says what the    *)
(* cursor means: everything sent is at or before it, and every row that    *)
(* stayed and is not sent yet is after it.                                 *)
(***************************************************************************)
EXTENDS Pages, FiniteSetTheorems, TLAPS

TypeInv ==
    /\ table \in SUBSET Keys
    /\ cursor \in Keys \cup {Start}
    /\ reported \in SUBSET Keys
    /\ sent \in Nat
    /\ kept \in SUBSET table
    /\ status \in {"open", "done", "refused"}

UpToCursor(k) == cursor # Start /\ (k = cursor \/ Before(k, cursor))

SentUpToCursor == status = "open" => \A k \in reported : UpToCursor(k)

KeptUpToCursor == status = "open" => \A k \in kept : UpToCursor(k) => k \in reported

PagesInv ==
    /\ TypeInv
    /\ SentUpToCursor
    /\ KeptUpToCursor
    /\ NoRowSkipped
    /\ NoRowTwice

\* Every set of keys is finite, so that pages can be counted.
LEMMA FiniteKeys ==
    ASSUME NEW S \in SUBSET Keys
    PROVE  IsFiniteSet(S) /\ Cardinality(S) \in Nat
<1>1. IsFiniteSet(S)
  BY KeysAssumption, FS_Subset
<1> QED
  BY <1>1, FS_CardinalityType

\* Sending rows that were not sent before adds up.
LEMMA SendCounts ==
    ASSUME PagesInv, NEW page \in SUBSET Keys, page \cap reported = {}, Send(page)
    PROVE  NoRowTwice' /\ reported' \in SUBSET Keys /\ sent' \in Nat
<1>1. reported \in SUBSET Keys /\ sent \in Nat /\ sent = Cardinality(reported)
  BY DEF PagesInv, TypeInv, NoRowTwice
<1>2. IsFiniteSet(page) /\ IsFiniteSet(reported)
  BY <1>1, FiniteKeys
<1>3. Cardinality(reported \cup page) =
        Cardinality(reported) + Cardinality(page) - Cardinality(reported \cap page)
  BY <1>2, FS_Union
<1>4. reported \cap page = {} /\ Cardinality({}) = 0
  BY FS_EmptySet
<1>5. Cardinality(page) \in Nat
  BY FiniteKeys
<1> QED
  BY <1>1, <1>3, <1>4, <1>5 DEF Send, NoRowTwice

\* What remains was never sent.
LEMMA RemainingIsNew ==
    ASSUME PagesInv, status = "open"
    PROVE  Remaining \in SUBSET Keys /\ Remaining \cap reported = {}
<1>1. Remaining \in SUBSET Keys
  BY DEF PagesInv, TypeInv, Remaining
<1>2. ASSUME NEW k \in Remaining, k \in reported PROVE FALSE
  <2>1. UpToCursor(k) /\ k \in Keys /\ cursor \in Keys \cup {Start}
    BY <1>1, <1>2 DEF PagesInv, SentUpToCursor, TypeInv
  <2>2. cursor \in Keys /\ Before(cursor, k)
    BY <1>2, <2>1 DEF UpToCursor, Remaining
  <2>3. CASE k = cursor
    BY <2>1, <2>2, <2>3, OrderAssumption
  <2>4. CASE Before(k, cursor)
    BY <2>1, <2>2, <2>4, OrderAssumption
  <2> QED
    BY <2>1, <2>3, <2>4 DEF UpToCursor
<1> QED
  BY <1>1, <1>2

LEMMA InitEstablishes == Init => PagesInv
<1> SUFFICES ASSUME Init PROVE PagesInv
  OBVIOUS
<1>1. TypeInv
  BY DEF Init, TypeInv
<1>2. SentUpToCursor /\ KeptUpToCursor /\ NoRowSkipped
  BY DEF Init, SentUpToCursor, KeptUpToCursor, NoRowSkipped, UpToCursor
<1>3. NoRowTwice
  BY FS_EmptySet DEF Init, NoRowTwice
<1> QED
  BY <1>1, <1>2, <1>3 DEF PagesInv

LEMMA SendPageKeeps ==
    ASSUME PagesInv, NEW page \in SUBSET Remaining, SendPage(page)
    PROVE  PagesInv'
<1> USE DEF SendPage
<1>1. Remaining \in SUBSET Keys /\ page \in SUBSET Keys /\ page \cap reported = {}
  BY RemainingIsNew
<1>2. NoRowTwice' /\ reported' \in SUBSET Keys /\ sent' \in Nat
  BY <1>1, SendCounts
<1>3. PICK last \in page : LastOf(last, page) /\ cursor' = last
  OBVIOUS
<1>4. last \in Keys /\ last \in Remaining /\ cursor' # Start /\ cursor' = last
  BY <1>1, <1>3, KeysAssumption
<1>5. TypeInv'
  BY <1>2, <1>4 DEF PagesInv, TypeInv, Send
<1>6. ASSUME NEW k \in Keys, UpToCursor(k) PROVE Before(k, last)
  <2>1. cursor \in Keys /\ Before(cursor, last)
    BY <1>4, <1>6 DEF UpToCursor, Remaining, PagesInv, TypeInv
  <2> QED
    BY <1>4, <1>6, <2>1, OrderAssumption DEF UpToCursor
<1>7. SentUpToCursor'
  <2> SUFFICES ASSUME NEW k \in reported' PROVE k = last \/ Before(k, last)
    BY <1>4 DEF SentUpToCursor, UpToCursor
  <2>1. CASE k \in page
    BY <1>3, <2>1 DEF LastOf
  <2>2. CASE k \in reported
    <3>1. k \in Keys /\ UpToCursor(k)
      BY <2>2 DEF PagesInv, TypeInv, SentUpToCursor
    <3> QED
      BY <3>1, <1>6
  <2> QED
    BY <2>1, <2>2 DEF Send
<1>8. KeptUpToCursor'
  <2> SUFFICES ASSUME NEW k \in kept, k = last \/ Before(k, last) PROVE k \in reported \cup page
    BY <1>4 DEF KeptUpToCursor, UpToCursor, Send
  <2>1. k \in table /\ k \in Keys /\ cursor \in Keys \cup {Start}
    BY DEF PagesInv, TypeInv
  <2>2. CASE k \in Remaining
    <3>1. SUFFICES ASSUME k \notin page PROVE FALSE
      OBVIOUS
    <3>2. Before(last, k) /\ last # k
      BY <1>3, <2>2, <3>1 DEF FirstOf
    <3> QED
      BY <1>4, <2>1, <3>2, OrderAssumption
  <2>3. CASE k \notin Remaining
    <3>1. cursor \in Keys /\ ~Before(cursor, k)
      BY <2>1, <2>3 DEF Remaining
    <3>2. UpToCursor(k)
      BY <2>1, <3>1, OrderAssumption, KeysAssumption DEF UpToCursor
    <3> QED
      BY <3>2 DEF PagesInv, KeptUpToCursor
  <2> QED
    BY <2>2, <2>3
<1>9. NoRowSkipped'
  BY DEF NoRowSkipped
<1> QED
  BY <1>2, <1>5, <1>7, <1>8, <1>9 DEF PagesInv

LEMMA SendLastKeeps ==
    ASSUME PagesInv, SendLast
    PROVE  PagesInv'
<1> USE DEF SendLast
<1>1. Remaining \in SUBSET Keys /\ Remaining \cap reported = {}
  BY RemainingIsNew
<1>2. NoRowTwice' /\ reported' \in SUBSET Keys /\ sent' \in Nat
  BY <1>1, SendCounts
<1>3. TypeInv'
  BY <1>2 DEF PagesInv, TypeInv, Send
<1>4. SentUpToCursor' /\ KeptUpToCursor'
  BY DEF SentUpToCursor, KeptUpToCursor
<1>5. NoRowSkipped'
  <2> SUFFICES ASSUME NEW k \in kept PROVE k \in reported \cup Remaining
    BY DEF NoRowSkipped, Send
  <2>1. k \in table /\ k \in Keys /\ cursor \in Keys \cup {Start}
    BY DEF PagesInv, TypeInv
  <2>2. CASE k \notin Remaining
    <3>1. cursor \in Keys /\ ~Before(cursor, k)
      BY <2>1, <2>2 DEF Remaining
    <3>2. UpToCursor(k)
      BY <2>1, <3>1, OrderAssumption, KeysAssumption DEF UpToCursor
    <3> QED
      BY <3>2 DEF PagesInv, KeptUpToCursor
  <2> QED
    BY <2>2
<1> QED
  BY <1>2, <1>3, <1>4, <1>5 DEF PagesInv

LEMMA StoreKeeps ==
    ASSUME PagesInv, Store
    PROVE  PagesInv'
<1> USE DEF Store
<1>1. TypeInv'
  BY DEF PagesInv, TypeInv
<1>2. SentUpToCursor' /\ KeptUpToCursor' /\ NoRowSkipped' /\ NoRowTwice'
  BY DEF PagesInv, SentUpToCursor, KeptUpToCursor, UpToCursor, NoRowSkipped, NoRowTwice
<1> QED
  BY <1>1, <1>2 DEF PagesInv

LEMMA RefuseKeeps ==
    ASSUME PagesInv, Refuse
    PROVE  PagesInv'
BY DEF Refuse, PagesInv, TypeInv, SentUpToCursor, KeptUpToCursor, NoRowSkipped, NoRowTwice

\* The scan's invariant holds in every state.
THEOREM ScanInvariant == Spec => []PagesInv
<1>1. ASSUME PagesInv, [Next]_vars PROVE PagesInv'
  <2>1. CASE Store
    BY <1>1, <2>1, StoreKeeps
  <2>2. ASSUME NEW page \in SUBSET Remaining, SendPage(page) PROVE PagesInv'
    BY <1>1, <2>2, SendPageKeeps
  <2>3. CASE SendLast
    BY <1>1, <2>3, SendLastKeeps
  <2>4. CASE Refuse
    BY <1>1, <2>4, RefuseKeeps
  <2>5. CASE UNCHANGED vars
    BY <1>1, <2>5 DEF vars, PagesInv, TypeInv, SentUpToCursor, KeptUpToCursor, UpToCursor,
                      NoRowSkipped, NoRowTwice
  <2> QED
    BY <1>1, <2>1, <2>2, <2>3, <2>4, <2>5 DEF Next
<1> QED
  BY InitEstablishes, <1>1, PTL DEF Spec

\* A finished scan has sent every row that stayed in the table.
THEOREM PagesSkipNothing == Spec => []NoRowSkipped
<1>1. PagesInv => NoRowSkipped
  BY DEF PagesInv
<1> QED
  BY <1>1, ScanInvariant, PTL

\* A scan sends no row twice.
THEOREM PagesRepeatNothing == Spec => []NoRowTwice
<1>1. PagesInv => NoRowTwice
  BY DEF PagesInv
<1> QED
  BY <1>1, ScanInvariant, PTL
=============================================================================

----------------------------- MODULE PageOrder -----------------------------
(***************************************************************************)
(* The order of a paginated query: a unique key for every row, ordered by  *)
(* its ORDER BY clause, and the largest page a client may ask for.         *)
(***************************************************************************)
EXTENDS Integers, FiniteSets

CONSTANTS
    Keys,           \* the keys rows can have
    Before(_, _),   \* the ORDER BY of the query
    Start,          \* no cursor yet
    MaxLimit        \* the largest page

ASSUME KeysAssumption == IsFiniteSet(Keys) /\ Start \notin Keys

ASSUME OrderAssumption ==
    /\ \A a \in Keys : ~Before(a, a)
    /\ \A a, b \in Keys : a # b => Before(a, b) \/ Before(b, a)
    /\ \A a, b, c \in Keys : Before(a, b) /\ Before(b, c) => Before(a, c)

ASSUME LimitAssumption == MaxLimit \in Nat \ {0}
=============================================================================

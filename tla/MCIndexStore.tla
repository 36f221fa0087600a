---------------------------- MODULE MCIndexStore ----------------------------
(***************************************************************************)
(* A small tree for IndexStore: two sources that include one header.  The  *)
(* header is preprocessed differently by each of them (two fingerprints,   *)
(* with a row of the same key and another value), and can be opened as a   *)
(* main file itself.                                                       *)
(***************************************************************************)
EXTENDS IndexStore, TLC

MCIncludes(m) == {"x.h"} \ {m}

\* k1 and k2 are primary keys; a value names the compiling source and stamp.
MCFiles == {"a.c", "b.c", "x.h"}

E(rows, facts) == [rows |-> rows, facts |-> facts]

R(k, m, s) == [key |-> k, val |-> <<m, s>>]

\* A source emits a row of its own.  a.c sees one record of the header and
\* b.c two, the first under the same key; the header emits one fact only when
\* it is compiled itself.
MCEmit(m, f, s) ==
    IF f = m
    THEN {E({R("k1", m, s)}, IF f = "x.h" THEN {s} ELSE {})}
    ELSE IF m = "a.c" THEN {E({R("k1", m, s)}, {})}
    ELSE {E({R("k1", m, s), R("k2", m, s)}, {})}

\* The same tree, but the second edition of the header is empty (a comment, or
\* everything #if 0'ed out).
MCEmitEmptied(m, f, s) ==
    IF f = "x.h" /\ m # f /\ s = 2 THEN {NoEmission} ELSE MCEmit(m, f, s)

\* One source and its header, enough for a stale hit and its retry.
MCFewFiles == {"a.c", "x.h"}

MCSource == {"a.c"}

MCVals == MCFiles \X (0 .. 3)
MCFacts == 0 .. 3
MCSymmetry == Permutations(Writers)
=============================================================================

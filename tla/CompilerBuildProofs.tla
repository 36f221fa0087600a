------------------------ MODULE CompilerBuildProofs ------------------------
(***************************************************************************)
(* What a build with semindex cc guarantees for every build, with lines of *)
(* every length, checked by TLAPS: a line is indexed if and only if it     *)
(* compiles one source, the records of a file come from lines that compile *)
(* it, and a line comes out of commands.db as it went in.                  *)
(*                                                                         *)
(* The operators on lines are folds, so what they do is shown by induction *)
(* on the prefixes of a line.  The library's induction theorems cannot be  *)
(* instantiated here; the least element of a set of numbers (WFMin) can.   *)
(***************************************************************************)
EXTENDS CompilerBuild, IndexUpdateProofs, SequenceTheorems, FiniteSetTheorems, WellFoundedInduction

-----------------------------------------------------------------------------
(* Recursion.                                                               *)

\* Natural numbers are well-ordered, so a set that is closed under successors
\* has all of them.
LEMMA Induction ==
    ASSUME NEW S, 0 \in S, \A n \in Nat : n \in S => n + 1 \in S
    PROVE  Nat \subseteq S
<1> SUFFICES ASSUME NEW m \in Nat, m \notin S PROVE FALSE
  OBVIOUS
<1> DEFINE T == Nat \ S
           R == OpToRel(<, Nat)
<1>1. IsWellFoundedOn(R, Nat)
  BY NatLessThanWellFounded
<1>2. PICK x \in T : \A y \in T : ~(<<y, x>> \in R)
  <2> HIDE DEF R
  <2>1. T \subseteq Nat /\ T # {}
    OBVIOUS
  <2> HIDE DEF T
  <2> QED BY <1>1, <2>1, WFMin
<1>3. x # 0 /\ x - 1 \in Nat /\ x - 1 \in T
  OBVIOUS
<1>4. <<x - 1, x>> \in R
  BY <1>3 DEF OpToRel
<1> QED BY <1>2, <1>3, <1>4

\* A set of numbers with a greatest element has it as its maximum.
LEMMA MaxIsGreatest ==
    ASSUME NEW s \in SUBSET Nat, NEW n \in s, \A y \in s : n >= y
    PROVE  Max(s) = n
<1> DEFINE P(x) == \A y \in s : x >= y
<1>1. \A x \in s : P(x) => x = n
  OBVIOUS
<1>2. P(CHOOSE x \in s : P(x)) /\ (CHOOSE x \in s : P(x)) \in s
  <2> P(n)
    OBVIOUS
  <2> HIDE DEF P
  <2> QED OBVIOUS
<1>3. Max(s) = CHOOSE x \in s : P(x)
  BY DEF Max
<1> HIDE DEF P
<1> QED BY <1>1, <1>2, <1>3

\* And one with a least element has it as its minimum.
LEMMA MinIsLeast ==
    ASSUME NEW s \in SUBSET Nat, NEW n \in s, \A y \in s : n <= y
    PROVE  Min(s) = n
<1> DEFINE P(x) == \A y \in s : x <= y
<1>1. \A x \in s : P(x) => x = n
  OBVIOUS
<1>2. P(CHOOSE x \in s : P(x)) /\ (CHOOSE x \in s : P(x)) \in s
  <2> P(n)
    OBVIOUS
  <2> HIDE DEF P
  <2> QED OBVIOUS
<1>3. Min(s) = CHOOSE x \in s : P(x)
  BY DEF Min
<1> HIDE DEF P
<1> QED BY <1>1, <1>2, <1>3

\* Every set of numbers that is not empty has its minimum in it.
LEMMA MinIsMember ==
    ASSUME NEW s \in SUBSET Nat, s # {}
    PROVE  Min(s) \in s /\ \A y \in s : Min(s) <= y
<1> DEFINE R == OpToRel(<, Nat)
<1>1. IsWellFoundedOn(R, Nat)
  BY NatLessThanWellFounded
<1>2. PICK x \in s : \A y \in s : ~(<<y, x>> \in R)
  <2> HIDE DEF R
  <2> QED BY <1>1, WFMin
<1>3. \A y \in s : x <= y
  <2> SUFFICES ASSUME NEW y \in s, y < x PROVE FALSE
    OBVIOUS
  <2>1. <<y, x>> \in R
    BY DEF OpToRel
  <2> QED BY <1>2, <2>1
<1>4. Min(s) = x
  BY <1>3, MinIsLeast
<1> QED BY <1>3, <1>4

\* Every set of numbers up to n that is not empty has its maximum in it.
LEMMA MaxIsMember ==
    ASSUME NEW n \in Nat, NEW s \in SUBSET (1 .. n), s # {}
    PROVE  Max(s) \in s
<1> DEFINE T == {k \in Nat : \A t \in SUBSET (1 .. k) : t # {} => \E m \in t : \A y \in t : m >= y}
<1>1. 0 \in T
  <2> \A t \in SUBSET (1 .. 0) : t = {}
    OBVIOUS
  <2> QED OBVIOUS
<1>2. ASSUME NEW k \in Nat, k \in T PROVE k + 1 \in T
  <2> SUFFICES ASSUME NEW t \in SUBSET (1 .. k + 1), t # {} PROVE \E m \in t : \A y \in t : m >= y
    OBVIOUS
  <2>1. CASE k + 1 \in t
    BY <2>1
  <2>2. CASE k + 1 \notin t
    <3>1. t \in SUBSET (1 .. k)
      BY <2>2
    <3> QED BY <1>2, <3>1
  <2> QED BY <2>1, <2>2
<1>3. n \in T
  <2> HIDE DEF T
  <2> QED BY <1>1, <1>2, Induction
<1>4. PICK m \in s : \A y \in s : m >= y
  BY <1>3
<1> QED BY <1>4, MaxIsGreatest

\* The folds of the library are functions on the subsets of a domain, which
\* take its greatest element last.
IsFold(g, S, base, step, n) ==
    /\ g \in [SUBSET (1 .. n) -> S]
    /\ \A s \in SUBSET (1 .. n) :
          g[s] = IF s = {} THEN base ELSE step[<<Max(s), g[s \ {Max(s)}]>>]

\* Such functions exist.
LEMMA FoldExists ==
    ASSUME NEW S, NEW base \in S, NEW step \in [Nat \X S -> S], NEW n \in Nat
    PROVE  \E g : IsFold(g, S, base, step, n)
<1> DEFINE Folds(g, k) == IsFold(g, S, base, step, k)
           T == {k \in Nat : \E g : Folds(g, k)}
<1>1. 0 \in T
  <2> DEFINE g == [s \in SUBSET (1 .. 0) |-> base]
  <2>1. \A s \in SUBSET (1 .. 0) : s = {}
    OBVIOUS
  <2>2. Folds(g, 0)
    BY <2>1 DEF IsFold
  <2> QED BY <2>2
<1>2. ASSUME NEW k \in Nat, k \in T PROVE k + 1 \in T
  <2>1. PICK g : Folds(g, k)
    BY <1>2
  <2> DEFINE h == [s \in SUBSET (1 .. k + 1) |->
                      IF k + 1 \in s THEN step[<<k + 1, g[s \ {k + 1}]>>] ELSE g[s]]
  <2>2. \A s \in SUBSET (1 .. k + 1) : s \ {k + 1} \in SUBSET (1 .. k) /\ (k + 1 \notin s => s \in SUBSET (1 .. k))
    OBVIOUS
  <2>3. h \in [SUBSET (1 .. k + 1) -> S]
    BY <2>1, <2>2 DEF IsFold
  <2>4. ASSUME NEW s \in SUBSET (1 .. k + 1)
        PROVE  h[s] = IF s = {} THEN base ELSE step[<<Max(s), h[s \ {Max(s)}]>>]
    <3>1. CASE k + 1 \in s
      <4>1. Max(s) = k + 1 /\ s \ {k + 1} \in SUBSET (1 .. k + 1) /\ k + 1 \notin s \ {k + 1}
        BY <3>1, MaxIsGreatest
      <4> QED BY <3>1, <4>1 DEF IsFold
    <3>2. CASE k + 1 \notin s
      <4>1. s \in SUBSET (1 .. k) /\ h[s] = g[s]
        BY <2>2, <3>2
      <4>2. s \ {Max(s)} \in SUBSET (1 .. k + 1) /\ h[s \ {Max(s)}] = g[s \ {Max(s)}]
        BY <3>2
      <4> QED BY <2>1, <4>1, <4>2 DEF IsFold
    <3> QED BY <3>1, <3>2
  <2> HIDE DEF h
  <2>5. Folds(h, k + 1)
    BY <2>3, <2>4 DEF IsFold
  <2> HIDE DEF Folds
  <2> QED BY <2>5
<1> HIDE DEF Folds
<1>3. n \in T
  <2> HIDE DEF T
  <2> QED BY <1>1, <1>2, Induction
<1> QED BY <1>3 DEF Folds


\* The intervals by their last element.
LEMMA Intervals ==
    /\ 1 .. 0 = {}
    /\ \A n \in Nat : \A k \in 1 .. n :
          /\ 1 .. k \in SUBSET (1 .. n) /\ 1 .. k # {}
          /\ Max(1 .. k) = k
          /\ (1 .. k) \ {k} = 1 .. (k - 1)
          /\ 1 .. (k - 1) \in SUBSET (1 .. n)
<1>1. ASSUME NEW n \in Nat, NEW k \in 1 .. n PROVE Max(1 .. k) = k
  <2> DEFINE s == 1 .. k
  <2>1. s \in SUBSET Nat /\ k \in s /\ \A y \in s : k >= y
    OBVIOUS
  <2> HIDE DEF s
  <2>2. Max(s) = k
    BY <2>1, MaxIsGreatest
  <2> QED BY <2>2 DEF s
<1> QED BY <1>1

\* A function that is defined by recursion on numbers.
IsRun(g, S, base, step, n) ==
    /\ g \in [0 .. n -> S]
    /\ g[0] = base
    /\ \A k \in 1 .. n : g[k] = step[<<k, g[k - 1]>>]

\* There is one.
LEMMA RunExists ==
    ASSUME NEW S, NEW base \in S, NEW step \in [Nat \X S -> S], NEW n \in Nat
    PROVE  \E g : IsRun(g, S, base, step, n)
<1>1. PICK f : IsFold(f, S, base, step, n)
  BY FoldExists
<1> DEFINE g == [k \in 0 .. n |-> f[1 .. k]]
<1>2. g \in [0 .. n -> S]
  BY <1>1 DEF IsFold
<1>3. g[0] = base
  <2>1. f[{}] = base
    BY <1>1 DEF IsFold
  <2>2. 1 .. 0 = {}
    OBVIOUS
  <2>3. g[0] = f[1 .. 0]
    OBVIOUS
  <2> HIDE DEF g
  <2> QED BY <2>1, <2>2, <2>3
<1>4. ASSUME NEW k \in 1 .. n PROVE g[k] = step[<<k, g[k - 1]>>]
  <2> DEFINE s == 1 .. k
  <2>1. s \in SUBSET (1 .. n) /\ s # {} /\ Max(s) = k /\ s \ {k} = 1 .. (k - 1)
    BY Intervals
  <2> HIDE DEF s
  <2>2. f[s] = step[<<k, f[1 .. (k - 1)]>>]
    BY <1>1, <2>1 DEF IsFold
  <2>3. k \in 0 .. n /\ k - 1 \in 0 .. n
    OBVIOUS
  <2> QED BY <2>2, <2>3 DEF s
<1> HIDE DEF g
<1>5. IsRun(g, S, base, step, n)
  BY <1>2, <1>3, <1>4 DEF IsRun
<1> QED BY <1>5

\* What steps as long as it is in S, stays in S and is a run.
LEMMA FoldRuns ==
    ASSUME NEW S, NEW base \in S, NEW step \in [Nat \X S -> S], NEW n \in Nat, NEW h, NEW g,
           g = [k \in 0 .. n |-> h[1 .. k]],
           h[{}] = base,
           \A s \in SUBSET (1 .. n) :
              s # {} /\ h[s \ {Max(s)}] \in S => h[s] = step[<<Max(s), h[s \ {Max(s)}]>>]
    PROVE  IsRun(g, S, base, step, n)
<1> DEFINE T == {k \in Nat : k <= n => h[1 .. k] \in S}
<1>1. h[1 .. 0] = base
  <2> 1 .. 0 = {}
    OBVIOUS
  <2> QED OBVIOUS
<1>2. ASSUME NEW k \in 1 .. n, h[1 .. (k - 1)] \in S
      PROVE  h[1 .. k] = step[<<k, h[1 .. (k - 1)]>>] /\ h[1 .. k] \in S
  <2> DEFINE s == 1 .. k
  <2>1. s \in SUBSET (1 .. n) /\ s # {} /\ Max(s) = k /\ s \ {k} = 1 .. (k - 1)
    BY Intervals
  <2> HIDE DEF s
  <2>2. h[s] = step[<<k, h[1 .. (k - 1)]>>]
    BY <1>2, <2>1
  <2>3. h[s] \in S
    BY <1>2, <2>2
  <2> QED BY <2>2, <2>3 DEF s
<1>3. ASSUME NEW k \in Nat, k \in T PROVE k + 1 \in T
  <2>1. CASE k + 1 <= n
    <3>1. h[1 .. k] \in S /\ k + 1 \in 1 .. n /\ (k + 1) - 1 = k
      BY <1>3, <2>1
    <3>2. h[1 .. (k + 1)] \in S
      BY <3>1, <1>2
    <3> QED BY <3>2
  <2>2. CASE ~(k + 1 <= n)
    BY <2>2
  <2> QED BY <2>1, <2>2
<1>4. \A k \in 0 .. n : h[1 .. k] \in S
  <2>1. 0 \in T
    BY <1>1
  <2>2. Nat \subseteq T
    <3> HIDE DEF T
    <3> QED BY <1>3, <2>1, Induction
  <2> QED BY <2>2
<1>5. g \in [0 .. n -> S]
  BY <1>4
<1>6. g[0] = base
  <2> g[0] = h[1 .. 0]
    OBVIOUS
  <2> QED BY <1>1
<1>7. ASSUME NEW k \in 1 .. n PROVE g[k] = step[<<k, g[k - 1]>>]
  <2>1. k - 1 \in 0 .. n /\ k \in 0 .. n
    OBVIOUS
  <2>2. h[1 .. (k - 1)] \in S
    BY <1>4, <2>1
  <2> QED BY <1>2, <2>1, <2>2
<1> QED BY <1>5, <1>6, <1>7 DEF IsRun

-----------------------------------------------------------------------------
(* The compiler reads a line.                                               *)

\* The sources among some words.
SourcesIn(W) == {word \in W : Kind(word) = "source"}

\* What the compiler knows after some words.
CompileStates(W) == [skip : BOOLEAN, stop : BOOLEAN, sources : Seq(SourcesIn(W))]

\* And before the first.
Unread == [skip |-> FALSE, stop |-> FALSE, sources |-> <<>>]

\* One word, by cases.
LEMMA CompileCases ==
    ASSUME NEW W, NEW s \in CompileStates(W), NEW word \in W
    PROVE  /\ s.skip => CompileWord(s, word) = [skip |-> FALSE, stop |-> s.stop, sources |-> s.sources]
           /\ ~s.skip /\ Kind(word) = "stop"
                => CompileWord(s, word) = [skip |-> FALSE, stop |-> TRUE, sources |-> s.sources]
           /\ ~s.skip /\ Kind(word) = "valued"
                => CompileWord(s, word) = [skip |-> TRUE, stop |-> s.stop, sources |-> s.sources]
           /\ ~s.skip /\ Kind(word) = "source"
                => CompileWord(s, word) =
                      [skip |-> FALSE, stop |-> s.stop, sources |-> Append(s.sources, word)]
           /\ ~s.skip /\ Kind(word) \notin {"stop", "valued", "source"}
                => CompileWord(s, word) = s
<1> DEFINE k == Kind(word)
<1>1. s = [skip |-> s.skip, stop |-> s.stop, sources |-> s.sources]
  BY DEF CompileStates
<1>2. CASE s.skip
  <2>1. CompileWord(s, word) = [s EXCEPT !.skip = FALSE]
    BY <1>2, Zenon DEF CompileWord
  <2> QED BY <1>1, <1>2, <2>1
<1>3. CASE ~s.skip /\ k = "stop"
  <2>1. CompileWord(s, word) = [s EXCEPT !.stop = TRUE]
    BY <1>3, Zenon DEF CompileWord
  <2> QED BY <1>1, <1>3, <2>1 DEF CompileStates
<1>4. CASE ~s.skip /\ k = "valued"
  <2>1. k # "stop"
    BY <1>4
  <2>2. CompileWord(s, word) = [s EXCEPT !.skip = TRUE]
    BY <1>4, <2>1, Zenon DEF CompileWord
  <2> QED BY <1>1, <1>4, <2>1, <2>2 DEF CompileStates
<1>5. CASE ~s.skip /\ k = "source"
  <2>1. k # "stop" /\ k # "valued"
    BY <1>5
  <2>2. CompileWord(s, word) = [s EXCEPT !.sources = Append(@, word)]
    BY <1>5, <2>1, Zenon DEF CompileWord
  <2> QED BY <1>1, <1>5, <2>1, <2>2 DEF CompileStates
<1>6. CASE ~s.skip /\ k \notin {"stop", "valued", "source"}
  <2>1. k # "stop" /\ k # "valued" /\ k # "source"
    BY <1>6
  <2>2. CompileWord(s, word) = s
    BY <1>6, <2>1, Zenon DEF CompileWord
  <2> QED BY <1>6, <2>1, <2>2
<1> QED BY <1>2, <1>3, <1>4, <1>5, <1>6

\* It leaves such a state.
LEMMA CompileStays ==
    ASSUME NEW W, NEW s \in CompileStates(W), NEW word \in W
    PROVE  CompileWord(s, word) \in CompileStates(W)
<1>1. s.stop \in BOOLEAN /\ s.sources \in Seq(SourcesIn(W))
  BY DEF CompileStates
<1>2. \A skip \in BOOLEAN, stop \in BOOLEAN, sources \in Seq(SourcesIn(W)) :
         [skip |-> skip, stop |-> stop, sources |-> sources] \in CompileStates(W)
  BY DEF CompileStates
<1> DEFINE k == Kind(word)
<1>3. CASE s.skip
  <2>1. CompileWord(s, word) = [skip |-> FALSE, stop |-> s.stop, sources |-> s.sources]
    BY <1>3, CompileCases, Zenon
  <2> QED BY <1>1, <1>2, <2>1
<1>4. CASE ~s.skip /\ k = "stop"
  <2>1. CompileWord(s, word) = [skip |-> FALSE, stop |-> TRUE, sources |-> s.sources]
    BY <1>4, CompileCases, Zenon
  <2> QED BY <1>1, <1>2, <2>1
<1>5. CASE ~s.skip /\ k = "valued"
  <2>1. CompileWord(s, word) = [skip |-> TRUE, stop |-> s.stop, sources |-> s.sources]
    BY <1>5, CompileCases, Zenon
  <2> QED BY <1>1, <1>2, <2>1
<1>6. CASE ~s.skip /\ k = "source"
  <2>1. word \in SourcesIn(W)
    BY <1>6 DEF SourcesIn
  <2>2. Append(s.sources, word) \in Seq(SourcesIn(W))
    BY <1>1, <2>1
  <2>3. CompileWord(s, word) = [skip |-> FALSE, stop |-> s.stop, sources |-> Append(s.sources, word)]
    BY <1>6, CompileCases, Zenon
  <2> QED BY <1>1, <1>2, <2>2, <2>3
<1>7. CASE ~s.skip /\ k \notin {"stop", "valued", "source"}
  BY <1>7, CompileCases
<1> QED BY <1>3, <1>4, <1>5, <1>6, <1>7

\* The states after each word of a line.
IsReading(b, words, W) ==
    /\ b \in [0 .. Len(words) -> CompileStates(W)]
    /\ b[0] = Unread
    /\ \A k \in 1 .. Len(words) : b[k] = CompileWord(b[k - 1], words[k])
    /\ Read(words) = b[Len(words)]

\* Reading goes word by word.
LEMMA Reading ==
    ASSUME NEW W, NEW words \in Seq(W)
    PROVE  \E b : IsReading(b, words, W)
<1> DEFINE n == Len(words)
           S == CompileStates(W)
           step == [x \in Nat \X S |-> IF x[1] \in 1 .. n THEN CompileWord(x[2], words[x[1]]) ELSE x[2]]
           Body(h) == [s \in SUBSET DOMAIN words |->
                          IF s = {} THEN Unread ELSE CompileWord(h[s \ {Max(s)}], words[Max(s)])]
           h == CHOOSE h : h = Body(h)
           b == [k \in 0 .. n |-> h[1 .. k]]
<1>1. n \in Nat /\ DOMAIN words = 1 .. n /\ Unread \in S /\ \A k \in 1 .. n : words[k] \in W
  BY DEF Unread, CompileStates
<1>2. \A s \in S, k \in 1 .. n : CompileWord(s, words[k]) \in S
  <2> SUFFICES ASSUME NEW s \in S, NEW k \in 1 .. n PROVE CompileWord(s, words[k]) \in S
    OBVIOUS
  <2>1. words[k] \in W
    BY <1>1
  <2> QED BY <2>1, CompileStays
<1> HIDE DEF S, n
<1>3. step \in [Nat \X S -> S]
  BY <1>2
<1>4. \A s \in S, k \in 1 .. n : step[<<k, s>>] = CompileWord(s, words[k])
  BY <1>1
<1> HIDE DEF step
<1>5. \E f : f = Body(f)
  <2>1. PICK f : IsFold(f, S, Unread, step, n)
    BY <1>1, <1>3, FoldExists
  <2>2. ASSUME NEW s \in SUBSET (1 .. n)
        PROVE  f[s] = IF s = {} THEN Unread ELSE CompileWord(f[s \ {Max(s)}], words[Max(s)])
    <3>1. CASE s = {}
      BY <2>1, <3>1 DEF IsFold
    <3>2. CASE s # {}
      <4>1. Max(s) \in 1 .. n /\ s \ {Max(s)} \in SUBSET (1 .. n)
        BY <1>1, <3>2, MaxIsMember
      <4>2. f[s \ {Max(s)}] \in S /\ f[s] = step[<<Max(s), f[s \ {Max(s)}]>>]
        BY <2>1, <3>2, <4>1 DEF IsFold
      <4> QED BY <1>4, <3>2, <4>1, <4>2
    <3> QED BY <3>1, <3>2
  <2>3. f = [s \in SUBSET (1 .. n) |-> f[s]]
    BY <2>1 DEF IsFold
  <2>4. f = Body(f)
    BY <1>1, <2>2, <2>3, Zenon
  <2> QED BY <2>4, Zenon
<1>6. h = Body(h)
  <2> HIDE DEF Body
  <2> QED BY <1>5, Zenon
<1>7. Read(words) = h[DOMAIN words]
  BY Zenon DEF Read, FoldLeft, MapThenFoldSet, Unread
<1> HIDE DEF h
<1>8. h[{}] = Unread
  BY <1>6, Zenon
<1>9. ASSUME NEW s \in SUBSET (1 .. n), s # {}, h[s \ {Max(s)}] \in S
      PROVE  h[s] = step[<<Max(s), h[s \ {Max(s)}]>>]
  <2>1. Max(s) \in 1 .. n
    BY <1>1, <1>9, MaxIsMember
  <2>2. h[s] = CompileWord(h[s \ {Max(s)}], words[Max(s)])
    BY <1>1, <1>6, <1>9, Zenon
  <2> QED BY <1>4, <1>9, <2>1, <2>2
<1> HIDE DEF Body
<1>10. Read(words) = b[n]
  <2> b[n] = h[1 .. n]
    BY <1>1
  <2> QED BY <1>1, <1>7
<1>11. IsRun(b, S, Unread, step, n)
  <2>1. b = [k \in 0 .. n |-> h[1 .. k]]
    OBVIOUS
  <2> HIDE DEF b
  <2> QED BY <1>1, <1>3, <1>8, <1>9, <2>1, FoldRuns
<1> HIDE DEF b
<1>12. \A k \in 1 .. n : b[k] = CompileWord(b[k - 1], words[k])
  <2> SUFFICES ASSUME NEW k \in 1 .. n PROVE b[k] = CompileWord(b[k - 1], words[k])
    OBVIOUS
  <2>1. b[k - 1] \in S /\ b[k] = step[<<k, b[k - 1]>>]
    BY <1>1, <1>11 DEF IsRun
  <2> QED BY <1>4, <2>1
<1>13. IsReading(b, words, W)
  BY <1>10, <1>11, <1>12 DEF IsReading, IsRun, n, S
<1> QED BY <1>13

-----------------------------------------------------------------------------
(* compiler_command_find_source reads a line.                               *)

\* What it knows after some words.
ScanStates(W) == [skip : BOOLEAN, unsupported : BOOLEAN, sources : Seq(W)]

\* And before the first.
Unscanned == [skip |-> FALSE, unsupported |-> FALSE, sources |-> <<>>]

\* One word, by cases.
LEMMA ScanCases ==
    ASSUME NEW W, NEW s \in ScanStates(W), NEW word \in W
    PROVE  /\ s.skip => ScanWord(s, word) =
                 [skip |-> FALSE, unsupported |-> s.unsupported, sources |-> s.sources]
           /\ ~s.skip /\ Kind(word) = "stop"
                => ScanWord(s, word) = [skip |-> FALSE, unsupported |-> TRUE, sources |-> s.sources]
           /\ ~s.skip /\ word \in PassedOver
                => ScanWord(s, word) =
                      [skip |-> TRUE, unsupported |-> s.unsupported, sources |-> s.sources]
           /\ ~s.skip /\ Kind(word) = "source"
                => ScanWord(s, word) =
                      [skip |-> FALSE, unsupported |-> s.unsupported, sources |-> Append(s.sources, word)]
           /\ ~s.skip /\ word \notin PassedOver /\ Kind(word) \notin {"stop", "source"}
                => ScanWord(s, word) = s
<1> DEFINE k == Kind(word)
<1>1. s = [skip |-> s.skip, unsupported |-> s.unsupported, sources |-> s.sources]
  BY DEF ScanStates
<1>2. CASE s.skip
  <2>1. ScanWord(s, word) = [s EXCEPT !.skip = FALSE]
    BY <1>2, Zenon DEF ScanWord
  <2> QED BY <1>1, <1>2, <2>1
<1>3. CASE ~s.skip /\ k = "stop"
  <2>1. word \notin PassedOver /\ k # "source"
    BY <1>3, KindsAssumption
  <2>2. ScanWord(s, word) = [s EXCEPT !.unsupported = TRUE]
    BY <1>3, <2>1, Zenon DEF ScanWord
  <2> QED BY <1>1, <1>3, <2>1, <2>2 DEF ScanStates
<1>4. CASE ~s.skip /\ word \in PassedOver
  <2>1. k # "stop" /\ k # "source"
    BY <1>4, KindsAssumption
  <2>2. ScanWord(s, word) = [s EXCEPT !.skip = TRUE]
    BY <1>4, <2>1, Zenon DEF ScanWord
  <2> QED BY <1>1, <1>4, <2>1, <2>2 DEF ScanStates
<1>5. CASE ~s.skip /\ k = "source"
  <2>1. k # "stop" /\ word \notin PassedOver
    BY <1>5, KindsAssumption
  <2>2. ScanWord(s, word) = [s EXCEPT !.sources = Append(@, word)]
    BY <1>5, <2>1, Zenon DEF ScanWord
  <2> QED BY <1>1, <1>5, <2>1, <2>2 DEF ScanStates
<1>6. CASE ~s.skip /\ word \notin PassedOver /\ k \notin {"stop", "source"}
  <2>1. k # "stop" /\ word \notin PassedOver /\ k # "source"
    BY <1>6
  <2>2. ScanWord(s, word) = s
    BY <1>6, <2>1, Zenon DEF ScanWord
  <2> QED BY <1>6, <2>1, <2>2
<1> QED BY <1>2, <1>3, <1>4, <1>5, <1>6

\* One leaves such a state.
LEMMA ScanStays ==
    ASSUME NEW W, NEW s \in ScanStates(W), NEW word \in W
    PROVE  ScanWord(s, word) \in ScanStates(W)
<1>1. s.unsupported \in BOOLEAN /\ s.sources \in Seq(W) /\ Append(s.sources, word) \in Seq(W)
  BY DEF ScanStates
<1>2. \A skip \in BOOLEAN, unsupported \in BOOLEAN, sources \in Seq(W) :
         [skip |-> skip, unsupported |-> unsupported, sources |-> sources] \in ScanStates(W)
  BY DEF ScanStates
<1> DEFINE k == Kind(word)
<1>3. CASE s.skip
  BY <1>1, <1>2, <1>3, ScanCases, ZenonT(30)
<1>4. CASE ~s.skip /\ k = "stop"
  <2>1. ScanWord(s, word) = [skip |-> FALSE, unsupported |-> TRUE, sources |-> s.sources]
    BY <1>4, ScanCases, Zenon
  <2> QED BY <1>1, <1>2, <2>1
<1>5. CASE ~s.skip /\ word \in PassedOver
  <2>1. ScanWord(s, word) = [skip |-> TRUE, unsupported |-> s.unsupported, sources |-> s.sources]
    BY <1>5, ScanCases
  <2> QED BY <1>1, <1>2, <2>1
<1>6. CASE ~s.skip /\ k = "source"
  BY <1>1, <1>2, <1>6, ScanCases, ZenonT(30)
<1>7. CASE ~s.skip /\ word \notin PassedOver /\ k \notin {"stop", "source"}
  BY <1>7, ScanCases
<1> QED BY <1>3, <1>4, <1>5, <1>6, <1>7

\* The states after each word of a line.
IsScanning(b, words, W) ==
    /\ b \in [0 .. Len(words) -> ScanStates(W)]
    /\ b[0] = Unscanned
    /\ \A k \in 1 .. Len(words) : b[k] = ScanWord(b[k - 1], words[k])
    /\ Scanned(words) = b[Len(words)]

\* Scanning goes word by word.
LEMMA Scanning ==
    ASSUME NEW W, NEW words \in Seq(W)
    PROVE  \E b : IsScanning(b, words, W)
<1> DEFINE n == Len(words)
           S == ScanStates(W)
           step == [x \in Nat \X S |-> IF x[1] \in 1 .. n THEN ScanWord(x[2], words[x[1]]) ELSE x[2]]
           Body(h) == [s \in SUBSET DOMAIN words |->
                          IF s = {} THEN Unscanned ELSE ScanWord(h[s \ {Max(s)}], words[Max(s)])]
           h == CHOOSE h : h = Body(h)
           b == [k \in 0 .. n |-> h[1 .. k]]
<1>1. n \in Nat /\ DOMAIN words = 1 .. n /\ Unscanned \in S /\ \A k \in 1 .. n : words[k] \in W
  BY DEF Unscanned, ScanStates
<1>2. \A s \in S, k \in 1 .. n : ScanWord(s, words[k]) \in S
  <2> SUFFICES ASSUME NEW s \in S, NEW k \in 1 .. n PROVE ScanWord(s, words[k]) \in S
    OBVIOUS
  <2>1. words[k] \in W
    BY <1>1
  <2> QED BY <2>1, ScanStays
<1> HIDE DEF S, n
<1>3. step \in [Nat \X S -> S]
  BY <1>2
<1>4. \A s \in S, k \in 1 .. n : step[<<k, s>>] = ScanWord(s, words[k])
  BY <1>1
<1> HIDE DEF step
<1>5. \E f : f = Body(f)
  <2>1. PICK f : IsFold(f, S, Unscanned, step, n)
    BY <1>1, <1>3, FoldExists
  <2>2. ASSUME NEW s \in SUBSET (1 .. n)
        PROVE  f[s] = IF s = {} THEN Unscanned ELSE ScanWord(f[s \ {Max(s)}], words[Max(s)])
    <3>1. CASE s = {}
      BY <2>1, <3>1 DEF IsFold
    <3>2. CASE s # {}
      <4>1. Max(s) \in 1 .. n /\ s \ {Max(s)} \in SUBSET (1 .. n)
        BY <1>1, <3>2, MaxIsMember
      <4>2. f[s \ {Max(s)}] \in S /\ f[s] = step[<<Max(s), f[s \ {Max(s)}]>>]
        BY <2>1, <3>2, <4>1 DEF IsFold
      <4> QED BY <1>4, <3>2, <4>1, <4>2
    <3> QED BY <3>1, <3>2
  <2>3. f = [s \in SUBSET (1 .. n) |-> f[s]]
    BY <2>1 DEF IsFold
  <2>4. f = Body(f)
    BY <1>1, <2>2, <2>3, Zenon
  <2> QED BY <2>4, Zenon
<1>6. h = Body(h)
  <2> HIDE DEF Body
  <2> QED BY <1>5, Zenon
<1>7. Scanned(words) = h[DOMAIN words]
  BY Zenon DEF Scanned, FoldLeft, MapThenFoldSet, Unscanned
<1> HIDE DEF h
<1>8. h[{}] = Unscanned
  BY <1>6, Zenon
<1>9. ASSUME NEW s \in SUBSET (1 .. n), s # {}, h[s \ {Max(s)}] \in S
      PROVE  h[s] = step[<<Max(s), h[s \ {Max(s)}]>>]
  <2>1. Max(s) \in 1 .. n
    BY <1>1, <1>9, MaxIsMember
  <2>2. h[s] = ScanWord(h[s \ {Max(s)}], words[Max(s)])
    BY <1>1, <1>6, <1>9, Zenon
  <2> QED BY <1>4, <1>9, <2>1, <2>2
<1> HIDE DEF Body
<1>10. Scanned(words) = b[n]
  <2> b[n] = h[1 .. n]
    BY <1>1
  <2> QED BY <1>1, <1>7
<1>11. IsRun(b, S, Unscanned, step, n)
  <2>1. b = [k \in 0 .. n |-> h[1 .. k]]
    OBVIOUS
  <2> HIDE DEF b
  <2> QED BY <1>1, <1>3, <1>8, <1>9, <2>1, FoldRuns
<1> HIDE DEF b
<1>12. \A k \in 1 .. n : b[k] = ScanWord(b[k - 1], words[k])
  <2> SUFFICES ASSUME NEW k \in 1 .. n PROVE b[k] = ScanWord(b[k - 1], words[k])
    OBVIOUS
  <2>1. b[k - 1] \in S /\ b[k] = step[<<k, b[k - 1]>>]
    BY <1>1, <1>11 DEF IsRun
  <2> QED BY <1>4, <2>1
<1>13. IsScanning(b, words, W)
  BY <1>10, <1>11, <1>12 DEF IsScanning, IsRun, n, S
<1> QED BY <1>13

-----------------------------------------------------------------------------
(* sanitizeCommandLine reads a line.                                        *)

\* What it has kept after some words, and whether it leaves out the next.
SanitizeStates(W) == [skip : BOOLEAN, kept : Seq(W)]

\* And before the first.
Unsanitized == [skip |-> FALSE, kept |-> <<>>]

\* One word, by cases.
LEMMA SanitizeCases ==
    ASSUME NEW W, NEW line \in Seq(W), NEW s \in SanitizeStates(W), NEW i \in 1 .. Len(line)
    PROVE  /\ s.skip => SanitizeWord(line, s, i) = [skip |-> FALSE, kept |-> s.kept]
           /\ ~s.skip /\ TakesPair(line, i) => SanitizeWord(line, s, i) = [skip |-> TRUE, kept |-> s.kept]
           /\ ~s.skip /\ Dropped(line, i) /\ ~TakesPair(line, i) => SanitizeWord(line, s, i) = s
           /\ ~s.skip /\ ~Dropped(line, i)
                => SanitizeWord(line, s, i) = [skip |-> FALSE, kept |-> Append(s.kept, line[i])]
<1> DEFINE drops == Dropped(line, i)
           pair == TakesPair(line, i)
<1>1. s = [skip |-> s.skip, kept |-> s.kept] /\ s.skip \in BOOLEAN
  BY DEF SanitizeStates
<1>2. pair \in BOOLEAN /\ (pair => drops)
  BY DEF TakesPair, Dropped
<1>3. SanitizeWord(line, s, i) =
         IF s.skip \/ drops THEN [s EXCEPT !.skip = ~s.skip /\ pair]
         ELSE [s EXCEPT !.kept = Append(@, line[i])]
  BY Zenon DEF SanitizeWord
<1> HIDE DEF drops, pair
<1>4. CASE s.skip
  <2>1. (~s.skip /\ pair) = FALSE
    BY <1>4
  <2>2. SanitizeWord(line, s, i) = [s EXCEPT !.skip = FALSE]
    BY <1>3, <1>4, <2>1, Zenon
  <2> QED BY <1>1, <1>4, <2>2
<1>5. CASE ~s.skip /\ pair
  <2>1. (~s.skip /\ pair) = TRUE
    BY <1>2, <1>5
  <2>2. SanitizeWord(line, s, i) = [s EXCEPT !.skip = TRUE]
    BY <1>2, <1>3, <1>5, <2>1, Zenon
  <2> QED BY <1>1, <1>2, <1>5, <2>2 DEF pair, drops
<1>6. CASE ~s.skip /\ drops /\ ~pair
  <2>1. (~s.skip /\ pair) = FALSE
    BY <1>6
  <2>2. SanitizeWord(line, s, i) = [s EXCEPT !.skip = FALSE]
    BY <1>3, <1>6, <2>1, Zenon
  <2> QED BY <1>1, <1>6, <2>2 DEF pair, drops
<1>7. CASE ~s.skip /\ ~drops
  <2>1. SanitizeWord(line, s, i) = [s EXCEPT !.kept = Append(@, line[i])]
    BY <1>3, <1>7, Zenon
  <2> QED BY <1>1, <1>2, <1>7, <2>1 DEF pair, drops
<1> QED BY <1>4, <1>5, <1>6, <1>7 DEF pair, drops

\* One leaves such a state.
LEMMA SanitizeStays ==
    ASSUME NEW W, NEW line \in Seq(W), NEW s \in SanitizeStates(W), NEW i \in 1 .. Len(line)
    PROVE  SanitizeWord(line, s, i) \in SanitizeStates(W)
<1>1. s.kept \in Seq(W) /\ Append(s.kept, line[i]) \in Seq(W)
  BY DEF SanitizeStates
<1>2. \A skip \in BOOLEAN, kept \in Seq(W) : [skip |-> skip, kept |-> kept] \in SanitizeStates(W)
  BY DEF SanitizeStates
<1>3. CASE s.skip
  <2>1. SanitizeWord(line, s, i) = [skip |-> FALSE, kept |-> s.kept]
    BY <1>3, SanitizeCases, Zenon
  <2> QED BY <1>1, <1>2, <2>1
<1>4. CASE ~s.skip /\ TakesPair(line, i)
  BY <1>1, <1>2, <1>4, SanitizeCases, ZenonT(30)
<1>5. CASE ~s.skip /\ Dropped(line, i) /\ ~TakesPair(line, i)
  BY <1>5, SanitizeCases
<1>6. CASE ~s.skip /\ ~Dropped(line, i)
  BY <1>1, <1>2, <1>6, SanitizeCases
<1> QED BY <1>3, <1>4, <1>5, <1>6 DEF Dropped

\* The states after each word of a line.
IsSanitizing(c, line, W) ==
    /\ c \in [0 .. Len(line) -> SanitizeStates(W)]
    /\ c[0] = Unsanitized
    /\ \A k \in 1 .. Len(line) : c[k] = SanitizeWord(line, c[k - 1], k)
    /\ Sanitized(line) = c[Len(line)].kept

\* Sanitizing goes word by word.
LEMMA Sanitizing ==
    ASSUME NEW W, NEW line \in Seq(W)
    PROVE  \E c : IsSanitizing(c, line, W)
<1> DEFINE n == Len(line)
           index == [i \in DOMAIN line |-> i]
           S == SanitizeStates(W)
           step == [x \in Nat \X S |-> IF x[1] \in 1 .. n THEN SanitizeWord(line, x[2], x[1]) ELSE x[2]]
           Body(h) == [s \in SUBSET DOMAIN index |->
                          IF s = {} THEN Unsanitized ELSE SanitizeWord(line, h[s \ {Max(s)}], index[Max(s)])]
           h == CHOOSE h : h = Body(h)
           c == [k \in 0 .. n |-> h[1 .. k]]
<1>1. /\ n \in Nat /\ DOMAIN index = 1 .. n /\ Unsanitized \in S
      /\ \A k \in 1 .. n : line[k] \in W /\ index[k] = k
  BY DEF Unsanitized, SanitizeStates
<1>2. \A s \in S, k \in 1 .. n : SanitizeWord(line, s, k) \in S
  <2> SUFFICES ASSUME NEW s \in S, NEW k \in 1 .. n PROVE SanitizeWord(line, s, k) \in S
    OBVIOUS
  <2>1. k \in 1 .. Len(line)
    BY DEF n
  <2> QED BY <2>1, SanitizeStays
<1> HIDE DEF S, n, index
<1>3. step \in [Nat \X S -> S]
  BY <1>2
<1>4. \A s \in S, k \in 1 .. n : step[<<k, s>>] = SanitizeWord(line, s, k)
  BY <1>1
<1> HIDE DEF step
<1>5. \E f : f = Body(f)
  <2>1. PICK f : IsFold(f, S, Unsanitized, step, n)
    BY <1>1, <1>3, FoldExists
  <2>2. ASSUME NEW s \in SUBSET (1 .. n)
        PROVE  f[s] = IF s = {} THEN Unsanitized ELSE SanitizeWord(line, f[s \ {Max(s)}], index[Max(s)])
    <3>1. CASE s = {}
      BY <2>1, <3>1 DEF IsFold
    <3>2. CASE s # {}
      <4>1. Max(s) \in 1 .. n /\ s \ {Max(s)} \in SUBSET (1 .. n)
        BY <1>1, <3>2, MaxIsMember
      <4>2. f[s \ {Max(s)}] \in S /\ f[s] = step[<<Max(s), f[s \ {Max(s)}]>>]
        BY <2>1, <3>2, <4>1 DEF IsFold
      <4> QED BY <1>1, <1>4, <3>2, <4>1, <4>2
    <3> QED BY <3>1, <3>2
  <2>3. f = [s \in SUBSET (1 .. n) |-> f[s]]
    BY <2>1 DEF IsFold
  <2>4. f = Body(f)
    BY <1>1, <2>2, <2>3, Zenon
  <2> QED BY <2>4, Zenon
<1>6. h = Body(h)
  <2> HIDE DEF Body
  <2> QED BY <1>5, Zenon
<1>7. Sanitized(line) = h[DOMAIN index].kept
  BY Zenon DEF Sanitized, FoldLeftDomain, FoldLeft, MapThenFoldSet, Unsanitized, index
<1> HIDE DEF h
<1>8. h[{}] = Unsanitized
  BY <1>6, Zenon
<1>9. ASSUME NEW s \in SUBSET (1 .. n), s # {}, h[s \ {Max(s)}] \in S
      PROVE  h[s] = step[<<Max(s), h[s \ {Max(s)}]>>]
  <2>1. Max(s) \in 1 .. n
    BY <1>1, <1>9, MaxIsMember
  <2>2. h[s] = SanitizeWord(line, h[s \ {Max(s)}], index[Max(s)])
    BY <1>1, <1>6, <1>9, Zenon
  <2>3. h[s] = SanitizeWord(line, h[s \ {Max(s)}], Max(s))
    BY <1>1, <2>1, <2>2
  <2> QED BY <1>4, <1>9, <2>1, <2>3
<1> HIDE DEF Body
<1>10. Sanitized(line) = c[n].kept
  <2> c[n] = h[1 .. n]
    BY <1>1
  <2> QED BY <1>1, <1>7
<1>11. IsRun(c, S, Unsanitized, step, n)
  <2>1. c = [k \in 0 .. n |-> h[1 .. k]]
    OBVIOUS
  <2> HIDE DEF c
  <2> QED BY <1>1, <1>3, <1>8, <1>9, <2>1, FoldRuns
<1> HIDE DEF c
<1>12. \A k \in 1 .. n : c[k] = SanitizeWord(line, c[k - 1], k)
  <2> SUFFICES ASSUME NEW k \in 1 .. n PROVE c[k] = SanitizeWord(line, c[k - 1], k)
    OBVIOUS
  <2>1. c[k - 1] \in S /\ c[k] = step[<<k, c[k - 1]>>]
    BY <1>1, <1>11 DEF IsRun
  <2> QED BY <1>4, <2>1
<1>13. IsSanitizing(c, line, W)
  BY <1>10, <1>11, <1>12 DEF IsSanitizing, IsRun, n, S
<1> QED BY <1>13

-----------------------------------------------------------------------------
(* Flattened sequences.                                                     *)

\* What has been joined after each sequence.
IsFlattening(g, seqs, W) ==
    /\ g \in [0 .. Len(seqs) -> Seq(W)]
    /\ g[0] = <<>>
    /\ \A k \in 1 .. Len(seqs) : g[k] = g[k - 1] \o seqs[k]
    /\ FlattenSeq(seqs) = g[Len(seqs)]

\* Flattening goes sequence by sequence.
LEMMA Flattening ==
    ASSUME NEW W, NEW seqs \in Seq(Seq(W))
    PROVE  \E g : IsFlattening(g, seqs, W)
<1> DEFINE n == Len(seqs)
           S == Seq(W)
           step == [x \in Nat \X S |-> IF x[1] \in 1 .. n THEN x[2] \o seqs[x[1]] ELSE x[2]]
           Body(f) == [i \in 1 .. n |-> IF i = 1 THEN seqs[i] ELSE f[i - 1] \o seqs[i]]
           flatten == CHOOSE f : f = Body(f)
<1>1. n \in Nat /\ <<>> \in S /\ \A k \in 1 .. n : seqs[k] \in S
  OBVIOUS
<1>2. \A s \in S, k \in 1 .. n : s \o seqs[k] \in S /\ <<>> \o seqs[k] = seqs[k]
  BY <1>1
<1> HIDE DEF n, S
<1>3. step \in [Nat \X S -> S]
  BY <1>2
<1>4. \A s \in S, k \in 1 .. n : step[<<k, s>>] = s \o seqs[k]
  <2> SUFFICES ASSUME NEW s \in S, NEW k \in 1 .. n PROVE step[<<k, s>>] = s \o seqs[k]
    OBVIOUS
  <2> DEFINE x == <<k, s>>
  <2>1. x \in Nat \X S /\ x[1] = k /\ x[2] = s
    BY <1>1
  <2> HIDE DEF x
  <2>2. step[x] = x[2] \o seqs[x[1]]
    BY <2>1, Zenon
  <2> QED BY <2>1, <2>2, Zenon DEF x
<1> HIDE DEF step
<1>5. PICK g : IsRun(g, S, <<>>, step, n)
  BY <1>1, <1>3, RunExists
<1>6. \A k \in 1 .. n : g[k] = g[k - 1] \o seqs[k]
  <2> SUFFICES ASSUME NEW k \in 1 .. n PROVE g[k] = g[k - 1] \o seqs[k]
    OBVIOUS
  <2>1. g[k - 1] \in S /\ g[k] = step[<<k, g[k - 1]>>]
    BY <1>1, <1>5 DEF IsRun
  <2> QED BY <1>4, <2>1
<1>7. g[0] = <<>> /\ g \in [0 .. n -> S]
  BY <1>5 DEF IsRun
<1>8. CASE n = 0
  <2>1. seqs = <<>>
    BY <1>8 DEF n
  <2>2. FlattenSeq(seqs) = <<>>
    BY <1>8, <2>1, Zenon DEF FlattenSeq, n
  <2>3. IsFlattening(g, seqs, W)
    BY <1>6, <1>7, <1>8, <2>2 DEF IsFlattening, n, S
  <2> QED BY <2>3
<1>9. CASE n # 0
  <2>1. \E f : f = Body(f)
    <3> DEFINE f == [i \in 1 .. n |-> g[i]]
    <3>1. ASSUME NEW i \in 1 .. n PROVE f[i] = IF i = 1 THEN seqs[i] ELSE f[i - 1] \o seqs[i]
      <4>1. CASE i = 1
        <5>1. i - 1 = 0 /\ f[i] = g[i]
          BY <4>1
        <5>2. f[i] = <<>> \o seqs[i]
          BY <1>6, <1>7, <5>1
        <5> QED BY <1>1, <1>2, <4>1, <5>2
      <4>2. CASE i # 1
        <5>1. i - 1 \in 1 .. n
          BY <1>1, <4>2
        <5> QED BY <1>6, <4>2, <5>1
      <4> QED BY <4>1, <4>2
    <3>2. f = Body(f)
      <4>1. f = [i \in 1 .. n |-> f[i]]
        OBVIOUS
      <4> HIDE DEF f
      <4> QED BY <3>1, <4>1, Zenon
    <3> QED BY <3>2, Zenon
  <2>2. flatten = Body(flatten)
    <3> HIDE DEF Body
    <3> QED BY <2>1, Zenon
  <2>3. FlattenSeq(seqs) = flatten[n]
    BY <1>9, Zenon DEF FlattenSeq, n
  <2> HIDE DEF flatten
  <2> DEFINE T == {k \in Nat : k \in 1 .. n => flatten[k] = g[k]}
  <2>4. 0 \in T
    OBVIOUS
  <2>5. ASSUME NEW k \in Nat, k \in T PROVE k + 1 \in T
    <3>1. CASE k + 1 \in 1 .. n
      <4>1. flatten[k + 1] = IF k + 1 = 1 THEN seqs[k + 1] ELSE flatten[(k + 1) - 1] \o seqs[k + 1]
        BY <2>2, <3>1
      <4>2. (k + 1) - 1 = k
        BY <2>5
      <4>5. g[k + 1] = g[k] \o seqs[k + 1]
        BY <1>6, <3>1, <4>2
      <4>3. CASE k = 0
        <5>1. <<>> \o seqs[k + 1] = seqs[k + 1]
          BY <1>1, <1>2, <3>1
        <5>2. flatten[k + 1] = seqs[k + 1]
          BY <4>1, <4>3
        <5>3. g[k + 1] = <<>> \o seqs[k + 1]
          BY <1>7, <4>3, <4>5
        <5> QED BY <5>1, <5>2, <5>3
      <4>4. CASE k # 0
        <5>1. k \in 1 .. n
          BY <1>1, <3>1, <4>4
        <5>2. flatten[k] = g[k]
          BY <2>5, <5>1
        <5>3. k + 1 # 1
          BY <4>4
        <5>4. flatten[k + 1] = flatten[k] \o seqs[k + 1]
          BY <4>1, <4>2, <5>3
        <5>5. flatten[k + 1] = g[k + 1]
          BY <4>5, <5>2, <5>4
        <5> QED BY <5>5
      <4> QED BY <4>3, <4>4
    <3>2. CASE k + 1 \notin 1 .. n
      BY <3>2
    <3> QED BY <3>1, <3>2
  <2>6. n \in T
    <3> HIDE DEF T
    <3> QED BY <1>1, <2>4, <2>5, Induction
  <2>7. flatten[n] = g[n]
    BY <1>1, <1>9, <2>6
  <2>8. IsFlattening(g, seqs, W)
    BY <1>6, <1>7, <2>3, <2>7 DEF IsFlattening, n, S
  <2> QED BY <2>8
<1> QED BY <1>8, <1>9

\* A line without response files is left as it is.
LEMMA ExpandedIsLine ==
    ASSUME NEW W, NEW line \in Seq(W), \A i \in DOMAIN line : Kind(line[i]) # "response"
    PROVE  Expanded(line) = line
<1> DEFINE n == Len(line)
           seqs == [i \in DOMAIN line |-> <<line[i]>>]
<1>1. Expanded(line) = FlattenSeq(seqs)
  <2>1. seqs = [i \in DOMAIN line |->
                   IF Kind(line[i]) = "response" THEN Contents(line[i]) ELSE <<line[i]>>]
    OBVIOUS
  <2> HIDE DEF seqs
  <2> QED BY <2>1, Zenon DEF Expanded
<1>2. seqs \in Seq(Seq(W)) /\ Len(seqs) = n /\ n \in Nat /\ \A k \in 1 .. n : seqs[k] = <<line[k]>>
  <2>1. DOMAIN line = 1 .. n /\ n \in Nat /\ \A k \in 1 .. n : <<line[k]>> \in Seq(W)
    OBVIOUS
  <2>2. seqs = [k \in 1 .. n |-> <<line[k]>>]
    BY <2>1
  <2> HIDE DEF seqs, n
  <2>3. seqs \in [1 .. n -> Seq(W)]
    BY <2>1, <2>2
  <2>4. seqs \in Seq(Seq(W)) /\ Len(seqs) = n
    BY <2>1, <2>3, SeqDef
  <2> QED BY <2>1, <2>2, <2>4
<1> HIDE DEF seqs
<1>3. PICK g : IsFlattening(g, seqs, W)
  BY <1>2, Flattening
<1> DEFINE T == {k \in Nat : k <= n => Len(g[k]) = k /\ \A i \in 1 .. k : g[k][i] = line[i]}
<1>4. 0 \in T
  BY <1>2, <1>3 DEF IsFlattening
<1>5. ASSUME NEW k \in Nat, k \in T PROVE k + 1 \in T
  <2>1. CASE k + 1 <= n
    <3>1. k + 1 \in 1 .. n /\ k \in 0 .. n /\ (k + 1) - 1 = k
      BY <1>2, <2>1
    <3>2. g[k] \in Seq(W) /\ g[k + 1] = g[k] \o <<line[k + 1]>>
      BY <1>2, <1>3, <3>1 DEF IsFlattening
    <3>3. line[k + 1] \in W
      BY <3>1
    <3>4. Len(g[k]) = k /\ \A i \in 1 .. k : g[k][i] = line[i]
      BY <1>5, <3>1
    <3>5. Len(g[k + 1]) = k + 1
      BY <3>2, <3>3, <3>4
    <3>6. \A i \in 1 .. (k + 1) : g[k + 1][i] = line[i]
      BY <3>2, <3>3, <3>4
    <3> QED BY <3>5, <3>6
  <2>2. CASE ~(k + 1 <= n)
    BY <2>2
  <2> QED BY <2>1, <2>2
<1>6. n \in T
  <2> HIDE DEF T
  <2> QED BY <1>2, <1>4, <1>5, Induction
<1>7. g[n] \in Seq(W) /\ Len(g[n]) = Len(line) /\ \A i \in 1 .. Len(line) : g[n][i] = line[i]
  BY <1>2, <1>3, <1>6, SMTT(30) DEF IsFlattening
<1>8. g[n] = line
  BY <1>7, SeqEqual
<1> QED BY <1>1, <1>2, <1>3, <1>8 DEF IsFlattening

-----------------------------------------------------------------------------
(* On plain lines compiler_command_find_source and the compiler agree.      *)

\* The same sources; a value that is not passed over is one for the compiler only.
Agree(a, b, before) ==
    /\ a.sources = b.sources /\ a.unsupported = b.stop
    /\ a.skip => b.skip
    /\ b.skip /\ ~a.skip => Kind(before) = "valued" /\ before \notin PassedOver

\* One word.
LEMMA AgreeOnWord ==
    ASSUME NEW W, NEW a \in ScanStates(W), NEW b \in CompileStates(W), NEW before \in W, NEW word \in W,
           Agree(a, b, before),
           Kind(before) = "valued" /\ before \notin PassedOver
              => word \notin PassedOver /\ Kind(word) \notin {"stop", "source"}
    PROVE  Agree(ScanWord(a, word), CompileWord(b, word), word)
<1> DEFINE k == Kind(word)
           x == ScanWord(a, word)
           y == CompileWord(b, word)
<1>1. a.skip \in BOOLEAN /\ b.skip \in BOOLEAN
  BY DEF ScanStates, CompileStates
<1>2. CASE a.skip
  <2>1. x = [skip |-> FALSE, unsupported |-> a.unsupported, sources |-> a.sources]
    BY <1>2, ScanCases
  <2>2. y = [skip |-> FALSE, stop |-> b.stop, sources |-> b.sources]
    BY <1>2, CompileCases DEF Agree
  <2> HIDE DEF x, y
  <2>3. Agree(x, y, word)
    BY <2>1, <2>2 DEF Agree
  <2> QED BY <2>3 DEF x, y
<1>3. CASE ~a.skip /\ b.skip
  <2>1. word \notin PassedOver /\ k \notin {"stop", "source"}
    BY <1>3 DEF Agree
  <2>2. x = a
    BY <1>3, <2>1, ScanCases
  <2>3. y = [skip |-> FALSE, stop |-> b.stop, sources |-> b.sources]
    BY <1>3, CompileCases
  <2> HIDE DEF x, y
  <2>4. Agree(x, y, word)
    BY <1>3, <2>2, <2>3 DEF Agree
  <2> QED BY <2>4 DEF x, y
<1>4. CASE ~a.skip /\ ~b.skip
  <2>1. CASE k = "stop"
    <3>1. x = [skip |-> FALSE, unsupported |-> TRUE, sources |-> a.sources]
      BY <1>4, <2>1, ScanCases
    <3>2. y = [skip |-> FALSE, stop |-> TRUE, sources |-> b.sources]
      BY <1>4, <2>1, CompileCases
    <3> HIDE DEF x, y
    <3>3. Agree(x, y, word)
      BY <3>1, <3>2 DEF Agree
    <3> QED BY <3>3 DEF x, y
  <2>2. CASE word \in PassedOver
    <3>0. k = "valued"
      BY <2>2, KindsAssumption
    <3>1. x = [skip |-> TRUE, unsupported |-> a.unsupported, sources |-> a.sources]
      BY <1>4, <2>2, ScanCases
    <3>2. y = [skip |-> TRUE, stop |-> b.stop, sources |-> b.sources]
      BY <1>4, <3>0, CompileCases
    <3> HIDE DEF x, y
    <3>3. Agree(x, y, word)
      BY <3>1, <3>2 DEF Agree
    <3> QED BY <3>3 DEF x, y
  <2>3. CASE k = "valued" /\ word \notin PassedOver
    <3>1. x = a
      BY <1>4, <2>3, ScanCases
    <3>2. y = [skip |-> TRUE, stop |-> b.stop, sources |-> b.sources]
      BY <1>4, <2>3, CompileCases
    <3> HIDE DEF x, y
    <3>3. Agree(x, y, word)
      BY <1>4, <2>3, <3>1, <3>2 DEF Agree
    <3> QED BY <3>3 DEF x, y
  <2>4. CASE k = "source"
    <3>1. x = [skip |-> FALSE, unsupported |-> a.unsupported, sources |-> Append(a.sources, word)]
      BY <1>4, <2>4, ScanCases
    <3>2. y = [skip |-> FALSE, stop |-> b.stop, sources |-> Append(b.sources, word)]
      BY <1>4, <2>4, CompileCases
    <3> HIDE DEF x, y
    <3>3. Agree(x, y, word)
      BY <3>1, <3>2 DEF Agree
    <3> QED BY <3>3 DEF x, y
  <2>5. CASE k \notin {"stop", "valued", "source"}
    <3>0. word \notin PassedOver
      BY <2>5, KindsAssumption
    <3>1. x = a
      BY <1>4, <2>5, <3>0, ScanCases
    <3>2. y = b
      BY <1>4, <2>5, CompileCases
    <3> HIDE DEF x, y
    <3>3. Agree(x, y, word)
      BY <1>4, <3>1, <3>2 DEF Agree
    <3> QED BY <3>3 DEF x, y
  <2> QED BY <2>1, <2>2, <2>3, <2>4, <2>5
<1> QED BY <1>1, <1>2, <1>3, <1>4

\* The words after the first, as words of the line.
LEMMA TailWords ==
    ASSUME NEW W, NEW line \in Seq(W), line # <<>>
    PROVE  /\ Tail(line) \in Seq(W) /\ Len(Tail(line)) = Len(line) - 1
           /\ \A k \in 1 .. (Len(line) - 1) : Tail(line)[k] = line[k + 1]
OBVIOUS

\* A whole line.
LEMMA AgreeOnLine ==
    ASSUME NEW W, NEW line \in Seq(W), line # <<>>, Plain(line)
    PROVE  /\ Scanned(Tail(line)) \in ScanStates(W) /\ Read(Tail(line)) \in CompileStates(W)
           /\ Agree(Scanned(Tail(line)), Read(Tail(line)), line[Len(line)])
<1> DEFINE tail == Tail(line)
           n == Len(tail)
<1>1. /\ tail \in Seq(W) /\ n \in Nat /\ n = Len(line) - 1
      /\ \A k \in 1 .. n : tail[k] = line[k + 1] /\ line[k] \in W /\ line[k + 1] \in W
      /\ line[1] \in W
  BY TailWords
<1>2. ASSUME NEW k \in 1 .. n, Kind(line[k]) = "valued", line[k] \notin PassedOver
      PROVE  line[k + 1] \notin PassedOver /\ Kind(line[k + 1]) \notin {"stop", "source"}
  <2>1. k + 1 \in DOMAIN line /\ k + 1 > 1 /\ (k + 1) - 1 = k
    BY <1>1
  <2> QED BY <1>2, <2>1 DEF Plain
<1> HIDE DEF tail
<1>3. PICK a : IsScanning(a, tail, W)
  BY <1>1, Scanning
<1>4. PICK b : IsReading(b, tail, W)
  BY <1>1, Reading
<1> DEFINE T == {k \in Nat : k <= n => Agree(a[k], b[k], line[k + 1])}
<1>5. 0 \in T
  <2>1. a[0] = Unscanned /\ b[0] = Unread
    BY <1>3, <1>4 DEF IsScanning, IsReading
  <2>2. Agree(Unscanned, Unread, line[0 + 1])
    BY DEF Agree, Unread, Unscanned
  <2> QED BY <2>1, <2>2
<1>6. ASSUME NEW k \in Nat, k \in T PROVE k + 1 \in T
  <2>1. CASE k + 1 <= n
    <3>1. k + 1 \in 1 .. n /\ k \in 0 .. n /\ (k + 1) - 1 = k
      BY <1>1, <2>1
    <3>2. a[k] \in ScanStates(W) /\ a[k + 1] = ScanWord(a[k], tail[k + 1])
      BY <1>3, <3>1 DEF IsScanning
    <3>3. b[k] \in CompileStates(W) /\ b[k + 1] = CompileWord(b[k], tail[k + 1])
      BY <1>4, <3>1 DEF IsReading
    <3>4. Agree(a[k], b[k], line[k + 1])
      BY <1>6, <3>1
    <3>5. tail[k + 1] = line[(k + 1) + 1] /\ line[k + 1] \in W /\ line[(k + 1) + 1] \in W
      BY <1>1, <3>1
    <3>6. Kind(line[k + 1]) = "valued" /\ line[k + 1] \notin PassedOver
             => line[(k + 1) + 1] \notin PassedOver /\ Kind(line[(k + 1) + 1]) \notin {"stop", "source"}
      BY <1>2, <3>1
    <3>7. Agree(a[k + 1], b[k + 1], line[(k + 1) + 1])
      BY <3>2, <3>3, <3>4, <3>5, <3>6, AgreeOnWord
    <3> QED BY <3>7
  <2>2. CASE ~(k + 1 <= n)
    BY <2>2
  <2> QED BY <2>1, <2>2
<1>7. n \in T
  <2> HIDE DEF T
  <2> QED BY <1>1, <1>5, <1>6, Induction
<1>8. Scanned(tail) = a[n] /\ a[n] \in ScanStates(W)
  BY <1>1, <1>3 DEF IsScanning
<1>9. Read(tail) = b[n] /\ b[n] \in CompileStates(W)
  BY <1>1, <1>4 DEF IsReading
<1>10. Agree(a[n], b[n], line[n + 1]) /\ n + 1 = Len(line)
  BY <1>1, <1>7
<1> QED BY <1>8, <1>9, <1>10 DEF tail

\* FindSource names the source that a plain line compiles, if it compiles just one.
LEMMA FindSourceIsCompiled ==
    ASSUME NEW W, NEW line \in Seq(W), line # <<>>, Plain(line), Kind(NoWord) # "source"
    PROVE  /\ FindSource(line) # NoWord <=> Len(Compiled(line)) = 1
           /\ FindSource(line) # NoWord => Compiled(line) = <<FindSource(line)>>
<1> DEFINE a == Scanned(Tail(line))
           b == Read(Tail(line))
<1>1. Agree(a, b, line[Len(line)]) /\ b \in CompileStates(W) /\ a \in ScanStates(W)
  BY AgreeOnLine
<1>2. Expanded(line) = line
  BY ExpandedIsLine DEF Plain
<1>3. Compiled(line) = IF b.stop THEN <<>> ELSE b.sources
  BY <1>2, Zenon DEF Compiled
<1>4. FindSource(line) = IF a.unsupported \/ Len(a.sources) # 1 THEN NoWord ELSE a.sources[1]
  BY Zenon DEF FindSource
<1> HIDE DEF a, b
<1>5. b.sources = a.sources /\ b.sources \in Seq(SourcesIn(W)) /\ a.unsupported = b.stop /\ b.stop \in BOOLEAN
  BY <1>1 DEF Agree, CompileStates
<1>6. CASE b.stop
  BY <1>3, <1>4, <1>5, <1>6
<1>7. CASE ~b.stop /\ Len(b.sources) # 1
  BY <1>3, <1>4, <1>5, <1>7
<1>8. CASE ~b.stop /\ Len(b.sources) = 1
  <2>1. FindSource(line) = b.sources[1] /\ Compiled(line) = b.sources
    BY <1>3, <1>4, <1>5, <1>8
  <2>2. b.sources[1] \in SourcesIn(W) /\ b.sources = <<b.sources[1]>>
    BY <1>5, <1>8
  <2>3. b.sources[1] # NoWord
    BY <2>2 DEF SourcesIn
  <2> QED BY <1>8, <2>1, <2>2, <2>3
<1> QED BY <1>5, <1>6, <1>7, <1>8

-----------------------------------------------------------------------------
(* What the frontend drops from a plain line does not matter.               *)

\* Words are read one after the other.
LEMMA ReadAppend ==
    ASSUME NEW W, NEW t \in Seq(W), NEW word \in W
    PROVE  /\ Read(t) \in CompileStates(W)
           /\ Read(Append(t, word)) = CompileWord(Read(t), word)
<1> DEFINE u == Append(t, word)
           n == Len(t)
<1>1. u \in Seq(W) /\ Len(u) = n + 1 /\ n \in Nat /\ u[n + 1] = word /\ \A k \in 1 .. n : u[k] = t[k]
  OBVIOUS
<1> HIDE DEF u
<1>2. PICK b : IsReading(b, t, W)
  BY Reading
<1>3. PICK c : IsReading(c, u, W)
  BY <1>1, Reading
<1> DEFINE T == {k \in Nat : k <= n => c[k] = b[k]}
<1>4. 0 \in T
  <2>1. c[0] = b[0]
    BY <1>2, <1>3 DEF IsReading
  <2> QED BY <2>1
<1>5. ASSUME NEW k \in Nat, k \in T PROVE k + 1 \in T
  <2>1. CASE k + 1 <= n
    <3>1. k + 1 \in 1 .. n /\ k + 1 \in 1 .. (n + 1) /\ (k + 1) - 1 = k /\ c[k] = b[k]
      BY <1>1, <1>5, <2>1
    <3>2. c[k + 1] = CompileWord(c[k], u[k + 1])
      BY <1>1, <1>3, <3>1 DEF IsReading
    <3>3. b[k + 1] = CompileWord(b[k], t[k + 1])
      BY <1>2, <3>1 DEF IsReading
    <3>4. c[k + 1] = b[k + 1]
      BY <1>1, <3>1, <3>2, <3>3
    <3> QED BY <3>4
  <2>2. CASE ~(k + 1 <= n)
    BY <2>2
  <2> QED BY <2>1, <2>2
<1>6. n \in T
  <2> HIDE DEF T
  <2> QED BY <1>1, <1>4, <1>5, Induction
<1>7. c[n] = b[n] /\ Read(t) = b[n] /\ b[n] \in CompileStates(W)
  BY <1>1, <1>2, <1>6 DEF IsReading
<1>8. Read(u) = c[n + 1] /\ n + 1 \in 1 .. (n + 1) /\ (n + 1) - 1 = n
  BY <1>1, <1>3 DEF IsReading
<1>9. c[n + 1] = CompileWord(c[n], word)
  BY <1>1, <1>3, <1>8 DEF IsReading
<1> QED BY <1>7, <1>8, <1>9 DEF u

\* What the compiler knows after i words of the line is d, after those that the
\* frontend has kept r; they differ between an option and its value that are dropped.
Follows(c, d, r, line, i) ==
    /\ ~c.skip => r = d /\ (d.skip => Kind(line[i]) = "valued")
    /\ c.skip => /\ r = [skip |-> FALSE, stop |-> d.stop, sources |-> d.sources]
                 /\ TakesPair(line, i)
                 /\ d.skip <=> line[i] = "-D"

\* One word.
LEMMA FollowsWord ==
    ASSUME NEW W, NEW line \in Seq(W), Plain(line), NEW i \in 1 .. Len(line), i + 1 \in 1 .. Len(line),
           NEW c \in SanitizeStates(W), NEW d \in CompileStates(W), NEW r \in CompileStates(W),
           Follows(c, d, r, line, i)
    PROVE  LET x == SanitizeWord(line, c, i + 1)
               y == CompileWord(d, line[i + 1])
           IN \/ x.kept = c.kept /\ Follows(x, y, r, line, i + 1)
              \/ /\ x.kept = Append(c.kept, line[i + 1])
                 /\ Follows(x, y, CompileWord(r, line[i + 1]), line, i + 1)
<1> DEFINE w == line[i + 1]
           k == Kind(w)
           x == SanitizeWord(line, c, i + 1)
           y == CompileWord(d, w)
<1> USE KindsAssumption
<1>0. Kind("-D") = "valued"
  BY DEF PassedOver
<1>1. w \in W /\ i + 1 \in DOMAIN line /\ i + 1 > 1 /\ (i + 1) - 1 = i
  OBVIOUS
<1>2. Kind(line[i]) = "valued" => ~Dropped(line, i + 1)
  BY <1>1 DEF Plain
<1>3. line[i] \in RejectedPairs => k \notin {"valued", "stop", "source"}
  BY <1>1 DEF Plain
<1>4. TakesPair(line, i) => line[i] \in RejectedPairs \/ line[i] = "-D"
  BY DEF TakesPair
<1>5. TakesPair(line, i + 1) => w \in RejectedPairs \/ w = "-D"
  BY DEF TakesPair
<1>6. Dropped(line, i + 1) /\ ~TakesPair(line, i + 1) => w \in Rejected \cup {"--"}
  BY DEF Dropped
<1>7. TakesPair(line, i + 1) => Dropped(line, i + 1)
  BY DEF Dropped
<1>8. c.skip \in BOOLEAN /\ d.skip \in BOOLEAN /\ c = [skip |-> c.skip, kept |-> c.kept]
      /\ d = [skip |-> d.skip, stop |-> d.stop, sources |-> d.sources]
  BY DEF SanitizeStates, CompileStates
<1>9. CASE c.skip
  <2>1. x = [skip |-> FALSE, kept |-> c.kept]
    BY <1>1, <1>9, SanitizeCases, ZenonT(30)
  <2>2. y = [skip |-> FALSE, stop |-> d.stop, sources |-> d.sources]
    <3>1. CASE d.skip
      BY <1>1, <3>1, CompileCases
    <3>2. CASE ~d.skip
      <4>1. line[i] \in RejectedPairs
        BY <1>4, <1>9, <3>2 DEF Follows
      <4>2. y = d
        BY <1>1, <1>3, <3>2, <4>1, CompileCases
      <4> QED BY <1>8, <3>2, <4>2
    <3> QED BY <3>1, <3>2, <1>8
  <2> HIDE DEF x, y
  <2>3. Follows(x, y, r, line, i + 1) /\ x.kept = c.kept
    BY <1>9, <2>1, <2>2 DEF Follows
  <2> QED BY <2>3 DEF x, y
<1>10. CASE ~c.skip /\ ~Dropped(line, i + 1)
  <2>1. x = [skip |-> FALSE, kept |-> Append(c.kept, w)]
    BY <1>1, <1>10, SanitizeCases, ZenonT(30)
  <2>2. r = d
    BY <1>10 DEF Follows
  <2>3. y.skip => k = "valued"
    <3>1. CASE d.skip
      BY <1>1, <3>1, CompileCases
    <3>2. CASE ~d.skip /\ k = "stop"
      BY <1>1, <3>2, CompileCases
    <3>3. CASE ~d.skip /\ k = "source"
      BY <1>1, <3>3, CompileCases
    <3>4. CASE ~d.skip /\ k \notin {"stop", "valued", "source"}
      BY <1>1, <3>4, CompileCases
    <3> QED BY <1>8, <3>1, <3>2, <3>3, <3>4
  <2>4. Follows(x, y, y, line, i + 1) /\ x.kept = Append(c.kept, w)
    <3> HIDE DEF x, y
    <3> QED BY <2>1, <2>3 DEF Follows
  <2> QED BY <2>2, <2>4
<1>11. CASE ~c.skip /\ Dropped(line, i + 1)
  <2>1. r = d /\ ~d.skip
    BY <1>2, <1>11 DEF Follows
  <2>2. CASE TakesPair(line, i + 1)
    <3>1. x = [skip |-> TRUE, kept |-> c.kept]
      BY <1>1, <1>11, <2>2, SanitizeCases, ZenonT(30)
    <3>2. CASE w = "-D"
      <4>1. y = [skip |-> TRUE, stop |-> d.stop, sources |-> d.sources]
        BY <1>0, <1>1, <2>1, <3>2, CompileCases
      <4>2. Follows(x, y, r, line, i + 1) /\ x.kept = c.kept
        <5> HIDE DEF x, y
        <5> QED BY <1>8, <2>1, <2>2, <3>1, <3>2, <4>1 DEF Follows
      <4> QED BY <4>2
    <3>3. CASE w # "-D"
      <4>1. k = "option"
        BY <1>5, <2>2, <3>3
      <4>2. y = d
        BY <1>1, <2>1, <4>1, CompileCases
      <4>3. Follows(x, y, r, line, i + 1) /\ x.kept = c.kept
        <5> HIDE DEF x, y
        <5> QED BY <1>8, <2>1, <2>2, <3>1, <3>3, <4>2 DEF Follows
      <4> QED BY <4>3
    <3> QED BY <3>2, <3>3
  <2>3. CASE ~TakesPair(line, i + 1)
    <3>1. x = c
      BY <1>1, <1>11, <2>3, SanitizeCases
    <3>2. k \in {"option", "dashes"}
      BY <1>6, <1>11, <2>3
    <3>3. y = d
      BY <1>1, <2>1, <3>2, CompileCases
    <3>4. Follows(x, y, r, line, i + 1) /\ x.kept = c.kept
      <4> HIDE DEF x, y
      <4> QED BY <1>11, <2>1, <3>1, <3>3 DEF Follows
    <3> QED BY <3>4
  <2> QED BY <2>2, <2>3
<1> QED BY <1>8, <1>9, <1>10, <1>11

\* The frontend gets a line that compiles the same sources.
LEMMA SanitizedCompiles ==
    ASSUME NEW W, NEW line \in Seq(W), line # <<>>, Plain(line)
    PROVE  Compiled(Sanitized(line)) = Compiled(line)
<1> DEFINE V == {word \in W : Kind(word) # "response"}
           n == Len(line)
           tail == Tail(line)
<1>1. line \in Seq(V) /\ n \in Nat \ {0} /\ \A i \in 1 .. n : line[i] \in V
  <2>1. n \in Nat \ {0} /\ \A i \in 1 .. n : line[i] \in V
    BY DEF Plain
  <2> HIDE DEF V
  <2>2. line \in [1 .. n -> V]
    BY <2>1
  <2> QED BY <2>1, <2>2, SeqDef
<1> HIDE DEF V
<1>2. /\ tail \in Seq(V) /\ Len(tail) = n - 1
      /\ \A k \in 1 .. (n - 1) : tail[k] = line[k + 1]
  BY <1>1, TailWords
<1> HIDE DEF tail, n
<1>3. PICK c : IsSanitizing(c, line, V)
  BY <1>1, Sanitizing
<1>4. PICK b : IsReading(b, tail, V)
  BY <1>2, Reading
<1> DEFINE P(i) == /\ c[i].kept \in Seq(V) /\ c[i].kept # <<>>
                   /\ Follows(c[i], b[i - 1], Read(Tail(c[i].kept)), line, i)
           T == {i \in Nat : i + 1 <= n => P(i + 1)}
<1>5. 0 \in T
  <2>1. c[0] = Unsanitized /\ c[1] = SanitizeWord(line, c[0], 1) /\ b[0] = Unread
    <3>1. 1 \in 1 .. Len(line) /\ 1 - 1 = 0
      BY <1>1 DEF n
    <3> QED BY <1>3, <1>4, <3>1 DEF IsSanitizing, IsReading
  <2>2. Unsanitized \in SanitizeStates(V) /\ ~Unsanitized.skip /\ Unsanitized.kept = <<>>
    BY DEF Unsanitized, SanitizeStates
  <2>3. ~Dropped(line, 1) /\ 1 \in 1 .. Len(line) /\ line[1] \in V
    BY <1>1 DEF Plain, n
  <2>4. c[1] = [skip |-> FALSE, kept |-> Append(<<>>, line[1])]
    <3>1. SanitizeWord(line, Unsanitized, 1) = [skip |-> FALSE, kept |-> Append(Unsanitized.kept, line[1])]
      BY <1>1, <2>2, <2>3, SanitizeCases, Zenon
    <3> QED BY <2>1, <2>2, <3>1
  <2>5. c[1].skip = FALSE /\ c[1].kept = <<line[1]>> /\ Tail(c[1].kept) = <<>>
    BY <2>4
  <2>6. Read(<<>>) = Unread
    <3>1. <<>> \in Seq(V) /\ Len(<<>>) = 0
      OBVIOUS
    <3>2. PICK a : IsReading(a, <<>>, V)
      BY <3>1, Reading
    <3> QED BY <3>1, <3>2 DEF IsReading
  <2>7. Follows(c[1], Unread, Unread, line, 1)
    BY <2>5 DEF Follows, Unread
  <2>8. P(1)
    <3>1. <<line[1]>> \in Seq(V) /\ <<line[1]>> # <<>> /\ 1 - 1 = 0
      BY <2>3
    <3> QED BY <2>1, <2>5, <2>6, <2>7, <3>1
  <2>9. 0 + 1 = 1
    OBVIOUS
  <2> HIDE DEF P
  <2> QED BY <2>8, <2>9
<1>6. ASSUME NEW i \in Nat, i \in T PROVE i + 1 \in T
  <2>1. CASE (i + 1) + 1 <= n
    <3> DEFINE j == i + 1
    <3>1. /\ j \in 1 .. n /\ j + 1 \in 1 .. n /\ j \in 0 .. n /\ j \in 1 .. (n - 1)
          /\ (j + 1) - 1 = j /\ j - 1 \in 0 .. (n - 1)
      BY <1>1, <2>1
    <3>2. P(j)
      BY <1>6, <2>1, <3>1
    <3> HIDE DEF j
    <3>3. c[j] \in SanitizeStates(V) /\ c[j + 1] = SanitizeWord(line, c[j], j + 1)
      BY <1>3, <3>1 DEF IsSanitizing, n
    <3>4. b[j - 1] \in CompileStates(V) /\ b[j] = CompileWord(b[j - 1], line[j + 1])
      BY <1>2, <1>4, <3>1 DEF IsReading
    <3> DEFINE w == line[j + 1]
               kept == c[j].kept
               r == Read(Tail(kept))
    <3>5. w \in V /\ kept \in Seq(V) /\ kept # <<>> /\ Tail(kept) \in Seq(V)
      BY <1>1, <3>1, <3>2
    <3>6. r \in CompileStates(V) /\ Read(Append(Tail(kept), w)) = CompileWord(r, w)
      <4> HIDE DEF w, kept
      <4> QED BY <3>5, ReadAppend
    <3>7. /\ Append(kept, w) \in Seq(V) /\ Append(kept, w) # <<>>
          /\ Tail(Append(kept, w)) = Append(Tail(kept), w)
      <4> HIDE DEF w, kept
      <4> QED BY <3>5
    <3>8. \/ /\ c[j + 1].kept = kept
             /\ Follows(c[j + 1], b[j], r, line, j + 1)
          \/ /\ c[j + 1].kept = Append(kept, w)
             /\ Follows(c[j + 1], b[j], CompileWord(r, w), line, j + 1)
      <4>1. Follows(c[j], b[j - 1], r, line, j)
        BY <3>2
      <4>2. j \in 1 .. Len(line) /\ j + 1 \in 1 .. Len(line)
        BY <3>1 DEF n
      <4> HIDE DEF r, kept
      <4>3. \/ /\ SanitizeWord(line, c[j], j + 1).kept = c[j].kept
               /\ Follows(SanitizeWord(line, c[j], j + 1), CompileWord(b[j - 1], line[j + 1]), r, line, j + 1)
            \/ /\ SanitizeWord(line, c[j], j + 1).kept = Append(c[j].kept, line[j + 1])
               /\ Follows(SanitizeWord(line, c[j], j + 1), CompileWord(b[j - 1], line[j + 1]),
                          CompileWord(r, line[j + 1]), line, j + 1)
        BY <1>1, <3>3, <3>4, <3>6, <4>1, <4>2, FollowsWord, Zenon
      <4> QED BY <3>3, <3>4, <4>3, Zenon DEF kept
    <3>9. P(j + 1)
      BY <3>1, <3>5, <3>6, <3>7, <3>8
    <3> HIDE DEF P
    <3> QED BY <3>9 DEF j
  <2>2. CASE ~((i + 1) + 1 <= n)
    BY <2>2
  <2> QED BY <2>1, <2>2
<1>7. n - 1 \in T
  <2> HIDE DEF T
  <2> QED BY <1>1, <1>5, <1>6, Induction
<1>8. P(n)
  <2> HIDE DEF P
  <2>1. (n - 1) + 1 = n
    BY <1>1
  <2> QED BY <1>7, <2>1
<1> DEFINE kept == c[n].kept
           r == Read(Tail(kept))
           d == Read(tail)
<1>9. Sanitized(line) = kept /\ c[n] \in SanitizeStates(V)
  BY <1>1, <1>3 DEF IsSanitizing, n
<1>10. d = b[n - 1]
  BY <1>2, <1>4 DEF IsReading
<1>11. Expanded(line) = line
  BY <1>1, ExpandedIsLine DEF V
<1>12. Expanded(kept) = kept
  <2>1. kept \in Seq(V)
    BY <1>8
  <2>2. \A i \in DOMAIN kept : Kind(kept[i]) # "response"
    <3> HIDE DEF kept
    <3>1. \A i \in DOMAIN kept : kept[i] \in V
      BY <2>1
    <3> QED BY <3>1 DEF V
  <2> HIDE DEF kept
  <2> QED BY <2>1, <2>2, ExpandedIsLine
<1>13. Compiled(line) = IF d.stop THEN <<>> ELSE d.sources
  BY <1>11, Zenon DEF Compiled, tail
<1>14. Compiled(kept) = IF r.stop THEN <<>> ELSE r.sources
  BY <1>12, Zenon DEF Compiled
<1>15. r.stop = d.stop /\ r.sources = d.sources
  <2>1. Follows(c[n], d, r, line, n)
    BY <1>8, <1>10
  <2> HIDE DEF r, d
  <2> QED BY <1>9, <2>1 DEF Follows
<1> HIDE DEF r, d, kept
<1> QED BY <1>9, <1>13, <1>14, <1>15

-----------------------------------------------------------------------------
(* Packed lines.                                                            *)

\* SMT has no word for it.
NoText == ""

\* e[k] is the place of the terminator after word k of the line, and the text of the
\* word, if it has one, is just before it; k is at most n.
Ends(e, blob, line, n) ==
    /\ e[0] = 0 /\ e[n] = Len(blob)
    /\ \A k \in 1 .. n :
          /\ e[k] \in 1 .. Len(blob) /\ e[k - 1] \in Nat /\ blob[e[k]] = Nul
          /\ line[k] = NoText => e[k] = e[k - 1] + 1
          /\ line[k] # NoText => e[k] = e[k - 1] + 2 /\ blob[e[k - 1] + 1] = line[k]

\* pack_arguments
LEMMA Packing ==
    ASSUME NEW W, NEW line \in Seq(W)
    PROVE  /\ Pack(line) \in Seq(W \cup {Nul})
           /\ \E e : Ends(e, Pack(line), line, Len(line))
<1> DEFINE n == Len(line)
           X == W \cup {Nul}
           Piece(word) == IF word = NoText THEN <<Nul>> ELSE <<word, Nul>>
           seqs == [i \in DOMAIN line |-> Piece(line[i])]
<1>1. n \in Nat /\ DOMAIN line = 1 .. n /\ \A k \in 1 .. n : line[k] \in W
  OBVIOUS
<1>2. Pack(line) = FlattenSeq(seqs)
  BY Zenon DEF Pack, NoText
<1>3. \A k \in 1 .. n : Piece(line[k]) \in Seq(X)
  <2> SUFFICES ASSUME NEW k \in 1 .. n PROVE Piece(line[k]) \in Seq(X)
    OBVIOUS
  <2>1. line[k] \in X /\ Nul \in X
    BY <1>1
  <2> HIDE DEF X
  <2>2. <<Nul>> \in Seq(X) /\ <<line[k], Nul>> \in Seq(X)
    BY <2>1
  <2> QED BY <2>2
<1> HIDE DEF X, n
<1>4. seqs \in Seq(Seq(X)) /\ Len(seqs) = n /\ \A k \in 1 .. n : seqs[k] = Piece(line[k])
  <2> DEFINE S == Seq(X)
  <2>1. \A k \in 1 .. n : Piece(line[k]) \in S /\ seqs[k] = Piece(line[k])
    BY <1>1, <1>3
  <2>2. seqs = [k \in 1 .. n |-> seqs[k]]
    BY <1>1
  <2> HIDE DEF seqs, Piece, S
  <2>3. seqs \in [1 .. n -> S]
    BY <2>1, <2>2
  <2>4. seqs \in Seq(S) /\ Len(seqs) = n
    BY <1>1, <2>3, SeqDef
  <2> QED BY <2>1, <2>4 DEF S
<1> HIDE DEF seqs
<1>5. PICK g : IsFlattening(g, seqs, X)
  BY <1>4, Flattening
<1> DEFINE e == [k \in 0 .. n |-> Len(g[k])]
           T == {k \in Nat : k <= n => Ends(e, g[k], line, k)}
<1>6. \A k \in 0 .. n : g[k] \in Seq(X) /\ e[k] = Len(g[k]) /\ e[k] \in Nat
  <2> SUFFICES ASSUME NEW k \in 0 .. n PROVE g[k] \in Seq(X) /\ e[k] = Len(g[k]) /\ e[k] \in Nat
    OBVIOUS
  <2>1. g[k] \in Seq(X)
    BY <1>4, <1>5 DEF IsFlattening
  <2>2. Len(g[k]) \in Nat
    BY <2>1, LenProperties
  <2> QED BY <2>1, <2>2
<1>7. 0 \in T
  <2>1. g[0] = <<>> /\ 0 \in 0 .. n
    BY <1>1, <1>5 DEF IsFlattening
  <2>2. e[0] = 0 /\ e[0] = Len(g[0])
    BY <1>6, <2>1
  <2> HIDE DEF e
  <2>3. Ends(e, g[0], line, 0)
    BY <2>2 DEF Ends
  <2> QED BY <2>3
<1> HIDE DEF e
<1>8. ASSUME NEW k \in Nat, k \in T PROVE k + 1 \in T
  <2>1. CASE k + 1 <= n
    <3> DEFINE j == k + 1
               piece == Piece(line[j])
    <3>1. j \in 1 .. n /\ j \in 0 .. n /\ k \in 0 .. n /\ j - 1 = k
      BY <1>1, <2>1
    <3>2. Ends(e, g[k], line, k)
      BY <1>8, <2>1, <3>1
    <3> HIDE DEF j
    <3>3. g[j] = g[k] \o piece /\ g[k] \in Seq(X) /\ piece \in Seq(X)
      <4> HIDE DEF Piece
      <4> QED BY <1>3, <1>4, <1>5, <1>6, <3>1 DEF IsFlattening
    <3>4. e[j] = Len(g[k]) + Len(piece) /\ e[k] = Len(g[k]) /\ e[k] \in Nat
      <4> HIDE DEF Piece
      <4>1. Len(g[j]) = Len(g[k]) + Len(piece)
        <5> HIDE DEF piece
        <5> QED BY <3>3
      <4> QED BY <1>6, <3>1, <4>1
    <3>5. /\ line[j] = NoText => piece = <<Nul>>
          /\ line[j] # NoText => piece = <<line[j], Nul>>
      OBVIOUS
    <3> HIDE DEF Piece, piece
    <3>6. \A i \in 1 .. e[k] : g[j][i] = g[k][i]
      BY <3>3, <3>4
    <3>7. /\ e[j] \in 1 .. Len(g[j]) /\ e[j - 1] \in Nat /\ g[j][e[j]] = Nul
          /\ line[j] = NoText => e[j] = e[j - 1] + 1
          /\ line[j] # NoText => e[j] = e[j - 1] + 2 /\ g[j][e[j - 1] + 1] = line[j]
      <4>1. CASE line[j] = NoText
        <5>1. piece = <<Nul>>
          BY <3>5, <4>1, Zenon
        <5>2. Len(piece) = 1 /\ piece[1] = Nul
          BY <5>1
        <5>3. g[j][e[k] + 1] = piece[1]
          BY <3>3, <3>4, <5>2, ConcatProperties
        <5>4. e[j] = e[k] + 1 /\ e[j] = Len(g[j]) /\ e[j - 1] = e[k]
          BY <1>6, <3>1, <3>4, <5>2
        <5>5. g[j][e[j]] = Nul
          BY <5>2, <5>3, <5>4
        <5>6. e[j] \in 1 .. Len(g[j]) /\ e[j - 1] \in Nat /\ e[j] = e[j - 1] + 1
          BY <3>4, <5>4
        <5> QED BY <4>1, <5>5, <5>6, Zenon
      <4>2. CASE line[j] # NoText
        <5>1. piece = <<line[j], Nul>>
          BY <3>5, <4>2, Zenon
        <5>2. Len(piece) = 2 /\ piece[1] = line[j] /\ piece[2] = Nul
          BY <5>1
        <5>3. g[j][e[k] + 1] = piece[1] /\ g[j][e[k] + 2] = piece[2]
          <6>1. /\ Len(g[k]) \in Nat
                /\ \A i \in 1 .. (Len(g[k]) + Len(piece)) :
                      (g[k] \o piece)[i] = IF i <= Len(g[k]) THEN g[k][i] ELSE piece[i - Len(g[k])]
            BY <3>3, ConcatProperties, LenProperties
          <6>2. (g[k] \o piece)[e[k] + 1] = piece[1] /\ (g[k] \o piece)[e[k] + 2] = piece[2]
            <7>1. e[k] + 1 \in 1 .. (Len(g[k]) + Len(piece)) /\ e[k] + 2 \in 1 .. (Len(g[k]) + Len(piece))
              BY <3>4, <5>2, <6>1
            <7>2. (e[k] + 1) - Len(g[k]) = 1 /\ (e[k] + 2) - Len(g[k]) = 2
              BY <3>4, <6>1
            <7>3. ~(e[k] + 1 <= Len(g[k])) /\ ~(e[k] + 2 <= Len(g[k]))
              BY <3>4, <6>1
            <7> QED BY <6>1, <7>1, <7>2, <7>3
          <6> QED BY <3>3, <6>2
        <5>4. e[j] = e[k] + 2 /\ e[j] = Len(g[j]) /\ e[j - 1] = e[k]
          BY <1>6, <3>1, <3>4, <5>2
        <5>5. g[j][e[j]] = Nul /\ g[j][e[j - 1] + 1] = line[j]
          BY <5>2, <5>3, <5>4
        <5>6. e[j] \in 1 .. Len(g[j]) /\ e[j - 1] \in Nat /\ e[j] = e[j - 1] + 2
          BY <3>4, <5>4
        <5> QED BY <4>2, <5>5, <5>6, Zenon
      <4> QED BY <4>1, <4>2
    <3>8. ASSUME NEW i \in 1 .. k
          PROVE  /\ e[i] \in 1 .. Len(g[j]) /\ e[i - 1] \in Nat /\ g[j][e[i]] = Nul
                 /\ line[i] = NoText => e[i] = e[i - 1] + 1
                 /\ line[i] # NoText => e[i] = e[i - 1] + 2 /\ g[j][e[i - 1] + 1] = line[i]
      <4>1. /\ e[i] \in 1 .. e[k] /\ e[i - 1] \in Nat /\ g[k][e[i]] = Nul
            /\ line[i] = NoText => e[i] = e[i - 1] + 1
            /\ line[i] # NoText => e[i] = e[i - 1] + 2 /\ g[k][e[i - 1] + 1] = line[i]
        BY <3>2, <3>4 DEF Ends
      <4>2. e[k] <= Len(g[j]) /\ Len(g[j]) \in Nat
        <5>1. e[j] = Len(g[j]) /\ Len(piece) \in Nat
          BY <1>6, <3>1, <3>3, LenProperties
        <5> QED BY <3>4, <5>1
      <4>3. g[j][e[i]] = g[k][e[i]] /\ e[i] \in 1 .. Len(g[j])
        <5>1. e[k] \in Nat /\ e[i] \in 1 .. e[k]
          BY <3>4, <4>1
        <5> QED BY <3>6, <4>2, <5>1
      <4>4. CASE line[i] # NoText
        <5>1. e[i - 1] + 1 \in 1 .. e[k]
          <6>1. e[i] = e[i - 1] + 2 /\ e[i - 1] \in Nat /\ e[i] \in 1 .. e[k] /\ e[k] \in Nat
            BY <3>4, <4>1, <4>4
          <6> QED BY <6>1
        <5> QED BY <3>6, <4>1, <4>3, <4>4, <5>1
      <4>5. CASE line[i] = NoText
        BY <4>1, <4>3, <4>5
      <4> QED BY <4>4, <4>5
    <3>9. Ends(e, g[j], line, j)
      <4>1. e[0] = 0 /\ e[j] = Len(g[j])
        BY <1>6, <3>1, <3>2 DEF Ends
      <4>2. \A i \in 1 .. j : i = j \/ i \in 1 .. k
        BY <3>1
      <4> QED BY <3>7, <3>8, <4>1, <4>2 DEF Ends
    <3> QED BY <3>9 DEF j
  <2>2. CASE ~(k + 1 <= n)
    BY <2>2
  <2> QED BY <2>1, <2>2
<1>9. n \in T
  <2> HIDE DEF T
  <2> QED BY <1>1, <1>7, <1>8, Induction
<1>10. Pack(line) = g[n] /\ g[n] \in Seq(X) /\ Ends(e, g[n], line, n)
  <2>1. Pack(line) = g[n]
    BY <1>2, <1>4, <1>5 DEF IsFlattening
  <2>2. n \in 0 .. n
    BY <1>1
  <2> QED BY <1>6, <1>9, <2>1, <2>2
<1>11. \E f : Ends(f, Pack(line), line, n)
  <2>1. Ends(e, Pack(line), line, n)
    BY <1>10
  <2> QED BY <2>1
<1> QED BY <1>10, <1>11 DEF n, X

\* The terminators are in the order of the words.
LEMMA EndsGrow ==
    ASSUME NEW e, NEW blob, NEW line, NEW n \in Nat, Ends(e, blob, line, n)
    PROVE  /\ \A k \in 0 .. n : e[k] \in Nat
           /\ \A k \in 0 .. n : \A j \in 0 .. k : j < k => e[j] < e[k]
<1> DEFINE T == {k \in Nat : k <= n => e[k] \in Nat /\ \A j \in 0 .. k : j < k => e[j] < e[k]}
<1>0. e[0] = 0
  BY DEF Ends
<1>1. 0 \in T
  <2> \A j \in 0 .. 0 : ~(j < 0)
    OBVIOUS
  <2> QED BY <1>0
<1>2. ASSUME NEW k \in Nat, k \in T PROVE k + 1 \in T
  <2>1. CASE k + 1 <= n
    <3>1. k + 1 \in 1 .. n /\ (k + 1) - 1 = k
      BY <2>1
    <3>2. e[k] \in Nat /\ \A j \in 0 .. k : j < k => e[j] < e[k]
      BY <1>2, <2>1
    <3>3. e[k + 1] = e[k] + 1 \/ e[k + 1] = e[k] + 2
      BY <3>1 DEF Ends
    <3>4. e[k + 1] \in Nat /\ e[k] < e[k + 1]
      BY <3>2, <3>3
    <3>5. ASSUME NEW j \in 0 .. (k + 1), j < k + 1 PROVE e[j] < e[k + 1]
      <4>1. CASE j = k
        BY <3>4, <4>1
      <4>2. CASE j # k
        <5>1. j \in 0 .. k /\ j < k
          BY <3>5, <4>2
        <5>2. j \in Nat /\ j <= n
          BY <3>1, <5>1
        <5>3. e[j] \in Nat
          <6>1. CASE j = 0
            BY <1>0, <6>1
          <6>2. CASE j # 0
            <7>1. j \in 1 .. n
              BY <5>2, <6>2
            <7>2. e[j] \in 1 .. Len(blob)
              BY <7>1 DEF Ends
            <7> QED BY <7>2
          <6> QED BY <6>1, <6>2
        <5> QED BY <3>2, <3>4, <5>1, <5>3
      <4> QED BY <4>1, <4>2
    <3> QED BY <3>4, <3>5
  <2>2. CASE ~(k + 1 <= n)
    BY <2>2
  <2> QED BY <2>1, <2>2
<1>3. Nat \subseteq T
  <2> HIDE DEF T
  <2> QED BY <1>1, <1>2, Induction
<1> QED BY <1>3

\* Every place belongs to a word.
LEMMA EndsCover ==
    ASSUME NEW e, NEW blob, NEW line, NEW n \in Nat, Ends(e, blob, line, n), NEW m \in 1 .. Len(blob)
    PROVE  \E k \in 1 .. n : e[k - 1] < m /\ m <= e[k]
<1> DEFINE T == {k \in Nat : k <= n => \A i \in 1 .. e[k] : \E j \in 1 .. k : e[j - 1] < i /\ i <= e[j]}
<1>1. 0 \in T
  <2>1. e[0] = 0
    BY DEF Ends
  <2>2. 1 .. e[0] = {}
    BY <2>1
  <2> QED BY <2>2
<1>2. ASSUME NEW k \in Nat, k \in T PROVE k + 1 \in T
  <2>1. CASE k + 1 <= n
    <3>1. k + 1 \in 1 .. n /\ (k + 1) - 1 = k /\ k \in 0 .. n /\ k + 1 \in 0 .. n
      BY <2>1
    <3>2. e[k] \in Nat /\ e[k + 1] \in Nat
      BY <3>1, EndsGrow
    <3>3. ASSUME NEW i \in 1 .. e[k + 1] PROVE \E j \in 1 .. (k + 1) : e[j - 1] < i /\ i <= e[j]
      <4>1. CASE i <= e[k]
        <5>1. i \in 1 .. e[k]
          BY <3>2, <4>1
        <5>2. PICK j \in 1 .. k : e[j - 1] < i /\ i <= e[j]
          BY <1>2, <2>1, <5>1
        <5>3. j \in 1 .. (k + 1)
          OBVIOUS
        <5> QED BY <5>2, <5>3
      <4>2. CASE ~(i <= e[k])
        <5>1. e[k] < i /\ i <= e[k + 1]
          BY <3>2, <4>2
        <5>2. k + 1 \in 1 .. (k + 1)
          OBVIOUS
        <5> QED BY <3>1, <5>1, <5>2
      <4> QED BY <4>1, <4>2
    <3> QED BY <3>3
  <2>2. CASE ~(k + 1 <= n)
    BY <2>2
  <2> QED BY <2>1, <2>2
<1>3. n \in T
  <2> HIDE DEF T
  <2> QED BY <1>1, <1>2, Induction
<1>4. e[n] = Len(blob)
  BY DEF Ends
<1> QED BY <1>3, <1>4

\* There are as many terminators as words, at the ends of the words.
LEMMA NulsOfPack ==
    ASSUME NEW W, Nul \notin W, NEW line \in Seq(W), NEW e, NEW blob \in Seq(W \cup {Nul}),
           Ends(e, blob, line, Len(line))
    PROVE  /\ Nuls(blob) = {e[k] : k \in 1 .. Len(line)}
           /\ Cardinality(Nuls(blob)) = Len(line)
<1> DEFINE n == Len(line)
           E == {e[k] : k \in 1 .. n}
<1>1. n \in Nat /\ DOMAIN blob = 1 .. Len(blob) /\ Len(blob) \in Nat /\ \A k \in 1 .. n : line[k] \in W
  OBVIOUS
<1>2. E \subseteq Nuls(blob)
  BY <1>1 DEF Ends, Nuls
<1>3. ASSUME NEW m \in Nuls(blob) PROVE m \in E
  <2>1. m \in 1 .. Len(blob) /\ blob[m] = Nul
    BY <1>1 DEF Nuls
  <2>2. PICK k \in 1 .. n : e[k - 1] < m /\ m <= e[k]
    BY <1>1, <2>1, EndsCover
  <2>3. e[k - 1] \in Nat /\ e[k] \in 1 .. Len(blob)
    BY DEF Ends
  <2>4. CASE line[k] = NoText
    <3>1. e[k] = e[k - 1] + 1
      BY <2>4 DEF Ends
    <3>2. m = e[k]
      BY <2>1, <2>2, <2>3, <3>1
    <3> QED BY <3>2
  <2>5. CASE line[k] # NoText
    <3>1. e[k] = e[k - 1] + 2 /\ blob[e[k - 1] + 1] = line[k]
      BY <2>5 DEF Ends
    <3>2. m = e[k] \/ m = e[k - 1] + 1
      BY <2>1, <2>2, <2>3, <3>1, SMTT(30)
    <3>3. m # e[k - 1] + 1
      BY <1>1, <2>1, <3>1
    <3> QED BY <3>2, <3>3
  <2> QED BY <2>4, <2>5
<1>4. Nuls(blob) = E
  BY <1>2, <1>3
<1>5. Cardinality(E) = n
  <2> DEFINE f == [k \in 1 .. n |-> e[k]]
  <2>1. \A j \in 1 .. n, k \in 1 .. n : e[j] = e[k] => j = k
    <3> SUFFICES ASSUME NEW j \in 1 .. n, NEW k \in 1 .. n, e[j] = e[k] PROVE j = k
      OBVIOUS
    <3>1. j \in 0 .. n /\ k \in 0 .. n /\ e[j] \in Nat /\ e[k] \in Nat
      BY <1>1, EndsGrow
    <3>2. ~(j < k) /\ ~(k < j)
      <4>1. ASSUME j < k PROVE FALSE
        <5>1. j \in 0 .. k
          BY <3>1, <4>1
        <5> QED BY <1>1, <3>1, <4>1, <5>1, EndsGrow
      <4>2. ASSUME k < j PROVE FALSE
        <5>1. k \in 0 .. j
          BY <3>1, <4>2
        <5> QED BY <1>1, <3>1, <4>2, <5>1, EndsGrow
      <4> QED BY <4>1, <4>2
    <3> QED BY <3>1, <3>2
  <2>2. f \in Bijection(1 .. n, E)
    <3>1. f \in [1 .. n -> E]
      OBVIOUS
    <3>2. \A a, b \in 1 .. n : f[a] = f[b] => a = b
      BY <2>1
    <3>3. \A t \in E : \E s \in 1 .. n : f[s] = t
      OBVIOUS
    <3> HIDE DEF f, E
    <3> QED BY <3>1, <3>2, <3>3 DEF Bijection, Injection, Surjection, IsInjective
  <2> HIDE DEF f, E
  <2>3. ExistsBijection(1 .. n, E)
    BY <2>2 DEF ExistsBijection
  <2> QED BY <1>1, <2>3, FS_CountingElements
<1> QED BY <1>4, <1>5

\* unpack_arguments gives back the line that pack_arguments was given.
LEMMA UnpackedIsPacked ==
    ASSUME NEW W, Nul \notin W, NEW line \in Seq(W), line # <<>>
    PROVE  Unpack(Pack(line)) = line
<1> DEFINE n == Len(line)
           blob == Pack(line)
           N == Nuls(blob)
           Body(f) == [i \in 1 .. Cardinality(N) |->
                          IF i = 1 THEN 1 ELSE 1 + Min({m \in N : m >= f[i - 1]})]
           offset == CHOOSE f : f = Body(f)
<1>1. n \in Nat \ {0} /\ DOMAIN line = 1 .. n /\ \A k \in 1 .. n : line[k] \in W
  OBVIOUS
<1>2. blob \in Seq(W \cup {Nul}) /\ \E e : Ends(e, blob, line, n)
  BY Packing
<1> HIDE DEF n, blob
<1>3. PICK e : Ends(e, blob, line, n)
  BY <1>2
<1>4. N = {e[k] : k \in 1 .. n} /\ Cardinality(N) = n
  BY <1>2, <1>3, NulsOfPack DEF n
<1>5. /\ \A k \in 0 .. n : e[k] \in Nat
      /\ \A k \in 0 .. n : \A j \in 0 .. k : j < k => e[j] < e[k]
      /\ e[0] = 0
  <2>1. e[0] = 0
    BY <1>3 DEF Ends
  <2>2. n \in Nat
    BY <1>1
  <2> QED BY <1>3, <2>1, <2>2, EndsGrow
<1> HIDE DEF N
\* The first terminator behind the end of a word is that of the next.
<1>6. ASSUME NEW i \in 1 .. n PROVE Min({m \in N : m >= e[i - 1] + 1}) = e[i]
  <2> DEFINE M == {m \in N : m >= e[i - 1] + 1}
  <2>1. i \in 0 .. n /\ i - 1 \in 0 .. i /\ i - 1 \in 0 .. n /\ i - 1 < i
    BY <1>1
  <2>2. e[i] \in Nat /\ e[i - 1] \in Nat /\ e[i - 1] < e[i]
    BY <1>5, <2>1
  <2>3. e[i] \in M
    BY <1>4, <2>2
  <2>4. M \in SUBSET Nat
    <3>1. \A k \in 1 .. n : e[k] \in Nat
      BY <1>1, <1>5
    <3> QED BY <1>4, <3>1
  <2>5. ASSUME NEW m \in M PROVE e[i] <= m
    <3>1. PICK k \in 1 .. n : m = e[k]
      BY <1>4
    <3>2. k \in 0 .. n /\ e[k] \in Nat /\ e[k] > e[i - 1]
      BY <1>1, <1>5, <2>2, <3>1
    <3>3. ~(k < i)
      <4> SUFFICES ASSUME k < i PROVE FALSE
        OBVIOUS
      <4>1. k = i - 1 \/ k < i - 1
        BY <1>1, <3>1
      <4>2. k < i - 1 => e[k] < e[i - 1]
        <5> SUFFICES ASSUME k < i - 1 PROVE e[k] < e[i - 1]
          OBVIOUS
        <5>1. k \in 0 .. (i - 1)
          BY <1>1
        <5> QED BY <1>5, <2>1, <5>1
      <4> QED BY <2>2, <3>2, <4>1, <4>2
    <3>4. CASE k = i
      BY <2>2, <3>1, <3>4
    <3>5. CASE i < k
      <4>1. i \in 0 .. k
        BY <2>1, <3>5
      <4>2. e[i] < e[k]
        BY <1>5, <3>2, <3>5, <4>1
      <4> QED BY <2>2, <3>1, <3>2, <4>2
    <3> QED BY <1>1, <3>3, <3>4, <3>5
  <2> HIDE DEF M
  <2>6. Min(M) = e[i]
    BY <2>3, <2>4, <2>5, MinIsLeast
  <2> QED BY <2>6 DEF M
<1>7. \E f : f = Body(f)
  <2> DEFINE f == [i \in 1 .. n |-> e[i - 1] + 1]
  <2>1. ASSUME NEW i \in 1 .. n PROVE f[i] = IF i = 1 THEN 1 ELSE 1 + Min({m \in N : m >= f[i - 1]})
    <3>1. CASE i = 1
      BY <1>5, <3>1
    <3>2. CASE i # 1
      <4>1. i - 1 \in 1 .. n
        BY <1>1, <3>2
      <4>2. f[i - 1] = e[(i - 1) - 1] + 1 /\ f[i] = e[i - 1] + 1
        BY <4>1
      <4>3. Min({m \in N : m >= f[i - 1]}) = e[i - 1]
        BY <1>6, <4>1, <4>2
      <4>4. e[i - 1] \in Nat
        BY <1>1, <1>5, <4>1
      <4> HIDE DEF f
      <4> QED BY <3>2, <4>2, <4>3, <4>4
    <3> QED BY <3>1, <3>2
  <2>2. f = Body(f)
    <3>1. f = [i \in 1 .. n |-> f[i]]
      OBVIOUS
    <3> HIDE DEF f
    <3> QED BY <1>4, <2>1, <3>1, ZenonT(30)
  <2> QED BY <2>2, Zenon
<1>8. offset = Body(offset)
  <2> HIDE DEF Body
  <2> QED BY <1>7, Zenon
<1>9. Unpack(blob) = IF blob = <<>> \/ Last(blob) # Nul THEN NoWord
                     ELSE [i \in 1 .. n |-> TextAt(blob, offset[i])]
  BY <1>4, Zenon DEF Unpack, N
<1>10. \A i \in 1 .. n : offset[i] = IF i = 1 THEN 1 ELSE 1 + Min({m \in N : m >= offset[i - 1]})
  <2> HIDE DEF offset
  <2> QED BY <1>4, <1>8, Zenon
<1> HIDE DEF offset
<1> DEFINE T == {i \in Nat : i + 1 <= n => offset[i + 1] = e[i] + 1}
<1>11. 0 \in T
  <2>1. 1 \in 1 .. n /\ 0 + 1 = 1
    BY <1>1
  <2>2. offset[1] = 1
    BY <1>10, <2>1
  <2>3. offset[1] = e[0] + 1
    BY <1>5, <2>2
  <2> QED BY <2>1, <2>3
<1>12. ASSUME NEW i \in Nat, i \in T PROVE i + 1 \in T
  <2>1. CASE (i + 1) + 1 <= n
    <3> DEFINE j == i + 1
    <3>1. j \in 1 .. n /\ j + 1 \in 1 .. n /\ j + 1 # 1 /\ (j + 1) - 1 = j /\ j - 1 = i
      BY <1>1, <2>1
    <3>2. offset[j] = e[i] + 1
      <4>1. i + 1 <= n
        BY <1>1, <2>1
      <4> QED BY <1>12, <4>1
    <3> HIDE DEF j
    <3>3. offset[j + 1] = 1 + Min({m \in N : m >= offset[j]})
      BY <1>10, <3>1
    <3>4. Min({m \in N : m >= offset[j]}) = e[j]
      BY <1>6, <3>1, <3>2
    <3>5. e[j] \in Nat
      BY <1>1, <1>5, <3>1
    <3>6. offset[j + 1] = e[j] + 1
      BY <3>3, <3>4, <3>5
    <3> QED BY <3>6 DEF j
  <2>2. CASE ~((i + 1) + 1 <= n)
    BY <2>2
  <2> QED BY <2>1, <2>2
<1>13. Nat \subseteq T
  <2> HIDE DEF T
  <2> QED BY <1>11, <1>12, Induction
<1>14. ASSUME NEW i \in 1 .. n PROVE TextAt(blob, offset[i]) = line[i]
  <2>1. offset[i] = e[i - 1] + 1
    <3>1. i - 1 \in T /\ (i - 1) + 1 = i /\ i <= n
      BY <1>1, <1>13
    <3> QED BY <3>1
  <2>2. CASE line[i] = NoText
    <3>1. e[i] = e[i - 1] + 1 /\ blob[e[i]] = Nul
      BY <1>3, <2>2 DEF Ends
    <3>2. blob[offset[i]] = Nul
      BY <2>1, <3>1
    <3> QED BY <2>2, <3>2, Zenon DEF TextAt, NoText
  <2>3. CASE line[i] # NoText
    <3>1. blob[e[i - 1] + 1] = line[i]
      BY <1>3, <2>3 DEF Ends
    <3>2. blob[offset[i]] = line[i] /\ line[i] # Nul
      BY <1>1, <2>1, <3>1
    <3> QED BY <3>2, Zenon DEF TextAt, NoText
  <2> QED BY <2>2, <2>3
<1>15. blob # <<>> /\ Last(blob) = Nul
  <2>1. n \in 1 .. n
    BY <1>1
  <2>2. e[n] \in 1 .. Len(blob) /\ e[n] = Len(blob) /\ blob[e[n]] = Nul
    BY <1>3, <2>1 DEF Ends
  <2>3. Len(blob) # 0
    BY <1>2, <2>2
  <2> QED BY <2>2, <2>3 DEF Last
<1>16. Unpack(blob) = [i \in 1 .. n |-> TextAt(blob, offset[i])]
  BY <1>9, <1>15, Zenon
<1>17. [i \in 1 .. n |-> TextAt(blob, offset[i])] = [i \in 1 .. n |-> line[i]]
  BY <1>14, Zenon
<1>18. line = [i \in 1 .. n |-> line[i]]
  BY <1>1
<1> QED BY <1>16, <1>17, <1>18, Zenon DEF blob

\* What write_arguments has written after each place of a blob.
IsExporting(a, blob) ==
    /\ a[0] = <<>>
    /\ \A m \in 1 .. Len(blob) :
          /\ blob[m] # Nul => a[m] = a[m - 1]
          /\ blob[m] = Nul /\ m > 1 /\ blob[m - 1] # Nul => a[m] = Append(a[m - 1], blob[m - 1])
          /\ blob[m] = Nul /\ ~(m > 1 /\ blob[m - 1] # Nul) => a[m] = Append(a[m - 1], NoText)
    /\ Exported(blob) = a[Len(blob)]

\* Exporting goes place by place.
LEMMA Exporting ==
    ASSUME NEW X, NoText \in X, NEW blob \in Seq(X)
    PROVE  \E a : IsExporting(a, blob)
<1> DEFINE n == Len(blob)
           S == Seq(X)
           index == [i \in DOMAIN blob |-> i]
           Write(out, m) ==
              IF blob[m] # Nul THEN out
              ELSE Append(out, IF m > 1 /\ blob[m - 1] # Nul THEN blob[m - 1] ELSE NoText)
           step == [x \in Nat \X S |-> IF x[1] \in 1 .. n THEN Write(x[2], x[1]) ELSE x[2]]
           Body(h) == [s \in SUBSET DOMAIN index |->
                          IF s = {} THEN <<>> ELSE Write(h[s \ {Max(s)}], index[Max(s)])]
           h == CHOOSE h : h = Body(h)
           a == [k \in 0 .. n |-> h[1 .. k]]
<1>1. /\ n \in Nat /\ DOMAIN index = 1 .. n /\ <<>> \in S
      /\ \A k \in 1 .. n : blob[k] \in X /\ index[k] = k
  OBVIOUS
<1>2. \A s \in S, k \in 1 .. n : Write(s, k) \in S
  <2> SUFFICES ASSUME NEW s \in S, NEW k \in 1 .. n PROVE Write(s, k) \in S
    OBVIOUS
  <2> DEFINE text == IF k > 1 /\ blob[k - 1] # Nul THEN blob[k - 1] ELSE NoText
  <2>1. text \in X
    <3>1. k > 1 => k - 1 \in 1 .. n
      BY <1>1
    <3> QED BY <1>1, <3>1
  <2> HIDE DEF text
  <2>2. Append(s, text) \in S
    BY <2>1
  <2>3. Write(s, k) = IF blob[k] # Nul THEN s ELSE Append(s, text)
    BY DEF text
  <2> QED BY <2>2, <2>3
<1>3. \A s \in S, k \in 1 .. n : step[<<k, s>>] = Write(s, k)
  <2> SUFFICES ASSUME NEW s \in S, NEW k \in 1 .. n PROVE step[<<k, s>>] = Write(s, k)
    OBVIOUS
  <2> DEFINE x == <<k, s>>
  <2>1. x \in Nat \X S /\ x[1] = k /\ x[2] = s
    BY <1>1
  <2> HIDE DEF x, Write
  <2>2. step[x] = Write(x[2], x[1])
    BY <2>1, Zenon
  <2> QED BY <2>1, <2>2, Zenon DEF x
<1> HIDE DEF S, n, index, Write, NoText
<1>4. step \in [Nat \X S -> S]
  BY <1>2
<1> HIDE DEF step
<1>5. \E f : f = Body(f)
  <2>1. PICK f : IsFold(f, S, <<>>, step, n)
    BY <1>1, <1>4, FoldExists
  <2>2. ASSUME NEW s \in SUBSET (1 .. n)
        PROVE  f[s] = IF s = {} THEN <<>> ELSE Write(f[s \ {Max(s)}], index[Max(s)])
    <3>1. CASE s = {}
      BY <2>1, <3>1 DEF IsFold
    <3>2. CASE s # {}
      <4>1. Max(s) \in 1 .. n /\ s \ {Max(s)} \in SUBSET (1 .. n)
        BY <1>1, <3>2, MaxIsMember
      <4>2. f[s \ {Max(s)}] \in S /\ f[s] = step[<<Max(s), f[s \ {Max(s)}]>>]
        BY <2>1, <3>2, <4>1 DEF IsFold
      <4> QED BY <1>1, <1>3, <3>2, <4>1, <4>2
    <3> QED BY <3>1, <3>2
  <2>3. f = [s \in SUBSET (1 .. n) |-> f[s]]
    BY <2>1 DEF IsFold
  <2>4. f = Body(f)
    BY <1>1, <2>2, <2>3, Zenon
  <2> QED BY <2>4, Zenon
<1>6. h = Body(h)
  <2> HIDE DEF Body
  <2> QED BY <1>5, Zenon
<1>7. Exported(blob) = h[DOMAIN index]
  BY Zenon DEF Exported, FoldLeftDomain, FoldLeft, MapThenFoldSet, index, Write, NoText
<1> HIDE DEF h
<1>8. h[{}] = <<>>
  BY <1>6, Zenon
<1>9. ASSUME NEW s \in SUBSET (1 .. n), s # {}, h[s \ {Max(s)}] \in S
      PROVE  h[s] = step[<<Max(s), h[s \ {Max(s)}]>>]
  <2>1. Max(s) \in 1 .. n
    BY <1>1, <1>9, MaxIsMember
  <2>2. h[s] = Write(h[s \ {Max(s)}], index[Max(s)])
    BY <1>1, <1>6, <1>9, Zenon
  <2>3. h[s] = Write(h[s \ {Max(s)}], Max(s))
    BY <1>1, <2>1, <2>2
  <2> QED BY <1>3, <1>9, <2>1, <2>3
<1> HIDE DEF Body
<1>10. Exported(blob) = a[n]
  <2> a[n] = h[1 .. n]
    BY <1>1
  <2> QED BY <1>1, <1>7
<1>11. IsRun(a, S, <<>>, step, n)
  <2>1. a = [k \in 0 .. n |-> h[1 .. k]]
    OBVIOUS
  <2> HIDE DEF a
  <2> QED BY <1>1, <1>4, <1>8, <1>9, <2>1, FoldRuns
<1> HIDE DEF a
<1>12. ASSUME NEW m \in 1 .. n
       PROVE  /\ blob[m] # Nul => a[m] = a[m - 1]
              /\ blob[m] = Nul /\ m > 1 /\ blob[m - 1] # Nul => a[m] = Append(a[m - 1], blob[m - 1])
              /\ blob[m] = Nul /\ ~(m > 1 /\ blob[m - 1] # Nul) => a[m] = Append(a[m - 1], NoText)
  <2>1. a[m - 1] \in S /\ a[m] = step[<<m, a[m - 1]>>]
    BY <1>1, <1>11 DEF IsRun
  <2>2. a[m] = Write(a[m - 1], m)
    BY <1>3, <2>1
  <2> QED BY <2>2, Zenon DEF Write
<1>13. IsExporting(a, blob)
  BY <1>10, <1>11, <1>12 DEF IsExporting, IsRun, n
<1> QED BY <1>13

\* write_arguments writes the words of the line that was packed.
LEMMA ExportedIsPacked ==
    ASSUME NEW W, Nul \notin W, NEW line \in Seq(W)
    PROVE  Exported(Pack(line)) = line
<1> DEFINE n == Len(line)
           blob == Pack(line)
           X == W \cup {Nul, NoText}
<1>1. n \in Nat /\ \A k \in 1 .. n : line[k] \in W /\ line[k] # Nul
  OBVIOUS
<1>2. blob \in Seq(W \cup {Nul}) /\ \E e : Ends(e, blob, line, n)
  BY Packing
<1> HIDE DEF n, blob
<1>3. PICK e : Ends(e, blob, line, n)
  BY <1>2
<1>4. blob \in Seq(X) /\ NoText \in X
  BY <1>2
<1> HIDE DEF X
<1>5. PICK a : IsExporting(a, blob)
  BY <1>4, Exporting
<1> DEFINE T == {k \in Nat : k <= n => /\ a[e[k]] \in Seq(W) /\ Len(a[e[k]]) = k
                                       /\ \A i \in 1 .. k : a[e[k]][i] = line[i]}
<1>6. 0 \in T
  <2>1. e[0] = 0 /\ a[0] = <<>>
    BY <1>3, <1>5 DEF Ends, IsExporting
  <2>2. a[e[0]] = <<>>
    BY <2>1, Zenon
  <2>3. <<>> \in Seq(W) /\ Len(<<>>) = 0 /\ 1 .. 0 = {}
    OBVIOUS
  <2> QED BY <2>2, <2>3
<1>7. ASSUME NEW k \in Nat, k \in T PROVE k + 1 \in T
  <2>1. CASE k + 1 <= n
    <3> DEFINE j == k + 1
               out == a[e[k]]
    <3>1. j \in 1 .. n /\ j - 1 = k /\ j = k + 1 /\ k <= n
      BY <1>1, <2>1
    <3>2. out \in Seq(W) /\ Len(out) = k /\ \A i \in 1 .. k : out[i] = line[i]
      BY <1>7, <3>1
    <3> HIDE DEF j
    <3>3. /\ e[j] \in 1 .. Len(blob) /\ e[k] \in Nat /\ blob[e[j]] = Nul
          /\ line[j] = NoText => e[j] = e[k] + 1
          /\ line[j] # NoText => e[j] = e[k] + 2 /\ blob[e[k] + 1] = line[j]
      BY <1>3, <3>1 DEF Ends
    <3>4. e[k] > 0 => blob[e[k]] = Nul
      <4>1. CASE k = 0
        BY <1>3, <4>1 DEF Ends
      <4>2. CASE k # 0
        <5>1. k \in 1 .. n
          BY <1>1, <3>1, <4>2
        <5> QED BY <1>3, <5>1 DEF Ends
      <4> QED BY <4>1, <4>2
    <3>5. a[e[j]] = Append(out, line[j])
      <4>1. CASE line[j] = NoText
        <5>1. e[j] - 1 = e[k] /\ (e[j] > 1 => e[k] > 0)
          BY <3>3, <4>1
        <5>2. ~(e[j] > 1 /\ blob[e[j] - 1] # Nul)
          BY <3>4, <5>1
        <5>3. a[e[j]] = Append(a[e[j] - 1], NoText)
          BY <1>5, <3>3, <5>2 DEF IsExporting
        <5> QED BY <4>1, <5>1, <5>3
      <4>2. CASE line[j] # NoText
        <5>1. /\ e[j] - 1 = e[k] + 1 /\ e[j] > 1 /\ e[k] + 1 \in 1 .. Len(blob)
              /\ (e[k] + 1) - 1 = e[k]
          BY <3>3, <4>2, SMTT(30)
        <5>2. blob[e[k] + 1] = line[j] /\ line[j] # Nul
          BY <1>1, <3>1, <3>3, <4>2
        <5>3. a[e[k] + 1] = a[e[k]]
          BY <1>5, <5>1, <5>2 DEF IsExporting
        <5>4. a[e[j]] = Append(a[e[j] - 1], blob[e[j] - 1])
          BY <1>5, <3>3, <5>1, <5>2 DEF IsExporting
        <5> QED BY <5>1, <5>2, <5>3, <5>4
      <4> QED BY <4>1, <4>2
    <3>6. line[j] \in W
      BY <1>1, <3>1
    <3> HIDE DEF out
    <3>7. a[e[j]] \in Seq(W) /\ Len(a[e[j]]) = j /\ \A i \in 1 .. j : a[e[j]][i] = line[i]
      BY <3>1, <3>2, <3>5, <3>6
    <3> QED BY <3>7 DEF j
  <2>2. CASE ~(k + 1 <= n)
    BY <2>2
  <2> QED BY <2>1, <2>2
<1>8. n \in T
  <2> HIDE DEF T
  <2> QED BY <1>1, <1>6, <1>7, Induction
<1>9. e[n] = Len(blob) /\ Exported(blob) = a[e[n]]
  BY <1>3, <1>5 DEF Ends, IsExporting
<1> DEFINE out == a[e[n]]
<1>10. out \in Seq(W) /\ Len(out) = Len(line) /\ \A i \in 1 .. Len(out) : out[i] = line[i]
  BY <1>1, <1>8 DEF n
<1> HIDE DEF out
<1>11. out = line
  BY <1>10, SeqEqual
<1> QED BY <1>9, <1>11 DEF out, blob

-----------------------------------------------------------------------------
(* The lines that tools are called with.                                    *)

\* What is left of an invocation is made of words.
LEMMA RestIsWords ==
    ASSUME NEW i, i.words \in Seq(Words)
    PROVE  Rest(i) \in Seq(Words)
<1> DEFINE words == i.words
           ends == {k \in DOMAIN words : Kind(words[k]) = "dashes" \/ ~Dashed(words[k])}
           options == OptionsOf(i)
           rest == SubSeq(words, Len(options) + 1, Len(words))
<1> HIDE DEF ends
<1>1. words \in Seq(Words) /\ TakesOptions(i) \in BOOLEAN
  BY DEF TakesOptions
<1>2. Len(options) \in 0 .. Len(words)
  <2>1. CASE ~TakesOptions(i)
    <3>1. options = <<>>
      BY <2>1, Zenon DEF OptionsOf
    <3> QED BY <1>1, <3>1
  <2>2. CASE TakesOptions(i) /\ ends = {}
    <3>1. options = words
      BY <2>2, Zenon DEF OptionsOf, ends
    <3> QED BY <1>1, <3>1
  <2>3. CASE TakesOptions(i) /\ ends # {}
    <3>1. options = SubSeq(words, 1, Min(ends) - 1)
      BY <2>3, Zenon DEF OptionsOf, ends
    <3>2. ends \subseteq 1 .. Len(words) /\ ends \in SUBSET Nat
      BY <1>1 DEF ends
    <3>3. Min(ends) \in 1 .. Len(words)
      BY <2>3, <3>2, MinIsMember
    <3> HIDE DEF words
    <3>4. Len(SubSeq(words, 1, Min(ends) - 1)) = Min(ends) - 1
      BY <1>1, <3>3, SubSeqProperties
    <3> QED BY <1>1, <3>1, <3>3, <3>4
  <2> QED BY <1>1, <2>1, <2>2, <2>3
<1>3. rest \in Seq(Words)
  <2> HIDE DEF options, words
  <2> QED BY <1>1, <1>2, SubSeqProperties
<1>4. \A s \in Seq(Words) : AfterDashes(s) \in Seq(Words)
  BY DEF AfterDashes
<1>5. CASE ~TakesOptions(i)
  <2>1. Rest(i) = words
    BY <1>5, Zenon DEF Rest
  <2> QED BY <1>1, <2>1
<1>6. CASE TakesOptions(i) /\ i.tool = "cc"
  <2>1. Rest(i) = AfterDashes(rest)
    BY <1>6, Zenon DEF Rest
  <2> HIDE DEF rest
  <2> QED BY <1>3, <1>4, <2>1
<1>7. CASE TakesOptions(i) /\ i.tool # "cc"
  <2>1. Rest(i) = AfterDashes(AfterDashes(rest))
    BY <1>7, Zenon DEF Rest
  <2> HIDE DEF rest
  <2> QED BY <1>3, <1>4, <2>1
<1> QED BY <1>1, <1>5, <1>6, <1>7

\* So is the line, which has at least the compiler in it.
LEMMA LineIsWords ==
    ASSUME NEW p \in Tools, NEW i \in Invocations(p)
    PROVE  Line(i) \in Seq(Words) /\ Line(i) # <<>>
<1> DEFINE rest == Rest(i)
           driver == RealCompiler(i)
<1>1. i.words \in Seq(Words) /\ i.real \in Words \cup {NoWord}
  BY InvocationsAssumption
<1>2. rest \in Seq(Words)
  BY <1>1, RestIsWords
<1>3. "cc" \in Words
  BY DefaultCompilerAssumption
<1>4. driver \in Words
  BY <1>1, <1>3 DEF RealCompiler
<1>5. Line(i) = IF rest = <<>> \/ DriverOmitted(Head(rest)) THEN <<driver>> \o rest ELSE rest
  BY Zenon DEF Line
<1> HIDE DEF rest, driver
<1>6. <<driver>> \o rest \in Seq(Words) /\ <<driver>> \o rest # <<>>
  <2>1. <<driver>> \in Seq(Words) /\ Len(<<driver>>) = 1
    BY <1>4
  <2>2. Len(<<driver>> \o rest) = 1 + Len(rest) /\ Len(rest) \in Nat
    BY <1>2, <2>1, ConcatProperties, LenProperties
  <2> QED BY <1>2, <2>1, <2>2, ConcatProperties
<1> QED BY <1>2, <1>5, <1>6

\* A line comes out of commands.db as it went in.
LEMMA LineSurvives ==
    ASSUME NEW p \in Tools, NEW i \in Invocations(p)
    PROVE  Unpack(Pack(Line(i))) = Line(i) /\ Exported(Pack(Line(i))) = Line(i)
<1>1. Nul \notin Words
  BY DEF Words
<1> QED BY <1>1, LineIsWords, UnpackedIsPacked, ExportedIsPacked

-----------------------------------------------------------------------------
(* The inductive invariant.                                                 *)

\* The line is that of a tool, called with it under invocations v, and its source is f.
Origin(v, f, line) ==
    \E p \in Tools : /\ v[p] # None /\ v[p] \in Invocations(p)
                     /\ line = Line(v[p]) /\ FindSource(line) = f /\ f # NoWord

\* What a run may store comes from such a line.
LineOfRun(j, v) ==
    /\ Shaped(j)
    /\ j.phase = "resolve" => j.file \in Files
    /\ j.phase = "frontend" /\ j.storage # "output" => Origin(v, j.file, j.command)
    /\ j.phase \in {"symbols", "command"} => Origin(v, j.file, j.source.command)

\* Tools are called once and commands.db has such lines only.
BuildInv ==
    /\ compdb = None
    /\ job = [p \in Processes |-> job[p]] /\ invoked = [p \in Tools |-> invoked[p]]
    /\ commands = [f \in Files |-> commands[f]] /\ symbols = [f \in Files |-> symbols[f]]
    /\ \A p \in Processes : LineOfRun(job[p], invoked)
    /\ \A p \in Tools : job[p].phase = "idle" => invoked[p] = None
    /\ \A f \in Files : commands[f] # None => Origin(invoked, f, commands[f])

\* A run that stores nothing needs no line.
LEMMA NewJobHasNoLine ==
    ASSUME NEW phase \in {"idle", "compiled", "exited", "killed", "done"}, NEW f, NEW v
    PROVE  LineOfRun(NewJob(phase, f), v) /\ NewJob(phase, f).phase = phase
BY DEF NewJob, LineOfRun, Shaped

\* Nor one that failed.
LEMMA FailsHasNoLine ==
    ASSUME NEW j, Shaped(j), NEW stage, NEW v
    PROVE  LineOfRun(Fails(j, stage), v) /\ Fails(j, stage).phase = "done"
<1>1. Fails(j, stage) =
         [phase |-> "done", file |-> j.file, tool |-> j.tool, policy |-> j.policy,
          storage |-> j.storage, command |-> j.command, source |-> j.source,
          failed_stage |-> stage]
  BY SetFailed DEF Fails
<1> QED BY <1>1 DEF LineOfRun, Shaped

\* A step of one process under the same invocations.
LEMMA BuildStep ==
    ASSUME BuildInv, NEW p \in Processes, NEW j, Becomes(p, j), UNCHANGED <<compdb, invoked>>,
           LineOfRun(j, invoked), p \in Tools => j.phase # "idle",
           symbols' = [f \in Files |-> symbols'[f]], commands' = [f \in Files |-> commands'[f]],
           \A f \in Files : commands'[f] # None => Origin(invoked, f, commands'[f])
    PROVE  BuildInv'
<1>1. job' = [job EXCEPT ![p] = j] /\ job = [q \in Processes |-> job[q]]
  BY DEF BuildInv, Becomes
<1>2. /\ job' = [q \in Processes |-> job'[q]]
      /\ \A q \in Processes : job'[q] = IF q = p THEN j ELSE job[q]
  BY <1>1
<1>3. compdb' = None /\ invoked' = invoked
  BY DEF BuildInv
<1>4. \A q \in Processes : LineOfRun(job'[q], invoked)
  BY <1>2 DEF BuildInv
<1>5. \A q \in Tools : job'[q].phase = "idle" => invoked[q] = None
  <2>1. Tools \subseteq Processes
    BY DEF Processes
  <2> QED BY <1>2, <2>1 DEF BuildInv
<1>6. \A q \in Processes : LineOfRun(job'[q], invoked')
  BY <1>3, <1>4
<1>7. \A f \in Files : commands'[f] # None => Origin(invoked', f, commands'[f])
  BY <1>3
<1>8. invoked' = [q \in Tools |-> invoked'[q]]
  BY <1>3 DEF BuildInv
<1> QED BY <1>2, <1>3, <1>5, <1>6, <1>7, <1>8 DEF BuildInv

\* One that stores nothing.
LEMMA QuietBuildStep ==
    ASSUME BuildInv, NEW p \in Processes, NEW j, Becomes(p, j),
           UNCHANGED <<compdb, symbols, commands, invoked>>,
           LineOfRun(j, invoked), p \in Tools => j.phase # "idle"
    PROVE  BuildInv'
<1>1. /\ symbols' = [f \in Files |-> symbols'[f]] /\ commands' = [f \in Files |-> commands'[f]]
      /\ \A f \in Files : commands'[f] # None => Origin(invoked, f, commands'[f])
  BY DEF BuildInv
<1> QED BY <1>1, BuildStep

-----------------------------------------------------------------------------
(* Every step keeps the invariant.                                          *)

\* Nothing runs before the first call.
LEMMA BuildInitInv == BuildInit => BuildInv
<1> SUFFICES ASSUME BuildInit PROVE BuildInv
  OBVIOUS
<1> DEFINE idle == NewJob("idle", CHOOSE f \in Files : TRUE)
<1>1. /\ compdb = None /\ job = [p \in Processes |-> idle] /\ invoked = [p \in Tools |-> None]
      /\ commands = [f \in Files |-> None] /\ symbols = [f \in Files |-> None]
  BY DEF BuildInit, Init, Idle
<1>2. LineOfRun(idle, invoked)
  BY NewJobHasNoLine
<1> HIDE DEF idle
<1> QED BY <1>1, <1>2 DEF BuildInv, Processes

\* What an invocation asks for (Started).
WithStart(j, x, y, z, u) == [j EXCEPT !.tool = x, !.storage = y, !.command = z, !.policy = u]

\* The other fields stay as they are.
LEMMA SetStarted ==
    ASSUME NEW j, Shaped(j), NEW x, NEW y, NEW z, NEW u
    PROVE  WithStart(j, x, y, z, u) =
              [phase |-> j.phase, file |-> j.file, tool |-> x, policy |-> u,
               storage |-> y, command |-> z, source |-> j.source,
               failed_stage |-> j.failed_stage]
<1> DEFINE d == [j EXCEPT !.tool = x]
           e == [d EXCEPT !.storage = y]
           h == [e EXCEPT !.command = z]
<1>1. d = [phase |-> j.phase, file |-> j.file, tool |-> x, policy |-> j.policy,
           storage |-> j.storage, command |-> j.command, source |-> j.source,
           failed_stage |-> j.failed_stage]
  BY DEF Shaped
<1>2. WithStart(j, x, y, z, u) = [h EXCEPT !.policy = u]
  BY Zenon DEF WithStart
<1>3. e = [d EXCEPT !.storage = y]
  OBVIOUS
<1>4. h = [e EXCEPT !.command = z]
  OBVIOUS
<1> HIDE DEF d, e, h
<1>5. e = [phase |-> j.phase, file |-> j.file, tool |-> x, policy |-> j.policy,
           storage |-> y, command |-> j.command, source |-> j.source,
           failed_stage |-> j.failed_stage]
  BY <1>1, <1>3
<1>6. h = [phase |-> j.phase, file |-> j.file, tool |-> x, policy |-> j.policy,
           storage |-> y, command |-> z, source |-> j.source,
           failed_stage |-> j.failed_stage]
  BY <1>4, <1>5
<1> QED BY <1>2, <1>6

\* What it starts with.
LEMMA NewStart ==
    ASSUME NEW f, NEW x, NEW y, NEW z, NEW u
    PROVE  WithStart(NewJob("frontend", f), x, y, z, u) =
              [phase |-> "frontend", file |-> f, tool |-> x, policy |-> u,
               storage |-> y, command |-> z, source |-> None, failed_stage |-> "none"]
<1>1. Shaped(NewJob("frontend", f))
  BY DEF Shaped, NewJob
<1>2. NewJob("frontend", f).phase = "frontend" /\ NewJob("frontend", f).file = f
      /\ NewJob("frontend", f).source = None /\ NewJob("frontend", f).failed_stage = "none"
  BY DEF NewJob
<1> QED BY <1>1, <1>2, SetStarted

\* A tool that indexes does so with the line it was called with, which has one source.
LEMMA StartedHasLine ==
    ASSUME NEW p \in Tools, NEW i \in Invocations(p), NEW v, v[p] = i
    PROVE  /\ LineOfRun(Started(i), v)
           /\ Started(i).phase # "idle"
           /\ Started(i).phase = "frontend" <=> Accepted(i) /\ FindSource(Line(i)) # NoWord
<1> DEFINE source == FindSource(Line(i))
           ends == IF Accepted(i) /\ i.tool = "cc" THEN "compiled" ELSE "exited"
           policy == IF i.tool = "cc" /\ Policy(i) = "fail" THEN "fail" ELSE "warn"
<1>1. CASE ~Accepted(i) \/ source = NoWord
  <2>1. \E f : Started(i) = NewJob(ends, f)
    BY <1>1, Zenon DEF Started
  <2>2. ends \in {"compiled", "exited"}
    OBVIOUS
  <2> HIDE DEF ends
  <2> QED BY <1>1, <2>1, <2>2, NewJobHasNoLine
<1>2. CASE Accepted(i) /\ source # NoWord
  <2>1. Started(i) = WithStart(NewJob("frontend", source), i.tool, Storage(i), Line(i), policy)
    BY <1>2, Zenon DEF Started, WithStart
  <2>2. Origin(v, source, Line(i))
    BY <1>2, InvocationsAssumption DEF Origin
  <2> HIDE DEF policy, source
  <2>3. Started(i) = [phase |-> "frontend", file |-> source, tool |-> i.tool, policy |-> policy,
                      storage |-> Storage(i), command |-> Line(i), source |-> None,
                      failed_stage |-> "none"]
    BY <2>1, NewStart
  <2>4. LineOfRun(Started(i), v) /\ Started(i).phase = "frontend"
    BY <2>2, <2>3 DEF LineOfRun, Shaped
  <2> QED BY <1>2, <2>4 DEF source
<1> QED BY <1>1, <1>2

\* A later call of another tool leaves the lines of the earlier ones.
LEMMA OriginStays ==
    ASSUME NEW v, NEW w, NEW f, NEW line, Origin(v, f, line),
           \A p \in Tools : v[p] # None => w[p] = v[p]
    PROVE  Origin(w, f, line)
BY DEF Origin

\* A tool is called.
LEMMA InvokeInv ==
    ASSUME BuildInv, NEW p \in Tools, Invoke(p)
    PROVE  /\ BuildInv'
           /\ invoked'[p] \in Invocations(p) /\ job'[p] = Started(invoked'[p])
           /\ \A q \in Tools \ {p} : invoked'[q] = invoked[q]
           /\ UNCHANGED symbols
<1>1. PICK i \in Invocations(p) : invoked' = [invoked EXCEPT ![p] = i] /\ Becomes(p, Started(i))
  BY Zenon DEF Invoke
<1>2. /\ job[p].phase = "idle" /\ UNCHANGED <<compdb, symbols, commands>>
  BY DEF Invoke, Environment, Databases
<1>3. /\ job = [q \in Processes |-> job[q]] /\ invoked = [q \in Tools |-> invoked[q]]
      /\ invoked[p] = None /\ p \in Processes
  BY <1>2 DEF BuildInv, Processes
<1>4. /\ invoked' = [q \in Tools |-> invoked'[q]] /\ invoked'[p] = i
      /\ \A q \in Tools \ {p} : invoked'[q] = invoked[q]
  BY <1>1, <1>3
<1>5. /\ job' = [q \in Processes |-> job'[q]] /\ job'[p] = Started(i)
      /\ \A q \in Processes \ {p} : job'[q] = job[q]
  BY <1>1, <1>3 DEF Becomes
<1>6. \A q \in Tools : invoked[q] # None => invoked'[q] = invoked[q]
  BY <1>3, <1>4
<1>7. LineOfRun(Started(i), invoked') /\ Started(i).phase # "idle"
  BY <1>4, StartedHasLine
<1>8. \A q \in Processes : LineOfRun(job'[q], invoked')
  <2> SUFFICES ASSUME NEW q \in Processes PROVE LineOfRun(job'[q], invoked')
    OBVIOUS
  <2>1. CASE q = p
    BY <1>5, <1>7, <2>1
  <2>2. CASE q # p
    <3>1. job'[q] = job[q] /\ LineOfRun(job[q], invoked)
      BY <1>5, <2>2 DEF BuildInv
    <3> QED BY <1>6, <3>1, OriginStays DEF LineOfRun
  <2> QED BY <2>1, <2>2
<1>9. \A q \in Tools : job'[q].phase = "idle" => invoked'[q] = None
  <2> SUFFICES ASSUME NEW q \in Tools, job'[q].phase = "idle" PROVE invoked'[q] = None
    OBVIOUS
  <2>1. q # p /\ q \in Processes
    BY <1>5, <1>7 DEF Processes
  <2> QED BY <1>4, <1>5, <2>1 DEF BuildInv
<1>10. \A f \in Files : commands'[f] # None => Origin(invoked', f, commands'[f])
  BY <1>2, <1>6, OriginStays DEF BuildInv
<1>11. /\ compdb' = None /\ commands' = [f \in Files |-> commands'[f]]
       /\ symbols' = [f \in Files |-> symbols'[f]]
  BY <1>2 DEF BuildInv
<1> QED BY <1>2, <1>4, <1>5, <1>8, <1>9, <1>10, <1>11 DEF BuildInv

-----------------------------------------------------------------------------
(* The steps of a run.                                                      *)

\* What the invariant says of the run of one process.
LEMMA RunOfBuild ==
    ASSUME BuildInv, NEW p \in Processes
    PROVE  LineOfRun(job[p], invoked) /\ Shaped(job[p]) /\ compdb = None
BY DEF BuildInv, LineOfRun

\* The wrapper cannot prepare the command, or a run fails.
LEMMA FailingInv ==
    ASSUME BuildInv, NEW p \in Processes, NEW stage, Becomes(p, Fails(job[p], stage)),
           UNCHANGED <<compdb, symbols, commands, invoked>>
    PROVE  BuildInv'
<1>1. LineOfRun(Fails(job[p], stage), invoked) /\ Fails(job[p], stage).phase = "done"
  BY RunOfBuild, FailsHasNoLine
<1> QED BY <1>1, QuietBuildStep

\* A saved command is the line of a tool; a made-up one is stored nowhere.
LEMMA ResolveBuildInv ==
    ASSUME BuildInv, NEW p \in Processes, Resolve(p), invoked' = invoked PROVE BuildInv'
<1> DEFINE j == job[p]
<1>1. LineOfRun(j, invoked) /\ Shaped(j) /\ compdb = None
  BY RunOfBuild
<1>2. j.phase = "resolve" /\ UNCHANGED <<compdb, symbols, commands, invoked>>
  BY DEF Resolve, Environment, Databases
<1>3. j.file \in Files
  BY <1>1, <1>2 DEF LineOfRun
<1>4. \/ Becomes(p, Fails(j, "command"))
      \/ commands[j.file] # None /\ Becomes(p, ResolveSaved(j))
      \/ Becomes(p, ResolveDocument(j))
  BY <1>1, Zenon DEF Resolve
<1> HIDE DEF j
<1>5. CASE commands[j.file] # None /\ Becomes(p, ResolveSaved(j))
  <2>1. ResolveSaved(j) =
          [phase |-> "frontend", file |-> j.file, tool |-> j.tool, policy |-> j.policy,
           storage |-> "symbols", command |-> commands[j.file], source |-> j.source,
           failed_stage |-> j.failed_stage]
    <3>1. ResolveSaved(j) = WithCommand(j, "frontend", "symbols", commands[j.file])
      BY Zenon DEF ResolveSaved, WithCommand
    <3> QED BY <1>1, <3>1, SetCommand
  <2>2. Origin(invoked, j.file, commands[j.file])
    BY <1>3, <1>5 DEF BuildInv
  <2>3. LineOfRun(ResolveSaved(j), invoked) /\ ResolveSaved(j).phase = "frontend"
    BY <2>1, <2>2 DEF LineOfRun, Shaped
  <2> QED BY <1>2, <1>5, <2>3, QuietBuildStep
<1>6. CASE Becomes(p, ResolveDocument(j))
  <2>1. ResolveDocument(j) =
          [phase |-> "frontend", file |-> j.file, tool |-> j.tool, policy |-> j.policy,
           storage |-> "output", command |-> Document, source |-> j.source,
           failed_stage |-> j.failed_stage]
    <3>1. ResolveDocument(j) = WithCommand(j, "frontend", "output", Document)
      BY Zenon DEF ResolveDocument, WithCommand
    <3> QED BY <1>1, <3>1, SetCommand
  <2>2. LineOfRun(ResolveDocument(j), invoked) /\ ResolveDocument(j).phase = "frontend"
    BY <2>1 DEF LineOfRun, Shaped
  <2> QED BY <1>2, <1>6, <2>2, QuietBuildStep
<1> QED BY <1>2, <1>4, <1>5, <1>6, FailingInv DEF j

\* The records are those of the command of the run.
LEMMA FrontendBuildInv ==
    ASSUME BuildInv, NEW p \in Processes, Frontend(p), invoked' = invoked PROVE BuildInv'
<1> DEFINE j == job[p]
<1>1. LineOfRun(j, invoked) /\ Shaped(j) /\ compdb = None
  BY RunOfBuild
<1>2. j.phase = "frontend" /\ UNCHANGED <<compdb, symbols, commands, invoked>>
  BY DEF Frontend, Environment, Databases
<1>3. PICK status \in {"clean", "partial", "failed"} : Becomes(p, AfterFrontend(p, status))
  BY Zenon DEF Frontend
<1>4. CASE status = "failed"
  <2>1. Becomes(p, Fails(j, "frontend"))
    BY <1>3, <1>4, Zenon DEF AfterFrontend
  <2> QED BY <1>2, <2>1, FailingInv
<1>5. CASE status # "failed"
  <2> DEFINE source == Parsed(p, status)
             phase == IF j.storage = "output" THEN "done" ELSE "symbols"
             after == AfterFrontend(p, status)
  <2>1. after = [j EXCEPT !.source = source, !.phase = phase]
    BY <1>5, Zenon DEF AfterFrontend
  <2>2. source.command = j.command \/ j.command = None
    BY DEF Parsed, CommandOf
  <2>3. j.storage # "output" => Origin(invoked, j.file, j.command)
    BY <1>1, <1>2 DEF LineOfRun
  <2>4. j.storage # "output" => source.command = j.command
    BY <1>1 DEF Parsed, CommandOf
  <2> HIDE DEF j, source, phase, after
  <2>5. after =
          [phase |-> phase, file |-> j.file, tool |-> j.tool, policy |-> j.policy,
           storage |-> j.storage, command |-> j.command, source |-> source,
           failed_stage |-> j.failed_stage]
    BY <1>1, <2>1, SetSource
  <2>6. LineOfRun(after, invoked) /\ after.phase \in {"done", "symbols"}
    BY <2>3, <2>4, <2>5 DEF LineOfRun, Shaped, phase
  <2>7. Becomes(p, after)
    BY <1>3 DEF after
  <2> QED BY <1>2, <2>6, <2>7, QuietBuildStep
<1> QED BY <1>4, <1>5

\* The records that are stored were made with the line of a tool.
LEMMA StoreSymbolsBuildInv ==
    ASSUME BuildInv, NEW p \in Processes, StoreSymbols(p), invoked' = invoked
    PROVE  /\ BuildInv'
           /\ \A f \in Files : symbols'[f] # symbols[f] => Origin(invoked, f, symbols'[f].command)
<1> DEFINE j == job[p]
           stored == [j EXCEPT !.phase = IF j.storage = "symbols" THEN "done" ELSE "command"]
<1>1. LineOfRun(j, invoked) /\ Shaped(j)
  BY RunOfBuild
<1>2. j.phase = "symbols" /\ UNCHANGED <<compdb, commands, invoked>>
  BY DEF StoreSymbols, Environment
<1>3. Origin(invoked, j.file, j.source.command)
  BY <1>1, <1>2 DEF LineOfRun
<1>4. \/ Becomes(p, Fails(j, "symbol_database")) /\ UNCHANGED symbols
      \/ symbols' = [symbols EXCEPT ![j.file] = j.source] /\ Becomes(p, stored)
  BY Zenon DEF StoreSymbols
<1>5. CASE Becomes(p, Fails(j, "symbol_database")) /\ UNCHANGED symbols
  BY <1>2, <1>5, FailingInv
<1>6. CASE symbols' = [symbols EXCEPT ![j.file] = j.source] /\ Becomes(p, stored)
  <2> HIDE DEF j
  <2>1. LineOfRun(stored, invoked) /\ stored.phase # "idle"
    BY <1>1, <1>3 DEF LineOfRun, Shaped
  <2> HIDE DEF stored
  <2>2. symbols = [f \in Files |-> symbols[f]]
    BY DEF BuildInv
  <2>3. /\ symbols' = [f \in Files |-> symbols'[f]]
        /\ \A f \in Files : symbols'[f] = IF f = j.file THEN j.source ELSE symbols[f]
    BY <1>6, <2>2
  <2>4. commands' = [f \in Files |-> commands'[f]]
        /\ \A f \in Files : commands'[f] # None => Origin(invoked, f, commands'[f])
    BY <1>2 DEF BuildInv
  <2>5. BuildInv'
    BY <1>2, <1>6, <2>1, <2>3, <2>4, BuildStep
  <2> QED BY <1>3, <2>3, <2>5
<1> QED BY <1>4, <1>5, <1>6

\* So was the command.
LEMMA StoreCommandBuildInv ==
    ASSUME BuildInv, NEW p \in Processes, StoreCommand(p), invoked' = invoked PROVE BuildInv'
<1> DEFINE j == job[p]
           stored == [j EXCEPT !.phase = "done"]
<1>1. LineOfRun(j, invoked) /\ Shaped(j)
  BY RunOfBuild
<1>2. j.phase = "command" /\ UNCHANGED <<compdb, symbols, invoked>>
  BY DEF StoreCommand, Environment
<1>3. Origin(invoked, j.file, j.source.command)
  BY <1>1, <1>2 DEF LineOfRun
<1>4. \/ Becomes(p, Fails(j, "command_database")) /\ UNCHANGED commands
      \/ commands' = [commands EXCEPT ![j.file] = j.source.command] /\ Becomes(p, stored)
  BY Zenon DEF StoreCommand
<1>5. CASE Becomes(p, Fails(j, "command_database")) /\ UNCHANGED commands
  BY <1>2, <1>5, FailingInv
<1>6. CASE commands' = [commands EXCEPT ![j.file] = j.source.command] /\ Becomes(p, stored)
  <2> HIDE DEF j
  <2>1. LineOfRun(stored, invoked) /\ stored.phase # "idle"
    BY <1>1, <1>3 DEF LineOfRun, Shaped
  <2> HIDE DEF stored
  <2>2. commands = [f \in Files |-> commands[f]]
        /\ \A f \in Files : commands[f] # None => Origin(invoked, f, commands[f])
    BY DEF BuildInv
  <2>3. /\ commands' = [f \in Files |-> commands'[f]]
        /\ \A f \in Files : commands'[f] = IF f = j.file THEN j.source.command ELSE commands[f]
    BY <1>6, <2>2
  <2>4. \A f \in Files : commands'[f] # None => Origin(invoked, f, commands'[f])
    BY <1>3, <2>2, <2>3
  <2>5. symbols' = [f \in Files |-> symbols'[f]]
    BY <1>2 DEF BuildInv
  <2> QED BY <1>2, <1>6, <2>1, <2>3, <2>4, <2>5, BuildStep
<1> QED BY <1>4, <1>5, <1>6

-----------------------------------------------------------------------------
(* The other steps.                                                         *)

\* A process with nothing to do.
LEMMA IdleHasNoLine == ASSUME NEW v PROVE LineOfRun(Idle, v) /\ Idle.phase = "idle"
BY NewJobHasNoLine DEF Idle

\* The end of a run in a server.
LEMMA AnswerBuildInv ==
    ASSUME BuildInv, NEW p \in Processes, Answer(p), invoked' = invoked PROVE BuildInv'
<1> DEFINE j == job[p]
           answered == [j EXCEPT !.phase = "answered"]
<1>1. LineOfRun(j, invoked) /\ Shaped(j)
  BY RunOfBuild
<1>2. UNCHANGED <<compdb, symbols, commands, invoked>> /\ p \notin Tools
  BY SortsAreDisjoint DEF Answer, Environment, Databases, Servers
<1>3. Becomes(p, IF p \in Editors THEN answered ELSE Idle)
  BY Zenon DEF Answer
<1>4. LineOfRun(Idle, invoked)
  BY IdleHasNoLine
<1> HIDE DEF j
<1>5. LineOfRun(answered, invoked)
  BY <1>1 DEF LineOfRun, Shaped
<1> HIDE DEF answered
<1> QED BY <1>2, <1>3, <1>4, <1>5, QuietBuildStep

\* The end of a tool.
LEMMA ExitBuildInv ==
    ASSUME BuildInv, NEW p \in Processes, Exit(p), invoked' = invoked PROVE BuildInv'
<1> DEFINE phase == EndsIn(job[p])
           j == NewJob(phase, job[p].file)
<1>1. UNCHANGED <<compdb, symbols, commands, invoked>> /\ Becomes(p, j)
  BY DEF Exit, Environment, Databases
<1>2. phase \in {"exited", "compiled"}
  BY DEF EndsIn
<1> HIDE DEF phase
<1>3. LineOfRun(j, invoked) /\ j.phase # "idle"
  BY <1>2, NewJobHasNoLine
<1> HIDE DEF j
<1> QED BY <1>1, <1>3, QuietBuildStep

\* A save or a reindex.
LEMMA StartUpdateBuildInv ==
    ASSUME BuildInv, NEW p \in Processes, StartUpdate(p), invoked' = invoked PROVE BuildInv'
<1>1. PICK f \in Files : Becomes(p, NewJob("resolve", f))
  BY DEF StartUpdate
<1>2. UNCHANGED <<compdb, symbols, commands, invoked>>
  BY DEF StartUpdate, Environment, Databases
<1>3. LineOfRun(NewJob("resolve", f), invoked) /\ NewJob("resolve", f).phase # "idle"
  BY DEF NewJob, LineOfRun, Shaped
<1> QED BY <1>1, <1>2, <1>3, QuietBuildStep

\* A process that is killed.
LEMMA DieBuildInv ==
    ASSUME BuildInv, NEW p \in Processes, Die(p), invoked' = invoked PROVE BuildInv'
<1> DEFINE killed == NewJob("killed", job[p].file)
<1>1. UNCHANGED <<compdb, symbols, commands, invoked>>
  BY DEF Die, Environment, Databases
<1>2. Becomes(p, IF p \in Tools THEN killed ELSE Idle)
  BY Zenon DEF Die
<1>3. LineOfRun(killed, invoked) /\ killed.phase = "killed"
  BY NewJobHasNoLine
<1>4. LineOfRun(Idle, invoked)
  BY IdleHasNoLine
<1> HIDE DEF killed
<1> QED BY <1>1, <1>2, <1>3, <1>4, QuietBuildStep

\* The wrapper fails before the frontend.
LEMMA PrepareFailsInv ==
    ASSUME BuildInv, NEW p \in Tools, PrepareFails(p) PROVE BuildInv' /\ UNCHANGED <<symbols, invoked>>
<1>1. /\ UNCHANGED <<compdb, symbols, commands, invoked>> /\ Becomes(p, Fails(job[p], "command"))
      /\ p \in Processes
  BY DEF PrepareFails, Environment, Databases, Processes
<1> QED BY <1>1, FailingInv

\* A step changes how a tool was called, or the records of a file, only so.
BuildStepSound ==
    /\ \A p \in Tools :
          invoked'[p] # invoked[p] =>
             invoked'[p] \in Invocations(p) /\ job'[p] = Started(invoked'[p])
    /\ \A f \in Files : symbols'[f] # symbols[f] => Origin(invoked', f, symbols'[f].command)

\* Every step is one of them.
LEMMA BuildNextInv ==
    ASSUME BuildInv, [BuildNext]_buildVars PROVE BuildInv' /\ BuildStepSound
<1>1. CASE UNCHANGED buildVars
  <2>1. /\ compdb' = compdb /\ job' = job /\ invoked' = invoked /\ commands' = commands
        /\ symbols' = symbols
    BY <1>1 DEF buildVars, vars
  <2> QED BY <2>1 DEF BuildInv, BuildStepSound
<1>2. ASSUME NEW p \in Tools, Invoke(p) PROVE BuildInv' /\ BuildStepSound
  BY <1>2, InvokeInv DEF BuildStepSound
<1>3. ASSUME NEW p \in Tools, PrepareFails(p) PROVE BuildInv' /\ BuildStepSound
  BY <1>3, PrepareFailsInv DEF BuildStepSound
<1>4. ASSUME NEW p \in Processes, BuildWork(p) PROVE BuildInv' /\ BuildStepSound
  <2>1. invoked' = invoked
    BY <1>4 DEF BuildWork
  <2>2. CASE StoreSymbols(p)
    BY <2>1, <2>2, StoreSymbolsBuildInv DEF BuildStepSound
  <2>3. CASE Resolve(p) \/ Frontend(p) \/ StoreCommand(p) \/ Answer(p) \/ Exit(p)
    <3>1. BuildInv'
      BY <2>1, <2>3, ResolveBuildInv, FrontendBuildInv, StoreCommandBuildInv, AnswerBuildInv,
         ExitBuildInv
    <3>2. symbols' = symbols
      BY <2>3 DEF Resolve, Frontend, StoreCommand, Answer, Exit, Databases
    <3> QED BY <2>1, <3>1, <3>2 DEF BuildStepSound
  <2> QED BY <1>4, <2>2, <2>3 DEF BuildWork, Work
<1>5. ASSUME NEW p \in Processes, StartUpdate(p) \/ Die(p), invoked' = invoked
      PROVE  BuildInv' /\ BuildStepSound
  <2>1. BuildInv'
    BY <1>5, StartUpdateBuildInv, DieBuildInv
  <2>2. symbols' = symbols
    BY <1>5 DEF StartUpdate, Die, Databases
  <2> QED BY <1>5, <2>1, <2>2 DEF BuildStepSound
<1> QED BY <1>1, <1>2, <1>3, <1>4, <1>5 DEF BuildNext

-----------------------------------------------------------------------------
(* The theorems.                                                            *)

\* Whatever the tools are called with and whoever is killed, everything a run stores
\* comes from the line of a tool, and of one that compiles the file it is stored for
\* (cmd_cc, cmd_compiler, index_pipeline_run and the command resolver).
THEOREM StoredLines == BuildSpec => []BuildInv
<1>1. BuildInit => BuildInv
  BY BuildInitInv
<1>2. BuildInv /\ [BuildNext]_buildVars => BuildInv'
  BY BuildNextInv
<1> QED BY <1>1, <1>2, PTL DEF BuildSpec

\* Lines of every length survive commands.db and the export, with their empty words
\* (pack_arguments, unpack_arguments and write_arguments).
THEOREM LinesSurvive == BuildSpec => []CommandsSurvive
<1>1. BuildInv => CommandsSurvive
  <2> SUFFICES ASSUME BuildInv, NEW f \in Files, commands[f] # None
               PROVE  /\ \E p \in Tools : invoked[p] # None /\ commands[f] = Line(invoked[p])
                      /\ Unpack(Pack(commands[f])) = commands[f]
                      /\ Exported(Pack(commands[f])) = commands[f]
    BY DEF CommandsSurvive
  <2>1. PICK p \in Tools : /\ invoked[p] # None /\ invoked[p] \in Invocations(p)
                           /\ commands[f] = Line(invoked[p])
    BY DEF BuildInv, Origin
  <2> QED BY <2>1, LineSurvives
<1> QED BY <1>1, StoredLines, PTL

\* A line, however long, is indexed if and only if it compiles one source, and what is
\* stored for a file was made by a line that compiles it, as it is and as the frontend
\* takes it from commands.db (compiler_command_find_source and sanitizeCommandLine).
THEOREM IndexIsOfCompiled == BuildSpec => IndexedIsCompiled
<1>1. ASSUME NEW p \in Tools, NEW i \in Invocations(p), Plain(Line(i))
      PROVE  /\ FindSource(Line(i)) # NoWord <=> Len(Compiled(Line(i))) = 1
             /\ FindSource(Line(i)) # NoWord =>
                   /\ Compiled(Line(i)) = <<FindSource(Line(i))>>
                   /\ Compiled(Sanitized(Line(i))) = <<FindSource(Line(i))>>
  <2> DEFINE line == Line(i)
  <2>1. line \in Seq(Words) /\ line # <<>>
    BY LineIsWords
  <2> HIDE DEF line
  <2>2. Kind(NoWord) # "source" /\ Plain(line)
    BY <1>1, KindsAssumption DEF line
  <2>3. /\ FindSource(line) # NoWord <=> Len(Compiled(line)) = 1
        /\ FindSource(line) # NoWord => Compiled(line) = <<FindSource(line)>>
    BY <2>1, <2>2, FindSourceIsCompiled
  <2>4. Compiled(Sanitized(line)) = Compiled(line)
    BY <2>1, <2>2, SanitizedCompiles
  <2> QED BY <2>3, <2>4 DEF line
<1> DEFINE
      Called ==
         \A p \in Tools :
            LET i == invoked'[p]
            IN i # invoked[p] /\ Accepted(i) /\ Plain(Line(i))
                  => (job'[p].phase = "frontend" <=> Len(Compiled(Line(i))) = 1)
      Stored ==
         \A f \in Files :
            LET line == symbols'[f].command
            IN symbols'[f] # symbols[f] /\ Plain(line)
                  => Compiled(line) = <<f>> /\ Compiled(Sanitized(line)) = <<f>>
<1>2. BuildInv /\ [BuildNext]_buildVars => Called /\ Stored
  <2> SUFFICES ASSUME BuildInv, [BuildNext]_buildVars PROVE Called /\ Stored
    OBVIOUS
  <2>1. BuildStepSound
    BY BuildNextInv
  <2>2. ASSUME NEW p \in Tools, NEW i, i = invoked'[p], i # invoked[p], Accepted(i), Plain(Line(i))
        PROVE  job'[p].phase = "frontend" <=> Len(Compiled(Line(i))) = 1
    <3>1. i \in Invocations(p) /\ job'[p] = Started(i)
      BY <2>1, <2>2 DEF BuildStepSound
    <3>2. Started(i).phase = "frontend" <=> Accepted(i) /\ FindSource(Line(i)) # NoWord
      BY <2>2, <3>1, StartedHasLine
    <3> QED BY <1>1, <2>2, <3>1, <3>2
  <2>3. ASSUME NEW f \in Files, NEW line, line = symbols'[f].command, symbols'[f] # symbols[f],
               Plain(line)
        PROVE  Compiled(line) = <<f>> /\ Compiled(Sanitized(line)) = <<f>>
    <3>1. Origin(invoked', f, line)
      BY <2>1, <2>3 DEF BuildStepSound
    <3>2. PICK p \in Tools : /\ invoked'[p] \in Invocations(p) /\ line = Line(invoked'[p])
                             /\ FindSource(line) = f /\ f # NoWord
      BY <3>1 DEF Origin
    <3> QED BY <1>1, <2>3, <3>2
  <2> QED BY <2>2, <2>3
<1>3. BuildInv /\ [BuildNext]_buildVars => [Called /\ Stored]_buildVars
  BY <1>2
<1> QED BY <1>3, StoredLines, PTL DEF BuildSpec, IndexedIsCompiled
=============================================================================

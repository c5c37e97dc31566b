--------------------------- MODULE SseUsageProofs ---------------------------
(***************************************************************************)
(* Theorems about SseUsage.  The three loops of the code (over the bytes,  *)
(* over the text, over the lines) are folds; the first parts say what one  *)
(* more element does to each.  `Known` is what the service knows of a      *)
(* text, `SseInv` the inductive invariant, and the last part compares the  *)
(* loop with a reader who has all of the text.                             *)
(***************************************************************************)
EXTENDS SseUsage, FiniteSetTheorems, SequenceTheorems, WellFoundedInduction, TLAPS

-----------------------------------------------------------------------------
(***************************************************************************)
(* Induction over sets of numbers, which keeps it first-order.             *)
(***************************************************************************)
\* A set of naturals that is not empty has a least element.
LEMMA LeastNat ==
    ASSUME NEW T \in SUBSET Nat, T # {}
    PROVE  \E n \in T : \A m \in T : n <= m
  <1> DEFINE R == {ss \in Nat \X Nat : ss[1] < ss[2]}
  <1>1. IsWellFoundedOn(R, Nat)
    BY NatLessThanWellFounded DEF OpToRel
  <1>2. \A m, n \in Nat : m < n => <<m, n>> \in R
    OBVIOUS
  <1> HIDE DEF R
  <1>3. PICK n \in T : \A m \in T : ~(<<m, n>> \in R)
    BY <1>1, WFMin
  <1>4. ASSUME NEW m \in T PROVE n <= m
    <2>1. m \in Nat /\ n \in Nat /\ ~(m < n)
      BY <1>2, <1>3
    <2>2. QED
      BY <2>1
  <1>5. QED
    BY <1>4

\* Induction: what holds of 0 and passes from each number to the next holds of
\* all.
LEMMA NatSetInduction ==
    ASSUME NEW T \in SUBSET Nat, 0 \in T, \A n \in T : n + 1 \in T
    PROVE  T = Nat
  <1>1. SUFFICES ASSUME Nat \ T # {} PROVE FALSE
    OBVIOUS
  <1>2. PICK n \in Nat \ T : \A m \in Nat \ T : n <= m
    BY <1>1, LeastNat
  <1>3. n - 1 \in Nat /\ ~(n - 1 \in Nat \ T)
    BY <1>2
  <1>4. QED
    BY <1>2, <1>3

\* A set of numbers up to some bound that is not empty has a greatest element.
LEMMA GreatestOf ==
    ASSUME NEW last \in Nat, NEW R \in SUBSET (1 .. last), R # {}
    PROVE  \E x \in R : \A y \in R : y <= x
  <1> DEFINE back == {last - y : y \in R}
  <1>1. back \in SUBSET Nat /\ back # {}
    <2>1. \A y \in R : last - y \in Nat
      OBVIOUS
    <2>2. PICK y \in R : TRUE
      OBVIOUS
    <2>3. last - y \in back
      BY <2>2
    <2>4. QED
      BY <2>1, <2>3
  <1>2. PICK b \in back : \A c \in back : b <= c
    BY <1>1, LeastNat
  <1>3. PICK x \in R : b = last - x
    BY <1>2
  <1>4. \A y \in R : last - x <= last - y
    BY <1>2, <1>3
  <1>5. QED
    BY <1>4

-----------------------------------------------------------------------------
(***************************************************************************)
(* Folds from left to right.  FoldLeft is a recursion over sets of places  *)
(* that takes out the last one.  Its step is an operator, which no lemma   *)
(* can take; here it is a function G on the set V of possible results.     *)
(***************************************************************************)
FoldEq(h, G, base, n) ==
    h = [s \in SUBSET (1 .. n) |->
            IF s = {} THEN base ELSE G[Max(s)][h[s \ {Max(s)}]]]

\* The last place of a set of places.
LEMMA LastPlace ==
    ASSUME NEW n \in Nat, NEW s \in SUBSET (1 .. n), s # {}
    PROVE  Max(s) \in s /\ \A y \in s : y <= Max(s)
  <1>1. PICK x \in s : \A y \in s : y <= x
    BY GreatestOf
  <1>2. \A y \in s : x >= y
    BY <1>1
  <1>3. QED
    BY <1>2 DEF Max

\* The first k places without the last of them.
LEMMA FirstPlaces ==
    ASSUME NEW n \in Nat, NEW k \in 0 .. n
    PROVE  /\ 1 .. k \in SUBSET (1 .. n)
           /\ k = 0 => 1 .. k = {}
           /\ k # 0 => /\ 1 .. k # {} /\ Max(1 .. k) = k
                       /\ (1 .. k) \ {k} = 1 .. k - 1
  <1>1. 1 .. k \in SUBSET (1 .. n) /\ (k = 0 => 1 .. k = {})
    OBVIOUS
  <1>2. CASE k # 0
    <2>1. k \in 1 .. k /\ (1 .. k) \ {k} = 1 .. k - 1
      BY <1>2
    <2>2. Max(1 .. k) \in 1 .. k /\ \A y \in 1 .. k : y <= Max(1 .. k)
      BY <1>1, <2>1, LastPlace
    <2>3. Max(1 .. k) = k
      BY <2>1, <2>2
    <2>4. QED
      BY <1>1, <2>1, <2>3
  <1>3. QED
    BY <1>1, <1>2

\* The equation has a solution, built up by the size of the sets.
LEMMA FoldExists ==
    ASSUME NEW n \in Nat, NEW V, NEW base \in V, NEW G \in [1 .. n -> [V -> V]]
    PROVE  \E h \in [SUBSET (1 .. n) -> V] : FoldEq(h, G, base, n)
  <1> DEFINE upTo(k) == {s \in SUBSET (1 .. n) : Cardinality(s) <= k}
             step(h, s) == IF s = {} THEN base ELSE G[Max(s)][h[s \ {Max(s)}]]
             solves(h, k) == h = [s \in upTo(k) |-> step(h, s)]
             T == {k \in Nat : \E h \in [upTo(k) -> V] : solves(h, k)}
  <1>0. /\ IsFiniteSet(1 .. n)
        /\ \A s \in SUBSET (1 .. n) : IsFiniteSet(s) /\ Cardinality(s) \in Nat
    <2>1. IsFiniteSet(1 .. n)
      BY FS_Interval
    <2>2. QED
      BY <2>1, FS_Subset, FS_CardinalityType
  <1>1. ASSUME NEW k \in Nat, NEW s \in upTo(k + 1), s # {}
        PROVE  s \ {Max(s)} \in upTo(k) /\ Max(s) \in 1 .. n
    <2>1. Max(s) \in s /\ s \in SUBSET (1 .. n)
      BY <1>1, LastPlace
    <2>2. s \ {Max(s)} \in SUBSET (1 .. n)
      OBVIOUS
    <2>3. /\ Cardinality(s) \in Nat /\ Cardinality(s) <= k + 1
          /\ Cardinality(s \ {Max(s)}) = Cardinality(s) - 1
      BY <1>0, <1>1, <2>1, FS_RemoveElement
    <2>4. Cardinality(s \ {Max(s)}) <= k
      BY <2>3
    <2>5. QED
      BY <2>1, <2>2, <2>4
  <1>2. 0 \in T
    <2> DEFINE h == [s \in {{}} |-> base]
    <2>1. upTo(0) = {{}}
      BY <1>0, FS_EmptySet
    <2>2. h = [s \in {{}} |-> step(h, s)] /\ h \in [{{}} -> V]
      OBVIOUS
    <2>3. QED
      BY <2>1, <2>2
  <1>3. ASSUME NEW k \in T PROVE k + 1 \in T
    <2>1. PICK h \in [upTo(k) -> V] : solves(h, k)
      OBVIOUS
    <2> DEFINE g == [s \in upTo(k + 1) |-> step(h, s)]
    <2>2. \A s \in upTo(k) : s \in upTo(k + 1)
      <3>1. k \in Nat
        OBVIOUS
      <3>2. \A c \in Nat : c <= k => c <= k + 1
        BY <3>1
      <3>3. QED
        BY <1>0, <3>2
    <2>3. \A s \in upTo(k) : h[s] = step(h, s)
      BY <2>1
    <2>4. \A s \in upTo(k) : g[s] = h[s]
      BY <2>2, <2>3
    <2>5. \A s \in upTo(k + 1) : step(g, s) = step(h, s) /\ step(h, s) \in V
      <3> HIDE DEF g, upTo
      <3>1. QED
        BY <1>1, <2>1, <2>4
    <2>6. solves(g, k + 1) /\ g \in [upTo(k + 1) -> V]
      <3> HIDE DEF upTo, step
      <3>1. g = [s \in upTo(k + 1) |-> step(h, s)]
        OBVIOUS
      <3> HIDE DEF g
      <3>2. QED
        BY <2>5, <3>1
    <2> HIDE DEF solves, upTo, g
    <2>7. QED
      BY <2>6
  <1>4. T = Nat
    <2> HIDE DEF T
    <2>1. T \in SUBSET Nat
      BY DEF T
    <2>2. QED
      BY <1>2, <1>3, <2>1, NatSetInduction
  <1>5. n \in T /\ upTo(n) = SUBSET (1 .. n)
    <2>1. \A s \in SUBSET (1 .. n) : Cardinality(s) <= n
      <3>1. Cardinality(1 .. n) = n
        BY FS_Interval
      <3>2. \A s \in SUBSET (1 .. n) : Cardinality(s) <= Cardinality(1 .. n)
        BY <1>0, FS_Subset
      <3>3. QED
        BY <3>1, <3>2
    <2>2. QED
      BY <1>4, <2>1
  <1>6. QED
    BY <1>5 DEF FoldEq

\* The results on the first 0, 1, 2, ... places: each from the one before it.
IsTrace(w, G, V, base, n) ==
    /\ w \in [0 .. n -> V]
    /\ w[0] = base
    /\ \A k \in 1 .. n : w[k] = G[k][w[k - 1]]

\* A recursion over sets of places that takes these steps from results in V
\* gives such a trace.
Folds(f, G, V, base, n) ==
    /\ G \in [1 .. n -> [V -> V]] /\ base \in V
    /\ f[{}] = base
    /\ \A s \in SUBSET (1 .. n) :
           s # {} /\ f[s \ {Max(s)}] \in V => f[s] = G[Max(s)][f[s \ {Max(s)}]]

LEMMA TraceOfFold ==
    ASSUME NEW n \in Nat, NEW V, NEW base, NEW G, NEW f, Folds(f, G, V, base, n)
    PROVE  \E w : /\ IsTrace(w, G, V, base, n)
                  /\ w[n] = f[1 .. n]
  <1> DEFINE w == [k \in 0 .. n |-> f[1 .. k]]
             T == {k \in Nat : k <= n => f[1 .. k] \in V}
  <1>1. 0 \in T /\ w[0] = base
    <2>1. 1 .. 0 = {}
      OBVIOUS
    <2>2. QED
      BY <2>1 DEF Folds
  <1>2. ASSUME NEW k \in Nat, k + 1 <= n, f[1 .. k] \in V
        PROVE  f[1 .. k + 1] = G[k + 1][f[1 .. k]] /\ f[1 .. k + 1] \in V
    <2>1. k + 1 \in 0 .. n /\ k + 1 # 0 /\ (k + 1) - 1 = k /\ k + 1 \in 1 .. n
      BY <1>2
    <2>2. /\ 1 .. k + 1 \in SUBSET (1 .. n) /\ 1 .. k + 1 # {} /\ Max(1 .. k + 1) = k + 1
          /\ (1 .. k + 1) \ {k + 1} = 1 .. k
      BY <2>1, FirstPlaces
    <2>3. f[1 .. k + 1] = G[k + 1][f[1 .. k]]
      BY <1>2, <2>2 DEF Folds
    <2>4. G[k + 1] \in [V -> V]
      BY <2>1 DEF Folds
    <2>5. QED
      BY <1>2, <2>3, <2>4
  <1>3. \A k \in 0 .. n : f[1 .. k] \in V
    <2>1. T \in SUBSET Nat /\ \A k \in T : k + 1 \in T
      BY <1>2
    <2>2. T = Nat
      <3> HIDE DEF T
      <3>1. QED
        BY <1>1, <2>1, NatSetInduction
    <2>3. QED
      BY <2>2
  <1>4. ASSUME NEW k \in 1 .. n PROVE w[k] = G[k][w[k - 1]]
    <2>1. /\ k - 1 \in Nat /\ (k - 1) + 1 = k /\ k - 1 \in 0 .. n /\ k \in 0 .. n
          /\ k <= n
      OBVIOUS
    <2>2. f[1 .. k] = G[k][f[1 .. k - 1]]
      BY <1>2, <1>3, <2>1
    <2>3. QED
      BY <2>1, <2>2
  <1>5. IsTrace(w, G, V, base, n)
    BY <1>1, <1>3, <1>4 DEF IsTrace
  <1>6. QED
    BY <1>5

\* There is a trace for every step function.
LEMMA TraceExists ==
    ASSUME NEW n \in Nat, NEW V, NEW base \in V, NEW G \in [1 .. n -> [V -> V]]
    PROVE  \E w : IsTrace(w, G, V, base, n)
  <1>1. PICK h \in [SUBSET (1 .. n) -> V] : FoldEq(h, G, base, n)
    BY FoldExists
  <1>2. \A s \in SUBSET (1 .. n) :
            h[s] = IF s = {} THEN base ELSE G[Max(s)][h[s \ {Max(s)}]]
    BY <1>1 DEF FoldEq
  <1>3. Folds(h, G, V, base, n)
    BY <1>2 DEF Folds
  <1>4. QED
    BY <1>3, TraceOfFold

\* A trace is determined by its steps, and traces of step functions that begin
\* alike begin alike.
LEMMA TraceUnique ==
    ASSUME NEW n \in Nat, NEW V, NEW base, NEW G, NEW w, IsTrace(w, G, V, base, n),
           NEW n2 \in Nat, n <= n2, NEW G2, NEW w2, IsTrace(w2, G2, V, base, n2),
           \A k \in 1 .. n : \A v \in V : G2[k][v] = G[k][v]
    PROVE  \A k \in 0 .. n : w2[k] = w[k]
  <1> DEFINE T == {k \in Nat : k <= n => w2[k] = w[k]}
  <1>1. 0 \in T
    BY DEF IsTrace
  <1>2. ASSUME NEW k \in T, k + 1 <= n PROVE w2[k + 1] = w[k + 1]
    <2>1. /\ k + 1 \in 1 .. n /\ k + 1 \in 1 .. n2 /\ (k + 1) - 1 = k
          /\ k \in 0 .. n /\ w2[k] = w[k]
      BY <1>2
    <2>2. w[k] \in V
      BY <2>1 DEF IsTrace
    <2>3. w[k + 1] = G[k + 1][w[k]]
      BY <2>1 DEF IsTrace
    <2>4. w2[k + 1] = G2[k + 1][w2[k]]
      BY <2>1 DEF IsTrace
    <2>5. QED
      BY <2>1, <2>2, <2>3, <2>4
  <1>3. T = Nat
    <2>1. T \in SUBSET Nat /\ \A k \in T : k + 1 \in T
      BY <1>2
    <2> HIDE DEF T
    <2>2. QED
      BY <1>1, <2>1, NatSetInduction
  <1>4. QED
    BY <1>3

-----------------------------------------------------------------------------
(***************************************************************************)
(* The three folds of the component unfold to such recursions.             *)
(***************************************************************************)
TextPieces == (Pieces \ {"hi", "lo"}) \cup {"ch"}
Line == Seq(TextPieces \ {"nl"})

\* What the loop over the lines may have found.
Found == TokenUsage \cup {NoUsage}

\* The loop over the lines.
TakeEq(h, u0, lines) ==
    h = [s \in SUBSET (DOMAIN lines) |->
            IF s = {} THEN u0 ELSE TakeLine(h[s \ {Max(s)}], lines[Max(s)])]

TakeFn(u0, lines) == CHOOSE h : TakeEq(h, u0, lines)

LEMMA TakeUnfolds ==
    ASSUME NEW u0, NEW lines
    PROVE  FoldLeft(TakeLine, u0, lines) = TakeFn(u0, lines)[DOMAIN lines]
  BY DEF FoldLeft, MapThenFoldSet, TakeFn, TakeEq

\* A usage that is extracted is one of natural numbers, and its total is zero
\* only when the upstream counted nothing.
LEMMA ExtractType ==
    ASSUME NEW a \in UsageAtoms
    PROVE  /\ ExtractUsage(RawUsage[a]) \in TokenUsage
           /\ ExtractUsage(RawUsage[a]).total_tokens = 0 => ~Counted(RawUsage[a])
  <1> DEFINE raw == RawUsage[a]
             p == UsageInt(raw.prompt_tokens)
             c == UsageInt(raw.completion_tokens)
             t == UsageInt(raw.total_tokens)
  <1>1. /\ raw.prompt_tokens \in Int \cup {NotInt}
        /\ raw.completion_tokens \in Int \cup {NotInt}
        /\ raw.total_tokens \in Int \cup {NotInt}
    BY RawAssumption
  <1>2. p \in Nat /\ c \in Nat /\ t \in Nat
    BY <1>1 DEF UsageInt
  <1>3. ExtractUsage(raw) = [prompt_tokens |-> p, completion_tokens |-> c,
                             total_tokens |-> IF t = 0 THEN p + c ELSE t]
    BY DEF ExtractUsage
  <1> HIDE DEF p, c, t, raw
  <1>4. ExtractUsage(raw) \in TokenUsage
    BY <1>2, <1>3 DEF TokenUsage
  <1>5. ExtractUsage(raw).total_tokens = 0 => p = 0 /\ c = 0 /\ t = 0
    BY <1>2, <1>3
  <1>6. p = 0 /\ c = 0 /\ t = 0 => ~Counted(raw)
    BY DEF Counted, p, c, t
  <1>7. QED
    BY <1>4, <1>5, <1>6 DEF raw

LEMMA TakeLineType ==
    ASSUME NEW u \in Found, NEW line
    PROVE  TakeLine(u, line) \in Found
  BY ExtractType DEF TakeLine, CarriesUsage, Found

LineSteps(lines) ==
    [k \in 1 .. Len(lines) |-> [u \in Found |-> TakeLine(u, lines[k])]]

\* The usage found after each of the lines.
LEMMA TakeTrace ==
    ASSUME NEW u0 \in Found, NEW S, NEW lines \in Seq(S)
    PROVE  \E w : /\ IsTrace(w, LineSteps(lines), Found, u0, Len(lines))
                  /\ FoldLeft(TakeLine, u0, lines) = w[Len(lines)]
  <1> DEFINE n == Len(lines)
             G == LineSteps(lines)
             f == TakeFn(u0, lines)
  <1>1. n \in Nat /\ DOMAIN lines = 1 .. n
    OBVIOUS
  <1>2. G \in [1 .. n -> [Found -> Found]]
    BY TakeLineType DEF LineSteps
  <1>3. \A s \in SUBSET (1 .. n) : s # {} => Max(s) \in 1 .. n
    BY <1>1, LastPlace
  <1>4. \A k \in 1 .. n : \A u \in Found : G[k][u] = TakeLine(u, lines[k])
    BY DEF LineSteps
  <1> HIDE DEF n, G
  <1>5. PICK h \in [SUBSET (1 .. n) -> Found] : FoldEq(h, G, u0, n)
    BY <1>1, <1>2, FoldExists
  <1>6. TakeEq(h, u0, lines)
    <2>1. \A s \in SUBSET (1 .. n) : s # {} =>
              G[Max(s)][h[s \ {Max(s)}]] = TakeLine(h[s \ {Max(s)}], lines[Max(s)])
      BY <1>3, <1>4, <1>5
    <2>2. QED
      BY <1>1, <1>5, <2>1 DEF FoldEq, TakeEq
  <1>7. TakeEq(f, u0, lines)
    BY <1>6 DEF TakeFn
  <1>8. \A s \in SUBSET (1 .. n) :
            f[s] = IF s = {} THEN u0 ELSE TakeLine(f[s \ {Max(s)}], lines[Max(s)])
    BY <1>1, <1>7 DEF TakeEq
  <1> HIDE DEF f
  <1>9. \E w : IsTrace(w, G, Found, u0, n) /\ w[n] = f[1 .. n]
    <2>1. f[{}] = u0
      BY <1>8
    <2>2. \A s \in SUBSET (1 .. n) :
              s # {} /\ f[s \ {Max(s)}] \in Found => f[s] = G[Max(s)][f[s \ {Max(s)}]]
      BY <1>3, <1>4, <1>8
    <2>3. Folds(f, G, Found, u0, n)
      BY <1>2, <2>1, <2>2 DEF Folds
    <2>4. QED
      BY <1>1, <2>3, TraceOfFold
  <1>10. FoldLeft(TakeLine, u0, lines) = f[1 .. n]
    BY <1>1, TakeUnfolds DEF f
  <1>11. QED
    BY <1>9, <1>10 DEF n, G

LEMMA TakeNone ==
    ASSUME NEW u0 \in Found
    PROVE  FoldLeft(TakeLine, u0, <<>>) = u0
  <1>1. <<>> \in Seq({}) /\ Len(<<>>) = 0
    OBVIOUS
  <1>2. PICK w : /\ IsTrace(w, LineSteps(<<>>), Found, u0, Len(<<>>))
                 /\ FoldLeft(TakeLine, u0, <<>>) = w[Len(<<>>)]
    BY <1>1, TakeTrace
  <1>3. QED
    BY <1>1, <1>2 DEF IsTrace

LEMMA TakeAppend ==
    ASSUME NEW u0 \in Found, NEW S, NEW lines \in Seq(S), NEW line \in S
    PROVE  /\ FoldLeft(TakeLine, u0, lines) \in Found
           /\ FoldLeft(TakeLine, u0, Append(lines, line))
                = TakeLine(FoldLeft(TakeLine, u0, lines), line)
  <1> DEFINE more == Append(lines, line)
             n == Len(lines)
  <1>1. /\ more \in Seq(S) /\ n \in Nat /\ Len(more) = n + 1
        /\ more[n + 1] = line /\ \A k \in 1 .. n : more[k] = lines[k]
    OBVIOUS
  <1>2. PICK w : /\ IsTrace(w, LineSteps(lines), Found, u0, n)
                 /\ FoldLeft(TakeLine, u0, lines) = w[n]
    BY TakeTrace
  <1> HIDE DEF more
  <1>3. PICK w2 : /\ IsTrace(w2, LineSteps(more), Found, u0, Len(more))
                  /\ FoldLeft(TakeLine, u0, more) = w2[Len(more)]
    BY <1>1, TakeTrace
  <1> HIDE DEF n
  <1>4. /\ n \in 0 .. n /\ w[n] \in Found /\ n + 1 \in 1 .. n + 1
        /\ (n + 1) - 1 = n /\ n <= n + 1 /\ n + 1 \in Nat
    BY <1>1, <1>2 DEF IsTrace
  <1>5. \A k \in 1 .. n : \A u \in Found : LineSteps(more)[k][u] = LineSteps(lines)[k][u]
    BY <1>1 DEF LineSteps, n
  <1>6. IsTrace(w2, LineSteps(more), Found, u0, n + 1)
    BY <1>1, <1>3
  <1>7. \A k \in 0 .. n : w2[k] = w[k]
    BY <1>1, <1>2, <1>4, <1>5, <1>6, TraceUnique
  <1>8. w2[n + 1] = LineSteps(more)[n + 1][w2[n]]
    BY <1>4, <1>6 DEF IsTrace
  <1>9. LineSteps(more)[n + 1][w[n]] = TakeLine(w[n], line)
    BY <1>1, <1>4 DEF LineSteps
  <1>10. QED
    BY <1>1, <1>2, <1>3, <1>4, <1>7, <1>8, <1>9 DEF more

\* The front and the last element of a sequence.
LEMMA FrontLast ==
    ASSUME NEW S, NEW s \in Seq(S), s # <<>>
    PROVE  Front(s) \in Seq(S) /\ Last(s) \in S
  <1>1. Len(s) \in Nat /\ Len(s) # 0
    BY EmptySeq, LenProperties
  <1>2. Len(s) \in 1 .. Len(s) /\ Len(s) - 1 \in Int /\ 1 \in Int
    BY <1>1
  <1>3. \A i \in 1 .. Len(s) - 1 : s[i] \in S
    BY <1>1, ElementOfSeq
  <1>4. SubSeq(s, 1, Len(s) - 1) \in Seq(S)
    BY <1>2, <1>3, SubSeqProperties
  <1>5. s[Len(s)] \in S
    BY <1>2, ElementOfSeq
  <1>6. QED
    BY <1>4, <1>5 DEF Front, Last

LEMMA FrontLastAppend ==
    ASSUME NEW S, NEW s \in Seq(S), NEW x \in S
    PROVE  Front(Append(s, x)) = s /\ Last(Append(s, x)) = x
  <1> DEFINE t == Append(s, x)
  <1>1. /\ t \in Seq(S) /\ Len(t) = Len(s) + 1 /\ Len(s) \in Nat
        /\ t[Len(s) + 1] = x /\ \A i \in 1 .. Len(s) : t[i] = s[i]
    OBVIOUS
  <1> HIDE DEF t
  <1>2. Len(t) - 1 = Len(s)
    BY <1>1
  <1>3. SubSeq(t, 1, Len(s)) = s
    <2> DEFINE r == SubSeq(t, 1, Len(s))
    <2>1. r \in Seq(S) /\ Len(r) = Len(s) /\ \A i \in 1 .. Len(s) : r[i] = t[i]
      BY <1>1
    <2> HIDE DEF r
    <2>2. r = s
      BY <1>1, <2>1, SeqEqual
    <2>3. QED
      BY <2>2 DEF r
  <1>4. QED
    BY <1>1, <1>2, <1>3 DEF Front, Last, t

LEMMA ConcatAppend ==
    ASSUME NEW S, NEW s \in Seq(S), NEW t \in Seq(S), NEW x \in S
    PROVE  s \o Append(t, x) = Append(s \o t, x)
  <1>1. <<x>> \in Seq(S) /\ s \o t \in Seq(S)
    OBVIOUS
  <1>2. (s \o t) \o <<x>> = s \o (t \o <<x>>)
    BY <1>1, ConcatAssociative
  <1>3. Append(t, x) = t \o <<x>> /\ Append(s \o t, x) = (s \o t) \o <<x>>
    BY <1>1, AppendIsConcat
  <1>4. QED
    BY <1>2, <1>3

-----------------------------------------------------------------------------
\* The lines of a text: at least one, the last of them not ended.
Lines == {lines \in Seq(Line) : lines # <<>>}

\* One step of SplitLines.
AddPiece(lines, piece) ==
    IF piece = "nl" THEN Append(lines, <<>>)
    ELSE Append(Front(lines), Append(Last(lines), piece))

SplitEq(h, text) ==
    h = [s \in SUBSET (DOMAIN text) |->
            IF s = {} THEN << <<>> >> ELSE AddPiece(h[s \ {Max(s)}], text[Max(s)])]

SplitFn(text) == CHOOSE h : SplitEq(h, text)

LEMMA SplitUnfolds ==
    ASSUME NEW text
    PROVE  SplitLines(text) = SplitFn(text)[DOMAIN text]
  BY DEF SplitLines, FoldLeft, MapThenFoldSet, SplitFn, SplitEq, AddPiece

LEMMA AddPieceType ==
    ASSUME NEW lines \in Lines, NEW piece \in TextPieces
    PROVE  AddPiece(lines, piece) \in Lines
  <1>1. /\ lines \in Seq(Line) /\ Front(lines) \in Seq(Line) /\ Last(lines) \in Line
    BY FrontLast DEF Lines
  <1>2. <<>> \in Line
    BY DEF Line
  <1>3. CASE piece = "nl"
    BY <1>1, <1>2, <1>3, AppendProperties DEF AddPiece, Lines
  <1>4. CASE piece # "nl"
    <2>1. Append(Last(lines), piece) \in Line
      BY <1>1, <1>4 DEF Line
    <2>2. QED
      BY <1>1, <1>4, <2>1, AppendProperties DEF AddPiece, Lines
  <1>5. QED
    BY <1>3, <1>4

PieceSteps(text) ==
    [k \in 1 .. Len(text) |-> [lines \in Lines |-> AddPiece(lines, text[k])]]

\* The lines after each of the pieces.
LEMMA SplitTrace ==
    ASSUME NEW text \in Seq(TextPieces)
    PROVE  \E w : /\ IsTrace(w, PieceSteps(text), Lines, << <<>> >>, Len(text))
                  /\ SplitLines(text) = w[Len(text)]
  <1> DEFINE n == Len(text)
             G == PieceSteps(text)
             f == SplitFn(text)
             base == << <<>> >>
  <1>1. n \in Nat /\ DOMAIN text = 1 .. n /\ \A k \in 1 .. n : text[k] \in TextPieces
    OBVIOUS
  <1>2. G \in [1 .. n -> [Lines -> Lines]]
    BY <1>1, AddPieceType DEF PieceSteps
  <1>3. \A s \in SUBSET (1 .. n) : s # {} => Max(s) \in 1 .. n
    BY <1>1, LastPlace
  <1>4. \A k \in 1 .. n : \A l \in Lines : G[k][l] = AddPiece(l, text[k])
    BY DEF PieceSteps
  <1>5. base \in Lines
    BY DEF Lines, Line
  <1> HIDE DEF n, G, base
  <1>6. PICK h \in [SUBSET (1 .. n) -> Lines] : FoldEq(h, G, base, n)
    BY <1>1, <1>2, <1>5, FoldExists
  <1>7. SplitEq(h, text)
    <2>1. \A s \in SUBSET (1 .. n) : s # {} =>
              G[Max(s)][h[s \ {Max(s)}]] = AddPiece(h[s \ {Max(s)}], text[Max(s)])
      BY <1>3, <1>4, <1>6
    <2>2. QED
      BY <1>1, <1>6, <2>1 DEF FoldEq, SplitEq, base
  <1>8. SplitEq(f, text)
    BY <1>7 DEF SplitFn
  <1>9. \A s \in SUBSET (1 .. n) :
            f[s] = IF s = {} THEN base ELSE AddPiece(f[s \ {Max(s)}], text[Max(s)])
    BY <1>1, <1>8 DEF SplitEq, base
  <1> HIDE DEF f
  <1>10. Folds(f, G, Lines, base, n)
    <2>1. f[{}] = base
      BY <1>9
    <2>2. \A s \in SUBSET (1 .. n) :
              s # {} /\ f[s \ {Max(s)}] \in Lines => f[s] = G[Max(s)][f[s \ {Max(s)}]]
      BY <1>3, <1>4, <1>9
    <2>3. QED
      BY <1>2, <1>5, <2>1, <2>2 DEF Folds
  <1>11. \E w : IsTrace(w, G, Lines, base, n) /\ w[n] = f[1 .. n]
    BY <1>1, <1>10, TraceOfFold
  <1>12. SplitLines(text) = f[1 .. n]
    BY <1>1, SplitUnfolds DEF f
  <1>13. QED
    BY <1>11, <1>12 DEF n, G, base

LEMMA SplitNone == SplitLines(<<>>) = << <<>> >>
  <1>1. <<>> \in Seq(TextPieces) /\ Len(<<>>) = 0
    OBVIOUS
  <1>2. PICK w : /\ IsTrace(w, PieceSteps(<<>>), Lines, << <<>> >>, Len(<<>>))
                 /\ SplitLines(<<>>) = w[Len(<<>>)]
    BY <1>1, SplitTrace
  <1>3. QED
    BY <1>1, <1>2 DEF IsTrace

LEMMA SplitAppend ==
    ASSUME NEW text \in Seq(TextPieces), NEW piece \in TextPieces
    PROVE  /\ SplitLines(text) \in Lines
           /\ SplitLines(Append(text, piece)) = AddPiece(SplitLines(text), piece)
  <1> DEFINE more == Append(text, piece)
             n == Len(text)
             base == << <<>> >>
  <1>1. /\ more \in Seq(TextPieces) /\ n \in Nat /\ Len(more) = n + 1
        /\ more[n + 1] = piece /\ \A k \in 1 .. n : more[k] = text[k]
    OBVIOUS
  <1>2. PICK w : /\ IsTrace(w, PieceSteps(text), Lines, base, n)
                 /\ SplitLines(text) = w[n]
    BY SplitTrace
  <1> HIDE DEF more
  <1>3. PICK w2 : /\ IsTrace(w2, PieceSteps(more), Lines, base, Len(more))
                  /\ SplitLines(more) = w2[Len(more)]
    BY <1>1, SplitTrace
  <1> HIDE DEF n, base
  <1>4. /\ n \in 0 .. n /\ w[n] \in Lines /\ n + 1 \in 1 .. n + 1
        /\ (n + 1) - 1 = n /\ n <= n + 1 /\ n + 1 \in Nat
    BY <1>1, <1>2 DEF IsTrace
  <1>5. \A k \in 1 .. n : \A l \in Lines : PieceSteps(more)[k][l] = PieceSteps(text)[k][l]
    BY <1>1 DEF PieceSteps, n
  <1>6. IsTrace(w2, PieceSteps(more), Lines, base, n + 1)
    BY <1>1, <1>3
  <1>7. \A k \in 0 .. n : w2[k] = w[k]
    BY <1>1, <1>2, <1>4, <1>5, <1>6, TraceUnique
  <1>8. w2[n + 1] = PieceSteps(more)[n + 1][w2[n]]
    BY <1>4, <1>6 DEF IsTrace
  <1>9. PieceSteps(more)[n + 1][w[n]] = AddPiece(w[n], piece)
    BY <1>1, <1>4 DEF PieceSteps
  <1>10. QED
    BY <1>1, <1>2, <1>3, <1>4, <1>7, <1>8, <1>9 DEF more

-----------------------------------------------------------------------------
Text == Seq(TextPieces)

\* One step of Decode.
AddByte(text, bytes, i) ==
    IF bytes[i] \notin {"hi", "lo"} THEN Append(text, bytes[i])
    ELSE IF bytes[i] = "hi" /\ i < Len(bytes) /\ bytes[i + 1] = "lo"
         THEN Append(text, "ch") ELSE text

DecodeEq(h, bytes) ==
    LET places == [i \in DOMAIN bytes |-> i]
    IN  h = [s \in SUBSET (DOMAIN places) |->
                IF s = {} THEN <<>>
                ELSE AddByte(h[s \ {Max(s)}], bytes, places[Max(s)])]

DecodeFn(bytes) == CHOOSE h : DecodeEq(h, bytes)

LEMMA DecodeUnfolds ==
    ASSUME NEW bytes
    PROVE  Decode(bytes) = DecodeFn(bytes)[DOMAIN [i \in DOMAIN bytes |-> i]]
  BY DEF Decode, FoldLeftDomain, FoldLeft, MapThenFoldSet, DecodeFn, DecodeEq, AddByte

LEMMA AddByteType ==
    ASSUME NEW text \in Text, NEW bytes \in Seq(Pieces), NEW i \in 1 .. Len(bytes)
    PROVE  AddByte(text, bytes, i) \in Text
  <1>1. bytes[i] \in Pieces
    OBVIOUS
  <1>2. "ch" \in TextPieces /\ (bytes[i] \notin {"hi", "lo"} => bytes[i] \in TextPieces)
    BY <1>1 DEF TextPieces
  <1>3. QED
    BY <1>2, AppendProperties DEF AddByte, Text

ByteSteps(bytes) ==
    [k \in 1 .. Len(bytes) |-> [text \in Text |-> AddByte(text, bytes, k)]]

\* The text after each of the bytes.
LEMMA DecodeTrace ==
    ASSUME NEW bytes \in Seq(Pieces)
    PROVE  \E w : /\ IsTrace(w, ByteSteps(bytes), Text, <<>>, Len(bytes))
                  /\ Decode(bytes) = w[Len(bytes)]
  <1> DEFINE n == Len(bytes)
             G == ByteSteps(bytes)
             f == DecodeFn(bytes)
             base == <<>>
             places == [i \in DOMAIN bytes |-> i]
  <1>1. n \in Nat /\ DOMAIN bytes = 1 .. n /\ DOMAIN places = 1 .. n
    OBVIOUS
  <1>2. G \in [1 .. n -> [Text -> Text]]
    BY AddByteType DEF ByteSteps
  <1>3. \A s \in SUBSET (1 .. n) : s # {} => Max(s) \in 1 .. n
    BY <1>1, LastPlace
  <1>4. \A k \in 1 .. n : \A t \in Text : G[k][t] = AddByte(t, bytes, k)
    BY DEF ByteSteps
  <1>5. base \in Text
    BY DEF Text
  <1>6. \A k \in 1 .. n : places[k] = k
    BY <1>1
  <1> HIDE DEF n, G, base, places
  <1>7. PICK h \in [SUBSET (1 .. n) -> Text] : FoldEq(h, G, base, n)
    BY <1>1, <1>2, <1>5, FoldExists
  <1>8. DecodeEq(h, bytes)
    <2>1. \A s \in SUBSET (1 .. n) : s # {} =>
              G[Max(s)][h[s \ {Max(s)}]]
                = AddByte(h[s \ {Max(s)}], bytes, places[Max(s)])
      BY <1>3, <1>4, <1>6, <1>7
    <2>2. h = [s \in SUBSET (DOMAIN places) |->
                  IF s = {} THEN base
                  ELSE AddByte(h[s \ {Max(s)}], bytes, places[Max(s)])]
      BY <1>1, <1>7, <2>1 DEF FoldEq
    <2>3. QED
      BY <2>2 DEF DecodeEq, places, base
  <1>9. DecodeEq(f, bytes)
    BY <1>8 DEF DecodeFn
  <1>10. \A s \in SUBSET (1 .. n) :
             f[s] = IF s = {} THEN base ELSE AddByte(f[s \ {Max(s)}], bytes, Max(s))
    <2>1. f = [s \in SUBSET (DOMAIN places) |->
                  IF s = {} THEN base
                  ELSE AddByte(f[s \ {Max(s)}], bytes, places[Max(s)])]
      BY <1>9 DEF DecodeEq, places, base
    <2> HIDE DEF f
    <2>2. QED
      BY <1>1, <1>3, <1>6, <2>1
  <1> HIDE DEF f
  <1>11. Folds(f, G, Text, base, n)
    <2>1. f[{}] = base
      BY <1>10
    <2>2. \A s \in SUBSET (1 .. n) :
              s # {} /\ f[s \ {Max(s)}] \in Text => f[s] = G[Max(s)][f[s \ {Max(s)}]]
      BY <1>3, <1>4, <1>10
    <2>3. QED
      BY <1>2, <1>5, <2>1, <2>2 DEF Folds
  <1>12. \E w : IsTrace(w, G, Text, base, n) /\ w[n] = f[1 .. n]
    BY <1>1, <1>11, TraceOfFold
  <1>13. Decode(bytes) = f[1 .. n]
    BY <1>1, DecodeUnfolds DEF f, places
  <1>14. QED
    BY <1>12, <1>13 DEF n, G, base

\* What is decoded is a text.
LEMMA DecodeType ==
    ASSUME NEW bytes \in Seq(Pieces)
    PROVE  Decode(bytes) \in Text
  <1>1. PICK w : /\ IsTrace(w, ByteSteps(bytes), Text, <<>>, Len(bytes))
                 /\ Decode(bytes) = w[Len(bytes)]
    BY DecodeTrace
  <1>2. Len(bytes) \in 0 .. Len(bytes)
    OBVIOUS
  <1>3. QED
    BY <1>1, <1>2 DEF IsTrace

-----------------------------------------------------------------------------
(***************************************************************************)
(* What the service knows of a text: how far its last line has come (it is *)
(* empty, `da`, the prefix `data:` with nothing after it but characters, a *)
(* line that carries a usage, or a line that never will), the usage found  *)
(* in the lines before, and the one it would find if the last line ended   *)
(* here.  The next piece changes it by a function of that knowledge alone. *)
(***************************************************************************)
Opens(line) ==
    /\ Len(line) >= 2
    /\ line[1] = "da" /\ line[2] = "ta"
    /\ \A i \in 3 .. Len(line) : line[i] = "ch"

Stage(line) ==
    IF Len(line) = 0 THEN 0
    ELSE IF Len(line) = 1 /\ line[1] = "da" THEN 1
    ELSE IF Opens(line) THEN 2
    ELSE IF CarriesUsage(line) THEN 3 ELSE 4

NextStage(stage, piece) ==
    IF stage = 0 /\ piece = "da" THEN 1
    ELSE IF stage = 1 /\ piece = "ta" THEN 2
    ELSE IF stage = 2 /\ piece = "ch" THEN 2
    ELSE IF stage = 2 /\ piece \in UsageAtoms THEN 3 ELSE 4

Known(u0, text) ==
    LET found == FoldLeft(TakeLine, u0, Front(SplitLines(text)))
        line == Last(SplitLines(text))
    IN  <<Stage(line), found, TakeLine(found, line)>>

KnownAfter(known, piece) ==
    IF piece = "nl" THEN <<0, known[3], known[3]>>
    ELSE LET stage == NextStage(known[1], piece)
         IN  <<stage, known[2],
               IF stage = 3 THEN ExtractUsage(RawUsage[piece]) ELSE known[2]>>

Knowledge == (0 .. 4) \X Found \X Found

\* A line carries a usage in stage 3 and in no other.
LEMMA StageCarries ==
    ASSUME NEW line \in Line
    PROVE  Stage(line) \in 0 .. 4 /\ (Stage(line) = 3 <=> CarriesUsage(line))
  <1>1. Len(line) \in Nat
    BY DEF Line
  <1>2. CarriesUsage(line) => ~Opens(line)
    <2>1. SUFFICES ASSUME CarriesUsage(line), Opens(line) PROVE FALSE
      OBVIOUS
    <2>2. Len(line) \in 3 .. Len(line) /\ line[Len(line)] \in UsageAtoms
      BY <1>1, <2>1 DEF CarriesUsage, Last
    <2>3. line[Len(line)] = "ch"
      BY <2>1, <2>2 DEF Opens
    <2>4. QED
      BY <2>2, <2>3, AtomsAssumption
  <1>3. CarriesUsage(line) => Len(line) > 2
    BY DEF CarriesUsage
  <1>4. QED
    BY <1>1, <1>2, <1>3 DEF Stage

LEMMA StageAppend ==
    ASSUME NEW line \in Line, NEW piece \in TextPieces \ {"nl"}
    PROVE  /\ Stage(Append(line, piece)) = NextStage(Stage(line), piece)
           /\ Last(Append(line, piece)) = piece
  <1> DEFINE more == Append(line, piece)
             n == Len(line)
  <1>1. /\ more \in Line /\ n \in Nat /\ Len(more) = n + 1 /\ more[n + 1] = piece
        /\ \A i \in 1 .. n : more[i] = line[i]
    BY DEF Line
  <1>2. Last(more) = piece
    BY <1>1 DEF Last
  <1> HIDE DEF more
  <1>3. Opens(more) <=> \/ n = 1 /\ line[1] = "da" /\ piece = "ta"
                        \/ Opens(line) /\ piece = "ch"
    <2>1. CASE n = 0
      BY <1>1, <2>1 DEF Opens
    <2>2. CASE n = 1
      BY <1>1, <2>2 DEF Opens
    <2>3. CASE n >= 2
      <3>1. (\A i \in 3 .. n + 1 : more[i] = "ch")
              <=> (\A i \in 3 .. n : line[i] = "ch") /\ piece = "ch"
        <4>1. \A i \in 3 .. n + 1 : i = n + 1 \/ i \in 3 .. n
          BY <1>1
        <4>2. n + 1 \in 3 .. n + 1 /\ \A i \in 3 .. n : i \in 3 .. n + 1 /\ i \in 1 .. n
          BY <1>1, <2>3
        <4>3. QED
          BY <1>1, <4>1, <4>2
      <3>2. more[1] = line[1] /\ more[2] = line[2]
        BY <1>1, <2>3
      <3>3. QED
        BY <1>1, <2>3, <3>1, <3>2 DEF Opens
    <2> HIDE DEF n
    <2>4. n = 0 \/ n = 1 \/ n >= 2
      <3>1. n \in Nat
        BY <1>1
      <3>2. QED
        BY ONLY <3>1
    <2>5. QED
      BY ONLY <2>1, <2>2, <2>3, <2>4
  <1>4. CarriesUsage(more) <=> Opens(line) /\ piece \in UsageAtoms
    <2>1. CASE n < 2
      BY <1>1, <2>1 DEF Opens, CarriesUsage
    <2>2. CASE n >= 2
      <3>1. more[1] = line[1] /\ more[2] = line[2] /\ Len(more) - 1 = n /\ Len(more) > 2
        BY <1>1, <2>2
      <3>2. (\A i \in 3 .. n : more[i] = "ch") <=> (\A i \in 3 .. n : line[i] = "ch")
        <4>1. \A i \in 3 .. n : i \in 1 .. n
          BY <1>1
        <4>2. QED
          BY <1>1, <4>1
      <3>3. QED
        BY <1>2, <2>2, <3>1, <3>2 DEF Opens, CarriesUsage
    <2>3. QED
      BY <1>1, <2>1, <2>2
  <1>5. Opens(line) => n >= 2 /\ Stage(line) = 2
    BY <1>1 DEF Opens, Stage
  <1>6. (Stage(line) = 2 => Opens(line)) /\ (Stage(line) = 0 <=> n = 0)
        /\ (Stage(line) = 1 <=> n = 1 /\ line[1] = "da")
    BY <1>1 DEF Stage
  <1>7. Stage(more) = NextStage(Stage(line), piece)
    <2>1. piece \in UsageAtoms => piece \notin {"da", "ta", "ch"}
      BY AtomsAssumption
    <2>2. n = 0 => Stage(more) = IF piece = "da" THEN 1 ELSE 4
      BY <1>1, <1>3, <1>4, <1>5, <2>1 DEF Stage
    <2>3. n # 0 => Stage(more) = IF Opens(more) THEN 2 ELSE IF CarriesUsage(more) THEN 3 ELSE 4
      BY <1>1 DEF Stage
    <2>4. QED
      BY <1>1, <1>3, <1>4, <1>5, <1>6, <2>1, <2>2, <2>3 DEF NextStage
  <1>8. QED
    BY <1>2, <1>7 DEF more

LEMMA KnownType ==
    ASSUME NEW u0 \in Found, NEW text \in Text
    PROVE  /\ Known(u0, text) \in Knowledge
           /\ Front(SplitLines(text)) \in Seq(Line) /\ Last(SplitLines(text)) \in Line
           /\ Known(u0, text)[2] = FoldLeft(TakeLine, u0, Front(SplitLines(text)))
           /\ Known(u0, text)[1] = Stage(Last(SplitLines(text)))
  <1> DEFINE lines == SplitLines(text)
             found == FoldLeft(TakeLine, u0, Front(lines))
  <1>1. lines \in Lines
    <2>1. "nl" \in TextPieces
      BY DEF TextPieces, Pieces
    <2>2. QED
      BY <2>1, SplitAppend DEF Text
  <1> HIDE DEF lines
  <1>2. Front(lines) \in Seq(Line) /\ Last(lines) \in Line
    BY <1>1, FrontLast DEF Lines
  <1>3. found \in Found
    BY <1>2, TakeAppend
  <1> HIDE DEF found
  <1>4. TakeLine(found, Last(lines)) \in Found /\ Stage(Last(lines)) \in 0 .. 4
    BY <1>2, <1>3, TakeLineType, StageCarries
  <1>5. Known(u0, text) = <<Stage(Last(lines)), found, TakeLine(found, Last(lines))>>
    BY DEF Known, lines, found
  <1>6. Known(u0, text) \in Knowledge
    BY <1>3, <1>4, <1>5 DEF Knowledge
  <1>7. Known(u0, text)[2] = found /\ Known(u0, text)[1] = Stage(Last(lines))
    BY <1>5
  <1>8. QED
    BY <1>2, <1>6, <1>7 DEF lines, found

\* Nothing is known of no text, and the next piece adds to what is known.
LEMMA KnownNone ==
    ASSUME NEW u0 \in Found
    PROVE  Known(u0, <<>>) = <<0, u0, u0>>
  <1>1. /\ <<>> \in Seq(Line) /\ <<>> \in Line
        /\ << <<>> >> = Append(<<>>, <<>>)
    BY DEF Line
  <1>2. Front(<< <<>> >>) = <<>> /\ Last(<< <<>> >>) = <<>>
    BY <1>1, FrontLastAppend
  <1>3. TakeLine(u0, <<>>) = u0 /\ Stage(<<>>) = 0
    BY DEF TakeLine, CarriesUsage, Stage
  <1>4. QED
    BY <1>2, <1>3, SplitNone, TakeNone DEF Known

LEMMA KnownAppend ==
    ASSUME NEW u0 \in Found, NEW text \in Text, NEW piece \in TextPieces
    PROVE  Known(u0, Append(text, piece)) = KnownAfter(Known(u0, text), piece)
  <1> DEFINE lines == SplitLines(text)
             more == SplitLines(Append(text, piece))
             found == FoldLeft(TakeLine, u0, Front(lines))
             line == Last(lines)
  <1>1. lines \in Lines /\ more = AddPiece(lines, piece)
    BY SplitAppend DEF Text
  <1> HIDE DEF lines, more
  <1>2. lines \in Seq(Line) /\ Front(lines) \in Seq(Line) /\ line \in Line
    BY <1>1, FrontLast DEF Lines
  <1>3. Known(u0, text) = <<Stage(line), found, TakeLine(found, line)>>
    BY DEF Known, lines
  <1>4. Known(u0, Append(text, piece))
          = <<Stage(Last(more)), FoldLeft(TakeLine, u0, Front(more)),
              TakeLine(FoldLeft(TakeLine, u0, Front(more)), Last(more))>>
    BY DEF Known, more
  <1>5. CASE piece = "nl"
    <2>1. <<>> \in Line /\ more = Append(lines, <<>>)
      BY <1>1, <1>5 DEF AddPiece, Line
    <2>2. Front(more) = lines /\ Last(more) = <<>>
      BY <1>2, <2>1, FrontLastAppend
    <2>3. FoldLeft(TakeLine, u0, lines) = TakeLine(found, line)
      <3>1. lines = Append(Front(lines), line)
        <4>1. PICK front \in Seq(Line), last \in Line : lines = Append(front, last)
          BY <1>1, <1>2, SequenceEmptyOrAppend DEF Lines
        <4>2. Front(lines) = front /\ line = last
          BY <4>1, FrontLastAppend
        <4>3. QED
          BY <4>1, <4>2
      <3>2. FoldLeft(TakeLine, u0, Append(Front(lines), line)) = TakeLine(found, line)
        BY <1>2, TakeAppend
      <3>3. QED
        BY <3>1, <3>2
    <2>4. Stage(<<>>) = 0 /\ TakeLine(TakeLine(found, line), <<>>) = TakeLine(found, line)
      BY DEF TakeLine, CarriesUsage, Stage
    <2> HIDE DEF found, line
    <2>5. Known(u0, Append(text, piece)) = <<0, TakeLine(found, line), TakeLine(found, line)>>
      BY <1>4, <2>2, <2>3, <2>4
    <2>6. QED
      BY <1>3, <1>5, <2>5 DEF KnownAfter
  <1>6. CASE piece # "nl"
    <2>1. piece \in TextPieces \ {"nl"} /\ Append(line, piece) \in Line
      BY <1>2, <1>6 DEF Line
    <2>2. more = Append(Front(lines), Append(line, piece))
      BY <1>1, <1>6 DEF AddPiece
    <2>3. Front(more) = Front(lines) /\ Last(more) = Append(line, piece)
      BY <1>2, <2>1, <2>2, FrontLastAppend
    <2>4. /\ Stage(Append(line, piece)) = NextStage(Stage(line), piece)
          /\ Last(Append(line, piece)) = piece
          /\ Stage(Append(line, piece)) = 3 <=> CarriesUsage(Append(line, piece))
      BY <1>2, <2>1, StageAppend, StageCarries
    <2>5. TakeLine(found, Append(line, piece))
            = IF NextStage(Stage(line), piece) = 3 THEN ExtractUsage(RawUsage[piece])
              ELSE found
      BY <2>4 DEF TakeLine
    <2>6. Known(u0, Append(text, piece))
            = <<NextStage(Stage(line), piece), found, TakeLine(found, Append(line, piece))>>
      BY <1>4, <2>3, <2>4
    <2> HIDE DEF found, line
    <2>7. QED
      BY <1>3, <1>6, <2>5, <2>6 DEF KnownAfter
  <1>7. QED
    BY <1>5, <1>6

\* A text without a newline is one line.
LEMMA SplitLine ==
    ASSUME NEW line \in Line
    PROVE  SplitLines(line) = <<line>>
  <1> DEFINE T == {k \in Nat : \A l \in Line : Len(l) = k => SplitLines(l) = <<l>>}
  <1>1. 0 \in T
    <2>1. \A l \in Line : Len(l) = 0 => l = <<>>
      BY EmptySeq DEF Line
    <2>2. QED
      BY <2>1, SplitNone
  <1>2. ASSUME NEW k \in T PROVE k + 1 \in T
    <2>1. SUFFICES ASSUME NEW l \in Line, Len(l) = k + 1 PROVE SplitLines(l) = <<l>>
      BY <1>2
    <2>2. k \in Nat /\ l # <<>>
      BY <2>1
    <2>3. PICK s \in Line, x \in TextPieces \ {"nl"} : l = Append(s, x)
      BY <2>2, SequenceEmptyOrAppend DEF Line
    <2>4. Len(s) = k /\ s \in Seq(TextPieces) /\ x \in TextPieces /\ x # "nl"
      <3>1. Len(l) = Len(s) + 1 /\ Len(s) \in Nat
        BY <2>3 DEF Line
      <3>2. s \in Seq(TextPieces)
        BY SeqMonotonic DEF Line
      <3>3. QED
        BY <2>1, <2>2, <3>1, <3>2
    <2>5. SplitLines(s) = <<s>>
      BY <2>4
    <2>6. SplitLines(l) = AddPiece(<<s>>, x)
      BY <2>3, <2>4, <2>5, SplitAppend
    <2>7. Front(<<s>>) = <<>> /\ Last(<<s>>) = s
      <3>1. <<s>> = Append(<<>>, s) /\ <<>> \in Seq(Line)
        OBVIOUS
      <3>2. QED
        BY <3>1, FrontLastAppend
    <2>8. Append(<<>>, l) = <<l>>
      OBVIOUS
    <2>9. QED
      BY <2>3, <2>4, <2>6, <2>7, <2>8 DEF AddPiece
  <1>3. T = Nat
    <2>1. T \in SUBSET Nat
      OBVIOUS
    <2> HIDE DEF T
    <2>2. QED
      BY <1>1, <1>2, <2>1, NatSetInduction
  <1>4. Len(line) \in Nat
    BY DEF Line
  <1>5. QED
    BY <1>3, <1>4

-----------------------------------------------------------------------------
(***************************************************************************)
(* What is known after each byte of a stream: half a character adds        *)
(* nothing.                                                                *)
(***************************************************************************)
KnownAfterByte(known, byte) ==
    IF byte \in {"hi", "lo"} THEN known ELSE KnownAfter(known, byte)

StreamSteps(bytes) ==
    [k \in 1 .. Len(bytes) |-> [known \in Knowledge |-> KnownAfterByte(known, bytes[k])]]

Unknown == <<0, NoUsage, NoUsage>>

LEMMA KnownAfterType ==
    ASSUME NEW known \in Knowledge, NEW piece \in TextPieces
    PROVE  KnownAfter(known, piece) \in Knowledge
  <1>1. /\ known[1] \in 0 .. 4 /\ known[2] \in Found /\ known[3] \in Found
    BY DEF Knowledge
  <1>2. NextStage(known[1], piece) \in 0 .. 4
    BY DEF NextStage
  <1>3. NextStage(known[1], piece) = 3 => ExtractUsage(RawUsage[piece]) \in Found
    BY ExtractType DEF NextStage, Found
  <1>4. QED
    BY <1>1, <1>2, <1>3 DEF KnownAfter, Knowledge

LEMMA StreamRun ==
    ASSUME NEW bytes \in Seq(Pieces)
    PROVE  \E w : IsTrace(w, StreamSteps(bytes), Knowledge, Unknown, Len(bytes))
  <1> DEFINE G == StreamSteps(bytes)
             n == Len(bytes)
  <1>1. \A k \in 1 .. Len(bytes) : bytes[k] \in Pieces
    OBVIOUS
  <1>2. \A k \in 1 .. n : \A q \in Knowledge : KnownAfterByte(q, bytes[k]) \in Knowledge
    BY <1>1, KnownAfterType DEF KnownAfterByte, TextPieces
  <1>3. G \in [1 .. n -> [Knowledge -> Knowledge]]
    BY <1>2 DEF StreamSteps
  <1>4. Unknown \in Knowledge /\ n \in Nat
    BY DEF Unknown, Knowledge, Found
  <1> HIDE DEF G, n
  <1>5. QED
    BY <1>3, <1>4, TraceExists DEF G, n

\* Where a character stands in a stream it says nothing: the last line has
\* come to the text after `data:`, or is one that will carry no usage.
LEMMA HalfKeeps ==
    ASSUME NEW bytes \in Streams, NEW w,
           IsTrace(w, StreamSteps(bytes), Knowledge, Unknown, Len(bytes)),
           NEW k \in 1 .. Len(bytes), bytes[k] \in {"hi", "lo"}
    PROVE  KnownAfter(w[k - 1], "ch") = w[k - 1]
  <1> DEFINE n == Len(bytes)
             settled(q) == q[1] \in {2, 4} /\ q[3] = q[2]
             T == {i \in Nat : i \in 1 .. n /\ bytes[i] \in {"hi", "lo"} => settled(w[i - 1])}
  <1>0. /\ bytes \in Seq(Pieces) /\ n \in Nat /\ DOMAIN bytes = 1 .. n
        /\ \A i \in 1 .. n : bytes[i] \in Pieces
    BY StreamsAssumption
  <1>1. ASSUME NEW i \in 1 .. n
        PROVE  w[i - 1] \in Knowledge /\ w[i] = KnownAfterByte(w[i - 1], bytes[i])
    <2>1. i - 1 \in 0 .. n /\ i \in 1 .. n
      BY <1>0
    <2>2. w[i - 1] \in Knowledge /\ w[i] = StreamSteps(bytes)[i][w[i - 1]]
      BY <2>1 DEF IsTrace
    <2>3. QED
      BY <2>1, <2>2 DEF StreamSteps
  <1>2. 0 \in T
    OBVIOUS
  <1>3. ASSUME NEW i \in T PROVE i + 1 \in T
    <2>1. SUFFICES ASSUME i + 1 \in 1 .. n, bytes[i + 1] \in {"hi", "lo"}
                   PROVE  settled(w[(i + 1) - 1])
      OBVIOUS
    <2>2. /\ i \in Nat /\ (i + 1) - 1 = i
      OBVIOUS
    <2>3. i + 1 > 1 /\ bytes[i] \notin {"nl", "da"} \cup UsageAtoms
      BY <1>0, <2>1, <2>2, CharactersAssumption
    <2>4. i \in 1 .. n
      BY <1>0, <2>1, <2>2, <2>3
    <2>5. CASE bytes[i] \in {"hi", "lo"}
      <3>1. w[i] = w[i - 1]
        BY <1>1, <2>4, <2>5 DEF KnownAfterByte
      <3>2. settled(w[i - 1])
        BY <2>4, <2>5
      <3>3. QED
        BY <2>2, <3>1, <3>2
    <2>6. CASE bytes[i] \notin {"hi", "lo"}
      <3>1. w[i - 1] \in Knowledge /\ w[i] = KnownAfter(w[i - 1], bytes[i])
        BY <1>1, <2>4, <2>6 DEF KnownAfterByte
      <3>2. bytes[i] \in {"ta", "delta", "[DONE]"}
        BY <1>0, <2>3, <2>4, <2>6 DEF Pieces
      <3>3. NextStage(w[i - 1][1], bytes[i]) \in {2, 4}
        BY <2>3, <3>1, <3>2 DEF NextStage, Knowledge
      <3>4. w[i] = <<NextStage(w[i - 1][1], bytes[i]), w[i - 1][2], w[i - 1][2]>>
        BY <3>1, <3>2, <3>3 DEF KnownAfter
      <3>5. QED
        BY <2>2, <3>3, <3>4
    <2>7. QED
      BY <2>5, <2>6
  <1>4. T = Nat
    <2>1. T \in SUBSET Nat
      OBVIOUS
    <2> HIDE DEF T
    <2>2. QED
      BY <1>2, <1>3, <2>1, NatSetInduction
  <1>5. settled(w[k - 1]) /\ w[k - 1] \in Knowledge
    BY <1>0, <1>1, <1>4
  <1>6. PICK q \in Knowledge : q = w[k - 1]
    BY <1>5
  <1>7. q = <<q[1], q[2], q[3]>> /\ q[1] \in {2, 4} /\ q[3] = q[2]
    BY <1>5, <1>6 DEF Knowledge
  <1>8. NextStage(q[1], "ch") = q[1]
    BY <1>7, AtomsAssumption DEF NextStage
  <1>9. KnownAfter(q, "ch") = <<q[1], q[2], q[2]>>
    BY <1>7, <1>8 DEF KnownAfter
  <1>10. QED
    BY <1>6, <1>7, <1>9

\* The chunk is cut from the stream after its first m bytes.
IsChunk(chunk, bytes, m) ==
    /\ chunk \in Seq(Pieces) /\ m \in Nat /\ m + Len(chunk) <= Len(bytes)
    /\ \A k \in 1 .. Len(chunk) : chunk[k] = bytes[m + k]

\* A chunk takes the service as far in the stream as the bytes of the chunk,
\* whatever text was pending when it came.
LEMMA ChunkRun ==
    ASSUME NEW bytes \in Streams, NEW w,
           IsTrace(w, StreamSteps(bytes), Knowledge, Unknown, Len(bytes)),
           NEW chunk, NEW m, IsChunk(chunk, bytes, m),
           NEW u0 \in Found, NEW text \in Text, Known(u0, text) = w[m]
    PROVE  Known(u0, text \o Decode(chunk)) = w[m + Len(chunk)]
  <1> DEFINE n == Len(chunk)
  <1>1. chunk \in Seq(Pieces)
    BY DEF IsChunk
  <1>2. /\ bytes \in Seq(Pieces) /\ Len(bytes) \in Nat
        /\ m \in Nat /\ n \in Nat /\ m + n <= Len(bytes)
        /\ \A k \in 1 .. n : chunk[k] \in Pieces /\ chunk[k] = bytes[m + k]
    BY <1>1, StreamsAssumption DEF IsChunk
  <1> HIDE DEF n
  <1>3. PICK e : /\ IsTrace(e, ByteSteps(chunk), Text, <<>>, n)
                 /\ Decode(chunk) = e[n]
    BY <1>1, DecodeTrace DEF n
  <1> DEFINE T == {k \in Nat : k <= n => Known(u0, text \o e[k]) = w[m + k]}
  <1>4. 0 \in T
    <2>1. e[0] = <<>> /\ text \o <<>> = text /\ m + 0 = m
      BY <1>2, <1>3, ConcatEmptySeq DEF IsTrace, Text
    <2>2. QED
      BY <2>1
  <1>5. ASSUME NEW k \in T PROVE k + 1 \in T
    <2>1. SUFFICES ASSUME k + 1 <= n PROVE Known(u0, text \o e[k + 1]) = w[m + (k + 1)]
      OBVIOUS
    <2> DEFINE b == chunk[k + 1]
               i == m + (k + 1)
               q == w[m + k]
    <2>2. /\ k \in Nat /\ k \in 0 .. n /\ k + 1 \in 1 .. n /\ (k + 1) - 1 = k
          /\ i \in 1 .. Len(bytes) /\ i - 1 = m + k /\ m + k \in 0 .. Len(bytes)
      BY <1>2, <2>1
    <2>3. b \in Pieces /\ b = bytes[i] /\ Known(u0, text \o e[k]) = q
      BY <1>2, <2>1, <2>2
    <2>4. e[k] \in Text /\ e[k + 1] = AddByte(e[k], chunk, k + 1)
      BY <1>3, <2>2 DEF IsTrace, ByteSteps, n
    <2>5. w[i] = KnownAfterByte(q, b)
      <3>1. q \in Knowledge /\ w[i] = StreamSteps(bytes)[i][w[i - 1]]
        BY <2>2 DEF IsTrace
      <3>2. QED
        BY <2>2, <2>3, <3>1 DEF StreamSteps
    <2>6. ASSUME NEW x \in TextPieces, e[k + 1] = Append(e[k], x)
          PROVE  Known(u0, text \o e[k + 1]) = KnownAfter(q, x)
      <3>1. text \o Append(e[k], x) = Append(text \o e[k], x) /\ text \o e[k] \in Text
        <4>1. text \in Seq(TextPieces) /\ e[k] \in Seq(TextPieces)
          BY <2>4 DEF Text
        <4>2. QED
          BY <4>1, ConcatAppend, ConcatProperties DEF Text
      <3>2. Known(u0, Append(text \o e[k], x)) = KnownAfter(Known(u0, text \o e[k]), x)
        BY <3>1, KnownAppend
      <3>3. QED
        BY <2>3, <2>6, <3>1, <3>2
    <2>7. CASE b \notin {"hi", "lo"}
      <3>1. b \in TextPieces /\ e[k + 1] = Append(e[k], b)
        BY <2>3, <2>4, <2>7 DEF AddByte, TextPieces
      <3>2. QED
        BY <2>5, <2>6, <2>7, <3>1 DEF KnownAfterByte
    <2>8. CASE b \in {"hi", "lo"}
      <3>1. w[i] = q /\ KnownAfter(q, "ch") = q
        <4>1. KnownAfter(w[i - 1], "ch") = w[i - 1]
          BY <2>2, <2>3, <2>8, HalfKeeps
        <4>2. QED
          BY <2>2, <2>5, <2>8, <4>1 DEF KnownAfterByte
      <3>2. e[k + 1] = Append(e[k], "ch") \/ e[k + 1] = e[k]
        BY <2>4, <2>8 DEF AddByte
      <3>3. "ch" \in TextPieces
        BY DEF TextPieces
      <3>4. QED
        BY <2>3, <2>6, <3>1, <3>2, <3>3
    <2>9. QED
      BY <2>7, <2>8
  <1>6. T = Nat
    <2>1. T \in SUBSET Nat
      OBVIOUS
    <2> HIDE DEF T
    <2>2. QED
      BY <1>4, <1>5, <2>1, NatSetInduction
  <1>7. QED
    BY <1>2, <1>3, <1>6 DEF n

LEMMA DecodeNone == Decode(<<>>) = <<>>
  <1>1. <<>> \in Seq(Pieces) /\ Len(<<>>) = 0
    OBVIOUS
  <1>2. PICK w : /\ IsTrace(w, ByteSteps(<<>>), Text, <<>>, Len(<<>>))
                 /\ Decode(<<>>) = w[Len(<<>>)]
    BY <1>1, DecodeTrace
  <1>3. QED
    BY <1>1, <1>2 DEF IsTrace

\* What a reader knows of the first bytes of a stream.
LEMMA ReaderRun ==
    ASSUME NEW bytes \in Streams, NEW w,
           IsTrace(w, StreamSteps(bytes), Knowledge, Unknown, Len(bytes)),
           NEW first, IsChunk(first, bytes, 0)
    PROVE  Known(NoUsage, Decode(first)) = w[Len(first)]
  <1> DEFINE none == <<>>
  <1>1. none \in Text /\ NoUsage \in Found
    BY DEF Text, Found
  <1>2. Known(NoUsage, none) = w[0]
    BY <1>1, KnownNone DEF IsTrace, Unknown
  <1>3. first \in Seq(Pieces) /\ Len(first) \in Nat
    BY DEF IsChunk
  <1>4. none \o Decode(first) = Decode(first)
    BY <1>3, DecodeType, ConcatEmptySeq DEF Text
  <1> HIDE DEF none
  <1>5. Known(NoUsage, none \o Decode(first)) = w[0 + Len(first)]
    BY <1>1, <1>2, ChunkRun
  <1>6. QED
    BY <1>3, <1>4, <1>5

\* The first n of the bytes to come, and the others.
LEMMA CutApart ==
    ASSUME NEW r \in Seq(Pieces), NEW u \in Seq(Pieces), NEW n \in 1 .. Len(u)
    PROVE  /\ SubSeq(u, 1, n) \in Seq(Pieces) /\ Len(SubSeq(u, 1, n)) = n
           /\ SubSeq(u, n + 1, Len(u)) \in Seq(Pieces)
           /\ r \o SubSeq(u, 1, n) \in Seq(Pieces)
           /\ (r \o SubSeq(u, 1, n)) \o SubSeq(u, n + 1, Len(u)) = r \o u
           /\ Len(r \o SubSeq(u, 1, n)) = Len(r) + n
           /\ Len(r) + n <= Len(r \o u)
           /\ \A k \in 1 .. n : SubSeq(u, 1, n)[k] = (r \o u)[Len(r) + k]
           /\ \A k \in 1 .. Len(r) : r[k] = (r \o u)[k]
           /\ \A k \in 1 .. Len(r) + n :
                  (r \o SubSeq(u, 1, n))[k] = (r \o u)[k]
  <1> DEFINE c == SubSeq(u, 1, n)
             d == SubSeq(u, n + 1, Len(u))
  <1>1. /\ Len(u) \in Nat /\ Len(r) \in Nat /\ n \in Nat /\ n <= Len(u) /\ n >= 1
    OBVIOUS
  <1>2. /\ c \in Seq(Pieces) /\ Len(c) = n /\ \A k \in 1 .. n : c[k] = u[k]
    BY <1>1
  <1>3. d \in Seq(Pieces) /\ Len(d) = Len(u) - n /\ \A k \in 1 .. Len(u) - n : d[k] = u[n + k]
    BY <1>1
  <1> HIDE DEF c, d
  <1>4. c \o d = u
    <2>1. /\ c \o d \in Seq(Pieces) /\ Len(c \o d) = Len(u)
          /\ \A k \in 1 .. Len(u) : (c \o d)[k] = IF k <= n THEN c[k] ELSE d[k - n]
      <3>1. c \in Seq(Pieces) /\ d \in Seq(Pieces)
        BY <1>2, <1>3
      <3>2. /\ c \o d \in Seq(Pieces) /\ Len(c \o d) = Len(c) + Len(d)
            /\ \A k \in 1 .. Len(c) + Len(d) :
                   (c \o d)[k] = IF k <= Len(c) THEN c[k] ELSE d[k - Len(c)]
        BY <3>1, ConcatProperties
      <3>3. Len(c) + Len(d) = Len(u) /\ Len(c) = n
        BY <1>1, <1>2, <1>3
      <3>4. QED
        BY <3>2, <3>3
    <2>2. ASSUME NEW k \in 1 .. Len(u) PROVE (c \o d)[k] = u[k]
      <3>1. CASE k <= n
        BY <1>1, <1>2, <2>1, <3>1
      <3>2. CASE ~(k <= n)
        <4>1. k - n \in 1 .. Len(u) - n /\ n + (k - n) = k
          BY <1>1, <3>2
        <4>2. QED
          BY <1>3, <2>1, <3>2, <4>1
      <3>3. QED
        BY <3>1, <3>2
    <2>3. QED
      BY <2>1, <2>2, SeqEqual
  <1>5. (r \o c) \o d = r \o u
    <2>1. c \in Seq(Pieces) /\ d \in Seq(Pieces)
      BY <1>2, <1>3
    <2>2. (r \o c) \o d = r \o (c \o d)
      BY <2>1, ConcatAssociative
    <2>3. QED
      BY <1>4, <2>2
  <1>6. /\ r \o c \in Seq(Pieces) /\ Len(r \o c) = Len(r) + n
        /\ \A k \in 1 .. Len(r) + n : (r \o c)[k] = IF k <= Len(r) THEN r[k] ELSE c[k - Len(r)]
    BY <1>1, <1>2, ConcatProperties
  <1>7. /\ Len(r \o u) = Len(r) + Len(u)
        /\ \A k \in 1 .. Len(r) + Len(u) :
               (r \o u)[k] = IF k <= Len(r) THEN r[k] ELSE u[k - Len(r)]
    BY <1>1, ConcatProperties
  <1>8. \A k \in 1 .. n : c[k] = (r \o u)[Len(r) + k]
    <2>1. ASSUME NEW k \in 1 .. n PROVE c[k] = (r \o u)[Len(r) + k]
      <3>1. /\ Len(r) + k \in 1 .. Len(r) + Len(u)
            /\ ~(Len(r) + k <= Len(r)) /\ (Len(r) + k) - Len(r) = k
        BY <1>1
      <3>2. QED
        BY <1>2, <1>7, <3>1
    <2>2. QED
      BY <2>1
  <1>9. \A k \in 1 .. Len(r) : r[k] = (r \o u)[k]
    BY <1>1, <1>7
  <1>10. \A k \in 1 .. Len(r) + n : (r \o c)[k] = (r \o u)[k]
    <2>1. ASSUME NEW k \in 1 .. Len(r) + n PROVE (r \o c)[k] = (r \o u)[k]
      <3>1. CASE k <= Len(r)
        BY <1>1, <1>6, <1>7, <3>1
      <3>2. CASE ~(k <= Len(r))
        <4>1. k - Len(r) \in 1 .. n /\ k \in 1 .. Len(r) + Len(u)
          BY <1>1, <3>2
        <4>2. QED
          BY <1>2, <1>6, <1>7, <3>2, <4>1
      <3>3. QED
        BY <3>1, <3>2
    <2>2. QED
      BY <2>1
  <1>11. Len(r) + n <= Len(r \o u)
    BY <1>1, <1>7
  <1>12. QED
    BY <1>2, <1>3, <1>5, <1>6, <1>8, <1>9, <1>10, <1>11 DEF c, d

-----------------------------------------------------------------------------
(***************************************************************************)
(* The inductive invariant: what the service knows, of which it keeps the  *)
(* pending text and the usage, is what a reader knows of the text of all   *)
(* the bytes received.                                                     *)
(***************************************************************************)
SseInv ==
    /\ received \in Seq(Pieces) /\ unread \in Seq(Pieces)
    /\ received \o unread \in Streams
    /\ pending_text \in Line
    /\ usage \in Found
    /\ Known(usage, pending_text) = Known(NoUsage, Decode(received))

\* A chunk keeps the invariant: c comes after the bytes r, while the text p is
\* pending and the usage v has been found.
LEMMA ChunkTaken ==
    ASSUME NEW r \in Seq(Pieces), NEW u \in Seq(Pieces), r \o u \in Streams,
           NEW p \in Line, NEW v \in Found,
           Known(v, p) = Known(NoUsage, Decode(r)),
           NEW n \in 1 .. Len(u)
    PROVE  LET c == SubSeq(u, 1, n)
               lines == SplitLines(p \o Decode(c))
               v2 == FoldLeft(TakeLine, v, Front(lines))
           IN  /\ Last(lines) \in Line /\ v2 \in Found
               /\ Known(v2, Last(lines)) = Known(NoUsage, Decode(r \o c))
  <1> DEFINE c == SubSeq(u, 1, n)
             bytes == r \o u
             m == Len(r)
             t == p \o Decode(c)
             p2 == Last(SplitLines(t))
             v2 == FoldLeft(TakeLine, v, Front(SplitLines(t)))
  <1>1. /\ c \in Seq(Pieces) /\ Len(c) = n /\ r \o c \in Seq(Pieces) /\ Len(r \o c) = m + n
        /\ m + n <= Len(bytes) /\ \A k \in 1 .. n : c[k] = bytes[m + k]
        /\ \A k \in 1 .. m : r[k] = bytes[k]
        /\ \A k \in 1 .. m + n : (r \o c)[k] = bytes[k]
    BY CutApart
  <1>2. m \in Nat /\ n \in Nat /\ m + n \in Nat /\ Len(bytes) \in Nat
    BY LenProperties, ConcatProperties
  <1> HIDE DEF c, bytes, m
  <1>3. bytes \in Streams /\ bytes \in Seq(Pieces)
    BY StreamsAssumption DEF bytes
  <1>4. PICK w : IsTrace(w, StreamSteps(bytes), Knowledge, Unknown, Len(bytes))
    BY <1>3, StreamRun
  <1>5. Known(NoUsage, Decode(r)) = w[m]
    <2>1. IsChunk(r, bytes, 0)
      BY <1>1, <1>2 DEF IsChunk, m
    <2>2. QED
      BY <1>3, <1>4, <2>1, ReaderRun DEF m
  <1>6. Known(NoUsage, Decode(r \o c)) = w[m + n]
    <2>1. IsChunk(r \o c, bytes, 0)
      BY <1>1, <1>2 DEF IsChunk
    <2>2. Known(NoUsage, Decode(r \o c)) = w[Len(r \o c)]
      BY <1>3, <1>4, <2>1, ReaderRun
    <2>3. QED
      BY <1>1, <2>2
  <1>7. p \in Text
    BY SeqMonotonic DEF Text, Line
  <1>8. t \in Text
    BY <1>1, <1>7, DecodeType, ConcatProperties DEF Text
  <1>9. Known(v, t) = w[m + n]
    <2>1. IsChunk(c, bytes, m)
      BY <1>1, <1>2 DEF IsChunk
    <2>2. Known(v, p \o Decode(c)) = w[m + Len(c)]
      BY <1>3, <1>4, <1>5, <1>7, <2>1, ChunkRun
    <2>3. QED
      BY <1>1, <2>2
  <1> HIDE DEF t
  <1>10. /\ Known(v, t) = <<Stage(p2), v2, TakeLine(v2, p2)>>
         /\ p2 \in Line /\ v2 \in Found
    <2>1. p2 \in Line /\ Front(SplitLines(t)) \in Seq(Line)
      BY <1>8, KnownType
    <2>2. v2 \in Found
      BY <2>1, TakeAppend
    <2>3. QED
      BY <2>1, <2>2 DEF Known
  <1> HIDE DEF p2, v2
  <1>11. Known(v2, p2) = <<Stage(p2), v2, TakeLine(v2, p2)>>
    <2>1. <<>> \in Seq(Line) /\ <<p2>> = Append(<<>>, p2)
      OBVIOUS
    <2>2. Front(<<p2>>) = <<>> /\ Last(<<p2>>) = p2
      BY <1>10, <2>1, FrontLastAppend
    <2>3. SplitLines(p2) = <<p2>> /\ FoldLeft(TakeLine, v2, <<>>) = v2
      BY <1>10, SplitLine, TakeNone
    <2>4. QED
      BY <2>2, <2>3 DEF Known
  <1>12. Known(v2, p2) = Known(NoUsage, Decode(r \o c))
    BY <1>6, <1>9, <1>10, <1>11
  <1>13. QED
    BY <1>10, <1>12 DEF c, t, p2, v2

LEMMA SseInvInit == Init => SseInv
  <1>1. SUFFICES ASSUME Init PROVE SseInv
    OBVIOUS
  <1>2. /\ received = <<>> /\ unread \in Streams /\ unread \in Seq(Pieces)
        /\ pending_text = <<>> /\ usage = NoUsage
    BY <1>1, StreamsAssumption DEF Init
  <1>3. received \o unread = unread
    BY <1>2, ConcatEmptySeq
  <1>4. QED
    BY <1>2, <1>3, DecodeNone DEF SseInv, Line, Found

LEMMA SseInvNext == SseInv /\ [Next]_sseVars => SseInv'
  <1>1. SUFFICES ASSUME SseInv, [Next]_sseVars PROVE SseInv'
    OBVIOUS
  <1>2. CASE NextStream
    <2>1. /\ received' = <<>> /\ unread' \in Streams /\ unread' \in Seq(Pieces)
          /\ pending_text' = <<>> /\ usage' = NoUsage
      BY <1>2, StreamsAssumption DEF NextStream
    <2>2. received' \o unread' = unread'
      BY <2>1, ConcatEmptySeq
    <2>3. QED
      BY <2>1, <2>2, DecodeNone DEF SseInv, Line, Found
  <1>3. ASSUME NEW n \in 1 .. Len(unread), Receive(n)
        PROVE  SseInv'
    <2>1. PICK r, u, p, v : r = received /\ u = unread /\ p = pending_text /\ v = usage
      OBVIOUS
    <2>2. /\ r \in Seq(Pieces) /\ u \in Seq(Pieces) /\ r \o u \in Streams /\ p \in Line
          /\ v \in Found /\ Known(v, p) = Known(NoUsage, Decode(r)) /\ n \in 1 .. Len(u)
      BY <1>1, <1>3, <2>1 DEF SseInv
    <2> DEFINE c == SubSeq(u, 1, n)
               lines == SplitLines(p \o Decode(c))
               v2 == FoldLeft(TakeLine, v, Front(lines))
    <2>3. /\ pending_text' = Last(lines) /\ usage' = v2
          /\ received' = r \o c /\ unread' = SubSeq(u, n + 1, Len(u))
      BY <1>3, <2>1 DEF Receive, Capture
    <2>4. /\ Last(lines) \in Line /\ v2 \in Found
          /\ Known(v2, Last(lines)) = Known(NoUsage, Decode(r \o c))
      BY <2>2, ChunkTaken
    <2>5. /\ r \o c \in Seq(Pieces) /\ SubSeq(u, n + 1, Len(u)) \in Seq(Pieces)
          /\ (r \o c) \o SubSeq(u, n + 1, Len(u)) = r \o u
      BY <2>2, CutApart
    <2> HIDE DEF lines, v2, c
    <2>6. QED
      BY <2>2, <2>3, <2>4, <2>5 DEF SseInv
  <1>4. CASE UNCHANGED sseVars
    BY <1>1, <1>4 DEF SseInv, sseVars
  <1>5. QED
    BY <1>1, <1>2, <1>3, <1>4 DEF Next

LEMMA SseInvHolds == Spec => []SseInv
  BY SseInvInit, SseInvNext, PTL DEF Spec

-----------------------------------------------------------------------------
\* Type correctness (TypeOK): in particular the pending text never holds a
\* newline, and what is billed is a usage of natural numbers.
THEOREM TypeCorrect == Spec => []TypeOK
  <1>1. SseInv => TypeOK
    <2>1. SUFFICES ASSUME SseInv PROVE TypeOK
      OBVIOUS
    <2>2. pending_text \in Seq(TextPieces \ {"nl"})
      BY <2>1 DEF SseInv, Line
    <2>3. "nl" \notin ToSet(pending_text)
      BY <2>2 DEF ToSet
    <2>4. received \o unread \in Streams /\ usage \in TokenUsage \cup {NoUsage}
      BY <2>1 DEF SseInv, Found
    <2>5. QED
      BY <2>3, <2>4 DEF TypeOK
  <1>2. QED
    BY <1>1, SseInvHolds, PTL

-----------------------------------------------------------------------------
(***************************************************************************)
(* The reader who has the whole text.                                      *)
(***************************************************************************)
LEMMA MaxIs ==
    ASSUME NEW s \in SUBSET Int, NEW x \in s, \A y \in s : y <= x
    PROVE  Max(s) = x
  <1>1. \A y \in s : x >= y
    OBVIOUS
  <1>2. Max(s) \in s /\ \A y \in s : Max(s) >= y
    BY <1>1 DEF Max
  <1>3. Max(s) >= x /\ x >= Max(s) /\ x \in Int /\ Max(s) \in Int
    BY <1>1, <1>2
  <1>4. QED
    BY <1>3

\* The place after the last newline before e, and the places of the newlines
\* that end a line with a usage.
LineStart(text, e) == Max({0} \cup {i \in 1 .. e - 1 : text[i] = "nl"}) + 1

TextEnds(text) ==
    {e \in DOMAIN text :
        text[e] = "nl" /\ CarriesUsage(SubSeq(text, LineStart(text, e), e - 1))}

ReadersUsage(text) ==
    IF TextEnds(text) = {} THEN NoUsage
    ELSE ExtractUsage(RawUsage[text[Max(TextEnds(text)) - 1]])

LEMMA LineStartType ==
    ASSUME NEW text, NEW e \in Nat, e >= 1
    PROVE  LineStart(text, e) \in 1 .. e
  <1> DEFINE R == {i \in 1 .. e - 1 : text[i] = "nl"}
             s == {0} \cup R
  <1>1. e - 1 \in Nat /\ R \in SUBSET (1 .. e - 1)
    OBVIOUS
  <1> HIDE DEF R
  <1>2. \E x \in s : \A y \in s : y <= x
    <2>1. CASE R = {}
      BY <2>1
    <2>2. CASE R # {}
      <3>1. PICK x \in R : \A y \in R : y <= x
        BY <1>1, <2>2, GreatestOf
      <3>2. x \in s /\ \A y \in s : y <= x
        BY <1>1, <3>1
      <3>3. QED
        BY <3>2
    <2>3. QED
      BY <2>1, <2>2
  <1>3. s \in SUBSET Int /\ s \in SUBSET (0 .. e - 1)
    BY <1>1
  <1>4. Max(s) \in 0 .. e - 1
    BY <1>2, <1>3, MaxIs
  <1>5. QED
    BY <1>4 DEF LineStart, R

\* A part of a text.
LEMMA PartOf ==
    ASSUME NEW S, NEW t \in Seq(S), NEW b \in 0 .. Len(t), NEW a \in 1 .. b + 1
    PROVE  /\ SubSeq(t, a, b) \in Seq(S) /\ Len(SubSeq(t, a, b)) = (b - a) + 1
           /\ \A i \in 1 .. (b - a) + 1 : SubSeq(t, a, b)[i] = t[(a + i) - 1]
  <1>1. Len(t) \in Nat /\ a \in Int /\ b \in Int
    OBVIOUS
  <1>2. \A i \in a .. b : t[i] \in S
    <2>1. \A i \in a .. b : i \in 1 .. Len(t)
      BY <1>1
    <2>2. QED
      BY <2>1, ElementOfSeq
  <1>3. /\ SubSeq(t, a, b) \in Seq(S)
        /\ Len(SubSeq(t, a, b)) = IF a <= b THEN b - a + 1 ELSE 0
        /\ \A i \in 1 .. b - a + 1 : SubSeq(t, a, b)[i] = t[a + i - 1]
    BY <1>1, <1>2, SubSeqProperties
  <1>4. (IF a <= b THEN b - a + 1 ELSE 0) = (b - a) + 1
    BY <1>1
  <1>5. QED
    BY <1>3, <1>4

\* A piece more leaves the lines before it as they are.
LEMMA StartAppend ==
    ASSUME NEW text \in Text, NEW piece \in TextPieces, NEW e \in 1 .. Len(text) + 1
    PROVE  LineStart(Append(text, piece), e) = LineStart(text, e)
  <1>1. \A i \in 1 .. e - 1 : Append(text, piece)[i] = text[i]
    BY DEF Text
  <1>2. {i \in 1 .. e - 1 : Append(text, piece)[i] = "nl"}
          = {i \in 1 .. e - 1 : text[i] = "nl"}
    BY <1>1
  <1>3. QED
    BY <1>2 DEF LineStart

LEMMA PartAppend ==
    ASSUME NEW text \in Text, NEW piece \in TextPieces,
           NEW b \in 0 .. Len(text), NEW a \in 1 .. b + 1
    PROVE  SubSeq(Append(text, piece), a, b) = SubSeq(text, a, b)
  <1> DEFINE more == Append(text, piece)
  <1>1. /\ text \in Seq(TextPieces) /\ more \in Seq(TextPieces)
        /\ Len(more) = Len(text) + 1 /\ Len(text) \in Nat
        /\ \A i \in 1 .. Len(text) : more[i] = text[i]
    BY DEF Text
  <1> HIDE DEF more
  <1>2. b \in 0 .. Len(more)
    BY <1>1
  <1>3. /\ SubSeq(text, a, b) \in Seq(TextPieces) /\ Len(SubSeq(text, a, b)) = (b - a) + 1
        /\ \A i \in 1 .. (b - a) + 1 : SubSeq(text, a, b)[i] = text[(a + i) - 1]
    BY <1>1, PartOf
  <1>4. /\ SubSeq(more, a, b) \in Seq(TextPieces) /\ Len(SubSeq(more, a, b)) = (b - a) + 1
        /\ \A i \in 1 .. (b - a) + 1 : SubSeq(more, a, b)[i] = more[(a + i) - 1]
    BY <1>1, <1>2, PartOf
  <1>5. \A i \in 1 .. (b - a) + 1 : (a + i) - 1 \in 1 .. Len(text)
    BY <1>1
  <1>6. \A i \in 1 .. (b - a) + 1 : SubSeq(more, a, b)[i] = SubSeq(text, a, b)[i]
    BY <1>1, <1>3, <1>4, <1>5
  <1>7. SubSeq(more, a, b) = SubSeq(text, a, b)
    BY <1>3, <1>4, <1>6, SeqEqual
  <1>8. QED
    BY <1>7 DEF more

\* The last line of a text, as SplitLines gives it, is what stands after the
\* last newline.
TextTail(text) == SubSeq(text, LineStart(text, Len(text) + 1), Len(text))

LEMMA TailAppend ==
    ASSUME NEW text \in Text, NEW piece \in TextPieces
    PROVE  TextTail(Append(text, piece))
             = IF piece = "nl" THEN <<>> ELSE Append(TextTail(text), piece)
  <1> DEFINE more == Append(text, piece)
             n == Len(text)
  <1>1. /\ text \in Seq(TextPieces) /\ more \in Seq(TextPieces) /\ more \in Text
        /\ Len(more) = n + 1 /\ n \in Nat /\ more[n + 1] = piece
        /\ \A i \in 1 .. n : more[i] = text[i]
    BY DEF Text
  <1> HIDE DEF more
  <1>2. (n + 1) + 1 - 1 = n + 1 /\ n + 1 \in 1 .. n + 1
    BY <1>1
  <1>3. CASE piece = "nl"
    <2> DEFINE s == {0} \cup {i \in 1 .. (n + 1) + 1 - 1 : more[i] = "nl"}
    <2>1. s \in SUBSET Int /\ n + 1 \in s /\ \A y \in s : y <= n + 1
      BY <1>1, <1>2, <1>3
    <2>2. Max(s) = n + 1
      <3> HIDE DEF s
      <3>1. QED
        BY <1>1, <2>1, MaxIs
    <2>3. LineStart(more, (n + 1) + 1) = (n + 1) + 1
      BY <2>2 DEF LineStart
    <2>4. SubSeq(more, (n + 1) + 1, n + 1) = <<>>
      <3>1. (n + 1) + 1 \in Int /\ n + 1 \in Int /\ n + 1 < (n + 1) + 1
        BY <1>1
      <3>2. QED
        BY <3>1, SubSeqEmpty
    <2>5. QED
      BY <1>1, <1>3, <2>3, <2>4 DEF TextTail, more
  <1>4. CASE piece # "nl"
    <2> DEFINE a == LineStart(text, n + 1)
    <2>1. a \in 1 .. n + 1
      BY <1>1, LineStartType
    <2>2. LineStart(more, (n + 1) + 1) = a
      <3>1. {i \in 1 .. (n + 1) + 1 - 1 : more[i] = "nl"}
              = {i \in 1 .. n + 1 - 1 : more[i] = "nl"}
        <4>1. \A i \in 1 .. (n + 1) + 1 - 1 : i = n + 1 \/ i \in 1 .. n + 1 - 1
          BY <1>1
        <4>2. \A i \in 1 .. n + 1 - 1 : i \in 1 .. (n + 1) + 1 - 1
          BY <1>1
        <4>3. more[n + 1] # "nl"
          BY <1>1, <1>4
        <4> HIDE DEF n
        <4>4. QED
          BY <4>1, <4>2, <4>3
      <3> DEFINE upTo(k) == {i \in 1 .. k : more[i] = "nl"}
      <3>2. LineStart(more, (n + 1) + 1) = LineStart(more, n + 1)
        <4>1. LineStart(more, (n + 1) + 1) = Max({0} \cup upTo((n + 1) + 1 - 1)) + 1
          BY DEF LineStart
        <4>2. LineStart(more, n + 1) = Max({0} \cup upTo(n + 1 - 1)) + 1
          BY DEF LineStart
        <4>3. upTo((n + 1) + 1 - 1) = upTo(n + 1 - 1)
          BY <3>1
        <4> HIDE DEF upTo, n
        <4>4. QED
          BY <4>1, <4>2, <4>3
      <3>3. LineStart(more, n + 1) = LineStart(text, n + 1)
        BY <1>2, StartAppend DEF more
      <3>4. QED
        BY <3>2, <3>3
    <2> HIDE DEF a
    <2> DEFINE part == SubSeq(text, a, n)
               longer == SubSeq(more, a, n + 1)
    <2>3. /\ part \in Seq(TextPieces) /\ Len(part) = (n - a) + 1
          /\ \A i \in 1 .. (n - a) + 1 : part[i] = text[(a + i) - 1]
      <3>1. n \in 0 .. Len(text)
        BY <1>1
      <3>2. QED
        BY <1>1, <2>1, <3>1, PartOf
    <2>4. /\ longer \in Seq(TextPieces) /\ Len(longer) = ((n + 1) - a) + 1
          /\ \A i \in 1 .. ((n + 1) - a) + 1 : longer[i] = more[(a + i) - 1]
      <3>1. n + 1 \in 0 .. Len(more) /\ a \in 1 .. (n + 1) + 1
        BY <1>1, <2>1
      <3>2. QED
        BY <1>1, <3>1, PartOf
    <2> HIDE DEF part, longer
    <2>5. longer = Append(part, piece)
      <3> DEFINE l == (n - a) + 1
      <3>1. l \in Nat /\ ((n + 1) - a) + 1 = l + 1 /\ (a + (l + 1)) - 1 = n + 1
        BY <1>1, <2>1
      <3>2. \A i \in 1 .. l : (a + i) - 1 \in 1 .. n /\ i \in 1 .. l + 1
        BY <1>1, <2>1
      <3>3. l + 1 \in 1 .. l + 1
        BY <3>1
      <3> HIDE DEF l
      <3>4. Len(part) = l /\ Len(longer) = l + 1
        BY <2>3, <2>4, <3>1 DEF l
      <3>5. \A i \in 1 .. l : longer[i] = part[i]
        <4>1. \A i \in 1 .. l : longer[i] = more[(a + i) - 1]
          BY <2>4, <3>1, <3>2
        <4>2. \A i \in 1 .. l : part[i] = text[(a + i) - 1]
          BY <2>3 DEF l
        <4>3. \A i \in 1 .. l : more[(a + i) - 1] = text[(a + i) - 1]
          BY <1>1, <3>2
        <4>4. QED
          BY <4>1, <4>2, <4>3
      <3>6. longer[l + 1] = piece
        BY <1>1, <2>4, <3>1, <3>3
      <3>7. /\ Append(part, piece) \in Seq(TextPieces) /\ Len(Append(part, piece)) = l + 1
            /\ \A i \in 1 .. l : Append(part, piece)[i] = part[i]
            /\ Append(part, piece)[l + 1] = piece
        BY <2>3, <3>4, AppendProperties
      <3>8. \A i \in 1 .. l + 1 : longer[i] = Append(part, piece)[i]
        <4>1. \A i \in 1 .. l + 1 : i = l + 1 \/ i \in 1 .. l
          BY <3>1
        <4>2. QED
          BY <3>5, <3>6, <3>7, <4>1
      <3>9. QED
        BY <2>4, <3>4, <3>7, <3>8, SeqEqual
    <2>6. TextTail(more) = longer /\ TextTail(text) = part
      BY <1>1, <2>2 DEF TextTail, longer, part, a
    <2>7. QED
      BY <1>4, <2>5, <2>6 DEF more
  <1>5. QED
    BY <1>3, <1>4

LEMMA LastLine ==
    ASSUME NEW text \in Text
    PROVE  Last(SplitLines(text)) = TextTail(text)
  <1> DEFINE T == {k \in Nat : \A t \in Text : Len(t) = k => Last(SplitLines(t)) = TextTail(t)}
  <1>1. 0 \in T
    <2>1. \A t \in Text : Len(t) = 0 => t = <<>>
      BY EmptySeq DEF Text
    <2>2. Last(SplitLines(<<>>)) = <<>>
      <3>1. <<>> \in Seq(Line) /\ <<>> \in Line /\ << <<>> >> = Append(<<>>, <<>>)
        BY DEF Line
      <3>2. QED
        BY <3>1, FrontLastAppend, SplitNone
    <2>3. TextTail(<<>>) = <<>>
      <3>1. Len(<<>>) = 0 /\ LineStart(<<>>, 1) \in 1 .. 1
        BY LineStartType
      <3>2. LineStart(<<>>, 0 + 1) \in Int /\ 0 < LineStart(<<>>, 0 + 1)
        BY <3>1
      <3>3. QED
        BY <3>1, <3>2, SubSeqEmpty DEF TextTail
    <2>4. QED
      BY <2>1, <2>2, <2>3
  <1>2. ASSUME NEW k \in T PROVE k + 1 \in T
    <2>1. SUFFICES ASSUME NEW t \in Text, Len(t) = k + 1
                   PROVE  Last(SplitLines(t)) = TextTail(t)
      BY <1>2
    <2>2. k \in Nat /\ t # <<>>
      BY <2>1
    <2>3. PICK s \in Text, x \in TextPieces : t = Append(s, x)
      BY <2>2, SequenceEmptyOrAppend DEF Text
    <2>4. Len(s) = k
      <3>1. Len(t) = Len(s) + 1 /\ Len(s) \in Nat
        BY <2>3 DEF Text
      <3>2. QED
        BY <2>1, <2>2, <3>1
    <2>5. Last(SplitLines(s)) = TextTail(s)
      BY <2>4
    <2>6. SplitLines(s) \in Lines /\ SplitLines(t) = AddPiece(SplitLines(s), x)
      BY <2>3, SplitAppend DEF Text
    <2>7. Last(SplitLines(t)) = IF x = "nl" THEN <<>> ELSE Append(Last(SplitLines(s)), x)
      <3> DEFINE lines == SplitLines(s)
      <3> HIDE DEF lines
      <3>1. lines \in Seq(Line) /\ Front(lines) \in Seq(Line) /\ Last(lines) \in Line
        BY <2>6, FrontLast DEF Lines, lines
      <3>2. <<>> \in Line /\ (x # "nl" => Append(Last(lines), x) \in Line)
        BY <3>1 DEF Line
      <3>3. QED
        BY <2>6, <3>1, <3>2, FrontLastAppend DEF AddPiece, lines
    <2>8. QED
      BY <2>3, <2>5, <2>7, TailAppend
  <1>3. T = Nat
    <2>1. T \in SUBSET Nat
      OBVIOUS
    <2> HIDE DEF T
    <2>2. QED
      BY <1>1, <1>2, <2>1, NatSetInduction
  <1>4. Len(text) \in Nat
    BY DEF Text
  <1>5. QED
    BY <1>3, <1>4

\* A newline adds a line with a usage when the last line was one, and nothing
\* else adds any.
LEMMA EndsAppend ==
    ASSUME NEW text \in Text, NEW piece \in TextPieces
    PROVE  TextEnds(Append(text, piece))
             = TextEnds(text) \cup
               (IF piece = "nl" /\ CarriesUsage(TextTail(text)) THEN {Len(text) + 1} ELSE {})
  <1> DEFINE more == Append(text, piece)
             n == Len(text)
  <1>1. /\ more \in Text /\ Len(more) = n + 1 /\ n \in Nat /\ more[n + 1] = piece
        /\ \A i \in 1 .. n : more[i] = text[i]
        /\ DOMAIN more = 1 .. n + 1 /\ DOMAIN text = 1 .. n
    BY DEF Text
  <1>2. ASSUME NEW e \in 1 .. n + 1
        PROVE  SubSeq(more, LineStart(more, e), e - 1) = SubSeq(text, LineStart(text, e), e - 1)
    <2>1. LineStart(more, e) = LineStart(text, e)
      BY StartAppend
    <2>2. LineStart(text, e) \in 1 .. (e - 1) + 1 /\ e - 1 \in 0 .. Len(text)
      <3>1. LineStart(text, e) \in 1 .. e
        BY <1>1, LineStartType
      <3>2. QED
        BY <1>1, <3>1
    <2>3. QED
      BY <2>1, <2>2, PartAppend
  <1> HIDE DEF more
  <1>3. ASSUME NEW e \in 1 .. n PROVE e \in TextEnds(more) <=> e \in TextEnds(text)
    <2>1. e \in 1 .. n + 1
      BY <1>1
    <2>2. QED
      BY <1>1, <1>2, <2>1 DEF TextEnds
  <1>4. n + 1 \in TextEnds(more) <=> piece = "nl" /\ CarriesUsage(TextTail(text))
    <2>1. n + 1 \in 1 .. n + 1 /\ (n + 1) - 1 = n
      BY <1>1
    <2>2. SubSeq(more, LineStart(more, n + 1), (n + 1) - 1)
            = SubSeq(text, LineStart(text, n + 1), (n + 1) - 1)
      BY <1>2, <2>1
    <2>3. SubSeq(more, LineStart(more, n + 1), (n + 1) - 1) = TextTail(text)
      BY <2>1, <2>2 DEF TextTail
    <2>4. QED
      BY <1>1, <2>1, <2>3 DEF TextEnds
  <1>5. /\ \A e \in TextEnds(more) : e \in 1 .. n \/ e = n + 1
        /\ \A e \in TextEnds(text) : e \in 1 .. n
    BY <1>1 DEF TextEnds
  <1> HIDE DEF n
  <1>6. ASSUME NEW e
        PROVE  e \in TextEnds(more)
                 <=> \/ e \in TextEnds(text)
                     \/ e = n + 1 /\ piece = "nl" /\ CarriesUsage(TextTail(text))
    BY <1>3, <1>4, <1>5
  <1>7. TextEnds(more)
          = TextEnds(text) \cup
            (IF piece = "nl" /\ CarriesUsage(TextTail(text)) THEN {n + 1} ELSE {})
    BY <1>6
  <1>8. QED
    BY <1>7 DEF more, n

\* The last of them is a place in the text with a line before it.
LEMMA LastEnd ==
    ASSUME NEW text \in Text, TextEnds(text) # {}
    PROVE  Max(TextEnds(text)) \in 2 .. Len(text)
  <1> DEFINE n == Len(text)
             R == TextEnds(text)
  <1>1. n \in Nat /\ R \in SUBSET (1 .. n)
    BY DEF TextEnds, Text
  <1>2. Max(R) \in R
    BY <1>1, LastPlace
  <1> DEFINE e == Max(R)
  <1>3. e \in 1 .. n /\ CarriesUsage(SubSeq(text, LineStart(text, e), e - 1))
    BY <1>1, <1>2 DEF TextEnds
  <1> HIDE DEF e
  <1>4. e # 1
    <2>1. SUFFICES ASSUME e = 1 PROVE FALSE
      OBVIOUS
    <2>2. LineStart(text, 1) \in 1 .. 1 /\ e - 1 = 0
      BY <2>1, LineStartType
    <2>3. SubSeq(text, LineStart(text, e), e - 1) = <<>>
      BY <2>1, <2>2, SubSeqEmpty
    <2>4. ~CarriesUsage(<<>>)
      BY DEF CarriesUsage
    <2>5. CarriesUsage(SubSeq(text, LineStart(text, e), e - 1))
      BY <1>3
    <2>6. QED
      BY <2>3, <2>4, <2>5
  <1>5. e \in 2 .. n
    BY <1>1, <1>3, <1>4
  <1>6. QED
    BY <1>5 DEF e

\* The loop over the lines finds the usage a reader finds who looks for the
\* last line that carries one.
LEMMA LoopFindsUsage ==
    ASSUME NEW text \in Text
    PROVE  Known(NoUsage, text)[2] = ReadersUsage(text)
  <1> DEFINE T == {k \in Nat : \A t \in Text :
                       Len(t) = k => Known(NoUsage, t)[2] = ReadersUsage(t)}
  <1>0. NoUsage \in Found
    BY DEF Found
  <1>1. 0 \in T
    <2>1. \A t \in Text : Len(t) = 0 => t = <<>>
      BY EmptySeq DEF Text
    <2>2. Known(NoUsage, <<>>)[2] = NoUsage
      BY <1>0, KnownNone
    <2>3. TextEnds(<<>>) = {}
      BY DEF TextEnds
    <2>4. QED
      BY <2>1, <2>2, <2>3 DEF ReadersUsage
  <1>2. ASSUME NEW k \in T PROVE k + 1 \in T
    <2>1. SUFFICES ASSUME NEW t \in Text, Len(t) = k + 1
                   PROVE  Known(NoUsage, t)[2] = ReadersUsage(t)
      BY <1>2
    <2>2. k \in Nat /\ t # <<>>
      BY <2>1
    <2>3. PICK s \in Text, x \in TextPieces : t = Append(s, x)
      BY <2>2, SequenceEmptyOrAppend DEF Text
    <2>4. Len(s) = k /\ \A i \in 1 .. k : t[i] = s[i]
      <3>1. Len(t) = Len(s) + 1 /\ Len(s) \in Nat /\ \A i \in 1 .. Len(s) : t[i] = s[i]
        BY <2>3 DEF Text
      <3>2. QED
        BY <2>1, <2>2, <3>1
    <2>5. Known(NoUsage, s)[2] = ReadersUsage(s)
      BY <2>4
    <2>6. Known(NoUsage, t) = KnownAfter(Known(NoUsage, s), x)
      BY <1>0, <2>3, KnownAppend
    <2>7. Known(NoUsage, s)[3] = TakeLine(Known(NoUsage, s)[2], TextTail(s))
      BY LastLine DEF Known
    <2>8. CASE x = "nl" /\ CarriesUsage(TextTail(s))
      <3>1. Known(NoUsage, t)[2] = ExtractUsage(RawUsage[Last(TextTail(s))])
        BY <2>6, <2>7, <2>8 DEF KnownAfter, TakeLine
      <3>2. TextEnds(t) = TextEnds(s) \cup {k + 1}
        BY <2>3, <2>4, <2>8, EndsAppend
      <3>3. Max(TextEnds(t)) = k + 1
        <4>1. TextEnds(s) \in SUBSET (1 .. k)
          BY <2>4 DEF TextEnds, Text
        <4> DEFINE R == TextEnds(t)
        <4>2. R \in SUBSET Int /\ k + 1 \in R /\ \A y \in R : y <= k + 1
          BY <2>2, <3>2, <4>1
        <4> HIDE DEF R
        <4>3. Max(R) = k + 1
          BY <4>2, MaxIs
        <4>4. QED
          BY <4>3 DEF R
      <3>4. Last(TextTail(s)) = t[k]
        <4> DEFINE a == LineStart(s, k + 1)
                   part == SubSeq(s, a, k)
        <4>1. a \in 1 .. k + 1
          BY <2>2, LineStartType
        <4>2. s \in Seq(TextPieces) /\ k \in 0 .. Len(s)
          BY <2>2, <2>4 DEF Text
        <4> HIDE DEF a
        <4>3. /\ Len(part) = (k - a) + 1
              /\ \A i \in 1 .. (k - a) + 1 : part[i] = s[(a + i) - 1]
          BY <4>1, <4>2, PartOf
        <4>4. TextTail(s) = part
          BY <2>4 DEF TextTail, a
        <4> HIDE DEF part
        <4>5. Len(part) > 2
          BY <2>8, <4>4 DEF CarriesUsage
        <4>6. (k - a) + 1 \in 1 .. (k - a) + 1 /\ (a + ((k - a) + 1)) - 1 = k /\ k \in 1 .. k
          BY <2>2, <4>1, <4>3, <4>5
        <4>7. part[Len(part)] = s[k]
          BY <4>3, <4>6
        <4>8. QED
          BY <2>4, <4>4, <4>6, <4>7 DEF Last
      <3>5. TextEnds(t) # {} /\ (k + 1) - 1 = k
        BY <2>2, <3>2
      <3>6. QED
        BY <3>1, <3>3, <3>4, <3>5 DEF ReadersUsage
    <2>9. CASE ~(x = "nl" /\ CarriesUsage(TextTail(s)))
      <3>1. Known(NoUsage, t)[2] = Known(NoUsage, s)[2]
        BY <2>6, <2>7, <2>9 DEF KnownAfter, TakeLine
      <3>2. TextEnds(t) = TextEnds(s)
        BY <2>3, <2>9, EndsAppend
      <3>3. CASE TextEnds(s) = {}
        BY <2>5, <3>1, <3>2, <3>3 DEF ReadersUsage
      <3>4. CASE TextEnds(s) # {}
        <4> DEFINE e == Max(TextEnds(s))
        <4>1. e \in 2 .. k
          BY <2>4, <3>4, LastEnd
        <4> HIDE DEF e
        <4>2. e - 1 \in 1 .. k
          BY <2>2, <4>1
        <4>3. t[e - 1] = s[e - 1]
          BY <2>4, <4>2
        <4>4. QED
          BY <2>5, <3>1, <3>2, <3>4, <4>3 DEF ReadersUsage, e
      <3>5. QED
        BY <3>3, <3>4
    <2>10. QED
      BY <2>8, <2>9
  <1>3. T = Nat
    <2>1. T \in SUBSET Nat
      OBVIOUS
    <2> HIDE DEF T
    <2>2. QED
      BY <1>1, <1>2, <2>1, NatSetInduction
  <1>4. Len(text) \in Nat
    BY DEF Text
  <1>5. QED
    BY <1>3, <1>4

\* Chunking is irrelevant (ChunkingIrrelevant): wherever the stream was cut,
\* the usage found is the one a reader finds in the bytes received who has all
\* of them at once.  The pending text has no complete line, so what is known
\* of it is known of the usage alone.
THEOREM ChunksDoNotMatter == Spec => []ChunkingIrrelevant
  <1>1. SseInv => ChunkingIrrelevant
    <2>1. SUFFICES ASSUME SseInv PROVE ChunkingIrrelevant
      OBVIOUS
    <2>2. PICK r, p, v : r = received /\ p = pending_text /\ v = usage
      OBVIOUS
    <2>3. /\ r \in Seq(Pieces) /\ p \in Line /\ v \in Found
          /\ Known(v, p) = Known(NoUsage, Decode(r))
      BY <2>1, <2>2 DEF SseInv
    <2>4. Known(v, p)[2] = v
      <3>1. <<>> \in Seq(Line) /\ <<p>> = Append(<<>>, p)
        OBVIOUS
      <3>2. Front(<<p>>) = <<>> /\ Last(<<p>>) = p
        BY <2>3, <3>1, FrontLastAppend
      <3>3. SplitLines(p) = <<p>> /\ FoldLeft(TakeLine, v, <<>>) = v
        BY <2>3, SplitLine, TakeNone
      <3>4. QED
        BY <3>2, <3>3 DEF Known
    <2>5. Decode(r) \in Text
      BY <2>3, DecodeType
    <2>6. v = ReadersUsage(Decode(r))
      BY <2>3, <2>4, <2>5, LoopFindsUsage
    <2>7. TextEnds(Decode(r)) = UsageEnds(r)
      BY DEF TextEnds, UsageEnds, LineStart
    <2>8. QED
      BY <2>2, <2>6, <2>7 DEF ReadersUsage, ChunkingIrrelevant
  <1>2. QED
    BY <1>1, SseInvHolds, PTL

\* The place before the end of a line with a usage holds it.
LEMMA EndHoldsUsage ==
    ASSUME NEW text \in Text, NEW e \in TextEnds(text)
    PROVE  text[e - 1] \in UsageAtoms
  <1> DEFINE a == LineStart(text, e)
             b == e - 1
             part == SubSeq(text, a, b)
  <1>1. text \in Seq(TextPieces) /\ e \in 1 .. Len(text) /\ Len(text) \in Nat
        /\ CarriesUsage(part)
    BY DEF TextEnds, Text
  <1>2. b \in 0 .. Len(text) /\ a \in 1 .. b + 1
    <2>1. a \in 1 .. e
      BY <1>1, LineStartType
    <2>2. QED
      BY <1>1, <2>1
  <1> HIDE DEF a, b
  <1>3. /\ Len(part) = (b - a) + 1
        /\ \A i \in 1 .. (b - a) + 1 : part[i] = text[(a + i) - 1]
    BY <1>1, <1>2, PartOf
  <1> HIDE DEF part
  <1>4. Len(part) > 2 /\ part[Len(part)] \in UsageAtoms
    BY <1>1 DEF CarriesUsage, Last
  <1>5. (b - a) + 1 \in 1 .. (b - a) + 1 /\ (a + ((b - a) + 1)) - 1 = b
    BY <1>2, <1>3, <1>4
  <1>6. part[Len(part)] = text[b]
    BY <1>3, <1>5
  <1>7. QED
    BY <1>4, <1>6 DEF b

\* A stream whose last usage counts anything is billed zero only because that
\* usage stands in a last line without its newline (ZeroBillsExplained).  If
\* it does not, it is the one _capture_stream_usage took, ChunkingIrrelevant
\* says, and _extract_usage makes up for a missing total.
THEOREM ZeroBillsAreExplained == Spec => []ZeroBillsExplained
  <1>1. SseInv /\ ChunkingIrrelevant => ZeroBillsExplained
    <2> DEFINE text == Decode(received)
               ends == UsageEnds(received)
               all == AllUsageEnds(received)
               n == Len(text)
    <2>1. SUFFICES ASSUME SseInv, ChunkingIrrelevant, all # {},
                          Counted(RawUsage[text[Max(all) - 1]]), Billed = 0
                   PROVE  Max(all) = n + 1
      BY DEF ZeroBillsExplained
    <2>2. text \in Text /\ n \in Nat
      BY <2>1, DecodeType DEF SseInv, Text
    <2>3. ends = TextEnds(text) /\ ends \in SUBSET (1 .. n)
      BY <2>2 DEF TextEnds, UsageEnds, LineStart, Text
    <2>4. all = ends \/ all = ends \cup {n + 1}
      BY DEF AllUsageEnds
    <2>5. usage = IF ends = {} THEN NoUsage ELSE ExtractUsage(RawUsage[text[Max(ends) - 1]])
      BY <2>1 DEF ChunkingIrrelevant
    <2>6. \A a \in UsageAtoms : usage = ExtractUsage(RawUsage[a]) => ~Counted(RawUsage[a])
      BY <2>1, ExtractType, NoUsageAssumption DEF Billed
    <2>7. ends # {} => Max(ends) \in ends
      BY <2>2, <2>3, LastPlace
    <2>8. ends # {} => text[Max(ends) - 1] \in UsageAtoms
      BY <2>2, <2>3, <2>7, EndHoldsUsage
    <2> HIDE DEF text, ends, all
    <2>9. CASE all = ends
      BY <2>1, <2>5, <2>6, <2>8, <2>9
    <2>10. CASE all = ends \cup {n + 1}
      <3>1. all \in SUBSET Int /\ n + 1 \in all /\ \A y \in all : y <= n + 1
        BY <2>2, <2>3, <2>10
      <3>2. QED
        BY <3>1, MaxIs
    <2>11. QED
      BY <2>4, <2>9, <2>10
  <1>2. QED
    BY <1>1, SseInvHolds, ChunksDoNotMatter, PTL
=============================================================================

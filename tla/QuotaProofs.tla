---------------------------- MODULE QuotaProofs ----------------------------
(***************************************************************************)
(* Theorems about Quota, for every value of its constants.                 *)
(*                                                                         *)
(* Neither of the limits is inductive by itself: a finalisation that       *)
(* turned a failed row into a successful one would make it count again.    *)
(* They need HeldReserved, which says that only reserved rows are ever     *)
(* finalised, and the limits on tokens need ReservedAtEstimate too: until  *)
(* then a row counts for the estimate it was admitted with.                *)
(***************************************************************************)
EXTENDS Quota, FiniteSetTheorems, SequenceTheorems, WellFoundedInduction, TLAPS

-----------------------------------------------------------------------------
(***************************************************************************)
(* Sums over finite sets, as the queries of the ledger take them           *)
(* (COALESCE(SUM(total_tokens), 0)), are SumFunctionOnSet of Functions.    *)
(* The lemmas here say what such a sum is, whatever the order in which its *)
(* recursion picks the elements.                                           *)
(*                                                                         *)
(* Induction is stated over sets of numbers, which keeps it first-order.   *)
(***************************************************************************)
\* A set of naturals that is not empty has a least element.
LEMMA LeastNat ==
    ASSUME NEW T \in SUBSET Nat, T # {}
    PROVE  \E n \in T : \A m \in T : n <= m
  <1> DEFINE R == {ss \in Nat \X Nat : ss[1] < ss[2]}
  <1>1. IsWellFoundedOn(R, Nat)
    BY NatLessThanWellFounded DEF OpToRel
  <1>2. \A m, n \in Nat : m < n => <<m, n>> \in R
    OBVIOUS
  <1> HIDE DEF R
  <1>3. PICK n \in T : \A m \in T : ~(<<m, n>> \in R)
    BY <1>1, WFMin
  <1>4. ASSUME NEW m \in T PROVE n <= m
    <2>1. m \in Nat /\ n \in Nat /\ ~(m < n)
      BY <1>2, <1>3
    <2>2. QED
      BY <2>1
  <1>5. QED
    BY <1>4

\* Induction: what holds of 0 and passes from each number to the next holds of
\* all.
LEMMA NatSetInduction ==
    ASSUME NEW T \in SUBSET Nat, 0 \in T, \A n \in T : n + 1 \in T
    PROVE  T = Nat
  <1>1. SUFFICES ASSUME Nat \ T # {} PROVE FALSE
    OBVIOUS
  <1>2. PICK n \in Nat \ T : \A m \in Nat \ T : n <= m
    BY <1>1, LeastNat
  <1>3. n - 1 \in Nat /\ ~(n - 1 \in Nat \ T)
    BY <1>2
  <1>4. QED
    BY <1>2, <1>3

\* A set of numbers up to some bound that is not empty has a greatest element.
LEMMA GreatestOf ==
    ASSUME NEW last \in Nat, NEW R \in SUBSET (1 .. last), R # {}
    PROVE  \E x \in R : \A y \in R : y <= x
  <1> DEFINE back == {last - y : y \in R}
  <1>1. back \in SUBSET Nat /\ back # {}
    <2>1. \A y \in R : last - y \in Nat
      OBVIOUS
    <2>2. PICK y \in R : TRUE
      OBVIOUS
    <2>3. last - y \in back
      BY <2>2
    <2>4. QED
      BY <2>1, <2>3
  <1>2. PICK b \in back : \A c \in back : b <= c
    BY <1>1, LeastNat
  <1>3. PICK x \in R : b = last - x
    BY <1>2
  <1>4. \A y \in R : last - x <= last - y
    BY <1>2, <1>3
  <1>5. QED
    BY <1>4

\* The equation that defines the recursion inside the sum.
Sums(h, f, S) ==
    h = [s \in SUBSET S |->
            IF s = {} THEN 0
            ELSE LET x == CHOOSE x \in s : TRUE IN f[x] + h[s \ {x}]]

TheSums(f, S) == CHOOSE h : Sums(h, f, S)

\* The sum unfolds to that recursion.
LEMMA SumUnfolds ==
    ASSUME NEW f, NEW S
    PROVE  SumFunctionOnSet(f, S) = TheSums(f, S)[S]
  BY DEF SumFunctionOnSet, FoldFunctionOnSet, MapThenFoldSet, TheSums, Sums

\* Taking one element out of a finite set.
LEMMA OneLess ==
    ASSUME NEW S, IsFiniteSet(S), NEW T \in SUBSET S, NEW x \in T
    PROVE  /\ IsFiniteSet(T) /\ Cardinality(T) \in Nat
           /\ T \ {x} \in SUBSET S
           /\ Cardinality(T \ {x}) = Cardinality(T) - 1
           /\ Cardinality(T \ {x}) \in Nat
  <1>1. IsFiniteSet(T) /\ Cardinality(T) \in Nat
    BY FS_Subset, FS_CardinalityType
  <1>2. IsFiniteSet(T \ {x}) /\ Cardinality(T \ {x}) = Cardinality(T) - 1
    BY <1>1, FS_RemoveElement
  <1>3. QED
    BY <1>1, <1>2, FS_CardinalityType

\* The equation has a solution, built up by the size of the subsets.
LEMMA SumsExist ==
    ASSUME NEW f, NEW S, IsFiniteSet(S)
    PROVE  Sums(TheSums(f, S), f, S)
  <1> DEFINE c(s) == CHOOSE x \in s : TRUE
             upTo(n) == {s \in SUBSET S : Cardinality(s) <= n}
             step(h, s) == IF s = {} THEN 0 ELSE f[c(s)] + h[s \ {c(s)}]
             solves(h, n) == h = [s \in upTo(n) |-> step(h, s)]
             T == {n \in Nat : \E h : solves(h, n)}
  <1>0. \A s \in SUBSET S : IsFiniteSet(s) /\ Cardinality(s) \in Nat
    BY FS_Subset, FS_CardinalityType
  <1>1. ASSUME NEW n \in Nat, NEW s \in upTo(n + 1), s # {}
        PROVE  s \ {c(s)} \in upTo(n)
    <2>1. c(s) \in s /\ s \in SUBSET S
      BY <1>1
    <2> HIDE DEF c
    <2>2. QED
      BY <1>1, <2>1, OneLess
  <1>2. 0 \in T
    <2> DEFINE h == [s \in {{}} |-> 0]
    <2>1. upTo(0) = {{}}
      BY <1>0, FS_EmptySet
    <2>2. h = [s \in {{}} |-> step(h, s)]
      OBVIOUS
    <2>3. QED
      BY <2>1, <2>2
  <1>3. ASSUME NEW n \in T PROVE n + 1 \in T
    <2>1. PICK h : solves(h, n)
      OBVIOUS
    <2> DEFINE g == [s \in upTo(n + 1) |-> step(h, s)]
    <2>2. \A s \in upTo(n) : s \in upTo(n + 1)
      BY <1>0
    <2>3. \A s \in upTo(n) : h[s] = step(h, s)
      BY <2>1
    <2>4. \A s \in upTo(n) : g[s] = h[s]
      BY <2>2, <2>3
    <2>5. \A s \in upTo(n + 1) : step(g, s) = step(h, s)
      <3> HIDE DEF g, upTo, c
      <3>1. QED
        BY <1>1, <2>4
    <2>6. solves(g, n + 1)
      <3> HIDE DEF upTo, step
      <3>1. g = [s \in upTo(n + 1) |-> step(h, s)]
        OBVIOUS
      <3> HIDE DEF g
      <3>2. QED
        BY <2>5, <3>1
    <2> HIDE DEF solves
    <2>7. QED
      BY <2>6
  <1>4. T = Nat
    <2> HIDE DEF T
    <2>1. T \in SUBSET Nat
      BY DEF T
    <2>2. QED
      BY <1>2, <1>3, <2>1, NatSetInduction
  <1>5. Cardinality(S) \in Nat
    BY <1>0
  <1>6. PICK h : solves(h, Cardinality(S))
    BY <1>4, <1>5
  <1>7. upTo(Cardinality(S)) = SUBSET S
    BY <1>0, FS_Subset
  <1>8. Sums(h, f, S)
    BY <1>6, <1>7 DEF Sums
  <1>9. QED
    BY <1>8 DEF TheSums

\* What the recursion does on a subset.
LEMMA SumsStep ==
    ASSUME NEW f, NEW S, IsFiniteSet(S), NEW T \in SUBSET S
    PROVE  /\ T = {} => TheSums(f, S)[T] = 0
           /\ T # {} => \E x \in T :
                  /\ x = CHOOSE y \in T : TRUE
                  /\ TheSums(f, S)[T] = f[x] + TheSums(f, S)[T \ {x}]
  <1> DEFINE h == TheSums(f, S)
  <1>1. h = [s \in SUBSET S |->
            IF s = {} THEN 0
            ELSE LET x == CHOOSE x \in s : TRUE IN f[x] + h[s \ {x}]]
    <2>1. Sums(h, f, S)
      BY SumsExist
    <2> HIDE DEF h
    <2>2. QED
      BY <2>1 DEF Sums
  <1> HIDE DEF h
  <1>2. h[T] = IF T = {} THEN 0
               ELSE LET x == CHOOSE x \in T : TRUE IN f[x] + h[T \ {x}]
    BY <1>1
  <1>3. T # {} => (CHOOSE x \in T : TRUE) \in T
    OBVIOUS
  <1>4. QED
    BY <1>2, <1>3 DEF h

\* Induction over the subsets of a finite set: what passes to a set from the
\* sets with one element less holds of every subset.
LEMMA SubsetInduction ==
    ASSUME NEW S, IsFiniteSet(S), NEW F,
           \A T \in SUBSET S : (\A x \in T : T \ {x} \in F) => T \in F
    PROVE  \A T \in SUBSET S : T \in F
  <1> DEFINE N == {n \in Nat : \A T \in SUBSET S : Cardinality(T) = n => T \in F}
  <1>1. ASSUME NEW n \in Nat, n = 0 \/ n - 1 \in N,
               NEW T \in SUBSET S, Cardinality(T) = n
        PROVE  T \in F
    <2>1. ASSUME NEW x \in T PROVE T \ {x} \in F
      <3>1. /\ T \ {x} \in SUBSET S /\ Cardinality(T \ {x}) = n - 1
            /\ n - 1 \in Nat
        BY <1>1, OneLess
      <3>2. QED
        BY <1>1, <3>1
    <2>2. QED
      BY <2>1
  <1>2. 0 \in N
    BY <1>1
  <1>3. ASSUME NEW n \in N PROVE n + 1 \in N
    <2>1. n + 1 \in Nat /\ (n + 1) - 1 = n
      OBVIOUS
    <2> HIDE DEF N
    <2>2. \A T \in SUBSET S : Cardinality(T) = n + 1 => T \in F
      BY <1>1, <2>1
    <2>3. QED
      BY <2>1, <2>2 DEF N
  <1>4. N = Nat
    <2> HIDE DEF N
    <2>1. N \in SUBSET Nat
      BY DEF N
    <2>2. QED
      BY <1>2, <1>3, <2>1, NatSetInduction
  <1>5. ASSUME NEW T \in SUBSET S PROVE T \in F
    <2>1. Cardinality(T) \in Nat
      BY FS_Subset, FS_CardinalityType
    <2>2. QED
      BY <1>4, <2>1
  <1>6. QED
    BY <1>5

\* The sum depends on the values at the elements only.
LEMMA SumsAgree ==
    ASSUME NEW f, NEW g, NEW S, IsFiniteSet(S), NEW R, IsFiniteSet(R),
           NEW T \in SUBSET (S \cap R), \A x \in T : f[x] = g[x]
    PROVE  TheSums(f, S)[T] = TheSums(g, R)[T]
  <1> DEFINE F == {U \in SUBSET T : TheSums(f, S)[U] = TheSums(g, R)[U]}
  <1>1. ASSUME NEW U \in SUBSET T, \A x \in U : U \ {x} \in F
        PROVE  U \in F
    <2>1. U \in SUBSET S /\ U \in SUBSET R
      OBVIOUS
    <2>2. CASE U = {}
      BY <2>1, <2>2, SumsStep
    <2>3. CASE U # {}
      <3>1. PICK x \in U : /\ x = CHOOSE y \in U : TRUE
                           /\ TheSums(f, S)[U] = f[x] + TheSums(f, S)[U \ {x}]
        BY <2>1, <2>3, SumsStep
      <3>2. PICK z \in U : /\ z = CHOOSE y \in U : TRUE
                           /\ TheSums(g, R)[U] = g[z] + TheSums(g, R)[U \ {z}]
        BY <2>1, <2>3, SumsStep
      <3>3. TheSums(f, S)[U \ {x}] = TheSums(g, R)[U \ {x}]
        BY <1>1
      <3>4. f[x] = g[x] /\ z = x
        BY <3>1, <3>2
      <3>5. QED
        BY <3>1, <3>2, <3>3, <3>4
    <2>4. QED
      BY <2>2, <2>3
  <1>2. IsFiniteSet(T)
    BY FS_Subset
  <1> HIDE DEF F
  <1>3. T \in F
    BY <1>1, <1>2, SubsetInduction
  <1>4. QED
    BY <1>3 DEF F

\* A sum of integers is one, a sum of naturals is one.
LEMMA SumsType ==
    ASSUME NEW f, NEW S, IsFiniteSet(S), NEW V \in {Int, Nat},
           \A x \in S : f[x] \in V, NEW T \in SUBSET S
    PROVE  TheSums(f, S)[T] \in V
  <1> DEFINE F == {U \in SUBSET S : TheSums(f, S)[U] \in V}
  <1>1. ASSUME NEW U \in SUBSET S, \A x \in U : U \ {x} \in F
        PROVE  U \in F
    <2>1. CASE U = {}
      BY <2>1, SumsStep
    <2>2. CASE U # {}
      <3>1. PICK x \in U : TheSums(f, S)[U] = f[x] + TheSums(f, S)[U \ {x}]
        BY <2>2, SumsStep
      <3>2. TheSums(f, S)[U \ {x}] \in V /\ f[x] \in V
        BY <1>1
      <3>3. QED
        BY <3>1, <3>2
    <2>3. QED
      BY <2>1, <2>2
  <1> HIDE DEF F
  <1>2. T \in F
    BY <1>1, SubsetInduction
  <1>3. QED
    BY <1>2 DEF F

\* It does not matter which element is taken out first.
LEMMA SumsAnyElement ==
    ASSUME NEW f, NEW S, IsFiniteSet(S), \A x \in S : f[x] \in Int
    PROVE  \A T \in SUBSET S : \A x \in T :
               TheSums(f, S)[T] = f[x] + TheSums(f, S)[T \ {x}]
  <1> DEFINE h == TheSums(f, S)
             F == {T \in SUBSET S : \A x \in T : h[T] = f[x] + h[T \ {x}]}
  <1>1. \A U \in SUBSET S : h[U] \in Int
    BY SumsType
  <1>2. ASSUME NEW T \in SUBSET S, \A x \in T : T \ {x} \in F
        PROVE  T \in F
    <2>1. ASSUME NEW x \in T PROVE h[T] = f[x] + h[T \ {x}]
      <3>1. PICK c \in T : h[T] = f[c] + h[T \ {c}]
        BY SumsStep
      <3>2. CASE x = c
        BY <3>1, <3>2
      <3>3. CASE x # c
        <4> DEFINE rest == (T \ {c}) \ {x}
        <4>1. h[T \ {c}] = f[x] + h[rest]
          BY <1>2, <3>3
        <4>2. h[T \ {x}] = f[c] + h[(T \ {x}) \ {c}]
          BY <1>2, <3>3
        <4>3. (T \ {x}) \ {c} = rest
          OBVIOUS
        <4>4. rest \in SUBSET S
          OBVIOUS
        <4>5. h[rest] \in Int /\ f[x] \in Int /\ f[c] \in Int
          BY <1>1, <4>4
        <4>6. h[T] = f[c] + (f[x] + h[rest]) /\ h[T \ {x}] = f[c] + h[rest]
          BY <3>1, <4>1, <4>2, <4>3
        <4> HIDE DEF h, rest, F
        <4>7. f[c] + (f[x] + h[rest]) = f[x] + (f[c] + h[rest])
          BY <4>5
        <4>8. QED
          BY <4>6, <4>7
      <3>4. QED
        BY <3>2, <3>3
    <2>2. QED
      BY <2>1
  <1> HIDE DEF F
  <1>3. \A T \in SUBSET S : T \in F
    BY <1>2, SubsetInduction
  <1>4. QED
    BY <1>3 DEF F

-----------------------------------------------------------------------------
(***************************************************************************)
(* What the proofs about the ledger use.                                   *)
(***************************************************************************)

\* The sum over no rows is 0.
LEMMA SumOfNone == ASSUME NEW f PROVE SumFunctionOnSet(f, {}) = 0
  <1>1. IsFiniteSet({})
    BY FS_EmptySet
  <1>2. QED
    BY <1>1, SumUnfolds, SumsStep

\* A sum of numbers is a number.
LEMMA SumType ==
    ASSUME NEW f, NEW S, IsFiniteSet(S), NEW V \in {Int, Nat},
           \A x \in S : f[x] \in V
    PROVE  SumFunctionOnSet(f, S) \in V
  BY SumUnfolds, SumsType

\* Functions that agree on a set have the same sum over it.
LEMMA SumSame ==
    ASSUME NEW f, NEW g, NEW S, IsFiniteSet(S), \A x \in S : f[x] = g[x]
    PROVE  SumFunctionOnSet(f, S) = SumFunctionOnSet(g, S)
  BY SumUnfolds, SumsAgree

\* Any element can be counted apart.
LEMMA SumApart ==
    ASSUME NEW f, NEW S, IsFiniteSet(S), \A x \in S : f[x] \in Int, NEW x \in S
    PROVE  SumFunctionOnSet(f, S) = f[x] + SumFunctionOnSet(f, S \ {x})
  <1>1. IsFiniteSet(S \ {x}) /\ S \ {x} \in SUBSET (S \cap (S \ {x}))
    BY FS_RemoveElement
  <1>2. TheSums(f, S)[S \ {x}] = TheSums(f, S \ {x})[S \ {x}]
    BY <1>1, SumsAgree
  <1>3. TheSums(f, S)[S] = f[x] + TheSums(f, S)[S \ {x}]
    BY SumsAnyElement
  <1>4. QED
    BY <1>2, <1>3, SumUnfolds

-----------------------------------------------------------------------------
(***************************************************************************)
(* The inductive invariant.                                                *)
(***************************************************************************)

\* A reservation that somebody holds stands for a row that is reserved.
HeldReserved == \A i \in held : usage_events[i].status = "reserved"

\* The inductive invariant.
IInv == TypeOK /\ HeldReserved /\ WithinRateLimit

-----------------------------------------------------------------------------
(***************************************************************************)
(* What a step may do to the rows.  Every action but the INSERT leaves     *)
(* each row as it is or settles a reserved one.                            *)
(***************************************************************************)

\* Replacing one entry keeps a sequence of events one, and its length.
LEMMA ReplacedRow ==
    ASSUME NEW s \in Seq(Event), NEW i \in 1 .. Len(s), NEW e \in Event
    PROVE  /\ [s EXCEPT ![i] = e] \in Seq(Event)
           /\ Len([s EXCEPT ![i] = e]) = Len(s)
           /\ \A j \in 1 .. Len(s) : [s EXCEPT ![i] = e][j] = IF j = i THEN e ELSE s[j]
  <1>1. Len(s) \in Nat /\ s \in [1 .. Len(s) -> Event]
    BY LenProperties
  <1>2. [s EXCEPT ![i] = e] \in [1 .. Len(s) -> Event]
    BY <1>1
  <1>3. [s EXCEPT ![i] = e] \in Seq(Event)
    BY <1>1, <1>2, SeqDef
  <1>4. Len([s EXCEPT ![i] = e]) = Len(s)
    BY <1>1, <1>2, <1>3, LenProperties
  <1>5. QED
    BY <1>1, <1>3, <1>4

\* The clamp of an estimate yields a number of tokens.
LEMMA NonNegativeType == ASSUME NEW n \in Int PROVE NonNegative(n) \in Nat
  BY DEF NonNegative

\* The INSERT of some reservation, checked at whatever times.
SomeInsert ==
    \E u \in Users, m \in Models, n \in Estimates, rate_at, day_at \in Times :
        InsertReserved(u, m, n, rate_at, day_at)

\* What a step may be: it inserts a row, settles one, or leaves the rows alone.
LEMMA StepCases ==
    ASSUME TypeOK, [Next]_quotaVars
    PROVE  \/ SomeInsert
           \/ \E i \in held, n \in Usages : FinalizeSuccess(i, n)
           \/ \E i \in held : FinalizeFailure(i)
           \/ UNCHANGED <<usage_events, usage_totals, granted>> /\ held' \subseteq held
  <1>1. now \in Times
    BY DEF TypeOK
  <1>2. ASSUME NEW u \in Users, NEW m \in Models, NEW n \in Estimates,
               NEW rate_at \in Times, NEW day_at \in Times,
               InsertReserved(u, m, n, rate_at, day_at)
        PROVE  SomeInsert
    BY <1>2 DEF SomeInsert
  <1>3. CASE \E u \in Users, m \in Models, n \in Estimates, rate_at, day_at \in Times :
                ReserveAt(u, m, n, rate_at, day_at)
    BY <1>2, <1>3 DEF ReserveAt
  <1>4. CASE \E u \in Users, m \in Models, n \in Estimates : ReserveUnheard(u, m, n)
    BY <1>1, <1>2, <1>4 DEF ReserveUnheard
  <1>5. QED
    BY <1>3, <1>4 DEF Next, Abandon, UpdateLimits, SetClock, tables, quotaVars

\* The INSERT adds one reserved row at the end, stamped with the clock.
LEMMA InsertedRow ==
    ASSUME TypeOK, NEW u \in Users, NEW m \in Models, NEW n \in Estimates,
           NEW rate_at \in Times, NEW day_at \in Times,
           InsertReserved(u, m, n, rate_at, day_at)
    PROVE  /\ usage_events' \in Seq(Event)
           /\ granted' \in Seq(Grant)
           /\ Len(usage_events') = Len(usage_events) + 1
           /\ Len(granted') = Len(granted) + 1
           /\ \A i \in Ids : usage_events'[i] = usage_events[i]
                             /\ granted'[i] = granted[i]
           /\ usage_events'[Len(usage_events) + 1].user_id = u
           /\ usage_events'[Len(usage_events) + 1].status = "reserved"
           /\ usage_events'[Len(usage_events) + 1].timestamp = now
           /\ usage_events'[Len(usage_events) + 1].total_tokens = NonNegative(n)
           /\ granted'[Len(usage_events) + 1].limits = user_limits[u]
           /\ granted'[Len(usage_events) + 1].estimate = NonNegative(n)
           /\ user_limits[u].requests_per_minute # NoLimit =>
                  granted'[Len(usage_events) + 1].window_end = Later(rate_at, now)
           /\ user_limits[u].daily_tokens # NoLimit =>
                  granted'[Len(usage_events) + 1].day = Date(day_at)
  <1> DEFINE row == [user_id |-> u, model |-> m, total_tokens |-> NonNegative(n),
                     status |-> "reserved", timestamp |-> now]
             grant == GrantOf(u, n, rate_at, day_at)
             limits == user_limits[u]
  <1>1. NonNegative(n) \in Nat
    BY NonNegativeType, EstimatesAssumption
  <1>2. row \in Event
    BY <1>1 DEF TypeOK, Event, Statuses
  <1>3. /\ grant \in Grant
        /\ grant.limits = limits /\ grant.estimate = NonNegative(n)
        /\ limits.requests_per_minute # NoLimit => grant.window_end = Later(rate_at, now)
        /\ limits.daily_tokens # NoLimit => grant.day = Date(day_at)
    <2>1. limits \in Limits /\ now \in Times /\ Later(rate_at, now) \in Times
      BY DEF TypeOK, Later
    <2>2. Date(now) \in Dates /\ Date(day_at) \in Dates
      BY <2>1 DEF Dates
    <2>3. grant = [estimate |-> NonNegative(n), limits |-> limits,
                   window_end |-> IF limits.requests_per_minute = NoLimit
                                  THEN now ELSE Later(rate_at, now),
                   day |-> IF limits.daily_tokens = NoLimit
                           THEN Date(now) ELSE Date(day_at)]
      BY DEF GrantOf
    <2> HIDE DEF grant, limits
    <2>4. QED
      BY <1>1, <2>1, <2>2, <2>3 DEF Grant
  <1>4. /\ usage_events \in Seq(Event) /\ granted \in Seq(Grant)
        /\ usage_events' = Append(usage_events, row)
        /\ granted' = Append(granted, grant)
        /\ Len(granted) = Len(usage_events)
    BY DEF InsertReserved, TypeOK
  <1> HIDE DEF row, grant, limits
  <1>5. /\ usage_events' \in Seq(Event)
        /\ Len(usage_events') = Len(usage_events) + 1
        /\ \A i \in 1 .. Len(usage_events) : usage_events'[i] = usage_events[i]
        /\ usage_events'[Len(usage_events) + 1] = row
    BY <1>2, <1>4, AppendProperties
  <1>6. /\ granted' \in Seq(Grant)
        /\ Len(granted') = Len(granted) + 1
        /\ \A i \in 1 .. Len(granted) : granted'[i] = granted[i]
        /\ granted'[Len(granted) + 1] = grant
    BY <1>3, <1>4, AppendProperties
  <1>7. QED
    BY <1>3, <1>4, <1>5, <1>6 DEF row, limits, Ids

\* A finalisation settles the row of a held reservation, keeps whose row it
\* is and when it was stamped, and touches no other row.
LEMMA SettledRow ==
    ASSUME TypeOK, NEW i \in held,
           FinalizeFailure(i) \/ \E n \in Usages : FinalizeSuccess(i, n)
    PROVE  /\ usage_events' \in Seq(Event)
           /\ Len(usage_events') = Len(usage_events)
           /\ \A j \in Ids : j # i => usage_events'[j] = usage_events[j]
           /\ usage_events'[i].user_id = usage_events[i].user_id
           /\ usage_events'[i].timestamp = usage_events[i].timestamp
           /\ usage_events'[i].status \in {"success", "failed"}
           /\ granted' = granted
           /\ held' = held \ {i}
           /\ user_limits' = user_limits /\ now' = now
  <1>1. /\ usage_events \in Seq(Event) /\ i \in 1 .. Len(usage_events)
        /\ usage_events[i] \in Event
    BY ElementOfSeq DEF TypeOK, Ids
  <1>2. CASE FinalizeFailure(i)
    <2> DEFINE e == [usage_events[i] EXCEPT !.status = "failed", !.total_tokens = 0]
    <2>1. e \in Event /\ e.user_id = usage_events[i].user_id
                      /\ e.timestamp = usage_events[i].timestamp
                      /\ e.status \in {"success", "failed"}
      BY <1>1 DEF Event, Statuses
    <2>2. usage_events' = [usage_events EXCEPT ![i] = e]
      BY <1>2 DEF FinalizeFailure
    <2> HIDE DEF e
    <2>3. QED
      BY <1>1, <1>2, <2>1, <2>2, ReplacedRow DEF FinalizeFailure, Ids
  <1>3. CASE \E n \in Usages : FinalizeSuccess(i, n)
    <2>0. PICK n \in Usages : FinalizeSuccess(i, n)
      BY <1>3
    <2> DEFINE e == [usage_events[i] EXCEPT !.status = "success", !.total_tokens = n]
    <2>1. e \in Event /\ e.user_id = usage_events[i].user_id
                      /\ e.timestamp = usage_events[i].timestamp
                      /\ e.status \in {"success", "failed"}
      BY <1>1, UsagesAssumption DEF Event, Statuses
    <2>2. usage_events' = [usage_events EXCEPT ![i] = e]
      BY <2>0 DEF FinalizeSuccess
    <2>3. /\ granted' = granted /\ held' = held \ {i}
          /\ user_limits' = user_limits /\ now' = now
      BY <2>0 DEF FinalizeSuccess
    <2> HIDE DEF e
    <2>4. QED
      BY <1>1, <2>1, <2>2, <2>3, ReplacedRow DEF Ids
  <1>4. QED
    BY <1>2, <1>3

-----------------------------------------------------------------------------
(***************************************************************************)
(* Type correctness.                                                       *)
(***************************************************************************)
\* The empty tables satisfy the inductive invariant.
LEMMA InitIInv == Init => IInv
  <1> SUFFICES ASSUME Init PROVE IInv
    OBVIOUS
  <1>1. usage_events = <<>> /\ granted = <<>> /\ Len(usage_events) = 0
    BY DEF Init
  <1>2. now \in Times
    BY BoundsAssumption DEF Init, Times
  <1>3. user_limits \in [Users -> Limits]
    BY DEF Init, Unlimited, Limits, Limit
  <1>4. usage_totals \in [Users -> [Models -> Total]]
    BY DEF Init, Total
  <1>5. TypeOK
    BY <1>1, <1>2, <1>3, <1>4 DEF Init, TypeOK, Ids
  <1>6. HeldReserved /\ WithinRateLimit
    BY <1>1 DEF Init, HeldReserved, WithinRateLimit, Ids
  <1>7. QED
    BY <1>5, <1>6 DEF IInv

\* Every operation of the repository keeps every column in its type and every
\* handle on a row.
LEMMA TypeStep == TypeOK /\ [Next]_quotaVars => TypeOK'
  <1> SUFFICES ASSUME TypeOK, [Next]_quotaVars PROVE TypeOK'
    OBVIOUS
  <1> USE DEF TypeOK
  <1>0. Len(usage_events) \in Nat
    BY LenProperties
  <1>1. ASSUME NEW u \in Users, NEW m \in Models, NEW n \in Estimates,
               NEW rate_at \in Times, NEW day_at \in Times,
               InsertReserved(u, m, n, rate_at, day_at),
               held' \in {held, held \cup {Len(usage_events')}}
        PROVE  TypeOK'
    <2>1. usage_totals' = usage_totals /\ user_limits' = user_limits /\ now' = now
      BY <1>1 DEF InsertReserved
    <2>2. /\ usage_events' \in Seq(Event) /\ granted' \in Seq(Grant)
          /\ Len(usage_events') = Len(usage_events) + 1
          /\ Len(granted') = Len(granted) + 1
      BY <1>1, InsertedRow
    <2>3. held' \subseteq Ids'
      BY <1>0, <1>1, <2>2 DEF Ids
    <2>4. QED
      BY <2>1, <2>2, <2>3 DEF Times
  <1>2. ASSUME NEW i \in held, NEW n \in Usages, FinalizeSuccess(i, n)
        PROVE  TypeOK'
    <2> DEFINE e == usage_events[i]
    <2>1. e \in Event
      BY ElementOfSeq DEF Ids
    <2>2. usage_totals[e.user_id][e.model] \in Total
      BY <2>1 DEF Event
    <2> DEFINE t == [total_tokens |-> usage_totals[e.user_id][e.model].total_tokens + n,
                     request_count |-> usage_totals[e.user_id][e.model].request_count + 1]
    <2>3. t \in Total
      BY <2>2, UsagesAssumption DEF Total
    <2>4. usage_totals' = [usage_totals EXCEPT ![e.user_id][e.model] = t]
      BY <1>2 DEF FinalizeSuccess
    <2> HIDE DEF t, e
    <2>5. usage_totals' \in [Users -> [Models -> Total]]
      BY <2>1, <2>3, <2>4 DEF Event
    <2>6. QED
      BY <1>2, <2>5, SettledRow DEF Ids, Times
  <1>3. ASSUME NEW i \in held, FinalizeFailure(i)
        PROVE  TypeOK'
    <2>1. usage_totals' = usage_totals
      BY <1>3 DEF FinalizeFailure
    <2>2. QED
      BY <1>3, <2>1, SettledRow DEF Ids, Times
  <1>4. ASSUME NEW lost \in SUBSET held, Abandon(lost)
        PROVE  TypeOK'
    BY <1>4 DEF Abandon, tables, Ids, Times
  <1>5. ASSUME NEW u \in Users, NEW limits \in LimitSettings, UpdateLimits(u, limits)
        PROVE  TypeOK'
    BY <1>5, SettingsAssumption DEF UpdateLimits, Ids, Times
  <1>6. ASSUME NEW t \in Times, SetClock(t)
        PROVE  TypeOK'
    BY <1>6 DEF SetClock, tables, Ids, Times
  <1>7. CASE UNCHANGED quotaVars
    BY <1>7 DEF quotaVars, Ids, Times
  <1>8. QED
    BY <1>1, <1>2, <1>3, <1>4, <1>5, <1>6, <1>7 DEF Next, ReserveAt, ReserveUnheard

\* The tables stay well typed and every handle names a row: quota.py's
\* operations never finalise a row that was not inserted.
THEOREM TypeCorrect == Spec => []TypeOK
  <1>1. Init => TypeOK
    BY InitIInv DEF IInv
  <1>2. QED
    BY <1>1, TypeStep, PTL DEF Spec

-----------------------------------------------------------------------------
(***************************************************************************)
(* The rate limit.                                                         *)
(***************************************************************************)

\* A query over the first rows has a finite answer.
LEMMA RowsFinite ==
    ASSUME NEW u, NEW t, NEW last \in Nat
    PROVE  /\ IsFiniteSet(RowsSince(u, t, last))
           /\ Cardinality(RowsSince(u, t, last)) \in Nat
  <1>1. IsFiniteSet(1 .. last)
    BY FS_Interval
  <1>2. RowsSince(u, t, last) \in SUBSET (1 .. last)
    BY DEF RowsSince, CountedRows
  <1>3. QED
    BY <1>1, <1>2, FS_Subset, FS_CardinalityType

\* One more element makes a finite set larger by at most one.
LEMMA OneMore ==
    ASSUME NEW S, IsFiniteSet(S), NEW x
    PROVE  /\ IsFiniteSet(S \cup {x})
           /\ Cardinality(S \cup {x}) \in Nat
           /\ Cardinality(S \cup {x}) <= Cardinality(S) + 1
  <1>1. /\ IsFiniteSet(S \cup {x})
        /\ Cardinality(S \cup {x}) = IF x \in S THEN Cardinality(S) ELSE Cardinality(S) + 1
    BY FS_AddElement
  <1>2. Cardinality(S) \in Nat
    BY FS_CardinalityType
  <1>3. QED
    BY <1>1, <1>2

\* No operation settles a row whose reservation somebody goes on holding.
LEMMA HeldReservedStep == TypeOK /\ HeldReserved /\ [Next]_quotaVars => HeldReserved'
  <1> SUFFICES ASSUME TypeOK, HeldReserved, [Next]_quotaVars PROVE HeldReserved'
    OBVIOUS
  <1>0. held \subseteq Ids /\ Len(usage_events) \in Nat
    BY LenProperties DEF TypeOK
  <1>1. ASSUME NEW u \in Users, NEW m \in Models, NEW n \in Estimates,
               NEW rate_at \in Times, NEW day_at \in Times,
               InsertReserved(u, m, n, rate_at, day_at),
               held' \in {held, held \cup {Len(usage_events')}}
        PROVE  HeldReserved'
    BY <1>0, <1>1, InsertedRow DEF HeldReserved
  <1>2. ASSUME NEW i \in held,
               FinalizeFailure(i) \/ \E n \in Usages : FinalizeSuccess(i, n)
        PROVE  HeldReserved'
    BY <1>0, <1>2, SettledRow DEF HeldReserved
  <1>3. CASE held' \subseteq held /\ UNCHANGED usage_events
    BY <1>3 DEF HeldReserved
  <1>4. QED
    <2>1. now \in Times
      BY DEF TypeOK
    <2>2. QED
      BY <1>1, <1>2, <1>3, <2>1 DEF Next, ReserveAt, ReserveUnheard, Abandon,
                                    UpdateLimits, SetClock, tables, quotaVars

\* The row an INSERT adds makes one more counted row than its check counted,
\* and the check found room for one.
LEMMA RateStepInsert ==
    ASSUME TypeOK, WithinRateLimit,
           NEW u \in Users, NEW m \in Models, NEW n \in Estimates,
           NEW rate_at \in Times, NEW day_at \in Times,
           InsertReserved(u, m, n, rate_at, day_at)
    PROVE  WithinRateLimit'
  <1> DEFINE last == Len(usage_events)
             limitOf(e) == granted[e].limits.requests_per_minute
             rowsOf(e) == RowsSince(usage_events[e].user_id,
                                    granted[e].window_end - Window, e)
  <1>0. last \in Nat /\ Ids = 1 .. last /\ Ids' = 1 .. last + 1
    BY LenProperties, InsertedRow DEF TypeOK, Ids
  <1>1. SUFFICES ASSUME NEW e \in 1 .. last + 1, limitOf(e)' # NoLimit
                 PROVE  Cardinality(rowsOf(e)') <= limitOf(e)'
    BY <1>0 DEF WithinRateLimit
  <1>2. CASE e \in 1 .. last
    <2>1. /\ \A i \in 1 .. e : usage_events'[i] = usage_events[i]
          /\ granted'[e] = granted[e]
      BY <1>0, <1>2, InsertedRow
    <2>2. rowsOf(e)' = rowsOf(e)
      BY <1>2, <2>1 DEF RowsSince, CountedRows, Counted
    <2>3. QED
      BY <1>0, <1>1, <1>2, <2>1, <2>2 DEF WithinRateLimit
  <1>3. CASE e = last + 1
    <2> DEFINE limit == user_limits[u].requests_per_minute
               before == RowsSince(u, rate_at - Window, last)
    <2>1. /\ limitOf(e)' = limit /\ limit # NoLimit
          /\ granted'[e].window_end = Later(rate_at, now)
      BY <1>1, <1>3, InsertedRow
    <2>2. limit \in Nat
      BY <2>1 DEF TypeOK, Limits, Limit
    <2>3. Cardinality(before) < limit
      BY <2>1 DEF InsertReserved, AdmitsAt, RateOkAt
    <2>4. rowsOf(e)' \subseteq before \cup {e}
      <3>1. /\ \A i \in 1 .. last : usage_events'[i] = usage_events[i]
            /\ usage_events'[e].user_id = u
        BY <1>0, <1>3, InsertedRow
      <3>2. \A i \in 1 .. last : usage_events[i].timestamp \in Int
        <4>1. \A i \in 1 .. last : usage_events[i] \in Event
          BY ElementOfSeq DEF TypeOK
        <4>2. QED
          BY <4>1 DEF Event, Times
      <3>3. /\ rate_at \in Int /\ now \in Int /\ Window \in Int
            /\ Later(rate_at, now) \in Int /\ rate_at <= Later(rate_at, now)
        BY WindowAssumption DEF TypeOK, Times, Later
      <3>4. \A i \in 1 .. last :
                usage_events[i].timestamp >= Later(rate_at, now) - Window
                    => usage_events[i].timestamp >= rate_at - Window
        BY <3>2, <3>3
      <3> HIDE DEF limitOf, limit
      <3>5. QED
        BY <1>0, <1>3, <2>1, <3>1, <3>4 DEF RowsSince, CountedRows, Counted
    <2>5. IsFiniteSet(before) /\ Cardinality(before) \in Nat
      BY <1>0, RowsFinite
    <2>6. /\ IsFiniteSet(before \cup {e})
          /\ Cardinality(before \cup {e}) <= Cardinality(before) + 1
          /\ Cardinality(before \cup {e}) \in Nat
      BY <2>5, OneMore
    <2>7. /\ Cardinality(rowsOf(e)') <= Cardinality(before \cup {e})
          /\ Cardinality(rowsOf(e)') \in Nat
      BY <2>4, <2>6, FS_Subset, FS_CardinalityType
    <2> HIDE DEF limitOf, rowsOf, limit, before
    <2>8. QED
      BY <2>1, <2>2, <2>3, <2>5, <2>6, <2>7
  <1>4. QED
    BY <1>0, <1>2, <1>3

\* Settling a row that was reserved, and so counted, adds to no count.
LEMMA RateStepSettle ==
    ASSUME TypeOK, HeldReserved, WithinRateLimit, NEW i \in held,
           FinalizeFailure(i) \/ \E n \in Usages : FinalizeSuccess(i, n)
    PROVE  WithinRateLimit'
  <1> DEFINE limitOf(e) == granted[e].limits.requests_per_minute
             rowsOf(e) == RowsSince(usage_events[e].user_id,
                                    granted[e].window_end - Window, e)
  <1>0. Len(usage_events) \in Nat /\ i \in Ids /\ Ids' = Ids
    BY LenProperties, SettledRow DEF TypeOK, Ids
  <1>1. SUFFICES ASSUME NEW e \in Ids, limitOf(e)' # NoLimit
                 PROVE  Cardinality(rowsOf(e)') <= limitOf(e)'
    BY <1>0 DEF WithinRateLimit
  <1>2. limitOf(e)' = limitOf(e) /\ limitOf(e) \in Nat
    <2>1. granted[e] \in Grant /\ granted' = granted
      BY <1>0, SettledRow, ElementOfSeq DEF TypeOK, Ids
    <2>2. QED
      BY <1>1, <2>1 DEF Grant, Limits, Limit
  <1>3. Cardinality(rowsOf(e)) <= limitOf(e)
    BY <1>1, <1>2 DEF WithinRateLimit
  <1>4. rowsOf(e)' \subseteq rowsOf(e)
    <2>1. /\ \A j \in Ids : /\ usage_events'[j].user_id = usage_events[j].user_id
                            /\ usage_events'[j].timestamp = usage_events[j].timestamp
                            /\ Counted(j)' => Counted(j)
          /\ granted' = granted
      BY <1>0, SettledRow DEF HeldReserved, Counted
    <2>2. 1 .. e \subseteq Ids
      BY <1>0 DEF Ids
    <2>3. QED
      BY <1>1, <2>1, <2>2 DEF RowsSince, CountedRows
  <1>5. IsFiniteSet(rowsOf(e)) /\ Cardinality(rowsOf(e)) \in Nat
    BY <1>0, RowsFinite DEF Ids
  <1>6. /\ Cardinality(rowsOf(e)') <= Cardinality(rowsOf(e))
        /\ Cardinality(rowsOf(e)') \in Nat
    BY <1>4, <1>5, FS_Subset, FS_CardinalityType
  <1> HIDE DEF limitOf, rowsOf
  <1>7. QED
    BY <1>2, <1>3, <1>5, <1>6

\* No step, of whichever kind, puts an earlier admission over its rate limit.
LEMMA RateStep == IInv /\ [Next]_quotaVars => WithinRateLimit'
  <1> SUFFICES ASSUME IInv, [Next]_quotaVars PROVE WithinRateLimit'
    OBVIOUS
  <1>1. CASE SomeInsert
    BY <1>1, RateStepInsert DEF IInv, SomeInsert
  <1>2. CASE \E i \in held : FinalizeFailure(i) \/ \E n \in Usages : FinalizeSuccess(i, n)
    BY <1>2, RateStepSettle DEF IInv
  <1>3. CASE UNCHANGED <<usage_events, granted>>
    BY <1>3 DEF IInv, WithinRateLimit, Ids, RowsSince, CountedRows, Counted
  <1>4. QED
    BY <1>1, <1>2, <1>3, StepCases DEF IInv

\* The invariant holds in every reachable state.
LEMMA IInvStep == IInv /\ [Next]_quotaVars => IInv'
  BY TypeStep, HeldReservedStep, RateStep DEF IInv

LEMMA Inductive == Spec => []IInv
  BY InitIInv, IInvStep, PTL DEF Spec

\* No user is ever admitted beyond the rate limit, whatever the interleaving
\* of reservations, finalisations in any order, lost reservations, changes of
\* the limits and moves of the clock, for any number of users and rows.
THEOREM RateLimitHolds == Spec => []WithinRateLimit
  <1>1. IInv => WithinRateLimit
    BY DEF IInv
  <1>2. QED
    BY <1>1, Inductive, PTL

-----------------------------------------------------------------------------
(***************************************************************************)
(* Settled rows.                                                           *)
(***************************************************************************)

\* What a step leaves of the rows there are.
RowsStay ==
    \A i \in Ids :
        /\ i \in Ids'
        /\ usage_events'[i].user_id = usage_events[i].user_id
        /\ usage_events[i].status # "reserved" => usage_events'[i] = usage_events[i]

\* No operation touches a settled row: the one row a finalisation changes is
\* held, and therefore reserved.
LEMMA RowsStayStep == IInv /\ [Next]_quotaVars => RowsStay
  <1> SUFFICES ASSUME IInv, [Next]_quotaVars PROVE RowsStay
    OBVIOUS
  <1>0. Len(usage_events) \in Nat /\ held \subseteq Ids
    BY LenProperties DEF IInv, TypeOK
  <1>1. CASE SomeInsert
    BY <1>0, <1>1, InsertedRow DEF IInv, Ids, RowsStay, SomeInsert
  <1>2. CASE \E i \in held :
                FinalizeFailure(i) \/ \E n \in Usages : FinalizeSuccess(i, n)
    <2>1. PICK i \in held :
                FinalizeFailure(i) \/ \E n \in Usages : FinalizeSuccess(i, n)
      BY <1>2
    <2>2. usage_events[i].status = "reserved"
      BY DEF IInv, HeldReserved
    <2>3. QED
      BY <2>1, <2>2, SettledRow DEF IInv, Ids, RowsStay
  <1>3. CASE UNCHANGED usage_events
    BY <1>3 DEF Ids, RowsStay
  <1>4. QED
    BY <1>1, <1>2, <1>3, StepCases DEF IInv

\* A row is finalised at most once, and rows are never taken away: what the
\* event list showed as success or failed, it shows for ever.
THEOREM SettledForEver == Spec => SettledRowsStay
  <1>1. IInv /\ [Next]_quotaVars
          => [\A i \in Ids :
                 /\ i \in Ids'
                 /\ usage_events'[i].user_id = usage_events[i].user_id
                 /\ usage_events[i].status # "reserved" =>
                        usage_events'[i] = usage_events[i]]_quotaVars
    BY RowsStayStep DEF RowsStay
  <1>2. QED
    BY <1>1, Inductive, PTL DEF Spec, SettledRowsStay

-----------------------------------------------------------------------------
(***************************************************************************)
(* The token limits.  WithinTokenLimits compares two sums over the same    *)
(* rows: what they count for, and by how much their estimates were too     *)
(* low.  It is inductive once it is known that a row still reserved counts *)
(* for exactly its estimate, so that it has no overrun.                    *)
(***************************************************************************)

\* A row that is still reserved counts for what it was admitted with.
ReservedAtEstimate ==
    \A i \in Ids : usage_events[i].status = "reserved" =>
        usage_events[i].total_tokens = granted[i].estimate

\* Tokens and Overruns of any rows and grants, so that a lemma can speak of
\* the rows before and after a step.
TokensOf(ev, R) == SumFunction([i \in R |-> ev[i].total_tokens])

OverrunsOf(ev, gr, R) ==
    SumFunction([i \in R |-> NonNegative(ev[i].total_tokens - gr[i].estimate)])

\* A sum is one of its terms and the sum of the others.
LEMMA TermApart ==
    ASSUME NEW R, IsFiniteSet(R), NEW w \in [R -> Nat], NEW x \in R
    PROVE  SumFunction(w) = w[x] + SumFunction([i \in R \ {x} |-> w[i]])
  <1> DEFINE rest == [i \in R \ {x} |-> w[i]]
  <1>1. SumFunctionOnSet(w, R) = w[x] + SumFunctionOnSet(w, R \ {x})
    BY SumApart
  <1>2. SumFunctionOnSet(w, R \ {x}) = SumFunctionOnSet(rest, R \ {x})
    BY FS_RemoveElement, SumSame
  <1>3. DOMAIN w = R /\ DOMAIN rest = R \ {x}
    OBVIOUS
  <1>4. QED
    BY <1>1, <1>2, <1>3 DEF SumFunction

\* A sum of numbers of tokens is one.
LEMMA TermsType ==
    ASSUME NEW R, IsFiniteSet(R), NEW w \in [R -> Nat]
    PROVE  SumFunction(w) \in Nat
  <1>1. DOMAIN w = R
    OBVIOUS
  <1>2. QED
    BY <1>1, SumType DEF SumFunction

\* Rows of the table are finitely many, and their columns are numbers.
LEMMA RowTokens ==
    ASSUME NEW ev \in Seq(Event), NEW R \in SUBSET (1 .. Len(ev))
    PROVE  /\ IsFiniteSet(R)
           /\ \A i \in R : ev[i].total_tokens \in Nat
           /\ TokensOf(ev, R) \in Nat
  <1>1. IsFiniteSet(R)
    <2>1. Len(ev) \in Int /\ 1 \in Int
      BY LenProperties
    <2>2. IsFiniteSet(1 .. Len(ev))
      BY <2>1, FS_Interval
    <2>3. QED
      BY <2>2, FS_Subset
  <1>2. \A i \in R : ev[i].total_tokens \in Nat
    <2>1. \A i \in R : ev[i] \in Event
      BY ElementOfSeq
    <2>2. QED
      BY <2>1 DEF Event
  <1>3. [i \in R |-> ev[i].total_tokens] \in [R -> Nat]
    BY <1>2
  <1>4. QED
    BY <1>1, <1>2, <1>3, TermsType DEF TokensOf

\* What finitely many rows exceed their estimates by is a number of tokens.
LEMMA RowOverruns ==
    ASSUME NEW ev \in Seq(Event), NEW gr \in Seq(Grant), Len(gr) = Len(ev),
           NEW R \in SUBSET (1 .. Len(ev))
    PROVE  /\ \A i \in R : /\ gr[i].estimate \in Nat
                           /\ NonNegative(ev[i].total_tokens - gr[i].estimate) \in Nat
           /\ OverrunsOf(ev, gr, R) \in Nat
  <1>1. \A i \in R : ev[i].total_tokens \in Nat /\ gr[i].estimate \in Nat
    <2>1. \A i \in R : gr[i] \in Grant
      BY ElementOfSeq
    <2>2. QED
      BY <2>1, RowTokens DEF Grant
  <1>2. \A i \in R : NonNegative(ev[i].total_tokens - gr[i].estimate) \in Nat
    BY <1>1 DEF NonNegative
  <1>3. [i \in R |-> NonNegative(ev[i].total_tokens - gr[i].estimate)] \in [R -> Nat]
    BY <1>2
  <1>4. QED
    BY <1>1, <1>2, <1>3, RowTokens, TermsType DEF OverrunsOf

\* Both sums, with the terms of one row apart.
LEMMA TokensApart ==
    ASSUME NEW ev \in Seq(Event), NEW R \in SUBSET (1 .. Len(ev)), NEW i \in R
    PROVE  TokensOf(ev, R) = ev[i].total_tokens + TokensOf(ev, R \ {i})
  <1> DEFINE t == [j \in R |-> ev[j].total_tokens]
  <1>1. IsFiniteSet(R) /\ t \in [R -> Nat]
    BY RowTokens
  <1>2. [j \in R \ {i} |-> t[j]] = [j \in R \ {i} |-> ev[j].total_tokens]
        /\ t[i] = ev[i].total_tokens
    OBVIOUS
  <1> HIDE DEF t
  <1>3. SumFunction(t) = t[i] + SumFunction([j \in R \ {i} |-> t[j]])
    BY <1>1, TermApart
  <1>4. QED
    BY <1>2, <1>3 DEF TokensOf, t

\* The sum of the overruns is that of one row and that of the others.
LEMMA OverrunsApart ==
    ASSUME NEW ev \in Seq(Event), NEW gr \in Seq(Grant), Len(gr) = Len(ev),
           NEW R \in SUBSET (1 .. Len(ev)), NEW i \in R
    PROVE  OverrunsOf(ev, gr, R) =
               NonNegative(ev[i].total_tokens - gr[i].estimate)
                   + OverrunsOf(ev, gr, R \ {i})
  <1> DEFINE o == [j \in R |-> NonNegative(ev[j].total_tokens - gr[j].estimate)]
  <1>1. IsFiniteSet(R) /\ o \in [R -> Nat]
    BY RowTokens, RowOverruns
  <1>2. /\ [j \in R \ {i} |-> o[j]] =
               [j \in R \ {i} |-> NonNegative(ev[j].total_tokens - gr[j].estimate)]
        /\ o[i] = NonNegative(ev[i].total_tokens - gr[i].estimate)
    OBVIOUS
  <1> HIDE DEF o
  <1>3. SumFunction(o) = o[i] + SumFunction([j \in R \ {i} |-> o[j]])
    BY <1>1, TermApart
  <1>4. QED
    BY <1>2, <1>3 DEF OverrunsOf, o

\* The sums look at the rows they are taken over, and at no others.
LEMMA SameTokens ==
    ASSUME NEW ev, NEW ev2, NEW R, \A i \in R : ev2[i] = ev[i]
    PROVE  TokensOf(ev2, R) = TokensOf(ev, R)
  <1>1. [i \in R |-> ev2[i].total_tokens] = [i \in R |-> ev[i].total_tokens]
    OBVIOUS
  <1>2. QED
    BY <1>1 DEF TokensOf

\* Overruns too depend on the rows they are taken over, and on no others.
LEMMA SameOverruns ==
    ASSUME NEW ev, NEW ev2, NEW gr, NEW gr2, NEW R,
           \A i \in R : ev2[i] = ev[i], \A i \in R : gr2[i] = gr[i]
    PROVE  OverrunsOf(ev2, gr2, R) = OverrunsOf(ev, gr, R)
  <1>1. [i \in R |-> NonNegative(ev2[i].total_tokens - gr2[i].estimate)]
            = [i \in R |-> NonNegative(ev[i].total_tokens - gr[i].estimate)]
    OBVIOUS
  <1>2. QED
    BY <1>1 DEF OverrunsOf

\* Settling a row at whatever usage, or taking it out of the count, keeps the
\* rows within a limit they were within: what the row costs beyond its
\* estimate is its overrun.
LEMMA SettlingKeepsWithin ==
    ASSUME NEW ev \in Seq(Event), NEW ev2 \in Seq(Event), NEW gr \in Seq(Grant),
           Len(gr) = Len(ev), Len(ev2) = Len(ev),
           NEW i \in 1 .. Len(ev), ev[i].total_tokens = gr[i].estimate,
           \A j \in 1 .. Len(ev) : j # i => ev2[j] = ev[j],
           NEW R \in SUBSET (1 .. Len(ev)), NEW R2 \in {R, R \ {i}},
           NEW limit \in Nat,
           TokensOf(ev, R) <= limit + OverrunsOf(ev, gr, R)
    PROVE  TokensOf(ev2, R2) <= limit + OverrunsOf(ev2, gr, R2)
  <1> DEFINE rest == R \ {i}
  <1>0. /\ \A j \in rest : ev2[j] = ev[j]
        /\ rest \in SUBSET (1 .. Len(ev)) /\ Len(gr) = Len(ev2)
        /\ R \in SUBSET (1 .. Len(ev2))
    OBVIOUS
  <1>1. TokensOf(ev2, rest) = TokensOf(ev, rest)
    <2> HIDE DEF rest
    <2>1. QED
      BY <1>0, SameTokens
  <1>2. OverrunsOf(ev2, gr, rest) = OverrunsOf(ev, gr, rest)
    <2> HIDE DEF rest
    <2>1. [j \in rest |-> NonNegative(ev2[j].total_tokens - gr[j].estimate)]
              = [j \in rest |-> NonNegative(ev[j].total_tokens - gr[j].estimate)]
      BY <1>0
    <2>2. QED
      BY <2>1 DEF OverrunsOf
  <1>3. CASE i \notin R
    <2>1. R2 = R /\ rest = R
      BY <1>3
    <2>2. QED
      BY <1>1, <1>2, <2>1
  <1>4. CASE i \in R
    <2>1. /\ TokensOf(ev, R) = ev[i].total_tokens + TokensOf(ev, rest)
          /\ TokensOf(ev2, R) = ev2[i].total_tokens + TokensOf(ev2, rest)
      BY <1>0, <1>4, TokensApart
    <2>2. OverrunsOf(ev, gr, R) =
              NonNegative(ev[i].total_tokens - gr[i].estimate)
                  + OverrunsOf(ev, gr, rest)
      BY <1>4, OverrunsApart, SMTT(30)
    <2>3. OverrunsOf(ev2, gr, R) =
              NonNegative(ev2[i].total_tokens - gr[i].estimate)
                  + OverrunsOf(ev2, gr, rest)
      BY <1>0, <1>4, OverrunsApart
    <2>10. /\ ev[i].total_tokens \in Nat /\ gr[i].estimate \in Nat
          /\ ev2[i].total_tokens \in Nat
      BY <1>0, <1>4, RowTokens, RowOverruns
    <2>11. TokensOf(ev, rest) \in Nat /\ OverrunsOf(ev, gr, rest) \in Nat
      BY <1>0, RowTokens, RowOverruns
    <2>4. NonNegative(ev[i].total_tokens - gr[i].estimate) = 0
      BY <2>10 DEF NonNegative
    <2>5. /\ NonNegative(ev2[i].total_tokens - gr[i].estimate) \in Nat
          /\ ev2[i].total_tokens <=
                 gr[i].estimate + NonNegative(ev2[i].total_tokens - gr[i].estimate)
      BY <2>10 DEF NonNegative
    <2> HIDE DEF rest
    <2>6. TokensOf(ev, rest) + gr[i].estimate <= limit + OverrunsOf(ev, gr, rest)
      BY <2>1, <2>2, <2>4, <2>10, <2>11
    <2>7. TokensOf(ev2, R) <= limit + OverrunsOf(ev2, gr, R)
      BY <1>1, <1>2, <2>1, <2>3, <2>5, <2>6, <2>10, <2>11
    <2>8. TokensOf(ev2, rest) <= limit + OverrunsOf(ev2, gr, rest)
      BY <1>1, <1>2, <2>6, <2>10, <2>11
    <2>9. QED
      BY <2>7, <2>8 DEF rest
  <1>5. QED
    BY <1>3, <1>4

\* The row an INSERT adds brings its estimate, for which the check found room,
\* and no overrun; and it may be stamped outside the rows of the check.
LEMMA InsertKeepsWithin ==
    ASSUME TypeOK, NEW u \in Users, NEW m \in Models, NEW n \in Estimates,
           NEW rate_at \in Times, NEW day_at \in Times,
           InsertReserved(u, m, n, rate_at, day_at),
           NEW R \in SUBSET Ids, NEW limit \in Nat,
           TokensOf(usage_events, R) + NonNegative(n) <= limit
    PROVE  \A R2 \in {R, R \cup {Len(usage_events) + 1}} :
               TokensOf(usage_events', R2)
                   <= limit + OverrunsOf(usage_events', granted', R2)
  <1> DEFINE e == Len(usage_events) + 1
             R2 == R \cup {e}
             ev == usage_events'
             gr == granted'
  <1>1. /\ Len(usage_events) \in Nat /\ Len(gr) = Len(ev) /\ Len(ev) = e
        /\ ev \in Seq(Event) /\ gr \in Seq(Grant)
        /\ \A i \in Ids : ev[i] = usage_events[i]
        /\ ev[e].total_tokens = NonNegative(n)
    BY InsertedRow, LenProperties DEF TypeOK
  <1>2. /\ R2 \in SUBSET (1 .. Len(ev)) /\ e \in R2 /\ R2 \ {e} = R
        /\ R \in SUBSET (1 .. Len(usage_events))
    <2>1. R \in SUBSET (1 .. Len(usage_events)) /\ Len(usage_events) \in Nat
      BY <1>1 DEF Ids
    <2>2. e \notin 1 .. Len(usage_events) /\ e \in 1 .. e
          /\ 1 .. Len(usage_events) \subseteq 1 .. e
      BY <2>1
    <2> HIDE DEF e, ev
    <2>3. QED
      BY <1>1, <2>1, <2>2
  <1> HIDE DEF e, R2, ev, gr
  <1>3. TokensOf(ev, R2) = NonNegative(n) + TokensOf(ev, R)
    BY <1>1, <1>2, TokensApart
  <1>4. TokensOf(ev, R) = TokensOf(usage_events, R)
    BY <1>1, <1>2, SameTokens
  <1>5. OverrunsOf(ev, gr, R2) \in Nat /\ OverrunsOf(ev, gr, R) \in Nat
    <2>1. R \in SUBSET (1 .. Len(ev))
      BY <1>2
    <2>2. QED
      BY <1>1, <1>2, <2>1, RowOverruns
  <1>6. TokensOf(usage_events, R) \in Nat
    BY <1>2, RowTokens DEF TypeOK
  <1>7. NonNegative(n) \in Nat
    BY NonNegativeType, EstimatesAssumption
  <1>8. TokensOf(ev, R2) <= limit + OverrunsOf(ev, gr, R2)
    BY <1>3, <1>4, <1>5, <1>6, <1>7
  <1>9. TokensOf(ev, R) <= limit + OverrunsOf(ev, gr, R)
    BY <1>4, <1>5, <1>6, <1>7
  <1>10. QED
    BY <1>8, <1>9 DEF e, R2, ev, gr

\* The sums of the model are the sums above.
LEMMA SumsOfTables ==
    ASSUME NEW R
    PROVE  /\ Tokens(R) = TokensOf(usage_events, R)
           /\ Overruns(R) = OverrunsOf(usage_events, granted, R)
           /\ Tokens(R)' = TokensOf(usage_events', R)
           /\ Overruns(R)' = OverrunsOf(usage_events', granted', R)
  BY DEF Tokens, Overruns, Overrun, TokensOf, OverrunsOf, NonNegative

\* The rows a total or a daily limit speaks of when row e is admitted.
TotalRows(e) == CountedRows(usage_events[e].user_id, e)
DayRows(e) == RowsOnDate(usage_events[e].user_id, granted[e].day, e)

\* WithinTokenLimits, in these terms.
WithinLimit(limit, R) ==
    limit # NoLimit =>
        TokensOf(usage_events, R) <= limit + OverrunsOf(usage_events, granted, R)

\* The property, in terms of those sums.
LEMMA WithinTokenLimitsMeans ==
    WithinTokenLimits <=>
        \A e \in Ids : /\ WithinLimit(granted[e].limits.total_tokens, TotalRows(e))
                       /\ WithinLimit(granted[e].limits.daily_tokens, DayRows(e))
  BY SumsOfTables DEF WithinTokenLimits, WithinLimit, TotalRows, DayRows

\* Those rows are among the rows there are, and so is everything else.
LEMMA LimitRows ==
    ASSUME TypeOK, NEW e \in Ids
    PROVE  /\ TotalRows(e) \in SUBSET Ids /\ DayRows(e) \in SUBSET Ids
           /\ granted[e].limits.total_tokens \in Limit
           /\ granted[e].limits.daily_tokens \in Limit
  <1>1. Len(usage_events) \in Nat
    BY LenProperties DEF TypeOK
  <1>2. granted[e] \in Grant
    BY ElementOfSeq DEF TypeOK, Ids
  <1>3. QED
    BY <1>1, <1>2 DEF TotalRows, DayRows, RowsOnDate, CountedRows, Ids, Grant, Limits

\* An INSERT keeps every admission within its token limits, its own included.
LEMMA TokenStepInsert ==
    ASSUME TypeOK, WithinTokenLimits,
           NEW u \in Users, NEW m \in Models, NEW n \in Estimates,
           NEW rate_at \in Times, NEW day_at \in Times,
           InsertReserved(u, m, n, rate_at, day_at)
    PROVE  WithinTokenLimits'
  <1> DEFINE last == Len(usage_events)
  <1>0. /\ last \in Nat /\ Ids = 1 .. last /\ Ids' = 1 .. last + 1
        /\ \A i \in 1 .. last : usage_events'[i] = usage_events[i]
        /\ \A i \in 1 .. last : granted'[i] = granted[i]
        /\ usage_events'[last + 1].user_id = u
        /\ usage_events'[last + 1].status = "reserved"
        /\ usage_events'[last + 1].timestamp = now
        /\ granted'[last + 1].limits = user_limits[u]
        /\ user_limits[u].daily_tokens # NoLimit =>
               granted'[last + 1].day = Date(day_at)
    BY LenProperties, InsertedRow DEF TypeOK, Ids
  <1>1. ASSUME NEW e \in 1 .. last
        PROVE  /\ WithinLimit(granted[e].limits.total_tokens, TotalRows(e))'
               /\ WithinLimit(granted[e].limits.daily_tokens, DayRows(e))'
    <2>1. TotalRows(e)' = TotalRows(e) /\ DayRows(e)' = DayRows(e)
      BY <1>0, <1>1 DEF TotalRows, DayRows, RowsOnDate, CountedRows, Counted
    <2>2. TotalRows(e) \in SUBSET Ids /\ DayRows(e) \in SUBSET Ids
      BY <1>0, <1>1, LimitRows
    <2>3. ASSUME NEW R \in SUBSET Ids
          PROVE  /\ TokensOf(usage_events', R) = TokensOf(usage_events, R)
                 /\ OverrunsOf(usage_events', granted', R)
                        = OverrunsOf(usage_events, granted, R)
      <3>1. \A i \in R : usage_events'[i] = usage_events[i]
        BY <1>0, <2>3
      <3>2. \A i \in R : granted'[i] = granted[i]
        BY <1>0, <2>3
      <3>3. TokensOf(usage_events', R) = TokensOf(usage_events, R)
        BY <3>1, SameTokens
      <3>4. OverrunsOf(usage_events', granted', R)
                = OverrunsOf(usage_events, granted, R)
        BY <3>1, <3>2, SameOverruns
      <3>5. QED
        BY <3>3, <3>4
    <2>4. /\ WithinLimit(granted[e].limits.total_tokens, TotalRows(e))
          /\ WithinLimit(granted[e].limits.daily_tokens, DayRows(e))
      BY <1>0, <1>1, WithinTokenLimitsMeans
    <2>5. granted'[e] = granted[e]
      BY <1>0, <1>1
    <2>6. QED
      BY <2>1, <2>2, <2>3, <2>4, <2>5 DEF WithinLimit
  <1>2. ASSUME NEW e, e = last + 1
        PROVE  /\ WithinLimit(granted[e].limits.total_tokens, TotalRows(e))'
               /\ WithinLimit(granted[e].limits.daily_tokens, DayRows(e))'
    <2> DEFINE all == CountedRows(u, last)
               day == RowsOnDate(u, Date(day_at), last)
               limits == user_limits[u]
    <2>1. /\ TotalRows(e)' = all \cup {last + 1}
          /\ limits.daily_tokens # NoLimit => DayRows(e)' \in {day, day \cup {last + 1}}
      <3> DEFINE after == {i \in 1 .. e : /\ usage_events'[i].user_id = u
                                       /\ usage_events'[i].status \in {"reserved", "success"}}
      <3>1. \A i \in 1 .. e : i \in 1 .. last \/ i = e
        BY <1>0, <1>2
      <3>2. \A i \in 1 .. last : /\ usage_events'[i] = usage_events[i]
                                 /\ i # e /\ i \in 1 .. e
        BY <1>0, <1>2
      <3>3. /\ usage_events'[e].user_id = u /\ e \in 1 .. e
            /\ usage_events'[e].status = "reserved"
            /\ usage_events'[e].timestamp = now
        BY <1>0, <1>2
      <3>4. after = all \cup {last + 1}
        BY <1>2, <3>1, <3>2, <3>3 DEF CountedRows, Counted
      <3>5. TotalRows(e)' = after
        BY <3>3 DEF TotalRows, CountedRows, Counted
      <3>6. ASSUME limits.daily_tokens # NoLimit
            PROVE  DayRows(e)' = {i \in all \cup {last + 1} :
                                     Date(usage_events'[i].timestamp) = Date(day_at)}
        <4>1. granted'[e].day = Date(day_at)
          BY <1>0, <1>2, <3>6
        <4>2. DayRows(e)' = {i \in TotalRows(e)' :
                                Date(usage_events'[i].timestamp) = Date(day_at)}
          BY <4>1 DEF DayRows, TotalRows, RowsOnDate, Date
        <4>3. QED
          BY <4>2, <3>4, <3>5
      <3>7. \A i \in all : usage_events'[i] = usage_events[i]
        BY <3>2 DEF CountedRows
      <3>8. day = {i \in all : Date(usage_events'[i].timestamp) = Date(day_at)}
        BY <3>7 DEF RowsOnDate
      <3> HIDE DEF all, day, limits, after
      <3>9. QED
        BY <3>4, <3>5, <3>6, <3>8
    <2>2. all \in SUBSET Ids /\ day \in SUBSET Ids
      BY <1>0 DEF RowsOnDate, CountedRows
    <2>3. limits.total_tokens \in Limit /\ limits.daily_tokens \in Limit
      BY DEF TypeOK, Limits
    <2>4. /\ limits.total_tokens # NoLimit =>
                 TokensOf(usage_events, all) + NonNegative(n) <= limits.total_tokens
          /\ limits.daily_tokens # NoLimit =>
                 TokensOf(usage_events, day) + NonNegative(n) <= limits.daily_tokens
      BY SumsOfTables DEF InsertReserved, AdmitsAt, TotalOk, DailyOkAt
    <2>5. granted'[e].limits = limits
      BY <1>0, <1>2
    <2> HIDE DEF all, day, limits
    <2>6. /\ limits.total_tokens # NoLimit =>
                 TokensOf(usage_events', TotalRows(e)')
                     <= limits.total_tokens
                            + OverrunsOf(usage_events', granted', TotalRows(e)')
          /\ limits.daily_tokens # NoLimit =>
                 TokensOf(usage_events', DayRows(e)')
                     <= limits.daily_tokens
                            + OverrunsOf(usage_events', granted', DayRows(e)')
      BY <2>1, <2>2, <2>3, <2>4, InsertKeepsWithin DEF Limit
    <2>7. QED
      BY <2>5, <2>6 DEF WithinLimit
  <1>3. \A e \in Ids' : /\ WithinLimit(granted[e].limits.total_tokens, TotalRows(e))'
                        /\ WithinLimit(granted[e].limits.daily_tokens, DayRows(e))'
    <2>1. \A e \in 1 .. last + 1 : e \in 1 .. last \/ e = last + 1
      BY <1>0
    <2>2. QED
      BY <1>0, <1>1, <1>2, <2>1
  <1>4. QED
    BY <1>3, SumsOfTables DEF WithinTokenLimits, WithinLimit, TotalRows, DayRows

\* A finalisation keeps every admission within its token limits: what a row
\* turns out to cost more than its estimate is an overrun.
LEMMA TokenStepSettle ==
    ASSUME TypeOK, HeldReserved, ReservedAtEstimate, WithinTokenLimits,
           NEW i \in held,
           FinalizeFailure(i) \/ \E n \in Usages : FinalizeSuccess(i, n)
    PROVE  WithinTokenLimits'
  <1>0. /\ i \in Ids /\ Ids' = Ids /\ Ids = 1 .. Len(usage_events)
        /\ Len(usage_events) \in Nat
        /\ Len(usage_events') = Len(usage_events) /\ Len(granted) = Len(usage_events)
        /\ usage_events \in Seq(Event) /\ usage_events' \in Seq(Event)
        /\ granted \in Seq(Grant) /\ granted' = granted
    BY LenProperties, SettledRow DEF TypeOK, Ids
  <1>1. /\ usage_events[i].status = "reserved"
        /\ usage_events[i].total_tokens = granted[i].estimate
        /\ \A j \in Ids : j # i => usage_events'[j] = usage_events[j]
        /\ usage_events'[i].user_id = usage_events[i].user_id
        /\ usage_events'[i].timestamp = usage_events[i].timestamp
        /\ usage_events'[i].status \in {"success", "failed"}
    BY <1>0, SettledRow DEF HeldReserved, ReservedAtEstimate
  <1>2. ASSUME NEW e \in Ids
        PROVE  /\ TotalRows(e)' \in {TotalRows(e), TotalRows(e) \ {i}}
               /\ DayRows(e)' \in {DayRows(e), DayRows(e) \ {i}}
    <2>1. 1 .. e \subseteq Ids
      BY <1>0, <1>2
    <2>2. /\ usage_events'[e].user_id = usage_events[e].user_id
          /\ usage_events'[e].timestamp = usage_events[e].timestamp
      BY <1>1, <1>2
    <2>3. \A j \in Ids : /\ usage_events'[j].user_id = usage_events[j].user_id
                         /\ usage_events'[j].timestamp = usage_events[j].timestamp
                         /\ j # i => Counted(j)' = Counted(j)
      BY <1>1 DEF Counted
    <2>4. Counted(i)
      BY <1>1 DEF Counted
    <2>5. CASE Counted(i)'
      <3>1. \A j \in Ids : Counted(j)' = Counted(j)
        BY <1>1, <2>4, <2>5 DEF Counted
      <3>2. TotalRows(e)' = TotalRows(e) /\ DayRows(e)' = DayRows(e)
        BY <1>0, <2>1, <2>2, <2>3, <3>1 DEF TotalRows, DayRows, RowsOnDate, CountedRows, Date
      <3>3. QED
        BY <3>2
    <2>6. CASE ~Counted(i)'
      <3>1. TotalRows(e)' = TotalRows(e) \ {i} /\ DayRows(e)' = DayRows(e) \ {i}
        BY <1>0, <2>1, <2>2, <2>3, <2>6 DEF TotalRows, DayRows, RowsOnDate, CountedRows, Date
      <3>2. QED
        BY <3>1
    <2>7. QED
      BY <2>5, <2>6
  <1>3. ASSUME NEW R \in SUBSET Ids, NEW R2 \in {R, R \ {i}}, NEW limit \in Limit,
               WithinLimit(limit, R)
        PROVE  limit # NoLimit =>
                   TokensOf(usage_events', R2)
                       <= limit + OverrunsOf(usage_events', granted', R2)
    <2>1. SUFFICES ASSUME limit # NoLimit
                   PROVE  TokensOf(usage_events', R2)
                              <= limit + OverrunsOf(usage_events', granted, R2)
      BY <1>0
    <2>2. /\ limit \in Nat
          /\ TokensOf(usage_events, R) <= limit + OverrunsOf(usage_events, granted, R)
      BY <1>3, <2>1 DEF WithinLimit, Limit
    <2>3. R \in SUBSET (1 .. Len(usage_events)) /\ i \in 1 .. Len(usage_events)
      BY <1>0
    <2>4. \A j \in 1 .. Len(usage_events) : j # i => usage_events'[j] = usage_events[j]
      BY <1>0, <1>1
    <2> DEFINE ev == usage_events
               ev2 == usage_events'
    <2>5. /\ ev \in Seq(Event) /\ ev2 \in Seq(Event) /\ granted \in Seq(Grant)
          /\ Len(granted) = Len(ev) /\ Len(ev2) = Len(ev)
          /\ i \in 1 .. Len(ev) /\ ev[i].total_tokens = granted[i].estimate
          /\ \A j \in 1 .. Len(ev) : j # i => ev2[j] = ev[j]
          /\ R \in SUBSET (1 .. Len(ev))
          /\ TokensOf(ev, R) <= limit + OverrunsOf(ev, granted, R)
      BY <1>0, <1>1, <2>2, <2>3, <2>4
    <2> HIDE DEF ev, ev2
    <2>6. TokensOf(ev2, R2) <= limit + OverrunsOf(ev2, granted, R2)
      BY <1>3, <2>2, <2>5, SettlingKeepsWithin
    <2>7. QED
      BY <2>6 DEF ev2
  <1>4. ASSUME NEW e \in Ids'
        PROVE  /\ WithinLimit(granted[e].limits.total_tokens, TotalRows(e))'
               /\ WithinLimit(granted[e].limits.daily_tokens, DayRows(e))'
    <2>1. e \in Ids
      BY <1>0
    <2>2. /\ TotalRows(e) \in SUBSET Ids /\ DayRows(e) \in SUBSET Ids
          /\ granted[e].limits.total_tokens \in Limit
          /\ granted[e].limits.daily_tokens \in Limit
      BY <2>1, LimitRows
    <2>3. /\ WithinLimit(granted[e].limits.total_tokens, TotalRows(e))
          /\ WithinLimit(granted[e].limits.daily_tokens, DayRows(e))
      BY <2>1, WithinTokenLimitsMeans
    <2>4. WithinLimit(granted[e].limits.total_tokens, TotalRows(e))'
      BY <1>0, <1>2, <1>3, <2>1, <2>2, <2>3 DEF WithinLimit
    <2>5. WithinLimit(granted[e].limits.daily_tokens, DayRows(e))'
      BY <1>0, <1>2, <1>3, <2>1, <2>2, <2>3 DEF WithinLimit
    <2>6. QED
      BY <2>4, <2>5
  <1>5. QED
    BY <1>4, SumsOfTables DEF WithinTokenLimits, WithinLimit, TotalRows, DayRows

\* Only INSERTs and finalisations touch what WithinTokenLimits speaks of.
LEMMA TokenStep ==
    IInv /\ ReservedAtEstimate /\ WithinTokenLimits /\ [Next]_quotaVars
        => WithinTokenLimits'
  <1> SUFFICES ASSUME IInv, ReservedAtEstimate, WithinTokenLimits, [Next]_quotaVars
               PROVE  WithinTokenLimits'
    OBVIOUS
  <1>1. CASE SomeInsert
    BY <1>1, TokenStepInsert DEF IInv, SomeInsert
  <1>2. CASE \E i \in held : FinalizeFailure(i) \/ \E n \in Usages : FinalizeSuccess(i, n)
    BY <1>2, TokenStepSettle DEF IInv
  <1>3. CASE UNCHANGED <<usage_events, granted>>
    <2>1. ASSUME NEW e \in Ids
          PROVE  /\ WithinLimit(granted[e].limits.total_tokens, TotalRows(e))'
                 /\ WithinLimit(granted[e].limits.daily_tokens, DayRows(e))'
      <3>1. TotalRows(e)' = TotalRows(e) /\ DayRows(e)' = DayRows(e)
        BY <1>3 DEF TotalRows, DayRows, RowsOnDate, CountedRows, Counted, Date
      <3>2. /\ WithinLimit(granted[e].limits.total_tokens, TotalRows(e))
            /\ WithinLimit(granted[e].limits.daily_tokens, DayRows(e))
        BY WithinTokenLimitsMeans
      <3>3. QED
        BY <1>3, <3>1, <3>2 DEF WithinLimit
    <2>2. Ids' = Ids
      BY <1>3 DEF Ids
    <2>3. QED
      BY <2>1, <2>2, SumsOfTables DEF WithinTokenLimits, WithinLimit, TotalRows, DayRows
  <1>4. QED
    BY <1>1, <1>2, <1>3, StepCases DEF IInv

\* A row enters at its estimate, and leaves the reserved ones for good.
LEMMA EstimateStep ==
    IInv /\ ReservedAtEstimate /\ [Next]_quotaVars => ReservedAtEstimate'
  <1> SUFFICES ASSUME IInv, ReservedAtEstimate, [Next]_quotaVars
               PROVE  ReservedAtEstimate'
    OBVIOUS
  <1>0. Len(usage_events) \in Nat /\ held \subseteq Ids
    BY LenProperties DEF IInv, TypeOK
  <1>1. ASSUME NEW u \in Users, NEW m \in Models, NEW n \in Estimates,
               NEW rate_at \in Times, NEW day_at \in Times,
               InsertReserved(u, m, n, rate_at, day_at)
        PROVE  ReservedAtEstimate'
    <2>1. Ids' = 1 .. Len(usage_events) + 1
      BY <1>1, InsertedRow DEF IInv, Ids
    <2>2. QED
      BY <1>0, <1>1, <2>1, InsertedRow DEF IInv, ReservedAtEstimate, Ids
  <1>2. ASSUME NEW i \in held,
               FinalizeFailure(i) \/ \E n \in Usages : FinalizeSuccess(i, n)
        PROVE  ReservedAtEstimate'
    BY <1>0, <1>2, SettledRow DEF IInv, ReservedAtEstimate, Ids
  <1>3. CASE UNCHANGED <<usage_events, granted>>
    BY <1>3 DEF ReservedAtEstimate, Ids
  <1>4. QED
    BY <1>1, <1>2, <1>3, StepCases DEF IInv, SomeInsert

\* The limits on tokens are exceeded by no more than the estimates were too
\* low, for any number of users, rows in flight, changes of the limits and
\* moves of the clock.
THEOREM TokenLimitsHold == Spec => []WithinTokenLimits
  <1>1. Init => ReservedAtEstimate /\ WithinTokenLimits
    BY DEF Init, ReservedAtEstimate, WithinTokenLimits, Ids
  <1>2. IInv /\ ReservedAtEstimate /\ WithinTokenLimits /\ [Next]_quotaVars
            => ReservedAtEstimate' /\ WithinTokenLimits'
    BY TokenStep, EstimateStep
  <1>3. QED
    BY <1>1, <1>2, Inductive, PTL DEF Spec

-----------------------------------------------------------------------------
(***************************************************************************)
(* The daily limit of the day a row is stamped with.  If that is the day   *)
(* its check read, it is WithinTokenLimits.  If it is a later one, and the *)
(* days were in order, no row before it is on it, and it is there alone,   *)
(* with an estimate for which the check found room.                        *)
(***************************************************************************)

\* No row was admitted with an estimate above its daily limit.
EstimatesFit ==
    \A e \in Ids :
        LET limit == granted[e].limits.daily_tokens
        IN  limit # NoLimit => granted[e].estimate <= limit

\* Only an INSERT makes a new estimate, and it has just passed the check.
LEMMA EstimatesFitStep ==
    IInv /\ EstimatesFit /\ [Next]_quotaVars => EstimatesFit'
  <1> SUFFICES ASSUME IInv, EstimatesFit, [Next]_quotaVars PROVE EstimatesFit'
    OBVIOUS
  <1>0. Len(usage_events) \in Nat
    BY LenProperties DEF IInv, TypeOK
  <1>1. ASSUME NEW u \in Users, NEW m \in Models, NEW n \in Estimates,
               NEW rate_at \in Times, NEW day_at \in Times,
               InsertReserved(u, m, n, rate_at, day_at)
        PROVE  EstimatesFit'
    <2> DEFINE last == Len(usage_events)
               limit == user_limits[u].daily_tokens
               day == RowsOnDate(u, Date(day_at), last)
    <2>1. /\ Ids' = 1 .. last + 1 /\ Ids = 1 .. last
          /\ \A e \in 1 .. last : granted'[e] = granted[e]
          /\ granted'[last + 1].estimate = NonNegative(n)
          /\ granted'[last + 1].limits.daily_tokens = limit
      BY <1>0, <1>1, InsertedRow DEF IInv, Ids
    <2>2. limit # NoLimit => TokensOf(usage_events, day) + NonNegative(n) <= limit
      BY <1>1, SumsOfTables DEF InsertReserved, AdmitsAt, DailyOkAt
    <2>3. day \in SUBSET (1 .. Len(usage_events))
      BY DEF RowsOnDate, CountedRows
    <2>4. TokensOf(usage_events, day) \in Nat /\ NonNegative(n) \in Nat
      BY <2>3, RowTokens, NonNegativeType, EstimatesAssumption DEF IInv, TypeOK
    <2>5. limit # NoLimit => limit \in Nat
      BY DEF IInv, TypeOK, Limits, Limit
    <2> HIDE DEF last, limit, day
    <2>6. limit # NoLimit => NonNegative(n) <= limit
      BY <2>2, <2>4, <2>5
    <2>7. last \in Nat
      BY <1>0 DEF last
    <2>8. \A e \in 1 .. last + 1 : e \in 1 .. last \/ e = last + 1
      BY <2>7
    <2>9. QED
      BY <2>1, <2>6, <2>8 DEF EstimatesFit
  <1>2. ASSUME NEW i \in held,
               FinalizeFailure(i) \/ \E n \in Usages : FinalizeSuccess(i, n)
        PROVE  EstimatesFit'
    BY <1>0, <1>2, SettledRow DEF IInv, EstimatesFit, Ids
  <1>3. CASE UNCHANGED <<usage_events, granted>>
    BY <1>3 DEF EstimatesFit, Ids
  <1>4. QED
    BY <1>1, <1>2, <1>3, StepCases DEF IInv, SomeInsert

\* The days of the ledger are numbers.
LEMMA DatesAreNumbers == ASSUME NEW t \in Times PROVE Date(t) \in Int
  BY DayAssumption, BoundsAssumption DEF Times, Date

\* The day of a row is a number, and so is the one its check read.
LEMMA DaysOfRows ==
    ASSUME TypeOK, NEW e \in Ids
    PROVE  /\ Date(usage_events[e].timestamp) \in Int
           /\ granted[e].day \in Int
  <1>1. usage_events[e] \in Event /\ granted[e] \in Grant
    BY ElementOfSeq DEF TypeOK, Ids
  <1>2. usage_events[e].timestamp \in Times
    BY <1>1 DEF Event
  <1>3. PICK t \in Times : granted[e].day = Date(t)
    BY <1>1 DEF Grant, Dates
  <1>4. QED
    BY <1>2, <1>3, DatesAreNumbers

\* What WithinTokenLimits says of the day a check read holds of the row's own.
LEMMA OwnDay ==
    ASSUME TypeOK, EstimatesFit, WithinTokenLimits
    PROVE  WithinLimitOfOwnDay
  <1> DEFINE on(e) == RowsOnDate(usage_events[e].user_id,
                                 Date(usage_events[e].timestamp), e)
             limit(e) == granted[e].limits.daily_tokens
  <1>1. ASSUME NEW e \in Ids, DaysInOrder(e), limit(e) # NoLimit
        PROVE  TokensOf(usage_events, on(e))
                   <= limit(e) + OverrunsOf(usage_events, granted, on(e))
    <2>0. /\ Len(usage_events) \in Nat /\ e \in 1 .. Len(usage_events) /\ e \in Nat
          /\ usage_events \in Seq(Event) /\ granted \in Seq(Grant)
          /\ Len(granted) = Len(usage_events)
      BY LenProperties DEF TypeOK, Ids
    <2>1. limit(e) \in Nat /\ granted[e].estimate <= limit(e)
      <3>1. granted[e].limits.daily_tokens \in Limit
        BY LimitRows
      <3>2. QED
        BY <1>1, <3>1 DEF EstimatesFit, Limit
    <2>2. CASE granted[e].day = Date(usage_events[e].timestamp)
      <3>1. on(e) = DayRows(e)
        BY <2>2 DEF DayRows
      <3>2. WithinLimit(limit(e), DayRows(e))
        BY WithinTokenLimitsMeans
      <3> HIDE DEF on, limit
      <3>3. QED
        BY <1>1, <3>1, <3>2 DEF WithinLimit
    <2>3. CASE granted[e].day # Date(usage_events[e].timestamp)
      <3>1. \A i \in 1 .. e - 1 : Date(usage_events[i].timestamp)
                                       # Date(usage_events[e].timestamp)
        <4>1. \A i \in 1 .. e - 1 : i \in Ids
          BY <2>0 DEF Ids
        <4>2. \A i \in 1 .. e - 1 : Date(usage_events[i].timestamp) \in Int
          BY <4>1, DaysOfRows
        <4>3. granted[e].day \in Int /\ Date(usage_events[e].timestamp) \in Int
          BY DaysOfRows
        <4>4. /\ granted[e].day <= Date(usage_events[e].timestamp)
              /\ \A i \in 1 .. e - 1 :
                     Date(usage_events[i].timestamp) <= granted[e].day
          BY <1>1 DEF DaysInOrder
        <4>5. QED
          BY <2>3, <4>2, <4>3, <4>4
      <3>2. on(e) \in SUBSET {e}
        <4>1. \A i \in 1 .. e : i \in 1 .. e - 1 \/ i = e
          BY <2>0
        <4>2. QED
          BY <3>1, <4>1 DEF RowsOnDate, CountedRows
      <3>3. on(e) \in SUBSET (1 .. Len(usage_events))
        BY <2>0, <3>2
      <3> DEFINE R == on(e)
      <3>4. CASE R = {}
        <4>1. SumFunctionOnSet([i \in {} |-> usage_events[i].total_tokens], {}) = 0
          BY SumOfNone
        <4>2. DOMAIN [i \in {} |-> usage_events[i].total_tokens] = {}
          OBVIOUS
        <4>3. TokensOf(usage_events, {}) = 0
          BY <4>1, <4>2 DEF TokensOf, SumFunction
        <4>4. OverrunsOf(usage_events, granted, {}) \in Nat
          BY <2>0, RowOverruns
        <4> HIDE DEF R, limit
        <4>5. TokensOf(usage_events, R)
                  <= limit(e) + OverrunsOf(usage_events, granted, R)
          BY <2>1, <3>4, <4>3, <4>4
        <4>6. QED
          BY <4>5 DEF R
      <3>5. CASE R = {e}
        <4> DEFINE over == NonNegative(usage_events[e].total_tokens - granted[e].estimate)
        <4>1. {e} \in SUBSET (1 .. Len(usage_events)) /\ e \in {e} /\ {e} \ {e} = {}
          BY <2>0
        <4>2. /\ TokensOf(usage_events, {e}) = usage_events[e].total_tokens
                                                 + TokensOf(usage_events, {e} \ {e})
              /\ usage_events[e].total_tokens \in Nat
          BY <2>0, <4>1, TokensApart, RowTokens
        <4>3. /\ OverrunsOf(usage_events, granted, {e})
                     = over + OverrunsOf(usage_events, granted, {e} \ {e})
              /\ granted[e].estimate \in Nat
          BY <2>0, <4>1, OverrunsApart, RowOverruns
        <4>4. OverrunsOf(usage_events, granted, {e} \ {e}) \in Nat
          <5>1. {e} \ {e} \in SUBSET (1 .. Len(usage_events))
            BY <4>1
          <5>2. QED
            BY <2>0, <5>1, RowOverruns
        <4>5. TokensOf(usage_events, {e} \ {e}) = 0
          <5>1. SumFunctionOnSet([i \in {} |-> usage_events[i].total_tokens], {}) = 0
            BY SumOfNone
          <5>2. DOMAIN [i \in {} |-> usage_events[i].total_tokens] = {}
            OBVIOUS
          <5>3. QED
            BY <4>1, <5>1, <5>2 DEF TokensOf, SumFunction
        <4>6. over \in Nat /\ usage_events[e].total_tokens <= granted[e].estimate + over
          BY <4>2, <4>3 DEF NonNegative
        <4> HIDE DEF R, over, limit
        <4>7. TokensOf(usage_events, {e})
                  <= limit(e) + OverrunsOf(usage_events, granted, {e})
          BY <2>1, <4>2, <4>3, <4>4, <4>5, <4>6
        <4>8. QED
          BY <3>5, <4>7 DEF R
      <3>6. R = {} \/ R = {e}
        BY <3>2
      <3>7. QED
        BY <3>4, <3>5, <3>6
    <2>4. QED
      BY <2>2, <2>3
  <1>2. QED
    BY <1>1, SumsOfTables DEF WithinLimitOfOwnDay

\* Checked before midnight and stamped after it, a row finds the new day
\* unused, unless the clock was set back over a midnight before: for any
\* number of users, rows in flight and moves of the clock.
THEOREM OwnDayLimitHolds == Spec => []WithinLimitOfOwnDay
  <1>1. Init => EstimatesFit
    BY DEF Init, EstimatesFit, Ids
  <1>2. IInv /\ EstimatesFit /\ WithinTokenLimits => WithinLimitOfOwnDay
    BY OwnDay DEF IInv
  <1>3. QED
    BY <1>1, <1>2, EstimatesFitStep, Inductive, TokenLimitsHold, PTL DEF Spec

-----------------------------------------------------------------------------
(***************************************************************************)
(* The totals.  usage_totals is kept by increments, one for each row that  *)
(* becomes a success.  That it agrees with the rows needs HeldReserved: no *)
(* row becomes a success twice, and no success is taken back.              *)
(***************************************************************************)

\* What usage_totals should say for a user and a model.
Matches(u, m) ==
    /\ usage_totals[u][m].request_count = Cardinality(SuccessRows(u, m))
    /\ usage_totals[u][m].total_tokens = TokensOf(usage_events, SuccessRows(u, m))

\* The property says so of every user and model.
LEMMA MatchesMeans ==
    /\ TotalsMatchEvents <=> \A u \in Users, m \in Models : Matches(u, m)
    /\ TotalsMatchEvents' <=> \A u \in Users, m \in Models : Matches(u, m)'
  <1>1. \A u \in Users, m \in Models :
            /\ Tokens(SuccessRows(u, m)) = TokensOf(usage_events, SuccessRows(u, m))
            /\ Tokens(SuccessRows(u, m))'
                   = TokensOf(usage_events', SuccessRows(u, m)')
    BY DEF Tokens, TokensOf
  <1>2. QED
    BY <1>1 DEF TotalsMatchEvents, Matches

\* Successful rows are rows, and they are finitely many.
LEMMA SuccessRowsFinite ==
    ASSUME TypeOK, NEW u \in Users, NEW m \in Models
    PROVE  /\ SuccessRows(u, m) \in SUBSET (1 .. Len(usage_events))
           /\ IsFiniteSet(SuccessRows(u, m))
           /\ Cardinality(SuccessRows(u, m)) \in Nat
  <1>1. SuccessRows(u, m) \in SUBSET (1 .. Len(usage_events))
    BY DEF SuccessRows, Ids
  <1>2. IsFiniteSet(SuccessRows(u, m))
    BY <1>1, RowTokens DEF TypeOK
  <1>3. QED
    BY <1>1, <1>2, FS_CardinalityType

\* A step that leaves a user's successful rows for a model alone, and the
\* totals with them, keeps the two in agreement.
LEMMA MatchesKept ==
    ASSUME TypeOK, NEW u \in Users, NEW m \in Models, Matches(u, m),
           usage_totals'[u][m] = usage_totals[u][m],
           SuccessRows(u, m)' = SuccessRows(u, m),
           \A j \in SuccessRows(u, m) : usage_events'[j] = usage_events[j]
    PROVE  Matches(u, m)'
  <1> DEFINE R == SuccessRows(u, m)
  <1>1. TokensOf(usage_events', R) = TokensOf(usage_events, R)
    BY SameTokens
  <1>2. QED
    BY <1>1 DEF Matches

\* An INSERT adds no successful row.
LEMMA TotalsStepInsert ==
    ASSUME TypeOK, TotalsMatchEvents,
           NEW u \in Users, NEW m \in Models, NEW n \in Estimates,
           NEW rate_at \in Times, NEW day_at \in Times,
           InsertReserved(u, m, n, rate_at, day_at)
    PROVE  TotalsMatchEvents'
  <1>1. ASSUME NEW v \in Users, NEW k \in Models PROVE Matches(v, k)'
    <2>1. /\ Len(usage_events) \in Nat
          /\ Ids = 1 .. Len(usage_events) /\ Ids' = 1 .. Len(usage_events) + 1
          /\ \A j \in 1 .. Len(usage_events) : usage_events'[j] = usage_events[j]
          /\ usage_events'[Len(usage_events) + 1].status = "reserved"
          /\ usage_totals' = usage_totals
      BY LenProperties, InsertedRow DEF TypeOK, Ids, InsertReserved
    <2>2. SuccessRows(v, k)' = SuccessRows(v, k)
      BY <2>1 DEF SuccessRows
    <2>3. \A j \in SuccessRows(v, k) : usage_events'[j] = usage_events[j]
      BY <2>1 DEF SuccessRows
    <2>4. QED
      BY <2>1, <2>2, <2>3, MatchesKept, MatchesMeans
  <1>2. QED
    BY <1>1, MatchesMeans

\* A failure leaves all successful rows alone: the row it settles was none.
LEMMA TotalsStepFailure ==
    ASSUME TypeOK, HeldReserved, TotalsMatchEvents, NEW i \in held, FinalizeFailure(i)
    PROVE  TotalsMatchEvents'
  <1>1. ASSUME NEW v \in Users, NEW k \in Models PROVE Matches(v, k)'
    <2>1. /\ Ids' = Ids /\ i \in Ids /\ usage_totals' = usage_totals
          /\ \A j \in Ids : j # i => usage_events'[j] = usage_events[j]
          /\ usage_events[i].status = "reserved"
      BY SettledRow DEF TypeOK, HeldReserved, Ids, FinalizeFailure
    <2>2. usage_events'[i].status = "failed"
      <3>1. usage_events[i] \in Event
        BY <2>1, ElementOfSeq DEF TypeOK, Ids
      <3>2. usage_events'[i] = [usage_events[i] EXCEPT !.status = "failed",
                                                       !.total_tokens = 0]
        <4>1. i \in DOMAIN usage_events
          BY <2>1, LenProperties DEF TypeOK, Ids
        <4>2. QED
          BY <4>1 DEF FinalizeFailure
      <3>3. QED
        BY <3>1, <3>2 DEF Event
    <2>3. SuccessRows(v, k)' = SuccessRows(v, k)
      BY <2>1, <2>2 DEF SuccessRows
    <2>4. \A j \in SuccessRows(v, k) : usage_events'[j] = usage_events[j]
      BY <2>1 DEF SuccessRows
    <2>5. QED
      BY <2>1, <2>3, <2>4, MatchesKept, MatchesMeans
  <1>2. QED
    BY <1>1, MatchesMeans

\* A success adds its row to the successful ones of its user and model, and
\* its usage to their totals.
LEMMA TotalsStepSuccess ==
    ASSUME TypeOK, HeldReserved, TotalsMatchEvents,
           NEW i \in held, NEW n \in Usages, FinalizeSuccess(i, n)
    PROVE  TotalsMatchEvents'
  <1> DEFINE e == usage_events[i]
  <1>1. /\ Ids' = Ids /\ i \in Ids /\ n \in Nat
        /\ \A j \in Ids : j # i => usage_events'[j] = usage_events[j]
        /\ e.status = "reserved" /\ e \in Event
        /\ usage_events' \in Seq(Event)
        /\ Ids = 1 .. Len(usage_events) /\ Len(usage_events') = Len(usage_events)
    BY SettledRow, ElementOfSeq, UsagesAssumption DEF TypeOK, HeldReserved, Ids
  <1>2. /\ usage_events'[i].status = "success" /\ usage_events'[i].total_tokens = n
        /\ usage_events'[i].user_id = e.user_id /\ usage_events'[i].model = e.model
    <2>1. i \in DOMAIN usage_events
      BY <1>1, LenProperties DEF TypeOK, Ids
    <2>2. usage_events'[i] = [e EXCEPT !.status = "success", !.total_tokens = n]
      BY <2>1 DEF FinalizeSuccess
    <2> HIDE DEF e
    <2>3. QED
      BY <1>1, <2>2 DEF Event
  <1>3. ASSUME NEW v \in Users, NEW k \in Models, v # e.user_id \/ k # e.model
        PROVE  Matches(v, k)'
    <2>1. usage_totals'[v][k] = usage_totals[v][k]
      BY <1>1, <1>3 DEF FinalizeSuccess, TypeOK, Event
    <2>2. SuccessRows(v, k)' = SuccessRows(v, k)
      BY <1>1, <1>2, <1>3 DEF SuccessRows
    <2>3. \A j \in SuccessRows(v, k) : usage_events'[j] = usage_events[j]
      BY <1>1 DEF SuccessRows
    <2>4. QED
      BY <2>1, <2>2, <2>3, MatchesKept, MatchesMeans
  <1>4. ASSUME NEW u \in Users, NEW m \in Models, u = e.user_id, m = e.model
        PROVE  Matches(u, m)'
    <2> DEFINE old == SuccessRows(u, m)
               new == old \cup {i}
    <2>1. /\ usage_totals'[u][m].total_tokens = usage_totals[u][m].total_tokens + n
          /\ usage_totals'[u][m].request_count = usage_totals[u][m].request_count + 1
      BY <1>4 DEF FinalizeSuccess, TypeOK
    <2>2. i \notin old /\ old \in SUBSET Ids /\ new \in SUBSET Ids
      BY <1>1 DEF SuccessRows
    <2>3. \A j \in old : usage_events'[j] = usage_events[j]
      BY <1>1, <2>2
    <2>4. {j \in Ids' : /\ usage_events'[j].user_id = u
                        /\ usage_events'[j].model = m
                        /\ usage_events'[j].status = "success"} = new
      BY <1>1, <1>2, <1>4, <2>2 DEF SuccessRows
    <2>5. /\ usage_totals[u][m].request_count = Cardinality(old)
          /\ usage_totals[u][m].total_tokens = TokensOf(usage_events, old)
      BY MatchesMeans DEF Matches
    <2>6. /\ IsFiniteSet(old) /\ Cardinality(old) \in Nat
          /\ TokensOf(usage_events, old) \in Nat
      BY <1>1, <2>2, SuccessRowsFinite, RowTokens DEF TypeOK
    <2> HIDE DEF old, e
    <2>7. Cardinality(new) = Cardinality(old) + 1
      BY <2>2, <2>6, FS_AddElement
    <2>8. TokensOf(usage_events', new) = n + TokensOf(usage_events, old)
      <3>1. new \in SUBSET (1 .. Len(usage_events')) /\ i \in new /\ new \ {i} = old
        BY <1>1, <2>2
      <3> HIDE DEF new
      <3>2. TokensOf(usage_events', new)
                = usage_events'[i].total_tokens + TokensOf(usage_events', old)
        BY <1>1, <3>1, TokensApart
      <3>3. TokensOf(usage_events', old) = TokensOf(usage_events, old)
        BY <2>3, SameTokens
      <3>4. QED
        BY <1>2, <3>2, <3>3
    <2> HIDE DEF new
    <2>9. /\ usage_totals'[u][m].request_count = Cardinality(new)
          /\ usage_totals'[u][m].total_tokens = TokensOf(usage_events', new)
      BY <1>1, <2>1, <2>5, <2>6, <2>7, <2>8
    <2>10. QED
      <3>1. SuccessRows(u, m)' = new
        BY <2>4 DEF SuccessRows
      <3>2. QED
        BY <2>9, <3>1 DEF Matches
  <1>5. ASSUME NEW v \in Users, NEW k \in Models PROVE Matches(v, k)'
    BY <1>3, <1>4
  <1>6. QED
    BY <1>5, MatchesMeans

\* Each step keeps the two copies equal.
LEMMA TotalsStep == IInv /\ TotalsMatchEvents /\ [Next]_quotaVars => TotalsMatchEvents'
  <1> SUFFICES ASSUME IInv, TotalsMatchEvents, [Next]_quotaVars
               PROVE  TotalsMatchEvents'
    OBVIOUS
  <1>1. CASE SomeInsert
    BY <1>1, TotalsStepInsert DEF IInv, SomeInsert
  <1>2. CASE \E i \in held : FinalizeFailure(i)
    BY <1>2, TotalsStepFailure DEF IInv
  <1>3. CASE \E i \in held, n \in Usages : FinalizeSuccess(i, n)
    BY <1>3, TotalsStepSuccess DEF IInv
  <1>4. CASE UNCHANGED <<usage_events, usage_totals>>
    <2>1. ASSUME NEW u \in Users, NEW m \in Models PROVE Matches(u, m)'
      <3>1. SuccessRows(u, m)' = SuccessRows(u, m)
        BY <1>4 DEF SuccessRows, Ids
      <3>2. QED
        BY <1>4, <3>1, MatchesKept, MatchesMeans DEF IInv
    <2>2. QED
      BY <2>1, MatchesMeans
  <1>5. QED
    BY <1>1, <1>2, <1>3, <1>4, StepCases DEF IInv

\* The copy agrees with the rows at all times: a summary that reads it says
\* what the rows say, whatever order requests were finalised in, for any number
\* of users, models and rows.
THEOREM TotalsAgree == Spec => []TotalsMatchEvents
  <1>1. Init => TotalsMatchEvents
    <2> SUFFICES ASSUME Init PROVE TotalsMatchEvents
      OBVIOUS
    <2>1. ASSUME NEW u \in Users, NEW m \in Models PROVE Matches(u, m)
      <3>1. SuccessRows(u, m) = {}
        BY DEF Init, SuccessRows, Ids
      <3>2. TokensOf(usage_events, {}) = 0
        <4>1. DOMAIN [i \in {} |-> usage_events[i].total_tokens] = {}
          OBVIOUS
        <4>2. QED
          BY <4>1, SumOfNone DEF TokensOf, SumFunction
      <3>3. /\ usage_totals[u][m].request_count = 0
            /\ usage_totals[u][m].total_tokens = 0
        BY DEF Init
      <3>4. QED
        BY <3>1, <3>2, <3>3, FS_EmptySet DEF Matches
    <2>2. QED
      BY <2>1, MatchesMeans
  <1>2. QED
    BY <1>1, TotalsStep, Inductive, PTL DEF Spec
=============================================================================

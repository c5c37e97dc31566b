---------------------- MODULE ConcurrencyLimiterProofs ----------------------
(***************************************************************************)
(* Theorems about ConcurrencyLimiter, for any clients and any configured   *)
(* concurrency, zero and negative ones included.                           *)
(***************************************************************************)
EXTENDS ConcurrencyLimiter, FiniteSetTheorems, SequenceTheorems, TLAPS

\* A task waits at most once, and not inside the block.
EachOnce(q) == \A i, j \in 1 .. Len(q) : q[i] = q[j] => i = j

QueuedOnce == EachOnce(queue) /\ holders \cap Waiters = {}

FiniteSets == IsFiniteSet(woken) /\ IsFiniteSet(holders)

\* The inductive invariant.  Without QueuedOnce a resumption could add a task
\* to the block that is in it already, and the count would be wrong.
LInv == TypeOK /\ QueuedOnce /\ FiniteSets /\ PermitsConserved

-----------------------------------------------------------------------------
\* There is at least one permit, whatever is configured.
LEMMA PermitsPositive == Permits \in Nat \ {0}
  BY MaxConcurrencyAssumption DEF Permits

\* Taking a task out of the queue keeps the others, each once and in order.
LEMMA WithoutOne ==
    ASSUME queue \in Seq(Clients), EachOnce(queue), NEW c \in Waiters
    PROVE  /\ Without(c) \in Seq(Clients)
           /\ EachOnce(Without(c))
           /\ ToSet(Without(c)) = Waiters \ {c}
           /\ \A i, j \in 1 .. Len(queue) :
                 (i < j /\ queue[i] # c /\ queue[j] # c) =>
                     \E k, l \in 1 .. Len(Without(c)) :
                        k < l /\ Without(c)[k] = queue[i] /\ Without(c)[l] = queue[j]
  <1> DEFINE n == Len(queue)
             at == CHOOSE i \in 1 .. Len(queue) : queue[i] = c
             front == SubSeq(queue, 1, at - 1)
             back == SubSeq(queue, at + 1, n)
             rest == front \o back
  <1>1. n \in Nat /\ queue \in [1 .. n -> Clients]
    BY LenProperties
  <1>2. at \in 1 .. n /\ queue[at] = c
    BY <1>1 DEF Waiters, ToSet
  <1>3. Without(c) = rest
    BY DEF Without, RemoveAt
  <1> HIDE DEF at
  <1>4. /\ front \in Seq(Clients) /\ Len(front) = at - 1
        /\ \A k \in 1 .. at - 1 : front[k] = queue[k]
    <2>1. \A k \in 1 .. at - 1 : queue[k] \in Clients
      BY <1>1, <1>2
    <2>2. front = [k \in 1 .. at - 1 |-> queue[k]]
      BY <1>1, <1>2, SMT
    <2>3. QED
      BY <1>1, <1>2, <2>1, <2>2, IsASeq, SubSeqProperties
  <1>5. /\ back \in Seq(Clients) /\ Len(back) = n - at
        /\ \A k \in 1 .. n - at : back[k] = queue[at + k]
    <2>1. \A k \in at + 1 .. n : queue[k] \in Clients
      BY <1>1, <1>2
    <2>2. back \in Seq(Clients)
      BY <1>1, <1>2, <2>1, SubSeqProperties, SMT
    <2>3. Len(back) = n - at /\ \A k \in 1 .. n - at : back[k] = queue[at + k]
      <3>1. SubSeq(queue, at + 1, n)
              = [k \in 1 .. n - at |-> queue[at + k]]
        BY <1>1, <1>2, SMT
      <3>2. \A k \in 1 .. n - at : back[k] = queue[at + k]
        BY <3>1
      <3>3. Len(back) = n - at
        BY <1>1, <1>2, <2>1, SubSeqProperties, SMT
      <3>4. QED
        BY <3>2, <3>3
    <2>4. QED
      BY <2>2, <2>3
  <1> HIDE DEF front, back
  <1>6. /\ rest \in Seq(Clients) /\ Len(rest) = n - 1
        /\ \A k \in 1 .. n - 1 :
              rest[k] = IF k < at THEN queue[k] ELSE queue[k + 1]
    <2>1. /\ rest \in Seq(Clients) /\ Len(rest) = Len(front) + Len(back)
          /\ \A k \in 1 .. Len(front) + Len(back) :
                rest[k] = IF k <= Len(front) THEN front[k] ELSE back[k - Len(front)]
      BY <1>4, <1>5, ConcatProperties
    <2>2. ASSUME NEW k \in 1 .. n - 1, k < at
          PROVE  rest[k] = queue[k]
      BY <1>1, <1>2, <1>4, <1>5, <2>1, <2>2
    <2>3. ASSUME NEW k \in 1 .. n - 1, ~(k < at)
          PROVE  rest[k] = queue[k + 1]
      <3>1. k - (at - 1) \in 1 .. n - at /\ at + (k - (at - 1)) = k + 1
        BY <1>1, <1>2, <2>3
      <3>2. rest[k] = back[k - (at - 1)]
        BY <1>1, <1>2, <1>4, <1>5, <2>1, <2>3
      <3>3. QED
        BY <1>5, <3>1, <3>2
    <2>4. QED
      BY <1>1, <1>2, <1>4, <1>5, <2>1, <2>2, <2>3
  <1> HIDE DEF rest
  <1> DEFINE old(k) == IF k < at THEN k ELSE k + 1
             new(i) == IF i < at THEN i ELSE i - 1
  <1>7. \A k \in 1 .. n - 1 : old(k) \in 1 .. n /\ old(k) # at /\ rest[k] = queue[old(k)]
    BY <1>1, <1>2, <1>6
  <1>8. \A i \in 1 .. n : queue[i] # c =>
            new(i) \in 1 .. n - 1 /\ rest[new(i)] = queue[i]
    BY <1>1, <1>2, <1>6
  <1>9. EachOnce(rest)
    <2>1. ASSUME NEW k \in 1 .. n - 1, NEW l \in 1 .. n - 1, rest[k] = rest[l]
          PROVE  k = l
      <3>1. old(k) = old(l)
        BY <1>7, <2>1 DEF EachOnce
      <3>2. QED
        BY <3>1, <1>1, <1>2
    <2>2. QED
      BY <1>6, <2>1 DEF EachOnce
  <1>10. ToSet(rest) = Waiters \ {c}
    <2>1. DOMAIN rest = 1 .. n - 1 /\ DOMAIN queue = 1 .. n
      BY <1>1, <1>6, LenProperties
    <2>2. ASSUME NEW x \in ToSet(rest) PROVE x \in Waiters \ {c}
      <3>1. PICK k \in 1 .. n - 1 : x = rest[k]
        BY <2>1, <2>2 DEF ToSet
      <3>2. old(k) \in 1 .. n /\ old(k) # at /\ x = queue[old(k)]
        BY <1>7, <3>1
      <3>3. x # c
        BY <1>2, <3>2 DEF EachOnce
      <3>4. QED
        BY <2>1, <3>2, <3>3 DEF Waiters, ToSet
    <2>3. ASSUME NEW x \in Waiters \ {c} PROVE x \in ToSet(rest)
      <3>1. PICK i \in 1 .. n : x = queue[i]
        BY <2>1, <2>3 DEF Waiters, ToSet
      <3>2. new(i) \in 1 .. n - 1 /\ rest[new(i)] = x
        BY <1>8, <2>3, <3>1
      <3>3. QED
        BY <2>1, <3>2 DEF ToSet
    <2>4. QED
      BY <2>2, <2>3
  <1>11. ASSUME NEW i \in 1 .. n, NEW j \in 1 .. n,
                i < j, queue[i] # c, queue[j] # c
         PROVE  /\ new(i) \in 1 .. Len(rest) /\ new(j) \in 1 .. Len(rest)
                /\ new(i) < new(j)
                /\ rest[new(i)] = queue[i] /\ rest[new(j)] = queue[j]
    BY <1>1, <1>2, <1>6, <1>8, <1>11
  <1> HIDE DEF new
  <1>12. QED
    BY <1>3, <1>6, <1>9, <1>10, <1>11

-----------------------------------------------------------------------------
\* If a task of the queue is not woken, FirstAsleep is the place of the
\* oldest such task.
LEMMA FirstAsleepIsOldest ==
    ASSUME NEW q \in Seq(Clients), NEW w, ~(ToSet(q) \subseteq w)
    PROVE  /\ FirstAsleep(q, w) \in 1 .. Len(q)
           /\ q[FirstAsleep(q, w)] \notin w
           /\ \A j \in 1 .. FirstAsleep(q, w) - 1 : q[j] \in w
  <1> DEFINE Asleep == {i \in 1 .. Len(q) : q[i] \notin w}
             Less == OpToRel(<, Nat)
  <1>1. Len(q) \in Nat /\ DOMAIN q = 1 .. Len(q)
    BY LenProperties
  <1>2. Asleep \subseteq Nat /\ Asleep # {}
    BY <1>1 DEF ToSet
  <1>3. \A i, j \in Nat : j < i => <<j, i>> \in Less
    BY DEF OpToRel
  <1> HIDE DEF Less
  <1>4. PICK i \in Asleep : \A j \in Asleep : <<j, i>> \notin Less
    <2> HIDE DEF Asleep
    <2>1. IsWellFoundedOn(Less, Nat)
      BY NatLessThanWellFounded DEF Less
    <2>2. QED
      BY <1>2, <2>1, WFMin
  <1>5. \A j \in 1 .. i - 1 : q[j] \in w
    <2>1. \A j \in 1 .. i - 1 : j \in Nat /\ i \in Nat /\ j < i /\ j \in 1 .. Len(q)
      BY <1>1, <1>4
    <2>2. QED
      BY <1>3, <1>4, <2>1
  <1>6. \E k \in 1 .. Len(q) : q[k] \notin w /\ \A j \in 1 .. k - 1 : q[j] \in w
    BY <1>4, <1>5
  <1>7. QED
    BY <1>6 DEF FirstAsleep

\* _wake_up_next moves at most one free permit, to the oldest waiting task
\* without one, and leaves somebody woken unless nobody waits.
LEMMA WakeUp ==
    ASSUME NEW free \in Int, NEW q \in Seq(Clients), NEW w \in SUBSET ToSet(q),
           IsFiniteSet(w), WakeUpNext(free, q, w)
    PROVE  /\ value' \in {free, free - 1}
           /\ w \subseteq woken' /\ woken' \subseteq ToSet(q)
           /\ IsFiniteSet(woken')
           /\ value' + Cardinality(woken') = free + Cardinality(w)
           /\ ToSet(q) \subseteq woken' \/ woken' # {}
           /\ \A x \in woken' \ w : \E l \in 1 .. Len(q) :
                 q[l] = x /\ \A k \in 1 .. l - 1 : q[k] \in w
  <1>1. Len(q) \in Nat /\ DOMAIN q = 1 .. Len(q)
    BY LenProperties
  <1>2. CASE ToSet(q) \subseteq w
    BY <1>2, FS_CardinalityType DEF WakeUpNext
  <1>3. CASE ~(ToSet(q) \subseteq w)
    <2> DEFINE at == FirstAsleep(q, w)
    <2>1. /\ at \in 1 .. Len(q) /\ q[at] \notin w
          /\ \A j \in 1 .. at - 1 : q[j] \in w
      BY <1>3, FirstAsleepIsOldest
    <2>2. value' = free - 1 /\ woken' = w \cup {q[at]}
      BY <1>3 DEF WakeUpNext
    <2> HIDE DEF at
    <2>3. IsFiniteSet(woken') /\ Cardinality(woken') = Cardinality(w) + 1
      BY <2>1, <2>2, FS_AddElement
    <2>4. q[at] \in ToSet(q)
      BY <1>1, <2>1 DEF ToSet
    <2>5. Cardinality(w) \in Nat
      BY FS_CardinalityType
    <2>6. QED
      BY <2>1, <2>2, <2>3, <2>4, <2>5
  <1>4. QED
    BY <1>2, <1>3

\* What a resumption or a cancellation leaves behind: the task is out of the
\* queue and no longer woken, and at most one other has been.
LEMMA Unqueued ==
    ASSUME TypeOK, QueuedOnce, FiniteSets, NEW c \in Waiters,
           queue' = Without(c)
    PROVE  /\ Without(c) \in Seq(Clients)
           /\ EachOnce(queue')
           /\ Waiters' = Waiters \ {c} /\ Waiters' = ToSet(Without(c))
           /\ woken \ {c} \subseteq Waiters' /\ IsFiniteSet(woken \ {c})
           /\ Cardinality(woken \ {c})
                 = IF c \in woken THEN Cardinality(woken) - 1 ELSE Cardinality(woken)
  <1>1. /\ Without(c) \in Seq(Clients) /\ EachOnce(Without(c))
        /\ ToSet(Without(c)) = Waiters \ {c}
    BY WithoutOne DEF TypeOK, QueuedOnce
  <1>2. Waiters' = ToSet(Without(c))
    BY DEF Waiters
  <1>3. QED
    BY <1>1, <1>2, FS_RemoveElement DEF TypeOK, FiniteSets

\* The invariant holds when the process has built its limiter.
LEMMA InitLInv == Init => LInv
  <1> SUFFICES ASSUME Init PROVE LInv
    OBVIOUS
  <1>1. Waiters = {} /\ Len(queue) = 0
    BY DEF Init, Waiters, ToSet
  <1>2. QED
    BY <1>1, PermitsPositive, FS_EmptySet
       DEF Init, LInv, TypeOK, QueuedOnce, EachOnce, FiniteSets, PermitsConserved

\* Every step keeps the invariant.
LEMMA NextLInv == LInv /\ [Next]_limiterVars => LInv'
  <1> SUFFICES ASSUME LInv, [Next]_limiterVars PROVE LInv'
    OBVIOUS
  <1> USE DEF LInv
  <1>1. /\ Cardinality(woken) \in Nat /\ Cardinality(holders) \in Nat
        /\ Permits \in Nat \ {0} /\ value \in Nat
    BY FS_CardinalityType, PermitsPositive DEF FiniteSets, TypeOK
  \* It is enough to keep the count: the bound on `value` follows from it.
  <1>2. ASSUME value' \in Nat, queue' \in Seq(Clients), woken' \subseteq Waiters',
               holders' \subseteq Clients, QueuedOnce', FiniteSets',
               value' + Cardinality(woken') + Cardinality(holders') = Permits
        PROVE  LInv'
    <2>1. Cardinality(woken') \in Nat /\ Cardinality(holders') \in Nat
      BY <1>2, FS_CardinalityType DEF FiniteSets
    <2>2. value' \in 0 .. Permits
      BY <1>1, <1>2, <2>1
    <2>3. Permits' = Permits /\ woken' \cap holders' = {}
      BY <1>2 DEF QueuedOnce, Permits
    <2>4. QED
      BY <1>2, <2>2, <2>3 DEF TypeOK, PermitsConserved
  <1>3. ASSUME NEW c \in Clients, Enter(c) PROVE LInv'
    <2>1. value' = value - 1 /\ value' \in Nat
      BY <1>1, <1>3 DEF Enter, Locked
    <2>2. IsFiniteSet(holders') /\ Cardinality(holders') = Cardinality(holders) + 1
      BY <1>3, FS_AddElement DEF Enter, FiniteSets
    <2>3. Waiters' = Waiters /\ QueuedOnce'
      BY <1>3 DEF Enter, Waiters, QueuedOnce, EachOnce
    <2>4. QED
      BY <1>1, <1>2, <1>3, <2>1, <2>2, <2>3
         DEF Enter, TypeOK, FiniteSets, PermitsConserved
  <1>4. ASSUME NEW c \in Clients, Wait(c) PROVE LInv'
    <2>1. /\ Len(queue) \in Nat /\ DOMAIN queue = 1 .. Len(queue)
          /\ queue' \in Seq(Clients) /\ Len(queue') = Len(queue) + 1
          /\ \A i \in 1 .. Len(queue) : queue'[i] = queue[i]
          /\ queue'[Len(queue) + 1] = c
      BY <1>4, LenProperties, AppendProperties DEF Wait, TypeOK
    <2>2. DOMAIN queue' = 1 .. Len(queue) + 1
      BY <2>1, LenProperties
    <2>3. Waiters' = Waiters \cup {c}
      BY <2>1, <2>2 DEF Waiters, ToSet
    <2>4. \A i \in 1 .. Len(queue) : queue[i] # c
      BY <1>4, <2>1 DEF Wait, Waiters, ToSet
    <2>5. EachOnce(queue')
      BY <2>1, <2>4 DEF EachOnce, QueuedOnce
    <2>6. QED
      BY <1>1, <1>2, <1>4, <2>1, <2>3, <2>5
         DEF Wait, TypeOK, QueuedOnce, FiniteSets, PermitsConserved
  <1>5. ASSUME NEW c \in Clients, Resume(c) PROVE LInv'
    <2>1. c \in Waiters /\ c \notin holders /\ queue' = Without(c)
      BY <1>5 DEF Resume, TypeOK, QueuedOnce
    <2>2. /\ Without(c) \in Seq(Clients) /\ EachOnce(queue')
          /\ Waiters' = Waiters \ {c} /\ Waiters' = ToSet(Without(c))
          /\ woken \ {c} \subseteq Waiters' /\ IsFiniteSet(woken \ {c})
          /\ Cardinality(woken \ {c}) = Cardinality(woken) - 1
      BY <1>5, <2>1, Unqueued DEF Resume
    <2>3. IsFiniteSet(holders') /\ Cardinality(holders') = Cardinality(holders) + 1
      BY <1>5, <2>1, FS_AddElement DEF Resume, FiniteSets
    <2>4. QueuedOnce' /\ holders' \subseteq Clients
      BY <1>5, <2>2 DEF Resume, QueuedOnce, TypeOK
    <2>5. /\ value' \in Nat /\ woken' \subseteq Waiters' /\ IsFiniteSet(woken')
          /\ value' + Cardinality(woken') = value + Cardinality(woken \ {c})
      <3>1. CASE value > 0
        <4>1. WakeUpNext(value, Without(c), woken \ {c})
          BY <1>5, <3>1 DEF Resume
        <4>2. value' \in {value, value - 1}
          BY <1>1, <2>2, <4>1, WakeUp
        <4>3. QED
          BY <1>1, <2>2, <3>1, <4>1, <4>2, WakeUp
      <3>2. CASE ~(value > 0)
        BY <1>1, <1>5, <2>2, <3>2 DEF Resume
      <3>3. QED
        BY <3>1, <3>2
    <2>6. QED
      BY <1>1, <1>2, <2>1, <2>2, <2>3, <2>4, <2>5 DEF FiniteSets, PermitsConserved
  <1>6. ASSUME NEW c \in Clients, CancelWait(c) PROVE LInv'
    <2>1. c \in Waiters /\ queue' = Without(c) /\ holders' = holders
      BY <1>6 DEF CancelWait
    <2>2. /\ Without(c) \in Seq(Clients) /\ EachOnce(queue')
          /\ Waiters' = Waiters \ {c} /\ Waiters' = ToSet(Without(c))
          /\ woken \ {c} \subseteq Waiters' /\ IsFiniteSet(woken \ {c})
          /\ Cardinality(woken \ {c})
                = IF c \in woken THEN Cardinality(woken) - 1 ELSE Cardinality(woken)
      BY <2>1, Unqueued
    <2>3. QueuedOnce'
      BY <2>1, <2>2 DEF QueuedOnce
    <2>4. /\ value' \in Nat /\ woken' \subseteq Waiters' /\ IsFiniteSet(woken')
          /\ value' + Cardinality(woken') = value + Cardinality(woken)
      <3>1. CASE c \in woken
        <4>1. WakeUpNext(value + 1, Without(c), woken \ {c})
          BY <1>6, <3>1 DEF CancelWait
        <4>2. value' \in {value + 1, (value + 1) - 1}
          BY <1>1, <2>2, <4>1, WakeUp
        <4>3. value' + Cardinality(woken') = (value + 1) + Cardinality(woken \ {c})
          BY <1>1, <2>2, <4>1, WakeUp
        <4>4. woken' \subseteq ToSet(Without(c)) /\ IsFiniteSet(woken')
          BY <1>1, <2>2, <4>1, WakeUp
        <4>5. QED
          BY <1>1, <2>2, <3>1, <4>2, <4>3, <4>4
      <3>2. CASE c \notin woken
        BY <1>1, <1>6, <2>2, <3>2 DEF CancelWait, TypeOK, FiniteSets
      <3>3. QED
        BY <3>1, <3>2
    <2>5. QED
      BY <1>1, <1>2, <2>1, <2>2, <2>3, <2>4 DEF TypeOK, FiniteSets, PermitsConserved
  <1>7. ASSUME NEW c \in Clients, Leave(c) PROVE LInv'
    <2>1. /\ c \in holders /\ holders' = holders \ {c} /\ queue' = queue
          /\ WakeUpNext(value + 1, queue, woken)
      BY <1>7 DEF Leave
    <2>2. Waiters' = Waiters /\ QueuedOnce'
      BY <2>1 DEF QueuedOnce, EachOnce, Waiters
    <2>3. IsFiniteSet(holders') /\ Cardinality(holders') = Cardinality(holders) - 1
      BY <2>1, FS_RemoveElement DEF FiniteSets
    <2>4. /\ value' \in {value + 1, (value + 1) - 1}
          /\ woken' \subseteq Waiters /\ IsFiniteSet(woken')
          /\ value' + Cardinality(woken') = (value + 1) + Cardinality(woken)
      <3>1. /\ queue \in Seq(Clients) /\ woken \in SUBSET ToSet(queue)
            /\ IsFiniteSet(woken) /\ value + 1 \in Int /\ Waiters = ToSet(queue)
        BY <1>1 DEF TypeOK, FiniteSets, Waiters
      <3>2. value' \in {value + 1, (value + 1) - 1}
        BY <2>1, <3>1, WakeUp
      <3>3. QED
        BY <2>1, <3>1, <3>2, WakeUp
    <2>5. QED
      BY <1>1, <1>2, <2>1, <2>2, <2>3, <2>4 DEF TypeOK, FiniteSets, PermitsConserved
  <1>8. CASE Restart
    <2>1. Init'
      BY <1>8 DEF Restart, Init, Permits
    <2>2. QED
      BY <2>1, InitLInv, PTL
  <1>9. CASE UNCHANGED limiterVars
    BY <1>9 DEF limiterVars, TypeOK, QueuedOnce, FiniteSets, PermitsConserved, Waiters,
                EachOnce, Permits
  <1>10. QED
    BY <1>3, <1>4, <1>5, <1>6, <1>7, <1>8, <1>9 DEF Next

\* LInv holds in every reachable state.
LEMMA LimiterInductive == Spec => []LInv
  BY InitLInv, NextLInv, PTL DEF Spec

\* The limiter's variables keep their types; the counter stays within the
\* number of permits.
THEOREM LimiterTypeCorrect == Spec => []TypeOK
  <1>1. LInv => TypeOK
    BY DEF LInv
  <1>2. QED
    BY <1>1, LimiterInductive, PTL

\* Whatever the order of releases, hand-overs, resumptions and
\* cancellations, and for any number of tasks and permits, every permit is
\* free, held or on its way to one task: none is lost and none is made up.
THEOREM PermitsNeverLost == Spec => []PermitsConserved
  <1>1. LInv => PermitsConserved
    BY DEF LInv
  <1>2. QED
    BY <1>1, LimiterInductive, PTL

-----------------------------------------------------------------------------
\* Every step that frees a permit or takes a woken task away leaves a woken
\* task behind if anybody still waits.
LEMMA NextNoLostWakeUp ==
    LInv /\ NoLostWakeUp /\ [Next]_limiterVars => NoLostWakeUp'
  <1> SUFFICES ASSUME LInv, NoLostWakeUp, [Next]_limiterVars PROVE NoLostWakeUp'
    OBVIOUS
  <1>1. /\ value \in Nat /\ queue \in Seq(Clients) /\ woken \in SUBSET ToSet(queue)
        /\ IsFiniteSet(woken) /\ Waiters = ToSet(queue) /\ value + 1 \in Int
    BY PermitsPositive DEF LInv, TypeOK, FiniteSets, Waiters
  \* After a wake-up everybody is woken, or somebody is.
  <1>2. ASSUME Waiters' \subseteq woken' \/ woken' # {}
        PROVE  NoLostWakeUp'
    BY <1>2 DEF NoLostWakeUp
  <1>3. ASSUME NEW c \in Clients, Enter(c) PROVE NoLostWakeUp'
    <2>1. Waiters' = {}
      BY <1>3 DEF Enter, Locked, Waiters, ToSet
    <2>2. QED
      BY <1>2, <2>1
  <1>4. ASSUME NEW c \in Clients, Wait(c) PROVE NoLostWakeUp'
    <2>1. CASE value = 0
      BY <1>4, <2>1 DEF Wait, NoLostWakeUp
    <2>2. CASE value # 0 /\ queue # <<>>
      <3>1. Waiters # {}
        <4>1. Len(queue) \in Nat \ {0} /\ DOMAIN queue = 1 .. Len(queue)
          BY <1>1, <2>2, LenProperties, EmptySeq
        <4>2. queue[1] \in Waiters
          BY <1>1, <4>1 DEF ToSet
        <4>3. QED
          BY <4>2
      <3>2. woken # {}
        BY <1>1, <2>2, <3>1 DEF NoLostWakeUp
      <3>3. QED
        BY <1>2, <1>4, <3>2 DEF Wait
    <2>3. QED
      BY <1>4, <2>1, <2>2 DEF Wait, Locked
  <1>5. ASSUME NEW c \in Clients, Resume(c) PROVE NoLostWakeUp'
    <2>1. /\ Without(c) \in Seq(Clients) /\ Waiters' = ToSet(Without(c))
          /\ woken \ {c} \in SUBSET ToSet(Without(c)) /\ IsFiniteSet(woken \ {c})
      BY <1>1, <1>5, Unqueued DEF Resume, LInv
    <2>2. CASE value > 0
      <3>1. WakeUpNext(value, Without(c), woken \ {c})
        BY <1>5, <2>2 DEF Resume
      <3>2. ToSet(Without(c)) \subseteq woken' \/ woken' # {}
        BY <1>1, <2>1, <3>1, WakeUp
      <3>3. QED
        BY <1>2, <2>1, <3>2
    <2>3. CASE ~(value > 0)
      BY <1>5, <2>3 DEF Resume, NoLostWakeUp
    <2>4. QED
      BY <2>2, <2>3
  <1>6. ASSUME NEW c \in Clients, CancelWait(c) PROVE NoLostWakeUp'
    <2>1. /\ Without(c) \in Seq(Clients) /\ Waiters' = ToSet(Without(c))
          /\ Waiters' = Waiters \ {c}
          /\ woken \ {c} \in SUBSET ToSet(Without(c)) /\ IsFiniteSet(woken \ {c})
      BY <1>6, Unqueued DEF CancelWait, LInv
    <2>2. CASE c \in woken
      <3>1. WakeUpNext(value + 1, Without(c), woken \ {c})
        BY <1>6, <2>2 DEF CancelWait
      <3>2. ToSet(Without(c)) \subseteq woken' \/ woken' # {}
        BY <1>1, <2>1, <3>1, WakeUp
      <3>3. QED
        BY <1>2, <2>1, <3>2
    <2>3. CASE c \notin woken
      BY <1>6, <2>1, <2>3 DEF CancelWait, NoLostWakeUp
    <2>4. QED
      BY <2>2, <2>3
  <1>7. ASSUME NEW c \in Clients, Leave(c) PROVE NoLostWakeUp'
    <2>1. WakeUpNext(value + 1, queue, woken) /\ Waiters' = ToSet(queue)
      BY <1>7 DEF Leave, Waiters
    <2>2. ToSet(queue) \subseteq woken' \/ woken' # {}
      BY <1>1, <2>1, WakeUp
    <2>3. QED
      BY <1>2, <2>1, <2>2
  <1>8. CASE Restart
    <2>1. Waiters' = {}
      BY <1>8 DEF Restart, Waiters, ToSet
    <2>2. QED
      BY <1>2, <2>1
  <1>9. CASE UNCHANGED limiterVars
    BY <1>9 DEF limiterVars, NoLostWakeUp, Waiters
  <1>10. QED
    BY <1>3, <1>4, <1>5, <1>6, <1>7, <1>8, <1>9 DEF Next

\* No wake-up is lost: a free permit and a request nobody has woken never
\* stand side by side unless a woken task is about to pass the wake-up on.
THEOREM WakeUpsNeverLost == Spec => []NoLostWakeUp
  <1>1. Init => NoLostWakeUp
    BY DEF Init, NoLostWakeUp, Waiters, ToSet
  <1>2. QED
    BY <1>1, LimiterInductive, NextNoLostWakeUp, PTL DEF Spec

-----------------------------------------------------------------------------
\* In a queue that a task left, one that _wake_up_next picks has nobody
\* unwoken before it, so nobody who was before it in the old queue either.
LEMMA NotPassedOver ==
    ASSUME LInv, NEW c \in Waiters, NEW free \in Int,
           WakeUpNext(free, Without(c), woken \ {c}), queue' = Without(c),
           NEW i \in 1 .. Len(queue), NEW j \in 1 .. Len(queue), i < j,
           queue[i] \notin woken, queue[j] \notin woken, c \in woken
    PROVE  queue[j] \notin woken'
  <1> DEFINE rest == Without(c)
  <1> SUFFICES ASSUME queue[j] \in woken' PROVE FALSE
    OBVIOUS
  <1>1. /\ rest \in Seq(Clients) /\ EachOnce(rest)
        /\ woken \ {c} \in SUBSET ToSet(rest) /\ IsFiniteSet(woken \ {c})
    BY Unqueued DEF LInv
  <1>2. PICK l \in 1 .. Len(rest) :
             rest[l] = queue[j] /\ \A k \in 1 .. l - 1 : rest[k] \in woken \ {c}
    <2> DEFINE others == woken \ {c}
    <2>1. /\ rest \in Seq(Clients) /\ others \in SUBSET ToSet(rest)
          /\ IsFiniteSet(others) /\ WakeUpNext(free, rest, others)
          /\ queue[j] \in woken' \ others /\ free \in Int
      BY <1>1
    <2> HIDE DEF rest, others
    <2>2. \A x \in woken' \ others : \E l \in 1 .. Len(rest) :
             rest[l] = x /\ \A k \in 1 .. l - 1 : rest[k] \in others
      BY ONLY <2>1, WakeUp
    <2>3. QED
      BY <2>1, <2>2 DEF rest, others
  <1>3. PICK k \in 1 .. Len(rest), m \in 1 .. Len(rest) :
             k < m /\ rest[k] = queue[i] /\ rest[m] = queue[j]
    <2>1. queue[i] # c /\ queue[j] # c /\ queue \in Seq(Clients) /\ EachOnce(queue)
      BY DEF LInv, TypeOK, QueuedOnce
    <2>2. QED
      BY <2>1, WithoutOne
  <1>4. m = l
    BY <1>1, <1>2, <1>3 DEF EachOnce
  <1>5. k \in 1 .. l - 1
    BY <1>1, <1>3, <1>4, LenProperties
  <1>6. QED
    BY <1>2, <1>3, <1>5

\* First come, first served: no step gives a permit to a task while one that
\* was waiting before it goes on waiting without.
THEOREM ServedInOrder == Spec => FirstComeFirstServed
  <1> DEFINE InOrder == \A i, j \in 1 .. Len(queue) :
               (i < j /\ queue[i] \notin woken /\ queue[j] \notin woken
                      /\ queue[j] \in woken' \cup holders')
               => queue[i] \notin ToSet(queue')
  <1>1. LInv /\ [Next]_limiterVars => [InOrder]_limiterVars
    <2> SUFFICES ASSUME LInv, Next,
                        NEW i \in 1 .. Len(queue), NEW j \in 1 .. Len(queue), i < j,
                        queue[i] \notin woken, queue[j] \notin woken,
                        queue[j] \in woken' \cup holders', queue[i] \in ToSet(queue')
                 PROVE  FALSE
      BY DEF Next
    <2>1. /\ Len(queue) \in Nat /\ DOMAIN queue = 1 .. Len(queue)
          /\ queue \in Seq(Clients) /\ woken \in SUBSET ToSet(queue)
          /\ IsFiniteSet(woken) /\ value + 1 \in Int /\ value \in Int
      BY PermitsPositive, LenProperties DEF LInv, TypeOK, FiniteSets, Waiters
    <2>2. queue[i] \in Waiters /\ queue[j] \in Waiters /\ queue[j] \notin holders
      BY <2>1 DEF Waiters, ToSet, LInv, QueuedOnce
    <2>3. ASSUME NEW c \in Clients, Enter(c) PROVE FALSE
      BY <2>3 DEF Enter, Locked
    <2>4. ASSUME NEW c \in Clients, Wait(c) PROVE FALSE
      BY <2>2, <2>4 DEF Wait
    <2>5. ASSUME NEW c \in Clients, Resume(c) PROVE FALSE
      <3>1. c \in Waiters /\ c \in woken /\ holders' = holders \cup {c} /\ queue' = Without(c)
        BY <2>5 DEF Resume, LInv, TypeOK
      <3>2. queue[j] \in woken'
        BY <2>2, <3>1
      <3>3. CASE value > 0
        <4>1. WakeUpNext(value, Without(c), woken \ {c})
          BY <2>5, <3>3 DEF Resume
        <4>2. QED
          BY <2>1, <3>1, <3>2, <4>1, NotPassedOver
      <3>4. CASE ~(value > 0)
        BY <2>5, <3>2, <3>4 DEF Resume
      <3>5. QED
        BY <3>3, <3>4
    <2>6. ASSUME NEW c \in Clients, CancelWait(c) PROVE FALSE
      <3>1. c \in Waiters /\ queue' = Without(c) /\ queue[j] \in woken'
        BY <2>2, <2>6 DEF CancelWait
      <3>2. CASE c \in woken
        <4>1. WakeUpNext(value + 1, Without(c), woken \ {c})
          BY <2>6, <3>2 DEF CancelWait
        <4>2. QED
          BY <2>1, <3>1, <3>2, <4>1, NotPassedOver
      <3>3. CASE c \notin woken
        BY <2>6, <3>1, <3>3 DEF CancelWait
      <3>4. QED
        BY <3>2, <3>3
    <2>7. ASSUME NEW c \in Clients, Leave(c) PROVE FALSE
      <3>1. WakeUpNext(value + 1, queue, woken) /\ queue[j] \in woken' \ woken
        BY <2>2, <2>7 DEF Leave
      <3>2. PICK l \in 1 .. Len(queue) :
                 queue[l] = queue[j] /\ \A k \in 1 .. l - 1 : queue[k] \in woken
        BY <2>1, <3>1, WakeUp
      <3>3. l = j
        BY <3>2 DEF LInv, QueuedOnce, EachOnce
      <3>4. i \in 1 .. l - 1
        BY <2>1, <3>3
      <3>5. QED
        BY <3>2, <3>4
    <2>8. CASE Restart
      BY <2>8 DEF Restart, ToSet
    <2>9. QED
      BY <2>3, <2>4, <2>5, <2>6, <2>7, <2>8 DEF Next
  <1>2. QED
    BY <1>1, LimiterInductive, PTL DEF Spec, FirstComeFirstServed

=============================================================================

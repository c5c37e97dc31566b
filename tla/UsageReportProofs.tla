------------------------- MODULE UsageReportProofs -------------------------
(***************************************************************************)
(* Theorems about UsageReport, for every value of its constants.           *)
(*                                                                         *)
(* A report is made while the ledger changes under it.  Two things make    *)
(* its parts fit together: what a query has returned can only be           *)
(* overtaken, never contradicted (a settled row stays, successful rows     *)
(* only become more), and a list of the newest rows is either full or      *)
(* complete.                                                               *)
(***************************************************************************)
EXTENDS UsageReport, QuotaProofs

-----------------------------------------------------------------------------
(***************************************************************************)
(* ORDER BY id DESC LIMIT n.                                               *)
(***************************************************************************)
Above(T, j) == {k \in T : k > j}

Newest(T, n) == {j \in T : Cardinality(Above(T, j)) < n}

\* Sets of row ids are finite, and so are those of newer rows.
LEMMA IdSets ==
    ASSUME NEW last \in Nat, NEW T \in SUBSET (1 .. last)
    PROVE  \A U \in SUBSET T : IsFiniteSet(U) /\ Cardinality(U) \in Nat
  <1>1. IsFiniteSet(1 .. last)
    BY FS_Interval
  <1>2. IsFiniteSet(T)
    BY <1>1, FS_Subset
  <1>3. QED
    BY <1>2, FS_Subset, FS_CardinalityType

\* An older row has more rows above it: those above a newer one, and that one.
LEMMA MoreAboveOlder ==
    ASSUME NEW last \in Nat, NEW T \in SUBSET (1 .. last),
           NEW i \in T, NEW j \in T, i < j
    PROVE  Cardinality(Above(T, j)) + 1 <= Cardinality(Above(T, i))
  <1> DEFINE A == Above(T, j)
  <1>1. A \in SUBSET T /\ j \notin A
    BY DEF Above
  <1>2. A \cup {j} \subseteq Above(T, i) /\ Above(T, i) \in SUBSET T
    <2>1. i \in Int /\ j \in Int /\ \A k \in T : k \in Int
      OBVIOUS
    <2>2. ASSUME NEW k \in A \cup {j} PROVE k \in T /\ k > i
      <3>1. k \in T /\ (k = j \/ k > j)
        BY DEF Above
      <3>2. QED
        BY <2>1, <3>1
    <2>3. QED
      BY <2>2 DEF Above
  <1>3. IsFiniteSet(A) /\ Cardinality(A) \in Nat /\ IsFiniteSet(Above(T, i))
    BY <1>1, <1>2, IdSets
  <1> HIDE DEF A
  <1>4. Cardinality(A \cup {j}) = Cardinality(A) + 1
    BY <1>1, <1>3, FS_AddElement
  <1>5. Cardinality(A \cup {j}) <= Cardinality(Above(T, i))
    BY <1>2, <1>3, FS_Subset
  <1>6. QED
    BY <1>4, <1>5 DEF A

\* The newest n rows are at most n, and n unless they are all.
LEMMA NewestCount ==
    ASSUME NEW last \in Nat, NEW T \in SUBSET (1 .. last), NEW n \in Nat
    PROVE  /\ Cardinality(Newest(T, n)) <= n
           /\ Newest(T, n) # T => Cardinality(Newest(T, n)) = n
  <1> DEFINE good(l) == /\ Cardinality(Newest(T, l)) <= l
                        /\ Newest(T, l) # T => Cardinality(Newest(T, l)) = l
             N == {l \in Nat : good(l)}
  <1>1. /\ \A j \in T : Cardinality(Above(T, j)) \in Nat
        /\ \A l \in Nat : /\ Newest(T, l) \in SUBSET T
                          /\ IsFiniteSet(Newest(T, l))
                          /\ Cardinality(Newest(T, l)) \in Nat
    <2>1. \A j \in T : Above(T, j) \in SUBSET T
      BY DEF Above
    <2>2. \A l \in Nat : Newest(T, l) \in SUBSET T
      BY DEF Newest
    <2>3. QED
      BY <2>1, <2>2, IdSets
  <1>2. good(0)
    <2>1. Newest(T, 0) = {}
      <3>1. \A c \in Nat : ~ c < 0
        OBVIOUS
      <3>2. QED
        BY <1>1, <3>1 DEF Newest
    <2>2. QED
      BY <2>1, FS_EmptySet
  <1>3. ASSUME NEW l \in Nat, good(l) PROVE good(l + 1)
    <2> DEFINE top == Newest(T, l)
               next == Newest(T, l + 1)
    <2>1. top \subseteq next /\ next \subseteq T
      <3>1. \A c \in Nat : c < l => c < l + 1
        OBVIOUS
      <3>2. QED
        BY <1>1, <3>1 DEF Newest
    <2>2. CASE top = T
      BY <1>1, <1>3, <2>1, <2>2
    <2>3. CASE top # T
      <3> DEFINE R == T \ top
      <3>1. R \in SUBSET (1 .. last) /\ R # {}
        BY <2>1, <2>3
      <3>2. PICK x \in R : \A y \in R : y <= x
        BY <3>1, GreatestOf
      <3>3. Above(T, x) = top
        <4>1. ASSUME NEW k \in T, k > x PROVE k \in top
          BY <3>2, <4>1
        <4>2. ASSUME NEW k \in top PROVE k > x
          <5>1. k \in T /\ Cardinality(Above(T, k)) < l
            BY DEF Newest
          <5>2. ~ Cardinality(Above(T, x)) < l
            BY <3>2 DEF Newest
          <5>3. k # x
            BY <5>1, <5>2
          <5>4. ~ k < x
            <6>1. SUFFICES ASSUME k < x PROVE FALSE
              OBVIOUS
            <6>2. Cardinality(Above(T, x)) + 1 <= Cardinality(Above(T, k))
              BY <3>2, <5>1, <6>1, MoreAboveOlder
            <6>3. QED
              BY <1>1, <3>2, <5>1, <5>2, <6>2
          <5>5. QED
            BY <3>2, <5>1, <5>3, <5>4
        <4>3. QED
          BY <2>1, <4>1, <4>2 DEF Above
      <3>4. Cardinality(top) = l
        BY <1>3, <2>3
      <3>5. next = top \cup {x}
        <4>1. x \in next
          BY <3>2, <3>3, <3>4 DEF Newest
        <4>2. ASSUME NEW y \in R, y # x PROVE y \notin next
          <5>1. y < x
            BY <3>1, <3>2, <4>2
          <5>2. Cardinality(Above(T, x)) + 1 <= Cardinality(Above(T, y))
            BY <3>2, <5>1, MoreAboveOlder
          <5>3. QED
            BY <1>1, <3>3, <3>4, <5>2 DEF Newest
        <4>3. QED
          BY <2>1, <4>1, <4>2
      <3>6. Cardinality(next) = l + 1
        <4>1. IsFiniteSet(top) /\ x \notin top
          BY <1>1, <3>2
        <4> HIDE DEF top, next
        <4>2. QED
          BY <3>4, <3>5, <4>1, FS_AddElement
      <3>7. QED
        BY <3>6
    <2>4. QED
      BY <2>2, <2>3
  <1>4. N = Nat
    <2>1. N \in SUBSET Nat /\ 0 \in N /\ \A l \in N : l + 1 \in N
      BY <1>2, <1>3
    <2> HIDE DEF N
    <2>2. QED
      BY <2>1, NatSetInduction
  <1>5. good(n)
    BY <1>4
  <1>6. QED
    BY <1>5

\* A row that is not among the newest is older than each of them.
LEMMA OlderThanNewest ==
    ASSUME NEW last \in Nat, NEW T \in SUBSET (1 .. last), NEW n \in Nat,
           NEW i \in T, i \notin Newest(T, n), NEW j \in Newest(T, n)
    PROVE  i < j
  <1>1. j \in T /\ Cardinality(Above(T, j)) < n /\ ~ Cardinality(Above(T, i)) < n
    BY DEF Newest
  <1>2. ASSUME j < i PROVE FALSE
    <2>1. Cardinality(Above(T, i)) + 1 <= Cardinality(Above(T, j))
      BY <1>1, <1>2, MoreAboveOlder
    <2>2. Cardinality(Above(T, i)) \in Nat /\ Cardinality(Above(T, j)) \in Nat
      <3>1. Above(T, i) \in SUBSET T /\ Above(T, j) \in SUBSET T
        BY DEF Above
      <3>2. QED
        BY <3>1, IdSets
    <2>3. QED
      BY <1>1, <2>1, <2>2
  <1>3. i # j
    BY <1>1
  <1>4. QED
    BY <1>1, <1>2, <1>3

-----------------------------------------------------------------------------
(***************************************************************************)
(* Sums of rows.                                                           *)
(***************************************************************************)

\* The tokens of two sets of rows with none in common are those of each.
LEMMA TokensUnion ==
    ASSUME NEW ev \in Seq(Event),
           NEW A \in SUBSET (1 .. Len(ev)), NEW B \in SUBSET (1 .. Len(ev)),
           A \cap B = {}
    PROVE  TokensOf(ev, A \cup B) = TokensOf(ev, A) + TokensOf(ev, B)
  <1> DEFINE F == {T \in SUBSET B :
                     TokensOf(ev, A \cup T) = TokensOf(ev, A) + TokensOf(ev, T)}
  <1>0. \A R \in SUBSET (1 .. Len(ev)) :
            /\ IsFiniteSet(R) /\ TokensOf(ev, R) \in Nat
            /\ \A i \in R : ev[i].total_tokens \in Nat
    BY RowTokens
  <1>1. ASSUME NEW T \in SUBSET B, \A x \in T : T \ {x} \in F
        PROVE  T \in F
    <2>1. CASE T = {}
      <3>1. TokensOf(ev, {}) = 0
        <4>1. DOMAIN [i \in {} |-> ev[i].total_tokens] = {}
          OBVIOUS
        <4>2. QED
          BY <4>1, SumOfNone DEF TokensOf, SumFunction
      <3>2. TokensOf(ev, A) \in Nat /\ A \cup T = A
        BY <1>0, <2>1
      <3>3. QED
        BY <2>1, <3>1, <3>2
    <2>2. CASE T # {}
      <3>1. PICK x \in T : TRUE
        BY <2>2
      <3>2. TokensOf(ev, A \cup (T \ {x})) = TokensOf(ev, A) + TokensOf(ev, T \ {x})
        BY <1>1, <3>1
      <3>3. TokensOf(ev, T) = ev[x].total_tokens + TokensOf(ev, T \ {x})
        BY <3>1, TokensApart
      <3>4. (A \cup T) \ {x} = A \cup (T \ {x})
        BY <3>1
      <3>5. TokensOf(ev, A \cup T) = ev[x].total_tokens + TokensOf(ev, A \cup (T \ {x}))
        <4>1. A \cup T \in SUBSET (1 .. Len(ev)) /\ x \in A \cup T
          BY <3>1
        <4>2. QED
          BY <3>4, <4>1, TokensApart
      <3>6. /\ TokensOf(ev, A) \in Nat /\ TokensOf(ev, T \ {x}) \in Nat
            /\ ev[x].total_tokens \in Nat
        <4>1. T \ {x} \in SUBSET (1 .. Len(ev)) /\ T \in SUBSET (1 .. Len(ev))
          OBVIOUS
        <4>2. QED
          BY <1>0, <3>1, <4>1
      <3>7. QED
        BY <3>2, <3>3, <3>5, <3>6
    <2>3. QED
      BY <2>1, <2>2
  <1>2. IsFiniteSet(B)
    BY <1>0
  <1> HIDE DEF F
  <1>3. \A T \in SUBSET B : (\A x \in T : T \ {x} \in F) => T \in F
    BY <1>1
  <1>4. \A T \in SUBSET B : T \in F
    BY <1>2, <1>3, SubsetInduction
  <1>5. B \in F
    BY <1>4
  <1>6. QED
    BY <1>5 DEF F

\* More rows have at least as many tokens.
LEMMA TokensGrow ==
    ASSUME NEW ev \in Seq(Event), NEW R \in SUBSET (1 .. Len(ev)), NEW A \in SUBSET R
    PROVE  /\ Cardinality(A) <= Cardinality(R) /\ Cardinality(R) \in Nat
           /\ Cardinality(A) \in Nat
           /\ TokensOf(ev, A) <= TokensOf(ev, R) /\ TokensOf(ev, R) \in Nat
           /\ TokensOf(ev, A) \in Nat
  <1> DEFINE B == R \ A
  <1>1. /\ A \in SUBSET (1 .. Len(ev)) /\ B \in SUBSET (1 .. Len(ev))
        /\ A \cap B = {} /\ A \cup B = R
    OBVIOUS
  <1> HIDE DEF B
  <1>2. TokensOf(ev, R) = TokensOf(ev, A) + TokensOf(ev, B)
    BY <1>1, TokensUnion
  <1>3. /\ TokensOf(ev, A) \in Nat /\ TokensOf(ev, B) \in Nat
        /\ TokensOf(ev, R) \in Nat /\ IsFiniteSet(R) /\ IsFiniteSet(A)
    BY <1>1, RowTokens
  <1>4. /\ Cardinality(A) <= Cardinality(R)
        /\ Cardinality(A) \in Nat /\ Cardinality(R) \in Nat
    BY <1>3, FS_Subset, FS_CardinalityType
  <1>5. QED
    BY <1>2, <1>3, <1>4

-----------------------------------------------------------------------------
(***************************************************************************)
(* What a report knows about the ledger it was read from.                  *)
(***************************************************************************)

\* A list of events: rows under their ids.
EventLists == UNION {[D -> Event] : D \in SUBSET Nat}

\* A row that a list shows is there, belongs to the list's users, and is
\* unchanged if it was settled when it was read.
Shows(events, users) ==
    /\ events \in EventLists
    /\ DOMAIN events \subseteq Ids
    /\ Cardinality(DOMAIN events) <= RecentLimit
    /\ \A i \in DOMAIN events :
          /\ events[i].user_id \in users
          /\ usage_events[i].user_id = events[i].user_id
          /\ events[i].status # "reserved" => usage_events[i] = events[i]

\* A summary that was read counts no request that is not in the rows.
Summarises(summary, u) ==
    /\ summary \in [Models -> Total]
    /\ \A m \in Models :
          /\ summary[m].request_count <= Cardinality(SuccessRows(u, m))
          /\ summary[m].total_tokens <= TokensOf(usage_events, SuccessRows(u, m))

\* The two parts of what SummaryAccountedFor counts.
Shown(events, m) ==
    {i \in DOMAIN events : events[i].model = m /\ events[i].status = "success"}

Older(events, u, m) ==
    {i \in SuccessRows(u, m) : /\ Cardinality(DOMAIN events) = RecentLimit
                               /\ \A j \in DOMAIN events : i < j}

Accounted(summary, events, u) ==
    \A m \in Models :
        /\ Cardinality(Shown(events, m)) + Cardinality(Older(events, u, m))
               >= summary[m].request_count
        /\ TokensOf(events, Shown(events, m))
               + TokensOf(usage_events, Older(events, u, m)) >= summary[m].total_tokens

\* SummaryAccountedFor says so of every section.
LEMMA AccountedMeans ==
    SummaryAccountedFor <=> \A s \in Sections : Accounted(s.summary, s.events, s.user)
  BY DEF SummaryAccountedFor, Accounted, Shown, Older, TokensOf, Tokens

\* A query for the newest rows shows rows of its users, at most as many as it
\* may; any other row of theirs is older than these, and the list is full.
LEMMA ListIsRead ==
    ASSUME TypeOK, NEW users, NEW events, events = RecentEvents(users)
    PROVE  /\ Shows(events, users)
           /\ \A i \in DOMAIN events : events[i] = usage_events[i]
           /\ \A i \in Ids :
                 usage_events[i].user_id \in users /\ i \notin DOMAIN events =>
                     /\ Cardinality(DOMAIN events) = RecentLimit
                     /\ \A j \in DOMAIN events : i < j
  <1> DEFINE T == {i \in Ids : usage_events[i].user_id \in users}
  <1>1. /\ Len(usage_events) \in Nat /\ Ids = 1 .. Len(usage_events)
        /\ T \in SUBSET (1 .. Len(usage_events))
        /\ \A i \in Ids : usage_events[i] \in Event
    BY LenProperties, ElementOfSeq DEF TypeOK, Ids
  <1>2. events = [i \in Newest(T, RecentLimit) |-> usage_events[i]]
    BY DEF RecentEvents, Newest, Above
  <1>3. Newest(T, RecentLimit) \in SUBSET T /\ DOMAIN events = Newest(T, RecentLimit)
    BY <1>2 DEF Newest
  <1>4. /\ Cardinality(DOMAIN events) <= RecentLimit
        /\ DOMAIN events # T => Cardinality(DOMAIN events) = RecentLimit
    <2> HIDE DEF T
    <2>1. QED
      BY <1>1, <1>3, RecentAssumption, NewestCount
  <1>5. \A i \in T : i \notin DOMAIN events => \A j \in DOMAIN events : i < j
    <2> HIDE DEF T
    <2>1. QED
      BY <1>1, <1>3, RecentAssumption, OlderThanNewest
  <1>6. events \in EventLists
    <2>1. DOMAIN events \in SUBSET Nat
      BY <1>1, <1>3
    <2>2. events \in [DOMAIN events -> Event]
      BY <1>1, <1>2, <1>3
    <2>3. QED
      BY <2>1, <2>2 DEF EventLists
  <1>7. \A i \in DOMAIN events : i \in T /\ events[i] = usage_events[i]
    BY <1>2, <1>3
  <1>8. Shows(events, users)
    BY <1>4, <1>6, <1>7 DEF Shows
  <1>9. QED
    BY <1>4, <1>5, <1>7, <1>8

\* The list of events accounts for a summary that was read before it.
LEMMA AccountedWhenRead ==
    ASSUME TypeOK, NEW u \in Users, NEW summary, Summarises(summary, u),
           NEW events, events = RecentEvents({u})
    PROVE  Accounted(summary, events, u)
  <1>1. SUFFICES ASSUME NEW m \in Models
                 PROVE  /\ Cardinality(Shown(events, m)) + Cardinality(Older(events, u, m))
                               >= summary[m].request_count
                        /\ TokensOf(events, Shown(events, m))
                               + TokensOf(usage_events, Older(events, u, m))
                                  >= summary[m].total_tokens
    BY DEF Accounted
  <1> DEFINE R == SuccessRows(u, m)
             A == Shown(events, m)
             B == Older(events, u, m)
  <1>2. /\ usage_events \in Seq(Event)
        /\ R \in SUBSET (1 .. Len(usage_events))
    BY DEF TypeOK, SuccessRows, Ids
  <1>3. /\ DOMAIN events \subseteq Ids
        /\ \A i \in DOMAIN events : /\ events[i] = usage_events[i]
                                    /\ events[i].user_id = u
        /\ \A i \in Ids :
              usage_events[i].user_id \in {u} /\ i \notin DOMAIN events =>
                  /\ Cardinality(DOMAIN events) = RecentLimit
                  /\ \A j \in DOMAIN events : i < j
    BY ListIsRead DEF Shows
  <1>4. A \subseteq R /\ \A i \in A : events[i] = usage_events[i]
    BY <1>3 DEF Shown, SuccessRows
  <1>5. B \subseteq R
    BY DEF Older
  <1>6. R \subseteq A \cup B
    BY <1>3 DEF Shown, Older, SuccessRows
  <1>7. A \cap B = {}
    <2>1. ASSUME NEW i \in A, i \in B PROVE FALSE
      <3>1. i \in DOMAIN events /\ i < i /\ i \in 1 .. Len(usage_events)
        BY <1>2, <2>1 DEF Shown, Older
      <3>2. QED
        BY <3>1
    <2>2. QED
      BY <2>1
  <1>8. TokensOf(events, A) = TokensOf(usage_events, A)
    BY <1>4, SameTokens
  <1> HIDE DEF A, B, R
  <1>9. R = A \cup B
    BY <1>4, <1>5, <1>6
  <1>10. /\ IsFiniteSet(A) /\ IsFiniteSet(B)
         /\ TokensOf(usage_events, R) =
               TokensOf(usage_events, A) + TokensOf(usage_events, B)
    BY <1>2, <1>4, <1>5, <1>7, <1>9, TokensUnion, RowTokens
  <1>11. Cardinality(R) = Cardinality(A) + Cardinality(B)
    <2>1. /\ Cardinality(A \cup B) = Cardinality(A) + Cardinality(B) - Cardinality(A \cap B)
          /\ Cardinality(A) \in Nat /\ Cardinality(B) \in Nat
      BY <1>10, FS_Union, FS_CardinalityType
    <2>2. Cardinality(A \cap B) = 0
      BY <1>7, FS_EmptySet
    <2>3. QED
      BY <1>9, <2>1, <2>2
  <1>12. /\ summary[m].request_count <= Cardinality(R)
         /\ summary[m].total_tokens <= TokensOf(usage_events, R)
         /\ summary[m] \in Total
    BY DEF Summarises, R
  <1>13. Cardinality(R) \in Nat /\ TokensOf(usage_events, R) \in Nat
    BY <1>2, TokensGrow
  <1>14. /\ summary[m].request_count \in Nat /\ summary[m].total_tokens \in Nat
    BY <1>12 DEF Total
  <1>15. QED
    BY <1>8, <1>10, <1>11, <1>12, <1>13, <1>14 DEF A, B

-----------------------------------------------------------------------------
(***************************************************************************)
(* The ledger goes on.                                                     *)
(***************************************************************************)

\* Successful rows stay as they are, and only become more.
LEMMA SuccessesGrow ==
    ASSUME IInv, [Next]_quotaVars, NEW u, NEW m
    PROVE  /\ SuccessRows(u, m) \subseteq SuccessRows(u, m)'
           /\ \A i \in SuccessRows(u, m) : usage_events'[i] = usage_events[i]
  <1>1. RowsStay
    BY RowsStayStep
  <1>2. \A i \in SuccessRows(u, m) : /\ i \in Ids /\ usage_events[i].status = "success"
                                    /\ usage_events[i].user_id = u
                                    /\ usage_events[i].model = m
    BY DEF SuccessRows
  <1>3. \A i \in SuccessRows(u, m) : i \in Ids' /\ usage_events'[i] = usage_events[i]
    BY <1>1, <1>2 DEF RowsStay
  <1>4. QED
    BY <1>2, <1>3 DEF SuccessRows

\* More successful rows have more tokens.
LEMMA SuccessSumsGrow ==
    ASSUME IInv, [Next]_quotaVars, NEW u, NEW m,
           NEW A, A \subseteq SuccessRows(u, m),
           NEW B, A \subseteq B, B \subseteq SuccessRows(u, m)'
    PROVE  /\ Cardinality(A) \in Nat /\ Cardinality(B) \in Nat
           /\ TokensOf(usage_events, A) \in Nat /\ TokensOf(usage_events', B) \in Nat
           /\ Cardinality(A) <= Cardinality(B)
           /\ TokensOf(usage_events, A) <= TokensOf(usage_events', B)
  <1>1. /\ usage_events' \in Seq(Event)
        /\ SuccessRows(u, m)' \in SUBSET (1 .. Len(usage_events'))
    <2>1. TypeOK'
      BY TypeStep DEF IInv
    <2>2. QED
      BY <2>1 DEF TypeOK, SuccessRows, Ids
  <1>2. TokensOf(usage_events', A) = TokensOf(usage_events, A)
    BY SuccessesGrow, SameTokens
  <1>3. /\ Cardinality(A) <= Cardinality(B) /\ Cardinality(B) \in Nat
        /\ Cardinality(A) \in Nat
        /\ TokensOf(usage_events', A) <= TokensOf(usage_events', B)
        /\ TokensOf(usage_events', B) \in Nat
        /\ TokensOf(usage_events', A) \in Nat
    <2>1. B \in SUBSET (1 .. Len(usage_events')) /\ A \in SUBSET B
      BY <1>1
    <2>2. QED
      BY <1>1, <2>1, TokensGrow
  <1>4. QED
    BY <1>2, <1>3

\* Rows that were read stay, and stay as they are once they are settled.
LEMMA StillShows ==
    ASSUME IInv, [Next]_quotaVars, NEW events, NEW users, Shows(events, users)
    PROVE  Shows(events, users)'
  <1>1. RowsStay
    BY RowsStayStep
  <1>2. QED
    BY <1>1 DEF Shows, RowsStay

\* A summary stays a lower bound of the rows.
LEMMA StillSummarises ==
    ASSUME IInv, [Next]_quotaVars, NEW summary, NEW u, Summarises(summary, u)
    PROVE  Summarises(summary, u)'
  <1>1. ASSUME NEW m \in Models
        PROVE  /\ summary[m].request_count <= Cardinality(SuccessRows(u, m)')
               /\ summary[m].total_tokens <= TokensOf(usage_events', SuccessRows(u, m)')
    <2> DEFINE A == SuccessRows(u, m)
               B == SuccessRows(u, m)'
    <2>1. /\ summary[m] \in Total
          /\ summary[m].request_count <= Cardinality(A)
          /\ summary[m].total_tokens <= TokensOf(usage_events, A)
      BY DEF Summarises
    <2>2. /\ Cardinality(A) \in Nat /\ Cardinality(B) \in Nat
          /\ TokensOf(usage_events, A) \in Nat /\ TokensOf(usage_events', B) \in Nat
          /\ Cardinality(A) <= Cardinality(B)
          /\ TokensOf(usage_events, A) <= TokensOf(usage_events', B)
      BY SuccessesGrow, SuccessSumsGrow
    <2> HIDE DEF A, B
    <2>3. summary[m].request_count \in Nat /\ summary[m].total_tokens \in Nat
      BY <2>1 DEF Total
    <2>4. /\ summary[m].request_count <= Cardinality(B)
          /\ summary[m].total_tokens <= TokensOf(usage_events', B)
      BY <2>1, <2>2, <2>3
    <2>5. QED
      BY <2>4 DEF B
  <1>2. QED
    BY <1>1 DEF Summarises

\* A list that accounts for a summary goes on doing so: what is older than the
\* list can only become more.
LEMMA StillAccounted ==
    ASSUME IInv, [Next]_quotaVars, NEW summary \in [Models -> Total],
           NEW events, NEW u, Shows(events, {u}), Accounted(summary, events, u)
    PROVE  Accounted(summary, events, u)'
  <1>1. ASSUME NEW m \in Models
        PROVE  /\ Cardinality(Shown(events, m)) + Cardinality(Older(events, u, m)')
                      >= summary[m].request_count
               /\ TokensOf(events, Shown(events, m))
                      + TokensOf(usage_events', Older(events, u, m)')
                         >= summary[m].total_tokens
    <2> DEFINE S == Shown(events, m)
               A == Older(events, u, m)
               B == Older(events, u, m)'
    <2>1. /\ Cardinality(S) + Cardinality(A) >= summary[m].request_count
          /\ TokensOf(events, S) + TokensOf(usage_events, A) >= summary[m].total_tokens
      BY DEF Accounted
    <2>2. /\ A \subseteq SuccessRows(u, m) /\ A \subseteq B
          /\ B \subseteq SuccessRows(u, m)'
      BY SuccessesGrow DEF Older
    <2>3. Cardinality(S) \in Nat /\ TokensOf(events, S) \in Nat
      <3>1. S \in SUBSET (1 .. Len(usage_events)) /\ usage_events \in Seq(Event)
        BY DEF Shown, Shows, IInv, TypeOK, Ids
      <3>2. \A i \in S : events[i] = usage_events[i]
        BY DEF Shown, Shows
      <3>3. TokensOf(events, S) = TokensOf(usage_events, S)
        <4> HIDE DEF S
        <4>1. QED
          BY <3>2, SameTokens
      <3>4. S \in SUBSET S
        OBVIOUS
      <3> HIDE DEF S
      <3>5. QED
        BY <3>1, <3>3, <3>4, TokensGrow
    <2> HIDE DEF S, A, B
    <2>4. /\ Cardinality(A) \in Nat /\ Cardinality(B) \in Nat
          /\ TokensOf(usage_events, A) \in Nat /\ TokensOf(usage_events', B) \in Nat
          /\ Cardinality(A) <= Cardinality(B)
          /\ TokensOf(usage_events, A) <= TokensOf(usage_events', B)
      BY <2>2, SuccessSumsGrow
    <2>5. summary[m].request_count \in Nat /\ summary[m].total_tokens \in Nat
      BY DEF Total
    <2>6. /\ Cardinality(S) + Cardinality(B) >= summary[m].request_count
          /\ TokensOf(events, S) + TokensOf(usage_events', B) >= summary[m].total_tokens
      BY <2>1, <2>3, <2>4, <2>5
    <2>7. QED
      BY <2>6 DEF S, B
  <1>2. QED
    BY <1>1 DEF Accounted, Shown

-----------------------------------------------------------------------------
(***************************************************************************)
(* The inductive invariant of a report.                                    *)
(***************************************************************************)
ReadResult ==
    [what : {"summary", "limits", "events"},
     result : [Models -> Total] \cup Limits \cup EventLists]

SectionRecord == [user : Users, summary : [Models -> Total], limits : Limits,
                  events : EventLists]

ForAdmin(u) == \E k \in DOMAIN AdminUsers : AdminUsers[k] = u

ReportFields ==
    report \in [pc : {"section", "list", "done"}, admin : BOOLEAN, left : Seq(Users),
                section : Seq(ReadResult), sections : Seq(SectionRecord),
                list : EventLists \cup {<<>>}]

\* A finished section shows its user's rows, and these account for its summary.
SectionHolds(s) ==
    /\ report.admin => ForAdmin(s.user)
    /\ Shows(s.events, {s.user})
    /\ Accounted(s.summary, s.events, s.user)

\* The users that are left are those of the report, and the queries of the
\* section were made in their order, each with what it still says.
SectionUnderWay ==
    report.pc = "section" =>
        /\ report.left # <<>>
        /\ report.admin => \A k \in 1 .. Len(report.left) : ForAdmin(report.left[k])
        /\ Len(report.section) <= 3
        /\ \A k \in 1 .. Len(report.section) : report.section[k].what = Reads[k]
        /\ Len(report.section) >= 1 =>
               Summarises(report.section[1].result, Head(report.left))
        /\ Len(report.section) >= 2 => report.section[2].result \in Limits
        /\ Len(report.section) >= 3 =>
               /\ Shows(report.section[3].result, {Head(report.left)})
               /\ Accounted(report.section[1].result, report.section[3].result,
                            Head(report.left))

\* There is a list only in the finished report of an admin.
ListHolds ==
    /\ report.pc = "list" => report.admin
    /\ report.list # <<>> => report.admin /\ report.pc = "done"
    /\ Cardinality(DOMAIN report.list) <= RecentLimit
    /\ \A i \in DOMAIN report.list :
          \E s \in Sections : s.user = report.list[i].user_id

ReportInv ==
    /\ ReportFields
    /\ \A s \in Sections : SectionHolds(s)
    /\ SectionUnderWay
    /\ ListHolds
    /\ ListFollowsSections

\* The invariant implies what the run checks.
LEMMA ReportInvImplies == ReportInv => ReportTypeOK /\ SummaryAccountedFor
  <1> SUFFICES ASSUME ReportInv PROVE ReportTypeOK /\ SummaryAccountedFor
    OBVIOUS
  <1>1. \A s \in Sections : s \in SectionRecord /\ SectionHolds(s)
    BY LenProperties, ElementOfSeq DEF ReportInv, ReportFields, Sections
  <1>2. \A s \in Sections :
          /\ report.admin => \E k \in DOMAIN AdminUsers : AdminUsers[k] = s.user
          /\ s.summary \in [Models -> Total]
          /\ s.limits \in Limits
          /\ Cardinality(DOMAIN s.events) <= RecentLimit
          /\ \A i \in DOMAIN s.events : s.events[i].user_id = s.user
    BY <1>1 DEF SectionRecord, SectionHolds, ForAdmin, Shows
  <1>3. ReportTypeOK
    BY <1>2 DEF ReportInv, ReportFields, ListHolds, ReportTypeOK
  <1>4. QED
    BY <1>1, <1>3, AccountedMeans DEF SectionHolds

\* No list shows no row.
LEMMA EmptyList == DOMAIN <<>> = {} /\ Cardinality(DOMAIN <<>>) = 0
  BY FS_EmptySet

\* Before the first report there is nothing to show.
LEMMA InitReportInv == ReportInit => ReportInv
  <1> SUFFICES ASSUME ReportInit PROVE ReportInv
    OBVIOUS
  <1>1. report = [pc |-> "done", admin |-> FALSE, left |-> <<>>, section |-> <<>>,
                  sections |-> <<>>, list |-> <<>>]
    BY DEF ReportInit
  <1>2. ReportFields
    BY <1>1, EmptySeq DEF ReportFields
  <1>3. Sections = {}
    BY <1>1, EmptyList DEF Sections
  <1>4. QED
    BY <1>1, <1>2, <1>3, EmptyList, RecentAssumption
       DEF ReportInv, SectionUnderWay, ListHolds, ListFollowsSections

\* While the ledger goes on, everything the report has read stays true.
LEMMA LedgerStep ==
    ASSUME IInv, ReportInv, [Next]_quotaVars, UNCHANGED report
    PROVE  ReportInv'
  <1>1. \A s \in Sections : s \in SectionRecord /\ SectionHolds(s)
    BY LenProperties, ElementOfSeq DEF ReportInv, ReportFields, Sections
  <1>2. ASSUME NEW s \in Sections PROVE SectionHolds(s)'
    <2>1. /\ Shows(s.events, {s.user}) /\ Accounted(s.summary, s.events, s.user)
          /\ s.summary \in [Models -> Total]
      BY <1>1 DEF SectionHolds, SectionRecord
    <2>2. Shows(s.events, {s.user})' /\ Accounted(s.summary, s.events, s.user)'
      BY <2>1, StillShows, StillAccounted
    <2>3. QED
      BY <1>1, <2>2 DEF SectionHolds, ForAdmin
  <1>3. SectionUnderWay'
    <2>1. SUFFICES ASSUME report.pc = "section" PROVE SectionUnderWay'
      BY DEF SectionUnderWay
    <2>2. PICK u : u = Head(report.left)
      OBVIOUS
    <2>3. PICK a : a = report.section[1].result
      OBVIOUS
    <2>4. PICK e : e = report.section[3].result
      OBVIOUS
    <2>5. Len(report.section) \in Nat
      BY LenProperties DEF ReportInv, ReportFields
    <2>6. Len(report.section) >= 1 => Summarises(a, u) /\ Summarises(a, u)'
      BY <2>1, <2>2, <2>3, StillSummarises DEF ReportInv, SectionUnderWay
    <2>7. Len(report.section) >= 3 => Shows(e, {u})' /\ Accounted(a, e, u)'
      <3>1. SUFFICES ASSUME Len(report.section) >= 3
                     PROVE  Shows(e, {u})' /\ Accounted(a, e, u)'
        OBVIOUS
      <3>2. Shows(e, {u}) /\ Accounted(a, e, u)
        BY <2>1, <2>2, <2>3, <2>4, <3>1 DEF ReportInv, SectionUnderWay
      <3>3. a \in [Models -> Total]
        BY <2>5, <2>6, <3>1 DEF Summarises
      <3>4. QED
        BY <3>2, <3>3, StillShows, StillAccounted
    <2>8. /\ u = Head(report'.left) /\ a = report'.section[1].result
          /\ e = report'.section[3].result
      BY <2>2, <2>3, <2>4
    <2>9. QED
      BY <2>6, <2>7, <2>8 DEF ReportInv, SectionUnderWay, ForAdmin
  <1>4. Sections' = Sections
    BY DEF Sections
  <1>5. ReportFields' /\ ListHolds' /\ ListFollowsSections'
    BY <1>4 DEF ReportInv, ReportFields, ListHolds, ListFollowsSections
  <1>6. QED
    BY <1>2, <1>3, <1>4, <1>5 DEF ReportInv

\* A report begins with the users it is for and nothing read.
LEMMA StartStep ==
    ASSUME IInv, ReportInv, StartReport
    PROVE  ReportInv'
  <1>1. PICK admin \in BOOLEAN, u \in Users :
            report' = [pc |-> IF admin /\ AdminUsers = <<>> THEN "list" ELSE "section",
                       admin |-> admin,
                       left |-> IF admin THEN AdminUsers ELSE <<u>>,
                       section |-> <<>>, sections |-> <<>>, list |-> <<>>]
    BY DEF StartReport
  <1>2. /\ report'.pc = IF admin /\ AdminUsers = <<>> THEN "list" ELSE "section"
        /\ report'.admin = admin
        /\ report'.left = IF admin THEN AdminUsers ELSE <<u>>
        /\ report'.section = <<>> /\ report'.sections = <<>> /\ report'.list = <<>>
    BY <1>1
  <1>3. ReportFields'
    <2>1. <<u>> \in Seq(Users)
      OBVIOUS
    <2>2. QED
      BY <1>1, <2>1, EmptySeq, AdminUsersAssumption DEF ReportFields
  <1>4. Sections' = {}
    BY <1>2, EmptyList DEF Sections
  <1>5. SectionUnderWay'
    <2>1. Len(<<>>) = 0 /\ <<u>> # <<>>
      OBVIOUS
    <2>2. \A k \in 1 .. Len(AdminUsers) : ForAdmin(AdminUsers[k])
      BY LenProperties, AdminUsersAssumption DEF ForAdmin
    <2>3. QED
      BY <1>2, <2>1, <2>2 DEF SectionUnderWay, ForAdmin
  <1>6. QED
    BY <1>2, <1>3, <1>4, <1>5, EmptyList, RecentAssumption
       DEF ReportInv, ListHolds, ListFollowsSections

\* The sections that are finished do not change with a step of the report.
LEMMA SectionsKept ==
    ASSUME IInv, ReportInv, UNCHANGED quotaVars, report'.admin = report.admin,
           NEW s \in Sections
    PROVE  s \in SectionRecord /\ SectionHolds(s)'
  <1>1. s \in SectionRecord /\ SectionHolds(s)
    BY LenProperties, ElementOfSeq DEF ReportInv, ReportFields, Sections
  <1>2. Shows(s.events, {s.user})' /\ Accounted(s.summary, s.events, s.user)'
    <2>1. /\ Shows(s.events, {s.user}) /\ Accounted(s.summary, s.events, s.user)
          /\ s.summary \in [Models -> Total]
      BY <1>1 DEF SectionHolds, SectionRecord
    <2>2. QED
      BY <2>1, StillShows, StillAccounted
  <1>3. QED
    BY <1>1, <1>2 DEF SectionHolds, ForAdmin

\* Each query of a section says something that stays true: the summary is a
\* lower bound of the rows, the limits are limits, and the events, read last,
\* account for the summary.
LEMMA ReadStep ==
    ASSUME IInv, TotalsMatchEvents, ReportInv, ReadSection
    PROVE  ReportInv'
  <1>1. PICK u : u = Head(report.left)
    OBVIOUS
  <1>2. PICK n : n = Len(report.section)
    OBVIOUS
  <1>3. PICK q : q = Query(Reads[n + 1], u)
    OBVIOUS
  <1> DEFINE new == [what |-> Reads[n + 1], result |-> q]
  <1>4. /\ report.pc = "section" /\ n < Len(Reads)
        /\ report' = [report EXCEPT !.section = Append(@, new)]
        /\ UNCHANGED quotaVars
    BY <1>1, <1>2, <1>3 DEF ReadSection
  <1>5. report.section \in Seq(ReadResult) /\ report.left \in Seq(Users) /\ u \in Users
    BY <1>1, <1>4, HeadTailProperties DEF ReportInv, ReportFields, SectionUnderWay
  <1>6. n \in {0, 1, 2}
    <2>1. n \in Nat /\ Len(Reads) = 3
      BY <1>2, <1>5, LenProperties DEF Reads
    <2>2. QED
      BY <1>4, <2>1
  <1>7. /\ n = 0 => Summarises(q, u) /\ Reads[n + 1] = "summary"
        /\ n = 1 => q \in Limits /\ Reads[n + 1] = "limits"
        /\ n = 2 => /\ Reads[n + 1] = "events" /\ q \in EventLists /\ Shows(q, {u})
                    /\ Accounted(report.section[1].result, q, u)
    <2>1. CASE n = 0
      <3>1. q = usage_totals[u] /\ Reads[n + 1] = "summary"
        BY <1>3, <2>1 DEF Query, Reads
      <3>2. q \in [Models -> Total]
        BY <1>5, <3>1 DEF IInv, TypeOK
      <3>3. \A m \in Models : /\ q[m].request_count = Cardinality(SuccessRows(u, m))
                              /\ q[m].total_tokens = TokensOf(usage_events, SuccessRows(u, m))
                              /\ q[m] \in Total
        BY <1>5, <3>1, <3>2, MatchesMeans DEF Matches
      <3>4. Summarises(q, u)
        BY <3>2, <3>3 DEF Summarises, Total
      <3>5. QED
        BY <2>1, <3>1, <3>4
    <2>2. CASE n = 1
      <3>1. q = user_limits[u] /\ Reads[n + 1] = "limits"
        BY <1>3, <2>2 DEF Query, Reads
      <3>2. QED
        BY <1>5, <2>2, <3>1 DEF IInv, TypeOK
    <2>3. CASE n = 2
      <3>1. q = RecentEvents({u}) /\ Reads[n + 1] = "events"
        BY <1>3, <2>3 DEF Query, Reads
      <3>2. Shows(q, {u}) /\ q \in EventLists
        BY <3>1, ListIsRead DEF IInv, Shows
      <3>3. Summarises(report.section[1].result, u)
        BY <1>1, <1>2, <1>4, <2>3 DEF ReportInv, SectionUnderWay
      <3>4. Accounted(report.section[1].result, q, u)
        BY <1>5, <3>1, <3>3, AccountedWhenRead DEF IInv
      <3>5. QED
        BY <2>3, <3>1, <3>2, <3>4
    <2>4. QED
      BY <1>6, <2>1, <2>2, <2>3
  <1>8. new \in ReadResult
    BY <1>6, <1>7 DEF ReadResult, Summarises
  <1>9. PICK section2 : section2 = Append(report.section, new)
    OBVIOUS
  <1>10. /\ section2 \in Seq(ReadResult) /\ Len(section2) = n + 1
         /\ \A k \in 1 .. n : section2[k] = report.section[k]
         /\ section2[n + 1] = new
    BY <1>2, <1>5, <1>8, <1>9, AppendProperties
  <1>11. new.what = Reads[n + 1] /\ new.result = q
    OBVIOUS
  <1> HIDE DEF new
  <1>12. /\ report' \in [pc : {"section", "list", "done"}, admin : BOOLEAN,
                          left : Seq(Users), section : Seq(ReadResult),
                          sections : Seq(SectionRecord), list : EventLists \cup {<<>>}]
         /\ report'.pc = report.pc /\ report'.admin = report.admin
         /\ report'.left = report.left /\ report'.section = section2
         /\ report'.sections = report.sections /\ report'.list = report.list
    BY <1>4, <1>9, <1>10 DEF ReportInv, ReportFields
  <1>13. Sections' = Sections
    BY <1>12 DEF Sections
  <1>14. SectionUnderWay'
    <2>1. /\ report.left # <<>>
          /\ report.admin => \A k \in 1 .. Len(report.left) : ForAdmin(report.left[k])
          /\ \A k \in 1 .. n : report.section[k].what = Reads[k]
          /\ n >= 1 => Summarises(report.section[1].result, u)
          /\ n >= 2 => report.section[2].result \in Limits
      BY <1>1, <1>2, <1>4 DEF ReportInv, SectionUnderWay
    <2>2. \A k \in 1 .. n + 1 : section2[k].what = Reads[k]
      BY <1>6, <1>10, <1>11, <2>1
    <2>3. Summarises(section2[1].result, u)
      BY <1>6, <1>7, <1>10, <1>11, <2>1
    <2>4. n + 1 >= 2 => section2[2].result \in Limits
      BY <1>6, <1>7, <1>10, <1>11, <2>1
    <2>5. n + 1 >= 3 => /\ Shows(section2[3].result, {u})
                       /\ Accounted(section2[1].result, section2[3].result, u)
      BY <1>6, <1>7, <1>10, <1>11
    <2>6. PICK a : a = section2[1].result
      OBVIOUS
    <2>7. PICK e : e = section2[3].result
      OBVIOUS
    <2>8. /\ Summarises(a, u)'
          /\ n + 1 >= 3 => Shows(e, {u})' /\ Accounted(a, e, u)'
      BY <1>4, <2>3, <2>5, <2>6, <2>7, StillSummarises, StillShows, StillAccounted
         DEF Summarises
    <2>9. n + 1 <= 3
      BY <1>6
    <2>10. u = Head(report'.left)
      BY <1>1, <1>12
    <2>11. QED
      BY <1>10, <1>12, <2>1, <2>2, <2>4, <2>6, <2>7, <2>8, <2>9, <2>10
         DEF SectionUnderWay, ForAdmin
  <1>15. \A s \in Sections : SectionHolds(s)'
    BY <1>4, <1>12, SectionsKept
  <1>16. ListHolds' /\ ListFollowsSections'
    BY <1>4, <1>12, <1>13 DEF ReportInv, ListHolds, ListFollowsSections
  <1>17. QED
    BY <1>12, <1>13, <1>14, <1>15, <1>16 DEF ReportInv, ReportFields

\* The results of the three queries are found under their names.
LEMMA ResultsFound ==
    ASSUME NEW section \in Seq(ReadResult), Len(section) = 3,
           \A k \in 1 .. 3 : section[k].what = Reads[k]
    PROVE  /\ Result(section, "summary") = section[1].result
           /\ Result(section, "limits") = section[2].result
           /\ Result(section, "events") = section[3].result
  <1>1. /\ DOMAIN section = 1 .. 3
        /\ section[1].what = "summary" /\ section[2].what = "limits"
        /\ section[3].what = "events"
    BY LenProperties DEF Reads
  <1>2. \A k \in 1 .. 3 : k = 1 \/ k = 2 \/ k = 3
    OBVIOUS
  <1>3. (CHOOSE k \in DOMAIN section : section[k].what = "summary") = 1
    BY <1>1, <1>2
  <1>4. (CHOOSE k \in DOMAIN section : section[k].what = "limits") = 2
    BY <1>1, <1>2
  <1>5. (CHOOSE k \in DOMAIN section : section[k].what = "events") = 3
    BY <1>1, <1>2
  <1>6. QED
    BY <1>3, <1>4, <1>5 DEF Result

\* The three results make a section that holds, and the next user's begins.
LEMMA EndStep ==
    ASSUME IInv, ReportInv, EndSection
    PROVE  ReportInv'
  <1>1. PICK u : u = Head(report.left)
    OBVIOUS
  <1>2. PICK a : a = report.section[1].result
    OBVIOUS
  <1>3. PICK l : l = report.section[2].result
    OBVIOUS
  <1>4. PICK e : e = report.section[3].result
    OBVIOUS
  <1> DEFINE new == [user |-> u, summary |-> a, limits |-> l, events |-> e]
             pc2 == IF Tail(report.left) # <<>> THEN "section"
                    ELSE IF report.admin THEN "list" ELSE "done"
  <1>5. report.pc = "section" /\ Len(report.section) = 3 /\ UNCHANGED quotaVars
    BY DEF EndSection, Reads
  <1>6. /\ report.section \in Seq(ReadResult) /\ report.left \in Seq(Users)
        /\ report.sections \in Seq(SectionRecord) /\ report.left # <<>>
        /\ \A k \in 1 .. 3 : report.section[k].what = Reads[k]
        /\ Summarises(a, u) /\ l \in Limits
        /\ Shows(e, {u}) /\ Accounted(a, e, u)
        /\ report.admin => \A k \in 1 .. Len(report.left) : ForAdmin(report.left[k])
        /\ report.list = <<>>
    BY <1>1, <1>2, <1>3, <1>4, <1>5
       DEF ReportInv, ReportFields, SectionUnderWay, ListHolds
  <1>7. /\ u \in Users /\ Tail(report.left) \in Seq(Users)
        /\ Len(Tail(report.left)) = Len(report.left) - 1
        /\ \A k \in 1 .. Len(Tail(report.left)) : Tail(report.left)[k] = report.left[k + 1]
        /\ Len(report.left) \in Nat /\ Len(report.left) >= 1
        /\ u = report.left[1]
    BY <1>1, <1>6, HeadTailProperties, LenProperties, EmptySeq
  <1>8. new \in SectionRecord
    BY <1>6, <1>7 DEF SectionRecord, Summarises, Shows
  <1>9. report' = [report EXCEPT !.pc = pc2, !.left = Tail(@), !.section = <<>>,
                                !.sections = Append(@, new)]
    BY <1>1, <1>2, <1>3, <1>4, <1>5, <1>6, ResultsFound DEF EndSection
  <1>10. PICK sections2 : sections2 = Append(report.sections, new)
    OBVIOUS
  <1>11. /\ sections2 \in Seq(SectionRecord) /\ Len(sections2) = Len(report.sections) + 1
         /\ \A k \in 1 .. Len(report.sections) : sections2[k] = report.sections[k]
         /\ sections2[Len(report.sections) + 1] = new
         /\ Len(report.sections) \in Nat
         /\ DOMAIN report.sections = 1 .. Len(report.sections)
         /\ DOMAIN sections2 = 1 .. Len(report.sections) + 1
    BY <1>6, <1>8, <1>10, AppendProperties, LenProperties
  <1>12. /\ new.user = u /\ new.summary = a /\ new.events = e
         /\ pc2 \in {"section", "list", "done"}
         /\ pc2 = "section" => Tail(report.left) # <<>>
         /\ pc2 = "done" => ~report.admin
         /\ pc2 = "list" => report.admin
    OBVIOUS
  <1> HIDE DEF new, pc2
  <1>13. /\ report' \in [pc : {"section", "list", "done"}, admin : BOOLEAN,
                          left : Seq(Users), section : Seq(ReadResult),
                          sections : Seq(SectionRecord), list : EventLists \cup {<<>>}]
         /\ report'.pc = pc2 /\ report'.admin = report.admin
         /\ report'.left = Tail(report.left) /\ report'.section = <<>>
         /\ report'.sections = sections2 /\ report'.list = <<>>
    BY <1>6, <1>7, <1>9, <1>10, <1>11, <1>12, EmptySeq DEF ReportInv, ReportFields
  <1>14. Sections' = Sections \cup {new}
    <2>1. Sections' = {sections2[k] : k \in DOMAIN sections2}
      BY <1>13 DEF Sections
    <2>2. ASSUME NEW s \in Sections PROVE s \in {sections2[k] : k \in DOMAIN sections2}
      <3>1. PICK k \in DOMAIN report.sections : s = report.sections[k]
        BY DEF Sections
      <3>2. k \in DOMAIN sections2 /\ s = sections2[k]
        BY <1>11, <3>1
      <3>3. QED
        BY <3>2
    <2>3. ASSUME NEW k \in DOMAIN sections2 PROVE sections2[k] \in Sections \cup {new}
      <3>1. CASE k = Len(report.sections) + 1
        BY <1>11, <3>1
      <3>2. CASE k \in 1 .. Len(report.sections)
        BY <1>11, <3>2 DEF Sections
      <3>3. QED
        BY <1>11, <3>1, <3>2
    <2>4. Len(report.sections) + 1 \in DOMAIN sections2
      BY <1>11
    <2>5. QED
      BY <1>11, <2>1, <2>2, <2>3, <2>4
  <1>15. SectionHolds(new)'
    <2>1. Shows(e, {u})' /\ Accounted(a, e, u)'
      BY <1>5, <1>6, StillShows, StillAccounted DEF Summarises
    <2>2. report.admin => ForAdmin(u)
      BY <1>6, <1>7
    <2>3. SectionHolds(new)' <=> /\ report'.admin => ForAdmin(new.user)
                                /\ Shows(new.events, {new.user})'
                                /\ Accounted(new.summary, new.events, new.user)'
      BY DEF SectionHolds, new, ForAdmin
    <2>4. QED
      BY <1>12, <1>13, <2>1, <2>2, <2>3
  <1>16. \A s \in Sections : SectionHolds(s)'
    BY <1>5, <1>13, SectionsKept
  <1>17. SectionUnderWay'
    <2>1. Len(<<>>) = 0
      OBVIOUS
    <2>2. report.admin =>
              \A k \in 1 .. Len(Tail(report.left)) : ForAdmin(Tail(report.left)[k])
      BY <1>6, <1>7
    <2>3. SUFFICES ASSUME pc2 = "section" PROVE SectionUnderWay'
      BY <1>13 DEF SectionUnderWay
    <2>4. Tail(report.left) # <<>>
      BY <1>12, <2>3
    <2>5. \A k \in 1 .. Len(report'.section) : FALSE
      BY <1>13, <2>1
    <2>6. report'.admin =>
              \A k \in 1 .. Len(report'.left) : ForAdmin(report'.left[k])
      BY <1>13, <2>2
    <2>7. Len(report'.section) = 0
      BY <1>13, <2>1
    <2>8. ~ 0 >= 1 /\ ~ 0 >= 2 /\ ~ 0 >= 3 /\ 0 <= 3
      OBVIOUS
    <2>9. QED
      BY ONLY <1>13, <2>4, <2>5, <2>6, <2>7, <2>8 DEF SectionUnderWay, ForAdmin
  <1>18. ListHolds' /\ ListFollowsSections'
    BY <1>12, <1>13, EmptyList, RecentAssumption DEF ListHolds, ListFollowsSections
  <1>19. QED
    BY <1>13, <1>14, <1>15, <1>16, <1>17, <1>18 DEF ReportInv, ReportFields

\* The list is read last: what a section shows is in it, or older than it.
LEMMA ListStep ==
    ASSUME IInv, ReportInv, ReadList
    PROVE  ReportInv'
  <1> DEFINE users == {report.sections[k].user : k \in DOMAIN report.sections}
  <1>1. PICK list : list = RecentEvents(users)
    OBVIOUS
  <1>2. /\ report.pc = "list" /\ UNCHANGED quotaVars
        /\ report' = [report EXCEPT !.pc = "done", !.list = list]
    BY <1>1 DEF ReadList
  <1>3. /\ Shows(list, users)
        /\ \A i \in DOMAIN list : list[i] = usage_events[i]
        /\ \A i \in Ids :
              usage_events[i].user_id \in users /\ i \notin DOMAIN list =>
                  /\ Cardinality(DOMAIN list) = RecentLimit
                  /\ \A j \in DOMAIN list : i < j
    BY <1>1, ListIsRead DEF IInv
  <1>4. \A v : v \in users <=> \E s \in Sections : s.user = v
    BY DEF Sections
  <1> HIDE DEF users
  <1>5. /\ report' \in [pc : {"section", "list", "done"}, admin : BOOLEAN,
                         left : Seq(Users), section : Seq(ReadResult),
                         sections : Seq(SectionRecord), list : EventLists \cup {<<>>}]
        /\ report'.pc = "done" /\ report'.admin = report.admin
        /\ report'.sections = report.sections /\ report'.list = list
    BY <1>2, <1>3 DEF ReportInv, ReportFields, Shows
  <1>6. Sections' = Sections
    BY <1>5 DEF Sections
  <1>7. \A s \in Sections : SectionHolds(s) /\ SectionHolds(s)'
    BY <1>2, <1>5, SectionsKept DEF ReportInv
  <1>8. ListHolds'
    <2>1. report.admin
      BY <1>2 DEF ReportInv, ListHolds
    <2>2. \A i \in DOMAIN list : \E s \in Sections : s.user = list[i].user_id
      BY <1>3, <1>4 DEF Shows
    <2>3. QED
      BY <1>3, <1>5, <1>6, <2>1, <2>2 DEF ListHolds, Shows
  <1>9. ListFollowsSections'
    <2>1. ASSUME NEW s \in Sections, NEW i \in DOMAIN s.events
          PROVE  IF i \in DOMAIN list
                 THEN s.events[i].status # "reserved" => list[i] = s.events[i]
                 ELSE /\ Cardinality(DOMAIN list) = RecentLimit
                      /\ \A j \in DOMAIN list : j > i
      <3>1. /\ i \in Ids /\ usage_events[i].user_id = s.user
            /\ s.events[i].status # "reserved" => usage_events[i] = s.events[i]
        BY <1>7, <2>1 DEF SectionHolds, Shows
      <3>2. s.user \in users
        BY <1>4
      <3>3. \A j \in DOMAIN list : i < j => j > i
        OBVIOUS
      <3>4. QED
        BY <1>3, <3>1, <3>2, <3>3
    <2>2. QED
      BY <1>5, <1>6, <2>1 DEF ListFollowsSections
  <1>10. SectionUnderWay'
    BY <1>5 DEF SectionUnderWay
  <1>11. QED
    BY <1>5, <1>6, <1>7, <1>8, <1>9, <1>10 DEF ReportInv, ReportFields

-----------------------------------------------------------------------------
(***************************************************************************)
(* The theorems.                                                           *)
(***************************************************************************)

\* A report only reads: the ledger behaves under it as it does without it.
LEMMA ReadsOnly == ReportSpec => Spec
  <1>1. ReportInit => Init
    BY DEF ReportInit
  <1>2. [ReportNext]_reportVars => [Next]_quotaVars
    BY DEF ReportNext, reportVars, StartReport, ReadSection, EndSection, ReadList
  <1>3. QED
    BY <1>1, <1>2, PTL DEF ReportSpec, Spec

\* The inductive step, action by action.
LEMMA ReportInvStep ==
    IInv /\ TotalsMatchEvents /\ ReportInv /\ [ReportNext]_reportVars => ReportInv'
  <1> SUFFICES ASSUME IInv, TotalsMatchEvents, ReportInv, [ReportNext]_reportVars
               PROVE  ReportInv'
    OBVIOUS
  <1>1. CASE StartReport
    BY <1>1, StartStep
  <1>2. CASE ReadSection
    BY <1>2, ReadStep
  <1>3. CASE EndSection
    BY <1>3, EndStep
  <1>4. CASE ReadList
    BY <1>4, ListStep
  <1>5. CASE Next /\ UNCHANGED report
    BY <1>5, LedgerStep
  <1>6. CASE UNCHANGED reportVars
    BY <1>6, LedgerStep DEF reportVars
  <1>7. QED
    BY <1>1, <1>2, <1>3, <1>4, <1>5, <1>6 DEF ReportNext

\* The inductive invariant holds of every report.
LEMMA ReportInvariant == ReportSpec => []ReportInv
  <1>1. QED
    BY InitReportInv, ReportInvStep, ReadsOnly, Inductive, TotalsAgree, PTL
       DEF ReportSpec

\* A report shows only those it is for, in lists that are no longer than they
\* may be, for any number of users, rows and any order of the admin's users.
THEOREM ReportTypeCorrect == ReportSpec => []ReportTypeOK
  BY ReportInvariant, ReportInvImplies, PTL

\* No section of a report counts a request that its list does not show and
\* that is not older than a full list, although requests are finalised between
\* the two queries: _build_user_report_data reads the summary first.
THEOREM SummariesAccountedFor == ReportSpec => []SummaryAccountedFor
  BY ReportInvariant, ReportInvImplies, PTL

\* The list at the end of an admin's report goes on where the sections stopped,
\* whatever happened to the ledger in between.
THEOREM ListsFollowSections == ReportSpec => []ListFollowsSections
  <1>1. ReportInv => ListFollowsSections
    BY DEF ReportInv
  <1>2. QED
    BY <1>1, ReportInvariant, PTL
=============================================================================

---------------------- MODULE QuotaTransactionsProofs ----------------------
(***************************************************************************)
(* Theorems about QuotaTransactions, for every value of its constants: the *)
(* statements of concurrent calls do what the atomic operations of Quota   *)
(* do, and so what QuotaProofs proves of those holds of the statements.    *)
(*                                                                         *)
(* The argument is about the connection that has the write lock.  Nobody   *)
(* else changes the tables meanwhile, so what it reads is what is          *)
(* committed, and what it has written so far is a function of that and of  *)
(* its arguments (Writing).  Only the clock moves under a check, either    *)
(* way.  A check that has passed is a fact about those tables and the time *)
(* it read (Checked), which the connection remembers, so that a move of    *)
(* the clock after it does not undo it.                                    *)
(***************************************************************************)
EXTENDS QuotaTransactions, Functions, FiniteSetTheorems, SequenceTheorems, TLAPS

\* What is proved of the ledger, for the ledger of this module.
P == INSTANCE QuotaProofs

-----------------------------------------------------------------------------
(***************************************************************************)
(* The inductive invariant.                                                *)
(***************************************************************************)

\* A caller names a row from its commit to its finalisation, and no two
\* callers name the same one.
OwnRow ==
    /\ \A c \in Callers :
          conn[c].row # 0 <=> conn[c].pc \in {"holding", "updated", "written"}
    /\ \A c, d \in Callers : c # d /\ conn[c].row = conn[d].row => conn[c].row = 0

\* The row and the history record that the INSERT of c writes, now.
NewRow(c) ==
    [user_id |-> conn[c].user, model |-> conn[c].model,
     total_tokens |-> Q!NonNegative(conn[c].estimate),
     status |-> "reserved", timestamp |-> now]

NewGrant(c) ==
    Q!GrantOf(conn[c].user, conn[c].estimate, conn[c].rate_at, conn[c].day_at)

Tables(events, totals, limits, grants) ==
    [usage_events |-> events, usage_totals |-> totals,
     user_limits |-> limits, granted |-> grants]

\* The tables after the INSERT of c, after its UPDATE, and after the upsert
\* of the totals too.
WithNewRow(c) ==
    Tables(Append(usage_events, NewRow(c)), usage_totals, user_limits,
           Append(granted, NewGrant(c)))

SettledRows(c, status, tokens) ==
    [usage_events EXCEPT ![conn[c].row] =
        [@ EXCEPT !.status = status, !.total_tokens = tokens]]

BilledTotals(c, tokens) ==
    [usage_totals EXCEPT ![conn[c].user][conn[c].model] =
        [total_tokens |-> @.total_tokens + tokens,
         request_count |-> @.request_count + 1]]

Settled(c, status, tokens) ==
    Tables(SettledRows(c, status, tokens), usage_totals, user_limits, granted)

Billed(c, tokens) ==
    Tables(SettledRows(c, "success", tokens), BilledTotals(c, tokens),
           user_limits, granted)

\* Whose row it is: the totals that grow are those of the row.
OwnersRow ==
    \A c \in Callers : conn[c].row # 0 =>
        /\ usage_events[conn[c].row].user_id = conn[c].user
        /\ usage_events[conn[c].row].model = conn[c].model

\* The checks of c that have passed hold of what is committed, at the times
\* they read.
Checked(c) ==
    /\ conn[c].pc \in {"rate_ok", "daily_ok", "total_ok", "inserted"} =>
           Q!RateOkAt(conn[c].user, conn[c].rate_at)
    /\ conn[c].pc \in {"daily_ok", "total_ok", "inserted"} =>
           Q!DailyOkAt(conn[c].user, Q!NonNegative(conn[c].estimate), conn[c].day_at)
    /\ conn[c].pc \in {"total_ok", "inserted"} =>
           Q!TotalOk(conn[c].user, Q!NonNegative(conn[c].estimate))

\* What the writer's connection sees, beside what is committed.
Writing(c) ==
    /\ conn[c].pc \in {"begun", "rate_ok", "daily_ok", "total_ok"} => work = Committed
    /\ conn[c].pc = "inserted" =>
           Len(usage_events) < MaxEvents /\ work = WithNewRow(c)
    /\ conn[c].pc = "updated" =>
           conn[c].tokens \in Usages /\ work = Settled(c, "success", conn[c].tokens)
    /\ conn[c].pc = "written" =>
           \/ work = Settled(c, "failed", 0)
           \/ \E tokens \in Usages : work = Billed(c, tokens)

\* The inductive invariant.
IInv ==
    /\ TypeOK /\ OwnRow /\ OwnersRow
    /\ \A c \in Callers : Checked(c) /\ Writing(c)

-----------------------------------------------------------------------------
(***************************************************************************)
(* Three copies of the ledger's definitions are in scope: the ledger as    *)
(* committed (Q), the same with what is proved of it (P), and the ledger   *)
(* as the writer's connection sees it (W).  They count and add alike.      *)
(***************************************************************************)

\* The constants are as the proofs about the ledger assume them.
LEMMA LedgerAssumptions ==
    /\ P!EstimatesAssumption /\ P!UsagesAssumption /\ P!NoLimitAssumption
    /\ P!SettingsAssumption /\ P!WindowAssumption /\ P!DayAssumption
    /\ P!BoundsAssumption
  BY QuotaAssumptions
     DEF Q!EstimatesAssumption, Q!UsagesAssumption, Q!NoLimitAssumption,
         Q!SettingsAssumption, Q!WindowAssumption, Q!DayAssumption,
         Q!BoundsAssumption, Q!Limits, Q!Limit,
         P!EstimatesAssumption, P!UsagesAssumption, P!NoLimitAssumption,
         P!SettingsAssumption, P!WindowAssumption, P!DayAssumption,
         P!BoundsAssumption, P!Limits, P!Limit

\* They count alike.
LEMMA SameCount ==
    ASSUME NEW S
    PROVE  /\ Q!Cardinality(S) = Cardinality(S)
           /\ P!Cardinality(S) = Cardinality(S)
           /\ W!Cardinality(S) = Cardinality(S)
  BY DEF Q!Cardinality, P!Cardinality, W!Cardinality, Cardinality

\* They add alike.
LEMMA SameSum ==
    ASSUME NEW f
    PROVE  /\ Q!SumFunction(f) = SumFunction(f)
           /\ P!SumFunction(f) = SumFunction(f)
           /\ W!SumFunction(f) = SumFunction(f)
  BY DEF Q!SumFunction, Q!SumFunctionOnSet, Q!FoldFunctionOnSet, Q!MapThenFoldSet,
         P!SumFunction, P!SumFunctionOnSet, P!FoldFunctionOnSet, P!MapThenFoldSet,
         W!SumFunction, W!SumFunctionOnSet, W!FoldFunctionOnSet, W!MapThenFoldSet,
         SumFunction, SumFunctionOnSet, FoldFunctionOnSet, MapThenFoldSet

\* So what is proved of sums for the ledger holds here.
LEMMA SumOfNone == ASSUME NEW f PROVE SumFunctionOnSet(f, {}) = 0
  <1>1. P!SumFunctionOnSet(f, {}) = 0
    BY LedgerAssumptions, P!SumOfNone
  <1>2. QED
    BY <1>1 DEF P!SumFunctionOnSet, P!FoldFunctionOnSet, P!MapThenFoldSet,
                SumFunctionOnSet, FoldFunctionOnSet, MapThenFoldSet

LEMMA SumType ==
    ASSUME NEW f, NEW S, IsFiniteSet(S), \A x \in S : f[x] \in Nat
    PROVE  SumFunctionOnSet(f, S) \in Nat
  <1>1. P!IsFiniteSet(S)
    BY DEF P!IsFiniteSet, IsFiniteSet
  <1>2. P!SumFunctionOnSet(f, S) \in Nat
    BY <1>1, LedgerAssumptions, P!SumType
  <1>3. QED
    BY <1>2 DEF P!SumFunctionOnSet, P!FoldFunctionOnSet, P!MapThenFoldSet,
                SumFunctionOnSet, FoldFunctionOnSet, MapThenFoldSet

\* The same tables are well typed.
LEMMA SameType == Q!TypeOK <=> P!TypeOK
  BY DEF Q!TypeOK, Q!Event, Q!Statuses, Q!Times, Q!Total, Q!Limits, Q!Limit,
         Q!Grant, Q!Dates, Q!Date, Q!Ids,
         P!TypeOK, P!Event, P!Statuses, P!Times, P!Total, P!Limits, P!Limit,
         P!Grant, P!Dates, P!Date, P!Ids

\* The same requests are admitted, and the same is noted of them.
LEMMA SameAdmits ==
    ASSUME NEW u, NEW n, NEW r, NEW d
    PROVE  /\ Q!AdmitsAt(u, n, r, d) <=> P!AdmitsAt(u, n, r, d)
           /\ Q!GrantOf(u, n, r, d) = P!GrantOf(u, n, r, d)
  <1>1. Q!AdmitsAt(u, n, r, d) <=> P!AdmitsAt(u, n, r, d)
    BY SameCount, SameSum
       DEF Q!AdmitsAt, Q!RateOkAt, Q!DailyOkAt, Q!TotalOk, Q!RowsSince, Q!RowsOnDate,
           Q!CountedRows, Q!Counted, Q!Tokens, Q!Date, Q!NonNegative,
           P!AdmitsAt, P!RateOkAt, P!DailyOkAt, P!TotalOk, P!RowsSince, P!RowsOnDate,
           P!CountedRows, P!Counted, P!Tokens, P!Date, P!NonNegative
  <1>2. Q!GrantOf(u, n, r, d) = P!GrantOf(u, n, r, d)
    BY DEF Q!GrantOf, Q!Later, Q!NonNegative, Q!Date,
           P!GrantOf, P!Later, P!NonNegative, P!Date
  <1>3. QED
    BY <1>1, <1>2

\* The same steps are steps of the ledger.
LEMMA SameNext == [Q!Next]_Q!quotaVars <=> [P!Next]_P!quotaVars
  <1>1. ASSUME NEW u, NEW m, NEW n, NEW r, NEW d
        PROVE  Q!InsertReserved(u, m, n, r, d) <=> P!InsertReserved(u, m, n, r, d)
    BY SameAdmits
       DEF Q!InsertReserved, Q!NonNegative, P!InsertReserved, P!NonNegative
  <1>2. ASSUME NEW u, NEW m, NEW n
        PROVE  /\ \A r, d : Q!ReserveAt(u, m, n, r, d) <=> P!ReserveAt(u, m, n, r, d)
               /\ Q!ReserveUnheard(u, m, n) <=> P!ReserveUnheard(u, m, n)
    BY <1>1 DEF Q!ReserveAt, Q!ReserveUnheard, P!ReserveAt, P!ReserveUnheard
  <1>3. QED
    BY <1>2
       DEF Q!Next, Q!quotaVars, Q!tables, Q!FinalizeSuccess, Q!FinalizeFailure,
           Q!Abandon, Q!UpdateLimits, Q!SetClock, Q!Times,
           P!Next, P!quotaVars, P!tables, P!FinalizeSuccess, P!FinalizeFailure,
           P!Abandon, P!UpdateLimits, P!SetClock, P!Times

\* The ledgers begin alike.
LEMMA SameInit == Q!Init <=> P!Init
  BY DEF Q!Init, Q!Unlimited, P!Init, P!Unlimited

\* A connection that has written nothing finds in its queries what is committed.
LEMMA ReadsCommitted ==
    ASSUME work = Committed, NEW u, NEW n, NEW s
    PROVE  /\ W!RateOkAt(u, s) <=> Q!RateOkAt(u, s)
           /\ W!DailyOkAt(u, n, s) <=> Q!DailyOkAt(u, n, s)
           /\ W!TotalOk(u, n) <=> Q!TotalOk(u, n)
           /\ W!NonNegative(n) = Q!NonNegative(n)
  <1>1. work.usage_events = usage_events /\ work.user_limits = user_limits
    BY DEF Committed
  <1>2. ASSUME NEW v, NEW t, NEW last
        PROVE  /\ W!CountedRows(v, last) = Q!CountedRows(v, last)
               /\ W!RowsSince(v, t, last) = Q!RowsSince(v, t, last)
               /\ W!RowsOnDate(v, t, last) = Q!RowsOnDate(v, t, last)
               /\ W!Date(t) = Q!Date(t)
    BY <1>1 DEF W!RowsSince, W!RowsOnDate, W!CountedRows, W!Counted, W!Date,
                Q!RowsSince, Q!RowsOnDate, Q!CountedRows, Q!Counted, Q!Date
  <1>3. ASSUME NEW rows PROVE W!Tokens(rows) = Q!Tokens(rows)
    BY <1>1, SameSum DEF W!Tokens, Q!Tokens
  <1>4. W!RateOkAt(u, s) <=> Q!RateOkAt(u, s)
    BY <1>1, <1>2, SameCount DEF W!RateOkAt, Q!RateOkAt
  <1>5. W!DailyOkAt(u, n, s) <=> Q!DailyOkAt(u, n, s)
    BY <1>1, <1>2, <1>3 DEF W!DailyOkAt, Q!DailyOkAt
  <1>6. W!TotalOk(u, n) <=> Q!TotalOk(u, n)
    BY <1>1, <1>2, <1>3 DEF W!TotalOk, Q!TotalOk
  <1>7. W!NonNegative(n) = Q!NonNegative(n)
    BY DEF W!NonNegative, Q!NonNegative
  <1>8. QED
    BY <1>4, <1>5, <1>6, <1>7

\* The entries of the table of events.
LEMMA RowType ==
    ASSUME Q!TypeOK
    PROVE  /\ now \in Nat /\ now <= MaxNow
           /\ Len(usage_events) \in Nat
           /\ \A i \in Q!Ids :
                 /\ usage_events[i] \in Q!Event
                 /\ usage_events[i].total_tokens \in Nat
                 /\ usage_events[i].timestamp \in Nat
  <1>1. usage_events \in Seq(Q!Event) /\ now \in Q!Times
    BY DEF Q!TypeOK
  <1>2. Len(usage_events) \in Nat
    BY <1>1, LenProperties
  <1>3. \A i \in Q!Ids : usage_events[i] \in Q!Event
    BY <1>1, ElementOfSeq DEF Q!Ids
  <1>4. MaxNow \in Nat
    BY LedgerAssumptions DEF P!BoundsAssumption
  <1>5. QED
    BY <1>1, <1>2, <1>3, <1>4 DEF Q!Event, Q!Times

-----------------------------------------------------------------------------
(***************************************************************************)
(* Every statement is a step of the ledger, or none that it can see: only  *)
(* a commit, a lost reservation, the admin and the clock show.             *)
(***************************************************************************)

\* The clamp of an estimate yields a number of tokens.
LEMMA EstimateType == ASSUME NEW n \in Estimates PROVE Q!NonNegative(n) \in Nat
  BY LedgerAssumptions DEF P!EstimatesAssumption, Q!NonNegative

\* What a caller's record and the lock hold.
LEMMA ConnType ==
    ASSUME TypeOK
    PROVE  /\ DOMAIN conn = Callers
           /\ \A c \in Callers :
                 /\ conn[c] \in [pc : Steps, user : Users, model : Models,
                                 estimate : Estimates, row : 0 .. MaxEvents,
                                 tokens : Usages \cup {0},
                                 rate_at : Q!Times, day_at : Q!Times]
                 /\ conn[c].rate_at \in Q!Times /\ conn[c].day_at \in Q!Times
                 /\ conn[c].user \in Users /\ conn[c].model \in Models
                 /\ conn[c].estimate \in Estimates /\ conn[c].row \in 0 .. MaxEvents
                 /\ conn[c].row # 0 => conn[c].row \in Q!Ids
                 /\ writer = c <=> conn[c].pc \notin {"idle", "holding"}
  BY DEF TypeOK, Q!TypeOK, held

\* A caller that has no row gets one.
LEMMA HeldMore ==
    ASSUME NEW c \in Callers, conn[c].row = 0, NEW i, i # 0, conn'[c].row = i,
           \A d \in Callers \ {c} : conn'[d].row = conn[d].row
    PROVE  held' = held \cup {i}
  BY DEF held

\* A caller gives up its row, if it has one.
LEMMA HeldLess ==
    ASSUME OwnRow, NEW c \in Callers, conn'[c].row = 0,
           \A d \in Callers \ {c} : conn'[d].row = conn[d].row
    PROVE  held' = held \ {conn[c].row}
  BY DEF held, OwnRow

\* The others' rows do not change.
LEMMA HeldSame ==
    ASSUME \A d \in Callers : conn'[d].row = conn[d].row
    PROVE  held' = held
  BY DEF held

\* The commit of a reservation is the atomic reservation.
LEMMA CommitReserves ==
    ASSUME IInv, NEW c \in Callers, CommitReserve(c)
    PROVE  Q!ReserveAt(conn[c].user, conn[c].model, conn[c].estimate,
                       conn[c].rate_at, conn[c].day_at)
  <1>1. /\ conn[c].pc = "inserted" /\ conn[c].row = 0
        /\ work = WithNewRow(c) /\ Len(usage_events) < MaxEvents
        /\ Q!AdmitsAt(conn[c].user, conn[c].estimate, conn[c].rate_at, conn[c].day_at)
    BY DEF IInv, CommitReserve, Checked, Writing, OwnRow, Q!AdmitsAt
  <1>2. /\ usage_events' = Append(usage_events, NewRow(c))
        /\ granted' = Append(granted, NewGrant(c))
        /\ UNCHANGED <<usage_totals, user_limits, now>>
        /\ usage_events' = work.usage_events
    BY <1>1 DEF CommitReserve, Install, WithNewRow, Tables
  <1>3. Q!InsertReserved(conn[c].user, conn[c].model, conn[c].estimate,
                         conn[c].rate_at, conn[c].day_at)
    BY <1>1, <1>2 DEF Q!InsertReserved, NewRow, NewGrant
  <1>4. Len(usage_events') # 0
    <2>1. NewRow(c) \in Q!Event
      BY ConnType, EstimateType DEF IInv, TypeOK, NewRow, Q!Event, Q!Statuses, Q!TypeOK
    <2>2. usage_events \in Seq(Q!Event)
      BY DEF IInv, TypeOK, Q!TypeOK
    <2>3. Len(usage_events') = Len(usage_events) + 1 /\ Len(usage_events) \in Nat
      BY <1>2, <2>1, <2>2, AppendProperties, LenProperties
    <2>4. QED
      BY <2>3
  <1>5. held' = held \cup {Len(usage_events')}
    <2>1. conn' = [conn EXCEPT ![c].pc = "holding", ![c].row = Len(usage_events'),
                               ![c].rate_at = 0, ![c].day_at = 0]
      BY <1>2 DEF CommitReserve
    <2>2. /\ conn'[c].row = Len(usage_events')
          /\ \A d \in Callers \ {c} : conn'[d].row = conn[d].row
      BY <2>1, ConnType DEF IInv
    <2>3. QED
      BY <1>1, <1>4, <2>2, HeldMore
  <1>6. QED
    BY <1>3, <1>5 DEF Q!ReserveAt

\* The commit of a finalisation is the atomic finalisation.
LEMMA CommitFinalizes ==
    ASSUME IInv, NEW c \in Callers, CommitFinalize(c)
    PROVE  /\ conn[c].row \in held
           /\ \/ Q!FinalizeFailure(conn[c].row)
              \/ \E tokens \in Usages : Q!FinalizeSuccess(conn[c].row, tokens)
  <1> DEFINE i == conn[c].row
  <1>1. /\ conn[c].pc = "written" /\ i # 0 /\ i \in Q!Ids
        /\ usage_events[i].user_id = conn[c].user
        /\ usage_events[i].model = conn[c].model
        /\ \/ work = Settled(c, "failed", 0)
           \/ \E tokens \in Usages : work = Billed(c, tokens)
    BY ConnType DEF IInv, CommitFinalize, Writing, OwnRow, OwnersRow
  <1>2. held' = held \ {i}
    BY ConnType, HeldLess DEF IInv, CommitFinalize
  <1>3. i \in held
    BY <1>1 DEF held
  <1>4. CASE work = Settled(c, "failed", 0)
    BY <1>1, <1>2, <1>3, <1>4
       DEF Settled, SettledRows, Tables, CommitFinalize, Install, Q!FinalizeFailure
  <1>5. CASE \E tokens \in Usages : work = Billed(c, tokens)
    <2>1. PICK tokens \in Usages : work = Billed(c, tokens)
      BY <1>5
    <2>2. /\ usage_events' = SettledRows(c, "success", tokens)
          /\ usage_totals' = BilledTotals(c, tokens)
          /\ UNCHANGED <<user_limits, now, granted>>
      BY <2>1 DEF Billed, Tables, CommitFinalize, Install
    <2>3. Q!FinalizeSuccess(i, tokens)
      BY <1>1, <1>2, <1>3, <2>2 DEF SettledRows, BilledTotals, Q!FinalizeSuccess
    <2>4. QED
      BY <1>3, <2>3
  <1>6. QED
    BY <1>1, <1>3, <1>4, <1>5

\* A statement shows to the ledger as the operation it commits, or not at all.
LEMMA StepIsAtomic == IInv /\ [Next]_txVars => [Q!Next]_Q!quotaVars
  <1> SUFFICES ASSUME IInv, [Next]_txVars PROVE [Q!Next]_Q!quotaVars
    OBVIOUS
  <1>0. TypeOK /\ OwnRow
    BY DEF IInv
  <1>1. ASSUME NEW c \in Callers,
               \/ BeginImmediate(c) \/ InsertRow(c)
               \/ RateCheck(c) \/ DailyCheck(c) \/ TotalCheck(c)
               \/ UpdateToSuccess(c) \/ UpsertTotals(c) \/ UpdateToFailed(c)
        PROVE  UNCHANGED Q!quotaVars
    <2>1. UNCHANGED <<committed, now>>
      BY <1>1 DEF BeginImmediate, InsertRow, RateCheck, DailyCheck, TotalCheck,
                  UpdateToSuccess, UpsertTotals, UpdateToFailed
    <2>2. conn \in [Callers -> [pc : Steps, user : Users, model : Models,
                                estimate : Estimates, row : 0 .. MaxEvents,
                                tokens : Usages \cup {0},
                                rate_at : Q!Times, day_at : Q!Times]]
      BY <1>0 DEF TypeOK
    <2>3. \A d \in Callers : conn'[d].row = conn[d].row
      <3>1. CASE BeginImmediate(c)
        BY <2>2, <3>1 DEF BeginImmediate
      <3>2. CASE RateCheck(c) \/ DailyCheck(c) \/ TotalCheck(c)
        BY <2>2, <3>2 DEF RateCheck, DailyCheck, TotalCheck
      <3>3. CASE UpdateToSuccess(c)
        BY <2>2, <3>3 DEF UpdateToSuccess
      <3>4. CASE InsertRow(c) \/ UpsertTotals(c) \/ UpdateToFailed(c)
        BY <2>2, <3>4 DEF InsertRow, UpsertTotals, UpdateToFailed
      <3>5. QED
        BY <1>1, <3>1, <3>2, <3>3, <3>4
    <2>4. QED
      BY <2>1, <2>3, HeldSame DEF committed, Q!quotaVars
  <1>2. ASSUME NEW c \in Callers, CommitReserve(c) PROVE Q!Next
    BY <1>0, <1>2, CommitReserves, ConnType DEF Q!Next
  <1>3. ASSUME NEW c \in Callers, CommitFinalize(c) PROVE Q!Next
    BY <1>3, CommitFinalizes DEF Q!Next
  <1>4. ASSUME NEW c \in Callers, Rollback(c) PROVE Q!Next \/ UNCHANGED Q!quotaVars
    <2>1. held' = held \ {conn[c].row} /\ UNCHANGED <<committed, now>>
      BY <1>0, <1>4, ConnType, HeldLess DEF Rollback
    <2>2. CASE conn[c].row \in held
      BY <2>1, <2>2 DEF Q!Next, Q!Abandon, Q!tables, committed
    <2>3. CASE conn[c].row \notin held
      BY <2>1, <2>3 DEF Q!quotaVars, committed
    <2>4. QED
      BY <2>2, <2>3
  <1>5. ASSUME NEW u \in Users, NEW limits \in LimitSettings, UpsertLimits(u, limits)
        PROVE  Q!Next
    <2>1. Q!UpdateLimits(u, limits)
      BY <1>5, HeldSame DEF UpsertLimits, Q!UpdateLimits
    <2>2. QED
      BY <2>1 DEF Q!Next
  <1>6. ASSUME NEW t \in Q!Times, SetClock(t) PROVE Q!Next
    <2>1. Q!SetClock(t)
      BY <1>6, HeldSame DEF SetClock, committed, Q!SetClock, Q!tables
    <2>2. QED
      BY <2>1 DEF Q!Next
  <1>7. CASE UNCHANGED txVars
    BY <1>7, HeldSame DEF txVars, committed, Q!quotaVars
  <1>8. QED
    BY <1>1, <1>2, <1>3, <1>4, <1>5, <1>6, <1>7 DEF Next

-----------------------------------------------------------------------------
(***************************************************************************)
(* What a statement writes on its connection.                              *)
(***************************************************************************)

\* The tables are functions, as the lemmas above want them.
LEMMA TablesType ==
    ASSUME TypeOK
    PROVE  /\ Len(usage_events) \in Nat
           /\ usage_events \in [1 .. Len(usage_events) -> Q!Event]
           /\ usage_totals \in [Users -> [Models -> Q!Total]]
           /\ Committed = Tables(usage_events, usage_totals, user_limits, granted)
  <1>1. usage_events \in Seq(Q!Event) /\ usage_totals \in [Users -> [Models -> Q!Total]]
    BY DEF TypeOK, Q!TypeOK
  <1>2. QED
    BY <1>1, LenProperties DEF Committed, Tables

\* The UPDATE of finalize_success sets two columns of the row of c.
LEMMA SuccessWrites ==
    ASSUME TypeOK, work = Tables(usage_events, usage_totals, user_limits, granted),
           NEW c \in Callers, conn[c].row \in Q!Ids, UpdateToSuccess(c)
    PROVE  \E tokens \in Usages :
              /\ conn' = [conn EXCEPT ![c].pc = "updated", ![c].tokens = tokens]
              /\ work' = Settled(c, "success", tokens)
  <1> DEFINE i == conn[c].row
  <1>1. PICK tokens \in Usages :
           /\ conn' = [conn EXCEPT ![c].pc = "updated", ![c].tokens = tokens]
           /\ work' = [work EXCEPT !.usage_events[i].status = "success",
                                   !.usage_events[i].total_tokens = tokens]
    BY DEF UpdateToSuccess
  <1> DEFINE v == SettledRows(c, "success", tokens)
  <1>2. PICK n \in Nat : usage_events \in [1 .. n -> Q!Event] /\ i \in 1 .. n
    BY TablesType DEF Q!Ids
  <1> HIDE DEF i
  <1>3. [work EXCEPT !.usage_events[i].status = "success",
                     !.usage_events[i].total_tokens = tokens]
          = [work EXCEPT !.usage_events =
                [usage_events EXCEPT ![i].status = "success", ![i].total_tokens = tokens]]
    BY <1>2 DEF Tables
  <1>4. [usage_events EXCEPT ![i].status = "success", ![i].total_tokens = tokens] = v
    BY <1>2 DEF SettledRows, i
  <1> HIDE DEF v
  <1>5. [work EXCEPT !.usage_events = v] = Tables(v, usage_totals, user_limits, granted)
    BY <1>2 DEF Tables
  <1>6. QED
    BY <1>1, <1>3, <1>4, <1>5 DEF v, Settled, i

\* The UPDATE of finalize_failure likewise.
LEMMA FailureWrites ==
    ASSUME TypeOK, work = Tables(usage_events, usage_totals, user_limits, granted),
           NEW c \in Callers, conn[c].row \in Q!Ids, UpdateToFailed(c)
    PROVE  work' = Settled(c, "failed", 0)
  <1> DEFINE i == conn[c].row
             v == SettledRows(c, "failed", 0)
  <1>1. work' = [work EXCEPT !.usage_events[i].status = "failed",
                             !.usage_events[i].total_tokens = 0]
    BY DEF UpdateToFailed
  <1>2. PICK n \in Nat : usage_events \in [1 .. n -> Q!Event] /\ i \in 1 .. n
    BY TablesType DEF Q!Ids
  <1> HIDE DEF i
  <1>3. [work EXCEPT !.usage_events[i].status = "failed",
                     !.usage_events[i].total_tokens = 0]
          = [work EXCEPT !.usage_events =
                [usage_events EXCEPT ![i].status = "failed", ![i].total_tokens = 0]]
    BY <1>2 DEF Tables
  <1>4. [usage_events EXCEPT ![i].status = "failed", ![i].total_tokens = 0] = v
    BY <1>2 DEF SettledRows, i
  <1> HIDE DEF v
  <1>5. [work EXCEPT !.usage_events = v] = Tables(v, usage_totals, user_limits, granted)
    BY <1>2 DEF Tables
  <1>6. QED
    BY <1>1, <1>3, <1>4, <1>5 DEF v, Settled, i

\* The upsert of finalize_success sets both columns of the totals of c.
LEMMA UpsertWrites ==
    ASSUME TypeOK, NEW c \in Callers, UpsertTotals(c),
           work = Tables(SettledRows(c, "success", conn[c].tokens),
                         usage_totals, user_limits, granted)
    PROVE  work' = Billed(c, conn[c].tokens)
  <1> DEFINE u == conn[c].user
             m == conn[c].model
             x == usage_totals[u][m].total_tokens + conn[c].tokens
             y == usage_totals[u][m].request_count + 1
             t == [total_tokens |-> x, request_count |-> y]
             r == [usage_totals[u][m] EXCEPT !.total_tokens = x, !.request_count = y]
             v == [usage_totals EXCEPT ![u][m] = t]
  <1>1. /\ usage_totals \in [Users -> [Models -> Q!Total]]
        /\ u \in Users /\ m \in Models
    BY TablesType, ConnType
  <1>2. work' = [work EXCEPT !.usage_totals[u][m].total_tokens = x,
                             !.usage_totals[u][m].request_count = y]
    <2>1. work.usage_totals = usage_totals
      BY DEF Tables
    <2>2. QED
      BY <2>1 DEF UpsertTotals
  <1> HIDE DEF x, y, u, m
  <1>3. [work EXCEPT !.usage_totals[u][m].total_tokens = x,
                     !.usage_totals[u][m].request_count = y]
          = [work EXCEPT !.usage_totals =
                [usage_totals EXCEPT ![u][m].total_tokens = x, ![u][m].request_count = y]]
    BY <1>1 DEF Tables
  <1>4. [usage_totals EXCEPT ![u][m].total_tokens = x, ![u][m].request_count = y]
          = [usage_totals EXCEPT ![u][m] = r]
    BY <1>1
  <1>5. r = t
    <2>1. usage_totals[u][m] \in [total_tokens : Nat, request_count : Nat]
      BY <1>1 DEF Q!Total
    <2>2. r \in [total_tokens : {x}, request_count : {y}]
      BY <2>1
    <2> HIDE DEF r
    <2>3. QED
      BY <2>2
  <1> HIDE DEF r, t
  <1>6. [usage_totals EXCEPT ![u][m].total_tokens = x, ![u][m].request_count = y] = v
    BY <1>4, <1>5
  <1> HIDE DEF v
  <1>7. [work EXCEPT !.usage_totals = v] =
            Tables(SettledRows(c, "success", conn[c].tokens), v, user_limits, granted)
    BY <1>1 DEF Tables
  <1>8. v = BilledTotals(c, conn[c].tokens)
    BY <1>1 DEF BilledTotals, v, t, x, y, u, m
  <1>9. QED
    BY <1>2, <1>3, <1>6, <1>7, <1>8 DEF Billed

\* The INSERT, and the history beside it, append to two tables.
LEMMA AppendedRow ==
    ASSUME work = Committed, NEW e, NEW g,
           work' = [work EXCEPT !.usage_events = e, !.granted = g]
    PROVE  work' = Tables(e, usage_totals, user_limits, g)
  <1>1. work' \in [usage_events : {e}, usage_totals : {usage_totals},
                   user_limits : {user_limits}, granted : {g}]
    BY DEF Committed
  <1>2. QED
    BY <1>1 DEF Tables

-----------------------------------------------------------------------------
(***************************************************************************)
(* Every statement keeps the invariant.                                    *)
(***************************************************************************)

CallerState == [pc : Steps, user : Users, model : Models, estimate : Estimates,
                row : 0 .. MaxEvents, tokens : Usages \cup {0},
                rate_at : Q!Times, day_at : Q!Times]

Passive(c) == conn[c].pc \in {"idle", "holding"}

\* The invariant says nothing of a connection that is in no transaction.
LEMMA PassiveCallers ==
    ASSUME NEW c \in Callers, Passive(c)
    PROVE  Checked(c) /\ Writing(c)
  BY DEF Passive, Checked, Writing

\* While a caller has the lock, or nobody, the others are in no transaction.
LEMMA OthersPassive ==
    ASSUME TypeOK, NEW c \in Callers, writer \in {NoCaller, c}
    PROVE  \A d \in Callers \ {c} : Passive(d)
  BY NoCallerAssumption DEF TypeOK, Passive

\* A check that sees the same tables at one time has the same result.
LEMMA ChecksKept ==
    ASSUME UNCHANGED <<usage_events, user_limits>>, NEW u, NEW n, NEW s
    PROVE  /\ Q!RateOkAt(u, s)' <=> Q!RateOkAt(u, s)
           /\ Q!DailyOkAt(u, n, s)' <=> Q!DailyOkAt(u, n, s)
           /\ Q!TotalOk(u, n)' <=> Q!TotalOk(u, n)
  <1>1. ASSUME NEW v, NEW t, NEW last
        PROVE  /\ Q!RowsSince(v, t, last)' = Q!RowsSince(v, t, last)
               /\ Q!RowsOnDate(v, t, last)' = Q!RowsOnDate(v, t, last)
               /\ Q!CountedRows(v, last)' = Q!CountedRows(v, last)
    BY DEF Q!RowsSince, Q!RowsOnDate, Q!CountedRows, Q!Counted, Q!Date
  <1>2. ASSUME NEW rows PROVE Q!Tokens(rows)' = Q!Tokens(rows)
    BY SameSum DEF Q!Tokens
  <1>3. Q!RateOkAt(u, s)' <=> Q!RateOkAt(u, s)
    BY <1>1, SameCount DEF Q!RateOkAt
  <1>4. Q!DailyOkAt(u, n, s)' <=> Q!DailyOkAt(u, n, s)
    BY <1>1, <1>2 DEF Q!DailyOkAt, Q!Date
  <1>5. Q!TotalOk(u, n)' <=> Q!TotalOk(u, n)
    BY <1>1, <1>2 DEF Q!TotalOk
  <1>6. QED
    BY <1>3, <1>4, <1>5

\* A step of the ledger keeps its tables well typed.
LEMMA LedgerTyped == IInv /\ [Next]_txVars => Q!TypeOK'
  <1>1. P!TypeOK /\ [P!Next]_P!quotaVars => P!TypeOK'
    BY LedgerAssumptions, P!TypeStep
  <1>2. Q!TypeOK' <=> P!TypeOK'
    BY DEF Q!TypeOK, Q!Event, Q!Statuses, Q!Times, Q!Total, Q!Limits, Q!Limit,
           Q!Grant, Q!Dates, Q!Date, Q!Ids,
           P!TypeOK, P!Event, P!Statuses, P!Times, P!Total, P!Limits, P!Limit,
           P!Grant, P!Dates, P!Date, P!Ids
  <1>3. QED
    BY <1>1, <1>2, StepIsAtomic, SameType, SameNext DEF IInv, TypeOK

\* A statement of c, while no other connection is in a transaction, need only
\* be looked at for c.
LEMMA ByOneCaller ==
    ASSUME IInv, [Next]_txVars, NEW c \in Callers, writer \in {NoCaller, c},
           conn' \in [Callers -> CallerState],
           \A d \in Callers \ {c} : conn'[d] = conn[d],
           writer' = IF Passive(c)' THEN NoCaller ELSE c,
           Passive(c)' => work' = Committed',
           OwnRow', OwnersRow', Checked(c)', Writing(c)'
    PROVE  IInv'
  <1>1. \A d \in Callers \ {c} : Passive(d) /\ Passive(d)'
    BY OthersPassive DEF IInv, Passive
  <1>2. TypeOK'
    <2>1. Q!TypeOK'
      BY LedgerTyped
    <2>2. \A d \in Callers : writer' = d <=> ~Passive(d)'
      BY <1>1, NoCallerAssumption
    <2>3. writer' = NoCaller => work' = Committed'
      BY NoCallerAssumption
    <2>4. QED
      BY <2>1, <2>2, <2>3 DEF TypeOK, CallerState, Passive
  <1>3. ASSUME NEW d \in Callers PROVE Checked(d)' /\ Writing(d)'
    <2>1. CASE d = c
      BY <2>1
    <2>2. CASE d # c
      BY <1>1, <2>2 DEF Passive, Checked, Writing
    <2>3. QED
      BY <2>1, <2>2
  <1>4. QED
    BY <1>2, <1>3 DEF IInv

\* A statement that commits nothing, of a caller that names its row before
\* and after it, or has none.
LEMMA NothingCommitted ==
    ASSUME IInv, UNCHANGED <<committed, now>>,
           \A d \in Callers :
              /\ conn'[d].row = conn[d].row
              /\ conn[d].row # 0 => /\ conn'[d].user = conn[d].user
                                    /\ conn'[d].model = conn[d].model
              /\ conn'[d].pc \in {"holding", "updated", "written"} <=>
                     conn[d].pc \in {"holding", "updated", "written"}
    PROVE  OwnRow' /\ OwnersRow'
  <1>1. OwnRow'
    BY DEF IInv, OwnRow
  <1>2. OwnersRow'
    BY DEF IInv, OwnersRow, committed
  <1>3. QED
    BY <1>1, <1>2

\* BEGIN IMMEDIATE: the connection sees what is committed.
LEMMA BeginKeeps ==
    ASSUME IInv, NEW c \in Callers, BeginImmediate(c) PROVE IInv'
  <1>1. PICK u \in Users, m \in Models, n \in Estimates :
           conn' = [conn EXCEPT ![c].pc = "begun", ![c].user = u,
                                ![c].model = m, ![c].estimate = n]
    BY DEF BeginImmediate
  <1>2. conn \in [Callers -> CallerState] /\ conn[c].row = 0 /\ "begun" \in Steps
    BY DEF IInv, TypeOK, CallerState, OwnRow, BeginImmediate, Steps
  <1>3. /\ conn' \in [Callers -> CallerState]
        /\ \A d \in Callers \ {c} : conn'[d] = conn[d]
        /\ conn'[c].pc = "begun" /\ conn'[c].row = conn[c].row
    <2> DEFINE r == [conn[c] EXCEPT !.pc = "begun", !.user = u, !.model = m,
                                    !.estimate = n]
    <2>1. conn' = [conn EXCEPT ![c] = r]
      BY <1>1, <1>2
    <2>2. r \in CallerState /\ r.pc = "begun" /\ r.row = conn[c].row
      BY <1>2 DEF CallerState
    <2> HIDE DEF r
    <2>3. QED
      BY <1>2, <2>1, <2>2
  <1>4. /\ conn[c].pc = "idle" /\ writer = NoCaller /\ writer' = c
        /\ UNCHANGED <<committed, now, work>> /\ work = Committed
    BY DEF BeginImmediate, Lock, IInv, TypeOK
  <1>5. OwnRow' /\ OwnersRow'
    BY <1>2, <1>3, <1>4, NothingCommitted
  <1>6. Checked(c)' /\ Writing(c)'
    BY <1>3, <1>4 DEF Checked, Writing, Committed, committed
  <1>7. [Next]_txVars
    BY DEF Next
  <1>8. QED
    BY <1>3, <1>4, <1>5, <1>6, <1>7, ByOneCaller DEF Passive

\* A statement that only moves its caller on.
LEMMA CallerMoves ==
    ASSUME TypeOK, NEW c \in Callers, NEW to \in Steps,
           conn' = [conn EXCEPT ![c].pc = to]
    PROVE  /\ conn' \in [Callers -> CallerState]
           /\ \A d \in Callers \ {c} : conn'[d] = conn[d]
           /\ conn'[c].pc = to
           /\ conn'[c].user = conn[c].user /\ conn'[c].model = conn[c].model
           /\ conn'[c].estimate = conn[c].estimate
           /\ conn'[c].row = conn[c].row /\ conn'[c].tokens = conn[c].tokens
           /\ conn'[c].rate_at = conn[c].rate_at /\ conn'[c].day_at = conn[c].day_at
  <1> DEFINE r == [conn[c] EXCEPT !.pc = to]
  <1>1. conn \in [Callers -> CallerState]
    BY DEF TypeOK, CallerState
  <1>2. conn' = [conn EXCEPT ![c] = r]
    BY <1>1
  <1>3. /\ r \in CallerState /\ r.pc = to
        /\ r.user = conn[c].user /\ r.model = conn[c].model
        /\ r.estimate = conn[c].estimate
        /\ r.row = conn[c].row /\ r.tokens = conn[c].tokens
        /\ r.rate_at = conn[c].rate_at /\ r.day_at = conn[c].day_at
    BY <1>1 DEF CallerState
  <1> HIDE DEF r
  <1>4. QED
    BY <1>1, <1>2, <1>3

\* A check that passes moves its caller on and notes the time it read.
LEMMA CheckMoves ==
    ASSUME TypeOK, NEW c \in Callers, RateCheck(c) \/ DailyCheck(c) \/ TotalCheck(c)
    PROVE  /\ conn' \in [Callers -> CallerState]
           /\ \A d \in Callers \ {c} : conn'[d] = conn[d]
           /\ conn'[c].user = conn[c].user /\ conn'[c].model = conn[c].model
           /\ conn'[c].estimate = conn[c].estimate /\ conn'[c].row = conn[c].row
           /\ RateCheck(c) => conn'[c].pc = "rate_ok" /\ conn'[c].rate_at = now
           /\ DailyCheck(c) => /\ conn'[c].pc = "daily_ok" /\ conn'[c].day_at = now
                              /\ conn'[c].rate_at = conn[c].rate_at
           /\ TotalCheck(c) => /\ conn'[c].pc = "total_ok"
                              /\ conn'[c].rate_at = conn[c].rate_at
                              /\ conn'[c].day_at = conn[c].day_at
  <1>0. /\ RateCheck(c) => conn[c].pc = "begun"
        /\ DailyCheck(c) => conn[c].pc = "rate_ok"
        /\ TotalCheck(c) => conn[c].pc = "daily_ok"
    BY DEF RateCheck, DailyCheck, TotalCheck
  <1>1. /\ conn \in [Callers -> CallerState] /\ now \in Q!Times
        /\ {"rate_ok", "daily_ok", "total_ok"} \subseteq Steps
    BY DEF TypeOK, CallerState, Q!TypeOK, Steps
  <1>2. PICK r \in CallerState :
           /\ conn' = [conn EXCEPT ![c] = r]
           /\ r.user = conn[c].user /\ r.model = conn[c].model
           /\ r.estimate = conn[c].estimate /\ r.row = conn[c].row
           /\ RateCheck(c) => r.pc = "rate_ok" /\ r.rate_at = now
           /\ DailyCheck(c) => /\ r.pc = "daily_ok" /\ r.day_at = now
                              /\ r.rate_at = conn[c].rate_at
           /\ TotalCheck(c) => /\ r.pc = "total_ok" /\ r.rate_at = conn[c].rate_at
                              /\ r.day_at = conn[c].day_at
    <2>1. CASE RateCheck(c)
      <3> DEFINE r == [conn[c] EXCEPT !.pc = "rate_ok", !.rate_at = now]
      <3>1. /\ conn' = [conn EXCEPT ![c] = r] /\ ~DailyCheck(c) /\ ~TotalCheck(c)
            /\ conn[c] \in CallerState
        BY <1>0, <1>1, <2>1 DEF RateCheck
      <3>2. /\ r \in CallerState /\ r.pc = "rate_ok" /\ r.rate_at = now
            /\ r.user = conn[c].user /\ r.model = conn[c].model
            /\ r.estimate = conn[c].estimate /\ r.row = conn[c].row
        BY <1>1, <3>1 DEF CallerState
      <3> HIDE DEF r
      <3>3. QED
        BY <3>1, <3>2
    <2>2. CASE DailyCheck(c)
      <3> DEFINE r == [conn[c] EXCEPT !.pc = "daily_ok", !.day_at = now]
      <3>1. /\ conn' = [conn EXCEPT ![c] = r] /\ ~RateCheck(c) /\ ~TotalCheck(c)
            /\ conn[c] \in CallerState
        BY <1>0, <1>1, <2>2 DEF DailyCheck
      <3>2. /\ r \in CallerState /\ r.pc = "daily_ok" /\ r.day_at = now
            /\ r.user = conn[c].user /\ r.model = conn[c].model
            /\ r.estimate = conn[c].estimate /\ r.row = conn[c].row
            /\ r.rate_at = conn[c].rate_at
        BY <1>1, <3>1 DEF CallerState
      <3> HIDE DEF r
      <3>3. QED
        BY <3>1, <3>2
    <2>3. CASE TotalCheck(c)
      <3> DEFINE r == [conn[c] EXCEPT !.pc = "total_ok"]
      <3>1. /\ conn' = [conn EXCEPT ![c] = r] /\ ~RateCheck(c) /\ ~DailyCheck(c)
            /\ conn[c] \in CallerState
        BY <1>0, <1>1, <2>3 DEF TotalCheck
      <3>2. /\ r \in CallerState /\ r.pc = "total_ok"
            /\ r.user = conn[c].user /\ r.model = conn[c].model
            /\ r.estimate = conn[c].estimate /\ r.row = conn[c].row
            /\ r.rate_at = conn[c].rate_at /\ r.day_at = conn[c].day_at
        BY <1>1, <3>1 DEF CallerState
      <3> HIDE DEF r
      <3>3. QED
        BY <3>1, <3>2
    <2>4. QED
      BY <2>1, <2>2, <2>3
  <1>3. QED
    BY <1>1, <1>2

\* A check passes: the connection has written nothing, so what it counted is
\* what is committed.
LEMMA ChecksKeep ==
    ASSUME IInv, NEW c \in Callers, RateCheck(c) \/ DailyCheck(c) \/ TotalCheck(c)
    PROVE  IInv'
  <1> DEFINE u == conn[c].user
             n == Q!NonNegative(conn[c].estimate)
  <1>1. TypeOK /\ Checked(c) /\ Writing(c)
    BY DEF IInv
  <1>2. UNCHANGED <<committed, now, writer, work>> /\ [Next]_txVars
    BY DEF RateCheck, DailyCheck, TotalCheck, Next
  <1>3. /\ conn' \in [Callers -> CallerState]
        /\ \A d \in Callers \ {c} : conn'[d] = conn[d]
        /\ conn'[c].user = u /\ conn'[c].model = conn[c].model
        /\ conn'[c].estimate = conn[c].estimate
        /\ conn'[c].row = conn[c].row
        /\ conn'[c].pc \in {"rate_ok", "daily_ok", "total_ok"}
    BY <1>1, CheckMoves
  <1>4. /\ conn[c].pc \in {"begun", "rate_ok", "daily_ok"} /\ writer = c
        /\ work = Committed
    <2>1. conn[c].pc \in {"begun", "rate_ok", "daily_ok"}
      BY DEF RateCheck, DailyCheck, TotalCheck
    <2>2. QED
      BY <1>1, <2>1 DEF TypeOK, Writing
  <1>5. OwnRow' /\ OwnersRow'
    BY <1>2, <1>3, <1>4, NothingCommitted
  <1>6. W!NonNegative(conn[c].estimate) = n
    BY DEF W!NonNegative, Q!NonNegative
  <1>7. /\ UNCHANGED <<usage_events, user_limits>>
        /\ conn'[c].user = u /\ Q!NonNegative(conn[c].estimate)' = n
    BY <1>2, <1>3 DEF committed, Q!NonNegative
  <1>8. Checked(c)'
    <2> HIDE DEF u, n
    <2>1. CASE RateCheck(c)
      <3>1. Q!RateOkAt(u, now) /\ conn'[c].pc = "rate_ok" /\ conn'[c].rate_at = now
        BY <1>1, <1>4, <2>1, CheckMoves, ReadsCommitted DEF RateCheck, u
      <3>2. PICK v, s : v = u /\ s = now
        OBVIOUS
      <3>3. Q!RateOkAt(v, s)
        BY <3>1, <3>2
      <3>4. Q!RateOkAt(v, s)'
        BY <1>7, <3>3, ChecksKept
      <3>5. conn'[c].user = v /\ conn'[c].rate_at = s
        BY <1>7, <3>1, <3>2
      <3>6. QED
        BY <3>1, <3>4, <3>5 DEF Checked
    <2>2. CASE DailyCheck(c)
      <3>1. /\ Q!DailyOkAt(u, n, now) /\ conn'[c].pc = "daily_ok"
            /\ conn'[c].day_at = now /\ conn'[c].rate_at = conn[c].rate_at
        BY <1>1, <1>4, <1>6, <2>2, CheckMoves, ReadsCommitted DEF DailyCheck, u
      <3>2. PICK v, k, s, t : v = u /\ k = n /\ s = now /\ t = conn[c].rate_at
        OBVIOUS
      <3>3. Q!RateOkAt(v, t) /\ Q!DailyOkAt(v, k, s)
        BY <1>1, <2>2, <3>1, <3>2 DEF DailyCheck, Checked, u
      <3>4. Q!RateOkAt(v, t)' /\ Q!DailyOkAt(v, k, s)'
        BY <1>7, <3>3, ChecksKept
      <3>5. /\ conn'[c].user = v /\ Q!NonNegative(conn[c].estimate)' = k
            /\ conn'[c].rate_at = t /\ conn'[c].day_at = s
        BY <1>7, <3>1, <3>2
      <3>6. QED
        BY <3>1, <3>4, <3>5 DEF Checked
    <2>3. CASE TotalCheck(c)
      <3>1. /\ Q!TotalOk(u, n) /\ conn'[c].pc = "total_ok"
            /\ conn'[c].day_at = conn[c].day_at /\ conn'[c].rate_at = conn[c].rate_at
        BY <1>1, <1>4, <1>6, <2>3, CheckMoves, ReadsCommitted DEF TotalCheck, u
      <3>2. PICK v, k, s, t : /\ v = u /\ k = n
                              /\ s = conn[c].day_at /\ t = conn[c].rate_at
        OBVIOUS
      <3>3. Q!RateOkAt(v, t) /\ Q!DailyOkAt(v, k, s) /\ Q!TotalOk(v, k)
        BY <1>1, <2>3, <3>1, <3>2 DEF TotalCheck, Checked, u, n
      <3>4. Q!RateOkAt(v, t)' /\ Q!DailyOkAt(v, k, s)' /\ Q!TotalOk(v, k)'
        BY <1>7, <3>3, ChecksKept
      <3>5. /\ conn'[c].user = v /\ Q!NonNegative(conn[c].estimate)' = k
            /\ conn'[c].rate_at = t /\ conn'[c].day_at = s
        BY <1>7, <3>1, <3>2
      <3>6. QED
        BY <3>1, <3>4, <3>5 DEF Checked
    <2>4. QED
      BY <2>1, <2>2, <2>3
  <1>9. Writing(c)'
    BY <1>2, <1>3, <1>4 DEF Writing, Committed, committed
  <1>10. QED
    BY <1>2, <1>3, <1>4, <1>5, <1>8, <1>9, ByOneCaller DEF Passive

\* The INSERT: the row is stamped with a time of its own.
LEMMA InsertKeeps ==
    ASSUME IInv, NEW c \in Callers, InsertRow(c) PROVE IInv'
  <1>1. /\ conn[c].pc = "total_ok" /\ conn' = [conn EXCEPT ![c].pc = "inserted"]
        /\ UNCHANGED <<committed, now, writer>> /\ [Next]_txVars
    BY DEF InsertRow, Next
  <1>2. /\ conn' \in [Callers -> CallerState]
        /\ \A d \in Callers \ {c} : conn'[d] = conn[d]
        /\ conn'[c].pc = "inserted"
        /\ conn'[c].user = conn[c].user /\ conn'[c].model = conn[c].model
        /\ conn'[c].estimate = conn[c].estimate
        /\ conn'[c].row = conn[c].row
        /\ conn'[c].rate_at = conn[c].rate_at /\ conn'[c].day_at = conn[c].day_at
    BY <1>1, CallerMoves DEF IInv, Steps
  <1>3. writer = c /\ work = Committed
    BY <1>1 DEF IInv, TypeOK, Writing
  <1>4. OwnRow' /\ OwnersRow'
    BY <1>1, <1>2, NothingCommitted
  <1>5. work = Tables(usage_events, usage_totals, user_limits, granted)
    BY <1>3, TablesType DEF IInv
  <1>6. W!NonNegative(conn[c].estimate) = Q!NonNegative(conn[c].estimate)
    BY DEF W!NonNegative, Q!NonNegative
  <1>7. /\ Len(usage_events) < MaxEvents
        /\ work' = [work EXCEPT !.usage_events = Append(usage_events, NewRow(c)),
                                !.granted = Append(granted, NewGrant(c))]
    <2>1. W!GrantOf(conn[c].user, conn[c].estimate, conn[c].rate_at, conn[c].day_at)
              = NewGrant(c)
      BY <1>5 DEF W!GrantOf, W!Later, W!NonNegative, W!Date, NewGrant, Q!GrantOf,
                  Q!Later, Q!NonNegative, Q!Date, Tables
    <2>2. QED
      BY <1>5, <1>6, <2>1 DEF InsertRow, Tables, NewRow
  <1>8. work' = WithNewRow(c)
    BY <1>3, <1>7, AppendedRow DEF WithNewRow
  <1>9. WithNewRow(c)' = WithNewRow(c) /\ Len(usage_events)' = Len(usage_events)
    BY <1>1, <1>2 DEF WithNewRow, NewRow, NewGrant, Tables, committed, Q!NonNegative,
                     Q!GrantOf, Q!Later, Q!Date
  <1>10. Writing(c)'
    BY <1>2, <1>7, <1>8, <1>9 DEF Writing
  <1>11. Checked(c)'
    <2>1. UNCHANGED <<usage_events, user_limits>>
      BY <1>1 DEF committed
    <2>2. Q!NonNegative(conn[c].estimate)' = Q!NonNegative(conn[c].estimate)
      BY <1>2 DEF Q!NonNegative
    <2>3. PICK u, n, s, t : /\ u = conn[c].user /\ s = conn[c].day_at
                            /\ n = Q!NonNegative(conn[c].estimate)
                            /\ t = conn[c].rate_at
      OBVIOUS
    <2>4. Q!RateOkAt(u, t) /\ Q!DailyOkAt(u, n, s) /\ Q!TotalOk(u, n)
      BY <1>1, <2>3 DEF IInv, Checked
    <2>5. Q!RateOkAt(u, t)' /\ Q!DailyOkAt(u, n, s)' /\ Q!TotalOk(u, n)'
      BY <2>1, <2>4, ChecksKept
    <2>6. QED
      BY <1>2, <2>2, <2>3, <2>5 DEF Checked
  <1>12. QED
    BY <1>1, <1>2, <1>3, <1>4, <1>10, <1>11, ByOneCaller DEF Passive

\* finalize_success, the UPDATE: the lock is taken, and with it what is
\* committed is seen.
LEMMA SuccessKeeps ==
    ASSUME IInv, NEW c \in Callers, UpdateToSuccess(c) PROVE IInv'
  <1>1. /\ conn[c].pc = "holding" /\ writer = NoCaller /\ writer' = c
        /\ UNCHANGED <<committed, now>> /\ [Next]_txVars
    BY DEF UpdateToSuccess, Lock, Next
  <1>2. work = Committed /\ conn[c].row \in Q!Ids
    BY <1>1, ConnType DEF IInv, TypeOK, OwnRow
  <1>3. PICK tokens \in Usages :
           /\ conn' = [conn EXCEPT ![c].pc = "updated", ![c].tokens = tokens]
           /\ work' = Settled(c, "success", tokens)
    BY <1>2, SuccessWrites, TablesType DEF IInv
  <1>4. /\ conn' \in [Callers -> CallerState]
        /\ \A d \in Callers \ {c} : conn'[d] = conn[d]
        /\ conn'[c].pc = "updated" /\ conn'[c].tokens = tokens
        /\ conn'[c].user = conn[c].user /\ conn'[c].model = conn[c].model
        /\ conn'[c].row = conn[c].row
    <2> DEFINE r == [conn[c] EXCEPT !.pc = "updated", !.tokens = tokens]
    <2>1. conn \in [Callers -> CallerState] /\ "updated" \in Steps
      BY DEF IInv, TypeOK, CallerState, Steps
    <2>2. conn' = [conn EXCEPT ![c] = r]
      BY <1>3, <2>1
    <2>3. /\ r \in CallerState /\ r.pc = "updated" /\ r.tokens = tokens
          /\ r.user = conn[c].user /\ r.model = conn[c].model /\ r.row = conn[c].row
      BY <2>1 DEF CallerState
    <2> HIDE DEF r
    <2>4. QED
      BY <2>1, <2>2, <2>3
  <1>5. OwnRow' /\ OwnersRow'
    BY <1>1, <1>4, NothingCommitted
  <1>6. Settled(c, "success", tokens)' = Settled(c, "success", tokens)
    BY <1>1, <1>4 DEF Settled, SettledRows, Tables, committed
  <1>7. Checked(c)' /\ Writing(c)'
    BY <1>3, <1>4, <1>6 DEF Checked, Writing
  <1>8. QED
    BY <1>1, <1>4, <1>5, <1>7, ByOneCaller DEF Passive

\* finalize_success, the upsert: the totals grow by what the row now says.
LEMMA UpsertKeeps ==
    ASSUME IInv, NEW c \in Callers, UpsertTotals(c) PROVE IInv'
  <1> DEFINE tokens == conn[c].tokens
  <1>1. /\ conn[c].pc = "updated" /\ conn' = [conn EXCEPT ![c].pc = "written"]
        /\ UNCHANGED <<committed, now, writer>> /\ [Next]_txVars
    BY DEF UpsertTotals, Next
  <1>2. /\ conn' \in [Callers -> CallerState]
        /\ \A d \in Callers \ {c} : conn'[d] = conn[d]
        /\ conn'[c].pc = "written"
        /\ conn'[c].user = conn[c].user /\ conn'[c].model = conn[c].model
        /\ conn'[c].row = conn[c].row /\ conn'[c].tokens = tokens
    BY <1>1, CallerMoves DEF IInv, Steps
  <1>3. writer = c /\ tokens \in Usages /\ work = Settled(c, "success", tokens)
    BY <1>1 DEF IInv, TypeOK, Writing
  <1>4. OwnRow' /\ OwnersRow'
    BY <1>1, <1>2, NothingCommitted
  <1>5. work' = Billed(c, tokens)
    BY <1>3, UpsertWrites DEF IInv, Settled
  <1>6. Billed(c, tokens)' = Billed(c, tokens)
    BY <1>1, <1>2 DEF Billed, SettledRows, BilledTotals, Tables, committed
  <1>7. Checked(c)' /\ Writing(c)'
    <2>1. tokens' = tokens
      BY <1>2
    <2>2. QED
      BY <1>2, <1>3, <1>5, <1>6, <2>1 DEF Checked, Writing
  <1>8. QED
    BY <1>1, <1>2, <1>3, <1>4, <1>7, ByOneCaller DEF Passive

\* finalize_failure: one UPDATE.
LEMMA FailureKeeps ==
    ASSUME IInv, NEW c \in Callers, UpdateToFailed(c) PROVE IInv'
  <1>1. /\ conn[c].pc = "holding" /\ writer = NoCaller /\ writer' = c
        /\ conn' = [conn EXCEPT ![c].pc = "written"]
        /\ UNCHANGED <<committed, now>> /\ [Next]_txVars
    BY DEF UpdateToFailed, Lock, Next
  <1>2. /\ conn' \in [Callers -> CallerState]
        /\ \A d \in Callers \ {c} : conn'[d] = conn[d]
        /\ conn'[c].pc = "written"
        /\ conn'[c].user = conn[c].user /\ conn'[c].model = conn[c].model
        /\ conn'[c].row = conn[c].row
    BY <1>1, CallerMoves DEF IInv, Steps
  <1>3. work = Committed /\ conn[c].row \in Q!Ids
    BY <1>1, ConnType DEF IInv, TypeOK, OwnRow
  <1>4. OwnRow' /\ OwnersRow'
    BY <1>1, <1>2, NothingCommitted
  <1>5. work' = Settled(c, "failed", 0)
    BY <1>3, FailureWrites, TablesType DEF IInv
  <1>6. Settled(c, "failed", 0)' = Settled(c, "failed", 0)
    BY <1>1, <1>2 DEF Settled, SettledRows, Tables, committed
  <1>7. Checked(c)' /\ Writing(c)'
    BY <1>2, <1>5, <1>6 DEF Checked, Writing
  <1>8. QED
    BY <1>1, <1>2, <1>4, <1>7, ByOneCaller DEF Passive

\* After a commit the connection sees what is committed.
LEMMA CommitInstalls ==
    ASSUME NEW e, NEW t, NEW l, NEW g, work = Tables(e, t, l, g), Install
    PROVE  /\ usage_events' = e /\ usage_totals' = t /\ user_limits' = l
           /\ granted' = g /\ work' = Committed' /\ writer' = NoCaller /\ now' = now
  BY DEF Install, Tables, Committed

\* A call that ends, or gets its reservation: its caller's row changes.
LEMMA CallerEnds ==
    ASSUME TypeOK, NEW c \in Callers, NEW to \in {"idle", "holding"},
           NEW row \in 0 .. MaxEvents,
           \/ conn' = [conn EXCEPT ![c].pc = to, ![c].row = row]
           \/ conn' = [conn EXCEPT ![c].pc = to, ![c].row = row,
                                   ![c].rate_at = 0, ![c].day_at = 0]
    PROVE  /\ conn' \in [Callers -> CallerState]
           /\ \A d \in Callers \ {c} : conn'[d] = conn[d]
           /\ conn'[c].pc = to /\ conn'[c].row = row
           /\ conn'[c].user = conn[c].user /\ conn'[c].model = conn[c].model
  <1> DEFINE p == [conn[c] EXCEPT !.pc = to, !.row = row]
             q == [conn[c] EXCEPT !.pc = to, !.row = row, !.rate_at = 0, !.day_at = 0]
  <1>1. conn \in [Callers -> CallerState] /\ to \in Steps /\ conn[c] \in CallerState
    BY DEF TypeOK, CallerState, Steps
  <1>0. 0 \in Q!Times
    BY LedgerAssumptions DEF Q!Times, P!BoundsAssumption
  <1>2. conn' = [conn EXCEPT ![c] = p] \/ conn' = [conn EXCEPT ![c] = q]
    BY <1>1
  <1>3. /\ p \in CallerState /\ p.pc = to /\ p.row = row
        /\ p.user = conn[c].user /\ p.model = conn[c].model
    BY <1>1 DEF CallerState
  <1>4. /\ q \in CallerState /\ q.pc = to /\ q.row = row
        /\ q.user = conn[c].user /\ q.model = conn[c].model
    BY <1>0, <1>1 DEF CallerState
  <1> HIDE DEF p, q
  <1>5. QED
    BY <1>1, <1>2, <1>3, <1>4

\* The commit of a reservation: its row is nobody else's.
LEMMA CommitReserveKeeps ==
    ASSUME IInv, NEW c \in Callers, CommitReserve(c) PROVE IInv'
  <1> DEFINE n == Len(usage_events)
  <1>1. /\ conn[c].pc = "inserted" /\ work = WithNewRow(c) /\ n < MaxEvents
        /\ [Next]_txVars /\ Install
        /\ conn' = [conn EXCEPT ![c].pc = "holding", ![c].row = Len(work.usage_events),
                                ![c].rate_at = 0, ![c].day_at = 0]
    BY DEF IInv, CommitReserve, Writing, Next
  <1>2. /\ usage_events' = Append(usage_events, NewRow(c))
        /\ work' = Committed' /\ writer' = NoCaller /\ now' = now
    BY <1>1, CommitInstalls DEF WithNewRow
  <1>3. /\ usage_events \in Seq(Q!Event) /\ NewRow(c) \in Q!Event /\ n \in Nat
        /\ now \in Nat
    BY ConnType, EstimateType, LenProperties, RowType
       DEF IInv, TypeOK, NewRow, Q!Event, Q!Statuses, Q!TypeOK
  <1>4. /\ Len(usage_events') = n + 1
        /\ \A i \in 1 .. n : usage_events'[i] = usage_events[i]
        /\ usage_events'[n + 1] = NewRow(c)
    BY <1>2, <1>3, AppendProperties
  <1>5. work.usage_events = usage_events'
    BY <1>1, <1>2 DEF WithNewRow, Tables
  <1>6. /\ conn' \in [Callers -> CallerState]
        /\ \A d \in Callers \ {c} : conn'[d] = conn[d]
        /\ conn'[c].pc = "holding" /\ conn'[c].row = n + 1
        /\ conn'[c].user = conn[c].user /\ conn'[c].model = conn[c].model
    <2>1. n + 1 \in 0 .. MaxEvents
      BY <1>1, <1>3, LedgerAssumptions DEF P!BoundsAssumption
    <2>2. conn' = [conn EXCEPT ![c].pc = "holding", ![c].row = n + 1,
                               ![c].rate_at = 0, ![c].day_at = 0]
      BY <1>1, <1>4, <1>5
    <2>3. QED
      BY <2>1, <2>2, CallerEnds DEF IInv
  <1>7. \A d \in Callers : conn[d].row # 0 => conn[d].row \in 1 .. n
    BY ConnType DEF IInv, Q!Ids
  <1>8. OwnRow'
    <2>1. \A d \in Callers : conn'[d].row # 0 <=>
             conn'[d].pc \in {"holding", "updated", "written"}
      BY <1>3, <1>6 DEF IInv, OwnRow
    <2>2. \A d, e \in Callers : d # e /\ conn'[d].row = conn'[e].row => conn'[d].row = 0
      BY <1>3, <1>6, <1>7 DEF IInv, OwnRow
    <2>3. QED
      BY <2>1, <2>2 DEF OwnRow
  <1>9. OwnersRow'
    <2>1. SUFFICES ASSUME NEW d \in Callers, conn'[d].row # 0
                   PROVE  /\ usage_events'[conn'[d].row].user_id = conn'[d].user
                          /\ usage_events'[conn'[d].row].model = conn'[d].model
      BY DEF OwnersRow
    <2>2. CASE d = c
      BY <1>4, <1>6, <2>2 DEF NewRow
    <2>3. CASE d # c
      BY <1>4, <1>6, <1>7, <2>1, <2>3 DEF IInv, OwnersRow
    <2>4. QED
      BY <2>2, <2>3
  <1>11. Checked(c)' /\ Writing(c)'
    BY <1>6 DEF Checked, Writing
  <1>12. writer = c
    BY <1>1 DEF IInv, TypeOK
  <1>13. QED
    BY <1>1, <1>2, <1>6, <1>8, <1>9, <1>11, <1>12, ByOneCaller DEF Passive

\* The commit of a finalisation: the other callers' rows are as they were.
LEMMA CommitFinalizeKeeps ==
    ASSUME IInv, NEW c \in Callers, CommitFinalize(c) PROVE IInv'
  <1> DEFINE k == conn[c].row
  <1>1. /\ conn[c].pc = "written" /\ [Next]_txVars /\ Install
        /\ conn' = [conn EXCEPT ![c].pc = "idle", ![c].row = 0]
    BY DEF CommitFinalize, Next
  <1>2. \E s, t : /\ usage_events' = SettledRows(c, s, t)
                  /\ work' = Committed' /\ writer' = NoCaller /\ now' = now
    <2>1. CASE work = Settled(c, "failed", 0)
      BY <1>1, <2>1, CommitInstalls DEF Settled
    <2>2. CASE \E tokens \in Usages : work = Billed(c, tokens)
      BY <1>1, <2>2, CommitInstalls DEF Billed
    <2>3. QED
      BY <1>1, <2>1, <2>2 DEF IInv, Writing
  <1>3. PICK s, t : usage_events' = SettledRows(c, s, t)
    BY <1>2
  <1>4. /\ conn' \in [Callers -> CallerState]
        /\ \A d \in Callers \ {c} : conn'[d] = conn[d]
        /\ conn'[c].pc = "idle" /\ conn'[c].row = 0
    <2>1. 0 \in 0 .. MaxEvents
      BY LedgerAssumptions DEF P!BoundsAssumption
    <2>2. QED
      BY <1>1, <2>1, CallerEnds DEF IInv
  <1>5. writer = c /\ k \in Q!Ids /\ k # 0
    BY <1>1, ConnType DEF IInv, TypeOK, OwnRow
  <1>6. PICK n \in Nat : /\ n = Len(usage_events) /\ k \in 1 .. n
                         /\ usage_events \in [1 .. n -> Q!Event]
    BY <1>5, TablesType DEF IInv, Q!Ids
  <1>7. /\ usage_events' \in Seq(Q!Event)
        /\ DOMAIN usage_events' = 1 .. n
        /\ \A i \in 1 .. n :
              /\ usage_events'[i].user_id = usage_events[i].user_id
              /\ usage_events'[i].model = usage_events[i].model
              /\ usage_events'[i].timestamp = usage_events[i].timestamp
    <2>1. usage_events' \in Seq(Q!Event)
      BY <1>1, LedgerTyped DEF Q!TypeOK
    <2>2. usage_events' = [usage_events EXCEPT ![k] =
                              [@ EXCEPT !.status = s, !.total_tokens = t]]
      BY <1>3 DEF SettledRows
    <2>3. DOMAIN usage_events' = 1 .. n
      BY <1>6, <2>2
    <2>4. ASSUME NEW i \in 1 .. n
          PROVE  /\ usage_events'[i].user_id = usage_events[i].user_id
                 /\ usage_events'[i].model = usage_events[i].model
                 /\ usage_events'[i].timestamp = usage_events[i].timestamp
      BY <1>6, <2>2 DEF Q!Event
    <2>5. QED
      BY <2>1, <2>3, <2>4
  <1>8. Len(usage_events') = n
    BY <1>6, <1>7, LenProperties
  <1>9. OwnRow'
    BY <1>4 DEF IInv, OwnRow
  <1>10. OwnersRow'
    <2>1. \A d \in Callers : conn[d].row # 0 => conn[d].row \in 1 .. n
      BY <1>6, ConnType DEF IInv, Q!Ids
    <2>2. QED
      BY <1>4, <1>7, <2>1 DEF IInv, OwnersRow
  <1>12. Checked(c)' /\ Writing(c)'
    BY <1>4 DEF Checked, Writing
  <1>13. QED
    BY <1>1, <1>2, <1>4, <1>5, <1>9, <1>10, <1>12, ByOneCaller DEF Passive

\* A caller whose connection, arguments and tables are untouched; the clock
\* may move unless its row has just been stamped.
LEMMA Undisturbed ==
    ASSUME IInv, NEW d \in Callers, conn'[d] = conn[d],
           UNCHANGED <<committed, work>>,
           conn[d].pc = "inserted" => now' = now
    PROVE  Checked(d)' /\ Writing(d)'
  <1>1. UNCHANGED <<usage_events, usage_totals, user_limits, granted>>
    BY DEF committed
  <1>2. Checked(d) /\ Writing(d)
    BY DEF IInv
  <1>3. Q!NonNegative(conn[d].estimate)' = Q!NonNegative(conn[d].estimate)
    BY DEF Q!NonNegative
  <1>4. Checked(d)'
    <2>1. PICK u, n, s, t : /\ u = conn[d].user /\ s = conn[d].day_at
                            /\ n = Q!NonNegative(conn[d].estimate)
                            /\ t = conn[d].rate_at
      OBVIOUS
    <2>2. /\ Q!RateOkAt(u, t)' <=> Q!RateOkAt(u, t)
          /\ Q!DailyOkAt(u, n, s)' <=> Q!DailyOkAt(u, n, s)
          /\ Q!TotalOk(u, n)' <=> Q!TotalOk(u, n)
      BY <1>1, ChecksKept
    <2>3. /\ conn[d].pc \in {"rate_ok", "daily_ok", "total_ok", "inserted"} =>
                 Q!RateOkAt(u, t)
          /\ conn[d].pc \in {"daily_ok", "total_ok", "inserted"} => Q!DailyOkAt(u, n, s)
          /\ conn[d].pc \in {"total_ok", "inserted"} => Q!TotalOk(u, n)
      BY <1>2, <2>1 DEF Checked
    <2>4. QED
      BY <1>3, <2>1, <2>2, <2>3 DEF Checked
  <1>5. Committed' = Committed
    BY <1>1 DEF Committed
  <1>6. conn[d].pc = "inserted" => WithNewRow(d)' = WithNewRow(d)
    BY <1>1, <1>3 DEF WithNewRow, NewRow, NewGrant, Tables, Q!GrantOf, Q!Later,
                      Q!Date, Q!NonNegative
  <1>7. ASSUME NEW s, NEW t PROVE SettledRows(d, s, t)' = SettledRows(d, s, t)
    BY <1>1 DEF SettledRows
  <1>8. ASSUME NEW s, NEW t PROVE Settled(d, s, t)' = Settled(d, s, t)
    BY <1>1, <1>7 DEF Settled, Tables
  <1>9. ASSUME NEW t PROVE Billed(d, t)' = Billed(d, t)
    BY <1>1, <1>7 DEF Billed, BilledTotals, Tables
  <1>10. Settled(d, "success", conn[d].tokens)' = Settled(d, "success", conn[d].tokens)
    BY <1>8 DEF Settled, SettledRows, Tables
  <1>11. Writing(d)'
    BY <1>1, <1>2, <1>5, <1>6, <1>8, <1>9, <1>10 DEF Writing
  <1>12. QED
    BY <1>4, <1>11

\* A call that raises, or whose process dies: what the writer had written is
\* gone, and another writer does not notice.
LEMMA RollbackKeeps ==
    ASSUME IInv, NEW c \in Callers, Rollback(c) PROVE IInv'
  <1>1. /\ conn[c].pc # "idle" /\ UNCHANGED <<committed, now>> /\ [Next]_txVars
        /\ conn' = [conn EXCEPT ![c].pc = "idle", ![c].row = 0,
                                ![c].rate_at = 0, ![c].day_at = 0]
    BY DEF Rollback, Next
  <1>2. /\ conn' \in [Callers -> CallerState]
        /\ \A d \in Callers \ {c} : conn'[d] = conn[d]
        /\ conn'[c].pc = "idle" /\ conn'[c].row = 0
    <2>1. 0 \in 0 .. MaxEvents
      BY LedgerAssumptions DEF P!BoundsAssumption
    <2>2. QED
      BY <1>1, <2>1, CallerEnds DEF IInv
  <1>3. OwnRow'
    BY <1>2 DEF IInv, OwnRow
  <1>4. OwnersRow'
    BY <1>1, <1>2 DEF IInv, OwnersRow, committed
  <1>6. Committed' = Committed
    BY <1>1 DEF Committed, committed
  <1>7. Checked(c)' /\ Writing(c)'
    BY <1>2 DEF Checked, Writing
  <1>8. CASE writer = c
    BY <1>1, <1>2, <1>3, <1>4, <1>6, <1>7, <1>8, ByOneCaller DEF Rollback, Passive
  <1>9. CASE writer # c
    <2>1. writer' = writer /\ work' = work /\ conn[c].pc = "holding"
      BY <1>1, <1>9 DEF Rollback, IInv, TypeOK
    <2>2. TypeOK'
      <3>1. Q!TypeOK'
        BY <1>1, LedgerTyped
      <3>2. \A d \in Callers : writer' = d <=> conn'[d].pc \notin {"idle", "holding"}
        BY <1>2, <1>9, <2>1 DEF IInv, TypeOK
      <3>3. writer' \in Callers \cup {NoCaller} /\ (writer' = NoCaller => work' = Committed')
        BY <1>6, <2>1 DEF IInv, TypeOK
      <3>4. QED
        BY <1>2, <3>1, <3>2, <3>3 DEF TypeOK, CallerState
    <2>3. \A d \in Callers \ {c} : Checked(d)' /\ Writing(d)'
      BY <1>1, <1>2, <2>1, Undisturbed
    <2>4. QED
      BY <1>3, <1>4, <1>7, <2>2, <2>3 DEF IInv
  <1>10. QED
    BY <1>8, <1>9

\* The admin's upsert finds no transaction under way.
LEMMA UpsertLimitsKeeps ==
    ASSUME IInv, NEW u \in Users, NEW limits \in LimitSettings, UpsertLimits(u, limits)
    PROVE  IInv'
  <1>1. /\ writer = NoCaller /\ work = Committed /\ [Next]_txVars
        /\ UNCHANGED <<usage_events, usage_totals, granted, now, conn, writer>>
        /\ work' = [work EXCEPT !.user_limits = user_limits']
    BY DEF IInv, TypeOK, UpsertLimits, Next
  <1>2. work' = Committed'
    <2>1. work' \in [usage_events : {usage_events}, usage_totals : {usage_totals},
                     user_limits : {user_limits'}, granted : {granted}]
      BY <1>1 DEF Committed
    <2>2. QED
      BY <1>1, <2>1 DEF Committed
  <1>3. TypeOK'
    <2>1. Q!TypeOK'
      BY <1>1, LedgerTyped
    <2>2. QED
      BY <1>1, <1>2, <2>1 DEF IInv, TypeOK
  <1>4. OwnRow' /\ OwnersRow'
    BY <1>1 DEF IInv, OwnRow, OwnersRow
  <1>5. ASSUME NEW c \in Callers PROVE Checked(c)' /\ Writing(c)'
    <2>1. conn'[c].pc \in {"idle", "holding"}
      BY <1>1, NoCallerAssumption DEF IInv, TypeOK
    <2>2. QED
      BY <2>1 DEF Checked, Writing
  <1>6. QED
    BY <1>3, <1>4, <1>5 DEF IInv

\* The clock moves under the checks of a transaction, which hold of the times
\* they read.
LEMMA SetClockKeeps == ASSUME IInv, NEW t \in Q!Times, SetClock(t) PROVE IInv'
  <1>1. /\ UNCHANGED <<committed, conn, writer, work>> /\ [Next]_txVars
        /\ UNCHANGED <<usage_events, usage_totals, user_limits, granted>>
        /\ \A c \in Callers : conn[c].pc # "inserted"
    BY DEF SetClock, committed, Next
  <1>2. TypeOK'
    <2>1. Q!TypeOK' /\ Committed' = Committed
      BY <1>1, LedgerTyped DEF Committed
    <2>2. QED
      BY <1>1, <2>1 DEF IInv, TypeOK
  <1>3. OwnRow' /\ OwnersRow'
    BY <1>1 DEF IInv, OwnRow, OwnersRow
  <1>4. \A c \in Callers : Checked(c)' /\ Writing(c)'
    BY <1>1, Undisturbed
  <1>5. QED
    BY <1>2, <1>3, <1>4 DEF IInv

\* No connection, and empty tables.
LEMMA InitIInv == Init => IInv
  <1> SUFFICES ASSUME Init PROVE IInv
    OBVIOUS
  <1>1. PICK u \in Users, m \in Models, n \in Estimates :
           conn = [c \in Callers |-> [pc |-> "idle", user |-> u, model |-> m,
                                     estimate |-> n, row |-> 0, tokens |-> 0,
                                     rate_at |-> 0, day_at |-> 0]]
    BY DEF Init
  <1>2. \A c \in Callers : conn[c].pc = "idle" /\ conn[c].row = 0
    BY <1>1
  <1>3. conn \in [Callers -> CallerState]
    BY <1>1, LedgerAssumptions DEF CallerState, Steps, Q!Times, P!BoundsAssumption
  <1>4. Q!Init /\ writer = NoCaller /\ work = Committed
    BY DEF Init
  <1>5. Q!TypeOK
    <2>1. P!Init => P!IInv
      BY LedgerAssumptions, P!InitIInv
    <2>2. QED
      BY <1>4, <2>1, SameInit, SameType DEF P!IInv
  <1>6. TypeOK
    BY <1>2, <1>3, <1>4, <1>5, NoCallerAssumption DEF TypeOK, CallerState
  <1>7. OwnRow /\ OwnersRow
    BY <1>2 DEF OwnRow, OwnersRow
  <1>9. \A c \in Callers : Checked(c) /\ Writing(c)
    BY <1>2 DEF Checked, Writing
  <1>10. QED
    BY <1>6, <1>7, <1>9 DEF IInv

\* A step that changes nothing.
LEMMA StutterKeeps == ASSUME IInv, UNCHANGED txVars PROVE IInv'
  <1>1. /\ UNCHANGED <<committed, now, conn, writer, work>>
        /\ UNCHANGED <<usage_events, usage_totals, user_limits, granted>>
    BY DEF txVars, committed
  <1>2. TypeOK'
    <2>1. Q!TypeOK' /\ Committed' = Committed
      BY <1>1, LedgerTyped DEF Committed
    <2>2. QED
      BY <1>1, <2>1 DEF IInv, TypeOK
  <1>3. OwnRow' /\ OwnersRow'
    BY <1>1 DEF IInv, OwnRow, OwnersRow
  <1>4. \A c \in Callers : Checked(c)' /\ Writing(c)'
    BY <1>1, Undisturbed
  <1>5. QED
    BY <1>2, <1>3, <1>4 DEF IInv

\* The invariant is inductive.
LEMMA StepIInv == IInv /\ [Next]_txVars => IInv'
  BY BeginKeeps, ChecksKeep, InsertKeeps, CommitReserveKeeps, SuccessKeeps,
     UpsertKeeps, FailureKeeps, CommitFinalizeKeeps, RollbackKeeps,
     UpsertLimitsKeeps, SetClockKeeps, StutterKeeps
     DEF Next

-----------------------------------------------------------------------------
(***************************************************************************)
(* The theorems.                                                           *)
(***************************************************************************)

\* The write lock is held by a caller inside a transaction, and what nobody
\* has committed is on nobody's connection but that one.
THEOREM TypeCorrect == Spec => []TypeOK
  <1>1. IInv => TypeOK
    BY DEF IInv
  <1>2. QED
    BY <1>1, InitIInv, StepIInv, PTL DEF Spec

\* The statements of any number of concurrent calls of quota.py, with their
\* rollbacks, the deaths of their processes and a clock that moves either way
\* between them, do what its operations do when
\* each is one atomic step.
THEOREM StatementsAreAtomic == Spec => Atomic
  <1>1. Init => Q!Init
    BY DEF Init
  <1>2. QED
    BY <1>1, InitIInv, StepIInv, StepIsAtomic, PTL DEF Spec, Atomic, Q!Spec

\* So what is proved of the ledger's operations is true of the statements.
\* First the properties as the proofs about the ledger name them.
LEMMA LedgerPromises ==
    Q!Spec => [](/\ P!WithinRateLimit /\ P!WithinTokenLimits
                 /\ P!WithinLimitOfOwnDay /\ P!TotalsMatchEvents)
  <1>1. /\ P!Spec => []P!WithinRateLimit
        /\ P!Spec => []P!WithinTokenLimits
        /\ P!Spec => []P!WithinLimitOfOwnDay
        /\ P!Spec => []P!TotalsMatchEvents
    BY LedgerAssumptions, P!RateLimitHolds, P!TokenLimitsHold, P!OwnDayLimitHolds,
       P!TotalsAgree
  <1>2. QED
    BY <1>1, SameInit, SameNext, PTL DEF Q!Spec, P!Spec

\* They mean the same here.
LEMMA SamePromises ==
    /\ P!WithinRateLimit => Q!WithinRateLimit
    /\ P!WithinTokenLimits => Q!WithinTokenLimits
    /\ P!WithinLimitOfOwnDay => Q!WithinLimitOfOwnDay
    /\ P!TotalsMatchEvents => Q!TotalsMatchEvents
  <1>1. ASSUME NEW u, NEW t, NEW m, NEW last
        PROVE  /\ Q!RowsSince(u, t, last) = P!RowsSince(u, t, last)
               /\ Q!RowsOnDate(u, t, last) = P!RowsOnDate(u, t, last)
               /\ Q!CountedRows(u, last) = P!CountedRows(u, last)
               /\ Q!SuccessRows(u, m) = P!SuccessRows(u, m)
               /\ Q!Date(t) = P!Date(t)
    BY DEF Q!RowsSince, Q!RowsOnDate, Q!CountedRows, Q!Counted, Q!SuccessRows,
           Q!Ids, Q!Date, P!RowsSince, P!RowsOnDate, P!CountedRows, P!Counted,
           P!SuccessRows, P!Ids, P!Date
  <1>2. ASSUME NEW rows
        PROVE  Q!Tokens(rows) = P!Tokens(rows) /\ Q!Overruns(rows) = P!Overruns(rows)
    BY SameSum DEF Q!Tokens, Q!Overruns, Q!Overrun, Q!NonNegative,
                   P!Tokens, P!Overruns, P!Overrun, P!NonNegative
  <1>3. P!WithinRateLimit => Q!WithinRateLimit
    BY <1>1, SameCount DEF Q!WithinRateLimit, Q!Ids, P!WithinRateLimit, P!Ids
  <1>4. P!WithinTokenLimits => Q!WithinTokenLimits
    <2>1. SUFFICES ASSUME P!WithinTokenLimits, NEW e \in 1 .. Len(usage_events)
          PROVE  LET limits == granted[e].limits
                     u == usage_events[e].user_id
                     all == Q!CountedRows(u, e)
                     day == Q!RowsOnDate(u, granted[e].day, e)
                 IN  /\ limits.total_tokens # NoLimit =>
                            Q!Tokens(all) <= limits.total_tokens + Q!Overruns(all)
                     /\ limits.daily_tokens # NoLimit =>
                            Q!Tokens(day) <= limits.daily_tokens + Q!Overruns(day)
      BY DEF Q!WithinTokenLimits, Q!Ids
    <2> DEFINE u == usage_events[e].user_id
               d == granted[e].day
    <2>2. /\ Q!CountedRows(u, e) = P!CountedRows(u, e)
          /\ Q!RowsOnDate(u, d, e) = P!RowsOnDate(u, d, e)
      BY <1>1
    <2>3. QED
      BY <1>2, <2>1, <2>2 DEF P!WithinTokenLimits, P!Ids
  <1>5. P!WithinLimitOfOwnDay => Q!WithinLimitOfOwnDay
    <2>1. SUFFICES ASSUME P!WithinLimitOfOwnDay, NEW e \in 1 .. Len(usage_events)
          PROVE  LET u == usage_events[e].user_id
                     limit == granted[e].limits.daily_tokens
                     day == Q!RowsOnDate(u, Q!Date(usage_events[e].timestamp), e)
                 IN  Q!DaysInOrder(e) /\ limit # NoLimit =>
                         Q!Tokens(day) <= limit + Q!Overruns(day)
      BY DEF Q!WithinLimitOfOwnDay, Q!Ids
    <2> DEFINE u == usage_events[e].user_id
               d == Q!Date(usage_events[e].timestamp)
    <2>2. /\ Q!RowsOnDate(u, d, e) = P!RowsOnDate(u, d, e)
          /\ d = P!Date(usage_events[e].timestamp)
      BY <1>1
    <2>3. Q!DaysInOrder(e) => P!DaysInOrder(e)
      BY <1>1 DEF Q!DaysInOrder, P!DaysInOrder
    <2>4. QED
      BY <1>2, <2>1, <2>2, <2>3 DEF P!WithinLimitOfOwnDay, P!Ids
  <1>6. P!TotalsMatchEvents => Q!TotalsMatchEvents
    BY <1>1, <1>2, SameCount DEF Q!TotalsMatchEvents, P!TotalsMatchEvents
  <1>7. QED
    BY <1>3, <1>4, <1>5, <1>6

\* Interleaved statements, with a clock that is set forward or back between
\* any two of them, keep the rate limit for the window that was checked, the
\* token limits but for the overruns, the daily limit of the day checked and,
\* without a set-back over midnight, of the day of the row, and the totals in
\* step with the rows.
THEOREM StatementsKeepPromises ==
    Spec => [](/\ Q!WithinRateLimit /\ Q!WithinTokenLimits
               /\ Q!WithinLimitOfOwnDay /\ Q!TotalsMatchEvents)
  BY StatementsAreAtomic, LedgerPromises, SamePromises, PTL DEF Atomic
=============================================================================

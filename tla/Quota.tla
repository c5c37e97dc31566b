------------------------------- MODULE Quota -------------------------------
(***************************************************************************)
(* The usage ledger: the tables usage_events, usage_totals and             *)
(* user_limits and the operations of QuotaRepository on them               *)
(* (src/app/repositories/quota.py), with the admin's limit upsert          *)
(* (src/app/repositories/limits.py).                                       *)
(*                                                                         *)
(* Every operation is one transaction on the SQLite file and one atomic    *)
(* step here: reserve_chat_request opens it with BEGIN IMMEDIATE before    *)
(* its first read, so its checks and its INSERT see one state of the       *)
(* tables.  They do not see one time: each statement reads the clock anew, *)
(* and the clock may be set forward or back in between.  The module        *)
(* QuotaTransactions takes the transaction apart.                          *)
(*                                                                         *)
(* A row is identified by its position in usage_events (AUTOINCREMENT).    *)
(* prompt_tokens and completion_tokens travel with total_tokens and are    *)
(* not kept apart.  A refused reservation changes no table: it is the      *)
(* negation of Admits and no action of this module.                        *)
(***************************************************************************)
EXTENDS Integers, Sequences, FiniteSets, Functions

CONSTANTS
    Users,         \* users with a row in table users
    Models,        \* model names on the allowlist
    Estimates,     \* values of max_tokens a caller passes as the estimate
    Usages,        \* total_tokens an upstream answer may report
    LimitSettings, \* rows the admin may write to user_limits
    NoLimit,       \* SQL NULL: the limit is not set
    Window,        \* length of the rate window (60 seconds in the code)
    DayLength,     \* length of a day, on the same clock
    MaxNow,        \* bound: the clock stays in 0..MaxNow
    MaxEvents      \* bound: rows ever inserted in usage_events

Limit == Nat \cup {NoLimit}

Limits == [requests_per_minute : Limit, daily_tokens : Limit, total_tokens : Limit]

ASSUME EstimatesAssumption == Estimates \subseteq Int
ASSUME UsagesAssumption    == Usages \subseteq Nat
ASSUME NoLimitAssumption   == NoLimit \notin Nat
ASSUME SettingsAssumption  == LimitSettings \subseteq Limits
ASSUME WindowAssumption    == Window \in Nat
ASSUME DayAssumption       == DayLength \in Nat \ {0}
ASSUME BoundsAssumption    == MaxNow \in Nat /\ MaxEvents \in Nat

VARIABLES
    usage_events,  \* the table, in the order of its ids
    usage_totals,  \* [Users -> [Models -> tokens and count]]; all zero: no row
    user_limits,   \* [Users -> Limits]; all NoLimit: no row
    now,           \* the wall clock behind CURRENT_TIMESTAMP and 'now'
    held,          \* ids of the UsageReservation objects callers hold
    granted        \* history: what each row was admitted with

tables == <<usage_events, usage_totals, user_limits>>
quotaVars == <<usage_events, usage_totals, user_limits, now, held, granted>>

Times == 0 .. MaxNow
Date(t) == t \div DayLength
Dates == {Date(t) : t \in Times}
Statuses == {"reserved", "success", "failed"}

Event == [user_id : Users, model : Models, total_tokens : Nat,
          status : Statuses, timestamp : Times]

Total == [total_tokens : Nat, request_count : Nat]

\* What a row was admitted with: its estimate, the limits then in force, the
\* end of the rate window it was checked for, and the day.
Grant == [estimate : Nat, limits : Limits, window_end : Times, day : Dates]

Ids == 1 .. Len(usage_events)

-----------------------------------------------------------------------------
(***************************************************************************)
(* The queries.  They take the last id they look at, so that a property    *)
(* can ask again for the rows an admission saw.                            *)
(***************************************************************************)

\* status IN ('reserved', 'success')
Counted(i) == usage_events[i].status \in {"reserved", "success"}

CountedRows(u, last) ==
    {i \in 1 .. last : usage_events[i].user_id = u /\ Counted(i)}

RowsSince(u, t, last) ==
    {i \in CountedRows(u, last) : usage_events[i].timestamp >= t}

RowsOnDate(u, d, last) ==
    {i \in CountedRows(u, last) : Date(usage_events[i].timestamp) = d}

Tokens(rows) == SumFunction([i \in rows |-> usage_events[i].total_tokens])

\* Mutant: the request at the limit is let through.
RateOkAtLimit(u, t) ==
    LET limit == user_limits[u].requests_per_minute
    IN  limit # NoLimit =>
            Cardinality(RowsSince(u, t - Window, Len(usage_events))) <= limit

\* The checks, each at the time t its statement reads.
RateOkAt(u, t) ==
    LET limit == user_limits[u].requests_per_minute
    IN  limit # NoLimit =>
            Cardinality(RowsSince(u, t - Window, Len(usage_events))) < limit

\* Mutant: requests in flight are not counted.
DailyOkAtSettled(u, estimate, t) ==
    LET limit == user_limits[u].daily_tokens
        rows  == RowsOnDate(u, Date(t), Len(usage_events))
    IN  limit # NoLimit =>
            Tokens({i \in rows : usage_events[i].status = "success"}) + estimate <= limit

DailyOkAt(u, estimate, t) ==
    LET limit == user_limits[u].daily_tokens
    IN  limit # NoLimit =>
            Tokens(RowsOnDate(u, Date(t), Len(usage_events))) + estimate <= limit

\* Mutant: the estimate of the request itself is left out.
TotalOkUnprojected(u, estimate) ==
    LET limit == user_limits[u].total_tokens
    IN  limit # NoLimit => Tokens(CountedRows(u, Len(usage_events))) <= limit

TotalOk(u, estimate) ==
    LET limit == user_limits[u].total_tokens
    IN  limit # NoLimit =>
            Tokens(CountedRows(u, Len(usage_events))) + estimate <= limit

\* Mutant: the clamp is forgotten.
NonNegativeDropped(n) == n

\* estimated_tokens = max(estimated_tokens, 0)
NonNegative(n) == IF n < 0 THEN 0 ELSE n

\* The three checks of reserve_chat_request all pass.
AdmitsAt(u, estimate, rate_at, day_at) ==
    /\ RateOkAt(u, rate_at)
    /\ DailyOkAt(u, NonNegative(estimate), day_at)
    /\ TotalOk(u, NonNegative(estimate))

\* The same, when no time passes between the statements.
Admits(u, estimate) == AdmitsAt(u, estimate, now, now)

-----------------------------------------------------------------------------
(***************************************************************************)
(* The operations.                                                         *)
(***************************************************************************)

Later(s, t) == IF s > t THEN s ELSE t

\* History: a check whose limit is not set is not made and reads no clock.  A
\* row stamped later than rate_at has a window that begins later, and that the
\* rate check covers too.
GrantOf(u, estimate, rate_at, day_at) ==
    LET limits == user_limits[u]
    IN  [estimate |-> NonNegative(estimate),
         limits |-> limits,
         window_end |-> IF limits.requests_per_minute = NoLimit
                        THEN now ELSE Later(rate_at, now),
         day |-> Date(IF limits.daily_tokens = NoLimit THEN now ELSE day_at)]

\* The INSERT of reserve_chat_request, after its checks: rate_at and day_at
\* are the times they read.
InsertReserved(u, m, estimate, rate_at, day_at) ==
    /\ Len(usage_events) < MaxEvents
    /\ AdmitsAt(u, estimate, rate_at, day_at)
    /\ usage_events' = Append(usage_events,
           [user_id |-> u, model |-> m, total_tokens |-> NonNegative(estimate),
            status |-> "reserved", timestamp |-> now])
    /\ granted' = Append(granted, GrantOf(u, estimate, rate_at, day_at))
    /\ UNCHANGED <<usage_totals, user_limits, now>>

\* The caller receives the UsageReservation.
ReserveAt(u, m, estimate, rate_at, day_at) ==
    /\ InsertReserved(u, m, estimate, rate_at, day_at)
    /\ held' = held \cup {Len(usage_events')}

\* The same, when no time passes between the statements.
Reserve(u, m, estimate) == ReserveAt(u, m, estimate, now, now)

\* The row is committed, but the caller went away before the reply.  (With
\* other times of the checks: ReserveAt, and then Abandon.)
ReserveUnheard(u, m, estimate) ==
    /\ InsertReserved(u, m, estimate, now, now)
    /\ UNCHANGED held

\* Mutant: the totals grow by what the row held before, the estimate.
FinalizeSuccessByEstimate(i, tokens) ==
    LET e == usage_events[i]
    IN  /\ i \in held
        /\ usage_events' = [usage_events EXCEPT ![i] =
               [@ EXCEPT !.status = "success", !.total_tokens = tokens]]
        /\ usage_totals' = [usage_totals EXCEPT ![e.user_id][e.model] =
               [total_tokens |-> @.total_tokens + e.total_tokens,
                request_count |-> @.request_count + 1]]
        /\ held' = held \ {i}
        /\ UNCHANGED <<user_limits, now, granted>>

\* The row of the reservation gets the usage the upstream reported, and the
\* user's totals for its model grow by it.  The UPDATE does not look at the
\* status it overwrites: only its caller keeps it from running twice.
FinalizeSuccess(i, tokens) ==
    LET e == usage_events[i]
    IN  /\ i \in held
        /\ usage_events' = [usage_events EXCEPT ![i] =
               [@ EXCEPT !.status = "success", !.total_tokens = tokens]]
        /\ usage_totals' = [usage_totals EXCEPT ![e.user_id][e.model] =
               [total_tokens |-> @.total_tokens + tokens,
                request_count |-> @.request_count + 1]]
        /\ held' = held \ {i}
        /\ UNCHANGED <<user_limits, now, granted>>

\* Mutant: the reservation is kept, as if to try again later.
FinalizeFailureKept(i) ==
    /\ i \in held
    /\ usage_events' = [usage_events EXCEPT ![i] =
           [@ EXCEPT !.status = "failed", !.total_tokens = 0]]
    /\ UNCHANGED <<usage_totals, user_limits, now, held, granted>>

\* The chat service passes no usage: the row is kept, with no tokens.
FinalizeFailure(i) ==
    /\ i \in held
    /\ usage_events' = [usage_events EXCEPT ![i] =
           [@ EXCEPT !.status = "failed", !.total_tokens = 0]]
    /\ held' = held \ {i}
    /\ UNCHANGED <<usage_totals, user_limits, now, granted>>

\* Callers lose reservations without finalising them: the process dies, or
\* the code that held them is cancelled or raises past its handlers.
Abandon(lost) ==
    /\ lost # {}
    /\ held' = held \ lost
    /\ UNCHANGED <<tables, now, granted>>

\* LimitRepository.update_user_limits: an upsert of all three columns.
UpdateLimits(u, limits) ==
    /\ user_limits' = [user_limits EXCEPT ![u] = limits]
    /\ UNCHANGED <<usage_events, usage_totals, now, held, granted>>

\* The wall clock moves on, or is set back.
SetClock(t) ==
    /\ now' = t
    /\ UNCHANGED <<tables, held, granted>>

-----------------------------------------------------------------------------
Unlimited == [requests_per_minute |-> NoLimit, daily_tokens |-> NoLimit,
              total_tokens |-> NoLimit]

\* initialize_database creates empty tables.
Init ==
    /\ usage_events = <<>>
    /\ usage_totals = [u \in Users |-> [m \in Models |->
                          [total_tokens |-> 0, request_count |-> 0]]]
    /\ user_limits = [u \in Users |-> Unlimited]
    /\ now = 0
    /\ held = {}
    /\ granted = <<>>

Next ==
    \/ \E u \in Users, m \in Models, n \in Estimates, rate_at, day_at \in Times :
          ReserveAt(u, m, n, rate_at, day_at)
    \/ \E u \in Users, m \in Models, n \in Estimates : ReserveUnheard(u, m, n)
    \/ \E i \in held, n \in Usages : FinalizeSuccess(i, n)
    \/ \E i \in held : FinalizeFailure(i)
    \/ \E lost \in SUBSET held : Abandon(lost)
    \/ \E u \in Users, limits \in LimitSettings : UpdateLimits(u, limits)
    \/ \E t \in Times : SetClock(t)

Spec == Init /\ [][Next]_quotaVars

-----------------------------------------------------------------------------
(***************************************************************************)
(* Properties.                                                             *)
(***************************************************************************)

\* Every table holds values of its columns' types, a handle names a row, and
\* there is one history record for each row.
TypeOK ==
    /\ usage_events \in Seq(Event)
    /\ usage_totals \in [Users -> [Models -> Total]]
    /\ user_limits \in [Users -> Limits]
    /\ now \in Times
    /\ held \subseteq Ids
    /\ granted \in Seq(Grant)
    /\ Len(granted) = Len(usage_events)

\* No admission ever put its user over the rate limit it was checked
\* against: a row admitted under a limit of L requests is, now and for ever,
\* one of at most L counted rows of its user among those admitted up to then
\* that are no older than one window before it.  It is the promise of the
\* COUNT of reserve_chat_request, and it has to survive everything that
\* happens to the rows afterwards.  A clock set back between the COUNT and
\* the INSERT stamps the row into a window nobody counted; the promise is
\* then for the window that was.
WithinRateLimit ==
    \A e \in Ids :
        LET limit == granted[e].limits.requests_per_minute
            rows  == RowsSince(usage_events[e].user_id, granted[e].window_end - Window, e)
        IN  limit # NoLimit => Cardinality(rows) <= limit

\* What the upstream reported beyond the estimate the row was admitted with.
Overrun(i) == NonNegative(usage_events[i].total_tokens - granted[i].estimate)

Overruns(rows) == SumFunction([i \in rows |-> Overrun(i)])

\* The token limits are exceeded by no more than the estimates were too low:
\* what the rows up to an admission count for is within the limits it was
\* checked against, but for the overruns of those same rows.  So a caller
\* whose max_tokens are honoured by the upstream never passes a limit, though
\* many of its requests are in flight at the time of each check.  The day is
\* the one the check read; WithinLimitOfOwnDay says when it is the row's own.
WithinTokenLimits ==
    \A e \in Ids :
        LET row    == usage_events[e]
            limits == granted[e].limits
            all    == CountedRows(row.user_id, e)
            day    == RowsOnDate(row.user_id, granted[e].day, e)
        IN  /\ limits.total_tokens # NoLimit =>
                   Tokens(all) <= limits.total_tokens + Overruns(all)
            /\ limits.daily_tokens # NoLimit =>
                   Tokens(day) <= limits.daily_tokens + Overruns(day)

\* Row e met no clock that was set back over midnight: nothing was stamped on
\* a later day than its daily check read, nor was row e on an earlier one.
DaysInOrder(e) ==
    /\ granted[e].day <= Date(usage_events[e].timestamp)
    /\ \A i \in 1 .. e - 1 : Date(usage_events[i].timestamp) <= granted[e].day

\* The daily limit holds of the day a row is stamped with too, even if it is
\* checked just before midnight and stamped just after: nobody can have used
\* the new day before it began.  This does need a clock that was not set back.
\* After a set-back over midnight the new day may be full already, and each
\* transaction that meets the second midnight adds a row to it unchecked.
WithinLimitOfOwnDay ==
    \A e \in Ids :
        LET row   == usage_events[e]
            limit == granted[e].limits.daily_tokens
            day   == RowsOnDate(row.user_id, Date(row.timestamp), e)
        IN  DaysInOrder(e) /\ limit # NoLimit =>
                Tokens(day) <= limit + Overruns(day)

SuccessRows(u, m) ==
    {i \in Ids : /\ usage_events[i].user_id = u
                 /\ usage_events[i].model = m
                 /\ usage_events[i].status = "success"}

\* usage_totals is a second copy of what usage_events says, kept up to date
\* by increments: each user's count and tokens for a model are those of the
\* user's successful rows.  The summaries the API returns read the copy, the
\* limits and the event lists read the rows.
TotalsMatchEvents ==
    \A u \in Users, m \in Models :
        /\ usage_totals[u][m].request_count = Cardinality(SuccessRows(u, m))
        /\ usage_totals[u][m].total_tokens = Tokens(SuccessRows(u, m))

\* Once a row is success or failed no step changes it, and no step takes a row
\* away or changes whose it is.  Nothing in the UPDATE statements says so.
SettledRowsStay ==
    [][ \A i \in Ids :
          /\ i \in Ids'
          /\ usage_events'[i].user_id = usage_events[i].user_id
          /\ usage_events[i].status # "reserved" =>
                 usage_events'[i] = usage_events[i] ]_quotaVars

=============================================================================

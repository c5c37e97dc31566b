------------------------- MODULE QuotaTransactions -------------------------
(***************************************************************************)
(* The operations of Quota, statement by statement.                        *)
(*                                                                         *)
(* Each call of the quota repository opens a connection of its own         *)
(* (connect_database, src/app/db.py) from some thread of some server       *)
(* process; the calls interleave freely.  SQLite in WAL mode, which is not *)
(* under src/, is modelled by what the code relies on: one connection at a *)
(* time has the write lock, a connection that wants it waits for at most   *)
(* 30 seconds, nobody sees what is not committed, and a transaction that   *)
(* is rolled back or whose process dies leaves nothing.                    *)
(*                                                                         *)
(* reserve_chat_request takes the lock first (BEGIN IMMEDIATE); for the    *)
(* others the first statement is already a write.  The clock is read anew  *)
(* by every statement, and nothing keeps it from being set, forward or     *)
(* back, between a check and the INSERT.                                   *)
(***************************************************************************)
EXTENDS Integers, Sequences

CONSTANTS
    Callers,  \* threads, of any server process, that call the repository
    NoCaller, \* nobody has the write lock
    Users, Models, Estimates, Usages, LimitSettings, NoLimit,
    Window, DayLength, MaxNow, MaxEvents                     \* see Quota

ASSUME NoCallerAssumption == NoCaller \notin Callers

VARIABLES
    usage_events, usage_totals, user_limits, now, granted,   \* see Quota;
                  \* the tables as committed
    conn,         \* [Callers -> where the call is, its arguments, and when its
                  \* checks read the clock]
    writer,       \* the caller whose connection has the write lock
    work          \* the tables as the writer's connection sees them;
                  \* without a writer, as committed

committed == <<usage_events, usage_totals, user_limits, granted>>
txVars == <<committed, now, conn, writer, work>>

Steps ==
    { "idle",      \* between calls, without a reservation
      "begun",     \* BEGIN IMMEDIATE done
      "rate_ok", "daily_ok", "total_ok",   \* that far the checks passed
      "inserted",  \* the INSERT is done, not committed
      "holding",   \* has a UsageReservation, calls nothing
      "updated",   \* finalize_success: between UPDATE and upsert
      "written" }  \* a finalisation is done, not committed

held == {conn[c].row : c \in {d \in Callers : conn[d].row # 0}}

Q == INSTANCE Quota

ASSUME QuotaAssumptions ==
    /\ Q!EstimatesAssumption /\ Q!UsagesAssumption /\ Q!NoLimitAssumption
    /\ Q!SettingsAssumption /\ Q!WindowAssumption /\ Q!DayAssumption
    /\ Q!BoundsAssumption

Committed == [usage_events |-> usage_events, usage_totals |-> usage_totals,
              user_limits |-> user_limits, granted |-> granted]

\* The queries of quota.py over the tables as the connection sees them.
W == INSTANCE Quota WITH usage_events <- work.usage_events,
                         usage_totals <- work.usage_totals,
                         user_limits <- work.user_limits,
                         granted <- work.granted

\* The connection of c gets the write lock, and with it the newest state.
Lock(c) ==
    /\ writer = NoCaller
    /\ writer' = c

\* connect_database after its body: commit and close.
Install ==
    /\ usage_events' = work.usage_events
    /\ usage_totals' = work.usage_totals
    /\ user_limits' = work.user_limits
    /\ granted' = work.granted
    /\ writer' = NoCaller
    /\ UNCHANGED <<now, work>>

-----------------------------------------------------------------------------
\* Mutant: BEGIN IMMEDIATE is left out, the checks run without the lock.
BeginDeferred(c) ==
    /\ conn[c].pc = "idle"
    /\ writer' = c
    /\ \E u \in Users, m \in Models, n \in Estimates :
          conn' = [conn EXCEPT ![c].pc = "begun", ![c].user = u,
                               ![c].model = m, ![c].estimate = n]
    /\ UNCHANGED <<committed, now, work>>

BeginImmediate(c) ==
    /\ conn[c].pc = "idle"
    /\ Lock(c)
    /\ \E u \in Users, m \in Models, n \in Estimates :
          conn' = [conn EXCEPT ![c].pc = "begun", ![c].user = u,
                               ![c].model = m, ![c].estimate = n]
    /\ UNCHANGED <<committed, now, work>>

\* The checks of reserve_chat_request, on what the connection reads now, the
\* clock included.
RateCheck(c) ==
    /\ conn[c].pc = "begun"
    /\ W!RateOkAt(conn[c].user, now)
    /\ conn' = [conn EXCEPT ![c].pc = "rate_ok", ![c].rate_at = now]
    /\ UNCHANGED <<committed, now, writer, work>>

DailyCheck(c) ==
    /\ conn[c].pc = "rate_ok"
    /\ W!DailyOkAt(conn[c].user, W!NonNegative(conn[c].estimate), now)
    /\ conn' = [conn EXCEPT ![c].pc = "daily_ok", ![c].day_at = now]
    /\ UNCHANGED <<committed, now, writer, work>>

TotalCheck(c) ==
    /\ conn[c].pc = "daily_ok"
    /\ W!TotalOk(conn[c].user, W!NonNegative(conn[c].estimate))
    /\ conn' = [conn EXCEPT ![c].pc = "total_ok"]
    /\ UNCHANGED <<committed, now, writer, work>>

InsertRow(c) ==
    /\ conn[c].pc = "total_ok"
    /\ Len(work.usage_events) < MaxEvents
    /\ work' = [work EXCEPT
           !.usage_events = Append(@,
               [user_id |-> conn[c].user, model |-> conn[c].model,
                total_tokens |-> W!NonNegative(conn[c].estimate),
                status |-> "reserved", timestamp |-> now]),
           !.granted = Append(@, W!GrantOf(conn[c].user, conn[c].estimate,
                                           conn[c].rate_at, conn[c].day_at))]
    /\ conn' = [conn EXCEPT ![c].pc = "inserted"]
    /\ UNCHANGED <<committed, now, writer>>

CommitReserve(c) ==
    /\ conn[c].pc = "inserted"
    /\ conn' = [conn EXCEPT ![c].pc = "holding", ![c].row = Len(work.usage_events),
                            ![c].rate_at = 0, ![c].day_at = 0]
    /\ Install

\* finalize_success: the UPDATE takes the lock.
UpdateToSuccess(c) ==
    /\ conn[c].pc = "holding"
    /\ Lock(c)
    /\ \E tokens \in Usages :
          /\ conn' = [conn EXCEPT ![c].pc = "updated", ![c].tokens = tokens]
          /\ work' = [work EXCEPT
                 !.usage_events[conn[c].row].status = "success",
                 !.usage_events[conn[c].row].total_tokens = tokens]
    /\ UNCHANGED <<committed, now>>

UpsertTotals(c) ==
    /\ conn[c].pc = "updated"
    /\ conn' = [conn EXCEPT ![c].pc = "written"]
    /\ work' = [work EXCEPT
           !.usage_totals[conn[c].user][conn[c].model].total_tokens = @ + conn[c].tokens,
           !.usage_totals[conn[c].user][conn[c].model].request_count = @ + 1]
    /\ UNCHANGED <<committed, now, writer>>

\* finalize_failure: one UPDATE.
UpdateToFailed(c) ==
    /\ conn[c].pc = "holding"
    /\ Lock(c)
    /\ conn' = [conn EXCEPT ![c].pc = "written"]
    /\ work' = [work EXCEPT
           !.usage_events[conn[c].row].status = "failed",
           !.usage_events[conn[c].row].total_tokens = 0]
    /\ UNCHANGED <<committed, now>>

CommitFinalize(c) ==
    /\ conn[c].pc = "written"
    /\ conn' = [conn EXCEPT ![c].pc = "idle", ![c].row = 0]
    /\ Install

\* update_user_limits: one upsert, the lock is free before and after it.
UpsertLimits(u, limits) ==
    /\ writer = NoCaller
    /\ user_limits' = [user_limits EXCEPT ![u] = limits]
    /\ work' = [work EXCEPT !.user_limits = user_limits']
    /\ UNCHANGED <<usage_events, usage_totals, granted, now, conn, writer>>

\* Mutant: the connection of a call that raised is never closed.
RollbackNoClose(c) ==
    /\ conn[c].pc # "idle"
    /\ conn' = [conn EXCEPT ![c].pc = "idle", ![c].row = 0]
    /\ UNCHANGED <<committed, now, writer, work>>

\* The call raises: a check failed (QuotaLimitExceeded), a statement or the
\* commit did, the lock was not to be had for 30 seconds; or the process
\* died.  connect_database, or SQLite's recovery, rolls back.  Only what the
\* caller knew is lost; see ChatProxy for what it does about that.
Rollback(c) ==
    /\ conn[c].pc # "idle"
    /\ conn' = [conn EXCEPT ![c].pc = "idle", ![c].row = 0,
                            ![c].rate_at = 0, ![c].day_at = 0]
    /\ IF writer = c
       THEN writer' = NoCaller /\ work' = Committed
       ELSE UNCHANGED <<writer, work>>
    /\ UNCHANGED <<committed, now>>

\* The wall clock moves on, or is set back, between any two statements.  None
\* after the INSERT that stamps the row reads it, so a move between the INSERT
\* and its commit is the same as one after the commit.
SetClock(t) ==
    /\ \A c \in Callers : conn[c].pc # "inserted"
    /\ now' = t
    /\ UNCHANGED <<committed, conn, writer, work>>

Init ==
    /\ \E u \in Users, m \in Models, n \in Estimates :
          conn = [c \in Callers |-> [pc |-> "idle", user |-> u, model |-> m,
                                     estimate |-> n, row |-> 0, tokens |-> 0,
                                     rate_at |-> 0, day_at |-> 0]]
    /\ Q!Init
    /\ writer = NoCaller
    /\ work = Committed

Next ==
    \/ \E c \in Callers : BeginImmediate(c) \/ InsertRow(c) \/ CommitReserve(c)
    \/ \E c \in Callers : RateCheck(c) \/ DailyCheck(c) \/ TotalCheck(c)
    \/ \E c \in Callers : UpdateToSuccess(c) \/ UpsertTotals(c)
    \/ \E c \in Callers : UpdateToFailed(c) \/ CommitFinalize(c)
    \/ \E c \in Callers : Rollback(c)
    \/ \E u \in Users, limits \in LimitSettings : UpsertLimits(u, limits)
    \/ \E t \in Q!Times : SetClock(t)

Spec == Init /\ [][Next]_txVars

-----------------------------------------------------------------------------
\* The lock is taken by a caller inside a transaction, and what nobody has
\* committed is on nobody's connection but the writer's.
TypeOK ==
    /\ Q!TypeOK
    /\ conn \in [Callers -> [pc : Steps, user : Users, model : Models,
                             estimate : Estimates, row : 0 .. MaxEvents,
                             tokens : Usages \cup {0},
                             rate_at : Q!Times, day_at : Q!Times]]
    /\ writer \in Callers \cup {NoCaller}
    /\ \A c \in Callers : writer = c <=> conn[c].pc \notin {"idle", "holding"}
    /\ writer = NoCaller => work = Committed

\* The statements of concurrent calls, taken together, do what the atomic
\* operations of Quota do: no interleaving lets an admission check miss a row
\* that is about to appear, and totals and rows change together or not at all.
\* The one thing that may pass between the statements of a transaction is
\* time: a row is checked at the times its checks read, in whatever order the
\* clock showed them, and what Quota promises of such a row, the limits among
\* it, holds of the statements.
Atomic == Q!Spec
=============================================================================

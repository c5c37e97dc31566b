# A verification of the Ollama proxy

The program is a FastAPI server in front of Ollama. It authenticates a bearer
token, reserves quota for a chat request in SQLite, forwards the request to
Ollama, plain or as a stream, and settles the reservation with the usage Ollama
reported. Users and admins read the recorded usage as JSON or as HTML reports.

This directory holds TLA+ models of the parts where things happen at the same
time or may go wrong half-way, TLC configurations that check them on small
instances, and TLAPS proofs for every size. `PROJECT.json` lists runs,
mutants, findings, hazards, theorems, and the lines of code behind every
definition.

## 1. Inventory

| part | state | operations | how it can go wrong | what makes it correct |
|---|---|---|---|---|
| `QuotaRepository` (`app/repositories/quota.py`) | tables `usage_events`, `usage_totals`; reads `user_limits` | `reserve_chat_request`, `finalize_success`, `finalize_failure` | checks and INSERT of concurrent callers interleave; the clock moves between them; a finalisation runs twice or half | limits hold for every admission; totals are the sums of the rows; a settled row stays |
| `connect_database` (`app/db.py`) | one connection per call | commit, rollback, close | lock not to be had; exception in the body | all or nothing; the lock is always given back |
| `initialize_database` (`app/db.py`) | the schema | eight CREATE TABLE IF NOT EXISTS, one migration | workers start together; a kill between statements | a ready process sees the whole schema |
| `LimitRepository`, `LimitService` | `user_limits` | upsert and read of limits; the thread hops of the quota calls | limits change while requests are in flight | an admission is judged by the limits it read |
| `OllamaConcurrencyLimiter` (`app/services/chat_proxy.py`) | one semaphore per process | enter, leave | cancellation while waiting, between hand-over and resumption, inside | permits are conserved, the queue is fair, nobody waits in vain |
| `ChatProxyService`, chat route | the coroutine of each request | plain and streaming completion | cancellation at any await, exceptions of other kinds, failing finalisation, crash, an abandoned generator | a call a request follows is covered by a permit and a reserved row; every open call is closed in the end; the answer agrees with the ledger; no row is left reserved without a cause |
| usage capture (`_capture_stream_usage` ff.) | pending text, usage | one chunk | cuts inside lines and characters, odd counts | chunking does not matter |
| `OllamaClient` | the HTTP client | `create_chat_completion`, `stream_chat_completion`, `list_models` | exceptions it does not translate; a stream without read timeout; a generator dropped at its yield | see ChatProxy |
| `UsageRepository`, `UsageReportService` | none | queries, HTML | several queries without a snapshot | a report's parts fit together |
| `UserRepository`, `AuthService`, `require_user`, `require_admin` | tables `users`, `api_tokens`, `admin_user_associations` | four upserts, lookups by token and by admin | foreign keys that nobody enforces; a token's UNIQUE hash against an upsert by id; switched-off rows | a token stands for one user; no row refers to a user who is not there |
| `ModelService`, `ModelRepository` | table `model_allowlist` | the upstream's list filtered by the allowlist; upsert | the list and the chat compare ids differently | what the preflight of a demo finds, the chat accepts |
| seed (`scripts/seed_dev_data.py`) | where its loops are | a transaction for each row | killed between two rows; two runs at once; run again on old rows | once a run has finished, all it seeds is in place and stays |
| demos and load test (`scripts/`) | counts taken before and after, results of calls, limits they set | HTTP calls in a fixed order, clean-up, comparisons | a call that times out and is sent again; a script that raises half-way; other scripts at the same time | a script that passes has proved what it says; it leaves no limit behind; scripts do not make each other fail |
| mock upstream, streaming demo | none | fixtures and a client that prints | - | - |

The seed and the workers share the file too, and the demos reach the server only
through HTTP, each as users of its own.

Requests meet in three places: the SQLite file (shared by all processes; one
writer at a time), the semaphore (one per process), and the default executor
whose threads run every repository call (`asyncio.to_thread`). The upstream is
reached only inside the limiter's block. A client's disconnection reaches a
streaming request as a cancellation; it does not reach a plain one.

The hazards this makes for are listed in `PROJECT.json` at the line where each
bites, with the properties that would show it.

## 2. Modules

    Quota                 the ledger, one step per transaction
     |-- QuotaProofs          theorems about Quota
     |-- QuotaTransactions    the same, statement by statement  (implements Quota)
     |    `-- QuotaTransactionsProofs
     |-- ChatProxy            the requests of a process         (implements Quota
     |    |                   and ConcurrencyLimiter)
     |    `-- ChatProxyProofs
     |-- UsageReport          reports read from a changing ledger (extends Quota)
     |    `-- UsageReportProofs
     `-- DemoScripts          the demos as clients of the ledger  (extends Quota)
          `-- DemoScriptsProofs
    ConcurrencyLimiter    the permits of a process
     `-- ConcurrencyLimiterProofs
    SseUsage              the usage in the bytes of a stream
     `-- SseUsageProofs
    DatabaseStart         initialize_database by several processes
    Access                users, tokens, associations, allowlist
     `-- DevSeed              the seed on top of DatabaseStart and Access
          `-- DevSeedProofs

Each module with a run has an `MC...` module that names the sets a `.cfg` uses;
`DatabaseStart` and `Access` are run as parts of `DevSeed`. Operators whose
comment begins with `Mutant:` stand before the definition they are a broken
form of and are used by nothing: exchanging the one for the other makes the
property named in `PROJECT.json` fail.

### Quota

The abstract specification of the ledger. Variables are the three tables, the
clock, the set `held` of reservations callers hold, and `granted`, a history
of what each row was admitted with: its estimate, the limits, the end of the rate
window and the day it was checked for. `ReserveAt` is `reserve_chat_request` from
`BEGIN IMMEDIATE` to the commit; `RateOkAt`, `DailyOkAt` and `TotalOk` are its
three queries. The two that read the clock read it at times of their own, before
the INSERT reads it: the operation takes these times as arguments, any two times
of the clock, since it may be set to any value in between. `Reserve` is the case
in which no time passes. `FinalizeSuccess` and
`FinalizeFailure` are the two finalisations. `ReserveUnheard` is a reservation
whose caller was gone when it committed, `Abandon` the loss of reservations by
a crash or an escaping exception, `UpdateLimits` the admin's upsert, `SetClock`
a wall clock that may also be set back. A refused reservation changes nothing.
Time is counted in abstract units: `Window` stands for 60 seconds,
`DayLength` for a UTC day.

So the limits are promises about the window and the day that were checked
(`WithinRateLimit`, `WithinTokenLimits`). Of the day the row is stamped with the daily
limit holds as well, although nobody checked it, as long as the clock is not set
back over midnight (`WithinLimitOfOwnDay`, `DaysInOrder`): a day that begins between
check and INSERT is empty. After a set-back it need not be: checked on the earlier
day and inserted on the later one, a row can exceed the limit of a day that is full.
TLC finds this when `DaysInOrder` is taken out. Prompt and completion counts always travel with
`total_tokens` and are not kept apart.

### QuotaTransactions

Callers in any thread of any process run the statements of the operations one by
one. `writer` is the holder of SQLite's write lock, `work` the tables as its
connection sees them. `BeginImmediate`, three checks, `InsertRow`,
`CommitReserve`; `UpdateToSuccess`, `UpsertTotals`, `CommitFinalize`;
`UpdateToFailed`; and `Rollback` for every way a call can raise or its process
can die. The clock is set, forward or back, between any two statements
(`SetClock`). `Atomic` says that this
implements `Quota`, with the times the checks read as the arguments of `ReserveAt`;
it fails when `BEGIN IMMEDIATE` is dropped. `Atomic` is also what a failure between
the two statements of `finalize_success` would break, were they not one transaction. What is
checked or proved of `Quota`, the two limits among it, holds of the statements
through it and is not checked a second time.

### ConcurrencyLimiter

`asyncio.Semaphore` of CPython 3.11, which the class wraps: a counter, a FIFO
of futures, the futures already resolved (`woken`), the tasks inside the block.
`Enter` and `Wait` are `__aenter__` without and with suspension, `Resume` the
task going on, `CancelWait` its cancellation before or after the hand-over,
`Leave` is `__aexit__`, `Restart` a new process.

### ChatProxy

A request is a record with the await it stands at (`pc`), the job it has in the
executor (`job`), what the last job returned (`reply`), the row of its
reservation, the usage found, the HTTP status sent, and history fields. A step
is what a coroutine does between two awaits; a job is one transaction of
`Quota`. `held` is computed: a reservation is held by the coroutine until it
submits the finalisation, then by the job. Faults are switched on by the
constant `Faults`: `disconnect` (only streams are cancelled), `broken` (an
exception `OllamaClient` does not translate, such as
`httpx.RemoteProtocolError`), `locked` (a transaction fails), `crash`.

What Starlette, anyio and asyncio do is external and modelled as the code uses it:
the 200 of a `StreamingResponse` is sent before the generator runs; its cancel scope
goes on cancelling until the task has left it; a generator suspended at `yield` is
closed later, outside the scope; cancelling an `asyncio.to_thread` drops a job that
no thread has started and detaches one that runs.

When the event loop closes a stream's abandoned generator (`CloseGenerator`), the
permit goes to the next waiter at once, but the generator of `OllamaClient` inside it is
only dropped at its own `yield`. The event loop closes that one, and with it the
upstream response, in a later task (`CloseUpstream`; `inner` says how far that is). In
between the call is open without a permit: `AtUpstream` are the calls their requests
follow, `OpenCalls` all that are open. `UpstreamCovered` says of each what holds of it,
and `EveryRequestEnds` that every open call is closed. There can be more of them than
permits: TLC finds `OpenCallsLimited` violated in `ProxyFaults` when it is added there, by
a client that leaves while a chunk is sent and a second request that takes the permit.

`LedgerProtocol` and
`LimiterProtocol` say that all requests together behave as `Quota` and
`ConcurrencyLimiter` allow, so that what is proved of those for any number of
clients applies to the requests. A second finalisation of a row, which the UPDATEs
themselves do not prevent, is a step outside `LedgerProtocol`. The upstream's chunks are reduced to the usage
found so far; `SseUsage` has the details.

### SseUsage

Bytes are reduced to the pieces a cut can separate: halves of `data:`, halves of
a character, the JSON object, the newline. `Capture` is one call of
`_capture_stream_usage`. The reference definition, `UsageEnds`, looks at all
bytes received at once. A last line without its newline is not looked at, in the
code as in the reference, so `ChunkingIrrelevant` has nothing to say of it.
`ZeroBillsExplained` does: it compares what is billed with all usages the upstream sent
(`AllUsageEnds`, that line included), and says that one that counts anything is billed
zero only if it stands in such a line. Missing and contradictory counts are no other reason.

`CharactersAssumption` is about what Ollama sends: in a line of the stream no
character of two bytes stands before `data:`, inside it, or after the JSON object.
The property needs it. The code decodes every chunk by itself and drops the
halves of a character that was cut, so a line with a character behind its JSON
object, which is no JSON, would be taken for a usage if a cut went through that
character and for nothing if it did not. Inside the object a lost character only
changes a string nobody looks at.

### UsageReport

Extends `Quota` with one report being made: `StartReport` chooses a user's
report or the admin's, `ReadSection` runs the three queries of
`_build_user_report_data` one after the other, `ReadList` the admin's final
query. Every query is a step of its own, with the ledger's steps in between.

### DemoScripts

A demo is a program: a sequence of calls and comparisons, followed by its
`finally` block and the step from which an exception leads there (`guard`). The
operators `StandardDemo` to `LoadTest` are the scripts; `LineUps` says which may
run together, what is in the allowlist, what Ollama has, and whether the same
scripts have run before. Of a line-up it is assumed that it consists of scripts with
arguments they accept (`IsScript`: two different users where there are two;
`demo_load_test.py` refuses to let as many requests through as it sends; the limits of
`demo_usage_report.py` leave room for its one request, `LeavesRoom`) and that no two of
its scripts share a user (`DedicatedAssumption`). A call that reads is one step. A PUT of limits is two:
the upsert, and the read of another transaction that is answered. A chat is a
reservation and a finalisation of `Quota`, with at most `width` under way at a time
(the semaphore of the load demo, the workers of the load test).

A chat that is refused with 429, fails upstream or times out is sent again by the
OpenAI client while it has retries; `load_test.py` uses a plain HTTP client and
does not. A row may also stay reserved under a call the server answers with 500
(`ServerLeavesRow`): the upstream failed in a way `OllamaClient` does not translate, or
the finalisation raised. The OpenAI client sends the request again, and the demo passes
all the same; `blame` then has `"stuck"`, and `PassMeansProved` claims the successful
rows, but not that nothing is reserved.

A request that timed out goes on as a *ghost*: a plain
request is not cancelled when its client is gone, so it may still reserve, be
billed, or change limits. `ensure_fresh_limit_window` compares with the client's
clock, which has fractions of a second; of a row exactly one window old it may say
either. `blame` remembers what went wrong for a script that was not its doing.

Two observations the properties make precise. A timeout breaks what a demo proves
(`PassMeansProved` excludes it): the retry is a second billed request. What a demo
leaves behind it breaks only if it was a PUT that timed out (`LimitsRestored` excludes
`"late"`): that one can come after the clean-up. Nothing is claimed of what a PUT answers, since
no script reads it.
And the model list shows an id with `:latest` for an entry without it, and the
preflight takes `m:latest` for `m`, while a chat wants the exact id: a preflight
that passes says something about the chat only where the allowlist has the bare
id (`PreflightPredictsChat`). `load_test.py` by default uses the user of the load
demo; the line-ups keep to dedicated users, as the docs ask for.

### DatabaseStart, Access, DevSeed

`DatabaseStart` has the statements of `initialize_database`, each committed by
itself because Python's `sqlite3` opens no transaction for DDL. The file may be
absent, of the version before roles, or current. `AddColumn` fails when the column
has appeared since the process looked. `Access` has the four tables of users and
models, the queries of both repositories on them and the checks of the routes. A
table is a function from its primary key to its other columns; SQLite does not
enforce the declared foreign keys, so the model does not either.

`DevSeed` runs both together: workers and runs of the seed start on one file; a
run of the seed goes through its loops, one statement and transaction at a time,
may be killed anywhere, and is run again. Rows from before may have other roles,
be switched off, or hold one of the seed's tokens under an id that is not the
seed's, which makes the UNIQUE hash end the seed (`SeedTokenRaises`). An
operator switches users or tokens off, which no code of the program does.
`clean` and `seeded` are history: a run that finished without an edit since it
began.

## 3. Runs

| run | instance | shows |
|---|---|---|
| `QuotaLimits` | 1 user, 1 model, 3 rows, clock 0..2, day of 2, window of 1, estimates -1 and 2, usages 0, 1, 3, three limit rows; checks at any times | `WithinRateLimit`: a row admitted under L requests is for ever one of at most L counted rows in the window it was checked for. `WithinTokenLimits`: sums exceed a limit only by what upstreams reported above the estimates. `WithinLimitOfOwnDay`: the day of the row is kept too, if no set-back crossed a midnight |
| `Limiter` | 4 tasks, 2 permits | permits conserved, no lost wake-up, FIFO, every waiter gets in or is cancelled |
| `Transactions` | 3 callers, 3 rows, clock 0..1, day of 1, window of 0 | `Atomic`, although the clock is set forward or back between check and INSERT |
| `ProxyFaults` | 2 requests, 1 permit, all faults, 1 crash | `UpstreamCovered`, `LedgerMatchesAnswer`, `OrphansExplained`, `WaitersAreNext` (a waiter that is not woken means the permits are in use or a wake-up is on its way), `LedgerProtocol` (`Quota!Spec`), `LimiterProtocol` (`ConcurrencyLimiter!Spec`) |
| `ProxyEnds` | 2 requests, 1 permit, no crash, streams that Ollama may never end | every request ends and its upstream call is closed; every reservation no fault hit is settled |
| `SseUsage` | all streams of up to 3 of 7 kinds of line, with and without final newline, all cuts | `ChunkingIrrelevant`, `ZeroBillsExplained` |
| `UsageReport` | 3 users (2 of the admin), 2 models, 3 rows, lists of 2 | reports fit together; `TotalsMatchEvents`, `SettledRowsStay` of the ledger |
| `DatabaseStart` | 1 worker, 2 runs of the seed, 2 users, 3 kinds of file with 2 sets of old rows, 1 kill, 1 edit | a ready process has the schema; a start fails only over another's migration; not all fail; a finished seed is complete and lasts; no dangling reference at any cut; runs of the seed do not make each other fail |
| `Demos` | 6 pairs of scripts, 3 users, 1 model, 12 rows, clock 0..2, 1 retry, 1 timeout, upstream failure or row that is left | `DemosDoNotInterfere`, `PassMeansProved`, `LimitsRestored`, `PreflightPredictsChat` |
| `ProxyBroken`, `ProxyRejected`, `ProxyInterrupted` | as `ProxyFaults`, one fault each | the three findings of section 5 |

Why these bounds are enough: a limit of 1 or 2 and three rows reach below, at and
above every limit, with one row reserved, one settled and one failed. Three
clock values give two days, one window that covers two of them, and a midnight
inside a window. In `Transactions` two clock values are two days and two windows, so
that every statement can read another day and another window than the one before it. Two users could only share a row of `usage_totals` or a limit
by mistake, which two users and two models show. The limiter needs three
waiters behind a permit to tell the order and a lost wake-up; a fourth task
gives it a second permit to hold. In ChatProxy two requests on one permit make
one wait for the other; what more of them can do at the limiter is covered by
`LimiterProtocol` and the proofs about `ConcurrencyLimiter`. In `DevSeed` two
runs can be anywhere in each other's way, a third process migrates while they
start, one user and one admin make both kinds of row, and one kill leaves every
prefix behind. In `DemoScripts` a pair shows interference; every script is in at
least one pair; one timeout is enough for one ghost, and a second reservation of
it; `MaxEvents` leaves room for every chat with its retries. Symmetry is used over
requests, callers and models where nothing but safety is checked.

Deadlock is checked everywhere but in `DatabaseStart`, where a worker may be
ready, the seeds killed and no kill be left. In `Demos` all scripts may have ended, which
`Over` says; in the others the ledger's clock always has a step.

Fairness. In `ConcurrencyLimiter` and `ChatProxy` it is weak fairness of
what the event loop and the executor run once they can, and of leaving the
block. In `ChatProxy` a plain upstream call ends because it has a timeout
(`ollama_timeout_seconds`; httpx applies it to each read, so this takes an upstream that
does not trickle a plain answer byte by byte for ever). A stream has `read=None`, so nothing in the code
ends it: Ollama may send chunks for ever, or nothing at all. What is assumed is
only that a stream which is at the upstream for ever is left by its client in
the end (`StreamIsLeft`); nobody is assumed to leave while waiting for a turn. Both
are strong fairness, because they are disabled while a chunk is being sent. In
`DevSeed` a process that has started goes on with its statements, be it
`initialize_database` or the seed. No fairness is assumed of arrivals, faults,
restarts, operators or the admin, and none in the other modules.

## 4. Proofs

The constants are arbitrary, and so are the bounds. What is assumed of them are
the ASSUMEs of the modules, which TLC evaluates in every run.

### The ledger

`QuotaProofs` proves, for every set of users, models, estimates, usages and
limits:

* `TypeCorrect`: `Spec => []TypeOK`.
* `RateLimitHolds`: `Spec => []WithinRateLimit`.
* `TokenLimitsHold`: `Spec => []WithinTokenLimits`.
* `OwnDayLimitHolds`: `Spec => []WithinLimitOfOwnDay`.
* `TotalsAgree`: `Spec => []TotalsMatchEvents`.
* `SettledForEver`: `Spec => SettledRowsStay`.

Assumed: estimates are integers, usages naturals, `NoLimit` is not a natural, the
limit rows are limits.

The inductive invariant is `IInv == TypeOK /\ HeldReserved /\ WithinRateLimit`.
`HeldReserved` (every held reservation names a row that is still reserved)
is what makes finalising harmless: without it a finalisation could turn a failed row
into a successful one, and the set of counted rows of an old window would grow.
With it a settling step can only keep or shrink that set (`RateStepSettle`). On
a reservation (`RateStepInsert`) the old windows do not see the new row, since
their queries stop at their own id, and for the new one the check left room for
exactly one more row (`OneMore`).

The limits on tokens are about sums: what the rows of a day count for, and by how
much their estimates were too low. On top of `IInv`, `WithinTokenLimits` is
inductive together with `ReservedAtEstimate` (a row still reserved counts for what
it was admitted with), because then settling a row adds to the sum no more than it
adds to the overruns. `WithinLimitOfOwnDay` follows from the same where check and
stamp are of one day. Where the stamp's day is later, all earlier rows are of earlier days
and the row is alone in its own, and by `EstimatesFit` an admitted estimate is by itself
within the limit. `TotalsMatchEvents` needs no more than `IInv`: a success puts one row into the set that is counted, and a failure or a reservation none. The sums
of SQL are `SumFunction` of the community modules, a recursion that picks an element
of a set. The first part of `QuotaProofs` proves what it does: the library's induction theorems take an
operator and cannot be used, but induction over a *set* of naturals is first-order
(`NatSetInduction`, from `WFMin`), and by it a property of all finite subsets of a
set (`SubsetInduction`). From there: a sum over nothing is 0 (`SumOfNone`), a sum of
naturals is a natural (`SumType`), it depends on the values alone (`SumSame`), and a
sum over two sets apart is the sum of both (`SumApart`).

### The statements

`QuotaTransactionsProofs` proves, for any number of callers:

* `TypeCorrect`: `Spec => []TypeOK`.
* `StatementsAreAtomic`: `Spec => Atomic`, the refinement of `Quota`.
* `StatementsKeepPromises`: `WithinRateLimit`, `WithinTokenLimits`,
  `WithinLimitOfOwnDay` and `TotalsMatchEvents` of the ledger hold of the statements.

Every step but a commit maps to a stutter, a commit to the operation as a whole. So
the invariant has to remember what the transaction did: `Writing` says what
the writer's connection sees as a function of the committed tables and the call's
arguments, and `Checked` that every check that has passed holds of the committed tables at
the time it read, which the call remembers. While the writer has the lock nobody
else changes the rows, so these facts last until the commit, whatever the clock does; nothing is
assumed of it. At the commit they are the checks of `ReserveAt`.
`OwnRow` and `OwnersRow` say that no two callers finalise the same row and that
the totals that grow are those of its user. The ledger's theorems are then brought in by
INSTANCE (`StatementsKeepPromises`).

### The limiter

`ConcurrencyLimiterProofs` proves, for any set of clients, finite or not, and any
configured concurrency (an integer; zero and negative ones count as one):

* `LimiterTypeCorrect`: `Spec => []TypeOK`.
* `PermitsNeverLost`: `Spec => []PermitsConserved`.
* `WakeUpsNeverLost`: `Spec => []NoLostWakeUp`.
* `ServedInOrder`: `Spec => FirstComeFirstServed`.

The inductive invariant is `LInv == TypeOK /\ QueuedOnce /\ FiniteSets /\
PermitsConserved`: a task is in the queue at most once and not while it is inside
the block, and the counted sets are finite. Two facts carry the argument.
`WithoutOne`: taking a task out of the queue keeps the others, each once and in
order. `WakeUp`: `_wake_up_next` keeps the number of free permits plus woken
tasks, picks the oldest sleeping task (`FirstAsleepIsOldest`, by the least
element of a set of places), and leaves a woken task behind unless nobody waits. From
the latter `NoLostWakeUp` is inductive on top of `LInv`: only a newcomer who
finds the limiter locked joins the queue, and it is locked either because no
permit is free or because somebody waits, who by the invariant is woken if a
permit is free.

### The requests of a process

`ChatProxyProofs` proves, for any number of requests, users, models and permits
and any set of faults:

* `TypeCorrect`: `Spec => []TypeOK`.
* `LedgerProtocolKept`: `Spec => LedgerProtocol`, the refinement of `Quota`.
* `LimiterProtocolKept`: `Spec => LimiterProtocol`, the refinement of
  `ConcurrencyLimiter`.
* `CallsAreCovered`, `NobodyWaitsInVain`, `AnswersAgree`, `OrphansAccountedFor`:
  `UpstreamCovered`, `WaitersAreNext`, `LedgerMatchesAnswer`, `OrphansExplained`.
* `GuardsNeverRefuse`: when a job finalises a row, that row is reserved, held, and no
  other request's; who enters the block is not in it, who leaves it is, and who stops
  waiting was in the queue. The two refinements could otherwise hold because the
  guards of the model, which the code does not have, forbid a bad call.
* `UpstreamWithinLimit`: never more calls that their requests follow than the
  configured concurrency, and, where no client leaves a stream, never more open calls.
* `ServerKeepsPromises`: the three promises of the ledger hold of this server.

Assumed beside what the components assume: 0 is a usage (an answer without one
counts 0), `NoUsage` is not a natural, and there are no more requests than rows
(`RoomAssumption`), since a request reserves at most once.

The inductive invariant has a part for every request by itself: `Controlled`, what
its record says at each position of its coroutine, and `Recording`, what the ledger
then says of the row it names. A step of one request changes nothing of the others'
records, so these parts are disturbed only through the tables. The requests meet in
three places, each with a part of its own: `OwnRows`, no row is named by two;
`Placed`, the permits are with those at the upstream and the queue is of those that
wait; and `LInv` of the limiter's proofs. `WaitersAreNext` and `UpstreamWithinLimit`
follow from `Placed` and the limiter's own theorems.

### The usage in a stream

`SseUsageProofs` proves, for streams and chunks of any length:

* `TypeCorrect`: `Spec => []TypeOK`.
* `ChunksDoNotMatter`: `Spec => []ChunkingIrrelevant`.
* `ZeroBillsAreExplained`: `Spec => []ZeroBillsExplained`.

Assumed: the streams are sequences of the pieces, the atoms of usages are none of
the other pieces, and `CharactersAssumption` (section 2).

The three loops are folds, recursions over sets of places. Each is unfolded once into its
trace, the sequence of its intermediate results (`TraceOfFold`), of which there is only one
(`TraceUnique`); what one more piece does to each loop then is a lemma about the last step
(`TakeAppend`, `SplitAppend`). `Known` is what can be known of a text: how far its
last line has come, the usage in the lines before, and the usage if the line ended here.
One more piece changes it by a function of itself (`KnownAppend`). The invariant
is `Known(usage, pending_text) = Known(NoUsage, Decode(received))`: what the service
keeps of a stream is enough to know of it what a reader of all its bytes knows. It
survives a chunk because both sides are advanced by the same pieces, but for a
character the cut goes through: the reader sees it, the service does not.
By `CharactersAssumption` such a character stands where it leaves `Known` as it is
(`HalfKeeps`). At the end the loop is compared with `UsageEnds`, which says where
usages end without a loop (`LoopFindsUsage`). `ZeroBillsExplained` follows: the last usage,
unless it is in the last line, is the one that was taken, and `_extract_usage` never gives a
total of zero to a usage that counts something.

### Reports

`UsageReportProofs` proves, for any number of users, any admin's list of them and any
length of the lists:

* `ReportTypeCorrect`: `ReportSpec => []ReportTypeOK`.
* `SummariesAccountedFor`: `ReportSpec => []SummaryAccountedFor`.
* `ListsFollowSections`: `ReportSpec => []ListFollowsSections`.

The queries of a report are separate reads of a ledger that goes on. Two things make
them fit: what a query returned can be overtaken but not contradicted, because a
settled row stays and successful rows only become more; and a list of the newest
rows is either full or complete. `ReportInv` says this of every finished section
(`SectionHolds`), of the queries of the one under way (`SectionUnderWay`) and of the
admin's list (`ListHolds`); it rests on `IInv` and `TotalsMatchEvents` of the
ledger, as the summary is read from the totals and the list from the rows.

### The seed

`DevSeedProofs` proves, for every set of processes of which any run the seed, every
list of users and models to seed, every file allowed by `OldRowsAssumption` and
every bound on kills and edits:

* `ReadyIsComplete`: `SeedSpec => []ReadyMeansComplete`.
* `FailuresAreExplained`: `SeedSpec => []FailureExplained`.
* `SeedTypes`: `SeedSpec => []SeedTypeOK`, unique tokens included.
* `ReferencesAreKept`: `SeedSpec => []ReferencesKept`.
* `RunsDoNotCollide`: `SeedSpec => []SeedsDoNotCollide`.
* `TheSeedLasts`: `SeedSpec => []SeedLasts`.

The assumptions are those of `DevSeed`: the seed names every user once with a
token of its own and the admin among them; old rows are typed, their tokens differ,
belong to users who are there, and an id of the seed holds the seed's token. The
inductive invariant is `SeedInv`. `CreatedBehind` says that every table whose
statement a process has passed exists, `MigratedMeanwhile` that a process about
to add a column that is there can blame another one; with the first, a ready process has all
tables and, as `users` comes before the migration, the column. `OwnIds` says that a row
under an id of the seed holds the seed's token, whoever wrote it; without it an
upsert by id could collide with the UNIQUE hash of a row that is the seed's own.
`WrittenBehind` says of every run that began after the last edit that all it has passed is
in place: it is the loop invariant of the seed, and since other runs write the same
rows, no step of theirs can break it (`GoodStays`). At the end of the loops it is
`SeedLasts`.

### The demos

`DemoScriptsProofs` proves, for any number of scripts in any line-up, any users,
limits, numbers of requests and widths they are called with, and any number of faults:

* `DemoTypesHold`: `DemoSpec => []DemoTypeOK`.
* `LimitsAreRestored`: `DemoSpec => []LimitsRestored`.
* `PreflightsPredict`: `DemoSpec => []PreflightPredictsChat`.
* `PassesAreProved`: `DemoSpec => []PassMeansProved`.
* `DemosStandAlone`: `DemoSpec => []DemosDoNotInterfere`.

Assumed: the line-ups are as `LineUpsAssumption` and `DedicatedAssumption` say, users
and models are finitely many (the usage a script reads is a sum over models), and
`Unlimited` and `Rpm(1)` are limits an admin may set.

The programs come first. For every script its steps are written out
(`StandardSteps` to `LoadTestSteps`), and from there what all have in common:
`Formed` (every limit that is set stands between the guard and a clean-up that clears
it) and `Outlined` or, of the load test, `Unjudging`.

What the scripts share is `World`: the ledger's `IInv` and `TotalsMatchEvents`;
`CallsOK`, a call that is upstream names a row of its user that is younger than the
script; `GhostOK`, a leftover belongs to a script that knows of a timeout, a late PUT to one
that knows of that; `RowsOK`,
rows from before are settled. On top of it stands the fact everything rests on,
`ActsOrStands`: for a given script a step of the system is one of its own, or one that
leaves its state alone, its users' rows unless a call of it has timed out, and its users'
limits unless a PUT has. So each script can be reasoned about as if it ran alone, and the clock
against it.

`CleanUpOK` and `PreflightOK` are inductive on top of `World`.
For the other two it has to be known at each step what has happened before it. That is a
proof outline: `Outline(p, u, n)` says that `n` is a sequence of notes, one for each
step of `p`, of what the script knows of its user `u` on arriving there (requests made before
the last chats, how many these ask for and how many there will be, the limits, what it has
read, whether it has found a fresh window), and `Passes` that each note follows from the
one before by the step in between. Outlines are about programs alone; every script has one for
each of its users (`ScriptsOutlined`). Two invariants then connect notes and ledger.

* `NotedOK`, of a script that has not failed and of which no call has timed out: the
  successful new rows of the user (`Successes`) are as many as the calls of the last chats
  that were answered (`Answered`) and those made before. It counts successes, because a row that
  the server has left stays among the new ones for ever. Calls may fail; so how many
  successes there will be when they have ended is certain only where the script insists
  on it, by what it wants of a chat or by a check of the results. `sure` says where, and an
  outline ends sure. `OpenRowsOK` says that, unless the server has left a row, one of its users
  which is still reserved belongs to a call that is upstream. Together that is
  `PassMeansProved`.
* `CleanOK`, of a script with nothing to blame: it has not failed, and for each of its users
  the limits are those of the note (`LimitsAs`), what it read is the number of older rows
  and of those in the note (`MeasuredAs`), every older row has left the window and every
  new one is inside it (`FreshAs`), and the new rows are as many as the note says
  (`RowsAs`). With `FreshAs` the rows that a limit of `c` requests counts are exactly
  the script's own (`WindowRows`): `c` calls get through and the others do not, in whatever
  order and however often they are sent again. Without a fresh window, a user of the report
  demo has no rows at all and its first request is admitted (`FirstAdmits`). So
  every comparison comes out right (`ReadsRight`), and no script has a reason of its own to fail:
  `DemosDoNotInterfere`.

### Only model-checked

Liveness under fairness is out of the prover's reach: `WaitersGetIn`,
`EveryRequestEnds`, `ReservationsSettle` and `SomeoneGetsReady`. Every other
property of a passing run is a theorem.

## 5. Findings

* `ProxyBroken`: `create_chat_completion` finalises only on
  `UpstreamServiceError`. `RemoteProtocolError` is neither a `NetworkError` nor a
  timeout, so it is not translated; the row stays `reserved` and counts against the
  user's total for ever. `changelog.md` says all post-reservation upstream
  failures are auditable as failed.
* `ProxyRejected`: limits are enforced inside the generator, after the 200 of
  the stream has been sent. `changelog.md` promises a 429 for streaming paths
  too.
* `ProxyInterrupted`: the handler that records an interrupted stream awaits in the
  cancelled scope; its job may be dropped. `changelog.md` says interrupted
  streams become failed events.

Besides, no finding, since nothing in the repository says otherwise: an abandoned stream
gives its permit back before its upstream response is closed, so for a while there may be
one open call more than the configured concurrency. The test of the limiter
(`tests/test_ollama_concurrency_controls.py`) asserts the limit for plain calls, for which
`UpstreamWithinLimit` proves it.

## 6. Not modelled, and why

* Settings, errors, the router and health: values and wiring without state.
* HTML, and the script of the browser page: layout of what was read. The page
  disables its button while a report loads, so its loads do not overlap.
* The size and JSON checks of the body refuse a request before it exists for the
  rest of the system; validation of vision content likewise.
* The vision calls of the demos are further chats; the streaming demo is the client of
  two streams, whose life is in `ChatProxy`. The mock upstream answers every
  call alike.
* `record_chat_completion`, `count_recent_successful_requests` and the two sums of
  `UsageRepository` have no caller in the application.
* Display names, latencies, log lines, and the wording of errors.
* `PRAGMA journal_mode=WAL` is not a statement of `DatabaseStart`: it is repeated by
  every start and leaves nothing a later statement depends on. That it may fail, or the
  process die there, is covered by `Kill`.
* The times of checks in `ChatProxy`, `UsageReport` and `DemoScripts`: a reservation reads
  the clock once there. The several readings are in `Quota` and `QuotaTransactions`.
* Several server processes on one file are in `QuotaTransactions` (callers of any
  process) and `DevSeed` (start); `ChatProxy` is one process.

## 7. Plan

The model covers the program's state, and all that the passing runs check is proved,
liveness apart. What could be added is code that keeps no state: the HTML of the reports
and the size checks of bodies. If a script is added to `scripts/`, it is an operator of
`DemoScripts`, a disjunct of `IsScript`, a line-up of the run, and an outline for
`ScriptsOutlined`; the other proofs stay as they are.

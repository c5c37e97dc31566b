---------------------------- MODULE DemoScripts ----------------------------
(***************************************************************************)
(* The demo scripts, which prove the server's promises from outside        *)
(* (src/scripts/demo_*.py, load_test.py), run against the ledger: each is  *)
(* a program of HTTP calls, several run at once, and each fails or passes. *)
(*                                                                         *)
(* A call that reads is one step: nothing the client does depends on when  *)
(* the answer arrives.  A PUT of limits is two transactions on the server, *)
(* a chat is a reservation and a finalisation, and between them the client *)
(* may time out, go on, and send the request again, while the server       *)
(* carries on with the old one: a plain request is not cancelled.          *)
(*                                                                         *)
(* A script that raises goes to its finally block, if it has entered one,  *)
(* and ends with status 1.  Tokens and admin rights are those of the seed  *)
(* (DevSeed); rates, latencies and printed text are left out.              *)
(***************************************************************************)
EXTENDS Quota, SequencesExt

CONSTANTS
    TextModel,    \* the model the scripts ask for
    Scripts,      \* the processes a script runs in
    LineUps,      \* what may run together: the programs, a function on
                  \* Scripts, the model_allowlist they find, the models
                  \* Ollama has, and whether the same scripts ran before
    MaxRetries,   \* max_retries of the openai client (2)
    MaxFaults     \* bound: calls that time out at the client or fail upstream

ASSUME TextModelAssumption == TextModel \in Models
ASSUME FiniteAssumption == IsFiniteSet(Users) /\ IsFiniteSet(Models)
ASSUME DemoBounds == MaxRetries \in Nat /\ MaxFaults \in Nat

VARIABLES
    program,      \* [Scripts -> the program it runs]
    script,       \* [Scripts -> where it is, see ScriptState]
    ghosts,       \* requests the server goes on with, without a client
    model_allowlist, installed,
    faults        \* timeouts and upstream failures so far

world == <<program, model_allowlist, installed>>
demoVars == <<quotaVars, world, script, ghosts, faults>>

\* A model id: a name from Models, with or without the tag :latest.
ModelId == [name : Models, latest : BOOLEAN]
Bare(m) == [name |-> m, latest |-> FALSE]
Tagged(m) == [name |-> m, latest |-> TRUE]

-----------------------------------------------------------------------------
(***************************************************************************)
(* The programs.                                                           *)
(***************************************************************************)
Rpm(n) == [Unlimited EXCEPT !.requests_per_minute = n]

Preflight         == [op |-> "preflight"]
Put(u, limits)    == [op |-> "put", user |-> u, limits |-> limits]
Clear(u)          == Put(u, Unlimited)
Get(u, limits)    == [op |-> "get", user |-> u, limits |-> limits]
Fresh(u)          == [op |-> "fresh", user |-> u]
Before(u)         == [op |-> "before", user |-> u]
After(u)          == [op |-> "after", user |-> u]
AdminView(u)      == [op |-> "admin", user |-> u]

\* One call for each entry of `users`, `width` at a time.  `want` is what the
\* script insists on.
Chats(users, width, want) ==
    [op |-> "chats", users |-> users, width |-> width, want |-> want]

\* usage_requests grew by wants[u].ok; if `results`, the results of the last
\* calls are the wanted ones too.  A check that is not fatal is remembered.
Check(wants, results, fatal) ==
    [op |-> "check", wants |-> wants, results |-> results, fatal |-> fatal]

Only(u, ok, limited) == [v \in {u} |-> [ok |-> ok, limited |-> limited]]
Each(us, ok) == [v \in us |-> [ok |-> ok, limited |-> 0]]

\* `cleanup` is the finally block, entered by whoever gets to step `guard`;
\* a failure in it counts, or does not.  `proves`: the successful requests of
\* each user that the script claims to have made when it passes.
Program(body, cleanup, guard, counts, retries, proves) ==
    [steps |-> body \o cleanup, finally |-> Len(body) + 1, guard |-> guard,
     counts |-> counts, retries |-> retries, proves |-> proves]

Plain(body, proves) ==
    Program(body, <<>>, Len(body) + 1, TRUE, MaxRetries, proves)

StandardDemo(u) ==
    Plain(<<Preflight, Chats(<<u>>, 1, "ok"), Chats(<<u>>, 1, "ok")>>,
          [v \in {u} |-> 2])

LimitsBody(u) ==
    <<Preflight, Clear(u), Fresh(u), Before(u), Put(u, Rpm(1)), Get(u, Rpm(1)),
      Chats(<<u>>, 1, "ok"), Chats(<<u>>, 1, "limited"),
      After(u), Check(Only(u, 1, 0), FALSE, TRUE)>>

\* Mutant: the limit is not cleared when the script raises.
LimitsDemoUnguarded(u) ==
    Program(LimitsBody(u), <<Clear(u)>>, Len(LimitsBody(u)) + 1, FALSE, MaxRetries,
            [v \in {u} |-> 1])

\* A limit of one request: the first call succeeds, the second is refused and
\* not billed.
LimitsDemo(u) ==
    Program(LimitsBody(u), <<Clear(u)>>, 3, FALSE, MaxRetries, [v \in {u} |-> 1])

\* Each of two users is billed for its own request, as the admin sees too.
UsageDemo(a, b) ==
    Plain(<<Preflight, Before(a), Before(b), Chats(<<a>>, 1, "ok"),
            Chats(<<b>>, 1, "ok"), After(a), After(b), AdminView(a),
            Check(Each({a, b}, 1), FALSE, TRUE)>>,
          [v \in {a, b} |-> 1])

Repeat(u, n) == [k \in 1 .. n |-> u]

\* All calls of both users at once.
ConcurrencyDemo(a, b, n) ==
    Plain(<<Preflight, Clear(a), Clear(b), Before(a), Before(b),
            Chats(Repeat(a, n) \o Repeat(b, n), 2 * n, "any"),
            After(a), After(b), Clear(a), Clear(b),
            Check(Each({a, b}, n), TRUE, TRUE)>>,
          [v \in {a, b} |-> n])

\* n requests without a limit, then n of another user, of whom a limit lets
\* `allowed` through.
LoadDemo(open, limited, n, allowed, width) ==
    LET body == <<Preflight, Preflight, Clear(open), Clear(limited), Fresh(limited),
                  Before(open), Chats(Repeat(open, n), width, "any"), After(open),
                  Check(Only(open, n, 0), TRUE, FALSE),
                  Put(limited, Rpm(allowed)),
                  Before(limited), Chats(Repeat(limited, n), width, "any"),
                  After(limited), Check(Only(limited, allowed, n - allowed), TRUE, FALSE)>>
    IN  Program(body, <<Clear(limited)>>, 10, TRUE, MaxRetries,
                [v \in {open, limited} |-> IF v = open THEN n ELSE allowed])

\* The limits it sets stay: nothing clears them.  The reports it reads at the
\* end name its user, if they can be read at all.
ReportDemo(u, limits) ==
    Plain(<<Preflight, Clear(u), Put(u, limits), Chats(<<u>>, 1, "ok"), After(u)>>,
          [v \in {u} |-> 1])

\* Workers drain a queue of n requests; a plain HTTP client does not retry.
\* It claims nothing: it prints what it saw.
LoadTest(u, limits, n, width) ==
    Program(<<Put(u, limits), Before(u), Chats(Repeat(u, n), width, "any"), After(u)>>,
            <<>>, 5, TRUE, 0, <<>>)

\* Limits under which a first request is let through (demo_usage_report sets
\* 10 requests, 500 and 2000 tokens, and asks for 16).
LeavesRoom(limits) ==
    /\ limits.requests_per_minute # NoLimit => limits.requests_per_minute >= 1
    /\ \A n \in Estimates :
          /\ limits.daily_tokens # NoLimit => NonNegative(n) <= limits.daily_tokens
          /\ limits.total_tokens # NoLimit => NonNegative(n) <= limits.total_tokens

\* The scripts, with the arguments they accept: demo_load_test refuses to let
\* as many requests through as it sends.
IsScript(p) ==
    \/ \E u \in Users : p \in {StandardDemo(u), LimitsDemo(u)}
    \/ \E a, b \in Users :
          /\ a # b
          /\ \/ p = UsageDemo(a, b)
             \/ \E n \in 1 .. MaxEvents : p = ConcurrencyDemo(a, b, n)
             \/ \E n, width \in 1 .. MaxEvents : \E allowed \in 0 .. n - 1 :
                   Rpm(allowed) \in LimitSettings /\ p = LoadDemo(a, b, n, allowed, width)
    \/ \E u \in Users, limits \in LimitSettings :
          \/ LeavesRoom(limits) /\ p = ReportDemo(u, limits)
          \/ \E n, width \in 1 .. MaxEvents : p = LoadTest(u, limits, n, width)

ASSUME SettingsWritten == {Unlimited, Rpm(1)} \subseteq LimitSettings

ASSUME LineUpsAssumption ==
    \A l \in LineUps :
        /\ \A s \in Scripts : IsScript(l.programs[s])
        /\ l.allowlist \subseteq ModelId /\ l.installed \subseteq ModelId
        /\ l.old \in BOOLEAN

UsersOf(p) ==
    {u \in Users : \E k \in DOMAIN p.steps :
        \/ p.steps[k].op \in {"put", "get", "fresh", "before", "after", "admin"}
              /\ p.steps[k].user = u
        \/ p.steps[k].op = "chats" /\ u \in ToSet(p.steps[k].users)}

\* Each script has users of its own.
ASSUME DedicatedAssumption ==
    \A l \in LineUps : \A s, t \in Scripts :
        s # t => UsersOf(l.programs[s]) \cap UsersOf(l.programs[t]) = {}

-----------------------------------------------------------------------------
(***************************************************************************)
(* The state of a script.                                                  *)
(***************************************************************************)
Call == [user : Users, at : {"sent", "upstream", "ok", "limited", "failed"},
         row : 0 .. MaxEvents, tries : 0 .. MaxRetries]

\* History: what went wrong for the script that was not its own doing.
Causes == { "timeout",   \* a call timed out at the client
            "late",      \* that call was a PUT, which may arrive late, or never
            "outage",    \* the upstream failed a call
            "stuck",     \* and the server left the row of the call reserved
            "refused",   \* a model the server lists, but does not allow
            "missing",   \* the required model is not listed
            "stale",     \* the window was not fresh
            "edge",      \* it was, but for a row that left it this second
            "slow" }     \* more than a window has passed since it was fresh

ScriptState ==
    [pc : Nat, failed : BOOLEAN,
     put : {"none", "written"},     \* the server between its two transactions
     calls : Seq(Call), before : [Users -> Nat], after : [Users -> Nat],
     start : Nat,                   \* history: rows there were before it
     fresh : Times \cup {-1},       \* history: when its window was fresh
     blame : SUBSET Causes]

Running(s) == script[s].pc <= Len(program[s].steps)
Step(s) == program[s].steps[script[s].pc]
At(s, op) == Running(s) /\ Step(s).op = op
Passed(s) == ~Running(s) /\ ~script[s].failed

Final == {"ok", "limited", "failed"}

Goto(s, pc) ==
    LET steps == program[s].steps
    IN  [script[s] EXCEPT !.pc = pc, !.put = "none", !.calls =
            IF pc <= Len(steps) /\ steps[pc].op = "chats"
            THEN [k \in DOMAIN steps[pc].users |->
                     [user |-> steps[pc].users[k], at |-> "sent", row |-> 0, tries |-> 0]]
            ELSE @]

Proceed(s) == Goto(s, script[s].pc + 1)

\* An exception: to the finally block, if it covers this step, or to the end.
Raise(s, why) ==
    LET p  == program[s]
        pc == script[s].pc
    IN  [Goto(s, IF p.guard <= pc /\ pc < p.finally THEN p.finally ELSE Len(p.steps) + 1)
            EXCEPT !.failed = @ \/ pc < p.finally \/ p.counts,
                   !.blame = @ \cup why]

Becomes(s, state) ==
    /\ script' = [script EXCEPT ![s] = state]
    /\ UNCHANGED world

Quiet == UNCHANGED <<quotaVars, ghosts, faults>>

-----------------------------------------------------------------------------
(***************************************************************************)
(* Calls that read.                                                        *)
(***************************************************************************)
\* ModelService.list_models; an entry without a tag allows its :latest too.
Allowed(id) == id \in model_allowlist \/ (id.latest /\ Bare(id.name) \in model_allowlist)

Listed == {id \in installed : Allowed(id)}

\* Mutant: the list is not filtered.
ListModelsUnfiltered(s) ==
    /\ At(s, "preflight")
    /\ Becomes(s, IF {Bare(TextModel), Tagged(TextModel)} \cap installed # {}
                  THEN Proceed(s) ELSE Raise(s, {"missing"}))
    /\ Quiet

ListModels(s) ==
    /\ At(s, "preflight")
    /\ Becomes(s, IF {Bare(TextModel), Tagged(TextModel)} \cap Listed # {}
                  THEN Proceed(s) ELSE Raise(s, {"missing"}))
    /\ Quiet

GetLimits(s) ==
    /\ At(s, "get")
    /\ Becomes(s, IF user_limits[Step(s).user].requests_per_minute
                       = Step(s).limits.requests_per_minute
                  THEN Proceed(s) ELSE Raise(s, {}))
    /\ Quiet

\* Mutant: only what is still reserved counts as recent.
EnsureFreshReservedOnly(s) ==
    /\ At(s, "fresh")
    /\ LET rows == {i \in RowsSince(Step(s).user, now - Window, Len(usage_events)) :
                       usage_events[i].status = "reserved"}
       IN  Becomes(s, IF rows = {} THEN [Proceed(s) EXCEPT !.fresh = now]
                      ELSE Raise(s, {"stale"}))
    /\ Quiet

\* ensure_fresh_limit_window.  The client compares with its own clock, which
\* has fractions of a second: of a row exactly one window old it may say
\* either, while the server counts it for the rest of the second.
EnsureFresh(s) ==
    /\ At(s, "fresh")
    /\ LET rows == RowsSince(Step(s).user, now - Window, Len(usage_events))
           edge == {i \in rows : usage_events[i].timestamp = now - Window}
       IN  \/ rows \ edge = {}
              /\ Becomes(s, [Proceed(s) EXCEPT !.fresh = now,
                       !.blame = IF edge = {} THEN @ ELSE @ \cup {"edge"}])
           \/ rows # {} /\ Becomes(s, Raise(s, {"stale"}))
    /\ Quiet

RequestCount(u) ==
    SumFunction([m \in Models |-> usage_totals[u][m].request_count])

GetUsage(s) ==
    /\ \/ /\ At(s, "before")
          /\ Becomes(s, [Proceed(s) EXCEPT !.before[Step(s).user] = RequestCount(Step(s).user)])
       \/ /\ At(s, "after")
          /\ Becomes(s, [Proceed(s) EXCEPT !.after[Step(s).user] = RequestCount(Step(s).user)])
       \/ /\ At(s, "admin")
          /\ Becomes(s, IF RequestCount(Step(s).user) = script[s].after[Step(s).user]
                        THEN Proceed(s) ELSE Raise(s, {}))
    /\ Quiet

\* Reads time out as well, or cannot connect; preflight_models finds the
\* upstream down.
ReadFails(s) ==
    /\ Running(s)
    /\ Step(s).op \in {"preflight", "get", "fresh", "before", "after", "admin"}
    /\ faults < MaxFaults
    /\ faults' = faults + 1
    /\ Becomes(s, Raise(s, {"timeout"}))
    /\ UNCHANGED <<quotaVars, ghosts>>

Results(s, u, how) ==
    {k \in DOMAIN script[s].calls : script[s].calls[k].user = u /\ script[s].calls[k].at = how}

\* The comparison at the end of a script, or of a scenario.
Compare(s) ==
    /\ At(s, "check")
    /\ LET right ==
             \A u \in DOMAIN Step(s).wants :
                /\ script[s].after[u] - script[s].before[u] = Step(s).wants[u].ok
                /\ Step(s).results =>
                      /\ Cardinality(Results(s, u, "ok")) = Step(s).wants[u].ok
                      /\ Cardinality(Results(s, u, "limited")) = Step(s).wants[u].limited
                      /\ Results(s, u, "failed") = {}
       IN  Becomes(s, IF right THEN Proceed(s)
                      ELSE IF Step(s).fatal THEN Raise(s, {})
                      ELSE [Proceed(s) EXCEPT !.failed = TRUE])
    /\ Quiet

-----------------------------------------------------------------------------
(***************************************************************************)
(* A PUT of limits: the upsert, and the answer another transaction reads.  *)
(***************************************************************************)
PutUpserts(s) ==
    /\ At(s, "put") /\ script[s].put = "none"
    /\ UpdateLimits(Step(s).user, Step(s).limits)
    /\ Becomes(s, [script[s] EXCEPT !.put = "written"])
    /\ UNCHANGED <<ghosts, faults>>

PutAnswers(s) ==
    /\ At(s, "put") /\ script[s].put = "written"
    /\ Becomes(s, Proceed(s))
    /\ Quiet

\* The upsert may be done, still to come, or never to come.
PutTimesOut(s) ==
    /\ At(s, "put")
    /\ faults < MaxFaults
    /\ faults' = faults + 1
    /\ \/ ghosts' = ghosts
       \/ /\ script[s].put = "none"
          /\ ghosts' = ghosts \cup {[op |-> "put", user |-> Step(s).user,
                                     limits |-> Step(s).limits, id |-> faults]}
    /\ Becomes(s, Raise(s, {"timeout", "late"}))
    /\ UNCHANGED quotaVars

-----------------------------------------------------------------------------
(***************************************************************************)
(* Chats.                                                                  *)
(***************************************************************************)
\* A call waits for the semaphore of run_requests, or for a free worker: at
\* most `width` are under way, and those that came first go first.
ChatAt(s, k, at) ==
    /\ At(s, "chats")
    /\ k \in DOMAIN script[s].calls
    /\ script[s].calls[k].at = at
    /\ Cardinality({j \in 1 .. k - 1 : script[s].calls[j].at \notin Final}) < Step(s).width

With(s, k, at, row, why) ==
    [script[s] EXCEPT !.calls[k].at = at, !.calls[k].row = row, !.blame = @ \cup why]

\* Mutant: it never gives up.
AgainForever(s, k, at, why) ==
    [With(s, k, "sent", 0, why) EXCEPT !.calls[k].tries = @ + 1]

\* The client sends it again, while it has retries, or gives up.
Again(s, k, at, why) ==
    IF script[s].calls[k].tries < program[s].retries
    THEN [With(s, k, "sent", 0, why) EXCEPT !.calls[k].tries = @ + 1]
    ELSE With(s, k, at, 0, why)

\* _validate_request: exactly this id, with its tag.
ModelRefused(s, k) ==
    /\ ChatAt(s, k, "sent")
    /\ Bare(TextModel) \notin model_allowlist
    /\ Becomes(s, With(s, k, "failed", 0, {"refused"}))
    /\ Quiet

LimitRejects(s, k) ==
    /\ ChatAt(s, k, "sent")
    /\ Bare(TextModel) \in model_allowlist
    /\ \E n \in Estimates : ~Admits(script[s].calls[k].user, n)
    /\ Becomes(s, Again(s, k, "limited", {}))
    /\ Quiet

ServerReserves(s, k) ==
    /\ ChatAt(s, k, "sent")
    /\ Bare(TextModel) \in model_allowlist
    /\ \E n \in Estimates : Reserve(script[s].calls[k].user, TextModel, n)
    /\ Becomes(s, With(s, k, "upstream", Len(usage_events'), {}))
    /\ UNCHANGED <<ghosts, faults>>

\* Mutant: the answer is sent first; somebody else finalises.
ServerAnswersUnfinalized(s, k) ==
    /\ ChatAt(s, k, "upstream")
    /\ ghosts' = ghosts \cup {[op |-> "chat", user |-> script[s].calls[k].user,
                               row |-> script[s].calls[k].row, id |-> faults]}
    /\ Becomes(s, With(s, k, "ok", 0, {}))
    /\ UNCHANGED <<quotaVars, faults>>

\* The answer is sent when the finalisation has returned.
ServerAnswers(s, k) ==
    /\ ChatAt(s, k, "upstream")
    /\ \E n \in Usages : FinalizeSuccess(script[s].calls[k].row, n)
    /\ Becomes(s, With(s, k, "ok", 0, {}))
    /\ UNCHANGED <<ghosts, faults>>

\* The server answers 502.
UpstreamFails(s, k) ==
    /\ ChatAt(s, k, "upstream")
    /\ faults < MaxFaults
    /\ faults' = faults + 1
    /\ FinalizeFailure(script[s].calls[k].row)
    /\ Becomes(s, Again(s, k, "failed", {"outage"}))
    /\ UNCHANGED ghosts

\* The server answers 500: the upstream failed in a way that OllamaClient does
\* not translate, or the transaction of the finalisation failed.  Nobody will
\* finalise the row.
ServerLeavesRow(s, k) ==
    /\ ChatAt(s, k, "upstream")
    /\ faults < MaxFaults
    /\ faults' = faults + 1
    /\ Abandon({script[s].calls[k].row})
    /\ Becomes(s, Again(s, k, "failed", {"outage", "stuck"}))
    /\ UNCHANGED ghosts

\* The client gives up on this attempt; the server may not have seen it yet,
\* or never sees it.
ChatTimesOut(s, k) ==
    /\ ChatAt(s, k, "sent") \/ ChatAt(s, k, "upstream")
    /\ faults < MaxFaults
    /\ faults' = faults + 1
    /\ \/ ChatAt(s, k, "sent") /\ ghosts' = ghosts
       \/ ghosts' = ghosts \cup {[op |-> "chat", user |-> script[s].calls[k].user,
                                  row |-> script[s].calls[k].row, id |-> faults]}
    /\ Becomes(s, Again(s, k, "failed", {"timeout"}))
    /\ UNCHANGED quotaVars

\* All calls have ended, and are what the script insists on, or not.
Gather(s) ==
    /\ At(s, "chats")
    /\ \A k \in DOMAIN script[s].calls : script[s].calls[k].at \in Final
    /\ Becomes(s, IF \A k \in DOMAIN script[s].calls :
                        Step(s).want \in {"any", script[s].calls[k].at}
                  THEN Proceed(s) ELSE Raise(s, {}))
    /\ Quiet

-----------------------------------------------------------------------------
(***************************************************************************)
(* The server with requests whose client is gone, and the world.           *)
(***************************************************************************)
GhostReserves(g) ==
    /\ g.op = "chat" /\ g.row = 0
    /\ Bare(TextModel) \in model_allowlist
    /\ \E n \in Estimates : Reserve(g.user, TextModel, n)
    /\ ghosts' = (ghosts \ {g}) \cup {[g EXCEPT !.row = Len(usage_events')]}
    /\ UNCHANGED <<world, script, faults>>

\* It is refused, or the connection was closed before anybody read it.
GhostVanishes(g) ==
    /\ g.op = "chat" => g.row = 0
    /\ ghosts' = ghosts \ {g}
    /\ UNCHANGED <<quotaVars, world, script, faults>>

GhostFinalizes(g) ==
    /\ g.op = "chat" /\ g.row # 0
    /\ \/ \E n \in Usages : FinalizeSuccess(g.row, n)
       \/ FinalizeFailure(g.row)
       \/ Abandon({g.row})
    /\ ghosts' = ghosts \ {g}
    /\ UNCHANGED <<world, script, faults>>

GhostUpserts(g) ==
    /\ g.op = "put"
    /\ UpdateLimits(g.user, g.limits)
    /\ ghosts' = ghosts \ {g}
    /\ UNCHANGED <<world, script, faults>>

Tick ==
    /\ now < MaxNow
    /\ SetClock(now + 1)
    /\ script' = [s \in Scripts |->
          IF Running(s) /\ script[s].fresh >= 0 /\ now + 1 > script[s].fresh + Window
          THEN [script[s] EXCEPT !.blame = @ \cup {"slow"}]
          ELSE script[s]]
    /\ UNCHANGED <<world, ghosts, faults>>

\* Somebody seeds the database: models are only ever added, without a tag.
AllowModel ==
    /\ Bare(TextModel) \notin model_allowlist
    /\ model_allowlist' = model_allowlist \cup {Bare(TextModel)}
    /\ UNCHANGED <<quotaVars, program, installed, script, ghosts, faults>>

FreshUsers(programs) ==
    {u \in Users : \E s \in Scripts : Contains(programs[s].steps, Fresh(u))}

\* An earlier run of the same scripts may have left a successful request of
\* each user whose limits they test.
DemoInit ==
    /\ \E line_up \in LineUps :
          /\ program = line_up.programs
          /\ model_allowlist = line_up.allowlist
          /\ installed = line_up.installed
          /\ LET old == IF line_up.old THEN FreshUsers(program) ELSE {}
             IN
             /\ usage_events = SetToSeq({[user_id |-> u, model |-> TextModel,
                    total_tokens |-> 0, status |-> "success", timestamp |-> 0] : u \in old})
             /\ usage_totals = [u \in Users |-> [m \in Models |->
                    [total_tokens |-> 0,
                     request_count |-> IF u \in old /\ m = TextModel THEN 1 ELSE 0]]]
    /\ user_limits = [u \in Users |-> Unlimited]
    /\ now = 0
    /\ held = {}
    /\ granted = [i \in Ids |-> [estimate |-> 0, limits |-> Unlimited,
                               window_end |-> 0, day |-> 0]]
    /\ script = [s \in Scripts |->
          [pc |-> 1, failed |-> FALSE, put |-> "none", calls |-> <<>>,
           before |-> [u \in Users |-> 0], after |-> [u \in Users |-> 0],
           start |-> Len(usage_events), fresh |-> -1, blame |-> {}]]
    /\ ghosts = {} /\ faults = 0

\* Every script has ended.
Over ==
    /\ \A s \in Scripts : ~Running(s)
    /\ UNCHANGED demoVars

ScriptStep(s) ==
    \/ ListModels(s) \/ GetLimits(s) \/ EnsureFresh(s) \/ GetUsage(s)
    \/ ReadFails(s) \/ Compare(s)
    \/ PutUpserts(s) \/ PutAnswers(s) \/ PutTimesOut(s)
    \/ Gather(s)

ChatStep(s, k) ==
    \/ ModelRefused(s, k) \/ LimitRejects(s, k) \/ ServerReserves(s, k)
    \/ ServerAnswers(s, k) \/ UpstreamFails(s, k) \/ ServerLeavesRow(s, k)
    \/ ChatTimesOut(s, k)

DemoNext ==
    \/ \E s \in Scripts : ScriptStep(s)
    \/ \E s \in Scripts : \E k \in DOMAIN script[s].calls : ChatStep(s, k)
    \/ \E g \in ghosts : \/ GhostReserves(g) \/ GhostVanishes(g)
                         \/ GhostFinalizes(g) \/ GhostUpserts(g)
    \/ Tick
    \/ AllowModel
    \/ Over

DemoSpec == DemoInit /\ [][DemoNext]_demoVars

-----------------------------------------------------------------------------
(***************************************************************************)
(* Properties.                                                             *)
(***************************************************************************)
\* Scripts, calls and leftovers are well typed.
DemoTypeOK ==
    /\ script \in [Scripts -> ScriptState]
    /\ \A g \in ghosts : g.op \in {"put", "chat"} /\ g.user \in Users
    /\ model_allowlist \subseteq ModelId /\ installed \subseteq ModelId
    /\ faults \in 0 .. MaxFaults

\* A demo fails only for a reason outside itself: a
\* call that timed out, an upstream that failed, a precondition it found
\* missing, a row that left its window in the second it looked, or a run
\* longer than the window.  Whatever other demos run at the same time, they
\* do not make each other fail (testing.md: they do not interfere).
DemosDoNotInterfere ==
    \A s \in Scripts :
        script[s].failed => script[s].blame # {}

\* A demo that passed without a call of its having timed out has proved what
\* it says: since it began its users have exactly the successful requests it
\* claims.  Nothing of theirs is left reserved, unless the server failed a
\* call of the demo and left its row: the client sends it again, and the demo
\* passes all the same.
PassMeansProved ==
    \A s \in Scripts :
        Passed(s) /\ "timeout" \notin script[s].blame =>
            \A u \in DOMAIN program[s].proves :
                LET rows == {i \in CountedRows(u, Len(usage_events)) : i > script[s].start}
                    successes == {i \in rows : usage_events[i].status = "success"}
                IN  /\ Cardinality(successes) = program[s].proves[u]
                    /\ "stuck" \notin script[s].blame => rows = successes

\* A demo that cleans up leaves no limit behind, however it ends and whatever
\* its other calls meet, unless a PUT of its own timed out: that one may still
\* arrive after the last one, or the last one may be lost.
LimitsRestored ==
    \A s \in Scripts :
        LET p == program[s]
        IN  (/\ ~Running(s) /\ p.finally <= Len(p.steps)
             /\ "late" \notin script[s].blame) =>
                \A u \in UsersOf(p) : user_limits[u] = Unlimited

\* A chat is refused for its model after a preflight that found it only where
\* the allowlist names it by its :latest id: the list of models takes the two
\* ids for the same in one direction, the chat in none.
PreflightPredictsChat ==
    \A s \in Scripts :
        "refused" \in script[s].blame /\ program[s].steps[1] = Preflight =>
            Tagged(TextModel) \in model_allowlist
=============================================================================

------------------------- MODULE DemoScriptsProofs -------------------------
(***************************************************************************)
(* Proofs about DemoScripts.                                               *)
(*                                                                         *)
(* The scripts run against one ledger, so the argument is one of           *)
(* non-interference.  World collects what they share: the ledger's own     *)
(* invariant, rows and leftovers that belong to somebody, calls that know  *)
(* their rows.  From it every step is, for a given script, its own or one  *)
(* that leaves alone the rows of its users, until a call of that script    *)
(* has timed out, and their limits, until a PUT has (ActsOrStands).        *)
(*                                                                         *)
(* What a script claims at its end, and that it does not fail, is shown    *)
(* with proof outlines: for each of its users, a note of what the script   *)
(* knows on arriving at each step.  Outline is about the program alone,    *)
(* and each script has outlines (ScriptsOutlined).  NotedOK and CleanOK    *)
(* carry the notes through the script's own steps; those of the others     *)
(* are harmless by ActsOrStands.                                           *)
(***************************************************************************)
EXTENDS DemoScripts, QuotaProofs, TLAPS

-----------------------------------------------------------------------------
(***************************************************************************)
(* The programs, step by step.                                             *)
(***************************************************************************)

\* A body with nothing, and with one step, after it.
LEMMA NothingAfter ==
    ASSUME NEW s, NEW n \in Nat, s = [k \in 1 .. n |-> s[k]]
    PROVE  s \o <<>> = s
  <1>1. s \in Seq({s[k] : k \in 1 .. n})
    OBVIOUS
  <1>2. QED
    BY <1>1

LEMMA OneAfter ==
    ASSUME NEW s, NEW n \in Nat, s = [k \in 1 .. n |-> s[k]], NEW c
    PROVE  /\ Len(s \o <<c>>) = n + 1
           /\ DOMAIN (s \o <<c>>) = 1 .. n + 1
           /\ \A k \in 1 .. n + 1 : (s \o <<c>>)[k] = IF k = n + 1 THEN c ELSE s[k]
  <1> DEFINE S == {s[k] : k \in 1 .. n} \cup {c}
  <1>1. s \in Seq(S) /\ <<c>> \in Seq(S) /\ Len(s) = n
    OBVIOUS
  <1>2. QED
    BY <1>1

\* What each script is made of.
StandardSteps(p, u) ==
    /\ Len(p.steps) = 3 /\ DOMAIN p.steps = 1 .. 3
    /\ p.steps[1] = Preflight
    /\ p.steps[2] = Chats(<<u>>, 1, "ok")
    /\ p.steps[3] = Chats(<<u>>, 1, "ok")
    /\ p.finally = 4 /\ p.guard = 4 /\ p.counts = TRUE
    /\ p.retries = MaxRetries
    /\ p.proves = [v \in {u} |-> 2]

LEMMA StandardProgram ==
    ASSUME NEW u
    PROVE  StandardSteps(StandardDemo(u), u)
  <1> DEFINE p == StandardDemo(u)
             body == <<Preflight, Chats(<<u>>, 1, "ok"),
                       Chats(<<u>>, 1, "ok")>>
  <1>1. body = [k \in 1 .. 3 |-> body[k]] /\ Len(body) = 3 /\ DOMAIN body = 1 .. 3
    OBVIOUS
  <1>2. body \o <<>> = body
    <2> HIDE DEF body
    <2>1. QED
      BY <1>1, NothingAfter, 3 \in Nat
  <1>3. /\ p.steps = body \o <<>> /\ p.finally = Len(body) + 1
        /\ p.guard = Len(body) + 1 /\ p.counts = TRUE /\ p.retries = MaxRetries
        /\ p.proves = [v \in {u} |-> 2]
    BY DEF StandardDemo, Plain, Program
  <1>4. p.steps = body /\ p.finally = 4 /\ p.guard = 4
    <2> HIDE DEF body
    <2>1. QED
      BY <1>1, <1>2, <1>3
  <1>5. QED
    BY <1>1, <1>3, <1>4 DEF StandardSteps

LimitsSteps(p, u) ==
    /\ Len(p.steps) = 11 /\ DOMAIN p.steps = 1 .. 11
    /\ p.steps[1] = Preflight
    /\ p.steps[2] = Clear(u)
    /\ p.steps[3] = Fresh(u)
    /\ p.steps[4] = Before(u)
    /\ p.steps[5] = Put(u, Rpm(1))
    /\ p.steps[6] = Get(u, Rpm(1))
    /\ p.steps[7] = Chats(<<u>>, 1, "ok")
    /\ p.steps[8] = Chats(<<u>>, 1, "limited")
    /\ p.steps[9] = After(u)
    /\ p.steps[10] = Check(Only(u, 1, 0), FALSE, TRUE)
    /\ p.steps[11] = Clear(u)
    /\ p.finally = 11 /\ p.guard = 3 /\ p.counts = FALSE
    /\ p.retries = MaxRetries
    /\ p.proves = [v \in {u} |-> 1]

LEMMA LimitsProgram ==
    ASSUME NEW u
    PROVE  LimitsSteps(LimitsDemo(u), u)
  <1> DEFINE p == LimitsDemo(u)
             body == <<Preflight, Clear(u), Fresh(u), Before(u),
                       Put(u, Rpm(1)), Get(u, Rpm(1)), Chats(<<u>>, 1, "ok"),
                       Chats(<<u>>, 1, "limited"), After(u),
                       Check(Only(u, 1, 0), FALSE, TRUE)>>
             last == Clear(u)
  <1>1. body = [k \in 1 .. 10 |-> body[k]] /\ Len(body) = 10
    OBVIOUS
  <1>2. /\ Len(body \o <<last>>) = 10 + 1
        /\ DOMAIN (body \o <<last>>) = 1 .. 10 + 1
        /\ \A k \in 1 .. 10 + 1 :
              (body \o <<last>>)[k] = IF k = 10 + 1 THEN last ELSE body[k]
    <2> HIDE DEF body, last
    <2>1. QED
      BY <1>1, OneAfter, 10 \in Nat
  <1>3. /\ p.steps = body \o <<last>> /\ p.finally = Len(body) + 1
        /\ p.guard = 3 /\ p.counts = FALSE /\ p.retries = MaxRetries
        /\ p.proves = [v \in {u} |-> 1]
    BY DEF LimitsDemo, LimitsBody, Program
  <1>4. /\ Len(p.steps) = 11 /\ DOMAIN p.steps = 1 .. 11 /\ p.finally = 11
        /\ \A k \in 1 .. 10 : p.steps[k] = body[k]
        /\ p.steps[11] = last
    <2> HIDE DEF body, last
    <2>1. QED
      BY <1>1, <1>2, <1>3
  <1>5. QED
    BY <1>3, <1>4 DEF LimitsSteps

UsageSteps(p, a, b) ==
    /\ Len(p.steps) = 9 /\ DOMAIN p.steps = 1 .. 9
    /\ p.steps[1] = Preflight
    /\ p.steps[2] = Before(a)
    /\ p.steps[3] = Before(b)
    /\ p.steps[4] = Chats(<<a>>, 1, "ok")
    /\ p.steps[5] = Chats(<<b>>, 1, "ok")
    /\ p.steps[6] = After(a)
    /\ p.steps[7] = After(b)
    /\ p.steps[8] = AdminView(a)
    /\ p.steps[9] = Check(Each({a, b}, 1), FALSE, TRUE)
    /\ p.finally = 10 /\ p.guard = 10 /\ p.counts = TRUE
    /\ p.retries = MaxRetries
    /\ p.proves = [v \in {a, b} |-> 1]

LEMMA UsageProgram ==
    ASSUME NEW a, NEW b
    PROVE  UsageSteps(UsageDemo(a, b), a, b)
  <1> DEFINE p == UsageDemo(a, b)
             body == <<Preflight, Before(a), Before(b),
                       Chats(<<a>>, 1, "ok"), Chats(<<b>>, 1, "ok"),
                       After(a), After(b), AdminView(a),
                       Check(Each({a, b}, 1), FALSE, TRUE)>>
  <1>1. body = [k \in 1 .. 9 |-> body[k]] /\ Len(body) = 9 /\ DOMAIN body = 1 .. 9
    OBVIOUS
  <1>2. body \o <<>> = body
    <2> HIDE DEF body
    <2>1. QED
      BY <1>1, NothingAfter, 9 \in Nat
  <1>3. /\ p.steps = body \o <<>> /\ p.finally = Len(body) + 1
        /\ p.guard = Len(body) + 1 /\ p.counts = TRUE /\ p.retries = MaxRetries
        /\ p.proves = [v \in {a, b} |-> 1]
    BY DEF UsageDemo, Plain, Program
  <1>4. p.steps = body /\ p.finally = 10 /\ p.guard = 10
    <2> HIDE DEF body
    <2>1. QED
      BY <1>1, <1>2, <1>3
  <1>5. QED
    BY <1>1, <1>3, <1>4 DEF UsageSteps

ConcurrencySteps(p, a, b, n) ==
    /\ Len(p.steps) = 11 /\ DOMAIN p.steps = 1 .. 11
    /\ p.steps[1] = Preflight
    /\ p.steps[2] = Clear(a)
    /\ p.steps[3] = Clear(b)
    /\ p.steps[4] = Before(a)
    /\ p.steps[5] = Before(b)
    /\ p.steps[6] = Chats(Repeat(a, n) \o Repeat(b, n), 2 * n, "any")
    /\ p.steps[7] = After(a)
    /\ p.steps[8] = After(b)
    /\ p.steps[9] = Clear(a)
    /\ p.steps[10] = Clear(b)
    /\ p.steps[11] = Check(Each({a, b}, n), TRUE, TRUE)
    /\ p.finally = 12 /\ p.guard = 12 /\ p.counts = TRUE
    /\ p.retries = MaxRetries
    /\ p.proves = [v \in {a, b} |-> n]

LEMMA ConcurrencyProgram ==
    ASSUME NEW a, NEW b, NEW n
    PROVE  ConcurrencySteps(ConcurrencyDemo(a, b, n), a, b, n)
  <1> DEFINE p == ConcurrencyDemo(a, b, n)
             body == <<Preflight, Clear(a), Clear(b), Before(a), Before(b),
                       Chats(Repeat(a, n) \o Repeat(b, n), 2 * n, "any"),
                       After(a), After(b), Clear(a), Clear(b),
                       Check(Each({a, b}, n), TRUE, TRUE)>>
  <1>1. body = [k \in 1 .. 11 |-> body[k]] /\ Len(body) = 11 /\ DOMAIN body = 1 .. 11
    OBVIOUS
  <1>2. body \o <<>> = body
    <2> HIDE DEF body
    <2>1. QED
      BY <1>1, NothingAfter, 11 \in Nat
  <1>3. /\ p.steps = body \o <<>> /\ p.finally = Len(body) + 1
        /\ p.guard = Len(body) + 1 /\ p.counts = TRUE /\ p.retries = MaxRetries
        /\ p.proves = [v \in {a, b} |-> n]
    BY DEF ConcurrencyDemo, Plain, Program
  <1>4. p.steps = body /\ p.finally = 12 /\ p.guard = 12
    <2> HIDE DEF body
    <2>1. QED
      BY <1>1, <1>2, <1>3
  <1>5. QED
    BY <1>1, <1>3, <1>4 DEF ConcurrencySteps

LoadSteps(p, a, b, n, allowed, width) ==
    /\ Len(p.steps) = 15 /\ DOMAIN p.steps = 1 .. 15
    /\ p.steps[1] = Preflight
    /\ p.steps[2] = Preflight
    /\ p.steps[3] = Clear(a)
    /\ p.steps[4] = Clear(b)
    /\ p.steps[5] = Fresh(b)
    /\ p.steps[6] = Before(a)
    /\ p.steps[7] = Chats(Repeat(a, n), width, "any")
    /\ p.steps[8] = After(a)
    /\ p.steps[9] = Check(Only(a, n, 0), TRUE, FALSE)
    /\ p.steps[10] = Put(b, Rpm(allowed))
    /\ p.steps[11] = Before(b)
    /\ p.steps[12] = Chats(Repeat(b, n), width, "any")
    /\ p.steps[13] = After(b)
    /\ p.steps[14] = Check(Only(b, allowed, n - allowed), TRUE, FALSE)
    /\ p.steps[15] = Clear(b)
    /\ p.finally = 15 /\ p.guard = 10 /\ p.counts = TRUE
    /\ p.retries = MaxRetries
    /\ p.proves = [v \in {a, b} |-> IF v = a THEN n ELSE allowed]

LEMMA LoadProgram ==
    ASSUME NEW a, NEW b, NEW n, NEW allowed, NEW width
    PROVE  LoadSteps(LoadDemo(a, b, n, allowed, width), a, b, n, allowed, width)
  <1> DEFINE p == LoadDemo(a, b, n, allowed, width)
             body == <<Preflight, Preflight, Clear(a), Clear(b), Fresh(b),
                       Before(a), Chats(Repeat(a, n), width, "any"),
                       After(a), Check(Only(a, n, 0), TRUE, FALSE),
                       Put(b, Rpm(allowed)), Before(b),
                       Chats(Repeat(b, n), width, "any"), After(b),
                       Check(Only(b, allowed, n - allowed), TRUE, FALSE)>>
             last == Clear(b)
  <1>1. body = [k \in 1 .. 14 |-> body[k]] /\ Len(body) = 14
    OBVIOUS
  <1>2. /\ Len(body \o <<last>>) = 14 + 1
        /\ DOMAIN (body \o <<last>>) = 1 .. 14 + 1
        /\ \A k \in 1 .. 14 + 1 :
              (body \o <<last>>)[k] = IF k = 14 + 1 THEN last ELSE body[k]
    <2> HIDE DEF body, last
    <2>1. QED
      BY <1>1, OneAfter, 14 \in Nat
  <1>3. /\ p.steps = body \o <<last>> /\ p.finally = Len(body) + 1
        /\ p.guard = 10 /\ p.counts = TRUE /\ p.retries = MaxRetries
        /\ p.proves = [v \in {a, b} |-> IF v = a THEN n ELSE allowed]
    BY DEF LoadDemo, Program
  <1>4. /\ Len(p.steps) = 15 /\ DOMAIN p.steps = 1 .. 15 /\ p.finally = 15
        /\ \A k \in 1 .. 14 : p.steps[k] = body[k]
        /\ p.steps[15] = last
    <2> HIDE DEF body, last
    <2>1. QED
      BY <1>1, <1>2, <1>3
  <1>5. QED
    BY <1>3, <1>4 DEF LoadSteps

ReportSteps(p, u, limits) ==
    /\ Len(p.steps) = 5 /\ DOMAIN p.steps = 1 .. 5
    /\ p.steps[1] = Preflight
    /\ p.steps[2] = Clear(u)
    /\ p.steps[3] = Put(u, limits)
    /\ p.steps[4] = Chats(<<u>>, 1, "ok")
    /\ p.steps[5] = After(u)
    /\ p.finally = 6 /\ p.guard = 6 /\ p.counts = TRUE
    /\ p.retries = MaxRetries
    /\ p.proves = [v \in {u} |-> 1]

LEMMA ReportProgram ==
    ASSUME NEW u, NEW limits
    PROVE  ReportSteps(ReportDemo(u, limits), u, limits)
  <1> DEFINE p == ReportDemo(u, limits)
             body == <<Preflight, Clear(u), Put(u, limits),
                       Chats(<<u>>, 1, "ok"), After(u)>>
  <1>1. body = [k \in 1 .. 5 |-> body[k]] /\ Len(body) = 5 /\ DOMAIN body = 1 .. 5
    OBVIOUS
  <1>2. body \o <<>> = body
    <2> HIDE DEF body
    <2>1. QED
      BY <1>1, NothingAfter, 5 \in Nat
  <1>3. /\ p.steps = body \o <<>> /\ p.finally = Len(body) + 1
        /\ p.guard = Len(body) + 1 /\ p.counts = TRUE /\ p.retries = MaxRetries
        /\ p.proves = [v \in {u} |-> 1]
    BY DEF ReportDemo, Plain, Program
  <1>4. p.steps = body /\ p.finally = 6 /\ p.guard = 6
    <2> HIDE DEF body
    <2>1. QED
      BY <1>1, <1>2, <1>3
  <1>5. QED
    BY <1>1, <1>3, <1>4 DEF ReportSteps

LoadTestSteps(p, u, limits, n, width) ==
    /\ Len(p.steps) = 4 /\ DOMAIN p.steps = 1 .. 4
    /\ p.steps[1] = Put(u, limits)
    /\ p.steps[2] = Before(u)
    /\ p.steps[3] = Chats(Repeat(u, n), width, "any")
    /\ p.steps[4] = After(u)
    /\ p.finally = 5 /\ p.guard = 5 /\ p.counts = TRUE
    /\ p.retries = 0
    /\ p.proves = <<>>

LEMMA LoadTestProgram ==
    ASSUME NEW u, NEW limits, NEW n, NEW width
    PROVE  LoadTestSteps(LoadTest(u, limits, n, width), u, limits, n, width)
  <1> DEFINE p == LoadTest(u, limits, n, width)
             body == <<Put(u, limits), Before(u),
                       Chats(Repeat(u, n), width, "any"), After(u)>>
  <1>1. body = [k \in 1 .. 4 |-> body[k]] /\ Len(body) = 4 /\ DOMAIN body = 1 .. 4
    OBVIOUS
  <1>2. body \o <<>> = body
    <2> HIDE DEF body
    <2>1. QED
      BY <1>1, NothingAfter, 4 \in Nat
  <1>3. /\ p.steps = body \o <<>> /\ p.finally = Len(body) + 1
        /\ p.guard = 5 /\ p.counts = TRUE /\ p.retries = 0
        /\ p.proves = <<>>
    BY DEF LoadTest, Program
  <1>4. p.steps = body /\ p.finally = 5 /\ p.guard = 5
    <2> HIDE DEF body
    <2>1. QED
      BY <1>1, <1>2, <1>3
  <1>5. QED
    BY <1>1, <1>3, <1>4 DEF LoadTestSteps

-----------------------------------------------------------------------------
(***************************************************************************)
(* What the programs have in common.                                       *)
(***************************************************************************)
\* The users a step is about.
Touched(st) ==
    IF st.op \in {"put", "get", "fresh", "before", "after", "admin"} THEN {st.user}
    ELSE IF st.op = "chats" THEN ToSet(st.users) ELSE {}

StepFormed(st) ==
    \/ st.op \in {"preflight", "check"}
    \/ st.op \in {"get", "fresh", "before", "after", "admin"} /\ st.user \in Users
    \/ st.op = "put" /\ st.user \in Users /\ st.limits \in LimitSettings
    \/ st.op = "chats" /\ st.users \in Seq(Users)

\* The limits a step may leave behind are cleared at the end.
PutFormed(p, k) ==
    p.finally = Len(p.steps) /\ p.steps[k].op = "put" /\ p.steps[k].limits # Unlimited =>
        /\ k \in p.guard .. p.finally - 1
        /\ p.steps[p.finally] = Clear(p.steps[k].user)

Formed(p) ==
    /\ Len(p.steps) \in Nat \ {0} /\ DOMAIN p.steps = 1 .. Len(p.steps)
    /\ p.finally \in {Len(p.steps), Len(p.steps) + 1}
    /\ p.guard \in 1 .. Len(p.steps) + 1
    /\ p.counts \in BOOLEAN
    /\ p.retries \in 0 .. MaxRetries
    /\ p.steps[1].op \in {"preflight", "put"}
    /\ p.steps[1] = Preflight => p.guard > 1
    /\ p.finally = Len(p.steps) => p.steps[p.finally].op = "put"
    /\ \A k \in 1 .. Len(p.steps) : StepFormed(p.steps[k]) /\ PutFormed(p, k)

\* What the steps are made of.
LEMMA PreflightStep == Preflight.op = "preflight" /\ Touched(Preflight) = {}
  BY DEF Preflight, Touched

LEMMA PutStep ==
    ASSUME NEW u, NEW limits
    PROVE  /\ Put(u, limits).op = "put" /\ Put(u, limits).user = u
           /\ Put(u, limits).limits = limits /\ Touched(Put(u, limits)) = {u}
  BY DEF Put, Touched

LEMMA ClearStep ==
    ASSUME NEW u
    PROVE  /\ Clear(u).op = "put" /\ Clear(u).user = u
           /\ Clear(u).limits = Unlimited /\ Touched(Clear(u)) = {u}
  BY DEF Clear, Put, Touched

LEMMA GetStep ==
    ASSUME NEW u, NEW limits
    PROVE  /\ Get(u, limits).op = "get" /\ Get(u, limits).user = u
           /\ Get(u, limits).limits = limits /\ Touched(Get(u, limits)) = {u}
  BY DEF Get, Touched

LEMMA FreshStep ==
    ASSUME NEW u
    PROVE  Fresh(u).op = "fresh" /\ Fresh(u).user = u /\ Touched(Fresh(u)) = {u}
  BY DEF Fresh, Touched

LEMMA BeforeStep ==
    ASSUME NEW u
    PROVE  Before(u).op = "before" /\ Before(u).user = u /\ Touched(Before(u)) = {u}
  BY DEF Before, Touched

LEMMA AfterStep ==
    ASSUME NEW u
    PROVE  After(u).op = "after" /\ After(u).user = u /\ Touched(After(u)) = {u}
  BY DEF After, Touched

LEMMA AdminStep ==
    ASSUME NEW u
    PROVE  /\ AdminView(u).op = "admin" /\ AdminView(u).user = u
           /\ Touched(AdminView(u)) = {u}
  BY DEF AdminView, Touched

LEMMA ChatsStep ==
    ASSUME NEW users, NEW width, NEW want
    PROVE  /\ Chats(users, width, want).op = "chats" /\ Chats(users, width, want).users = users
           /\ Chats(users, width, want).width = width /\ Chats(users, width, want).want = want
           /\ Touched(Chats(users, width, want)) = ToSet(users)
  BY DEF Chats, Touched

LEMMA CheckStep ==
    ASSUME NEW wants, NEW results \in BOOLEAN, NEW fatal \in BOOLEAN
    PROVE  /\ Check(wants, results, fatal).op = "check"
           /\ Check(wants, results, fatal).wants = wants
           /\ Check(wants, results, fatal).results = results
           /\ Check(wants, results, fatal).fatal = fatal
           /\ Touched(Check(wants, results, fatal)) = {}
  BY DEF Check, Touched

LEMMA OneCall ==
    ASSUME NEW u \in Users
    PROVE  /\ <<u>> \in Seq(Users) /\ ToSet(<<u>>) = {u}
           /\ DOMAIN <<u>> = 1 .. 1 /\ <<u>>[1] = u
  BY DEF ToSet

LEMMA RepeatedCalls ==
    ASSUME NEW u \in Users, NEW n \in Nat \ {0}
    PROVE  /\ Repeat(u, n) \in Seq(Users) /\ Len(Repeat(u, n)) = n
           /\ DOMAIN Repeat(u, n) = 1 .. n /\ \A k \in 1 .. n : Repeat(u, n)[k] = u
           /\ ToSet(Repeat(u, n)) = {u}
  <1>1. /\ Repeat(u, n) \in Seq(Users) /\ Len(Repeat(u, n)) = n
        /\ DOMAIN Repeat(u, n) = 1 .. n /\ \A k \in 1 .. n : Repeat(u, n)[k] = u
    BY DEF Repeat
  <1>2. ToSet(Repeat(u, n)) = {u}
    <2>1. 1 \in 1 .. n
      OBVIOUS
    <2>2. QED
      BY <1>1, <2>1 DEF ToSet
  <1>3. QED
    BY <1>1, <1>2

LEMMA BothCalls ==
    ASSUME NEW a \in Users, NEW b \in Users, NEW n \in Nat \ {0}
    PROVE  LET calls == Repeat(a, n) \o Repeat(b, n)
           IN  /\ calls \in Seq(Users) /\ Len(calls) = n + n
               /\ DOMAIN calls = 1 .. n + n
               /\ \A k \in 1 .. n + n : calls[k] = IF k <= n THEN a ELSE b
               /\ ToSet(calls) = {a, b}
  <1> DEFINE calls == Repeat(a, n) \o Repeat(b, n)
  <1>1. /\ calls \in Seq(Users) /\ Len(calls) = n + n
        /\ DOMAIN calls = 1 .. n + n
        /\ \A k \in 1 .. n + n : calls[k] = IF k <= n THEN a ELSE b
    <2> DEFINE x == Repeat(a, n)
               y == Repeat(b, n)
    <2>1. /\ x \in Seq(Users) /\ Len(x) = n /\ \A k \in 1 .. n : x[k] = a
          /\ y \in Seq(Users) /\ Len(y) = n /\ \A k \in 1 .. n : y[k] = b
      BY RepeatedCalls
    <2> HIDE DEF x, y
    <2>2. /\ x \o y \in Seq(Users) /\ Len(x \o y) = n + n
          /\ DOMAIN (x \o y) = 1 .. n + n
      BY <2>1
    <2>3. \A k \in 1 .. n + n : (x \o y)[k] = IF k <= n THEN a ELSE b
      BY <2>1
    <2>4. QED
      BY <2>2, <2>3 DEF x, y
  <1>2. ToSet(calls) = {a, b}
    <2>1. 1 \in 1 .. n + n /\ n + 1 \in 1 .. n + n
      OBVIOUS
    <2>2. calls[1] = a /\ calls[n + 1] = b
      BY <1>1, <2>1
    <2> HIDE DEF calls
    <2>3. \A x \in ToSet(calls) : x \in {a, b}
      BY <1>1 DEF ToSet
    <2>4. a \in ToSet(calls) /\ b \in ToSet(calls)
      BY <1>1, <2>1, <2>2 DEF ToSet
    <2>5. QED
      BY <2>3, <2>4
  <1>3. QED
    BY <1>1, <1>2

\* The users of a script are those its steps are about.
LEMMA UsersTouched ==
    ASSUME NEW p
    PROVE  UsersOf(p) = {u \in Users : \E k \in DOMAIN p.steps : u \in Touched(p.steps[k])}
  BY DEF UsersOf, Touched

\* Their steps are well formed.
LEMMA FormedPut ==
    ASSUME NEW u \in Users, NEW limits \in LimitSettings
    PROVE  StepFormed(Put(u, limits))
  BY PutStep DEF StepFormed

LEMMA FormedClear == ASSUME NEW u \in Users PROVE StepFormed(Clear(u))
  BY ClearStep, SettingsWritten DEF StepFormed

LEMMA FormedGet == ASSUME NEW u \in Users, NEW limits PROVE StepFormed(Get(u, limits))
  BY GetStep DEF StepFormed

LEMMA FormedReads ==
    ASSUME NEW u \in Users
    PROVE  /\ StepFormed(Preflight) /\ StepFormed(Fresh(u)) /\ StepFormed(Before(u))
           /\ StepFormed(After(u)) /\ StepFormed(AdminView(u))
  BY PreflightStep, FreshStep, BeforeStep, AfterStep, AdminStep DEF StepFormed

LEMMA FormedChats ==
    ASSUME NEW users \in Seq(Users), NEW width, NEW want
    PROVE  StepFormed(Chats(users, width, want))
  BY ChatsStep DEF StepFormed

LEMMA FormedCheck ==
    ASSUME NEW wants, NEW results \in BOOLEAN, NEW fatal \in BOOLEAN
    PROVE  StepFormed(Check(wants, results, fatal))
  BY CheckStep DEF StepFormed

\* A step that sends chats, for each of the ways the scripts do.
LEMMA OneChat ==
    ASSUME NEW u \in Users, NEW want
    PROVE  /\ StepFormed(Chats(<<u>>, 1, want))
           /\ Chats(<<u>>, 1, want).op = "chats" /\ Touched(Chats(<<u>>, 1, want)) = {u}
  BY OneCall, FormedChats, ChatsStep

LEMMA ManyChats ==
    ASSUME NEW u \in Users, NEW n \in Nat \ {0}, NEW width, NEW want
    PROVE  /\ StepFormed(Chats(Repeat(u, n), width, want))
           /\ Chats(Repeat(u, n), width, want).op = "chats"
           /\ Touched(Chats(Repeat(u, n), width, want)) = {u}
  BY RepeatedCalls, FormedChats, ChatsStep

LEMMA BothChats ==
    ASSUME NEW a \in Users, NEW b \in Users, NEW n \in Nat \ {0}, NEW width, NEW want
    PROVE  /\ StepFormed(Chats(Repeat(a, n) \o Repeat(b, n), width, want))
           /\ Chats(Repeat(a, n) \o Repeat(b, n), width, want).op = "chats"
           /\ Touched(Chats(Repeat(a, n) \o Repeat(b, n), width, want)) = {a, b}
  <1> DEFINE calls == Repeat(a, n) \o Repeat(b, n)
  <1>1. calls \in Seq(Users) /\ ToSet(calls) = {a, b}
    BY BothCalls
  <1> HIDE DEF calls
  <1>2. /\ StepFormed(Chats(calls, width, want))
        /\ Chats(calls, width, want).op = "chats"
        /\ Touched(Chats(calls, width, want)) = {a, b}
    BY <1>1, FormedChats, ChatsStep
  <1>3. QED
    BY <1>2 DEF calls

LEMMA StandardFormed ==
    ASSUME NEW u \in Users, NEW p, StandardSteps(p, u)
    PROVE  Formed(p) /\ UsersOf(p) = {u}
  <1>1. StepFormed(p.steps[1])
    BY FormedReads, FormedPut, FormedClear, FormedGet, SettingsWritten DEF StandardSteps
  <1>2. p.steps[1].op = "preflight" /\ Touched(p.steps[1]) = {}
    BY PreflightStep, PutStep, ClearStep, GetStep, FreshStep, BeforeStep, AfterStep, AdminStep
       DEF StandardSteps
  <1>3. /\ StepFormed(p.steps[2])
        /\ p.steps[2].op = "chats" /\ Touched(p.steps[2]) = {u}
    <2>1. p.steps[2] = Chats(<<u>>, 1, "ok")
      BY DEF StandardSteps
    <2>2. StepFormed(Chats(<<u>>, 1, "ok"))
      BY OneChat
    <2>3. Chats(<<u>>, 1, "ok").op = "chats" /\ Touched(Chats(<<u>>, 1, "ok")) = {u}
      BY OneChat
    <2>4. QED
      BY <2>1, <2>2, <2>3
  <1>4. /\ StepFormed(p.steps[3])
        /\ p.steps[3].op = "chats" /\ Touched(p.steps[3]) = {u}
    <2>1. p.steps[3] = Chats(<<u>>, 1, "ok")
      BY DEF StandardSteps
    <2>2. StepFormed(Chats(<<u>>, 1, "ok"))
      BY OneChat
    <2>3. Chats(<<u>>, 1, "ok").op = "chats" /\ Touched(Chats(<<u>>, 1, "ok")) = {u}
      BY OneChat
    <2>4. QED
      BY <2>1, <2>2, <2>3
  <1>5. \A k \in 1 .. 3 : StepFormed(p.steps[k])
    BY <1>1, <1>3, <1>4
  <1>6. /\ Len(p.steps) = 3 /\ DOMAIN p.steps = 1 .. 3 /\ p.finally = 4 /\ p.guard = 4
        /\ p.counts \in BOOLEAN /\ p.retries \in {0, MaxRetries}
    BY DEF StandardSteps
  <1>7. \A k \in 1 .. 3 : PutFormed(p, k)
    BY <1>6 DEF PutFormed
  <1>8. Formed(p)
    <2>1. p.steps[1] = Preflight => p.guard > 1
      BY <1>6, <1>2, PreflightStep
    <2>2. QED
      BY <1>5, <1>7, <1>6, <1>2, <2>1, DemoBounds DEF Formed
  <1>9. UsersOf(p) = {u}
    BY <1>2, <1>3, <1>4, <1>6, UsersTouched
  <1>10. QED
    BY <1>8, <1>9

LEMMA LimitsFormed ==
    ASSUME NEW u \in Users, NEW p, LimitsSteps(p, u)
    PROVE  Formed(p) /\ UsersOf(p) = {u}
  <1>1. /\ StepFormed(p.steps[1]) /\ StepFormed(p.steps[2])
        /\ StepFormed(p.steps[3]) /\ StepFormed(p.steps[4])
        /\ StepFormed(p.steps[5]) /\ StepFormed(p.steps[6])
        /\ StepFormed(p.steps[9]) /\ StepFormed(p.steps[11])
    BY FormedReads, FormedPut, FormedClear, FormedGet, SettingsWritten DEF LimitsSteps
  <1>2. /\ p.steps[1].op = "preflight" /\ Touched(p.steps[1]) = {}
        /\ p.steps[2].op = "put" /\ Touched(p.steps[2]) = {u}
        /\ p.steps[3].op = "fresh" /\ Touched(p.steps[3]) = {u}
        /\ p.steps[4].op = "before" /\ Touched(p.steps[4]) = {u}
        /\ p.steps[5].op = "put" /\ Touched(p.steps[5]) = {u}
        /\ p.steps[6].op = "get" /\ Touched(p.steps[6]) = {u}
        /\ p.steps[9].op = "after" /\ Touched(p.steps[9]) = {u}
        /\ p.steps[11].op = "put" /\ Touched(p.steps[11]) = {u}
    BY PreflightStep, PutStep, ClearStep, GetStep, FreshStep, BeforeStep, AfterStep, AdminStep
       DEF LimitsSteps
  <1>3. /\ StepFormed(p.steps[7])
        /\ p.steps[7].op = "chats" /\ Touched(p.steps[7]) = {u}
    <2>1. p.steps[7] = Chats(<<u>>, 1, "ok")
      BY DEF LimitsSteps
    <2>2. StepFormed(Chats(<<u>>, 1, "ok"))
      BY OneChat
    <2>3. Chats(<<u>>, 1, "ok").op = "chats" /\ Touched(Chats(<<u>>, 1, "ok")) = {u}
      BY OneChat
    <2>4. QED
      BY <2>1, <2>2, <2>3
  <1>4. /\ StepFormed(p.steps[8])
        /\ p.steps[8].op = "chats" /\ Touched(p.steps[8]) = {u}
    <2>1. p.steps[8] = Chats(<<u>>, 1, "limited")
      BY DEF LimitsSteps
    <2>2. StepFormed(Chats(<<u>>, 1, "limited"))
      BY OneChat
    <2>3. Chats(<<u>>, 1, "limited").op = "chats" /\ Touched(Chats(<<u>>, 1, "limited")) = {u}
      BY OneChat
    <2>4. QED
      BY <2>1, <2>2, <2>3
  <1>5. /\ StepFormed(p.steps[10])
        /\ p.steps[10].op = "check" /\ Touched(p.steps[10]) = {}
    <2>1. p.steps[10] = Check(Only(u, 1, 0), FALSE, TRUE)
      BY DEF LimitsSteps
    <2>2. StepFormed(Check(Only(u, 1, 0), FALSE, TRUE))
      BY FormedCheck, CheckStep
    <2>3. /\ Check(Only(u, 1, 0), FALSE, TRUE).op = "check"
          /\ Touched(Check(Only(u, 1, 0), FALSE, TRUE)) = {}
      BY FormedCheck, CheckStep
    <2>4. QED
      BY <2>1, <2>2, <2>3
  <1>6. \A k \in 1 .. 11 : StepFormed(p.steps[k])
    BY <1>1, <1>3, <1>4, <1>5
  <1>7. /\ Len(p.steps) = 11 /\ DOMAIN p.steps = 1 .. 11 /\ p.finally = 11 /\ p.guard = 3
        /\ p.counts \in BOOLEAN /\ p.retries \in {0, MaxRetries}
    BY DEF LimitsSteps
  <1>8. \A k \in 1 .. 11 : PutFormed(p, k)
    <2>1. /\ PutFormed(p, 2) /\ PutFormed(p, 5) /\ PutFormed(p, 11)
      <3>1. /\ p.steps[2] = Clear(u) /\ p.steps[5] = Put(u, Rpm(1))
        /\ p.steps[11] = Clear(u)
        BY DEF LimitsSteps
      <3>2. /\ p.steps[2].limits = Unlimited /\ p.steps[11].limits = Unlimited
        /\ p.steps[5].user = u
        BY <3>1, PutStep, ClearStep
      <3>3. QED
        BY <1>7, <3>1, <3>2 DEF PutFormed
    <2>2. \A k \in 1 .. 11 : p.steps[k].op = "put" => k \in {2, 5, 11}
      BY <1>2, <1>3, <1>4, <1>5
    <2>3. QED
      BY <2>1, <2>2 DEF PutFormed
  <1>9. Formed(p)
    <2>1. p.steps[1] = Preflight => p.guard > 1
      BY <1>7, <1>2, PreflightStep
    <2>2. QED
      BY <1>6, <1>8, <1>7, <1>2, <2>1, DemoBounds DEF Formed
  <1>10. UsersOf(p) = {u}
    BY <1>2, <1>3, <1>4, <1>5, <1>7, UsersTouched
  <1>11. QED
    BY <1>9, <1>10

LEMMA UsageFormed ==
    ASSUME NEW a \in Users, NEW b \in Users, NEW p, UsageSteps(p, a, b)
    PROVE  Formed(p) /\ UsersOf(p) = {a, b}
  <1>1. /\ StepFormed(p.steps[1]) /\ StepFormed(p.steps[2])
        /\ StepFormed(p.steps[3]) /\ StepFormed(p.steps[6])
        /\ StepFormed(p.steps[7]) /\ StepFormed(p.steps[8])
    BY FormedReads, FormedPut, FormedClear, FormedGet, SettingsWritten DEF UsageSteps
  <1>2. /\ p.steps[1].op = "preflight" /\ Touched(p.steps[1]) = {}
        /\ p.steps[2].op = "before" /\ Touched(p.steps[2]) = {a}
        /\ p.steps[3].op = "before" /\ Touched(p.steps[3]) = {b}
        /\ p.steps[6].op = "after" /\ Touched(p.steps[6]) = {a}
        /\ p.steps[7].op = "after" /\ Touched(p.steps[7]) = {b}
        /\ p.steps[8].op = "admin" /\ Touched(p.steps[8]) = {a}
    <2>1. /\ p.steps[1] = Preflight /\ p.steps[2] = Before(a)
        /\ p.steps[3] = Before(b)
      BY DEF UsageSteps
    <2>2. /\ p.steps[1].op = "preflight" /\ Touched(p.steps[1]) = {}
        /\ p.steps[2].op = "before" /\ Touched(p.steps[2]) = {a}
        /\ p.steps[3].op = "before" /\ Touched(p.steps[3]) = {b}
      BY <2>1, PreflightStep, PutStep, ClearStep, GetStep, FreshStep, BeforeStep, AfterStep,
         AdminStep
    <2>3. /\ p.steps[6] = After(a) /\ p.steps[7] = After(b)
        /\ p.steps[8] = AdminView(a)
      BY DEF UsageSteps
    <2>4. /\ p.steps[6].op = "after" /\ Touched(p.steps[6]) = {a}
        /\ p.steps[7].op = "after" /\ Touched(p.steps[7]) = {b}
        /\ p.steps[8].op = "admin" /\ Touched(p.steps[8]) = {a}
      BY <2>3, PreflightStep, PutStep, ClearStep, GetStep, FreshStep, BeforeStep, AfterStep,
         AdminStep
    <2>5. QED
      BY <2>2, <2>4
  <1>3. /\ StepFormed(p.steps[4])
        /\ p.steps[4].op = "chats" /\ Touched(p.steps[4]) = {a}
    <2>1. p.steps[4] = Chats(<<a>>, 1, "ok")
      BY DEF UsageSteps
    <2>2. StepFormed(Chats(<<a>>, 1, "ok"))
      BY OneChat
    <2>3. Chats(<<a>>, 1, "ok").op = "chats" /\ Touched(Chats(<<a>>, 1, "ok")) = {a}
      BY OneChat
    <2>4. QED
      BY <2>1, <2>2, <2>3
  <1>4. /\ StepFormed(p.steps[5])
        /\ p.steps[5].op = "chats" /\ Touched(p.steps[5]) = {b}
    <2>1. p.steps[5] = Chats(<<b>>, 1, "ok")
      BY DEF UsageSteps
    <2>2. StepFormed(Chats(<<b>>, 1, "ok"))
      BY OneChat
    <2>3. Chats(<<b>>, 1, "ok").op = "chats" /\ Touched(Chats(<<b>>, 1, "ok")) = {b}
      BY OneChat
    <2>4. QED
      BY <2>1, <2>2, <2>3
  <1>5. /\ StepFormed(p.steps[9])
        /\ p.steps[9].op = "check" /\ Touched(p.steps[9]) = {}
    <2>1. p.steps[9] = Check(Each({a, b}, 1), FALSE, TRUE)
      BY DEF UsageSteps
    <2>2. StepFormed(Check(Each({a, b}, 1), FALSE, TRUE))
      BY FormedCheck, CheckStep
    <2>3. /\ Check(Each({a, b}, 1), FALSE, TRUE).op = "check"
          /\ Touched(Check(Each({a, b}, 1), FALSE, TRUE)) = {}
      BY FormedCheck, CheckStep
    <2>4. QED
      BY <2>1, <2>2, <2>3
  <1>6. \A k \in 1 .. 9 : StepFormed(p.steps[k])
    BY <1>1, <1>3, <1>4, <1>5
  <1>7. /\ Len(p.steps) = 9 /\ DOMAIN p.steps = 1 .. 9 /\ p.finally = 10 /\ p.guard = 10
        /\ p.counts \in BOOLEAN /\ p.retries \in {0, MaxRetries}
    BY DEF UsageSteps
  <1>8. \A k \in 1 .. 9 : PutFormed(p, k)
    BY <1>7 DEF PutFormed
  <1>9. Formed(p)
    <2>1. p.steps[1] = Preflight => p.guard > 1
      BY <1>7, <1>2, PreflightStep
    <2>2. QED
      BY <1>6, <1>8, <1>7, <1>2, <2>1, DemoBounds DEF Formed
  <1>10. UsersOf(p) = {a, b}
    BY <1>2, <1>3, <1>4, <1>5, <1>7, UsersTouched
  <1>11. QED
    BY <1>9, <1>10

LEMMA ConcurrencyFormed ==
    ASSUME NEW a \in Users, NEW b \in Users, NEW n \in 1 .. MaxEvents, NEW p,
           ConcurrencySteps(p, a, b, n)
    PROVE  Formed(p) /\ UsersOf(p) = {a, b}
  <1>1. /\ StepFormed(p.steps[1]) /\ StepFormed(p.steps[2])
        /\ StepFormed(p.steps[3]) /\ StepFormed(p.steps[4])
        /\ StepFormed(p.steps[5]) /\ StepFormed(p.steps[7])
        /\ StepFormed(p.steps[8]) /\ StepFormed(p.steps[9])
        /\ StepFormed(p.steps[10])
    BY FormedReads, FormedPut, FormedClear, FormedGet, SettingsWritten DEF ConcurrencySteps
  <1>2. /\ p.steps[1].op = "preflight" /\ Touched(p.steps[1]) = {}
        /\ p.steps[2].op = "put" /\ Touched(p.steps[2]) = {a}
        /\ p.steps[3].op = "put" /\ Touched(p.steps[3]) = {b}
        /\ p.steps[4].op = "before" /\ Touched(p.steps[4]) = {a}
        /\ p.steps[5].op = "before" /\ Touched(p.steps[5]) = {b}
        /\ p.steps[7].op = "after" /\ Touched(p.steps[7]) = {a}
        /\ p.steps[8].op = "after" /\ Touched(p.steps[8]) = {b}
        /\ p.steps[9].op = "put" /\ Touched(p.steps[9]) = {a}
        /\ p.steps[10].op = "put" /\ Touched(p.steps[10]) = {b}
    <2>1. /\ p.steps[1] = Preflight /\ p.steps[2] = Clear(a) /\ p.steps[3] = Clear(b)
      BY DEF ConcurrencySteps
    <2>2. /\ p.steps[1].op = "preflight" /\ Touched(p.steps[1]) = {}
        /\ p.steps[2].op = "put" /\ Touched(p.steps[2]) = {a}
        /\ p.steps[3].op = "put" /\ Touched(p.steps[3]) = {b}
      BY <2>1, PreflightStep, PutStep, ClearStep, GetStep, FreshStep, BeforeStep, AfterStep,
         AdminStep
    <2>3. /\ p.steps[4] = Before(a) /\ p.steps[5] = Before(b) /\ p.steps[7] = After(a)
      BY DEF ConcurrencySteps
    <2>4. /\ p.steps[4].op = "before" /\ Touched(p.steps[4]) = {a}
        /\ p.steps[5].op = "before" /\ Touched(p.steps[5]) = {b}
        /\ p.steps[7].op = "after" /\ Touched(p.steps[7]) = {a}
      BY <2>3, PreflightStep, PutStep, ClearStep, GetStep, FreshStep, BeforeStep, AfterStep,
         AdminStep
    <2>5. /\ p.steps[8] = After(b) /\ p.steps[9] = Clear(a) /\ p.steps[10] = Clear(b)
      BY DEF ConcurrencySteps
    <2>6. /\ p.steps[8].op = "after" /\ Touched(p.steps[8]) = {b}
        /\ p.steps[9].op = "put" /\ Touched(p.steps[9]) = {a}
        /\ p.steps[10].op = "put" /\ Touched(p.steps[10]) = {b}
      BY <2>5, PreflightStep, PutStep, ClearStep, GetStep, FreshStep, BeforeStep, AfterStep,
         AdminStep
    <2>7. QED
      BY <2>2, <2>4, <2>6
  <1>3. /\ StepFormed(p.steps[6])
        /\ p.steps[6].op = "chats" /\ Touched(p.steps[6]) = {a, b}
    <2>1. p.steps[6] = Chats(Repeat(a, n) \o Repeat(b, n), 2 * n, "any")
      BY DEF ConcurrencySteps
    <2>2. StepFormed(Chats(Repeat(a, n) \o Repeat(b, n), 2 * n, "any"))
      BY BothChats, BoundsAssumption
    <2>3. /\ Chats(Repeat(a, n) \o Repeat(b, n), 2 * n, "any").op = "chats"
          /\ Touched(Chats(Repeat(a, n) \o Repeat(b, n), 2 * n, "any")) = {a, b}
      BY BothChats, BoundsAssumption
    <2>4. QED
      BY <2>1, <2>2, <2>3
  <1>4. /\ StepFormed(p.steps[11])
        /\ p.steps[11].op = "check" /\ Touched(p.steps[11]) = {}
    <2>1. p.steps[11] = Check(Each({a, b}, n), TRUE, TRUE)
      BY DEF ConcurrencySteps
    <2>2. StepFormed(Check(Each({a, b}, n), TRUE, TRUE))
      BY FormedCheck, CheckStep
    <2>3. /\ Check(Each({a, b}, n), TRUE, TRUE).op = "check"
          /\ Touched(Check(Each({a, b}, n), TRUE, TRUE)) = {}
      BY FormedCheck, CheckStep
    <2>4. QED
      BY <2>1, <2>2, <2>3
  <1>5. \A k \in 1 .. 11 : StepFormed(p.steps[k])
    BY <1>1, <1>3, <1>4
  <1>6. /\ Len(p.steps) = 11 /\ DOMAIN p.steps = 1 .. 11 /\ p.finally = 12 /\ p.guard = 12
        /\ p.counts \in BOOLEAN /\ p.retries \in {0, MaxRetries}
    BY DEF ConcurrencySteps
  <1>7. \A k \in 1 .. 11 : PutFormed(p, k)
    BY <1>6 DEF PutFormed
  <1>8. Formed(p)
    <2>1. p.steps[1] = Preflight => p.guard > 1
      BY <1>6, <1>2, PreflightStep
    <2>2. QED
      BY <1>5, <1>7, <1>6, <1>2, <2>1, DemoBounds DEF Formed
  <1>9. UsersOf(p) = {a, b}
    BY <1>2, <1>3, <1>4, <1>6, UsersTouched
  <1>10. QED
    BY <1>8, <1>9

LEMMA LoadFormed ==
    ASSUME NEW a \in Users, NEW b \in Users, NEW n \in 1 .. MaxEvents, NEW allowed, NEW width,
           Rpm(allowed) \in LimitSettings, NEW p, LoadSteps(p, a, b, n, allowed, width)
    PROVE  Formed(p) /\ UsersOf(p) = {a, b}
  <1>1. /\ StepFormed(p.steps[1]) /\ StepFormed(p.steps[2])
        /\ StepFormed(p.steps[3]) /\ StepFormed(p.steps[4])
        /\ StepFormed(p.steps[5]) /\ StepFormed(p.steps[6])
        /\ StepFormed(p.steps[8]) /\ StepFormed(p.steps[10])
        /\ StepFormed(p.steps[11]) /\ StepFormed(p.steps[13])
        /\ StepFormed(p.steps[15])
    BY FormedReads, FormedPut, FormedClear, FormedGet, SettingsWritten DEF LoadSteps
  <1>2. /\ p.steps[1].op = "preflight" /\ Touched(p.steps[1]) = {}
        /\ p.steps[2].op = "preflight" /\ Touched(p.steps[2]) = {}
        /\ p.steps[3].op = "put" /\ Touched(p.steps[3]) = {a}
        /\ p.steps[4].op = "put" /\ Touched(p.steps[4]) = {b}
        /\ p.steps[5].op = "fresh" /\ Touched(p.steps[5]) = {b}
        /\ p.steps[6].op = "before" /\ Touched(p.steps[6]) = {a}
        /\ p.steps[8].op = "after" /\ Touched(p.steps[8]) = {a}
        /\ p.steps[10].op = "put" /\ Touched(p.steps[10]) = {b}
        /\ p.steps[11].op = "before" /\ Touched(p.steps[11]) = {b}
        /\ p.steps[13].op = "after" /\ Touched(p.steps[13]) = {b}
        /\ p.steps[15].op = "put" /\ Touched(p.steps[15]) = {b}
    <2>1. /\ p.steps[1] = Preflight /\ p.steps[2] = Preflight /\ p.steps[3] = Clear(a)
      BY DEF LoadSteps
    <2>2. /\ p.steps[1].op = "preflight" /\ Touched(p.steps[1]) = {}
        /\ p.steps[2].op = "preflight" /\ Touched(p.steps[2]) = {}
        /\ p.steps[3].op = "put" /\ Touched(p.steps[3]) = {a}
      BY <2>1, PreflightStep, PutStep, ClearStep, GetStep, FreshStep, BeforeStep, AfterStep,
         AdminStep
    <2>3. /\ p.steps[4] = Clear(b) /\ p.steps[5] = Fresh(b) /\ p.steps[6] = Before(a)
      BY DEF LoadSteps
    <2>4. /\ p.steps[4].op = "put" /\ Touched(p.steps[4]) = {b}
        /\ p.steps[5].op = "fresh" /\ Touched(p.steps[5]) = {b}
        /\ p.steps[6].op = "before" /\ Touched(p.steps[6]) = {a}
      BY <2>3, PreflightStep, PutStep, ClearStep, GetStep, FreshStep, BeforeStep, AfterStep,
         AdminStep
    <2>5. /\ p.steps[8] = After(a) /\ p.steps[10] = Put(b, Rpm(allowed))
        /\ p.steps[11] = Before(b)
      BY DEF LoadSteps
    <2>6. /\ p.steps[8].op = "after" /\ Touched(p.steps[8]) = {a}
        /\ p.steps[10].op = "put" /\ Touched(p.steps[10]) = {b}
        /\ p.steps[11].op = "before" /\ Touched(p.steps[11]) = {b}
      BY <2>5, PreflightStep, PutStep, ClearStep, GetStep, FreshStep, BeforeStep, AfterStep,
         AdminStep
    <2>7. /\ p.steps[13] = After(b) /\ p.steps[15] = Clear(b)
      BY DEF LoadSteps
    <2>8. /\ p.steps[13].op = "after" /\ Touched(p.steps[13]) = {b}
        /\ p.steps[15].op = "put" /\ Touched(p.steps[15]) = {b}
      BY <2>7, PreflightStep, PutStep, ClearStep, GetStep, FreshStep, BeforeStep, AfterStep,
         AdminStep
    <2>9. QED
      BY <2>2, <2>4, <2>6, <2>8
  <1>3. /\ StepFormed(p.steps[7])
        /\ p.steps[7].op = "chats" /\ Touched(p.steps[7]) = {a}
    <2>1. p.steps[7] = Chats(Repeat(a, n), width, "any")
      BY DEF LoadSteps
    <2>2. StepFormed(Chats(Repeat(a, n), width, "any"))
      BY ManyChats, BoundsAssumption
    <2>3. /\ Chats(Repeat(a, n), width, "any").op = "chats"
          /\ Touched(Chats(Repeat(a, n), width, "any")) = {a}
      BY ManyChats, BoundsAssumption
    <2>4. QED
      BY <2>1, <2>2, <2>3
  <1>4. /\ StepFormed(p.steps[12])
        /\ p.steps[12].op = "chats" /\ Touched(p.steps[12]) = {b}
    <2>1. p.steps[12] = Chats(Repeat(b, n), width, "any")
      BY DEF LoadSteps
    <2>2. StepFormed(Chats(Repeat(b, n), width, "any"))
      BY ManyChats, BoundsAssumption
    <2>3. /\ Chats(Repeat(b, n), width, "any").op = "chats"
          /\ Touched(Chats(Repeat(b, n), width, "any")) = {b}
      BY ManyChats, BoundsAssumption
    <2>4. QED
      BY <2>1, <2>2, <2>3
  <1>5. /\ StepFormed(p.steps[9])
        /\ p.steps[9].op = "check" /\ Touched(p.steps[9]) = {}
    <2>1. p.steps[9] = Check(Only(a, n, 0), TRUE, FALSE)
      BY DEF LoadSteps
    <2>2. StepFormed(Check(Only(a, n, 0), TRUE, FALSE))
      BY FormedCheck, CheckStep
    <2>3. /\ Check(Only(a, n, 0), TRUE, FALSE).op = "check"
          /\ Touched(Check(Only(a, n, 0), TRUE, FALSE)) = {}
      BY FormedCheck, CheckStep
    <2>4. QED
      BY <2>1, <2>2, <2>3
  <1>6. /\ StepFormed(p.steps[14])
        /\ p.steps[14].op = "check" /\ Touched(p.steps[14]) = {}
    <2>1. p.steps[14] = Check(Only(b, allowed, n - allowed), TRUE, FALSE)
      BY DEF LoadSteps
    <2>2. StepFormed(Check(Only(b, allowed, n - allowed), TRUE, FALSE))
      BY FormedCheck, CheckStep
    <2>3. /\ Check(Only(b, allowed, n - allowed), TRUE, FALSE).op = "check"
          /\ Touched(Check(Only(b, allowed, n - allowed), TRUE, FALSE)) = {}
      BY FormedCheck, CheckStep
    <2>4. QED
      BY <2>1, <2>2, <2>3
  <1>7. \A k \in 1 .. 15 : StepFormed(p.steps[k])
    BY <1>1, <1>3, <1>4, <1>5, <1>6
  <1>8. /\ Len(p.steps) = 15 /\ DOMAIN p.steps = 1 .. 15 /\ p.finally = 15 /\ p.guard = 10
        /\ p.counts \in BOOLEAN /\ p.retries \in {0, MaxRetries}
    BY DEF LoadSteps
  <1>9. \A k \in 1 .. 15 : PutFormed(p, k)
    <2>1. /\ PutFormed(p, 3) /\ PutFormed(p, 4) /\ PutFormed(p, 10)
        /\ PutFormed(p, 15)
      <3>1. /\ p.steps[3] = Clear(a) /\ p.steps[4] = Clear(b)
        /\ p.steps[10] = Put(b, Rpm(allowed)) /\ p.steps[15] = Clear(b)
        BY DEF LoadSteps
      <3>2. /\ p.steps[3].limits = Unlimited /\ p.steps[4].limits = Unlimited
        /\ p.steps[15].limits = Unlimited /\ p.steps[10].user = b
        BY <3>1, PutStep, ClearStep
      <3>3. QED
        BY <1>8, <3>1, <3>2 DEF PutFormed
    <2>2. \A k \in 1 .. 15 : p.steps[k].op = "put" => k \in {3, 4, 10, 15}
      BY <1>2, <1>3, <1>4, <1>5, <1>6
    <2>3. QED
      BY <2>1, <2>2 DEF PutFormed
  <1>10. Formed(p)
    <2>1. p.steps[1] = Preflight => p.guard > 1
      BY <1>8, <1>2, PreflightStep
    <2>2. QED
      BY <1>7, <1>9, <1>8, <1>2, <2>1, DemoBounds DEF Formed
  <1>11. UsersOf(p) = {a, b}
    BY <1>2, <1>3, <1>4, <1>5, <1>6, <1>8, UsersTouched
  <1>12. QED
    BY <1>10, <1>11

LEMMA ReportFormed ==
    ASSUME NEW u \in Users, NEW limits \in LimitSettings, NEW p, ReportSteps(p, u, limits)
    PROVE  Formed(p) /\ UsersOf(p) = {u}
  <1>1. /\ StepFormed(p.steps[1]) /\ StepFormed(p.steps[2])
        /\ StepFormed(p.steps[3]) /\ StepFormed(p.steps[5])
    BY FormedReads, FormedPut, FormedClear, FormedGet, SettingsWritten DEF ReportSteps
  <1>2. /\ p.steps[1].op = "preflight" /\ Touched(p.steps[1]) = {}
        /\ p.steps[2].op = "put" /\ Touched(p.steps[2]) = {u}
        /\ p.steps[3].op = "put" /\ Touched(p.steps[3]) = {u}
        /\ p.steps[5].op = "after" /\ Touched(p.steps[5]) = {u}
    BY PreflightStep, PutStep, ClearStep, GetStep, FreshStep, BeforeStep, AfterStep, AdminStep
       DEF ReportSteps
  <1>3. /\ StepFormed(p.steps[4])
        /\ p.steps[4].op = "chats" /\ Touched(p.steps[4]) = {u}
    <2>1. p.steps[4] = Chats(<<u>>, 1, "ok")
      BY DEF ReportSteps
    <2>2. StepFormed(Chats(<<u>>, 1, "ok"))
      BY OneChat
    <2>3. Chats(<<u>>, 1, "ok").op = "chats" /\ Touched(Chats(<<u>>, 1, "ok")) = {u}
      BY OneChat
    <2>4. QED
      BY <2>1, <2>2, <2>3
  <1>4. \A k \in 1 .. 5 : StepFormed(p.steps[k])
    BY <1>1, <1>3
  <1>5. /\ Len(p.steps) = 5 /\ DOMAIN p.steps = 1 .. 5 /\ p.finally = 6 /\ p.guard = 6
        /\ p.counts \in BOOLEAN /\ p.retries \in {0, MaxRetries}
    BY DEF ReportSteps
  <1>6. \A k \in 1 .. 5 : PutFormed(p, k)
    BY <1>5 DEF PutFormed
  <1>7. Formed(p)
    <2>1. p.steps[1] = Preflight => p.guard > 1
      BY <1>5, <1>2, PreflightStep
    <2>2. QED
      BY <1>4, <1>6, <1>5, <1>2, <2>1, DemoBounds DEF Formed
  <1>8. UsersOf(p) = {u}
    BY <1>2, <1>3, <1>5, UsersTouched
  <1>9. QED
    BY <1>7, <1>8

LEMMA LoadTestFormed ==
    ASSUME NEW u \in Users, NEW limits \in LimitSettings, NEW n \in 1 .. MaxEvents, NEW width,
           NEW p, LoadTestSteps(p, u, limits, n, width)
    PROVE  Formed(p) /\ UsersOf(p) = {u}
  <1>1. /\ StepFormed(p.steps[1]) /\ StepFormed(p.steps[2])
        /\ StepFormed(p.steps[4])
    BY FormedReads, FormedPut, FormedClear, FormedGet, SettingsWritten DEF LoadTestSteps
  <1>2. /\ p.steps[1].op = "put" /\ Touched(p.steps[1]) = {u}
        /\ p.steps[2].op = "before" /\ Touched(p.steps[2]) = {u}
        /\ p.steps[4].op = "after" /\ Touched(p.steps[4]) = {u}
    BY PreflightStep, PutStep, ClearStep, GetStep, FreshStep, BeforeStep, AfterStep, AdminStep
       DEF LoadTestSteps
  <1>3. /\ StepFormed(p.steps[3])
        /\ p.steps[3].op = "chats" /\ Touched(p.steps[3]) = {u}
    <2>1. p.steps[3] = Chats(Repeat(u, n), width, "any")
      BY DEF LoadTestSteps
    <2>2. StepFormed(Chats(Repeat(u, n), width, "any"))
      BY ManyChats, BoundsAssumption
    <2>3. /\ Chats(Repeat(u, n), width, "any").op = "chats"
          /\ Touched(Chats(Repeat(u, n), width, "any")) = {u}
      BY ManyChats, BoundsAssumption
    <2>4. QED
      BY <2>1, <2>2, <2>3
  <1>4. \A k \in 1 .. 4 : StepFormed(p.steps[k])
    BY <1>1, <1>3
  <1>5. /\ Len(p.steps) = 4 /\ DOMAIN p.steps = 1 .. 4 /\ p.finally = 5 /\ p.guard = 5
        /\ p.counts \in BOOLEAN /\ p.retries \in {0, MaxRetries}
    BY DEF LoadTestSteps
  <1>6. \A k \in 1 .. 4 : PutFormed(p, k)
    BY <1>5 DEF PutFormed
  <1>7. Formed(p)
    <2>1. p.steps[1] = Preflight => p.guard > 1
      BY <1>5, <1>2, PreflightStep
    <2>2. QED
      BY <1>4, <1>6, <1>5, <1>2, <2>1, DemoBounds DEF Formed
  <1>8. UsersOf(p) = {u}
    BY <1>2, <1>3, <1>5, UsersTouched
  <1>9. QED
    BY <1>7, <1>8

\* Every program that can run.
LEMMA ScriptsFormed ==
    ASSUME NEW p, IsScript(p)
    PROVE  Formed(p)
  <1>1. CASE \E u \in Users : p \in {StandardDemo(u), LimitsDemo(u)}
    <2>1. PICK u \in Users : p \in {StandardDemo(u), LimitsDemo(u)}
      BY <1>1
    <2>2. CASE p = StandardDemo(u)
      <3>1. StandardSteps(p, u)
        BY <2>2, StandardProgram
      <3>2. QED
        BY <3>1, StandardFormed
    <2>3. CASE p = LimitsDemo(u)
      <3>1. LimitsSteps(p, u)
        BY <2>3, LimitsProgram
      <3>2. QED
        BY <3>1, LimitsFormed
    <2>4. QED
      BY <2>1, <2>2, <2>3
  <1>2. CASE \E a, b \in Users : p = UsageDemo(a, b)
    <2>1. PICK a \in Users, b \in Users : p = UsageDemo(a, b)
      BY <1>2
    <2>2. UsageSteps(p, a, b)
      BY <2>1, UsageProgram
    <2>3. QED
      BY <2>2, UsageFormed
  <1>3. CASE \E a, b \in Users : \E n \in 1 .. MaxEvents : p = ConcurrencyDemo(a, b, n)
    <2>1. PICK a \in Users, b \in Users, n \in 1 .. MaxEvents : p = ConcurrencyDemo(a, b, n)
      BY <1>3
    <2>2. ConcurrencySteps(p, a, b, n)
      BY <2>1, ConcurrencyProgram
    <2>3. QED
      BY <2>2, ConcurrencyFormed
  <1>4. CASE \E a, b \in Users : \E n, width \in 1 .. MaxEvents : \E allowed \in 0 .. n - 1 :
                 Rpm(allowed) \in LimitSettings /\ p = LoadDemo(a, b, n, allowed, width)
    <2>1. PICK a \in Users, b \in Users, n \in 1 .. MaxEvents, width \in 1 .. MaxEvents :
              \E allowed \in 0 .. n - 1 :
                 Rpm(allowed) \in LimitSettings /\ p = LoadDemo(a, b, n, allowed, width)
      BY <1>4
    <2>2. PICK allowed \in 0 .. n - 1 :
                 Rpm(allowed) \in LimitSettings /\ p = LoadDemo(a, b, n, allowed, width)
      BY <2>1
    <2>3. LoadSteps(p, a, b, n, allowed, width)
      BY <2>2, LoadProgram
    <2>4. QED
      BY <2>2, <2>3, LoadFormed
  <1>5. CASE \E u \in Users, limits \in LimitSettings : p = ReportDemo(u, limits)
    <2>1. PICK u \in Users, limits \in LimitSettings : p = ReportDemo(u, limits)
      BY <1>5
    <2>2. ReportSteps(p, u, limits)
      BY <2>1, ReportProgram
    <2>3. QED
      BY <2>2, ReportFormed
  <1>6. CASE \E u \in Users, limits \in LimitSettings : \E n, width \in 1 .. MaxEvents :
                 p = LoadTest(u, limits, n, width)
    <2>1. PICK u \in Users, limits \in LimitSettings, n \in 1 .. MaxEvents, width \in 1 .. MaxEvents :
                 p = LoadTest(u, limits, n, width)
      BY <1>6
    <2>2. LoadTestSteps(p, u, limits, n, width)
      BY <2>1, LoadTestProgram
    <2>3. QED
      BY <2>2, LoadTestFormed
  <1>7. QED
    BY <1>1, <1>2, <1>3, <1>4, <1>5, <1>6 DEF IsScript

NewCalls(st) ==
    [k \in DOMAIN st.users |-> [user |-> st.users[k], at |-> "sent", row |-> 0, tries |-> 0]]

CallsAt(p, pc, calls) ==
    IF pc <= Len(p.steps) /\ p.steps[pc].op = "chats" THEN NewCalls(p.steps[pc]) ELSE calls

LEMMA NewCallsType ==
    ASSUME NEW st, st.users \in Seq(Users)
    PROVE  NewCalls(st) \in Seq(Call)
  <1>1. \A k \in DOMAIN st.users :
            [user |-> st.users[k], at |-> "sent", row |-> 0, tries |-> 0] \in Call
    BY DemoBounds, BoundsAssumption DEF Call
  <1>2. DOMAIN st.users = 1 .. Len(st.users) /\ Len(st.users) \in Nat
    OBVIOUS
  <1>3. QED
    BY <1>1, <1>2 DEF NewCalls

LEMMA GotoFields ==
    ASSUME NEW s \in Scripts, script[s] \in ScriptState, Formed(program[s]),
           NEW pc \in 1 .. Len(program[s].steps) + 1
    PROVE  /\ Goto(s, pc) \in ScriptState
           /\ Goto(s, pc).pc = pc /\ Goto(s, pc).put = "none"
           /\ Goto(s, pc).calls = CallsAt(program[s], pc, script[s].calls)
           /\ Goto(s, pc).failed = script[s].failed
           /\ Goto(s, pc).before = script[s].before
           /\ Goto(s, pc).after = script[s].after
           /\ Goto(s, pc).start = script[s].start
           /\ Goto(s, pc).fresh = script[s].fresh
           /\ Goto(s, pc).blame = script[s].blame
  <1> DEFINE calls == CallsAt(program[s], pc, script[s].calls)
  <1>1. Goto(s, pc) = [script[s] EXCEPT !.pc = pc, !.put = "none", !.calls = calls]
    BY DEF Goto, CallsAt, NewCalls, ScriptState
  <1>2. calls \in Seq(Call)
    <2>1. CASE pc <= Len(program[s].steps) /\ program[s].steps[pc].op = "chats"
      <3>1. StepFormed(program[s].steps[pc])
        BY <2>1 DEF Formed
      <3>2. program[s].steps[pc].users \in Seq(Users)
        BY <2>1, <3>1 DEF StepFormed
      <3>3. QED
        BY <2>1, <3>2, NewCallsType DEF CallsAt
    <2>2. CASE ~(pc <= Len(program[s].steps) /\ program[s].steps[pc].op = "chats")
      BY <2>2 DEF CallsAt, ScriptState
    <2>3. QED
      BY <2>1, <2>2
  <1>3. pc \in Nat
    BY DEF Formed
  <1> HIDE DEF calls
  <1>4. QED
    BY <1>1, <1>2, <1>3 DEF ScriptState, calls

\* Scripts that are where they can be.
ScriptsOK ==
    /\ script \in [Scripts -> ScriptState]
    /\ \A s \in Scripts : /\ Formed(program[s])
                          /\ script[s].pc \in 1 .. Len(program[s].steps) + 1

Others(s) == \A t \in Scripts \ {s} : script'[t] = script[t]

\* Script s is now at pc, with the calls of that step.
Goes(s, pc) ==
    /\ script' \in [Scripts -> ScriptState]
    /\ script'[s].pc = pc /\ script'[s].put = "none"
    /\ script'[s].calls = CallsAt(program[s], pc, script[s].calls)
    /\ script'[s].start = script[s].start
    /\ Others(s) /\ UNCHANGED world

Target(p, pc) ==
    IF p.guard <= pc /\ pc < p.finally THEN p.finally ELSE Len(p.steps) + 1

\* It raised.
Raises(s, why) ==
    LET p == program[s]
        pc == script[s].pc
    IN  /\ Goes(s, Target(p, pc))
        /\ script'[s].failed = (script[s].failed \/ pc < p.finally \/ p.counts)
        /\ script'[s].blame = script[s].blame \cup why
        /\ script'[s].before = script[s].before /\ script'[s].after = script[s].after
        /\ script'[s].fresh = script[s].fresh

\* It went on, and measured nothing.
GoesOn(s) ==
    /\ Goes(s, script[s].pc + 1)
    /\ script'[s].failed = script[s].failed
    /\ script'[s].blame = script[s].blame
    /\ script'[s].before = script[s].before /\ script'[s].after = script[s].after
    /\ script'[s].fresh = script[s].fresh

LEMMA BecomesFields ==
    ASSUME ScriptsOK, NEW s \in Scripts, NEW st \in ScriptState, Becomes(s, st)
    PROVE  /\ script' \in [Scripts -> ScriptState]
           /\ script'[s] = st /\ Others(s) /\ UNCHANGED world
  BY DEF Becomes, ScriptsOK, Others

LEMMA WhereItIs ==
    ASSUME ScriptsOK, NEW s \in Scripts, Running(s)
    PROVE  /\ script[s] \in ScriptState /\ Formed(program[s])
           /\ script[s].pc \in 1 .. Len(program[s].steps)
           /\ script[s].pc + 1 \in 1 .. Len(program[s].steps) + 1
           /\ Target(program[s], script[s].pc) \in 1 .. Len(program[s].steps) + 1
           /\ Step(s) = program[s].steps[script[s].pc] /\ StepFormed(Step(s))
  <1>1. /\ script[s] \in ScriptState /\ Formed(program[s])
        /\ script[s].pc \in 1 .. Len(program[s].steps) + 1
    BY DEF ScriptsOK
  <1>2. Len(program[s].steps) \in Nat
    BY <1>1 DEF Formed
  <1>3. script[s].pc \in 1 .. Len(program[s].steps)
    BY <1>1, <1>2 DEF Running
  <1>4. QED
    BY <1>1, <1>2, <1>3 DEF Formed, Target, Step

LEMMA ProceedFields ==
    ASSUME ScriptsOK, NEW s \in Scripts, Running(s)
    PROVE  /\ Proceed(s) \in ScriptState
           /\ Proceed(s).pc = script[s].pc + 1 /\ Proceed(s).put = "none"
           /\ Proceed(s).calls = CallsAt(program[s], script[s].pc + 1, script[s].calls)
           /\ Proceed(s).failed = script[s].failed
           /\ Proceed(s).before = script[s].before
           /\ Proceed(s).after = script[s].after
           /\ Proceed(s).start = script[s].start
           /\ Proceed(s).fresh = script[s].fresh
           /\ Proceed(s).blame = script[s].blame
  BY WhereItIs, GotoFields DEF Proceed

LEMMA ProceedsOn ==
    ASSUME ScriptsOK, NEW s \in Scripts, Running(s), Becomes(s, Proceed(s))
    PROVE  GoesOn(s)
  <1>1. script' \in [Scripts -> ScriptState] /\ script'[s] = Proceed(s) /\ Others(s) /\ UNCHANGED world
    BY ProceedFields, BecomesFields
  <1>2. QED
    BY <1>1, ProceedFields DEF GoesOn, Goes

LEMMA RaisesOut ==
    ASSUME ScriptsOK, NEW s \in Scripts, Running(s), NEW why \in SUBSET Causes,
           Becomes(s, Raise(s, why))
    PROVE  Raises(s, why)
  <1> DEFINE p == program[s]
             pc == script[s].pc
             st == Goto(s, Target(p, pc))
  <1>1. Target(p, pc) \in 1 .. Len(p.steps) + 1 /\ Formed(p) /\ script[s] \in ScriptState
    BY WhereItIs
  <1>2. Raise(s, why) = [st EXCEPT !.failed = @ \/ pc < p.finally \/ p.counts,
                                   !.blame = @ \cup why]
    BY DEF Raise, Target
  <1>3. /\ st \in ScriptState
        /\ st.pc = Target(p, pc) /\ st.put = "none"
        /\ st.calls = CallsAt(p, Target(p, pc), script[s].calls)
        /\ st.failed = script[s].failed
        /\ st.before = script[s].before
        /\ st.after = script[s].after
        /\ st.start = script[s].start
        /\ st.fresh = script[s].fresh
        /\ st.blame = script[s].blame
    BY <1>1, GotoFields
  <1>4. (st.failed \/ pc < p.finally \/ p.counts) \in BOOLEAN
    OBVIOUS
  <1> DEFINE f == st.failed \/ pc < p.finally \/ p.counts
  <1>5. PICK r : r = Raise(s, why)
    OBVIOUS
  <1>6. /\ r \in ScriptState
        /\ r.pc = st.pc /\ r.put = st.put /\ r.calls = st.calls /\ r.before = st.before
        /\ r.after = st.after /\ r.start = st.start /\ r.fresh = st.fresh
        /\ r.blame = st.blame \cup why
        /\ r.failed = f
    <2> HIDE DEF st, f
    <2>1. r = [st EXCEPT !.failed = f, !.blame = @ \cup why]
      BY <1>2, <1>5 DEF f
    <2>2. f \in BOOLEAN
      BY <1>4 DEF f
    <2>3. QED
      BY <2>1, <2>2, <1>3 DEF ScriptState
  <1>7. script' \in [Scripts -> ScriptState] /\ script'[s] = r /\ Others(s) /\ UNCHANGED world
    BY <1>5, <1>6, BecomesFields
  <1> HIDE DEF st
  <1>8. QED
    BY <1>3, <1>6, <1>7 DEF Raises, Goes

LEMMA RequestCountType ==
    ASSUME TypeOK, NEW u \in Users
    PROVE  RequestCount(u) \in Nat
  <1> DEFINE w == [m \in Models |-> usage_totals[u][m].request_count]
  <1>1. w \in [Models -> Nat]
    BY DEF TypeOK, Total
  <1>2. SumFunction(w) \in Nat
    <2> HIDE DEF w
    <2>1. QED
      BY <1>1, FiniteAssumption, TermsType
  <1>3. QED
    BY <1>2 DEF RequestCount

Found == {Bare(TextModel), Tagged(TextModel)} \cap Listed # {}

LEMMA ListModelsDoes ==
    ASSUME ScriptsOK, NEW s \in Scripts, ListModels(s)
    PROVE  /\ At(s, "preflight") /\ Quiet
           /\ (Found /\ GoesOn(s)) \/ Raises(s, {"missing"})
  <1>1. Running(s) /\ {"missing"} \in SUBSET Causes
    BY DEF ListModels, At, Causes
  <1>2. CASE Found
    BY <1>1, <1>2, ProceedsOn DEF ListModels, Found
  <1>3. CASE ~Found
    <2>1. Becomes(s, Raise(s, {"missing"}))
      BY <1>3 DEF ListModels, Found
    <2>2. QED
      BY <1>1, <2>1, RaisesOut DEF ListModels
  <1>4. QED
    BY <1>2, <1>3

SameLimit(s) ==
    user_limits[Step(s).user].requests_per_minute = Step(s).limits.requests_per_minute

LEMMA GetLimitsDoes ==
    ASSUME ScriptsOK, NEW s \in Scripts, GetLimits(s)
    PROVE  /\ At(s, "get") /\ Quiet
           /\ \/ SameLimit(s) /\ GoesOn(s)
              \/ ~SameLimit(s) /\ Raises(s, {})
  <1>1. Running(s) /\ {} \in SUBSET Causes
    BY DEF GetLimits, At
  <1>2. CASE SameLimit(s)
    BY <1>1, <1>2, ProceedsOn DEF GetLimits, SameLimit
  <1>3. CASE ~SameLimit(s)
    <2>1. Becomes(s, Raise(s, {}))
      BY <1>3 DEF GetLimits, SameLimit
    <2>2. QED
      BY <1>1, <1>3, <2>1, RaisesOut DEF GetLimits
  <1>4. QED
    BY <1>2, <1>3

Recent(u) == RowsSince(u, now - Window, Len(usage_events))
Edge(u) == {i \in Recent(u) : usage_events[i].timestamp = now - Window}

\* The window was found fresh.
FindsFresh(s) ==
    LET u == Step(s).user IN
    /\ Recent(u) \ Edge(u) = {}
    /\ Goes(s, script[s].pc + 1)
    /\ script'[s].fresh = now
    /\ script'[s].blame = IF Edge(u) = {} THEN script[s].blame ELSE script[s].blame \cup {"edge"}
    /\ script'[s].failed = script[s].failed
    /\ script'[s].before = script[s].before /\ script'[s].after = script[s].after

LEMMA EnsureFreshDoes ==
    ASSUME TypeOK, ScriptsOK, NEW s \in Scripts, EnsureFresh(s)
    PROVE  /\ At(s, "fresh") /\ Quiet
           /\ FindsFresh(s) \/ Raises(s, {"stale"})
  <1> DEFINE u == Step(s).user
             b == IF Edge(u) = {} THEN script[s].blame ELSE script[s].blame \cup {"edge"}
  <1>1. Running(s) /\ {"stale"} \in SUBSET Causes /\ "edge" \in Causes
    BY DEF EnsureFresh, At, Causes
  <1>2. CASE Becomes(s, Raise(s, {"stale"}))
    BY <1>1, <1>2, RaisesOut DEF EnsureFresh
  <1>3. CASE /\ Recent(u) \ Edge(u) = {}
             /\ Becomes(s, [Proceed(s) EXCEPT !.fresh = now,
                       !.blame = IF Edge(u) = {} THEN @ ELSE @ \cup {"edge"}])
    <2> DEFINE st == Proceed(s)
    <2>1. PICK r : r = [st EXCEPT !.fresh = now, !.blame = b]
      OBVIOUS
    <2>2. st.blame = script[s].blame
      BY <1>1, ProceedFields
    <2>3. Becomes(s, r)
      BY <1>3, <2>1, <2>2
    <2>4. b \in SUBSET Causes
      BY <1>1, WhereItIs DEF ScriptState
    <2>5. now \in Times \cup {-1}
      BY DEF TypeOK
    <2>6. st \in ScriptState
      BY <1>1, ProceedFields
    <2>7. /\ r \in ScriptState /\ r.pc = st.pc /\ r.put = st.put /\ r.calls = st.calls
          /\ r.before = st.before /\ r.after = st.after /\ r.start = st.start
          /\ r.failed = st.failed /\ r.fresh = now /\ r.blame = b
      <3> HIDE DEF st, b
      <3>1. QED
        BY <2>1, <2>4, <2>5, <2>6 DEF ScriptState
    <2>8. script' \in [Scripts -> ScriptState] /\ script'[s] = r /\ Others(s) /\ UNCHANGED world
      BY <2>3, <2>7, BecomesFields
    <2>9. FindsFresh(s)
      <3>1. /\ st.pc = script[s].pc + 1 /\ st.put = "none"
           /\ st.calls = CallsAt(program[s], script[s].pc + 1, script[s].calls)
           /\ st.failed = script[s].failed
           /\ st.before = script[s].before
           /\ st.after = script[s].after
           /\ st.start = script[s].start
        BY <1>1, ProceedFields
      <3> HIDE DEF st
      <3>2. Goes(s, script[s].pc + 1)
        BY <2>7, <2>8, <3>1 DEF Goes
      <3>3. QED
        BY <1>3, <2>7, <2>8, <3>1, <3>2 DEF FindsFresh
    <2>10. QED
      BY <2>9 DEF EnsureFresh
  <1>4. QED
    BY <1>2, <1>3 DEF EnsureFresh, Recent, Edge

\* A measurement of the user's requests.
Measures(s) ==
    LET u == Step(s).user IN
    /\ Goes(s, script[s].pc + 1)
    /\ script'[s].failed = script[s].failed /\ script'[s].blame = script[s].blame
    /\ script'[s].fresh = script[s].fresh
    /\ script'[s].before = IF At(s, "before") THEN [script[s].before EXCEPT ![u] = RequestCount(u)]
                           ELSE script[s].before
    /\ script'[s].after = IF At(s, "after") THEN [script[s].after EXCEPT ![u] = RequestCount(u)]
                          ELSE script[s].after

LEMMA GetUsageDoes ==
    ASSUME TypeOK, ScriptsOK, NEW s \in Scripts, GetUsage(s)
    PROVE  /\ Quiet
           /\ \/ (At(s, "before") \/ At(s, "after")) /\ Measures(s)
              \/ /\ At(s, "admin")
                 /\ \/ RequestCount(Step(s).user) = script[s].after[Step(s).user] /\ GoesOn(s)
                    \/ RequestCount(Step(s).user) # script[s].after[Step(s).user] /\ Raises(s, {})
  <1> DEFINE u == Step(s).user
             st == Proceed(s)
  <1>1. Running(s) /\ {} \in SUBSET Causes
    BY DEF GetUsage, At
  <1>2. /\ st \in ScriptState
        /\ st.pc = script[s].pc + 1 /\ st.put = "none"
        /\ st.calls = CallsAt(program[s], script[s].pc + 1, script[s].calls)
        /\ st.failed = script[s].failed
        /\ st.before = script[s].before
        /\ st.after = script[s].after
        /\ st.start = script[s].start
        /\ st.fresh = script[s].fresh
        /\ st.blame = script[s].blame
    BY <1>1, ProceedFields
  <1>3. ASSUME At(s, "before") \/ At(s, "after") \/ At(s, "admin")
        PROVE  u \in Users /\ RequestCount(u) \in Nat
    BY <1>1, <1>3, WhereItIs, RequestCountType DEF At, StepFormed
  <1>4. CASE At(s, "before") /\ Becomes(s, [st EXCEPT !.before[u] = RequestCount(u)])
    <2>1. PICK r : r = [st EXCEPT !.before[u] = RequestCount(u)]
      OBVIOUS
    <2>2. /\ r \in ScriptState /\ r.pc = st.pc /\ r.put = st.put /\ r.calls = st.calls
          /\ r.after = st.after /\ r.start = st.start
          /\ r.failed = st.failed /\ r.fresh = st.fresh /\ r.blame = st.blame
          /\ r.before = [st.before EXCEPT ![u] = RequestCount(u)]
      <3>1. PICK n \in Nat : n = RequestCount(u)
        BY <1>3, <1>4
      <3>2. u \in Users /\ st \in ScriptState
        BY <1>2, <1>3, <1>4
      <3> HIDE DEF st, u
      <3>3. QED
        BY <2>1, <3>1, <3>2 DEF ScriptState
    <2>3. script' \in [Scripts -> ScriptState] /\ script'[s] = r /\ Others(s) /\ UNCHANGED world
      BY <1>4, <2>1, <2>2, BecomesFields
    <2>4. ~At(s, "after")
      BY <1>4 DEF At
    <2> HIDE DEF st
    <2>5. Measures(s)
      BY <1>2, <1>4, <2>2, <2>3, <2>4 DEF Measures, Goes
    <2>6. QED
      BY <1>4, <2>5 DEF GetUsage
  <1>5. CASE At(s, "after") /\ Becomes(s, [st EXCEPT !.after[u] = RequestCount(u)])
    <2>1. PICK r : r = [st EXCEPT !.after[u] = RequestCount(u)]
      OBVIOUS
    <2>2. /\ r \in ScriptState /\ r.pc = st.pc /\ r.put = st.put /\ r.calls = st.calls
          /\ r.before = st.before /\ r.start = st.start
          /\ r.failed = st.failed /\ r.fresh = st.fresh /\ r.blame = st.blame
          /\ r.after = [st.after EXCEPT ![u] = RequestCount(u)]
      <3>1. PICK n \in Nat : n = RequestCount(u)
        BY <1>3, <1>5
      <3>2. u \in Users /\ st \in ScriptState
        BY <1>2, <1>3, <1>5
      <3> HIDE DEF st, u
      <3>3. QED
        BY <2>1, <3>1, <3>2 DEF ScriptState
    <2>3. script' \in [Scripts -> ScriptState] /\ script'[s] = r /\ Others(s) /\ UNCHANGED world
      BY <1>5, <2>1, <2>2, BecomesFields
    <2>4. ~At(s, "before")
      BY <1>5 DEF At
    <2> HIDE DEF st
    <2>5. Measures(s)
      BY <1>2, <1>5, <2>2, <2>3, <2>4 DEF Measures, Goes
    <2>6. QED
      BY <1>5, <2>5 DEF GetUsage
  <1>6. CASE /\ At(s, "admin")
             /\ Becomes(s, IF RequestCount(u) = script[s].after[u] THEN st ELSE Raise(s, {}))
    <2>1. CASE RequestCount(u) = script[s].after[u]
      BY <1>1, <1>6, <2>1, ProceedsOn DEF GetUsage
    <2>2. CASE RequestCount(u) # script[s].after[u]
      BY <1>1, <1>6, <2>2, RaisesOut DEF GetUsage
    <2>3. QED
      BY <2>1, <2>2
  <1>7. QED
    BY <1>4, <1>5, <1>6 DEF GetUsage

LEMMA ReadFailsDoes ==
    ASSUME ScriptsOK, NEW s \in Scripts, ReadFails(s)
    PROVE  /\ Running(s) /\ Step(s).op \notin {"chats", "check", "put"}
           /\ Raises(s, {"timeout"})
           /\ faults' = faults + 1 /\ faults < MaxFaults
           /\ UNCHANGED <<quotaVars, ghosts>>
  <1>1. Running(s) /\ {"timeout"} \in SUBSET Causes /\ Becomes(s, Raise(s, {"timeout"}))
    BY DEF ReadFails, Causes
  <1>2. Raises(s, {"timeout"})
    BY <1>1, RaisesOut
  <1>3. QED
    BY <1>2 DEF ReadFails

\* The figures are those the script wants.
Right(s) ==
    \A u \in DOMAIN Step(s).wants :
        /\ script[s].after[u] - script[s].before[u] = Step(s).wants[u].ok
        /\ Step(s).results =>
              /\ Cardinality(Results(s, u, "ok")) = Step(s).wants[u].ok
              /\ Cardinality(Results(s, u, "limited")) = Step(s).wants[u].limited
              /\ Results(s, u, "failed") = {}

\* A check that failed is remembered.
FailsOn(s) ==
    /\ Goes(s, script[s].pc + 1)
    /\ script'[s].failed = TRUE
    /\ script'[s].blame = script[s].blame
    /\ script'[s].before = script[s].before /\ script'[s].after = script[s].after
    /\ script'[s].fresh = script[s].fresh

LEMMA CompareDoes ==
    ASSUME ScriptsOK, NEW s \in Scripts, Compare(s)
    PROVE  /\ At(s, "check") /\ Quiet
           /\ \/ Right(s) /\ GoesOn(s)
              \/ ~Right(s) /\ (Raises(s, {}) \/ FailsOn(s))
  <1>1. Running(s) /\ {} \in SUBSET Causes /\ At(s, "check") /\ Quiet
    BY DEF Compare, At
  <1>2. CASE Right(s)
    BY <1>1, <1>2, ProceedsOn DEF Compare, Right
  <1>3. CASE ~Right(s) /\ Step(s).fatal
    <2>1. Becomes(s, Raise(s, {}))
      BY <1>3 DEF Compare, Right
    <2>2. QED
      BY <1>1, <1>3, <2>1, RaisesOut
  <1>4. CASE ~Right(s) /\ ~Step(s).fatal
    <2> DEFINE st == Proceed(s)
    <2>1. Becomes(s, [st EXCEPT !.failed = TRUE])
      BY <1>4 DEF Compare, Right
    <2>2. /\ st \in ScriptState
          /\ st.pc = script[s].pc + 1 /\ st.put = "none"
          /\ st.calls = CallsAt(program[s], script[s].pc + 1, script[s].calls)
          /\ st.before = script[s].before
          /\ st.after = script[s].after
          /\ st.start = script[s].start
          /\ st.fresh = script[s].fresh
          /\ st.blame = script[s].blame
      BY <1>1, ProceedFields
    <2> HIDE DEF st
    <2>3. PICK r : r = [st EXCEPT !.failed = TRUE]
      OBVIOUS
    <2>4. /\ r \in ScriptState /\ r.pc = st.pc /\ r.put = st.put /\ r.calls = st.calls
          /\ r.before = st.before /\ r.after = st.after /\ r.start = st.start
          /\ r.failed = TRUE /\ r.fresh = st.fresh /\ r.blame = st.blame
      BY <2>2, <2>3 DEF ScriptState
    <2>5. script' \in [Scripts -> ScriptState] /\ script'[s] = r /\ Others(s) /\ UNCHANGED world
      BY <2>1, <2>3, <2>4, BecomesFields
    <2>6. FailsOn(s)
      BY <2>2, <2>4, <2>5 DEF FailsOn, Goes
    <2>7. QED
      BY <1>1, <1>4, <2>6
  <1>5. QED
    BY <1>2, <1>3, <1>4

\* The upsert of a PUT is done.
Writes(s) ==
    /\ script' \in [Scripts -> ScriptState]
    /\ script'[s].put = "written"
    /\ script'[s].pc = script[s].pc /\ script'[s].calls = script[s].calls
    /\ script'[s].start = script[s].start
    /\ script'[s].failed = script[s].failed
    /\ script'[s].blame = script[s].blame
    /\ script'[s].before = script[s].before /\ script'[s].after = script[s].after
    /\ script'[s].fresh = script[s].fresh
    /\ Others(s) /\ UNCHANGED world

LEMMA PutUpsertsDoes ==
    ASSUME ScriptsOK, NEW s \in Scripts, PutUpserts(s)
    PROVE  /\ At(s, "put") /\ script[s].put = "none"
           /\ UpdateLimits(Step(s).user, Step(s).limits)
           /\ Writes(s) /\ UNCHANGED <<ghosts, faults>>
  <1>1. script[s] \in ScriptState
    BY DEF ScriptsOK
  <1>2. PICK r : r = [script[s] EXCEPT !.put = "written"]
    OBVIOUS
  <1>3. /\ r \in ScriptState /\ r.put = "written" /\ r.pc = script[s].pc
        /\ r.calls = script[s].calls
        /\ r.before = script[s].before /\ r.after = script[s].after
        /\ r.start = script[s].start
        /\ r.failed = script[s].failed /\ r.fresh = script[s].fresh
        /\ r.blame = script[s].blame
    BY <1>1, <1>2 DEF ScriptState
  <1>4. script' \in [Scripts -> ScriptState] /\ script'[s] = r /\ Others(s) /\ UNCHANGED world
    BY <1>2, <1>3, BecomesFields DEF PutUpserts
  <1>5. QED
    BY <1>3, <1>4 DEF Writes, PutUpserts

LEMMA PutAnswersDoes ==
    ASSUME ScriptsOK, NEW s \in Scripts, PutAnswers(s)
    PROVE  /\ At(s, "put") /\ script[s].put = "written" /\ Quiet /\ GoesOn(s)
  <1>1. Running(s)
    BY DEF PutAnswers, At
  <1>2. QED
    BY <1>1, ProceedsOn DEF PutAnswers

LEMMA PutTimesOutDoes ==
    ASSUME ScriptsOK, NEW s \in Scripts, PutTimesOut(s)
    PROVE  /\ At(s, "put") /\ Raises(s, {"timeout", "late"})
           /\ faults' = faults + 1 /\ faults < MaxFaults
           /\ \/ ghosts' = ghosts
              \/ ghosts' = ghosts \cup {[op |-> "put", user |-> Step(s).user,
                                         limits |-> Step(s).limits, id |-> faults]}
           /\ UNCHANGED quotaVars
  <1>1. /\ Running(s) /\ {"timeout", "late"} \in SUBSET Causes
        /\ Becomes(s, Raise(s, {"timeout", "late"}))
    BY DEF PutTimesOut, Causes, At
  <1>2. Raises(s, {"timeout", "late"})
    BY <1>1, RaisesOut
  <1>3. QED
    BY <1>2 DEF PutTimesOut

AllEnded(s) == \A k \in DOMAIN script[s].calls : script[s].calls[k].at \in Final
AllWanted(s) ==
    \A k \in DOMAIN script[s].calls : Step(s).want \in {"any", script[s].calls[k].at}

LEMMA GatherDoes ==
    ASSUME ScriptsOK, NEW s \in Scripts, Gather(s)
    PROVE  /\ At(s, "chats") /\ Quiet /\ AllEnded(s)
           /\ \/ AllWanted(s) /\ GoesOn(s)
              \/ ~AllWanted(s) /\ Raises(s, {})
  <1>1. Running(s) /\ {} \in SUBSET Causes /\ At(s, "chats") /\ Quiet /\ AllEnded(s)
    BY DEF Gather, At, AllEnded
  <1>2. CASE AllWanted(s)
    BY <1>1, <1>2, ProceedsOn DEF Gather, AllWanted
  <1>3. CASE ~AllWanted(s)
    <2>1. Becomes(s, Raise(s, {}))
      BY <1>3 DEF Gather, AllWanted
    <2>2. QED
      BY <1>1, <1>3, <2>1, RaisesOut
  <1>4. QED
    BY <1>1, <1>2, <1>3

\* Call k of s has come to a new place.
CallGoes(s, k, at, row, why) ==
    /\ script' \in [Scripts -> ScriptState]
    /\ script'[s].pc = script[s].pc /\ script'[s].put = script[s].put
    /\ script'[s].start = script[s].start
    /\ script'[s].failed = script[s].failed
    /\ script'[s].before = script[s].before /\ script'[s].after = script[s].after
    /\ script'[s].fresh = script[s].fresh
    /\ script'[s].blame = script[s].blame \cup why
    /\ DOMAIN script'[s].calls = DOMAIN script[s].calls
    /\ \A j \in DOMAIN script[s].calls \ {k} : script'[s].calls[j] = script[s].calls[j]
    /\ script'[s].calls[k].user = script[s].calls[k].user
    /\ script'[s].calls[k].at = at /\ script'[s].calls[k].row = row
    /\ Others(s) /\ UNCHANGED world

Places == {"sent", "upstream", "ok", "limited", "failed"}

LEMMA CallChanges ==
    ASSUME ScriptsOK, NEW s \in Scripts, NEW k \in DOMAIN script[s].calls,
           NEW c \in Call, c.user = script[s].calls[k].user, NEW why \in SUBSET Causes,
           NEW st, st = [script[s] EXCEPT !.calls = [@ EXCEPT ![k] = c], !.blame = @ \cup why],
           Becomes(s, st)
    PROVE  CallGoes(s, k, c.at, c.row, why)
  <1> DEFINE old == script[s]
             calls == [old.calls EXCEPT ![k] = c]
  <1>1. old \in ScriptState /\ old.calls \in Seq(Call)
    BY DEF ScriptsOK, ScriptState
  <1>2. DOMAIN old.calls = 1 .. Len(old.calls) /\ Len(old.calls) \in Nat
    BY <1>1
  <1>3. calls \in Seq(Call) /\ DOMAIN calls = DOMAIN old.calls /\ calls[k] = c
        /\ \A j \in DOMAIN old.calls \ {k} : calls[j] = old.calls[j]
    <2>1. PICK q : q = old.calls
      OBVIOUS
    <2>2. q \in [1 .. Len(q) -> Call] /\ Len(q) \in Nat /\ k \in 1 .. Len(q)
      BY <1>1, <1>2, <2>1
    <2> HIDE DEF old
    <2>3. calls = [q EXCEPT ![k] = c]
      BY <2>1
    <2>4. calls \in [1 .. Len(q) -> Call]
      BY <2>2, <2>3
    <2>5. calls \in Seq(Call)
      <3> HIDE DEF calls
      <3>1. QED
        BY <2>2, <2>4
    <2>6. QED
      BY <2>1, <2>2, <2>3, <2>5
  <1>4. st = [old EXCEPT !.calls = calls, !.blame = @ \cup why]
    BY <1>1 DEF ScriptState
  <1>5. st \in ScriptState /\ st.pc = old.pc /\ st.put = old.put /\ st.calls = calls
        /\ st.before = old.before /\ st.after = old.after /\ st.start = old.start
        /\ st.failed = old.failed /\ st.fresh = old.fresh /\ st.blame = old.blame \cup why
    <2> HIDE DEF calls, old
    <2>1. QED
      BY <1>1, <1>3, <1>4 DEF ScriptState
  <1>6. script' \in [Scripts -> ScriptState] /\ script'[s] = st /\ Others(s) /\ UNCHANGED world
    BY <1>5, BecomesFields
  <1>7. script'[s].calls = calls
    BY <1>5, <1>6
  <1> HIDE DEF calls
  <1>8. QED
    BY <1>3, <1>5, <1>6, <1>7 DEF CallGoes

LEMMA WithGoes ==
    ASSUME ScriptsOK, NEW s \in Scripts, NEW k \in DOMAIN script[s].calls,
           NEW at \in Places, NEW row \in 0 .. MaxEvents, NEW why \in SUBSET Causes,
           Becomes(s, With(s, k, at, row, why))
    PROVE  CallGoes(s, k, at, row, why)
  <1> DEFINE old == script[s]
             c == [old.calls[k] EXCEPT !.at = at, !.row = row]
             st == [old EXCEPT !.calls = [@ EXCEPT ![k] = c], !.blame = @ \cup why]
  <1>1. old \in ScriptState /\ old.calls \in Seq(Call) /\ old.calls[k] \in Call
    BY DEF ScriptsOK, ScriptState
  <1>2. c \in Call /\ c.user = old.calls[k].user /\ c.at = at /\ c.row = row
    BY <1>1 DEF Call, Places
  <1>3. With(s, k, at, row, why) = st
    BY <1>1 DEF With, ScriptState, Call
  <1> HIDE DEF c
  <1>4. Becomes(s, st)
    BY <1>3
  <1>5. PICK x : x = st
    OBVIOUS
  <1>6. CallGoes(s, k, c.at, c.row, why)
    BY <1>2, <1>4, <1>5, CallChanges
  <1>7. QED
    BY <1>2, <1>6

LEMMA AgainGoes ==
    ASSUME ScriptsOK, NEW s \in Scripts, NEW k \in DOMAIN script[s].calls,
           NEW at \in Places, NEW why \in SUBSET Causes,
           Becomes(s, Again(s, k, at, why))
    PROVE  CallGoes(s, k, "sent", 0, why) \/ CallGoes(s, k, at, 0, why)
  <1> DEFINE old == script[s]
             n == old.calls[k].tries + 1
             c == [old.calls[k] EXCEPT !.at = "sent", !.row = 0, !.tries = n]
             st == [old EXCEPT !.calls = [@ EXCEPT ![k] = c], !.blame = @ \cup why]
  <1>1. 0 \in 0 .. MaxEvents /\ "sent" \in Places
    BY BoundsAssumption DEF Places
  <1>2. CASE old.calls[k].tries < program[s].retries
    <2>1. /\ old \in ScriptState /\ old.calls \in Seq(Call) /\ old.calls[k] \in Call
          /\ DOMAIN old.calls = 1 .. Len(old.calls)
      BY DEF ScriptsOK, ScriptState
    <2>2. n \in 0 .. MaxRetries
      BY <1>2, <2>1, DemoBounds DEF Call, ScriptsOK, Formed
    <2>3. c \in Call /\ c.user = old.calls[k].user /\ c.at = "sent" /\ c.row = 0
      <3> HIDE DEF n
      <3>1. QED
        BY <1>1, <2>1, <2>2 DEF Call
    <2>4. Again(s, k, at, why) = st
      BY <1>2, <2>1 DEF Again, With, ScriptState, Call
    <2> HIDE DEF c
    <2>5. Becomes(s, st)
      BY <2>4
    <2>6. PICK x : x = st
      OBVIOUS
    <2>7. CallGoes(s, k, c.at, c.row, why)
      BY <2>3, <2>5, <2>6, CallChanges
    <2>8. QED
      BY <2>3, <2>7
  <1>3. CASE ~(old.calls[k].tries < program[s].retries)
    <2>1. Becomes(s, With(s, k, at, 0, why))
      BY <1>3 DEF Again
    <2>2. QED
      BY <1>1, <2>1, WithGoes
  <1>4. QED
    BY <1>2, <1>3

-----------------------------------------------------------------------------
(***************************************************************************)
(* What the scripts do to the ledger.                                      *)
(***************************************************************************)
\* A reserved row of u, stamped with the clock.
AddsRow(u) ==
    LET n == Len(usage_events) + 1
    IN  /\ Len(usage_events') = n
        /\ \A i \in Ids : usage_events'[i] = usage_events[i]
        /\ usage_events'[n].user_id = u /\ usage_events'[n].model = TextModel
        /\ usage_events'[n].status = "reserved" /\ usage_events'[n].timestamp = now
        /\ UNCHANGED <<user_limits, now>>

\* A reserved row gets its status.
Settles(i, status) ==
    /\ i \in Ids /\ usage_events[i].status = "reserved"
    /\ Len(usage_events') = Len(usage_events)
    /\ \A j \in Ids \ {i} : usage_events'[j] = usage_events[j]
    /\ usage_events'[i].user_id = usage_events[i].user_id
    /\ usage_events'[i].model = usage_events[i].model
    /\ usage_events'[i].timestamp = usage_events[i].timestamp
    /\ usage_events'[i].status = status
    /\ UNCHANGED <<user_limits, now>>

LEMMA ReserveAdds ==
    ASSUME TypeOK, NEW u \in Users, NEW n \in Estimates, Reserve(u, TextModel, n)
    PROVE  /\ AddsRow(u) /\ Admits(u, n)
           /\ Len(usage_events) + 1 \in 0 .. MaxEvents
  <1> DEFINE row == [user_id |-> u, model |-> TextModel, total_tokens |-> NonNegative(n),
                     status |-> "reserved", timestamp |-> now]
  <1>1. /\ usage_events' = Append(usage_events, row) /\ usage_events \in Seq(Event)
        /\ Len(usage_events) < MaxEvents /\ Len(usage_events) \in Nat
        /\ Admits(u, n)
        /\ UNCHANGED <<user_limits, now>>
    BY DEF Reserve, ReserveAt, InsertReserved, Admits, TypeOK
  <1>2. row.user_id = u /\ row.model = TextModel /\ row.status = "reserved"
        /\ row.timestamp = now
    OBVIOUS
  <1> HIDE DEF row
  <1>3. /\ Len(usage_events') = Len(usage_events) + 1
        /\ \A i \in Ids : usage_events'[i] = usage_events[i]
        /\ usage_events'[Len(usage_events) + 1] = row
    BY <1>1 DEF Ids
  <1>4. AddsRow(u)
    BY <1>1, <1>2, <1>3 DEF AddsRow
  <1>5. Len(usage_events) + 1 \in 0 .. MaxEvents
    BY <1>1, BoundsAssumption
  <1>6. QED
    BY <1>1, <1>4, <1>5

LEMMA SettlingOf ==
    ASSUME TypeOK, HeldReserved, NEW i \in held, NEW tokens \in Nat,
           NEW status \in {"success", "failed"},
           usage_events' = [usage_events EXCEPT ![i] =
               [@ EXCEPT !.status = status, !.total_tokens = tokens]],
           UNCHANGED <<user_limits, now>>
    PROVE  Settles(i, status)
  <1> DEFINE e == [usage_events[i] EXCEPT !.status = status, !.total_tokens = tokens]
  <1>1. /\ usage_events \in Seq(Event) /\ i \in 1 .. Len(usage_events)
        /\ usage_events[i] \in Event
    BY ElementOfSeq DEF TypeOK, Ids
  <1>2. /\ e \in Event /\ e.user_id = usage_events[i].user_id
        /\ e.model = usage_events[i].model
        /\ e.timestamp = usage_events[i].timestamp /\ e.status = status
    BY <1>1 DEF Event, Statuses
  <1>3. usage_events' = [usage_events EXCEPT ![i] = e]
    OBVIOUS
  <1> HIDE DEF e
  <1>4. QED
    BY <1>1, <1>2, <1>3, ReplacedRow DEF Settles, Ids, HeldReserved

LEMMA SuccessSettles ==
    ASSUME TypeOK, HeldReserved, NEW i, NEW n \in Usages, FinalizeSuccess(i, n)
    PROVE  Settles(i, "success")
  <1>1. i \in held /\ n \in Nat
    BY UsagesAssumption DEF FinalizeSuccess
  <1>2. QED
    BY <1>1, SettlingOf DEF FinalizeSuccess

LEMMA FailureSettles ==
    ASSUME TypeOK, HeldReserved, NEW i, FinalizeFailure(i)
    PROVE  Settles(i, "failed")
  <1>1. i \in held /\ 0 \in Nat
    BY DEF FinalizeFailure
  <1>2. QED
    BY <1>1, SettlingOf DEF FinalizeFailure

-----------------------------------------------------------------------------
(***************************************************************************)
(* Chats.                                                                  *)
(***************************************************************************)
LEMMA ChatWhere ==
    ASSUME ScriptsOK, NEW s \in Scripts, NEW k, NEW at, ChatAt(s, k, at)
    PROVE  /\ At(s, "chats") /\ k \in DOMAIN script[s].calls
           /\ script[s].calls[k].at = at /\ script[s].calls[k].user \in Users
  <1>1. script[s].calls \in Seq(Call) /\ k \in DOMAIN script[s].calls
    BY DEF ChatAt, ScriptsOK, ScriptState
  <1>2. script[s].calls[k] \in Call
    BY <1>1
  <1>3. QED
    BY <1>1, <1>2 DEF ChatAt, Call

LEMMA ModelRefusedDoes ==
    ASSUME ScriptsOK, NEW s \in Scripts, NEW k, ModelRefused(s, k)
    PROVE  /\ ChatAt(s, k, "sent") /\ Bare(TextModel) \notin model_allowlist
           /\ CallGoes(s, k, "failed", 0, {"refused"}) /\ Quiet
  <1>1. /\ k \in DOMAIN script[s].calls /\ {"refused"} \in SUBSET Causes
        /\ "failed" \in Places /\ 0 \in 0 .. MaxEvents
    BY BoundsAssumption DEF ModelRefused, ChatAt, Causes, Places
  <1>2. CallGoes(s, k, "failed", 0, {"refused"})
    BY <1>1, WithGoes DEF ModelRefused
  <1>3. QED
    BY <1>2 DEF ModelRefused

LEMMA LimitRejectsDoes ==
    ASSUME ScriptsOK, NEW s \in Scripts, NEW k, LimitRejects(s, k)
    PROVE  /\ ChatAt(s, k, "sent")
           /\ \E n \in Estimates : ~Admits(script[s].calls[k].user, n)
           /\ \/ CallGoes(s, k, "sent", 0, {})
              \/ CallGoes(s, k, "limited", 0, {})
           /\ Quiet
  <1>1. /\ k \in DOMAIN script[s].calls /\ {} \in SUBSET Causes
        /\ "limited" \in Places
    BY DEF LimitRejects, ChatAt, Causes, Places
  <1>2. CallGoes(s, k, "sent", 0, {}) \/ CallGoes(s, k, "limited", 0, {})
    BY <1>1, AgainGoes DEF LimitRejects
  <1>3. QED
    BY <1>2 DEF LimitRejects

LEMMA ServerReservesDoes ==
    ASSUME TypeOK, ScriptsOK, NEW s \in Scripts, NEW k, ServerReserves(s, k)
    PROVE  /\ ChatAt(s, k, "sent")
           /\ AddsRow(script[s].calls[k].user)
           /\ RateOkAt(script[s].calls[k].user, now)
           /\ CallGoes(s, k, "upstream", Len(usage_events) + 1, {})
           /\ UNCHANGED <<ghosts, faults>>
  <1>1. /\ k \in DOMAIN script[s].calls /\ {} \in SUBSET Causes
        /\ "upstream" \in Places /\ script[s].calls[k].user \in Users
    BY ChatWhere DEF ServerReserves, Places
  <1>2. PICK n \in Estimates : Reserve(script[s].calls[k].user, TextModel, n)
    BY DEF ServerReserves
  <1>3. /\ AddsRow(script[s].calls[k].user) /\ Admits(script[s].calls[k].user, n)
        /\ Len(usage_events) + 1 \in 0 .. MaxEvents
    BY <1>1, <1>2, ReserveAdds
  <1>4. Becomes(s, With(s, k, "upstream", Len(usage_events) + 1, {}))
    <2>1. Len(usage_events') = Len(usage_events) + 1
      BY <1>3 DEF AddsRow
    <2>2. QED
      BY <2>1 DEF ServerReserves
  <1>5. CallGoes(s, k, "upstream", Len(usage_events) + 1, {})
    BY <1>1, <1>3, <1>4, WithGoes
  <1>6. QED
    BY <1>3, <1>5 DEF ServerReserves, Admits, AdmitsAt

LEMMA ServerAnswersDoes ==
    ASSUME TypeOK, HeldReserved, ScriptsOK, NEW s \in Scripts, NEW k, ServerAnswers(s, k)
    PROVE  /\ ChatAt(s, k, "upstream")
           /\ Settles(script[s].calls[k].row, "success")
           /\ CallGoes(s, k, "ok", 0, {})
           /\ UNCHANGED <<ghosts, faults>>
  <1>1. /\ k \in DOMAIN script[s].calls /\ {} \in SUBSET Causes
        /\ "ok" \in Places /\ 0 \in 0 .. MaxEvents
    BY BoundsAssumption DEF ServerAnswers, ChatAt, Places
  <1>2. Settles(script[s].calls[k].row, "success")
    BY SuccessSettles DEF ServerAnswers
  <1>3. CallGoes(s, k, "ok", 0, {})
    BY <1>1, WithGoes DEF ServerAnswers
  <1>4. QED
    BY <1>2, <1>3 DEF ServerAnswers

LEMMA UpstreamFailsDoes ==
    ASSUME TypeOK, HeldReserved, ScriptsOK, NEW s \in Scripts, NEW k, UpstreamFails(s, k)
    PROVE  /\ ChatAt(s, k, "upstream")
           /\ Settles(script[s].calls[k].row, "failed")
           /\ \/ CallGoes(s, k, "sent", 0, {"outage"})
              \/ CallGoes(s, k, "failed", 0, {"outage"})
           /\ faults' = faults + 1 /\ faults < MaxFaults
           /\ UNCHANGED ghosts
  <1>1. /\ k \in DOMAIN script[s].calls /\ {"outage"} \in SUBSET Causes
        /\ "failed" \in Places
    BY DEF UpstreamFails, ChatAt, Causes, Places
  <1>2. Settles(script[s].calls[k].row, "failed")
    BY FailureSettles DEF UpstreamFails
  <1>3. CallGoes(s, k, "sent", 0, {"outage"}) \/ CallGoes(s, k, "failed", 0, {"outage"})
    BY <1>1, AgainGoes DEF UpstreamFails
  <1>4. QED
    BY <1>2, <1>3 DEF UpstreamFails

\* The row stays what it is.
LEMMA ServerLeavesRowDoes ==
    ASSUME ScriptsOK, NEW s \in Scripts, NEW k, ServerLeavesRow(s, k)
    PROVE  /\ ChatAt(s, k, "upstream")
           /\ \/ CallGoes(s, k, "sent", 0, {"outage", "stuck"})
              \/ CallGoes(s, k, "failed", 0, {"outage", "stuck"})
           /\ faults' = faults + 1 /\ faults < MaxFaults
           /\ UNCHANGED <<tables, now, granted, ghosts>>
  <1>1. /\ k \in DOMAIN script[s].calls /\ {"outage", "stuck"} \in SUBSET Causes
        /\ "failed" \in Places
    BY DEF ServerLeavesRow, ChatAt, Causes, Places
  <1>2. \/ CallGoes(s, k, "sent", 0, {"outage", "stuck"})
        \/ CallGoes(s, k, "failed", 0, {"outage", "stuck"})
    BY <1>1, AgainGoes DEF ServerLeavesRow
  <1>3. UNCHANGED <<tables, now, granted>>
    BY DEF ServerLeavesRow, Abandon
  <1>4. QED
    BY <1>2, <1>3 DEF ServerLeavesRow

LEMMA ChatTimesOutDoes ==
    ASSUME ScriptsOK, NEW s \in Scripts, NEW k, ChatTimesOut(s, k)
    PROVE  /\ ChatAt(s, k, "sent") \/ ChatAt(s, k, "upstream")
           /\ \/ CallGoes(s, k, "sent", 0, {"timeout"})
              \/ CallGoes(s, k, "failed", 0, {"timeout"})
           /\ faults' = faults + 1 /\ faults < MaxFaults
           /\ \/ ghosts' = ghosts
              \/ ghosts' = ghosts \cup {[op |-> "chat", user |-> script[s].calls[k].user,
                                         row |-> script[s].calls[k].row, id |-> faults]}
           /\ UNCHANGED quotaVars
  <1>1. /\ k \in DOMAIN script[s].calls /\ {"timeout"} \in SUBSET Causes
        /\ "failed" \in Places
    BY DEF ChatTimesOut, ChatAt, Causes, Places
  <1>2. CallGoes(s, k, "sent", 0, {"timeout"}) \/ CallGoes(s, k, "failed", 0, {"timeout"})
    BY <1>1, AgainGoes DEF ChatTimesOut
  <1>3. QED
    BY <1>2 DEF ChatTimesOut

\* The clock may make a script slow, and does nothing else to it.
Ages(s) ==
    /\ script'[s].pc = script[s].pc /\ script'[s].put = script[s].put
    /\ script'[s].calls = script[s].calls
    /\ script'[s].start = script[s].start
    /\ script'[s].failed = script[s].failed
    /\ script'[s].before = script[s].before /\ script'[s].after = script[s].after
    /\ script'[s].fresh = script[s].fresh
    /\ script'[s].blame \in {script[s].blame, script[s].blame \cup {"slow"}}
    /\ Running(s) /\ script[s].fresh >= 0 /\ now + 1 > script[s].fresh + Window =>
           script'[s].blame = script[s].blame \cup {"slow"}

LEMMA TickDoes ==
    ASSUME ScriptsOK, Tick
    PROVE  /\ script' \in [Scripts -> ScriptState] /\ \A s \in Scripts : Ages(s)
           /\ now' = now + 1 /\ now < MaxNow
           /\ UNCHANGED <<tables, held, granted, world, ghosts, faults>>
  <1> DEFINE late(s) == Running(s) /\ script[s].fresh >= 0 /\ now + 1 > script[s].fresh + Window
             new(s) == IF late(s) THEN [script[s] EXCEPT !.blame = @ \cup {"slow"}] ELSE script[s]
  <1>1. script' = [s \in Scripts |-> new(s)]
    BY DEF Tick
  <1>2. ASSUME NEW s \in Scripts PROVE new(s) \in ScriptState /\ Ages(s)
    <2>1. script[s] \in ScriptState /\ script'[s] = new(s)
      BY <1>1 DEF ScriptsOK
    <2>2. CASE late(s)
      <3>1. new(s) = [script[s] EXCEPT !.blame = @ \cup {"slow"}] /\ "slow" \in Causes
        BY <2>2 DEF Causes
      <3> HIDE DEF new, late
      <3>2. QED
        BY <2>1, <3>1 DEF ScriptState, Ages
    <2>3. CASE ~late(s)
      <3>1. new(s) = script[s]
        BY <2>3
      <3>2. ~(Running(s) /\ script[s].fresh >= 0 /\ now + 1 > script[s].fresh + Window)
        BY <2>3
      <3> HIDE DEF new, late
      <3>3. QED
        BY <2>1, <3>1, <3>2 DEF Ages
    <2>4. QED
      BY <2>2, <2>3
  <1> HIDE DEF new
  <1>3. QED
    BY <1>1, <1>2 DEF Tick, SetClock

-----------------------------------------------------------------------------
(***************************************************************************)
(* The world the scripts share.                                            *)
(***************************************************************************)
Own(s) == UsersOf(program[s])
Untimed(s) == "timeout" \notin script[s].blame
Punctual(s) == "late" \notin script[s].blame
Tidy(s) == Untimed(s) /\ "stuck" \notin script[s].blame

\* The calls of a step that sends chats are those of its users; elsewhere all
\* have ended.  A call that is upstream has its row, one the script made.
CallsOK(s) ==
    /\ At(s, "chats") =>
          /\ DOMAIN script[s].calls = DOMAIN Step(s).users
          /\ \A k \in DOMAIN script[s].calls : script[s].calls[k].user = Step(s).users[k]
    /\ ~At(s, "chats") => AllEnded(s)
    /\ \A k \in DOMAIN script[s].calls :
          /\ script[s].calls[k].at = "sent" => script[s].calls[k].row = 0
          /\ script[s].calls[k].at = "upstream" =>
                /\ script[s].calls[k].row \in Ids
                /\ script[s].calls[k].row > script[s].start
                /\ usage_events[script[s].calls[k].row].user_id = script[s].calls[k].user
          /\ script[s].calls[k].at = "failed" => script[s].blame # {}

\* A leftover is a well-formed request of a script that knows of a timeout, and
\* of a PUT that did, if it is one.
GhostOK(g) ==
    /\ \/ g \in [op : {"put"}, user : Users, limits : LimitSettings, id : Nat]
       \/ /\ g \in [op : {"chat"}, user : Users, row : Nat, id : Nat]
          /\ g.row # 0 => /\ g.row \in Ids
                          /\ usage_events[g.row].user_id = g.user
    /\ faults > 0
    /\ \A s \in Scripts : g.user \in Own(s) =>
          ~Untimed(s) /\ (g.op = "put" => ~Punctual(s))

\* The rows of an earlier run: successful ones, of users that are tested for
\* a fresh window.
RowsOK(s) ==
    /\ script[s].start \in 0 .. Len(usage_events)
    /\ \A i \in 1 .. script[s].start :
          /\ usage_events[i].status = "success"
          /\ usage_events[i].user_id \in FreshUsers(program)

Cast ==
    /\ \E l \in LineUps : program = l.programs
    /\ faults \in 0 .. MaxFaults
    /\ model_allowlist \subseteq ModelId /\ installed \subseteq ModelId

World ==
    /\ IInv /\ TotalsMatchEvents
    /\ Cast /\ ScriptsOK
    /\ \A i \in Ids : usage_events[i].model = TextModel
    /\ \A g \in ghosts : GhostOK(g)
    /\ \A s \in Scripts : CallsOK(s) /\ RowsOK(s)

LEMMA CastFormed ==
    ASSUME Cast, NEW s \in Scripts
    PROVE  IsScript(program[s]) /\ Formed(program[s])
  BY LineUpsAssumption, ScriptsFormed DEF Cast

LEMMA Dedicated ==
    ASSUME Cast, NEW s \in Scripts, NEW t \in Scripts, s # t
    PROVE  Own(s) \cap Own(t) = {}
  BY DedicatedAssumption DEF Cast, Own

\* The users a step is about are the script's own.
LEMMA StepsOwn ==
    ASSUME ScriptsOK, NEW s \in Scripts, Running(s)
    PROVE  /\ Own(s) \subseteq Users
           /\ Step(s).op \in {"put", "get", "fresh", "before", "after", "admin"} =>
                  Step(s).user \in Own(s)
  <1>1. script[s].pc \in DOMAIN program[s].steps
    BY WhereItIs DEF Formed
  <1>2. Step(s).op \in {"put", "get", "fresh", "before", "after", "admin"} => Step(s).user \in Users
    BY WhereItIs DEF StepFormed
  <1>3. QED
    BY <1>1, <1>2 DEF Own, UsersOf, Step

LEMMA CallsOwn ==
    ASSUME ScriptsOK, NEW s \in Scripts, CallsOK(s), At(s, "chats"),
           NEW k \in DOMAIN script[s].calls
    PROVE  script[s].calls[k].user \in Own(s)
  <1>1. script[s].pc \in DOMAIN program[s].steps /\ StepFormed(Step(s))
    BY WhereItIs DEF Formed, At
  <1>2. Step(s).users \in Seq(Users)
    BY <1>1 DEF StepFormed, At
  <1>3. /\ k \in DOMAIN Step(s).users /\ script[s].calls[k].user = Step(s).users[k]
        /\ Step(s).users[k] \in Users
    BY <1>2 DEF CallsOK
  <1>4. script[s].calls[k].user \in ToSet(Step(s).users)
    BY <1>3 DEF ToSet
  <1>5. QED
    BY <1>1, <1>3, <1>4 DEF Own, UsersOf, Step, At

\* A script moves: to another step, when it has no calls under way.
Moves(s) ==
    /\ Running(s)
    /\ \E pc \in 1 .. Len(program[s].steps) + 1 :
          pc \in {script[s].pc + 1, Target(program[s], script[s].pc)} /\ Goes(s, pc)
    /\ At(s, "chats") => AllEnded(s)
    /\ script[s].blame \subseteq script'[s].blame
    /\ script'[s].blame \subseteq script[s].blame \cup {"timeout", "late", "missing", "stale", "edge"}

LEMMA RaisesMoves ==
    ASSUME ScriptsOK, NEW s \in Scripts, Running(s),
           NEW why \in SUBSET {"timeout", "late", "missing", "stale", "edge"}, Raises(s, why),
           At(s, "chats") => AllEnded(s)
    PROVE  Moves(s)
  BY WhereItIs DEF Moves, Raises

LEMMA GoesOnMoves ==
    ASSUME ScriptsOK, NEW s \in Scripts, Running(s), GoesOn(s) \/ FailsOn(s),
           At(s, "chats") => AllEnded(s)
    PROVE  Moves(s)
  BY WhereItIs DEF Moves, GoesOn, FailsOn

\* What a step of a script is.
LEMMA ReadMoves ==
    ASSUME TypeOK, ScriptsOK, NEW s \in Scripts,
           ListModels(s) \/ GetLimits(s) \/ EnsureFresh(s) \/ GetUsage(s) \/ Compare(s)
             \/ PutAnswers(s) \/ Gather(s)
    PROVE  Moves(s) /\ Quiet
  <1>1. CASE ListModels(s)
    <2>1. Running(s) /\ ~At(s, "chats")
      BY <1>1 DEF ListModels, At
    <2>2. QED
      BY <1>1, <2>1, ListModelsDoes, RaisesMoves, GoesOnMoves
  <1>2. CASE GetLimits(s)
    <2>1. Running(s) /\ ~At(s, "chats")
      BY <1>2 DEF GetLimits, At
    <2>2. QED
      BY <1>2, <2>1, GetLimitsDoes, RaisesMoves, GoesOnMoves
  <1>3. CASE EnsureFresh(s)
    <2>1. Running(s) /\ ~At(s, "chats")
      BY <1>3 DEF EnsureFresh, At
    <2>2. CASE FindsFresh(s)
      BY <1>3, <2>1, <2>2, EnsureFreshDoes, WhereItIs DEF FindsFresh, Moves
    <2>3. QED
      BY <1>3, <2>1, <2>2, EnsureFreshDoes, RaisesMoves
  <1>4. CASE GetUsage(s)
    <2>1. Running(s) /\ ~At(s, "chats")
      BY <1>4 DEF GetUsage, At
    <2>2. CASE Measures(s)
      BY <1>4, <2>1, <2>2, GetUsageDoes, WhereItIs DEF Measures, Moves
    <2>3. QED
      BY <1>4, <2>1, <2>2, GetUsageDoes, RaisesMoves, GoesOnMoves
  <1>5. CASE Compare(s)
    <2>1. Running(s) /\ ~At(s, "chats")
      BY <1>5 DEF Compare, At
    <2>2. QED
      BY <1>5, <2>1, CompareDoes, RaisesMoves, GoesOnMoves
  <1>6. CASE PutAnswers(s)
    <2>1. Running(s) /\ ~At(s, "chats")
      BY <1>6 DEF PutAnswers, At
    <2>2. QED
      BY <1>6, <2>1, PutAnswersDoes, GoesOnMoves
  <1>7. CASE Gather(s)
    <2>1. Running(s)
      BY <1>7 DEF Gather, At
    <2>2. QED
      BY <1>7, <2>1, GatherDoes, RaisesMoves, GoesOnMoves
  <1>8. QED
    BY <1>1, <1>2, <1>3, <1>4, <1>5, <1>6, <1>7

LEMMA FailureMoves ==
    ASSUME ScriptsOK, NEW s \in Scripts, ReadFails(s) \/ PutTimesOut(s)
    PROVE  /\ Moves(s) /\ UNCHANGED quotaVars
           /\ "timeout" \in script'[s].blame
           /\ At(s, "put") => "late" \in script'[s].blame
           /\ faults < MaxFaults /\ faults' = faults + 1
           /\ \/ ghosts' = ghosts
              \/ /\ At(s, "put")
                 /\ ghosts' = ghosts \cup {[op |-> "put", user |-> Step(s).user,
                                            limits |-> Step(s).limits, id |-> faults]}
  <1>1. CASE ReadFails(s)
    <2>1. Running(s) /\ ~At(s, "chats")
      BY <1>1 DEF ReadFails, At
    <2>2. Raises(s, {"timeout"})
      BY <1>1, ReadFailsDoes
    <2>3. QED
      BY <1>1, <2>1, <2>2, ReadFailsDoes, RaisesMoves DEF Raises, At
  <1>2. CASE PutTimesOut(s)
    <2>1. Running(s) /\ ~At(s, "chats")
      BY <1>2 DEF PutTimesOut, At
    <2>2. Raises(s, {"timeout", "late"})
      BY <1>2, PutTimesOutDoes
    <2>3. QED
      BY <1>2, <2>1, <2>2, PutTimesOutDoes, RaisesMoves DEF Raises
  <1>3. QED
    BY <1>1, <1>2

\* No time passes between the statements of a reservation, and a reservation
\* that nobody holds any more is not lost again.
LEMMA ReserveInNext ==
    ASSUME TypeOK, NEW u \in Users, \E n \in Estimates : Reserve(u, TextModel, n)
    PROVE  Next
  <1>1. PICK n \in Estimates : ReserveAt(u, TextModel, n, now, now)
    BY DEF Reserve
  <1>2. now \in Times /\ TextModel \in Models
    BY TextModelAssumption DEF TypeOK
  <1>3. QED
    BY <1>1, <1>2 DEF Next

LEMMA AbandonInNext ==
    ASSUME NEW i, Abandon({i})
    PROVE  [Next]_quotaVars
  <1>1. CASE i \in held
    <2>1. {i} \in SUBSET held
      BY <1>1
    <2>2. QED
      BY <2>1 DEF Next
  <1>2. CASE i \notin held
    <2>1. held' = held
      BY <1>2 DEF Abandon
    <2>2. QED
      BY <2>1 DEF Abandon, quotaVars, tables
  <1>3. QED
    BY <1>1, <1>2

\* Every step is one of the ledger's, or leaves it alone.
LEMMA LedgerStep ==
    ASSUME World, [DemoNext]_demoVars
    PROVE  [Next]_quotaVars
  <1>0. TypeOK /\ ScriptsOK /\ TextModel \in Models
    BY TextModelAssumption DEF World, IInv
  <1>1. ASSUME NEW s \in Scripts, ScriptStep(s) PROVE [Next]_quotaVars
    <2>1. CASE PutUpserts(s)
      <3>1. At(s, "put") /\ UpdateLimits(Step(s).user, Step(s).limits)
        BY <1>0, <2>1, PutUpsertsDoes
      <3>2. Step(s).user \in Users /\ Step(s).limits \in LimitSettings
        BY <1>0, <3>1, WhereItIs DEF At, StepFormed
      <3>3. QED
        BY <3>1, <3>2 DEF Next
    <2>2. CASE ReadFails(s) \/ PutTimesOut(s)
      BY <1>0, <2>2, FailureMoves
    <2>3. CASE ListModels(s) \/ GetLimits(s) \/ EnsureFresh(s) \/ GetUsage(s) \/ Compare(s)
                 \/ PutAnswers(s) \/ Gather(s)
      BY <1>0, <2>3, ReadMoves DEF Quiet
    <2>4. QED
      BY <1>1, <2>1, <2>2, <2>3 DEF ScriptStep
  <1>2. ASSUME NEW s \in Scripts, NEW k \in DOMAIN script[s].calls, ChatStep(s, k)
        PROVE  [Next]_quotaVars
    <2>1. CASE ServerReserves(s, k)
      <3>1. script[s].calls[k].user \in Users
        BY <1>0, <2>1, ChatWhere DEF ServerReserves
      <3>2. \E n \in Estimates : Reserve(script[s].calls[k].user, TextModel, n)
        BY <2>1 DEF ServerReserves
      <3>3. QED
        BY <1>0, <3>1, <3>2, ReserveInNext
    <2>2. CASE ServerAnswers(s, k)
      <3>1. PICK n \in Usages : FinalizeSuccess(script[s].calls[k].row, n)
        BY <2>2 DEF ServerAnswers
      <3>2. script[s].calls[k].row \in held
        BY <3>1 DEF FinalizeSuccess
      <3>3. QED
        BY <3>1, <3>2 DEF Next
    <2>3. CASE UpstreamFails(s, k)
      <3>1. FinalizeFailure(script[s].calls[k].row)
        BY <2>3 DEF UpstreamFails
      <3>2. script[s].calls[k].row \in held
        BY <3>1 DEF FinalizeFailure
      <3>3. QED
        BY <3>1, <3>2 DEF Next
    <2>4. CASE ServerLeavesRow(s, k)
      BY <2>4, AbandonInNext DEF ServerLeavesRow
    <2>5. CASE ModelRefused(s, k) \/ LimitRejects(s, k) \/ ChatTimesOut(s, k)
      BY <2>5 DEF ModelRefused, LimitRejects, ChatTimesOut, Quiet
    <2>6. QED
      BY <1>2, <2>1, <2>2, <2>3, <2>4, <2>5 DEF ChatStep
  <1>3. ASSUME NEW g \in ghosts, GhostReserves(g) \/ GhostVanishes(g)
                                 \/ GhostFinalizes(g) \/ GhostUpserts(g)
        PROVE  [Next]_quotaVars
    <2>0. GhostOK(g)
      BY DEF World
    <2>1. CASE GhostReserves(g)
      BY <1>0, <2>0, <2>1, ReserveInNext DEF GhostReserves, GhostOK
    <2>2. CASE GhostVanishes(g)
      BY <2>2 DEF GhostVanishes
    <2>3. CASE GhostFinalizes(g)
      <3>1. CASE \E n \in Usages : FinalizeSuccess(g.row, n)
        <4>1. PICK n \in Usages : FinalizeSuccess(g.row, n)
          BY <3>1
        <4>2. g.row \in held
          BY <4>1 DEF FinalizeSuccess
        <4>3. QED
          BY <4>1, <4>2 DEF Next
      <3>2. CASE FinalizeFailure(g.row)
        <4>1. g.row \in held
          BY <3>2 DEF FinalizeFailure
        <4>2. QED
          BY <3>2, <4>1 DEF Next
      <3>3. CASE Abandon({g.row})
        BY <3>3, AbandonInNext
      <3>4. QED
        BY <2>3, <3>1, <3>2, <3>3 DEF GhostFinalizes
    <2>4. CASE GhostUpserts(g)
      <3>1. g.user \in Users /\ g.limits \in LimitSettings /\ UpdateLimits(g.user, g.limits)
        BY <2>0, <2>4 DEF GhostUpserts, GhostOK
      <3>2. QED
        BY <3>1 DEF Next
    <2>5. QED
      BY <1>3, <2>1, <2>2, <2>3, <2>4
  <1>4. CASE Tick
    <2>1. SetClock(now + 1) /\ now < MaxNow
      BY <1>4 DEF Tick
    <2>2. now + 1 \in Times
      BY <1>0, <2>1, BoundsAssumption DEF TypeOK, Times
    <2>3. QED
      BY <2>1, <2>2 DEF Next
  <1>5. CASE AllowModel
    BY <1>5 DEF AllowModel
  <1>6. CASE UNCHANGED demoVars
    BY <1>6 DEF demoVars
  <1>7. QED
    BY <1>1, <1>2, <1>3, <1>4, <1>5, <1>6 DEF DemoNext, Over

\* Where a step leaves the script that takes it, and the others.
LEMMA ScriptsStep ==
    ASSUME World, [DemoNext]_demoVars
    PROVE  ScriptsOK' /\ program' = program
  <1>0. TypeOK /\ HeldReserved /\ ScriptsOK
    BY DEF World, IInv
  <1>1. ASSUME NEW s \in Scripts, Moves(s)
        PROVE  ScriptsOK' /\ program' = program
    <2>1. program' = program
      BY <1>1 DEF Moves, Goes, world
    <2>2. script'[s].pc \in 1 .. Len(program[s].steps) + 1 /\ script' \in [Scripts -> ScriptState]
          /\ Others(s)
      BY <1>1 DEF Moves, Goes
    <2>3. QED
      BY <1>0, <2>1, <2>2 DEF ScriptsOK, Others, Formed
  <1>2. ASSUME NEW s \in Scripts, Writes(s)
        PROVE  ScriptsOK' /\ program' = program
    <2>1. program' = program
      BY <1>2 DEF Writes, world
    <2>2. script'[s].pc = script[s].pc /\ script' \in [Scripts -> ScriptState]
          /\ Others(s)
      BY <1>2 DEF Writes
    <2>3. QED
      BY <1>0, <2>1, <2>2 DEF ScriptsOK, Others, Formed
  <1>3. ASSUME NEW s \in Scripts, NEW k, NEW at, NEW row, NEW why, CallGoes(s, k, at, row, why)
        PROVE  ScriptsOK' /\ program' = program
    <2>1. program' = program
      BY <1>3 DEF CallGoes, world
    <2>2. script'[s].pc = script[s].pc /\ script' \in [Scripts -> ScriptState]
          /\ Others(s)
      BY <1>3 DEF CallGoes
    <2>3. QED
      BY <1>0, <2>1, <2>2 DEF ScriptsOK, Others, Formed
  <1>4. ASSUME NEW s \in Scripts, ScriptStep(s) PROVE ScriptsOK' /\ program' = program
    <2>1. CASE PutUpserts(s)
      BY <1>0, <1>2, <2>1, PutUpsertsDoes
    <2>2. CASE ReadFails(s) \/ PutTimesOut(s)
      BY <1>0, <1>1, <2>2, FailureMoves
    <2>3. CASE ListModels(s) \/ GetLimits(s) \/ EnsureFresh(s) \/ GetUsage(s) \/ Compare(s)
                 \/ PutAnswers(s) \/ Gather(s)
      BY <1>0, <1>1, <2>3, ReadMoves
    <2>4. QED
      BY <1>4, <2>1, <2>2, <2>3 DEF ScriptStep
  <1>5. ASSUME NEW s \in Scripts, NEW k \in DOMAIN script[s].calls, ChatStep(s, k)
        PROVE  ScriptsOK' /\ program' = program
    <2>1. \E at, row, why : CallGoes(s, k, at, row, why)
      BY <1>0, <1>5, ModelRefusedDoes, LimitRejectsDoes, ServerReservesDoes, ServerAnswersDoes,
         UpstreamFailsDoes, ServerLeavesRowDoes, ChatTimesOutDoes DEF ChatStep
    <2>2. QED
      BY <1>3, <2>1
  <1>6. CASE \E g \in ghosts : GhostReserves(g) \/ GhostVanishes(g)
                               \/ GhostFinalizes(g) \/ GhostUpserts(g)
    <2>1. UNCHANGED <<world, script>>
      BY <1>6 DEF GhostReserves, GhostVanishes, GhostFinalizes, GhostUpserts
    <2>2. QED
      BY <1>0, <2>1 DEF ScriptsOK, world
  <1>7. CASE Tick
    <2>1. /\ script' \in [Scripts -> ScriptState] /\ \A s \in Scripts : script'[s].pc = script[s].pc
          /\ program' = program
      BY <1>0, <1>7, TickDoes DEF Ages, world
    <2>2. QED
      BY <1>0, <2>1 DEF ScriptsOK, Formed
  <1>8. CASE AllowModel
    BY <1>0, <1>8 DEF AllowModel, ScriptsOK
  <1>9. CASE UNCHANGED demoVars
    BY <1>0, <1>9 DEF demoVars, world, ScriptsOK
  <1>10. QED
    BY <1>4, <1>5, <1>6, <1>7, <1>8, <1>9 DEF DemoNext, Over

\* What happens to the rows: nothing is taken away, settled rows stay, and new
\* ones are for the scripts' model.
Kept ==
    /\ Len(usage_events) \in Nat /\ Len(usage_events') \in Nat
    /\ Len(usage_events) <= Len(usage_events')
    /\ \A i \in Ids :
          /\ usage_events'[i].user_id = usage_events[i].user_id
          /\ usage_events'[i].model = usage_events[i].model
          /\ usage_events'[i].timestamp = usage_events[i].timestamp
          /\ usage_events[i].status # "reserved" => usage_events'[i] = usage_events[i]
    /\ \A i \in Ids' \ Ids : usage_events'[i].model = TextModel

LEMMA AddsKeeps == ASSUME TypeOK, NEW u, AddsRow(u) PROVE Kept
  BY DEF TypeOK, AddsRow, Kept, Ids

LEMMA SettlesKeeps == ASSUME TypeOK, NEW i, NEW status, Settles(i, status) PROVE Kept
  <1>1. Len(usage_events) \in Nat /\ Ids' = Ids
    BY DEF TypeOK, Settles, Ids
  <1>2. \A j \in Ids : j = i \/ usage_events'[j] = usage_events[j]
    BY DEF Settles
  <1>3. QED
    BY <1>1, <1>2 DEF Settles, Kept

LEMMA SameKeeps == ASSUME TypeOK, usage_events' = usage_events PROVE Kept
  BY DEF TypeOK, Kept, Ids

LEMMA GhostReservesDoes ==
    ASSUME TypeOK, NEW g \in ghosts, GhostOK(g), GhostReserves(g)
    PROVE  /\ AddsRow(g.user) /\ g.op = "chat"
           /\ ghosts' = (ghosts \ {g}) \cup {[g EXCEPT !.row = Len(usage_events) + 1]}
           /\ UNCHANGED <<world, script, faults>>
  <1>1. PICK n \in Estimates : Reserve(g.user, TextModel, n)
    BY DEF GhostReserves
  <1>2. AddsRow(g.user)
    BY <1>1, ReserveAdds DEF GhostOK
  <1>3. Len(usage_events') = Len(usage_events) + 1
    BY <1>2 DEF AddsRow
  <1>4. QED
    BY <1>2, <1>3 DEF GhostReserves

LEMMA GhostFinalizesDoes ==
    ASSUME TypeOK, HeldReserved, NEW g \in ghosts, GhostOK(g), GhostFinalizes(g)
    PROVE  /\ \/ \E status \in {"success", "failed"} : Settles(g.row, status)
              \/ UNCHANGED <<tables, now>>
           /\ g.row \in Ids /\ usage_events[g.row].user_id = g.user
           /\ ghosts' = ghosts \ {g}
           /\ UNCHANGED <<world, script, faults>>
  <1>1. \/ \E status \in {"success", "failed"} : Settles(g.row, status)
        \/ UNCHANGED <<tables, now>>
    BY SuccessSettles, FailureSettles DEF GhostFinalizes, Abandon
  <1>2. QED
    BY <1>1 DEF GhostFinalizes, GhostOK

LEMMA RowsKept ==
    ASSUME World, [DemoNext]_demoVars
    PROVE  Kept
  <1>0. TypeOK /\ HeldReserved /\ ScriptsOK
    BY DEF World, IInv
  <1>1. ASSUME NEW s \in Scripts, ScriptStep(s) PROVE Kept
    <2>1. CASE PutUpserts(s)
      BY <1>0, <2>1, SameKeeps DEF PutUpserts, UpdateLimits
    <2>2. CASE ReadFails(s) \/ PutTimesOut(s)
      BY <1>0, <2>2, FailureMoves, SameKeeps DEF quotaVars
    <2>3. CASE ListModels(s) \/ GetLimits(s) \/ EnsureFresh(s) \/ GetUsage(s) \/ Compare(s)
                 \/ PutAnswers(s) \/ Gather(s)
      BY <1>0, <2>3, ReadMoves, SameKeeps DEF Quiet, quotaVars
    <2>4. QED
      BY <1>1, <2>1, <2>2, <2>3 DEF ScriptStep
  <1>2. ASSUME NEW s \in Scripts, NEW k \in DOMAIN script[s].calls, ChatStep(s, k)
        PROVE  Kept
    <2>1. CASE ServerReserves(s, k)
      BY <1>0, <2>1, ServerReservesDoes, AddsKeeps
    <2>2. CASE ServerAnswers(s, k)
      BY <1>0, <2>2, ServerAnswersDoes, SettlesKeeps
    <2>3. CASE UpstreamFails(s, k)
      BY <1>0, <2>3, UpstreamFailsDoes, SettlesKeeps
    <2>4. CASE ServerLeavesRow(s, k)
      BY <1>0, <2>4, ServerLeavesRowDoes, SameKeeps DEF tables
    <2>5. CASE ModelRefused(s, k) \/ LimitRejects(s, k) \/ ChatTimesOut(s, k)
      BY <1>0, <2>5, SameKeeps DEF ModelRefused, LimitRejects, ChatTimesOut, Quiet, quotaVars
    <2>6. QED
      BY <1>2, <2>1, <2>2, <2>3, <2>4, <2>5 DEF ChatStep
  <1>3. ASSUME NEW g \in ghosts, GhostReserves(g) \/ GhostVanishes(g)
                                 \/ GhostFinalizes(g) \/ GhostUpserts(g)
        PROVE  Kept
    <2>0. GhostOK(g)
      BY DEF World
    <2>1. CASE GhostReserves(g)
      BY <1>0, <2>0, <2>1, GhostReservesDoes, AddsKeeps
    <2>2. CASE GhostFinalizes(g)
      BY <1>0, <2>0, <2>2, GhostFinalizesDoes, SettlesKeeps, SameKeeps DEF tables
    <2>3. CASE GhostVanishes(g) \/ GhostUpserts(g)
      BY <1>0, <2>3, SameKeeps DEF GhostVanishes, GhostUpserts, UpdateLimits, quotaVars
    <2>4. QED
      BY <1>3, <2>1, <2>2, <2>3
  <1>4. CASE Tick
    BY <1>0, <1>4, SameKeeps DEF Tick, SetClock, tables
  <1>5. CASE AllowModel
    BY <1>0, <1>5, SameKeeps DEF AllowModel, quotaVars
  <1>6. CASE UNCHANGED demoVars
    BY <1>0, <1>6, SameKeeps DEF demoVars, quotaVars
  <1>7. QED
    BY <1>1, <1>2, <1>3, <1>4, <1>5, <1>6 DEF DemoNext, Over

\* What was to blame stays to blame, and faults are only ever added.
LEMMA BlameStays ==
    ASSUME World, [DemoNext]_demoVars
    PROVE  /\ \A s \in Scripts : script[s].blame \subseteq script'[s].blame
           /\ faults' \in {faults, faults + 1} /\ faults' \in 0 .. MaxFaults
  <1>0. TypeOK /\ HeldReserved /\ ScriptsOK /\ faults \in 0 .. MaxFaults /\ MaxFaults \in Nat
    BY DemoBounds DEF World, IInv, Cast
  <1>1. ASSUME NEW s \in Scripts, ScriptStep(s)
        PROVE  /\ \A t \in Scripts : script[t].blame \subseteq script'[t].blame
               /\ faults' \in {faults, faults + 1} /\ faults' \in 0 .. MaxFaults
    <2>1. CASE PutUpserts(s)
      BY <1>0, <2>1, PutUpsertsDoes DEF Writes, Others
    <2>2. CASE ReadFails(s) \/ PutTimesOut(s)
      BY <1>0, <2>2, FailureMoves DEF Moves, Goes, Others
    <2>3. CASE ListModels(s) \/ GetLimits(s) \/ EnsureFresh(s) \/ GetUsage(s) \/ Compare(s)
                 \/ PutAnswers(s) \/ Gather(s)
      BY <1>0, <2>3, ReadMoves DEF Moves, Goes, Others, Quiet
    <2>4. QED
      BY <1>1, <2>1, <2>2, <2>3 DEF ScriptStep
  <1>2. ASSUME NEW s \in Scripts, NEW k \in DOMAIN script[s].calls, ChatStep(s, k)
        PROVE  /\ \A t \in Scripts : script[t].blame \subseteq script'[t].blame
               /\ faults' \in {faults, faults + 1} /\ faults' \in 0 .. MaxFaults
    <2>1. \E at, row, why : CallGoes(s, k, at, row, why)
      BY <1>0, <1>2, ModelRefusedDoes, LimitRejectsDoes, ServerReservesDoes, ServerAnswersDoes,
         UpstreamFailsDoes, ServerLeavesRowDoes, ChatTimesOutDoes DEF ChatStep
    <2>2. \A t \in Scripts : script[t].blame \subseteq script'[t].blame
      BY <2>1 DEF CallGoes, Others
    <2>3. faults' = faults \/ (faults' = faults + 1 /\ faults < MaxFaults)
      BY <1>2 DEF ChatStep, ModelRefused, LimitRejects, ServerReserves, ServerAnswers,
                  UpstreamFails, ServerLeavesRow, ChatTimesOut, Quiet
    <2>4. QED
      BY <1>0, <2>2, <2>3
  <1>3. CASE \E g \in ghosts : GhostReserves(g) \/ GhostVanishes(g)
                               \/ GhostFinalizes(g) \/ GhostUpserts(g)
    BY <1>0, <1>3 DEF GhostReserves, GhostVanishes, GhostFinalizes, GhostUpserts
  <1>4. CASE Tick
    BY <1>0, <1>4, TickDoes DEF Ages
  <1>5. CASE AllowModel
    BY <1>0, <1>5 DEF AllowModel
  <1>6. CASE UNCHANGED demoVars
    BY <1>0, <1>6 DEF demoVars
  <1>7. QED
    BY <1>1, <1>2, <1>3, <1>4, <1>5, <1>6 DEF DemoNext, Over

LEMMA CastStep ==
    ASSUME World, [DemoNext]_demoVars
    PROVE  Cast' /\ model_allowlist \subseteq model_allowlist'
  <1>0. /\ \E l \in LineUps : program = l.programs
        /\ model_allowlist \subseteq ModelId /\ installed \subseteq ModelId
        /\ TypeOK /\ HeldReserved /\ ScriptsOK
    BY DEF World, IInv, Cast
  <1>1. program' = program
    BY ScriptsStep
  <1>2. /\ installed' = installed /\ model_allowlist' \subseteq model_allowlist \cup {Bare(TextModel)}
        /\ model_allowlist \subseteq model_allowlist'
    <2>1. ASSUME NEW s \in Scripts, ScriptStep(s) PROVE UNCHANGED world
      BY <2>1 DEF ScriptStep, ListModels, GetLimits, EnsureFresh, GetUsage, ReadFails, Compare,
                  PutUpserts, PutAnswers, PutTimesOut, Gather, Becomes
    <2>2. ASSUME NEW s \in Scripts, NEW k \in DOMAIN script[s].calls, ChatStep(s, k)
          PROVE  UNCHANGED world
      BY <2>2 DEF ChatStep, ModelRefused, LimitRejects, ServerReserves, ServerAnswers,
                  UpstreamFails, ServerLeavesRow, ChatTimesOut, Becomes
    <2>3. CASE \E g \in ghosts : GhostReserves(g) \/ GhostVanishes(g)
                                 \/ GhostFinalizes(g) \/ GhostUpserts(g)
      BY <2>3 DEF GhostReserves, GhostVanishes, GhostFinalizes, GhostUpserts, world
    <2>4. CASE Tick
      BY <2>4 DEF Tick, world
    <2>5. CASE AllowModel
      BY <2>5 DEF AllowModel
    <2>6. CASE UNCHANGED demoVars
      BY <2>6 DEF demoVars, world
    <2>7. QED
      BY <2>1, <2>2, <2>3, <2>4, <2>5, <2>6 DEF DemoNext, Over, world
  <1>3. Bare(TextModel) \in ModelId
    BY TextModelAssumption DEF Bare, ModelId
  <1>4. faults' \in 0 .. MaxFaults
    BY BlameStays
  <1>5. QED
    BY <1>0, <1>1, <1>2, <1>3, <1>4 DEF Cast

\* A leftover goes on being one.
LEMMA GhostStays ==
    ASSUME World, [DemoNext]_demoVars, NEW g, GhostOK(g)
    PROVE  GhostOK(g)'
  <1>1. Kept /\ program' = program
    BY RowsKept, ScriptsStep
  <1>2. /\ \A s \in Scripts : script[s].blame \subseteq script'[s].blame
        /\ faults' \in {faults, faults + 1} /\ faults \in Nat
    BY BlameStays DEF World, Cast
  <1>3. \A i \in Ids : i \in Ids'
    BY <1>1 DEF Kept, Ids
  <1>4. faults' > 0
    BY <1>2 DEF GhostOK
  <1>5. \A s \in Scripts : g.user \in Own(s)' =>
            ~Untimed(s)' /\ (g.op = "put" => ~Punctual(s)')
    BY <1>1, <1>2 DEF GhostOK, Own, Untimed, Punctual
  <1>6. QED
    BY <1>1, <1>3, <1>4, <1>5 DEF GhostOK, Kept

\* Leftovers of a script that a timeout is to be blamed for.
LEMMA GhostArises ==
    ASSUME World, [DemoNext]_demoVars, NEW s \in Scripts, NEW g,
           g.user \in Own(s), faults' = faults + 1, "timeout" \in script'[s].blame,
           g.op = "put" => "late" \in script'[s].blame,
           \/ g \in [op : {"put"}, user : Users, limits : LimitSettings, id : Nat]
           \/ /\ g \in [op : {"chat"}, user : Users, row : Nat, id : Nat]
              /\ g.row # 0 => g.row \in Ids /\ usage_events[g.row].user_id = g.user
    PROVE  GhostOK(g)'
  <1>1. Kept /\ program' = program /\ faults \in Nat
    BY RowsKept, ScriptsStep DEF World, Cast
  <1>2. ASSUME NEW t \in Scripts, g.user \in Own(t)'
        PROVE  ~Untimed(t)' /\ (g.op = "put" => ~Punctual(t)')
    <2>1. Own(t)' = Own(t)
      BY <1>1 DEF Own
    <2>2. t = s
      BY <1>2, <2>1, Dedicated DEF World
    <2>3. QED
      BY <2>2 DEF Untimed, Punctual
  <1>3. \A i \in Ids : i \in Ids'
    BY <1>1 DEF Kept, Ids
  <1>4. faults' > 0
    BY <1>1
  <1>5. QED
    BY <1>1, <1>2, <1>3, <1>4 DEF GhostOK, Kept

LEMMA GhostsStep ==
    ASSUME World, [DemoNext]_demoVars
    PROVE  \A g \in ghosts' : GhostOK(g)'
  <1>0. /\ TypeOK /\ HeldReserved /\ ScriptsOK /\ faults \in Nat
        /\ \A g \in ghosts : GhostOK(g)
        /\ \A s \in Scripts : CallsOK(s)
    BY DEF World, IInv, Cast
  <1>1. CASE ghosts' \subseteq ghosts
    BY <1>0, <1>1, GhostStays
  <1>2. ASSUME NEW s \in Scripts, ScriptStep(s)
        PROVE  \A g \in ghosts' : GhostOK(g)'
    <2>1. CASE PutUpserts(s)
      BY <1>1, <2>1 DEF PutUpserts
    <2>2. CASE ReadFails(s) \/ PutTimesOut(s)
      <3> DEFINE h == [op |-> "put", user |-> Step(s).user, limits |-> Step(s).limits, id |-> faults]
      <3>1. /\ "timeout" \in script'[s].blame /\ faults' = faults + 1
            /\ At(s, "put") => "late" \in script'[s].blame
            /\ ghosts' = ghosts \/ (At(s, "put") /\ ghosts' = ghosts \cup {h})
        BY <1>0, <2>2, FailureMoves
      <3>2. CASE ghosts' = ghosts
        BY <1>1, <3>2
      <3>3. CASE At(s, "put") /\ ghosts' = ghosts \cup {h}
        <4>1. Step(s).user \in Users /\ Step(s).limits \in LimitSettings /\ Step(s).user \in Own(s)
          BY <1>0, <3>3, WhereItIs, StepsOwn DEF At, StepFormed
        <4>2. h \in [op : {"put"}, user : Users, limits : LimitSettings, id : Nat] /\ h.user \in Own(s)
          BY <1>0, <4>1
        <4> HIDE DEF h
        <4>3. PICK x : x = h
          OBVIOUS
        <4>4. GhostOK(x)'
          BY <3>1, <3>3, <4>2, <4>3, GhostArises
        <4>5. x \in ghosts' /\ \A g \in ghosts' : g = x \/ g \in ghosts
          BY <3>3, <4>3
        <4>6. QED
          BY <1>0, <4>4, <4>5, GhostStays
      <3>4. QED
        BY <3>1, <3>2, <3>3
    <2>3. CASE ListModels(s) \/ GetLimits(s) \/ EnsureFresh(s) \/ GetUsage(s) \/ Compare(s)
                 \/ PutAnswers(s) \/ Gather(s)
      BY <1>0, <1>1, <2>3, ReadMoves DEF Quiet
    <2>4. QED
      BY <1>2, <2>1, <2>2, <2>3 DEF ScriptStep
  <1>3. ASSUME NEW s \in Scripts, NEW k \in DOMAIN script[s].calls, ChatStep(s, k)
        PROVE  \A g \in ghosts' : GhostOK(g)'
    <2>1. CASE ChatTimesOut(s, k)
      <3> DEFINE c == script[s].calls[k]
                 h == [op |-> "chat", user |-> c.user, row |-> c.row, id |-> faults]
      <3>1. /\ faults' = faults + 1
            /\ ghosts' = ghosts \/ ghosts' = ghosts \cup {h}
            /\ "timeout" \in script'[s].blame
        BY <1>0, <2>1, ChatTimesOutDoes DEF CallGoes
      <3>2. At(s, "chats") /\ c.at \in {"sent", "upstream"} /\ c.user \in Users
        BY <1>0, <2>1, ChatWhere DEF ChatTimesOut
      <3>3. c \in Call /\ c.row \in Nat
        <4>1. script[s].calls \in Seq(Call)
          BY <1>0 DEF ScriptsOK, ScriptState
        <4>2. c \in Call
          BY <4>1
        <4> HIDE DEF c
        <4>3. QED
          BY <4>2, BoundsAssumption DEF Call
      <3>4. c.row # 0 => c.row \in Ids /\ usage_events[c.row].user_id = c.user
        BY <1>0, <3>2 DEF CallsOK
      <3>5. c.user \in Own(s)
        BY <1>0, <3>2, CallsOwn
      <3> HIDE DEF c
      <3>6. CASE ghosts' = ghosts
        BY <1>1, <3>6
      <3>7. CASE ghosts' = ghosts \cup {h}
        <4>1. /\ h \in [op : {"chat"}, user : Users, row : Nat, id : Nat]
              /\ h.user = c.user /\ h.row = c.row /\ h.op # "put"
          BY <1>0, <3>2, <3>3
        <4> HIDE DEF h
        <4>2. PICK x : x = h
          OBVIOUS
        <4>3. GhostOK(x)'
          BY <3>1, <3>4, <3>5, <4>1, <4>2, GhostArises
        <4>4. \A g \in ghosts' : g = x \/ g \in ghosts
          BY <3>7, <4>2
        <4>5. QED
          BY <1>0, <4>3, <4>4, GhostStays
      <3>8. QED
        BY <3>1, <3>6, <3>7
    <2>2. CASE ghosts' = ghosts
      BY <1>1, <2>2
    <2>3. QED
      BY <1>3, <2>1, <2>2 DEF ChatStep, ModelRefused, LimitRejects, ServerReserves,
         ServerAnswers, UpstreamFails, ServerLeavesRow, Quiet
  <1>4. ASSUME NEW g \in ghosts, GhostReserves(g)
        PROVE  \A h \in ghosts' : GhostOK(h)'
    <2>1. /\ AddsRow(g.user) /\ g.op = "chat" /\ GhostOK(g)
          /\ ghosts' = (ghosts \ {g}) \cup {[g EXCEPT !.row = Len(usage_events) + 1]}
          /\ UNCHANGED <<world, script, faults>>
      BY <1>0, <1>4, GhostReservesDoes
    <2>2. Len(usage_events) \in Nat
      BY <1>0 DEF TypeOK
    <2>3. PICK h : h = [g EXCEPT !.row = Len(usage_events) + 1]
      OBVIOUS
    <2>4. /\ g \in [op : {"chat"}, user : Users, row : Nat, id : Nat]
      BY <2>1 DEF GhostOK
    <2>5. /\ h \in [op : {"chat"}, user : Users, row : Nat, id : Nat]
          /\ h.row = Len(usage_events) + 1 /\ h.user = g.user
      BY <2>2, <2>3, <2>4
    <2>6. h.row \in Ids' /\ usage_events'[h.row].user_id = h.user
      BY <2>1, <2>2, <2>5 DEF AddsRow, Ids
    <2>7. /\ faults > 0 /\ h.op # "put"
          /\ \A s \in Scripts : h.user \in Own(s) => ~Untimed(s)
      BY <2>1, <2>5 DEF GhostOK
    <2>8. GhostOK(h)'
      BY <2>1, <2>5, <2>6, <2>7 DEF GhostOK, Own, Untimed, world
    <2>9. \A x \in ghosts' : x = h \/ x \in ghosts
      BY <2>1, <2>3
    <2>10. QED
      BY <1>0, <2>8, <2>9, GhostStays
  <1>5. CASE \E g \in ghosts : GhostVanishes(g) \/ GhostFinalizes(g) \/ GhostUpserts(g)
    BY <1>1, <1>5 DEF GhostVanishes, GhostFinalizes, GhostUpserts
  <1>6. CASE Tick \/ AllowModel \/ UNCHANGED demoVars
    BY <1>1, <1>6 DEF Tick, AllowModel, demoVars
  <1>7. QED
    BY <1>2, <1>3, <1>4, <1>5, <1>6 DEF DemoNext, Over

LEMMA RowsStep ==
    ASSUME World, [DemoNext]_demoVars
    PROVE  /\ \A i \in Ids' : usage_events'[i].model = TextModel
           /\ \A s \in Scripts : RowsOK(s)'
  <1>1. Kept /\ program' = program /\ \A s \in Scripts : RowsOK(s)
    BY RowsKept, ScriptsStep DEF World
  <1>2. \A i \in Ids' : usage_events'[i].model = TextModel
    BY <1>1 DEF World, Kept
  <1>3. \A s \in Scripts : script'[s].start = script[s].start
    <2>0. TypeOK /\ HeldReserved /\ ScriptsOK
      BY DEF World, IInv
    <2>1. ASSUME NEW s \in Scripts, ScriptStep(s)
          PROVE  \A t \in Scripts : script'[t].start = script[t].start
      <3>1. CASE PutUpserts(s)
        BY <2>0, <3>1, PutUpsertsDoes DEF Writes, Others
      <3>2. CASE ReadFails(s) \/ PutTimesOut(s)
        BY <2>0, <3>2, FailureMoves DEF Moves, Goes, Others
      <3>3. CASE ListModels(s) \/ GetLimits(s) \/ EnsureFresh(s) \/ GetUsage(s) \/ Compare(s)
                   \/ PutAnswers(s) \/ Gather(s)
        BY <2>0, <3>3, ReadMoves DEF Moves, Goes, Others
      <3>4. QED
        BY <2>1, <3>1, <3>2, <3>3 DEF ScriptStep
    <2>2. ASSUME NEW s \in Scripts, NEW k \in DOMAIN script[s].calls, ChatStep(s, k)
          PROVE  \A t \in Scripts : script'[t].start = script[t].start
      <3>1. \E at, row, why : CallGoes(s, k, at, row, why)
        BY <2>0, <2>2, ModelRefusedDoes, LimitRejectsDoes, ServerReservesDoes,
           ServerAnswersDoes,
           UpstreamFailsDoes, ServerLeavesRowDoes, ChatTimesOutDoes DEF ChatStep
      <3>2. QED
        BY <3>1 DEF CallGoes, Others
    <2>3. CASE \E g \in ghosts : GhostReserves(g) \/ GhostVanishes(g)
                                 \/ GhostFinalizes(g) \/ GhostUpserts(g)
      BY <2>3 DEF GhostReserves, GhostVanishes, GhostFinalizes, GhostUpserts
    <2>4. CASE Tick
      BY <2>0, <2>4, TickDoes DEF Ages
    <2>5. CASE AllowModel \/ UNCHANGED demoVars
      BY <2>5 DEF AllowModel, demoVars
    <2>6. QED
      BY <2>1, <2>2, <2>3, <2>4, <2>5 DEF DemoNext, Over
  <1>4. ASSUME NEW s \in Scripts PROVE RowsOK(s)'
    <2>1. script'[s].start = script[s].start /\ RowsOK(s)
      BY <1>1, <1>3
    <2>2. script[s].start \in 0 .. Len(usage_events)
      BY <2>1 DEF RowsOK
    <2>3. script'[s].start \in 0 .. Len(usage_events')
      BY <1>1, <2>1, <2>2 DEF Kept
    <2>4. \A i \in 1 .. script[s].start : usage_events'[i] = usage_events[i]
      BY <1>1, <2>1, <2>2 DEF RowsOK, Kept, Ids
    <2>5. FreshUsers(program)' = FreshUsers(program)
      BY <1>1
    <2>6. QED
      BY <1>1, <2>1, <2>3, <2>4, <2>5 DEF RowsOK
  <1>5. QED
    BY <1>2, <1>4

\* Calls that stay as they are.
LEMMA CallsKept ==
    ASSUME World, [DemoNext]_demoVars, NEW s \in Scripts,
           script'[s].calls = script[s].calls, script'[s].pc = script[s].pc,
           script'[s].start = script[s].start
    PROVE  CallsOK(s)'
  <1>1. /\ Kept /\ program' = program /\ CallsOK(s)
        /\ script[s].blame \subseteq script'[s].blame
    BY RowsKept, ScriptsStep, BlameStays DEF World
  <1>2. At(s, "chats")' <=> At(s, "chats")
    BY <1>1 DEF At, Running, Step
  <1>3. Step(s)' = Step(s)
    BY <1>1 DEF Step
  <1>4. AllEnded(s)' <=> AllEnded(s)
    BY DEF AllEnded
  <1>5. \A i \in Ids : i \in Ids'
    BY <1>1 DEF Kept, Ids
  <1>6. QED
    BY <1>1, <1>2, <1>3, <1>4, <1>5 DEF CallsOK, Kept

LEMMA MovesCalls ==
    ASSUME World, [DemoNext]_demoVars, NEW s \in Scripts, Moves(s)
    PROVE  CallsOK(s)'
  <1>1. PICK pc \in 1 .. Len(program[s].steps) + 1 : Goes(s, pc)
    BY DEF Moves
  <1>2. /\ program' = program /\ script'[s].pc = pc
        /\ script'[s].calls = CallsAt(program[s], pc, script[s].calls)
    BY <1>1, ScriptsStep DEF Goes
  <1>3. Formed(program[s]) /\ CallsOK(s)
    BY DEF World, ScriptsOK
  <1>4. CASE pc <= Len(program[s].steps) /\ program[s].steps[pc].op = "chats"
    <2> DEFINE st == program[s].steps[pc]
    <2>1. script'[s].calls = NewCalls(st) /\ Step(s)' = st /\ At(s, "chats")'
      BY <1>2, <1>4 DEF CallsAt, Step, At, Running
    <2>2. /\ DOMAIN NewCalls(st) = DOMAIN st.users
          /\ \A k \in DOMAIN st.users : /\ NewCalls(st)[k].user = st.users[k]
                                        /\ NewCalls(st)[k].at = "sent" /\ NewCalls(st)[k].row = 0
      BY DEF NewCalls
    <2> HIDE DEF st
    <2>3. QED
      BY <2>1, <2>2 DEF CallsOK
  <1>5. CASE ~(pc <= Len(program[s].steps) /\ program[s].steps[pc].op = "chats")
    <2>1. script'[s].calls = script[s].calls /\ ~At(s, "chats")'
      BY <1>2, <1>5 DEF CallsAt, Step, At, Running
    <2>2. AllEnded(s)
      BY <1>3 DEF Moves, CallsOK
    <2>3. /\ \A k \in DOMAIN script[s].calls :
                /\ script[s].calls[k].at \in {"ok", "limited", "failed"}
                /\ script[s].calls[k].at = "failed" => script[s].blame # {}
          /\ AllEnded(s)'
      BY <1>3, <2>1, <2>2 DEF CallsOK, AllEnded, Final
    <2>4. script[s].blame \subseteq script'[s].blame
      BY BlameStays
    <2>5. QED
      BY <2>1, <2>3, <2>4 DEF CallsOK
  <1>6. QED
    BY <1>4, <1>5

LEMMA CallCalls ==
    ASSUME World, [DemoNext]_demoVars, NEW s \in Scripts, NEW k \in DOMAIN script[s].calls,
           NEW at, NEW row, NEW why, CallGoes(s, k, at, row, why), At(s, "chats"),
           at = "sent" => row = 0,
           at = "failed" => why # {},
           at = "upstream" => /\ row = Len(usage_events) + 1
                              /\ AddsRow(script[s].calls[k].user)
    PROVE  CallsOK(s)'
  <1>1. /\ Kept /\ program' = program /\ CallsOK(s) /\ RowsOK(s)
        /\ script[s].blame \subseteq script'[s].blame
    BY RowsKept, ScriptsStep, BlameStays DEF World
  <1>2. At(s, "chats")' /\ Step(s)' = Step(s)
    BY <1>1 DEF CallGoes, At, Running, Step
  <1>3. \A i \in Ids : i \in Ids'
    BY <1>1 DEF Kept, Ids
  <1>4. ASSUME NEW j \in DOMAIN script[s].calls
        PROVE  /\ script'[s].calls[j].user = Step(s).users[j]
               /\ script'[s].calls[j].at = "sent" => script'[s].calls[j].row = 0
               /\ script'[s].calls[j].at = "upstream" =>
                     /\ script'[s].calls[j].row \in Ids'
                     /\ script'[s].calls[j].row > script[s].start
                     /\ usage_events'[script'[s].calls[j].row].user_id = script'[s].calls[j].user
               /\ script'[s].calls[j].at = "failed" => script'[s].blame # {}
    <2>1. CASE j # k
      <3>1. script'[s].calls[j] = script[s].calls[j]
        BY <2>1 DEF CallGoes
      <3>2. QED
        BY <1>1, <1>3, <3>1 DEF CallsOK, Kept
    <2>2. CASE j = k
      <3>1. /\ script'[s].calls[k].user = script[s].calls[k].user
            /\ script'[s].calls[k].at = at /\ script'[s].calls[k].row = row
            /\ script'[s].blame = script[s].blame \cup why
        BY DEF CallGoes
      <3>2. CASE at = "upstream"
        <4>1. row = Len(usage_events) + 1 /\ AddsRow(script[s].calls[k].user)
          BY <3>2
        <4>2. /\ row \in Ids' /\ row > script[s].start
              /\ usage_events'[row].user_id = script[s].calls[k].user
          BY <1>1, <4>1 DEF AddsRow, Kept, RowsOK, Ids
        <4>3. QED
          BY <1>1, <2>2, <3>1, <3>2, <4>2 DEF CallsOK
      <3>3. CASE at # "upstream"
        BY <1>1, <2>2, <3>1, <3>3 DEF CallsOK
      <3>4. QED
        BY <3>2, <3>3
    <2>3. QED
      BY <2>1, <2>2
  <1>5. /\ DOMAIN script'[s].calls = DOMAIN script[s].calls
        /\ DOMAIN script[s].calls = DOMAIN Step(s).users
        /\ script'[s].start = script[s].start
    BY <1>1 DEF CallGoes, CallsOK
  <1>6. QED
    BY <1>2, <1>4, <1>5 DEF CallsOK

LEMMA CallsStep ==
    ASSUME World, [DemoNext]_demoVars
    PROVE  \A s \in Scripts : CallsOK(s)'
  <1>0. TypeOK /\ HeldReserved /\ ScriptsOK
    BY DEF World, IInv
  <1>1. ASSUME NEW s \in Scripts, ScriptStep(s)
        PROVE  CallsOK(s)' /\ Others(s)
    <2>1. CASE PutUpserts(s)
      <3>1. Writes(s)
        BY <1>0, <2>1, PutUpsertsDoes
      <3>2. QED
        BY <3>1, CallsKept DEF Writes
    <2>2. CASE ReadFails(s) \/ PutTimesOut(s)
      <3>1. Moves(s)
        BY <1>0, <2>2, FailureMoves
      <3>2. QED
        BY <3>1, MovesCalls DEF Moves, Goes
    <2>3. CASE ListModels(s) \/ GetLimits(s) \/ EnsureFresh(s) \/ GetUsage(s) \/ Compare(s)
                 \/ PutAnswers(s) \/ Gather(s)
      <3>1. Moves(s)
        BY <1>0, <2>3, ReadMoves
      <3>2. QED
        BY <3>1, MovesCalls DEF Moves, Goes
    <2>4. QED
      BY <1>1, <2>1, <2>2, <2>3 DEF ScriptStep
  <1>2. ASSUME NEW s \in Scripts, NEW k \in DOMAIN script[s].calls, ChatStep(s, k)
        PROVE  CallsOK(s)' /\ Others(s)
    <2>1. \E at, row, why :
             /\ CallGoes(s, k, at, row, why)
             /\ at = "sent" => row = 0
             /\ at = "failed" => why # {}
             /\ at = "upstream" => /\ row = Len(usage_events) + 1
                                   /\ AddsRow(script[s].calls[k].user)
      <3>1. CASE ModelRefused(s, k)
        <4>1. CallGoes(s, k, "failed", 0, {"refused"})
          BY <1>0, <3>1, ModelRefusedDoes
        <4>2. QED
          BY <4>1
      <3>2. CASE LimitRejects(s, k)
        <4>1. CallGoes(s, k, "sent", 0, {}) \/ CallGoes(s, k, "limited", 0, {})
          BY <1>0, <3>2, LimitRejectsDoes
        <4>2. QED
          BY <4>1
      <3>3. CASE ServerReserves(s, k)
        <4>1. /\ CallGoes(s, k, "upstream", Len(usage_events) + 1, {})
              /\ AddsRow(script[s].calls[k].user)
          BY <1>0, <3>3, ServerReservesDoes
        <4>2. QED
          BY <4>1
      <3>4. CASE ServerAnswers(s, k)
        <4>1. CallGoes(s, k, "ok", 0, {})
          BY <1>0, <3>4, ServerAnswersDoes
        <4>2. QED
          BY <4>1
      <3>5. CASE UpstreamFails(s, k)
        <4>1. CallGoes(s, k, "sent", 0, {"outage"}) \/ CallGoes(s, k, "failed", 0, {"outage"})
          BY <1>0, <3>5, UpstreamFailsDoes
        <4>2. QED
          BY <4>1
      <3>6. CASE ServerLeavesRow(s, k)
        <4>1. \/ CallGoes(s, k, "sent", 0, {"outage", "stuck"})
              \/ CallGoes(s, k, "failed", 0, {"outage", "stuck"})
          BY <1>0, <3>6, ServerLeavesRowDoes
        <4>2. QED
          BY <4>1
      <3>7. CASE ChatTimesOut(s, k)
        <4>1. CallGoes(s, k, "sent", 0, {"timeout"}) \/ CallGoes(s, k, "failed", 0, {"timeout"})
          BY <1>0, <3>7, ChatTimesOutDoes
        <4>2. QED
          BY <4>1
      <3>8. QED
        BY <1>2, <3>1, <3>2, <3>3, <3>4, <3>5, <3>6, <3>7 DEF ChatStep
    <2>2. At(s, "chats")
      BY <1>2 DEF ChatStep, ModelRefused, LimitRejects, ServerReserves, ServerAnswers,
                  UpstreamFails, ServerLeavesRow, ChatTimesOut, ChatAt
    <2>3. QED
      BY <2>1, <2>2, CallCalls DEF CallGoes
  <1>3. ASSUME NEW s \in Scripts, CallsOK(s)' /\ Others(s), NEW t \in Scripts
        PROVE  CallsOK(t)'
    <2>1. CASE t = s
      BY <1>3, <2>1
    <2>2. CASE t # s
      <3>1. script'[t] = script[t]
        BY <1>3, <2>2 DEF Others
      <3>2. QED
        BY <3>1, CallsKept
    <2>3. QED
      BY <2>1, <2>2
  <1>4. ASSUME script' = script, NEW t \in Scripts PROVE CallsOK(t)'
    BY <1>4, CallsKept
  <1>5. CASE Tick
    BY <1>0, <1>5, TickDoes, CallsKept DEF Ages
  <1>6. CASE \/ \E g \in ghosts : GhostReserves(g) \/ GhostVanishes(g)
                                  \/ GhostFinalizes(g) \/ GhostUpserts(g)
             \/ AllowModel \/ UNCHANGED demoVars
    <2>1. script' = script
      BY <1>6 DEF GhostReserves, GhostVanishes, GhostFinalizes, GhostUpserts, AllowModel,
         demoVars
    <2>2. QED
      BY <1>4, <2>1
  <1>7. QED
    BY <1>1, <1>2, <1>3, <1>5, <1>6 DEF DemoNext, Over

LEMMA WorldStep == World /\ [DemoNext]_demoVars => World'
  <1> SUFFICES ASSUME World, [DemoNext]_demoVars PROVE World'
    OBVIOUS
  <1>1. [Next]_quotaVars
    BY LedgerStep
  <1>2. IInv' /\ TotalsMatchEvents'
    BY <1>1, IInvStep, TotalsStep DEF World
  <1>3. QED
    BY <1>2, CastStep, ScriptsStep, GhostsStep, RowsStep, CallsStep DEF World

\* A set of n elements, as a sequence of n.
LEMMA SetAsSequence ==
    ASSUME NEW S, IsFiniteSet(S)
    PROVE  /\ Cardinality(S) \in Nat
           /\ SetToSeq(S) \in [1 .. Cardinality(S) -> S]
           /\ \A i, j \in 1 .. Cardinality(S) : SetToSeq(S)[i] = SetToSeq(S)[j] => i = j
           /\ \A x \in S : \E i \in 1 .. Cardinality(S) : SetToSeq(S)[i] = x
  <1> DEFINE n == Cardinality(S)
  <1>1. n \in Nat
    BY FS_CardinalityType
  <1>2. PICK m \in Nat : ExistsBijection(1 .. m, S)
    BY FS_NatBijection
  <1>3. m = n
    BY <1>2, FS_CountingElements
  <1>4. \E f \in [1 .. n -> S] : IsInjective(f)
    BY <1>2, <1>3 DEF ExistsBijection, Bijection, Injection
  <1>5. SetToSeq(S) \in [1 .. n -> S] /\ IsInjective(SetToSeq(S))
    BY <1>4 DEF SetToSeq
  <1>6. SetToSeq(S) \in Injection(1 .. n, S) /\ DOMAIN SetToSeq(S) = 1 .. n
    BY <1>5 DEF Injection
  <1>7. Cardinality(1 .. n) = n
    BY <1>1, FS_Interval
  <1>8. SetToSeq(S) \in Surjection(1 .. n, S)
    <2> DEFINE f == SetToSeq(S)
               T == 1 .. n
    <2> HIDE DEF f, T
    <2>1. f \in Injection(T, S) /\ Cardinality(T) = Cardinality(S)
      BY <1>6, <1>7 DEF f, T
    <2>2. f \in Surjection(T, S)
      BY <2>1, FS_Injection
    <2>3. QED
      BY <2>2 DEF f, T
  <1>9. QED
    BY <1>1, <1>5, <1>6, <1>8 DEF IsInjective, Surjection

EarlierRow(u) == [user_id |-> u, model |-> TextModel, total_tokens |-> 0,
                  status |-> "success", timestamp |-> 0]

LEMMA EarlierRows ==
    ASSUME NEW old \in SUBSET Users,
           usage_events = SetToSeq({EarlierRow(u) : u \in old})
    PROVE  /\ usage_events \in Seq(Event)
           /\ \A i \in Ids : \E u \in old : usage_events[i] = EarlierRow(u)
           /\ \A u \in old : \E i \in Ids : usage_events[i] = EarlierRow(u)
           /\ \A i, j \in Ids : usage_events[i] = usage_events[j] => i = j
  <1> DEFINE R == {EarlierRow(u) : u \in old}
             f == [u \in old |-> EarlierRow(u)]
  <1>1. \A u \in Users : EarlierRow(u) \in Event /\ EarlierRow(u).user_id = u
    BY TextModelAssumption, BoundsAssumption DEF EarlierRow, Event, Statuses, Times
  <1>2. IsFiniteSet(old)
    BY FiniteAssumption, FS_Subset
  <1>3. f \in Bijection(old, R)
    <2>1. f \in [old -> R] /\ \A u \in old : f[u] = EarlierRow(u)
      OBVIOUS
    <2>2. \A u, v \in old : f[u] = f[v] => u = v
      BY <1>1
    <2>3. \A r \in R : \E u \in old : f[u] = r
      OBVIOUS
    <2> HIDE DEF f, R
    <2>4. QED
      BY <2>1, <2>2, <2>3 DEF Bijection, Injection, Surjection, IsInjective
  <1>4. IsFiniteSet(R)
    <2> HIDE DEF f, R
    <2>1. ExistsBijection(old, R)
      BY <1>3 DEF ExistsBijection
    <2>2. QED
      BY <1>2, <2>1, FS_Bijection
  <1>5. /\ Cardinality(R) \in Nat /\ usage_events \in [1 .. Cardinality(R) -> R]
        /\ \A i, j \in 1 .. Cardinality(R) : usage_events[i] = usage_events[j] => i = j
        /\ \A x \in R : \E i \in 1 .. Cardinality(R) : usage_events[i] = x
    <2> HIDE DEF R
    <2>1. usage_events = SetToSeq(R)
      BY DEF R
    <2>2. /\ Cardinality(R) \in Nat /\ SetToSeq(R) \in [1 .. Cardinality(R) -> R]
          /\ \A i, j \in 1 .. Cardinality(R) : SetToSeq(R)[i] = SetToSeq(R)[j] => i = j
          /\ \A x \in R : \E i \in 1 .. Cardinality(R) : SetToSeq(R)[i] = x
      BY <1>4, SetAsSequence
    <2>3. QED
      BY <2>1, <2>2
  <1>6. R \in SUBSET Event
    BY <1>1
  <1>7. usage_events \in Seq(R) /\ Len(usage_events) = Cardinality(R)
    <2> HIDE DEF R
    <2>1. QED
      BY <1>5
  <1>8. usage_events \in Seq(Event)
    <2> HIDE DEF R
    <2>1. usage_events \in [1 .. Cardinality(R) -> Event]
      BY <1>5, <1>6
    <2>2. QED
      BY <1>5, <2>1
  <1>9. Ids = 1 .. Cardinality(R)
    BY <1>7 DEF Ids
  <1>10. \A i \in Ids : usage_events[i] \in R
    <2> HIDE DEF R
    <2>1. QED
      BY <1>5, <1>9
  <1>11. \A u \in old : EarlierRow(u) \in R
    OBVIOUS
  <1>12. \A u \in old : \E i \in Ids : usage_events[i] = EarlierRow(u)
    <2> HIDE DEF R
    <2>1. QED
      BY <1>5, <1>9, <1>11
  <1>13. QED
    BY <1>5, <1>8, <1>9, <1>10, <1>12

\* Rows with no tokens add up to none.
LEMMA NoTokens ==
    ASSUME NEW ev \in Seq(Event), NEW i \in 1 .. Len(ev), ev[i].total_tokens = 0
    PROVE  TokensOf(ev, {}) = 0 /\ TokensOf(ev, {i}) = 0
  <1>1. TokensOf(ev, {}) = 0
    <2>1. DOMAIN [j \in {} |-> ev[j].total_tokens] = {}
      OBVIOUS
    <2>2. QED
      BY <2>1, SumOfNone DEF TokensOf, SumFunction
  <1>2. TokensOf(ev, {i}) = ev[i].total_tokens + TokensOf(ev, {i} \ {i})
    BY TokensApart
  <1>3. {i} \ {i} = {}
    OBVIOUS
  <1>4. TokensOf(ev, {i} \ {i}) = 0
    BY <1>1, <1>3
  <1>5. QED
    BY <1>1, <1>2, <1>4

LEMMA NoRows == TokensOf(usage_events, {}) = 0
  <1>1. DOMAIN [j \in {} |-> usage_events[j].total_tokens] = {}
    OBVIOUS
  <1>2. QED
    BY <1>1, SumOfNone DEF TokensOf, SumFunction

LEMMA ZeroDate == 0 \in Dates
  <1>1. 0 \in Times /\ Date(0) = 0
    BY BoundsAssumption, DayAssumption DEF Times, Date
  <1>2. QED
    BY <1>1 DEF Dates

LEMMA WorldInit == DemoInit => World
  <1> SUFFICES ASSUME DemoInit PROVE World
    OBVIOUS
  <1>1. PICK l \in LineUps :
            /\ program = l.programs
            /\ model_allowlist = l.allowlist
            /\ installed = l.installed
            /\ LET old == IF l.old THEN FreshUsers(program) ELSE {}
               IN
               /\ usage_events = SetToSeq({[user_id |-> u, model |-> TextModel,
                    total_tokens |-> 0, status |-> "success", timestamp |-> 0] : u \in old})
               /\ usage_totals = [u \in Users |-> [m \in Models |->
                    [total_tokens |-> 0,
                     request_count |-> IF u \in old /\ m = TextModel THEN 1 ELSE 0]]]
    BY DEF DemoInit
  <1> DEFINE old == IF l.old THEN FreshUsers(program) ELSE {}
  <1>2. old \in SUBSET Users /\ old \subseteq FreshUsers(program)
    BY DEF FreshUsers
  <1>3. /\ usage_events \in Seq(Event)
        /\ \A i \in Ids : \E u \in old : usage_events[i] = EarlierRow(u)
        /\ \A u \in old : \E i \in Ids : usage_events[i] = EarlierRow(u)
        /\ \A i, j \in Ids : usage_events[i] = usage_events[j] => i = j
    <2>1. usage_events = SetToSeq({EarlierRow(u) : u \in old})
      BY <1>1 DEF EarlierRow
    <2> HIDE DEF old
    <2>2. QED
      BY <1>2, <2>1, EarlierRows
  <1>4. usage_totals = [u \in Users |-> [m \in Models |->
            [total_tokens |-> 0, request_count |-> IF u \in old /\ m = TextModel THEN 1 ELSE 0]]]
    BY <1>1
  <1> HIDE DEF old
  <1>5. Len(usage_events) \in Nat /\ Ids = 1 .. Len(usage_events)
    BY <1>3 DEF Ids
  <1>6. \A u : /\ EarlierRow(u).user_id = u /\ EarlierRow(u).model = TextModel
               /\ EarlierRow(u).status = "success" /\ EarlierRow(u).total_tokens = 0
    BY DEF EarlierRow
  <1>7. IInv
    <2>1. usage_totals \in [Users -> [Models -> Total]]
      BY <1>4 DEF Total
    <2>2. user_limits \in [Users -> Limits] /\ now \in Times /\ held \subseteq Ids
      BY BoundsAssumption DEF DemoInit, Unlimited, Limits, Limit, Times
    <2>3. granted \in Seq(Grant) /\ Len(granted) = Len(usage_events)
          /\ \A i \in Ids : granted[i].limits = Unlimited
      <3>1. [estimate |-> 0, limits |-> Unlimited, window_end |-> 0, day |-> 0] \in Grant
        <4>1. 0 \in Times /\ 0 \in Dates
          BY BoundsAssumption, ZeroDate DEF Times
        <4>2. QED
          BY <4>1 DEF Grant, Unlimited, Limits, Limit
      <3>2. granted = [i \in Ids |-> [estimate |-> 0, limits |-> Unlimited,
                                     window_end |-> 0, day |-> 0]]
        BY DEF DemoInit
      <3>3. granted \in [1 .. Len(usage_events) -> Grant]
        BY <1>5, <3>1, <3>2
      <3>4. QED
        BY <1>5, <3>2, <3>3
    <2>4. HeldReserved
      BY DEF DemoInit, HeldReserved
    <2>5. WithinRateLimit
      BY <2>3 DEF WithinRateLimit, Unlimited
    <2>6. QED
      BY <1>3, <2>1, <2>2, <2>3, <2>4, <2>5 DEF IInv, TypeOK
  <1>8. TotalsMatchEvents
    <2>1. ASSUME NEW u \in Users, NEW m \in Models PROVE Matches(u, m)
      <3>1. CASE u \in old /\ m = TextModel
        <4>1. PICK i \in Ids : usage_events[i] = EarlierRow(u)
          BY <1>3, <3>1
        <4>2. SuccessRows(u, m) = {i}
          BY <1>3, <1>6, <3>1, <4>1 DEF SuccessRows
        <4>3. Cardinality({i}) = 1
          BY FS_Singleton
        <4>4. TokensOf(usage_events, {i}) = 0
          BY <1>3, <1>5, <1>6, <4>1, NoTokens
        <4>5. QED
          BY <1>4, <3>1, <4>2, <4>3, <4>4 DEF Matches
      <3>2. CASE ~(u \in old /\ m = TextModel)
        <4>1. SuccessRows(u, m) = {}
          BY <1>3, <1>6, <3>2 DEF SuccessRows
        <4>2. Cardinality({}) = 0
          BY FS_EmptySet
        <4>3. QED
          BY <1>4, <3>2, <4>1, <4>2, NoRows DEF Matches
      <3>3. QED
        BY <3>1, <3>2
    <2>2. QED
      BY <2>1, MatchesMeans
  <1>9. Cast
    BY <1>1, LineUpsAssumption, DemoBounds DEF DemoInit, Cast
  <1>10. \A s \in Scripts :
             script[s] = [pc |-> 1, failed |-> FALSE, put |-> "none", calls |-> <<>>,
                before |-> [u \in Users |-> 0], after |-> [u \in Users |-> 0],
                start |-> Len(usage_events), fresh |-> -1, blame |-> {}]
    BY DEF DemoInit
  <1>11. ScriptsOK
    <2>1. \A s \in Scripts : Formed(program[s])
      BY <1>9, CastFormed
    <2>2. <<>> \in Seq(Call)
      OBVIOUS
    <2>3. ASSUME NEW s \in Scripts PROVE script[s] \in ScriptState
      <3> DEFINE none == [u \in Users |-> 0]
      <3>1. none \in [Users -> Nat] /\ -1 \in Times \cup {-1} /\ {} \in SUBSET Causes /\ 1 \in Nat
        OBVIOUS
      <3>2. script[s] = [pc |-> 1, failed |-> FALSE, put |-> "none", calls |-> <<>>,
                before |-> none, after |-> none,
                start |-> Len(usage_events), fresh |-> -1, blame |-> {}]
        BY <1>10
      <3> HIDE DEF none
      <3>3. PICK m : m = -1
        OBVIOUS
      <3>4. PICK q : q = <<>>
        OBVIOUS
      <3>5. q \in Seq(Call) /\ m \in Times \cup {-1}
        BY <2>2, <3>1, <3>3, <3>4
      <3>6. script[s] = [pc |-> 1, failed |-> FALSE, put |-> "none", calls |-> q,
                before |-> none, after |-> none,
                start |-> Len(usage_events), fresh |-> m, blame |-> {}]
        BY <3>2, <3>3, <3>4
      <3>7. QED
        BY <1>5, <3>1, <3>5, <3>6 DEF ScriptState
    <2>4. script \in [Scripts -> ScriptState]
      BY <2>3 DEF DemoInit
    <2>5. QED
      BY <1>10, <2>1, <2>4 DEF ScriptsOK, Formed
  <1>12. \A i \in Ids : usage_events[i].model = TextModel
    BY <1>3, <1>6
  <1>13. ASSUME NEW s \in Scripts PROVE CallsOK(s) /\ RowsOK(s)
    <2>1. script[s].calls = <<>> /\ script[s].start = Len(usage_events) /\ script[s].pc = 1
      BY <1>10
    <2>2. DOMAIN script[s].calls = {}
      BY <2>1
    <2>3. ~At(s, "chats")
      <3>1. Formed(program[s])
        BY <1>11 DEF ScriptsOK
      <3>2. QED
        BY <2>1, <3>1 DEF At, Formed, Step
    <2>4. RowsOK(s)
      BY <1>2, <1>3, <1>5, <1>6, <2>1 DEF RowsOK
    <2>5. QED
      BY <2>2, <2>3, <2>4 DEF CallsOK, AllEnded
  <1>14. ghosts = {}
    BY DEF DemoInit
  <1>15. QED
    BY <1>7, <1>8, <1>9, <1>11, <1>12, <1>13, <1>14 DEF World

LEMMA WorldHolds == DemoSpec => []World
  BY WorldInit, WorldStep, PTL DEF DemoSpec

LEMMA TypesOfWorld == World => DemoTypeOK
  <1> SUFFICES ASSUME World PROVE DemoTypeOK
    OBVIOUS
  <1>1. ASSUME NEW g \in ghosts PROVE g.op \in {"put", "chat"} /\ g.user \in Users
    <2>1. GhostOK(g)
      BY DEF World
    <2>2. QED
      BY <2>1 DEF GhostOK
  <1>2. QED
    BY <1>1 DEF World, Cast, ScriptsOK, DemoTypeOK

\* Whatever the scripts are, in whatever order their calls and the server's
\* leftovers are handled, scripts, calls and leftovers are well typed: no call
\* is retried beyond max_retries, and no row number leaves the ledger.
THEOREM DemoTypesHold == DemoSpec => []DemoTypeOK
  BY WorldHolds, TypesOfWorld, PTL

-----------------------------------------------------------------------------
(***************************************************************************)
(* Interference.  What a script does not do itself leaves the rows of its  *)
(* users alone, until a call of it has timed out, and their limits, until  *)
(* a PUT of it has.                                                        *)
(***************************************************************************)
Stands(s) ==
    /\ script'[s].pc = script[s].pc /\ script'[s].put = script[s].put
    /\ script'[s].calls = script[s].calls
    /\ script'[s].start = script[s].start
    /\ script'[s].failed = script[s].failed
    /\ script'[s].before = script[s].before /\ script'[s].after = script[s].after
    /\ script'[s].fresh = script[s].fresh

\* The rows and limits of its users.
LimitsKept(s) == \A u \in Own(s) : user_limits'[u] = user_limits[u]

OwnKept(s) ==
    /\ LimitsKept(s)
    /\ \A i \in Ids : usage_events[i].user_id \in Own(s) => usage_events'[i] = usage_events[i]
    /\ \A i \in Ids' \ Ids : usage_events'[i].user_id \notin Own(s)

Bystands(s) ==
    /\ Stands(s)
    /\ \/ script'[s].blame = script[s].blame /\ now' = now
       \/ Ages(s) /\ now' = now + 1
    /\ Untimed(s) => OwnKept(s)
    /\ Punctual(s) => LimitsKept(s)

LEMMA AddsElsewhere ==
    ASSUME TypeOK, NEW s \in Scripts, NEW u, AddsRow(u), u \notin Own(s)
    PROVE  OwnKept(s)
  <1>1. Ids' \ Ids \subseteq {Len(usage_events) + 1}
    BY DEF AddsRow, Ids, TypeOK
  <1>2. QED
    BY <1>1 DEF AddsRow, OwnKept, LimitsKept

LEMMA SettlesElsewhere ==
    ASSUME TypeOK, NEW s \in Scripts, NEW i, NEW status, Settles(i, status),
           usage_events[i].user_id \notin Own(s)
    PROVE  OwnKept(s)
  <1>1. Ids' = Ids
    BY DEF Settles, Ids
  <1>2. QED
    BY <1>1 DEF Settles, OwnKept, LimitsKept

LEMMA LimitsElsewhere ==
    ASSUME TypeOK, NEW s \in Scripts, NEW u \in Users, NEW limits, UpdateLimits(u, limits),
           u \notin Own(s), Own(s) \subseteq Users
    PROVE  OwnKept(s)
  BY DEF UpdateLimits, OwnKept, LimitsKept, Ids, TypeOK

LEMMA SameElsewhere ==
    ASSUME NEW s \in Scripts, UNCHANGED tables
    PROVE  OwnKept(s)
  BY DEF tables, OwnKept, LimitsKept, Ids

LEMMA OwnUsers == ASSUME NEW s \in Scripts PROVE Own(s) \subseteq Users
  BY DEF Own, UsersOf

\* Another script.
LEMMA OtherActs ==
    ASSUME World, NEW s \in Scripts, NEW t \in Scripts, s # t,
           ScriptStep(t) \/ \E k \in DOMAIN script[t].calls : ChatStep(t, k)
    PROVE  script'[s] = script[s] /\ now' = now /\ OwnKept(s)
  <1>0. /\ TypeOK /\ HeldReserved /\ ScriptsOK /\ Cast /\ CallsOK(t)
        /\ Own(s) \cap Own(t) = {} /\ Own(s) \subseteq Users
    BY Dedicated, OwnUsers DEF World, IInv
  <1>1. CASE ScriptStep(t)
    <2>1. CASE PutUpserts(t)
      <3>1. /\ At(t, "put") /\ UpdateLimits(Step(t).user, Step(t).limits) /\ Writes(t)
        BY <1>0, <2>1, PutUpsertsDoes
      <3>2. Step(t).user \in Own(t) /\ Own(t) \subseteq Users
        BY <1>0, <3>1, StepsOwn DEF At
      <3>3. OwnKept(s)
        BY <1>0, <3>1, <3>2, LimitsElsewhere
      <3>4. QED
        BY <3>1, <3>3 DEF Writes, Others, UpdateLimits
    <2>2. CASE ReadFails(t) \/ PutTimesOut(t)
      BY <1>0, <2>2, FailureMoves, SameElsewhere DEF Moves, Goes, Others, quotaVars, tables
    <2>3. CASE ListModels(t) \/ GetLimits(t) \/ EnsureFresh(t) \/ GetUsage(t) \/ Compare(t)
                 \/ PutAnswers(t) \/ Gather(t)
      BY <1>0, <2>3, ReadMoves, SameElsewhere DEF Moves, Goes, Others, Quiet, quotaVars, tables
    <2>4. QED
      BY <1>1, <2>1, <2>2, <2>3 DEF ScriptStep
  <1>2. ASSUME NEW k \in DOMAIN script[t].calls, ChatStep(t, k)
        PROVE  script'[s] = script[s] /\ now' = now /\ OwnKept(s)
    <2>1. \E at, row, why : CallGoes(t, k, at, row, why)
      BY <1>0, <1>2, ModelRefusedDoes, LimitRejectsDoes, ServerReservesDoes, ServerAnswersDoes,
         UpstreamFailsDoes, ServerLeavesRowDoes, ChatTimesOutDoes DEF ChatStep
    <2>2. script'[s] = script[s]
      BY <2>1 DEF CallGoes, Others
    <2>3. At(t, "chats")
      BY <1>2 DEF ChatStep, ModelRefused, LimitRejects, ServerReserves, ServerAnswers,
                  UpstreamFails, ServerLeavesRow, ChatTimesOut, ChatAt
    <2>4. script[t].calls[k].user \notin Own(s)
      BY <1>0, <2>3, CallsOwn
    <2>5. CASE ServerReserves(t, k)
      <3>1. AddsRow(script[t].calls[k].user)
        BY <1>0, <2>5, ServerReservesDoes
      <3>2. QED
        BY <1>0, <2>2, <2>4, <3>1, AddsElsewhere DEF AddsRow
    <2>6. CASE ServerAnswers(t, k) \/ UpstreamFails(t, k)
      <3>1. /\ script[t].calls[k].at = "upstream"
            /\ \E status : Settles(script[t].calls[k].row, status)
        BY <1>0, <2>6, ServerAnswersDoes, UpstreamFailsDoes DEF ChatAt
      <3>2. usage_events[script[t].calls[k].row].user_id \notin Own(s)
        BY <1>0, <2>4, <3>1 DEF CallsOK
      <3>3. QED
        BY <1>0, <2>2, <3>1, <3>2, SettlesElsewhere DEF Settles
    <2>7. CASE ModelRefused(t, k) \/ LimitRejects(t, k) \/ ChatTimesOut(t, k)
      BY <2>2, <2>7, SameElsewhere DEF ModelRefused, LimitRejects, ChatTimesOut, Quiet,
                                        quotaVars, tables
    <2>8. CASE ServerLeavesRow(t, k)
      BY <1>0, <2>2, <2>8, ServerLeavesRowDoes, SameElsewhere
    <2>9. QED
      BY <1>2, <2>5, <2>6, <2>7, <2>8 DEF ChatStep
  <1>3. QED
    BY <1>1, <1>2

\* The server with a leftover.
LEMMA GhostActs ==
    ASSUME World, NEW s \in Scripts, NEW g \in ghosts,
           GhostReserves(g) \/ GhostVanishes(g) \/ GhostFinalizes(g) \/ GhostUpserts(g)
    PROVE  /\ script'[s] = script[s] /\ now' = now
           /\ Untimed(s) => OwnKept(s)
           /\ Punctual(s) => LimitsKept(s)
  <1>0. /\ TypeOK /\ HeldReserved /\ GhostOK(g) /\ Own(s) \subseteq Users
    BY OwnUsers DEF World, IInv
  <1>1. Untimed(s) => g.user \notin Own(s)
    BY <1>0 DEF GhostOK
  <1>2. CASE GhostReserves(g)
    BY <1>0, <1>1, <1>2, GhostReservesDoes, AddsElsewhere DEF AddsRow, LimitsKept
  <1>3. CASE GhostVanishes(g)
    <2>1. OwnKept(s)
      BY <1>3, SameElsewhere DEF GhostVanishes, quotaVars, tables
    <2>2. QED
      BY <1>3, <2>1 DEF GhostVanishes, quotaVars, tables, OwnKept
  <1>4. CASE GhostFinalizes(g)
    <2>1. /\ usage_events[g.row].user_id = g.user
          /\ script' = script
          /\ \/ \E status \in {"success", "failed"} : Settles(g.row, status)
             \/ UNCHANGED <<tables, now>>
      BY <1>0, <1>4, GhostFinalizesDoes
    <2>2. CASE \E status \in {"success", "failed"} : Settles(g.row, status)
      BY <1>0, <1>1, <2>1, <2>2, SettlesElsewhere DEF Settles, LimitsKept
    <2>3. CASE UNCHANGED <<tables, now>>
      <3>1. OwnKept(s)
        BY <2>3, SameElsewhere
      <3>2. QED
        BY <2>1, <2>3, <3>1 DEF OwnKept
    <2>4. QED
      BY <2>1, <2>2, <2>3
  <1>5. CASE GhostUpserts(g)
    <2>1. /\ g.user \in Users /\ UpdateLimits(g.user, g.limits) /\ script' = script
          /\ g.op = "put"
      BY <1>0, <1>5 DEF GhostUpserts, GhostOK
    <2>2. g.user \in Own(s) => ~Untimed(s) /\ ~Punctual(s)
      BY <1>0, <2>1 DEF GhostOK
    <2>3. g.user \notin Own(s) => OwnKept(s)
      BY <1>0, <2>1, LimitsElsewhere
    <2>4. QED
      BY <2>1, <2>2, <2>3 DEF UpdateLimits, OwnKept
  <1>6. QED
    BY <1>2, <1>3, <1>4, <1>5

\* For each script, a step is its own or it stands by.
LEMMA ActsOrStands ==
    ASSUME World, [DemoNext]_demoVars, NEW s \in Scripts
    PROVE  \/ ScriptStep(s)
           \/ \E k \in DOMAIN script[s].calls : ChatStep(s, k)
           \/ Bystands(s)
  <1>0. ScriptsOK
    BY DEF World
  <1>1. ASSUME NEW t \in Scripts,
               ScriptStep(t) \/ \E k \in DOMAIN script[t].calls : ChatStep(t, k)
        PROVE  \/ ScriptStep(s)
               \/ \E k \in DOMAIN script[s].calls : ChatStep(s, k)
               \/ Bystands(s)
    <2>1. CASE t = s
      BY <1>1, <2>1
    <2>2. CASE t # s
      BY <1>1, <2>2, OtherActs DEF Bystands, Stands, OwnKept
    <2>3. QED
      BY <2>1, <2>2
  <1>2. ASSUME NEW g \in ghosts, GhostReserves(g) \/ GhostVanishes(g)
                                 \/ GhostFinalizes(g) \/ GhostUpserts(g)
        PROVE  Bystands(s)
    BY <1>2, GhostActs DEF Bystands, Stands
  <1>3. CASE Tick
    BY <1>0, <1>3, TickDoes, SameElsewhere DEF Bystands, Ages, Stands, OwnKept
  <1>4. CASE AllowModel \/ UNCHANGED demoVars
    <2>1. OwnKept(s)
      BY <1>4, SameElsewhere DEF AllowModel, demoVars, quotaVars, tables
    <2>2. QED
      BY <1>4, <2>1 DEF AllowModel, demoVars, quotaVars, Bystands, Stands, OwnKept
  <1>5. QED
    BY <1>1, <1>2, <1>3, <1>4 DEF DemoNext, Over

\* In particular, what a script reads of its users' rows.
CountedOf(u) == CountedRows(u, Len(usage_events))

LEMMA OwnRows ==
    ASSUME World, [DemoNext]_demoVars, NEW s \in Scripts, OwnKept(s), NEW u \in Own(s)
    PROVE  CountedOf(u)' = CountedOf(u)
  <1>1. Kept /\ Len(usage_events) \in Nat
    BY RowsKept DEF Kept
  <1>2. \A i : i \in CountedOf(u)' <=> i \in CountedOf(u)
    BY <1>1 DEF CountedOf, CountedRows, Counted, OwnKept, Kept, Ids
  <1>3. QED
    BY <1>2

\* A script that is where it was.
LEMMA StaysThere ==
    ASSUME NEW s \in Scripts, program' = program, script'[s].pc = script[s].pc
    PROVE  /\ Running(s)' <=> Running(s)
           /\ Step(s)' = Step(s)
           /\ \A op : At(s, op)' <=> At(s, op)
  BY DEF Running, Step, At

\* A call changes nothing else of its script, and no limits.
ChatActs(s) ==
    /\ At(s, "chats")
    /\ script'[s].pc = script[s].pc /\ script'[s].put = script[s].put
    /\ script'[s].failed = script[s].failed
    /\ script'[s].before = script[s].before /\ script'[s].after = script[s].after
    /\ script'[s].start = script[s].start /\ script'[s].fresh = script[s].fresh
    /\ user_limits' = user_limits /\ now' = now
    /\ "refused" \in script'[s].blame =>
           "refused" \in script[s].blame \/ Bare(TextModel) \notin model_allowlist

LEMMA CallActs ==
    ASSUME NEW s \in Scripts, NEW k, NEW at, NEW row, NEW why, CallGoes(s, k, at, row, why),
           At(s, "chats"), user_limits' = user_limits, now' = now,
           "refused" \in why => Bare(TextModel) \notin model_allowlist
    PROVE  ChatActs(s)
  <1>1. script'[s].blame = script[s].blame \cup why
    BY DEF CallGoes
  <1>2. QED
    BY <1>1 DEF CallGoes, ChatActs

LEMMA ChatStepActs ==
    ASSUME World, NEW s \in Scripts, NEW k, ChatStep(s, k)
    PROVE  ChatActs(s)
  <1>0. TypeOK /\ HeldReserved /\ ScriptsOK
    BY DEF World, IInv
  <1>1. CASE ModelRefused(s, k)
    BY <1>0, <1>1, ModelRefusedDoes, CallActs DEF ChatAt, Quiet, quotaVars, tables
  <1>2. CASE LimitRejects(s, k)
    BY <1>0, <1>2, LimitRejectsDoes, CallActs DEF ChatAt, Quiet, quotaVars, tables
  <1>3. CASE ServerReserves(s, k)
    BY <1>0, <1>3, ServerReservesDoes, CallActs DEF ChatAt, AddsRow
  <1>4. CASE ServerAnswers(s, k)
    BY <1>0, <1>4, ServerAnswersDoes, CallActs DEF ChatAt, Settles
  <1>5. CASE UpstreamFails(s, k)
    BY <1>0, <1>5, UpstreamFailsDoes, CallActs DEF ChatAt, Settles
  <1>6. CASE ChatTimesOut(s, k)
    BY <1>0, <1>6, ChatTimesOutDoes, CallActs DEF ChatAt, quotaVars, tables
  <1>7. CASE ServerLeavesRow(s, k)
    BY <1>0, <1>7, ServerLeavesRowDoes, CallActs DEF ChatAt, tables
  <1>8. QED
    BY <1>1, <1>2, <1>3, <1>4, <1>5, <1>6, <1>7 DEF ChatStep

\* A step that reads does not time out.
LEMMA ReadsInTime ==
    ASSUME TypeOK, ScriptsOK, NEW s \in Scripts,
           ListModels(s) \/ GetLimits(s) \/ EnsureFresh(s) \/ GetUsage(s) \/ Compare(s)
             \/ PutAnswers(s) \/ Gather(s)
    PROVE  Untimed(s) => Untimed(s)'
  <1>1. CASE ListModels(s)
    BY <1>1, ListModelsDoes DEF GoesOn, Raises, Untimed
  <1>2. CASE GetLimits(s)
    BY <1>2, GetLimitsDoes DEF GoesOn, Raises, Untimed
  <1>3. CASE EnsureFresh(s)
    <2>1. CASE FindsFresh(s)
      BY <2>1 DEF FindsFresh, Untimed
    <2>2. CASE Raises(s, {"stale"})
      BY <2>2 DEF Raises, Untimed
    <2>3. QED
      BY <1>3, <2>1, <2>2, EnsureFreshDoes
  <1>4. CASE GetUsage(s)
    BY <1>4, GetUsageDoes DEF Measures, GoesOn, Raises, Untimed
  <1>5. CASE Compare(s)
    BY <1>5, CompareDoes DEF GoesOn, FailsOn, Raises, Untimed
  <1>6. CASE PutAnswers(s)
    BY <1>6, PutAnswersDoes DEF GoesOn, Untimed
  <1>7. CASE Gather(s)
    BY <1>7, GatherDoes DEF GoesOn, Raises, Untimed
  <1>8. QED
    BY <1>1, <1>2, <1>3, <1>4, <1>5, <1>6, <1>7

\* What a step of the system is for script s.
Reads(s) ==
    /\ ListModels(s) \/ GetLimits(s) \/ EnsureFresh(s) \/ GetUsage(s) \/ Compare(s)
         \/ PutAnswers(s) \/ Gather(s)
    /\ Moves(s) /\ Quiet
    /\ Untimed(s) => Untimed(s)'

WritesLimits(s) ==
    /\ At(s, "put") /\ script[s].put = "none"
    /\ UpdateLimits(Step(s).user, Step(s).limits)
    /\ Writes(s) /\ UNCHANGED <<ghosts, faults>>

TimesOut(s) ==
    /\ Moves(s) /\ UNCHANGED quotaVars
    /\ \E why : Raises(s, why)
    /\ ~Untimed(s)'
    /\ At(s, "put") => ~Punctual(s)'

LEMMA ScriptActs ==
    ASSUME World, NEW s \in Scripts, ScriptStep(s)
    PROVE  Reads(s) \/ WritesLimits(s) \/ TimesOut(s)
  <1>0. TypeOK /\ ScriptsOK
    BY DEF World, IInv
  <1>1. CASE PutUpserts(s)
    BY <1>0, <1>1, PutUpsertsDoes DEF WritesLimits
  <1>2. CASE ReadFails(s) \/ PutTimesOut(s)
    BY <1>0, <1>2, FailureMoves, ReadFailsDoes, PutTimesOutDoes DEF TimesOut, Untimed, Punctual
  <1>3. CASE ListModels(s) \/ GetLimits(s) \/ EnsureFresh(s) \/ GetUsage(s) \/ Compare(s)
               \/ PutAnswers(s) \/ Gather(s)
    BY <1>0, <1>3, ReadMoves, ReadsInTime DEF Reads
  <1>4. QED
    BY <1>1, <1>2, <1>3 DEF ScriptStep

LEMMA Acts ==
    ASSUME World, [DemoNext]_demoVars, NEW s \in Scripts
    PROVE  \/ Reads(s) \/ WritesLimits(s) \/ TimesOut(s)
           \/ ChatActs(s) \/ Bystands(s)
  BY ScriptActs, ChatStepActs, ActsOrStands

-----------------------------------------------------------------------------
(***************************************************************************)
(* Cleaning up.  A limit that is left is one the finally block clears: the *)
(* script is between the step that enters the block and the block.         *)
(***************************************************************************)
CleanUpOK(s) ==
    LET p == program[s] IN
    Punctual(s) /\ p.finally <= Len(p.steps) =>
        \A u \in Own(s) : user_limits[u] # Unlimited =>
            /\ script[s].pc \in p.guard .. p.finally
            /\ p.steps[p.finally] = Clear(u)
            /\ script[s].pc = p.finally => script[s].put = "none"

LEMMA CleanUpStep ==
    ASSUME World, [DemoNext]_demoVars, NEW s \in Scripts, CleanUpOK(s)
    PROVE  CleanUpOK(s)'
  <1> DEFINE p == program[s]
             pc == script[s].pc
  <1>0. /\ TypeOK /\ ScriptsOK /\ program' = program /\ Formed(p)
        /\ script[s].blame \subseteq script'[s].blame
        /\ Own(s)' = Own(s) /\ Own(s) \subseteq Users
    BY ScriptsStep, BlameStays, OwnUsers DEF World, IInv, ScriptsOK, Own
  <1> SUFFICES ASSUME Punctual(s)', p.finally <= Len(p.steps),
                      NEW u \in Own(s), user_limits'[u] # Unlimited
               PROVE  /\ script'[s].pc \in p.guard .. p.finally
                      /\ p.steps[p.finally] = Clear(u)
                      /\ script'[s].pc = p.finally => script'[s].put = "none"
    BY <1>0 DEF CleanUpOK
  <1>1. Punctual(s)
    BY <1>0 DEF Punctual
  <1>2. /\ p.finally = Len(p.steps) /\ Len(p.steps) \in Nat
        /\ p.guard \in Nat /\ pc \in Nat
        /\ p.steps[p.finally].op = "put"
    BY <1>0 DEF Formed, ScriptsOK
  <1>3. CASE Reads(s)
    <2>1. user_limits' = user_limits
      BY <1>3 DEF Reads, Quiet, quotaVars, tables
    <2>2. /\ pc \in p.guard .. p.finally /\ p.steps[p.finally] = Clear(u)
          /\ pc = p.finally => script[s].put = "none"
      BY <1>1, <2>1 DEF CleanUpOK
    <2>3. pc # p.finally
      BY <1>2, <1>3, <2>2 DEF Reads, ListModels, GetLimits, EnsureFresh, GetUsage, Compare,
                               PutAnswers, Gather, At, Step
    <2>4. script'[s].pc \in {pc + 1, p.finally} /\ script'[s].put = "none"
      BY <1>2, <1>3, <2>2, <2>3 DEF Reads, Moves, Goes, Target
    <2>5. QED
      BY <1>2, <2>2, <2>3, <2>4
  <1>4. CASE WritesLimits(s)
    <2>1. /\ user_limits' = [user_limits EXCEPT ![Step(s).user] = Step(s).limits]
          /\ script'[s].pc = pc /\ At(s, "put") /\ Step(s) = p.steps[pc]
          /\ pc \in 1 .. Len(p.steps)
      BY <1>0, <1>4, WhereItIs DEF WritesLimits, UpdateLimits, Writes, At
    <2>2. CASE Step(s).user = u
      <3>1. Step(s).limits # Unlimited
        BY <1>0, <2>1, <2>2 DEF TypeOK
      <3>2. pc \in p.guard .. p.finally - 1 /\ p.steps[p.finally] = Clear(u)
        BY <1>0, <1>2, <2>1, <2>2, <3>1 DEF Formed, PutFormed, At
      <3>3. QED
        BY <1>2, <2>1, <3>2
    <2>3. CASE Step(s).user # u
      <3>1. user_limits[u] # Unlimited
        BY <1>0, <2>1, <2>3 DEF TypeOK
      <3>2. /\ pc \in p.guard .. p.finally /\ p.steps[p.finally] = Clear(u)
        BY <1>1, <3>1 DEF CleanUpOK
      <3>3. pc # p.finally
        BY <2>1, <2>3, <3>2 DEF Clear, Put
      <3>4. QED
        BY <2>1, <3>2, <3>3
    <2>4. QED
      BY <2>2, <2>3
  <1>5. CASE TimesOut(s)
    <2>1. user_limits' = user_limits /\ ~At(s, "put")
      BY <1>5 DEF TimesOut, quotaVars, tables
    <2>2. /\ pc \in p.guard .. p.finally /\ p.steps[p.finally] = Clear(u)
          /\ Running(s)
      BY <1>1, <1>5, <2>1 DEF CleanUpOK, TimesOut, Moves
    <2>3. pc # p.finally
      BY <1>2, <2>1, <2>2 DEF At, Step
    <2>4. script'[s].pc \in {pc + 1, p.finally} /\ script'[s].put = "none"
      BY <1>2, <1>5, <2>2, <2>3 DEF TimesOut, Moves, Goes, Target
    <2>5. QED
      BY <1>2, <2>2, <2>3, <2>4
  <1>6. CASE ChatActs(s)
    BY <1>1, <1>6 DEF ChatActs, CleanUpOK
  <1>7. CASE Bystands(s)
    BY <1>1, <1>7 DEF Bystands, Stands, LimitsKept, CleanUpOK
  <1>8. QED
    BY <1>3, <1>4, <1>5, <1>6, <1>7, Acts

\* The finally blocks of demo_limits.py and demo_load_test.py: a script that
\* has ended leaves none of its users limited, wherever it raised and whatever
\* its calls met, if no PUT of it has timed out.
THEOREM LimitsAreRestored == DemoSpec => []LimitsRestored
  <1> DEFINE Ok == \A s \in Scripts : CleanUpOK(s)
  <1>1. DemoInit => Ok
    BY OwnUsers DEF DemoInit, CleanUpOK
  <1>2. World /\ Ok /\ [DemoNext]_demoVars => Ok'
    BY CleanUpStep
  <1>3. World /\ Ok => LimitsRestored
    <2> SUFFICES ASSUME World, Ok, NEW s \in Scripts, ~Running(s), Punctual(s),
                        program[s].finally <= Len(program[s].steps),
                        NEW u \in UsersOf(program[s]), user_limits[u] # Unlimited
                 PROVE  FALSE
      BY DEF LimitsRestored, Punctual
    <2>1. /\ program[s].finally \in Nat /\ script[s].pc \in Nat
          /\ Len(program[s].steps) \in Nat /\ program[s].guard \in Nat
      BY DEF World, ScriptsOK, Formed
    <2>2. script[s].pc <= program[s].finally
      BY <2>1 DEF CleanUpOK, Own
    <2>3. QED
      BY <2>1, <2>2 DEF Running
  <1> HIDE DEF Ok
  <1>4. QED
    BY <1>1, <1>2, <1>3, WorldHolds, PTL DEF DemoSpec

-----------------------------------------------------------------------------
(***************************************************************************)
(* Models that are listed, and refused.                                    *)
(***************************************************************************)
PreflightOK(s) ==
    program[s].steps[1] = Preflight =>
        /\ script[s].pc > 1 /\ Running(s) =>
              {Bare(TextModel), Tagged(TextModel)} \cap model_allowlist # {}
        /\ "refused" \in script[s].blame => Tagged(TextModel) \in model_allowlist

LEMMA PreflightOKStep ==
    ASSUME World, [DemoNext]_demoVars, NEW s \in Scripts, PreflightOK(s)
    PROVE  PreflightOK(s)'
  <1> DEFINE p == program[s]
             pc == script[s].pc
  <1>0. /\ TypeOK /\ ScriptsOK /\ program' = program /\ Formed(p)
        /\ model_allowlist \subseteq model_allowlist'
        /\ pc \in 1 .. Len(p.steps) + 1 /\ Len(p.steps) \in Nat
    BY ScriptsStep, CastStep DEF World, IInv, ScriptsOK, Formed
  <1> SUFFICES ASSUME p.steps[1] = Preflight
               PROVE  /\ script'[s].pc > 1 /\ Running(s)' =>
                            {Bare(TextModel), Tagged(TextModel)} \cap model_allowlist' # {}
                      /\ "refused" \in script'[s].blame => Tagged(TextModel) \in model_allowlist'
    BY <1>0 DEF PreflightOK
  <1>1. CASE script'[s].pc = pc
    <2>1. Running(s)' <=> Running(s)
      BY <1>0, <1>1, StaysThere
    <2>2. ASSUME ChatActs(s), Bare(TextModel) \notin model_allowlist
          PROVE  Tagged(TextModel) \in model_allowlist
      <3>1. pc # 1
        BY <2>2, PreflightStep DEF ChatActs, At, Step
      <3>2. Running(s) /\ pc > 1
        BY <1>0, <2>2, <3>1 DEF ChatActs, At
      <3>3. QED
        BY <2>2, <3>2 DEF PreflightOK
    <2>3. ASSUME "refused" \in script'[s].blame
          PROVE  Tagged(TextModel) \in model_allowlist
      <3>1. CASE Bystands(s)
        BY <2>3, <3>1 DEF Bystands, Ages, PreflightOK
      <3>2. CASE ~Bystands(s)
        BY <2>2, <2>3, <3>2, Acts DEF Reads, WritesLimits, Writes, TimesOut, Moves, ChatActs,
                                      PreflightOK
      <3>3. QED
        BY <3>1, <3>2
    <2>4. QED
      BY <1>0, <1>1, <2>1, <2>3 DEF PreflightOK
  <1>2. CASE script'[s].pc # pc
    <2>1. Moves(s) /\ (Reads(s) \/ TimesOut(s))
      BY <1>2, Acts DEF Reads, WritesLimits, Writes, TimesOut, ChatActs, Bystands, Stands
    <2>2. "refused" \in script'[s].blame => Tagged(TextModel) \in model_allowlist
      BY <2>1 DEF Moves, PreflightOK
    <2>3. CASE pc > 1
      BY <1>0, <2>1, <2>2, <2>3 DEF Moves, PreflightOK
    <2>4. CASE pc = 1
      <3>1. Step(s).op = "preflight" /\ Running(s)
        BY <1>0, <2>1, <2>4, PreflightStep DEF Step, Moves
      <3>2. ListModels(s) \/ ReadFails(s) \/ TimesOut(s)
        BY <2>1, <3>1 DEF Reads, GetLimits, EnsureFresh, GetUsage, Compare, PutAnswers,
                          Gather, At
      <3>3. CASE Target(p, pc) = script'[s].pc
        <4>1. script'[s].pc = Len(p.steps) + 1
          BY <1>0, <2>4, <3>3 DEF Target, Formed
        <4>2. ~Running(s)'
          BY <1>0, <4>1 DEF Running
        <4>3. QED
          BY <1>0, <2>2, <4>2
      <3>4. CASE Target(p, pc) # script'[s].pc
        <4>1. Found
          <5>1. \A why : ~Raises(s, why)
            BY <3>4 DEF Raises, Goes
          <5>2. QED
            BY <1>0, <3>2, <5>1, ListModelsDoes, ReadFailsDoes DEF TimesOut
        <4>2. PICK id \in {Bare(TextModel), Tagged(TextModel)} : Allowed(id)
          BY <4>1 DEF Found, Listed
        <4>3. {Bare(TextModel), Tagged(TextModel)} \cap model_allowlist # {}
          BY <4>2 DEF Allowed, Bare, Tagged
        <4>4. QED
          BY <1>0, <2>2, <4>3
      <3>5. QED
        BY <3>3, <3>4
    <2>5. QED
      BY <1>0, <2>3, <2>4
  <1>3. QED
    BY <1>1, <1>2

\* preflight_models accepts the model with or without :latest, the chat route
\* only the id it was sent: after a preflight that passed, a chat is refused
\* for its model only if the allowlist names the :latest id.
THEOREM PreflightsPredict == DemoSpec => []PreflightPredictsChat
  <1> DEFINE Ok == \A s \in Scripts : PreflightOK(s)
  <1>1. DemoInit => Ok
    BY DEF DemoInit, PreflightOK
  <1>2. World /\ Ok /\ [DemoNext]_demoVars => Ok'
    BY PreflightOKStep
  <1>3. Ok => PreflightPredictsChat
    BY DEF PreflightOK, PreflightPredictsChat
  <1> HIDE DEF Ok
  <1>4. QED
    BY <1>1, <1>2, <1>3, WorldHolds, PTL DEF DemoSpec

-----------------------------------------------------------------------------
(***************************************************************************)
(* Proof outlines.  For each user of a script, what the script knows on    *)
(* arriving at each step: the requests made before the last chats, how     *)
(* many these ask for, and what there will be when they have ended;        *)
(* whether that is sure even after an outage; the limits, what the script  *)
(* read last, before and after, and whether it has found a fresh window.   *)
(***************************************************************************)
Entries(st, u) == {k \in DOMAIN st.users : st.users[k] = u}

Note == [made : Nat, asked : Nat, total : Nat, sure : BOOLEAN, limits : Limits,
         low : Int, high : Int, fresh : BOOLEAN]

Line(made, asked, total, sure, limits, low, high, fresh) ==
    [made |-> made, asked |-> asked, total |-> total, sure |-> sure, limits |-> limits,
     low |-> low, high |-> high, fresh |-> fresh]

\* A limit lets through the rest of what it allows.
IsRated(a) ==
    LET c == a.limits.requests_per_minute
    IN  a.fresh /\ c \in Nat /\ a.limits = Rpm(c) /\ a.made <= c

\* Limits let through the first request of a user of whom there is no row.
IsFirst(p, u, a) ==
    /\ a.made = 0 /\ a.asked <= 1 /\ LeavesRoom(a.limits) /\ ~a.fresh
    /\ \A k \in DOMAIN p.steps : p.steps[k].op # "fresh"

ChatsNoted(p, u, st, a) ==
    /\ a.asked = Cardinality(Entries(st, u))
    /\ \/ (a.limits = Unlimited \/ IsFirst(p, u, a)) /\ a.total = a.made + a.asked
       \/ /\ IsRated(a)
          /\ LET c == a.limits.requests_per_minute
             IN  a.total = IF a.made + a.asked <= c THEN a.made + a.asked ELSE c
    /\ st.want = "ok" => a.total = a.made + a.asked
    /\ st.want = "limited" => a.total = a.made
    /\ st.want \in {"any", "ok", "limited"}
    /\ a.sure /\ st.want = "any" => a.asked = 0

CheckNoted(st, u, a) ==
    u \in DOMAIN st.wants =>
        /\ a.low >= 0 /\ a.high >= 0 /\ a.high - a.low = st.wants[u].ok
        /\ st.wants[u].limited \in Int
        /\ st.results => /\ a.total = a.made + st.wants[u].ok
                         /\ a.asked = st.wants[u].ok + st.wants[u].limited

IsFor(st, u) ==
    st.op \in {"put", "get", "fresh", "before", "after", "admin"} /\ st.user = u

\* From the note a at step st of p to the next one, b.
Passes(p, u, st, a, b, chatsNext) ==
    /\ st.op = "chats" => ChatsNoted(p, u, st, a)
    /\ st.op = "check" => CheckNoted(st, u, a)
    /\ st.op = "get" /\ IsFor(st, u) =>
           a.limits.requests_per_minute = st.limits.requests_per_minute
    /\ st.op = "admin" /\ IsFor(st, u) => a.high = a.total
    /\ b.limits = IF st.op = "put" /\ IsFor(st, u) THEN st.limits ELSE a.limits
    /\ b.low = IF st.op = "before" /\ IsFor(st, u) THEN a.total ELSE a.low
    /\ b.high = IF st.op = "after" /\ IsFor(st, u) THEN a.total ELSE a.high
    /\ b.fresh => IF st.op = "fresh" THEN IsFor(st, u) /\ a.total = 0 ELSE a.fresh
    /\ chatsNext => a.sure /\ b.made = a.total
    /\ ~chatsNext =>
          /\ b.made = a.made /\ b.asked = a.asked /\ b.total = a.total
          /\ b.sure => a.sure \/ (st.op = "check" /\ st.results /\ u \in DOMAIN st.wants)

SendsAt(p, k) == k <= Len(p.steps) /\ p.steps[k].op = "chats"

Blank == Line(0, 0, 0, TRUE, Unlimited, -1, -1, FALSE)

Outline(p, u, n) ==
    /\ \A k \in 1 .. Len(p.steps) + 1 : n[k] \in Note
    /\ n[1] = Blank
    /\ p.steps[1].op # "chats"
    /\ \A k \in 1 .. Len(p.steps) : Passes(p, u, p.steps[k], n[k], n[k + 1], SendsAt(p, k + 1))
    /\ n[Len(p.steps) + 1].sure
    /\ u \in DOMAIN p.proves => p.proves[u] = n[Len(p.steps) + 1].total

LEMMA RpmFields ==
    ASSUME NEW c \in Nat
    PROVE  /\ Rpm(c) \in Limits /\ Rpm(c).requests_per_minute = c
           /\ Rpm(c).daily_tokens = NoLimit /\ Rpm(c).total_tokens = NoLimit
  BY DEF Rpm, Unlimited, Limits, Limit

LEMMA UnlimitedFields ==
    /\ Unlimited \in Limits /\ Unlimited.requests_per_minute = NoLimit
    /\ Unlimited.daily_tokens = NoLimit /\ Unlimited.total_tokens = NoLimit
  BY DEF Unlimited, Limits, Limit

LEMMA EntriesOfOne ==
    ASSUME NEW u, NEW v, NEW width, NEW want
    PROVE  Cardinality(Entries(Chats(<<v>>, width, want), u)) = IF u = v THEN 1 ELSE 0
  <1>1. Entries(Chats(<<v>>, width, want), u) = IF u = v THEN {1} ELSE {}
    BY DEF Entries, Chats
  <1>2. QED
    BY <1>1, FS_Singleton, FS_EmptySet

LEMMA EntriesOfMany ==
    ASSUME NEW u \in Users, NEW v \in Users, NEW m \in Nat \ {0}, NEW width, NEW want
    PROVE  Cardinality(Entries(Chats(Repeat(v, m), width, want), u)) = IF u = v THEN m ELSE 0
  <1>1. Entries(Chats(Repeat(v, m), width, want), u) = IF u = v THEN 1 .. m ELSE {}
    BY RepeatedCalls, ChatsStep DEF Entries
  <1>2. Cardinality(1 .. m) = m
    BY FS_Interval
  <1>3. QED
    BY <1>1, <1>2, FS_EmptySet

LEMMA EntriesOfBoth ==
    ASSUME NEW a \in Users, NEW b \in Users, a # b, NEW m \in Nat \ {0}, NEW width, NEW want,
           NEW u \in {a, b}
    PROVE  Cardinality(Entries(Chats(Repeat(a, m) \o Repeat(b, m), width, want), u)) = m
  <1> DEFINE calls == Repeat(a, m) \o Repeat(b, m)
  <1>1. DOMAIN calls = 1 .. m + m /\ \A k \in 1 .. m + m : calls[k] = IF k <= m THEN a ELSE b
    BY BothCalls
  <1>2. Entries(Chats(calls, width, want), u) = IF u = a THEN 1 .. m ELSE m + 1 .. m + m
    <2> HIDE DEF calls
    <2>1. QED
      BY <1>1, ChatsStep DEF Entries
  <1>3. Cardinality(1 .. m) = m /\ Cardinality(m + 1 .. m + m) = m
    BY FS_Interval
  <1>4. QED
    BY <1>2, <1>3

StandardOutline ==
    <<Line(0, 0, 0, TRUE, Unlimited, -1, -1, FALSE),
      Line(0, 1, 1, TRUE, Unlimited, -1, -1, FALSE),
      Line(1, 1, 2, TRUE, Unlimited, -1, -1, FALSE),
      Line(1, 1, 2, TRUE, Unlimited, -1, -1, FALSE)>>

LEMMA StandardOutlineHolds ==
    ASSUME NEW u \in Users,
           NEW p, StandardSteps(p, u)
    PROVE  Outline(p, u, StandardOutline)
  <1> DEFINE n == StandardOutline
  <1>1. /\ n[1] = Line(0, 0, 0, TRUE, Unlimited, -1, -1, FALSE)
        /\ n[2] = Line(0, 1, 1, TRUE, Unlimited, -1, -1, FALSE)
        /\ n[3] = Line(1, 1, 2, TRUE, Unlimited, -1, -1, FALSE)
        /\ n[4] = Line(1, 1, 2, TRUE, Unlimited, -1, -1, FALSE)
    BY DEF StandardOutline
  <1> HIDE DEF n
  <1>2. /\ n[1] \in Note /\ n[2] \in Note /\ n[3] \in Note /\ n[4] \in Note
    BY <1>1, UnlimitedFields DEF Line, Note
  <1>3. Passes(p, u, p.steps[1], n[1], n[2], SendsAt(p, 2))
    BY <1>1, PreflightStep, ChatsStep
       DEF StandardSteps, SendsAt, Passes, IsFor, Line
  <1>4. Passes(p, u, p.steps[2], n[2], n[3], SendsAt(p, 3))
    BY <1>1, ChatsStep, EntriesOfOne
       DEF StandardSteps, SendsAt, Passes, IsFor, Line, ChatsNoted
  <1>5. Passes(p, u, p.steps[3], n[3], n[4], SendsAt(p, 4))
    BY <1>1, ChatsStep, EntriesOfOne
       DEF StandardSteps, SendsAt, Passes, IsFor, Line, ChatsNoted
  <1>6. /\ p.steps[1].op # "chats" /\ Len(p.steps) = 3 /\ p.proves[u] = 2
        /\ n[1] = Blank /\ n[4].sure /\ n[4].total = 2
    BY <1>1, PreflightStep DEF StandardSteps, Line, Blank
  <1>7. \A k \in 1 .. 4 : n[k] \in Note
    BY <1>2
  <1>8. \A k \in 1 .. 3 : Passes(p, u, p.steps[k], n[k], n[k + 1], SendsAt(p, k + 1))
    BY <1>3, <1>4, <1>5
  <1>9. Outline(p, u, n)
    BY <1>6, <1>7, <1>8 DEF Outline
  <1>10. QED
    BY <1>9 DEF n

LimitsOutline ==
    <<Line(0, 0, 0, TRUE, Unlimited, -1, -1, FALSE),
      Line(0, 0, 0, TRUE, Unlimited, -1, -1, FALSE),
      Line(0, 0, 0, TRUE, Unlimited, -1, -1, FALSE),
      Line(0, 0, 0, TRUE, Unlimited, -1, -1, TRUE),
      Line(0, 0, 0, TRUE, Unlimited, 0, -1, TRUE),
      Line(0, 0, 0, TRUE, Rpm(1), 0, -1, TRUE),
      Line(0, 1, 1, TRUE, Rpm(1), 0, -1, TRUE),
      Line(1, 1, 1, TRUE, Rpm(1), 0, -1, TRUE),
      Line(1, 1, 1, TRUE, Rpm(1), 0, -1, TRUE),
      Line(1, 1, 1, TRUE, Rpm(1), 0, 1, TRUE),
      Line(1, 1, 1, TRUE, Rpm(1), 0, 1, TRUE),
      Line(1, 1, 1, TRUE, Unlimited, 0, 1, TRUE)>>

LEMMA LimitsOutlineHolds ==
    ASSUME NEW u \in Users,
           NEW p, LimitsSteps(p, u)
    PROVE  Outline(p, u, LimitsOutline)
  <1> DEFINE n == LimitsOutline
  <1>1. /\ n[1] = Line(0, 0, 0, TRUE, Unlimited, -1, -1, FALSE)
        /\ n[2] = Line(0, 0, 0, TRUE, Unlimited, -1, -1, FALSE)
        /\ n[3] = Line(0, 0, 0, TRUE, Unlimited, -1, -1, FALSE)
        /\ n[4] = Line(0, 0, 0, TRUE, Unlimited, -1, -1, TRUE)
        /\ n[5] = Line(0, 0, 0, TRUE, Unlimited, 0, -1, TRUE)
        /\ n[6] = Line(0, 0, 0, TRUE, Rpm(1), 0, -1, TRUE)
        /\ n[7] = Line(0, 1, 1, TRUE, Rpm(1), 0, -1, TRUE)
        /\ n[8] = Line(1, 1, 1, TRUE, Rpm(1), 0, -1, TRUE)
        /\ n[9] = Line(1, 1, 1, TRUE, Rpm(1), 0, -1, TRUE)
        /\ n[10] = Line(1, 1, 1, TRUE, Rpm(1), 0, 1, TRUE)
        /\ n[11] = Line(1, 1, 1, TRUE, Rpm(1), 0, 1, TRUE)
        /\ n[12] = Line(1, 1, 1, TRUE, Unlimited, 0, 1, TRUE)
    BY DEF LimitsOutline
  <1> HIDE DEF n
  <1>2. /\ n[1] \in Note /\ n[2] \in Note /\ n[3] \in Note /\ n[4] \in Note
        /\ n[5] \in Note /\ n[6] \in Note /\ n[7] \in Note /\ n[8] \in Note
        /\ n[9] \in Note /\ n[10] \in Note /\ n[11] \in Note /\ n[12] \in Note
    BY <1>1, UnlimitedFields, RpmFields DEF Line, Note
  <1>3. Passes(p, u, p.steps[1], n[1], n[2], SendsAt(p, 2))
    BY <1>1, PreflightStep, ClearStep
       DEF LimitsSteps, SendsAt, Passes, IsFor, Line
  <1>4. Passes(p, u, p.steps[2], n[2], n[3], SendsAt(p, 3))
    BY <1>1, ClearStep, FreshStep
       DEF LimitsSteps, SendsAt, Passes, IsFor, Line
  <1>5. Passes(p, u, p.steps[3], n[3], n[4], SendsAt(p, 4))
    BY <1>1, FreshStep, BeforeStep
       DEF LimitsSteps, SendsAt, Passes, IsFor, Line
  <1>6. Passes(p, u, p.steps[4], n[4], n[5], SendsAt(p, 5))
    BY <1>1, BeforeStep, PutStep
       DEF LimitsSteps, SendsAt, Passes, IsFor, Line
  <1>7. Passes(p, u, p.steps[5], n[5], n[6], SendsAt(p, 6))
    BY <1>1, PutStep, GetStep
       DEF LimitsSteps, SendsAt, Passes, IsFor, Line
  <1>8. Passes(p, u, p.steps[6], n[6], n[7], SendsAt(p, 7))
    BY <1>1, GetStep, ChatsStep, RpmFields
       DEF LimitsSteps, SendsAt, Passes, IsFor, Line
  <1>9. Passes(p, u, p.steps[7], n[7], n[8], SendsAt(p, 8))
    BY <1>1, ChatsStep, EntriesOfOne, RpmFields
       DEF LimitsSteps, SendsAt, Passes, IsFor, Line, ChatsNoted, IsRated
  <1>10. Passes(p, u, p.steps[8], n[8], n[9], SendsAt(p, 9))
    BY <1>1, ChatsStep, AfterStep, EntriesOfOne, RpmFields
       DEF LimitsSteps, SendsAt, Passes, IsFor, Line, ChatsNoted, IsRated
  <1>11. Passes(p, u, p.steps[9], n[9], n[10], SendsAt(p, 10))
    BY <1>1, AfterStep
       DEF LimitsSteps, SendsAt, Passes, IsFor, Line, Check
  <1>12. Passes(p, u, p.steps[10], n[10], n[11], SendsAt(p, 11))
    BY <1>1, ClearStep
       DEF LimitsSteps, SendsAt, Passes, IsFor, Line, CheckNoted, Check, Only
  <1>13. Passes(p, u, p.steps[11], n[11], n[12], SendsAt(p, 12))
    BY <1>1, ClearStep
       DEF LimitsSteps, SendsAt, Passes, IsFor, Line
  <1>14. /\ p.steps[1].op # "chats" /\ Len(p.steps) = 11 /\ p.proves[u] = 1
        /\ n[1] = Blank /\ n[12].sure /\ n[12].total = 1
    BY <1>1, PreflightStep DEF LimitsSteps, Line, Blank
  <1>15. \A k \in 1 .. 12 : n[k] \in Note
    BY <1>2
  <1>16. \A k \in 1 .. 11 : Passes(p, u, p.steps[k], n[k], n[k + 1], SendsAt(p, k + 1))
    BY <1>3, <1>4, <1>5, <1>6, <1>7, <1>8, <1>9, <1>10, <1>11, <1>12, <1>13
  <1>17. Outline(p, u, n)
    BY <1>14, <1>15, <1>16 DEF Outline
  <1>18. QED
    BY <1>17 DEF n

UsageOutlineOfA ==
    <<Line(0, 0, 0, TRUE, Unlimited, -1, -1, FALSE),
      Line(0, 0, 0, TRUE, Unlimited, -1, -1, FALSE),
      Line(0, 0, 0, TRUE, Unlimited, 0, -1, FALSE),
      Line(0, 1, 1, TRUE, Unlimited, 0, -1, FALSE),
      Line(1, 0, 1, TRUE, Unlimited, 0, -1, FALSE),
      Line(1, 0, 1, TRUE, Unlimited, 0, -1, FALSE),
      Line(1, 0, 1, TRUE, Unlimited, 0, 1, FALSE),
      Line(1, 0, 1, TRUE, Unlimited, 0, 1, FALSE),
      Line(1, 0, 1, TRUE, Unlimited, 0, 1, FALSE),
      Line(1, 0, 1, TRUE, Unlimited, 0, 1, FALSE)>>

LEMMA UsageOutlineOfAHolds ==
    ASSUME NEW a \in Users, NEW b \in Users, a # b,
           NEW p, UsageSteps(p, a, b)
    PROVE  Outline(p, a, UsageOutlineOfA)
  <1> DEFINE n == UsageOutlineOfA
  <1>1. /\ n[1] = Line(0, 0, 0, TRUE, Unlimited, -1, -1, FALSE)
        /\ n[2] = Line(0, 0, 0, TRUE, Unlimited, -1, -1, FALSE)
        /\ n[3] = Line(0, 0, 0, TRUE, Unlimited, 0, -1, FALSE)
        /\ n[4] = Line(0, 1, 1, TRUE, Unlimited, 0, -1, FALSE)
        /\ n[5] = Line(1, 0, 1, TRUE, Unlimited, 0, -1, FALSE)
        /\ n[6] = Line(1, 0, 1, TRUE, Unlimited, 0, -1, FALSE)
        /\ n[7] = Line(1, 0, 1, TRUE, Unlimited, 0, 1, FALSE)
        /\ n[8] = Line(1, 0, 1, TRUE, Unlimited, 0, 1, FALSE)
        /\ n[9] = Line(1, 0, 1, TRUE, Unlimited, 0, 1, FALSE)
        /\ n[10] = Line(1, 0, 1, TRUE, Unlimited, 0, 1, FALSE)
    BY DEF UsageOutlineOfA
  <1> HIDE DEF n
  <1>2. /\ n[1] \in Note /\ n[2] \in Note /\ n[3] \in Note /\ n[4] \in Note
        /\ n[5] \in Note /\ n[6] \in Note /\ n[7] \in Note /\ n[8] \in Note
        /\ n[9] \in Note /\ n[10] \in Note
    BY <1>1, UnlimitedFields DEF Line, Note
  <1>3. Passes(p, a, p.steps[1], n[1], n[2], SendsAt(p, 2))
    BY <1>1, PreflightStep, BeforeStep
       DEF UsageSteps, SendsAt, Passes, IsFor, Line
  <1>4. Passes(p, a, p.steps[2], n[2], n[3], SendsAt(p, 3))
    BY <1>1, BeforeStep
       DEF UsageSteps, SendsAt, Passes, IsFor, Line
  <1>5. Passes(p, a, p.steps[3], n[3], n[4], SendsAt(p, 4))
    BY <1>1, BeforeStep, ChatsStep
       DEF UsageSteps, SendsAt, Passes, IsFor, Line
  <1>6. Passes(p, a, p.steps[4], n[4], n[5], SendsAt(p, 5))
    BY <1>1, ChatsStep, EntriesOfOne
       DEF UsageSteps, SendsAt, Passes, IsFor, Line, ChatsNoted
  <1>7. Passes(p, a, p.steps[5], n[5], n[6], SendsAt(p, 6))
    BY <1>1, ChatsStep, AfterStep, EntriesOfOne
       DEF UsageSteps, SendsAt, Passes, IsFor, Line, ChatsNoted
  <1>8. Passes(p, a, p.steps[6], n[6], n[7], SendsAt(p, 7))
    BY <1>1, AfterStep
       DEF UsageSteps, SendsAt, Passes, IsFor, Line
  <1>9. Passes(p, a, p.steps[7], n[7], n[8], SendsAt(p, 8))
    BY <1>1, AfterStep, AdminStep
       DEF UsageSteps, SendsAt, Passes, IsFor, Line
  <1>10. Passes(p, a, p.steps[8], n[8], n[9], SendsAt(p, 9))
    BY <1>1, AdminStep
       DEF UsageSteps, SendsAt, Passes, IsFor, Line, Check
  <1>11. Passes(p, a, p.steps[9], n[9], n[10], SendsAt(p, 10))
    BY <1>1
       DEF UsageSteps, SendsAt, Passes, IsFor, Line, CheckNoted, Check, Each
  <1>12. /\ p.steps[1].op # "chats" /\ Len(p.steps) = 9 /\ p.proves[a] = 1
        /\ n[1] = Blank /\ n[10].sure /\ n[10].total = 1
    BY <1>1, PreflightStep DEF UsageSteps, Line, Blank
  <1>13. \A k \in 1 .. 10 : n[k] \in Note
    BY <1>2
  <1>14. \A k \in 1 .. 9 : Passes(p, a, p.steps[k], n[k], n[k + 1], SendsAt(p, k + 1))
    BY <1>3, <1>4, <1>5, <1>6, <1>7, <1>8, <1>9, <1>10, <1>11
  <1>15. Outline(p, a, n)
    BY <1>12, <1>13, <1>14 DEF Outline
  <1>16. QED
    BY <1>15 DEF n

UsageOutlineOfB ==
    <<Line(0, 0, 0, TRUE, Unlimited, -1, -1, FALSE),
      Line(0, 0, 0, TRUE, Unlimited, -1, -1, FALSE),
      Line(0, 0, 0, TRUE, Unlimited, -1, -1, FALSE),
      Line(0, 0, 0, TRUE, Unlimited, 0, -1, FALSE),
      Line(0, 1, 1, TRUE, Unlimited, 0, -1, FALSE),
      Line(0, 1, 1, TRUE, Unlimited, 0, -1, FALSE),
      Line(0, 1, 1, TRUE, Unlimited, 0, -1, FALSE),
      Line(0, 1, 1, TRUE, Unlimited, 0, 1, FALSE),
      Line(0, 1, 1, TRUE, Unlimited, 0, 1, FALSE),
      Line(0, 1, 1, TRUE, Unlimited, 0, 1, FALSE)>>

LEMMA UsageOutlineOfBHolds ==
    ASSUME NEW a \in Users, NEW b \in Users, a # b,
           NEW p, UsageSteps(p, a, b)
    PROVE  Outline(p, b, UsageOutlineOfB)
  <1> DEFINE n == UsageOutlineOfB
  <1>1. /\ n[1] = Line(0, 0, 0, TRUE, Unlimited, -1, -1, FALSE)
        /\ n[2] = Line(0, 0, 0, TRUE, Unlimited, -1, -1, FALSE)
        /\ n[3] = Line(0, 0, 0, TRUE, Unlimited, -1, -1, FALSE)
        /\ n[4] = Line(0, 0, 0, TRUE, Unlimited, 0, -1, FALSE)
        /\ n[5] = Line(0, 1, 1, TRUE, Unlimited, 0, -1, FALSE)
        /\ n[6] = Line(0, 1, 1, TRUE, Unlimited, 0, -1, FALSE)
        /\ n[7] = Line(0, 1, 1, TRUE, Unlimited, 0, -1, FALSE)
        /\ n[8] = Line(0, 1, 1, TRUE, Unlimited, 0, 1, FALSE)
        /\ n[9] = Line(0, 1, 1, TRUE, Unlimited, 0, 1, FALSE)
        /\ n[10] = Line(0, 1, 1, TRUE, Unlimited, 0, 1, FALSE)
    BY DEF UsageOutlineOfB
  <1> HIDE DEF n
  <1>2. /\ n[1] \in Note /\ n[2] \in Note /\ n[3] \in Note /\ n[4] \in Note
        /\ n[5] \in Note /\ n[6] \in Note /\ n[7] \in Note /\ n[8] \in Note
        /\ n[9] \in Note /\ n[10] \in Note
    BY <1>1, UnlimitedFields DEF Line, Note
  <1>3. Passes(p, b, p.steps[1], n[1], n[2], SendsAt(p, 2))
    BY <1>1, PreflightStep, BeforeStep
       DEF UsageSteps, SendsAt, Passes, IsFor, Line
  <1>4. Passes(p, b, p.steps[2], n[2], n[3], SendsAt(p, 3))
    BY <1>1, BeforeStep
       DEF UsageSteps, SendsAt, Passes, IsFor, Line
  <1>5. Passes(p, b, p.steps[3], n[3], n[4], SendsAt(p, 4))
    BY <1>1, BeforeStep, ChatsStep
       DEF UsageSteps, SendsAt, Passes, IsFor, Line
  <1>6. Passes(p, b, p.steps[4], n[4], n[5], SendsAt(p, 5))
    BY <1>1, ChatsStep, EntriesOfOne
       DEF UsageSteps, SendsAt, Passes, IsFor, Line, ChatsNoted
  <1>7. Passes(p, b, p.steps[5], n[5], n[6], SendsAt(p, 6))
    BY <1>1, ChatsStep, AfterStep, EntriesOfOne
       DEF UsageSteps, SendsAt, Passes, IsFor, Line, ChatsNoted
  <1>8. Passes(p, b, p.steps[6], n[6], n[7], SendsAt(p, 7))
    BY <1>1, AfterStep
       DEF UsageSteps, SendsAt, Passes, IsFor, Line
  <1>9. Passes(p, b, p.steps[7], n[7], n[8], SendsAt(p, 8))
    BY <1>1, AfterStep, AdminStep
       DEF UsageSteps, SendsAt, Passes, IsFor, Line
  <1>10. Passes(p, b, p.steps[8], n[8], n[9], SendsAt(p, 9))
    BY <1>1, AdminStep
       DEF UsageSteps, SendsAt, Passes, IsFor, Line, Check
  <1>11. Passes(p, b, p.steps[9], n[9], n[10], SendsAt(p, 10))
    BY <1>1
       DEF UsageSteps, SendsAt, Passes, IsFor, Line, CheckNoted, Check, Each
  <1>12. /\ p.steps[1].op # "chats" /\ Len(p.steps) = 9 /\ p.proves[b] = 1
        /\ n[1] = Blank /\ n[10].sure /\ n[10].total = 1
    BY <1>1, PreflightStep DEF UsageSteps, Line, Blank
  <1>13. \A k \in 1 .. 10 : n[k] \in Note
    BY <1>2
  <1>14. \A k \in 1 .. 9 : Passes(p, b, p.steps[k], n[k], n[k + 1], SendsAt(p, k + 1))
    BY <1>3, <1>4, <1>5, <1>6, <1>7, <1>8, <1>9, <1>10, <1>11
  <1>15. Outline(p, b, n)
    BY <1>12, <1>13, <1>14 DEF Outline
  <1>16. QED
    BY <1>15 DEF n

ConcurrencyOutlineOfA(m) ==
    <<Line(0, 0, 0, TRUE, Unlimited, -1, -1, FALSE),
      Line(0, 0, 0, TRUE, Unlimited, -1, -1, FALSE),
      Line(0, 0, 0, TRUE, Unlimited, -1, -1, FALSE),
      Line(0, 0, 0, TRUE, Unlimited, -1, -1, FALSE),
      Line(0, 0, 0, TRUE, Unlimited, 0, -1, FALSE),
      Line(0, m, m, FALSE, Unlimited, 0, -1, FALSE),
      Line(0, m, m, FALSE, Unlimited, 0, -1, FALSE),
      Line(0, m, m, FALSE, Unlimited, 0, m, FALSE),
      Line(0, m, m, FALSE, Unlimited, 0, m, FALSE),
      Line(0, m, m, FALSE, Unlimited, 0, m, FALSE),
      Line(0, m, m, FALSE, Unlimited, 0, m, FALSE),
      Line(0, m, m, TRUE, Unlimited, 0, m, FALSE)>>

LEMMA ConcurrencyOutlineOfAHolds ==
    ASSUME NEW a \in Users, NEW b \in Users, a # b, NEW m \in Nat \ {0},
           NEW p, ConcurrencySteps(p, a, b, m)
    PROVE  Outline(p, a, ConcurrencyOutlineOfA(m))
  <1> DEFINE n == ConcurrencyOutlineOfA(m)
  <1>1. /\ n[1] = Line(0, 0, 0, TRUE, Unlimited, -1, -1, FALSE)
        /\ n[2] = Line(0, 0, 0, TRUE, Unlimited, -1, -1, FALSE)
        /\ n[3] = Line(0, 0, 0, TRUE, Unlimited, -1, -1, FALSE)
        /\ n[4] = Line(0, 0, 0, TRUE, Unlimited, -1, -1, FALSE)
        /\ n[5] = Line(0, 0, 0, TRUE, Unlimited, 0, -1, FALSE)
        /\ n[6] = Line(0, m, m, FALSE, Unlimited, 0, -1, FALSE)
        /\ n[7] = Line(0, m, m, FALSE, Unlimited, 0, -1, FALSE)
        /\ n[8] = Line(0, m, m, FALSE, Unlimited, 0, m, FALSE)
        /\ n[9] = Line(0, m, m, FALSE, Unlimited, 0, m, FALSE)
        /\ n[10] = Line(0, m, m, FALSE, Unlimited, 0, m, FALSE)
        /\ n[11] = Line(0, m, m, FALSE, Unlimited, 0, m, FALSE)
        /\ n[12] = Line(0, m, m, TRUE, Unlimited, 0, m, FALSE)
    BY DEF ConcurrencyOutlineOfA
  <1> HIDE DEF n
  <1>2. /\ n[1] \in Note /\ n[2] \in Note /\ n[3] \in Note /\ n[4] \in Note
        /\ n[5] \in Note /\ n[6] \in Note /\ n[7] \in Note /\ n[8] \in Note
        /\ n[9] \in Note /\ n[10] \in Note /\ n[11] \in Note /\ n[12] \in Note
    BY <1>1, UnlimitedFields DEF Line, Note
  <1>3. Passes(p, a, p.steps[1], n[1], n[2], SendsAt(p, 2))
    BY <1>1, PreflightStep, ClearStep
       DEF ConcurrencySteps, SendsAt, Passes, IsFor, Line
  <1>4. Passes(p, a, p.steps[2], n[2], n[3], SendsAt(p, 3))
    BY <1>1, ClearStep
       DEF ConcurrencySteps, SendsAt, Passes, IsFor, Line
  <1>5. Passes(p, a, p.steps[3], n[3], n[4], SendsAt(p, 4))
    BY <1>1, ClearStep, BeforeStep
       DEF ConcurrencySteps, SendsAt, Passes, IsFor, Line
  <1>6. Passes(p, a, p.steps[4], n[4], n[5], SendsAt(p, 5))
    BY <1>1, BeforeStep
       DEF ConcurrencySteps, SendsAt, Passes, IsFor, Line
  <1>7. Passes(p, a, p.steps[5], n[5], n[6], SendsAt(p, 6))
    BY <1>1, BeforeStep, ChatsStep
       DEF ConcurrencySteps, SendsAt, Passes, IsFor, Line
  <1>8. Passes(p, a, p.steps[6], n[6], n[7], SendsAt(p, 7))
    BY <1>1, ChatsStep, AfterStep, EntriesOfBoth
       DEF ConcurrencySteps, SendsAt, Passes, IsFor, Line, ChatsNoted
  <1>9. Passes(p, a, p.steps[7], n[7], n[8], SendsAt(p, 8))
    BY <1>1, AfterStep
       DEF ConcurrencySteps, SendsAt, Passes, IsFor, Line
  <1>10. Passes(p, a, p.steps[8], n[8], n[9], SendsAt(p, 9))
    BY <1>1, AfterStep, ClearStep
       DEF ConcurrencySteps, SendsAt, Passes, IsFor, Line
  <1>11. Passes(p, a, p.steps[9], n[9], n[10], SendsAt(p, 10))
    BY <1>1, ClearStep
       DEF ConcurrencySteps, SendsAt, Passes, IsFor, Line
  <1>12. Passes(p, a, p.steps[10], n[10], n[11], SendsAt(p, 11))
    BY <1>1, ClearStep
       DEF ConcurrencySteps, SendsAt, Passes, IsFor, Line, Check
  <1>13. Passes(p, a, p.steps[11], n[11], n[12], SendsAt(p, 12))
    BY <1>1
       DEF ConcurrencySteps, SendsAt, Passes, IsFor, Line, CheckNoted, Check, Each
  <1>14. /\ p.steps[1].op # "chats" /\ Len(p.steps) = 11 /\ p.proves[a] = m
        /\ n[1] = Blank /\ n[12].sure /\ n[12].total = m
    BY <1>1, PreflightStep DEF ConcurrencySteps, Line, Blank
  <1>15. \A k \in 1 .. 12 : n[k] \in Note
    BY <1>2
  <1>16. \A k \in 1 .. 11 : Passes(p, a, p.steps[k], n[k], n[k + 1], SendsAt(p, k + 1))
    BY <1>3, <1>4, <1>5, <1>6, <1>7, <1>8, <1>9, <1>10, <1>11, <1>12, <1>13
  <1>17. Outline(p, a, n)
    BY <1>14, <1>15, <1>16 DEF Outline
  <1>18. QED
    BY <1>17 DEF n

ConcurrencyOutlineOfB(m) ==
    <<Line(0, 0, 0, TRUE, Unlimited, -1, -1, FALSE),
      Line(0, 0, 0, TRUE, Unlimited, -1, -1, FALSE),
      Line(0, 0, 0, TRUE, Unlimited, -1, -1, FALSE),
      Line(0, 0, 0, TRUE, Unlimited, -1, -1, FALSE),
      Line(0, 0, 0, TRUE, Unlimited, -1, -1, FALSE),
      Line(0, m, m, FALSE, Unlimited, 0, -1, FALSE),
      Line(0, m, m, FALSE, Unlimited, 0, -1, FALSE),
      Line(0, m, m, FALSE, Unlimited, 0, -1, FALSE),
      Line(0, m, m, FALSE, Unlimited, 0, m, FALSE),
      Line(0, m, m, FALSE, Unlimited, 0, m, FALSE),
      Line(0, m, m, FALSE, Unlimited, 0, m, FALSE),
      Line(0, m, m, TRUE, Unlimited, 0, m, FALSE)>>

LEMMA ConcurrencyOutlineOfBHolds ==
    ASSUME NEW a \in Users, NEW b \in Users, a # b, NEW m \in Nat \ {0},
           NEW p, ConcurrencySteps(p, a, b, m)
    PROVE  Outline(p, b, ConcurrencyOutlineOfB(m))
  <1> DEFINE n == ConcurrencyOutlineOfB(m)
  <1>1. /\ n[1] = Line(0, 0, 0, TRUE, Unlimited, -1, -1, FALSE)
        /\ n[2] = Line(0, 0, 0, TRUE, Unlimited, -1, -1, FALSE)
        /\ n[3] = Line(0, 0, 0, TRUE, Unlimited, -1, -1, FALSE)
        /\ n[4] = Line(0, 0, 0, TRUE, Unlimited, -1, -1, FALSE)
        /\ n[5] = Line(0, 0, 0, TRUE, Unlimited, -1, -1, FALSE)
        /\ n[6] = Line(0, m, m, FALSE, Unlimited, 0, -1, FALSE)
        /\ n[7] = Line(0, m, m, FALSE, Unlimited, 0, -1, FALSE)
        /\ n[8] = Line(0, m, m, FALSE, Unlimited, 0, -1, FALSE)
        /\ n[9] = Line(0, m, m, FALSE, Unlimited, 0, m, FALSE)
        /\ n[10] = Line(0, m, m, FALSE, Unlimited, 0, m, FALSE)
        /\ n[11] = Line(0, m, m, FALSE, Unlimited, 0, m, FALSE)
        /\ n[12] = Line(0, m, m, TRUE, Unlimited, 0, m, FALSE)
    BY DEF ConcurrencyOutlineOfB
  <1> HIDE DEF n
  <1>2. /\ n[1] \in Note /\ n[2] \in Note /\ n[3] \in Note /\ n[4] \in Note
        /\ n[5] \in Note /\ n[6] \in Note /\ n[7] \in Note /\ n[8] \in Note
        /\ n[9] \in Note /\ n[10] \in Note /\ n[11] \in Note /\ n[12] \in Note
    BY <1>1, UnlimitedFields DEF Line, Note
  <1>3. Passes(p, b, p.steps[1], n[1], n[2], SendsAt(p, 2))
    BY <1>1, PreflightStep, ClearStep
       DEF ConcurrencySteps, SendsAt, Passes, IsFor, Line
  <1>4. Passes(p, b, p.steps[2], n[2], n[3], SendsAt(p, 3))
    BY <1>1, ClearStep
       DEF ConcurrencySteps, SendsAt, Passes, IsFor, Line
  <1>5. Passes(p, b, p.steps[3], n[3], n[4], SendsAt(p, 4))
    BY <1>1, ClearStep, BeforeStep
       DEF ConcurrencySteps, SendsAt, Passes, IsFor, Line
  <1>6. Passes(p, b, p.steps[4], n[4], n[5], SendsAt(p, 5))
    BY <1>1, BeforeStep
       DEF ConcurrencySteps, SendsAt, Passes, IsFor, Line
  <1>7. Passes(p, b, p.steps[5], n[5], n[6], SendsAt(p, 6))
    BY <1>1, BeforeStep, ChatsStep
       DEF ConcurrencySteps, SendsAt, Passes, IsFor, Line
  <1>8. Passes(p, b, p.steps[6], n[6], n[7], SendsAt(p, 7))
    BY <1>1, ChatsStep, AfterStep, EntriesOfBoth
       DEF ConcurrencySteps, SendsAt, Passes, IsFor, Line, ChatsNoted
  <1>9. Passes(p, b, p.steps[7], n[7], n[8], SendsAt(p, 8))
    BY <1>1, AfterStep
       DEF ConcurrencySteps, SendsAt, Passes, IsFor, Line
  <1>10. Passes(p, b, p.steps[8], n[8], n[9], SendsAt(p, 9))
    BY <1>1, AfterStep, ClearStep
       DEF ConcurrencySteps, SendsAt, Passes, IsFor, Line
  <1>11. Passes(p, b, p.steps[9], n[9], n[10], SendsAt(p, 10))
    BY <1>1, ClearStep
       DEF ConcurrencySteps, SendsAt, Passes, IsFor, Line
  <1>12. Passes(p, b, p.steps[10], n[10], n[11], SendsAt(p, 11))
    BY <1>1, ClearStep
       DEF ConcurrencySteps, SendsAt, Passes, IsFor, Line, Check
  <1>13. Passes(p, b, p.steps[11], n[11], n[12], SendsAt(p, 12))
    BY <1>1
       DEF ConcurrencySteps, SendsAt, Passes, IsFor, Line, CheckNoted, Check, Each
  <1>14. /\ p.steps[1].op # "chats" /\ Len(p.steps) = 11 /\ p.proves[b] = m
        /\ n[1] = Blank /\ n[12].sure /\ n[12].total = m
    BY <1>1, PreflightStep DEF ConcurrencySteps, Line, Blank
  <1>15. \A k \in 1 .. 12 : n[k] \in Note
    BY <1>2
  <1>16. \A k \in 1 .. 11 : Passes(p, b, p.steps[k], n[k], n[k + 1], SendsAt(p, k + 1))
    BY <1>3, <1>4, <1>5, <1>6, <1>7, <1>8, <1>9, <1>10, <1>11, <1>12, <1>13
  <1>17. Outline(p, b, n)
    BY <1>14, <1>15, <1>16 DEF Outline
  <1>18. QED
    BY <1>17 DEF n

LoadOutlineOfA(m) ==
    <<Line(0, 0, 0, TRUE, Unlimited, -1, -1, FALSE),
      Line(0, 0, 0, TRUE, Unlimited, -1, -1, FALSE),
      Line(0, 0, 0, TRUE, Unlimited, -1, -1, FALSE),
      Line(0, 0, 0, TRUE, Unlimited, -1, -1, FALSE),
      Line(0, 0, 0, TRUE, Unlimited, -1, -1, FALSE),
      Line(0, 0, 0, TRUE, Unlimited, -1, -1, FALSE),
      Line(0, m, m, FALSE, Unlimited, 0, -1, FALSE),
      Line(0, m, m, FALSE, Unlimited, 0, -1, FALSE),
      Line(0, m, m, FALSE, Unlimited, 0, m, FALSE),
      Line(0, m, m, TRUE, Unlimited, 0, m, FALSE),
      Line(0, m, m, TRUE, Unlimited, 0, m, FALSE),
      Line(m, 0, m, TRUE, Unlimited, 0, m, FALSE),
      Line(m, 0, m, TRUE, Unlimited, 0, m, FALSE),
      Line(m, 0, m, TRUE, Unlimited, 0, m, FALSE),
      Line(m, 0, m, TRUE, Unlimited, 0, m, FALSE),
      Line(m, 0, m, TRUE, Unlimited, 0, m, FALSE)>>

LEMMA LoadOutlineOfAHolds ==
    ASSUME NEW a \in Users, NEW b \in Users, a # b, NEW m \in Nat \ {0},
           NEW allowed \in 0 .. m - 1, NEW width,
           NEW p, LoadSteps(p, a, b, m, allowed, width)
    PROVE  Outline(p, a, LoadOutlineOfA(m))
  <1> DEFINE n == LoadOutlineOfA(m)
  <1>1. /\ n[1] = Line(0, 0, 0, TRUE, Unlimited, -1, -1, FALSE)
        /\ n[2] = Line(0, 0, 0, TRUE, Unlimited, -1, -1, FALSE)
        /\ n[3] = Line(0, 0, 0, TRUE, Unlimited, -1, -1, FALSE)
        /\ n[4] = Line(0, 0, 0, TRUE, Unlimited, -1, -1, FALSE)
        /\ n[5] = Line(0, 0, 0, TRUE, Unlimited, -1, -1, FALSE)
        /\ n[6] = Line(0, 0, 0, TRUE, Unlimited, -1, -1, FALSE)
        /\ n[7] = Line(0, m, m, FALSE, Unlimited, 0, -1, FALSE)
        /\ n[8] = Line(0, m, m, FALSE, Unlimited, 0, -1, FALSE)
        /\ n[9] = Line(0, m, m, FALSE, Unlimited, 0, m, FALSE)
        /\ n[10] = Line(0, m, m, TRUE, Unlimited, 0, m, FALSE)
        /\ n[11] = Line(0, m, m, TRUE, Unlimited, 0, m, FALSE)
        /\ n[12] = Line(m, 0, m, TRUE, Unlimited, 0, m, FALSE)
        /\ n[13] = Line(m, 0, m, TRUE, Unlimited, 0, m, FALSE)
        /\ n[14] = Line(m, 0, m, TRUE, Unlimited, 0, m, FALSE)
        /\ n[15] = Line(m, 0, m, TRUE, Unlimited, 0, m, FALSE)
        /\ n[16] = Line(m, 0, m, TRUE, Unlimited, 0, m, FALSE)
    BY DEF LoadOutlineOfA
  <1> HIDE DEF n
  <1>2. /\ n[1] \in Note /\ n[2] \in Note /\ n[3] \in Note /\ n[4] \in Note
        /\ n[5] \in Note /\ n[6] \in Note /\ n[7] \in Note /\ n[8] \in Note
        /\ n[9] \in Note /\ n[10] \in Note /\ n[11] \in Note /\ n[12] \in Note
        /\ n[13] \in Note /\ n[14] \in Note /\ n[15] \in Note /\ n[16] \in Note
    BY <1>1, UnlimitedFields DEF Line, Note
  <1>3. Passes(p, a, p.steps[1], n[1], n[2], SendsAt(p, 2))
    BY <1>1, PreflightStep
       DEF LoadSteps, SendsAt, Passes, IsFor, Line
  <1>4. Passes(p, a, p.steps[2], n[2], n[3], SendsAt(p, 3))
    BY <1>1, PreflightStep, ClearStep
       DEF LoadSteps, SendsAt, Passes, IsFor, Line
  <1>5. Passes(p, a, p.steps[3], n[3], n[4], SendsAt(p, 4))
    BY <1>1, ClearStep
       DEF LoadSteps, SendsAt, Passes, IsFor, Line
  <1>6. Passes(p, a, p.steps[4], n[4], n[5], SendsAt(p, 5))
    BY <1>1, ClearStep, FreshStep
       DEF LoadSteps, SendsAt, Passes, IsFor, Line
  <1>7. Passes(p, a, p.steps[5], n[5], n[6], SendsAt(p, 6))
    BY <1>1, FreshStep, BeforeStep
       DEF LoadSteps, SendsAt, Passes, IsFor, Line
  <1>8. Passes(p, a, p.steps[6], n[6], n[7], SendsAt(p, 7))
    BY <1>1, BeforeStep, ChatsStep
       DEF LoadSteps, SendsAt, Passes, IsFor, Line
  <1>9. Passes(p, a, p.steps[7], n[7], n[8], SendsAt(p, 8))
    BY <1>1, ChatsStep, AfterStep, EntriesOfMany
       DEF LoadSteps, SendsAt, Passes, IsFor, Line, ChatsNoted
  <1>10. Passes(p, a, p.steps[8], n[8], n[9], SendsAt(p, 9))
    BY <1>1, AfterStep
       DEF LoadSteps, SendsAt, Passes, IsFor, Line, Check
  <1>11. Passes(p, a, p.steps[9], n[9], n[10], SendsAt(p, 10))
    BY <1>1, PutStep
       DEF LoadSteps, SendsAt, Passes, IsFor, Line, CheckNoted, Check, Only
  <1>12. Passes(p, a, p.steps[10], n[10], n[11], SendsAt(p, 11))
    BY <1>1, PutStep, BeforeStep
       DEF LoadSteps, SendsAt, Passes, IsFor, Line
  <1>13. Passes(p, a, p.steps[11], n[11], n[12], SendsAt(p, 12))
    BY <1>1, BeforeStep, ChatsStep
       DEF LoadSteps, SendsAt, Passes, IsFor, Line
  <1>14. Passes(p, a, p.steps[12], n[12], n[13], SendsAt(p, 13))
    BY <1>1, ChatsStep, AfterStep, EntriesOfMany
       DEF LoadSteps, SendsAt, Passes, IsFor, Line, ChatsNoted
  <1>15. Passes(p, a, p.steps[13], n[13], n[14], SendsAt(p, 14))
    BY <1>1, AfterStep
       DEF LoadSteps, SendsAt, Passes, IsFor, Line, Check
  <1>16. Passes(p, a, p.steps[14], n[14], n[15], SendsAt(p, 15))
    BY <1>1, ClearStep
       DEF LoadSteps, SendsAt, Passes, IsFor, Line, CheckNoted, Check, Only
  <1>17. Passes(p, a, p.steps[15], n[15], n[16], SendsAt(p, 16))
    BY <1>1, ClearStep
       DEF LoadSteps, SendsAt, Passes, IsFor, Line
  <1>18. /\ p.steps[1].op # "chats" /\ Len(p.steps) = 15 /\ p.proves[a] = m
        /\ n[1] = Blank /\ n[16].sure /\ n[16].total = m
    BY <1>1, PreflightStep DEF LoadSteps, Line, Blank
  <1>19. \A k \in 1 .. 16 : n[k] \in Note
    BY <1>2
  <1>20. \A k \in 1 .. 15 : Passes(p, a, p.steps[k], n[k], n[k + 1], SendsAt(p, k + 1))
    BY <1>3, <1>4, <1>5, <1>6, <1>7, <1>8, <1>9, <1>10, <1>11, <1>12, <1>13, <1>14, <1>15,
       <1>16, <1>17
  <1>21. Outline(p, a, n)
    BY <1>18, <1>19, <1>20 DEF Outline
  <1>22. QED
    BY <1>21 DEF n

LoadOutlineOfB(m, allowed) ==
    <<Line(0, 0, 0, TRUE, Unlimited, -1, -1, FALSE),
      Line(0, 0, 0, TRUE, Unlimited, -1, -1, FALSE),
      Line(0, 0, 0, TRUE, Unlimited, -1, -1, FALSE),
      Line(0, 0, 0, TRUE, Unlimited, -1, -1, FALSE),
      Line(0, 0, 0, TRUE, Unlimited, -1, -1, FALSE),
      Line(0, 0, 0, TRUE, Unlimited, -1, -1, TRUE),
      Line(0, 0, 0, TRUE, Unlimited, -1, -1, TRUE),
      Line(0, 0, 0, TRUE, Unlimited, -1, -1, TRUE),
      Line(0, 0, 0, TRUE, Unlimited, -1, -1, TRUE),
      Line(0, 0, 0, TRUE, Unlimited, -1, -1, TRUE),
      Line(0, 0, 0, TRUE, Rpm(allowed), -1, -1, TRUE),
      Line(0, m, allowed, FALSE, Rpm(allowed), 0, -1, TRUE),
      Line(0, m, allowed, FALSE, Rpm(allowed), 0, -1, TRUE),
      Line(0, m, allowed, FALSE, Rpm(allowed), 0, allowed, TRUE),
      Line(0, m, allowed, TRUE, Rpm(allowed), 0, allowed, TRUE),
      Line(0, m, allowed, TRUE, Unlimited, 0, allowed, TRUE)>>

LEMMA LoadOutlineOfBHolds ==
    ASSUME NEW a \in Users, NEW b \in Users, a # b, NEW m \in Nat \ {0},
           NEW allowed \in 0 .. m - 1, NEW width,
           NEW p, LoadSteps(p, a, b, m, allowed, width)
    PROVE  Outline(p, b, LoadOutlineOfB(m, allowed))
  <1> DEFINE n == LoadOutlineOfB(m, allowed)
  <1>1. /\ n[1] = Line(0, 0, 0, TRUE, Unlimited, -1, -1, FALSE)
        /\ n[2] = Line(0, 0, 0, TRUE, Unlimited, -1, -1, FALSE)
        /\ n[3] = Line(0, 0, 0, TRUE, Unlimited, -1, -1, FALSE)
        /\ n[4] = Line(0, 0, 0, TRUE, Unlimited, -1, -1, FALSE)
        /\ n[5] = Line(0, 0, 0, TRUE, Unlimited, -1, -1, FALSE)
        /\ n[6] = Line(0, 0, 0, TRUE, Unlimited, -1, -1, TRUE)
        /\ n[7] = Line(0, 0, 0, TRUE, Unlimited, -1, -1, TRUE)
        /\ n[8] = Line(0, 0, 0, TRUE, Unlimited, -1, -1, TRUE)
        /\ n[9] = Line(0, 0, 0, TRUE, Unlimited, -1, -1, TRUE)
        /\ n[10] = Line(0, 0, 0, TRUE, Unlimited, -1, -1, TRUE)
        /\ n[11] = Line(0, 0, 0, TRUE, Rpm(allowed), -1, -1, TRUE)
        /\ n[12] = Line(0, m, allowed, FALSE, Rpm(allowed), 0, -1, TRUE)
        /\ n[13] = Line(0, m, allowed, FALSE, Rpm(allowed), 0, -1, TRUE)
        /\ n[14] = Line(0, m, allowed, FALSE, Rpm(allowed), 0, allowed, TRUE)
        /\ n[15] = Line(0, m, allowed, TRUE, Rpm(allowed), 0, allowed, TRUE)
        /\ n[16] = Line(0, m, allowed, TRUE, Unlimited, 0, allowed, TRUE)
    BY DEF LoadOutlineOfB
  <1> HIDE DEF n
  <1>2. /\ n[1] \in Note /\ n[2] \in Note /\ n[3] \in Note /\ n[4] \in Note
        /\ n[5] \in Note /\ n[6] \in Note /\ n[7] \in Note /\ n[8] \in Note
        /\ n[9] \in Note /\ n[10] \in Note /\ n[11] \in Note /\ n[12] \in Note
        /\ n[13] \in Note /\ n[14] \in Note /\ n[15] \in Note /\ n[16] \in Note
    BY <1>1, UnlimitedFields, RpmFields DEF Line, Note
  <1>3. Passes(p, b, p.steps[1], n[1], n[2], SendsAt(p, 2))
    BY <1>1, PreflightStep
       DEF LoadSteps, SendsAt, Passes, IsFor, Line
  <1>4. Passes(p, b, p.steps[2], n[2], n[3], SendsAt(p, 3))
    BY <1>1, PreflightStep, ClearStep
       DEF LoadSteps, SendsAt, Passes, IsFor, Line
  <1>5. Passes(p, b, p.steps[3], n[3], n[4], SendsAt(p, 4))
    BY <1>1, ClearStep
       DEF LoadSteps, SendsAt, Passes, IsFor, Line
  <1>6. Passes(p, b, p.steps[4], n[4], n[5], SendsAt(p, 5))
    BY <1>1, ClearStep, FreshStep
       DEF LoadSteps, SendsAt, Passes, IsFor, Line
  <1>7. Passes(p, b, p.steps[5], n[5], n[6], SendsAt(p, 6))
    BY <1>1, FreshStep, BeforeStep
       DEF LoadSteps, SendsAt, Passes, IsFor, Line
  <1>8. Passes(p, b, p.steps[6], n[6], n[7], SendsAt(p, 7))
    BY <1>1, BeforeStep, ChatsStep
       DEF LoadSteps, SendsAt, Passes, IsFor, Line
  <1>9. Passes(p, b, p.steps[7], n[7], n[8], SendsAt(p, 8))
    BY <1>1, ChatsStep, AfterStep, EntriesOfMany, RpmFields
       DEF LoadSteps, SendsAt, Passes, IsFor, Line, ChatsNoted, IsRated
  <1>10. Passes(p, b, p.steps[8], n[8], n[9], SendsAt(p, 9))
    BY <1>1, AfterStep
       DEF LoadSteps, SendsAt, Passes, IsFor, Line, Check
  <1>11. Passes(p, b, p.steps[9], n[9], n[10], SendsAt(p, 10))
    BY <1>1, PutStep
       DEF LoadSteps, SendsAt, Passes, IsFor, Line, CheckNoted, Check, Only
  <1>12. Passes(p, b, p.steps[10], n[10], n[11], SendsAt(p, 11))
    BY <1>1, PutStep, BeforeStep
       DEF LoadSteps, SendsAt, Passes, IsFor, Line
  <1>13. Passes(p, b, p.steps[11], n[11], n[12], SendsAt(p, 12))
    BY <1>1, BeforeStep, ChatsStep
       DEF LoadSteps, SendsAt, Passes, IsFor, Line
  <1>14. Passes(p, b, p.steps[12], n[12], n[13], SendsAt(p, 13))
    BY <1>1, ChatsStep, AfterStep, EntriesOfMany, RpmFields
       DEF LoadSteps, SendsAt, Passes, IsFor, Line, ChatsNoted, IsRated
  <1>15. Passes(p, b, p.steps[13], n[13], n[14], SendsAt(p, 14))
    BY <1>1, AfterStep
       DEF LoadSteps, SendsAt, Passes, IsFor, Line, Check
  <1>16. Passes(p, b, p.steps[14], n[14], n[15], SendsAt(p, 15))
    BY <1>1, ClearStep
       DEF LoadSteps, SendsAt, Passes, IsFor, Line, CheckNoted, Check, Only
  <1>17. Passes(p, b, p.steps[15], n[15], n[16], SendsAt(p, 16))
    BY <1>1, ClearStep
       DEF LoadSteps, SendsAt, Passes, IsFor, Line
  <1>18. /\ p.steps[1].op # "chats" /\ Len(p.steps) = 15 /\ p.proves[b] = allowed
        /\ n[1] = Blank /\ n[16].sure /\ n[16].total = allowed
    BY <1>1, PreflightStep DEF LoadSteps, Line, Blank
  <1>19. \A k \in 1 .. 16 : n[k] \in Note
    BY <1>2
  <1>20. \A k \in 1 .. 15 : Passes(p, b, p.steps[k], n[k], n[k + 1], SendsAt(p, k + 1))
    BY <1>3, <1>4, <1>5, <1>6, <1>7, <1>8, <1>9, <1>10, <1>11, <1>12, <1>13, <1>14, <1>15,
       <1>16, <1>17
  <1>21. Outline(p, b, n)
    BY <1>18, <1>19, <1>20 DEF Outline
  <1>22. QED
    BY <1>21 DEF n

ReportOutline(limits) ==
    <<Line(0, 0, 0, TRUE, Unlimited, -1, -1, FALSE),
      Line(0, 0, 0, TRUE, Unlimited, -1, -1, FALSE),
      Line(0, 0, 0, TRUE, Unlimited, -1, -1, FALSE),
      Line(0, 1, 1, TRUE, limits, -1, -1, FALSE),
      Line(0, 1, 1, TRUE, limits, -1, -1, FALSE),
      Line(0, 1, 1, TRUE, limits, -1, 1, FALSE)>>

LEMMA ReportOutlineHolds ==
    ASSUME NEW u \in Users, NEW limits \in LimitSettings, LeavesRoom(limits),
           NEW p, ReportSteps(p, u, limits)
    PROVE  Outline(p, u, ReportOutline(limits))
  <1> DEFINE n == ReportOutline(limits)
  <1>0. \A k \in DOMAIN p.steps : p.steps[k].op # "fresh"
    BY PreflightStep, ClearStep, PutStep, ChatsStep, AfterStep DEF ReportSteps
  <1>1. /\ n[1] = Line(0, 0, 0, TRUE, Unlimited, -1, -1, FALSE)
        /\ n[2] = Line(0, 0, 0, TRUE, Unlimited, -1, -1, FALSE)
        /\ n[3] = Line(0, 0, 0, TRUE, Unlimited, -1, -1, FALSE)
        /\ n[4] = Line(0, 1, 1, TRUE, limits, -1, -1, FALSE)
        /\ n[5] = Line(0, 1, 1, TRUE, limits, -1, -1, FALSE)
        /\ n[6] = Line(0, 1, 1, TRUE, limits, -1, 1, FALSE)
    BY DEF ReportOutline
  <1> HIDE DEF n
  <1>2. /\ n[1] \in Note /\ n[2] \in Note /\ n[3] \in Note /\ n[4] \in Note
        /\ n[5] \in Note /\ n[6] \in Note
    BY <1>1, UnlimitedFields, SettingsAssumption DEF Line, Note
  <1>3. Passes(p, u, p.steps[1], n[1], n[2], SendsAt(p, 2))
    BY <1>1, PreflightStep, ClearStep
       DEF ReportSteps, SendsAt, Passes, IsFor, Line
  <1>4. Passes(p, u, p.steps[2], n[2], n[3], SendsAt(p, 3))
    BY <1>1, ClearStep, PutStep
       DEF ReportSteps, SendsAt, Passes, IsFor, Line
  <1>5. Passes(p, u, p.steps[3], n[3], n[4], SendsAt(p, 4))
    BY <1>1, PutStep, ChatsStep
       DEF ReportSteps, SendsAt, Passes, IsFor, Line
  <1>6. Passes(p, u, p.steps[4], n[4], n[5], SendsAt(p, 5))
    BY <1>1, ChatsStep, AfterStep, EntriesOfOne, <1>0
       DEF ReportSteps, SendsAt, Passes, IsFor, Line, ChatsNoted, IsFirst
  <1>7. Passes(p, u, p.steps[5], n[5], n[6], SendsAt(p, 6))
    BY <1>1, AfterStep
       DEF ReportSteps, SendsAt, Passes, IsFor, Line
  <1>8. /\ p.steps[1].op # "chats" /\ Len(p.steps) = 5 /\ p.proves[u] = 1
        /\ n[1] = Blank /\ n[6].sure /\ n[6].total = 1
    BY <1>1, PreflightStep DEF ReportSteps, Line, Blank
  <1>9. \A k \in 1 .. 6 : n[k] \in Note
    BY <1>2
  <1>10. \A k \in 1 .. 5 : Passes(p, u, p.steps[k], n[k], n[k + 1], SendsAt(p, k + 1))
    BY <1>3, <1>4, <1>5, <1>6, <1>7
  <1>11. Outline(p, u, n)
    BY <1>8, <1>9, <1>10 DEF Outline
  <1>12. QED
    BY <1>11 DEF n

\* The steps of a script that checks something are about its users, for each
\* of whom there is an outline.
Outlined(p) ==
    /\ \A u \in UsersOf(p) : \E n : Outline(p, u, n)
    /\ \A k \in 1 .. Len(p.steps) :
          p.steps[k].op = "check" => DOMAIN p.steps[k].wants \subseteq UsersOf(p)
    /\ DOMAIN p.proves \subseteq UsersOf(p)

\* Or it checks nothing.
Unjudging(p) ==
    /\ DOMAIN p.proves = {}
    /\ \A k \in 1 .. Len(p.steps) :
          \/ p.steps[k].op \in {"put", "before", "after"}
          \/ p.steps[k].op = "chats" /\ p.steps[k].want = "any"

LEMMA StandardOutlined ==
    ASSUME NEW u \in Users, NEW p, StandardSteps(p, u)
    PROVE  Outlined(p)
  <1>1. UsersOf(p) = {u} /\ Outline(p, u, StandardOutline)
    BY StandardFormed, StandardOutlineHolds
  <1>2. \A k \in 1 .. Len(p.steps) : p.steps[k].op # "check"
    BY PreflightStep, ChatsStep DEF StandardSteps
  <1>3. DOMAIN p.proves = {u}
    BY DEF StandardSteps
  <1>4. QED
    BY <1>1, <1>2, <1>3 DEF Outlined

LEMMA LimitsOutlined ==
    ASSUME NEW u \in Users, NEW p, LimitsSteps(p, u)
    PROVE  Outlined(p)
  <1>1. UsersOf(p) = {u} /\ Outline(p, u, LimitsOutline)
    BY LimitsFormed, LimitsOutlineHolds
  <1>2. \A k \in 1 .. Len(p.steps) : p.steps[k].op = "check" => k = 10
    BY PreflightStep, ClearStep, FreshStep, BeforeStep, PutStep, GetStep, ChatsStep, AfterStep
       DEF LimitsSteps
  <1>3. DOMAIN p.steps[10].wants = {u}
    BY DEF LimitsSteps, Check, Only
  <1>4. DOMAIN p.proves = {u}
    BY DEF LimitsSteps
  <1>5. QED
    BY <1>1, <1>2, <1>3, <1>4 DEF Outlined

LEMMA UsageOutlined ==
    ASSUME NEW a \in Users, NEW b \in Users, a # b, NEW p, UsageSteps(p, a, b)
    PROVE  Outlined(p)
  <1>1. /\ UsersOf(p) = {a, b}
        /\ Outline(p, a, UsageOutlineOfA) /\ Outline(p, b, UsageOutlineOfB)
    BY UsageFormed, UsageOutlineOfAHolds, UsageOutlineOfBHolds
  <1>2. \A k \in 1 .. Len(p.steps) : p.steps[k].op = "check" => k = 9
    BY PreflightStep, BeforeStep, ChatsStep, AfterStep, AdminStep DEF UsageSteps
  <1>3. DOMAIN p.steps[9].wants = {a, b}
    BY DEF UsageSteps, Check, Each
  <1>4. DOMAIN p.proves = {a, b}
    BY DEF UsageSteps
  <1>5. QED
    BY <1>1, <1>2, <1>3, <1>4 DEF Outlined

LEMMA ConcurrencyOutlined ==
    ASSUME NEW a \in Users, NEW b \in Users, a # b, NEW m \in 1 .. MaxEvents,
           NEW p, ConcurrencySteps(p, a, b, m)
    PROVE  Outlined(p)
  <1>0. m \in Nat \ {0}
    OBVIOUS
  <1>1. /\ UsersOf(p) = {a, b}
        /\ Outline(p, a, ConcurrencyOutlineOfA(m)) /\ Outline(p, b, ConcurrencyOutlineOfB(m))
    BY <1>0, ConcurrencyFormed, ConcurrencyOutlineOfAHolds, ConcurrencyOutlineOfBHolds
  <1>2. \A k \in 1 .. Len(p.steps) : p.steps[k].op = "check" => k = 11
    BY PreflightStep, ClearStep, BeforeStep, ChatsStep, AfterStep DEF ConcurrencySteps
  <1>3. DOMAIN p.steps[11].wants = {a, b}
    BY DEF ConcurrencySteps, Check, Each
  <1>4. DOMAIN p.proves = {a, b}
    BY DEF ConcurrencySteps
  <1>5. QED
    BY <1>1, <1>2, <1>3, <1>4 DEF Outlined

LEMMA LoadOutlined ==
    ASSUME NEW a \in Users, NEW b \in Users, a # b, NEW m \in 1 .. MaxEvents,
           NEW allowed \in 0 .. m - 1, Rpm(allowed) \in LimitSettings,
           NEW width, NEW p, LoadSteps(p, a, b, m, allowed, width)
    PROVE  Outlined(p)
  <1>0. m \in Nat \ {0}
    OBVIOUS
  <1>1. /\ UsersOf(p) = {a, b}
        /\ Outline(p, a, LoadOutlineOfA(m)) /\ Outline(p, b, LoadOutlineOfB(m, allowed))
    BY <1>0, LoadFormed, LoadOutlineOfAHolds, LoadOutlineOfBHolds
  <1>2. \A k \in 1 .. Len(p.steps) : p.steps[k].op = "check" => k \in {9, 14}
    BY PreflightStep, ClearStep, FreshStep, BeforeStep, PutStep, ChatsStep, AfterStep
       DEF LoadSteps
  <1>3. DOMAIN p.steps[9].wants = {a} /\ DOMAIN p.steps[14].wants = {b}
    BY DEF LoadSteps, Check, Only
  <1>4. DOMAIN p.proves = {a, b}
    BY DEF LoadSteps
  <1>5. QED
    BY <1>1, <1>2, <1>3, <1>4 DEF Outlined

LEMMA ReportOutlined ==
    ASSUME NEW u \in Users, NEW limits \in LimitSettings, LeavesRoom(limits),
           NEW p, ReportSteps(p, u, limits)
    PROVE  Outlined(p)
  <1>1. UsersOf(p) = {u} /\ Outline(p, u, ReportOutline(limits))
    BY ReportFormed, ReportOutlineHolds
  <1>2. \A k \in 1 .. Len(p.steps) : p.steps[k].op # "check"
    BY PreflightStep, ClearStep, PutStep, ChatsStep, AfterStep DEF ReportSteps
  <1>3. DOMAIN p.proves = {u}
    BY DEF ReportSteps
  <1>4. QED
    BY <1>1, <1>2, <1>3 DEF Outlined

LEMMA LoadTestUnjudging ==
    ASSUME NEW u, NEW limits, NEW n, NEW width, NEW p, LoadTestSteps(p, u, limits, n, width)
    PROVE  Unjudging(p)
  BY PutStep, BeforeStep, ChatsStep, AfterStep DEF LoadTestSteps, Unjudging

LEMMA ScriptsOutlined ==
    ASSUME NEW p, IsScript(p)
    PROVE  Outlined(p) \/ Unjudging(p)
  <1>1. CASE \E u \in Users : p \in {StandardDemo(u), LimitsDemo(u)}
    <2>1. PICK u \in Users : p \in {StandardDemo(u), LimitsDemo(u)}
      BY <1>1
    <2>2. CASE p = StandardDemo(u)
      <3>1. StandardSteps(p, u)
        BY <2>2, StandardProgram
      <3>2. QED
        BY <3>1, StandardOutlined
    <2>3. CASE p = LimitsDemo(u)
      <3>1. LimitsSteps(p, u)
        BY <2>3, LimitsProgram
      <3>2. QED
        BY <3>1, LimitsOutlined
    <2>4. QED
      BY <2>1, <2>2, <2>3
  <1>2. CASE \E a, b \in Users : a # b /\ p = UsageDemo(a, b)
    <2>1. PICK a \in Users, b \in Users : a # b /\ p = UsageDemo(a, b)
      BY <1>2
    <2>2. UsageSteps(p, a, b)
      BY <2>1, UsageProgram
    <2>3. QED
      BY <2>1, <2>2, UsageOutlined
  <1>3. CASE \E a, b \in Users : a # b /\ \E n \in 1 .. MaxEvents : p = ConcurrencyDemo(a, b, n)
    <2>1. PICK a \in Users, b \in Users, n \in 1 .. MaxEvents :
              a # b /\ p = ConcurrencyDemo(a, b, n)
      BY <1>3
    <2>2. ConcurrencySteps(p, a, b, n)
      BY <2>1, ConcurrencyProgram
    <2>3. QED
      BY <2>1, <2>2, ConcurrencyOutlined
  <1>4. CASE \E a, b \in Users : a # b /\
                 \E n, width \in 1 .. MaxEvents : \E allowed \in 0 .. n - 1 :
                     Rpm(allowed) \in LimitSettings /\ p = LoadDemo(a, b, n, allowed, width)
    <2>1. PICK a \in Users, b \in Users, n \in 1 .. MaxEvents, width \in 1 .. MaxEvents :
              a # b /\ \E allowed \in 0 .. n - 1 :
                 Rpm(allowed) \in LimitSettings /\ p = LoadDemo(a, b, n, allowed, width)
      BY <1>4
    <2>2. PICK allowed \in 0 .. n - 1 :
                 Rpm(allowed) \in LimitSettings /\ p = LoadDemo(a, b, n, allowed, width)
      BY <2>1
    <2>3. LoadSteps(p, a, b, n, allowed, width)
      BY <2>2, LoadProgram
    <2>4. QED
      BY <2>1, <2>2, <2>3, LoadOutlined
  <1>5. CASE \E u \in Users, limits \in LimitSettings :
                 LeavesRoom(limits) /\ p = ReportDemo(u, limits)
    <2>1. PICK u \in Users, limits \in LimitSettings :
              LeavesRoom(limits) /\ p = ReportDemo(u, limits)
      BY <1>5
    <2>2. ReportSteps(p, u, limits)
      BY <2>1, ReportProgram
    <2>3. QED
      BY <2>1, <2>2, ReportOutlined
  <1>6. CASE \E u \in Users, limits \in LimitSettings : \E n, width \in 1 .. MaxEvents :
                 p = LoadTest(u, limits, n, width)
    <2>1. PICK u \in Users, limits \in LimitSettings, n \in 1 .. MaxEvents, width \in 1 .. MaxEvents :
                 p = LoadTest(u, limits, n, width)
      BY <1>6
    <2>2. LoadTestSteps(p, u, limits, n, width)
      BY <2>1, LoadTestProgram
    <2>3. QED
      BY <2>2, LoadTestUnjudging
  <1>7. QED
    BY <1>1, <1>2, <1>3, <1>4, <1>5, <1>6 DEF IsScript

-----------------------------------------------------------------------------
(***************************************************************************)
(* The rows a script has made for a user, the calls that made them, those  *)
(* that succeeded, and the calls that were answered.                       *)
(***************************************************************************)
OldRows(s, u) == {i \in CountedOf(u) : i <= script[s].start}
NewRows(s, u) == {i \in CountedOf(u) : i > script[s].start}
Asked(s, u) == {k \in DOMAIN script[s].calls : script[s].calls[k].user = u}
Taken(s, u) == {k \in Asked(s, u) : script[s].calls[k].at \in {"upstream", "ok"}}
Successes(s, u) == {i \in NewRows(s, u) : usage_events[i].status = "success"}
Answered(s, u) == {k \in Asked(s, u) : script[s].calls[k].at = "ok"}

LEMMA FinitelyMany ==
    ASSUME World, NEW s \in Scripts, NEW u
    PROVE  /\ IsFiniteSet(CountedOf(u))
           /\ IsFiniteSet(OldRows(s, u)) /\ Cardinality(OldRows(s, u)) \in Nat
           /\ IsFiniteSet(NewRows(s, u)) /\ Cardinality(NewRows(s, u)) \in Nat
           /\ IsFiniteSet(Asked(s, u)) /\ Cardinality(Asked(s, u)) \in Nat
           /\ IsFiniteSet(Taken(s, u)) /\ Cardinality(Taken(s, u)) \in Nat
           /\ Cardinality(Taken(s, u)) <= Cardinality(Asked(s, u))
           /\ IsFiniteSet(Successes(s, u)) /\ Cardinality(Successes(s, u)) \in Nat
           /\ IsFiniteSet(Answered(s, u)) /\ Cardinality(Answered(s, u)) \in Nat
           /\ Cardinality(Answered(s, u)) <= Cardinality(Asked(s, u))
  <1>1. Len(usage_events) \in Nat /\ script[s].calls \in Seq(Call)
    BY DEF World, IInv, TypeOK, ScriptsOK, ScriptState
  <1>2. IsFiniteSet(1 .. Len(usage_events)) /\ IsFiniteSet(1 .. Len(script[s].calls))
    <2>1. Len(usage_events) \in Int /\ Len(script[s].calls) \in Int
      BY <1>1
    <2>2. IsFiniteSet(1 .. Len(usage_events))
      BY <2>1, FS_Interval
    <2>3. IsFiniteSet(1 .. Len(script[s].calls))
      BY <2>1, FS_Interval
    <2>4. QED
      BY <2>2, <2>3
  <1>3. DOMAIN script[s].calls = 1 .. Len(script[s].calls)
    BY <1>1
  <1>4. /\ CountedOf(u) \subseteq 1 .. Len(usage_events)
        /\ OldRows(s, u) \subseteq CountedOf(u) /\ NewRows(s, u) \subseteq CountedOf(u)
        /\ Asked(s, u) \subseteq 1 .. Len(script[s].calls) /\ Taken(s, u) \subseteq Asked(s, u)
    BY <1>3 DEF CountedOf, CountedRows, OldRows, NewRows, Asked, Taken
  <1>5. /\ IsFiniteSet(CountedOf(u)) /\ IsFiniteSet(Asked(s, u))
    BY <1>2, <1>4, FS_Subset
  <1>6. /\ IsFiniteSet(OldRows(s, u)) /\ IsFiniteSet(NewRows(s, u)) /\ IsFiniteSet(Taken(s, u))
        /\ Cardinality(Taken(s, u)) <= Cardinality(Asked(s, u))
    BY <1>4, <1>5, FS_Subset
  <1>7. /\ IsFiniteSet(Successes(s, u)) /\ IsFiniteSet(Answered(s, u))
        /\ Cardinality(Answered(s, u)) <= Cardinality(Asked(s, u))
    <2>1. Successes(s, u) \subseteq NewRows(s, u) /\ Answered(s, u) \subseteq Asked(s, u)
      BY DEF Successes, Answered
    <2>2. QED
      BY <1>5, <1>6, <2>1, FS_Subset
  <1>8. QED
    BY <1>5, <1>6, <1>7, FS_CardinalityType

\* What a row that is added, or settled, is for those that count.
LEMMA AddedCounts ==
    ASSUME TypeOK, NEW u, NEW v, AddsRow(v)
    PROVE  CountedOf(u)' = IF v = u THEN CountedOf(u) \cup {Len(usage_events) + 1}
                           ELSE CountedOf(u)
  <1>1. /\ Len(usage_events) \in Nat /\ Len(usage_events') = Len(usage_events) + 1
        /\ \A i \in 1 .. Len(usage_events) : usage_events'[i] = usage_events[i]
        /\ usage_events'[Len(usage_events) + 1].user_id = v
        /\ usage_events'[Len(usage_events) + 1].status = "reserved"
    BY DEF AddsRow, TypeOK, Ids
  <1>2. \A i : i \in CountedOf(u)' <=>
                   i \in IF v = u THEN CountedOf(u) \cup {Len(usage_events) + 1} ELSE CountedOf(u)
    BY <1>1 DEF CountedOf, CountedRows, Counted
  <1>3. QED
    BY <1>2

LEMMA SettledCounts ==
    ASSUME TypeOK, NEW u, NEW i, NEW status \in {"success", "failed"}, Settles(i, status)
    PROVE  CountedOf(u)' = IF status = "failed" THEN CountedOf(u) \ {i} ELSE CountedOf(u)
  <1>1. /\ Len(usage_events) \in Nat /\ Len(usage_events') = Len(usage_events)
        /\ i \in 1 .. Len(usage_events) /\ usage_events[i].status = "reserved"
        /\ \A j \in 1 .. Len(usage_events) : j # i => usage_events'[j] = usage_events[j]
        /\ usage_events'[i].user_id = usage_events[i].user_id
        /\ usage_events'[i].status = status
    BY DEF Settles, TypeOK, Ids
  <1>2. \A j : j \in CountedOf(u)' <=>
                   j \in IF status = "failed" THEN CountedOf(u) \ {i} ELSE CountedOf(u)
    BY <1>1 DEF CountedOf, CountedRows, Counted
  <1>3. QED
    BY <1>2

LEMMA SameCounts ==
    ASSUME NEW u, usage_events' = usage_events
    PROVE  CountedOf(u)' = CountedOf(u)
  BY DEF CountedOf, CountedRows, Counted

LEMMA TakenThen ==
    ASSUME NEW s \in Scripts, NEW u, NEW k \in DOMAIN script[s].calls, NEW at, NEW row, NEW why,
           CallGoes(s, k, at, row, why)
    PROVE  /\ Asked(s, u)' = Asked(s, u)
           /\ Taken(s, u)' = IF script[s].calls[k].user = u /\ at \in {"upstream", "ok"}
                             THEN Taken(s, u) \cup {k} ELSE Taken(s, u) \ {k}
  <1>1. /\ DOMAIN script'[s].calls = DOMAIN script[s].calls
        /\ \A j \in DOMAIN script[s].calls \ {k} : script'[s].calls[j] = script[s].calls[j]
        /\ script'[s].calls[k].user = script[s].calls[k].user
        /\ script'[s].calls[k].at = at
    BY DEF CallGoes
  <1>2. \A j : j \in Asked(s, u)' <=> j \in Asked(s, u)
    BY <1>1 DEF Asked
  <1>3. \A j : j \in Taken(s, u)' <=>
                   j \in IF script[s].calls[k].user = u /\ at \in {"upstream", "ok"}
                         THEN Taken(s, u) \cup {k} ELSE Taken(s, u) \ {k}
    BY <1>1 DEF Asked, Taken
  <1>4. QED
    BY <1>2, <1>3

LEMMA AnsweredThen ==
    ASSUME NEW s \in Scripts, NEW u, NEW k \in DOMAIN script[s].calls, NEW at, NEW row, NEW why,
           CallGoes(s, k, at, row, why)
    PROVE  /\ Asked(s, u)' = Asked(s, u)
           /\ Answered(s, u)' = IF script[s].calls[k].user = u /\ at = "ok"
                                THEN Answered(s, u) \cup {k} ELSE Answered(s, u) \ {k}
  <1>1. /\ DOMAIN script'[s].calls = DOMAIN script[s].calls
        /\ \A j \in DOMAIN script[s].calls \ {k} : script'[s].calls[j] = script[s].calls[j]
        /\ script'[s].calls[k].user = script[s].calls[k].user
        /\ script'[s].calls[k].at = at
    BY DEF CallGoes
  <1>2. \A j : j \in Asked(s, u)' <=> j \in Asked(s, u)
    BY <1>1 DEF Asked
  <1>3. \A j : j \in Answered(s, u)' <=>
                   j \in IF script[s].calls[k].user = u /\ at = "ok"
                         THEN Answered(s, u) \cup {k} ELSE Answered(s, u) \ {k}
    BY <1>1 DEF Asked, Answered
  <1>4. QED
    BY <1>2, <1>3

\* What a call does to the rows of u and to the calls of u that made them.
RowsSame(s, u) == Taken(s, u)' = Taken(s, u) /\ NewRows(s, u)' = NewRows(s, u)

RowAdded(s, u) ==
    /\ \E k \in Asked(s, u) \ Taken(s, u) : Taken(s, u)' = Taken(s, u) \cup {k}
    /\ \E i : /\ i \notin NewRows(s, u) /\ NewRows(s, u)' = NewRows(s, u) \cup {i}
              /\ usage_events'[i].timestamp = now
    /\ RateOkAt(u, now)

LEMMA NewRowsThen ==
    ASSUME NEW s \in Scripts, NEW u, CountedOf(u)' = CountedOf(u),
           script'[s].start = script[s].start
    PROVE  NewRows(s, u)' = NewRows(s, u)
  BY DEF NewRows

LEMMA ChatRows ==
    ASSUME World, NEW s \in Scripts, NEW k \in DOMAIN script[s].calls, NEW u,
           LimitRejects(s, k) \/ ServerReserves(s, k) \/ ServerAnswers(s, k)
    PROVE  /\ Asked(s, u)' = Asked(s, u)
           /\ RowsSame(s, u) \/ RowAdded(s, u)
  <1>0. /\ TypeOK /\ HeldReserved /\ ScriptsOK /\ CallsOK(s) /\ RowsOK(s)
        /\ Len(usage_events) \in Nat /\ script[s].start \in Nat
        /\ script[s].start <= Len(usage_events)
    <2>1. TypeOK /\ HeldReserved /\ ScriptsOK /\ CallsOK(s) /\ RowsOK(s)
      BY DEF World, IInv
    <2>2. QED
      BY <2>1 DEF TypeOK, RowsOK
  <1>1. CASE LimitRejects(s, k)
    <2>1. /\ usage_events' = usage_events /\ script[s].calls[k].at = "sent"
          /\ \E at \in {"sent", "limited"} : \E why : CallGoes(s, k, at, 0, why)
      BY <1>0, <1>1, LimitRejectsDoes DEF ChatAt, Quiet, quotaVars, tables
    <2>2. k \notin Taken(s, u) /\ script'[s].start = script[s].start
      BY <2>1 DEF Taken, CallGoes
    <2>3. /\ Asked(s, u)' = Asked(s, u) /\ Taken(s, u)' = Taken(s, u) \ {k}
      BY <2>1, TakenThen
    <2>4. NewRows(s, u)' = NewRows(s, u)
      BY <2>1, <2>2, SameCounts, NewRowsThen
    <2>5. QED
      BY <2>2, <2>3, <2>4 DEF RowsSame
  <1>2. CASE ServerReserves(s, k)
    <2>1. /\ script[s].calls[k].at = "sent" /\ AddsRow(script[s].calls[k].user)
          /\ RateOkAt(script[s].calls[k].user, now)
          /\ CallGoes(s, k, "upstream", Len(usage_events) + 1, {})
      BY <1>0, <1>2, ServerReservesDoes DEF ChatAt
    <2>2. k \notin Taken(s, u) /\ script'[s].start = script[s].start
      BY <2>1 DEF Taken, CallGoes
    <2>3. CASE script[s].calls[k].user # u
      <3>1. Asked(s, u)' = Asked(s, u) /\ Taken(s, u)' = Taken(s, u) \ {k}
        BY <2>1, <2>3, TakenThen
      <3>2. NewRows(s, u)' = NewRows(s, u)
        BY <1>0, <2>1, <2>2, <2>3, AddedCounts, NewRowsThen
      <3>3. QED
        BY <2>2, <3>1, <3>2 DEF RowsSame
    <2>4. CASE script[s].calls[k].user = u
      <3>0. k \in Asked(s, u)
        BY <2>4 DEF Asked
      <3>1. Asked(s, u)' = Asked(s, u) /\ Taken(s, u)' = Taken(s, u) \cup {k}
        <4>1. /\ Asked(s, u)' = Asked(s, u)
              /\ Taken(s, u)' = IF script[s].calls[k].user = u
                                   /\ "upstream" \in {"upstream", "ok"}
                                THEN Taken(s, u) \cup {k} ELSE Taken(s, u) \ {k}
          BY <2>1, TakenThen
        <4>2. QED
          BY <2>4, <4>1
      <3>2. CountedOf(u)' = CountedOf(u) \cup {Len(usage_events) + 1}
        BY <1>0, <2>1, <2>4, AddedCounts
      <3>3. /\ NewRows(s, u)' = NewRows(s, u) \cup {Len(usage_events) + 1}
            /\ Len(usage_events) + 1 \notin NewRows(s, u)
        BY <1>0, <2>2, <3>2 DEF NewRows, CountedOf, CountedRows
      <3>4. usage_events'[Len(usage_events) + 1].timestamp = now
        BY <2>1 DEF AddsRow
      <3>5. QED
        BY <2>1, <2>2, <2>4, <3>0, <3>1, <3>3, <3>4 DEF RowAdded
    <2>5. QED
      BY <2>3, <2>4
  <1>3. CASE ServerAnswers(s, k)
    <2>1. /\ script[s].calls[k].at = "upstream" /\ Settles(script[s].calls[k].row, "success")
          /\ CallGoes(s, k, "ok", 0, {})
      BY <1>0, <1>3, ServerAnswersDoes DEF ChatAt
    <2>2. script[s].calls[k].user = u <=> k \in Taken(s, u)
      BY <2>1 DEF Taken, Asked
    <2>3. /\ Asked(s, u)' = Asked(s, u)
          /\ Taken(s, u)' = IF script[s].calls[k].user = u THEN Taken(s, u) \cup {k}
                            ELSE Taken(s, u) \ {k}
      BY <2>1, TakenThen
    <2>4. NewRows(s, u)' = NewRows(s, u)
      BY <1>0, <2>1, SettledCounts, NewRowsThen DEF CallGoes
    <2>5. QED
      BY <2>2, <2>3, <2>4 DEF RowsSame
  <1>4. QED
    BY <1>1, <1>2, <1>3

\* The rows and the calls that made them keep step.
LEMMA KeepStep ==
    ASSUME World, World', NEW s \in Scripts, NEW u, NEW made \in Nat,
           RowsSame(s, u) \/ RowAdded(s, u),
           Cardinality(NewRows(s, u)) = made + Cardinality(Taken(s, u))
    PROVE  /\ Cardinality(NewRows(s, u))' = made + Cardinality(Taken(s, u))'
           /\ RowAdded(s, u) =>
                  Cardinality(NewRows(s, u))' = Cardinality(NewRows(s, u)) + 1
  <1>0. /\ IsFiniteSet(NewRows(s, u)) /\ IsFiniteSet(Taken(s, u))
        /\ Cardinality(NewRows(s, u)) \in Nat /\ Cardinality(Taken(s, u)) \in Nat
    BY FinitelyMany
  <1>1. CASE RowsSame(s, u)
    <2>1. ~RowAdded(s, u)
      BY <1>1 DEF RowsSame, RowAdded
    <2>2. QED
      BY <1>1, <2>1 DEF RowsSame
  <1>2. CASE RowAdded(s, u)
    <2>1. PICK k, i : /\ k \notin Taken(s, u) /\ Taken(s, u)' = Taken(s, u) \cup {k}
                      /\ i \notin NewRows(s, u) /\ NewRows(s, u)' = NewRows(s, u) \cup {i}
      BY <1>2 DEF RowAdded
    <2>2. /\ Cardinality(Taken(s, u) \cup {k}) = Cardinality(Taken(s, u)) + 1
          /\ Cardinality(NewRows(s, u) \cup {i}) = Cardinality(NewRows(s, u)) + 1
      BY <1>0, <2>1, FS_AddElement
    <2>3. QED
      BY <1>0, <2>1, <2>2
  <1>3. QED
    BY <1>1, <1>2

\* What a call does to the successful rows of u and to the calls of u that were
\* answered.
AnswersSame(s, u) == Answered(s, u)' = Answered(s, u) /\ Successes(s, u)' = Successes(s, u)

AnswerAdded(s, u) ==
    /\ \E k : k \notin Answered(s, u) /\ Answered(s, u)' = Answered(s, u) \cup {k}
    /\ \E i : i \notin Successes(s, u) /\ Successes(s, u)' = Successes(s, u) \cup {i}

LEMMA SameSuccesses ==
    ASSUME NEW s \in Scripts, NEW u, usage_events' = usage_events,
           script'[s].start = script[s].start
    PROVE  Successes(s, u)' = Successes(s, u)
  BY SameCounts, NewRowsThen DEF Successes

LEMMA AddedSuccesses ==
    ASSUME TypeOK, NEW s \in Scripts, NEW u, NEW v, AddsRow(v),
           script'[s].start = script[s].start
    PROVE  Successes(s, u)' = Successes(s, u)
  <1>1. /\ Len(usage_events) \in Nat /\ Len(usage_events') = Len(usage_events) + 1
        /\ \A i \in 1 .. Len(usage_events) : usage_events'[i] = usage_events[i]
        /\ usage_events'[Len(usage_events) + 1].status = "reserved"
    BY DEF AddsRow, TypeOK, Ids
  <1>2. \A i : i \in Successes(s, u)' <=> i \in Successes(s, u)
    BY <1>1 DEF Successes, NewRows, CountedOf, CountedRows, Counted
  <1>3. QED
    BY <1>2

LEMMA SettledSuccesses ==
    ASSUME TypeOK, NEW s \in Scripts, NEW u, NEW i, NEW status \in {"success", "failed"},
           Settles(i, status), i > script[s].start, script'[s].start = script[s].start
    PROVE  /\ i \notin Successes(s, u)
           /\ Successes(s, u)' = IF status = "success" /\ usage_events[i].user_id = u
                                 THEN Successes(s, u) \cup {i} ELSE Successes(s, u)
  <1>1. /\ Len(usage_events) \in Nat /\ Len(usage_events') = Len(usage_events)
        /\ i \in 1 .. Len(usage_events) /\ usage_events[i].status = "reserved"
        /\ \A j \in 1 .. Len(usage_events) : j # i => usage_events'[j] = usage_events[j]
        /\ usage_events'[i].user_id = usage_events[i].user_id
        /\ usage_events'[i].status = status
    BY DEF Settles, TypeOK, Ids
  <1>2. i \notin Successes(s, u)
    BY <1>1 DEF Successes
  <1>3. \A j : j \in Successes(s, u)' <=>
                   j \in IF status = "success" /\ usage_events[i].user_id = u
                         THEN Successes(s, u) \cup {i} ELSE Successes(s, u)
    BY <1>1 DEF Successes, NewRows, CountedOf, CountedRows, Counted
  <1>4. QED
    BY <1>2, <1>3

LEMMA ChatAnswers ==
    ASSUME World, NEW s \in Scripts, NEW k \in DOMAIN script[s].calls, NEW u, ChatStep(s, k)
    PROVE  /\ Asked(s, u)' = Asked(s, u)
           /\ AnswersSame(s, u) \/ AnswerAdded(s, u)
  <1>0. TypeOK /\ HeldReserved /\ ScriptsOK /\ CallsOK(s)
    BY DEF World, IInv
  <1>1. ASSUME NEW at, NEW row, NEW why, CallGoes(s, k, at, row, why), at # "ok",
               script[s].calls[k].at \in {"sent", "upstream"},
               Successes(s, u)' = Successes(s, u)
        PROVE  Asked(s, u)' = Asked(s, u) /\ AnswersSame(s, u)
    <2>1. k \notin Answered(s, u)
      BY <1>1 DEF Answered
    <2>2. /\ Asked(s, u)' = Asked(s, u)
          /\ Answered(s, u)' = IF script[s].calls[k].user = u /\ at = "ok"
                               THEN Answered(s, u) \cup {k} ELSE Answered(s, u) \ {k}
      BY <1>1, AnsweredThen
    <2>3. QED
      BY <1>1, <2>1, <2>2 DEF AnswersSame
  <1>2. CASE ModelRefused(s, k) \/ LimitRejects(s, k) \/ ServerLeavesRow(s, k)
               \/ ChatTimesOut(s, k)
    <2>1. /\ usage_events' = usage_events /\ script[s].calls[k].at \in {"sent", "upstream"}
          /\ \E at \in {"sent", "limited", "failed"} : \E why : CallGoes(s, k, at, 0, why)
      BY <1>0, <1>2, ModelRefusedDoes, LimitRejectsDoes, ServerLeavesRowDoes, ChatTimesOutDoes
         DEF ChatAt, Quiet, quotaVars, tables
    <2>2. PICK at \in {"sent", "limited", "failed"} : \E why : CallGoes(s, k, at, 0, why)
      BY <2>1
    <2>3. script'[s].start = script[s].start
      BY <2>2 DEF CallGoes
    <2>4. QED
      BY <1>1, <2>1, <2>2, <2>3, SameSuccesses
  <1>3. CASE ServerReserves(s, k)
    <2>1. /\ script[s].calls[k].at = "sent" /\ AddsRow(script[s].calls[k].user)
          /\ CallGoes(s, k, "upstream", Len(usage_events) + 1, {})
      BY <1>0, <1>3, ServerReservesDoes DEF ChatAt
    <2>2. script'[s].start = script[s].start
      BY <2>1 DEF CallGoes
    <2>3. QED
      BY <1>0, <1>1, <2>1, <2>2, AddedSuccesses
  <1>4. CASE ServerAnswers(s, k) \/ UpstreamFails(s, k)
    <2>1. PICK i : i = script[s].calls[k].row
      OBVIOUS
    <2>2. script[s].calls[k].at = "upstream"
      BY <1>4 DEF ServerAnswers, UpstreamFails, ChatAt
    <2>3. i > script[s].start /\ usage_events[i].user_id = script[s].calls[k].user
      BY <1>0, <2>1, <2>2 DEF CallsOK
    <2>4. CASE ServerAnswers(s, k)
      <3>1. Settles(i, "success") /\ CallGoes(s, k, "ok", 0, {})
        BY <1>0, <2>1, <2>4, ServerAnswersDoes
      <3>2. /\ i \notin Successes(s, u)
            /\ Successes(s, u)' = IF script[s].calls[k].user = u
                                  THEN Successes(s, u) \cup {i} ELSE Successes(s, u)
        BY <1>0, <2>3, <3>1, SettledSuccesses DEF CallGoes
      <3>3. k \notin Answered(s, u)
        BY <2>2 DEF Answered
      <3>4. /\ Asked(s, u)' = Asked(s, u)
            /\ Answered(s, u)' = IF script[s].calls[k].user = u /\ "ok" = "ok"
                                 THEN Answered(s, u) \cup {k} ELSE Answered(s, u) \ {k}
        BY <3>1, AnsweredThen
      <3>5. QED
        BY <3>2, <3>3, <3>4 DEF AnswersSame, AnswerAdded
    <2>5. CASE UpstreamFails(s, k)
      <3>1. /\ Settles(i, "failed")
            /\ \E at \in {"sent", "failed"} : CallGoes(s, k, at, 0, {"outage"})
        BY <1>0, <2>1, <2>5, UpstreamFailsDoes
      <3>2. PICK at \in {"sent", "failed"} : CallGoes(s, k, at, 0, {"outage"})
        BY <3>1
      <3>3. script'[s].start = script[s].start
        BY <3>2 DEF CallGoes
      <3>4. Successes(s, u)' = Successes(s, u)
        BY <1>0, <2>3, <3>1, <3>3, SettledSuccesses
      <3>5. QED
        BY <1>1, <2>2, <3>2, <3>4
    <2>6. QED
      BY <1>4, <2>4, <2>5
  <1>5. QED
    BY <1>2, <1>3, <1>4 DEF ChatStep

LEMMA AnswersKeepStep ==
    ASSUME World, NEW s \in Scripts, NEW u, NEW made \in Nat,
           AnswersSame(s, u) \/ AnswerAdded(s, u),
           Cardinality(Successes(s, u)) = made + Cardinality(Answered(s, u))
    PROVE  Cardinality(Successes(s, u))' = made + Cardinality(Answered(s, u))'
  <1>0. /\ IsFiniteSet(Successes(s, u)) /\ IsFiniteSet(Answered(s, u))
        /\ Cardinality(Successes(s, u)) \in Nat /\ Cardinality(Answered(s, u)) \in Nat
    BY FinitelyMany
  <1>1. CASE AnswersSame(s, u)
    BY <1>1 DEF AnswersSame
  <1>2. CASE AnswerAdded(s, u)
    <2>1. PICK k, i : /\ k \notin Answered(s, u) /\ Answered(s, u)' = Answered(s, u) \cup {k}
                      /\ i \notin Successes(s, u)
                      /\ Successes(s, u)' = Successes(s, u) \cup {i}
      BY <1>2 DEF AnswerAdded
    <2>2. /\ Cardinality(Answered(s, u) \cup {k}) = Cardinality(Answered(s, u)) + 1
          /\ Cardinality(Successes(s, u) \cup {i}) = Cardinality(Successes(s, u)) + 1
      BY <1>0, <2>1, FS_AddElement
    <2>3. QED
      BY <1>0, <2>1, <2>2
  <1>3. QED
    BY <1>1, <1>2

-----------------------------------------------------------------------------
(***************************************************************************)
(* Until a call of it times out, or the server leaves the row of one, a    *)
(* row of its users that is still reserved belongs to a call that is       *)
(* upstream.                                                               *)
(***************************************************************************)
OpenRowsOK(s) ==
    Tidy(s) =>
        \A i \in Ids :
            i > script[s].start /\ usage_events[i].user_id \in Own(s)
              /\ usage_events[i].status = "reserved" =>
                \E k \in DOMAIN script[s].calls :
                    script[s].calls[k].at = "upstream" /\ script[s].calls[k].row = i

LEMMA CallOpens ==
    ASSUME program' = program, NEW s \in Scripts, OpenRowsOK(s), Tidy(s)' => Tidy(s),
           NEW k \in DOMAIN script[s].calls, NEW at, NEW row, NEW why,
           CallGoes(s, k, at, row, why),
           \A i \in Ids' :
               i > script[s].start /\ usage_events'[i].status = "reserved" =>
                   \/ i = row /\ at = "upstream"
                   \/ /\ i \in Ids /\ usage_events[i] = usage_events'[i]
                      /\ script[s].calls[k].at = "upstream" => script[s].calls[k].row # i
    PROVE  OpenRowsOK(s)'
  <1> SUFFICES ASSUME Tidy(s)', NEW i \in Ids', i > script[s].start,
                      usage_events'[i].user_id \in Own(s), usage_events'[i].status = "reserved"
               PROVE  \E j \in DOMAIN script'[s].calls :
                          script'[s].calls[j].at = "upstream" /\ script'[s].calls[j].row = i
    BY DEF OpenRowsOK, Own, CallGoes
  <1>1. CASE i = row /\ at = "upstream"
    BY <1>1 DEF CallGoes
  <1>2. CASE /\ i \in Ids /\ usage_events[i] = usage_events'[i]
             /\ script[s].calls[k].at = "upstream" => script[s].calls[k].row # i
    <2>1. PICK j \in DOMAIN script[s].calls :
              script[s].calls[j].at = "upstream" /\ script[s].calls[j].row = i
      BY <1>2 DEF OpenRowsOK
    <2>2. j # k
      BY <1>2, <2>1
    <2>3. QED
      BY <2>1, <2>2 DEF CallGoes
  <1>3. QED
    BY <1>1, <1>2

LEMMA ChatOpens ==
    ASSUME World, [DemoNext]_demoVars, NEW s \in Scripts, OpenRowsOK(s),
           NEW k \in DOMAIN script[s].calls, ChatStep(s, k)
    PROVE  OpenRowsOK(s)'
  <1>0. /\ TypeOK /\ HeldReserved /\ ScriptsOK /\ program' = program
        /\ Tidy(s)' => Tidy(s) /\ Len(usage_events) \in Nat
    BY ScriptsStep, BlameStays DEF World, IInv, Tidy, Untimed, TypeOK
  <1>1. CASE ModelRefused(s, k) \/ LimitRejects(s, k)
    <2>1. /\ usage_events' = usage_events /\ script[s].calls[k].at = "sent"
          /\ \E at, why : CallGoes(s, k, at, 0, why)
      BY <1>0, <1>1, ModelRefusedDoes, LimitRejectsDoes DEF ChatAt, Quiet, quotaVars, tables
    <2>2. PICK at, why : CallGoes(s, k, at, 0, why)
      BY <2>1
    <2>3. QED
      BY <1>0, <2>1, <2>2, CallOpens DEF Ids
  <1>2. CASE ServerReserves(s, k)
    <2>1. /\ script[s].calls[k].at = "sent" /\ AddsRow(script[s].calls[k].user)
          /\ CallGoes(s, k, "upstream", Len(usage_events) + 1, {})
      BY <1>0, <1>2, ServerReservesDoes DEF ChatAt
    <2>2. \A i \in Ids' : \/ i = Len(usage_events) + 1
                          \/ i \in Ids /\ usage_events[i] = usage_events'[i]
      BY <1>0, <2>1 DEF AddsRow, Ids
    <2>3. QED
      BY <1>0, <2>1, <2>2, CallOpens
  <1>3. CASE ServerAnswers(s, k) \/ UpstreamFails(s, k)
    <2>1. PICK status \in {"success", "failed"} :
              /\ script[s].calls[k].at = "upstream"
              /\ Settles(script[s].calls[k].row, status)
              /\ \E at, why : CallGoes(s, k, at, 0, why)
      BY <1>0, <1>3, ServerAnswersDoes, UpstreamFailsDoes DEF ChatAt
    <2>2. PICK at, why : CallGoes(s, k, at, 0, why)
      BY <2>1
    <2>3. \A i \in Ids' : usage_events'[i].status = "reserved" =>
              /\ i \in Ids /\ usage_events[i] = usage_events'[i]
              /\ script[s].calls[k].row # i
      BY <1>0, <2>1 DEF Settles, Ids
    <2>4. QED
      BY <1>0, <2>2, <2>3, CallOpens
  <1>4. CASE ChatTimesOut(s, k) \/ ServerLeavesRow(s, k)
    <2>1. ~Tidy(s)'
      BY <1>0, <1>4, ChatTimesOutDoes, ServerLeavesRowDoes DEF CallGoes, Tidy, Untimed
    <2>2. QED
      BY <2>1 DEF OpenRowsOK
  <1>5. QED
    BY <1>1, <1>2, <1>3, <1>4 DEF ChatStep

LEMMA NothingOpen ==
    ASSUME NEW s \in Scripts, OpenRowsOK(s), Tidy(s), AllEnded(s)
    PROVE  \A i \in Ids : i > script[s].start /\ usage_events[i].user_id \in Own(s) =>
               usage_events[i].status # "reserved"
  BY DEF OpenRowsOK, AllEnded, Final

LEMMA OpenRowsStep ==
    ASSUME World, [DemoNext]_demoVars, NEW s \in Scripts, OpenRowsOK(s)
    PROVE  OpenRowsOK(s)'
  <1>0. /\ TypeOK /\ ScriptsOK /\ CallsOK(s) /\ program' = program
        /\ Tidy(s)' => Tidy(s)
    BY ScriptsStep, BlameStays DEF World, IInv, Tidy, Untimed
  <1>1. CASE \E k \in DOMAIN script[s].calls : ChatStep(s, k)
    BY <1>1, ChatOpens
  <1>2. CASE Bystands(s)
    <2> SUFFICES ASSUME Tidy(s)', NEW i \in Ids', i > script'[s].start,
                        usage_events'[i].user_id \in Own(s)',
                        usage_events'[i].status = "reserved"
                 PROVE  \E k \in DOMAIN script'[s].calls :
                            script'[s].calls[k].at = "upstream" /\ script'[s].calls[k].row = i
      BY DEF OpenRowsOK
    <2>1. Stands(s) /\ OwnKept(s) /\ Kept /\ Own(s)' = Own(s) /\ Tidy(s)
      BY <1>0, <1>2, RowsKept DEF Bystands, Own, Tidy
    <2>2. i \in Ids /\ usage_events'[i] = usage_events[i]
      BY <2>1 DEF OwnKept, Kept
    <2>3. QED
      BY <2>1, <2>2 DEF Stands, OpenRowsOK
  <1>3. CASE ScriptStep(s)
    <2>1. /\ usage_events' = usage_events /\ script'[s].start = script[s].start
          /\ \/ Moves(s)
             \/ script'[s].calls = script[s].calls
      <3>1. CASE PutUpserts(s)
        BY <1>0, <3>1, PutUpsertsDoes DEF UpdateLimits, Writes
      <3>2. CASE ReadFails(s) \/ PutTimesOut(s)
        BY <1>0, <3>2, FailureMoves DEF quotaVars, tables, Moves, Goes
      <3>3. CASE ListModels(s) \/ GetLimits(s) \/ EnsureFresh(s) \/ GetUsage(s) \/ Compare(s)
                   \/ PutAnswers(s) \/ Gather(s)
        BY <1>0, <3>3, ReadMoves DEF Quiet, quotaVars, tables, Moves, Goes
      <3>4. QED
        BY <1>3, <3>1, <3>2, <3>3 DEF ScriptStep
    <2>2. CASE Moves(s)
      <3>1. AllEnded(s)
        BY <1>0, <2>2 DEF Moves, CallsOK
      <3>2. QED
        BY <1>0, <2>1, <3>1, NothingOpen DEF OpenRowsOK, Own, Ids
    <2>3. CASE script'[s].calls = script[s].calls
      BY <1>0, <2>1, <2>3 DEF OpenRowsOK, Own, Ids
    <2>4. QED
      BY <2>1, <2>2, <2>3
  <1>4. QED
    BY <1>1, <1>2, <1>3, ActsOrStands

-----------------------------------------------------------------------------
(***************************************************************************)
(* The outlines hold, as far as they are about successful rows, of a       *)
(* script that has not failed and of which no call has timed out.          *)
(***************************************************************************)
InOrder(s) == Untimed(s) /\ ~script[s].failed

Noted(s, u, a) ==
    /\ Cardinality(Asked(s, u)) = a.asked
    /\ Cardinality(Successes(s, u)) = a.made + Cardinality(Answered(s, u))
    /\ ~At(s, "chats") /\ a.sure => Cardinality(Successes(s, u)) = a.total

NotedOK(s) ==
    InOrder(s) => \A u \in Own(s) : \A n :
        Outline(program[s], u, n) => Noted(s, u, n[script[s].pc])

LEMMA OutlineAt ==
    ASSUME ScriptsOK, NEW s \in Scripts, NEW u, NEW n, Outline(program[s], u, n), Running(s)
    PROVE  /\ n[script[s].pc] \in Note /\ n[script[s].pc + 1] \in Note
           /\ Passes(program[s], u, Step(s), n[script[s].pc], n[script[s].pc + 1],
                     SendsAt(program[s], script[s].pc + 1))
           /\ SendsAt(program[s], script[s].pc + 1) =>
                  n[script[s].pc + 1].asked
                      = Cardinality(Entries(program[s].steps[script[s].pc + 1], u))
  <1> DEFINE p == program[s]
             pc == script[s].pc
  <1>1. pc \in 1 .. Len(p.steps) /\ Len(p.steps) \in Nat /\ Step(s) = p.steps[pc]
    BY WhereItIs DEF ScriptsOK, Formed
  <1>2. /\ \A k \in 1 .. Len(p.steps) + 1 : n[k] \in Note
        /\ \A k \in 1 .. Len(p.steps) :
              Passes(p, u, p.steps[k], n[k], n[k + 1], SendsAt(p, k + 1))
    BY DEF Outline
  <1>3. SendsAt(p, pc + 1) => Passes(p, u, p.steps[pc + 1], n[pc + 1], n[pc + 1 + 1],
                                     SendsAt(p, pc + 1 + 1))
    <2>1. SendsAt(p, pc + 1) => pc + 1 \in 1 .. Len(p.steps)
      BY <1>1 DEF SendsAt
    <2>2. QED
      BY <1>2, <2>1
  <1>4. SendsAt(p, pc + 1) => n[pc + 1].asked = Cardinality(Entries(p.steps[pc + 1], u))
    BY <1>3 DEF Passes, ChatsNoted, SendsAt
  <1>5. QED
    BY <1>1, <1>2, <1>4

\* The calls of the next step.
LEMMA NextCalls ==
    ASSUME ScriptsOK, NEW s \in Scripts, NEW u, Running(s), Goes(s, script[s].pc + 1),
           program' = program
    PROVE  /\ SendsAt(program[s], script[s].pc + 1) =>
                  /\ Asked(s, u)' = Entries(program[s].steps[script[s].pc + 1], u)
                  /\ Taken(s, u)' = {} /\ Answered(s, u)' = {} /\ At(s, "chats")'
           /\ ~SendsAt(program[s], script[s].pc + 1) =>
                  /\ Asked(s, u)' = Asked(s, u)
                  /\ Taken(s, u)' = Taken(s, u) /\ Answered(s, u)' = Answered(s, u)
                  /\ ~At(s, "chats")'
  <1> DEFINE p == program[s]
             next == script[s].pc + 1
  <1>1. /\ script'[s].pc = next /\ script'[s].calls = CallsAt(p, next, script[s].calls)
    BY DEF Goes
  <1>2. At(s, "chats")' <=> SendsAt(p, next)
    BY <1>1 DEF At, Running, Step, SendsAt
  <1>3. CASE SendsAt(p, next)
    <2> DEFINE st == p.steps[next]
    <2>1. script'[s].calls = NewCalls(st)
      BY <1>1, <1>3 DEF CallsAt, SendsAt
    <2> HIDE DEF st
    <2>2. /\ DOMAIN script'[s].calls = DOMAIN st.users
          /\ \A k \in DOMAIN st.users : /\ script'[s].calls[k].user = st.users[k]
                                        /\ script'[s].calls[k].at = "sent"
      BY <2>1 DEF NewCalls
    <2>3. Asked(s, u)' = Entries(st, u)
      BY <2>2 DEF Asked, Entries
    <2>4. Taken(s, u)' = {} /\ Answered(s, u)' = {}
      BY <2>2 DEF Asked, Taken, Answered
    <2>5. QED
      BY <1>2, <1>3, <2>3, <2>4 DEF st
  <1>4. CASE ~SendsAt(p, next)
    <2>1. script'[s].calls = script[s].calls
      BY <1>1, <1>4 DEF CallsAt, SendsAt
    <2>2. QED
      BY <1>2, <1>4, <2>1 DEF Asked, Taken, Answered
  <1>5. QED
    BY <1>3, <1>4

\* What the wanted end of the calls says of the rows.
LEMMA WantedRows ==
    ASSUME World, NEW s \in Scripts, NEW u \in Own(s), NEW n, Outline(program[s], u, n),
           Noted(s, u, n[script[s].pc]), At(s, "chats"), AllEnded(s), AllWanted(s),
           n[script[s].pc].sure
    PROVE  Cardinality(Successes(s, u)) = n[script[s].pc].total
  <1> DEFINE a == n[script[s].pc]
             st == Step(s)
  <1>0. ScriptsOK /\ Running(s)
    BY DEF World, At
  <1>1. a \in Note /\ ChatsNoted(program[s], u, st, a)
    BY <1>0, OutlineAt DEF Passes, At
  <1>2. /\ a.made \in Nat /\ a.asked \in Nat /\ a.total \in Nat
    BY <1>1 DEF Note
  <1>3. /\ Cardinality(Successes(s, u)) = a.made + Cardinality(Answered(s, u))
        /\ Cardinality(Asked(s, u)) = a.asked
    BY DEF Noted
  <1>4. CASE st.want = "ok"
    <2>1. Answered(s, u) = Asked(s, u)
      BY <1>4 DEF AllWanted, Answered, Asked
    <2>2. QED
      BY <1>1, <1>3, <1>4, <2>1 DEF ChatsNoted
  <1>5. CASE st.want = "limited"
    <2>1. Answered(s, u) = {}
      BY <1>5 DEF AllWanted, Answered, Asked
    <2>2. QED
      BY <1>1, <1>2, <1>3, <1>5, <2>1, FS_EmptySet DEF ChatsNoted
  <1>6. CASE st.want = "any"
    <2>1. a.asked = 0
      BY <1>1, <1>6 DEF ChatsNoted
    <2>2. Cardinality(Answered(s, u)) = 0
      BY <1>3, <2>1, FinitelyMany
    <2>3. a.total = a.made
      <3>1. CASE IsRated(a) /\ a.total = IF a.made + a.asked <= a.limits.requests_per_minute
                                         THEN a.made + a.asked ELSE a.limits.requests_per_minute
        BY <1>2, <2>1, <3>1 DEF IsRated
      <3>2. CASE a.total = a.made + a.asked
        BY <1>2, <2>1, <3>2
      <3>3. QED
        BY <1>1, <3>1, <3>2 DEF ChatsNoted
    <2>4. QED
      BY <1>2, <1>3, <2>2, <2>3
  <1>7. QED
    BY <1>1, <1>4, <1>5, <1>6 DEF ChatsNoted

\* What a check that came out right says of the rows.
LEMMA CheckedRows ==
    ASSUME World, NEW s \in Scripts, NEW u \in Own(s), NEW n, Outline(program[s], u, n),
           Noted(s, u, n[script[s].pc]), At(s, "check"), Right(s), Step(s).results,
           u \in DOMAIN Step(s).wants
    PROVE  Cardinality(Successes(s, u)) = n[script[s].pc].total
  <1> DEFINE a == n[script[s].pc]
             st == Step(s)
  <1>0. ScriptsOK /\ Running(s) /\ CallsOK(s) /\ ~At(s, "chats")
    BY DEF World, At
  <1>1. CheckNoted(st, u, a)
    BY <1>0, OutlineAt DEF Passes, At
  <1>2. Results(s, u, "ok") = Answered(s, u)
    BY <1>0 DEF CallsOK, AllEnded, Final, Results, Answered, Asked
  <1>3. Cardinality(Results(s, u, "ok")) = st.wants[u].ok
    BY DEF Right
  <1>4. QED
    BY <1>1, <1>2, <1>3 DEF CheckNoted, Noted

\* The note at the next step, for one that goes on.
LEMMA NotedNext ==
    ASSUME World, World', program' = program, NEW s \in Scripts, NEW u \in Own(s), NEW n,
           Outline(program[s], u, n), Running(s), Goes(s, script[s].pc + 1),
           Successes(s, u)' = Successes(s, u), Noted(s, u, n[script[s].pc]),
           n[script[s].pc].sure
             \/ (At(s, "check") /\ Step(s).results /\ u \in DOMAIN Step(s).wants) =>
                 Cardinality(Successes(s, u)) = n[script[s].pc].total
    PROVE  Noted(s, u, n[script[s].pc])'
  <1> DEFINE p == program[s]
             next == SendsAt(p, script[s].pc + 1)
  <1>0. ScriptsOK /\ script'[s].pc = script[s].pc + 1
    BY DEF World, Goes
  <1>1. PICK pc : pc = script[s].pc
    OBVIOUS
  <1>2. PICK a, b : a = n[pc] /\ b = n[pc + 1]
    OBVIOUS
  <1>3. /\ a \in Note /\ b \in Note /\ Passes(p, u, Step(s), a, b, next)
        /\ next => b.asked = Cardinality(Entries(p.steps[pc + 1], u))
    BY <1>0, <1>1, <1>2, OutlineAt
  <1>4. Noted(s, u, a)
    BY <1>1, <1>2
  <1>5. Noted(s, u, b)'
    <2>1. CASE next
      <3>1. /\ Asked(s, u)' = Entries(p.steps[pc + 1], u) /\ Answered(s, u)' = {} /\ At(s, "chats")'
        BY <1>0, <1>1, <2>1, NextCalls
      <3>2. a.sure /\ b.made = a.total /\ b.made \in Nat
        BY <1>3, <2>1 DEF Passes, Note
      <3>3. Cardinality(Successes(s, u)) = b.made
        BY <1>1, <1>2, <3>2
      <3>4. Cardinality(Answered(s, u)') = 0
        BY <3>1, FS_EmptySet
      <3>5. QED
        BY <1>3, <2>1, <3>1, <3>2, <3>3, <3>4 DEF Noted
    <2>2. CASE ~next
      <3>1. Asked(s, u)' = Asked(s, u) /\ Answered(s, u)' = Answered(s, u) /\ ~At(s, "chats")'
        BY <1>0, <2>2, NextCalls
      <3>2. /\ b.made = a.made /\ b.asked = a.asked /\ b.total = a.total
            /\ b.sure => \/ a.sure
                         \/ Step(s).op = "check" /\ Step(s).results /\ u \in DOMAIN Step(s).wants
        BY <1>3, <2>2 DEF Passes
      <3>3. b.sure => Cardinality(Successes(s, u)) = a.total
        BY <1>1, <1>2, <3>2 DEF At
      <3>4. QED
        BY <1>4, <3>1, <3>2, <3>3 DEF Noted
    <2>3. QED
      BY <2>1, <2>2
  <1>6. QED
    BY <1>0, <1>1, <1>2, <1>5

\* A step that reads, after which the script has not failed, went on.
LEMMA ReadsOn ==
    ASSUME World, NEW s \in Scripts, Reads(s), ~script'[s].failed
    PROVE  /\ ~script[s].failed /\ Running(s) /\ Goes(s, script[s].pc + 1)
           /\ At(s, "chats") => AllEnded(s) /\ AllWanted(s)
           /\ At(s, "check") => Right(s)
  <1>0. TypeOK /\ ScriptsOK /\ Running(s)
    BY DEF World, IInv, Reads, Moves
  <1>1. /\ Formed(program[s]) /\ script[s].pc \in 1 .. Len(program[s].steps)
        /\ Step(s) = program[s].steps[script[s].pc]
    BY <1>0, WhereItIs
  <1>2. ASSUME NEW why, Raises(s, why) PROVE Step(s).op = "put"
    <2>1. ~(script[s].pc < program[s].finally)
      BY <1>2 DEF Raises
    <2>2. script[s].pc = Len(program[s].steps) /\ program[s].finally = Len(program[s].steps)
      BY <1>1, <2>1 DEF Formed
    <2>3. QED
      BY <1>1, <2>2 DEF Formed
  <1>3. CASE ListModels(s)
    BY <1>0, <1>2, <1>3, ListModelsDoes DEF At, GoesOn
  <1>4. CASE GetLimits(s)
    BY <1>0, <1>2, <1>4, GetLimitsDoes DEF At, GoesOn
  <1>5. CASE EnsureFresh(s)
    BY <1>0, <1>2, <1>5, EnsureFreshDoes DEF At, FindsFresh
  <1>6. CASE GetUsage(s)
    BY <1>0, <1>2, <1>6, GetUsageDoes DEF At, GoesOn, Measures
  <1>7. CASE Compare(s)
    BY <1>0, <1>2, <1>7, CompareDoes DEF At, GoesOn, FailsOn
  <1>8. CASE PutAnswers(s)
    BY <1>0, <1>8, PutAnswersDoes DEF At, GoesOn
  <1>9. CASE Gather(s)
    BY <1>0, <1>2, <1>9, GatherDoes DEF At, GoesOn
  <1>10. QED
    BY <1>3, <1>4, <1>5, <1>6, <1>7, <1>8, <1>9 DEF Reads

LEMMA NotedSame ==
    ASSUME NEW s \in Scripts, NEW u, NEW n, program' = program, Noted(s, u, n[script[s].pc]),
           script'[s].pc = script[s].pc, script'[s].calls = script[s].calls,
           Successes(s, u)' = Successes(s, u)
    PROVE  Noted(s, u, n[script[s].pc])'
  <1>1. At(s, "chats")' <=> At(s, "chats")
    BY StaysThere
  <1>2. Asked(s, u)' = Asked(s, u) /\ Answered(s, u)' = Answered(s, u)
    BY DEF Asked, Answered
  <1>3. QED
    BY <1>1, <1>2 DEF Noted

LEMMA NotedStep ==
    ASSUME World, [DemoNext]_demoVars, NEW s \in Scripts, NotedOK(s)
    PROVE  NotedOK(s)'
  <1>0. /\ World' /\ program' = program /\ TypeOK /\ ScriptsOK /\ Own(s)' = Own(s)
        /\ Untimed(s)' => Untimed(s)
    BY WorldStep, ScriptsStep, BlameStays DEF World, IInv, Own, Untimed
  <1> SUFFICES ASSUME InOrder(s)', NEW u \in Own(s), NEW n, Outline(program[s], u, n)
               PROVE  Noted(s, u, n[script[s].pc])'
    BY <1>0 DEF NotedOK
  <1>1. CASE Reads(s)
    <2>1. /\ InOrder(s) /\ Running(s) /\ Goes(s, script[s].pc + 1)
          /\ At(s, "chats") => AllEnded(s) /\ AllWanted(s)
          /\ At(s, "check") => Right(s)
      BY <1>0, <1>1, ReadsOn DEF InOrder
    <2>2. Noted(s, u, n[script[s].pc])
      BY <2>1 DEF NotedOK
    <2>3. Successes(s, u)' = Successes(s, u)
      BY <1>1, <2>1, SameSuccesses DEF Reads, Quiet, quotaVars, tables, Goes
    <2>4. ASSUME n[script[s].pc].sure
          PROVE  Cardinality(Successes(s, u)) = n[script[s].pc].total
      <3>1. CASE At(s, "chats")
        BY <2>1, <2>2, <2>4, <3>1, WantedRows
      <3>2. CASE ~At(s, "chats")
        BY <2>2, <2>4, <3>2 DEF Noted
      <3>3. QED
        BY <3>1, <3>2
    <2>5. ASSUME At(s, "check"), Step(s).results, u \in DOMAIN Step(s).wants
          PROVE  Cardinality(Successes(s, u)) = n[script[s].pc].total
      BY <2>1, <2>2, <2>5, CheckedRows
    <2>6. QED
      BY <1>0, <2>1, <2>2, <2>3, <2>4, <2>5, NotedNext
  <1>2. CASE WritesLimits(s)
    <2>1. InOrder(s) /\ usage_events' = usage_events
      BY <1>0, <1>2 DEF WritesLimits, Writes, InOrder, UpdateLimits
    <2>2. Successes(s, u)' = Successes(s, u)
      BY <1>2, <2>1, SameSuccesses DEF WritesLimits, Writes
    <2>3. QED
      BY <1>0, <1>2, <2>1, <2>2, NotedSame DEF WritesLimits, Writes, NotedOK
  <1>3. CASE TimesOut(s)
    BY <1>3 DEF TimesOut, InOrder
  <1>4. ASSUME NEW k \in DOMAIN script[s].calls, ChatStep(s, k)
        PROVE  Noted(s, u, n[script[s].pc])'
    <2>1. ChatActs(s)
      BY <1>4, ChatStepActs
    <2>2. InOrder(s) /\ script'[s].pc = script[s].pc /\ At(s, "chats")
      BY <1>0, <2>1 DEF ChatActs, InOrder
    <2>3. PICK a : a = n[script[s].pc]
      OBVIOUS
    <2>4. Noted(s, u, a) /\ a.made \in Nat
      BY <1>0, <2>2, <2>3, OutlineAt DEF NotedOK, At, Note
    <2>5. /\ Asked(s, u)' = Asked(s, u)
          /\ AnswersSame(s, u) \/ AnswerAdded(s, u)
      BY <1>4, ChatAnswers
    <2>6. Cardinality(Successes(s, u))' = a.made + Cardinality(Answered(s, u))'
      BY <2>4, <2>5, AnswersKeepStep DEF Noted
    <2>7. At(s, "chats")'
      BY <1>0, <2>2, StaysThere
    <2>8. Noted(s, u, a)'
      BY <2>4, <2>5, <2>6, <2>7 DEF Noted
    <2>9. QED
      BY <2>2, <2>3, <2>8
  <1>5. CASE Bystands(s)
    <2>1. InOrder(s)
      BY <1>0, <1>5 DEF Bystands, Stands, InOrder
    <2>2. OwnKept(s) /\ CountedOf(u)' = CountedOf(u)
      BY <1>5, <2>1, OwnRows DEF Bystands, InOrder
    <2>3. Successes(s, u)' = Successes(s, u)
      <3>1. NewRows(s, u)' = NewRows(s, u)
        BY <1>5, <2>2, NewRowsThen DEF Bystands, Stands
      <3>2. \A i \in NewRows(s, u) : usage_events'[i] = usage_events[i]
        BY <2>2 DEF OwnKept, NewRows, CountedOf, CountedRows, Ids
      <3>3. QED
        BY <3>1, <3>2 DEF Successes
    <2>4. QED
      BY <1>0, <1>5, <2>1, <2>3, NotedSame DEF Bystands, Stands, NotedOK
  <1>6. QED
    BY <1>1, <1>2, <1>3, <1>4, <1>5, ScriptActs, ActsOrStands

LEMMA NotedInit ==
    ASSUME DemoInit, NEW s \in Scripts
    PROVE  NotedOK(s) /\ OpenRowsOK(s)
  <1>0. /\ World /\ script[s].pc = 1 /\ script[s].calls = <<>>
        /\ script[s].start = Len(usage_events) /\ Len(usage_events) \in Nat
    <2>1. World
      BY WorldInit
    <2>2. Len(usage_events) \in Nat
      BY <2>1 DEF World, IInv, TypeOK
    <2>3. /\ script[s].pc = 1 /\ script[s].calls = <<>>
          /\ script[s].start = Len(usage_events)
      BY DEF DemoInit
    <2>4. QED
      BY <2>1, <2>2, <2>3
  <1>1. OpenRowsOK(s)
    BY <1>0 DEF OpenRowsOK, Ids
  <1>2. ASSUME NEW u \in Own(s), NEW n, Outline(program[s], u, n)
        PROVE  Noted(s, u, n[script[s].pc])
    <2>1. Asked(s, u) = {} /\ Answered(s, u) = {}
      BY <1>0 DEF Asked, Answered
    <2>2. Successes(s, u) = {}
      BY <1>0 DEF Successes, NewRows, CountedOf, CountedRows
    <2>3. n[script[s].pc] = Blank
      BY <1>0, <1>2 DEF Outline
    <2>4. QED
      BY <2>1, <2>2, <2>3, FS_EmptySet DEF Noted, Blank, Line
  <1>3. QED
    BY <1>1, <1>2 DEF NotedOK

\* A script that passed has the successful rows it claims, and others only if
\* the server left one.
LEMMA PassedRows ==
    ASSUME World, NEW s \in Scripts, NotedOK(s), OpenRowsOK(s), Passed(s), Untimed(s),
           NEW u \in DOMAIN program[s].proves
    PROVE  /\ Cardinality(Successes(s, u)) = program[s].proves[u]
           /\ Tidy(s) => NewRows(s, u) = Successes(s, u)
  <1>0. /\ TypeOK /\ ScriptsOK /\ CallsOK(s) /\ Formed(program[s])
        /\ script[s].pc = Len(program[s].steps) + 1 /\ Len(program[s].steps) \in Nat
    BY DEF World, IInv, ScriptsOK, Passed, Running, Formed
  <1>1. Outlined(program[s]) /\ u \in Own(s)
    BY CastFormed, ScriptsOutlined DEF World, Unjudging, Outlined, Own
  <1>2. PICK n : Outline(program[s], u, n)
    BY <1>1 DEF Outlined, Own
  <1>3. ~At(s, "chats") /\ InOrder(s)
    BY DEF At, Passed, InOrder
  <1>4. Noted(s, u, n[Len(program[s].steps) + 1])
    BY <1>0, <1>1, <1>2, <1>3 DEF NotedOK
  <1>5. Cardinality(Successes(s, u)) = program[s].proves[u]
    BY <1>2, <1>3, <1>4 DEF Noted, Outline
  <1>6. Tidy(s) =>
            \A i \in Ids : i > script[s].start /\ usage_events[i].user_id \in Own(s) =>
               usage_events[i].status # "reserved"
    BY <1>0, <1>3, NothingOpen DEF CallsOK
  <1>7. Tidy(s) => \A i \in NewRows(s, u) : usage_events[i].status = "success"
    BY <1>0, <1>1, <1>6 DEF NewRows, CountedOf, CountedRows, Counted, Ids, TypeOK, Event
  <1>8. QED
    BY <1>5, <1>7 DEF Successes

\* A demo that passes, no call of which timed out at the client, has proved
\* what it prints (the checks of demo_*.py): whichever scripts ran at the same
\* time, its users have the successful requests it claims since it began, and
\* a row that is still reserved only where the server has left it.
THEOREM PassesAreProved == DemoSpec => []PassMeansProved
  <1> DEFINE Ok == \A s \in Scripts : NotedOK(s) /\ OpenRowsOK(s)
  <1>1. DemoInit => Ok
    BY NotedInit
  <1>2. World /\ Ok /\ [DemoNext]_demoVars => Ok'
    BY NotedStep, OpenRowsStep
  <1>3. World /\ Ok => PassMeansProved
    <2> SUFFICES ASSUME World, Ok, NEW s \in Scripts, Passed(s), Untimed(s),
                        NEW u \in DOMAIN program[s].proves
                 PROVE  /\ Cardinality(Successes(s, u)) = program[s].proves[u]
                        /\ "stuck" \notin script[s].blame => NewRows(s, u) = Successes(s, u)
      BY DEF PassMeansProved, Untimed, Successes, NewRows, CountedOf
    <2>1. QED
      BY PassedRows DEF Tidy
  <1> HIDE DEF Ok
  <1>4. QED
    BY <1>1, <1>2, <1>3, WorldHolds, PTL DEF DemoSpec

-----------------------------------------------------------------------------
(***************************************************************************)
(* What GET of a user's usage answers: the number of successful rows.  It  *)
(* is a sum over models, of which only one has rows.                       *)
(***************************************************************************)
LEMMA SumOfZeros ==
    ASSUME NEW f, NEW S, IsFiniteSet(S), \A x \in S : f[x] = 0
    PROVE  SumFunctionOnSet(f, S) = 0
  <1> DEFINE F == {U \in SUBSET S : TheSums(f, S)[U] = 0}
  <1>1. ASSUME NEW U \in SUBSET S, \A x \in U : U \ {x} \in F
        PROVE  U \in F
    <2>1. CASE U = {}
      BY <2>1, SumsStep
    <2>2. CASE U # {}
      <3>1. PICK x \in U : TheSums(f, S)[U] = f[x] + TheSums(f, S)[U \ {x}]
        BY <2>2, SumsStep
      <3>2. TheSums(f, S)[U \ {x}] = 0 /\ f[x] = 0
        BY <1>1
      <3>3. QED
        BY <3>1, <3>2
    <2>3. QED
      BY <2>1, <2>2
  <1> HIDE DEF F
  <1>2. S \in F
    BY <1>1, SubsetInduction
  <1>3. QED
    BY <1>2, SumUnfolds DEF F

SuccessesOf(u) == {i \in Ids : usage_events[i].user_id = u /\ usage_events[i].status = "success"}

LEMMA CountIs ==
    ASSUME World, NEW u \in Users
    PROVE  RequestCount(u) = Cardinality(SuccessesOf(u))
  <1> DEFINE w == [m \in Models |-> usage_totals[u][m].request_count]
             rest == [m \in Models \ {TextModel} |-> w[m]]
  <1>1. /\ TypeOK /\ TotalsMatchEvents
        /\ \A i \in Ids : usage_events[i].model = TextModel
    BY DEF World, IInv
  <1>2. w \in [Models -> Nat]
    BY <1>1 DEF TypeOK, Total
  <1>3. w[TextModel] = Cardinality(SuccessesOf(u))
    <2>1. SuccessRows(u, TextModel) = SuccessesOf(u)
      BY <1>1 DEF SuccessRows, SuccessesOf
    <2>2. QED
      BY <1>1, <2>1, TextModelAssumption DEF TotalsMatchEvents
  <1>4. \A m \in Models \ {TextModel} : w[m] = 0
    <2> SUFFICES ASSUME NEW m \in Models \ {TextModel} PROVE w[m] = 0
      OBVIOUS
    <2>1. SuccessRows(u, m) = {}
      BY <1>1 DEF SuccessRows
    <2>2. QED
      BY <1>1, <2>1, FS_EmptySet DEF TotalsMatchEvents
  <1> HIDE DEF w
  <1>5. SumFunction(w) = w[TextModel] + SumFunction(rest)
    BY <1>2, TermApart, FiniteAssumption, TextModelAssumption
  <1>6. SumFunction(rest) = 0
    <2>1. \A m \in Models \ {TextModel} : rest[m] = 0
      BY <1>4
    <2>2. IsFiniteSet(Models \ {TextModel}) /\ DOMAIN rest = Models \ {TextModel}
      BY FS_RemoveElement, FiniteAssumption
    <2> HIDE DEF rest
    <2>3. QED
      BY <2>1, <2>2, SumOfZeros DEF SumFunction
  <1>7. SumFunction(w) = w[TextModel]
    BY <1>2, <1>5, <1>6, TextModelAssumption
  <1>8. QED
    BY <1>3, <1>7 DEF RequestCount, w

\* While no row of its users is reserved, those are the rows that were there
\* before the script and those it has made.
LEMMA CountApart ==
    ASSUME World, NEW s \in Scripts, NEW u \in Own(s), OpenRowsOK(s), Tidy(s), AllEnded(s)
    PROVE  RequestCount(u) = Cardinality(OldRows(s, u)) + Cardinality(NewRows(s, u))
  <1>0. u \in Users /\ TypeOK /\ RowsOK(s)
    BY OwnUsers DEF World, IInv
  <1>1. /\ \A i \in OldRows(s, u) : usage_events[i].status = "success"
        /\ \A i \in NewRows(s, u) : usage_events[i].status = "success"
    <2>1. \A i \in Ids : i > script[s].start /\ usage_events[i].user_id \in Own(s) =>
               usage_events[i].status # "reserved"
      BY NothingOpen
    <2>2. QED
      BY <1>0, <2>1 DEF OldRows, NewRows, CountedOf, CountedRows, Counted, Ids, RowsOK, TypeOK
  <1>2. /\ Len(usage_events) \in Nat /\ script[s].start \in Nat
    BY <1>0 DEF TypeOK, RowsOK
  <1>3. /\ \A i : i \in SuccessesOf(u) <=> i \in OldRows(s, u) \cup NewRows(s, u)
        /\ OldRows(s, u) \cap NewRows(s, u) = {}
    BY <1>1, <1>2 DEF SuccessesOf, OldRows, NewRows, CountedOf, CountedRows, Counted, Ids
  <1>4. SuccessesOf(u) = OldRows(s, u) \cup NewRows(s, u)
    BY <1>3
  <1>5. /\ IsFiniteSet(OldRows(s, u)) /\ IsFiniteSet(NewRows(s, u))
        /\ Cardinality(OldRows(s, u)) \in Nat /\ Cardinality(NewRows(s, u)) \in Nat
    BY FinitelyMany
  <1>6. Cardinality(OldRows(s, u) \cup NewRows(s, u))
            = Cardinality(OldRows(s, u)) + Cardinality(NewRows(s, u))
    BY <1>3, <1>5, FS_Union, FS_EmptySet
  <1>7. QED
    BY <1>0, <1>4, <1>6, CountIs

\* The rows there were before a script stay what they are.
LEMMA OldKept ==
    ASSUME World, [DemoNext]_demoVars, NEW s \in Scripts, NEW u
    PROVE  /\ script'[s].start = script[s].start
           /\ OldRows(s, u)' = OldRows(s, u)
           /\ \A i \in OldRows(s, u) : usage_events'[i] = usage_events[i]
  <1>0. RowsOK(s) /\ Kept /\ TypeOK /\ HeldReserved /\ ScriptsOK
    BY RowsKept DEF World, IInv
  <1>1. script'[s].start = script[s].start
    BY Acts DEF Reads, Moves, Goes, WritesLimits, Writes, TimesOut, ChatActs, Bystands, Stands
  <1>2. \A i \in 1 .. script[s].start :
            /\ usage_events[i].status = "success" /\ usage_events'[i] = usage_events[i]
            /\ i \in Ids /\ i \in Ids'
    BY <1>0 DEF RowsOK, Kept, Ids
  <1>3. script[s].start \in Nat /\ Len(usage_events) \in Nat
    BY <1>0 DEF RowsOK, Kept
  <1>4. \A i : i \in OldRows(s, u)' <=> i \in OldRows(s, u)
    BY <1>1, <1>2, <1>3 DEF OldRows, CountedOf, CountedRows, Counted, Ids
  <1>5. \A i \in OldRows(s, u) : i \in 1 .. script[s].start
    BY <1>3 DEF OldRows, CountedOf, CountedRows
  <1>6. QED
    BY <1>1, <1>2, <1>4, <1>5

-----------------------------------------------------------------------------
(***************************************************************************)
(* What the outlines say of a script with nothing to blame: of the limits  *)
(* of each user, of the counts it has read, of the window it has found     *)
(* fresh, and of the rows of the user.                                     *)
(***************************************************************************)
LimitsAs(s, u, a) ==
    user_limits[u] = IF At(s, "put") /\ script[s].put = "written" /\ Step(s).user = u
                     THEN Step(s).limits ELSE a.limits

MeasuredAs(s, u, a) ==
    /\ a.low >= 0 => script[s].before[u] = Cardinality(OldRows(s, u)) + a.low
    /\ a.high >= 0 => script[s].after[u] = Cardinality(OldRows(s, u)) + a.high

FreshAs(s, u, a) ==
    a.fresh =>
        /\ script[s].fresh \in 0 .. now
        /\ Running(s) => now <= script[s].fresh + Window
        /\ \A i \in OldRows(s, u) : usage_events[i].timestamp < script[s].fresh - Window
        /\ \A i \in NewRows(s, u) : usage_events[i].timestamp >= script[s].fresh

RowsAs(s, u, a) ==
    LET size == Cardinality(NewRows(s, u)) IN
    /\ size = a.made + Cardinality(Taken(s, u))
    /\ ~At(s, "chats") => size = a.total
    /\ At(s, "chats") =>
          /\ IsRated(a) => size <= a.limits.requests_per_minute
          /\ Results(s, u, "limited") # {} => IsRated(a) /\ size >= a.limits.requests_per_minute

As(s, u, a) ==
    LimitsAs(s, u, a) /\ MeasuredAs(s, u, a) /\ FreshAs(s, u, a) /\ RowsAs(s, u, a)

Blameless(s) == script[s].blame = {}

\* The rows the limit of requests counts are those the script has made.
LEMMA WindowRows ==
    ASSUME World, NEW s \in Scripts, NEW u, NEW a, FreshAs(s, u, a), a.fresh, Running(s)
    PROVE  RowsSince(u, now - Window, Len(usage_events)) = NewRows(s, u)
  <1>1. /\ TypeOK /\ Window \in Nat /\ now \in Nat /\ script[s].start \in Nat
        /\ script[s].fresh \in 0 .. now /\ now <= script[s].fresh + Window
    BY WindowAssumption, BoundsAssumption DEF World, IInv, TypeOK, Times, RowsOK, FreshAs
  <1>2. \A i \in CountedOf(u) : usage_events[i].timestamp \in Nat /\ i \in Nat
    <2>1. \A i \in CountedOf(u) : i \in 1 .. Len(usage_events)
      BY DEF CountedOf, CountedRows
    <2>2. usage_events \in Seq(Event)
      BY <1>1 DEF TypeOK
    <2>3. \A i \in 1 .. Len(usage_events) : usage_events[i] \in Event
      BY <2>2, ElementOfSeq
    <2>4. \A i \in 1 .. Len(usage_events) : usage_events[i].timestamp \in Nat
      BY <2>3, BoundsAssumption DEF Event, Times
    <2>5. QED
      BY <2>1, <2>4
  <1>3. \A i \in CountedOf(u) : usage_events[i].timestamp >= now - Window <=> i > script[s].start
    <2> SUFFICES ASSUME NEW i \in CountedOf(u)
                 PROVE  usage_events[i].timestamp >= now - Window <=> i > script[s].start
      OBVIOUS
    <2>1. CASE i > script[s].start
      <3>1. usage_events[i].timestamp >= script[s].fresh
        BY <2>1 DEF FreshAs, NewRows
      <3>2. QED
        BY <1>1, <1>2, <2>1, <3>1
    <2>2. CASE ~(i > script[s].start)
      <3>1. i \in OldRows(s, u)
        BY <1>1, <1>2, <2>2 DEF OldRows
      <3>2. usage_events[i].timestamp < script[s].fresh - Window
        BY <3>1 DEF FreshAs
      <3>3. QED
        BY <1>1, <1>2, <2>2, <3>2
    <2>3. QED
      BY <2>1, <2>2
  <1>4. QED
    BY <1>3 DEF RowsSince, NewRows, CountedOf

\* A rejected request found the limit reached.
LEMMA RatedRefusal ==
    ASSUME World, NEW s \in Scripts, NEW u, NEW a \in Note, FreshAs(s, u, a), Running(s),
           user_limits[u] = a.limits, IsRated(a), NEW m \in Estimates, ~Admits(u, m)
    PROVE  Cardinality(NewRows(s, u)) >= a.limits.requests_per_minute
  <1>1. PICK c \in Nat : /\ a.limits.requests_per_minute = c /\ a.limits = Rpm(c) /\ a.fresh
    BY DEF IsRated
  <1>2. /\ user_limits[u].requests_per_minute = c
        /\ user_limits[u].daily_tokens = NoLimit /\ user_limits[u].total_tokens = NoLimit
    BY <1>1, RpmFields
  <1>3. DailyOkAt(u, NonNegative(m), now) /\ TotalOk(u, NonNegative(m))
    BY <1>2 DEF DailyOkAt, TotalOk
  <1>4. ~(Cardinality(RowsSince(u, now - Window, Len(usage_events))) < c)
    BY <1>2, <1>3 DEF Admits, AdmitsAt, RateOkAt
  <1>5. RowsSince(u, now - Window, Len(usage_events)) = NewRows(s, u)
    BY <1>1, WindowRows
  <1>6. Cardinality(NewRows(s, u)) \in Nat
    BY FinitelyMany
  <1>7. QED
    BY <1>1, <1>4, <1>5, <1>6

\* An admitted one found it not reached.
LEMMA RatedAdmission ==
    ASSUME World, NEW s \in Scripts, NEW u, NEW a \in Note, FreshAs(s, u, a), Running(s),
           user_limits[u] = a.limits, IsRated(a), RateOkAt(u, now)
    PROVE  Cardinality(NewRows(s, u)) + 1 <= a.limits.requests_per_minute
  <1>1. PICK c \in Nat : a.limits.requests_per_minute = c /\ a.fresh
    BY DEF IsRated
  <1>2. c # NoLimit
    BY NoLimitAssumption
  <1>3. Cardinality(RowsSince(u, now - Window, Len(usage_events))) < c
    BY <1>1, <1>2 DEF RateOkAt
  <1>4. RowsSince(u, now - Window, Len(usage_events)) = NewRows(s, u)
    BY <1>1, WindowRows
  <1>5. Cardinality(NewRows(s, u)) \in Nat
    BY FinitelyMany
  <1>6. QED
    BY <1>1, <1>3, <1>4, <1>5

\* Limits that are not set admit everything.
LEMMA UnlimitedAdmits ==
    ASSUME NEW u, user_limits[u] = Unlimited, NEW m
    PROVE  Admits(u, m)
  BY UnlimitedFields DEF Admits, AdmitsAt, RateOkAt, DailyOkAt, TotalOk

\* A user without rows is admitted under limits that leave room.
LEMMA FirstAdmits ==
    ASSUME NEW u, user_limits[u] \in Limits, LeavesRoom(user_limits[u]), CountedOf(u) = {},
           NEW m \in Estimates
    PROVE  Admits(u, m)
  <1> DEFINE limits == user_limits[u]
  <1>1. /\ limits.requests_per_minute # NoLimit =>
               limits.requests_per_minute \in Nat /\ limits.requests_per_minute >= 1
        /\ limits.daily_tokens # NoLimit =>
               limits.daily_tokens \in Nat /\ NonNegative(m) <= limits.daily_tokens
        /\ limits.total_tokens # NoLimit =>
               limits.total_tokens \in Nat /\ NonNegative(m) <= limits.total_tokens
    BY DEF LeavesRoom, Limits, Limit
  <1>2. NonNegative(m) \in Nat
    BY EstimatesAssumption, NonNegativeType
  <1>3. /\ RowsSince(u, now - Window, Len(usage_events)) = {}
        /\ RowsOnDate(u, Date(now), Len(usage_events)) = {}
    BY DEF CountedOf, RowsSince, RowsOnDate
  <1>4. Tokens({}) = 0
    BY SumOfNone DEF Tokens, SumFunction
  <1>5. RateOkAt(u, now)
    <2>1. Cardinality(RowsSince(u, now - Window, Len(usage_events))) = 0
      BY <1>3, FS_EmptySet
    <2>2. QED
      BY <1>1, <2>1 DEF RateOkAt
  <1>6. DailyOkAt(u, NonNegative(m), now)
    BY <1>1, <1>2, <1>3, <1>4 DEF DailyOkAt
  <1>7. TotalOk(u, NonNegative(m))
    BY <1>1, <1>2, <1>4 DEF TotalOk, CountedOf
  <1>8. QED
    BY <1>5, <1>6, <1>7 DEF Admits, AdmitsAt

\* A script that tests no window has users of whom no rows were left.
LEMMA NoOldRows ==
    ASSUME World, NEW s \in Scripts, NEW u \in Own(s),
           \A k \in DOMAIN program[s].steps : program[s].steps[k].op # "fresh"
    PROVE  OldRows(s, u) = {}
  <1>1. u \notin FreshUsers(program)
    <2> SUFFICES ASSUME u \in FreshUsers(program) PROVE FALSE
      OBVIOUS
    <2>1. PICK t \in Scripts : Contains(program[t].steps, Fresh(u))
      BY DEF FreshUsers
    <2>2. PICK k \in DOMAIN program[t].steps : program[t].steps[k] = Fresh(u)
      <3>1. Formed(program[t])
        BY DEF World, ScriptsOK
      <3>2. \E k \in 1 .. Len(program[t].steps) : program[t].steps[k] = Fresh(u)
        BY <2>1 DEF Contains
      <3>3. QED
        BY <3>1, <3>2 DEF Formed
    <2>3. u \in Own(t)
      BY <2>2, FreshStep, OwnUsers DEF Own, UsersOf
    <2>4. t = s
      BY <2>3, Dedicated DEF World
    <2>5. QED
      BY <2>2, <2>4, FreshStep
  <1>2. RowsOK(s) /\ script[s].start \in Nat
    BY DEF World, RowsOK
  <1>3. \A i : i \notin OldRows(s, u)
    BY <1>1, <1>2 DEF OldRows, CountedOf, CountedRows, RowsOK
  <1>4. QED
    BY <1>3

-----------------------------------------------------------------------------
(***************************************************************************)
(* A chat step for which nothing is to be blamed.                          *)
(***************************************************************************)
LEMMA ChatKinds ==
    ASSUME TypeOK, HeldReserved, ScriptsOK, NEW s \in Scripts, NEW k, ChatStep(s, k),
           Blameless(s)'
    PROVE  LimitRejects(s, k) \/ ServerReserves(s, k) \/ ServerAnswers(s, k)
  <1>1. ASSUME NEW at, NEW row, NEW why, CallGoes(s, k, at, row, why), why # {} PROVE FALSE
    BY <1>1 DEF CallGoes, Blameless
  <1>2. ~ModelRefused(s, k)
    BY <1>1, ModelRefusedDoes
  <1>3. ~UpstreamFails(s, k)
    BY <1>1, UpstreamFailsDoes
  <1>4. ~ServerLeavesRow(s, k)
    BY <1>1, ServerLeavesRowDoes
  <1>5. ~ChatTimesOut(s, k)
    BY <1>1, ChatTimesOutDoes
  <1>6. QED
    BY <1>2, <1>3, <1>4, <1>5 DEF ChatStep

\* A refusal: who is refused is rated, and has made all the limit lets through.
LEMMA RefusedRated ==
    ASSUME World, NEW s \in Scripts, NEW u \in Own(s), NEW a \in Note, At(s, "chats"),
           ChatsNoted(program[s], u, Step(s), a), Noted(s, u, a), As(s, u, a),
           NEW k \in Asked(s, u), k \notin Taken(s, u), NEW m \in Estimates, ~Admits(u, m)
    PROVE  IsRated(a) /\ Cardinality(NewRows(s, u)) >= a.limits.requests_per_minute
  <1>1. user_limits[u] = a.limits /\ FreshAs(s, u, a) /\ Running(s)
    BY DEF As, LimitsAs, At
  <1>2. a.limits # Unlimited
    BY <1>1, UnlimitedAdmits
  <1>3. ASSUME IsFirst(program[s], u, a) PROVE FALSE
    <2>1. OldRows(s, u) = {}
      BY <1>3, NoOldRows DEF IsFirst
    <2>2. /\ IsFiniteSet(Asked(s, u)) /\ Cardinality(Asked(s, u)) = a.asked
          /\ Cardinality(NewRows(s, u)) = a.made + Cardinality(Taken(s, u))
          /\ a.made = 0 /\ a.asked <= 1 /\ LeavesRoom(a.limits)
          /\ Cardinality(Taken(s, u)) \in Nat /\ IsFiniteSet(NewRows(s, u))
          /\ IsFiniteSet(Taken(s, u))
      BY <1>3, FinitelyMany DEF IsFirst, Noted, As, RowsAs
    <2>3. Cardinality(Asked(s, u) \ {k}) = Cardinality(Asked(s, u)) - 1
      BY <2>2, FS_RemoveElement
    <2>4. Taken(s, u) \subseteq Asked(s, u) \ {k} /\ IsFiniteSet(Asked(s, u) \ {k})
      BY <2>2, FS_RemoveElement DEF Taken
    <2>5. Cardinality(Taken(s, u)) <= Cardinality(Asked(s, u) \ {k})
      BY <2>4, FS_Subset
    <2>6. a.asked \in Nat
      BY DEF Note
    <2>7. Cardinality(NewRows(s, u)) = 0
      BY <2>2, <2>3, <2>5, <2>6
    <2>8. NewRows(s, u) = {}
      BY <2>2, <2>7, FS_EmptySet
    <2>9. CountedOf(u) = {}
      <3>1. \A i \in CountedOf(u) : i \in Nat /\ script[s].start \in Nat
        BY DEF CountedOf, CountedRows, World, RowsOK
      <3>2. \A i \in CountedOf(u) : i \in OldRows(s, u) \/ i \in NewRows(s, u)
        BY <3>1 DEF OldRows, NewRows
      <3>3. QED
        BY <2>1, <2>8, <3>2
    <2>10. a.limits \in Limits
      BY DEF Note
    <2>11. QED
      BY <1>1, <2>2, <2>9, <2>10, FirstAdmits
  <1>4. IsRated(a)
    BY <1>2, <1>3 DEF ChatsNoted
  <1>5. QED
    BY <1>1, <1>4, RatedRefusal

LEMMA LimitedThen ==
    ASSUME NEW s \in Scripts, NEW u, NEW k \in DOMAIN script[s].calls, NEW at, NEW row, NEW why,
           CallGoes(s, k, at, row, why), at # "limited" \/ script[s].calls[k].user # u
    PROVE  Results(s, u, "limited")' \subseteq Results(s, u, "limited")
  BY DEF CallGoes, Results

\* The rows of a window found fresh, after a step that only adds rows of now.
LEMMA FreshKept ==
    ASSUME World, [DemoNext]_demoVars, NEW s \in Scripts, NEW u, NEW a, FreshAs(s, u, a),
           script'[s].fresh = script[s].fresh, now' = now, Running(s)' => Running(s),
           \A i \in NewRows(s, u)' : i \in NewRows(s, u) \/ usage_events'[i].timestamp = now
    PROVE  FreshAs(s, u, a)'
  <1> SUFFICES ASSUME a.fresh
               PROVE  /\ script[s].fresh \in 0 .. now
                      /\ Running(s)' => now <= script[s].fresh + Window
                      /\ \A i \in OldRows(s, u)' :
                             usage_events'[i].timestamp < script[s].fresh - Window
                      /\ \A i \in NewRows(s, u)' : usage_events'[i].timestamp >= script[s].fresh
    BY DEF FreshAs
  <1>1. /\ OldRows(s, u)' = OldRows(s, u)
        /\ \A i \in OldRows(s, u) : usage_events'[i] = usage_events[i]
    BY OldKept
  <1>2. \A i \in NewRows(s, u) : usage_events'[i].timestamp = usage_events[i].timestamp
    BY RowsKept DEF Kept, NewRows, CountedOf, CountedRows, Ids
  <1>3. /\ script[s].fresh \in 0 .. now /\ now \in Nat
    BY BoundsAssumption DEF FreshAs, World, IInv, TypeOK, Times
  <1>4. QED
    BY <1>1, <1>2, <1>3 DEF FreshAs

LEMMA ChatRowsAs ==
    ASSUME World, World', [DemoNext]_demoVars, NEW s \in Scripts, NEW u \in Own(s),
           NEW a \in Note,
           At(s, "chats"), At(s, "chats")',
           ChatsNoted(program[s], u, Step(s), a), Noted(s, u, a), As(s, u, a),
           NEW k \in DOMAIN script[s].calls, ChatStep(s, k), Blameless(s)'
    PROVE  RowsAs(s, u, a)'
  <1>0. /\ TypeOK /\ HeldReserved /\ ScriptsOK /\ Running(s)
        /\ user_limits[u] = a.limits /\ FreshAs(s, u, a) /\ RowsAs(s, u, a)
        /\ a.made \in Nat /\ a.limits \in Limits
    BY DEF World, IInv, As, LimitsAs, At, Note
  <1>1. LimitRejects(s, k) \/ ServerReserves(s, k) \/ ServerAnswers(s, k)
    BY <1>0, ChatKinds
  <1>2. /\ RowsSame(s, u) \/ RowAdded(s, u)
        /\ Cardinality(NewRows(s, u)) = a.made + Cardinality(Taken(s, u))
        /\ Cardinality(NewRows(s, u))' = a.made + Cardinality(Taken(s, u))'
    <2>1. RowsSame(s, u) \/ RowAdded(s, u)
      BY <1>1, ChatRows
    <2>2. Cardinality(NewRows(s, u)) = a.made + Cardinality(Taken(s, u))
      BY <1>0 DEF RowsAs
    <2>3. QED
      BY <1>0, <2>1, <2>2, KeepStep
  <1>3. CASE LimitRejects(s, k)
    <2>1. /\ usage_events' = usage_events /\ script[s].calls[k].at = "sent"
          /\ \E m \in Estimates : ~Admits(script[s].calls[k].user, m)
          /\ CallGoes(s, k, "sent", 0, {}) \/ CallGoes(s, k, "limited", 0, {})
      BY <1>0, <1>3, LimitRejectsDoes DEF ChatAt, Quiet, quotaVars, tables
    <2>2. NewRows(s, u)' = NewRows(s, u)
      BY <2>1, SameCounts, NewRowsThen DEF CallGoes
    <2>3. CASE script[s].calls[k].user = u
      <3>1. k \in Asked(s, u) /\ k \notin Taken(s, u)
        BY <2>1, <2>3 DEF Asked, Taken
      <3>2. IsRated(a) /\ Cardinality(NewRows(s, u)) >= a.limits.requests_per_minute
        BY <2>1, <2>3, <3>1, RefusedRated
      <3>3. QED
        BY <1>0, <1>2, <2>2, <3>2 DEF RowsAs
    <2>4. CASE script[s].calls[k].user # u
      <3>1. Results(s, u, "limited")' \subseteq Results(s, u, "limited")
        BY <2>1, <2>4, LimitedThen
      <3>2. QED
        BY <1>0, <1>2, <2>2, <3>1 DEF RowsAs
    <2>5. QED
      BY <2>3, <2>4
  <1>4. CASE ServerReserves(s, k) \/ ServerAnswers(s, k)
    <2>1. \E at \in {"upstream", "ok"} : \E row : CallGoes(s, k, at, row, {})
      BY <1>0, <1>4, ServerReservesDoes, ServerAnswersDoes
    <2>2. Results(s, u, "limited")' \subseteq Results(s, u, "limited")
      BY <2>1, LimitedThen
    <2>3. CASE RowsSame(s, u)
      BY <1>0, <1>2, <2>2, <2>3 DEF RowsAs, RowsSame
    <2>4. CASE RowAdded(s, u)
      <3>1. Cardinality(NewRows(s, u))' = Cardinality(NewRows(s, u)) + 1
        BY <1>0, <1>2, <2>4, KeepStep
      <3>2. Cardinality(NewRows(s, u)) \in Nat
        BY FinitelyMany
      <3>3. IsRated(a) => /\ a.limits.requests_per_minute \in Nat
                          /\ Cardinality(NewRows(s, u)) + 1 <= a.limits.requests_per_minute
        BY <1>0, <2>4, RatedAdmission DEF RowAdded, IsRated
      <3>4. QED
        BY <1>0, <1>2, <2>2, <3>1, <3>2, <3>3 DEF RowsAs
    <2>5. QED
      BY <1>2, <2>3, <2>4
  <1>5. QED
    BY <1>1, <1>3, <1>4

LEMMA ChatAs ==
    ASSUME World, World', [DemoNext]_demoVars, NEW s \in Scripts, NEW u \in Own(s),
           NEW a \in Note,
           ChatsNoted(program[s], u, Step(s), a), Noted(s, u, a), As(s, u, a),
           NEW k \in DOMAIN script[s].calls, ChatStep(s, k), Blameless(s)'
    PROVE  As(s, u, a)'
  <1>0. /\ TypeOK /\ HeldReserved /\ ScriptsOK /\ program' = program /\ ChatActs(s)
    BY ScriptsStep, ChatStepActs DEF World, IInv
  <1>1. /\ Running(s) /\ Running(s)' /\ ~At(s, "put") /\ ~At(s, "put")'
        /\ At(s, "chats") /\ At(s, "chats")'
    BY <1>0, StaysThere DEF ChatActs, At
  <1>2. LimitsAs(s, u, a)'
    BY <1>0, <1>1 DEF LimitsAs, As, ChatActs
  <1>3. MeasuredAs(s, u, a)'
    BY <1>0, OldKept DEF MeasuredAs, As, ChatActs
  <1>4. FreshAs(s, u, a)'
    <2>1. LimitRejects(s, k) \/ ServerReserves(s, k) \/ ServerAnswers(s, k)
      BY <1>0, ChatKinds
    <2>2. RowsSame(s, u) \/ RowAdded(s, u)
      BY <2>1, ChatRows
    <2>3. \A i \in NewRows(s, u)' : i \in NewRows(s, u) \/ usage_events'[i].timestamp = now
      BY <2>2 DEF RowsSame, RowAdded
    <2>4. QED
      BY <1>0, <1>1, <2>3, FreshKept DEF ChatActs, As
  <1>5. RowsAs(s, u, a)'
    BY <1>1, ChatRowsAs
  <1>6. QED
    BY <1>2, <1>3, <1>4, <1>5 DEF As

-----------------------------------------------------------------------------
(***************************************************************************)
(* A script with nothing to blame does not fail.                           *)
(***************************************************************************)
CleanOK(s) ==
    Blameless(s) =>
        /\ ~script[s].failed
        /\ \A u \in Own(s) : \A n : Outline(program[s], u, n) => As(s, u, n[script[s].pc])

\* When its calls have ended there are the rows the outline says, and the calls
\* are what the script wants of them.
LEMMA GatheredRows ==
    ASSUME World, NEW s \in Scripts, NEW u \in Own(s), NEW a \in Note, At(s, "chats"),
           ChatsNoted(program[s], u, Step(s), a), Noted(s, u, a), RowsAs(s, u, a),
           AllEnded(s), Blameless(s)
    PROVE  /\ Cardinality(NewRows(s, u)) = a.total
           /\ \A k \in Asked(s, u) : Step(s).want \in {"any", script[s].calls[k].at}
  <1> DEFINE want == Step(s).want
             c == a.limits.requests_per_minute
             size == Cardinality(NewRows(s, u))
             taken == Cardinality(Taken(s, u))
  <1>1. /\ a.made \in Nat /\ a.asked \in Nat /\ a.total \in Nat
        /\ IsFiniteSet(Asked(s, u)) /\ Cardinality(Asked(s, u)) = a.asked
        /\ size = a.made + taken /\ taken \in Nat /\ taken <= a.asked /\ IsFiniteSet(Taken(s, u))
    BY FinitelyMany DEF Note, Noted, RowsAs
  <1>2. \A k \in Asked(s, u) :
            \/ k \in Taken(s, u) /\ script[s].calls[k].at = "ok"
            \/ k \notin Taken(s, u) /\ script[s].calls[k].at = "limited"
    BY DEF World, CallsOK, AllEnded, Final, Blameless, Asked, Taken
  <1>3. want \in {"any", "ok", "limited"}
    BY DEF ChatsNoted
  <1>4. CASE Results(s, u, "limited") = {}
    <2>1. \A k \in Asked(s, u) : k \in Taken(s, u) /\ script[s].calls[k].at = "ok"
      BY <1>2, <1>4 DEF Results, Asked
    <2>2. Taken(s, u) = Asked(s, u)
      BY <2>1 DEF Taken
    <2>3. size = a.made + a.asked
      BY <1>1, <2>2
    <2>4. size = a.total
      <3>1. CASE IsRated(a)
        BY <2>3, <3>1 DEF RowsAs, ChatsNoted
      <3>2. CASE ~IsRated(a)
        BY <2>3, <3>2 DEF ChatsNoted
      <3>3. QED
        BY <3>1, <3>2
    <2>5. want = "limited" => Asked(s, u) = {}
      <3>1. want = "limited" => a.asked = 0
        BY <1>1, <2>3, <2>4 DEF ChatsNoted
      <3>2. QED
        BY <1>1, <3>1, FS_EmptySet
    <2>6. QED
      BY <1>3, <2>1, <2>4, <2>5
  <1>5. CASE Results(s, u, "limited") # {}
    <2>1. /\ IsRated(a) /\ c \in Nat /\ size <= c /\ size >= c
      BY <1>5 DEF RowsAs, IsRated
    <2>2. taken < a.asked
      <3>1. PICK k \in Asked(s, u) : script[s].calls[k].at = "limited"
        BY <1>5 DEF Results, Asked
      <3>2. k \notin Taken(s, u) /\ Taken(s, u) \subseteq Asked(s, u)
        BY <3>1 DEF Taken
      <3>3. Taken(s, u) # Asked(s, u)
        BY <3>2
      <3>4. taken # a.asked
        BY <1>1, <3>2, <3>3, FS_Subset
      <3>5. QED
        BY <1>1, <3>4
    <2>3. size = c /\ c < a.made + a.asked
      BY <1>1, <2>1, <2>2
    <2>4. /\ ~(a.limits = Unlimited) /\ ~IsFirst(program[s], u, a)
      BY <2>1, UnlimitedFields, NoLimitAssumption DEF IsRated, IsFirst
    <2>5. a.total = c
      BY <1>1, <2>3, <2>4 DEF ChatsNoted
    <2>6. want # "ok"
      BY <1>1, <2>3, <2>5 DEF ChatsNoted
    <2>7. want = "limited" => Taken(s, u) = {}
      <3>1. want = "limited" => taken = 0
        BY <1>1, <2>3, <2>5 DEF ChatsNoted
      <3>2. QED
        BY <1>1, <3>1, FS_EmptySet
    <2>8. QED
      BY <1>2, <1>3, <2>3, <2>5, <2>6, <2>7
  <1>6. QED
    BY <1>4, <1>5

\* What there is to say of a user, at a step.
LEMMA NotesHere ==
    ASSUME World, NEW s \in Scripts, NEW u \in Own(s), Outlined(program[s]), Running(s),
           Blameless(s), NotedOK(s), CleanOK(s)
    PROVE  \E a, b \in Note :
               /\ Passes(program[s], u, Step(s), a, b, SendsAt(program[s], script[s].pc + 1))
               /\ Noted(s, u, a) /\ As(s, u, a)
  <1>1. PICK n : Outline(program[s], u, n)
    BY DEF Outlined, Own
  <1>2. ScriptsOK /\ InOrder(s)
    BY DEF World, InOrder, CleanOK, Blameless, Untimed
  <1>3. Noted(s, u, n[script[s].pc]) /\ As(s, u, n[script[s].pc])
    BY <1>1, <1>2 DEF NotedOK, CleanOK
  <1>4. QED
    BY <1>1, <1>2, <1>3, OutlineAt

LEMMA WantedEnds ==
    ASSUME World, NEW s \in Scripts, Blameless(s), NotedOK(s), CleanOK(s), At(s, "chats"),
           AllEnded(s), Outlined(program[s])
    PROVE  AllWanted(s)
  <1> SUFFICES ASSUME NEW k \in DOMAIN script[s].calls
               PROVE  Step(s).want \in {"any", script[s].calls[k].at}
    BY DEF AllWanted
  <1>1. PICK u \in Own(s) : u = script[s].calls[k].user
    BY CallsOwn DEF World
  <1>2. PICK a \in Note, b \in Note :
            /\ Passes(program[s], u, Step(s), a, b, SendsAt(program[s], script[s].pc + 1))
            /\ Noted(s, u, a) /\ As(s, u, a)
    BY NotesHere DEF At
  <1>3. ChatsNoted(program[s], u, Step(s), a) /\ RowsAs(s, u, a)
    BY <1>2 DEF Passes, At, As
  <1>4. k \in Asked(s, u)
    BY <1>1 DEF Asked
  <1>5. QED
    BY <1>2, <1>3, <1>4, GatheredRows

LEMMA RightCheck ==
    ASSUME World, NEW s \in Scripts, Blameless(s), NotedOK(s), CleanOK(s), At(s, "check"),
           Outlined(program[s])
    PROVE  Right(s)
  <1>0. /\ ScriptsOK /\ Running(s) /\ CallsOK(s) /\ ~At(s, "chats") /\ AllEnded(s)
    BY DEF World, At, CallsOK
  <1>1. DOMAIN Step(s).wants \subseteq Own(s)
    BY <1>0, WhereItIs DEF Outlined, Own, At
  <1> SUFFICES ASSUME NEW u \in DOMAIN Step(s).wants
               PROVE  /\ script[s].after[u] - script[s].before[u] = Step(s).wants[u].ok
                      /\ Step(s).results =>
                            /\ Cardinality(Results(s, u, "ok")) = Step(s).wants[u].ok
                            /\ Cardinality(Results(s, u, "limited")) = Step(s).wants[u].limited
                            /\ Results(s, u, "failed") = {}
    BY DEF Right
  <1>2. u \in Own(s)
    BY <1>1
  <1>3. PICK a \in Note, b \in Note :
            /\ Passes(program[s], u, Step(s), a, b, SendsAt(program[s], script[s].pc + 1))
            /\ Noted(s, u, a) /\ As(s, u, a)
    BY <1>0, <1>2, NotesHere
  <1>4. CheckNoted(Step(s), u, a)
    BY <1>3 DEF Passes, At
  <1> DEFINE wants == Step(s).wants[u]
  <1>5. /\ a.low \in Int /\ a.high \in Int /\ a.low >= 0 /\ a.high >= 0
        /\ a.high - a.low = wants.ok
        /\ a.made \in Nat /\ a.asked \in Nat /\ a.total \in Nat
    BY <1>4 DEF CheckNoted, Note
  <1>6. script[s].after[u] - script[s].before[u] = wants.ok
    <2>1. Cardinality(OldRows(s, u)) \in Nat
      BY FinitelyMany
    <2>2. /\ script[s].before[u] = Cardinality(OldRows(s, u)) + a.low
          /\ script[s].after[u] = Cardinality(OldRows(s, u)) + a.high
      BY <1>3, <1>5 DEF As, MeasuredAs
    <2>3. QED
      BY <1>5, <2>1, <2>2
  <1>7. Results(s, u, "failed") = {}
    BY <1>0 DEF Results, CallsOK, Blameless
  <1>8. ASSUME Step(s).results
        PROVE  /\ Cardinality(Results(s, u, "ok")) = wants.ok
               /\ Cardinality(Results(s, u, "limited")) = wants.limited
    <2>1. Results(s, u, "ok") = Taken(s, u)
      BY <1>0 DEF AllEnded, Final, Results, Taken, Asked
    <2>2. Results(s, u, "limited") = Asked(s, u) \ Taken(s, u)
      <3>1. \A k \in Asked(s, u) : script[s].calls[k].at \in {"ok", "limited"}
        BY <1>0 DEF AllEnded, Final, Asked, CallsOK, Blameless
      <3>2. QED
        BY <3>1 DEF Results, Taken, Asked
    <2>3. /\ Cardinality(NewRows(s, u)) = a.total /\ Cardinality(Asked(s, u)) = a.asked
          /\ Cardinality(NewRows(s, u)) = a.made + Cardinality(Taken(s, u))
          /\ IsFiniteSet(Asked(s, u)) /\ IsFiniteSet(Taken(s, u))
          /\ Cardinality(Taken(s, u)) \in Nat
      BY <1>0, <1>3, FinitelyMany DEF As, RowsAs, Noted
    <2>4. a.total = a.made + wants.ok /\ a.asked = wants.ok + wants.limited
      BY <1>4, <1>8 DEF CheckNoted
    <2>5. Cardinality(Taken(s, u)) = wants.ok
      <3> DEFINE taken == Cardinality(Taken(s, u))
      <3>1. PICK ok : ok = wants.ok
        OBVIOUS
      <3> HIDE DEF wants
      <3>2. ok \in Int /\ a.made \in Nat /\ a.total = a.made + ok
        BY <1>5, <2>4, <3>1
      <3>3. taken \in Nat /\ a.total = a.made + taken
        BY <2>3
      <3> HIDE DEF taken
      <3>4. taken = ok
        BY <3>2, <3>3
      <3>5. QED
        BY <3>1, <3>4 DEF taken
    <2>6. Cardinality(Asked(s, u) \ Taken(s, u)) = a.asked - Cardinality(Taken(s, u))
      <3>1. Asked(s, u) \cap Taken(s, u) = Taken(s, u)
        BY DEF Taken
      <3>2. Cardinality(Asked(s, u) \ Taken(s, u))
                = Cardinality(Asked(s, u)) - Cardinality(Asked(s, u) \cap Taken(s, u))
        BY <2>3, FS_Difference
      <3>3. QED
        BY <2>3, <3>1, <3>2
    <2>7. a.asked - wants.ok = wants.limited
      <3>1. PICK ok, limited : ok = wants.ok /\ limited = wants.limited
        OBVIOUS
      <3>2. limited \in Int /\ ok \in Int /\ a.asked = ok + limited
        BY <1>4, <1>5, <1>8, <2>4, <3>1 DEF CheckNoted
      <3>3. QED
        BY <3>1, <3>2
    <2>8. QED
      BY <2>1, <2>2, <2>5, <2>6, <2>7
  <1>9. QED
    BY <1>6, <1>7, <1>8

\* What a script looks at is what it wants to see.
LEMMA ReadsRight ==
    ASSUME World, NEW s \in Scripts, Reads(s), Blameless(s)', NotedOK(s), OpenRowsOK(s),
           CleanOK(s)
    PROVE  ~script'[s].failed
  <1>0. /\ TypeOK /\ ScriptsOK /\ CallsOK(s) /\ Running(s) /\ Blameless(s) /\ Tidy(s)
        /\ ~script[s].failed
    BY DEF World, IInv, Reads, Moves, Blameless, Tidy, Untimed, CleanOK
  <1>1. /\ ~Raises(s, {"missing"}) /\ ~Raises(s, {"stale"})
    BY DEF Raises, Blameless
  <1>2. \/ Outlined(program[s])
        \/ Step(s).op \in {"put", "before", "after"}
        \/ Step(s).op = "chats" /\ Step(s).want = "any"
    BY <1>0, CastFormed, ScriptsOutlined, WhereItIs DEF World, Unjudging
  <1>3. CASE ListModels(s)
    BY <1>0, <1>1, <1>3, ListModelsDoes DEF GoesOn
  <1>4. CASE GetLimits(s)
    <2>1. Step(s).op = "get" /\ Step(s).user \in Own(s)
      BY <1>0, <1>4, GetLimitsDoes, StepsOwn DEF At
    <2>2. PICK a \in Note, b \in Note :
              /\ Passes(program[s], Step(s).user, Step(s), a, b, SendsAt(program[s], script[s].pc + 1))
              /\ Noted(s, Step(s).user, a) /\ As(s, Step(s).user, a)
      BY <1>0, <1>2, <2>1, NotesHere
    <2>3. a.limits.requests_per_minute = Step(s).limits.requests_per_minute
      BY <2>1, <2>2 DEF Passes, IsFor
    <2>4. user_limits[Step(s).user] = a.limits
      BY <2>1, <2>2 DEF As, LimitsAs, At
    <2>5. SameLimit(s)
      BY <2>3, <2>4 DEF SameLimit
    <2>6. QED
      BY <1>0, <1>4, <2>5, GetLimitsDoes DEF GoesOn
  <1>5. CASE EnsureFresh(s)
    BY <1>0, <1>1, <1>5, EnsureFreshDoes DEF FindsFresh
  <1>6. CASE GetUsage(s)
    <2>1. ASSUME At(s, "admin")
          PROVE  RequestCount(Step(s).user) = script[s].after[Step(s).user]
      <3>1. Step(s).op = "admin" /\ Step(s).user \in Own(s) /\ ~At(s, "chats") /\ AllEnded(s)
        BY <1>0, <2>1, StepsOwn DEF At, CallsOK
      <3>2. PICK u : u = Step(s).user
        OBVIOUS
      <3>3. PICK a \in Note, b \in Note :
                /\ Passes(program[s], u, Step(s), a, b, SendsAt(program[s], script[s].pc + 1))
                /\ Noted(s, u, a) /\ As(s, u, a)
        BY <1>0, <1>2, <3>1, <3>2, NotesHere
      <3>4. a.high = a.total /\ a.total \in Nat
        BY <3>1, <3>2, <3>3 DEF Passes, IsFor, Note
      <3>5. script[s].after[u] = Cardinality(OldRows(s, u)) + a.total
        BY <3>3, <3>4 DEF As, MeasuredAs
      <3>6. Cardinality(NewRows(s, u)) = a.total
        BY <3>1, <3>3 DEF As, RowsAs
      <3>7. RequestCount(u) = Cardinality(OldRows(s, u)) + Cardinality(NewRows(s, u))
        BY <1>0, <3>1, <3>2, CountApart
      <3>8. QED
        BY <3>2, <3>5, <3>6, <3>7
    <2>2. QED
      BY <1>0, <1>6, <2>1, GetUsageDoes DEF GoesOn, Measures
  <1>7. CASE Compare(s)
    <2>1. At(s, "check") /\ Outlined(program[s])
      BY <1>0, <1>2, <1>7, CompareDoes DEF At
    <2>2. Right(s)
      BY <1>0, <2>1, RightCheck
    <2>3. QED
      BY <1>0, <1>7, <2>2, CompareDoes DEF GoesOn
  <1>8. CASE PutAnswers(s)
    BY <1>0, <1>8, PutAnswersDoes DEF GoesOn
  <1>9. CASE Gather(s)
    <2>1. At(s, "chats") /\ AllEnded(s)
      BY <1>0, <1>9, GatherDoes
    <2>2. AllWanted(s)
      <3>1. CASE Outlined(program[s])
        BY <1>0, <2>1, <3>1, WantedEnds
      <3>2. CASE ~Outlined(program[s])
        BY <1>2, <2>1, <3>2 DEF AllWanted, At
      <3>3. QED
        BY <3>1, <3>2
    <2>3. QED
      BY <1>0, <1>9, <2>2, GatherDoes DEF GoesOn
  <1>10. QED
    BY <1>3, <1>4, <1>5, <1>6, <1>7, <1>8, <1>9 DEF Reads

\* What a step that reads leaves with the script.
LEMMA ReadsFields ==
    ASSUME World, NEW s \in Scripts, Reads(s), Blameless(s)'
    PROVE  /\ Blameless(s) /\ UNCHANGED <<usage_events, user_limits, now>>
           /\ At(s, "put") => script[s].put = "written"
           /\ script'[s].before = IF At(s, "before")
                  THEN [script[s].before EXCEPT ![Step(s).user] = RequestCount(Step(s).user)]
                  ELSE script[s].before
           /\ script'[s].after = IF At(s, "after")
                  THEN [script[s].after EXCEPT ![Step(s).user] = RequestCount(Step(s).user)]
                  ELSE script[s].after
           /\ IF At(s, "fresh") THEN FindsFresh(s) ELSE script'[s].fresh = script[s].fresh
  <1>0. /\ TypeOK /\ ScriptsOK /\ Running(s) /\ Blameless(s)
        /\ UNCHANGED <<usage_events, user_limits, now>>
    BY DEF World, IInv, Reads, Moves, Blameless, Quiet, quotaVars, tables
  <1> SUFFICES /\ At(s, "put") => script[s].put = "written"
               /\ script'[s].before = IF At(s, "before")
                      THEN [script[s].before EXCEPT ![Step(s).user] = RequestCount(Step(s).user)]
                      ELSE script[s].before
               /\ script'[s].after = IF At(s, "after")
                      THEN [script[s].after EXCEPT ![Step(s).user] = RequestCount(Step(s).user)]
                      ELSE script[s].after
               /\ IF At(s, "fresh") THEN FindsFresh(s) ELSE script'[s].fresh = script[s].fresh
    BY <1>0
  <1>1. ~Raises(s, {"missing"}) /\ ~Raises(s, {"stale"})
    BY DEF Raises, Blameless
  <1>2. ASSUME NEW why, GoesOn(s) \/ Raises(s, why)
        PROVE  /\ script'[s].before = script[s].before /\ script'[s].after = script[s].after
               /\ script'[s].fresh = script[s].fresh
    BY <1>2 DEF GoesOn, Raises
  <1>3. CASE ListModels(s)
    BY <1>0, <1>1, <1>2, <1>3, ListModelsDoes DEF At
  <1>4. CASE GetLimits(s)
    BY <1>0, <1>2, <1>4, GetLimitsDoes DEF At
  <1>5. CASE EnsureFresh(s)
    BY <1>0, <1>1, <1>5, EnsureFreshDoes DEF At, FindsFresh
  <1>6. CASE GetUsage(s)
    <2>1. \/ (At(s, "before") \/ At(s, "after")) /\ Measures(s)
          \/ At(s, "admin") /\ (GoesOn(s) \/ Raises(s, {}))
      BY <1>0, <1>6, GetUsageDoes
    <2>2. CASE (At(s, "before") \/ At(s, "after")) /\ Measures(s)
      BY <2>2 DEF At, Measures
    <2>3. CASE At(s, "admin") /\ (GoesOn(s) \/ Raises(s, {}))
      BY <1>2, <2>3 DEF At
    <2>4. QED
      BY <2>1, <2>2, <2>3
  <1>7. CASE Compare(s)
    <2>1. At(s, "check") /\ (GoesOn(s) \/ Raises(s, {}) \/ FailsOn(s))
      BY <1>0, <1>7, CompareDoes
    <2>2. CASE GoesOn(s) \/ Raises(s, {})
      BY <1>2, <2>1, <2>2 DEF At
    <2>3. CASE FailsOn(s)
      BY <2>1, <2>3 DEF At, FailsOn
    <2>4. QED
      BY <2>1, <2>2, <2>3
  <1>8. CASE PutAnswers(s)
    BY <1>0, <1>2, <1>8, PutAnswersDoes DEF At
  <1>9. CASE Gather(s)
    BY <1>0, <1>2, <1>9, GatherDoes DEF At
  <1>10. QED
    BY <1>3, <1>4, <1>5, <1>6, <1>7, <1>8, <1>9 DEF Reads

\* A window found fresh, with nothing to blame for it.
LEMMA FreshFound ==
    ASSUME World, NEW s \in Scripts, FindsFresh(s), Blameless(s)', now' = now,
           usage_events' = usage_events, NEW u, u = Step(s).user,
           Cardinality(NewRows(s, u)) = 0, NEW b
    PROVE  FreshAs(s, u, b)'
  <1>0. /\ TypeOK /\ now \in Nat /\ Window \in Nat /\ script'[s].fresh = now
        /\ script'[s].start = script[s].start /\ IsFiniteSet(NewRows(s, u))
    BY WindowAssumption, BoundsAssumption, FinitelyMany
       DEF World, IInv, TypeOK, Times, FindsFresh, Goes
  <1>1. Edge(u) = {} /\ Recent(u) \ Edge(u) = {}
    BY DEF FindsFresh, Blameless
  <1>2. NewRows(s, u)' = {}
    <2>1. NewRows(s, u) = {}
      BY <1>0, FS_EmptySet
    <2>2. QED
      BY <1>0, <2>1, SameCounts, NewRowsThen
  <1>3. \A i \in CountedOf(u) : usage_events[i].timestamp < now - Window
    <2> SUFFICES ASSUME NEW i \in CountedOf(u) PROVE usage_events[i].timestamp < now - Window
      OBVIOUS
    <2>1. i \in 1 .. Len(usage_events) /\ usage_events \in Seq(Event)
      BY <1>0 DEF CountedOf, CountedRows, TypeOK
    <2>2. usage_events[i] \in Event
      BY <2>1, ElementOfSeq
    <2>3. usage_events[i].timestamp \in Nat
      BY <2>2, BoundsAssumption DEF Event, Times
    <2>4. i \notin Recent(u)
      BY <1>1
    <2>5. ~(usage_events[i].timestamp >= now - Window)
      BY <2>4 DEF Recent, RowsSince, CountedOf
    <2>6. QED
      BY <1>0, <2>3, <2>5
  <1>4. \A i \in OldRows(s, u)' : i \in CountedOf(u)
    BY SameCounts DEF OldRows
  <1>5. QED
    BY <1>0, <1>2, <1>3, <1>4 DEF FreshAs

\* From the note a to the next one, b.
LEMMA LimitsNext ==
    ASSUME World, NEW s \in Scripts, NEW u, NEW a, NEW b, NEW next, Reads(s), Blameless(s)',
           Passes(program[s], u, Step(s), a, b, next), LimitsAs(s, u, a), Running(s),
           Goes(s, script[s].pc + 1)
    PROVE  LimitsAs(s, u, b)'
  <1>1. /\ script'[s].put = "none" /\ user_limits' = user_limits
        /\ At(s, "put") => script[s].put = "written"
    BY ReadsFields DEF Goes
  <1>2. b.limits = IF Step(s).op = "put" /\ IsFor(Step(s), u) THEN Step(s).limits ELSE a.limits
    BY DEF Passes
  <1>3. user_limits[u] = b.limits
    <2>1. CASE At(s, "put") /\ Step(s).user = u
      BY <1>1, <1>2, <2>1 DEF LimitsAs, IsFor, At
    <2>2. CASE ~(At(s, "put") /\ Step(s).user = u)
      BY <1>2, <2>2 DEF LimitsAs, IsFor, At
    <2>3. QED
      BY <2>1, <2>2
  <1>4. QED
    BY <1>1, <1>3 DEF LimitsAs

LEMMA MeasuredNext ==
    ASSUME World, [DemoNext]_demoVars, NEW s \in Scripts, NEW u \in Own(s), NEW a \in Note,
           NEW b,
           NEW next, Reads(s), Blameless(s)', Passes(program[s], u, Step(s), a, b, next),
           MeasuredAs(s, u, a), RowsAs(s, u, a), Running(s), OpenRowsOK(s)
    PROVE  MeasuredAs(s, u, b)'
  <1>1. /\ Blameless(s)
        /\ script'[s].before = IF At(s, "before")
                  THEN [script[s].before EXCEPT ![Step(s).user] = RequestCount(Step(s).user)]
                  ELSE script[s].before
        /\ script'[s].after = IF At(s, "after")
                  THEN [script[s].after EXCEPT ![Step(s).user] = RequestCount(Step(s).user)]
                  ELSE script[s].after
    BY ReadsFields
  <1>2. /\ b.low = IF Step(s).op = "before" /\ IsFor(Step(s), u) THEN a.total ELSE a.low
        /\ b.high = IF Step(s).op = "after" /\ IsFor(Step(s), u) THEN a.total ELSE a.high
    BY DEF Passes
  <1>3. ASSUME At(s, "before") \/ At(s, "after")
        PROVE  RequestCount(u) = Cardinality(OldRows(s, u)) + a.total
    <2>1. ~At(s, "chats") /\ CallsOK(s) /\ Tidy(s)
      BY <1>1, <1>3 DEF At, World, Tidy, Untimed, Blameless
    <2>2. RequestCount(u) = Cardinality(OldRows(s, u)) + Cardinality(NewRows(s, u))
      BY <2>1, CountApart DEF CallsOK
    <2>3. QED
      BY <2>1, <2>2 DEF RowsAs
  <1>4. /\ u \in Users /\ script[s].before \in [Users -> Nat] /\ script[s].after \in [Users -> Nat]
    BY OwnUsers DEF World, ScriptsOK, ScriptState
  <1>5. OldRows(s, u)' = OldRows(s, u)
    BY OldKept
  <1>6. b.low >= 0 => script'[s].before[u] = Cardinality(OldRows(s, u)) + b.low
    <2>1. CASE At(s, "before") /\ Step(s).user = u
      <3>1. b.low = a.total
        BY <1>2, <2>1 DEF IsFor, At
      <3>2. script'[s].before[u] = RequestCount(u)
        BY <1>1, <1>4, <2>1
      <3>3. QED
        BY <1>3, <2>1, <3>1, <3>2
    <2>2. CASE ~(At(s, "before") /\ Step(s).user = u)
      <3>1. b.low = a.low
        BY <1>2, <2>2 DEF IsFor, At
      <3>2. script'[s].before[u] = script[s].before[u]
        BY <1>1, <1>4, <2>2
      <3>3. QED
        BY <3>1, <3>2 DEF MeasuredAs
    <2>3. QED
      BY <2>1, <2>2
  <1>7. b.high >= 0 => script'[s].after[u] = Cardinality(OldRows(s, u)) + b.high
    <2>1. CASE At(s, "after") /\ Step(s).user = u
      <3>1. b.high = a.total
        BY <1>2, <2>1 DEF IsFor, At
      <3>2. script'[s].after[u] = RequestCount(u)
        BY <1>1, <1>4, <2>1
      <3>3. QED
        BY <1>3, <2>1, <3>1, <3>2
    <2>2. CASE ~(At(s, "after") /\ Step(s).user = u)
      <3>1. b.high = a.high
        BY <1>2, <2>2 DEF IsFor, At
      <3>2. script'[s].after[u] = script[s].after[u]
        BY <1>1, <1>4, <2>2
      <3>3. QED
        BY <3>1, <3>2 DEF MeasuredAs
    <2>3. QED
      BY <2>1, <2>2
  <1>8. QED
    BY <1>5, <1>6, <1>7 DEF MeasuredAs

LEMMA FreshNext ==
    ASSUME World, [DemoNext]_demoVars, NEW s \in Scripts, NEW u \in Own(s), NEW a \in Note,
           NEW b,
           NEW next, Reads(s), Blameless(s)', Passes(program[s], u, Step(s), a, b, next),
           FreshAs(s, u, a), RowsAs(s, u, a), Running(s), Goes(s, script[s].pc + 1)
    PROVE  FreshAs(s, u, b)'
  <1> SUFFICES ASSUME b.fresh PROVE FreshAs(s, u, b)'
    BY DEF FreshAs
  <1>1. /\ usage_events' = usage_events /\ now' = now /\ script'[s].start = script[s].start
        /\ IF At(s, "fresh") THEN FindsFresh(s) ELSE script'[s].fresh = script[s].fresh
    BY ReadsFields DEF Goes
  <1>2. IF Step(s).op = "fresh" THEN IsFor(Step(s), u) /\ a.total = 0 ELSE a.fresh
    BY DEF Passes
  <1>3. CASE At(s, "fresh")
    <2>1. u = Step(s).user /\ a.total = 0 /\ ~At(s, "chats") /\ FindsFresh(s)
      BY <1>1, <1>2, <1>3 DEF At, IsFor
    <2>2. Cardinality(NewRows(s, u)) = 0
      BY <2>1 DEF RowsAs
    <2>3. QED
      BY <1>1, <2>1, <2>2, FreshFound
  <1>4. CASE ~At(s, "fresh")
    <2>1. a.fresh /\ script'[s].fresh = script[s].fresh
      BY <1>1, <1>2, <1>4 DEF At
    <2>2. NewRows(s, u)' = NewRows(s, u)
      BY <1>1, SameCounts, NewRowsThen
    <2>3. FreshAs(s, u, a)'
      BY <1>1, <2>1, <2>2, FreshKept
    <2>4. QED
      BY <2>1, <2>3 DEF FreshAs
  <1>5. QED
    BY <1>3, <1>4

LEMMA RowsNext ==
    ASSUME World, NEW s \in Scripts, NEW u \in Own(s), NEW a \in Note, NEW b \in Note,
           program' = program,
           Passes(program[s], u, Step(s), a, b, SendsAt(program[s], script[s].pc + 1)),
           Noted(s, u, a), RowsAs(s, u, a), Running(s), Goes(s, script[s].pc + 1),
           usage_events' = usage_events, Blameless(s), At(s, "chats") => AllEnded(s)
    PROVE  RowsAs(s, u, b)'
  <1> DEFINE next == SendsAt(program[s], script[s].pc + 1)
  <1>0. ScriptsOK /\ script'[s].start = script[s].start
    BY DEF World, Goes
  <1>1. Cardinality(NewRows(s, u)) = a.total
    <2>1. CASE At(s, "chats")
      <3>1. ChatsNoted(program[s], u, Step(s), a)
        BY <2>1 DEF Passes, At
      <3>2. QED
        BY <2>1, <3>1, GatheredRows
    <2>2. CASE ~At(s, "chats")
      BY <2>2 DEF RowsAs
    <2>3. QED
      BY <2>1, <2>2
  <1>2. NewRows(s, u)' = NewRows(s, u)
    BY <1>0, SameCounts, NewRowsThen
  <1>3. CASE next
    <2>1. At(s, "chats")' /\ b.made = a.total
      BY <1>0, <1>3, NextCalls DEF Passes
    <2>2. script'[s].calls = NewCalls(program[s].steps[script[s].pc + 1])
      BY <1>3 DEF Goes, CallsAt, SendsAt
    <2>3. Results(s, u, "limited")' = {}
      <3>1. PICK st : st = program[s].steps[script[s].pc + 1]
        OBVIOUS
      <3>2. \A k \in DOMAIN script'[s].calls : script'[s].calls[k].at = "sent"
        BY <2>2, <3>1 DEF NewCalls
      <3>3. QED
        BY <3>2 DEF Results
    <2>4. IsRated(b) => Cardinality(NewRows(s, u)) <= b.limits.requests_per_minute
      BY <1>1, <2>1 DEF IsRated
    <2>5. Cardinality(NewRows(s, u)) = b.made + Cardinality(Taken(s, u)')
      <3>1. Taken(s, u)' = {}
        BY <1>0, <1>3, NextCalls
      <3>2. Cardinality(Taken(s, u)') = 0
        BY <3>1, FS_EmptySet
      <3>3. b.made \in Nat
        BY DEF Note
      <3>4. QED
        BY <1>1, <2>1, <3>2, <3>3
    <2>6. QED
      BY <1>2, <2>1, <2>3, <2>4, <2>5 DEF RowsAs
  <1>4. CASE ~next
    <2>1. /\ ~At(s, "chats")' /\ b.total = a.total /\ b.made = a.made
          /\ Taken(s, u)' = Taken(s, u)
      BY <1>0, <1>4, NextCalls DEF Passes
    <2>2. QED
      BY <1>1, <1>2, <2>1 DEF RowsAs
  <1>5. QED
    BY <1>3, <1>4

LEMMA ReadsAs ==
    ASSUME World, [DemoNext]_demoVars, NEW s \in Scripts, Reads(s), Blameless(s)', NotedOK(s),
           OpenRowsOK(s), CleanOK(s), NEW u \in Own(s), NEW n, Outline(program[s], u, n)
    PROVE  As(s, u, n[script[s].pc])'
  <1>0. /\ ScriptsOK /\ program' = program /\ Blameless(s) /\ ~script'[s].failed
        /\ usage_events' = usage_events
    BY ReadsFields, ReadsRight, ScriptsStep DEF World
  <1>1. /\ InOrder(s) /\ Running(s) /\ Goes(s, script[s].pc + 1)
        /\ At(s, "chats") => AllEnded(s)
    BY <1>0, ReadsOn DEF InOrder, Untimed, Blameless
  <1>2. PICK pc : pc = script[s].pc
    OBVIOUS
  <1>3. PICK a, b : a = n[pc] /\ b = n[pc + 1]
    OBVIOUS
  <1>4. /\ a \in Note /\ b \in Note
        /\ Passes(program[s], u, Step(s), a, b, SendsAt(program[s], script[s].pc + 1))
    BY <1>0, <1>1, <1>2, <1>3, OutlineAt
  <1>5. Noted(s, u, a) /\ As(s, u, a)
    BY <1>0, <1>1, <1>2, <1>3 DEF NotedOK, CleanOK
  <1>6. LimitsAs(s, u, b)'
    BY <1>1, <1>4, <1>5, LimitsNext DEF As
  <1>7. MeasuredAs(s, u, b)'
    BY <1>1, <1>4, <1>5, MeasuredNext DEF As
  <1>8. FreshAs(s, u, b)'
    BY <1>1, <1>4, <1>5, FreshNext DEF As
  <1>9. RowsAs(s, u, b)'
    BY <1>0, <1>1, <1>4, <1>5, RowsNext DEF As
  <1>10. As(s, u, b)'
    BY <1>6, <1>7, <1>8, <1>9 DEF As
  <1>11. script'[s].pc = pc + 1
    BY <1>1, <1>2 DEF Goes
  <1>12. QED
    BY <1>3, <1>10, <1>11

\* Nothing is done for s but the clock, perhaps.
LEMMA BystandsAs ==
    ASSUME World, [DemoNext]_demoVars, NEW s \in Scripts, Bystands(s), Blameless(s)',
           NEW u \in Own(s), NEW a, As(s, u, a)
    PROVE  As(s, u, a)'
  <1>0. /\ TypeOK /\ ScriptsOK /\ program' = program /\ Blameless(s) /\ Untimed(s)
        /\ now \in Nat /\ Window \in Nat
    BY ScriptsStep, BlameStays, BoundsAssumption, WindowAssumption
       DEF World, IInv, TypeOK, Times, Blameless, Untimed
  <1>1. OwnKept(s) /\ Stands(s)
    BY <1>0 DEF Bystands
  <1>2. /\ Running(s)' <=> Running(s)
        /\ Step(s)' = Step(s)
        /\ \A op : At(s, op)' <=> At(s, op)
    BY <1>0, <1>1, StaysThere DEF Stands
  <1>3. /\ OldRows(s, u)' = OldRows(s, u)
        /\ \A i \in OldRows(s, u) : usage_events'[i] = usage_events[i]
    BY OldKept
  <1>4. NewRows(s, u)' = NewRows(s, u)
    BY <1>1, OwnRows, NewRowsThen DEF Stands
  <1>5. \A i \in NewRows(s, u) : usage_events'[i].timestamp = usage_events[i].timestamp
    BY RowsKept DEF Kept, NewRows, CountedOf, CountedRows, Ids
  <1>6. LimitsAs(s, u, a)'
    BY <1>1, <1>2 DEF LimitsAs, As, Stands, OwnKept, LimitsKept
  <1>7. MeasuredAs(s, u, a)'
    BY <1>1, <1>3 DEF MeasuredAs, As, Stands
  <1>8. FreshAs(s, u, a)'
    <2> SUFFICES ASSUME a.fresh
                 PROVE  /\ script[s].fresh \in 0 .. now'
                        /\ Running(s) => now' <= script[s].fresh + Window
      BY <1>1, <1>2, <1>3, <1>4, <1>5 DEF FreshAs, As, Stands
    <2>1. /\ script[s].fresh \in 0 .. now
          /\ Running(s) => now <= script[s].fresh + Window
      BY DEF FreshAs, As
    <2>2. CASE now' = now
      BY <2>1, <2>2
    <2>3. CASE Ages(s) /\ now' = now + 1
      <3>1. ~(Running(s) /\ script[s].fresh >= 0 /\ now + 1 > script[s].fresh + Window)
        BY <1>0, <2>3 DEF Ages, Blameless
      <3>2. QED
        BY <1>0, <2>1, <2>3, <3>1
    <2>4. QED
      BY <2>2, <2>3 DEF Bystands
  <1>9. RowsAs(s, u, a)'
    <2>1. /\ Results(s, u, "limited")' = Results(s, u, "limited")
          /\ Taken(s, u)' = Taken(s, u)
      BY <1>1 DEF Results, Taken, Asked, Stands
    <2>2. QED
      BY <1>2, <1>4, <2>1 DEF RowsAs, As
  <1>10. QED
    BY <1>6, <1>7, <1>8, <1>9 DEF As

\* The upsert of a PUT.
LEMMA WritesAs ==
    ASSUME World, [DemoNext]_demoVars, NEW s \in Scripts, WritesLimits(s), NEW u \in Own(s),
           NEW a,
           As(s, u, a)
    PROVE  As(s, u, a)'
  <1>0. /\ ScriptsOK /\ TypeOK /\ program' = program /\ u \in Users /\ At(s, "put")
    BY ScriptsStep, OwnUsers DEF World, IInv, WritesLimits
  <1>1. /\ Writes(s) /\ usage_events' = usage_events /\ now' = now /\ script[s].put = "none"
        /\ user_limits' = [user_limits EXCEPT ![Step(s).user] = Step(s).limits]
    BY DEF WritesLimits, UpdateLimits
  <1>2. /\ Running(s)' <=> Running(s)
        /\ Step(s)' = Step(s)
        /\ \A op : At(s, op)' <=> At(s, op)
    BY <1>0, <1>1, StaysThere DEF Writes
  <1>3. /\ OldRows(s, u)' = OldRows(s, u)
        /\ NewRows(s, u)' = NewRows(s, u)
    BY <1>1, OldKept, SameCounts, NewRowsThen DEF Writes
  <1>4. LimitsAs(s, u, a)'
    <2>1. user_limits[u] = a.limits
      BY <1>1 DEF As, LimitsAs
    <2>2. user_limits'[u] = IF Step(s).user = u THEN Step(s).limits ELSE a.limits
      BY <1>0, <1>1, <2>1 DEF TypeOK
    <2>3. script'[s].put = "written"
      BY <1>1 DEF Writes
    <2>4. QED
      BY <1>0, <1>2, <2>2, <2>3 DEF LimitsAs
  <1>5. MeasuredAs(s, u, a)'
    BY <1>1, <1>3 DEF MeasuredAs, As, Writes
  <1>6. FreshAs(s, u, a)'
    BY <1>1, <1>2, <1>3 DEF FreshAs, As, Writes
  <1>7. RowsAs(s, u, a)'
    <2>1. Taken(s, u)' = Taken(s, u)
      BY <1>1 DEF Taken, Asked, Writes
    <2>2. QED
      BY <1>0, <1>2, <1>3, <2>1 DEF RowsAs, As, At
  <1>8. QED
    BY <1>4, <1>5, <1>6, <1>7 DEF As

LEMMA CleanStep ==
    ASSUME World, [DemoNext]_demoVars, NEW s \in Scripts, NotedOK(s), OpenRowsOK(s), CleanOK(s)
    PROVE  CleanOK(s)'
  <1>0. /\ World' /\ ScriptsOK /\ program' = program /\ Own(s)' = Own(s)
        /\ Blameless(s)' => Blameless(s)
    BY WorldStep, ScriptsStep, BlameStays DEF World, Own, Blameless
  <1> SUFFICES ASSUME Blameless(s)'
               PROVE  /\ ~script'[s].failed
                      /\ \A u \in Own(s) : \A n : Outline(program[s], u, n) =>
                             As(s, u, n[script[s].pc])'
    BY <1>0 DEF CleanOK
  <1>1. /\ ~script[s].failed /\ InOrder(s)
        /\ \A u \in Own(s) : \A n : Outline(program[s], u, n) => As(s, u, n[script[s].pc])
    BY <1>0 DEF CleanOK, InOrder, Blameless, Untimed
  <1>2. CASE Reads(s)
    BY <1>2, ReadsRight, ReadsAs
  <1>3. CASE TimesOut(s)
    BY <1>3 DEF TimesOut, Untimed, Blameless
  <1>4. ASSUME script'[s].pc = script[s].pc, script'[s].failed = script[s].failed,
               \A u \in Own(s) : \A a : As(s, u, a) => As(s, u, a)'
        PROVE  /\ ~script'[s].failed
               /\ \A u \in Own(s) : \A n : Outline(program[s], u, n) =>
                      As(s, u, n[script[s].pc])'
    <2> SUFFICES ASSUME NEW u \in Own(s), NEW n, Outline(program[s], u, n)
                 PROVE  As(s, u, n[script[s].pc])'
      BY <1>1, <1>4
    <2>1. PICK a : a = n[script[s].pc]
      OBVIOUS
    <2>2. As(s, u, a)'
      BY <1>1, <1>4, <2>1
    <2>3. QED
      BY <1>4, <2>1, <2>2
  <1>5. CASE WritesLimits(s)
    BY <1>4, <1>5, WritesAs DEF WritesLimits, Writes
  <1>6. CASE Bystands(s)
    BY <1>4, <1>6, BystandsAs DEF Bystands, Stands
  <1>7. ASSUME NEW k \in DOMAIN script[s].calls, ChatStep(s, k)
        PROVE  /\ ~script'[s].failed
               /\ \A u \in Own(s) : \A n : Outline(program[s], u, n) =>
                      As(s, u, n[script[s].pc])'
    <2>1. ChatActs(s)
      BY <1>7, ChatStepActs
    <2>2. /\ script'[s].pc = script[s].pc /\ script'[s].failed = script[s].failed
          /\ At(s, "chats") /\ Running(s)
      BY <2>1 DEF ChatActs, At
    <2> SUFFICES ASSUME NEW u \in Own(s), NEW n, Outline(program[s], u, n)
                 PROVE  As(s, u, n[script[s].pc])'
      BY <1>1, <2>2
    <2>3. PICK a : a = n[script[s].pc]
      OBVIOUS
    <2>4. a \in Note /\ ChatsNoted(program[s], u, Step(s), a)
      BY <1>0, <2>2, <2>3, OutlineAt DEF Passes, At
    <2>5. Noted(s, u, a) /\ As(s, u, a)
      BY <1>1, <2>3 DEF NotedOK
    <2>6. As(s, u, a)'
      BY <1>0, <1>7, <2>4, <2>5, ChatAs
    <2>7. QED
      BY <2>2, <2>3, <2>6
  <1>8. QED
    BY <1>2, <1>3, <1>5, <1>6, <1>7, ScriptActs, ActsOrStands

LEMMA CleanInit ==
    ASSUME DemoInit, NEW s \in Scripts
    PROVE  CleanOK(s)
  <1>0. /\ World /\ script[s].pc = 1 /\ ~script[s].failed /\ script[s].put = "none"
        /\ script[s].start = Len(usage_events) /\ Len(usage_events) \in Nat
        /\ script[s].calls = <<>>
    <2>1. World
      BY WorldInit
    <2>2. Len(usage_events) \in Nat
      BY <2>1 DEF World, IInv, TypeOK
    <2>3. /\ script[s].pc = 1 /\ script[s].calls = <<>> /\ ~script[s].failed
          /\ script[s].put = "none" /\ script[s].start = Len(usage_events)
      BY DEF DemoInit
    <2>4. QED
      BY <2>1, <2>2, <2>3
  <1>1. \A u \in Users : user_limits[u] = Unlimited
    BY DEF DemoInit
  <1> SUFFICES ASSUME NEW u \in Own(s), NEW n, Outline(program[s], u, n)
               PROVE  As(s, u, n[script[s].pc])
    BY <1>0 DEF CleanOK
  <1>2. n[script[s].pc] = Blank
    BY <1>0 DEF Outline
  <1>3. NewRows(s, u) = {}
    BY <1>0 DEF NewRows, CountedOf, CountedRows
  <1>4. LimitsAs(s, u, Blank)
    BY <1>0, <1>1, OwnUsers DEF LimitsAs, Blank, Line
  <1>5. MeasuredAs(s, u, Blank) /\ FreshAs(s, u, Blank)
    BY DEF MeasuredAs, FreshAs, Blank, Line
  <1>6. RowsAs(s, u, Blank)
    <2>1. Cardinality(NewRows(s, u)) = 0 /\ Cardinality(Taken(s, u)) = 0
      <3>1. Taken(s, u) = {}
        BY <1>0 DEF Taken, Asked
      <3>2. QED
        BY <1>3, <3>1, FS_EmptySet
    <2>2. ~At(s, "chats")
      BY <1>0 DEF Outline, At, Step
    <2>3. QED
      BY <2>1, <2>2 DEF RowsAs, Blank, Line
  <1>7. QED
    BY <1>2, <1>4, <1>5, <1>6 DEF As

\* The scripts may run at the same time (testing.md, Demo Commands: each has
\* users of its own): one fails only for a cause outside all of them, which
\* blame records, and never for what another script does.  Checks that compare usage
\* before and after, the one request a limit of one lets through, and what the
\* admin reads, all come out right, in every order of the steps.
THEOREM DemosStandAlone == DemoSpec => []DemosDoNotInterfere
  <1> DEFINE Ok == \A s \in Scripts : NotedOK(s) /\ OpenRowsOK(s) /\ CleanOK(s)
  <1>1. DemoInit => Ok
    BY NotedInit, CleanInit
  <1>2. World /\ Ok /\ [DemoNext]_demoVars => Ok'
    BY NotedStep, OpenRowsStep, CleanStep
  <1>3. Ok => DemosDoNotInterfere
    BY DEF DemosDoNotInterfere, CleanOK, Blameless
  <1> HIDE DEF Ok
  <1>4. QED
    BY <1>1, <1>2, <1>3, WorldHolds, PTL DEF DemoSpec
=============================================================================

--------------------------- MODULE MCDemoScripts ---------------------------
(***************************************************************************)
(* Small instance of DemoScripts: pairs of scripts with the users the seed *)
(* dedicates to them.  Repeated scripts, and model lists that are empty or *)
(* name the model with its tag, are tried with some of the pairs.          *)
(***************************************************************************)
EXTENDS DemoScripts

CONSTANTS s1, s2, ua, ub, uc, m1

MCScripts == {s1, s2}
MCUsers == {ua, ub, uc}
MCModels == {m1}
MCEstimates == {1}
MCUsages == {1}

Pair(p, q) == (s1 :> p) @@ (s2 :> q)

MCReportLimits ==
    [requests_per_minute |-> 3, daily_tokens |-> 9, total_tokens |-> 9]

MCLimitSettings == {Unlimited, Rpm(1), MCReportLimits}

LineUp(programs, allowlist, old) ==
    [programs |-> programs, allowlist |-> allowlist,
     installed |-> {Tagged(m1)}, old |-> old]

MCLineUps ==
    { LineUp(Pair(ReportDemo(ua, MCReportLimits), ConcurrencyDemo(ub, uc, 1)), {Bare(m1)}, FALSE),
      LineUp(Pair(LimitsDemo(ua), UsageDemo(ub, uc)), {Bare(m1)}, TRUE),
      LineUp(Pair(LoadDemo(ua, ub, 2, 1, 2), ReportDemo(uc, MCReportLimits)), {Bare(m1)}, FALSE),
      LineUp(Pair(LoadTest(ua, Rpm(1), 2, 1), LimitsDemo(ub)), {Bare(m1)}, FALSE),
      LineUp(Pair(StandardDemo(ua), LimitsDemo(ub)), {}, FALSE),
      LineUp(Pair(StandardDemo(ua), LimitsDemo(ub)), {Tagged(m1)}, FALSE) }
=============================================================================

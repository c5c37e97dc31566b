--------------------------- MODULE MCUsageReport ---------------------------
(***************************************************************************)
(* Small instance of UsageReport: three users, two of them the admin's,    *)
(* two models, and more requests than a list shows.  No limits: what is    *)
(* refused is not shown.                                                   *)
(***************************************************************************)
EXTENDS UsageReport, TLC

CONSTANTS u1, u2, u3, m1, m2

MCUsers == {u1, u2, u3}
MCModels == {m1, m2}
MCAdminUsers == <<u1, u2>>
MCEstimates == {1}
MCUsages == {0, 2}
MCLimitSettings == {}

MCSymmetry == Permutations(MCModels)
=============================================================================

---------------------------- MODULE MCChatProxy ----------------------------
(***************************************************************************)
(* Small instances of ChatProxy: one user and one model, more requests     *)
(* than permits, and a limit the requests together exceed.                 *)
(***************************************************************************)
EXTENDS ChatProxy, TLC

CONSTANTS r1, r2, u1, m1

MCTwoRequests == {r1, r2}
MCUsers == {u1}
MCModels == {m1}
MCEstimates == {1}
MCUsages == {0, 2}

MCLimitSettings ==
    {[requests_per_minute |-> 2, daily_tokens |-> NoLimit, total_tokens |-> 2]}

MCNoSettings == {}

MCSymmetry == Permutations(MCTwoRequests)
=============================================================================

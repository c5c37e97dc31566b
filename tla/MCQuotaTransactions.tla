------------------------ MODULE MCQuotaTransactions ------------------------
(***************************************************************************)
(* Small instances of QuotaTransactions: three threads, one user.          *)
(***************************************************************************)
EXTENDS QuotaTransactions, TLC

CONSTANTS c1, c2, c3, u1, m1

MCCallers == {c1, c2, c3}
MCUsers == {u1}
MCModels == {m1}
MCEstimates == {2}
MCUsages == {0, 3}

MCLimitSettings ==
    { [requests_per_minute |-> 2, daily_tokens |-> 3, total_tokens |-> NoLimit],
      [requests_per_minute |-> 1, daily_tokens |-> NoLimit, total_tokens |-> 3] }

MCSymmetry == Permutations(MCCallers)
=============================================================================

------------------------------ MODULE MCQuota ------------------------------
(***************************************************************************)
(* Small instance of Quota: one user under every kind of limit, alone and  *)
(* together, a limit of zero among them.  UsageReport.cfg checks Quota     *)
(* with several users and models.                                          *)
(***************************************************************************)
EXTENDS Quota

CONSTANTS u1, m1

MCUsers == {u1}
MCModels == {m1}

\* A max_tokens below zero, which counts as none and so is exceeded, and one
\* above what is used in the end.
MCEstimates == {-1, 2}
MCUsages == {1}

\* A row with two limits, and one with all three.
MCLimitSettings ==
    { [requests_per_minute |-> 1, daily_tokens |-> NoLimit, total_tokens |-> 0],
      [requests_per_minute |-> 2, daily_tokens |-> 3, total_tokens |-> 4] }
=============================================================================

----------------------------- MODULE MCDevSeed -----------------------------
(***************************************************************************)
(* Small instance of DatabaseStart and DevSeed: a worker and two runs of   *)
(* the seed, a user and an admin, and files with rows from before: an      *)
(* admin who is switched off and only a user, or the admin's token under   *)
(* another id.                                                             *)
(***************************************************************************)
EXTENDS DevSeed, TLC

CONSTANTS p1, p2, p3, ua, admin, ta, tadmin, other, m1

MCProcesses == {p1, p2, p3}
MCSeeders == {p2, p3}
MCUserIds == {ua, admin}
MCTokens == {ta, tadmin}
MCTokenIds == MCTokens \cup {other}
MCModelIds == {m1}

MCSeedUsers ==
    << [id |-> ua, role |-> "user", token |-> ta],
       [id |-> admin, role |-> "admin", token |-> tadmin] >>
MCSeedModels == <<m1>>

Row(u, token) == [user_id |-> u, token |-> token, is_active |-> TRUE]

MCOldRows ==
    { [users |-> admin :> [role |-> "user", is_active |-> FALSE],
       api_tokens |-> ta :> Row(admin, ta)],
      [users |-> ua :> [role |-> "admin", is_active |-> TRUE],
       api_tokens |-> other :> Row(ua, tadmin)] }
=============================================================================

------------------------------ MODULE DevSeed ------------------------------
(***************************************************************************)
(* The development seed (src/scripts/seed_dev_data.py) on top of           *)
(* initialize_database: workers of the server and runs of the seed start   *)
(* on the same file at the same time, and each may be killed.  Every       *)
(* statement of the seed is a transaction of its own, so its runs          *)
(* interleave, and one that is cut off leaves a part behind.               *)
(*                                                                         *)
(* The file may hold rows from before: of other roles, switched off, or    *)
(* with one of the seed's tokens under another id.  A row of a file        *)
(* without the column role gets the role "user" when it is migrated.       *)
(***************************************************************************)
EXTENDS DatabaseStart, Access

CONSTANTS
    Seeders,    \* the processes that run the seed; the others are workers
    SeedUsers,  \* SEEDED_USERS: a sequence of [id, role, token]
    SeedModels, \* ALLOWED_MODELS
    Admin,      \* the id "admin"
    OldRows,    \* rows a file may hold: records of users, api_tokens
    MaxEdits    \* bound: users or tokens an operator switches off

ASSUME SeedersAssumption == Seeders \subseteq Processes
ASSUME SeedTokensAssumption == Tokens \subseteq TokenIds
ASSUME SeedUsersAssumption ==
    SeedUsers \in Seq([id : UserIds, role : Roles, token : Tokens]) /\ SeedUsers # <<>>
ASSUME SeedModelsAssumption == SeedModels \in Seq(ModelIds) /\ SeedModels # <<>>

\* Each user of the seed is named once, with a token of its own, and the
\* admin is one of them.
ASSUME SeedDistinctAssumption ==
    /\ \A k, l \in DOMAIN SeedUsers :
          SeedUsers[k].id = SeedUsers[l].id \/ SeedUsers[k].token = SeedUsers[l].token
              => k = l
    /\ \E k \in DOMAIN SeedUsers : SeedUsers[k].id = Admin
ASSUME EditsAssumption == MaxEdits \in Nat

\* The rows of a file were written by the program: their tokens are different
\* and of users that are there, and those under an id of the seed by the seed.
ASSUME OldRowsAssumption ==
    \A rows \in OldRows :
        /\ DOMAIN rows.users \subseteq UserIds
        /\ rows.users \in [DOMAIN rows.users -> UserRow]
        /\ DOMAIN rows.api_tokens \subseteq TokenIds
        /\ rows.api_tokens \in [DOMAIN rows.api_tokens -> TokenRow]
        /\ \A i \in DOMAIN rows.api_tokens :
              rows.api_tokens[i].user_id \in DOMAIN rows.users
        /\ \A i, j \in DOMAIN rows.api_tokens :
              rows.api_tokens[i].token = rows.api_tokens[j].token => i = j
        /\ \A k \in DOMAIN SeedUsers : SeedUsers[k].token \in DOMAIN rows.api_tokens =>
              rows.api_tokens[SeedUsers[k].token].token = SeedUsers[k].token

VARIABLES
    seed,    \* [Processes -> the loop a run is in, and its iteration]
    edits,   \* what the operator switched off so far
    clean,   \* history: the seeders whose run no edit has been made since
    seeded   \* history: a clean run has finished

seedVars == <<seed, edits, clean, seeded>>
allVars == <<dbVars, accessVars, seedVars>>

Loops == {"users", "tokens", "associations", "models", "done", "raised"}

At(loop, k) == [loop |-> loop, k |-> k]

-----------------------------------------------------------------------------
Running(p, loop) == p \in Seeders /\ pc[p] = "ready" /\ seed[p].loop = loop

Goes(p, loop, k) == seed' = [seed EXCEPT ![p] = At(loop, k)]

\* Mutant: the token is stored before its user.
SeedUserAfterToken(p) ==
    LET k == seed[p].k
    IN  /\ Running(p, "users")
        /\ UpsertApiToken(SeedUsers[k].token, SeedUsers[k].id, SeedUsers[k].token)
        /\ Goes(p, "tokens", k)
        /\ UNCHANGED <<dbVars, edits, clean, seeded>>

\* The body of the loop over the users, in two statements.
SeedUser(p) ==
    LET k == seed[p].k
    IN  /\ Running(p, "users")
        /\ UpsertUser(SeedUsers[k].id, SeedUsers[k].role)
        /\ Goes(p, "tokens", k)
        /\ UNCHANGED <<dbVars, edits, clean, seeded>>

SeedToken(p) ==
    LET k == seed[p].k
    IN  /\ Running(p, "tokens")
        /\ UpsertApiToken(SeedUsers[k].token, SeedUsers[k].id, SeedUsers[k].token)
        /\ IF k < Len(SeedUsers) THEN Goes(p, "users", k + 1) ELSE Goes(p, "associations", 1)
        /\ UNCHANGED <<dbVars, edits, clean, seeded>>

\* Another row has the token: the script ends there.
SeedTokenRaises(p) ==
    LET k == seed[p].k
    IN  /\ Running(p, "tokens")
        /\ TokenTaken(SeedUsers[k].token, SeedUsers[k].token)
        /\ Goes(p, "raised", k)
        /\ UNCHANGED <<dbVars, accessVars, edits, clean, seeded>>

\* Users who are admins themselves are passed over.
SeedAssociation(p) ==
    LET k == seed[p].k
    IN  /\ Running(p, "associations")
        /\ IF SeedUsers[k].role # "admin"
           THEN UpsertAdminUserAssociation(Admin, SeedUsers[k].id)
           ELSE UNCHANGED accessVars
        /\ IF k < Len(SeedUsers) THEN Goes(p, "associations", k + 1) ELSE Goes(p, "models", 1)
        /\ UNCHANGED <<dbVars, edits, clean, seeded>>

SeedModel(p) ==
    LET k == seed[p].k
    IN  /\ Running(p, "models")
        /\ UpsertAllowedModel(SeedModels[k])
        /\ IF k < Len(SeedModels)
           THEN Goes(p, "models", k + 1) /\ UNCHANGED seeded
           ELSE Goes(p, "done", k) /\ seeded' = (seeded \/ p \in clean)
        /\ UNCHANGED <<dbVars, edits, clean>>

SeedStarts(p) ==
    /\ Start(p)
    /\ clean' = clean \cup ({p} \cap Seeders)
    /\ UNCHANGED <<accessVars, seed, edits, seeded>>

\* A run that is killed leaves what it has written; the next one begins anew.
SeedKilled(p) ==
    /\ Kill(p)
    /\ Goes(p, "users", 1)
    /\ UNCHANGED <<accessVars, edits, clean, seeded>>

\* A run that has ended, well or not, is followed by another one.
SeedAgain(p) ==
    /\ Running(p, "done") \/ Running(p, "raised")
    /\ pc' = [pc EXCEPT ![p] = Head(Statements)]
    /\ Goes(p, "users", 1)
    /\ clean' = clean \cup {p}
    /\ UNCHANGED <<tables, role_column, kills, migrated_by, accessVars, edits, seeded>>

\* A bound: the edits from before the seed are those of OldRows.
OperatorEdits ==
    /\ seeded /\ edits < MaxEdits
    /\ edits' = edits + 1
    /\ Deactivate
    /\ clean' = {} /\ seeded' = FALSE
    /\ UNCHANGED <<dbVars, seed>>

-----------------------------------------------------------------------------
SeedInit ==
    /\ Init
    /\ \E rows \in OldRows :
          /\ users = IF "users" \notin tables THEN NoRows
                     ELSE IF role_column THEN rows.users
                     ELSE [u \in DOMAIN rows.users |-> [rows.users[u] EXCEPT !.role = "user"]]
          /\ api_tokens = IF "api_tokens" \notin tables THEN NoRows ELSE rows.api_tokens
    /\ admin_user_associations = {} /\ model_allowlist = {}
    /\ seed = [p \in Processes |-> At("users", 1)]
    /\ edits = 0 /\ clean = Seeders /\ seeded = FALSE

DatabaseStep(p) == Step(p) /\ UNCHANGED <<accessVars, seedVars>>

SeedStep(p) ==
    \/ SeedUser(p) \/ SeedToken(p) \/ SeedTokenRaises(p)
    \/ SeedAssociation(p) \/ SeedModel(p)

SeedNext ==
    \/ \E p \in Processes : SeedStarts(p)
    \/ \E p \in Processes : DatabaseStep(p)
    \/ \E p \in Processes : SeedKilled(p)
    \/ \E p \in Processes : SeedStep(p)
    \/ \E p \in Processes : SeedAgain(p)
    \/ OperatorEdits

SeedSpec == SeedInit /\ [][SeedNext]_allVars

\* A process that has started goes on.
SeedFairness ==
    \A p \in Processes :
        WF_allVars(DatabaseStep(p) \/ SeedStep(p))

SeedFairSpec == SeedSpec /\ SeedFairness

-----------------------------------------------------------------------------
SeedTypeOK ==
    /\ TypeOK
    /\ AccessTypeOK
    /\ TokensUnique
    /\ seed \in [Processes -> [loop : Loops, k : Nat \ {0}]]
    /\ edits \in 0 .. MaxEdits
    /\ clean \subseteq Seeders /\ seeded \in BOOLEAN

\* What the seed promises once it has run: each of its tokens stands for its
\* user, with the seed's role, the admin sees all the others, and its models
\* are allowed.  It holds whatever was in the file, whoever else seeds at the
\* same time or is cut off in the middle of it, and it lasts until somebody
\* switches a user or a token off.
SeedLasts ==
    seeded =>
        /\ \A k \in DOMAIN SeedUsers :
              LET row == SeedUsers[k]
              IN  /\ RequireUser(row.token) = {row.id}
                  /\ RequireAdmin(row.token) = IF row.role = "admin" THEN {row.id} ELSE {}
                  /\ row.role # "admin" => row.id \in ListUsersForAdmin(Admin)
        /\ \A k \in DOMAIN SeedModels : SeedModels[k] \in model_allowlist

\* No token and no association is ever of a user that is not there, though
\* the database does not enforce its foreign keys: the order of the seed's
\* statements sees to it, wherever a run is cut off.
ReferencesKept == ReferencesHold

\* Runs of the seed do not make each other fail, one after the other or side
\* by side: one raises only over a token the file holds under an id that is
\* none of the seed's.
SeedsDoNotCollide ==
    \A p \in Seeders : seed[p].loop = "raised" =>
        \E i \in DOMAIN api_tokens \ {SeedUsers[k].token : k \in DOMAIN SeedUsers} :
            api_tokens[i].token = SeedUsers[seed[p].k].token
=============================================================================

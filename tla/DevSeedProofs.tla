---------------------------- MODULE DevSeedProofs ----------------------------
(***************************************************************************)
(* Theorems about DatabaseStart and DevSeed: for any number of workers and *)
(* seeders on one file, of any users, tokens and models, with any number   *)
(* of kills and edits.                                                     *)
(*                                                                         *)
(* None of the invariants is inductive by itself.  What a process has done *)
(* is known from where it is, and nobody undoes it: CreatedBehind says so  *)
(* of the tables, WrittenBehind of the rows.  Two runs of the seed do not  *)
(* disturb each other because they write the same rows.                    *)
(***************************************************************************)
EXTENDS DevSeed, SequenceTheorems, TLAPS

Numbers == 1 .. 11

\* The statements by number.
LEMMA StatementNumbers ==
    /\ DOMAIN Statements = Numbers
    /\ Statements[1] = "schema_migrations"
    /\ Statements[2] = "users"
    /\ Statements[3] = "PRAGMA table_info(users)"
    /\ Statements[4] = "ALTER TABLE users ADD COLUMN role"
    /\ Statements[5] = "admin_user_associations"
    /\ Statements[6] = "api_tokens"
    /\ Statements[7] = "model_allowlist"
    /\ Statements[8] = "usage_events"
    /\ Statements[9] = "usage_totals"
    /\ Statements[10] = "user_limits"
    /\ Statements[11] = "ready"
  BY DEF Statements, Numbers

\* The statements are different.
LEMMA StatementsDistinct ==
    \A j, k \in Numbers : Statements[j] = Statements[k] => j = k
  <1> SUFFICES ASSUME NEW j \in Numbers, NEW k \in Numbers, Statements[j] = Statements[k]
               PROVE  j = k
    OBVIOUS
  <1>1. \A n \in Numbers : n \in {1, 2, 3, 4, 5, 6, 7, 8, 9, 10, 11}
    BY DEF Numbers
  <1>2. CASE j = 1
    BY ONLY <1>1, <1>2, k \in Numbers, Statements[j] = Statements[k], StatementNumbers
  <1>3. CASE j = 2
    BY ONLY <1>1, <1>3, k \in Numbers, Statements[j] = Statements[k], StatementNumbers
  <1>4. CASE j = 3
    BY ONLY <1>1, <1>4, k \in Numbers, Statements[j] = Statements[k], StatementNumbers
  <1>5. CASE j = 4
    BY ONLY <1>1, <1>5, k \in Numbers, Statements[j] = Statements[k], StatementNumbers
  <1>6. CASE j = 5
    BY ONLY <1>1, <1>6, k \in Numbers, Statements[j] = Statements[k], StatementNumbers
  <1>7. CASE j = 6
    BY ONLY <1>1, <1>7, k \in Numbers, Statements[j] = Statements[k], StatementNumbers
  <1>8. CASE j = 7
    BY ONLY <1>1, <1>8, k \in Numbers, Statements[j] = Statements[k], StatementNumbers
  <1>9. CASE j = 8
    BY ONLY <1>1, <1>9, k \in Numbers, Statements[j] = Statements[k], StatementNumbers
  <1>10. CASE j = 9
    BY ONLY <1>1, <1>10, k \in Numbers, Statements[j] = Statements[k], StatementNumbers
  <1>11. CASE j = 10
    BY ONLY <1>1, <1>11, k \in Numbers, Statements[j] = Statements[k], StatementNumbers
  <1>12. CASE j = 11
    BY ONLY <1>1, <1>12, k \in Numbers, Statements[j] = Statements[k], StatementNumbers
  <1>13. QED
    BY <1>1, <1>2, <1>3, <1>4, <1>5, <1>6, <1>7,
       <1>8, <1>9, <1>10, <1>11, <1>12

LEMMA PlacesAre ==
    Places = {Statements[k] : k \in Numbers} \cup {"down", "failed"}
  BY StatementNumbers DEF Places, ToSet

\* A process at statement k goes on to statement k + n.
LEMMA Advances ==
    ASSUME NEW p \in Processes, NEW k \in Numbers, pc[p] = Statements[k],
           NEW n \in Nat, Advance(p, n)
    PROVE  pc' = [pc EXCEPT ![p] = Statements[k + n]]
  <1>1. (CHOOSE j \in DOMAIN Statements : Statements[j] = pc[p]) = k
    BY StatementNumbers, StatementsDistinct
  <1>2. QED
    BY <1>1 DEF Advance

\* Which statements create a table, and which places are no statement.
LEMMA StatementKinds ==
    ASSUME NEW k \in Numbers
    PROVE  /\ Statements[k] \in Schema <=> k \notin {3, 4, 11}
           /\ Statements[k] \notin {"down", "failed"}
  <1>1. k \in {1, 2, 3, 4, 5, 6, 7, 8, 9, 10, 11}
    BY DEF Numbers
  <1>2. QED
    BY <1>1, StatementNumbers DEF Schema

-----------------------------------------------------------------------------
(***************************************************************************)
(* initialize_database.                                                    *)
(***************************************************************************)

\* Every table a process has passed is there, and so is the column.
CreatedBehind ==
    \A p \in Processes, k \in Numbers : pc[p] = Statements[k] =>
        /\ \A j \in Numbers : j < k /\ Statements[j] \in Schema => Statements[j] \in tables
        /\ k >= 5 => role_column

\* If the column came after a process looked for it, another process added it.
MigratedMeanwhile ==
    \A p \in Processes :
        pc[p] = "ALTER TABLE users ADD COLUMN role" /\ role_column =>
            migrated_by \ {p} # {}

DatabaseInv == TypeOK /\ CreatedBehind /\ MigratedMeanwhile /\ FailureExplained

\* What CreatedBehind says of one process and one table.
LEMMA TableBehind ==
    ASSUME DatabaseInv, NEW p \in Processes, NEW k \in Numbers, pc[p] = Statements[k],
           NEW j \in Numbers, j < k, Statements[j] \in Schema
    PROVE  Statements[j] \in tables
  <1>1. CreatedBehind
    BY DEF DatabaseInv
  <1>2. QED
    BY ONLY <1>1, p \in Processes, k \in Numbers, pc[p] = Statements[k], j \in Numbers, j < k,
            Statements[j] \in Schema DEF CreatedBehind

LEMMA UsersBehind ==
    DatabaseInv => \A p \in Processes :
        pc[p] = "ALTER TABLE users ADD COLUMN role" => "users" \in tables
  <1>1. 2 \in Numbers /\ 4 \in Numbers /\ 2 < 4
    BY DEF Numbers
  <1>2. Statements[2] \in Schema
    BY <1>1, StatementKinds
  <1>3. \A p \in Processes : DatabaseInv /\ pc[p] = Statements[4] => Statements[2] \in tables
    BY <1>1, <1>2, TableBehind
  <1>4. QED
    BY <1>3, StatementNumbers

LEMMA DatabaseInit == Init => DatabaseInv
  <1> SUFFICES ASSUME Init PROVE DatabaseInv
    OBVIOUS
  <1>1. TypeOK
    BY KillsAssumption DEF Init, TypeOK, Schema, OldSchema, Places
  <1>2. CreatedBehind
    BY StatementKinds DEF Init, CreatedBehind
  <1>3. MigratedMeanwhile /\ FailureExplained
    BY DEF Init, MigratedMeanwhile, FailureExplained
  <1>4. QED
    BY <1>1, <1>2, <1>3 DEF DatabaseInv

\* A process goes to a statement before which no table is created, or to none.
LEMMA RestartInv ==
    ASSUME DatabaseInv, NEW p \in Processes, NEW place \in {Statements[1], "down"},
           pc' = [pc EXCEPT ![p] = place], kills' \in 0 .. MaxKills,
           UNCHANGED <<tables, role_column, migrated_by>>
    PROVE  DatabaseInv'
  <1>1. place \in Places /\ place # "failed" /\ place # "ALTER TABLE users ADD COLUMN role"
    <2>1. 1 \in Numbers
      BY DEF Numbers
    <2>2. place \in Places
      BY <2>1, PlacesAre
    <2>3. QED
      BY <2>2, StatementNumbers
  <1>2. TypeOK'
    BY <1>1 DEF DatabaseInv, TypeOK
  <1>3. \A k \in Numbers : place = Statements[k] => k = 1
    BY StatementsDistinct, StatementKinds DEF Numbers
  <1>4. CreatedBehind'
    BY <1>3 DEF DatabaseInv, TypeOK, CreatedBehind, Numbers
  <1>5. MigratedMeanwhile' /\ FailureExplained'
    BY <1>1 DEF DatabaseInv, TypeOK, MigratedMeanwhile, FailureExplained
  <1>6. QED
    BY <1>2, <1>4, <1>5 DEF DatabaseInv

LEMMA CreateTableInv ==
    ASSUME DatabaseInv, NEW p \in Processes, CreateTable(p)
    PROVE  DatabaseInv'
  <1>1. PICK t \in Schema :
            /\ pc[p] = t
            /\ tables' = tables \cup {t}
            /\ role_column' = (role_column \/ (t = "users" /\ t \notin tables))
            /\ Advance(p, 1)
            /\ UNCHANGED <<kills, migrated_by>>
    BY DEF CreateTable
  <1>2. PICK k \in Numbers : t = Statements[k] /\ k \notin {3, 4, 11}
    <2>1. t \in Places /\ t \notin {"down", "failed"}
      BY <1>1 DEF DatabaseInv, TypeOK, Schema
    <2>2. QED
      BY <2>1, PlacesAre, StatementKinds
  <1>3. pc' = [pc EXCEPT ![p] = Statements[k + 1]] /\ k + 1 \in Numbers
    BY <1>1, <1>2, Advances DEF Numbers
  <1>4. Statements[k + 1] \in Places \ {"failed", "ALTER TABLE users ADD COLUMN role"}
    <2>1. Statements[k + 1] \in Places \ {"failed"}
      BY <1>3, PlacesAre, StatementKinds
    <2>2. 4 \in Numbers /\ k + 1 # 4
      BY <1>2 DEF Numbers
    <2>3. Statements[k + 1] # Statements[4]
      BY <1>3, <2>2, StatementsDistinct
    <2>4. QED
      BY <2>1, <2>3, StatementNumbers
  <1>5. TypeOK'
    BY <1>1, <1>3, <1>4 DEF DatabaseInv, TypeOK
  <1>6. CreatedBehind'
    <2> SUFFICES ASSUME NEW q \in Processes, NEW l \in Numbers, pc'[q] = Statements[l]
                 PROVE  /\ \A j \in Numbers : j < l /\ Statements[j] \in Schema
                                                => Statements[j] \in tables'
                        /\ l >= 5 => role_column'
      BY DEF CreatedBehind
    <2>1. CASE q = p
      <3>1. l = k + 1
        BY <1>3, <2>1, StatementsDistinct DEF DatabaseInv, TypeOK
      <3>2. \A j \in Numbers : j < k /\ Statements[j] \in Schema => Statements[j] \in tables
        BY <1>1, <1>2 DEF DatabaseInv, CreatedBehind
      <3>3. k >= 5 => role_column
        BY <1>1, <1>2 DEF DatabaseInv, CreatedBehind
      <3>4. \A j \in Numbers : j < l => j < k \/ j = k
        BY <3>1 DEF Numbers
      <3>5. l >= 5 => k >= 5
        BY <3>1, <1>2 DEF Numbers
      <3>6. QED
        BY <3>2, <3>3, <3>4, <3>5, <1>1, <1>2
    <2>2. CASE q # p
      BY <1>1, <1>3, <2>2 DEF DatabaseInv, TypeOK, CreatedBehind
    <2>3. QED
      BY <2>1, <2>2
  <1>7. MigratedMeanwhile'
    <2> SUFFICES ASSUME NEW q \in Processes, role_column',
                        pc'[q] = "ALTER TABLE users ADD COLUMN role"
                 PROVE  migrated_by' \ {q} # {}
      BY DEF MigratedMeanwhile
    <2>1. q # p /\ pc[q] = "ALTER TABLE users ADD COLUMN role"
      BY <1>3, <1>4 DEF DatabaseInv, TypeOK
    <2>2. "users" \in tables
      BY <2>1, UsersBehind
    <2>3. QED
      BY <1>1, <2>1, <2>2, StatementNumbers DEF DatabaseInv, MigratedMeanwhile
  <1>8. FailureExplained'
    BY <1>1, <1>3, <1>4 DEF DatabaseInv, TypeOK, FailureExplained
  <1>9. QED
    BY <1>5, <1>6, <1>7, <1>8 DEF DatabaseInv

LEMMA ReadColumnsInv ==
    ASSUME DatabaseInv, NEW p \in Processes, ReadColumns(p)
    PROVE  DatabaseInv'
  <1>1. 3 \in Numbers /\ 4 \in Numbers /\ 5 \in Numbers
    BY DEF Numbers
  <1>2. PICK l \in {4, 5} :
            /\ pc' = [pc EXCEPT ![p] = Statements[l]]
            /\ l = 5 <=> role_column
    <2>1. CASE role_column
      <3>1. pc' = [pc EXCEPT ![p] = Statements[3 + 2]]
        BY <1>1, <2>1, Advances, StatementNumbers DEF ReadColumns
      <3>2. QED
        BY <2>1, <3>1
    <2>2. CASE ~role_column
      <3>1. pc' = [pc EXCEPT ![p] = Statements[3 + 1]]
        BY <1>1, <2>2, Advances, StatementNumbers DEF ReadColumns
      <3>2. QED
        BY <2>2, <3>1
    <2>3. QED
      BY <2>1, <2>2
  <1>3. l \in Numbers /\ Statements[l] \in Places \ {"failed"}
    BY <1>1, PlacesAre, StatementKinds
  <1>4. TypeOK'
    BY <1>2, <1>3 DEF ReadColumns, DatabaseInv, TypeOK
  <1>5. CreatedBehind'
    <2> SUFFICES ASSUME NEW q \in Processes, NEW m \in Numbers, pc'[q] = Statements[m]
                 PROVE  /\ \A j \in Numbers : j < m /\ Statements[j] \in Schema
                                                => Statements[j] \in tables'
                        /\ m >= 5 => role_column'
      BY DEF CreatedBehind
    <2>1. CASE q = p
      <3>1. m = l
        BY <1>2, <1>3, <2>1, StatementsDistinct DEF DatabaseInv, TypeOK
      <3>2. \A j \in Numbers : j < 3 /\ Statements[j] \in Schema => Statements[j] \in tables
        BY <1>1, StatementNumbers DEF ReadColumns, DatabaseInv, CreatedBehind
      <3>3. \A j \in Numbers : j < m /\ Statements[j] \in Schema => j < 3
        BY <3>1, <1>2, StatementKinds DEF Numbers
      <3>4. m >= 5 => role_column
        BY <3>1, <1>2
      <3>5. UNCHANGED <<tables, role_column>>
        BY DEF ReadColumns
      <3>6. QED
        BY <3>2, <3>3, <3>4, <3>5
    <2>2. CASE q # p
      BY <1>2, <2>2 DEF ReadColumns, DatabaseInv, TypeOK, CreatedBehind
    <2>3. QED
      BY <2>1, <2>2
  <1>6. MigratedMeanwhile'
    <2>1. l = 5 => Statements[l] # "ALTER TABLE users ADD COLUMN role"
      BY <1>1, StatementsDistinct, StatementNumbers
    <2>2. QED
      BY <1>2, <2>1 DEF ReadColumns, DatabaseInv, TypeOK, MigratedMeanwhile
  <1>7. FailureExplained'
    BY <1>2, <1>3 DEF ReadColumns, DatabaseInv, TypeOK, FailureExplained
  <1>8. QED
    BY <1>4, <1>5, <1>6, <1>7 DEF DatabaseInv

LEMMA AddColumnInv ==
    ASSUME DatabaseInv, NEW p \in Processes, AddColumn(p)
    PROVE  DatabaseInv'
  <1>1. 4 \in Numbers /\ 5 \in Numbers
    BY DEF Numbers
  <1>2. PICK place \in {Statements[5], "failed"} :
            /\ pc' = [pc EXCEPT ![p] = place]
            /\ \/ role_column /\ place = "failed" /\ migrated_by' = migrated_by
               \/ ~role_column /\ place = Statements[5] /\ migrated_by' = migrated_by \cup {p}
    <2>1. CASE role_column
      <3>1. pc' = [pc EXCEPT ![p] = "failed"] /\ migrated_by' = migrated_by
        BY <2>1 DEF AddColumn
      <3>2. QED
        BY <2>1, <3>1
    <2>2. CASE ~role_column
      <3>1. Advance(p, 1) /\ migrated_by' = migrated_by \cup {p}
        BY <2>2 DEF AddColumn
      <3>2. pc' = [pc EXCEPT ![p] = Statements[4 + 1]]
        BY <1>1, <3>1, Advances, StatementNumbers DEF AddColumn
      <3>3. QED
        BY <2>2, <3>1, <3>2
    <2>3. QED
      BY <2>1, <2>2
  <1>3. place \in Places /\ place # "ALTER TABLE users ADD COLUMN role"
    BY <1>1, PlacesAre, StatementNumbers
  <1>4. "users" \in tables
    BY UsersBehind DEF AddColumn
  <1>5. TypeOK'
    BY <1>2, <1>3, <1>4 DEF AddColumn, DatabaseInv, TypeOK
  <1>6. CreatedBehind'
    <2> SUFFICES ASSUME NEW q \in Processes, NEW m \in Numbers, pc'[q] = Statements[m]
                 PROVE  /\ \A j \in Numbers : j < m /\ Statements[j] \in Schema
                                                => Statements[j] \in tables'
                        /\ m >= 5 => role_column'
      BY DEF CreatedBehind
    <2>1. CASE q = p
      <3>1. m = 5
        BY <1>1, <1>2, <2>1, StatementsDistinct, StatementKinds DEF DatabaseInv, TypeOK
      <3>2. \A j \in Numbers : j < 4 /\ Statements[j] \in Schema => Statements[j] \in tables
        BY <1>1, StatementNumbers DEF AddColumn, DatabaseInv, CreatedBehind
      <3>3. \A j \in Numbers : j < m /\ Statements[j] \in Schema => j < 4
        BY <3>1, StatementKinds DEF Numbers
      <3>4. QED
        BY <3>2, <3>3 DEF AddColumn
    <2>2. CASE q # p
      BY <1>2, <2>2 DEF AddColumn, DatabaseInv, TypeOK, CreatedBehind
    <2>3. QED
      BY <2>1, <2>2
  <1>7. MigratedMeanwhile'
    <2> SUFFICES ASSUME NEW q \in Processes, pc'[q] = "ALTER TABLE users ADD COLUMN role"
                 PROVE  migrated_by' \ {q} # {}
      BY DEF MigratedMeanwhile
    <2>1. q # p /\ pc[q] = "ALTER TABLE users ADD COLUMN role"
      BY <1>2, <1>3 DEF DatabaseInv, TypeOK
    <2>2. QED
      BY <1>2, <2>1 DEF DatabaseInv, MigratedMeanwhile
  <1>8. FailureExplained'
    <2> SUFFICES ASSUME NEW q \in Processes, pc'[q] = "failed"
                 PROVE  role_column' /\ migrated_by' \ {q} # {}
      BY DEF FailureExplained
    <2>1. CASE q = p
      <3>1. place = "failed"
        BY <1>2, <2>1 DEF DatabaseInv, TypeOK
      <3>2. role_column
        BY <1>1, <1>2, <3>1, StatementKinds
      <3>3. QED
        BY <1>2, <2>1, <3>2 DEF AddColumn, DatabaseInv, MigratedMeanwhile
    <2>2. CASE q # p
      BY <1>2, <2>2 DEF AddColumn, DatabaseInv, TypeOK, FailureExplained
    <2>3. QED
      BY <2>1, <2>2
  <1>9. QED
    BY <1>5, <1>6, <1>7, <1>8 DEF DatabaseInv

LEMMA StepInv ==
    ASSUME DatabaseInv, NEW p \in Processes, Step(p)
    PROVE  DatabaseInv'
  BY CreateTableInv, ReadColumnsInv, AddColumnInv DEF Step

LEMMA StartInv ==
    ASSUME DatabaseInv, NEW p \in Processes, Start(p)
    PROVE  DatabaseInv'
  <1>1. pc' = [pc EXCEPT ![p] = Statements[1]]
    BY DEF Start, Statements
  <1>2. QED
    BY <1>1, RestartInv DEF Start, DatabaseInv, TypeOK

LEMMA KillInv ==
    ASSUME DatabaseInv, NEW p \in Processes, Kill(p)
    PROVE  DatabaseInv'
  <1>1. kills' \in 0 .. MaxKills
    BY KillsAssumption DEF Kill, DatabaseInv, TypeOK
  <1>2. QED
    BY <1>1, RestartInv DEF Kill

-----------------------------------------------------------------------------
(***************************************************************************)
(* The rows of the seed.                                                   *)
(***************************************************************************)
UserGood(j) ==
    /\ SeedUsers[j].id \in DOMAIN users
    /\ users[SeedUsers[j].id] = [role |-> SeedUsers[j].role, is_active |-> TRUE]

TokenGood(j) ==
    /\ SeedUsers[j].token \in DOMAIN api_tokens
    /\ api_tokens[SeedUsers[j].token] =
          [user_id |-> SeedUsers[j].id, token |-> SeedUsers[j].token, is_active |-> TRUE]

AssociationGood(j) ==
    SeedUsers[j].role # "admin" => <<Admin, SeedUsers[j].id>> \in admin_user_associations

ModelGood(j) == SeedModels[j] \in model_allowlist

AllGood ==
    /\ \A j \in DOMAIN SeedUsers : UserGood(j) /\ TokenGood(j) /\ AssociationGood(j)
    /\ \A j \in DOMAIN SeedModels : ModelGood(j)

\* What a run at a place has written.
UserBehind(at, j) ==
    \/ at.loop = "users" /\ j < at.k
    \/ at.loop \in {"tokens", "raised"} /\ j <= at.k
    \/ at.loop \in {"associations", "models", "done"}

TokenBehind(at, j) ==
    \/ at.loop \in {"users", "tokens", "raised"} /\ j < at.k
    \/ at.loop \in {"associations", "models", "done"}

AssociationBehind(at, j) ==
    (at.loop = "associations" /\ j < at.k) \/ at.loop \in {"models", "done"}

ModelBehind(at, j) == (at.loop = "models" /\ j < at.k) \/ at.loop = "done"

\* A run that no edit has interfered with finds what it has written.
Written(at) ==
    /\ \A j \in DOMAIN SeedUsers :
          /\ UserBehind(at, j) => UserGood(j)
          /\ TokenBehind(at, j) => TokenGood(j)
          /\ AssociationBehind(at, j) => AssociationGood(j)
    /\ \A j \in DOMAIN SeedModels : ModelBehind(at, j) => ModelGood(j)

\* Any run finds the users it has written, in whatever state.
UsersThere(at) ==
    \A j \in DOMAIN SeedUsers : UserBehind(at, j) => SeedUsers[j].id \in DOMAIN users

\* A run counts within the lists of the seed.
PlaceOK(at) ==
    /\ at \in [loop : Loops, k : Nat \ {0}]
    /\ at.loop \in {"users", "tokens", "raised", "associations"} => at.k \in DOMAIN SeedUsers
    /\ at.loop = "models" => at.k \in DOMAIN SeedModels

\* A row holds the token under an id that is none of the seed's.
HeldElsewhere(token) ==
    \E i \in DOMAIN api_tokens \ {SeedUsers[k].token : k \in DOMAIN SeedUsers} :
        api_tokens[i].token = token

\* A row under an id of the seed holds that token.
OwnIds ==
    \A k \in DOMAIN SeedUsers : SeedUsers[k].token \in DOMAIN api_tokens =>
        api_tokens[SeedUsers[k].token].token = SeedUsers[k].token

WrittenBehind ==
    /\ \A p \in Processes : PlaceOK(seed[p]) /\ UsersThere(seed[p])
    /\ \A p \in Processes : pc[p] # "ready" \/ p \notin Seeders => seed[p] = At("users", 1)
    /\ \A p \in clean : Written(seed[p])
    /\ seeded => AllGood

SeedInv ==
    /\ DatabaseInv /\ SeedTypeOK /\ ReferencesHold
    /\ OwnIds /\ WrittenBehind /\ SeedsDoNotCollide

LEMMA SeedSizes ==
    /\ Len(SeedUsers) \in Nat \ {0} /\ DOMAIN SeedUsers = 1 .. Len(SeedUsers)
    /\ Len(SeedModels) \in Nat \ {0} /\ DOMAIN SeedModels = 1 .. Len(SeedModels)
    /\ \A k \in DOMAIN SeedUsers :
          SeedUsers[k] \in [id : UserIds, role : Roles, token : Tokens]
    /\ \A k \in DOMAIN SeedModels : SeedModels[k] \in ModelIds
  <1>1. /\ Len(SeedUsers) \in Nat \ {0} /\ DOMAIN SeedUsers = 1 .. Len(SeedUsers)
        /\ \A k \in DOMAIN SeedUsers :
              SeedUsers[k] \in [id : UserIds, role : Roles, token : Tokens]
    BY SeedUsersAssumption, EmptySeq, LenProperties, ElementOfSeq
  <1>2. /\ Len(SeedModels) \in Nat \ {0} /\ DOMAIN SeedModels = 1 .. Len(SeedModels)
        /\ \A k \in DOMAIN SeedModels : SeedModels[k] \in ModelIds
    BY SeedModelsAssumption, EmptySeq, LenProperties, ElementOfSeq
  <1>3. QED
    BY <1>1, <1>2

\* A run that has just begun has written nothing.
LEMMA BeginsEmpty ==
    PlaceOK(At("users", 1)) /\ UsersThere(At("users", 1)) /\ Written(At("users", 1))
  <1>1. At("users", 1).loop = "users" /\ At("users", 1).k = 1
    BY DEF At
  <1>2. PlaceOK(At("users", 1))
    BY SeedSizes DEF PlaceOK, At, Loops
  <1>3. \A j \in DOMAIN SeedUsers : ~(j < 1)
    BY SeedSizes
  <1>4. \A j \in DOMAIN SeedUsers : /\ ~UserBehind(At("users", 1), j)
                                    /\ ~TokenBehind(At("users", 1), j)
                                    /\ ~AssociationBehind(At("users", 1), j)
    BY <1>1, <1>3 DEF UserBehind, TokenBehind, AssociationBehind
  <1>5. \A j \in DOMAIN SeedModels : ~ModelBehind(At("users", 1), j)
    BY <1>1 DEF ModelBehind
  <1>6. QED
    BY <1>2, <1>4, <1>5 DEF UsersThere, Written

-----------------------------------------------------------------------------
(***************************************************************************)
(* What a step may do to the rows: nothing that is good goes bad.          *)
(***************************************************************************)
KeepsReferences ==
    /\ AccessTypeOK' /\ TokensUnique' /\ ReferencesHold' /\ OwnIds'
    /\ DOMAIN users \subseteq DOMAIN users'
    /\ \A token : HeldElsewhere(token) => HeldElsewhere(token)'

KeepsGood ==
    /\ \A j \in DOMAIN SeedUsers :
          /\ UserGood(j) => UserGood(j)'
          /\ TokenGood(j) => TokenGood(j)'
          /\ AssociationGood(j) => AssociationGood(j)'
    /\ \A j \in DOMAIN SeedModels : ModelGood(j) => ModelGood(j)'

Keeps == KeepsReferences /\ KeepsGood

LEMMA SameRowsKeep ==
    ASSUME SeedInv, UNCHANGED accessVars
    PROVE  Keeps
  <1>1. AccessTypeOK' /\ TokensUnique' /\ ReferencesHold' /\ OwnIds'
    BY DEF accessVars, SeedInv, SeedTypeOK, AccessTypeOK, TokensUnique, ReferencesHold, OwnIds
  <1>2. QED
    BY <1>1 DEF accessVars, Keeps, KeepsReferences, KeepsGood, UserGood, TokenGood, AssociationGood, ModelGood, HeldElsewhere

LEMMA UpsertUserKeeps ==
    ASSUME SeedInv, NEW k \in DOMAIN SeedUsers,
           UpsertUser(SeedUsers[k].id, SeedUsers[k].role)
    PROVE  Keeps /\ UserGood(k)'
  <1> DEFINE u == SeedUsers[k].id
             row == [role |-> SeedUsers[k].role, is_active |-> TRUE]
  <1>1. /\ users' = [x \in DOMAIN users \cup {u} |-> IF x = u THEN row ELSE users[x]]
        /\ UNCHANGED <<api_tokens, admin_user_associations, model_allowlist>>
    BY DEF UpsertUser, Put
  <1>2. u \in UserIds /\ row \in UserRow
    BY SeedSizes DEF UserRow
  <1>3. AccessTypeOK'
    BY <1>1, <1>2 DEF SeedInv, SeedTypeOK, AccessTypeOK
  <1>4. TokensUnique' /\ ReferencesHold' /\ OwnIds'
    BY <1>1 DEF SeedInv, SeedTypeOK, TokensUnique, ReferencesHold, OwnIds
  <1>5. \A j \in DOMAIN SeedUsers : UserGood(j) => UserGood(j)'
    <2> SUFFICES ASSUME NEW j \in DOMAIN SeedUsers, UserGood(j) PROVE UserGood(j)'
      OBVIOUS
    <2>1. SeedUsers[j].id = u => j = k
      BY SeedDistinctAssumption
    <2>2. QED
      BY <1>1, <2>1 DEF UserGood
  <1>6. UserGood(k)'
    BY <1>1 DEF UserGood
  <1>7. QED
    BY <1>1, <1>3, <1>4, <1>5, <1>6
       DEF Keeps, KeepsReferences, KeepsGood, TokenGood, AssociationGood, ModelGood, HeldElsewhere

LEMMA UpsertTokenKeeps ==
    ASSUME SeedInv, NEW k \in DOMAIN SeedUsers, SeedUsers[k].id \in DOMAIN users,
           UpsertApiToken(SeedUsers[k].token, SeedUsers[k].id, SeedUsers[k].token)
    PROVE  Keeps /\ TokenGood(k)'
  <1> DEFINE u == SeedUsers[k].id
             t == SeedUsers[k].token
             row == [user_id |-> u, token |-> t, is_active |-> TRUE]
  <1>1. /\ api_tokens' = [x \in DOMAIN api_tokens \cup {t} |-> IF x = t THEN row ELSE api_tokens[x]]
        /\ UNCHANGED <<users, admin_user_associations, model_allowlist>>
        /\ \A i \in DOMAIN api_tokens \ {t} : api_tokens[i].token # t
    BY DEF UpsertApiToken, Put, TokenTaken
  <1>2. t \in TokenIds /\ row \in TokenRow
    BY SeedSizes, SeedTokensAssumption DEF TokenRow
  <1>3. AccessTypeOK'
    BY <1>1, <1>2 DEF SeedInv, SeedTypeOK, AccessTypeOK
  <1>4. TokensUnique'
    BY <1>1 DEF SeedInv, SeedTypeOK, TokensUnique
  <1>5. ReferencesHold' /\ OwnIds'
    BY <1>1 DEF SeedInv, ReferencesHold, OwnIds
  <1>6. \A j \in DOMAIN SeedUsers : TokenGood(j) => TokenGood(j)'
    <2> SUFFICES ASSUME NEW j \in DOMAIN SeedUsers, TokenGood(j) PROVE TokenGood(j)'
      OBVIOUS
    <2>1. SeedUsers[j].token = t => j = k
      BY SeedDistinctAssumption
    <2>2. QED
      BY <1>1, <2>1 DEF TokenGood
  <1>7. \A token : HeldElsewhere(token) => HeldElsewhere(token)'
    BY <1>1 DEF HeldElsewhere
  <1>8. TokenGood(k)'
    BY <1>1 DEF TokenGood
  <1>9. QED
    BY <1>1, <1>3, <1>4, <1>5, <1>6, <1>7, <1>8
       DEF Keeps, KeepsReferences, KeepsGood, UserGood, AssociationGood, ModelGood

LEMMA UpsertAssociationKeeps ==
    ASSUME SeedInv, NEW k \in DOMAIN SeedUsers, SeedUsers[k].id \in DOMAIN users,
           Admin \in DOMAIN users, UpsertAdminUserAssociation(Admin, SeedUsers[k].id)
    PROVE  Keeps /\ AssociationGood(k)'
  <1>1. /\ admin_user_associations' = admin_user_associations \cup {<<Admin, SeedUsers[k].id>>}
        /\ UNCHANGED <<users, api_tokens, model_allowlist>>
    BY DEF UpsertAdminUserAssociation
  <1>2. Admin \in UserIds
    BY DEF SeedInv, SeedTypeOK, AccessTypeOK
  <1>3. AccessTypeOK' /\ TokensUnique'
    BY <1>1, <1>2, SeedSizes DEF SeedInv, SeedTypeOK, AccessTypeOK, TokensUnique
  <1>4. ReferencesHold' /\ OwnIds'
    BY <1>1 DEF SeedInv, ReferencesHold, OwnIds
  <1>5. QED
    BY <1>1, <1>3, <1>4
       DEF Keeps, KeepsReferences, KeepsGood, UserGood, TokenGood, AssociationGood, ModelGood,
           HeldElsewhere

LEMMA UpsertModelKeeps ==
    ASSUME SeedInv, NEW k \in DOMAIN SeedModels, UpsertAllowedModel(SeedModels[k])
    PROVE  Keeps /\ ModelGood(k)'
  <1>1. /\ model_allowlist' = model_allowlist \cup {SeedModels[k]}
        /\ UNCHANGED <<users, api_tokens, admin_user_associations>>
    BY DEF UpsertAllowedModel
  <1>2. AccessTypeOK' /\ TokensUnique' /\ ReferencesHold' /\ OwnIds'
    BY <1>1, SeedSizes
       DEF SeedInv, SeedTypeOK, AccessTypeOK, TokensUnique, ReferencesHold, OwnIds
  <1>3. QED
    BY <1>1, <1>2
       DEF Keeps, KeepsReferences, KeepsGood, UserGood, TokenGood, AssociationGood, ModelGood,
           HeldElsewhere

\* Switching a row off leaves what refers to it.
LEMMA DeactivateKeeps ==
    ASSUME SeedInv, Deactivate
    PROVE  KeepsReferences
  <1>1. CASE /\ \E u \in DOMAIN users : users' = [users EXCEPT ![u].is_active = FALSE]
             /\ UNCHANGED <<api_tokens, admin_user_associations, model_allowlist>>
    <2>1. PICK u \in DOMAIN users : users' = [users EXCEPT ![u].is_active = FALSE]
      BY <1>1
    <2>2. users' = [x \in DOMAIN users |-> IF x = u THEN [users[u] EXCEPT !.is_active = FALSE]
                                                     ELSE users[x]]
      BY <2>1
    <2>3. \A x \in DOMAIN users : users'[x] \in UserRow
      BY <2>2 DEF SeedInv, SeedTypeOK, AccessTypeOK, UserRow
    <2>4. QED
      BY <1>1, <2>2, <2>3 DEF SeedInv, SeedTypeOK, AccessTypeOK, TokensUnique, ReferencesHold,
                              OwnIds, HeldElsewhere, KeepsReferences
  <1>2. CASE /\ \E i \in DOMAIN api_tokens : api_tokens' = [api_tokens EXCEPT ![i].is_active = FALSE]
             /\ UNCHANGED <<users, admin_user_associations, model_allowlist>>
    <2>1. PICK i \in DOMAIN api_tokens : api_tokens' = [api_tokens EXCEPT ![i].is_active = FALSE]
      BY <1>2
    <2>2. api_tokens' = [x \in DOMAIN api_tokens |->
                            IF x = i THEN [api_tokens[i] EXCEPT !.is_active = FALSE]
                                     ELSE api_tokens[x]]
      BY <2>1
    <2>3. \A x \in DOMAIN api_tokens :
             /\ api_tokens'[x] \in TokenRow
             /\ api_tokens'[x].token = api_tokens[x].token
             /\ api_tokens'[x].user_id = api_tokens[x].user_id
      BY <2>2 DEF SeedInv, SeedTypeOK, AccessTypeOK, TokenRow
    <2>4. AccessTypeOK'
      BY <1>2, <2>2, <2>3 DEF SeedInv, SeedTypeOK, AccessTypeOK
    <2>5. TokensUnique' /\ ReferencesHold' /\ OwnIds'
      BY <1>2, <2>2, <2>3 DEF SeedInv, SeedTypeOK, TokensUnique, ReferencesHold, OwnIds
    <2>6. \A token : HeldElsewhere(token) => HeldElsewhere(token)'
      BY <2>2, <2>3 DEF HeldElsewhere
    <2>7. QED
      BY <1>2, <2>4, <2>5, <2>6 DEF KeepsReferences
  <1>3. QED
    BY <1>1, <1>2 DEF Deactivate

-----------------------------------------------------------------------------
(***************************************************************************)
(* The steps.                                                              *)
(***************************************************************************)
LEMMA SameDatabase ==
    ASSUME DatabaseInv, UNCHANGED dbVars
    PROVE  DatabaseInv'
  BY DEF dbVars, DatabaseInv, TypeOK, CreatedBehind, MigratedMeanwhile, FailureExplained

LEMMA WrittenStays ==
    ASSUME Keeps, NEW at, Written(at)
    PROVE  Written(at)'
  BY DEF Keeps, KeepsGood, Written

LEMMA UsersStay ==
    ASSUME KeepsReferences, NEW at, UsersThere(at)
    PROVE  UsersThere(at)'
  BY DEF KeepsReferences, UsersThere

LEMMA GoodStays ==
    ASSUME Keeps, AllGood
    PROVE  AllGood'
  BY DEF Keeps, KeepsGood, AllGood

\* A run of the seed goes from one place to another.
LEMMA GoesInv ==
    ASSUME SeedInv, NEW p \in Seeders, pc[p] = "ready",
           UNCHANGED dbVars, UNCHANGED <<edits, clean>>, Keeps,
           NEW at, seed' = [seed EXCEPT ![p] = at], PlaceOK(at), UsersThere(at)',
           p \in clean => Written(at)',
           seeded' \in BOOLEAN, seeded' => AllGood',
           at.loop = "raised" => HeldElsewhere(SeedUsers[at.k].token)
    PROVE  SeedInv'
  <1>1. p \in Processes
    BY SeedersAssumption
  <1>2. DatabaseInv'
    BY SameDatabase DEF SeedInv
  <1>3. seed \in [Processes -> [loop : Loops, k : Nat \ {0}]]
    BY DEF SeedInv, SeedTypeOK
  <1>4. \A q \in Processes : seed'[q] = IF q = p THEN at ELSE seed[q]
    BY <1>1, <1>3
  <1>5. SeedTypeOK'
    <2>1. seed' \in [Processes -> [loop : Loops, k : Nat \ {0}]]
      BY <1>1, <1>3 DEF PlaceOK
    <2>2. QED
      BY <1>2, <2>1 DEF SeedInv, SeedTypeOK, DatabaseInv, Keeps, KeepsReferences
  <1>6. WrittenBehind'
    <2>1. \A q \in Processes : PlaceOK(seed'[q])
      BY <1>4 DEF SeedInv, WrittenBehind
    <2>2. ASSUME NEW q \in Processes PROVE UsersThere(seed[q])'
      <3>1. CASE q = p
        BY <1>4, <3>1 DEF UsersThere
      <3>2. CASE q # p
        BY <1>4, <3>2 DEF SeedInv, WrittenBehind, UsersThere, Keeps, KeepsReferences
      <3>3. QED
        BY <3>1, <3>2
    <2>3. \A q \in Processes : pc'[q] # "ready" \/ q \notin Seeders => seed'[q] = At("users", 1)
      BY <1>4 DEF SeedInv, WrittenBehind, dbVars
    <2>4. ASSUME NEW q \in clean' PROVE Written(seed[q])'
      <3>1. q \in Processes /\ q \in clean
        BY SeedersAssumption DEF SeedInv, SeedTypeOK
      <3>2. CASE q = p
        BY <1>4, <3>1, <3>2 DEF Written
      <3>3. CASE q # p
        BY <1>4, <3>1, <3>3 DEF SeedInv, WrittenBehind, Written, Keeps, KeepsGood
      <3>4. QED
        BY <3>2, <3>3
    <2>5. QED
      BY <2>1, <2>2, <2>3, <2>4 DEF WrittenBehind, PlaceOK
  <1>7. SeedsDoNotCollide'
    <2>1. \A q \in Seeders : seed'[q].loop = "raised" =>
              HeldElsewhere(SeedUsers[seed'[q].k].token)
      BY <1>4, SeedersAssumption DEF SeedInv, SeedsDoNotCollide, HeldElsewhere
    <2>2. QED
      BY <2>1 DEF Keeps, KeepsReferences, HeldElsewhere, SeedsDoNotCollide
  <1>8. QED
    BY <1>2, <1>5, <1>6, <1>7 DEF SeedInv, Keeps, KeepsReferences

\* It is enough that what lies behind it has been there or is written now.
LEMMA ReachesInv ==
    ASSUME SeedInv, NEW p \in Seeders, pc[p] = "ready",
           UNCHANGED dbVars, UNCHANGED <<edits, clean>>, Keeps,
           NEW at, seed' = [seed EXCEPT ![p] = at], PlaceOK(at),
           \A j \in DOMAIN SeedUsers :
               /\ UserBehind(at, j) => UserBehind(seed[p], j) \/ UserGood(j)'
               /\ TokenBehind(at, j) => TokenBehind(seed[p], j) \/ TokenGood(j)'
               /\ AssociationBehind(at, j) => AssociationBehind(seed[p], j) \/ AssociationGood(j)',
           \A j \in DOMAIN SeedModels : ModelBehind(at, j) => ModelBehind(seed[p], j) \/ ModelGood(j)',
           seeded' = seeded \/ (at.loop = "done" /\ seeded' = (seeded \/ p \in clean)),
           at.loop = "raised" => HeldElsewhere(SeedUsers[at.k].token)
    PROVE  SeedInv'
  <1>1. p \in Processes
    BY SeedersAssumption
  <1>2. UsersThere(at)'
    BY <1>1 DEF SeedInv, WrittenBehind, UsersThere, Keeps, KeepsReferences, UserGood
  <1>3. p \in clean => Written(at)'
    BY <1>1 DEF SeedInv, WrittenBehind, Written, Keeps, KeepsGood
  <1>4. at.loop = "done" /\ p \in clean => AllGood'
    BY <1>3 DEF Written, AllGood, UserBehind, TokenBehind, AssociationBehind, ModelBehind
  <1>5. seeded => AllGood'
    BY GoodStays DEF SeedInv, WrittenBehind
  <1>6. seeded \in BOOLEAN
    BY DEF SeedInv, SeedTypeOK
  <1>7. CASE seeded' = seeded
    BY <1>2, <1>3, <1>5, <1>6, <1>7, GoesInv
  <1>8. CASE at.loop = "done" /\ seeded' = (seeded \/ p \in clean)
    <2>1. seeded' \in BOOLEAN
      BY <1>8
    <2>2. seeded' => seeded \/ p \in clean
      BY <1>8
    <2>3. seeded' => AllGood'
      BY <1>4, <1>5, <1>8, <2>2
    <2>4. QED
      BY <1>2, <1>3, <2>1, <2>3, GoesInv
  <1>9. QED
    BY <1>7, <1>8

\* What the loops need to know of the places around them.
LEMMA NextPlaces ==
    ASSUME NEW k \in DOMAIN SeedUsers
    PROVE  /\ PlaceOK(At("tokens", k)) /\ PlaceOK(At("raised", k))
           /\ k < Len(SeedUsers) => PlaceOK(At("users", k + 1)) /\ PlaceOK(At("associations", k + 1))
           /\ PlaceOK(At("associations", 1)) /\ PlaceOK(At("models", 1))
           /\ \A j \in DOMAIN SeedUsers : j <= k => j < k \/ j = k
           /\ \A j \in DOMAIN SeedUsers : j < k + 1 => j <= k
           /\ \A j \in DOMAIN SeedUsers : j < k => j <= k
           /\ k = Len(SeedUsers) \/ k < Len(SeedUsers)
           /\ k = Len(SeedUsers) => \A j \in DOMAIN SeedUsers : j <= k
  <1>1. k \in Nat \ {0} /\ k <= Len(SeedUsers) /\ 1 \in Nat \ {0} /\ Len(SeedUsers) \in Nat
    BY SeedSizes
  <1>2. 1 \in DOMAIN SeedUsers /\ 1 \in DOMAIN SeedModels
    BY SeedSizes
  <1>3. k < Len(SeedUsers) => k + 1 \in DOMAIN SeedUsers /\ k + 1 \in Nat \ {0}
    BY <1>1, SeedSizes
  <1>4. PlaceOK(At("tokens", k)) /\ PlaceOK(At("raised", k))
    BY <1>1 DEF PlaceOK, At, Loops
  <1>5. k < Len(SeedUsers) => PlaceOK(At("users", k + 1)) /\ PlaceOK(At("associations", k + 1))
    BY <1>3 DEF PlaceOK, At, Loops
  <1>6. PlaceOK(At("associations", 1)) /\ PlaceOK(At("models", 1))
    BY <1>1, <1>2 DEF PlaceOK, At, Loops
  <1>7. /\ \A j \in DOMAIN SeedUsers : j <= k => j < k \/ j = k
        /\ \A j \in DOMAIN SeedUsers : j < k + 1 => j <= k
        /\ \A j \in DOMAIN SeedUsers : j < k => j <= k
        /\ k = Len(SeedUsers) \/ k < Len(SeedUsers)
        /\ k = Len(SeedUsers) => \A j \in DOMAIN SeedUsers : j <= k
    BY <1>1, SeedSizes
  <1>8. QED
    BY <1>4, <1>5, <1>6, <1>7

LEMMA SeedUserInv ==
    ASSUME SeedInv, NEW p \in Processes, SeedUser(p)
    PROVE  SeedInv'
  <1>1. p \in Seeders /\ pc[p] = "ready" /\ seed[p].loop = "users"
    BY DEF SeedUser, Running
  <1>2. PICK k \in DOMAIN SeedUsers : k = seed[p].k
    BY <1>1 DEF SeedInv, WrittenBehind, PlaceOK
  <1>3. /\ UpsertUser(SeedUsers[k].id, SeedUsers[k].role)
        /\ seed' = [seed EXCEPT ![p] = At("tokens", k)]
        /\ UNCHANGED <<dbVars, edits, clean, seeded>>
    BY <1>2 DEF SeedUser, Goes
  <1>4. Keeps /\ UserGood(k)'
    BY <1>3, UpsertUserKeeps
  <1>5. At("tokens", k).loop = "tokens" /\ At("tokens", k).k = k
    BY DEF At
  <1>6. \A j \in DOMAIN SeedUsers :
            /\ UserBehind(At("tokens", k), j) => UserBehind(seed[p], j) \/ UserGood(j)'
            /\ TokenBehind(At("tokens", k), j) => TokenBehind(seed[p], j)
            /\ ~AssociationBehind(At("tokens", k), j)
    BY <1>1, <1>2, <1>4, <1>5, NextPlaces DEF UserBehind, TokenBehind, AssociationBehind
  <1>7. \A j \in DOMAIN SeedModels : ~ModelBehind(At("tokens", k), j)
    BY <1>5 DEF ModelBehind
  <1>8. PlaceOK(At("tokens", k))
    BY NextPlaces
  <1>9. QED
    BY <1>1, <1>3, <1>4, <1>5, <1>6, <1>7, <1>8, ReachesInv

LEMMA SeedTokenInv ==
    ASSUME SeedInv, NEW p \in Processes, SeedToken(p)
    PROVE  SeedInv'
  <1>1. p \in Seeders /\ pc[p] = "ready" /\ seed[p].loop = "tokens"
    BY DEF SeedToken, Running
  <1>2. PICK k \in DOMAIN SeedUsers : k = seed[p].k
    BY <1>1 DEF SeedInv, WrittenBehind, PlaceOK
  <1>3. /\ UpsertApiToken(SeedUsers[k].token, SeedUsers[k].id, SeedUsers[k].token)
        /\ UNCHANGED <<dbVars, edits, clean, seeded>>
    BY <1>2 DEF SeedToken
  <1>4. SeedUsers[k].id \in DOMAIN users
    BY <1>1, <1>2, SeedSizes DEF SeedInv, WrittenBehind, UsersThere, UserBehind
  <1>5. Keeps /\ TokenGood(k)'
    BY <1>3, <1>4, UpsertTokenKeeps
  <1>6. PICK at :
            /\ seed' = [seed EXCEPT ![p] = at] /\ PlaceOK(at)
            /\ \/ k < Len(SeedUsers) /\ at.loop = "users" /\ at.k = k + 1
               \/ k = Len(SeedUsers) /\ at.loop = "associations" /\ at.k = 1
    <2>1. CASE k < Len(SeedUsers)
      <3>1. seed' = [seed EXCEPT ![p] = At("users", k + 1)]
        BY <1>2, <2>1 DEF SeedToken, Goes
      <3>2. PlaceOK(At("users", k + 1))
        BY <2>1, NextPlaces
      <3>3. At("users", k + 1).loop = "users" /\ At("users", k + 1).k = k + 1
        BY DEF At
      <3>4. QED
        BY <2>1, <3>1, <3>2, <3>3
    <2>2. CASE ~(k < Len(SeedUsers))
      <3>1. seed' = [seed EXCEPT ![p] = At("associations", 1)]
        BY <1>2, <2>2 DEF SeedToken, Goes
      <3>2. PlaceOK(At("associations", 1)) /\ k = Len(SeedUsers)
        BY <2>2, NextPlaces
      <3>3. At("associations", 1).loop = "associations" /\ At("associations", 1).k = 1
        BY DEF At
      <3>4. QED
        BY <3>1, <3>2, <3>3
    <2>3. QED
      BY <2>1, <2>2
  <1>7. \A j \in DOMAIN SeedUsers :
            /\ UserBehind(at, j) => UserBehind(seed[p], j)
            /\ TokenBehind(at, j) => TokenBehind(seed[p], j) \/ TokenGood(j)'
            /\ ~AssociationBehind(at, j)
    <2>1. \A j \in DOMAIN SeedUsers : UserBehind(at, j) \/ TokenBehind(at, j) => j <= k
      BY <1>6, NextPlaces DEF UserBehind, TokenBehind
    <2>2. \A j \in DOMAIN SeedUsers : ~(j < 1)
      BY SeedSizes
    <2>3. QED
      BY <1>1, <1>2, <1>5, <1>6, <2>1, <2>2, NextPlaces
         DEF UserBehind, TokenBehind, AssociationBehind
  <1>8. \A j \in DOMAIN SeedModels : ~ModelBehind(at, j)
    BY <1>6 DEF ModelBehind
  <1>9. QED
    BY <1>1, <1>3, <1>5, <1>6, <1>7, <1>8, ReachesInv

LEMMA SeedTokenRaisesInv ==
    ASSUME SeedInv, NEW p \in Processes, SeedTokenRaises(p)
    PROVE  SeedInv'
  <1>1. p \in Seeders /\ pc[p] = "ready" /\ seed[p].loop = "tokens"
    BY DEF SeedTokenRaises, Running
  <1>2. PICK k \in DOMAIN SeedUsers : k = seed[p].k
    BY <1>1 DEF SeedInv, WrittenBehind, PlaceOK
  <1>3. /\ TokenTaken(SeedUsers[k].token, SeedUsers[k].token)
        /\ seed' = [seed EXCEPT ![p] = At("raised", k)]
        /\ UNCHANGED <<dbVars, accessVars, edits, clean, seeded>>
    BY <1>2 DEF SeedTokenRaises, Goes
  <1>4. Keeps
    BY <1>3, SameRowsKeep
  <1>5. At("raised", k).loop = "raised" /\ At("raised", k).k = k
    BY DEF At
  <1>6. HeldElsewhere(SeedUsers[k].token)
    BY <1>3 DEF TokenTaken, HeldElsewhere, SeedInv, OwnIds
  <1>7. \A j \in DOMAIN SeedUsers :
            /\ UserBehind(At("raised", k), j) => UserBehind(seed[p], j)
            /\ TokenBehind(At("raised", k), j) => TokenBehind(seed[p], j)
            /\ ~AssociationBehind(At("raised", k), j)
    BY <1>1, <1>2, <1>5 DEF UserBehind, TokenBehind, AssociationBehind
  <1>8. \A j \in DOMAIN SeedModels : ~ModelBehind(At("raised", k), j)
    BY <1>5 DEF ModelBehind
  <1>9. PlaceOK(At("raised", k))
    BY NextPlaces
  <1>10. QED
    BY <1>1, <1>3, <1>4, <1>5, <1>6, <1>7, <1>8, <1>9, ReachesInv

LEMMA SeedAssociationInv ==
    ASSUME SeedInv, NEW p \in Processes, SeedAssociation(p)
    PROVE  SeedInv'
  <1>1. p \in Seeders /\ pc[p] = "ready" /\ seed[p].loop = "associations"
    BY DEF SeedAssociation, Running
  <1>2. PICK k \in DOMAIN SeedUsers : k = seed[p].k
    BY <1>1 DEF SeedInv, WrittenBehind, PlaceOK
  <1>3. /\ IF SeedUsers[k].role # "admin"
           THEN UpsertAdminUserAssociation(Admin, SeedUsers[k].id)
           ELSE UNCHANGED accessVars
        /\ UNCHANGED <<dbVars, edits, clean, seeded>>
    BY <1>2 DEF SeedAssociation
  <1>4. SeedUsers[k].id \in DOMAIN users /\ Admin \in DOMAIN users
    BY <1>1, SeedDistinctAssumption DEF SeedInv, WrittenBehind, UsersThere, UserBehind
  <1>5. Keeps /\ AssociationGood(k)'
    <2>1. CASE SeedUsers[k].role # "admin"
      BY <1>3, <1>4, <2>1, UpsertAssociationKeeps
    <2>2. CASE SeedUsers[k].role = "admin"
      BY <1>3, <2>2, SameRowsKeep DEF AssociationGood
    <2>3. QED
      BY <2>1, <2>2
  <1>6. PICK at :
            /\ seed' = [seed EXCEPT ![p] = at] /\ PlaceOK(at)
            /\ \/ k < Len(SeedUsers) /\ at.loop = "associations" /\ at.k = k + 1
               \/ k = Len(SeedUsers) /\ at.loop = "models" /\ at.k = 1
    <2>1. CASE k < Len(SeedUsers)
      <3>1. seed' = [seed EXCEPT ![p] = At("associations", k + 1)]
        BY <1>2, <2>1 DEF SeedAssociation, Goes
      <3>2. PlaceOK(At("associations", k + 1))
        BY <2>1, NextPlaces
      <3>3. At("associations", k + 1).loop = "associations" /\ At("associations", k + 1).k = k + 1
        BY DEF At
      <3>4. QED
        BY <2>1, <3>1, <3>2, <3>3
    <2>2. CASE ~(k < Len(SeedUsers))
      <3>1. seed' = [seed EXCEPT ![p] = At("models", 1)]
        BY <1>2, <2>2 DEF SeedAssociation, Goes
      <3>2. PlaceOK(At("models", 1)) /\ k = Len(SeedUsers)
        BY <2>2, NextPlaces
      <3>3. At("models", 1).loop = "models" /\ At("models", 1).k = 1
        BY DEF At
      <3>4. QED
        BY <3>1, <3>2, <3>3
    <2>3. QED
      BY <2>1, <2>2
  <1>7. \A j \in DOMAIN SeedUsers :
            /\ UserBehind(seed[p], j) /\ TokenBehind(seed[p], j)
            /\ AssociationBehind(at, j) => AssociationBehind(seed[p], j) \/ AssociationGood(j)'
    <2>1. \A j \in DOMAIN SeedUsers : AssociationBehind(at, j) => j <= k
      BY <1>6, NextPlaces DEF AssociationBehind
    <2>2. QED
      BY <1>1, <1>2, <1>5, <2>1, NextPlaces DEF UserBehind, TokenBehind, AssociationBehind
  <1>8. \A j \in DOMAIN SeedModels : ~ModelBehind(at, j)
    <2>1. \A j \in DOMAIN SeedModels : ~(j < 1)
      BY SeedSizes
    <2>2. QED
      BY <1>6, <2>1 DEF ModelBehind
  <1>9. at.loop # "raised"
    BY <1>6
  <1>10. QED
    BY <1>1, <1>3, <1>5, <1>6, <1>7, <1>8, <1>9, ReachesInv

LEMMA SeedModelInv ==
    ASSUME SeedInv, NEW p \in Processes, SeedModel(p)
    PROVE  SeedInv'
  <1>1. p \in Seeders /\ pc[p] = "ready" /\ seed[p].loop = "models"
    BY DEF SeedModel, Running
  <1>2. PICK k \in DOMAIN SeedModels : k = seed[p].k
    BY <1>1 DEF SeedInv, WrittenBehind, PlaceOK
  <1>3. UpsertAllowedModel(SeedModels[k]) /\ UNCHANGED <<dbVars, edits, clean>>
    BY <1>2 DEF SeedModel
  <1>4. Keeps /\ ModelGood(k)'
    BY <1>3, UpsertModelKeeps
  <1>5. PICK at :
            /\ seed' = [seed EXCEPT ![p] = at] /\ PlaceOK(at)
            /\ \/ k < Len(SeedModels) /\ at.loop = "models" /\ at.k = k + 1 /\ seeded' = seeded
               \/ k = Len(SeedModels) /\ at.loop = "done" /\ seeded' = (seeded \/ p \in clean)
    <2>1. CASE k < Len(SeedModels)
      <3>1. seed' = [seed EXCEPT ![p] = At("models", k + 1)] /\ seeded' = seeded
        BY <1>2, <2>1 DEF SeedModel, Goes
      <3>2. k + 1 \in DOMAIN SeedModels /\ k + 1 \in Nat \ {0}
        BY <2>1, SeedSizes
      <3>3. PlaceOK(At("models", k + 1))
        BY <3>2 DEF PlaceOK, At, Loops
      <3>4. At("models", k + 1).loop = "models" /\ At("models", k + 1).k = k + 1
        BY DEF At
      <3>5. QED
        BY <2>1, <3>1, <3>3, <3>4
    <2>2. CASE ~(k < Len(SeedModels))
      <3>1. seed' = [seed EXCEPT ![p] = At("done", k)] /\ seeded' = (seeded \/ p \in clean)
        BY <1>2, <2>2 DEF SeedModel, Goes
      <3>2. k = Len(SeedModels) /\ k \in Nat \ {0}
        BY <2>2, SeedSizes
      <3>3. PlaceOK(At("done", k))
        BY <3>2 DEF PlaceOK, At, Loops
      <3>4. At("done", k).loop = "done"
        BY DEF At
      <3>5. QED
        BY <3>1, <3>2, <3>3, <3>4
    <2>3. QED
      BY <2>1, <2>2
  <1>6. \A j \in DOMAIN SeedUsers :
            UserBehind(seed[p], j) /\ TokenBehind(seed[p], j) /\ AssociationBehind(seed[p], j)
    BY <1>1 DEF UserBehind, TokenBehind, AssociationBehind
  <1>7. \A j \in DOMAIN SeedModels :
            ModelBehind(at, j) => ModelBehind(seed[p], j) \/ ModelGood(j)'
    <2>1. \A j \in DOMAIN SeedModels : ModelBehind(at, j) => j < k \/ j = k
      BY <1>5, SeedSizes DEF ModelBehind
    <2>2. QED
      BY <1>1, <1>2, <1>4, <2>1 DEF ModelBehind
  <1>8. at.loop # "raised"
    BY <1>5
  <1>9. seeded' = seeded \/ (at.loop = "done" /\ seeded' = (seeded \/ p \in clean))
    BY <1>5
  <1>10. QED
    BY <1>1, <1>3, <1>4, <1>5, <1>6, <1>7, <1>8, <1>9, ReachesInv

\* A process begins, with nothing written.
LEMMA BeginsInv ==
    ASSUME SeedInv, DatabaseInv', NEW p \in Processes, NEW place \in {Statements[1], "down"},
           pc' = [pc EXCEPT ![p] = place],
           UNCHANGED accessVars, UNCHANGED <<edits, seeded>>,
           seed' = [seed EXCEPT ![p] = At("users", 1)],
           clean' \subseteq clean \cup ({p} \cap Seeders)
    PROVE  SeedInv'
  <1>1. Keeps
    BY SameRowsKeep
  <1>2. seed \in [Processes -> [loop : Loops, k : Nat \ {0}]]
    BY DEF SeedInv, SeedTypeOK
  <1>3. \A q \in Processes : seed'[q] = IF q = p THEN At("users", 1) ELSE seed[q]
    BY <1>2
  <1>4. At("users", 1) \in [loop : Loops, k : Nat \ {0}] /\ At("users", 1).loop # "raised"
    BY DEF At, Loops
  <1>5. \A q \in Processes : pc'[q] = IF q = p THEN place ELSE pc[q]
    BY DEF SeedInv, DatabaseInv, TypeOK
  <1>6. SeedTypeOK'
    <2>1. seed' \in [Processes -> [loop : Loops, k : Nat \ {0}]]
      BY <1>2, <1>4
    <2>2. edits' \in 0 .. MaxEdits /\ clean' \subseteq Seeders /\ seeded' \in BOOLEAN
      BY DEF SeedInv, SeedTypeOK
    <2>3. QED
      BY <1>1, <2>1, <2>2 DEF SeedTypeOK, DatabaseInv, Keeps, KeepsReferences
  <1>7. WrittenBehind'
    <2>1. \A q \in Processes : PlaceOK(seed'[q]) /\ UsersThere(seed'[q])
      BY <1>3, BeginsEmpty DEF SeedInv, WrittenBehind
    <2>2. \A q \in Processes : UsersThere(seed[q])'
      BY <2>1 DEF UsersThere, Keeps, accessVars
    <2>3. \A q \in Processes : pc'[q] # "ready" \/ q \notin Seeders => seed'[q] = At("users", 1)
      BY <1>3, <1>5 DEF SeedInv, WrittenBehind
    <2>4. ASSUME NEW q \in clean' PROVE Written(seed'[q])
      <3>1. q \in Processes /\ (q = p \/ q \in clean)
        BY SeedersAssumption DEF SeedInv, SeedTypeOK
      <3>2. QED
        BY <1>3, <3>1, BeginsEmpty DEF SeedInv, WrittenBehind
    <2>5. ASSUME NEW q \in clean' PROVE Written(seed[q])'
      BY <1>1, <2>4 DEF Written, Keeps, KeepsGood
    <2>6. seeded' => AllGood'
      BY <1>1, GoodStays DEF SeedInv, WrittenBehind
    <2>7. QED
      BY <2>1, <2>2, <2>3, <2>5, <2>6 DEF WrittenBehind, PlaceOK
  <1>8. SeedsDoNotCollide'
    BY <1>3, <1>4, SeedersAssumption DEF SeedInv, SeedsDoNotCollide, accessVars
  <1>9. QED
    BY <1>1, <1>6, <1>7, <1>8 DEF SeedInv, Keeps, KeepsReferences

LEMMA SeedStartsInv ==
    ASSUME SeedInv, NEW p \in Processes, SeedStarts(p)
    PROVE  SeedInv'
  <1>1. DatabaseInv'
    BY StartInv DEF SeedInv, SeedStarts
  <1>2. pc' = [pc EXCEPT ![p] = Statements[1]] /\ pc[p] # "ready"
    BY DEF SeedStarts, Start, Statements
  <1>3. seed[p] = At("users", 1) /\ seed \in [Processes -> [loop : Loops, k : Nat \ {0}]]
    BY <1>2 DEF SeedInv, WrittenBehind, SeedTypeOK
  <1>4. seed' = [seed EXCEPT ![p] = At("users", 1)]
    BY <1>3 DEF SeedStarts
  <1>5. /\ UNCHANGED accessVars /\ UNCHANGED <<edits, seeded>>
        /\ clean' \subseteq clean \cup ({p} \cap Seeders)
    BY DEF SeedStarts
  <1>6. QED
    BY <1>1, <1>2, <1>4, <1>5, BeginsInv

LEMMA SeedKilledInv ==
    ASSUME SeedInv, NEW p \in Processes, SeedKilled(p)
    PROVE  SeedInv'
  <1>1. DatabaseInv'
    BY KillInv DEF SeedInv, SeedKilled
  <1>2. /\ pc' = [pc EXCEPT ![p] = "down"]
        /\ seed' = [seed EXCEPT ![p] = At("users", 1)]
        /\ UNCHANGED <<accessVars, edits, clean, seeded>>
    BY DEF SeedKilled, Kill, Goes
  <1>3. QED
    BY <1>1, <1>2, BeginsInv

LEMMA SeedAgainInv ==
    ASSUME SeedInv, NEW p \in Processes, SeedAgain(p)
    PROVE  SeedInv'
  <1>1. /\ p \in Seeders
        /\ pc' = [pc EXCEPT ![p] = Statements[1]]
        /\ seed' = [seed EXCEPT ![p] = At("users", 1)]
        /\ clean' = clean \cup {p}
        /\ UNCHANGED <<tables, role_column, kills, migrated_by, accessVars, edits, seeded>>
    BY DEF SeedAgain, Running, Goes, Statements
  <1>2. DatabaseInv'
    BY <1>1, RestartInv DEF SeedInv, DatabaseInv, TypeOK
  <1>3. clean' \subseteq clean \cup ({p} \cap Seeders)
    BY <1>1
  <1>4. UNCHANGED accessVars /\ UNCHANGED <<edits, seeded>>
    BY <1>1
  <1>5. QED
    BY <1>1, <1>2, <1>3, <1>4, BeginsInv

LEMMA DatabaseStepInv ==
    ASSUME SeedInv, NEW p \in Processes, DatabaseStep(p)
    PROVE  SeedInv'
  <1>1. DatabaseInv'
    BY StepInv DEF SeedInv, DatabaseStep
  <1>2. pc[p] # "ready" /\ \A q \in Processes : q # p => pc'[q] = pc[q]
    BY DEF DatabaseStep, Step, CreateTable, ReadColumns, AddColumn, Advance, Schema,
           SeedInv, DatabaseInv, TypeOK
  <1>3. UNCHANGED <<accessVars, seed, edits, clean, seeded>>
    BY DEF DatabaseStep, seedVars
  <1>4. SeedTypeOK' /\ ReferencesHold' /\ OwnIds'
    BY <1>1, <1>3, SameRowsKeep DEF SeedInv, SeedTypeOK, DatabaseInv, Keeps, KeepsReferences
  <1>5. WrittenBehind'
    <2>1. \A q \in Processes : UsersThere(seed[q])'
      BY <1>3 DEF SeedInv, WrittenBehind, UsersThere, accessVars
    <2>2. \A q \in clean' : Written(seed[q])'
      BY <1>3, SameRowsKeep DEF SeedInv, WrittenBehind, Written, Keeps, KeepsGood
    <2>3. \A q \in Processes : pc'[q] # "ready" \/ q \notin Seeders => seed'[q] = At("users", 1)
      BY <1>2, <1>3 DEF SeedInv, WrittenBehind
    <2>4. seeded' => AllGood'
      BY <1>3, SameRowsKeep, GoodStays DEF SeedInv, WrittenBehind
    <2>5. QED
      BY <1>3, <2>1, <2>2, <2>3, <2>4 DEF SeedInv, WrittenBehind, PlaceOK
  <1>6. SeedsDoNotCollide'
    BY <1>3 DEF SeedInv, SeedsDoNotCollide, accessVars
  <1>7. QED
    BY <1>1, <1>4, <1>5, <1>6 DEF SeedInv

\* An edit takes the good rows away, but the histories are told.
LEMMA OperatorEditsInv ==
    ASSUME SeedInv, OperatorEdits
    PROVE  SeedInv'
  <1>1. /\ clean' = {} /\ seeded' = FALSE
        /\ UNCHANGED <<dbVars, seed>>
    BY DEF OperatorEdits
  <1>2. KeepsReferences
    BY DeactivateKeeps DEF OperatorEdits
  <1>3. edits' \in 0 .. MaxEdits
    BY EditsAssumption DEF OperatorEdits, SeedInv, SeedTypeOK
  <1>4. DatabaseInv'
    BY <1>1, SameDatabase DEF SeedInv
  <1>5. SeedTypeOK'
    BY <1>1, <1>2, <1>3, <1>4 DEF SeedInv, SeedTypeOK, DatabaseInv, KeepsReferences
  <1>6. WrittenBehind'
    <2>1. \A q \in Processes : UsersThere(seed[q])'
      BY <1>1, <1>2 DEF SeedInv, WrittenBehind, UsersThere, KeepsReferences
    <2>2. QED
      BY <1>1, <2>1 DEF SeedInv, WrittenBehind, PlaceOK, dbVars
  <1>7. SeedsDoNotCollide'
    <2>1. \A q \in Seeders : seed[q].loop = "raised" => HeldElsewhere(SeedUsers[seed[q].k].token)
      BY DEF SeedInv, SeedsDoNotCollide, HeldElsewhere
    <2>2. QED
      BY <1>1, <1>2, <2>1 DEF KeepsReferences, HeldElsewhere, SeedsDoNotCollide
  <1>8. QED
    BY <1>2, <1>4, <1>5, <1>6, <1>7 DEF SeedInv, KeepsReferences

-----------------------------------------------------------------------------
LEMMA SeedInitInv == SeedInit => SeedInv
  <1> SUFFICES ASSUME SeedInit PROVE SeedInv
    OBVIOUS
  <1>1. DatabaseInv /\ (role_column => "users" \in tables)
    BY DatabaseInit DEF SeedInit, DatabaseInv, TypeOK
  <1>2. "api_tokens" \in tables => "users" \in tables
    BY DEF SeedInit, Init, OldSchema, Schema
  <1>3. PICK rows \in OldRows :
            /\ users = IF "users" \notin tables THEN NoRows
                       ELSE IF role_column THEN rows.users
                       ELSE [u \in DOMAIN rows.users |-> [rows.users[u] EXCEPT !.role = "user"]]
            /\ api_tokens = IF "api_tokens" \notin tables THEN NoRows ELSE rows.api_tokens
    BY DEF SeedInit
  <1>4. DOMAIN NoRows = {}
    BY DEF NoRows
  <1>5. /\ DOMAIN users \subseteq UserIds /\ users \in [DOMAIN users -> UserRow]
        /\ "users" \in tables => DOMAIN users = DOMAIN rows.users
    <2>1. CASE "users" \notin tables
      BY <1>3, <1>4, <2>1 DEF NoRows
    <2>2. CASE "users" \in tables /\ role_column
      BY <1>3, <2>2, OldRowsAssumption
    <2>3. CASE "users" \in tables /\ ~role_column
      <3>1. users = [u \in DOMAIN rows.users |-> [rows.users[u] EXCEPT !.role = "user"]]
        BY <1>3, <2>3
      <3>2. \A u \in DOMAIN rows.users : rows.users[u] \in UserRow
        BY OldRowsAssumption
      <3>3. \A u \in DOMAIN rows.users : [rows.users[u] EXCEPT !.role = "user"] \in UserRow
        BY <3>2 DEF UserRow, Roles
      <3>4. QED
        BY <3>1, <3>3, OldRowsAssumption
    <2>4. QED
      BY <2>1, <2>2, <2>3
  <1>6. /\ DOMAIN api_tokens \subseteq TokenIds
        /\ api_tokens \in [DOMAIN api_tokens -> TokenRow]
        /\ TokensUnique /\ OwnIds
        /\ \A i \in DOMAIN api_tokens : api_tokens[i].user_id \in DOMAIN users
    <2>1. CASE "api_tokens" \notin tables
      BY <1>3, <1>4, <2>1 DEF NoRows, TokensUnique, OwnIds
    <2>2. CASE "api_tokens" \in tables
      <3>1. api_tokens = rows.api_tokens /\ DOMAIN users = DOMAIN rows.users
        BY <1>2, <1>3, <1>5, <2>2
      <3>2. QED
        BY <3>1, OldRowsAssumption DEF TokensUnique, OwnIds
    <2>3. QED
      BY <2>1, <2>2
  <1>7. /\ admin_user_associations = {} /\ model_allowlist = {}
        /\ seed = [p \in Processes |-> At("users", 1)]
        /\ edits = 0 /\ clean = Seeders /\ seeded = FALSE
    BY DEF SeedInit
  <1>8. SeedTypeOK
    <2>1. seed \in [Processes -> [loop : Loops, k : Nat \ {0}]]
      BY <1>7 DEF At, Loops
    <2>2. AccessTypeOK
      BY <1>5, <1>6, <1>7 DEF AccessTypeOK
    <2>3. edits \in 0 .. MaxEdits
      BY <1>7, EditsAssumption
    <2>4. clean \subseteq Seeders /\ seeded \in BOOLEAN
      BY <1>7
    <2>5. QED
      BY <1>1, <1>6, <2>1, <2>2, <2>3, <2>4 DEF SeedTypeOK, DatabaseInv
  <1>9. ReferencesHold
    BY <1>6, <1>7 DEF ReferencesHold
  <1>10. WrittenBehind
    BY <1>7, BeginsEmpty, SeedersAssumption DEF WrittenBehind
  <1>11. SeedsDoNotCollide
    BY <1>7, SeedersAssumption DEF SeedsDoNotCollide, At
  <1>12. QED
    BY <1>1, <1>6, <1>8, <1>9, <1>10, <1>11 DEF SeedInv

LEMMA SeedNextInv == SeedInv /\ [SeedNext]_allVars => SeedInv'
  <1> SUFFICES ASSUME SeedInv, [SeedNext]_allVars PROVE SeedInv'
    OBVIOUS
  <1>1. CASE \E p \in Processes : SeedStarts(p)
    BY <1>1, SeedStartsInv
  <1>2. CASE \E p \in Processes : DatabaseStep(p)
    BY <1>2, DatabaseStepInv
  <1>3. CASE \E p \in Processes : SeedKilled(p)
    BY <1>3, SeedKilledInv
  <1>4. CASE \E p \in Processes : SeedStep(p)
    BY <1>4, SeedUserInv, SeedTokenInv, SeedTokenRaisesInv, SeedAssociationInv, SeedModelInv
       DEF SeedStep
  <1>5. CASE \E p \in Processes : SeedAgain(p)
    BY <1>5, SeedAgainInv
  <1>6. CASE OperatorEdits
    BY <1>6, OperatorEditsInv
  <1>7. CASE UNCHANGED allVars
    <2>1. Keeps /\ DatabaseInv'
      BY <1>7, SameRowsKeep, SameDatabase DEF allVars, SeedInv
    <2>2. UNCHANGED <<pc, seed, edits, clean, seeded, accessVars>>
      BY <1>7 DEF allVars, dbVars, seedVars
    <2>3. SeedTypeOK'
      BY <2>1, <2>2 DEF SeedInv, SeedTypeOK, DatabaseInv, Keeps, KeepsReferences
    <2>4. \A p \in Processes : UsersThere(seed[p])'
      BY <2>2 DEF SeedInv, WrittenBehind, UsersThere, accessVars
    <2>5. \A p \in clean' : Written(seed[p])'
      BY <2>1, <2>2 DEF SeedInv, WrittenBehind, Written, Keeps, KeepsGood
    <2>6. WrittenBehind'
      BY <2>1, <2>2, <2>4, <2>5, GoodStays DEF SeedInv, WrittenBehind, PlaceOK
    <2>7. SeedsDoNotCollide'
      BY <2>2 DEF SeedInv, SeedsDoNotCollide, accessVars
    <2>8. QED
      BY <2>1, <2>3, <2>6, <2>7 DEF SeedInv, Keeps, KeepsReferences
  <1>8. QED
    BY <1>1, <1>2, <1>3, <1>4, <1>5, <1>6, <1>7 DEF SeedNext

LEMMA SeedInvariant == SeedSpec => []SeedInv
  BY SeedInitInv, SeedNextInv, PTL DEF SeedSpec

\* Whoever gets through initialize_database finds the whole schema.
THEOREM ReadyIsComplete == SeedSpec => []ReadyMeansComplete
  <1>1. DatabaseInv => ReadyMeansComplete
    <2> SUFFICES ASSUME DatabaseInv, NEW p \in Processes, pc[p] = Statements[11]
                 PROVE  tables = Schema /\ role_column
      BY StatementNumbers DEF ReadyMeansComplete
    <2>1. \A n \in Numbers \ {3, 4, 11} : n < 11 /\ Statements[n] \in Schema
      BY StatementKinds DEF Numbers
    <2>2. \A n \in Numbers \ {3, 4, 11} : Statements[n] \in tables
      BY <2>1, TableBehind DEF Numbers
    <2>3. {1, 2, 5, 6, 7, 8, 9, 10} \subseteq Numbers \ {3, 4, 11}
      BY DEF Numbers
    <2>4. Schema \subseteq tables
      BY <2>2, <2>3, StatementNumbers DEF Schema
    <2>5. 11 \in Numbers /\ 11 >= 5
      BY DEF Numbers
    <2>6. QED
      BY <2>4, <2>5 DEF DatabaseInv, TypeOK, CreatedBehind
  <1>2. SeedInv => ReadyMeansComplete
    BY <1>1 DEF SeedInv
  <1>3. QED
    BY <1>2, SeedInvariant, PTL

\* A start fails only over a migration that another process has made.
THEOREM FailuresAreExplained == SeedSpec => []FailureExplained
  <1>1. SeedInv => FailureExplained
    BY DEF SeedInv, DatabaseInv
  <1>2. QED
    BY <1>1, SeedInvariant, PTL

\* The seed never leaves a token or an association of a user who is missing.
THEOREM ReferencesAreKept == SeedSpec => []ReferencesKept
  <1>1. SeedInv => ReferencesKept
    BY DEF SeedInv, ReferencesKept
  <1>2. QED
    BY <1>1, SeedInvariant, PTL

\* Runs of the seed fail only over a token that none of them has stored.
THEOREM RunsDoNotCollide == SeedSpec => []SeedsDoNotCollide
  <1>1. SeedInv => SeedsDoNotCollide
    BY DEF SeedInv
  <1>2. QED
    BY <1>1, SeedInvariant, PTL

\* Types.
THEOREM SeedTypes == SeedSpec => []SeedTypeOK
  <1>1. SeedInv => SeedTypeOK
    BY DEF SeedInv
  <1>2. QED
    BY <1>1, SeedInvariant, PTL

\* What the seed has promised lasts until an operator takes it back.
THEOREM TheSeedLasts == SeedSpec => []SeedLasts
  <1>1. SeedInv => SeedLasts
    <2> SUFFICES ASSUME SeedInv, seeded PROVE SeedLasts
      BY DEF SeedLasts
    <2>1. AllGood
      BY DEF SeedInv, WrittenBehind
    <2>2. ASSUME NEW k \in DOMAIN SeedUsers
          PROVE  /\ RequireUser(SeedUsers[k].token) = {SeedUsers[k].id}
                 /\ RequireAdmin(SeedUsers[k].token) =
                       IF SeedUsers[k].role = "admin" THEN {SeedUsers[k].id} ELSE {}
                 /\ SeedUsers[k].role # "admin" => SeedUsers[k].id \in ListUsersForAdmin(Admin)
      <3>1. UserGood(k) /\ TokenGood(k) /\ AssociationGood(k)
        BY <2>1 DEF AllGood
      <3>2. ActiveUser(SeedUsers[k].id) /\ users[SeedUsers[k].id].role = SeedUsers[k].role
        BY <3>1 DEF UserGood, ActiveUser
      <3>3. \A i \in DOMAIN api_tokens :
                api_tokens[i].token = SeedUsers[k].token => i = SeedUsers[k].token
        BY <3>1 DEF TokenGood, SeedInv, SeedTypeOK, TokensUnique
      <3>4. RequireUser(SeedUsers[k].token) = {SeedUsers[k].id}
        BY <3>1, <3>2, <3>3 DEF TokenGood, RequireUser, GetUserByApiToken
      <3>5. RequireAdmin(SeedUsers[k].token) =
               IF SeedUsers[k].role = "admin" THEN {SeedUsers[k].id} ELSE {}
        BY <3>2, <3>4 DEF RequireAdmin
      <3>6. SeedUsers[k].role # "admin" => SeedUsers[k].id \in ListUsersForAdmin(Admin)
        BY <3>1, <3>2, SeedSizes DEF AssociationGood, ListUsersForAdmin, AdminCanAccessUser
      <3>7. QED
        BY <3>4, <3>5, <3>6
    <2>3. \A k \in DOMAIN SeedModels : SeedModels[k] \in model_allowlist
      BY <2>1 DEF AllGood, ModelGood
    <2>4. QED
      BY <2>2, <2>3 DEF SeedLasts
  <1>2. QED
    BY <1>1, SeedInvariant, PTL
=============================================================================

------------------------------- MODULE Access -------------------------------
(***************************************************************************)
(* Who may do what: the tables users, api_tokens, admin_user_associations  *)
(* and model_allowlist, the queries of UserRepository and ModelRepository  *)
(* on them (src/app/repositories/users.py, models.py), and the checks the  *)
(* routes make with them (src/app/api/deps.py).                            *)
(*                                                                         *)
(* A table is a function from its primary key to the other columns; names  *)
(* and times are left out.  A token is stored as its hash: two tokens have *)
(* the same hash only if they are the same.  The tables declare foreign    *)
(* keys, but SQLite enforces them only if told to, which nobody does.      *)
(***************************************************************************)
EXTENDS Integers, Sequences, FiniteSets, Functions

CONSTANTS
    UserIds,   \* ids a user may have
    TokenIds,  \* ids a row of api_tokens may have
    Tokens,    \* bearer tokens
    ModelIds   \* model names

VARIABLES users, api_tokens, admin_user_associations, model_allowlist

accessVars == <<users, api_tokens, admin_user_associations, model_allowlist>>

Roles == {"user", "admin"}

UserRow  == [role : Roles, is_active : BOOLEAN]
TokenRow == [user_id : UserIds, token : Tokens, is_active : BOOLEAN]

NoRows == [k \in {} |-> {}]

Put(table, key, row) ==
    [k \in DOMAIN table \cup {key} |-> IF k = key THEN row ELSE table[k]]

-----------------------------------------------------------------------------
(***************************************************************************)
(* Queries.                                                                *)
(***************************************************************************)
ActiveUser(u) == u \in DOMAIN users /\ users[u].is_active

\* get_user_by_api_token: the ids of the users a token stands for.
GetUserByApiToken(token) ==
    {api_tokens[i].user_id : i \in {j \in DOMAIN api_tokens :
        /\ api_tokens[j].token = token
        /\ api_tokens[j].is_active
        /\ ActiveUser(api_tokens[j].user_id)}}

AdminCanAccessUser(admin, u) ==
    <<admin, u>> \in admin_user_associations /\ ActiveUser(u)

ListUsersForAdmin(admin) == {u \in UserIds : AdminCanAccessUser(admin, u)}

\* require_user and require_admin: whoever the token stands for, or 401, 403.
RequireUser(token) == GetUserByApiToken(token)
RequireAdmin(token) == {u \in RequireUser(token) : users[u].role = "admin"}

-----------------------------------------------------------------------------
(***************************************************************************)
(* Upserts.  Each is a transaction of its own.                             *)
(***************************************************************************)
\* Mutant: ON CONFLICT(id) DO NOTHING.
UpsertUserOnce(u, role) ==
    /\ users' = IF u \in DOMAIN users THEN users
                ELSE Put(users, u, [role |-> role, is_active |-> TRUE])
    /\ UNCHANGED <<api_tokens, admin_user_associations, model_allowlist>>

UpsertUser(u, role) ==
    /\ users' = Put(users, u, [role |-> role, is_active |-> TRUE])
    /\ UNCHANGED <<api_tokens, admin_user_associations, model_allowlist>>

\* Mutant: a plain INSERT, which the own row of an earlier run defeats.
TokenTakenAtAll(id, token) ==
    \E i \in DOMAIN api_tokens : api_tokens[i].token = token

\* Another row has the token: the UNIQUE hash makes the upsert raise, which
\* looks for a conflict of the id only.
TokenTaken(id, token) ==
    \E i \in DOMAIN api_tokens \ {id} : api_tokens[i].token = token

UpsertApiToken(id, u, token) ==
    /\ ~TokenTaken(id, token)
    /\ api_tokens' = Put(api_tokens, id,
                         [user_id |-> u, token |-> token, is_active |-> TRUE])
    /\ UNCHANGED <<users, admin_user_associations, model_allowlist>>

UpsertAdminUserAssociation(admin, u) ==
    /\ admin_user_associations' = admin_user_associations \cup {<<admin, u>>}
    /\ UNCHANGED <<users, api_tokens, model_allowlist>>

UpsertAllowedModel(m) ==
    /\ model_allowlist' = model_allowlist \cup {m}
    /\ UNCHANGED <<users, api_tokens, admin_user_associations>>

\* An operator switches a user or a token off; the program never does.
Deactivate ==
    /\ \/ /\ \E u \in DOMAIN users :
                /\ users[u].is_active
                /\ users' = [users EXCEPT ![u].is_active = FALSE]
          /\ UNCHANGED api_tokens
       \/ /\ \E i \in DOMAIN api_tokens :
                /\ api_tokens[i].is_active
                /\ api_tokens' = [api_tokens EXCEPT ![i].is_active = FALSE]
          /\ UNCHANGED users
    /\ UNCHANGED <<admin_user_associations, model_allowlist>>

-----------------------------------------------------------------------------
AccessTypeOK ==
    /\ DOMAIN users \subseteq UserIds
    /\ users \in [DOMAIN users -> UserRow]
    /\ DOMAIN api_tokens \subseteq TokenIds
    /\ api_tokens \in [DOMAIN api_tokens -> TokenRow]
    /\ admin_user_associations \subseteq UserIds \X UserIds
    /\ model_allowlist \subseteq ModelIds

\* The foreign keys: a token and an association are of users that exist.
ReferencesHold ==
    /\ \A i \in DOMAIN api_tokens : api_tokens[i].user_id \in DOMAIN users
    /\ \A pair \in admin_user_associations :
          pair[1] \in DOMAIN users /\ pair[2] \in DOMAIN users

\* token_hash is UNIQUE, so a token stands for one user at most.
TokensUnique ==
    \A i, j \in DOMAIN api_tokens :
        api_tokens[i].token = api_tokens[j].token => i = j
=============================================================================

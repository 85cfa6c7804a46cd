------------------------------ MODULE Accounts ------------------------------
(***************************************************************************)
(* Accounts, sessions and the requests they authorize.                     *)
(*                                                                         *)
(* A sign-in reads an account row, spends its time hashing a password (or  *)
(* talking to the provider) and inserts a session in a later transaction;  *)
(* AuthenticateRequest is three separate reads; a password change verifies *)
(* against the row it read and commits later; init-admin is another        *)
(* process on the same database.  One action is one statement or one       *)
(* transaction of one of them.                                             *)
(***************************************************************************)
EXTENDS Naturals

CONSTANTS UserIds,
          Logins,     \* sign-ins; a session is named by the sign-in that made it
          Requests,   \* HTTP requests that carry a session token
          Operators,  \* runs of init-admin
          MaxHash     \* bound on the passwords ever set

ASSUME AccountsAssumption == MaxHash \in Nat \ {0} /\ UserIds # {} /\ Logins # {}

VARIABLES users,      \* account rows
          sessions,   \* sign-ins whose row is in the sessions table
          lastHash,   \* a stored hash is salted, so never used twice: a counter
          lpc, login, \* sign-in handlers
          rpc, req,   \* request handlers
          apc, admin  \* init-admin processes

signIns == <<lpc, login>>
requests == <<rpc, req>>
operators == <<apc, admin>>
vars == <<users, sessions, lastHash, signIns, requests, operators>>

-----------------------------------------------------------------------------
(* hash 0 is the empty password_hash of an account without a password. *)
Row == [provider : {"unborn", "local", "kysignon", "deleted"}, hash : Nat,
        role : {"user", "admin"}, status : {"active", "inactive"}, must : BOOLEAN]

(* The row a handler read, and whose it is. *)
Login == [user : UserIds, row : Row]
Request == [token : Logins, kind : {"admin", "change"}, row : Row]
Admin == [user : UserIds, promote : BOOLEAN]

LoginStates == {"idle", "verified", "synced", "issued", "rejected"}
RequestStates == {"idle", "session", "loaded", "authorized", "verified", "done", "rejected"}
AdminStates == {"idle", "read", "create", "done", "refused"}

Exists(u) == users[u].provider \in {"local", "kysignon"}
SessionsOf(u) == {l \in sessions : login[l].user = u}
Owner(r) == login[req[r].token].user

NoRow == [provider |-> "unborn", hash |-> 0, role |-> "user", status |-> "active",
          must |-> FALSE]

(* An older installation may hold any local accounts; linked accounts have *)
(* no password and are never asked to change one.                          *)
Init ==
    /\ users \in [UserIds ->
         {NoRow}
         \cup [provider : {"local"}, hash : {1}, role : {"user", "admin"},
               status : {"active", "inactive"}, must : BOOLEAN]
         \cup [provider : {"kysignon"}, hash : {0}, role : {"user", "admin"},
               status : {"active", "inactive"}, must : {FALSE}]]
    /\ sessions = {}
    /\ lastHash = 1
    /\ lpc = [l \in Logins |-> "idle"]
    /\ login = [l \in Logins |-> [user |-> CHOOSE u \in UserIds : TRUE, row |-> NoRow]]
    /\ rpc = [r \in Requests |-> "idle"]
    /\ req = [r \in Requests |-> [token |-> CHOOSE l \in Logins : TRUE,
                                  kind |-> "admin", row |-> NoRow]]
    /\ apc = [a \in Operators |-> "idle"]
    /\ admin = [a \in Operators |-> [user |-> CHOOSE u \in UserIds : TRUE,
                                     promote |-> FALSE]]

-----------------------------------------------------------------------------
(***************************************************************************)
(* Sign-in                                                                 *)
(***************************************************************************)

(* handleLogin up to password.Verify: the client either has the password   *)
(* of the hash just read or is turned away, as every disabled or           *)
(* password-less account is.                                               *)
PasswordLogin(l, u) ==
    /\ lpc[l] = "idle" /\ Exists(u)
    /\ login' = [login EXCEPT ![l] = [user |-> u, row |-> users[u]]]
    /\ \/ lpc' = [lpc EXCEPT ![l] = "rejected"]
       \/ /\ users[u].hash # 0 /\ users[u].status = "active"
          /\ lpc' = [lpc EXCEPT ![l] = "synced"]
    /\ UNCHANGED <<users, sessions, lastHash, requests, operators>>

(* handleKySignOnCallback up to its status check. *)
SsoLogin(l, u) ==
    /\ lpc[l] = "idle" /\ users[u].provider = "kysignon"
    /\ login' = [login EXCEPT ![l] = [user |-> u, row |-> users[u]]]
    /\ lpc' = [lpc EXCEPT ![l] = IF users[u].status = "active" THEN "verified"
                                 ELSE "rejected"]
    /\ UNCHANGED <<users, sessions, lastHash, requests, operators>>

(* UpdateUserRole: writes the token's role only over the role and status   *)
(* read, and ends the user's sessions with it; a token that carries no     *)
(* role, or the row's, skips it.                                           *)
SyncRole(l) ==
    LET u == login[l].user
        old == login[l].row
    IN
    /\ lpc[l] = "verified"
    /\ \E role \in {"user", "admin"} :
         IF role = old.role
         THEN /\ lpc' = [lpc EXCEPT ![l] = "synced"]
              /\ UNCHANGED <<users, sessions>>
         ELSE IF Exists(u) /\ users[u].role = old.role /\ users[u].status = old.status
         THEN /\ users' = [users EXCEPT ![u].role = role]
              /\ sessions' = sessions \ SessionsOf(u)
              /\ lpc' = [lpc EXCEPT ![l] = "synced"]
         ELSE /\ lpc' = [lpc EXCEPT ![l] = "rejected"]
              /\ UNCHANGED <<users, sessions>>
    /\ UNCHANGED <<lastHash, login, requests, operators>>

(* withPassword: the account still has the hash that was verified and is   *)
(* active.                                                                 *)
StillCurrent(u, hash) ==
    Exists(u) /\ users[u].hash = hash /\ users[u].status = "active"

(* Faulty variant: the hash is not compared. *)
CreateSession_AnyHash(l) ==
    LET u == login[l].user IN
    /\ lpc[l] = "synced"
    /\ Exists(u) /\ users[u].status = "active"
    /\ sessions' = sessions \cup {l}
    /\ lpc' = [lpc EXCEPT ![l] = "issued"]
    /\ UNCHANGED <<users, lastHash, login, requests, operators>>

(* CreateSession.  A reply that never reaches the client leaves a row      *)
(* nobody holds the token of.                                              *)
CreateSession(l) ==
    /\ lpc[l] = "synced"
    /\ \/ /\ StillCurrent(login[l].user, login[l].row.hash)
          /\ sessions' = sessions \cup {l}
          /\ lpc' \in {[lpc EXCEPT ![l] = s] : s \in {"issued", "rejected"}}
       \/ /\ ~StillCurrent(login[l].user, login[l].row.hash)
          /\ lpc' = [lpc EXCEPT ![l] = "rejected"]
          /\ UNCHANGED sessions
    /\ UNCHANGED <<users, lastHash, login, requests, operators>>

(* handleLogout, or GetSession meeting an expired row. *)
EndSession(l) ==
    /\ lpc[l] = "issued" /\ l \in sessions
    /\ sessions' = sessions \ {l}
    /\ UNCHANGED <<users, lastHash, signIns, requests, operators>>

(***************************************************************************)
(* AuthenticateRequest                                                     *)
(***************************************************************************)

(* The first GetSession of a request that carries the token of l. *)
GetSession(r, l) ==
    /\ rpc[r] = "idle" /\ lpc[l] = "issued"
    /\ \E kind \in {"admin", "change"} :
         req' = [req EXCEPT ![r] = [@ EXCEPT !.token = l, !.kind = kind]]
    /\ rpc' = [rpc EXCEPT ![r] = IF l \in sessions THEN "session" ELSE "rejected"]
    /\ UNCHANGED <<users, sessions, lastHash, signIns, operators>>

(* GetUserByID; a disabled account loses the session. *)
LoadUser(r) ==
    LET u == Owner(r) IN
    /\ rpc[r] = "session"
    /\ req' = [req EXCEPT ![r].row = users[u]]
    /\ IF Exists(u) /\ users[u].status = "active"
       THEN /\ rpc' = [rpc EXCEPT ![r] = "loaded"]
            /\ UNCHANGED sessions
       ELSE /\ rpc' = [rpc EXCEPT ![r] = "rejected"]
            /\ sessions' = IF Exists(u) THEN sessions \ {req[r].token} ELSE sessions
    /\ UNCHANGED <<users, lastHash, signIns, operators>>

(* The gates on the row read: a session that must change its password is   *)
(* let through to change-password only, and requireAdmin asks for the      *)
(* role.                                                                   *)
Allowed(r) ==
    req[r].kind = "admin" => ~req[r].row.must /\ req[r].row.role = "admin"

(* Faulty variant: the session is not read a second time. *)
Recheck_Skipped(r) ==
    /\ rpc[r] = "loaded"
    /\ rpc' = [rpc EXCEPT ![r] = IF Allowed(r) THEN "authorized" ELSE "rejected"]
    /\ UNCHANGED <<users, sessions, lastHash, signIns, req, operators>>

(* The second GetSession and the gates. *)
Recheck(r) ==
    /\ rpc[r] = "loaded"
    /\ rpc' = [rpc EXCEPT ![r] = IF req[r].token \in sessions /\ Allowed(r)
                                 THEN "authorized" ELSE "rejected"]
    /\ UNCHANGED <<users, sessions, lastHash, signIns, req, operators>>

(***************************************************************************)
(* Passwords                                                               *)
(***************************************************************************)

(* handleChangePassword up to password.Verify against the row read. *)
VerifyChange(r) ==
    /\ rpc[r] = "authorized" /\ req[r].kind = "change"
    /\ \/ rpc' = [rpc EXCEPT ![r] = "rejected"]
       \/ /\ req[r].row.provider = "local"
          /\ rpc' = [rpc EXCEPT ![r] = "verified"]
    /\ UNCHANGED <<users, sessions, lastHash, signIns, req, operators>>

(* Faulty variant: the update does not compare the hash it replaces. *)
CompletePasswordChange_AnyHash(r) ==
    LET u == Owner(r) IN
    /\ rpc[r] = "verified" /\ lastHash < MaxHash
    /\ users[u].provider = "local"
    /\ lastHash' = lastHash + 1
    /\ users' = [users EXCEPT ![u] = [@ EXCEPT !.hash = lastHash + 1, !.must = FALSE]]
    /\ sessions' = sessions \ SessionsOf(u)
    /\ rpc' = [rpc EXCEPT ![r] = "done"]
    /\ UNCHANGED <<signIns, req, operators>>

(* CompletePasswordChange: compare and swap, the flag cleared and every    *)
(* session of the user deleted in one transaction (the RevokeSession that  *)
(* follows finds its own row gone).                                        *)
CompletePasswordChange(r) ==
    LET u == Owner(r) IN
    /\ rpc[r] = "verified"
    /\ IF StillCurrent(u, req[r].row.hash) /\ users[u].provider = "local"
       THEN /\ lastHash < MaxHash
            /\ lastHash' = lastHash + 1
            /\ users' = [users EXCEPT ![u] = [@ EXCEPT !.hash = lastHash + 1,
                                                       !.must = FALSE]]
            /\ sessions' = sessions \ SessionsOf(u)
            /\ rpc' = [rpc EXCEPT ![r] = "done"]
       ELSE /\ rpc' = [rpc EXCEPT ![r] = "rejected"]
            /\ UNCHANGED <<users, sessions, lastHash>>
    /\ UNCHANGED <<signIns, req, operators>>

(* Faulty variant: no account needs -promote. *)
InitAdmin_NoRefusal(a, u) ==
    /\ apc[a] = "idle"
    /\ \E promote \in BOOLEAN : admin' = [admin EXCEPT ![a] = [user |-> u, promote |-> promote]]
    /\ apc' = [apc EXCEPT ![a] = IF users[u].provider = "unborn" THEN "create" ELSE "read"]
    /\ UNCHANGED <<users, sessions, lastHash, signIns, requests>>

(* initAdmin: reads the account by name and refuses a linked one, or one   *)
(* that is not an active administrator unless -promote is given.           *)
InitAdmin(a, u) ==
    /\ apc[a] = "idle" /\ users[u].provider # "deleted"
    /\ \E promote \in BOOLEAN :
         /\ admin' = [admin EXCEPT ![a] = [user |-> u, promote |-> promote]]
         /\ apc' = [apc EXCEPT ![a] =
              IF users[u].provider = "unborn" THEN "create"
              ELSE IF /\ users[u].provider = "local"
                      /\ promote \/ (users[u].role = "admin" /\ users[u].status = "active")
              THEN "read" ELSE "refused"]
    /\ UNCHANGED <<users, sessions, lastHash, signIns, requests>>

(* Faulty variant: the sessions of the old password stay. *)
ResetAdminPassword_KeepsSessions(a) ==
    LET u == admin[a].user IN
    /\ apc[a] = "read" /\ lastHash < MaxHash
    /\ users[u].provider = "local"
    /\ lastHash' = lastHash + 1
    /\ users' = [users EXCEPT ![u] = [@ EXCEPT !.hash = lastHash + 1, !.must = TRUE,
                                               !.status = "active", !.role = "admin"]]
    /\ apc' = [apc EXCEPT ![a] = "done"]
    /\ UNCHANGED <<sessions, signIns, requests, admin>>

(* The reset: no comparison with what was read, only local accounts. *)
ResetAdminPassword(a) ==
    LET u == admin[a].user IN
    /\ apc[a] = "read"
    /\ IF users[u].provider = "local"
       THEN /\ lastHash < MaxHash
            /\ lastHash' = lastHash + 1
            /\ users' = [users EXCEPT ![u] = [@ EXCEPT !.hash = lastHash + 1, !.must = TRUE,
                                                       !.status = "active", !.role = "admin"]]
            /\ sessions' = sessions \ SessionsOf(u)
            /\ apc' = [apc EXCEPT ![a] = "done"]
       ELSE /\ apc' = [apc EXCEPT ![a] = "refused"]
            /\ UNCHANGED <<users, sessions, lastHash>>
    /\ UNCHANGED <<signIns, requests, admin>>

(* No account had that name: CreateUser, unless one has it by now. *)
CreateAdmin(a) ==
    LET u == admin[a].user IN
    /\ apc[a] = "create"
    /\ IF users[u].provider = "unborn"
       THEN /\ lastHash < MaxHash
            /\ lastHash' = lastHash + 1
            /\ users' = [users EXCEPT ![u] = [provider |-> "local", hash |-> lastHash + 1,
                                              role |-> "admin", status |-> "active",
                                              must |-> TRUE]]
            /\ apc' = [apc EXCEPT ![a] = "done"]
       ELSE /\ apc' = [apc EXCEPT ![a] = "refused"]
            /\ UNCHANGED <<users, lastHash>>
    /\ UNCHANGED <<sessions, signIns, requests, admin>>

(***************************************************************************)
(* The directory: SCIM and first sign-ins, on linked accounts only         *)
(***************************************************************************)

Provision(u) ==
    /\ users[u].provider = "unborn"
    /\ \E role \in {"user", "admin"}, st \in {"active", "inactive"} :
         users' = [users EXCEPT ![u] = [NoRow EXCEPT !.provider = "kysignon",
                                                     !.role = role, !.status = st]]
    /\ UNCHANGED <<sessions, lastHash, signIns, requests, operators>>

(* updateProfile: sessions end with any change of role or status. *)
ScimUpdate(u) ==
    /\ users[u].provider = "kysignon"
    /\ \E role \in {"user", "admin"}, st \in {"active", "inactive"} :
         /\ role # users[u].role \/ st # users[u].status
         /\ users' = [users EXCEPT ![u] = [@ EXCEPT !.role = role, !.status = st]]
    /\ sessions' = sessions \ SessionsOf(u)
    /\ UNCHANGED <<lastHash, signIns, requests, operators>>

DeleteUser(u) ==
    /\ users[u].provider = "kysignon"
    /\ users' = [users EXCEPT ![u].provider = "deleted"]
    /\ sessions' = sessions \ SessionsOf(u)
    /\ UNCHANGED <<lastHash, signIns, requests, operators>>

(* The server stops: its handlers with it, the rows stay. *)
Crash ==
    /\ lpc' = [l \in Logins |-> IF lpc[l] \in {"verified", "synced"} THEN "rejected" ELSE lpc[l]]
    /\ rpc' = [r \in Requests |-> IF rpc[r] \in {"session", "loaded", "authorized", "verified"}
                                  THEN "rejected" ELSE rpc[r]]
    /\ UNCHANGED <<users, sessions, lastHash, login, req, operators>>

-----------------------------------------------------------------------------
SignIn(l) ==
    \/ \E u \in UserIds : PasswordLogin(l, u) \/ SsoLogin(l, u)
    \/ SyncRole(l) \/ CreateSession(l) \/ EndSession(l)

Serve(r) ==
    \/ \E l \in Logins : GetSession(r, l)
    \/ LoadUser(r) \/ Recheck(r) \/ VerifyChange(r) \/ CompletePasswordChange(r)

Operate(a) ==
    \/ \E u \in UserIds : InitAdmin(a, u)
    \/ ResetAdminPassword(a) \/ CreateAdmin(a)

Next == \/ \E l \in Logins : SignIn(l)
        \/ \E r \in Requests : Serve(r)
        \/ \E a \in Operators : Operate(a)
        \/ \E u \in UserIds : Provision(u) \/ ScimUpdate(u) \/ DeleteUser(u)
        \/ Crash

Spec == Init /\ [][Next]_vars

-----------------------------------------------------------------------------
(***************************************************************************)
(* Properties                                                              *)
(***************************************************************************)

(* Rows, handler data and control states keep their types. *)
TypeOK ==
    /\ users \in [UserIds -> Row]
    /\ sessions \in SUBSET Logins
    /\ lastHash \in Nat
    /\ lpc \in [Logins -> LoginStates] /\ login \in [Logins -> Login]
    /\ rpc \in [Requests -> RequestStates] /\ req \in [Requests -> Request]
    /\ apc \in [Operators -> AdminStates] /\ admin \in [Operators -> Admin]

(* Every session row belongs to an active account whose password is still  *)
(* the one the sign-in verified: a sign-in that read the row before a      *)
(* password change, an operator reset, a disabling or a deletion cannot    *)
(* insert after it (CreateSession, withPassword, updateProfile).           *)
LiveSessionsAreCurrent ==
    \A l \in sessions : StillCurrent(login[l].user, login[l].row.hash)

(* At the moment AuthenticateRequest and requireAdmin let a request        *)
(* through to an administrator's handler, its token is live and the        *)
(* account is an active administrator that need not change its password,   *)
(* although the row that was judged had been read earlier.                 *)
AdminOnly ==
    [][\A r \in Requests :
         rpc[r] = "loaded" /\ rpc'[r] = "authorized" /\ req[r].kind = "admin" =>
            /\ req[r].token \in sessions
            /\ users[Owner(r)].provider \in {"local", "kysignon"}
            /\ users[Owner(r)].role = "admin" /\ users[Owner(r)].status = "active"
            /\ ~users[Owner(r)].must]_vars

(* A temporary password is retired only by a request that verified that    *)
(* very password: a change under way when the operator resets the account  *)
(* cannot finish over the reset (CompletePasswordChange, must_change).     *)
ResetIsNotOvertaken ==
    [][\A u \in UserIds : users[u].must /\ ~users'[u].must =>
         \E r \in Requests : /\ rpc[r] = "verified" /\ rpc'[r] = "done"
                             /\ Owner(r) = u /\ req[r].row.hash = users[u].hash]_vars

(* "It never silently grants admin": a local account turns into an active  *)
(* administrator only through an init-admin run with -promote, although    *)
(* the reset itself compares nothing with what was read.                   *)
NeverSilentlyAdmin ==
    [][\A u \in UserIds :
         /\ users[u].provider = "local" /\ users'[u].provider = "local"
         /\ users[u].role # "admin" \/ users[u].status # "active"
         /\ users'[u].role = "admin" /\ users'[u].status = "active"
         => \E a \in Operators : /\ apc[a] = "read" /\ apc'[a] = "done"
                                 /\ admin[a].user = u /\ admin[a].promote]_vars

Usable == {l \in sessions : lpc[l] = "issued"}

(* Sign-ins whose password has been replaced, or whose account is gone. *)
Condemned ==
    {l \in Logins : /\ lpc[l] # "idle"
                    /\ \/ ~Exists(login[l].user)
                       \/ users[login[l].user].hash # login[l].row.hash}

(* Changing or resetting a password, and deleting an account, is one       *)
(* atomic revocation of every session it granted or may yet grant.         *)
Promise == INSTANCE Revocation WITH
               Tokens <- Logins, usable <- Usable, condemned <- Condemned

RefinesRevocation == Promise!Spec

=============================================================================

--------------------------- MODULE AccountsProofs ---------------------------
(***************************************************************************)
(* Proofs about Accounts for any number of accounts, sign-ins, requests    *)
(* and operators.                                                          *)
(***************************************************************************)
EXTENDS Accounts, TLAPS

(* A session row is inserted by the sign-in's last step. *)
SessionInv == \A l \in sessions : lpc[l] \in {"issued", "rejected"}

(* A request carries a token that was handed out. *)
TokenInv == \A r \in Requests : rpc[r] # "idle" => lpc[req[r].token] = "issued"

(* While its session row is still there, the account row a request read is *)
(* the one in the table: whatever changes an account deletes its sessions. *)
FreshInv == \A r \in Requests :
    rpc[r] = "loaded" /\ req[r].token \in sessions => req[r].row = users[Owner(r)]

(* Hashes grow: the next one stored was never stored or read before. *)
HashInv ==
    /\ \A u \in UserIds : users[u].hash <= lastHash
    /\ \A l \in Logins : login[l].row.hash <= lastHash

(* An account that was read exists or was deleted, and only a linked one's *)
(* role follows a token.                                                   *)
BirthInv ==
    /\ \A u \in UserIds : users[u].provider = "unborn" => users[u] = NoRow
    /\ \A l \in Logins : lpc[l] # "idle" => users[login[l].user].provider # "unborn"
    /\ \A l \in Logins : lpc[l] = "verified" =>
         users[login[l].user].provider \in {"kysignon", "deleted"}

(* What init-admin checked when it read the account still holds when it    *)
(* resets the password: nothing demotes or disables a local account.       *)
OperatorInv == \A a \in Operators : apc[a] = "read" =>
    LET u == users[admin[a].user]
    IN  /\ u.provider = "local"
        /\ admin[a].promote \/ (u.role = "admin" /\ u.status = "active")

Inv == /\ TypeOK /\ SessionInv /\ LiveSessionsAreCurrent /\ TokenInv /\ FreshInv
       /\ HashInv /\ BirthInv /\ OperatorInv

-----------------------------------------------------------------------------
(* Writing a role, a status, a hash or the flag into a row leaves a row. *)
LEMMA RowWrites ==
    ASSUME NEW w \in Row, NEW role \in {"user", "admin"}, NEW st \in {"active", "inactive"},
           NEW h \in Nat, NEW m \in BOOLEAN
    PROVE  /\ [w EXCEPT !.role = role, !.status = st] \in Row
           /\ [w EXCEPT !.hash = h, !.must = m] \in Row
           /\ [w EXCEPT !.hash = h, !.must = m, !.status = st, !.role = role] \in Row
  BY DEF Row

(* The filler rows of Init have their types. *)
LEMMA InitType == Init => TypeOK
<1> SUFFICES ASSUME Init PROVE TypeOK
  OBVIOUS
<1>1. NoRow \in Row
  BY DEF NoRow, Row
<1>2. users \in [UserIds -> Row]
  <2>1. ASSUME NEW w \in [provider : {"local"}, hash : {1}, role : {"user", "admin"},
                          status : {"active", "inactive"}, must : BOOLEAN]
        PROVE  w \in Row
    BY DEF Row
  <2>2. ASSUME NEW w \in [provider : {"kysignon"}, hash : {0}, role : {"user", "admin"},
                          status : {"active", "inactive"}, must : {FALSE}]
        PROVE  w \in Row
    <3>1. {FALSE} \subseteq BOOLEAN /\ {0} \subseteq Nat
      OBVIOUS
    <3> QED
      BY <3>1, Zenon DEF Row
  <2> QED
    BY <1>1, <2>1, <2>2, Zenon DEF Init
<1>3. (CHOOSE u \in UserIds : TRUE) \in UserIds /\ (CHOOSE l \in Logins : TRUE) \in Logins
  BY AccountsAssumption
<1> QED
  BY <1>1, <1>2, <1>3
  DEF Init, TypeOK, Login, Request, Admin, LoginStates, RequestStates, AdminStates

(* Every statement keeps the types of rows and handler data. *)
LEMMA StepType == TypeOK /\ [Next]_vars => TypeOK'
<1> SUFFICES ASSUME TypeOK, [Next]_vars PROVE TypeOK'
  OBVIOUS
<1> USE AccountsAssumption
    DEF TypeOK, signIns, requests, operators, LoginStates, RequestStates, AdminStates
<1>1. ASSUME NEW l \in Logins, SignIn(l) PROVE TypeOK'
  <2>1. ASSUME NEW u \in UserIds, PasswordLogin(l, u) \/ SsoLogin(l, u) PROVE TypeOK'
    <3>1. [user |-> u, row |-> users[u]] \in Login
      BY DEF Login
    <3>2. login' \in [Logins -> Login]
      BY <2>1, <3>1 DEF PasswordLogin, SsoLogin
    <3>3. lpc' \in [Logins -> LoginStates]
      BY <2>1 DEF PasswordLogin, SsoLogin
    <3> QED
      BY <2>1, <3>2, <3>3 DEF PasswordLogin, SsoLogin
  <2>2. CASE SyncRole(l)
    <3>1. login[l].user \in UserIds
      BY DEF Login
    <3>2. PICK role \in {"user", "admin"} :
             \/ UNCHANGED users
             \/ users' = [users EXCEPT ![login[l].user].role = role]
      BY <2>2 DEF SyncRole
    <3>3. [users[login[l].user] EXCEPT !.role = role] \in Row
      BY <3>1 DEF Row
    <3>4. users' \in [UserIds -> Row]
      BY <3>1, <3>2, <3>3
    <3>5. sessions' \in SUBSET Logins /\ lpc' \in [Logins -> LoginStates]
      BY <2>2 DEF SyncRole
    <3> QED
      BY <2>2, <3>4, <3>5 DEF SyncRole
  <2>3. CASE CreateSession(l)
    BY <2>3 DEF CreateSession
  <2>4. CASE EndSession(l)
    BY <2>4 DEF EndSession
  <2> QED
    BY <1>1, <2>1, <2>2, <2>3, <2>4 DEF SignIn
<1>2. ASSUME NEW r \in Requests, Serve(r) PROVE TypeOK'
  <2>1. ASSUME NEW l \in Logins, GetSession(r, l) PROVE TypeOK'
    BY <2>1 DEF GetSession, Request
  <2>2. CASE LoadUser(r)
    <3>1. Owner(r) \in UserIds
      BY DEF Owner, Login, Request
    <3>2. [req[r] EXCEPT !.row = users[Owner(r)]] \in Request
      BY <3>1 DEF Request
    <3>3. req' \in [Requests -> Request]
      BY <2>2, <3>2 DEF LoadUser
    <3> QED
      BY <2>2, <3>3 DEF LoadUser
  <2>3. CASE Recheck(r) \/ VerifyChange(r)
    BY <2>3 DEF Recheck, VerifyChange
  <2>4. CASE CompletePasswordChange(r)
    <3>1. Owner(r) \in UserIds
      BY DEF Owner, Login, Request
    <3>2. [users[Owner(r)] EXCEPT !.hash = lastHash + 1, !.must = FALSE] \in Row
      <4>1. users[Owner(r)] \in Row /\ lastHash + 1 \in Nat
        BY <3>1
      <4> QED
        BY <4>1, RowWrites, Zenon
    <3>3. users' \in [UserIds -> Row]
      BY <2>4, <3>1, <3>2 DEF CompletePasswordChange
    <3> QED
      BY <2>4, <3>3 DEF CompletePasswordChange
  <2> QED
    BY <1>2, <2>1, <2>2, <2>3, <2>4 DEF Serve
<1>3. ASSUME NEW a \in Operators, Operate(a) PROVE TypeOK'
  <2>1. ASSUME NEW u \in UserIds, InitAdmin(a, u) PROVE TypeOK'
    BY <2>1 DEF InitAdmin, Admin
  <2>2. CASE ResetAdminPassword(a)
    <3>1. admin[a].user \in UserIds
      BY DEF Admin
    <3>2. [users[admin[a].user] EXCEPT !.hash = lastHash + 1, !.must = TRUE,
                                       !.status = "active", !.role = "admin"] \in Row
      <4>1. users[admin[a].user] \in Row /\ lastHash + 1 \in Nat
        BY <3>1
      <4> QED
        BY <4>1, RowWrites, Zenon
    <3>3. users' \in [UserIds -> Row]
      BY <2>2, <3>1, <3>2 DEF ResetAdminPassword
    <3> QED
      BY <2>2, <3>3 DEF ResetAdminPassword
  <2>3. CASE CreateAdmin(a)
    <3>1. [provider |-> "local", hash |-> lastHash + 1, role |-> "admin",
           status |-> "active", must |-> TRUE] \in Row
      BY DEF Row
    <3>2. users' \in [UserIds -> Row]
      BY <2>3, <3>1 DEF CreateAdmin
    <3> QED
      BY <2>3, <3>2 DEF CreateAdmin
  <2> QED
    BY <1>3, <2>1, <2>2, <2>3 DEF Operate
<1>4. ASSUME NEW u \in UserIds, Provision(u) \/ ScimUpdate(u) \/ DeleteUser(u) PROVE TypeOK'
  <2>1. CASE Provision(u)
    <3>1. PICK role \in {"user", "admin"}, st \in {"active", "inactive"} :
             users' = [users EXCEPT ![u] = [NoRow EXCEPT !.provider = "kysignon",
                                                         !.role = role, !.status = st]]
      BY <2>1 DEF Provision
    <3>2. [NoRow EXCEPT !.provider = "kysignon", !.role = role, !.status = st] \in Row
      BY DEF NoRow, Row
    <3> QED
      BY <2>1, <3>1, <3>2 DEF Provision
  <2>2. CASE ScimUpdate(u)
    <3>1. PICK role \in {"user", "admin"}, st \in {"active", "inactive"} :
             users' = [users EXCEPT ![u] = [@ EXCEPT !.role = role, !.status = st]]
      BY <2>2 DEF ScimUpdate
    <3>2. [users[u] EXCEPT !.role = role, !.status = st] \in Row
      BY RowWrites
    <3> QED
      BY <2>2, <3>1, <3>2 DEF ScimUpdate
  <2>3. CASE DeleteUser(u)
    BY <2>3 DEF DeleteUser, Row
  <2> QED
    BY <1>4, <2>1, <2>2, <2>3
<1>5. CASE Crash
  BY <1>5 DEF Crash
<1>6. CASE UNCHANGED vars
  BY <1>6 DEF vars
<1> QED
  BY <1>1, <1>2, <1>3, <1>4, <1>5, <1>6 DEF Next

(* Rows, handler data and control states keep their types, for any number  *)
(* of accounts and handlers.                                               *)
THEOREM TypeCorrect == Spec => []TypeOK
  BY InitType, StepType, PTL DEF Spec

-----------------------------------------------------------------------------
(* A session row appears with a sign-in's last step and the sign-in keeps  *)
(* that state.                                                             *)
LEMMA SessionStep == TypeOK /\ SessionInv /\ [Next]_vars => SessionInv'
<1> SUFFICES ASSUME TypeOK, SessionInv, [Next]_vars PROVE SessionInv'
  OBVIOUS
<1> USE DEF SessionInv, TypeOK, signIns, requests, operators
<1>1. ASSUME NEW l \in Logins, SignIn(l) PROVE SessionInv'
  BY <1>1 DEF SignIn, PasswordLogin, SsoLogin, SyncRole, CreateSession, EndSession
<1>2. ASSUME NEW r \in Requests, Serve(r) PROVE SessionInv'
  BY <1>2 DEF Serve, GetSession, LoadUser, Recheck, VerifyChange, CompletePasswordChange
<1>3. ASSUME NEW a \in Operators, Operate(a) PROVE SessionInv'
  BY <1>3 DEF Operate, InitAdmin, ResetAdminPassword, CreateAdmin
<1>4. ASSUME NEW u \in UserIds, Provision(u) \/ ScimUpdate(u) \/ DeleteUser(u)
      PROVE  SessionInv'
  BY <1>4 DEF Provision, ScimUpdate, DeleteUser
<1>5. CASE Crash
  BY <1>5 DEF Crash
<1>6. CASE UNCHANGED vars
  BY <1>6 DEF vars
<1> QED
  BY <1>1, <1>2, <1>3, <1>4, <1>5, <1>6 DEF Next

(* A step touches an account row only by taking every session of that      *)
(* account with it, or before the account exists.                          *)
RowsGuarded ==
    \A u \in UserIds : users'[u] # users[u] =>
        users[u].provider = "unborn" \/ sessions' \cap SessionsOf(u) = {}

(* updateProfile, the two password transactions and DeleteUser all do. *)
LEMMA GuardedStep == TypeOK /\ [Next]_vars => RowsGuarded
<1> SUFFICES ASSUME TypeOK, [Next]_vars, NEW u \in UserIds, users'[u] # users[u]
             PROVE  users[u].provider = "unborn" \/ sessions' \cap SessionsOf(u) = {}
  BY DEF RowsGuarded
<1> USE DEF TypeOK, signIns, requests, operators
<1>1. ASSUME NEW l \in Logins, SignIn(l) PROVE sessions' \cap SessionsOf(u) = {}
  BY <1>1 DEF SignIn, PasswordLogin, SsoLogin, SyncRole, CreateSession, EndSession
<1>2. ASSUME NEW r \in Requests, Serve(r) PROVE sessions' \cap SessionsOf(u) = {}
  BY <1>2 DEF Serve, GetSession, LoadUser, Recheck, VerifyChange, CompletePasswordChange
<1>3. ASSUME NEW a \in Operators, Operate(a)
      PROVE  users[u].provider = "unborn" \/ sessions' \cap SessionsOf(u) = {}
  BY <1>3 DEF Operate, InitAdmin, ResetAdminPassword, CreateAdmin
<1>4. ASSUME NEW v \in UserIds, Provision(v) \/ ScimUpdate(v) \/ DeleteUser(v)
      PROVE  users[u].provider = "unborn" \/ sessions' \cap SessionsOf(u) = {}
  BY <1>4 DEF Provision, ScimUpdate, DeleteUser
<1>5. CASE Crash \/ UNCHANGED vars
  BY <1>5 DEF Crash, vars
<1> QED
  BY <1>1, <1>2, <1>3, <1>4, <1>5 DEF Next

(* Only CreateSession adds a row, its own, and a sign-in past its first    *)
(* step keeps the account and the row it read.                             *)
SignInsSteady ==
    /\ \A l \in sessions' \ sessions : lpc[l] = "synced" /\ CreateSession(l)
    /\ \A l \in Logins : lpc[l] # "idle" =>
         /\ login'[l] = login[l]
         /\ lpc[l] = "issued" => lpc'[l] = "issued"

(* No step of another handler moves a sign-in or adds its row. *)
LEMMA SteadyStep == TypeOK /\ [Next]_vars => SignInsSteady
<1> SUFFICES ASSUME TypeOK, [Next]_vars PROVE SignInsSteady
  OBVIOUS
<1> USE DEF TypeOK, signIns, requests, operators, SignInsSteady
<1>1. ASSUME NEW l \in Logins, SignIn(l) PROVE SignInsSteady
  <2>1. ASSUME NEW u \in UserIds, PasswordLogin(l, u) \/ SsoLogin(l, u) PROVE SignInsSteady
    BY <2>1 DEF PasswordLogin, SsoLogin
  <2>2. CASE SyncRole(l)
    BY <2>2 DEF SyncRole
  <2>3. CASE CreateSession(l)
    <3>1. sessions' \subseteq sessions \cup {l} /\ lpc[l] = "synced" /\ login' = login
      BY <2>3 DEF CreateSession
    <3>2. \A k \in Logins : k # l => lpc'[k] = lpc[k]
      BY <2>3 DEF CreateSession
    <3> QED
      BY <2>3, <3>1, <3>2
  <2>4. CASE EndSession(l)
    BY <2>4 DEF EndSession
  <2> QED
    BY <1>1, <2>1, <2>2, <2>3, <2>4 DEF SignIn
<1>2. ASSUME NEW r \in Requests, Serve(r) PROVE SignInsSteady
  BY <1>2 DEF Serve, GetSession, LoadUser, Recheck, VerifyChange, CompletePasswordChange
<1>3. ASSUME NEW a \in Operators, Operate(a) PROVE SignInsSteady
  BY <1>3 DEF Operate, InitAdmin, ResetAdminPassword, CreateAdmin
<1>4. ASSUME NEW u \in UserIds, Provision(u) \/ ScimUpdate(u) \/ DeleteUser(u)
      PROVE  SignInsSteady
  BY <1>4 DEF Provision, ScimUpdate, DeleteUser
<1>5. CASE Crash \/ UNCHANGED vars
  BY <1>5 DEF Crash, vars
<1> QED
  BY <1>1, <1>2, <1>3, <1>4, <1>5 DEF Next

(* No session outlives the password, the activity or the existence of its  *)
(* account.                                                                *)
LEMMA LiveStep ==
    TypeOK /\ SessionInv /\ LiveSessionsAreCurrent /\ [Next]_vars => LiveSessionsAreCurrent'
<1> SUFFICES ASSUME TypeOK, SessionInv, LiveSessionsAreCurrent, [Next]_vars,
                    NEW l \in sessions'
             PROVE  StillCurrent(login[l].user, login[l].row.hash)'
  BY DEF LiveSessionsAreCurrent
<1>1. l \in Logins /\ login[l].user \in UserIds
  BY StepType DEF TypeOK, Login
<1>2. RowsGuarded /\ SignInsSteady
  BY GuardedStep, SteadyStep
<1>3. CASE l \in sessions
  <2>1. login'[l] = login[l]
    BY <1>1, <1>2, <1>3 DEF SignInsSteady, SessionInv
  <2>2. StillCurrent(login[l].user, login[l].row.hash)
    BY <1>3 DEF LiveSessionsAreCurrent
  <2>3. users'[login[l].user] = users[login[l].user]
    BY <1>1, <1>2, <1>3, <2>2 DEF RowsGuarded, SessionsOf, StillCurrent, Exists
  <2> QED
    BY <2>1, <2>2, <2>3 DEF StillCurrent, Exists
<1>4. CASE l \notin sessions
  <2>1. CreateSession(l)
    BY <1>2, <1>4 DEF SignInsSteady
  <2>2. StillCurrent(login[l].user, login[l].row.hash) /\ users' = users /\ login' = login
    BY <1>4, <2>1 DEF CreateSession
  <2> QED
    BY <2>2 DEF StillCurrent, Exists
<1> QED
  BY <1>3, <1>4

(* A request keeps its token from its first read on, and the row it read   *)
(* until it is judged.                                                     *)
RequestsSteady ==
    \A r \in Requests :
        /\ rpc[r] # "idle" => req'[r].token = req[r].token
        /\ rpc[r] = "idle" /\ rpc'[r] # "idle" => lpc[req'[r].token] = "issued"
        /\ rpc[r] = "loaded" /\ rpc'[r] = "loaded" => req'[r] = req[r]
        /\ rpc[r] # "loaded" /\ rpc'[r] = "loaded" =>
             /\ rpc[r] = "session" /\ req'[r].row = users[Owner(r)]
             /\ users' = users /\ login' = login

(* Only GetSession gives a request its token, only LoadUser its row. *)
LEMMA RequestStep == TypeOK /\ [Next]_vars => RequestsSteady
<1> SUFFICES ASSUME TypeOK, [Next]_vars PROVE RequestsSteady
  OBVIOUS
<1> USE DEF TypeOK, signIns, requests, operators, RequestsSteady
<1>1. ASSUME NEW l \in Logins, SignIn(l) PROVE RequestsSteady
  BY <1>1 DEF SignIn, PasswordLogin, SsoLogin, SyncRole, CreateSession, EndSession
<1>2. ASSUME NEW r \in Requests, Serve(r) PROVE RequestsSteady
  <2>1. ASSUME NEW l \in Logins, GetSession(r, l) PROVE RequestsSteady
    <3>1. req[r] \in Request
      OBVIOUS
    <3>2. req'[r].token = l /\ \A q \in Requests : q # r => req'[q] = req[q]
      BY <2>1, <3>1 DEF GetSession, Request
    <3> QED
      BY <2>1, <3>2 DEF GetSession
  <2>2. CASE LoadUser(r)
    <3>1. req[r] \in Request
      OBVIOUS
    <3>2. /\ req'[r].token = req[r].token /\ req'[r].row = users[Owner(r)]
          /\ \A q \in Requests : q # r => req'[q] = req[q]
      BY <2>2, <3>1 DEF LoadUser, Request
    <3> QED
      BY <2>2, <3>2 DEF LoadUser
  <2>3. CASE Recheck(r) \/ VerifyChange(r) \/ CompletePasswordChange(r)
    BY <2>3 DEF Recheck, VerifyChange, CompletePasswordChange
  <2> QED
    BY <1>2, <2>1, <2>2, <2>3 DEF Serve
<1>3. ASSUME NEW a \in Operators, Operate(a) PROVE RequestsSteady
  BY <1>3 DEF Operate, InitAdmin, ResetAdminPassword, CreateAdmin
<1>4. ASSUME NEW u \in UserIds, Provision(u) \/ ScimUpdate(u) \/ DeleteUser(u)
      PROVE  RequestsSteady
  BY <1>4 DEF Provision, ScimUpdate, DeleteUser
<1>5. CASE Crash \/ UNCHANGED vars
  BY <1>5 DEF Crash, vars
<1> QED
  BY <1>1, <1>2, <1>3, <1>4, <1>5 DEF Next

(* The token of a request stays one that was handed out. *)
LEMMA TokenStep == TypeOK /\ TokenInv /\ [Next]_vars => TokenInv'
<1> SUFFICES ASSUME TypeOK, TokenInv, [Next]_vars, NEW r \in Requests, rpc'[r] # "idle"
             PROVE  lpc'[req'[r].token] = "issued"
  BY DEF TokenInv
<1>1. RequestsSteady /\ SignInsSteady
  BY RequestStep, SteadyStep
<1>2. lpc[req'[r].token] = "issued"
  BY <1>1 DEF RequestsSteady, TokenInv
<1>3. req'[r].token \in Logins
  BY StepType DEF TypeOK, Request
<1> QED
  BY <1>1, <1>2, <1>3 DEF SignInsSteady

(* A row read stays current as long as the session that read it lives. *)
LEMMA FreshStep == Inv /\ [Next]_vars => FreshInv'
<1> SUFFICES ASSUME Inv, [Next]_vars, NEW r \in Requests,
                    rpc'[r] = "loaded", req'[r].token \in sessions'
             PROVE  req'[r].row = users'[Owner(r)']
  BY DEF FreshInv
<1>1. RequestsSteady /\ SignInsSteady /\ RowsGuarded
  BY RequestStep, SteadyStep, GuardedStep DEF Inv
<1>2. CASE rpc[r] # "loaded"
  <2>1. /\ req'[r].row = users[Owner(r)] /\ req'[r].token = req[r].token
        /\ users' = users /\ login' = login
    BY <1>1, <1>2 DEF RequestsSteady
  <2> QED
    BY <2>1 DEF Owner
<1>3. CASE rpc[r] = "loaded"
  <2> DEFINE t == req[r].token
  <2>1. req'[r] = req[r] /\ t \in Logins /\ lpc[t] = "issued"
    BY <1>1, <1>3 DEF RequestsSteady, Inv, TokenInv, TypeOK, Request
  <2>2. t \in sessions /\ login'[t] = login[t]
    BY <1>1, <2>1 DEF SignInsSteady
  <2>3. StillCurrent(login[t].user, login[t].row.hash) /\ login[t].user \in UserIds
    BY <2>1, <2>2 DEF Inv, LiveSessionsAreCurrent, TypeOK, Login
  <2>4. users'[login[t].user] = users[login[t].user]
    BY <1>1, <2>1, <2>2, <2>3 DEF RowsGuarded, SessionsOf, StillCurrent, Exists
  <2>5. req[r].row = users[login[t].user]
    BY <1>3, <2>2 DEF Inv, FreshInv, Owner
  <2> QED
    BY <2>1, <2>2, <2>4, <2>5 DEF Owner
<1> QED
  BY <1>2, <1>3

(* How an account row may change: it is born, it is linked and keeps its   *)
(* hash, or it is local, gets a hash never used before and is demoted by   *)
(* nobody.                                                                 *)
Born(u) == /\ users[u].provider = "unborn"
           /\ users'[u].provider \in {"local", "kysignon"} /\ users'[u].hash <= lastHash'
Followed(u) == /\ users[u].provider = "kysignon"
               /\ users'[u].provider \in {"kysignon", "deleted"}
               /\ users'[u].hash = users[u].hash
Rekeyed(u) == /\ users[u].provider = "local" /\ users'[u].provider = "local"
              /\ lastHash' = lastHash + 1 /\ users'[u].hash = lastHash'
              /\ \/ users'[u].role = users[u].role /\ users'[u].status = users[u].status
                 \/ users'[u].role = "admin" /\ users'[u].status = "active"

RowsWritten ==
    /\ lastHash' \in {lastHash, lastHash + 1}
    /\ \A u \in UserIds : users'[u] # users[u] => Born(u) \/ Followed(u) \/ Rekeyed(u)

(* Every statement of every handler changes rows in one of these ways. *)
LEMMA WriteStep == TypeOK /\ BirthInv /\ [Next]_vars => RowsWritten
<1> SUFFICES ASSUME TypeOK, BirthInv, [Next]_vars PROVE RowsWritten
  OBVIOUS
<1> USE DEF TypeOK, signIns, requests, operators, RowsWritten
<1>1. ASSUME NEW l \in Logins, SignIn(l) PROVE RowsWritten
  <2>1. CASE SyncRole(l)
    <3>1. login[l].user \in UserIds /\ users[login[l].user] \in Row
      BY DEF Login
    <3>2. users[login[l].user].provider \in {"kysignon", "deleted"}
      BY <2>1 DEF SyncRole, BirthInv
    <3>3. PICK role \in {"user", "admin"} :
             \/ UNCHANGED users
             \/ Exists(login[l].user) /\ users' = [users EXCEPT ![login[l].user].role = role]
      BY <2>1 DEF SyncRole
    <3>4. CASE UNCHANGED users
      BY <2>1, <3>4 DEF SyncRole
    <3>5. CASE Exists(login[l].user) /\ users' = [users EXCEPT ![login[l].user].role = role]
      <4>1. Followed(login[l].user)
        BY <3>1, <3>2, <3>5 DEF Followed, Exists, Row
      <4> QED
        BY <2>1, <3>1, <3>5, <4>1 DEF SyncRole
    <3> QED
      BY <3>3, <3>4, <3>5
  <2>2. CASE ~SyncRole(l)
    BY <1>1, <2>2 DEF SignIn, PasswordLogin, SsoLogin, CreateSession, EndSession
  <2> QED
    BY <2>1, <2>2
<1>2. ASSUME NEW r \in Requests, Serve(r) PROVE RowsWritten
  <2>1. CASE CompletePasswordChange(r)
    <3>1. Owner(r) \in UserIds /\ users[Owner(r)] \in Row
      BY DEF Owner, Login, Request
    <3>2. CASE users' = [users EXCEPT ![Owner(r)] = [@ EXCEPT !.hash = lastHash + 1, !.must = FALSE]]
               /\ lastHash' = lastHash + 1 /\ users[Owner(r)].provider = "local"
      <4>1. Rekeyed(Owner(r))
        BY <3>1, <3>2 DEF Rekeyed, Row
      <4> QED
        BY <3>1, <3>2, <4>1
    <3>3. CASE UNCHANGED <<users, lastHash>>
      BY <3>3
    <3> QED
      BY <2>1, <3>2, <3>3 DEF CompletePasswordChange
  <2>2. CASE ~CompletePasswordChange(r)
    BY <1>2, <2>2 DEF Serve, GetSession, LoadUser, Recheck, VerifyChange
  <2> QED
    BY <2>1, <2>2
<1>3. ASSUME NEW a \in Operators, Operate(a) PROVE RowsWritten
  <2>1. admin[a].user \in UserIds /\ users[admin[a].user] \in Row
    BY DEF Admin
  <2>2. CASE ResetAdminPassword(a)
    <3>1. CASE users' = [users EXCEPT ![admin[a].user] =
                           [@ EXCEPT !.hash = lastHash + 1, !.must = TRUE,
                                     !.status = "active", !.role = "admin"]]
               /\ lastHash' = lastHash + 1 /\ users[admin[a].user].provider = "local"
      <4>1. Rekeyed(admin[a].user)
        BY <2>1, <3>1 DEF Rekeyed, Row
      <4> QED
        BY <2>1, <3>1, <4>1
    <3>2. CASE UNCHANGED <<users, lastHash>>
      BY <3>2
    <3> QED
      BY <2>2, <3>1, <3>2 DEF ResetAdminPassword
  <2>3. CASE CreateAdmin(a)
    BY <2>1, <2>3 DEF CreateAdmin, Born
  <2>4. ASSUME NEW u \in UserIds, InitAdmin(a, u) PROVE RowsWritten
    BY <2>4 DEF InitAdmin
  <2> QED
    BY <1>3, <2>2, <2>3, <2>4 DEF Operate
<1>4. ASSUME NEW u \in UserIds, Provision(u) \/ ScimUpdate(u) \/ DeleteUser(u)
      PROVE  RowsWritten
  <2>1. CASE Provision(u)
    BY <2>1 DEF Provision, Born, NoRow
  <2>2. CASE ScimUpdate(u)
    <3>1. users[u] \in Row
      OBVIOUS
    <3>2. Followed(u)
      BY <2>2, <3>1 DEF ScimUpdate, Followed, Row
    <3> QED
      BY <2>2, <3>2 DEF ScimUpdate
  <2>3. CASE DeleteUser(u)
    <3>1. users[u] \in Row
      OBVIOUS
    <3>2. Followed(u)
      BY <2>3, <3>1 DEF DeleteUser, Followed, Row
    <3> QED
      BY <2>3, <3>2 DEF DeleteUser
  <2> QED
    BY <1>4, <2>1, <2>2, <2>3
<1>5. CASE Crash \/ UNCHANGED vars
  BY <1>5 DEF Crash, vars
<1> QED
  BY <1>1, <1>2, <1>3, <1>4, <1>5 DEF Next

(* A sign-in starts by reading an existing account, a linked one when a    *)
(* token's role is to follow, and never starts again.                      *)
LoginsRead ==
    \A l \in Logins :
        /\ lpc[l] = "idle" =>
             \/ lpc'[l] = "idle" /\ login'[l] = login[l]
             \/ \E u \in UserIds : /\ login'[l] = [user |-> u, row |-> users[u]]
                                   /\ Exists(u) /\ users' = users
                                   /\ lpc'[l] = "verified" => users[u].provider = "kysignon"
        /\ lpc[l] # "idle" =>
             lpc'[l] # "idle" /\ (lpc'[l] = "verified" => lpc[l] = "verified")

(* PasswordLogin and SsoLogin are the only first steps. *)
LEMMA ReadStep == TypeOK /\ [Next]_vars => LoginsRead
<1> SUFFICES ASSUME TypeOK, [Next]_vars PROVE LoginsRead
  OBVIOUS
<1> USE DEF TypeOK, signIns, requests, operators, LoginsRead
<1>1. ASSUME NEW l \in Logins, SignIn(l) PROVE LoginsRead
  <2>1. ASSUME NEW u \in UserIds, PasswordLogin(l, u) PROVE LoginsRead
    BY <2>1 DEF PasswordLogin
  <2>2. ASSUME NEW u \in UserIds, SsoLogin(l, u) PROVE LoginsRead
    BY <2>2 DEF SsoLogin, Exists
  <2>3. CASE SyncRole(l) \/ CreateSession(l) \/ EndSession(l)
    BY <2>3 DEF SyncRole, CreateSession, EndSession
  <2> QED
    BY <1>1, <2>1, <2>2, <2>3 DEF SignIn
<1>2. ASSUME NEW r \in Requests, Serve(r) PROVE LoginsRead
  BY <1>2 DEF Serve, GetSession, LoadUser, Recheck, VerifyChange, CompletePasswordChange
<1>3. ASSUME NEW a \in Operators, Operate(a) PROVE LoginsRead
  BY <1>3 DEF Operate, InitAdmin, ResetAdminPassword, CreateAdmin
<1>4. ASSUME NEW u \in UserIds, Provision(u) \/ ScimUpdate(u) \/ DeleteUser(u)
      PROVE  LoginsRead
  BY <1>4 DEF Provision, ScimUpdate, DeleteUser
<1>5. CASE Crash \/ UNCHANGED vars
  BY <1>5 DEF Crash, vars
<1> QED
  BY <1>1, <1>2, <1>3, <1>4, <1>5 DEF Next

(* No handler holds a hash newer than the newest one stored. *)
LEMMA HashStep == TypeOK /\ HashInv /\ BirthInv /\ [Next]_vars => HashInv'
<1> SUFFICES ASSUME TypeOK, HashInv, BirthInv, [Next]_vars PROVE HashInv'
  OBVIOUS
<1>1. RowsWritten /\ LoginsRead /\ SignInsSteady /\ TypeOK'
  BY WriteStep, ReadStep, SteadyStep, StepType
<1>2. lastHash \in Nat /\ lastHash' \in Nat /\ lastHash <= lastHash'
  BY <1>1 DEF TypeOK, RowsWritten
<1>3. ASSUME NEW u \in UserIds PROVE users'[u].hash <= lastHash'
  <2>1. users[u].hash \in Nat /\ users'[u].hash \in Nat /\ users[u].hash <= lastHash
    BY <1>1 DEF TypeOK, Row, HashInv
  <2> QED
    BY <1>1, <1>2, <2>1 DEF RowsWritten, Born, Followed, Rekeyed
<1>4. ASSUME NEW l \in Logins PROVE login'[l].row.hash <= lastHash'
  <2>1. login[l].row.hash \in Nat /\ login[l].row.hash <= lastHash
    BY DEF TypeOK, Login, Row, HashInv
  <2>2. CASE login'[l] = login[l]
    BY <1>2, <2>1, <2>2
  <2>3. ASSUME NEW u \in UserIds, login'[l] = [user |-> u, row |-> users[u]]
        PROVE  login'[l].row.hash <= lastHash'
    <3>1. users[u].hash \in Nat /\ users[u].hash <= lastHash
      BY DEF TypeOK, Row, HashInv
    <3> QED
      BY <1>2, <2>3, <3>1
  <2> QED
    BY <1>1, <2>2, <2>3 DEF LoginsRead, SignInsSteady
<1> QED
  BY <1>3, <1>4 DEF HashInv

(* A born account is never unborn again, and a linked one never local. *)
LEMMA BirthStep == TypeOK /\ BirthInv /\ [Next]_vars => BirthInv'
<1> SUFFICES ASSUME TypeOK, BirthInv, [Next]_vars PROVE BirthInv'
  OBVIOUS
<1>1. RowsWritten /\ LoginsRead /\ SignInsSteady
  BY WriteStep, ReadStep, SteadyStep
<1>2. ASSUME NEW u \in UserIds, users'[u].provider = "unborn" PROVE users'[u] = NoRow
  BY <1>1, <1>2 DEF RowsWritten, Born, Followed, Rekeyed, BirthInv
<1>3. ASSUME NEW l \in Logins, lpc'[l] # "idle"
      PROVE  /\ users'[login'[l].user].provider # "unborn"
             /\ lpc'[l] = "verified" =>
                  users'[login'[l].user].provider \in {"kysignon", "deleted"}
  <2>1. CASE lpc[l] = "idle"
    <3>1. PICK u \in UserIds : /\ login'[l] = [user |-> u, row |-> users[u]]
                               /\ Exists(u) /\ users' = users
                               /\ lpc'[l] = "verified" => users[u].provider = "kysignon"
      BY <1>1, <1>3, <2>1 DEF LoginsRead
    <3> QED
      BY <3>1 DEF Exists
  <2>2. CASE lpc[l] # "idle"
    <3>1. /\ login'[l] = login[l] /\ login[l].user \in UserIds
          /\ lpc'[l] = "verified" => lpc[l] = "verified"
      BY <1>1, <2>2 DEF SignInsSteady, LoginsRead, TypeOK, Login
    <3>2. /\ users[login[l].user].provider # "unborn"
          /\ lpc[l] = "verified" => users[login[l].user].provider \in {"kysignon", "deleted"}
      BY <2>2 DEF BirthInv
    <3> QED
      BY <1>1, <3>1, <3>2 DEF RowsWritten, Born, Followed, Rekeyed
  <2> QED
    BY <2>1, <2>2
<1> QED
  BY <1>2, <1>3 DEF BirthInv

(* init-admin's check of a local account cannot go stale. *)
LEMMA OperatorStep == TypeOK /\ BirthInv /\ OperatorInv /\ [Next]_vars => OperatorInv'
<1> SUFFICES ASSUME TypeOK, BirthInv, OperatorInv, [Next]_vars, NEW a \in Operators,
                    apc'[a] = "read"
             PROVE  LET u == users'[admin'[a].user]
                    IN  /\ u.provider = "local"
                        /\ admin'[a].promote \/ (u.role = "admin" /\ u.status = "active")
  BY DEF OperatorInv
<1> USE DEF TypeOK, signIns, requests, operators
<1>1. RowsWritten
  BY WriteStep
<1>2. CASE apc[a] = "read" /\ admin'[a] = admin[a]
  <2>1. /\ admin[a].user \in UserIds /\ users[admin[a].user].provider = "local"
        /\ admin[a].promote \/ ( /\ users[admin[a].user].role = "admin"
                                 /\ users[admin[a].user].status = "active" )
    BY <1>2 DEF Admin, OperatorInv
  <2>2. users'[admin[a].user] = users[admin[a].user] \/ Rekeyed(admin[a].user)
    BY <1>1, <2>1 DEF RowsWritten, Born, Followed
  <2> QED
    BY <1>2, <2>1, <2>2 DEF Rekeyed
<1>3. CASE ~(apc[a] = "read" /\ admin'[a] = admin[a])
  <2>1. PICK b \in Operators, u \in UserIds : InitAdmin(b, u)
    <3>1. ASSUME NEW b \in Operators, ResetAdminPassword(b) \/ CreateAdmin(b) PROVE FALSE
      BY <1>3, <3>1 DEF ResetAdminPassword, CreateAdmin
    <3>2. ASSUME NEW l \in Logins, SignIn(l) PROVE FALSE
      BY <1>3, <3>2 DEF SignIn, PasswordLogin, SsoLogin, SyncRole, CreateSession, EndSession
    <3>3. ASSUME NEW r \in Requests, Serve(r) PROVE FALSE
      BY <1>3, <3>3 DEF Serve, GetSession, LoadUser, Recheck, VerifyChange, CompletePasswordChange
    <3>4. ASSUME NEW u \in UserIds, Provision(u) \/ ScimUpdate(u) \/ DeleteUser(u) PROVE FALSE
      BY <1>3, <3>4 DEF Provision, ScimUpdate, DeleteUser
    <3>5. ~Crash /\ ~UNCHANGED vars
      BY <1>3 DEF Crash, vars
    <3> QED
      BY <3>1, <3>2, <3>3, <3>4, <3>5 DEF Next, Operate
  <2>2. a = b /\ users' = users
    BY <1>3, <2>1 DEF InitAdmin
  <2>3. PICK promote \in BOOLEAN :
           /\ admin'[a] = [user |-> u, promote |-> promote]
           /\ users[u].provider = "local"
           /\ promote \/ (users[u].role = "admin" /\ users[u].status = "active")
    BY <2>1, <2>2 DEF InitAdmin, AdminStates
  <2> QED
    BY <2>2, <2>3
<1> QED
  BY <1>2, <1>3

-----------------------------------------------------------------------------
(* A new or an old installation satisfies the invariant. *)
LEMMA InitInv == Init => Inv
<1> SUFFICES ASSUME Init PROVE Inv
  OBVIOUS
<1>1. TypeOK
  BY InitType
<1>2. SessionInv /\ LiveSessionsAreCurrent /\ TokenInv /\ FreshInv /\ OperatorInv
  BY DEF Init, SessionInv, LiveSessionsAreCurrent, TokenInv, FreshInv, OperatorInv
<1>3. ASSUME NEW u \in UserIds
      PROVE  users[u].hash <= 1 /\ (users[u].provider = "unborn" => users[u] = NoRow)
  <2>1. CASE users[u] = NoRow
    BY <2>1 DEF NoRow
  <2>2. CASE users[u] # NoRow
    <3>1. \/ users[u] \in [provider : {"local"}, hash : {1}, role : {"user", "admin"},
                           status : {"active", "inactive"}, must : BOOLEAN]
          \/ users[u] \in [provider : {"kysignon"}, hash : {0}, role : {"user", "admin"},
                           status : {"active", "inactive"}, must : {FALSE}]
      BY <2>2, Zenon DEF Init
    <3>2. users[u].hash \in {0, 1} /\ users[u].provider \in {"local", "kysignon"}
      BY <3>1
    <3> QED
      BY <3>2
  <2> QED
    BY <2>1, <2>2
<1>4. HashInv
  <2>1. lastHash = 1 /\ \A l \in Logins : login[l].row = NoRow
    BY Zenon DEF Init
  <2>2. NoRow.hash = 0
    BY DEF NoRow
  <2> QED
    BY <1>3, <2>1, <2>2 DEF HashInv
<1>5. BirthInv
  BY <1>3 DEF Init, BirthInv
<1> QED
  BY <1>1, <1>2, <1>4, <1>5 DEF Inv

(* The inductive invariant the theorems below rest on. *)
THEOREM Invariance == Spec => []Inv
<1>1. Inv /\ [Next]_vars => Inv'
  BY StepType, SessionStep, LiveStep, TokenStep, FreshStep, HashStep, BirthStep,
     OperatorStep DEF Inv
<1> QED
  BY InitInv, <1>1, PTL DEF Spec

(* Every session row belongs to an active account that still has the       *)
(* password the sign-in verified, whatever CreateSession raced with.       *)
THEOREM SessionsCurrent == Spec => []LiveSessionsAreCurrent
<1>1. Inv => LiveSessionsAreCurrent
  BY DEF Inv
<1> QED
  BY Invariance, <1>1, PTL

(* An administrator's handler runs only for a live session of an active    *)
(* administrator, although AuthenticateRequest judges a row it read        *)
(* earlier.                                                                *)
THEOREM AdminGate == Spec => AdminOnly
<1>1. ASSUME Inv, [Next]_vars, NEW r \in Requests,
             rpc[r] = "loaded", rpc'[r] = "authorized", req[r].kind = "admin"
      PROVE  /\ req[r].token \in sessions
             /\ users[Owner(r)].provider \in {"local", "kysignon"}
             /\ users[Owner(r)].role = "admin" /\ users[Owner(r)].status = "active"
             /\ ~users[Owner(r)].must
  <2>1. Recheck(r)
    <3> USE <1>1 DEF Inv, TypeOK, signIns, requests, operators
    <3>1. ASSUME NEW l \in Logins, SignIn(l) PROVE FALSE
      BY <3>1 DEF SignIn, PasswordLogin, SsoLogin, SyncRole, CreateSession, EndSession
    <3>2. ASSUME NEW q \in Requests, Serve(q) PROVE Recheck(r)
      BY <3>2 DEF Serve, GetSession, LoadUser, Recheck, VerifyChange, CompletePasswordChange
    <3>3. ASSUME NEW a \in Operators, Operate(a) PROVE FALSE
      BY <3>3 DEF Operate, InitAdmin, ResetAdminPassword, CreateAdmin
    <3>4. ASSUME NEW u \in UserIds, Provision(u) \/ ScimUpdate(u) \/ DeleteUser(u) PROVE FALSE
      BY <3>4 DEF Provision, ScimUpdate, DeleteUser
    <3>5. ~Crash /\ ~UNCHANGED vars
      BY DEF Crash, vars
    <3> QED
      BY <3>1, <3>2, <3>3, <3>4, <3>5 DEF Next
  <2>2. req[r].token \in sessions /\ Allowed(r)
    BY <1>1, <2>1 DEF Recheck, Inv, TypeOK
  <2>3. req[r].row = users[Owner(r)]
    BY <1>1, <2>2 DEF Inv, FreshInv
  <2>4. StillCurrent(Owner(r), login[req[r].token].row.hash)
    BY <1>1, <2>2 DEF Inv, LiveSessionsAreCurrent, Owner
  <2> QED
    BY <1>1, <2>2, <2>3, <2>4, Zenon DEF Allowed, StillCurrent, Exists
<1>2. ASSUME Inv, [Next]_vars
      PROVE  [\A r \in Requests :
                rpc[r] = "loaded" /\ rpc'[r] = "authorized" /\ req[r].kind = "admin" =>
                   /\ req[r].token \in sessions
                   /\ users[Owner(r)].provider \in {"local", "kysignon"}
                   /\ users[Owner(r)].role = "admin" /\ users[Owner(r)].status = "active"
                   /\ ~users[Owner(r)].must]_vars
  BY <1>1, <1>2, Zenon
<1> QED
  BY Invariance, <1>2, PTL DEF Spec, AdminOnly

(* A temporary password is retired only by a request that verified it. *)
THEOREM ResetHolds == Spec => ResetIsNotOvertaken
<1>1. ASSUME Inv, [Next]_vars, NEW u \in UserIds, users[u].must, ~users'[u].must
      PROVE  \E r \in Requests : /\ rpc[r] = "verified" /\ rpc'[r] = "done"
                                 /\ Owner(r) = u /\ req[r].row.hash = users[u].hash
  <2> USE <1>1 DEF signIns, requests, operators
  <2>1. users \in [UserIds -> Row] /\ users[u] \in Row /\ NoRow.must = FALSE
    BY DEF Inv, TypeOK, NoRow
  <2>2. ASSUME NEW l \in Logins, SignIn(l) PROVE FALSE
    BY <2>1, <2>2 DEF SignIn, PasswordLogin, SsoLogin, SyncRole, CreateSession, EndSession, Row
  <2>3. ASSUME NEW r \in Requests, Serve(r)
        PROVE  /\ rpc[r] = "verified" /\ rpc'[r] = "done"
               /\ Owner(r) = u /\ req[r].row.hash = users[u].hash
    <3>1. users' # users
      OBVIOUS
    <3>2. CompletePasswordChange(r)
      BY <2>3, <3>1 DEF Serve, GetSession, LoadUser, Recheck, VerifyChange
    <3>3. rpc \in [Requests -> RequestStates]
      BY DEF Inv, TypeOK
    <3> QED
      BY <2>1, <3>1, <3>2, <3>3 DEF CompletePasswordChange, StillCurrent
  <2>4. ASSUME NEW a \in Operators, Operate(a) PROVE FALSE
    <3>1. users' # users
      OBVIOUS
    <3>2. admin[a].user = u /\ (ResetAdminPassword(a) \/ CreateAdmin(a))
      BY <2>1, <2>4, <3>1 DEF Operate, InitAdmin, ResetAdminPassword, CreateAdmin
    <3>3. \/ users'[u] = [users[u] EXCEPT !.hash = lastHash + 1, !.must = TRUE,
                                          !.status = "active", !.role = "admin"]
          \/ users'[u] = [provider |-> "local", hash |-> lastHash + 1, role |-> "admin",
                          status |-> "active", must |-> TRUE]
      BY <2>1, <3>1, <3>2 DEF ResetAdminPassword, CreateAdmin
    <3>4. users'[u].must = TRUE
      <4>1. ASSUME NEW w \in Row, NEW h
            PROVE  [w EXCEPT !.hash = h, !.must = TRUE, !.status = "active",
                             !.role = "admin"].must = TRUE
        BY DEF Row
      <4>2. ASSUME NEW h
            PROVE  [provider |-> "local", hash |-> h, role |-> "admin", status |-> "active",
                    must |-> TRUE].must = TRUE
        OBVIOUS
      <4> QED
        BY <2>1, <3>3, <4>1, <4>2, Zenon
    <3> QED
      BY <3>4, Zenon
  <2>5. ASSUME NEW v \in UserIds, Provision(v) \/ ScimUpdate(v) \/ DeleteUser(v) PROVE FALSE
    <3>1. users[u].provider # "unborn"
      BY <2>1, Zenon DEF Inv, BirthInv
    <3>2. \/ users'[u] = users[u]
          \/ \E role \in {"user", "admin"}, st \in {"active", "inactive"} :
               users'[u] = [users[u] EXCEPT !.role = role, !.status = st]
          \/ users'[u] = [users[u] EXCEPT !.provider = "deleted"]
      BY <2>1, <2>5, <3>1 DEF Provision, ScimUpdate, DeleteUser
    <3>3. users'[u].must = users[u].must
      BY <2>1, <3>2, Zenon DEF Row
    <3> QED
      BY <3>3, Zenon
  <2>6. ~Crash /\ ~UNCHANGED vars
    BY DEF Crash, vars
  <2> QED
    BY <2>2, <2>3, <2>4, <2>5, <2>6 DEF Next
<1>2. ASSUME Inv, [Next]_vars
      PROVE  [\A u \in UserIds : users[u].must /\ ~users'[u].must =>
                \E r \in Requests : /\ rpc[r] = "verified" /\ rpc'[r] = "done"
                                    /\ Owner(r) = u /\ req[r].row.hash = users[u].hash]_vars
  BY <1>1, <1>2, Zenon
<1> QED
  BY Invariance, <1>2, PTL DEF Spec, ResetIsNotOvertaken

(* A local account becomes an active administrator only through an         *)
(* init-admin run that was given -promote.                                 *)
THEOREM NoSilentAdmin == Spec => NeverSilentlyAdmin
<1>1. ASSUME Inv, [Next]_vars, NEW u \in UserIds,
             users[u].provider = "local", users'[u].provider = "local",
             users[u].role # "admin" \/ users[u].status # "active",
             users'[u].role = "admin" /\ users'[u].status = "active"
      PROVE  \E a \in Operators : /\ apc[a] = "read" /\ apc'[a] = "done"
                                  /\ admin[a].user = u /\ admin[a].promote
  <2> USE <1>1 DEF signIns, requests, operators
  <2>1. /\ users \in [UserIds -> Row] /\ users[u] \in Row
        /\ login \in [Logins -> Login] /\ apc \in [Operators -> AdminStates]
    BY DEF Inv, TypeOK
  <2>2. ASSUME NEW l \in Logins, SignIn(l) PROVE FALSE
    <3>1. SyncRole(l) => users[login[l].user].provider # "local"
      BY DEF SyncRole, Inv, BirthInv
    <3> QED
      BY <2>1, <2>2, <3>1
      DEF SignIn, PasswordLogin, SsoLogin, SyncRole, CreateSession, EndSession, Row
  <2>3. ASSUME NEW r \in Requests, Serve(r) PROVE FALSE
    <3>1. users' # users
      OBVIOUS
    <3>2. CompletePasswordChange(r)
      BY <2>3, <3>1 DEF Serve, GetSession, LoadUser, Recheck, VerifyChange
    <3>3. users'[u] = [users[u] EXCEPT !.hash = lastHash + 1, !.must = FALSE]
      BY <2>1, <3>1, <3>2 DEF CompletePasswordChange
    <3> QED
      BY <2>1, <3>3 DEF Row
  <2>4. ASSUME NEW a \in Operators, Operate(a)
        PROVE  /\ apc[a] = "read" /\ apc'[a] = "done"
               /\ admin[a].user = u /\ admin[a].promote
    <3>1. users' # users
      OBVIOUS
    <3>2. ResetAdminPassword(a) /\ admin[a].user = u
      BY <2>1, <2>4, <3>1 DEF Operate, InitAdmin, ResetAdminPassword, CreateAdmin
    <3>3. apc[a] = "read" /\ apc'[a] = "done"
      BY <2>1, <3>1, <3>2 DEF ResetAdminPassword
    <3> QED
      BY <3>2, <3>3, Zenon DEF Inv, OperatorInv
  <2>5. ASSUME NEW v \in UserIds, Provision(v) \/ ScimUpdate(v) \/ DeleteUser(v) PROVE FALSE
    BY <2>1, <2>5 DEF Provision, ScimUpdate, DeleteUser
  <2>6. ~Crash /\ ~UNCHANGED vars
    BY DEF Crash, vars
  <2> QED
    BY <2>2, <2>3, <2>4, <2>5, <2>6 DEF Next
<1>2. ASSUME Inv, [Next]_vars
      PROVE  [\A u \in UserIds :
                /\ users[u].provider = "local" /\ users'[u].provider = "local"
                /\ users[u].role # "admin" \/ users[u].status # "active"
                /\ users'[u].role = "admin" /\ users'[u].status = "active"
                => \E a \in Operators : /\ apc[a] = "read" /\ apc'[a] = "done"
                                        /\ admin[a].user = u /\ admin[a].promote]_vars
  BY <1>1, <1>2, Zenon
<1> QED
  BY Invariance, <1>2, PTL DEF Spec, NeverSilentlyAdmin

-----------------------------------------------------------------------------
(* A statement that replaces a hash or deletes an account takes exactly    *)
(* the sessions of that account with it.                                   *)
Revokes(u) ==
    /\ sessions' = sessions \ SessionsOf(u) /\ UNCHANGED signIns
    /\ \A v \in UserIds : v # u => users'[v] = users[v]
    /\ users'[u].provider = "deleted" \/ users'[u].hash = lastHash + 1

(* Any other statement keeps every hash and every account, and hands out   *)
(* no session.                                                             *)
KeysKept ==
    /\ Usable' \subseteq Usable
    /\ \A u \in UserIds : users[u].provider # "unborn" =>
         /\ users'[u].hash = users[u].hash
         /\ (users'[u].provider \in {"local", "kysignon"}) <=> Exists(u)

(* Every step grants, revokes or does neither. *)
LEMMA KeyStep ==
    Inv /\ [Next]_vars =>
      \/ \E l \in Logins : CreateSession(l)
      \/ \E u \in UserIds : Revokes(u)
      \/ KeysKept
<1> SUFFICES ASSUME Inv, [Next]_vars, \A l \in Logins : ~CreateSession(l)
             PROVE  (\E u \in UserIds : Revokes(u)) \/ KeysKept
  BY Zenon
<1> USE DEF signIns, requests, operators
<1>1. /\ users \in [UserIds -> Row] /\ sessions \in SUBSET Logins
      /\ lpc \in [Logins -> LoginStates] /\ login \in [Logins -> Login]
      /\ lastHash \in Nat
  BY DEF Inv, TypeOK
<1>2. SignInsSteady
  BY SteadyStep DEF Inv
<1>3. Usable' \subseteq Usable
  <2>1. \A l \in Logins : lpc'[l] = "issued" => lpc[l] = "issued"
    <3>1. ASSUME NEW l \in Logins, SignIn(l)
          PROVE  \A k \in Logins : lpc'[k] = "issued" => lpc[k] = "issued"
      BY <1>1, <3>1 DEF SignIn, PasswordLogin, SsoLogin, SyncRole, EndSession
    <3>2. CASE Crash
      BY <1>1, <3>2 DEF Crash
    <3>3. CASE UNCHANGED lpc
      BY <3>3
    <3> QED
      BY <3>1, <3>2, <3>3
      DEF Next, Serve, GetSession, LoadUser, Recheck, VerifyChange, CompletePasswordChange,
          Operate, InitAdmin, ResetAdminPassword, CreateAdmin,
          Provision, ScimUpdate, DeleteUser, vars
  <2>2. sessions' \subseteq sessions
    BY <1>2, StepType DEF SignInsSteady, Inv, TypeOK
  <2> QED
    BY <1>1, <2>1, <2>2 DEF Usable
<1>4. CASE UNCHANGED users
  BY <1>3, <1>4 DEF KeysKept, Exists
<1>5. ASSUME NEW l \in Logins, SyncRole(l) PROVE KeysKept
  <2>1. login[l].user \in UserIds /\ users[login[l].user] \in Row
    BY <1>1 DEF Login
  <2>2. PICK role \in {"user", "admin"} :
           UNCHANGED users \/ users' = [users EXCEPT ![login[l].user].role = role]
    BY <1>5 DEF SyncRole
  <2> QED
    BY <1>1, <1>3, <2>1, <2>2 DEF KeysKept, Exists, Row
<1>6. ASSUME NEW r \in Requests, CompletePasswordChange(r), users' # users
      PROVE  Owner(r) \in UserIds /\ Revokes(Owner(r))
  <2>1. Owner(r) \in UserIds /\ users[Owner(r)] \in Row
    BY DEF Inv, TypeOK, Owner, Login, Request
  <2> QED
    BY <1>1, <1>6, <2>1 DEF CompletePasswordChange, Revokes, Row
<1>7. ASSUME NEW a \in Operators, ResetAdminPassword(a), users' # users
      PROVE  admin[a].user \in UserIds /\ Revokes(admin[a].user)
  <2>1. admin[a].user \in UserIds /\ users[admin[a].user] \in Row
    BY DEF Inv, TypeOK, Admin
  <2> QED
    <3>1. ASSUME NEW w \in Row, NEW h
          PROVE  [w EXCEPT !.hash = h, !.must = TRUE, !.status = "active",
                           !.role = "admin"].hash = h
      BY DEF Row
    <3>2. /\ users' = [users EXCEPT ![admin[a].user] =
                         [@ EXCEPT !.hash = lastHash + 1, !.must = TRUE,
                                   !.status = "active", !.role = "admin"]]
          /\ sessions' = sessions \ SessionsOf(admin[a].user) /\ UNCHANGED signIns
      BY <1>7, Zenon DEF ResetAdminPassword
    <3>3. /\ users'[admin[a].user].hash = lastHash + 1
          /\ \A v \in UserIds : v # admin[a].user => users'[v] = users[v]
      BY <1>1, <2>1, <3>1, <3>2
    <3> QED
      BY <2>1, <3>2, <3>3, Zenon DEF Revokes
<1>8. ASSUME NEW a \in Operators, CreateAdmin(a) PROVE KeysKept
  <2>1. admin[a].user \in UserIds
    BY DEF Inv, TypeOK, Admin
  <2> QED
    BY <1>1, <1>3, <1>8, <2>1 DEF CreateAdmin, KeysKept, Exists
<1>9. ASSUME NEW u \in UserIds, Provision(u) \/ ScimUpdate(u) PROVE KeysKept
  <2>1. users[u] \in Row
    BY <1>1
  <2>2. CASE Provision(u)
    <3>1. users[u].provider = "unborn" /\ \A v \in UserIds : v # u => users'[v] = users[v]
      BY <1>1, <2>2 DEF Provision
    <3> QED
      BY <1>3, <3>1 DEF KeysKept, Exists
  <2>3. CASE ScimUpdate(u)
    <3>1. /\ users'[u].hash = users[u].hash /\ users'[u].provider = users[u].provider
          /\ \A v \in UserIds : v # u => users'[v] = users[v]
      BY <1>1, <2>1, <2>3 DEF ScimUpdate, Row
    <3> QED
      BY <1>3, <3>1 DEF KeysKept, Exists
  <2> QED
    BY <1>9, <2>2, <2>3
<1>10. ASSUME NEW u \in UserIds, DeleteUser(u) PROVE Revokes(u)
  <2>1. users[u] \in Row
    BY <1>1
  <2> QED
    BY <1>1, <1>10, <2>1 DEF DeleteUser, Revokes, Row
<1> QED
  <2>1. ASSUME NEW l \in Logins, SignIn(l) PROVE UNCHANGED users \/ SyncRole(l)
    BY <2>1 DEF SignIn, PasswordLogin, SsoLogin, EndSession
  <2>2. ASSUME NEW r \in Requests, Serve(r) PROVE UNCHANGED users \/ CompletePasswordChange(r)
    BY <2>2 DEF Serve, GetSession, LoadUser, Recheck, VerifyChange
  <2>3. ASSUME NEW a \in Operators, Operate(a)
        PROVE  UNCHANGED users \/ ResetAdminPassword(a) \/ CreateAdmin(a)
    BY <2>3 DEF Operate, InitAdmin
  <2>4. CASE Crash \/ UNCHANGED vars
    BY <1>4, <2>4 DEF Crash, vars
  <2> QED
    BY <1>4, <1>5, <1>6, <1>7, <1>8, <1>9, <1>10, <2>1, <2>2, <2>3, <2>4 DEF Next

(* Changing or resetting a password and deleting an account are atomic     *)
(* revocations: Accounts implements Revocation.                            *)
THEOREM Refinement == Spec => RefinesRevocation
<1>1. Init => Promise!Init
  BY DEF Init, Promise!Init, Usable, Condemned
<1>2. ASSUME Inv, [Next]_vars PROVE [Promise!Next]_<<Usable, Condemned>>
  <2> USE <1>2
  <2>1. /\ SignInsSteady /\ LoginsRead
        /\ sessions \in SUBSET Logins /\ lpc \in [Logins -> LoginStates]
    BY SteadyStep, ReadStep DEF Inv, TypeOK
  <2>2. Usable \cap Condemned = {}
    BY DEF Usable, Condemned, Inv, LiveSessionsAreCurrent, StillCurrent
  <2>3. ASSUME NEW l \in Logins, CreateSession(l) PROVE [Promise!Next]_<<Usable, Condemned>>
    <3>1. Condemned' = Condemned
      BY <2>1, <2>3 DEF CreateSession, Condemned, Exists
    <3>2. CASE lpc'[l] = "issued"
      <4>1. StillCurrent(login[l].user, login[l].row.hash) /\ sessions' = sessions \cup {l}
        BY <2>1, <2>3, <3>2 DEF CreateSession
      <4>2. l \notin Usable \cup Condemned
        BY <2>3, <4>1 DEF CreateSession, Usable, Condemned, StillCurrent
      <4>3. Usable' = Usable \cup {l}
        BY <2>1, <2>3, <3>2, <4>1 DEF CreateSession, Usable
      <4> QED
        BY <3>1, <4>2, <4>3 DEF Promise!Next, Promise!Grant
    <3>3. CASE lpc'[l] # "issued"
      <4>1. Usable' = Usable
        BY <2>1, <2>3, <3>3 DEF CreateSession, Usable
      <4> QED
        BY <3>1, <4>1
    <3> QED
      BY <3>2, <3>3
  <2>4. ASSUME NEW u \in UserIds, Revokes(u) PROVE [Promise!Next]_<<Usable, Condemned>>
    <3> DEFINE T == {l \in Logins : lpc[l] # "idle" /\ login[l].user = u}
    <3>1. users[u].hash \in Nat /\ lastHash \in Nat /\ \A l \in Logins : login[l].row.hash \in Nat
      BY DEF Inv, TypeOK, Row, Login
    <3>2. \A l \in Logins : login[l].row.hash < lastHash + 1
      BY <3>1 DEF Inv, HashInv
    <3>3. Condemned' = Condemned \cup T
      <4>1. ASSUME NEW l \in T PROVE l \in Condemned'
        BY <2>4, <3>1, <3>2, <4>1 DEF Revokes, Condemned, Exists, signIns
      <4>2. ASSUME NEW l \in Logins, l \notin T PROVE l \in Condemned' <=> l \in Condemned
        <5>1. CASE lpc[l] = "idle"
          BY <2>4, <5>1 DEF Revokes, Condemned, signIns
        <5>2. CASE lpc[l] # "idle"
          <6>1. login[l].user \in UserIds /\ login[l].user # u
            BY <4>2, <5>2 DEF Inv, TypeOK, Login
          <6> QED
            BY <2>4, <5>2, <6>1 DEF Revokes, Condemned, Exists, signIns
        <5> QED
          BY <5>1, <5>2
      <4> QED
        BY <4>1, <4>2 DEF Condemned
    <3>4. Usable' = Usable \ T
      BY <2>1, <2>4 DEF Revokes, Usable, SessionsOf, signIns
    <3> QED
      BY <3>3, <3>4 DEF Promise!Next, Promise!Revoke
  <2>5. CASE KeysKept
    <3>1. Condemned' = Condemned
      <4>1. ASSUME NEW l \in Logins PROVE l \in Condemned' <=> l \in Condemned
        <5>1. CASE lpc[l] = "idle"
          <6>1. l \notin Condemned
            BY <5>1 DEF Condemned
          <6>2. CASE lpc'[l] = "idle"
            BY <6>1, <6>2 DEF Condemned
          <6>3. CASE lpc'[l] # "idle"
            <7>1. PICK u \in UserIds : /\ login'[l] = [user |-> u, row |-> users[u]]
                                       /\ Exists(u) /\ users' = users
              BY <2>1, <5>1, <6>3 DEF LoginsRead
            <7>2. login'[l].user = u /\ login'[l].row = users[u]
              BY <7>1
            <7> QED
              BY <6>1, <7>1, <7>2, Zenon DEF Condemned, Exists
          <6> QED
            BY <6>2, <6>3
        <5>2. CASE lpc[l] # "idle"
          <6>1. /\ login'[l] = login[l] /\ lpc'[l] # "idle" /\ login[l].user \in UserIds
                /\ users[login[l].user].provider # "unborn"
            BY <2>1, <5>2 DEF SignInsSteady, LoginsRead, Inv, BirthInv, TypeOK, Login
          <6> QED
            BY <2>5, <5>2, <6>1 DEF KeysKept, Condemned, Exists
        <5> QED
          BY <5>1, <5>2
      <4> QED
        BY <4>1 DEF Condemned
    <3>2. Usable' = Usable \ (Usable \ Usable') /\ Usable \ Usable' \in SUBSET Logins
      BY <2>1, <2>5 DEF KeysKept, Usable
    <3> QED
      BY <3>1, <3>2 DEF Promise!Next, Promise!Retire
  <2> QED
    BY KeyStep, <2>3, <2>4, <2>5
<1> QED
  BY Invariance, <1>1, <1>2, PTL DEF Spec, RefinesRevocation, Promise!Spec

=============================================================================

-------------------------- MODULE SsoLogoutProofs ---------------------------
(***************************************************************************)
(* Proofs about SsoLogout for any number of sign-ins, logouts, sids,       *)
(* subjects and accounts, and any window shorter than the fence.           *)
(***************************************************************************)
EXTENDS SsoLogout, TLAPS

Started(l) == lpc[l] # "idle"
Sent(o) == opc[o] # "idle"
FenceUp(o) == opc[o] \in {"written", "done"}

(* The clock: a running callback is inside its window, a token is minted   *)
(* no earlier than its sign-in began, and nothing carries a future date.   *)
ClockInv ==
    /\ \A l \in Logins :
         /\ Started(l) => login[l].startedAt <= now
         /\ login[l].issuedAt <= now
         /\ InFlight(l) => now <= login[l].startedAt + CallbackWindow
         /\ InFlight(l) /\ Minted(l) => login[l].startedAt <= login[l].issuedAt
    /\ \A o \in Logouts :
         /\ logout[o].issuedAt <= now
         /\ opc[o] \in {"received", "pruned", "written", "done"} =>
              logout[o].issuedAt + ssoLogoutFence <= logout[o].fenceUntil

(* The provider starts no sign-in under a sid it ended: every sign-in of a *)
(* sid began no later than any logout of that sid was issued.              *)
ProviderInv ==
    \A o \in Logouts : Sent(o) /\ BySid(o) =>
        /\ logout[o].sid \in idpEnded
        /\ \A l \in Logins : Started(l) /\ login[l].sid = logout[o].sid =>
              login[l].startedAt <= logout[o].issuedAt

(* A sid fence covers the whole window of every sign-in of the sid, or     *)
(* that window is over.                                                    *)
SidFenceInv ==
    \A o \in Logouts : FenceUp(o) /\ BySid(o) =>
        \A l \in Logins : Started(l) /\ login[l].sid = logout[o].sid =>
            \/ login[l].startedAt + CallbackWindow < sso_logouts[logout[o].sid]
            \/ login[l].startedAt + CallbackWindow < now

(* A subject fence is kept for ssoLogoutFence from the iat behind its      *)
(* cutoff; a logout's cutoff is in the table, or superseded by a later     *)
(* one, until then.                                                        *)
SubjectFenceInv ==
    /\ \A x \in Subjects :
         LET f == sso_subject_logouts[x]
         IN  f.cutoff > 0 => f.cutoff + ssoLogoutFence <= f.expires + 1
    /\ \A o \in Logouts : FenceUp(o) /\ ~BySid(o) =>
         \/ Cutoff(o) <= sso_subject_logouts[logout[o].subject].cutoff
         \/ logout[o].issuedAt + ssoLogoutFence <= now

(* A callback past its lookup, and every session row, belongs to an        *)
(* account linked to the subject of its ID token.                          *)
AccountInv ==
    \A l \in Logins :
        /\ lpc[l] \in {"resolved", "synced", "check"} =>
             /\ users[login[l].user].provider \in {"kysignon", "deleted"}
             /\ users[login[l].user].subject = login[l].subject
        /\ l \in sessions =>
             /\ lpc[l] \in {"check", "issued", "fenced", "refused"}
             /\ users[login[l].user].provider = "kysignon"
             /\ users[login[l].user].subject = login[l].subject

(* Every fence in the tables was written by a logout that carries its data,*)
(* and every refused sign-in was refused by one.                           *)
OriginInv ==
    /\ \A s \in Sids : sso_logouts[s] > 0 =>
         \E o \in Logouts : /\ opc[o] \in {"written", "done", "failed"}
                            /\ BySid(o) /\ logout[o].sid = s
    /\ \A x \in Subjects : sso_subject_logouts[x].cutoff > 0 =>
         \E o \in Logouts : /\ opc[o] \in {"written", "done", "failed"}
                            /\ ~BySid(o) /\ logout[o].subject = x
                            /\ Cutoff(o) = sso_subject_logouts[x].cutoff

Inv == /\ TypeOK /\ ClockInv /\ ProviderInv /\ SidFenceInv /\ SubjectFenceInv
       /\ AccountInv /\ EndedStaysEnded

-----------------------------------------------------------------------------
(* TypeOK holds initially: AnySubject and the filler account are members   *)
(* of their sets.                                                          *)
LEMMA InitType == Init => TypeOK
  BY FenceOutlivesCallback, SomebodyExists
  DEF Init, TypeOK, AnySubject, User, Login, Logout, NoFence, Fence,
      LoginStates, LogoutStates

(* Every statement of the two handlers keeps the types of rows, fences and *)
(* handler data.                                                           *)
LEMMA StepType == TypeOK /\ [Next]_vars => TypeOK'
<1> SUFFICES ASSUME TypeOK, [Next]_vars PROVE TypeOK'
  OBVIOUS
<1> USE FenceOutlivesCallback DEF TypeOK, tables, callbacks, receivers, LoginStates, LogoutStates
<1>1. CASE Tick
  BY <1>1 DEF Tick
<1>2. CASE Crash
  BY <1>2 DEF Crash
<1>3. ASSUME NEW l \in Logins, Callback(l) PROVE TypeOK'
  <2>1. CASE StartLogin(l)
    <3>1. PICK x \in Subjects, sid \in (Sids \ idpEnded) \cup {NoSid} :
             login' = [login EXCEPT ![l] = [@ EXCEPT !.subject = x, !.sid = sid,
                                                     !.startedAt = now]]
      BY <2>1 DEF StartLogin
    <3>2. [login[l] EXCEPT !.subject = x, !.sid = sid, !.startedAt = now] \in Login
      BY DEF Login
    <3>3. login' \in [Logins -> Login]
      BY <3>1, <3>2
    <3> QED
      BY <2>1, <3>3 DEF StartLogin
  <2>2. CASE ExchangeCode(l)
    BY <2>2 DEF ExchangeCode, Login
  <2>3. CASE ResolveUser(l)
    <3>1. PICK u \in UserIds :
             /\ users' = [users EXCEPT ![u] = [@ EXCEPT !.provider = "kysignon",
                                                        !.subject = login[l].subject]]
             /\ login' = [login EXCEPT ![l].user = u]
             /\ lpc' = [lpc EXCEPT ![l] = IF users[u].status = "active"
                                          THEN "resolved" ELSE "refused"]
      BY <2>3 DEF ResolveUser
    <3>2. login[l].subject \in Subjects
      BY DEF Login
    <3>3. users[u] \in User
      OBVIOUS
    <3> HIDE DEF TypeOK
    <3>4. [users[u] EXCEPT !.provider = "kysignon", !.subject = login[l].subject] \in User
      BY <3>2, <3>3 DEF User
    <3> USE DEF TypeOK
    <3>5. users' \in [UserIds -> User]
      BY <3>1, <3>4
    <3>6. login' \in [Logins -> Login]
      BY <3>1 DEF Login
    <3> QED
      BY <2>3, <3>1, <3>5, <3>6 DEF ResolveUser
  <2>4. CASE SyncRole(l)
    BY <2>4 DEF SyncRole
  <2>5. CASE InsertSession(l)
    BY <2>5 DEF InsertSession
  <2>6. CASE CheckFences(l)
    BY <2>6 DEF CheckFences
  <2>7. CASE CallbackFails(l)
    BY <2>7 DEF CallbackFails
  <2>8. CASE EndOwnSession(l)
    BY <2>8 DEF EndOwnSession
  <2> QED
    BY <1>3, <2>1, <2>2, <2>3, <2>4, <2>5, <2>6, <2>7, <2>8 DEF Callback
<1>4. ASSUME NEW o \in Logouts, Receiver(o) PROVE TypeOK'
  <2>1. CASE SendLogout(o)
    <3>1. PICK s \in Sids \cup {NoSid}, x \in Subjects :
             /\ logout' = [logout EXCEPT ![o] = [@ EXCEPT !.sid = s, !.subject = x,
                                                          !.issuedAt = now]]
             /\ idpEnded' = idpEnded \cup ({s} \ {NoSid})
      BY <2>1 DEF SendLogout
    <3>2. [logout[o] EXCEPT !.sid = s, !.subject = x, !.issuedAt = now] \in Logout
      BY DEF Logout
    <3>3. logout' \in [Logouts -> Logout]
      BY <3>1, <3>2
    <3> QED
      BY <2>1, <3>1, <3>3 DEF SendLogout
  <2>2. CASE ReceiveLogout(o)
    BY <2>2 DEF ReceiveLogout, Logout
  <2>3. CASE PruneFences(o)
    <3>1. NoFence \in Fence
      BY DEF NoFence, Fence
    <3> QED
      BY <2>3, <3>1 DEF PruneFences
  <2>4. CASE WriteFence(o)
    <3>1. /\ logout[o].sid \in Sids \cup {NoSid} /\ logout[o].subject \in Subjects
          /\ logout[o].fenceUntil \in Nat /\ Cutoff(o) \in Nat
      BY DEF Logout, Cutoff
    <3>2. [cutoff |-> Cutoff(o), expires |-> logout[o].fenceUntil] \in Fence
      BY <3>1 DEF Fence
    <3>3. sso_subject_logouts' \in [Subjects -> Fence]
      BY <2>4, <3>2 DEF WriteFence
    <3>4. sso_logouts' \in [Sids -> Nat]
      BY <2>4, <3>1 DEF WriteFence, BySid
    <3> QED
      BY <2>4, <3>3, <3>4 DEF WriteFence
  <2>5. CASE DeleteSessions(o)
    BY <2>5 DEF DeleteSessions
  <2>6. CASE LogoutFails(o)
    BY <2>6 DEF LogoutFails
  <2>7. ASSUME NEW p \in Logouts, ResendLogout(o, p) PROVE TypeOK'
    BY <2>7 DEF ResendLogout, Logout
  <2> QED
    BY <1>4, <2>1, <2>2, <2>3, <2>4, <2>5, <2>6, <2>7 DEF Receiver
<1>5. ASSUME NEW u \in UserIds, ScimCreate(u) \/ ScimUpdate(u) \/ DeleteUser(u)
      PROVE  TypeOK'
  <2>1. CASE ScimUpdate(u)
    <3>1. PICK st \in {"active", "inactive"}, x \in Subjects :
             users' = [users EXCEPT ![u] = [@ EXCEPT !.status = st, !.subject = x]]
      BY <2>1 DEF ScimUpdate
    <3>2. [users[u] EXCEPT !.status = st, !.subject = x] \in User
      BY DEF User
    <3>3. users' \in [UserIds -> User]
      BY <3>1, <3>2
    <3>4. sessions' \in SUBSET Logins
      BY <2>1 DEF ScimUpdate
    <3> QED
      BY <2>1, <3>3, <3>4 DEF ScimUpdate
  <2>2. CASE ScimCreate(u)
    BY <2>2 DEF ScimCreate, User
  <2>3. CASE DeleteUser(u)
    BY <2>3 DEF DeleteUser, User
  <2> QED
    BY <1>5, <2>1, <2>2, <2>3
<1>6. CASE UNCHANGED vars
  BY <1>6 DEF vars
<1> QED
  BY <1>1, <1>2, <1>3, <1>4, <1>5, <1>6 DEF Next

(* TypeOK is an invariant of the two handlers for any number of them. *)
THEOREM TypeCorrect == Spec => []TypeOK
<1> QED
  BY InitType, StepType, PTL DEF Spec

-----------------------------------------------------------------------------
(* What the actions that write several fields do to them, field by field.  *)

(* A sign-in starts now, under a sid the provider has not ended; its token *)
(* is not minted yet.                                                      *)
LEMMA StartLoginEffect ==
  ASSUME TypeOK, NEW l \in Logins, StartLogin(l)
  PROVE  /\ lpc[l] = "idle" /\ lpc' = [lpc EXCEPT ![l] = "browser"]
         /\ \A k \in Logins : k # l => login'[k] = login[k]
         /\ login'[l].startedAt = now /\ login'[l].issuedAt = login[l].issuedAt
         /\ login'[l].sid \notin idpEnded
         /\ UNCHANGED <<now, tables, receivers>>
<1>1. PICK x \in Subjects, sid \in (Sids \ idpEnded) \cup {NoSid} :
         login' = [login EXCEPT ![l] = [@ EXCEPT !.subject = x, !.sid = sid,
                                                 !.startedAt = now]]
  BY DEF StartLogin
<1>2. login[l] \in Login /\ idpEnded \subseteq Sids /\ login \in [Logins -> Login]
  BY DEF TypeOK
<1>3. login'[l].startedAt = now /\ login'[l].issuedAt = login[l].issuedAt
      /\ login'[l].sid = sid
  BY <1>1, <1>2 DEF Login
<1>4. sid \notin idpEnded
  BY <1>2, FenceOutlivesCallback
<1>5. \A k \in Logins : k # l => login'[k] = login[k]
  BY <1>1, <1>2
<1> QED
  BY <1>3, <1>4, <1>5 DEF StartLogin

(* The lookup settles on one account, linked to the token's subject. *)
LEMMA ResolveUserEffect ==
  ASSUME TypeOK, NEW l \in Logins, ResolveUser(l)
  PROVE  \E u \in UserIds :
           /\ users[u].provider \in {"unborn", "scim", "kysignon"}
           /\ users[u].provider = "kysignon" => users[u].subject = login[l].subject
           /\ users'[u].provider = "kysignon"
           /\ users'[u].subject = login[l].subject
           /\ \A w \in UserIds : w # u => users'[w] = users[w]
           /\ login'[l].user = u
           /\ login'[l].sid = login[l].sid /\ login'[l].subject = login[l].subject
           /\ login'[l].startedAt = login[l].startedAt
           /\ login'[l].issuedAt = login[l].issuedAt
           /\ \A k \in Logins : k # l => login'[k] = login[k]
<1>1. PICK u \in UserIds :
         /\ users[u].provider \in {"unborn", "scim", "kysignon"}
         /\ users[u].provider = "kysignon" => users[u].subject = login[l].subject
         /\ users' = [users EXCEPT ![u] = [@ EXCEPT !.provider = "kysignon",
                                                    !.subject = login[l].subject]]
         /\ login' = [login EXCEPT ![l].user = u]
  BY DEF ResolveUser, Matching
<1>2. /\ users \in [UserIds -> User] /\ users[u] \in User
      /\ login \in [Logins -> Login] /\ login[l] \in Login
  BY DEF TypeOK
<1>3. users'[u].provider = "kysignon" /\ users'[u].subject = login[l].subject
  BY <1>1, <1>2 DEF User
<1>4. \A w \in UserIds : w # u => users'[w] = users[w]
  BY <1>1, <1>2
<1>5. /\ login'[l].user = u
      /\ login'[l].sid = login[l].sid /\ login'[l].subject = login[l].subject
      /\ login'[l].startedAt = login[l].startedAt
      /\ login'[l].issuedAt = login[l].issuedAt
      /\ \A k \in Logins : k # l => login'[k] = login[k]
  BY <1>1, <1>2 DEF Login
<1> QED
  BY <1>1, <1>3, <1>4, <1>5

(* A logout token is issued now; its sid, if any, has ended. *)
LEMMA SendLogoutEffect ==
  ASSUME TypeOK, NEW o \in Logouts, SendLogout(o)
  PROVE  /\ opc[o] = "idle" /\ opc' = [opc EXCEPT ![o] = "sent"]
         /\ logout'[o].issuedAt = now
         /\ logout'[o].sid # NoSid => logout'[o].sid \in idpEnded'
         /\ idpEnded \subseteq idpEnded'
         /\ \A p \in Logouts : p # o => logout'[p] = logout[p]
         /\ UNCHANGED <<now, tables, callbacks>>
<1>1. PICK s \in Sids \cup {NoSid}, x \in Subjects :
         /\ logout' = [logout EXCEPT ![o] = [@ EXCEPT !.sid = s, !.subject = x,
                                                      !.issuedAt = now]]
         /\ idpEnded' = idpEnded \cup ({s} \ {NoSid})
  BY DEF SendLogout
<1>2. logout \in [Logouts -> Logout] /\ logout[o] \in Logout
  BY DEF TypeOK
<1>3. logout'[o].issuedAt = now /\ logout'[o].sid = s
  BY <1>1, <1>2 DEF Logout
<1>4. \A p \in Logouts : p # o => logout'[p] = logout[p]
  BY <1>1, <1>2
<1> QED
  BY <1>1, <1>3, <1>4 DEF SendLogout

(* A second delivery carries the first one's token. *)
LEMMA ResendLogoutEffect ==
  ASSUME TypeOK, NEW o \in Logouts, NEW p \in Logouts, ResendLogout(o, p)
  PROVE  /\ opc[o] = "idle" /\ opc[p] # "idle" /\ opc' = [opc EXCEPT ![o] = "sent"]
         /\ logout'[o].issuedAt = logout[p].issuedAt
         /\ logout'[o].sid = logout[p].sid
         /\ logout'[o].subject = logout[p].subject
         /\ \A q \in Logouts : q # o => logout'[q] = logout[q]
         /\ UNCHANGED <<now, tables, callbacks, idpEnded>>
<1>1. logout \in [Logouts -> Logout] /\ logout[p] \in Logout
  BY DEF TypeOK
<1> QED
  BY <1>1 DEF ResendLogout, Logout

(* Receiving a token only fixes the end of its fence. *)
LEMMA ReceiveLogoutEffect ==
  ASSUME TypeOK, NEW o \in Logouts, ReceiveLogout(o)
  PROVE  /\ opc[o] = "sent" /\ opc' = [opc EXCEPT ![o] = "received"]
         /\ logout'[o].issuedAt = logout[o].issuedAt
         /\ logout'[o].sid = logout[o].sid
         /\ logout'[o].subject = logout[o].subject
         /\ logout'[o].fenceUntil = now + ssoLogoutFence
         /\ \A q \in Logouts : q # o => logout'[q] = logout[q]
         /\ UNCHANGED <<now, tables, callbacks, idpEnded>>
<1>1. logout \in [Logouts -> Logout] /\ logout[o] \in Logout
  BY DEF TypeOK
<1> QED
  BY <1>1 DEF ReceiveLogout, Logout

(* The exchange only dates the token. *)
LEMMA ExchangeCodeEffect ==
  ASSUME TypeOK, NEW l \in Logins, ExchangeCode(l)
  PROVE  /\ lpc[l] = "browser" /\ lpc' = [lpc EXCEPT ![l] = "exchanged"]
         /\ login'[l].issuedAt = now
         /\ login'[l].sid = login[l].sid /\ login'[l].subject = login[l].subject
         /\ login'[l].startedAt = login[l].startedAt
         /\ login'[l].user = login[l].user
         /\ \A k \in Logins : k # l => login'[k] = login[k]
         /\ UNCHANGED <<now, tables, receivers>>
<1>1. login \in [Logins -> Login] /\ login[l] \in Login
  BY DEF TypeOK
<1> QED
  BY <1>1 DEF ExchangeCode, Login

(* The fields that proofs compare are numbers. *)
LEMMA Numbers ==
  ASSUME TypeOK
  PROVE  /\ now \in Nat
         /\ \A l \in Logins : login[l].startedAt \in Nat /\ login[l].issuedAt \in Nat
         /\ \A l \in Logins : login[l].user \in UserIds /\ login[l].subject \in Subjects
         /\ \A o \in Logouts : logout[o].issuedAt \in Nat /\ logout[o].fenceUntil \in Nat
         /\ \A o \in Logouts : logout[o].subject \in Subjects
         /\ \A o \in Logouts : BySid(o) => logout[o].sid \in Sids
         /\ \A s \in Sids : sso_logouts[s] \in Nat
         /\ \A x \in Subjects : /\ sso_subject_logouts[x].cutoff \in Nat
                               /\ sso_subject_logouts[x].expires \in Nat
  BY DEF TypeOK, Login, Logout, Fence, BySid

-----------------------------------------------------------------------------
(* ClockInv is preserved: only Tick moves the clock, and it waits for the  *)
(* callbacks whose window ends.                                            *)
LEMMA ClockStep == Inv /\ [Next]_vars => ClockInv'
<1> SUFFICES ASSUME Inv, [Next]_vars PROVE ClockInv'
  OBVIOUS
<1> USE FenceOutlivesCallback DEF ClockInv, Started, Minted, InFlight
<1>0. /\ TypeOK /\ TypeOK' /\ ClockInv
      /\ lpc \in [Logins -> LoginStates] /\ opc \in [Logouts -> LogoutStates]
  BY StepType DEF Inv, TypeOK
<1>9. /\ now \in Nat
      /\ \A l \in Logins : login[l].startedAt \in Nat /\ login[l].issuedAt \in Nat
      /\ \A o \in Logouts : logout[o].issuedAt \in Nat /\ logout[o].fenceUntil \in Nat
  BY <1>0, Numbers
<1>1. CASE Tick
  BY <1>0, <1>9, <1>1 DEF Tick, callbacks, receivers
<1>2. CASE Crash
  BY <1>0, <1>9, <1>2 DEF Crash
<1>3. ASSUME NEW l \in Logins, Callback(l) PROVE ClockInv'
  <2>1. CASE StartLogin(l)
    BY <1>0, <1>9, <2>1, StartLoginEffect DEF tables, receivers
  <2>2. CASE ExchangeCode(l)
    BY <1>0, <1>9, <2>2, ExchangeCodeEffect DEF tables, receivers
  <2>3. CASE ResolveUser(l)
    <3>1. /\ \A k \in Logins : /\ login'[k].startedAt = login[k].startedAt
                               /\ login'[k].issuedAt = login[k].issuedAt
          /\ UNCHANGED <<now, opc, logout>>
          /\ lpc[l] = "exchanged" /\ lpc'[l] \in {"resolved", "refused"}
          /\ \A k \in Logins : k # l => lpc'[k] = lpc[k]
      BY <1>0, <2>3, ResolveUserEffect DEF ResolveUser, receivers
    <3> QED
      BY <1>0, <1>9, <3>1
  <2>4. CASE SyncRole(l) \/ InsertSession(l) \/ CheckFences(l) \/ CallbackFails(l)
             \/ EndOwnSession(l)
    BY <1>0, <1>9, <2>4
    DEF SyncRole, InsertSession, CheckFences, CallbackFails, EndOwnSession,
        callbacks, receivers
  <2> QED
    BY <1>3, <2>1, <2>2, <2>3, <2>4 DEF Callback
<1>4. ASSUME NEW o \in Logouts, Receiver(o) PROVE ClockInv'
  <2>1. CASE SendLogout(o)
    BY <1>0, <1>9, <2>1, SendLogoutEffect DEF tables, callbacks
  <2>2. CASE ReceiveLogout(o)
    BY <1>0, <1>9, <2>2, ReceiveLogoutEffect DEF tables, callbacks
  <2>3. CASE PruneFences(o) \/ WriteFence(o) \/ DeleteSessions(o) \/ LogoutFails(o)
    BY <1>0, <1>9, <2>3
    DEF PruneFences, WriteFence, DeleteSessions, LogoutFails, callbacks
  <2>4. ASSUME NEW p \in Logouts, ResendLogout(o, p) PROVE ClockInv'
    BY <1>0, <1>9, <2>4, ResendLogoutEffect DEF tables, callbacks
  <2> QED
    BY <1>4, <2>1, <2>2, <2>3, <2>4 DEF Receiver
<1>5. ASSUME NEW u \in UserIds, ScimCreate(u) \/ ScimUpdate(u) \/ DeleteUser(u)
      PROVE  ClockInv'
  BY <1>0, <1>5 DEF ScimCreate, ScimUpdate, DeleteUser, callbacks, receivers
<1>6. CASE UNCHANGED vars
  BY <1>0, <1>6 DEF vars, callbacks, receivers
<1> QED
  BY <1>1, <1>2, <1>3, <1>4, <1>5, <1>6 DEF Next

(* ProviderInv is preserved: StartLogin takes no ended sid, and a logout   *)
(* is issued after every sign-in already started.                          *)
LEMMA ProviderStep == Inv /\ [Next]_vars => ProviderInv'
<1> SUFFICES ASSUME Inv, [Next]_vars PROVE ProviderInv'
  OBVIOUS
<1> USE DEF ProviderInv, Started, Sent, BySid
<1>0. /\ TypeOK /\ TypeOK' /\ ProviderInv
      /\ \A l \in Logins : lpc[l] # "idle" => login[l].startedAt <= now
      /\ lpc \in [Logins -> LoginStates] /\ opc \in [Logouts -> LogoutStates]
  BY StepType DEF Inv, TypeOK, ClockInv
<1>1. CASE Tick
  BY <1>0, <1>1 DEF Tick, callbacks, receivers
<1>2. CASE Crash
  BY <1>0, <1>2 DEF Crash, InFlight, Minted
<1>3. ASSUME NEW l \in Logins, Callback(l) PROVE ProviderInv'
  <2>1. CASE StartLogin(l)
    BY <1>0, <2>1, StartLoginEffect DEF receivers
  <2>2. CASE ExchangeCode(l)
    BY <1>0, <2>2, ExchangeCodeEffect DEF receivers
  <2>3. CASE ResolveUser(l)
    <3>1. /\ \A k \in Logins : /\ login'[k].startedAt = login[k].startedAt
                               /\ login'[k].sid = login[k].sid
          /\ UNCHANGED <<opc, logout, idpEnded>>
          /\ lpc[l] = "exchanged"
          /\ \A k \in Logins : k # l => lpc'[k] = lpc[k]
      BY <1>0, <2>3, ResolveUserEffect DEF ResolveUser, receivers
    <3> QED
      BY <1>0, <3>1
  <2>4. CASE SyncRole(l) \/ InsertSession(l) \/ CheckFences(l) \/ CallbackFails(l)
             \/ EndOwnSession(l)
    BY <1>0, <2>4
    DEF SyncRole, InsertSession, CheckFences, CallbackFails, EndOwnSession,
        InFlight, callbacks, receivers
  <2> QED
    BY <1>3, <2>1, <2>2, <2>3, <2>4 DEF Callback
<1>4. ASSUME NEW o \in Logouts, Receiver(o) PROVE ProviderInv'
  <2>1. CASE SendLogout(o)
    BY <1>0, <2>1, SendLogoutEffect DEF callbacks
  <2>2. CASE ReceiveLogout(o)
    BY <1>0, <2>2, ReceiveLogoutEffect DEF callbacks
  <2>3. CASE PruneFences(o) \/ WriteFence(o) \/ DeleteSessions(o) \/ LogoutFails(o)
    BY <1>0, <2>3
    DEF PruneFences, WriteFence, DeleteSessions, LogoutFails, callbacks
  <2>4. ASSUME NEW p \in Logouts, ResendLogout(o, p) PROVE ProviderInv'
    BY <1>0, <2>4, ResendLogoutEffect DEF callbacks
  <2> QED
    BY <1>4, <2>1, <2>2, <2>3, <2>4 DEF Receiver
<1>5. ASSUME NEW u \in UserIds, ScimCreate(u) \/ ScimUpdate(u) \/ DeleteUser(u)
      PROVE  ProviderInv'
  BY <1>0, <1>5 DEF ScimCreate, ScimUpdate, DeleteUser, callbacks, receivers
<1>6. CASE UNCHANGED vars
  BY <1>0, <1>6 DEF vars, callbacks, receivers
<1> QED
  BY <1>1, <1>2, <1>3, <1>4, <1>5, <1>6 DEF Next

(* SidFenceInv is preserved: a fence is written for longer than any window *)
(* that started before its logout, and pruned only when it is over.        *)
LEMMA SidFenceStep == Inv /\ [Next]_vars => SidFenceInv'
<1> SUFFICES ASSUME Inv, [Next]_vars PROVE SidFenceInv'
  OBVIOUS
<1> USE FenceOutlivesCallback DEF SidFenceInv, Started, FenceUp, BySid
<1>0. /\ TypeOK /\ TypeOK' /\ SidFenceInv /\ ProviderInv /\ ClockInv
      /\ lpc \in [Logins -> LoginStates] /\ opc \in [Logouts -> LogoutStates]
      /\ sso_logouts \in [Sids -> Nat]
  BY StepType DEF Inv, TypeOK
<1>9. /\ now \in Nat
      /\ \A l \in Logins : login[l].startedAt \in Nat
      /\ \A o \in Logouts : logout[o].issuedAt \in Nat /\ logout[o].fenceUntil \in Nat
      /\ \A o \in Logouts : logout[o].sid # NoSid => logout[o].sid \in Sids
      /\ \A s \in Sids : sso_logouts[s] \in Nat
  BY <1>0, Numbers
<1>1. CASE Tick
  BY <1>0, <1>9, <1>1 DEF Tick, tables, callbacks, receivers
<1>2. CASE Crash
  BY <1>0, <1>2 DEF Crash, InFlight, Minted, tables
<1>3. ASSUME NEW l \in Logins, Callback(l) PROVE SidFenceInv'
  <2>1. CASE StartLogin(l)
    <3>1. \A o \in Logouts : opc[o] # "idle" /\ logout[o].sid # NoSid
             => logout[o].sid \in idpEnded
      BY <1>0 DEF ProviderInv, Sent
    <3> QED
      BY <1>0, <2>1, <3>1, StartLoginEffect DEF tables, receivers
  <2>2. CASE ExchangeCode(l)
    BY <1>0, <2>2, ExchangeCodeEffect DEF tables, receivers
  <2>3. CASE ResolveUser(l)
    <3>1. /\ \A k \in Logins : /\ login'[k].startedAt = login[k].startedAt
                               /\ login'[k].sid = login[k].sid
          /\ UNCHANGED <<now, opc, logout, sso_logouts>>
          /\ lpc[l] = "exchanged"
          /\ \A k \in Logins : k # l => lpc'[k] = lpc[k]
      BY <1>0, <2>3, ResolveUserEffect DEF ResolveUser, receivers
    <3> QED
      BY <1>0, <3>1
  <2>4. CASE SyncRole(l) \/ InsertSession(l) \/ CheckFences(l) \/ CallbackFails(l)
             \/ EndOwnSession(l)
    BY <1>0, <2>4
    DEF SyncRole, InsertSession, CheckFences, CallbackFails, EndOwnSession,
        InFlight, callbacks, receivers
  <2> QED
    BY <1>3, <2>1, <2>2, <2>3, <2>4 DEF Callback
<1>4. ASSUME NEW o \in Logouts, Receiver(o) PROVE SidFenceInv'
  <2>1. CASE SendLogout(o)
    BY <1>0, <2>1, SendLogoutEffect DEF tables, callbacks
  <2>2. CASE ReceiveLogout(o)
    BY <1>0, <2>2, ReceiveLogoutEffect DEF tables, callbacks
  <2>3. CASE PruneFences(o)
    BY <1>0, <1>9, <2>3 DEF PruneFences, callbacks
  <2>4. CASE WriteFence(o)
    <3>1. \A l \in Logins : lpc[l] # "idle" /\ BySid(o) /\ login[l].sid = logout[o].sid
             => login[l].startedAt + CallbackWindow < logout[o].fenceUntil
      BY <1>0, <1>9, <2>4 DEF WriteFence, ProviderInv, ClockInv, Sent
    <3>2. UNCHANGED <<now, lpc, login, logout>> /\ opc' = [opc EXCEPT ![o] = "written"]
      BY <2>4 DEF WriteFence, callbacks
    <3>3. CASE BySid(o)
      <4>1. sso_logouts' = [sso_logouts EXCEPT ![logout[o].sid] = logout[o].fenceUntil]
        BY <2>4, <3>3 DEF WriteFence
      <4> QED
        BY <1>0, <1>9, <3>1, <3>2, <3>3, <4>1
    <3>4. CASE ~BySid(o)
      BY <1>0, <2>4, <3>2, <3>4 DEF WriteFence
    <3> QED
      BY <3>3, <3>4
  <2>5. CASE DeleteSessions(o) \/ LogoutFails(o)
    BY <1>0, <2>5 DEF DeleteSessions, LogoutFails, tables, callbacks
  <2>6. ASSUME NEW p \in Logouts, ResendLogout(o, p) PROVE SidFenceInv'
    BY <1>0, <2>6, ResendLogoutEffect DEF tables, callbacks
  <2> QED
    BY <1>4, <2>1, <2>2, <2>3, <2>4, <2>5, <2>6 DEF Receiver
<1>5. ASSUME NEW u \in UserIds, ScimCreate(u) \/ ScimUpdate(u) \/ DeleteUser(u)
      PROVE  SidFenceInv'
  BY <1>0, <1>5 DEF ScimCreate, ScimUpdate, DeleteUser, callbacks, receivers
<1>6. CASE UNCHANGED vars
  BY <1>0, <1>6 DEF vars, tables, callbacks, receivers
<1> QED
  BY <1>1, <1>2, <1>3, <1>4, <1>5, <1>6 DEF Next

(* SubjectFenceInv is preserved: the upsert only raises a cutoff, and a    *)
(* fence is pruned only after its own lifetime.                            *)
LEMMA SubjectFenceStep == Inv /\ [Next]_vars => SubjectFenceInv'
<1> SUFFICES ASSUME Inv, [Next]_vars PROVE SubjectFenceInv'
  OBVIOUS
<1> USE FenceOutlivesCallback DEF SubjectFenceInv, FenceUp, BySid, Cutoff
<1>0. /\ TypeOK /\ TypeOK' /\ SubjectFenceInv /\ ClockInv
      /\ opc \in [Logouts -> LogoutStates]
      /\ sso_subject_logouts \in [Subjects -> Fence]
  BY StepType DEF Inv, TypeOK
<1>9. /\ now \in Nat
      /\ \A o \in Logouts : /\ logout[o].issuedAt \in Nat /\ logout[o].fenceUntil \in Nat
                            /\ logout[o].subject \in Subjects
      /\ \A x \in Subjects : /\ sso_subject_logouts[x].cutoff \in Nat
                             /\ sso_subject_logouts[x].expires \in Nat
  BY <1>0, Numbers
<1>1. CASE Tick
  BY <1>0, <1>9, <1>1 DEF Tick, tables, receivers
<1>2. CASE Crash
  BY <1>0, <1>2 DEF Crash, tables
<1>3. ASSUME NEW l \in Logins, Callback(l) PROVE SubjectFenceInv'
  <2>1. UNCHANGED <<now, sso_subject_logouts, opc, logout>>
    BY <1>3
    DEF Callback, StartLogin, ExchangeCode, ResolveUser, SyncRole, InsertSession,
        CheckFences, CallbackFails, EndOwnSession, tables, receivers
  <2> QED
    BY <1>0, <2>1
<1>4. ASSUME NEW o \in Logouts, Receiver(o) PROVE SubjectFenceInv'
  <2>1. CASE SendLogout(o)
    BY <1>0, <2>1, SendLogoutEffect DEF tables
  <2>2. CASE ReceiveLogout(o)
    BY <1>0, <2>2, ReceiveLogoutEffect DEF tables
  <2>3. CASE PruneFences(o)
    <3>1. UNCHANGED <<now, logout>> /\ opc' = [opc EXCEPT ![o] = "pruned"]
      BY <2>3 DEF PruneFences
    <3>2. \A x \in Subjects :
             \/ sso_subject_logouts'[x] = sso_subject_logouts[x]
             \/ /\ sso_subject_logouts'[x].cutoff = 0
                /\ sso_subject_logouts[x].expires <= now
      BY <2>3 DEF PruneFences, NoFence
    <3>3. \A q \in Logouts : opc'[q] \in {"written", "done"} => opc[q] \in {"written", "done"}
      BY <1>0, <3>1
    <3>4. \A x \in Subjects :
             LET f == sso_subject_logouts[x]
             IN  f.cutoff > 0 /\ f.expires <= now => f.cutoff + ssoLogoutFence <= now + 1
      BY <1>0, <1>9
    <3> QED
      BY <1>0, <1>9, <3>1, <3>2, <3>3, <3>4
  <2>4. CASE WriteFence(o)
    <3>1. UNCHANGED <<now, logout>> /\ opc' = [opc EXCEPT ![o] = "written"]
      BY <2>4 DEF WriteFence
    <3>2. logout[o].issuedAt + ssoLogoutFence <= logout[o].fenceUntil
      BY <1>0, <2>4 DEF WriteFence, ClockInv
    <3>3. \A x \in Subjects : x # logout[o].subject
             => sso_subject_logouts'[x] = sso_subject_logouts[x]
      BY <1>0, <2>4 DEF WriteFence
    <3>4. CASE /\ ~BySid(o)
               /\ sso_subject_logouts[logout[o].subject].cutoff < Cutoff(o)
      <4>1. /\ sso_subject_logouts'[logout[o].subject].cutoff = Cutoff(o)
            /\ sso_subject_logouts'[logout[o].subject].expires = logout[o].fenceUntil
        BY <1>0, <1>9, <2>4, <3>4 DEF WriteFence
      <4> QED
        BY <1>0, <1>9, <3>1, <3>2, <3>3, <3>4, <4>1
    <3>5. CASE BySid(o) \/ ~(sso_subject_logouts[logout[o].subject].cutoff < Cutoff(o))
      <4>1. UNCHANGED sso_subject_logouts
        BY <2>4, <3>5 DEF WriteFence
      <4> QED
        BY <1>0, <1>9, <3>1, <3>5, <4>1
    <3> QED
      BY <3>4, <3>5
  <2>5. CASE DeleteSessions(o) \/ LogoutFails(o)
    BY <1>0, <2>5 DEF DeleteSessions, LogoutFails, tables
  <2>6. ASSUME NEW p \in Logouts, ResendLogout(o, p) PROVE SubjectFenceInv'
    BY <1>0, <2>6, ResendLogoutEffect DEF tables
  <2> QED
    BY <1>4, <2>1, <2>2, <2>3, <2>4, <2>5, <2>6 DEF Receiver
<1>5. ASSUME NEW u \in UserIds, ScimCreate(u) \/ ScimUpdate(u) \/ DeleteUser(u)
      PROVE  SubjectFenceInv'
  BY <1>0, <1>5 DEF ScimCreate, ScimUpdate, DeleteUser, receivers
<1>6. CASE UNCHANGED vars
  BY <1>0, <1>6 DEF vars, tables, receivers
<1> QED
  BY <1>1, <1>2, <1>3, <1>4, <1>5, <1>6 DEF Next

(* AccountInv is preserved: once linked, a row keeps its subject until it  *)
(* is deleted, and its sessions go with it.                                *)
LEMMA AccountStep == Inv /\ [Next]_vars => AccountInv'
<1> SUFFICES ASSUME Inv, [Next]_vars PROVE AccountInv'
  OBVIOUS
<1> USE DEF AccountInv
<1>0. /\ TypeOK /\ TypeOK' /\ AccountInv
      /\ lpc \in [Logins -> LoginStates] /\ users \in [UserIds -> User]
      /\ sessions \subseteq Logins
      /\ \A l \in Logins : login[l].user \in UserIds
  BY StepType, Numbers DEF Inv, TypeOK
<1>1. CASE Tick
  BY <1>0, <1>1 DEF Tick, tables, callbacks
<1>2. CASE Crash
  BY <1>0, <1>2 DEF Crash, tables, InFlight, Minted
<1>3. ASSUME NEW l \in Logins, Callback(l) PROVE AccountInv'
  <2>1. CASE StartLogin(l)
    BY <1>0, <2>1, StartLoginEffect DEF tables
  <2>2. CASE ExchangeCode(l)
    BY <1>0, <2>2, ExchangeCodeEffect DEF tables
  <2>3. CASE ResolveUser(l)
    <3>1. /\ sessions' = sessions /\ lpc[l] = "exchanged"
          /\ \A k \in Logins : k # l => lpc'[k] = lpc[k]
          /\ lpc'[l] \in {"resolved", "refused"}
      BY <1>0, <2>3 DEF ResolveUser
    <3>2. PICK u \in UserIds :
           /\ users[u].provider \in {"unborn", "scim", "kysignon"}
           /\ users[u].provider = "kysignon" => users[u].subject = login[l].subject
           /\ users'[u].provider = "kysignon"
           /\ users'[u].subject = login[l].subject
           /\ \A w \in UserIds : w # u => users'[w] = users[w]
           /\ login'[l].user = u
           /\ login'[l].subject = login[l].subject
           /\ \A k \in Logins : k # l => login'[k] = login[k]
      BY <1>0, <2>3, ResolveUserEffect
    <3> QED
      BY <1>0, <3>1, <3>2
  <2>4. CASE SyncRole(l)
    BY <1>0, <2>4 DEF SyncRole
  <2>5. CASE InsertSession(l)
    BY <1>0, <2>5 DEF InsertSession
  <2>6. CASE CheckFences(l)
    BY <1>0, <2>6 DEF CheckFences
  <2>7. CASE CallbackFails(l)
    BY <1>0, <2>7 DEF CallbackFails, InFlight
  <2>8. CASE EndOwnSession(l)
    BY <1>0, <2>8 DEF EndOwnSession, callbacks
  <2> QED
    BY <1>3, <2>1, <2>2, <2>3, <2>4, <2>5, <2>6, <2>7, <2>8 DEF Callback
<1>4. ASSUME NEW o \in Logouts, Receiver(o) PROVE AccountInv'
  <2>1. UNCHANGED <<users, lpc, login>> /\ sessions' \subseteq sessions
    BY <1>4
    DEF Receiver, SendLogout, ReceiveLogout, PruneFences, WriteFence,
        DeleteSessions, LogoutFails, ResendLogout, tables, callbacks
  <2> QED
    BY <1>0, <2>1
<1>5. ASSUME NEW u \in UserIds, ScimCreate(u) \/ ScimUpdate(u) \/ DeleteUser(u)
      PROVE  AccountInv'
  <2>1. /\ UNCHANGED <<lpc, login>> /\ sessions' \subseteq sessions
        /\ \A w \in UserIds : w # u => users'[w] = users[w]
    BY <1>0, <1>5 DEF ScimCreate, ScimUpdate, DeleteUser, callbacks
  <2>2. CASE ScimCreate(u)
    <3>1. users[u].provider = "unborn"
      BY <2>2 DEF ScimCreate
    <3> QED
      BY <1>0, <2>1, <3>1
  <2>3. CASE ScimUpdate(u)
    <3>1. PICK st \in {"active", "inactive"}, x \in Subjects :
             /\ users[u].provider = "scim" \/ x = users[u].subject
             /\ users' = [users EXCEPT ![u] = [@ EXCEPT !.status = st, !.subject = x]]
      BY <2>3 DEF ScimUpdate
    <3>2. users[u] \in User
      BY <1>0
    <3>3. users'[u].provider = users[u].provider /\ users'[u].subject = x
      BY <1>0, <3>1, <3>2 DEF User
    <3> QED
      BY <1>0, <2>1, <3>1, <3>3
  <2>4. CASE DeleteUser(u)
    <3>1. users'[u].provider = "deleted" /\ users'[u].subject = users[u].subject
      BY <1>0, <2>4 DEF DeleteUser, User
    <3>2. \A l \in sessions' : login[l].user # u
      BY <2>4 DEF DeleteUser, SessionsOf
    <3> QED
      BY <1>0, <2>1, <3>1, <3>2
  <2> QED
    BY <1>5, <2>2, <2>3, <2>4
<1>6. CASE UNCHANGED vars
  BY <1>0, <1>6 DEF vars, tables, callbacks
<1> QED
  BY <1>1, <1>2, <1>3, <1>4, <1>5, <1>6 DEF Next

(* The heart of the protocol: a callback about to read the fences finds    *)
(* one, when a logout that names its sign-in has written its own.          *)
LEMMA FenceStops ==
  ASSUME Inv, NEW l \in Logins, lpc[l] = "check", l \in sessions,
         NEW o \in Logouts, FenceUp(o), Names(o, l)
  PROVE  SidFenced(l) \/ SubjectFenced(l)
<1> USE FenceOutlivesCallback
<1>1. /\ now \in Nat /\ login[l].startedAt \in Nat /\ login[l].issuedAt \in Nat
      /\ logout[o].issuedAt \in Nat /\ logout[o].subject \in Subjects
      /\ BySid(o) => logout[o].sid \in Sids
      /\ \A s \in Sids : sso_logouts[s] \in Nat
      /\ \A x \in Subjects : /\ sso_subject_logouts[x].cutoff \in Nat
                             /\ sso_subject_logouts[x].expires \in Nat
  BY Numbers DEF Inv
<1>2. /\ now <= login[l].startedAt + CallbackWindow
      /\ login[l].startedAt <= login[l].issuedAt
  BY DEF Inv, ClockInv, InFlight, Minted
<1>3. CASE BySid(o)
  <2>1. login[l].sid = logout[o].sid /\ Started(l)
    BY <1>3 DEF Names, Started
  <2>2. \/ login[l].startedAt + CallbackWindow < sso_logouts[logout[o].sid]
        \/ login[l].startedAt + CallbackWindow < now
    BY <1>3, <2>1 DEF Inv, SidFenceInv
  <2>3. now < sso_logouts[logout[o].sid]
    BY <1>1, <1>2, <1>3, <2>2
  <2> QED
    BY <1>1, <1>3, <2>1, <2>3 DEF SidFenced
<1>4. CASE ~BySid(o)
  <2> DEFINE f == sso_subject_logouts[logout[o].subject]
  <2>1. login[l].subject = logout[o].subject /\ login[l].issuedAt <= logout[o].issuedAt
    BY <1>4 DEF Names
  <2>2. /\ users[login[l].user].provider = "kysignon"
        /\ users[login[l].user].subject = logout[o].subject
    BY <2>1 DEF Inv, AccountInv
  <2>3. Cutoff(o) <= f.cutoff \/ logout[o].issuedAt + ssoLogoutFence <= now
    BY <1>4 DEF Inv, SubjectFenceInv
  <2>4. f.cutoff > 0 => f.cutoff + ssoLogoutFence <= f.expires + 1
    BY <1>1 DEF Inv, SubjectFenceInv
  <2>5. f.cutoff \in Nat /\ f.expires \in Nat
    BY <1>1
  <2> HIDE DEF f
  <2>6. login[l].issuedAt < f.cutoff /\ now < f.expires
    BY <1>1, <1>2, <2>1, <2>3, <2>4, <2>5 DEF Cutoff
  <2> USE DEF f
  <2> QED
    BY <2>2, <2>5, <2>6, <1>1 DEF SubjectFenced
<1> QED
  BY <1>3, <1>4

(* The third statement of a logout deletes every row its token names. *)
LEMMA NamedRowsEnd ==
  ASSUME Inv, NEW l \in sessions, NEW o \in Logouts
  PROVE  Names(o, l) <=> l \in Ended(o)
<1>1. /\ l \in Logins /\ login[l].user \in UserIds
      /\ login[l].issuedAt \in Nat /\ logout[o].issuedAt \in Nat
  BY Numbers DEF Inv, TypeOK
<1>2. /\ Minted(l) /\ users[login[l].user].provider = "kysignon"
      /\ users[login[l].user].subject = login[l].subject
  BY <1>1 DEF Inv, AccountInv, Minted
<1> QED
  BY <1>1, <1>2 DEF Names, Ended, Matching, Cutoff

-----------------------------------------------------------------------------
(* What one step does to the sessions in use and to the sign-ins that      *)
(* completed logouts name: it takes sessions away, dates a token, grants a *)
(* session, or completes a logout.                                         *)
Retiring == Usable' \subseteq Usable /\ Condemned' = Condemned

Minting(l) == /\ l \notin Usable /\ Usable' = Usable
              /\ Condemned \subseteq Condemned' /\ Condemned' \subseteq Condemned \cup {l}

Granting(l) == /\ lpc[l] = "check" /\ l \in sessions
               /\ ~SidFenced(l) /\ ~SubjectFenced(l)
               /\ Usable' = Usable \cup {l} /\ Condemned' = Condemned

Revoking == Usable' = Usable \ Condemned' /\ Condemned \subseteq Condemned'

(* Every step of the system has one of these four effects. *)
LEMMA StepShape ==
  ASSUME Inv, [Next]_vars
  PROVE  Retiring \/ Revoking \/ \E l \in Logins : Minting(l) \/ Granting(l)
<1> USE DEF Usable, Condemned, Names, Minted
<1>0. /\ TypeOK /\ TypeOK' /\ EndedStaysEnded
      /\ lpc \in [Logins -> LoginStates] /\ opc \in [Logouts -> LogoutStates]
      /\ sessions \subseteq Logins
  BY StepType DEF Inv, TypeOK
<1>1. CASE Tick
  BY <1>1 DEF Tick, tables, callbacks, receivers, Retiring, BySid
<1>2. CASE Crash
  <2>1. /\ UNCHANGED <<sessions, login, logout>>
        /\ \A l \in Logins : /\ lpc'[l] = "issued" <=> lpc[l] = "issued"
                             /\ lpc'[l] \in {"idle", "browser"} <=> lpc[l] \in {"idle", "browser"}
        /\ \A o \in Logouts : opc'[o] = "done" <=> opc[o] = "done"
    BY <1>0, <1>2 DEF Crash, tables, InFlight
  <2> QED
    BY <1>0, <2>1 DEF Retiring, BySid
<1>3. ASSUME NEW l \in Logins, Callback(l)
      PROVE  Retiring \/ Minting(l) \/ Granting(l)
  <2>0. UNCHANGED <<opc, logout>>
    BY <1>3
    DEF Callback, StartLogin, ExchangeCode, ResolveUser, SyncRole, InsertSession,
        CheckFences, CallbackFails, EndOwnSession, receivers
  <2>a. ASSUME /\ \A k \in Logins : k # l => lpc'[k] = lpc[k] /\ login'[k] = login[k]
               /\ sessions' \ {l} = sessions \ {l}
               /\ lpc[l] # "issued" /\ lpc'[l] # "issued"
               /\ lpc[l] \in {"idle", "browser"} \/
                    /\ lpc'[l] \notin {"idle", "browser"}
                    /\ login'[l].sid = login[l].sid
                    /\ login'[l].subject = login[l].subject
                    /\ login'[l].issuedAt = login[l].issuedAt
        PROVE  Minting(l)
    <3>1. Usable' = Usable /\ l \notin Usable
      BY <1>0, <2>a
    <3>2. \A k \in Logins, o \in Logouts : k # l => (Names(o, k)' <=> Names(o, k))
      BY <2>0, <2>a DEF BySid
    <3>3. \A o \in Logouts : Names(o, l) => Names(o, l)'
      BY <2>0, <2>a DEF BySid
    <3> QED
      BY <1>0, <2>0, <3>1, <3>2, <3>3 DEF Minting
  <2>1. CASE StartLogin(l)
    BY <1>0, <2>1, <2>a, StartLoginEffect DEF tables
  <2>2. CASE ExchangeCode(l)
    BY <1>0, <2>2, <2>a, ExchangeCodeEffect DEF tables
  <2>3. CASE ResolveUser(l)
    <3>1. /\ \A k \in Logins : k # l => lpc'[k] = lpc[k] /\ login'[k] = login[k]
          /\ login'[l].sid = login[l].sid
          /\ login'[l].subject = login[l].subject
          /\ login'[l].issuedAt = login[l].issuedAt
          /\ lpc[l] = "exchanged" /\ lpc'[l] \in {"resolved", "refused"}
          /\ UNCHANGED sessions
      BY <1>0, <2>3, ResolveUserEffect DEF ResolveUser
    <3> QED
      BY <2>a, <3>1
  <2>4. CASE SyncRole(l)
    BY <1>0, <2>0, <2>4 DEF SyncRole, Retiring, BySid
  <2>5. CASE InsertSession(l)
    BY <1>0, <2>5, <2>a DEF InsertSession
  <2>6. CASE CheckFences(l)
    <3>1. CASE (SidFenced(l) \/ SubjectFenced(l)) \/ l \notin sessions
      BY <1>0, <2>0, <2>6, <3>1 DEF CheckFences, Retiring, BySid
    <3>2. CASE ~(SidFenced(l) \/ SubjectFenced(l)) /\ l \in sessions
      BY <1>0, <2>0, <2>6, <3>2 DEF CheckFences, Granting, BySid
    <3> QED
      BY <3>1, <3>2
  <2>7. CASE CallbackFails(l)
    BY <1>0, <2>7, <2>a DEF CallbackFails, InFlight
  <2>8. CASE EndOwnSession(l)
    BY <1>0, <2>0, <2>8 DEF EndOwnSession, callbacks, Retiring, BySid
  <2> QED
    BY <1>3, <2>1, <2>2, <2>3, <2>4, <2>5, <2>6, <2>7, <2>8 DEF Callback
<1>4. ASSUME NEW o \in Logouts, Receiver(o) PROVE Retiring \/ Revoking
  <2>0. UNCHANGED <<lpc, login>>
    BY <1>4
    DEF Receiver, SendLogout, ReceiveLogout, PruneFences, WriteFence,
        DeleteSessions, LogoutFails, ResendLogout, callbacks
  <2>a. ASSUME /\ UNCHANGED sessions
               /\ opc[o] # "done" /\ opc'[o] # "done"
               /\ \A p \in Logouts : p # o => opc'[p] = opc[p] /\ logout'[p] = logout[p]
        PROVE  Retiring
    BY <1>0, <2>0, <2>a DEF Retiring, BySid
  <2>1. CASE SendLogout(o)
    BY <1>0, <2>1, <2>a, SendLogoutEffect DEF tables
  <2>2. CASE ReceiveLogout(o)
    BY <1>0, <2>2, <2>a, ReceiveLogoutEffect DEF tables
  <2>3. CASE PruneFences(o) \/ WriteFence(o) \/ LogoutFails(o)
    BY <1>0, <2>3, <2>a DEF PruneFences, WriteFence, LogoutFails, tables
  <2>4. CASE DeleteSessions(o)
    <3>1. /\ sessions' = sessions \ Ended(o) /\ UNCHANGED logout
          /\ opc' = [opc EXCEPT ![o] = "done"]
      BY <2>4 DEF DeleteSessions
    <3>2. \A p \in Logouts, k \in Logins : Names(p, k)' <=> Names(p, k)
      BY <2>0, <3>1 DEF BySid
    <3> HIDE DEF Names
    <3>3. Condemned' = Condemned \cup {k \in Logins : Names(o, k)}
      BY <1>0, <3>1, <3>2
    <3>4. \A k \in sessions : Names(o, k) <=> k \in Ended(o)
      BY NamedRowsEnd
    <3> HIDE DEF Condemned
    <3> QED
      BY <1>0, <2>0, <3>1, <3>3, <3>4 DEF Revoking, EndedStaysEnded
  <2>5. ASSUME NEW p \in Logouts, ResendLogout(o, p) PROVE Retiring
    BY <1>0, <2>5, <2>a, ResendLogoutEffect DEF tables
  <2> QED
    BY <1>4, <2>1, <2>2, <2>3, <2>4, <2>5 DEF Receiver
<1>5. ASSUME NEW u \in UserIds, ScimCreate(u) \/ ScimUpdate(u) \/ DeleteUser(u)
      PROVE  Retiring
  BY <1>5
  DEF ScimCreate, ScimUpdate, DeleteUser, callbacks, receivers, Retiring, BySid
<1>6. CASE UNCHANGED vars
  BY <1>6 DEF vars, tables, callbacks, receivers, Retiring, BySid
<1> QED
  BY <1>1, <1>2, <1>3, <1>4, <1>5, <1>6 DEF Next

(* EndedStaysEnded is preserved: the one effect that puts a session in use *)
(* is refused to a sign-in that a completed logout names.                  *)
LEMMA EndedStep == Inv /\ [Next]_vars => EndedStaysEnded'
<1> SUFFICES ASSUME Inv, [Next]_vars PROVE EndedStaysEnded'
  OBVIOUS
<1>1. EndedStaysEnded
  BY DEF Inv
<1>2. CASE Retiring \/ Revoking
  BY <1>1, <1>2 DEF EndedStaysEnded, Retiring, Revoking
<1>3. ASSUME NEW l \in Logins, Minting(l) PROVE EndedStaysEnded'
  BY <1>1, <1>3 DEF EndedStaysEnded, Minting
<1>4. ASSUME NEW l \in Logins, Granting(l) PROVE EndedStaysEnded'
  <2>1. l \notin Condemned
    BY <1>4, FenceStops DEF Granting, Condemned, FenceUp
  <2> QED
    BY <1>1, <1>4, <2>1 DEF EndedStaysEnded, Granting
<1> QED
  BY <1>2, <1>3, <1>4, StepShape

(* The inductive invariant holds initially, when no handler has started. *)
LEMMA InitInv == Init => Inv
<1> SUFFICES ASSUME Init PROVE Inv
  OBVIOUS
<1>1. TypeOK
  BY InitType
<1>2. ClockInv /\ ProviderInv /\ SidFenceInv /\ SubjectFenceInv
  BY DEF Init, ClockInv, ProviderInv, SidFenceInv, SubjectFenceInv, Started,
         Sent, FenceUp, Minted, InFlight, NoFence
<1>3. AccountInv /\ EndedStaysEnded
  BY DEF Init, AccountInv, EndedStaysEnded, Usable
<1> QED
  BY <1>1, <1>2, <1>3 DEF Inv

(* The inductive invariant holds in every reachable state. *)
THEOREM Invariance == Spec => []Inv
<1>1. Inv /\ [Next]_vars => Inv'
  BY StepType, ClockStep, ProviderStep, SidFenceStep, SubjectFenceStep,
     AccountStep, EndedStep DEF Inv
<1> QED
  BY <1>1, InitInv, PTL DEF Spec

(* After a back-channel logout has answered 200, no sign-in it names has a *)
(* usable session: for any number of callbacks and logouts, every          *)
(* interleaving of CreateSession's and EndSSOSession's or EndSSOSubject's  *)
(* statements, failures and restarts.                                      *)
THEOREM LogoutIsFinal == Spec => []EndedStaysEnded
<1>1. Inv => EndedStaysEnded
  BY DEF Inv
<1> QED
  BY <1>1, Invariance, PTL

(* The handlers implement the atomic revocation of module Revocation. *)
THEOREM Refinement == Spec => RefinesRevocation
<1>1. Init => Promise!Init
  BY DEF Init, Promise!Init, Usable, Condemned
<1>2. ASSUME Inv, [Next]_vars PROVE [Promise!Next]_<<Usable, Condemned>>
  <2>1. EndedStaysEnded /\ EndedStaysEnded' /\ Usable \subseteq Logins
        /\ Condemned' \subseteq Logins
    BY <1>2, EndedStep DEF Inv, TypeOK, Usable, Condemned
  <2>2. CASE Retiring
    <3>1. Promise!Retire(Usable \ Usable')
      BY <2>2 DEF Promise!Retire, Retiring
    <3> QED
      BY <2>1, <3>1 DEF Promise!Next
  <2>3. CASE Revoking
    <3>1. Promise!Revoke(Condemned')
      BY <2>3 DEF Promise!Revoke, Revoking
    <3> QED
      BY <2>1, <3>1 DEF Promise!Next
  <2>4. ASSUME NEW l \in Logins, Minting(l) PROVE Promise!Next
    <3>1. Promise!Revoke(Condemned')
      BY <2>1, <2>4 DEF Promise!Revoke, Minting, EndedStaysEnded
    <3> QED
      BY <2>1, <3>1 DEF Promise!Next
  <2>5. ASSUME NEW l \in Logins, Granting(l) PROVE Promise!Next
    <3>1. l \notin Usable
      BY <2>5 DEF Granting, Usable
    <3>2. Promise!Grant(l)
      BY <2>1, <2>5, <3>1 DEF Promise!Grant, Granting, EndedStaysEnded
    <3> QED
      BY <3>2 DEF Promise!Next
  <2> QED
    BY <1>2, <2>2, <2>3, <2>4, <2>5, StepShape
<1> QED
  BY <1>1, <1>2, Invariance, PTL DEF Spec, RefinesRevocation, Promise!Spec

(* The third statement takes a usable session only from a sign-in its      *)
(* token names, for every interleaving and any number of handlers.         *)
THEOREM LogoutIsPrecise == Spec => OnlyNamedSignInsEnd
<1>1. ASSUME Inv, [Next]_vars
      PROVE  [\A o \in Logouts : DeleteSessions(o) =>
                \A l \in Usable \ Usable' : Names(o, l)]_vars
  <2> SUFFICES ASSUME NEW o \in Logouts, DeleteSessions(o), NEW l \in Usable \ Usable'
               PROVE  Names(o, l)
    OBVIOUS
  <2>1. sessions' = sessions \ Ended(o) /\ UNCHANGED lpc
    BY DEF DeleteSessions, callbacks
  <2>2. l \in sessions /\ l \in Ended(o)
    BY <2>1 DEF Usable
  <2> QED
    BY <1>1, <2>2, NamedRowsEnd
<1> QED
  BY <1>1, Invariance, PTL DEF Spec, OnlyNamedSignInsEnd

-----------------------------------------------------------------------------
Past(o) == opc[o] \in {"written", "done", "failed"}

(* A step leaves the tokens of the logouts past their fence as they are,   *)
(* and such a logout stays past it.                                        *)
LEMMA PastStays ==
  ASSUME Inv, [Next]_vars, NEW o \in Logouts, Past(o)
  PROVE  Past(o)' /\ logout'[o] = logout[o]
<1> USE DEF Past
<1>0. TypeOK /\ opc \in [Logouts -> LogoutStates]
  BY DEF Inv, TypeOK
<1>1. CASE Tick \/ UNCHANGED vars
  BY <1>1 DEF Tick, vars, receivers
<1>2. CASE Crash
  BY <1>0, <1>2 DEF Crash
<1>3. ASSUME NEW l \in Logins, Callback(l) PROVE UNCHANGED <<opc, logout>>
  BY <1>3
  DEF Callback, StartLogin, ExchangeCode, ResolveUser, SyncRole, InsertSession,
      CheckFences, CallbackFails, EndOwnSession, receivers
<1>4. ASSUME NEW p \in Logouts, Receiver(p) PROVE Past(o)' /\ logout'[o] = logout[o]
  <2>1. CASE SendLogout(p)
    BY <1>0, <2>1, SendLogoutEffect
  <2>2. CASE ReceiveLogout(p)
    BY <1>0, <2>2, ReceiveLogoutEffect
  <2>3. CASE PruneFences(p) \/ WriteFence(p) \/ DeleteSessions(p) \/ LogoutFails(p)
    BY <1>0, <2>3 DEF PruneFences, WriteFence, DeleteSessions, LogoutFails
  <2>4. ASSUME NEW q \in Logouts, ResendLogout(p, q)
        PROVE  Past(o)' /\ logout'[o] = logout[o]
    BY <1>0, <2>4, ResendLogoutEffect
  <2> QED
    BY <1>4, <2>1, <2>2, <2>3, <2>4 DEF Receiver
<1>5. ASSUME NEW u \in UserIds, ScimCreate(u) \/ ScimUpdate(u) \/ DeleteUser(u)
      PROVE  UNCHANGED <<opc, logout>>
  BY <1>5 DEF ScimCreate, ScimUpdate, DeleteUser, receivers
<1> QED
  BY <1>1, <1>2, <1>3, <1>4, <1>5 DEF Next

(* OriginInv is preserved: a row is only written with the data of the      *)
(* logout that is past its fence from then on.                             *)
LEMMA OriginStep == Inv /\ OriginInv /\ [Next]_vars => OriginInv'
<1> SUFFICES ASSUME Inv, OriginInv, [Next]_vars PROVE OriginInv'
  OBVIOUS
<1> DEFINE SidFrom(s) == \E o \in Logouts : Past(o) /\ BySid(o) /\ logout[o].sid = s
           SubFrom(x, c) == \E o \in Logouts : /\ Past(o) /\ ~BySid(o)
                                               /\ logout[o].subject = x /\ Cutoff(o) = c
<1>0. /\ TypeOK /\ opc \in [Logouts -> LogoutStates]
      /\ sso_subject_logouts \in [Subjects -> Fence]
      /\ sso_logouts \in [Sids -> Nat]
  BY DEF Inv, TypeOK
<1>1. /\ \A s \in Sids : SidFrom(s) => SidFrom(s)'
      /\ \A x \in Subjects : \A c : SubFrom(x, c) => SubFrom(x, c)'
  BY PastStays DEF BySid, Cutoff
<1>2. /\ \A s \in Sids : sso_logouts[s] > 0 => SidFrom(s)
      /\ \A x \in Subjects : sso_subject_logouts[x].cutoff > 0
            => SubFrom(x, sso_subject_logouts[x].cutoff)
  BY DEF OriginInv, Past
<1>3. SUFFICES /\ \A s \in Sids : sso_logouts'[s] > 0 => SidFrom(s)'
               /\ \A x \in Subjects : sso_subject_logouts'[x].cutoff > 0
                     => SubFrom(x, sso_subject_logouts[x].cutoff)'
  BY DEF OriginInv, Past
<1> HIDE DEF SidFrom, SubFrom
<1>4. CASE UNCHANGED <<sso_logouts, sso_subject_logouts>>
  <2>1. \A x \in Subjects : SubFrom(x, sso_subject_logouts[x].cutoff)
           => SubFrom(x, sso_subject_logouts[x].cutoff)'
    BY <1>1, <1>4 DEF SubFrom
  <2> QED
    BY <1>1, <1>2, <1>4, <2>1
<1>5. ASSUME NEW o \in Logouts, PruneFences(o)
      PROVE  /\ \A s \in Sids : sso_logouts'[s] > 0 => SidFrom(s)'
             /\ \A x \in Subjects : sso_subject_logouts'[x].cutoff > 0
                   => SubFrom(x, sso_subject_logouts[x].cutoff)'
  <2>1. /\ \A s \in Sids : sso_logouts'[s] > 0 => sso_logouts'[s] = sso_logouts[s]
        /\ \A x \in Subjects : sso_subject_logouts'[x].cutoff > 0
              => sso_subject_logouts'[x] = sso_subject_logouts[x]
    BY <1>0, <1>5 DEF PruneFences, NoFence
  <2>2. \A x \in Subjects :
           sso_subject_logouts'[x] = sso_subject_logouts[x]
           /\ SubFrom(x, sso_subject_logouts[x].cutoff)
              => SubFrom(x, sso_subject_logouts[x].cutoff)'
    BY <1>1 DEF SubFrom
  <2> QED
    BY <1>1, <1>2, <2>1, <2>2
<1>6. ASSUME NEW o \in Logouts, WriteFence(o)
      PROVE  /\ \A s \in Sids : sso_logouts'[s] > 0 => SidFrom(s)'
             /\ \A x \in Subjects : sso_subject_logouts'[x].cutoff > 0
                   => SubFrom(x, sso_subject_logouts[x].cutoff)'
  <2>1. Past(o)' /\ UNCHANGED logout
    BY <1>0, <1>6 DEF WriteFence, Past
  <2>2. \A s \in Sids : sso_logouts'[s] = sso_logouts[s] \/ (BySid(o) /\ logout[o].sid = s)
    BY <1>0, <1>6 DEF WriteFence
  <2>3. \A x \in Subjects :
           \/ sso_subject_logouts'[x] = sso_subject_logouts[x]
           \/ /\ ~BySid(o) /\ logout[o].subject = x
              /\ sso_subject_logouts'[x].cutoff = Cutoff(o)
    BY <1>0, <1>6 DEF WriteFence
  <2>4. \A s \in Sids : BySid(o) /\ logout[o].sid = s => SidFrom(s)'
    BY <2>1 DEF SidFrom, BySid
  <2>5. \A x \in Subjects :
           ~BySid(o) /\ logout[o].subject = x /\ sso_subject_logouts'[x].cutoff = Cutoff(o)
              => SubFrom(x, sso_subject_logouts[x].cutoff)'
    BY <2>1 DEF SubFrom, BySid, Cutoff
  <2>6. \A x \in Subjects :
           sso_subject_logouts'[x] = sso_subject_logouts[x]
           /\ SubFrom(x, sso_subject_logouts[x].cutoff)
              => SubFrom(x, sso_subject_logouts[x].cutoff)'
    BY <1>1 DEF SubFrom
  <2> QED
    BY <1>1, <1>2, <2>2, <2>3, <2>4, <2>5, <2>6
<1>7. \/ UNCHANGED <<sso_logouts, sso_subject_logouts>>
      \/ \E o \in Logouts : PruneFences(o) \/ WriteFence(o)
  BY DEF Next, Callback, Receiver, Tick, Crash, StartLogin, ExchangeCode,
         ResolveUser, SyncRole, InsertSession, CheckFences, CallbackFails,
         EndOwnSession, SendLogout, ReceiveLogout, DeleteSessions, LogoutFails,
         ResendLogout, ScimCreate, ScimUpdate, DeleteUser, tables, vars
<1> QED
  BY <1>4, <1>5, <1>6, <1>7

(* A refused sign-in keeps its token, and CheckFences refuses one only     *)
(* because of a row, whose origin names it.                                *)
LEMMA RefusalStep == Inv /\ OriginInv /\ JustifiedRefusal /\ [Next]_vars
                        => JustifiedRefusal'
<1> SUFFICES ASSUME Inv, OriginInv, JustifiedRefusal, [Next]_vars,
                    NEW l \in Logins, lpc'[l] = "fenced"
             PROVE  \E o \in Logouts : Past(o)' /\ Names(o, l)'
  BY DEF JustifiedRefusal, Past
<1>0. /\ TypeOK /\ lpc \in [Logins -> LoginStates]
  BY DEF Inv, TypeOK
<1>1. lpc[l] = "fenced" \/ (lpc[l] = "check" /\ CheckFences(l))
  <2>1. ASSUME NEW k \in Logins, Callback(k), lpc[l] # "fenced"
        PROVE  lpc[l] = "check" /\ CheckFences(l)
    BY <1>0, <2>1
    DEF Callback, StartLogin, ExchangeCode, ResolveUser, SyncRole, InsertSession,
        CheckFences, CallbackFails, EndOwnSession, callbacks
  <2>2. ASSUME NEW o \in Logouts, Receiver(o) PROVE lpc'[l] = lpc[l]
    BY <2>2
    DEF Receiver, SendLogout, ReceiveLogout, PruneFences, WriteFence,
        DeleteSessions, LogoutFails, ResendLogout, callbacks
  <2>3. CASE Tick \/ Crash \/ UNCHANGED vars
             \/ \E u \in UserIds : ScimCreate(u) \/ ScimUpdate(u) \/ DeleteUser(u)
    BY <1>0, <2>3 DEF Tick, Crash, vars, ScimCreate, ScimUpdate, DeleteUser, callbacks
  <2> QED
    BY <2>1, <2>2, <2>3 DEF Next
<1>2. login'[l] = login[l]
  <2>1. ASSUME NEW k \in Logins, Callback(k) PROVE login'[l] = login[l]
    <3>1. CASE StartLogin(k)
      BY <1>0, <1>1, <3>1, StartLoginEffect
    <3>2. CASE ExchangeCode(k)
      BY <1>0, <1>1, <3>2, ExchangeCodeEffect
    <3>3. CASE ResolveUser(k)
      BY <1>0, <1>1, <3>3, ResolveUserEffect DEF ResolveUser
    <3> QED
      BY <2>1, <3>1, <3>2, <3>3
      DEF Callback, SyncRole, InsertSession, CheckFences, CallbackFails,
          EndOwnSession, callbacks
  <2>2. ASSUME NEW o \in Logouts, Receiver(o) PROVE login'[l] = login[l]
    BY <2>2
    DEF Receiver, SendLogout, ReceiveLogout, PruneFences, WriteFence,
        DeleteSessions, LogoutFails, ResendLogout, callbacks
  <2>3. CASE Tick \/ Crash \/ UNCHANGED vars
             \/ \E u \in UserIds : ScimCreate(u) \/ ScimUpdate(u) \/ DeleteUser(u)
    BY <2>3 DEF Tick, Crash, vars, ScimCreate, ScimUpdate, DeleteUser, callbacks
  <2> QED
    BY <2>1, <2>2, <2>3 DEF Next
<1>3. SUFFICES \E o \in Logouts : Past(o) /\ Names(o, l)
  BY <1>2, PastStays DEF Names, Minted, BySid
<1>4. CASE lpc[l] = "fenced"
  BY <1>4 DEF JustifiedRefusal, Past
<1>5. CASE lpc[l] = "check" /\ CheckFences(l)
  <2>1. SidFenced(l) \/ SubjectFenced(l)
    BY <1>0, <1>5 DEF CheckFences
  <2>2. /\ now \in Nat /\ login[l].issuedAt \in Nat /\ login[l].subject \in Subjects
        /\ \A s \in Sids : sso_logouts[s] \in Nat
        /\ \A x \in Subjects : sso_subject_logouts[x].cutoff \in Nat
        /\ \A o \in Logouts : logout[o].issuedAt \in Nat
    BY <1>0, Numbers
  <2>3. CASE SidFenced(l)
    <3>1. login[l].sid \in Sids /\ sso_logouts[login[l].sid] > 0
      BY <2>2, <2>3 DEF SidFenced
    <3> QED
      BY <1>5, <3>1 DEF OriginInv, Past, Names, Minted
  <2>4. CASE SubjectFenced(l)
    <3>1. users[login[l].user].subject = login[l].subject
      BY <1>5 DEF Inv, AccountInv
    <3>2. sso_subject_logouts[login[l].subject].cutoff > login[l].issuedAt
      BY <2>4, <3>1 DEF SubjectFenced
    <3>3. PICK o \in Logouts :
             /\ Past(o) /\ ~BySid(o) /\ logout[o].subject = login[l].subject
             /\ Cutoff(o) = sso_subject_logouts[login[l].subject].cutoff
      BY <2>2, <3>2 DEF OriginInv, Past
    <3>4. login[l].issuedAt <= logout[o].issuedAt
      BY <2>2, <3>2, <3>3 DEF Cutoff
    <3> QED
      BY <1>5, <3>3, <3>4 DEF Names, Minted
  <2> QED
    BY <2>1, <2>3, <2>4
<1> QED
  BY <1>1, <1>4, <1>5

(* A sign-in is refused as ended only when a logout token that reached     *)
(* this server names it.                                                   *)
THEOREM RefusalIsJustified == Spec => []JustifiedRefusal
<1>1. Init => OriginInv /\ JustifiedRefusal
  BY DEF Init, OriginInv, JustifiedRefusal, NoFence
<1> QED
  BY <1>1, Invariance, OriginStep, RefusalStep, PTL DEF Spec

=============================================================================

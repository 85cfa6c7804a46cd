----------------------------- MODULE SsoLogout ------------------------------
(***************************************************************************)
(* KySignOn sign-in callbacks racing OpenID Connect back-channel logouts.  *)
(*                                                                         *)
(* A callback inserts its session row in one transaction and reads the     *)
(* logout fences in a later statement; a logout prunes old fences, writes  *)
(* its own fence and then deletes sessions, each in a statement of its     *)
(* own.  One action here is one such statement (or transaction); handlers  *)
(* interleave between any two of them, and any of them may fail or be cut  *)
(* short by a crash.                                                       *)
(*                                                                         *)
(* Time is whole seconds, the precision of a token's iat.  Steps taken     *)
(* within one second are ordered only by the behaviour itself.             *)
(***************************************************************************)
EXTENDS Naturals, FiniteSets

CONSTANTS Logins,          \* sign-ins, each one run of the callback handler
          Logouts,         \* logout requests, each one run of its handler
          Sids,            \* the provider's names for its login sessions
          NoSid,           \* an ID token without sid: the empty string
          Subjects, UserIds,
          CallbackWindow,  \* longest time from sign-in start to fence check
          ssoLogoutFence,  \* how long a fence is kept
          MaxNow           \* bound on the clock

(* The premise stated at ssoLogoutFence: the fence outlives the window in  *)
(* which a sign-in can still be finishing.                                 *)
ASSUME FenceOutlivesCallback ==
    /\ CallbackWindow \in Nat /\ ssoLogoutFence \in Nat /\ MaxNow \in Nat
    /\ CallbackWindow < ssoLogoutFence
    /\ NoSid \notin Sids

ASSUME SomebodyExists == Subjects # {} /\ UserIds # {}

VARIABLES
    now,
    users,                \* account rows
    sessions,             \* sign-ins whose row is in the sessions table
    sso_logouts,          \* sid fences: expires_at, 0 when there is no row
    sso_subject_logouts,  \* subject fences: cutoff and expires_at, 0 for none
    lpc, login,           \* callback handlers: control state and data
    opc, logout,          \* logout handlers: control state and data
    idpEnded              \* sids the provider has ended

tables == <<users, sessions, sso_logouts, sso_subject_logouts>>
callbacks == <<lpc, login>>
receivers == <<opc, logout, idpEnded>>
vars == <<now, tables, callbacks, receivers>>

-----------------------------------------------------------------------------
User == [provider : {"unborn", "scim", "kysignon", "deleted"},
         subject : Subjects, status : {"active", "inactive"}]

Login == [sid : Sids \cup {NoSid}, subject : Subjects,
          startedAt : Nat, issuedAt : Nat, user : UserIds]

Logout == [sid : Sids \cup {NoSid}, subject : Subjects, issuedAt : Nat,
           fenceUntil : Nat]

NoFence == [cutoff |-> 0, expires |-> 0]
Fence == [cutoff : Nat, expires : Nat]

LoginStates == {"idle", "browser", "exchanged", "resolved", "synced",
                "check", "issued", "fenced", "refused"}
LogoutStates == {"idle", "sent", "received", "pruned", "written",
                 "done", "failed"}

(* A callback still running, the browser's half of the flow included. *)
InFlight(l) == lpc[l] \in {"browser", "exchanged", "resolved", "synced", "check"}

(* The ID token of this sign-in has been minted. *)
Minted(l) == lpc[l] \notin {"idle", "browser"}

SessionsOf(u) == {l \in sessions : login[l].user = u}

-----------------------------------------------------------------------------
(* Filler for the fields of handlers and rows that do not exist yet. *)
AnySubject == CHOOSE x \in Subjects : TRUE

Init ==
    /\ now = 1
    /\ users = [u \in UserIds |-> [provider |-> "unborn", subject |-> AnySubject,
                                   status |-> "active"]]
    /\ sessions = {}
    /\ sso_logouts = [s \in Sids |-> 0]
    /\ sso_subject_logouts = [x \in Subjects |-> NoFence]
    /\ lpc = [l \in Logins |-> "idle"]
    /\ login = [l \in Logins |->
                   [sid |-> NoSid, subject |-> AnySubject, startedAt |-> 0,
                    issuedAt |-> 0, user |-> CHOOSE u \in UserIds : TRUE]]
    /\ opc = [o \in Logouts |-> "idle"]
    /\ logout = [o \in Logouts |->
                    [sid |-> NoSid, subject |-> AnySubject, issuedAt |-> 0,
                     fenceUntil |-> 0]]
    /\ idpEnded = {}

(* The clock advances.  A browser's PKCE cookie lives 300 seconds and the  *)
(* token exchange is cut off after 10: no callback is still running when   *)
(* its window is over.                                                     *)
Tick ==
    /\ now < MaxNow
    /\ \A l \in Logins : InFlight(l) => now < login[l].startedAt + CallbackWindow
    /\ now' = now + 1
    /\ UNCHANGED <<tables, callbacks, receivers>>

(***************************************************************************)
(* The sign-in callback                                                    *)
(***************************************************************************)

(* handleKySignOnLogin: the browser is sent to the provider, which signs   *)
(* subject x in under a sid it has not ended.                              *)
StartLogin(l) ==
    /\ lpc[l] = "idle"
    /\ \E x \in Subjects, s \in (Sids \ idpEnded) \cup {NoSid} :
         login' = [login EXCEPT ![l] = [@ EXCEPT !.subject = x, !.sid = s,
                                                 !.startedAt = now]]
    /\ lpc' = [lpc EXCEPT ![l] = "browser"]
    /\ UNCHANGED <<now, tables, receivers>>

(* The code exchange: the provider mints the ID token now. *)
ExchangeCode(l) ==
    /\ lpc[l] = "browser"
    /\ login' = [login EXCEPT ![l].issuedAt = now]
    /\ lpc' = [lpc EXCEPT ![l] = "exchanged"]
    /\ UNCHANGED <<now, tables, receivers>>

Matching(provider, x) ==
    {u \in UserIds : users[u].provider = provider /\ users[u].subject = x}

(* The account of this subject: the linked row, else a SCIM row, which is  *)
(* linked, else a new row.  Provisioning takes these lookups apart.        *)
ResolveUser(l) ==
    LET x == login[l].subject IN
    /\ lpc[l] = "exchanged"
    /\ \E u \in UserIds :
         /\ \/ u \in Matching("kysignon", x)
            \/ Matching("kysignon", x) = {} /\ u \in Matching("scim", x)
            \/ Matching("kysignon", x) \cup Matching("scim", x) = {}
               /\ users[u].provider = "unborn"
         /\ users' = [users EXCEPT ![u] = [@ EXCEPT !.provider = "kysignon",
                                                    !.subject = x]]
         /\ login' = [login EXCEPT ![l].user = u]
         /\ lpc' = [lpc EXCEPT ![l] = IF users[u].status = "active"
                                      THEN "resolved" ELSE "refused"]
    /\ UNCHANGED <<now, sessions, sso_logouts, sso_subject_logouts, receivers>>

(* UpdateUserRole when the token's role differs from the row's: the        *)
(* user's other sessions go in the same transaction.                       *)
SyncRole(l) ==
    /\ lpc[l] = "resolved"
    /\ sessions' \in {sessions, sessions \ SessionsOf(login[l].user)}
    /\ lpc' = [lpc EXCEPT ![l] = "synced"]
    /\ UNCHANGED <<now, users, sso_logouts, sso_subject_logouts, login, receivers>>

(* The transaction of CreateSession: the row goes in only while the        *)
(* account exists and is active.                                           *)
InsertSession(l) ==
    /\ lpc[l] = "synced"
    /\ IF users[login[l].user].provider = "kysignon"
          /\ users[login[l].user].status = "active"
       THEN /\ sessions' = sessions \cup {l}
            /\ lpc' = [lpc EXCEPT ![l] = "check"]
       ELSE /\ lpc' = [lpc EXCEPT ![l] = "refused"]
            /\ UNCHANGED sessions
    /\ UNCHANGED <<now, users, sso_logouts, sso_subject_logouts, login, receivers>>

SidFenced(l) ==
    login[l].sid \in Sids /\ sso_logouts[login[l].sid] > now

(* Faulty variant: any fence of the subject refuses, whatever its cutoff. *)
SubjectFenced_AnyCutoff(l) ==
    LET u == users[login[l].user]
    IN  u.provider = "kysignon" /\ sso_subject_logouts[u.subject].expires > now

SubjectFenced(l) ==
    LET u == users[login[l].user]
        f == sso_subject_logouts[u.subject]
    IN  u.provider = "kysignon" /\ f.cutoff > login[l].issuedAt /\ f.expires > now

(* The statement after the commit.  A fenced sign-in deletes its own row   *)
(* (the delete's error is ignored, so the row may survive) and never hands *)
(* out the cookie.                                                         *)
CheckFences(l) ==
    /\ lpc[l] = "check"
    /\ IF SidFenced(l) \/ SubjectFenced(l)
       THEN /\ lpc' = [lpc EXCEPT ![l] = "fenced"]
            /\ sessions' \in {sessions, sessions \ {l}}
       ELSE /\ lpc' = [lpc EXCEPT ![l] = "issued"]
            /\ UNCHANGED sessions
    /\ UNCHANGED <<now, users, sso_logouts, sso_subject_logouts, login, receivers>>

(* A failing exchange, lookup, transaction or fence query ends the         *)
(* callback with an error page; after the insert it also tries to delete   *)
(* the row.                                                                *)
CallbackFails(l) ==
    /\ InFlight(l)
    /\ lpc' = [lpc EXCEPT ![l] = "refused"]
    /\ \/ UNCHANGED sessions
       \/ lpc[l] = "check" /\ sessions' = sessions \ {l}
    /\ UNCHANGED <<now, users, sso_logouts, sso_subject_logouts, login, receivers>>

(***************************************************************************)
(* The back-channel logout receiver                                        *)
(***************************************************************************)

(* The provider ends a login session, or every login of a subject, and     *)
(* signs a logout token: now, or again for one it already ended.           *)
SendLogout(o) ==
    /\ opc[o] = "idle"
    /\ \E s \in Sids \cup {NoSid}, x \in Subjects :
         /\ logout' = [logout EXCEPT ![o] = [@ EXCEPT !.sid = s, !.subject = x,
                                                      !.issuedAt = now]]
         /\ idpEnded' = idpEnded \cup ({s} \ {NoSid})
    /\ opc' = [opc EXCEPT ![o] = "sent"]
    /\ UNCHANGED <<now, tables, callbacks>>

(* A token another request already carried is delivered once more. *)
ResendLogout(o, p) ==
    /\ opc[o] = "idle" /\ opc[p] \notin {"idle", "sent"}
    /\ logout' = [logout EXCEPT ![o] = [logout[p] EXCEPT !.fenceUntil = 0]]
    /\ opc' = [opc EXCEPT ![o] = "sent"]
    /\ UNCHANGED <<now, tables, callbacks, idpEnded>>

(* Verifying the token and fixing the fence's end. *)
ReceiveLogout(o) ==
    /\ opc[o] = "sent"
    /\ logout' = [logout EXCEPT ![o].fenceUntil = now + ssoLogoutFence]
    /\ opc' = [opc EXCEPT ![o] = "received"]
    /\ UNCHANGED <<now, tables, callbacks, idpEnded>>

BySid(o) == logout[o].sid # NoSid

(* iat is rounded up to the next second. *)
Cutoff(o) == logout[o].issuedAt + 1

(* Faulty variant: every fence is pruned, live ones too. *)
PruneFences_All(o) ==
    /\ opc[o] = "received"
    /\ IF BySid(o)
       THEN /\ sso_logouts' = [s \in Sids |-> 0]
            /\ UNCHANGED sso_subject_logouts
       ELSE /\ sso_subject_logouts' = [x \in Subjects |-> NoFence]
            /\ UNCHANGED sso_logouts
    /\ opc' = [opc EXCEPT ![o] = "pruned"]
    /\ UNCHANGED <<now, users, sessions, callbacks, logout, idpEnded>>

(* EndSSOSession / EndSSOSubject, first statement: expired fences of the   *)
(* same kind go.                                                           *)
PruneFences(o) ==
    /\ opc[o] = "received"
    /\ IF BySid(o)
       THEN /\ sso_logouts' = [s \in Sids |-> IF sso_logouts[s] <= now
                                              THEN 0 ELSE sso_logouts[s]]
            /\ UNCHANGED sso_subject_logouts
       ELSE /\ sso_subject_logouts' =
                 [x \in Subjects |-> IF sso_subject_logouts[x].expires <= now
                                     THEN NoFence ELSE sso_subject_logouts[x]]
            /\ UNCHANGED sso_logouts
    /\ opc' = [opc EXCEPT ![o] = "pruned"]
    /\ UNCHANGED <<now, users, sessions, callbacks, logout, idpEnded>>

(* Faulty variant: the upsert without WHERE cutoff < excluded.cutoff. *)
WriteFence_OlderCutoffWins(o) ==
    /\ opc[o] = "pruned"
    /\ IF BySid(o)
       THEN /\ sso_logouts' = [sso_logouts EXCEPT ![logout[o].sid] = logout[o].fenceUntil]
            /\ UNCHANGED sso_subject_logouts
       ELSE /\ sso_subject_logouts' =
                 [sso_subject_logouts EXCEPT ![logout[o].subject] =
                    [cutoff |-> Cutoff(o), expires |-> logout[o].fenceUntil]]
            /\ UNCHANGED sso_logouts
    /\ opc' = [opc EXCEPT ![o] = "written"]
    /\ UNCHANGED <<now, users, sessions, callbacks, logout, idpEnded>>

(* Second statement: the fence.  A sid fence is overwritten, a subject     *)
(* fence only by a later cutoff.                                           *)
WriteFence(o) ==
    /\ opc[o] = "pruned"
    /\ IF BySid(o)
       THEN /\ sso_logouts' = [sso_logouts EXCEPT ![logout[o].sid] = logout[o].fenceUntil]
            /\ UNCHANGED sso_subject_logouts
       ELSE /\ sso_subject_logouts' =
                 IF sso_subject_logouts[logout[o].subject].cutoff < Cutoff(o)
                 THEN [sso_subject_logouts EXCEPT ![logout[o].subject] =
                         [cutoff |-> Cutoff(o), expires |-> logout[o].fenceUntil]]
                 ELSE sso_subject_logouts
            /\ UNCHANGED sso_logouts
    /\ opc' = [opc EXCEPT ![o] = "written"]
    /\ UNCHANGED <<now, users, sessions, callbacks, logout, idpEnded>>

(* Faulty variant: created_at is not compared. *)
Ended_WholeSubject(o) ==
    IF BySid(o)
    THEN {l \in sessions : login[l].sid = logout[o].sid}
    ELSE {l \in sessions : login[l].user \in Matching("kysignon", logout[o].subject)}

(* The rows the third statement deletes. *)
Ended(o) ==
    IF BySid(o)
    THEN {l \in sessions : login[l].sid = logout[o].sid}
    ELSE {l \in sessions : /\ login[l].issuedAt < Cutoff(o)
                           /\ login[l].user \in Matching("kysignon", logout[o].subject)}

DeleteSessions(o) ==
    /\ opc[o] = "written"
    /\ sessions' = sessions \ Ended(o)
    /\ opc' = [opc EXCEPT ![o] = "done"]
    /\ UNCHANGED <<now, users, sso_logouts, sso_subject_logouts, callbacks,
                   logout, idpEnded>>

(* An unverifiable token answers 400, a failing statement 500. *)
LogoutFails(o) ==
    /\ opc[o] \in {"sent", "received", "pruned", "written"}
    /\ opc' = [opc EXCEPT ![o] = "failed"]
    /\ UNCHANGED <<now, tables, callbacks, logout, idpEnded>>

(***************************************************************************)
(* Everything else that touches these rows                                 *)
(***************************************************************************)

(* SCIM provisions an account before its first sign-in. *)
ScimCreate(u) ==
    /\ users[u].provider = "unborn"
    /\ \E x \in Subjects, st \in {"active", "inactive"} :
         users' = [users EXCEPT ![u] = [provider |-> "scim", subject |-> x, status |-> st]]
    /\ UNCHANGED <<now, sessions, sso_logouts, sso_subject_logouts, callbacks, receivers>>

(* UpdateSCIMProfile: the subject moves only while the row is still        *)
(* "scim"; a new status (or role) deletes the user's sessions in the same  *)
(* transaction.                                                            *)
ScimUpdate(u) ==
    /\ users[u].provider \in {"scim", "kysignon"}
    /\ \E st \in {"active", "inactive"}, x \in Subjects :
         /\ users[u].provider = "scim" \/ x = users[u].subject
         /\ users' = [users EXCEPT ![u] = [@ EXCEPT !.status = st, !.subject = x]]
         /\ \/ sessions' = sessions \ SessionsOf(u)
            \/ st = users[u].status /\ UNCHANGED sessions
    /\ UNCHANGED <<now, sso_logouts, sso_subject_logouts, callbacks, receivers>>

(* SCIM deletes an account; its sessions cascade. *)
DeleteUser(u) ==
    /\ users[u].provider \in {"scim", "kysignon"}
    /\ users' = [users EXCEPT ![u].provider = "deleted"]
    /\ sessions' = sessions \ SessionsOf(u)
    /\ UNCHANGED <<now, sso_logouts, sso_subject_logouts, callbacks, receivers>>

(* The client signs out, or a read of an expired row deletes it. *)
EndOwnSession(l) ==
    /\ lpc[l] = "issued" /\ l \in sessions
    /\ sessions' = sessions \ {l}
    /\ UNCHANGED <<now, users, sso_logouts, sso_subject_logouts, callbacks, receivers>>

(* The process dies: every handler it was running stops where it is.  The  *)
(* browser's half of a sign-in and a token still on its way survive.       *)
Crash ==
    /\ lpc' = [l \in Logins |-> IF InFlight(l) /\ Minted(l) THEN "refused" ELSE lpc[l]]
    /\ opc' = [o \in Logouts |-> IF opc[o] \in {"received", "pruned", "written"}
                                 THEN "failed" ELSE opc[o]]
    /\ UNCHANGED <<now, tables, login, logout, idpEnded>>

-----------------------------------------------------------------------------
Callback(l) ==
    \/ StartLogin(l) \/ ExchangeCode(l) \/ ResolveUser(l) \/ SyncRole(l)
    \/ InsertSession(l) \/ CheckFences(l) \/ CallbackFails(l) \/ EndOwnSession(l)

Receiver(o) ==
    \/ SendLogout(o) \/ ReceiveLogout(o) \/ PruneFences(o) \/ WriteFence(o)
    \/ DeleteSessions(o) \/ LogoutFails(o)
    \/ \E p \in Logouts : ResendLogout(o, p)

Next == \/ Tick \/ Crash
        \/ \E l \in Logins : Callback(l)
        \/ \E o \in Logouts : Receiver(o)
        \/ \E u \in UserIds : ScimCreate(u) \/ ScimUpdate(u) \/ DeleteUser(u)

Spec == Init /\ [][Next]_vars

-----------------------------------------------------------------------------
(***************************************************************************)
(* Properties                                                              *)
(***************************************************************************)

(* Every variable keeps its type: rows, fences and the data of handlers.   *)
TypeOK ==
    /\ now \in Nat
    /\ users \in [UserIds -> User]
    /\ sessions \in SUBSET Logins
    /\ sso_logouts \in [Sids -> Nat]
    /\ sso_subject_logouts \in [Subjects -> Fence]
    /\ lpc \in [Logins -> LoginStates]
    /\ login \in [Logins -> Login]
    /\ opc \in [Logouts -> LogoutStates]
    /\ logout \in [Logouts -> Logout]
    /\ idpEnded \in SUBSET Sids

(* Sign-ins that hold a cookie whose session row is in the table. *)
Usable == {l \in sessions : lpc[l] = "issued"}

(* The sign-ins a logout token is about (LogoutClaims): those of its sid,  *)
(* or every one of its subject issued by its iat.                          *)
Names(o, l) ==
    /\ Minted(l)
    /\ IF BySid(o) THEN login[l].sid = logout[o].sid
       ELSE /\ login[l].subject = logout[o].subject
            /\ login[l].issuedAt <= logout[o].issuedAt

Condemned == {l \in Logins : \E o \in Logouts : opc[o] = "done" /\ Names(o, l)}

(* Once a back-channel logout has answered 200, no sign-in it names holds  *)
(* a usable session, whichever of CreateSession's and EndSSOSession's (or  *)
(* EndSSOSubject's) statements ran first, and however late the callback of *)
(* that sign-in finishes.                                                  *)
EndedStaysEnded == Usable \cap Condemned = {}

(* ErrSSOSessionEnded is answered only to a sign-in that some received     *)
(* logout token really names: a delayed or repeated logout does not refuse *)
(* a sign-in of the same subject issued after it.                          *)
JustifiedRefusal ==
    \A l \in Logins : lpc[l] = "fenced" =>
        \E o \in Logouts : opc[o] \in {"written", "done", "failed"} /\ Names(o, l)

(* A logout receiver's own statements take a usable session away only from *)
(* a sign-in its token names: EndSSOSubject's created_at bound spares the  *)
(* sign-ins issued later.                                                  *)
OnlyNamedSignInsEnd ==
    [][\A o \in Logouts : DeleteSessions(o) =>
         \A l \in Usable \ Usable' : Names(o, l)]_vars

(* The two handlers together behave as one atomic revocation: a granted    *)
(* session is never one a completed logout has named, in any state of      *)
(* either handler, through failures and restarts.                          *)
Promise == INSTANCE Revocation WITH
               Tokens <- Logins, usable <- Usable, condemned <- Condemned

RefinesRevocation == Promise!Spec

=============================================================================

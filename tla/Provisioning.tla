---------------------------- MODULE Provisioning ----------------------------
(***************************************************************************)
(* The account directory: SCIM user writes (create, take-over, PUT, PATCH, *)
(* DELETE) racing KySignOn sign-ins that look an account up, adopt a SCIM  *)
(* row or create one, and follow the token's role.                         *)
(*                                                                         *)
(* Every handler reads rows in statements of their own and writes later in *)
(* one transaction; PUT, PATCH and the take-over hold the handler's mutex, *)
(* create and DELETE do not, and sign-ins know nothing of it.  One action  *)
(* is one statement or transaction.  A handler's answer that changes       *)
(* nothing just returns it to rest.                                        *)
(***************************************************************************)
EXTENDS Naturals

CONSTANTS UserIds,
          Names,          \* usernames up to letter case
          Subjects, NoSubject,
          Writers,        \* SCIM requests in flight at a time
          Logins,         \* sign-ins in flight at a time
          Omitted,        \* an attribute the request does not carry
          NoJob, NoUser,
          AllowAdmin,     \* KY_SCIM_ALLOW_ADMIN
          AutoProvision,
          Attempts        \* writes one update tries: 4

ASSUME ProvisioningAssumption ==
    /\ AllowAdmin \in BOOLEAN /\ AutoProvision \in BOOLEAN
    /\ Attempts \in Nat \ {0}
    /\ NoSubject \notin Subjects /\ NoUser \notin UserIds \cup Writers
    /\ Omitted \notin Names \cup Subjects \cup {NoSubject, "user", "admin", "active", "inactive"}

VARIABLES rows,       \* users table
          mu,         \* the writer that holds userResourceHandler.mu
          wpc, job,   \* SCIM requests
          lpc, login  \* sign-ins

scim == <<mu, wpc, job>>
signIns == <<lpc, login>>
vars == <<rows, scim, signIns>>

-----------------------------------------------------------------------------
Roles == {"user", "admin"}
Statuses == {"active", "inactive"}

Row == [provider : {"none", "local", "scim", "kysignon", "deleted"},
        name : Names \cup {Omitted}, subject : Subjects \cup {NoSubject},
        role : Roles, status : Statuses, managed : BOOLEAN]

NoRow == [provider |-> "none", name |-> Omitted, subject |-> NoSubject,
          role |-> "user", status |-> "active", managed |-> FALSE]

Attrs == [name : Names \cup {Omitted}, subject : Subjects \cup {NoSubject, Omitted},
          role : Roles \cup {Omitted}, status : Statuses \cup {Omitted}]

(* What each request can carry: a create without externalId stores none, a *)
(* PUT without one (or roles) keeps the stored value, only a PATCH may     *)
(* leave userName or active out or clear externalId.                       *)
CreateAttrs == [name : Names, subject : Subjects \cup {NoSubject},
                role : Roles \cup {Omitted}, status : Statuses]
ReplaceAttrs == [name : Names, subject : Subjects \cup {Omitted},
                 role : Roles \cup {Omitted}, status : Statuses]

(* All a sign-in uses of the row it has found. *)
Glimpse == [role : Roles, status : Statuses]
NoGlimpse == [role |-> "user", status |-> "active"]
GlimpseOf(r) == [role |-> r.role, status |-> r.status]

Job == [id : UserIds \cup {NoUser}, attrs : Attrs, row : Row, attempt : 0 .. Attempts - 1]
Login == [subject : Subjects, role : Roles \cup {Omitted},
          user : UserIds \cup {NoUser}, row : Glimpse]

WriterStates == {"idle", "byName", "insert", "takeOver", "read", "write", "delete"}
LoginStates == {"idle", "adopt", "link", "relookup", "provision", "found", "synced", "signedIn"}

Exists(u) == rows[u].provider \in {"local", "scim", "kysignon"}
BySSO(provider, x) ==
    {u \in UserIds : rows[u].provider = provider /\ rows[u].subject = x}
ByName(n) == {u \in UserIds : Exists(u) /\ rows[u].name = n}

(* Faulty variant: a deactivated account's name counts as free. *)
NameFree_ActiveOnly(n, u) ==
    \/ u \in ByName(n)
    \/ \A v \in ByName(n) \ {u} : rows[v].status = "inactive"

(* checkUsernameFree: an account may keep its own name, even one it shares *)
(* with an older case variant.                                             *)
NameFree(n, u) == u \in ByName(n) \/ ByName(n) \ {u} = {}

(* checkRole *)
RoleRefused(old, new) == new = "admin" /\ old # "admin" /\ ~AllowAdmin

Given(value, stored) == IF value = Omitted THEN stored ELSE value

(* replaceUser and applyUserPatch on the row read. *)
Apply(a, r) ==
    [r EXCEPT !.name = Given(a.name, @), !.subject = Given(a.subject, @),
              !.role = Given(a.role, @), !.status = Given(a.status, @)]

-----------------------------------------------------------------------------
(* An older installation: local accounts, even two names that differ only  *)
(* in case.                                                                *)
Init ==
    /\ rows \in [UserIds -> {NoRow}
         \cup [provider : {"local"}, name : Names, subject : {NoSubject},
               role : {"admin"}, status : {"active"}, managed : {FALSE}]]
    /\ mu = NoUser
    /\ wpc = [w \in Writers |-> "idle"]
    /\ job = [w \in Writers |-> NoJob]
    /\ lpc = [l \in Logins |-> "idle"]
    /\ login = [l \in Logins |-> NoJob]

(***************************************************************************)
(* SCIM                                                                    *)
(***************************************************************************)

Goes(w, state, j) ==
    /\ wpc' = [wpc EXCEPT ![w] = state]
    /\ job' = [job EXCEPT ![w] = j]

Answered(w) == Goes(w, "idle", NoJob)

Fresh(a) == [id |-> NoUser, attrs |-> a, row |-> NoRow, attempt |-> 0]
On(j, u) == [j EXCEPT !.id = u, !.row = rows[u]]

(* Create, up to GetUserBySSO: an account SCIM already manages is a        *)
(* uniqueness conflict.                                                    *)
CreateBySubject(w) ==
    /\ wpc[w] = "idle"
    /\ \E a \in CreateAttrs :
         LET found == IF a.subject = NoSubject THEN {} ELSE BySSO("kysignon", a.subject)
         IN  \/ found = {} /\ Goes(w, "byName", Fresh(a))
             \/ \E u \in found : ~rows[u].managed /\ Goes(w, "takeOver", On(Fresh(a), u))
    /\ UNCHANGED <<rows, mu, signIns>>

(* The lookup by userName, which an externalId of another subject vetoes. *)
CreateByName(w) ==
    LET a == job[w].attrs IN
    /\ wpc[w] = "byName"
    /\ \/ ByName(a.name) = {} /\ Goes(w, "insert", job[w])
       \/ \E u \in ByName(a.name) :
            IF rows[u].provider # "kysignon" \/ rows[u].managed
            THEN Goes(w, "insert", job[w])
            ELSE IF a.subject \notin {NoSubject, rows[u].subject}
            THEN Answered(w)
            ELSE Goes(w, "takeOver", On(job[w], u))
    /\ UNCHANGED <<rows, mu, signIns>>

(* CreateUser. *)
Insert(w) ==
    LET a == job[w].attrs
        role == Given(a.role, "user")
    IN
    /\ wpc[w] = "insert"
    /\ IF RoleRefused("", role) \/ ~NameFree(a.name, NoUser)
       THEN UNCHANGED rows
       ELSE \E u \in UserIds :
              /\ rows[u].provider = "none"
              /\ rows' = [rows EXCEPT ![u] =
                   [provider |-> "scim", name |-> a.name, subject |-> a.subject,
                    role |-> role, status |-> a.status, managed |-> TRUE]]
    /\ Answered(w)
    /\ UNCHANGED <<mu, signIns>>

(* takeOver and TakeOverForSCIM: one statement under the mutex that keeps  *)
(* the subject and compares role, status, provider, subject and            *)
(* scim_managed with what was read.                                        *)
TakeOver(w) ==
    LET u == job[w].id
        old == job[w].row
        new == [Apply(job[w].attrs, old) EXCEPT !.subject = old.subject]
    IN
    /\ wpc[w] = "takeOver" /\ mu = NoUser
    /\ IF \/ RoleRefused(old.role, new.role) \/ ~NameFree(new.name, u)
          \/ rows[u].role # old.role \/ rows[u].status # old.status
          \/ u \notin BySSO("kysignon", old.subject) \/ rows[u].managed
       THEN UNCHANGED rows
       ELSE rows' = [rows EXCEPT ![u] =
              [@ EXCEPT !.name = new.name, !.role = new.role, !.status = new.status,
                        !.managed = TRUE]]
    /\ Answered(w)
    /\ UNCHANGED <<mu, signIns>>

(* Faulty variant: an account of any kind. *)
Managed_AnyAccount(u) == Exists(u)

(* managedUser *)
Managed(u) == Exists(u) /\ rows[u].managed

(* Faulty variant: the mutex is not taken. *)
StartUpdate_NoMutex(w) ==
    /\ wpc[w] = "idle"
    /\ \E u \in {v \in UserIds : Managed(v)}, a \in ReplaceAttrs \cup Attrs :
         Goes(w, "write", On(Fresh(a), u))
    /\ UNCHANGED <<rows, mu, signIns>>

(* update: takes the mutex and reads the row. *)
StartUpdate(w) ==
    /\ wpc[w] = "idle" /\ mu = NoUser
    /\ \E u \in {v \in UserIds : Managed(v)}, a \in ReplaceAttrs \cup Attrs :
         Goes(w, "write", On(Fresh(a), u))
    /\ mu' = w
    /\ UNCHANGED <<rows, signIns>>

(* Faulty variant: the early return keeps the mutex. *)
Reread_KeepsMutex(w) ==
    LET u == job[w].id IN
    /\ wpc[w] = "read"
    /\ IF Managed(u) THEN Goes(w, "write", On(job[w], u)) ELSE Answered(w)
    /\ UNCHANGED <<rows, mu, signIns>>

(* Reading it again after a conflict. *)
Reread(w) ==
    LET u == job[w].id IN
    /\ wpc[w] = "read"
    /\ IF Managed(u)
       THEN Goes(w, "write", On(job[w], u)) /\ UNCHANGED mu
       ELSE Answered(w) /\ mu' = NoUser
    /\ UNCHANGED <<rows, signIns>>

(* Faulty variant: the role read is not compared. *)
Unchanged_AnyRole(u, old) ==
    Exists(u) /\ rows[u].status = old.status /\ rows[u].subject = old.subject

(* The comparison of UpdateSCIMProfile. *)
Unchanged(u, old) ==
    /\ Exists(u)
    /\ rows[u].role = old.role /\ rows[u].status = old.status
    /\ rows[u].subject = old.subject

(* Faulty variant: externalId is written whatever the row's provider. *)
Written_AnyProvider(u, new) ==
    [rows[u] EXCEPT !.name = new.name, !.role = new.role, !.status = new.status,
                    !.subject = new.subject]

(* What it stores: the subject only while the row is SCIM's own. *)
Written(u, new) ==
    [rows[u] EXCEPT !.name = new.name, !.role = new.role, !.status = new.status,
                    !.subject = IF rows[u].provider = "scim" THEN new.subject ELSE @]

Release(w) == Answered(w) /\ mu' = NoUser

(* Faulty variant: a conflict is retried without end. *)
UpdateSCIMProfile_Forever(w) ==
    LET u == job[w].id
        old == job[w].row
        new == IF old.provider = "scim" THEN Apply(job[w].attrs, old)
               ELSE [Apply(job[w].attrs, old) EXCEPT !.subject = old.subject]
    IN
    /\ wpc[w] = "write"
    /\ \/ /\ RoleRefused(old.role, new.role) \/ ~Exists(u) \/ ~NameFree(new.name, u)
          /\ Release(w) /\ UNCHANGED rows
       \/ /\ ~RoleRefused(old.role, new.role) /\ NameFree(new.name, u) /\ Unchanged(u, old)
          /\ rows' = [rows EXCEPT ![u] = Written(u, new)]
          /\ Release(w)
       \/ /\ ~RoleRefused(old.role, new.role) /\ NameFree(new.name, u)
          /\ Exists(u) /\ ~Unchanged(u, old)
          /\ Goes(w, "read", job[w]) /\ UNCHANGED <<rows, mu>>
    /\ UNCHANGED signIns

(* The write: refused, stored, or in conflict and tried again.  With the   *)
(* last attempt, or the row gone, the request fails.                       *)
UpdateSCIMProfile(w) ==
    LET u == job[w].id
        old == job[w].row
        new == IF old.provider = "scim" THEN Apply(job[w].attrs, old)
               ELSE [Apply(job[w].attrs, old) EXCEPT !.subject = old.subject]
        refused == RoleRefused(old.role, new.role) \/ ~Exists(u) \/ ~NameFree(new.name, u)
    IN
    /\ wpc[w] = "write"
    /\ \/ refused /\ Release(w) /\ UNCHANGED rows
       \/ /\ ~refused /\ Unchanged(u, old)
          /\ rows' = [rows EXCEPT ![u] = Written(u, new)]
          /\ Release(w)
       \/ /\ ~refused /\ ~Unchanged(u, old)
          /\ IF job[w].attempt < Attempts - 1
             THEN Goes(w, "read", [job[w] EXCEPT !.attempt = @ + 1]) /\ UNCHANGED mu
             ELSE Release(w)
          /\ UNCHANGED rows
    /\ UNCHANGED signIns

(* Delete: managedUser, then DeleteUser, without the mutex. *)
StartDelete(w) ==
    /\ wpc[w] = "idle"
    /\ \E u \in {v \in UserIds : Managed(v)} :
         Goes(w, "delete", [Fresh([name |-> Omitted, subject |-> Omitted,
                                   role |-> Omitted, status |-> Omitted]) EXCEPT !.id = u])
    /\ UNCHANGED <<rows, mu, signIns>>

DeleteUser(w) ==
    LET u == job[w].id IN
    /\ wpc[w] = "delete"
    /\ rows' = [rows EXCEPT ![u] = IF Exists(u) THEN [NoRow EXCEPT !.provider = "deleted"] ELSE @]
    /\ Answered(w)
    /\ UNCHANGED <<mu, signIns>>

(***************************************************************************)
(* The sign-in callback after the code exchange                            *)
(***************************************************************************)

Moves(l, state, c) ==
    /\ lpc' = [lpc EXCEPT ![l] = state]
    /\ login' = [login EXCEPT ![l] = c]

Refused(l) == Moves(l, "idle", NoJob)
Got(c, u) == [c EXCEPT !.user = u, !.row = GlimpseOf(rows[u])]

(* All a session keeps of the sign-in; the rest is not looked at again. *)
Settled(c) == [c EXCEPT !.role = Omitted, !.row = NoGlimpse]

(* The claims arrive; GetUserBySSO("kysignon", sub). *)
LookUp(l) ==
    /\ lpc[l] = "idle"
    /\ \E x \in Subjects, role \in Roles \cup {Omitted} :
         LET c == [subject |-> x, role |-> role, user |-> NoUser, row |-> NoGlimpse]
         IN  \/ \E u \in BySSO("kysignon", x) : Moves(l, "found", Got(c, u))
             \/ BySSO("kysignon", x) = {} /\ Moves(l, "adopt", c)
    /\ UNCHANGED <<rows, scim>>

(* AdoptSCIMUser: GetUserBySSO("scim", sub). *)
FindScimRow(l) ==
    LET found == BySSO("scim", login[l].subject) IN
    /\ lpc[l] = "adopt"
    /\ \/ found = {} /\ Moves(l, "provision", login[l])
       \/ \E u \in found : Moves(l, "link", Got(login[l], u))
    /\ UNCHANGED <<rows, scim>>

(* Faulty variant: the subject is not compared again. *)
LinkSSOIdentity_AnySubject(l) ==
    LET u == login[l].user IN
    /\ lpc[l] = "link"
    /\ IF rows[u].provider = "scim"
       THEN /\ rows' = [rows EXCEPT ![u].provider = "kysignon"]
            /\ Moves(l, "found", login[l])
       ELSE /\ Moves(l, "relookup", [login[l] EXCEPT !.user = NoUser, !.row = NoGlimpse])
            /\ UNCHANGED rows
    /\ UNCHANGED scim

(* LinkSSOIdentity, only over the subject and provider read. *)
LinkSSOIdentity(l) ==
    LET u == login[l].user IN
    /\ lpc[l] = "link"
    /\ IF u \in BySSO("scim", login[l].subject)
       THEN /\ rows' = [rows EXCEPT ![u].provider = "kysignon"]
            /\ Moves(l, "found", login[l])
       ELSE /\ Moves(l, "relookup", [login[l] EXCEPT !.user = NoUser, !.row = NoGlimpse])
            /\ UNCHANGED rows
    /\ UNCHANGED scim

(* Somebody else linked or changed it: look for the linked row once more. *)
LookUpAgain(l) ==
    LET found == BySSO("kysignon", login[l].subject) IN
    /\ lpc[l] = "relookup"
    /\ \/ found = {} /\ Moves(l, "provision", login[l])
       \/ \E u \in found : Moves(l, "found", Got(login[l], u))
    /\ UNCHANGED <<rows, scim>>

(* The first sign-in creates the account, under the token's name, which    *)
(* nothing looked at before; unless that name is taken.                    *)
ProvisionUser(l) ==
    /\ lpc[l] = "provision"
    /\ \E n \in Names :
         IF ~AutoProvision \/ ~NameFree(n, NoUser)
         THEN Refused(l) /\ UNCHANGED rows
         ELSE \E u \in UserIds :
                LET c == login[l]
                    new == [provider |-> "kysignon", name |-> n, subject |-> c.subject,
                            role |-> Given(c.role, "user"), status |-> "active", managed |-> FALSE]
                IN  /\ rows[u].provider = "none"
                    /\ rows' = [rows EXCEPT ![u] = new]
                    /\ Moves(l, "found", [c EXCEPT !.user = u, !.row = GlimpseOf(new)])
    /\ UNCHANGED scim

(* The status check, and UpdateUserRole over the role and status read. *)
SyncRole(l) ==
    LET c == login[l]
        u == c.user
    IN
    /\ lpc[l] = "found"
    /\ IF c.row.status # "active" THEN Refused(l) /\ UNCHANGED rows
       ELSE IF Given(c.role, c.row.role) = c.row.role
       THEN Moves(l, "synced", Settled(c)) /\ UNCHANGED rows
       ELSE IF Exists(u) /\ rows[u].role = c.row.role /\ rows[u].status = c.row.status
       THEN /\ rows' = [rows EXCEPT ![u].role = c.role]
            /\ Moves(l, "synced", Settled(c))
       ELSE Refused(l) /\ UNCHANGED rows
    /\ UNCHANGED scim

(* CreateSession: the account still exists and is active. *)
IssueSession(l) ==
    LET u == login[l].user IN
    /\ lpc[l] = "synced"
    /\ IF Exists(u) /\ rows[u].status = "active"
       THEN Moves(l, "signedIn", login[l]) ELSE Refused(l)
    /\ UNCHANGED <<rows, scim>>

SignOut(l) ==
    /\ lpc[l] = "signedIn"
    /\ Refused(l)
    /\ UNCHANGED <<rows, scim>>

(* The process stops: requests and the mutex are gone, rows stay. *)
Crash ==
    /\ mu' = NoUser
    /\ wpc' = [w \in Writers |-> "idle"]
    /\ job' = [w \in Writers |-> NoJob]
    /\ lpc' = [l \in Logins |-> IF lpc[l] = "signedIn" THEN "signedIn" ELSE "idle"]
    /\ login' = [l \in Logins |-> IF lpc[l] = "signedIn" THEN login[l] ELSE NoJob]
    /\ UNCHANGED rows

-----------------------------------------------------------------------------
(* One step of a request that is already running. *)
Proceed(w) ==
    \/ CreateByName(w) \/ Insert(w) \/ TakeOver(w)
    \/ Reread(w) \/ UpdateSCIMProfile(w) \/ DeleteUser(w)

Arrive(w) == CreateBySubject(w) \/ StartUpdate(w) \/ StartDelete(w)

Callback(l) ==
    \/ LookUp(l) \/ FindScimRow(l) \/ LinkSSOIdentity(l) \/ LookUpAgain(l)
    \/ ProvisionUser(l) \/ SyncRole(l) \/ IssueSession(l) \/ SignOut(l)

Next == \/ \E w \in Writers : Arrive(w) \/ Proceed(w)
        \/ \E l \in Logins : Callback(l)
        \/ Crash

Spec == Init /\ [][Next]_vars

(* A goroutine that can run is run: asked only of a request that holds the *)
(* mutex.                                                                  *)
FairSpec == Spec /\ \A w \in Writers : WF_vars(Reread(w) \/ UpdateSCIMProfile(w))

-----------------------------------------------------------------------------
(***************************************************************************)
(* Properties                                                              *)
(***************************************************************************)

(* Rows, handler data and control states keep their types; the mutex is    *)
(* held exactly by a request between its first read and its last write.    *)
TypeOK ==
    /\ rows \in [UserIds -> Row]
    /\ mu \in Writers \cup {NoUser}
    /\ wpc \in [Writers -> WriterStates] /\ job \in [Writers -> Job \cup {NoJob}]
    /\ lpc \in [Logins -> LoginStates] /\ login \in [Logins -> Login \cup {NoJob}]
    /\ \A w \in Writers : wpc[w] \in {"read", "write"} <=> mu = w

(* No write creates a pair of accounts of the same name: whatever order    *)
(* creates, renames and first sign-ins commit in, a clash was there        *)
(* before (checkUsernameFree inside the write's transaction).              *)
NoNewClash ==
    [][\A n \in Names : \A u, v \in ByName(n)' :
         u # v => \E m \in Names : {u, v} \subseteq ByName(m)]_vars

(* "the IdP cannot read, rename, disable or delete" a local account, and   *)
(* no sign-in links or changes one (managedUser, takeOver).                *)
LocalUntouched ==
    [][\A u \in UserIds : rows[u].provider = "local" => rows'[u] = rows[u]]_vars

(* An adopted or provisioned account keeps the subject it signs in with,   *)
(* whatever externalId a SCIM write that read it before the adoption       *)
(* carries (UpdateSCIMProfile's CASE).                                     *)
SubjectStable ==
    [][\A u \in UserIds :
         rows[u].provider = "kysignon" /\ rows'[u].provider # "deleted" =>
            rows'[u].provider = "kysignon" /\ rows'[u].subject = rows[u].subject]_vars

(* A sign-in ends up on an account linked to its own subject, although the *)
(* directory may have given the row to somebody else since it was found    *)
(* (LinkSSOIdentity's comparison).                                         *)
OwnAccount ==
    \A l \in Logins : lpc[l] \in {"found", "synced", "signedIn"} =>
        LET u == login[l].user
        IN  Exists(u) => u \in BySSO("kysignon", login[l].subject)

(* With KY_SCIM_ALLOW_ADMIN off, no SCIM step makes an account an          *)
(* administrator: a stale read cannot put back the role a sign-in has just *)
(* taken away (checkRole on the row read, the comparison on the write).    *)
ScimGrantsNoAdmin ==
    [][\A w \in Writers : wpc'[w] # wpc[w] /\ ~AllowAdmin =>
         \A u \in UserIds : rows'[u].role = "admin" => rows[u].role = "admin"]_vars

(* A SCIM write changes only what its request carries: what the row holds  *)
(* at the commit, not what the handler read, survives elsewhere, and no    *)
(* concurrent write is lost.                                               *)
OmittedSurvives ==
    [][\A w \in Writers : wpc[w] \in {"write", "takeOver"} /\ wpc'[w] = "idle" =>
         LET u == job[w].id
             a == job[w].attrs
         IN  /\ a.name = Omitted => rows'[u].name = rows[u].name
             /\ a.role = Omitted => rows'[u].role = rows[u].role
             /\ a.status = Omitted => rows'[u].status = rows[u].status
             /\ a.subject = Omitted => rows'[u].subject = rows[u].subject]_vars

(* A request that holds the mutex gives it back, even when sign-ins keep   *)
(* changing the role it compares (the bounded retry of update).            *)
MutexReleased == \A w \in Writers : mu = w ~> mu # w

(* "Sign-in calls this before provisioning so it never creates a second    *)
(* row for the same person" (AdoptSCIMUser): an account is created for a   *)
(* subject only while no account carries it.                               *)
NoSecondRow ==
    [][\A l \in Logins : lpc[l] = "provision" /\ lpc'[l] = "found" =>
         BySSO("scim", login[l].subject) \cup BySSO("kysignon", login[l].subject) = {}]_vars

=============================================================================

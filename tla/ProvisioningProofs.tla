------------------------- MODULE ProvisioningProofs -------------------------
(***************************************************************************)
(* Proofs about Provisioning for any number of accounts, names, subjects,  *)
(* SCIM requests, sign-ins and retries, with and without KY_SCIM_ALLOW_    *)
(* ADMIN and automatic provisioning.                                       *)
(***************************************************************************)
EXTENDS Provisioning, TLAPS

(* SCIM manages no local account. *)
LocalInv == \A u \in UserIds : rows[u].provider = "local" => ~rows[u].managed

(* What a SCIM request at work remembers; the account it works on is no    *)
(* local one, and under the mutex nobody else renames it.                  *)
WriterOK(w) ==
    /\ wpc[w] # "idle" => job[w] \in Job
    /\ wpc[w] \in {"byName", "insert", "takeOver"} => job[w].attrs \in CreateAttrs
    /\ wpc[w] \in {"takeOver", "read", "write", "delete"} =>
          job[w].id \in UserIds /\ rows[job[w].id].provider \notin {"none", "local"}
    /\ wpc[w] = "write" /\ Exists(job[w].id) => rows[job[w].id].name = job[w].row.name

WriterInv == \A w \in Writers : WriterOK(w)

(* What a sign-in at work remembers; the account it found carries its      *)
(* subject or is gone for good.                                            *)
LoginOK(l) ==
    /\ lpc[l] # "idle" => login[l] \in Login
    /\ lpc[l] = "link" => login[l].user \in UserIds
    /\ lpc[l] \in {"found", "synced", "signedIn"} =>
          /\ login[l].user \in UserIds
          /\ \/ rows[login[l].user].provider = "deleted"
             \/ login[l].user \in BySSO("kysignon", login[l].subject)

LoginInv == \A l \in Logins : LoginOK(l)

Inv == TypeOK /\ LocalInv /\ WriterInv /\ LoginInv

(* What any step may do to one account: create it where there was none,    *)
(* delete or change one that is not local, and once it is linked to a      *)
(* subject keep it so.                                                     *)
Evolves(old, new) ==
    \/ new = old
    \/ old.provider = "none" /\ new.provider \in {"scim", "kysignon"}
    \/ old.provider \in {"scim", "kysignon"} /\ new.provider = "deleted"
    \/ old.provider = "scim" /\ new.provider \in {"scim", "kysignon"}
    \/ old.provider = "kysignon" /\ new.provider = "kysignon" /\ new.subject = old.subject

RowsEvolve == rows' \in [UserIds -> Row] /\ \A u \in UserIds : Evolves(rows[u], rows'[u])

(* No account that was there is renamed. *)
NoRename ==
    \A u \in UserIds : rows[u].provider # "none" /\ Exists(u)' => rows'[u].name = rows[u].name

-----------------------------------------------------------------------------
(* A request applied to a row is a row. *)
LEMMA ApplyType ==
    ASSUME NEW a \in Attrs, NEW r \in Row
    PROVE  Apply(a, r) \in Row
  BY DEF Apply, Given, Attrs, Row, Roles, Statuses

(* What a create or a PUT carries is what a PATCH may carry. *)
LEMMA AttrsFacts == CreateAttrs \subseteq Attrs /\ ReplaceAttrs \subseteq Attrs
  BY DEF CreateAttrs, ReplaceAttrs, Attrs

LEMMA NoRowType == NoRow \in Row /\ [NoRow EXCEPT !.provider = "deleted"] \in Row
  BY DEF NoRow, Row, Roles, Statuses

-----------------------------------------------------------------------------
(* What each write does to the directory. *)
LEMMA RowsUnchanged ==
    ASSUME Inv, rows' = rows
    PROVE  RowsEvolve /\ NoRename
  BY DEF Inv, TypeOK, RowsEvolve, Evolves, NoRename

LEMMA OneRow ==
    ASSUME Inv, NEW u \in UserIds, NEW r \in Row, Evolves(rows[u], r),
           rows' = [rows EXCEPT ![u] = r]
    PROVE  RowsEvolve
  BY DEF Inv, TypeOK, RowsEvolve, Evolves

LEMMA InsertRows ==
    ASSUME Inv, NEW w \in Writers, Insert(w)
    PROVE  RowsEvolve /\ NoRename
<1>1. CASE UNCHANGED rows
  BY <1>1, RowsUnchanged
<1>2. CASE ~UNCHANGED rows
  <2> DEFINE a == job[w].attrs
             new == [provider |-> "scim", name |-> a.name, subject |-> a.subject,
                     role |-> Given(a.role, "user"), status |-> a.status, managed |-> TRUE]
  <2>1. PICK u \in UserIds : rows[u].provider = "none" /\ rows' = [rows EXCEPT ![u] = new]
    BY <1>2 DEF Insert
  <2>2. a \in CreateAttrs
    BY DEF Insert, Inv, WriterInv, WriterOK
  <2>3. new \in Row
    BY <2>2 DEF CreateAttrs, Row, Given, Roles, Statuses
  <2>4. Evolves(rows[u], new)
    BY <2>1 DEF Evolves
  <2>5. NoRename
    BY <2>1 DEF NoRename, Inv, TypeOK
  <2> QED
    BY <2>1, <2>3, <2>4, <2>5, OneRow
<1> QED
  BY <1>1, <1>2

LEMMA TakeOverRows ==
    ASSUME Inv, NEW w \in Writers, TakeOver(w)
    PROVE  RowsEvolve
<1>1. CASE UNCHANGED rows
  BY <1>1, RowsUnchanged
<1>2. CASE ~UNCHANGED rows
  <2> DEFINE u == job[w].id
             old == job[w].row
             new == [Apply(job[w].attrs, old) EXCEPT !.subject = old.subject]
             r == [rows[u] EXCEPT !.name = new.name, !.role = new.role,
                                  !.status = new.status, !.managed = TRUE]
  <2>1. job[w] \in Job /\ u \in UserIds
    BY DEF TakeOver, Inv, WriterInv, WriterOK
  <2>2. rows[u] \in Row /\ Apply(job[w].attrs, old) \in Row
    BY <2>1, ApplyType DEF Job, Inv, TypeOK
  <2>3. rows' = [rows EXCEPT ![u] = r] /\ rows[u].provider = "kysignon"
    BY <1>2, <2>1 DEF TakeOver, BySSO, Inv, TypeOK
  <2>4. new.name = Apply(job[w].attrs, old).name /\ new.role = Apply(job[w].attrs, old).role
        /\ new.status = Apply(job[w].attrs, old).status
    BY <2>2 DEF Row
  <2>5. r \in Row /\ r.provider = rows[u].provider /\ r.subject = rows[u].subject
    BY <2>2, <2>4 DEF Row
  <2>6. Evolves(rows[u], r)
    BY <2>3, <2>5 DEF Evolves
  <2> QED
    BY <2>1, <2>3, <2>5, <2>6, OneRow
<1> QED
  BY <1>1, <1>2

(* UpdateSCIMProfile changes the account it compared, and renames it only  *)
(* as the last thing its request does.                                     *)
LEMMA UpdateRows ==
    ASSUME Inv, NEW w \in Writers, UpdateSCIMProfile(w)
    PROVE  RowsEvolve /\ (wpc'[w] # "idle" => NoRename)
<1>1. CASE UNCHANGED rows
  BY <1>1, RowsUnchanged
<1>2. CASE ~UNCHANGED rows
  <2> DEFINE u == job[w].id
             old == job[w].row
             new == IF old.provider = "scim" THEN Apply(job[w].attrs, old)
                    ELSE [Apply(job[w].attrs, old) EXCEPT !.subject = old.subject]
  <2>1. job[w] \in Job /\ u \in UserIds /\ rows[u].provider \notin {"none", "local"}
    BY DEF UpdateSCIMProfile, Inv, WriterInv, WriterOK
  <2>2. rows[u] \in Row /\ old \in Row /\ Apply(job[w].attrs, old) \in Row
    BY <2>1, ApplyType DEF Job, Inv, TypeOK
  <2>3. new \in Row
    BY <2>2 DEF Row
  <2>4. Exists(u) /\ rows' = [rows EXCEPT ![u] = Written(u, new)] /\ Release(w)
    BY <1>2 DEF UpdateSCIMProfile, Unchanged
  <2> HIDE DEF new
  <2>5. /\ Written(u, new) \in Row /\ Written(u, new).provider = rows[u].provider
        /\ rows[u].provider # "scim" => Written(u, new).subject = rows[u].subject
    BY <2>2, <2>3 DEF Row, Written
  <2>6. Evolves(rows[u], Written(u, new))
    BY <2>1, <2>4, <2>5 DEF Evolves, Exists
  <2>7. wpc'[w] = "idle"
    BY <2>4 DEF Release, Answered, Goes, Inv, TypeOK
  <2> QED
    BY <2>1, <2>4, <2>5, <2>6, <2>7, OneRow
<1> QED
  BY <1>1, <1>2

LEMMA DeleteRows ==
    ASSUME Inv, NEW w \in Writers, DeleteUser(w)
    PROVE  RowsEvolve /\ NoRename
<1> DEFINE u == job[w].id
           gone == [NoRow EXCEPT !.provider = "deleted"]
<1>1. u \in UserIds /\ rows[u] \in Row /\ rows[u].provider \notin {"none", "local"}
  BY DEF DeleteUser, Inv, TypeOK, WriterInv, WriterOK
<1>2. CASE ~Exists(u)
  <2>1. rows' = rows
    BY <1>1, <1>2 DEF DeleteUser, Inv, TypeOK
  <2> QED
    BY <2>1, RowsUnchanged
<1>3. CASE Exists(u)
  <2>1. rows' = [rows EXCEPT ![u] = gone] /\ gone \in Row /\ gone.provider = "deleted"
    BY <1>3, NoRowType DEF DeleteUser, NoRow
  <2>2. Evolves(rows[u], gone)
    BY <1>1, <1>3, <2>1 DEF Evolves, Exists
  <2>3. NoRename
    BY <1>1, <2>1 DEF NoRename, Exists, Inv, TypeOK
  <2> QED
    BY <1>1, <2>1, <2>2, <2>3, OneRow
<1> QED
  BY <1>2, <1>3

LEMMA LinkRows ==
    ASSUME Inv, NEW l \in Logins, LinkSSOIdentity(l)
    PROVE  RowsEvolve /\ NoRename
<1> DEFINE u == login[l].user
           r == [rows[u] EXCEPT !.provider = "kysignon"]
<1>1. CASE u \in BySSO("scim", login[l].subject)
  <2>1. u \in UserIds /\ rows[u] \in Row /\ rows[u].provider = "scim"
    BY <1>1 DEF BySSO, Inv, TypeOK
  <2>2. rows' = [rows EXCEPT ![u] = r]
    BY <1>1 DEF LinkSSOIdentity
  <2>3. r \in Row /\ r.provider = "kysignon" /\ r.name = rows[u].name
    BY <2>1 DEF Row
  <2>4. Evolves(rows[u], r)
    BY <2>1, <2>3 DEF Evolves
  <2>5. NoRename
    BY <2>1, <2>2, <2>3 DEF NoRename, Inv, TypeOK
  <2> QED
    BY <2>1, <2>2, <2>3, <2>4, <2>5, OneRow
<1>2. CASE u \notin BySSO("scim", login[l].subject)
  BY <1>2, RowsUnchanged DEF LinkSSOIdentity
<1> QED
  BY <1>1, <1>2

LEMMA ProvisionRows ==
    ASSUME Inv, NEW l \in Logins, ProvisionUser(l)
    PROVE  RowsEvolve /\ NoRename
<1>1. CASE UNCHANGED rows
  BY <1>1, RowsUnchanged
<1>2. CASE ~UNCHANGED rows
  <2> DEFINE c == login[l]
             new(n) == [provider |-> "kysignon", name |-> n, subject |-> c.subject,
                        role |-> Given(c.role, "user"), status |-> "active", managed |-> FALSE]
  <2>1. PICK n \in Names, u \in UserIds :
           rows[u].provider = "none" /\ rows' = [rows EXCEPT ![u] = new(n)]
    BY <1>2 DEF ProvisionUser
  <2>2. c \in Login
    BY DEF ProvisionUser, Inv, LoginInv, LoginOK
  <2>3. new(n) \in Row
    BY <2>2 DEF Login, Row, Given, Roles, Statuses
  <2>4. Evolves(rows[u], new(n))
    BY <2>1 DEF Evolves
  <2>5. NoRename
    BY <2>1 DEF NoRename, Inv, TypeOK
  <2> QED
    BY <2>1, <2>3, <2>4, <2>5, OneRow
<1> QED
  BY <1>1, <1>2

LEMMA SyncRows ==
    ASSUME Inv, NEW l \in Logins, SyncRole(l)
    PROVE  RowsEvolve /\ NoRename
<1>1. CASE UNCHANGED rows
  BY <1>1, RowsUnchanged
<1>2. CASE ~UNCHANGED rows
  <2> DEFINE c == login[l]
             u == c.user
             r == [rows[u] EXCEPT !.role = c.role]
  <2>1. c \in Login /\ u \in UserIds
        /\ (rows[u].provider = "deleted" \/ u \in BySSO("kysignon", c.subject))
    BY DEF SyncRole, Inv, LoginInv, LoginOK
  <2>2. /\ rows' = [rows EXCEPT ![u] = r] /\ Exists(u)
        /\ Given(c.role, c.row.role) # c.row.role
    BY <1>2 DEF SyncRole
  <2>3. rows[u] \in Row /\ rows[u].provider = "kysignon"
    BY <2>1, <2>2 DEF Exists, BySSO, Inv, TypeOK
  <2>4. c.role \in Roles
    BY <2>1, <2>2 DEF Login, Given
  <2>5. /\ r \in Row /\ r.provider = "kysignon" /\ r.subject = rows[u].subject
        /\ r.name = rows[u].name
    BY <2>3, <2>4 DEF Row
  <2>6. Evolves(rows[u], r)
    BY <2>3, <2>5 DEF Evolves
  <2>7. NoRename
    BY <2>1, <2>2, <2>5 DEF NoRename, Inv, TypeOK
  <2> QED
    BY <2>1, <2>2, <2>5, <2>6, <2>7, OneRow
<1> QED
  BY <1>1, <1>2

(* A handler's lookups, its answers and a crash leave the directory alone. *)
LEMMA QuietActions ==
    /\ \A w \in Writers : Arrive(w) \/ CreateByName(w) \/ Reread(w) => rows' = rows
    /\ \A l \in Logins : LookUp(l) \/ FindScimRow(l) \/ LookUpAgain(l)
                         \/ IssueSession(l) \/ SignOut(l) => rows' = rows
    /\ Crash => rows' = rows
  BY DEF Arrive, CreateBySubject, StartUpdate, StartDelete, CreateByName, Reread,
         LookUp, FindScimRow, LookUpAgain, IssueSession, SignOut, Crash

(* So every step does: accounts evolve, and only a request that ends in    *)
(* the step renames one; while the mutex is held, its holder.              *)
LEMMA StepRows ==
    ASSUME Inv, [Next]_vars
    PROVE  /\ RowsEvolve
           /\ \A w \in Writers : wpc[w] = "write" /\ wpc'[w] = "write" => NoRename
<1>1. ASSUME NEW v \in Writers, Arrive(v) \/ Proceed(v)
      PROVE  /\ RowsEvolve
             /\ \A w \in Writers : wpc[w] = "write" /\ wpc'[w] = "write" => NoRename
  <2>1. CASE Arrive(v) \/ CreateByName(v) \/ Reread(v)
    BY <2>1, QuietActions, RowsUnchanged
  <2>2. CASE Insert(v)
    BY <2>2, InsertRows
  <2>3. CASE TakeOver(v)
    <3>1. \A w \in Writers : wpc[w] # "write"
      BY <2>3, ProvisioningAssumption DEF TakeOver, Inv, TypeOK
    <3> QED
      BY <2>3, <3>1, TakeOverRows
  <2>4. CASE UpdateSCIMProfile(v)
    <3>1. \A w \in Writers : wpc[w] = "write" => w = v
      BY <2>4 DEF UpdateSCIMProfile, Inv, TypeOK
    <3>2. RowsEvolve /\ (wpc'[v] # "idle" => NoRename)
      BY <2>4, UpdateRows
    <3> QED
      BY <3>1, <3>2
  <2>5. CASE DeleteUser(v)
    BY <2>5, DeleteRows
  <2> QED
    BY <1>1, <2>1, <2>2, <2>3, <2>4, <2>5 DEF Proceed
<1>2. ASSUME NEW l \in Logins, Callback(l)
      PROVE  RowsEvolve /\ NoRename
  <2>1. CASE LookUp(l) \/ FindScimRow(l) \/ LookUpAgain(l) \/ IssueSession(l) \/ SignOut(l)
    BY <2>1, QuietActions, RowsUnchanged
  <2> QED
    BY <1>2, <2>1, LinkRows, ProvisionRows, SyncRows DEF Callback
<1>3. CASE Crash \/ UNCHANGED vars
  BY <1>3, QuietActions, RowsUnchanged DEF vars
<1> QED
  BY <1>1, <1>2, <1>3 DEF Next

-----------------------------------------------------------------------------
(* A request that does not move keeps what it relies on. *)
LEMMA WriterKept ==
    ASSUME Inv, RowsEvolve, NEW w \in Writers, wpc'[w] = wpc[w], job'[w] = job[w],
           wpc[w] = "write" => NoRename
    PROVE  WriterOK(w)'
<1>1. WriterOK(w)
  BY DEF Inv, WriterInv
<1> DEFINE u == job[w].id
<1>2. wpc[w] \in {"takeOver", "read", "write", "delete"} =>
         u \in UserIds /\ rows'[u].provider \notin {"none", "local"}
  BY <1>1 DEF WriterOK, RowsEvolve, Evolves
<1>3. ASSUME wpc[w] = "write", Exists(u)' PROVE rows'[u].name = job[w].row.name
  <2>1. u \in UserIds /\ rows[u].provider \notin {"none", "local"}
    BY <1>1, <1>3 DEF WriterOK
  <2>2. Exists(u)
    BY <1>3, <2>1 DEF RowsEvolve, Evolves, Exists
  <2>3. rows[u].name = job[w].row.name
    BY <1>1, <1>3, <2>2 DEF WriterOK
  <2> QED
    BY <1>3, <2>1, <2>3 DEF NoRename
<1> QED
  BY <1>1, <1>2, <1>3 DEF WriterOK

(* Nor does a sign-in lose the account it found. *)
LEMMA LoginKept ==
    ASSUME Inv, RowsEvolve, NEW l \in Logins, lpc'[l] = lpc[l], login'[l] = login[l]
    PROVE  LoginOK(l)'
<1>1. LoginOK(l)
  BY DEF Inv, LoginInv
<1> DEFINE u == login[l].user
<1>2. ASSUME lpc[l] \in {"found", "synced", "signedIn"}
      PROVE  u \in UserIds /\ (rows'[u].provider = "deleted" \/ u \in BySSO("kysignon", login[l].subject)')
  <2>1. u \in UserIds /\ (rows[u].provider = "deleted" \/ u \in BySSO("kysignon", login[l].subject))
    BY <1>1, <1>2 DEF LoginOK
  <2>2. rows'[u].provider = "deleted"
        \/ (rows'[u].provider = "kysignon" /\ rows'[u].subject = login[l].subject)
    BY <2>1 DEF RowsEvolve, Evolves, BySSO
  <2> QED
    BY <2>1, <2>2 DEF BySSO
<1> QED
  BY <1>1, <1>2 DEF LoginOK

(* No local account comes under management. *)
LEMMA LocalKept ==
    ASSUME Inv, RowsEvolve
    PROVE  LocalInv'
  BY DEF Inv, LocalInv, RowsEvolve, Evolves

(* A step of one request, with the mutex in its own hands or nobody's,     *)
(* keeps the invariant if what the request remembers next is right.        *)
LEMMA WriterStep ==
    ASSUME Inv, [Next]_vars, NEW w \in Writers, NEW s \in WriterStates,
           NEW j \in Job \cup {NoJob}, Goes(w, s, j), UNCHANGED signIns,
           mu' \in {mu, w, NoUser}, mu' # mu => mu \in {w, NoUser},
           s \in {"read", "write"} <=> mu' = w,
           WriterOK(w)'
    PROVE  Inv'
<1>1. RowsEvolve /\ \A v \in Writers : wpc[v] = "write" /\ wpc'[v] = "write" => NoRename
  BY StepRows
<1>2. wpc' \in [Writers -> WriterStates] /\ job' \in [Writers -> Job \cup {NoJob}]
  BY DEF Goes, Inv, TypeOK
<1>3. wpc'[w] = s /\ \A v \in Writers : v # w => wpc'[v] = wpc[v] /\ job'[v] = job[v]
  BY DEF Goes, Inv, TypeOK
<1>4. \A v \in Writers : wpc'[v] \in {"read", "write"} <=> mu' = v
  BY <1>3, ProvisioningAssumption DEF Inv, TypeOK
<1>5. TypeOK'
  BY <1>1, <1>2, <1>4 DEF RowsEvolve, Inv, TypeOK, signIns
<1>6. ASSUME NEW v \in Writers PROVE WriterOK(v)'
  <2>1. CASE v = w
    BY <2>1
  <2>2. CASE v # w
    <3>1. wpc'[v] = wpc[v] /\ job'[v] = job[v]
      BY <1>3, <2>2
    <3> QED
      BY <1>1, <3>1, WriterKept
  <2> QED
    BY <2>1, <2>2
<1>7. ASSUME NEW l \in Logins PROVE LoginOK(l)'
  BY <1>1, LoginKept DEF signIns
<1> QED
  BY <1>1, <1>5, <1>6, <1>7, LocalKept DEF Inv, WriterInv, LoginInv

(* The same of a sign-in. *)
LEMMA LoginStep ==
    ASSUME Inv, [Next]_vars, NEW l \in Logins, NEW s \in LoginStates,
           NEW c \in Login \cup {NoJob}, Moves(l, s, c), UNCHANGED scim,
           LoginOK(l)'
    PROVE  Inv'
<1>1. RowsEvolve /\ \A v \in Writers : wpc[v] = "write" /\ wpc'[v] = "write" => NoRename
  BY StepRows
<1>2. lpc' \in [Logins -> LoginStates] /\ login' \in [Logins -> Login \cup {NoJob}]
  BY DEF Moves, Inv, TypeOK
<1>3. \A k \in Logins : k # l => lpc'[k] = lpc[k] /\ login'[k] = login[k]
  BY DEF Moves, Inv, TypeOK
<1>4. TypeOK'
  BY <1>1, <1>2 DEF RowsEvolve, Inv, TypeOK, scim
<1>5. ASSUME NEW v \in Writers PROVE WriterOK(v)'
  BY <1>1, WriterKept DEF scim
<1>6. ASSUME NEW k \in Logins PROVE LoginOK(k)'
  <2>1. CASE k = l
    BY <2>1
  <2>2. CASE k # l
    BY <1>1, <1>3, <2>2, LoginKept
  <2> QED
    BY <2>1, <2>2
<1> QED
  BY <1>1, <1>4, <1>5, <1>6, LocalKept DEF Inv, WriterInv, LoginInv

-----------------------------------------------------------------------------
(* What a request remembers has its type. *)
LEMMA FreshType ==
    ASSUME NEW a \in Attrs
    PROVE  Fresh(a) \in Job /\ Fresh(a).attrs = a
<1>1. 0 \in 0 .. Attempts - 1
  BY ProvisioningAssumption
<1> QED
  BY <1>1, NoRowType DEF Fresh, Job

LEMMA OnType ==
    ASSUME Inv, NEW j \in Job, NEW u \in UserIds
    PROVE  /\ On(j, u) \in Job /\ On(j, u).id = u /\ On(j, u).row = rows[u]
           /\ On(j, u).attrs = j.attrs
<1>1. rows[u] \in Row
  BY DEF Inv, TypeOK
<1> QED
  BY <1>1 DEF On, Job

(* Where a request stands after a step of its own. *)
LEMMA WentTo ==
    ASSUME Inv, NEW w \in Writers, NEW s, NEW j, Goes(w, s, j)
    PROVE  wpc'[w] = s /\ job'[w] = j
  BY DEF Inv, TypeOK, Goes

(* A request that answers has nothing left to remember. *)
LEMMA AnsweredInv ==
    ASSUME Inv, [Next]_vars, NEW w \in Writers, Answered(w), UNCHANGED signIns,
           \/ mu' = mu /\ wpc[w] \notin {"read", "write"}
           \/ mu' = NoUser /\ wpc[w] \in {"read", "write"}
    PROVE  Inv'
<1>1. Goes(w, "idle", NoJob) /\ "idle" \in WriterStates
  BY DEF Answered, WriterStates
<1>2. WriterOK(w)'
  BY <1>1, WentTo DEF WriterOK
<1>3. mu' \in {mu, w, NoUser} /\ (mu' # mu => mu \in {w, NoUser}) /\ mu' # w
  BY ProvisioningAssumption DEF Inv, TypeOK
<1> QED
  BY <1>1, <1>2, <1>3, WriterStep

LEMMA CreateBySubjectInv ==
    ASSUME Inv, [Next]_vars, NEW w \in Writers, CreateBySubject(w)
    PROVE  Inv'
<1>1. wpc[w] = "idle" /\ rows' = rows /\ mu' = mu /\ UNCHANGED signIns
  BY DEF CreateBySubject
<1>2. mu # w
  BY <1>1 DEF Inv, TypeOK
<1>3. ASSUME NEW a \in CreateAttrs, Goes(w, "byName", Fresh(a)) PROVE Inv'
  <2>1. Fresh(a) \in Job /\ Fresh(a).attrs \in CreateAttrs /\ "byName" \in WriterStates
    BY AttrsFacts, FreshType DEF WriterStates
  <2>2. WriterOK(w)'
    BY <1>3, <2>1, WentTo DEF WriterOK
  <2> QED
    BY <1>1, <1>2, <1>3, <2>1, <2>2, WriterStep
<1>4. ASSUME NEW a \in CreateAttrs, NEW u \in BySSO("kysignon", a.subject),
             Goes(w, "takeOver", On(Fresh(a), u))
      PROVE  Inv'
  <2> DEFINE j == On(Fresh(a), u)
  <2>1. u \in UserIds /\ rows[u].provider = "kysignon"
    BY DEF BySSO
  <2>2. j \in Job /\ j.attrs \in CreateAttrs /\ j.id = u /\ "takeOver" \in WriterStates
    BY <2>1, AttrsFacts, FreshType, OnType DEF WriterStates
  <2> HIDE DEF j
  <2>3. WriterOK(w)'
    BY <1>1, <1>4, <2>1, <2>2, WentTo DEF WriterOK, j
  <2> QED
    BY <1>1, <1>2, <1>4, <2>2, <2>3, WriterStep DEF j
<1> QED
  BY <1>3, <1>4 DEF CreateBySubject

LEMMA CreateByNameInv ==
    ASSUME Inv, [Next]_vars, NEW w \in Writers, CreateByName(w)
    PROVE  Inv'
<1>1. wpc[w] = "byName" /\ rows' = rows /\ mu' = mu /\ UNCHANGED signIns
  BY DEF CreateByName
<1>2. mu # w /\ job[w] \in Job /\ job[w].attrs \in CreateAttrs
  BY <1>1 DEF Inv, TypeOK, WriterInv, WriterOK
<1>3. CASE Goes(w, "insert", job[w])
  <2>1. "insert" \in WriterStates
    BY DEF WriterStates
  <2>2. WriterOK(w)'
    BY <1>2, <1>3, WentTo DEF WriterOK
  <2> QED
    BY <1>1, <1>2, <1>3, <2>1, <2>2, WriterStep
<1>4. CASE Answered(w)
  BY <1>1, <1>4, AnsweredInv
<1>5. ASSUME NEW u \in ByName(job[w].attrs.name), rows[u].provider = "kysignon",
             Goes(w, "takeOver", On(job[w], u))
      PROVE  Inv'
  <2> DEFINE j == On(job[w], u)
  <2>1. u \in UserIds
    BY DEF ByName
  <2>2. j \in Job /\ j.attrs \in CreateAttrs /\ j.id = u /\ "takeOver" \in WriterStates
    BY <1>2, <2>1, OnType DEF WriterStates
  <2> HIDE DEF j
  <2>3. WriterOK(w)'
    BY <1>1, <1>5, <2>1, <2>2, WentTo DEF WriterOK, j
  <2> QED
    BY <1>1, <1>2, <1>5, <2>2, <2>3, WriterStep DEF j
<1> QED
  BY <1>3, <1>4, <1>5 DEF CreateByName

LEMMA StartUpdateInv ==
    ASSUME Inv, [Next]_vars, NEW w \in Writers, StartUpdate(w)
    PROVE  Inv'
<1>1. wpc[w] = "idle" /\ mu = NoUser /\ mu' = w /\ rows' = rows /\ UNCHANGED signIns
  BY DEF StartUpdate
<1>2. PICK u \in UserIds, a \in ReplaceAttrs \cup Attrs :
         Managed(u) /\ Goes(w, "write", On(Fresh(a), u))
  BY DEF StartUpdate
<1> DEFINE j == On(Fresh(a), u)
<1>3. j \in Job /\ j.id = u /\ j.row = rows[u] /\ "write" \in WriterStates
  BY AttrsFacts, FreshType, OnType DEF WriterStates
<1>4. rows[u].provider \notin {"none", "local"}
  BY <1>2 DEF Managed, Exists, Inv, LocalInv
<1> HIDE DEF j
<1>5. WriterOK(w)'
  BY <1>1, <1>2, <1>3, <1>4, WentTo DEF WriterOK, j
<1> QED
  BY <1>1, <1>2, <1>3, <1>5, WriterStep DEF j

LEMMA RereadInv ==
    ASSUME Inv, [Next]_vars, NEW w \in Writers, Reread(w)
    PROVE  Inv'
<1> DEFINE u == job[w].id
           j == On(job[w], u)
<1>1. wpc[w] = "read" /\ rows' = rows /\ mu = w /\ UNCHANGED signIns
  BY DEF Reread, Inv, TypeOK
<1>2. job[w] \in Job /\ u \in UserIds /\ rows[u].provider \notin {"none", "local"}
  BY <1>1 DEF Inv, WriterInv, WriterOK
<1>3. CASE ~Managed(u)
  BY <1>1, <1>3, AnsweredInv DEF Reread
<1>4. CASE Managed(u)
  <2>1. Goes(w, "write", j) /\ mu' = mu
    BY <1>4 DEF Reread
  <2>2. j \in Job /\ j.id = u /\ j.row = rows[u] /\ "write" \in WriterStates
    BY <1>2, OnType DEF WriterStates
  <2> HIDE DEF j
  <2>3. WriterOK(w)'
    BY <1>1, <1>2, <2>1, <2>2, WentTo DEF WriterOK
  <2> QED
    BY <1>1, <2>1, <2>2, <2>3, WriterStep
<1> QED
  BY <1>3, <1>4

LEMMA UpdateInv ==
    ASSUME Inv, [Next]_vars, NEW w \in Writers, UpdateSCIMProfile(w)
    PROVE  Inv'
<1>1. wpc[w] = "write" /\ mu = w /\ UNCHANGED signIns
  BY DEF UpdateSCIMProfile, Inv, TypeOK
<1>2. /\ job[w] \in Job /\ job[w].id \in UserIds
      /\ rows[job[w].id].provider \notin {"none", "local"}
  BY <1>1 DEF Inv, WriterInv, WriterOK
<1>3. CASE Release(w)
  BY <1>1, <1>3, AnsweredInv DEF Release
<1>4. CASE ~Release(w)
  <2> DEFINE j == [job[w] EXCEPT !.attempt = @ + 1]
  <2>1. Goes(w, "read", j) /\ mu' = mu /\ rows' = rows /\ job[w].attempt < Attempts - 1
    BY <1>4 DEF UpdateSCIMProfile
  <2>2. job[w].attempt \in 0 .. Attempts - 1
    BY <1>2 DEF Job
  <2>3. job[w].attempt + 1 \in 0 .. Attempts - 1
    BY <2>1, <2>2, ProvisioningAssumption
  <2>4. j \in Job /\ j.id = job[w].id /\ "read" \in WriterStates
    BY <1>2, <2>3 DEF Job, WriterStates
  <2> HIDE DEF j
  <2>5. WriterOK(w)'
    BY <1>2, <2>1, <2>4, WentTo DEF WriterOK
  <2> QED
    BY <1>1, <2>1, <2>4, <2>5, WriterStep
<1> QED
  BY <1>3, <1>4

LEMMA StartDeleteInv ==
    ASSUME Inv, [Next]_vars, NEW w \in Writers, StartDelete(w)
    PROVE  Inv'
<1> DEFINE a == [name |-> Omitted, subject |-> Omitted, role |-> Omitted, status |-> Omitted]
<1>1. wpc[w] = "idle" /\ mu' = mu /\ mu # w /\ rows' = rows /\ UNCHANGED signIns
  BY DEF StartDelete, Inv, TypeOK
<1>2. PICK u \in UserIds : Managed(u) /\ Goes(w, "delete", [Fresh(a) EXCEPT !.id = u])
  BY DEF StartDelete
<1> DEFINE j == [Fresh(a) EXCEPT !.id = u]
<1>3. a \in Attrs
  BY DEF Attrs
<1> HIDE DEF a
<1>4. j \in Job /\ j.id = u /\ "delete" \in WriterStates
  BY <1>3, FreshType DEF Job, WriterStates
<1>5. rows[u].provider \notin {"none", "local"}
  BY <1>2 DEF Managed, Exists, Inv, LocalInv
<1>6. Goes(w, "delete", j)
  BY <1>2
<1> HIDE DEF j
<1>7. wpc'[w] = "delete" /\ job'[w] = j
  BY <1>6, WentTo
<1>8. WriterOK(w)'
  BY <1>1, <1>4, <1>5, <1>7 DEF WriterOK
<1> QED
  BY <1>1, <1>4, <1>6, <1>8, WriterStep

(* Create, take-over and delete end with their one write. *)
LEMMA LastWriteInv ==
    ASSUME Inv, [Next]_vars, NEW w \in Writers, Insert(w) \/ TakeOver(w) \/ DeleteUser(w)
    PROVE  Inv'
<1>1. wpc[w] \in {"insert", "takeOver", "delete"} /\ Answered(w) /\ mu' = mu /\ UNCHANGED signIns
  BY DEF Insert, TakeOver, DeleteUser
<1> QED
  BY <1>1, AnsweredInv

-----------------------------------------------------------------------------
LEMMA MovedTo ==
    ASSUME Inv, NEW l \in Logins, NEW s, NEW c, Moves(l, s, c)
    PROVE  lpc'[l] = s /\ login'[l] = c
  BY DEF Inv, TypeOK, Moves

(* What a sign-in keeps of a row has its type. *)
LEMMA GlimpseType == NoGlimpse \in Glimpse /\ \A r \in Row : GlimpseOf(r) \in Glimpse
  BY DEF NoGlimpse, Glimpse, GlimpseOf, Row, Roles, Statuses

LEMMA GotType ==
    ASSUME Inv, NEW c \in Login, NEW u \in UserIds
    PROVE  Got(c, u) \in Login /\ Got(c, u).user = u /\ Got(c, u).subject = c.subject
<1>1. rows[u] \in Row
  BY DEF Inv, TypeOK
<1> QED
  BY <1>1, GlimpseType DEF Got, Login

(* A sign-in that ends has nothing left to remember. *)
LEMMA RefusedInv ==
    ASSUME Inv, [Next]_vars, NEW l \in Logins, Refused(l), UNCHANGED scim
    PROVE  Inv'
<1>1. Moves(l, "idle", NoJob) /\ "idle" \in LoginStates
  BY DEF Refused, LoginStates
<1>2. LoginOK(l)'
  BY <1>1, MovedTo DEF LoginOK
<1> QED
  BY <1>1, <1>2, LoginStep

(* A sign-in that found the account of its subject. *)
LEMMA FoundInv ==
    ASSUME Inv, [Next]_vars, NEW l \in Logins, NEW s \in {"found", "synced", "signedIn"},
           NEW c \in Login, Moves(l, s, c), UNCHANGED scim, c.user \in UserIds,
           \/ rows'[c.user].provider = "deleted"
           \/ rows'[c.user].provider = "kysignon" /\ rows'[c.user].subject = c.subject
    PROVE  Inv'
<1>1. s \in LoginStates
  BY DEF LoginStates
<1>2. LoginOK(l)'
  BY MovedTo DEF LoginOK, BySSO
<1> QED
  BY <1>1, <1>2, LoginStep

(* One that is still looking. *)
LEMMA LookingInv ==
    ASSUME Inv, [Next]_vars, NEW l \in Logins, NEW s \in {"adopt", "link", "relookup", "provision"},
           NEW c \in Login, Moves(l, s, c), UNCHANGED scim,
           s = "link" => c.user \in UserIds
    PROVE  Inv'
<1>1. s \in LoginStates
  BY DEF LoginStates
<1>2. LoginOK(l)'
  BY MovedTo DEF LoginOK
<1> QED
  BY <1>1, <1>2, LoginStep

LEMMA LookUpInv ==
    ASSUME Inv, [Next]_vars, NEW l \in Logins, LookUp(l)
    PROVE  Inv'
<1>1. rows' = rows /\ UNCHANGED scim
  BY DEF LookUp
<1>2. PICK x \in Subjects, role \in Roles \cup {Omitted} :
         LET c == [subject |-> x, role |-> role, user |-> NoUser, row |-> NoGlimpse]
         IN  \/ \E u \in BySSO("kysignon", x) : Moves(l, "found", Got(c, u))
             \/ BySSO("kysignon", x) = {} /\ Moves(l, "adopt", c)
  BY DEF LookUp
<1> DEFINE c == [subject |-> x, role |-> role, user |-> NoUser, row |-> NoGlimpse]
<1>3. c \in Login /\ c.subject = x
  BY GlimpseType DEF Login
<1> HIDE DEF c
<1>4. ASSUME NEW u \in BySSO("kysignon", x), Moves(l, "found", Got(c, u)) PROVE Inv'
  <2>1. u \in UserIds /\ rows[u].provider = "kysignon" /\ rows[u].subject = x
    BY DEF BySSO
  <2>2. Got(c, u) \in Login /\ Got(c, u).user = u /\ Got(c, u).subject = x
    BY <1>3, <2>1, GotType
  <2> QED
    BY <1>1, <1>4, <2>1, <2>2, FoundInv
<1>5. CASE Moves(l, "adopt", c)
  BY <1>1, <1>3, <1>5, LookingInv
<1> QED
  BY <1>2, <1>4, <1>5 DEF c

LEMMA FindScimRowInv ==
    ASSUME Inv, [Next]_vars, NEW l \in Logins, FindScimRow(l)
    PROVE  Inv'
<1>1. rows' = rows /\ UNCHANGED scim /\ login[l] \in Login
  BY DEF FindScimRow, Inv, LoginInv, LoginOK
<1>2. CASE Moves(l, "provision", login[l])
  BY <1>1, <1>2, LookingInv
<1>3. ASSUME NEW u \in BySSO("scim", login[l].subject), Moves(l, "link", Got(login[l], u))
      PROVE  Inv'
  <2>1. Got(login[l], u) \in Login /\ Got(login[l], u).user \in UserIds
    BY <1>1, GotType DEF BySSO
  <2> QED
    BY <1>1, <1>3, <2>1, LookingInv
<1> QED
  BY <1>2, <1>3 DEF FindScimRow

LEMMA LookUpAgainInv ==
    ASSUME Inv, [Next]_vars, NEW l \in Logins, LookUpAgain(l)
    PROVE  Inv'
<1>1. rows' = rows /\ UNCHANGED scim /\ login[l] \in Login
  BY DEF LookUpAgain, Inv, LoginInv, LoginOK
<1>2. CASE Moves(l, "provision", login[l])
  BY <1>1, <1>2, LookingInv
<1>3. ASSUME NEW u \in BySSO("kysignon", login[l].subject), Moves(l, "found", Got(login[l], u))
      PROVE  Inv'
  <2>1. u \in UserIds /\ rows[u].provider = "kysignon" /\ rows[u].subject = login[l].subject
    BY DEF BySSO
  <2>2. /\ Got(login[l], u) \in Login /\ Got(login[l], u).user = u
        /\ Got(login[l], u).subject = login[l].subject
    BY <1>1, <2>1, GotType
  <2> QED
    BY <1>1, <1>3, <2>1, <2>2, FoundInv
<1> QED
  BY <1>2, <1>3 DEF LookUpAgain

LEMMA LinkInv ==
    ASSUME Inv, [Next]_vars, NEW l \in Logins, LinkSSOIdentity(l)
    PROVE  Inv'
<1> DEFINE u == login[l].user
           c == [login[l] EXCEPT !.user = NoUser, !.row = NoGlimpse]
<1>1. UNCHANGED scim /\ login[l] \in Login /\ u \in UserIds
  BY DEF LinkSSOIdentity, Inv, LoginInv, LoginOK
<1>2. CASE u \in BySSO("scim", login[l].subject)
  <2>1. rows[u] \in Row /\ rows[u].subject = login[l].subject
    BY <1>1, <1>2 DEF BySSO, Inv, TypeOK
  <2>2. rows' = [rows EXCEPT ![u].provider = "kysignon"] /\ Moves(l, "found", login[l])
    BY <1>2 DEF LinkSSOIdentity
  <2>3. rows'[u].provider = "kysignon" /\ rows'[u].subject = login[l].subject
    BY <1>1, <2>1, <2>2 DEF Row, Inv, TypeOK
  <2> QED
    BY <1>1, <2>2, <2>3, FoundInv
<1>3. CASE u \notin BySSO("scim", login[l].subject)
  <2>1. Moves(l, "relookup", c)
    BY <1>3 DEF LinkSSOIdentity
  <2>2. c \in Login
    BY <1>1, GlimpseType DEF Login
  <2> HIDE DEF c
  <2> QED
    BY <1>1, <2>1, <2>2, LookingInv
<1> QED
  BY <1>2, <1>3

LEMMA ProvisionInv ==
    ASSUME Inv, [Next]_vars, NEW l \in Logins, ProvisionUser(l)
    PROVE  Inv'
<1>1. UNCHANGED scim /\ login[l] \in Login
  BY DEF ProvisionUser, Inv, LoginInv, LoginOK
<1>2. CASE Refused(l)
  BY <1>1, <1>2, RefusedInv
<1>3. CASE ~Refused(l)
  <2> DEFINE new(n) == [provider |-> "kysignon", name |-> n, subject |-> login[l].subject,
                        role |-> Given(login[l].role, "user"), status |-> "active",
                        managed |-> FALSE]
             c(n, u) == [login[l] EXCEPT !.user = u, !.row = GlimpseOf(new(n))]
  <2>1. PICK n \in Names, u \in UserIds :
           rows' = [rows EXCEPT ![u] = new(n)] /\ Moves(l, "found", c(n, u))
    BY <1>3 DEF ProvisionUser
  <2>2. /\ new(n) \in Row /\ new(n).provider = "kysignon"
        /\ new(n).subject = login[l].subject
    BY <1>1 DEF Login, Row, Given, Roles, Statuses
  <2>3. rows'[u] = new(n)
    BY <2>1 DEF Inv, TypeOK
  <2>4. c(n, u) \in Login /\ c(n, u).user = u /\ c(n, u).subject = login[l].subject
    BY <1>1, <2>2, GlimpseType DEF Login
  <2> HIDE DEF c, new
  <2> QED
    BY <1>1, <2>1, <2>2, <2>3, <2>4, FoundInv
<1> QED
  BY <1>2, <1>3

LEMMA SyncInv ==
    ASSUME Inv, [Next]_vars, NEW l \in Logins, SyncRole(l)
    PROVE  Inv'
<1> DEFINE c == Settled(login[l])
           u == login[l].user
<1>1. UNCHANGED scim /\ login[l] \in Login /\ u \in UserIds
      /\ (rows[u].provider = "deleted" \/ u \in BySSO("kysignon", login[l].subject))
  BY DEF SyncRole, Inv, LoginInv, LoginOK
<1>2. CASE Refused(l)
  BY <1>1, <1>2, RefusedInv
<1>3. CASE ~Refused(l)
  <2>1. Moves(l, "synced", c)
    BY <1>3 DEF SyncRole
  <2>2. c \in Login /\ c.user = u /\ c.subject = login[l].subject
    BY <1>1, GlimpseType DEF Settled, Login
  <2>3. RowsEvolve
    BY StepRows
  <2>4. \/ rows'[u].provider = "deleted"
        \/ rows'[u].provider = "kysignon" /\ rows'[u].subject = login[l].subject
    BY <1>1, <2>3 DEF RowsEvolve, Evolves, BySSO
  <2> HIDE DEF c
  <2> QED
    BY <1>1, <2>1, <2>2, <2>4, FoundInv
<1> QED
  BY <1>2, <1>3

LEMMA SessionInv ==
    ASSUME Inv, [Next]_vars, NEW l \in Logins, IssueSession(l) \/ SignOut(l)
    PROVE  Inv'
<1>1. UNCHANGED scim /\ rows' = rows
  BY DEF IssueSession, SignOut
<1>2. CASE Refused(l)
  BY <1>1, <1>2, RefusedInv
<1>3. CASE ~Refused(l)
  <2>1. Moves(l, "signedIn", login[l]) /\ lpc[l] = "synced"
    BY <1>3 DEF IssueSession, SignOut
  <2>2. /\ login[l] \in Login /\ login[l].user \in UserIds
        /\ \/ rows[login[l].user].provider = "deleted"
           \/ login[l].user \in BySSO("kysignon", login[l].subject)
    BY <2>1 DEF Inv, LoginInv, LoginOK
  <2> QED
    BY <1>1, <2>1, <2>2, FoundInv DEF BySSO
<1> QED
  BY <1>2, <1>3

(* A crash forgets requests and unfinished sign-ins. *)
LEMMA CrashInv ==
    ASSUME Inv, [Next]_vars, Crash
    PROVE  Inv'
<1>1. rows' = rows /\ RowsEvolve
  BY StepRows DEF Crash
<1>2. \A w \in Writers : wpc'[w] = "idle" /\ mu' # w
  BY ProvisioningAssumption DEF Crash
<1>3. ASSUME NEW w \in Writers PROVE WriterOK(w)'
  BY <1>2 DEF WriterOK
<1>4. ASSUME NEW l \in Logins PROVE LoginOK(l)'
  <2>1. CASE lpc[l] = "signedIn"
    BY <1>1, <2>1, LoginKept DEF Crash
  <2>2. CASE lpc[l] # "signedIn"
    BY <2>2 DEF Crash, LoginOK
  <2> QED
    BY <2>1, <2>2
<1>5. TypeOK'
  BY <1>1, <1>2 DEF Crash, Inv, TypeOK, WriterStates, LoginStates
<1> QED
  BY <1>1, <1>3, <1>4, <1>5, LocalKept DEF Inv, WriterInv, LoginInv

-----------------------------------------------------------------------------
LEMMA InitInv == Init => Inv
<1> SUFFICES ASSUME Init PROVE Inv
  OBVIOUS
<1>1. \A u \in UserIds : rows[u] \in Row /\ ~rows[u].managed
  BY NoRowType DEF Init, Row, NoRow, Roles, Statuses
<1>2. rows \in [UserIds -> Row]
  BY <1>1 DEF Init
<1>3. TypeOK
  BY <1>2, ProvisioningAssumption DEF Init, TypeOK, WriterStates, LoginStates
<1>4. LocalInv
  BY <1>1 DEF LocalInv
<1>5. WriterInv /\ LoginInv
  BY DEF Init, WriterInv, WriterOK, LoginInv, LoginOK
<1> QED
  BY <1>3, <1>4, <1>5 DEF Inv

(* Every step keeps the invariant. *)
LEMMA StepInv ==
    ASSUME Inv, [Next]_vars
    PROVE  Inv'
<1>1. ASSUME NEW w \in Writers, Arrive(w) \/ Proceed(w) PROVE Inv'
  BY <1>1, CreateBySubjectInv, StartUpdateInv, StartDeleteInv, CreateByNameInv,
     LastWriteInv, RereadInv, UpdateInv DEF Arrive, Proceed
<1>2. ASSUME NEW l \in Logins, Callback(l) PROVE Inv'
  BY <1>2, LookUpInv, FindScimRowInv, LinkInv, LookUpAgainInv, ProvisionInv, SyncInv,
     SessionInv DEF Callback
<1>3. CASE UNCHANGED vars
  <2>1. RowsEvolve /\ NoRename
    BY <1>3, RowsUnchanged DEF vars
  <2>2. \A w \in Writers : WriterOK(w)'
    BY <1>3, <2>1, WriterKept DEF vars, scim
  <2>3. \A l \in Logins : LoginOK(l)'
    BY <1>3, <2>1, LoginKept DEF vars, signIns
  <2>4. TypeOK'
    BY <1>3 DEF vars, scim, signIns, Inv, TypeOK
  <2> QED
    BY <2>1, <2>2, <2>3, <2>4, LocalKept DEF Inv, WriterInv, LoginInv
<1> QED
  BY <1>1, <1>2, <1>3, CrashInv DEF Next

(* The inductive invariant of the account directory holds in every         *)
(* reachable state: types and mutex, no local account under SCIM, what     *)
(* requests and sign-ins rely on between their statements.                 *)
THEOREM Invariance == Spec => []Inv
<1>1. Inv /\ [Next]_vars => Inv'
  BY StepInv
<1> QED
  BY <1>1, InitInv, PTL DEF Spec

(* Rows, handler data and control states keep their types, and the         *)
(* handler's mutex is held exactly by a PUT or PATCH between its first     *)
(* read and its last write (userResourceHandler.mu).                       *)
THEOREM TypeCorrect == Spec => []TypeOK
<1>1. Inv => TypeOK
  BY DEF Inv
<1> QED
  BY <1>1, Invariance, PTL

(* A sign-in ends up on an account of its own subject, whatever SCIM and   *)
(* other sign-ins do between its lookup, its link and its session          *)
(* (AdoptSCIMUser, LinkSSOIdentity, UpdateUserRole, CreateSession).        *)
THEOREM SignInOwnAccount == Spec => []OwnAccount
<1>1. Inv => OwnAccount
  BY DEF Inv, LoginInv, LoginOK, OwnAccount, Exists
<1> QED
  BY <1>1, Invariance, PTL

-----------------------------------------------------------------------------
(* No step of SCIM or of a sign-in changes a local account (managedUser,   *)
(* takeOver, LinkSSOIdentity).                                             *)
THEOREM LocalAccountsUntouched == Spec => LocalUntouched
<1>1. Inv /\ [Next]_vars =>
        [\A u \in UserIds : rows[u].provider = "local" => rows'[u] = rows[u]]_vars
  <2> SUFFICES ASSUME Inv, [Next]_vars, NEW u \in UserIds, rows[u].provider = "local"
               PROVE  rows'[u] = rows[u]
    OBVIOUS
  <2> QED
    BY StepRows DEF RowsEvolve, Evolves
<1> QED
  BY <1>1, Invariance, PTL DEF Spec, LocalUntouched

(* An account that a subject signs in with keeps that subject until it is  *)
(* deleted (the CASE of UpdateSCIMProfile, TakeOverForSCIM).               *)
THEOREM SubjectsStable == Spec => SubjectStable
<1>1. Inv /\ [Next]_vars =>
        [\A u \in UserIds :
           rows[u].provider = "kysignon" /\ rows'[u].provider # "deleted" =>
              rows'[u].provider = "kysignon" /\ rows'[u].subject = rows[u].subject]_vars
  <2> SUFFICES ASSUME Inv, [Next]_vars, NEW u \in UserIds,
                      rows[u].provider = "kysignon", rows'[u].provider # "deleted"
               PROVE  rows'[u].provider = "kysignon" /\ rows'[u].subject = rows[u].subject
    OBVIOUS
  <2> QED
    BY StepRows DEF RowsEvolve, Evolves
<1> QED
  BY <1>1, Invariance, PTL DEF Spec, SubjectStable

-----------------------------------------------------------------------------
(* The clashes of a later state were there before. *)
NoClash ==
    \A n \in Names : \A u, v \in ByName(n)' :
        u # v => \E m \in Names : {u, v} \subseteq ByName(m)

(* A write of one row whose name was its own or nobody's makes no clash. *)
LEMMA OneName ==
    ASSUME Inv, NEW x \in UserIds, NEW r \in Row, rows' = [rows EXCEPT ![x] = r],
           r.provider \in {"local", "scim", "kysignon"} =>
              x \in ByName(r.name) \/ ByName(r.name) \ {x} = {}
    PROVE  NoClash
<1> SUFFICES ASSUME NEW n \in Names, NEW u \in ByName(n)', NEW v \in ByName(n)', u # v
             PROVE  {u, v} \subseteq ByName(n)
  BY DEF NoClash
<1>1. rows'[x] = r /\ \A y \in UserIds \ {x} : rows'[y] = rows[y]
  BY DEF Inv, TypeOK
<1>2. /\ u \in UserIds /\ rows'[u].provider \in {"local", "scim", "kysignon"} /\ rows'[u].name = n
      /\ v \in UserIds /\ rows'[v].provider \in {"local", "scim", "kysignon"} /\ rows'[v].name = n
  BY DEF ByName, Exists
<1>3. (u # x => u \in ByName(n)) /\ (v # x => v \in ByName(n))
  BY <1>1, <1>2 DEF ByName, Exists
<1>4. CASE u # x /\ v # x
  BY <1>3, <1>4
<1>5. CASE u = x \/ v = x
  <2>1. r.name = n /\ r.provider \in {"local", "scim", "kysignon"}
    BY <1>1, <1>2, <1>5
  <2>2. ByName(n) \ {x} # {}
    BY <1>3, <1>5
  <2>3. x \in ByName(n)
    BY <2>1, <2>2
  <2> QED
    BY <1>3, <2>3
<1> QED
  BY <1>4, <1>5

LEMMA SameNames ==
    ASSUME rows' = rows
    PROVE  NoClash
  BY DEF NoClash, ByName, Exists

(* A name nobody has. *)
LEMMA FreeForNew ==
    ASSUME NEW n, NameFree(n, NoUser)
    PROVE  ByName(n) = {}
<1>1. NoUser \notin ByName(n)
  BY ProvisioningAssumption DEF ByName
<1> QED
  BY <1>1 DEF NameFree

(* A create, a rename and a first sign-in check the name in the            *)
(* transaction that writes it, so no pair of accounts ends up with one     *)
(* name (checkUsernameFree).                                               *)
THEOREM NamesNeverNewlyClash == Spec => NoNewClash
<1>1. ASSUME Inv, NEW w \in Writers, Insert(w) PROVE NoClash
  <2>1. CASE UNCHANGED rows
    BY <2>1, SameNames
  <2>2. CASE ~UNCHANGED rows
    <3> DEFINE a == job[w].attrs
               new == [provider |-> "scim", name |-> a.name, subject |-> a.subject,
                       role |-> Given(a.role, "user"), status |-> a.status, managed |-> TRUE]
    <3>1. PICK u \in UserIds : rows' = [rows EXCEPT ![u] = new]
      BY <1>1, <2>2 DEF Insert
    <3>2. a \in CreateAttrs /\ NameFree(a.name, NoUser)
      BY <1>1, <2>2 DEF Insert, Inv, WriterInv, WriterOK
    <3>3. new \in Row /\ new.name = a.name
      BY <3>2 DEF CreateAttrs, Row, Given, Roles, Statuses
    <3>4. ByName(new.name) = {}
      BY <3>2, <3>3, FreeForNew
    <3> HIDE DEF new
    <3> QED
      BY <1>1, <3>1, <3>3, <3>4, OneName
  <2> QED
    BY <2>1, <2>2
<1>2. ASSUME Inv, NEW w \in Writers, TakeOver(w) PROVE NoClash
  <2>1. CASE UNCHANGED rows
    BY <2>1, SameNames
  <2>2. CASE ~UNCHANGED rows
    <3> DEFINE u == job[w].id
               old == job[w].row
               new == [Apply(job[w].attrs, old) EXCEPT !.subject = old.subject]
               r == [rows[u] EXCEPT !.name = new.name, !.role = new.role,
                                    !.status = new.status, !.managed = TRUE]
    <3>1. job[w] \in Job /\ u \in UserIds
      BY <1>2 DEF TakeOver, Inv, WriterInv, WriterOK
    <3>2. rows' = [rows EXCEPT ![u] = r] /\ NameFree(new.name, u)
      BY <1>2, <2>2 DEF TakeOver
    <3>3. old \in Row /\ rows[u] \in Row /\ Apply(job[w].attrs, old) \in Row
      BY <1>2, <3>1, ApplyType DEF Job, Inv, TypeOK
    <3>4. new \in Row
      BY <3>3 DEF Row
    <3> HIDE DEF new
    <3>5. r \in Row /\ r.name = new.name
      BY <3>3, <3>4 DEF Row
    <3> HIDE DEF r
    <3> QED
      BY <1>2, <3>1, <3>2, <3>5, OneName DEF NameFree
  <2> QED
    BY <2>1, <2>2
<1>3. ASSUME Inv, NEW w \in Writers, UpdateSCIMProfile(w) PROVE NoClash
  <2>1. CASE UNCHANGED rows
    BY <2>1, SameNames
  <2>2. CASE ~UNCHANGED rows
    <3> DEFINE u == job[w].id
               old == job[w].row
               new == IF old.provider = "scim" THEN Apply(job[w].attrs, old)
                      ELSE [Apply(job[w].attrs, old) EXCEPT !.subject = old.subject]
    <3>1. job[w] \in Job /\ u \in UserIds
      BY <1>3 DEF UpdateSCIMProfile, Inv, WriterInv, WriterOK
    <3>2. rows' = [rows EXCEPT ![u] = Written(u, new)] /\ NameFree(new.name, u)
      BY <1>3, <2>2 DEF UpdateSCIMProfile
    <3>3. old \in Row /\ rows[u] \in Row /\ Apply(job[w].attrs, old) \in Row
      BY <1>3, <3>1, ApplyType DEF Job, Inv, TypeOK
    <3>4. new \in Row
      BY <3>3 DEF Row
    <3> HIDE DEF new
    <3>5. Written(u, new) \in Row /\ Written(u, new).name = new.name
      BY <3>3, <3>4 DEF Row, Written
    <3> QED
      BY <1>3, <3>1, <3>2, <3>5, OneName DEF NameFree
  <2> QED
    BY <2>1, <2>2
<1>4. ASSUME Inv, NEW w \in Writers, DeleteUser(w) PROVE NoClash
  <2> DEFINE u == job[w].id
             gone == [NoRow EXCEPT !.provider = "deleted"]
  <2>1. u \in UserIds
    BY <1>4 DEF DeleteUser, Inv, WriterInv, WriterOK
  <2>2. CASE ~Exists(u)
    <3>1. rows' = rows
      BY <1>4, <2>1, <2>2 DEF DeleteUser, Inv, TypeOK
    <3> QED
      BY <3>1, SameNames
  <2>3. CASE Exists(u)
    <3>1. rows' = [rows EXCEPT ![u] = gone] /\ gone \in Row /\ gone.provider = "deleted"
      BY <1>4, <2>3, NoRowType DEF DeleteUser, NoRow
    <3> HIDE DEF gone
    <3> QED
      BY <1>4, <2>1, <3>1, OneName
  <2> QED
    BY <2>2, <2>3
<1>5. ASSUME Inv, NEW l \in Logins, ProvisionUser(l) PROVE NoClash
  <2>1. CASE UNCHANGED rows
    BY <2>1, SameNames
  <2>2. CASE ~UNCHANGED rows
    <3> DEFINE c == login[l]
               new(n) == [provider |-> "kysignon", name |-> n, subject |-> c.subject,
                          role |-> Given(c.role, "user"), status |-> "active", managed |-> FALSE]
    <3>1. PICK n \in Names, u \in UserIds :
             NameFree(n, NoUser) /\ rows' = [rows EXCEPT ![u] = new(n)]
      BY <1>5, <2>2 DEF ProvisionUser
    <3>2. c \in Login
      BY <1>5 DEF ProvisionUser, Inv, LoginInv, LoginOK
    <3>3. new(n) \in Row /\ new(n).name = n
      BY <3>2 DEF Login, Row, Given, Roles, Statuses
    <3>4. ByName(n) = {}
      BY <3>1, FreeForNew
    <3> HIDE DEF new
    <3> QED
      BY <1>5, <3>1, <3>3, <3>4, OneName
  <2> QED
    BY <2>1, <2>2
<1>6. ASSUME Inv, NEW l \in Logins, LinkSSOIdentity(l) \/ SyncRole(l) PROVE NoClash
  <2>1. CASE UNCHANGED rows
    BY <2>1, SameNames
  <2>2. CASE ~UNCHANGED rows
    <3> DEFINE u == login[l].user
    <3>1. u \in UserIds /\ login[l] \in Login
      BY <1>6 DEF LinkSSOIdentity, SyncRole, Inv, LoginInv, LoginOK
    <3>2. rows[u] \in Row /\ Exists(u)
      BY <1>6, <2>2, <3>1 DEF LinkSSOIdentity, BySSO, SyncRole, Exists, Inv, TypeOK
    <3>3. PICK r \in Row : rows' = [rows EXCEPT ![u] = r] /\ r.name = rows[u].name
      <4>1. CASE LinkSSOIdentity(l)
        <5> DEFINE r == [rows[u] EXCEPT !.provider = "kysignon"]
        <5>1. rows' = [rows EXCEPT ![u] = r]
          BY <2>2, <4>1 DEF LinkSSOIdentity
        <5>2. r \in Row /\ r.name = rows[u].name
          BY <3>2 DEF Row
        <5> QED
          BY <5>1, <5>2
      <4>2. CASE SyncRole(l)
        <5> DEFINE r == [rows[u] EXCEPT !.role = login[l].role]
        <5>1. rows' = [rows EXCEPT ![u] = r] /\ Given(login[l].role, login[l].row.role) # login[l].row.role
          BY <2>2, <4>2 DEF SyncRole
        <5>2. login[l].role \in Roles
          BY <3>1, <5>1 DEF Login, Given
        <5>3. r \in Row /\ r.name = rows[u].name
          BY <3>2, <5>2 DEF Row
        <5> QED
          BY <5>1, <5>3
      <4> QED
        BY <1>6, <4>1, <4>2
    <3>4. u \in ByName(r.name)
      BY <3>1, <3>2, <3>3 DEF ByName
    <3> QED
      BY <1>6, <3>1, <3>3, <3>4, OneName
  <2> QED
    BY <2>1, <2>2
<1>7. Inv /\ [Next]_vars =>
        [\A n \in Names : \A u, v \in ByName(n)' :
           u # v => \E m \in Names : {u, v} \subseteq ByName(m)]_vars
  <2> SUFFICES ASSUME Inv, [Next]_vars PROVE NoClash
    BY DEF NoClash
  <2>1. ASSUME NEW w \in Writers, Arrive(w) \/ Proceed(w) PROVE NoClash
    BY <1>1, <1>2, <1>3, <1>4, <2>1, QuietActions, SameNames DEF Proceed
  <2>2. ASSUME NEW l \in Logins, Callback(l) PROVE NoClash
    BY <1>5, <1>6, <2>2, QuietActions, SameNames DEF Callback
  <2>3. CASE Crash \/ UNCHANGED vars
    BY <2>3, QuietActions, SameNames DEF vars
  <2> QED
    BY <2>1, <2>2, <2>3 DEF Next
<1> QED
  BY <1>7, Invariance, PTL DEF Spec, NoNewClash

-----------------------------------------------------------------------------
(* A request moves by its own steps, or with everything else in a crash. *)
LEMMA OwnStep ==
    ASSUME Inv, Next, NEW w \in Writers, wpc'[w] # wpc[w]
    PROVE  Arrive(w) \/ Proceed(w) \/ Crash
<1>1. ASSUME NEW v \in Writers, Arrive(v) \/ Proceed(v), v # w PROVE wpc'[w] = wpc[w]
  <2>1. \E s, j : Goes(v, s, j)
    BY <1>1 DEF Arrive, Proceed, CreateBySubject, StartUpdate, StartDelete, CreateByName,
                Insert, TakeOver, Reread, UpdateSCIMProfile, DeleteUser, Release, Answered
  <2> QED
    BY <1>1, <2>1 DEF Goes, Inv, TypeOK
<1>2. ASSUME NEW l \in Logins, Callback(l) PROVE wpc'[w] = wpc[w]
  BY <1>2 DEF Callback, LookUp, FindScimRow, LinkSSOIdentity, LookUpAgain, ProvisionUser,
              SyncRole, IssueSession, SignOut, scim
<1> QED
  BY <1>1, <1>2 DEF Next

(* The fields of a row a request was applied to. *)
LEMMA ApplyFields ==
    ASSUME NEW a \in Attrs, NEW r \in Row
    PROVE  /\ Apply(a, r).name = Given(a.name, r.name)
           /\ Apply(a, r).subject = Given(a.subject, r.subject)
           /\ Apply(a, r).role = Given(a.role, r.role)
           /\ Apply(a, r).status = Given(a.status, r.status)
  BY DEF Apply, Row

(* What a take-over stores, seen from what the row holds at the commit. *)
LEMMA TakeOverWrites ==
    ASSUME Inv, NEW w \in Writers, TakeOver(w), rows' # rows
    PROVE  LET u == job[w].id
               a == job[w].attrs
               new == Apply(a, job[w].row)
           IN  /\ u \in UserIds /\ a \in CreateAttrs /\ rows[u] \in Row
               /\ ~RoleRefused(rows[u].role, rows'[u].role)
               /\ rows'[u].name = new.name /\ rows'[u].subject = rows[u].subject
               /\ rows'[u].role = Given(a.role, rows[u].role)
               /\ rows'[u].status = Given(a.status, rows[u].status)
               /\ \A x \in UserIds \ {u} : rows'[x] = rows[x]
<1> DEFINE u == job[w].id
           a == job[w].attrs
           old == job[w].row
           new == [Apply(a, old) EXCEPT !.subject = old.subject]
           r == [rows[u] EXCEPT !.name = new.name, !.role = new.role,
                                !.status = new.status, !.managed = TRUE]
<1>1. job[w] \in Job /\ u \in UserIds /\ a \in CreateAttrs
  BY DEF TakeOver, Inv, WriterInv, WriterOK
<1>2. /\ rows' = [rows EXCEPT ![u] = r] /\ ~RoleRefused(old.role, new.role)
      /\ rows[u].role = old.role /\ rows[u].status = old.status
  BY DEF TakeOver
<1>3. a \in Attrs /\ old \in Row /\ rows[u] \in Row /\ Apply(a, old) \in Row
  BY <1>1, AttrsFacts, ApplyType DEF Job, Inv, TypeOK
<1>4. /\ new.name = Apply(a, old).name
      /\ new.role = Given(a.role, old.role) /\ new.status = Given(a.status, old.status)
  BY <1>3, ApplyFields DEF Row
<1> HIDE DEF new
<1>5. r.name = new.name /\ r.role = new.role /\ r.status = new.status /\ r.subject = rows[u].subject
  BY <1>3 DEF Row
<1> HIDE DEF r
<1>6. rows'[u] = r /\ \A x \in UserIds \ {u} : rows'[x] = rows[x]
  BY <1>1, <1>2 DEF Inv, TypeOK
<1> QED
  BY <1>1, <1>2, <1>3, <1>4, <1>5, <1>6

(* The same of UpdateSCIMProfile. *)
LEMMA UpdateWrites ==
    ASSUME Inv, NEW w \in Writers, UpdateSCIMProfile(w), rows' # rows
    PROVE  LET u == job[w].id
               a == job[w].attrs
           IN  /\ u \in UserIds /\ rows[u] \in Row
               /\ ~RoleRefused(rows[u].role, rows'[u].role)
               /\ rows'[u].name = Given(a.name, rows[u].name)
               /\ a.subject = Omitted => rows'[u].subject = rows[u].subject
               /\ rows'[u].role = Given(a.role, rows[u].role)
               /\ rows'[u].status = Given(a.status, rows[u].status)
               /\ \A x \in UserIds \ {u} : rows'[x] = rows[x]
<1> DEFINE u == job[w].id
           a == job[w].attrs
           old == job[w].row
           new == IF old.provider = "scim" THEN Apply(a, old)
                  ELSE [Apply(a, old) EXCEPT !.subject = old.subject]
<1>1. job[w] \in Job /\ u \in UserIds
  BY DEF UpdateSCIMProfile, Inv, WriterInv, WriterOK
<1>2. /\ rows' = [rows EXCEPT ![u] = Written(u, new)]
      /\ ~RoleRefused(old.role, new.role) /\ Unchanged(u, old)
  BY DEF UpdateSCIMProfile
<1>3. /\ rows[u].role = old.role /\ rows[u].status = old.status
      /\ rows[u].subject = old.subject /\ rows[u].name = old.name
  BY <1>2 DEF Unchanged, UpdateSCIMProfile, Inv, WriterInv, WriterOK
<1>4. a \in Attrs /\ old \in Row /\ rows[u] \in Row /\ Apply(a, old) \in Row
  BY <1>1, ApplyType DEF Job, Inv, TypeOK
<1>5. /\ new.name = Given(a.name, old.name) /\ new.role = Given(a.role, old.role)
      /\ new.status = Given(a.status, old.status)
      /\ a.subject = Omitted => new.subject = old.subject
  BY <1>4, ApplyFields DEF Row, Given
<1> HIDE DEF new
<1>6. /\ Written(u, new).name = new.name /\ Written(u, new).role = new.role
      /\ Written(u, new).status = new.status
      /\ new.subject = rows[u].subject => Written(u, new).subject = rows[u].subject
  BY <1>4 DEF Row, Written
<1>7. rows'[u] = Written(u, new) /\ \A x \in UserIds \ {u} : rows'[x] = rows[x]
  BY <1>1, <1>2 DEF Inv, TypeOK
<1> QED
  BY <1>1, <1>2, <1>3, <1>4, <1>5, <1>6, <1>7

(* With KY_SCIM_ALLOW_ADMIN off no SCIM step makes an administrator: the   *)
(* role is checked against the row read, and the write compares that row's *)
(* role with the stored one (checkRole, UpdateSCIMProfile,                 *)
(* TakeOverForSCIM, CreateUser).                                           *)
THEOREM ScimNeverGrantsAdmin == Spec => ScimGrantsNoAdmin
<1>1. ASSUME Inv, Next, NEW w \in Writers, wpc'[w] # wpc[w], ~AllowAdmin,
             NEW u \in UserIds, rows'[u].role = "admin"
      PROVE  rows[u].role = "admin"
  <2>1. CASE rows' = rows
    BY <1>1, <2>1
  <2>2. CASE rows' # rows
    <3>1. Insert(w) \/ TakeOver(w) \/ UpdateSCIMProfile(w) \/ DeleteUser(w)
      BY <1>1, <2>2, OwnStep, QuietActions DEF Proceed
    <3>2. CASE Insert(w)
      <4> DEFINE a == job[w].attrs
                 new == [provider |-> "scim", name |-> a.name, subject |-> a.subject,
                         role |-> Given(a.role, "user"), status |-> a.status, managed |-> TRUE]
      <4>1. PICK x \in UserIds : rows' = [rows EXCEPT ![x] = new]
        BY <2>2, <3>2 DEF Insert
      <4>2. Given(a.role, "user") # "admin"
        BY <1>1, <2>2, <3>2 DEF Insert, RoleRefused
      <4>3. new.role # "admin"
        BY <4>2
      <4> HIDE DEF new
      <4> QED
        BY <1>1, <4>1, <4>3 DEF Inv, TypeOK
    <3>3. CASE TakeOver(w)
      BY <1>1, <2>2, <3>3, TakeOverWrites DEF RoleRefused
    <3>4. CASE UpdateSCIMProfile(w)
      BY <1>1, <2>2, <3>4, UpdateWrites DEF RoleRefused
    <3>5. CASE DeleteUser(w)
      <4> DEFINE x == job[w].id
      <4>1. x \in UserIds
        BY <1>1, <3>5 DEF DeleteUser, Inv, WriterInv, WriterOK
      <4>2. CASE u # x
        BY <1>1, <3>5, <4>2 DEF DeleteUser, Inv, TypeOK
      <4>3. CASE u = x
        BY <1>1, <3>5, <4>1, <4>3 DEF DeleteUser, Inv, TypeOK, NoRow
      <4> QED
        BY <4>2, <4>3
    <3> QED
      BY <3>1, <3>2, <3>3, <3>4, <3>5
  <2> QED
    BY <2>1, <2>2
<1>2. Inv /\ [Next]_vars =>
        [\A w \in Writers : wpc'[w] # wpc[w] /\ ~AllowAdmin =>
           \A u \in UserIds : rows'[u].role = "admin" => rows[u].role = "admin"]_vars
  BY <1>1
<1> QED
  BY <1>2, Invariance, PTL DEF Spec, ScimGrantsNoAdmin

(* A SCIM write leaves what its request does not carry as the row has it   *)
(* at the commit: role, status and subject are compared there, and the     *)
(* name cannot have changed under the mutex (UpdateSCIMProfile,            *)
(* TakeOverForSCIM).                                                       *)
THEOREM NothingOmittedIsLost == Spec => OmittedSurvives
<1>1. ASSUME Inv, Next, NEW w \in Writers, wpc[w] \in {"write", "takeOver"}, wpc'[w] = "idle"
      PROVE  LET u == job[w].id
                 a == job[w].attrs
             IN  /\ a.name = Omitted => rows'[u].name = rows[u].name
                 /\ a.role = Omitted => rows'[u].role = rows[u].role
                 /\ a.status = Omitted => rows'[u].status = rows[u].status
                 /\ a.subject = Omitted => rows'[u].subject = rows[u].subject
  <2>1. CASE rows' = rows
    BY <2>1
  <2>2. CASE rows' # rows
    <3>1. TakeOver(w) \/ UpdateSCIMProfile(w)
      BY <1>1, <2>2, OwnStep, QuietActions DEF Proceed, Insert, DeleteUser
    <3>2. CASE TakeOver(w)
      <4>1. job[w].attrs.name # Omitted
        BY <1>1, <2>2, <3>2, TakeOverWrites, ProvisioningAssumption DEF CreateAttrs
      <4> QED
        BY <1>1, <2>2, <3>2, <4>1, TakeOverWrites DEF Given
    <3>3. CASE UpdateSCIMProfile(w)
      BY <1>1, <2>2, <3>3, UpdateWrites DEF Given
    <3> QED
      BY <3>1, <3>2, <3>3
  <2> QED
    BY <2>1, <2>2
<1>2. Inv /\ [Next]_vars =>
        [\A w \in Writers : wpc[w] \in {"write", "takeOver"} /\ wpc'[w] = "idle" =>
           LET u == job[w].id
               a == job[w].attrs
           IN  /\ a.name = Omitted => rows'[u].name = rows[u].name
               /\ a.role = Omitted => rows'[u].role = rows[u].role
               /\ a.status = Omitted => rows'[u].status = rows[u].status
               /\ a.subject = Omitted => rows'[u].subject = rows[u].subject]_vars
  BY <1>1
<1> QED
  BY <1>2, Invariance, PTL DEF Spec, OmittedSurvives

=============================================================================

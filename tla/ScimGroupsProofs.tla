-------------------------- MODULE ScimGroupsProofs --------------------------
(***************************************************************************)
(* Proofs about ScimGroups for any number of users, groups, names and      *)
(* requests.                                                               *)
(***************************************************************************)
EXTENDS ScimGroups, TLAPS

(* A handler at rest remembers nothing. *)
RestInv == \A h \in Handlers : pc[h] = "idle" => job[h] = NoJob

(* The foreign key of group_members. *)
RowsInv == \A g \in GroupIds : \A u \in members[g] : Present(u)

(* Whoever is about to be inserted is still to be checked, or was managed  *)
(* when it was and can only have been deleted since.                       *)
AddOK(h) ==
    pc[h] \in {"check", "write"} =>
        /\ \A u \in job[h].add : u \in job[h].check \/ users[u] \in {"managed", "deleted"}
        /\ pc[h] = "write" => job[h].check = {}

(* A POST has a group of its own, which nobody sees before it creates it. *)
CreatorOK(c) ==
    pc[c] # "idle" =>
        /\ pc[c] \in {"check", "write"} /\ job[c].drop = {}
        /\ job[c].group \in GroupIds /\ job[c].name \in Names
        /\ pc[c] = "check" => groups[job[c].group] = "unborn"
        /\ \A k \in Creators \ {c} : pc[k] # "idle" => job[k].group # job[c].group

(* The request asks for u to leave. *)
Asked(j, u) == u \notin apply(j.op, j.arg, {u})

(* The rows of g that a request is going to delete: before it has compared *)
(* its list with the table, and after.                                     *)
LosesOnlyAsked(j, rows) == \A u \in rows : Asked(j, u) \/ u \in j.late

(* The difference still to be written leads from the rows stored to the    *)
(* list answered, but for users deleted and rows a POST adds.              *)
DifferenceOK(j) ==
    /\ j.drop \cap j.next = {} /\ j.add \subseteq j.next
    /\ Live(j.group) =>
         /\ members[j.group] \subseteq j.next \cup j.drop \cup j.late
         /\ \A u \in j.next : u \in members[j.group] \cup j.add \/ users[u] = "deleted"

WriterOK(w) ==
    LET j == job[w] IN
    pc[w] # "idle" =>
        /\ j.group \in GroupIds /\ groups[j.group] # "unborn"
        /\ j.name = j.sent \/ (Live(j.group) => j.name = groups[j.group])
        /\ pc[w] \in {"members", "check"} => j.name \in Names
        /\ pc[w] \in {"lookup", "members"} => LosesOnlyAsked(j, members[j.group] \ j.next)
        /\ pc[w] \in {"check", "write"} => LosesOnlyAsked(j, j.drop) /\ DifferenceOK(j)

Inv == /\ TypeOK /\ RestInv /\ RowsInv
       /\ \A h \in Handlers : AddOK(h)
       /\ \A c \in Creators : CreatorOK(c)
       /\ \A w \in Writers : WriterOK(w)

-----------------------------------------------------------------------------
(* apply, one operation at a time. *)
LEMMA ApplyCases ==
    ASSUME NEW arg, NEW ms
    PROVE  /\ apply("none", arg, ms) = ms
           /\ apply("add", arg, ms) = ms \cup arg
           /\ apply("remove", arg, ms) = ms \ arg
           /\ apply("clear", arg, ms) = {}
           /\ apply("replace", arg, ms) = arg
  BY DEF apply

(* A member that a request's operation takes off a list is one it asks to  *)
(* leave.                                                                  *)
LEMMA ApplyAsked ==
    ASSUME NEW j \in Job, NEW ms, NEW u \in ms, u \notin apply(j.op, j.arg, ms)
    PROVE  Asked(j, u)
<1>1. j.op \in {"none", "add", "remove", "clear", "replace"}
  BY DEF Job
<1>2. CASE j.op = "none"
  BY <1>2, ApplyCases
<1>3. CASE j.op = "add"
  BY <1>3, ApplyCases
<1>4. CASE j.op = "remove"
  <2>1. u \in j.arg
    BY <1>4, ApplyCases
  <2>2. apply(j.op, j.arg, {u}) = {u} \ j.arg
    BY <1>4, ApplyCases
  <2> QED
    BY <2>1, <2>2 DEF Asked
<1>5. CASE j.op = "clear"
  <2>1. apply(j.op, j.arg, {u}) = {}
    BY <1>5, ApplyCases
  <2> QED
    BY <2>1 DEF Asked
<1>6. CASE j.op = "replace"
  <2>1. apply(j.op, j.arg, {u}) = j.arg /\ apply(j.op, j.arg, ms) = j.arg
    BY <1>6, ApplyCases
  <2> QED
    BY <2>1 DEF Asked
<1> QED
  BY <1>1, <1>2, <1>3, <1>4, <1>5, <1>6

(* The list an operation leads to is one of users. *)
LEMMA ApplyType ==
    ASSUME NEW j \in Job, NEW ms \in SUBSET UserIds
    PROVE  apply(j.op, j.arg, ms) \in SUBSET UserIds
<1>1. j.op \in {"none", "add", "remove", "clear", "replace"} /\ j.arg \in SUBSET UserIds
  BY DEF Job
<1>2. \A op \in {"none", "add", "remove", "clear", "replace"} :
         apply(op, j.arg, ms) \in {ms, ms \cup j.arg, ms \ j.arg, {}, j.arg}
  BY ApplyCases
<1> QED
  BY <1>1, <1>2

LEMMA NoJobType == NoJob \in Job
  BY DEF NoJob, Job

(* Only one PUT or PATCH is under way. *)
LEMMA OneWriter ==
    ASSUME TypeOK, NEW w \in Writers, pc[w] # "idle" \/ mu \in {w, NoWriter}
    PROVE  \A v \in Writers \ {w} : pc[v] = "idle"
  BY GroupsAssumption DEF TypeOK, Holding

LEMMA MutexHolder ==
    ASSUME TypeOK, NEW w \in Writers
    PROVE  pc[w] # "idle" <=> mu = w
  BY GroupsAssumption DEF TypeOK, Holding

-----------------------------------------------------------------------------
(* What a step may do to the users table: create or take over, delete. *)
UsersStep ==
    /\ users' \in [UserIds -> UserStates]
    /\ \A u \in UserIds : \/ users'[u] = users[u]
                          \/ users[u] \in {"unborn", "unmanaged"} /\ users'[u] = "managed"
                          \/ users[u] = "managed" /\ users'[u] = "deleted"

LEMMA UsersSame ==
    ASSUME Inv, users' = users
    PROVE  UsersStep
  BY DEF Inv, TypeOK, UsersStep

(* A handler that does not move still has checked whom it adds. *)
LEMMA AddKept ==
    ASSUME Inv, UsersStep, NEW h \in Handlers, pc'[h] = pc[h],
           job'[h].add = job[h].add, job'[h].check = job[h].check
    PROVE  AddOK(h)'
<1>1. AddOK(h) /\ job[h].add \subseteq UserIds
  BY DEF Inv, TypeOK, Job
<1>2. \A u \in UserIds : users[u] \in {"managed", "deleted"} => users'[u] \in {"managed", "deleted"}
  BY DEF UsersStep
<1> QED
  BY <1>1, <1>2 DEF AddOK

(* A POST that does not move keeps its group, as long as nobody else       *)
(* creates it and no other POST begins with it.                            *)
LEMMA CreatorKept ==
    ASSUME Inv, NEW c \in Creators, pc'[c] = pc[c], job'[c] = job[c],
           \A g \in GroupIds : groups[g] = "unborn" /\ groups'[g] # "unborn" =>
               \E k \in Creators \ {c} : pc[k] # "idle" /\ job[k].group = g,
           \A k \in Creators \ {c} : pc'[k] # "idle" =>
               \/ pc[k] # "idle" /\ job'[k].group = job[k].group
               \/ pc[c] # "idle" => job'[k].group # job[c].group
    PROVE  CreatorOK(c)'
<1>1. CreatorOK(c)
  BY DEF Inv
<1> QED
  BY <1>1 DEF CreatorOK

(* A PUT or PATCH that does not move: others may only delete its group, or *)
(* users, and a POST may insert rows, which it then has in late.           *)
LEMMA WriterKept ==
    ASSUME Inv, UsersStep, NEW w \in Writers, pc'[w] = pc[w],
           NEW more \in SUBSET UserIds,
           job'[w] = job[w] \/ job'[w] = [job[w] EXCEPT !.late = @ \cup more],
           LET g == job[w].group IN
           pc[w] # "idle" =>
               /\ groups'[g] \in {groups[g], "deleted"}
               /\ groups'[g] \in Names => \A u \in members[g] : u \in members'[g] \/ users'[u] = "deleted"
               /\ pc[w] \in {"lookup", "members", "check", "write"} =>
                    members'[g] \subseteq members[g] \cup job'[w].late
    PROVE  WriterOK(w)'
<1> SUFFICES ASSUME pc[w] # "idle" PROVE WriterOK(w)'
  BY DEF WriterOK
<1> DEFINE j == job[w]
           k == job'[w]
           g == job[w].group
<1>1. WriterOK(w) /\ j \in Job /\ g \in GroupIds /\ groups[g] # "unborn"
  BY DEF Inv, TypeOK, WriterOK, Handlers
<1>2. /\ k.group = g /\ k.name = j.name /\ k.sent = j.sent /\ k.op = j.op /\ k.arg = j.arg
      /\ k.next = j.next /\ k.drop = j.drop /\ k.add = j.add /\ j.late \subseteq k.late
  <2>1. CASE k = j
    BY <2>1
  <2>2. CASE k = [j EXCEPT !.late = @ \cup more]
    BY <1>1, <2>2 DEF Job
  <2> QED
    BY <2>1, <2>2
<1>3. groups'[g] # "unborn" /\ (groups'[g] \in Names => groups'[g] = groups[g] /\ Live(g))
  BY <1>1, GroupsAssumption DEF Live
<1>4. \A u : Asked(j, u) <=> Asked(k, u)
  BY <1>2 DEF Asked
<1> HIDE DEF j, k
<1>5. k.name = k.sent \/ (groups'[g] \in Names => k.name = groups'[g])
  BY <1>1, <1>2, <1>3 DEF WriterOK, j, k
<1>6. pc[w] \in {"lookup", "members"} => LosesOnlyAsked(k, members'[g] \ k.next)
  BY <1>1, <1>2, <1>4 DEF WriterOK, LosesOnlyAsked, j, k
<1>7. pc[w] \in {"check", "write"} => LosesOnlyAsked(k, k.drop)
  BY <1>1, <1>2, <1>4 DEF WriterOK, LosesOnlyAsked, j
<1>8. ASSUME pc[w] \in {"check", "write"} PROVE DifferenceOK(job[w])'
  <2>1. DifferenceOK(j)
    BY <1>1, <1>8 DEF WriterOK, j
  <2>2. j.next \subseteq UserIds
    BY <1>1 DEF Job
  <2>3. \A u \in UserIds : users[u] = "deleted" => users'[u] = "deleted"
    BY DEF UsersStep
  <2> QED
    BY <1>2, <1>3, <1>8, <2>1, <2>2, <2>3 DEF DifferenceOK, Live, k, j
<1>9. pc[w] \in {"members", "check"} => k.name \in Names
  BY <1>1, <1>2 DEF WriterOK, j
<1> QED
  BY <1>1, <1>2, <1>3, <1>5, <1>6, <1>7, <1>8, <1>9 DEF WriterOK, Live, k

-----------------------------------------------------------------------------
(* A step of a PUT or PATCH: nobody else holds the mutex, so only POSTs    *)
(* can be disturbed, and they care for groups that nobody has created.     *)
LEMMA WriterMove ==
    ASSUME Inv, NEW w \in Writers, NEW s \in States, NEW j \in Job,
           pc' = [pc EXCEPT ![w] = s], job' = [job EXCEPT ![w] = j],
           mu \in {w, NoWriter}, mu' = IF s = "idle" THEN NoWriter ELSE w,
           s = "idle" => j = NoJob, users' = users,
           groups' \in [GroupIds -> Names \cup {"unborn", "deleted"}],
           \A g \in GroupIds : groups[g] = "unborn" => groups'[g] = "unborn",
           members' \in [GroupIds -> SUBSET UserIds],
           RowsInv', AddOK(w)', WriterOK(w)'
    PROVE  Inv'
<1>1. w \in Handlers /\ w \notin Creators /\ pc \in [Handlers -> States] /\ job \in [Handlers -> Job]
  BY GroupsAssumption DEF Inv, TypeOK, Handlers
<1>2. pc'[w] = s /\ job'[w] = j /\ \A h \in Handlers \ {w} : pc'[h] = pc[h] /\ job'[h] = job[h]
  BY <1>1
<1>3. \A v \in Writers \ {w} : pc[v] = "idle"
  BY OneWriter DEF Inv
<1>4. \A v \in Writers : pc'[v] # "idle" <=> v = w /\ s # "idle"
  BY <1>2, <1>3 DEF Handlers
<1>5. Holding' = {mu'} \ {NoWriter}
  BY <1>4, GroupsAssumption DEF Holding
<1>6. TypeOK'
  BY <1>1, <1>5 DEF Inv, TypeOK
<1>7. RestInv'
  BY <1>2 DEF Inv, RestInv
<1>8. ASSUME NEW h \in Handlers PROVE AddOK(h)'
  <2>1. CASE h = w
    BY <2>1
  <2>2. CASE h # w
    BY <1>2, <2>2, UsersSame, AddKept
  <2> QED
    BY <2>1, <2>2
<1>9. ASSUME NEW c \in Creators PROVE CreatorOK(c)'
  <2>1. \A k \in Creators : pc'[k] = pc[k] /\ job'[k] = job[k]
    BY <1>1, <1>2 DEF Handlers
  <2> QED
    BY <2>1, CreatorKept
<1>10. ASSUME NEW v \in Writers PROVE WriterOK(v)'
  <2>1. CASE v = w
    BY <2>1
  <2>2. CASE v # w
    BY <1>4, <2>2 DEF WriterOK
  <2> QED
    BY <2>1, <2>2
<1> QED
  BY <1>6, <1>7, <1>8, <1>9, <1>10 DEF Inv

(* A step of a POST that inserts no row. *)
LEMMA CreatorMove ==
    ASSUME Inv, NEW c \in Creators, NEW s \in States, NEW j \in Job,
           pc' = [pc EXCEPT ![c] = s], job' = [job EXCEPT ![c] = j],
           s = "idle" => j = NoJob, mu' = mu, users' = users, members' = members,
           groups' \in [GroupIds -> Names \cup {"unborn", "deleted"}],
           \A g \in GroupIds :
               \/ groups'[g] = groups[g]
               \/ groups[g] = "unborn" /\ pc[c] # "idle" /\ g = job[c].group,
           \/ s = "idle" \/ (pc[c] # "idle" /\ j.group = job[c].group)
           \/ \A k \in Creators \ {c} : pc[k] # "idle" => j.group # job[k].group,
           AddOK(c)', CreatorOK(c)'
    PROVE  Inv'
<1>1. c \in Handlers /\ c \notin Writers /\ pc \in [Handlers -> States] /\ job \in [Handlers -> Job]
  BY GroupsAssumption DEF Inv, TypeOK, Handlers
<1>2. pc'[c] = s /\ job'[c] = j /\ \A h \in Handlers \ {c} : pc'[h] = pc[h] /\ job'[h] = job[h]
  BY <1>1
<1>3. \A w \in Writers : pc'[w] = pc[w] /\ job'[w] = job[w]
  BY <1>1, <1>2 DEF Handlers
<1>4. Holding' = {mu'} \ {NoWriter}
  BY <1>3 DEF Holding, Inv, TypeOK
<1>5. TypeOK'
  BY <1>1, <1>4 DEF Inv, TypeOK
<1>6. RestInv' /\ RowsInv'
  BY <1>2 DEF Inv, RestInv, RowsInv, Present
<1>7. ASSUME NEW h \in Handlers PROVE AddOK(h)'
  <2>1. CASE h = c
    BY <2>1
  <2>2. CASE h # c
    BY <1>2, <2>2, UsersSame, AddKept
  <2> QED
    BY <2>1, <2>2
<1>8. ASSUME NEW k \in Creators PROVE CreatorOK(k)'
  <2>1. CASE k = c
    BY <2>1
  <2>2. CASE k # c
    <3>1. \A i \in Creators \ {c} : pc'[i] = pc[i] /\ job'[i] = job[i]
      BY <1>2 DEF Handlers
    <3>2. \A g \in GroupIds : groups[g] = "unborn" /\ groups'[g] # "unborn" =>
             \E i \in Creators \ {k} : pc[i] # "idle" /\ job[i].group = g
      BY <2>2
    <3>3. \A i \in Creators \ {k} : pc'[i] # "idle" =>
             \/ pc[i] # "idle" /\ job'[i].group = job[i].group
             \/ pc[k] # "idle" => job'[i].group # job[k].group
      BY <1>2, <2>2, <3>1
    <3> QED
      BY <2>2, <3>1, <3>2, <3>3, CreatorKept
  <2> QED
    BY <2>1, <2>2
<1>9. ASSUME NEW w \in Writers PROVE WriterOK(w)'
  <2>1. pc[w] # "idle" => groups'[job[w].group] = groups[job[w].group]
    BY DEF Inv, WriterOK
  <2>2. {} \in SUBSET UserIds
    OBVIOUS
  <2> QED
    BY <1>3, <2>1, <2>2, UsersSame, WriterKept
<1> QED
  BY <1>5, <1>6, <1>7, <1>8, <1>9 DEF Inv

(* A handler that answers leaves nothing behind. *)
LEMMA FinishInv ==
    ASSUME Inv, NEW h \in Handlers, pc[h] # "idle", Finish(h),
           UNCHANGED <<users, groups, members>>
    PROVE  Inv'
<1>1. /\ pc' = [pc EXCEPT ![h] = "idle"] /\ job' = [job EXCEPT ![h] = NoJob]
      /\ pc'[h] = "idle" /\ "idle" \in States
  BY DEF Finish, Goto, States, Inv, TypeOK
<1>2. AddOK(h)' /\ CreatorOK(h)' /\ WriterOK(h)'
  BY <1>1 DEF AddOK, CreatorOK, WriterOK
<1>3. /\ groups' \in [GroupIds -> Names \cup {"unborn", "deleted"}]
      /\ members' \in [GroupIds -> SUBSET UserIds] /\ RowsInv'
  BY DEF Inv, TypeOK, RowsInv, Present
<1>4. CASE h \in Writers
  <2>1. mu = h /\ mu' = NoWriter
    BY <1>4, MutexHolder DEF Finish, Inv
  <2> QED
    BY <1>1, <1>2, <1>3, <1>4, <2>1, NoJobType, WriterMove
<1>5. CASE h \in Creators
  <2>1. mu' = mu
    BY <1>5, GroupsAssumption DEF Finish, Inv, TypeOK
  <2> QED
    BY <1>1, <1>2, <1>3, <1>5, <2>1, NoJobType, CreatorMove
<1> QED
  BY <1>4, <1>5 DEF Handlers

(* Where a handler stands after a step of its own. *)
LEMMA WentTo ==
    ASSUME Inv, NEW h \in Handlers, NEW s, NEW j,
           Goto(h, s), job' = [job EXCEPT ![h] = j]
    PROVE  pc'[h] = s /\ job'[h] = j
  BY DEF Inv, TypeOK, Goto

(* A step of a PUT or PATCH that only reads. *)
LEMMA ReadStep ==
    ASSUME Inv, NEW w \in Writers, NEW s \in States, NEW j \in Job,
           s # "idle", Goto(w, s), job' = [job EXCEPT ![w] = j],
           mu \in {w, NoWriter}, mu' = w,
           UNCHANGED <<users, groups, members>>, AddOK(w)', WriterOK(w)'
    PROVE  Inv'
<1>2. /\ groups' \in [GroupIds -> Names \cup {"unborn", "deleted"}]
      /\ members' \in [GroupIds -> SUBSET UserIds] /\ RowsInv'
  BY DEF Inv, TypeOK, RowsInv, Present
<1>3. pc' = [pc EXCEPT ![w] = s]
  BY DEF Goto
<1> QED
  BY <1>2, <1>3, WriterMove

LEMMA StartInv ==
    ASSUME Inv, NEW w \in Writers, Start(w)
    PROVE  Inv'
<1>1. /\ pc[w] = "idle" /\ job[w] = NoJob /\ mu = NoWriter /\ mu' = w
      /\ UNCHANGED <<users, groups, members>> /\ w \in Handlers
  BY DEF Start, Inv, RestInv, Handlers
<1>2. PICK verb \in {"put", "patch"}, g \in GroupIds, name \in Names \cup {NoName},
           op \in {"none", "add", "remove", "clear", "replace"}, arg \in SUBSET UserIds :
         /\ verb = "put" => op = "replace"
         /\ op \in {"none", "clear"} => arg = {}
         /\ groups[g] # "unborn"
         /\ job' = [job EXCEPT ![w] = [@ EXCEPT
                      !.group = g, !.sent = name, !.op = op, !.arg = arg,
                      !.name = name, !.next = arg]]
         /\ Goto(w, IF verb = "put" THEN "lookup" ELSE "patch")
  BY Zenon DEF Start
<1> DEFINE j == [NoJob EXCEPT !.group = g, !.sent = name, !.op = op, !.arg = arg,
                              !.name = name, !.next = arg]
           s == IF verb = "put" THEN "lookup" ELSE "patch"
<1>3. job' = [job EXCEPT ![w] = j] /\ Goto(w, s)
  BY <1>1, <1>2
<1>4. /\ j \in Job /\ j.group = g /\ j.sent = name /\ j.name = name
      /\ j.op = op /\ j.arg = arg /\ j.next = arg
  BY NoJobType DEF Job
<1>5. s \in States /\ s # "idle" /\ s \in {"lookup", "patch"} /\ (s = "lookup" => op = "replace")
  BY <1>2 DEF States
<1> HIDE DEF j, s
<1>6. pc'[w] = s /\ job'[w] = j
  BY <1>1, <1>3, WentTo
<1>7. s = "lookup" => LosesOnlyAsked(j, members[g] \ j.next)
  BY <1>4, <1>5, ApplyCases DEF LosesOnlyAsked, Asked
<1>8. WriterOK(w)' /\ AddOK(w)'
  BY <1>1, <1>2, <1>4, <1>5, <1>6, <1>7 DEF WriterOK, AddOK
<1> QED
  BY <1>1, <1>3, <1>4, <1>5, <1>8, ReadStep

(* The first read of a group, by Patch or by replace: a name that was not  *)
(* sent is now the stored one.                                             *)
Named(w) == [job[w] EXCEPT !.name = IF @ = NoName THEN groups[job[w].group] ELSE @]

LEMMA NameRead ==
    ASSUME Inv, NEW w \in Writers, pc[w] # "idle", Live(job[w].group)
    PROVE  LET j == Named(w) IN
           /\ j \in Job /\ j.group = job[w].group /\ j.sent = job[w].sent
           /\ j.op = job[w].op /\ j.arg = job[w].arg /\ j.next = job[w].next
           /\ j.late = job[w].late /\ j.name \in Names
           /\ j.name = j.sent \/ j.name = groups[j.group]
<1> DEFINE j == Named(w)
<1>1. job[w] \in Job /\ WriterOK(w)
  BY DEF Inv, TypeOK, Handlers
<1>2. job[w].name \in Names \cup {NoName} /\ groups[job[w].group] \in Names
  BY <1>1 DEF Job, Live
<1>3. /\ j \in Job /\ j.group = job[w].group /\ j.sent = job[w].sent
      /\ j.op = job[w].op /\ j.arg = job[w].arg /\ j.next = job[w].next
      /\ j.late = job[w].late
      /\ j.name = IF job[w].name = NoName THEN groups[job[w].group] ELSE job[w].name
  BY <1>1, <1>2 DEF Job, Named
<1> QED
  BY <1>1, <1>2, <1>3 DEF WriterOK

LEMMA PatchLookupInv ==
    ASSUME Inv, NEW w \in Writers, PatchLookup(w)
    PROVE  Inv'
<1>1. pc[w] = "patch" /\ pc[w] # "idle" /\ w \in Handlers /\ UNCHANGED <<users, groups, members>>
  BY DEF PatchLookup, Handlers
<1>2. CASE ~Live(job[w].group)
  BY <1>1, <1>2, FinishInv DEF PatchLookup
<1>3. CASE Live(job[w].group)
  <2> DEFINE j == Named(w)
  <2>1. job' = [job EXCEPT ![w] = j] /\ Goto(w, "patchMembers") /\ mu' = w /\ mu = w
    BY <1>1, <1>3, MutexHolder DEF Inv, PatchLookup, Named
  <2>3. /\ j \in Job /\ j.group = job[w].group /\ j.sent = job[w].sent
        /\ j.name = j.sent \/ j.name = groups[j.group]
    BY <1>1, <1>3, NameRead
  <2>4. pc'[w] = "patchMembers" /\ job'[w] = j /\ "patchMembers" \in States
    BY <1>1, <2>1, WentTo DEF States
  <2>5. j.group \in GroupIds /\ groups[j.group] # "unborn"
    BY <1>1, <2>3 DEF Inv, WriterOK
  <2>6. WriterOK(w)' /\ AddOK(w)'
    BY <1>1, <2>3, <2>4, <2>5 DEF WriterOK, AddOK
  <2> QED
    BY <1>1, <2>1, <2>3, <2>4, <2>6, ReadStep
<1> QED
  BY <1>2, <1>3

LEMMA PatchMembersInv ==
    ASSUME Inv, NEW w \in Writers, PatchMembers(w)
    PROVE  Inv'
<1>1. pc[w] = "patchMembers" /\ pc[w] # "idle" /\ w \in Handlers /\ UNCHANGED <<users, groups, members>>
  BY DEF PatchMembers, Handlers
<1>2. CASE Finish(w)
  BY <1>1, <1>2, FinishInv
<1>3. CASE ~Finish(w)
  <2> DEFINE ms == members[job[w].group]
             j == [job[w] EXCEPT !.next = apply(job[w].op, job[w].arg, ms)]
  <2>1. job' = [job EXCEPT ![w] = j] /\ Goto(w, "lookup") /\ mu' = w /\ mu = w
    BY <1>1, <1>3, MutexHolder DEF Inv, PatchMembers
  <2>2. /\ job[w] \in Job /\ job[w].group \in GroupIds /\ groups[job[w].group] # "unborn"
        /\ job[w].name = job[w].sent \/ (Live(job[w].group) => job[w].name = groups[job[w].group])
    BY <1>1 DEF Inv, TypeOK, WriterOK
  <2>3. ms \in SUBSET UserIds
    BY <2>2 DEF Inv, TypeOK
  <2>4. apply(job[w].op, job[w].arg, ms) \in SUBSET UserIds
    BY <2>2, <2>3, ApplyType
  <2>5. /\ j \in Job /\ j.group = job[w].group /\ j.sent = job[w].sent /\ j.name = job[w].name
        /\ j.op = job[w].op /\ j.arg = job[w].arg /\ j.next = apply(j.op, j.arg, ms)
    BY <2>2, <2>4 DEF Job
  <2> HIDE DEF j
  <2>6. LosesOnlyAsked(j, ms \ j.next)
    BY <2>5, ApplyAsked DEF LosesOnlyAsked
  <2>7. pc'[w] = "lookup" /\ job'[w] = j /\ "lookup" \in States
    BY <1>1, <2>1, WentTo DEF States
  <2>8. WriterOK(w)' /\ AddOK(w)'
    BY <1>1, <2>2, <2>5, <2>6, <2>7 DEF WriterOK, AddOK, Live
  <2> QED
    BY <1>1, <2>1, <2>5, <2>7, <2>8, ReadStep
<1> QED
  BY <1>2, <1>3

LEMMA LookupInv ==
    ASSUME Inv, NEW w \in Writers, Lookup(w)
    PROVE  Inv'
<1>1. pc[w] = "lookup" /\ pc[w] # "idle" /\ w \in Handlers /\ UNCHANGED <<users, groups, members>>
  BY DEF Lookup, Handlers
<1>2. CASE ~Live(job[w].group)
  BY <1>1, <1>2, FinishInv DEF Lookup
<1>3. CASE Live(job[w].group)
  <2> DEFINE j == Named(w)
  <2>1. job' = [job EXCEPT ![w] = j] /\ Goto(w, "members") /\ mu' = w /\ mu = w
    BY <1>1, <1>3, MutexHolder DEF Inv, Lookup, Named
  <2>2. /\ j \in Job /\ j.group = job[w].group /\ j.sent = job[w].sent
        /\ j.op = job[w].op /\ j.arg = job[w].arg /\ j.next = job[w].next
        /\ j.late = job[w].late /\ j.name \in Names
        /\ j.name = j.sent \/ j.name = groups[j.group]
    BY <1>1, <1>3, NameRead
  <2>3. pc'[w] = "members" /\ job'[w] = j /\ "members" \in States
    BY <1>1, <2>1, WentTo DEF States
  <2>4. /\ j.group \in GroupIds /\ groups[j.group] # "unborn"
        /\ LosesOnlyAsked(job[w], members[job[w].group] \ job[w].next)
    BY <1>1, <2>2 DEF Inv, WriterOK
  <2>5. LosesOnlyAsked(j, members[j.group] \ j.next)
    BY <2>2, <2>4 DEF LosesOnlyAsked, Asked
  <2>6. WriterOK(w)' /\ AddOK(w)'
    BY <1>1, <2>2, <2>3, <2>4, <2>5 DEF WriterOK, AddOK
  <2> QED
    BY <1>1, <2>1, <2>2, <2>3, <2>6, ReadStep
<1> QED
  BY <1>2, <1>3

LEMMA ReadMembersInv ==
    ASSUME Inv, NEW w \in Writers, ReadMembers(w)
    PROVE  Inv'
<1> DEFINE g == job[w].group
           old == members[g]
           next == job[w].next
           j == [job[w] EXCEPT !.check = next \ old, !.add = next \ old, !.drop = old \ next]
<1>1. /\ pc[w] = "members" /\ pc[w] # "idle" /\ w \in Handlers
      /\ UNCHANGED <<users, groups, members>> /\ mu = w /\ mu' = w
      /\ job' = [job EXCEPT ![w] = j] /\ Goto(w, "check")
  BY MutexHolder DEF ReadMembers, Handlers, Inv
<1>2. /\ job[w] \in Job /\ g \in GroupIds /\ groups[g] # "unborn" /\ job[w].name \in Names
      /\ job[w].name = job[w].sent \/ (Live(g) => job[w].name = groups[g])
      /\ LosesOnlyAsked(job[w], old \ next)
  BY <1>1 DEF Inv, TypeOK, WriterOK
<1>3. old \in SUBSET UserIds /\ next \in SUBSET UserIds
  BY <1>2 DEF Inv, TypeOK, Job
<1>4. /\ j \in Job /\ j.group = g /\ j.sent = job[w].sent /\ j.name = job[w].name
      /\ j.op = job[w].op /\ j.arg = job[w].arg /\ j.next = next /\ j.late = job[w].late
      /\ j.check = next \ old /\ j.add = next \ old /\ j.drop = old \ next
  BY <1>2, <1>3 DEF Job
<1> HIDE DEF j
<1>5. pc'[w] = "check" /\ job'[w] = j /\ "check" \in States
  BY <1>1, WentTo DEF States
<1>6. LosesOnlyAsked(j, j.drop)
  BY <1>2, <1>4 DEF LosesOnlyAsked, Asked
<1>7. DifferenceOK(j)
  BY <1>4 DEF DifferenceOK
<1>8. AddOK(w)'
  BY <1>4, <1>5 DEF AddOK
<1>9. WriterOK(w)'
  BY <1>1, <1>2, <1>4, <1>5, <1>6, <1>7 DEF WriterOK, DifferenceOK, Live
<1> QED
  BY <1>1, <1>4, <1>5, <1>8, <1>9, ReadStep

-----------------------------------------------------------------------------
(* Where a step leaves a handler where it was. *)
LEMMA Stays ==
    ASSUME Inv, NEW h \in Handlers
    PROVE  pc = [pc EXCEPT ![h] = pc[h]] /\ job = [job EXCEPT ![h] = job[h]]
  BY DEF Inv, TypeOK

LEMMA UpdateGroupInv ==
    ASSUME Inv, NEW w \in Writers, UpdateGroup(w)
    PROVE  Inv'
<1> DEFINE g == job[w].group
<1>1. /\ pc[w] = "check" /\ pc[w] # "idle" /\ job[w].check = {} /\ w \in Handlers
      /\ UNCHANGED <<users, members>> /\ mu = w
  BY MutexHolder DEF UpdateGroup, Handlers, Inv
<1>2. CASE ~(Live(g) /\ NameFree(g, job[w].name))
  BY <1>1, <1>2, FinishInv DEF UpdateGroup
<1>3. CASE Live(g) /\ NameFree(g, job[w].name)
  <2>1. /\ groups' = [groups EXCEPT ![g] = job[w].name]
        /\ Goto(w, "write") /\ mu' = w /\ job' = job
    BY <1>1, <1>3 DEF UpdateGroup
  <2>2. /\ pc' = [pc EXCEPT ![w] = "write"] /\ pc'[w] = "write" /\ "write" \in States
        /\ job' = [job EXCEPT ![w] = job[w]] /\ job[w] \in Job
    BY <1>1, <2>1, Stays DEF Goto, States, Inv, TypeOK
  <2>3. WriterOK(w) /\ AddOK(w)
    BY <1>1 DEF Inv
  <2>4. g \in GroupIds /\ job[w].name \in Names
    BY <1>1, <2>3 DEF WriterOK
  <2>5. groups' \in [GroupIds -> Names \cup {"unborn", "deleted"}] /\ groups'[g] = job[w].name
    BY <2>1, <2>4 DEF Inv, TypeOK
  <2>6. \A f \in GroupIds : groups[f] = "unborn" => groups'[f] = "unborn"
    BY <1>3, <2>1, GroupsAssumption DEF Live, Inv, TypeOK
  <2>7. job[w].name # "unborn"
    BY <2>4, GroupsAssumption
  <2>8. AddOK(w)'
    BY <1>1, <2>1, <2>2, <2>3 DEF AddOK
  <2>9. WriterOK(w)'
    BY <1>1, <1>3, <2>1, <2>2, <2>3, <2>4, <2>5, <2>7 DEF WriterOK, DifferenceOK, Live
  <2>10. members' \in [GroupIds -> SUBSET UserIds] /\ RowsInv'
    BY <1>1 DEF Inv, TypeOK, RowsInv, Present
  <2> QED
    BY <1>1, <2>1, <2>2, <2>5, <2>6, <2>8, <2>9, <2>10, WriterMove
<1> QED
  BY <1>2, <1>3

LEMMA CheckMemberInv ==
    ASSUME Inv, NEW h \in Handlers, CheckMember(h)
    PROVE  Inv'
<1>1. /\ pc[h] = "check" /\ pc[h] # "idle" /\ UNCHANGED <<users, groups, members>>
  BY DEF CheckMember
<1>2. CASE Finish(h)
  BY <1>1, <1>2, FinishInv
<1>3. CASE ~Finish(h)
  <2>1. PICK u \in job[h].check : /\ users[u] = "managed" /\ pc' = pc /\ mu' = mu
                                  /\ job' = [job EXCEPT ![h].check = @ \ {u}]
    BY <1>3 DEF CheckMember
  <2> DEFINE j == [job[h] EXCEPT !.check = @ \ {u}]
  <2>2. job[h] \in Job /\ AddOK(h)
    BY DEF Inv, TypeOK
  <2>3. /\ j \in Job /\ j.group = job[h].group /\ j.sent = job[h].sent /\ j.name = job[h].name
        /\ j.op = job[h].op /\ j.arg = job[h].arg /\ j.next = job[h].next
        /\ j.late = job[h].late /\ j.drop = job[h].drop /\ j.add = job[h].add
        /\ j.check = job[h].check \ {u}
    BY <2>2 DEF Job
  <2>4. /\ job' = [job EXCEPT ![h] = j] /\ pc' = [pc EXCEPT ![h] = "check"] /\ "check" \in States
    BY <1>1, <2>1, Stays DEF States
  <2> HIDE DEF j
  <2>5. pc'[h] = "check" /\ job'[h] = j
    BY <2>4 DEF Inv, TypeOK
  <2>6. AddOK(h)'
    BY <1>1, <2>1, <2>2, <2>3, <2>5 DEF AddOK
  <2>7. /\ groups' \in [GroupIds -> Names \cup {"unborn", "deleted"}]
        /\ members' \in [GroupIds -> SUBSET UserIds] /\ RowsInv'
    BY <1>1 DEF Inv, TypeOK, RowsInv, Present
  <2>8. CASE h \in Writers
    <3>1. WriterOK(h) /\ mu = h
      BY <1>1, <2>8, MutexHolder DEF Inv
    <3>2. LosesOnlyAsked(j, j.drop) /\ DifferenceOK(j)
      BY <1>1, <2>3, <3>1 DEF WriterOK, LosesOnlyAsked, Asked, DifferenceOK
    <3>3. WriterOK(h)'
      BY <1>1, <2>3, <2>5, <3>1, <3>2 DEF WriterOK, DifferenceOK, Live
    <3> QED
      BY <1>1, <2>1, <2>3, <2>4, <2>6, <2>7, <2>8, <3>1, <3>3, WriterMove
  <2>9. CASE h \in Creators
    <3>1. CreatorOK(h)
      BY <2>9 DEF Inv
    <3>2. \A k \in Creators \ {h} : pc'[k] = pc[k] /\ job'[k] = job[k]
      BY <2>1, <2>4 DEF Inv, TypeOK, Handlers
    <3>3. CreatorOK(h)'
      BY <1>1, <2>3, <2>5, <3>1, <3>2 DEF CreatorOK
    <3> QED
      BY <1>1, <2>1, <2>3, <2>4, <2>6, <2>7, <2>9, <3>3, CreatorMove
  <2> QED
    BY <2>8, <2>9 DEF Handlers
<1> QED
  BY <1>2, <1>3

LEMMA RemoveGroupMemberInv ==
    ASSUME Inv, NEW h \in Handlers, RemoveGroupMember(h)
    PROVE  Inv'
<1>1. PICK u \in job[h].drop :
         /\ members' = [members EXCEPT ![job[h].group] = @ \ {u}]
         /\ job' = [job EXCEPT ![h].drop = @ \ {u}]
  BY DEF RemoveGroupMember
<1>2. pc[h] = "write" /\ pc[h] # "idle" /\ UNCHANGED <<users, groups, mu, pc>>
  BY DEF RemoveGroupMember
<1>3. h \in Writers
  BY <1>1, <1>2 DEF Inv, CreatorOK, Handlers
<1> DEFINE g == job[h].group
           j == [job[h] EXCEPT !.drop = @ \ {u}]
<1>4. job[h] \in Job /\ WriterOK(h) /\ AddOK(h) /\ mu = h
  BY <1>2, <1>3, MutexHolder DEF Inv, TypeOK
<1>5. g \in GroupIds /\ DifferenceOK(job[h]) /\ LosesOnlyAsked(job[h], job[h].drop)
  BY <1>2, <1>4 DEF WriterOK
<1>6. /\ j \in Job /\ j.group = g /\ j.sent = job[h].sent /\ j.name = job[h].name
      /\ j.op = job[h].op /\ j.arg = job[h].arg /\ j.next = job[h].next
      /\ j.late = job[h].late /\ j.check = job[h].check /\ j.add = job[h].add
      /\ j.drop = job[h].drop \ {u}
  BY <1>4 DEF Job
<1>7. /\ job' = [job EXCEPT ![h] = j] /\ pc' = [pc EXCEPT ![h] = "write"] /\ "write" \in States
  BY <1>1, <1>2, Stays DEF States
<1> HIDE DEF j
<1>8. pc'[h] = "write" /\ job'[h] = j
  BY <1>7 DEF Inv, TypeOK
<1>9. /\ members' \in [GroupIds -> SUBSET UserIds] /\ members'[g] = members[g] \ {u}
      /\ \A f \in GroupIds : members'[f] \subseteq members[f]
  BY <1>1, <1>5 DEF Inv, TypeOK
<1>10. groups' \in [GroupIds -> Names \cup {"unborn", "deleted"}] /\ RowsInv'
  BY <1>2, <1>9 DEF Inv, TypeOK, RowsInv, Present
<1>11. AddOK(h)'
  BY <1>2, <1>4, <1>6, <1>8 DEF AddOK
<1>12. LosesOnlyAsked(j, j.drop)
  BY <1>5, <1>6 DEF LosesOnlyAsked, Asked
<1>13. DifferenceOK(job[h])'
  BY <1>2, <1>5, <1>6, <1>8, <1>9 DEF DifferenceOK, Live
<1>14. WriterOK(h)'
  BY <1>2, <1>4, <1>6, <1>8, <1>12, <1>13 DEF WriterOK, Live
<1> QED
  BY <1>2, <1>3, <1>4, <1>6, <1>7, <1>9, <1>10, <1>11, <1>14, WriterMove

(* A row inserted by the PUT or PATCH that holds the mutex. *)
LEMMA WriterInserts ==
    ASSUME Inv, NEW h \in Writers, pc[h] = "write", job[h].drop = {},
           NEW u \in job[h].add, Live(job[h].group), Present(u),
           members' = [members EXCEPT ![job[h].group] = @ \cup {u}],
           job' = [k \in Handlers |->
                     IF k = h THEN [job[k] EXCEPT !.add = @ \ {u}]
                     ELSE IF h \in Creators /\ HasRead(k, job[h].group)
                     THEN [job[k] EXCEPT !.late = @ \cup {u}] ELSE job[k]],
           UNCHANGED <<users, groups, mu, pc>>
    PROVE  Inv'
<1> DEFINE g == job[h].group
           j == [job[h] EXCEPT !.add = @ \ {u}]
<1>1. h \in Handlers /\ h \notin Creators
  BY GroupsAssumption DEF Handlers
<1>2. job[h] \in Job /\ WriterOK(h) /\ AddOK(h) /\ mu = h
  BY <1>1, MutexHolder DEF Inv, TypeOK
<1>3. g \in GroupIds /\ DifferenceOK(job[h]) /\ u \in UserIds
  BY <1>2 DEF WriterOK, Job
<1>4. /\ j \in Job /\ j.group = g /\ j.sent = job[h].sent /\ j.name = job[h].name
      /\ j.op = job[h].op /\ j.arg = job[h].arg /\ j.next = job[h].next
      /\ j.late = job[h].late /\ j.check = job[h].check /\ j.drop = job[h].drop
      /\ j.add = job[h].add \ {u}
  BY <1>2 DEF Job
<1>5. /\ job' = [job EXCEPT ![h] = j] /\ pc' = [pc EXCEPT ![h] = "write"] /\ "write" \in States
  BY <1>1, Stays DEF States, Inv, TypeOK
<1> HIDE DEF j
<1>6. pc'[h] = "write" /\ job'[h] = j
  BY <1>1, <1>5 DEF Inv, TypeOK
<1>7. /\ members' \in [GroupIds -> SUBSET UserIds] /\ members'[g] = members[g] \cup {u}
      /\ \A f \in GroupIds : members'[f] \subseteq members[f] \cup {u}
  BY <1>3 DEF Inv, TypeOK
<1>8. groups' \in [GroupIds -> Names \cup {"unborn", "deleted"}] /\ RowsInv'
  BY <1>7 DEF Inv, TypeOK, RowsInv, Present
<1>9. AddOK(h)'
  BY <1>2, <1>4, <1>6 DEF AddOK
<1>10. LosesOnlyAsked(j, j.drop)
  BY <1>4 DEF LosesOnlyAsked
<1>11. DifferenceOK(job[h])'
  <2>1. u \in j.next /\ j.drop \cap j.next = {} /\ j.add \subseteq j.next
    BY <1>3, <1>4 DEF DifferenceOK
  <2>2. members'[g] \subseteq j.next \cup j.drop \cup j.late
    BY <1>3, <1>4, <1>7, <2>1 DEF DifferenceOK
  <2>3. \A x \in j.next : x \in members'[g] \cup j.add \/ users'[x] = "deleted"
    BY <1>3, <1>4, <1>7 DEF DifferenceOK
  <2> QED
    BY <1>4, <1>6, <2>1, <2>2, <2>3 DEF DifferenceOK
<1>12. WriterOK(h)'
  BY <1>2, <1>4, <1>6, <1>10, <1>11 DEF WriterOK, Live
<1> QED
  BY <1>2, <1>4, <1>5, <1>7, <1>8, <1>9, <1>12, WriterMove

(* A row inserted by a POST, which holds nothing: the PUT or PATCH of the  *)
(* group, if there is one that has its list, has the row in late.          *)
LEMMA CreatorInserts ==
    ASSUME Inv, NEW c \in Creators, pc[c] = "write", job[c].drop = {},
           NEW u \in job[c].add, Live(job[c].group), Present(u),
           members' = [members EXCEPT ![job[c].group] = @ \cup {u}],
           job' = [k \in Handlers |->
                     IF k = c THEN [job[k] EXCEPT !.add = @ \ {u}]
                     ELSE IF c \in Creators /\ HasRead(k, job[c].group)
                     THEN [job[k] EXCEPT !.late = @ \cup {u}] ELSE job[k]],
           UNCHANGED <<users, groups, mu, pc>>
    PROVE  Inv'
<1> DEFINE g == job[c].group
           j == [job[c] EXCEPT !.add = @ \ {u}]
<1>1. c \in Handlers /\ c \notin Writers /\ job \in [Handlers -> Job] /\ pc \in [Handlers -> States]
  BY GroupsAssumption DEF Handlers, Inv, TypeOK
<1>2. job[c] \in Job /\ CreatorOK(c) /\ AddOK(c) /\ u \in UserIds /\ g \in GroupIds
  BY <1>1 DEF Inv, CreatorOK, Job
<1>3. /\ j \in Job /\ j.group = g /\ j.name = job[c].name /\ j.drop = job[c].drop
      /\ j.check = job[c].check /\ j.add = job[c].add \ {u}
  BY <1>2 DEF Job
<1>4. job'[c] = j
  BY <1>1
<1> HIDE DEF j
<1>5. ASSUME NEW k \in Handlers \ {c}
      PROVE  /\ job'[k] \in Job
             /\ \/ job'[k] = job[k] /\ ~HasRead(k, g)
                \/ /\ job'[k] = [job[k] EXCEPT !.late = @ \cup {u}] /\ HasRead(k, g)
                   /\ u \in job'[k].late
             /\ job'[k].add = job[k].add /\ job'[k].check = job[k].check
  <2>1. job[k] \in Job
    BY <1>1
  <2>2. CASE HasRead(k, g)
    <3>1. job'[k] = [job[k] EXCEPT !.late = @ \cup {u}]
      BY <2>2
    <3>2. [job[k] EXCEPT !.late = @ \cup {u}] \in Job
      BY <1>2, <2>1 DEF Job
    <3>3. /\ [job[k] EXCEPT !.late = @ \cup {u}].late = job[k].late \cup {u}
          /\ [job[k] EXCEPT !.late = @ \cup {u}].add = job[k].add
          /\ [job[k] EXCEPT !.late = @ \cup {u}].check = job[k].check
      BY <2>1 DEF Job
    <3> QED
      BY <2>2, <3>1, <3>2, <3>3
  <2>3. CASE ~HasRead(k, g)
    BY <2>1, <2>3
  <2> QED
    BY <2>2, <2>3
<1>6. job' \in [Handlers -> Job]
  BY <1>3, <1>4, <1>5
<1>7. /\ members' \in [GroupIds -> SUBSET UserIds] /\ members'[g] = members[g] \cup {u}
      /\ \A f \in GroupIds \ {g} : members'[f] = members[f]
  BY <1>2 DEF Inv, TypeOK
<1>8. TypeOK'
  BY <1>6, <1>7 DEF Inv, TypeOK, Holding
<1>9. RestInv'
  <2>1. \A k \in Handlers : pc[k] = "idle" => k # c /\ ~HasRead(k, g)
    BY DEF HasRead
  <2> QED
    BY <1>5, <2>1 DEF Inv, RestInv
<1>10. RowsInv'
  BY <1>7 DEF Inv, RowsInv, Present
<1>11. ASSUME NEW k \in Handlers PROVE AddOK(k)'
  <2>1. CASE k = c
    BY <1>2, <1>3, <1>4, <2>1 DEF AddOK
  <2>2. CASE k # c
    BY <1>5, <2>2, UsersSame, AddKept
  <2> QED
    BY <2>1, <2>2
<1>12. ASSUME NEW k \in Creators PROVE CreatorOK(k)'
  <2>1. \A i \in Creators \ {c} : job'[i] = job[i]
    BY <1>5, GroupsAssumption DEF HasRead, Handlers
  <2>2. CASE k = c
    <3>1. /\ pc'[c] = "write" /\ j.drop = {} /\ j.group \in GroupIds /\ j.name \in Names
          /\ \A i \in Creators \ {c} : pc[i] # "idle" => job[i].group # j.group
      BY <1>2, <1>3 DEF CreatorOK
    <3> QED
      BY <1>4, <2>1, <2>2, <3>1 DEF CreatorOK
  <2>3. CASE k # c
    <3>1. \A i \in Creators \ {k} : job'[i].group = job[i].group
      BY <1>3, <1>4, <2>1
    <3> QED
      BY <2>1, <2>3, <3>1, CreatorKept
  <2> QED
    BY <2>2, <2>3
<1>13. ASSUME NEW w \in Writers PROVE WriterOK(w)'
  <2>1. w \in Handlers \ {c}
    BY <1>1 DEF Handlers
  <2>2. /\ {u} \in SUBSET UserIds
        /\ job'[w] = job[w] \/ job'[w] = [job[w] EXCEPT !.late = @ \cup {u}]
    BY <1>2, <1>5, <2>1
  <2>3. pc[w] # "idle" =>
           LET f == job[w].group IN
           /\ groups'[f] \in {groups[f], "deleted"}
           /\ groups'[f] \in Names => \A v \in members[f] : v \in members'[f] \/ users'[v] = "deleted"
           /\ pc[w] \in {"lookup", "members", "check", "write"} =>
                members'[f] \subseteq members[f] \cup job'[w].late
    <3>1. pc[w] # "idle" => job[w].group \in GroupIds
      BY DEF Inv, WriterOK
    <3>2. pc[w] \in {"lookup", "members", "check", "write"} /\ job[w].group = g => u \in job'[w].late
      BY <1>5, <2>1 DEF HasRead
    <3> QED
      BY <1>7, <3>1, <3>2
  <2> QED
    BY <2>2, <2>3, UsersSame, WriterKept
<1> QED
  BY <1>8, <1>9, <1>10, <1>11, <1>12, <1>13 DEF Inv

LEMMA AddGroupMemberInv ==
    ASSUME Inv, NEW h \in Handlers, AddGroupMember(h)
    PROVE  Inv'
<1>1. pc[h] = "write" /\ pc[h] # "idle" /\ job[h].drop = {} /\ UNCHANGED <<users, groups>>
  BY DEF AddGroupMember
<1>2. CASE Finish(h) /\ UNCHANGED members
  BY <1>1, <1>2, FinishInv
<1>3. CASE ~(Finish(h) /\ UNCHANGED members)
  <2>1. PICK u \in job[h].add :
          /\ Live(job[h].group) /\ Present(u)
          /\ members' = [members EXCEPT ![job[h].group] = @ \cup {u}]
          /\ job' = [k \in Handlers |->
                       IF k = h THEN [job[k] EXCEPT !.add = @ \ {u}]
                       ELSE IF h \in Creators /\ HasRead(k, job[h].group)
                       THEN [job[k] EXCEPT !.late = @ \cup {u}] ELSE job[k]]
          /\ UNCHANGED <<mu, pc>>
    BY <1>3, Zenon DEF AddGroupMember
  <2>2. UNCHANGED <<users, groups, mu, pc>>
    BY <1>1, <2>1
  <2>3. CASE h \in Writers
    BY <1>1, <2>1, <2>2, <2>3, WriterInserts
  <2>4. CASE h \in Creators
    BY <1>1, <2>1, <2>2, <2>4, CreatorInserts
  <2> QED
    BY <2>3, <2>4 DEF Handlers
<1> QED
  BY <1>2, <1>3

-----------------------------------------------------------------------------
LEMMA StartCreateInv ==
    ASSUME Inv, NEW c \in Creators, StartCreate(c)
    PROVE  Inv'
<1>1. /\ pc[c] = "idle" /\ Goto(c, "check") /\ UNCHANGED <<users, groups, members, mu>>
      /\ c \in Handlers /\ job[c] = NoJob
  BY DEF StartCreate, Inv, RestInv, Handlers
<1>2. PICK g \in GroupIds, name \in Names, arg \in SUBSET UserIds :
         /\ groups[g] = "unborn"
         /\ \A k \in Creators : pc[k] # "idle" => job[k].group # g
         /\ job' = [job EXCEPT ![c] = [@ EXCEPT
                      !.group = g, !.sent = name, !.name = name,
                      !.op = "add", !.arg = arg, !.next = arg, !.check = arg, !.add = arg]]
  BY Zenon DEF StartCreate
<1> DEFINE j == [NoJob EXCEPT !.group = g, !.sent = name, !.name = name, !.op = "add",
                              !.arg = arg, !.next = arg, !.check = arg, !.add = arg]
<1>3. job' = [job EXCEPT ![c] = j]
  BY <1>1, <1>2
<1>4. j \in Job /\ j.group = g /\ j.name = name /\ j.check = arg /\ j.add = arg /\ j.drop = {}
  BY DEF Job, NoJob
<1> HIDE DEF j
<1>5. pc'[c] = "check" /\ job'[c] = j /\ pc' = [pc EXCEPT ![c] = "check"] /\ "check" \in States
  BY <1>1, <1>3, WentTo DEF Goto, States
<1>6. \A k \in Creators \ {c} : pc'[k] = pc[k] /\ job'[k] = job[k]
  BY <1>3, <1>5 DEF Inv, TypeOK, Handlers
<1>7. AddOK(c)'
  BY <1>4, <1>5 DEF AddOK
<1>8. CreatorOK(c)'
  BY <1>1, <1>2, <1>4, <1>5, <1>6 DEF CreatorOK
<1>9. groups' \in [GroupIds -> Names \cup {"unborn", "deleted"}] /\ groups' = groups
  BY <1>1 DEF Inv, TypeOK
<1>10. \A k \in Creators \ {c} : pc[k] # "idle" => j.group # job[k].group
  BY <1>2, <1>4
<1> QED
  BY <1>1, <1>3, <1>4, <1>5, <1>7, <1>8, <1>9, <1>10, CreatorMove

LEMMA CreateGroupInv ==
    ASSUME Inv, NEW c \in Creators, CreateGroup(c)
    PROVE  Inv'
<1> DEFINE g == job[c].group
<1>1. /\ pc[c] = "check" /\ pc[c] # "idle" /\ job[c].check = {} /\ c \in Handlers
      /\ UNCHANGED <<users, members>>
  BY DEF CreateGroup, Handlers
<1>2. CASE ~NameFree(g, job[c].name)
  BY <1>1, <1>2, FinishInv DEF CreateGroup
<1>3. CASE NameFree(g, job[c].name)
  <2>1. /\ groups' = [groups EXCEPT ![g] = job[c].name]
        /\ Goto(c, "write") /\ mu' = mu /\ job' = job
    BY <1>3 DEF CreateGroup
  <2>2. /\ pc' = [pc EXCEPT ![c] = "write"] /\ pc'[c] = "write" /\ "write" \in States
        /\ job' = [job EXCEPT ![c] = job[c]] /\ job[c] \in Job
    BY <1>1, <2>1, Stays DEF Goto, States, Inv, TypeOK
  <2>3. CreatorOK(c) /\ AddOK(c)
    BY <1>1 DEF Inv
  <2>4. g \in GroupIds /\ job[c].name \in Names /\ groups[g] = "unborn"
    BY <1>1, <2>3 DEF CreatorOK
  <2>5. /\ groups' \in [GroupIds -> Names \cup {"unborn", "deleted"}]
        /\ \A f \in GroupIds \ {g} : groups'[f] = groups[f]
    BY <2>1, <2>4 DEF Inv, TypeOK
  <2>6. \A k \in Creators \ {c} : pc'[k] = pc[k]
    BY <2>2 DEF Inv, TypeOK, Handlers
  <2>7. AddOK(c)'
    BY <1>1, <2>1, <2>2, <2>3 DEF AddOK
  <2>8. CreatorOK(c)'
    BY <1>1, <2>1, <2>2, <2>3, <2>6 DEF CreatorOK
  <2>9. \A f \in GroupIds : \/ groups'[f] = groups[f]
                            \/ groups[f] = "unborn" /\ pc[c] # "idle" /\ f = job[c].group
    BY <1>1, <2>4, <2>5
  <2> QED
    BY <1>1, <2>1, <2>2, <2>5, <2>7, <2>8, <2>9, CreatorMove
<1> QED
  BY <1>2, <1>3

-----------------------------------------------------------------------------
(* A step of none of the handlers: groups and users go, no row comes. *)
LEMMA OtherStep ==
    ASSUME Inv, UNCHANGED <<mu, pc, job>>, UsersStep,
           groups' \in [GroupIds -> Names \cup {"unborn", "deleted"}],
           \A g \in GroupIds : groups'[g] = groups[g] \/ (Live(g) /\ groups'[g] = "deleted"),
           members' \in [GroupIds -> SUBSET UserIds],
           \A g \in GroupIds : members'[g] \subseteq members[g],
           \A g \in GroupIds : groups'[g] \in Names =>
               \A u \in members[g] : u \in members'[g] \/ users'[u] = "deleted",
           RowsInv'
    PROVE  Inv'
<1>1. pc' = pc /\ job' = job /\ mu' = mu
  OBVIOUS
<1>2. TypeOK'
  BY <1>1 DEF Inv, TypeOK, UsersStep, Holding
<1>3. RestInv'
  BY <1>1 DEF Inv, RestInv
<1>4. ASSUME NEW h \in Handlers PROVE AddOK(h)'
  BY <1>1, AddKept
<1>5. ASSUME NEW c \in Creators PROVE CreatorOK(c)'
  <2>1. \A g \in GroupIds : ~(groups[g] = "unborn" /\ groups'[g] # "unborn")
    BY GroupsAssumption DEF Live
  <2> QED
    BY <1>1, <2>1, CreatorKept
<1>6. ASSUME NEW w \in Writers PROVE WriterOK(w)'
  <2>1. pc[w] # "idle" => job[w].group \in GroupIds
    BY DEF Inv, WriterOK
  <2>2. {} \in SUBSET UserIds
    OBVIOUS
  <2>3. pc[w] # "idle" =>
           LET f == job[w].group IN
           /\ groups'[f] \in {groups[f], "deleted"}
           /\ groups'[f] \in Names => \A v \in members[f] : v \in members'[f] \/ users'[v] = "deleted"
           /\ pc[w] \in {"lookup", "members", "check", "write"} =>
                members'[f] \subseteq members[f] \cup job'[w].late
    BY <2>1
  <2> QED
    BY <1>1, <2>2, <2>3, WriterKept
<1> QED
  BY <1>2, <1>3, <1>4, <1>5, <1>6 DEF Inv

LEMMA DeleteGroupInv ==
    ASSUME Inv, NEW g \in GroupIds, DeleteGroup(g)
    PROVE  Inv'
<1>1. /\ groups' = [groups EXCEPT ![g] = "deleted"] /\ members' = [members EXCEPT ![g] = {}]
      /\ users' = users /\ UNCHANGED <<mu, pc, job>> /\ Live(g)
  BY DEF DeleteGroup
<1>2. /\ groups' \in [GroupIds -> Names \cup {"unborn", "deleted"}] /\ groups'[g] = "deleted"
      /\ \A f \in GroupIds \ {g} : groups'[f] = groups[f]
  BY <1>1 DEF Inv, TypeOK
<1>3. /\ members' \in [GroupIds -> SUBSET UserIds] /\ members'[g] = {}
      /\ \A f \in GroupIds \ {g} : members'[f] = members[f]
  BY <1>1 DEF Inv, TypeOK
<1>4. RowsInv'
  BY <1>1, <1>3 DEF Inv, RowsInv, Present
<1>5. \A f \in GroupIds : groups'[f] = groups[f] \/ (Live(f) /\ groups'[f] = "deleted")
  BY <1>1, <1>2
<1>6. \A f \in GroupIds : groups'[f] \in Names =>
         \A u \in members[f] : u \in members'[f] \/ users'[u] = "deleted"
  BY <1>2, <1>3, GroupsAssumption
<1>7. \A f \in GroupIds : members'[f] \subseteq members[f]
  BY <1>3
<1> QED
  BY <1>1, <1>2, <1>3, <1>4, <1>5, <1>6, <1>7, UsersSame, OtherStep

LEMMA ProvisionInv ==
    ASSUME Inv, NEW u \in UserIds, Provision(u)
    PROVE  Inv'
<1>1. /\ users' = [users EXCEPT ![u] = "managed"] /\ users[u] \in {"unborn", "unmanaged"}
      /\ groups' = groups /\ members' = members /\ UNCHANGED <<mu, pc, job>>
  BY DEF Provision
<1>2. UsersStep
  BY <1>1 DEF UsersStep, UserStates, Inv, TypeOK
<1>3. RowsInv'
  BY <1>1, <1>2 DEF Inv, TypeOK, RowsInv, Present, UsersStep
<1>4. /\ groups' \in [GroupIds -> Names \cup {"unborn", "deleted"}]
      /\ members' \in [GroupIds -> SUBSET UserIds]
  BY <1>1 DEF Inv, TypeOK
<1> QED
  BY <1>1, <1>2, <1>3, <1>4, OtherStep

LEMMA DeleteUserInv ==
    ASSUME Inv, NEW u \in UserIds, DeleteUser(u)
    PROVE  Inv'
<1>1. /\ users' = [users EXCEPT ![u] = "deleted"] /\ users[u] = "managed"
      /\ members' = [g \in GroupIds |-> members[g] \ {u}]
      /\ groups' = groups /\ UNCHANGED <<mu, pc, job>>
  BY DEF DeleteUser
<1>2. UsersStep /\ users'[u] = "deleted" /\ \A v \in UserIds \ {u} : users'[v] = users[v]
  BY <1>1 DEF UsersStep, UserStates, Inv, TypeOK
<1>3. /\ groups' \in [GroupIds -> Names \cup {"unborn", "deleted"}]
      /\ members' \in [GroupIds -> SUBSET UserIds]
      /\ \A g \in GroupIds : members[g] \subseteq UserIds /\ members'[g] = members[g] \ {u}
  BY <1>1 DEF Inv, TypeOK
<1>4. RowsInv'
  BY <1>2, <1>3 DEF Inv, RowsInv, Present
<1>5. /\ \A g \in GroupIds : members'[g] \subseteq members[g]
      /\ \A g \in GroupIds : \A v \in members[g] : v \in members'[g] \/ users'[v] = "deleted"
  BY <1>2, <1>3
<1> QED
  BY <1>1, <1>2, <1>3, <1>4, <1>5, OtherStep

-----------------------------------------------------------------------------
LEMMA InitInv == Init => Inv
<1> SUFFICES ASSUME Init PROVE Inv
  OBVIOUS
<1>1. TypeOK
  BY NoJobType, GroupsAssumption DEF Init, TypeOK, States, Holding, Handlers
<1>2. RestInv /\ RowsInv
  BY DEF Init, RestInv, RowsInv
<1>3. \A h \in Handlers : pc[h] = "idle"
  BY DEF Init
<1> QED
  BY <1>1, <1>2, <1>3 DEF Inv, AddOK, CreatorOK, WriterOK, Handlers

(* Every step keeps the invariant. *)
LEMMA StepInv ==
    ASSUME Inv, [Next]_vars
    PROVE  Inv'
<1>1. ASSUME NEW w \in Writers, \/ Start(w) \/ PatchLookup(w) \/ PatchMembers(w) \/ Lookup(w)
                                \/ ReadMembers(w) \/ UpdateGroup(w)
      PROVE  Inv'
  BY <1>1, StartInv, PatchLookupInv, PatchMembersInv, LookupInv, ReadMembersInv, UpdateGroupInv
<1>2. ASSUME NEW c \in Creators, StartCreate(c) \/ CreateGroup(c) PROVE Inv'
  BY <1>2, StartCreateInv, CreateGroupInv
<1>3. ASSUME NEW h \in Handlers, Answer(h) \/ Cancel(h) PROVE Inv'
  BY <1>3, FinishInv DEF Answer, Cancel
<1>4. ASSUME NEW h \in Handlers, CheckMember(h) \/ Write(h) PROVE Inv'
  BY <1>3, <1>4, CheckMemberInv, RemoveGroupMemberInv, AddGroupMemberInv DEF Write
<1>5. ASSUME NEW g \in GroupIds, DeleteGroup(g) PROVE Inv'
  BY <1>5, DeleteGroupInv
<1>6. ASSUME NEW u \in UserIds, Provision(u) \/ DeleteUser(u) PROVE Inv'
  BY <1>6, ProvisionInv, DeleteUserInv
<1>7. CASE UNCHANGED vars
  <2>1. /\ groups' = groups /\ members' = members /\ users' = users /\ UNCHANGED <<mu, pc, job>>
    BY <1>7 DEF vars
  <2>2. RowsInv'
    BY <2>1 DEF Inv, RowsInv, Present
  <2>3. /\ groups' \in [GroupIds -> Names \cup {"unborn", "deleted"}]
        /\ members' \in [GroupIds -> SUBSET UserIds]
    BY <2>1 DEF Inv, TypeOK
  <2> QED
    BY <2>1, <2>2, <2>3, UsersSame, OtherStep
<1> QED
  BY <1>1, <1>2, <1>4, <1>5, <1>6, <1>7 DEF Next

(* The inductive invariant of the group handlers holds in every reachable  *)
(* state: what a request remembers between its statements still tells how  *)
(* to get from the stored rows to the list it will answer with.            *)
THEOREM Invariance == Spec => []Inv
<1>1. Inv /\ [Next]_vars => Inv'
  BY StepInv
<1> QED
  BY <1>1, InitInv, PTL DEF Spec

(* Tables and handlers keep their types, and groupResourceHandler.mu is    *)
(* held exactly by the one PUT or PATCH under way.                         *)
THEOREM TypeCorrect == Spec => []TypeOK
<1>1. Inv => TypeOK
  BY DEF Inv
<1> QED
  BY <1>1, Invariance, PTL

-----------------------------------------------------------------------------
(* Who changes the rows of a group. *)
LEMMA RowChanges ==
    ASSUME Inv, Next, NEW g \in GroupIds
    PROVE  \/ members'[g] = members[g]
           \/ \E h \in Handlers : \E u \in job[h].drop :
                /\ pc[h] = "write" /\ job[h].group = g /\ members'[g] = members[g] \ {u}
           \/ \E h \in Handlers : \E u \in job[h].add :
                /\ pc[h] = "write" /\ Present(u) /\ members'[g] = members[g] \cup {u}
           \/ groups'[g] = "deleted" /\ members'[g] = {}
           \/ \E u \in UserIds : users'[u] = "deleted" /\ members'[g] = members[g] \ {u}
<1> DEFINE P == \/ members'[g] = members[g]
                \/ \E h \in Handlers : \E u \in job[h].drop :
                     /\ pc[h] = "write" /\ job[h].group = g /\ members'[g] = members[g] \ {u}
                \/ \E h \in Handlers : \E u \in job[h].add :
                     /\ pc[h] = "write" /\ Present(u) /\ members'[g] = members[g] \cup {u}
                \/ groups'[g] = "deleted" /\ members'[g] = {}
                \/ \E u \in UserIds : users'[u] = "deleted" /\ members'[g] = members[g] \ {u}
<1>1. ASSUME NEW w \in Writers, \/ Start(w) \/ PatchLookup(w) \/ PatchMembers(w) \/ Lookup(w)
                                \/ ReadMembers(w) \/ UpdateGroup(w)
      PROVE  P
  BY <1>1 DEF Start, PatchLookup, PatchMembers, Lookup, ReadMembers, UpdateGroup
<1>2. ASSUME NEW c \in Creators, StartCreate(c) \/ CreateGroup(c) PROVE P
  BY <1>2 DEF StartCreate, CreateGroup
<1>3. ASSUME NEW h \in Handlers, CheckMember(h) \/ Answer(h) \/ Cancel(h) PROVE P
  BY <1>3 DEF CheckMember, Answer, Cancel
<1>4. ASSUME NEW h \in Handlers, RemoveGroupMember(h) PROVE P
  <2>1. PICK u \in job[h].drop : members' = [members EXCEPT ![job[h].group] = @ \ {u}]
    BY <1>4 DEF RemoveGroupMember
  <2>2. pc[h] = "write"
    BY <1>4 DEF RemoveGroupMember
  <2>3. CASE job[h].group = g
    BY <2>1, <2>2, <2>3 DEF Inv, TypeOK
  <2>4. CASE job[h].group # g
    BY <2>1, <2>4 DEF Inv, TypeOK
  <2> QED
    BY <2>3, <2>4
<1>5. ASSUME NEW h \in Handlers, AddGroupMember(h) PROVE P
  <2>1. pc[h] = "write"
    BY <1>5 DEF AddGroupMember
  <2>2. CASE members' = members
    BY <2>2
  <2>3. CASE members' # members
    <3>1. PICK u \in job[h].add :
             Present(u) /\ members' = [members EXCEPT ![job[h].group] = @ \cup {u}]
      BY <1>5, <2>3 DEF AddGroupMember
    <3>2. CASE job[h].group = g
      BY <2>1, <3>1, <3>2 DEF Inv, TypeOK
    <3>3. CASE job[h].group # g
      BY <3>1, <3>3 DEF Inv, TypeOK
    <3> QED
      BY <3>2, <3>3
  <2> QED
    BY <2>2, <2>3
<1>6. ASSUME NEW f \in GroupIds, DeleteGroup(f) PROVE P
  <2>1. CASE f = g
    BY <1>6, <2>1 DEF DeleteGroup, Inv, TypeOK
  <2>2. CASE f # g
    BY <1>6, <2>2 DEF DeleteGroup, Inv, TypeOK
  <2> QED
    BY <2>1, <2>2
<1>7. ASSUME NEW u \in UserIds, Provision(u) PROVE P
  BY <1>7 DEF Provision
<1>8. ASSUME NEW u \in UserIds, DeleteUser(u) PROVE P
  <2>1. users'[u] = "deleted" /\ members'[g] = members[g] \ {u}
    BY <1>8 DEF DeleteUser, Inv, TypeOK
  <2> QED
    BY <2>1
<1> HIDE DEF P
<1>9. P
  BY <1>1, <1>2, <1>3, <1>4, <1>5, <1>6, <1>7, <1>8 DEF Next, Write
<1> QED
  BY <1>9 DEF P

(* Only accounts SCIM manages join a group: between the check and the      *)
(* insert an account may be deleted, which the foreign key refuses, but    *)
(* not leave SCIM (checkMembers, AddGroupMember).                          *)
THEOREM OnlyManagedAccountsJoin == Spec => OnlyManagedJoin
<1>1. ASSUME Inv, Next, NEW g \in GroupIds, NEW u \in UserIds, u \in members'[g] \ members[g]
      PROVE  users[u] = "managed"
  <2>1. PICK h \in Handlers : pc[h] = "write" /\ u \in job[h].add /\ Present(u)
    BY <1>1, RowChanges
  <2>2. AddOK(h)
    BY <1>1 DEF Inv
  <2> QED
    BY <2>1, <2>2 DEF AddOK, Present
<1>2. Inv /\ [Next]_vars =>
        [\A g \in GroupIds, u \in UserIds :
           u \in members'[g] \ members[g] => users[u] = "managed"]_vars
  BY <1>1
<1> QED
  BY <1>2, Invariance, PTL DEF Spec, OnlyManagedJoin

(* Nobody leaves a group but with the user, with the group, because the    *)
(* request that holds the mutex asked for it, or because a POST inserted   *)
(* the row after that request had its list (Patch, replace,                *)
(* replaceMembers, Create).                                                *)
THEOREM RemovalsAskedOrLate == Spec => OnlyAskedOrLateRemovals
<1>1. ASSUME Inv, Next, NEW g \in GroupIds, NEW u \in UserIds, LeavesUnasked(g, u)
      PROVE  \E h \in Writers : HasRead(h, g) /\ u \in job[h].late
  <2>1. u \in members[g] \ members'[g] /\ groups'[g] # "deleted" /\ users'[u] # "deleted"
    BY <1>1 DEF LeavesUnasked
  <2>2. PICK h \in Handlers : pc[h] = "write" /\ job[h].group = g /\ u \in job[h].drop
    BY <1>1, <2>1, RowChanges
  <2>3. h \in Writers
    BY <1>1, <2>2 DEF Inv, CreatorOK, Handlers
  <2>4. ~Asked(job[h], u)
    BY <1>1, <2>2, <2>3 DEF LeavesUnasked, Asked
  <2>5. LosesOnlyAsked(job[h], job[h].drop)
    BY <1>1, <2>2, <2>3 DEF Inv, WriterOK
  <2> QED
    BY <2>2, <2>3, <2>4, <2>5 DEF LosesOnlyAsked, HasRead
<1>2. Inv /\ [Next]_vars =>
        [\A g \in GroupIds, u \in UserIds : LeavesUnasked(g, u) =>
           \E h \in Writers : HasRead(h, g) /\ u \in job[h].late]_vars
  <2> SUFFICES ASSUME Inv, [Next]_vars, ~UNCHANGED vars,
                      NEW g \in GroupIds, NEW u \in UserIds, LeavesUnasked(g, u)
               PROVE  \E h \in Writers : HasRead(h, g) /\ u \in job[h].late
    BY DEF vars
  <2> QED
    BY <1>1
<1> QED
  BY <1>2, Invariance, PTL DEF Spec, OnlyAskedOrLateRemovals

(* The members a PUT or PATCH answers with are the rows stored then, but   *)
(* for users deleted and rows a POST inserted meanwhile (replace,          *)
(* groupResource).                                                         *)
THEOREM AnswersAreStored == Spec => AnswerIsStored
<1>1. ASSUME Inv, NEW w \in Writers, Answer(w), Live(job[w].group)
      PROVE  LET answered == {u \in job[w].next : users[u] # "deleted"} IN
             /\ answered \subseteq members[job[w].group]
             /\ members[job[w].group] \subseteq answered \cup job[w].late
  <2>1. pc[w] = "write" /\ job[w].drop = {} /\ job[w].add = {}
    BY <1>1 DEF Answer
  <2>2. job[w].group \in GroupIds /\ DifferenceOK(job[w])
    BY <1>1, <2>1 DEF Inv, WriterOK
  <2>3. \A u \in members[job[w].group] : users[u] # "deleted"
    BY <1>1, <2>2 DEF Inv, RowsInv, Present
  <2> QED
    BY <1>1, <2>1, <2>2, <2>3 DEF DifferenceOK
<1>2. Inv /\ [Next]_vars =>
        [\A w \in Writers : Answer(w) /\ Live(job[w].group) =>
           LET answered == {u \in job[w].next : users[u] # "deleted"} IN
           /\ answered \subseteq members[job[w].group]
           /\ members[job[w].group] \subseteq answered \cup job[w].late]_vars
  BY <1>1
<1> QED
  BY <1>2, Invariance, PTL DEF Spec, AnswerIsStored

(* A group gets only a name that a request sent: the name a members PATCH  *)
(* writes back is still the stored one, for renames take the mutex (Patch, *)
(* replace, UpdateGroup).                                                  *)
THEOREM RenamesSurvive == Spec => RenameSurvives
<1>1. ASSUME Inv, Next, NEW g \in GroupIds, Live(g), groups'[g] \in Names \ {groups[g]}
      PROVE  \E h \in Handlers : /\ pc[h] = "check" /\ pc'[h] = "write"
                                 /\ job[h].group = g /\ job[h].sent = groups'[g]
  <2> DEFINE P == \E h \in Handlers : /\ pc[h] = "check" /\ pc'[h] = "write"
                                      /\ job[h].group = g /\ job[h].sent = groups'[g]
  <2>1. ASSUME NEW w \in Writers, \/ Start(w) \/ PatchLookup(w) \/ PatchMembers(w) \/ Lookup(w)
                                  \/ ReadMembers(w)
        PROVE  groups' = groups
    BY <2>1 DEF Start, PatchLookup, PatchMembers, Lookup, ReadMembers
  <2>2. ASSUME NEW w \in Writers, UpdateGroup(w) PROVE P
    <3>1. /\ pc[w] = "check" /\ w \in Handlers
          /\ groups' = [groups EXCEPT ![job[w].group] = job[w].name] /\ Goto(w, "write")
      BY <1>1, <2>2 DEF UpdateGroup, Handlers
    <3>2. job[w].group = g /\ groups'[g] = job[w].name
      BY <1>1, <3>1 DEF Inv, TypeOK
    <3>3. pc'[w] = "write"
      BY <1>1, <3>1 DEF Goto, Inv, TypeOK
    <3>4. job[w].name = job[w].sent \/ job[w].name = groups[g]
      BY <1>1, <3>1, <3>2 DEF Inv, WriterOK
    <3> QED
      BY <1>1, <3>1, <3>2, <3>3, <3>4
  <2>3. ASSUME NEW c \in Creators, CreateGroup(c) PROVE groups'[g] = groups[g]
    <3>1. pc[c] = "check" /\ (groups' = groups \/ groups' = [groups EXCEPT ![job[c].group] = job[c].name])
      BY <2>3 DEF CreateGroup
    <3>2. groups[job[c].group] = "unborn"
      BY <1>1, <3>1 DEF Inv, CreatorOK
    <3>3. job[c].group # g
      BY <1>1, <3>2, GroupsAssumption DEF Live
    <3> QED
      BY <1>1, <3>1, <3>3 DEF Inv, TypeOK
  <2>4. ASSUME NEW f \in GroupIds, DeleteGroup(f) PROVE groups'[g] \notin Names \ {groups[g]}
    BY <1>1, <2>4, GroupsAssumption DEF DeleteGroup, Inv, TypeOK
  <2>5. ASSUME NEW c \in Creators, StartCreate(c) PROVE groups' = groups
    BY <2>5 DEF StartCreate
  <2>6. ASSUME NEW h \in Handlers, CheckMember(h) \/ Write(h) PROVE groups' = groups
    BY <2>6 DEF CheckMember, Write, RemoveGroupMember, AddGroupMember, Answer, Cancel
  <2>7. ASSUME NEW u \in UserIds, Provision(u) \/ DeleteUser(u) PROVE groups' = groups
    BY <2>7 DEF Provision, DeleteUser
  <2> HIDE DEF P
  <2>8. P
    BY <1>1, <2>1, <2>2, <2>3, <2>4, <2>5, <2>6, <2>7 DEF Next
  <2> QED
    BY <2>8 DEF P
<1>2. Inv /\ [Next]_vars =>
        [\A g \in GroupIds :
           Live(g) /\ groups'[g] \in Names \ {groups[g]} =>
              \E h \in Handlers : /\ pc[h] = "check" /\ pc'[h] = "write"
                                  /\ job[h].group = g /\ job[h].sent = groups'[g]]_vars
  BY <1>1
<1> QED
  BY <1>2, Invariance, PTL DEF Spec, RenameSurvives

=============================================================================

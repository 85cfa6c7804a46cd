----------------------------- MODULE ScimGroups -----------------------------
(***************************************************************************)
(* SCIM groups.  A PUT or a PATCH reads the group and its members, checks  *)
(* the members it is about to add, renames the group and then writes the   *)
(* difference one row at a time, all under one mutex; POST writes its      *)
(* members without the mutex, and deleting a user or a group does not take *)
(* it either.  One action is one statement.                                *)
(***************************************************************************)
CONSTANTS UserIds, GroupIds, Names,
          Writers,    \* PUT and PATCH requests
          Creators,   \* POST requests
          NoName,     \* no displayName in the request
          NoGroup,    \* a handler at rest
          NoWriter    \* nobody holds the mutex

ASSUME GroupsAssumption ==
    /\ NoGroup \notin GroupIds /\ Writers \cap Creators = {}
    /\ NoWriter \notin Writers
    /\ {NoName, "unborn", "deleted"} \cap Names = {}

VARIABLES users,      \* what the users table knows of an id
          groups,     \* display name of each group
          members,    \* rows of group_members, by group
          mu,         \* groupResourceHandler.mu
          pc, job     \* request handlers

vars == <<users, groups, members, mu, pc, job>>

-----------------------------------------------------------------------------
Handlers == Writers \cup Creators

(* An id is drawn at random, so a deleted one never comes back; an account *)
(* of this server that SCIM does not manage is "unmanaged".                *)
UserStates == {"unborn", "unmanaged", "managed", "deleted"}

(* What a request asks, and what its handler has read and still has to do. *)
Job == [group : GroupIds \cup {NoGroup},
        sent : Names \cup {NoName}, op : {"none", "add", "remove", "clear", "replace"},
        arg : SUBSET UserIds,
        name : Names \cup {NoName}, next : SUBSET UserIds,
        check : SUBSET UserIds, drop : SUBSET UserIds, add : SUBSET UserIds,
        late : SUBSET UserIds]    \* history: rows a POST inserted after the list was read

States == {"idle", "patch", "patchMembers", "lookup", "members", "check", "write"}

Live(g) == groups[g] \in Names
Present(u) == users[u] \in {"unmanaged", "managed"}
NameFree(g, name) == \A h \in GroupIds \ {g} : groups[h] # name

(* memberValues and the members part of Patch's apply: a PUT replaces the  *)
(* list, a remove without a value empties it.                              *)
apply(op, arg, ms) ==
    [none |-> ms, add |-> ms \cup arg, remove |-> ms \ arg, clear |-> {}, replace |-> arg][op]

NoJob == [group |-> NoGroup, sent |-> NoName,
          op |-> "none", arg |-> {}, name |-> NoName, next |-> {},
          check |-> {}, drop |-> {}, add |-> {}, late |-> {}]

(* Older servers let any account into a group. *)
Init ==
    /\ users \in [UserIds -> UserStates \ {"deleted"}]
    /\ groups \in [GroupIds -> Names \cup {"unborn"}]
    /\ \A g \in GroupIds : Live(g) => NameFree(g, groups[g])
    /\ members \in [GroupIds -> SUBSET UserIds]
    /\ \A g \in GroupIds : /\ members[g] # {} => Live(g)
                           /\ \A u \in members[g] : Present(u)
    /\ mu = NoWriter
    /\ pc = [h \in Handlers |-> "idle"]
    /\ job = [h \in Handlers |-> NoJob]

-----------------------------------------------------------------------------
Goto(h, s) == pc' = [pc EXCEPT ![h] = s]

(* A handler answers: its deferred Unlock runs.  The next request, which   *)
(* may repeat this one, finds nothing of it.                               *)
Finish(h) ==
    /\ Goto(h, "idle")
    /\ job' = [job EXCEPT ![h] = NoJob]
    /\ mu' = IF mu = h THEN NoWriter ELSE mu

-----------------------------------------------------------------------------
(***************************************************************************)
(* PUT and PATCH                                                           *)
(***************************************************************************)

(* Replace and Patch lock the mutex.  A client names a group it has seen.  *)
(* The operations of a PATCH are taken together as one on the name and one *)
(* on the members.                                                         *)
Start(w) ==
    /\ pc[w] = "idle" /\ mu = NoWriter
    /\ mu' = w
    /\ \E verb \in {"put", "patch"}, g \in GroupIds, name \in Names \cup {NoName},
          op \in {"none", "add", "remove", "clear", "replace"}, arg \in SUBSET UserIds :
         /\ verb = "put" => op = "replace"
         /\ op \in {"none", "clear"} => arg = {}
         /\ groups[g] # "unborn"
         /\ job' = [job EXCEPT ![w] = [@ EXCEPT
                      !.group = g, !.sent = name, !.op = op, !.arg = arg,
                      !.name = name, !.next = arg]]
         /\ Goto(w, IF verb = "put" THEN "lookup" ELSE "patch")
    /\ UNCHANGED <<users, groups, members>>

(* Patch's GetGroupByID, first statement. *)
PatchLookup(w) ==
    LET g == job[w].group IN
    /\ pc[w] = "patch"
    /\ IF Live(g)
       THEN /\ job' = [job EXCEPT ![w].name = IF @ = NoName THEN groups[g] ELSE @]
            /\ Goto(w, "patchMembers") /\ UNCHANGED mu
       ELSE Finish(w)
    /\ UNCHANGED <<users, groups, members>>

(* Its getMembers, and the operations applied to a copy; a path that is    *)
(* not understood is refused.                                              *)
PatchMembers(w) ==
    /\ pc[w] = "patchMembers"
    /\ \/ /\ job' = [job EXCEPT ![w].next = apply(job[w].op, job[w].arg, members[job[w].group])]
          /\ Goto(w, "lookup") /\ UNCHANGED mu
       \/ Finish(w)
    /\ UNCHANGED <<users, groups, members>>

(* replace reads the group (for a PATCH, a second time); a name that was   *)
(* not sent is the one read.                                               *)
Lookup(w) ==
    LET g == job[w].group IN
    /\ pc[w] = "lookup"
    /\ IF Live(g)
       THEN /\ job' = [job EXCEPT ![w].name = IF @ = NoName THEN groups[g] ELSE @]
            /\ Goto(w, "members") /\ UNCHANGED mu
       ELSE Finish(w)
    /\ UNCHANGED <<users, groups, members>>

(* Faulty variant: every row is deleted, then the list inserted. *)
ReadMembers_DropsAll(w) ==
    LET old == members[job[w].group]
        next == job[w].next
    IN
    /\ pc[w] = "members"
    /\ job' = [job EXCEPT ![w] = [@ EXCEPT !.check = next \ old,
                                           !.add = next, !.drop = old]]
    /\ Goto(w, "check")
    /\ UNCHANGED <<users, groups, members, mu>>

(* Faulty variant: members are inserted and never deleted. *)
ReadMembers_NeverDrops(w) ==
    LET old == members[job[w].group]
        next == job[w].next
    IN
    /\ pc[w] = "members"
    /\ job' = [job EXCEPT ![w] = [@ EXCEPT !.check = next \ old,
                                           !.add = next \ old]]
    /\ Goto(w, "check")
    /\ UNCHANGED <<users, groups, members, mu>>

(* Faulty variant: the mutex is held for the reads only. *)
ReadMembers_Unlocks(w) ==
    LET old == members[job[w].group]
        next == job[w].next
    IN
    /\ pc[w] = "members"
    /\ job' = [job EXCEPT ![w] = [@ EXCEPT !.check = next \ old,
                                           !.add = next \ old, !.drop = old \ next]]
    /\ Goto(w, "check")
    /\ mu' = NoWriter
    /\ UNCHANGED <<users, groups, members>>

(* replace's getMembers, and the difference checkMembers and               *)
(* replaceMembers work on.                                                 *)
ReadMembers(w) ==
    LET old == members[job[w].group]
        next == job[w].next
    IN
    /\ pc[w] = "members"
    /\ job' = [job EXCEPT ![w] = [@ EXCEPT !.check = next \ old,
                                           !.add = next \ old, !.drop = old \ next]]
    /\ Goto(w, "check")
    /\ UNCHANGED <<users, groups, members, mu>>

(* Faulty variant: any account of the server will do. *)
CheckMember_AnyAccount(h) ==
    /\ pc[h] = "check"
    /\ \E u \in job[h].check :
         IF Present(u)
         THEN job' = [job EXCEPT ![h].check = @ \ {u}] /\ UNCHANGED <<pc, mu>>
         ELSE Finish(h)
    /\ UNCHANGED <<users, groups, members>>

(* checkMembers, one GetUserByID. *)
CheckMember(h) ==
    /\ pc[h] = "check"
    /\ \E u \in job[h].check :
         IF users[u] = "managed"
         THEN job' = [job EXCEPT ![h].check = @ \ {u}] /\ UNCHANGED <<pc, mu>>
         ELSE Finish(h)
    /\ UNCHANGED <<users, groups, members>>

(* UpdateGroup: not found once deleted, 409 on a name another group has. *)
UpdateGroup(w) ==
    LET g == job[w].group IN
    /\ pc[w] = "check" /\ job[w].check = {} /\ w \in Writers
    /\ IF Live(g) /\ NameFree(g, job[w].name)
       THEN /\ groups' = [groups EXCEPT ![g] = job[w].name]
            /\ Goto(w, "write") /\ UNCHANGED <<mu, job>>
       ELSE Finish(w) /\ UNCHANGED groups
    /\ UNCHANGED <<users, members>>

(* replaceMembers: first the rows to delete, then the rows to insert. *)
RemoveGroupMember(h) ==
    /\ pc[h] = "write"
    /\ \E u \in job[h].drop :
         /\ members' = [members EXCEPT ![job[h].group] = @ \ {u}]
         /\ job' = [job EXCEPT ![h].drop = @ \ {u}]
    /\ UNCHANGED <<users, groups, mu, pc>>

(* A PUT or PATCH of g that works on the list it read or was sent. *)
HasRead(w, g) ==
    /\ w \in Writers /\ job[w].group = g
    /\ pc[w] \in {"lookup", "members", "check", "write"}

(* The foreign keys refuse a user or a group that is no longer there. *)
AddGroupMember(h) ==
    LET g == job[h].group IN
    /\ pc[h] = "write" /\ job[h].drop = {}
    /\ \E u \in job[h].add :
         IF Live(g) /\ Present(u)
         THEN /\ members' = [members EXCEPT ![g] = @ \cup {u}]
              /\ job' = [k \in Handlers |->
                           IF k = h THEN [job[k] EXCEPT !.add = @ \ {u}]
                           ELSE IF h \in Creators /\ HasRead(k, g)
                           THEN [job[k] EXCEPT !.late = @ \cup {u}] ELSE job[k]]
              /\ UNCHANGED <<mu, pc>>
         ELSE Finish(h) /\ UNCHANGED members
    /\ UNCHANGED <<users, groups>>

Answer(h) ==
    /\ pc[h] = "write" /\ job[h].drop = {} /\ job[h].add = {}
    /\ Finish(h)
    /\ UNCHANGED <<users, groups, members>>

(* Faulty variant: the mutex is unlocked on the normal return only. *)
Cancel_KeepsMutex(h) ==
    /\ pc[h] # "idle"
    /\ Goto(h, "idle")
    /\ job' = [job EXCEPT ![h] = NoJob]
    /\ UNCHANGED <<users, groups, members, mu>>

(* The client goes away, or the server with it: the request's context is   *)
(* cancelled and its next statement fails.                                 *)
Cancel(h) ==
    /\ pc[h] # "idle"
    /\ Finish(h)
    /\ UNCHANGED <<users, groups, members>>

(***************************************************************************)
(* POST                                                                    *)
(***************************************************************************)

(* Create draws a fresh id and checks every member, without the mutex. *)
StartCreate(c) ==
    /\ pc[c] = "idle"
    /\ \E g \in GroupIds, name \in Names, arg \in SUBSET UserIds :
         /\ groups[g] = "unborn"
         /\ \A k \in Creators : pc[k] # "idle" => job[k].group # g
         /\ job' = [job EXCEPT ![c] = [@ EXCEPT
                      !.group = g, !.sent = name, !.name = name,
                      !.op = "add", !.arg = arg, !.next = arg, !.check = arg, !.add = arg]]
    /\ Goto(c, "check")
    /\ UNCHANGED <<users, groups, members, mu>>

CreateGroup(c) ==
    LET g == job[c].group IN
    /\ pc[c] = "check" /\ job[c].check = {} /\ c \in Creators
    /\ IF NameFree(g, job[c].name)
       THEN /\ groups' = [groups EXCEPT ![g] = job[c].name]
            /\ Goto(c, "write") /\ UNCHANGED <<mu, job>>
       ELSE Finish(c) /\ UNCHANGED groups
    /\ UNCHANGED <<users, members>>

(***************************************************************************)
(* Everything else that touches these tables                               *)
(***************************************************************************)

(* ON DELETE CASCADE takes the group's rows with it. *)
DeleteGroup(g) ==
    /\ Live(g)
    /\ groups' = [groups EXCEPT ![g] = "deleted"]
    /\ members' = [members EXCEPT ![g] = {}]
    /\ UNCHANGED <<users, mu, pc, job>>

(* SCIM creates an account or takes one over, and deletes one it manages. *)
Provision(u) ==
    /\ users[u] \in {"unborn", "unmanaged"}
    /\ users' = [users EXCEPT ![u] = "managed"]
    /\ UNCHANGED <<groups, members, mu, pc, job>>

DeleteUser(u) ==
    /\ users[u] = "managed"
    /\ users' = [users EXCEPT ![u] = "deleted"]
    /\ members' = [g \in GroupIds |-> members[g] \ {u}]
    /\ UNCHANGED <<groups, mu, pc, job>>

-----------------------------------------------------------------------------
Write(h) == RemoveGroupMember(h) \/ AddGroupMember(h) \/ Answer(h) \/ Cancel(h)

Next ==
    \/ \E w \in Writers : \/ Start(w) \/ PatchLookup(w) \/ PatchMembers(w) \/ Lookup(w)
                          \/ ReadMembers(w) \/ UpdateGroup(w)
    \/ \E c \in Creators : StartCreate(c) \/ CreateGroup(c)
    \/ \E h \in Handlers : CheckMember(h) \/ Write(h)
    \/ \E g \in GroupIds : DeleteGroup(g)
    \/ \E u \in UserIds : Provision(u) \/ DeleteUser(u)

Spec == Init /\ [][Next]_vars

-----------------------------------------------------------------------------
(***************************************************************************)
(* Properties                                                              *)
(***************************************************************************)

Holding == {w \in Writers : pc[w] # "idle"}

(* Tables and handlers keep their types, and the mutex is held exactly by  *)
(* the PUT or PATCH under way.                                             *)
TypeOK ==
    /\ users \in [UserIds -> UserStates]
    /\ groups \in [GroupIds -> Names \cup {"unborn", "deleted"}]
    /\ members \in [GroupIds -> SUBSET UserIds]
    /\ mu \in Writers \cup {NoWriter}
    /\ pc \in [Handlers -> States] /\ job \in [Handlers -> Job]
    /\ Holding = {mu} \ {NoWriter}

LeavesUnasked(g, u) ==
    /\ u \in members[g] \ members'[g]
    /\ groups'[g] # "deleted" /\ users'[u] # "deleted"
    /\ \A h \in Writers : pc[h] = "write" /\ job[h].group = g =>
                            u \in apply(job[h].op, job[h].arg, {u})

(* "groupResourceHandler serializes membership writes in this process      *)
(* (mu)": nobody leaves a group but with the user, with the group, or      *)
(* because the request that deletes the row asked for it, although a PATCH *)
(* computes the new list from a read and its replace compares with a       *)
(* second one (Patch, replace, replaceMembers).                            *)
OnlyAskedRemovals ==
    [][\A g \in GroupIds, u \in UserIds : ~LeavesUnasked(g, u)]_vars

(* The same, but for what POST may lose by not taking the mutex: a row it  *)
(* inserts after a PATCH of its group read the list, and nothing else.     *)
OnlyAskedOrLateRemovals ==
    [][\A g \in GroupIds, u \in UserIds : LeavesUnasked(g, u) =>
         \E h \in Writers : HasRead(h, g) /\ u \in job[h].late]_vars

(* The members a PUT or PATCH answers with are the members stored when it  *)
(* answers, but for users deleted and rows a POST inserted meanwhile,      *)
(* whatever failed or was cancelled before (replace, groupResource).       *)
AnswerIsStored ==
    [][\A w \in Writers : Answer(w) /\ Live(job[w].group) =>
         LET answered == {u \in job[w].next : users[u] # "deleted"} IN
         /\ answered \subseteq members[job[w].group]
         /\ members[job[w].group] \subseteq answered \cup job[w].late]_vars

(* A group's name changes only by a request that sent that name: a PATCH   *)
(* of the members, which writes back the name it read, cannot undo a       *)
(* rename (Patch, stringValue, UpdateGroup).                               *)
RenameSurvives ==
    [][\A g \in GroupIds :
         Live(g) /\ groups'[g] \in Names \ {groups[g]} =>
            \E h \in Handlers : /\ pc[h] = "check" /\ pc'[h] = "write"
                                /\ job[h].group = g /\ job[h].sent = groups'[g]]_vars

(* Only accounts SCIM manages join a group, although the check precedes    *)
(* the insert and members read before are not checked again                *)
(* (checkMembers, AddGroupMember).                                         *)
OnlyManagedJoin ==
    [][\A g \in GroupIds, u \in UserIds :
         u \in members'[g] \ members[g] => users[u] = "managed"]_vars

=============================================================================

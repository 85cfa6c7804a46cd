--------------------------- MODULE StartupProofs ----------------------------
(***************************************************************************)
(* Proofs about Startup for any number of versions, processes, accounts    *)
(* and crashes.                                                            *)
(***************************************************************************)
EXTENDS Startup, TLAPS

(* The records say what has taken effect: the first versions, in order. *)
Prefix == \E k \in 0 .. LastVersion : schema = UpTo(k) /\ recorded = 1 .. k

(* Where a process stands in the loop of Run. *)
LoopInv ==
    \A p \in Procs :
        /\ 1 .. ver[p] - 1 \subseteq recorded
        /\ pc[p] \in {"ddl", "record", "commit"} => ver[p] <= LastVersion
        /\ pc[p] \in {"clash", "index", "opened", "bootstrap", "serving"} => ver[p] = LastVersion + 1

(* Whoever is about to commit a version is the only one, and it is new. *)
CommitInv ==
    \A p \in Procs : pc[p] = "commit" =>
        /\ ver[p] \notin recorded
        /\ \A q \in Procs \ {p} : ~(pc[q] = "commit" /\ ver[q] = ver[p])

(* After a restore that ended well only an administrator turns deposits on. *)
QuietInv == rpc = "done" /\ interval # "off" => enabled

Inv == TypeOK /\ Prefix /\ LoopInv /\ CommitInv /\ QuietInv /\ IndexNeverRefused

-----------------------------------------------------------------------------
(* UpTo(k) counts to k, and one version more makes it UpTo(k + 1). *)
LEMMA UpToFacts ==
    ASSUME NEW k \in Nat
    PROVE  /\ UpTo(k) \in Seq(Nat) /\ Len(UpTo(k)) = k
           /\ UpTo(k) \in Seq(1 .. k)
           /\ Append(UpTo(k), k + 1) = UpTo(k + 1)
<1>1. UpTo(k) \in [1 .. k -> 1 .. k]
  BY DEF UpTo
<1>2. UpTo(k) \in Seq(1 .. k) /\ UpTo(k) \in Seq(Nat) /\ Len(UpTo(k)) = k
  BY <1>1
<1>3. Append(UpTo(k), k + 1) = UpTo(k + 1)
  BY <1>2 DEF UpTo
<1> QED
  BY <1>2, <1>3

(* The versions up to k are among those up to n. *)
LEMMA UpToWithin ==
    ASSUME NEW k \in Nat, NEW n \in Nat, k <= n
    PROVE  UpTo(k) \in Seq(1 .. n) /\ 1 .. k \subseteq 1 .. n
<1>1. UpTo(k) \in [1 .. k -> 1 .. n]
  BY DEF UpTo
<1> QED
  BY <1>1

(* Different lengths are different schemas. *)
LEMMA UpToInjective ==
    ASSUME NEW j \in Nat, NEW k \in Nat, UpTo(j) = UpTo(k)
    PROVE  j = k
  BY UpToFacts

-----------------------------------------------------------------------------
(* The initial states have their types. *)
LEMMA InitType == Init => TypeOK
<1> SUFFICES ASSUME Init PROVE TypeOK
  OBVIOUS
<1> USE StartupAssumption
<1>1. PICK k \in 0 .. LastVersion :
         /\ schema = UpTo(k) /\ recorded = 1 .. k
         /\ users \in [Ids -> IF k = 0 THEN {NoUser} ELSE Names \cup {NoUser}]
         /\ index \in IF k > 0 /\ Clashes = {} THEN BOOLEAN ELSE {FALSE}
  BY DEF Init
<1>2. schema \in Seq(1 .. LastVersion) /\ recorded \subseteq 1 .. LastVersion
  BY <1>1, UpToWithin
<1>3. users \in [Ids -> Names \cup {NoUser}] /\ index \in BOOLEAN
  BY <1>1
<1>4. pc \in [Procs -> States] /\ ver \in [Procs -> 1 .. LastVersion + 1]
  BY DEF Init, States
<1>5. faults \in 0 .. MaxFaults /\ interval \in {"default", "on", "off"}
  BY DEF Init
<1>6. rpc = "idle" /\ enabled \in BOOLEAN /\ newest = "original"
  BY DEF Init
<1> QED
  BY <1>2, <1>3, <1>4, <1>5, <1>6 DEF TypeOK

(* A restored database has the types of an installation's. *)
LEMMA OlderType ==
    ASSUME NEW k \in 1 .. LastVersion, NEW us \in [Ids -> Names \cup {NoUser}],
           NEW ix \in BOOLEAN, Older(k, us, ix)
    PROVE  /\ schema' \in Seq(1 .. LastVersion) /\ recorded' \subseteq 1 .. LastVersion
           /\ users' \in [Ids -> Names \cup {NoUser}] /\ index' \in BOOLEAN
<1>1. UpTo(k) \in Seq(1 .. LastVersion) /\ 1 .. k \subseteq 1 .. LastVersion
  BY StartupAssumption, UpToWithin
<1> QED
  BY <1>1 DEF Older

(* A step that leaves a process at some control state keeps the types of   *)
(* the control state.                                                      *)
LEMMA ControlType ==
    ASSUME TypeOK, NEW p \in Procs, NEW s \in States, Goto(p, s),
           ver' = ver \/ ver' = [ver EXCEPT ![p] = 1]
    PROVE  pc' \in [Procs -> States] /\ ver' \in [Procs -> 1 .. LastVersion + 1]
  BY StartupAssumption DEF TypeOK, Goto

(* Every step of a process keeps the types; a version looked up is one of  *)
(* registry's, or the loop is over.                                        *)
LEMMA ProcessType ==
    ASSUME TypeOK, LoopInv, NEW p \in Procs, Start(p) \/ Step(p) \/ Crash(p)
    PROVE  TypeOK'
<1> USE StartupAssumption
<1>1. ASSUME NEW s \in States, Goto(p, s), ver' = ver \/ ver' = [ver EXCEPT ![p] = 1],
             schema' = schema, recorded' = recorded, users' \in [Ids -> Names \cup {NoUser}],
             index' \in BOOLEAN, UNCHANGED backups, faults' \in 0 .. MaxFaults
      PROVE  TypeOK'
  BY <1>1, ControlType DEF TypeOK, backups
<1>2. CASE Start(p)
  BY <1>1, <1>2 DEF Start, TypeOK, tables, States
<1>3. CASE Check(p)
  <2>1. CASE ver[p] > LastVersion \/ ver[p] \notin recorded
    BY <1>1, <1>3, <2>1 DEF Check, TypeOK, tables, States
  <2>2. CASE ver[p] <= LastVersion /\ ver[p] \in recorded
    BY <1>3, <2>2 DEF Check, TypeOK, tables, backups
  <2> QED
    BY <2>1, <2>2 DEF TypeOK
<1>4. CASE ExecDDL(p)
  BY <1>1, <1>4 DEF ExecDDL, Exit, TypeOK, tables, States
<1>5. CASE Record(p)
  BY <1>1, <1>5 DEF Record, Exit, TypeOK, tables, States
<1>6. CASE Commit(p)
  <2>1. ver[p] \in 1 .. LastVersion
    BY <1>6 DEF Commit, LoopInv, TypeOK
  <2>2. schema' \in Seq(1 .. LastVersion) /\ recorded' \subseteq 1 .. LastVersion
    <3>1. schema \in Seq(1 .. LastVersion) /\ recorded \subseteq 1 .. LastVersion
      BY DEF TypeOK
    <3>2. Append(schema, ver[p]) \in Seq(1 .. LastVersion)
      BY <2>1, <3>1
    <3> QED
      BY <1>6, <2>1, <3>1, <3>2 DEF Commit
  <2>3. pc' \in [Procs -> States] /\ ver' \in [Procs -> 1 .. LastVersion + 1]
    BY <1>6, <2>1 DEF Commit, Goto, TypeOK, States
  <2> QED
    BY <1>6, <2>2, <2>3 DEF Commit, TypeOK, backups
<1>7. CASE FindClashes(p)
  BY <1>1, <1>7 DEF FindClashes, TypeOK, tables, States
<1>8. CASE CreateIndex(p)
  BY <1>1, <1>8 DEF CreateIndex, Exit, TypeOK, States
<1>9. CASE CountUsers(p)
  BY <1>1, <1>9 DEF CountUsers, TypeOK, tables, States
<1>10. CASE Bootstrap(p)
  BY <1>1, <1>10 DEF Bootstrap, Insert, Exit, TypeOK, States
<1>11. CASE RunTool(p)
  BY <1>1, <1>11 DEF RunTool, Insert, Exit, TypeOK, States
<1>12. CASE Crash(p)
  BY <1>1, <1>12 DEF Crash, Exit, TypeOK, tables, States
<1> QED
  BY <1>2, <1>3, <1>4, <1>5, <1>6, <1>7, <1>8, <1>9, <1>10, <1>11, <1>12 DEF Step, OpenStore

(* So does everything else. *)
LEMMA StepType == TypeOK /\ LoopInv /\ [Next]_vars => TypeOK'
<1> SUFFICES ASSUME TypeOK, LoopInv, [Next]_vars PROVE TypeOK'
  OBVIOUS
<1> USE StartupAssumption
<1>1. ASSUME NEW p \in Procs, Start(p) \/ Step(p) \/ Crash(p) PROVE TypeOK'
  BY <1>1, ProcessType
<1>2. ASSUME NEW s \in Servers, Provision(s) PROVE TypeOK'
  BY <1>2 DEF Provision, Insert, TypeOK, backups
<1>3. ASSUME NEW s \in Servers, ScheduledDeposit(s) PROVE TypeOK'
  BY <1>3 DEF ScheduledDeposit, TypeOK, tables
<1>4. ASSUME NEW s \in Servers, NEW value \in {"on", "off"}, SetSchedule(s, value) PROVE TypeOK'
  <2>1. enabled' \in BOOLEAN /\ interval' \in {"default", "on", "off"}
    BY <1>4 DEF SetSchedule, TypeOK
  <2> QED
    BY <1>4, <2>1 DEF SetSchedule, TypeOK, tables
<1>5. ASSUME NEW i \in Ids, ResolveClash(i) PROVE TypeOK'
  BY <1>5 DEF ResolveClash, TypeOK, backups
<1>6. CASE RestoreFiles
  BY <1>6, OlderType DEF RestoreFiles, TypeOK
<1>7. CASE DisableDeposits \/ DisableByHand \/ RestoreDies
  <2>1. /\ interval' \in {"default", "on", "off"}
        /\ rpc' \in {"idle", "files", "done", "failed", "dead"}
        /\ faults' \in 0 .. MaxFaults
    BY <1>7 DEF DisableDeposits, DisableByHand, RestoreDies, TypeOK
  <2>2. UNCHANGED <<tables, enabled, newest, pc, ver>>
    BY <1>7 DEF DisableDeposits, DisableByHand, RestoreDies
  <2> QED
    BY <2>1, <2>2 DEF TypeOK, tables
<1>8. CASE OriginalDeposits
  BY <1>8 DEF OriginalDeposits, TypeOK, tables
<1>9. CASE UNCHANGED vars
  BY <1>9 DEF vars, tables, backups, TypeOK
<1> QED
  BY <1>1, <1>2, <1>3, <1>4, <1>5, <1>6, <1>7, <1>8, <1>9 DEF Next, Restore

-----------------------------------------------------------------------------
(* A process moves on while the database keeps its versions: what has to   *)
(* hold where it goes.                                                     *)
LEMMA MoveLoop ==
    ASSUME TypeOK, Prefix, LoopInv, CommitInv, UNCHANGED <<schema, recorded>>,
           NEW p \in Procs, NEW s \in States, NEW v \in 1 .. LastVersion + 1, Goto(p, s),
           \A q \in Procs : ver'[q] = IF q = p THEN v ELSE ver[q],
           1 .. v - 1 \subseteq recorded,
           s \in {"ddl", "record", "commit"} => v <= LastVersion,
           s \in {"clash", "index", "opened", "bootstrap", "serving"} => v = LastVersion + 1,
           s = "commit" => /\ v \notin recorded
                           /\ \A q \in Procs \ {p} : ~(pc[q] = "commit" /\ ver[q] = v)
    PROVE  Prefix' /\ LoopInv' /\ CommitInv'
<1>1. \A q \in Procs : pc'[q] = IF q = p THEN s ELSE pc[q]
  BY DEF Goto, TypeOK
<1>2. Prefix'
  BY DEF Prefix
<1>3. LoopInv'
  BY <1>1 DEF LoopInv
<1>4. CommitInv'
  BY <1>1 DEF CommitInv
<1> QED
  BY <1>2, <1>3, <1>4

(* Whoever may commit has the version that comes next. *)
LEMMA CommitNext ==
    ASSUME TypeOK, LoopInv, CommitInv, NEW p \in Procs, pc[p] = "commit",
           NEW k \in 0 .. LastVersion, recorded = 1 .. k
    PROVE  ver[p] = k + 1 /\ k + 1 <= LastVersion
<1>1. ver[p] \in 1 .. LastVersion /\ ver[p] \notin 1 .. k /\ 1 .. ver[p] - 1 \subseteq 1 .. k
  BY StartupAssumption DEF TypeOK, LoopInv, CommitInv
<1>2. ver[p] > k
  BY <1>1, StartupAssumption
<1>3. CASE ver[p] - 1 > k
  <2>1. k + 1 \in 1 .. ver[p] - 1
    BY <1>1, <1>3, StartupAssumption
  <2> QED
    BY <1>1, <2>1, StartupAssumption
<1> QED
  BY <1>1, <1>2, <1>3, StartupAssumption

(* A commit adds the next version, and nobody else was about to. *)
LEMMA CommitLoop ==
    ASSUME TypeOK, Prefix, LoopInv, CommitInv, NEW p \in Procs, Commit(p)
    PROVE  Prefix' /\ LoopInv' /\ CommitInv'
<1> USE StartupAssumption
<1>1. PICK k \in 0 .. LastVersion : schema = UpTo(k) /\ recorded = 1 .. k
  BY DEF Prefix
<1>2. pc[p] = "commit" /\ ver[p] = k + 1 /\ k + 1 \in 0 .. LastVersion
  BY <1>1, CommitNext DEF Commit
<1>3. schema' = UpTo(k + 1) /\ recorded' = 1 .. k + 1
  <2>1. schema' = Append(UpTo(k), k + 1) /\ recorded' = (1 .. k) \cup {k + 1}
    BY <1>1, <1>2 DEF Commit
  <2>2. Append(UpTo(k), k + 1) = UpTo(k + 1)
    <3>1. k \in Nat
      OBVIOUS
    <3> QED
      BY <3>1, UpToFacts, Zenon
  <2>3. (1 .. k) \cup {k + 1} = 1 .. k + 1
    OBVIOUS
  <2> QED
    BY <2>1, <2>2, <2>3
<1>4. Prefix'
  BY <1>2, <1>3 DEF Prefix
<1>5. /\ \A q \in Procs : pc'[q] = IF q = p THEN "check" ELSE pc[q]
      /\ \A q \in Procs : ver'[q] = IF q = p THEN k + 2 ELSE ver[q]
  <2>1. pc' = [pc EXCEPT ![p] = "check"] /\ ver' = [ver EXCEPT ![p] = ver[p] + 1]
    BY DEF Commit, Goto
  <2>2. ver[p] + 1 = k + 2
    BY <1>2
  <2> QED
    BY <2>1, <2>2 DEF TypeOK
<1>6. LoopInv'
  <2>1. ASSUME NEW q \in Procs PROVE 1 .. ver'[q] - 1 \subseteq recorded'
    BY <1>1, <1>3, <1>5 DEF LoopInv
  <2> QED
    BY <1>5, <2>1 DEF LoopInv
<1>7. ASSUME NEW q \in Procs, pc'[q] = "commit" PROVE FALSE
  <2>1. q # p /\ pc[q] = "commit"
    BY <1>5, <1>7
  <2>2. ver[q] = k + 1
    BY <1>1, <2>1, CommitNext
  <2> QED
    BY <1>2, <2>1, <2>2 DEF CommitInv
<1> QED
  BY <1>4, <1>6, <1>7 DEF CommitInv

(* Every step of a process keeps the loop's invariants. *)
LEMMA ProcessLoop ==
    ASSUME TypeOK, Prefix, LoopInv, CommitInv, NEW p \in Procs, Start(p) \/ Step(p) \/ Crash(p)
    PROVE  Prefix' /\ LoopInv' /\ CommitInv'
<1> USE StartupAssumption
<1>1. /\ ver[p] \in 1 .. LastVersion + 1 /\ 1 .. ver[p] - 1 \subseteq recorded
      /\ pc[p] \in {"ddl", "record", "commit"} => ver[p] <= LastVersion
      /\ pc[p] \in {"clash", "index", "opened", "bootstrap", "serving"} => ver[p] = LastVersion + 1
  BY DEF TypeOK, LoopInv
<1>2. ASSUME Exit(p), UNCHANGED <<schema, recorded>> PROVE Prefix' /\ LoopInv' /\ CommitInv'
  <2>1. \A q \in Procs : ver'[q] = IF q = p THEN 1 ELSE ver[q]
    BY <1>2 DEF Exit, TypeOK
  <2> QED
    BY <1>2, <2>1, MoveLoop DEF Exit, States
<1>3. ASSUME NEW s \in States \ {"commit"}, Goto(p, s), UNCHANGED <<schema, recorded, ver>>,
             s \in {"ddl", "record"} => ver[p] <= LastVersion,
             s \in {"clash", "index", "opened", "bootstrap", "serving"} => ver[p] = LastVersion + 1
      PROVE  Prefix' /\ LoopInv' /\ CommitInv'
  <2>1. \A q \in Procs : ver'[q] = IF q = p THEN ver[p] ELSE ver[q]
    BY <1>3
  <2> QED
    BY <1>1, <1>3, <2>1, MoveLoop
<1>4. CASE Start(p)
  BY <1>3, <1>4 DEF Start, tables, States
<1>5. CASE Check(p)
  <2>1. CASE ver[p] > LastVersion
    BY <1>1, <1>3, <1>5, <2>1 DEF Check, tables, States
  <2>2. CASE ver[p] <= LastVersion /\ ver[p] \notin recorded
    BY <1>1, <1>3, <1>5, <2>2 DEF Check, tables, States
  <2>3. CASE ver[p] <= LastVersion /\ ver[p] \in recorded
    <3>1. /\ \A q \in Procs : ver'[q] = IF q = p THEN ver[p] + 1 ELSE ver[q]
          /\ pc' = pc /\ UNCHANGED <<schema, recorded>>
      BY <1>1, <1>5, <2>3 DEF Check, tables, TypeOK
    <3>2. Goto(p, "check")
      BY <1>5, <3>1 DEF Check, Goto, TypeOK
    <3>3. 1 .. (ver[p] + 1) - 1 \subseteq recorded
      BY <1>1, <2>3
    <3> QED
      BY <1>1, <2>3, <3>1, <3>2, <3>3, MoveLoop DEF States
  <2> QED
    BY <1>1, <2>1, <2>2, <2>3
<1>6. CASE ExecDDL(p)
  BY <1>1, <1>2, <1>3, <1>6 DEF ExecDDL, tables, States
<1>7. CASE Record(p)
  <2>1. CASE ver[p] \in recorded
    BY <1>2, <1>7, <2>1 DEF Record, tables
  <2>2. CASE ver[p] \notin recorded
    <3>1. \A q \in Procs : ver'[q] = IF q = p THEN ver[p] ELSE ver[q]
      BY <1>7, <2>2 DEF Record
    <3> QED
      BY <1>1, <1>7, <2>2, <3>1, MoveLoop DEF Record, tables, States
  <2> QED
    BY <2>1, <2>2
<1>8. CASE Commit(p)
  BY <1>8, CommitLoop
<1>9. CASE FindClashes(p)
  BY <1>1, <1>3, <1>9 DEF FindClashes, tables, States
<1>10. CASE CreateIndex(p)
  BY <1>1, <1>2, <1>3, <1>10 DEF CreateIndex, States
<1>11. CASE CountUsers(p)
  BY <1>1, <1>3, <1>11 DEF CountUsers, tables, States
<1>12. CASE Bootstrap(p)
  BY <1>1, <1>2, <1>3, <1>12 DEF Bootstrap, States
<1>13. CASE RunTool(p)
  BY <1>2, <1>13 DEF RunTool
<1>14. CASE Crash(p)
  BY <1>2, <1>14 DEF Crash, tables
<1> QED
  BY <1>4, <1>5, <1>6, <1>7, <1>8, <1>9, <1>10, <1>11, <1>12, <1>13, <1>14 DEF Step, OpenStore

(* A restore finds every process down, at the first version. *)
LEMMA RestoreLoop ==
    ASSUME TypeOK, Prefix, LoopInv, RestoreFiles
    PROVE  Prefix' /\ LoopInv' /\ CommitInv'
<1> USE StartupAssumption
<1>1. PICK k \in 1 .. LastVersion : schema' = UpTo(k) /\ recorded' = 1 .. k
  BY DEF RestoreFiles, Older
<1>2. Prefix'
  BY <1>1 DEF Prefix
<1>3. recorded = {}
  <2>1. PICK j \in 0 .. LastVersion : schema = UpTo(j) /\ recorded = 1 .. j
    BY DEF Prefix
  <2>2. Len(UpTo(j)) = j
    <3>1. j \in Nat
      OBVIOUS
    <3> QED
      BY <3>1, UpToFacts, Zenon
  <2>3. Len(schema) = 0
    BY DEF RestoreFiles
  <2> QED
    BY <2>1, <2>2, <2>3
<1>4. ASSUME NEW p \in Procs PROVE pc'[p] = "down" /\ ver'[p] = 1
  <2>1. pc'[p] = "down" /\ ver'[p] = ver[p] /\ ver[p] \in 1 .. LastVersion + 1
    BY DEF RestoreFiles, TypeOK
  <2>2. 1 .. ver[p] - 1 \subseteq {}
    BY <1>3 DEF LoopInv
  <2>3. CASE ver[p] > 1
    <3>1. 1 \in 1 .. ver[p] - 1
      BY <2>1, <2>3
    <3> QED
      BY <2>2, <3>1
  <2> QED
    BY <2>1, <2>3
<1>5. LoopInv'
  BY <1>4 DEF LoopInv
<1>6. CommitInv'
  BY <1>4 DEF CommitInv
<1> QED
  BY <1>2, <1>5, <1>6

(* Every step keeps the loop's invariants. *)
LEMMA StepLoop == Inv /\ [Next]_vars => Prefix' /\ LoopInv' /\ CommitInv'
<1> SUFFICES ASSUME Inv, [Next]_vars PROVE Prefix' /\ LoopInv' /\ CommitInv'
  OBVIOUS
<1> USE DEF Inv
<1>1. ASSUME NEW p \in Procs, Start(p) \/ Step(p) \/ Crash(p)
      PROVE  Prefix' /\ LoopInv' /\ CommitInv'
  BY <1>1, ProcessLoop
<1>2. CASE RestoreFiles
  BY <1>2, RestoreLoop
<1>3. ASSUME UNCHANGED <<schema, recorded, pc, ver>> PROVE Prefix' /\ LoopInv' /\ CommitInv'
  BY <1>3 DEF Prefix, LoopInv, CommitInv
<1>4. ASSUME NEW s \in Servers,
             \/ Provision(s) \/ ScheduledDeposit(s)
             \/ \E value \in {"on", "off"} : SetSchedule(s, value)
      PROVE  Prefix' /\ LoopInv' /\ CommitInv'
  BY <1>3, <1>4 DEF Provision, ScheduledDeposit, SetSchedule, tables
<1>5. ASSUME NEW i \in Ids, ResolveClash(i) PROVE Prefix' /\ LoopInv' /\ CommitInv'
  BY <1>3, <1>5 DEF ResolveClash
<1>6. CASE DisableDeposits \/ DisableByHand \/ RestoreDies \/ OriginalDeposits
  BY <1>3, <1>6 DEF DisableDeposits, DisableByHand, RestoreDies, OriginalDeposits, tables
<1>7. CASE UNCHANGED vars
  BY <1>3, <1>7 DEF vars, tables
<1> QED
  BY <1>1, <1>2, <1>4, <1>5, <1>6, <1>7 DEF Next, Restore

-----------------------------------------------------------------------------
(* A name that is free makes no clash. *)
LEMMA InsertNoClash ==
    ASSUME TypeOK, Clashes = {}, NEW name \in Names, Insert(name)
    PROVE  Clashes' = {}
<1> SUFFICES ASSUME NEW i \in Ids, NEW j \in Ids \ {i},
                    users'[i] # NoUser, users'[j] = users'[i]
             PROVE  FALSE
  BY DEF Clashes, Clashing
<1>1. PICK n \in Ids : users[n] = NoUser /\ users' = [users EXCEPT ![n] = name]
  BY DEF Insert
<1>2. \A m \in Ids : users'[m] = IF m = n THEN name ELSE users[m]
  BY <1>1 DEF TypeOK
<1>3. \A m \in Ids : users[m] # name
  BY DEF Insert, NameFree
<1>4. i # n /\ j # n
  BY <1>2, <1>3
<1> QED
  BY <1>2, <1>4 DEF Clashes, Clashing

(* Nothing that happens between the clash query and the index makes a      *)
(* clash.                                                                  *)
LEMMA StepIndex == Inv /\ [Next]_vars => IndexNeverRefused'
<1> SUFFICES ASSUME Inv, [Next]_vars PROVE IndexNeverRefused'
  OBVIOUS
<1> USE StartupAssumption DEF Inv
<1>1. ASSUME NEW p \in Procs, NEW s \in States, Goto(p, s), users' = users,
             s = "index" => Clashes = {}
      PROVE  IndexNeverRefused'
  <2>1. Clashes' = Clashes
    BY <1>1 DEF Clashes, Clashing
  <2>2. \A q \in Procs : pc'[q] = IF q = p THEN s ELSE pc[q]
    BY <1>1 DEF Goto, TypeOK
  <2> QED
    BY <1>1, <2>1, <2>2 DEF IndexNeverRefused
<1>2. ASSUME NEW name \in Names, Insert(name),
             \A q \in Procs : pc'[q] = "index" => pc[q] = "index"
      PROVE  IndexNeverRefused'
  BY <1>2, InsertNoClash DEF IndexNeverRefused
<1>3. ASSUME pc' = pc, users' = users PROVE IndexNeverRefused'
  BY <1>3 DEF IndexNeverRefused, Clashes, Clashing
<1>4. ASSUME NEW p \in Procs, Start(p) \/ Step(p) \/ Crash(p) PROVE IndexNeverRefused'
  <2>1. CASE Check(p)
    BY <1>1, <1>3, <1>4, <2>1 DEF Check, tables, States
  <2>2. CASE FindClashes(p)
    BY <1>1, <1>4, <2>2 DEF FindClashes, tables, States
  <2>3. CASE Start(p) \/ ExecDDL(p) \/ Record(p) \/ Commit(p) \/ CreateIndex(p)
    BY <1>1, <1>4, <2>3 DEF Start, ExecDDL, Record, Commit, CreateIndex, Exit, tables, States
  <2>4. CASE CountUsers(p) \/ Crash(p)
    BY <1>1, <1>4, <2>4 DEF CountUsers, Crash, Exit, tables, States
  <2>5. CASE Bootstrap(p)
    <3>1. CASE Insert(Admin) /\ Goto(p, "serving")
      BY <1>2, <3>1 DEF Goto, TypeOK
    <3>2. CASE Exit(p) /\ users' = users
      BY <1>1, <3>2 DEF Exit, States
    <3> QED
      BY <2>5, <3>1, <3>2 DEF Bootstrap
  <2>6. CASE RunTool(p)
    <3>1. CASE users' = users
      BY <1>1, <2>6, <3>1 DEF RunTool, Exit, States
    <3>2. ASSUME NEW name \in Names, Insert(name) PROVE IndexNeverRefused'
      BY <1>2, <2>6, <3>2 DEF RunTool, Exit, Goto, TypeOK
    <3> QED
      BY <2>6, <3>1, <3>2 DEF RunTool
  <2> QED
    BY <1>4, <2>1, <2>2, <2>3, <2>4, <2>5, <2>6 DEF Step, OpenStore
<1>5. ASSUME NEW s \in Servers, Provision(s) PROVE IndexNeverRefused'
  BY <1>2, <1>5 DEF Provision
<1>6. ASSUME NEW i \in Ids, ResolveClash(i) PROVE IndexNeverRefused'
  BY <1>6 DEF ResolveClash, IndexNeverRefused, Clashes, Clashing
<1>7. CASE RestoreFiles
  BY <1>7 DEF RestoreFiles, IndexNeverRefused
<1>8. ASSUME NEW s \in Servers,
             ScheduledDeposit(s) \/ \E value \in {"on", "off"} : SetSchedule(s, value)
      PROVE  IndexNeverRefused'
  BY <1>3, <1>8 DEF ScheduledDeposit, SetSchedule, tables
<1>9. CASE DisableDeposits \/ DisableByHand \/ RestoreDies \/ OriginalDeposits
  BY <1>3, <1>9 DEF DisableDeposits, DisableByHand, RestoreDies, OriginalDeposits, tables
<1>10. CASE UNCHANGED vars
  BY <1>3, <1>10 DEF vars, tables
<1> QED
  BY <1>4, <1>5, <1>6, <1>7, <1>8, <1>9, <1>10 DEF Next, Restore

-----------------------------------------------------------------------------
(* Turning deposits on is what an administrator of this copy does. *)
LEMMA StepQuiet == Inv /\ [Next]_vars => QuietInv'
<1> SUFFICES ASSUME Inv, [Next]_vars PROVE QuietInv'
  OBVIOUS
<1> USE DEF Inv
<1>1. ASSUME UNCHANGED <<rpc, interval, enabled>> PROVE QuietInv'
  BY <1>1 DEF QuietInv
<1>2. ASSUME rpc' # "done" \/ interval' = "off" PROVE QuietInv'
  BY <1>2 DEF QuietInv
<1>3. ASSUME NEW p \in Procs, Start(p) \/ Step(p) \/ Crash(p) PROVE QuietInv'
  <2>1. UNCHANGED backups
    BY <1>3 DEF Start, Step, Crash, OpenStore, Check, ExecDDL, Record, Commit, FindClashes,
                CreateIndex, CountUsers, Bootstrap, RunTool
  <2> QED
    BY <1>1, <2>1 DEF backups
<1>4. ASSUME NEW s \in Servers, NEW value \in {"on", "off"}, SetSchedule(s, value) PROVE QuietInv'
  <2>1. CASE value = "on"
    <3>1. enabled'
      BY <1>4, <2>1, Zenon DEF SetSchedule
    <3> QED
      BY <3>1 DEF QuietInv
  <2>2. CASE value = "off"
    BY <1>2, <1>4, <2>2 DEF SetSchedule
  <2> QED
    BY <2>1, <2>2
<1>5. ASSUME NEW s \in Servers, Provision(s) \/ ScheduledDeposit(s) PROVE QuietInv'
  BY <1>1, <1>5 DEF Provision, ScheduledDeposit, backups
<1>6. ASSUME NEW i \in Ids, ResolveClash(i) PROVE QuietInv'
  BY <1>1, <1>6 DEF ResolveClash, backups
<1>7. CASE RestoreFiles \/ DisableDeposits \/ DisableByHand \/ RestoreDies
  BY <1>2, <1>7 DEF RestoreFiles, DisableDeposits, DisableByHand, RestoreDies
<1>8. CASE OriginalDeposits \/ UNCHANGED vars
  BY <1>1, <1>8 DEF OriginalDeposits, vars, backups
<1> QED
  BY <1>3, <1>4, <1>5, <1>6, <1>7, <1>8 DEF Next, Restore

(* The invariants hold of any installation before a process is started. *)
LEMMA InitInv == Init => Inv
<1> SUFFICES ASSUME Init PROVE Inv
  OBVIOUS
<1> USE StartupAssumption
<1>1. TypeOK
  BY InitType
<1>2. \A p \in Procs : pc[p] = "down" /\ ver[p] = 1
  BY DEF Init
<1>3. Prefix
  BY DEF Init, Prefix
<1>4. LoopInv /\ CommitInv /\ IndexNeverRefused
  BY <1>2 DEF LoopInv, CommitInv, IndexNeverRefused
<1>5. QuietInv
  BY DEF Init, QuietInv
<1> QED
  BY <1>1, <1>3, <1>4, <1>5 DEF Inv

(* The loop of Run, the username index and the schedule of a restored copy *)
(* keep their invariants whoever starts, dies or restores.                 *)
THEOREM Invariance == Spec => []Inv
<1>1. Inv /\ [Next]_vars => Inv'
  BY StepType, StepLoop, StepIndex, StepQuiet DEF Inv
<1> QED
  BY <1>1, InitInv, PTL DEF Spec

(* No process runs past the end of registry, and tables and settings keep  *)
(* their types.                                                            *)
THEOREM TypeCorrect == Spec => []TypeOK
<1>1. Inv => TypeOK
  BY DEF Inv
<1> QED
  BY <1>1, Invariance, PTL

(* EnsureUsernameIndex never has its index refused: accounts created       *)
(* between its two statements are new names.                               *)
THEOREM IndexAllowed == Spec => []IndexNeverRefused
<1>1. Inv => IndexNeverRefused
  BY DEF Inv
<1> QED
  BY <1>1, Invariance, PTL

(* A copy whose restore ended well deposits only after one of its          *)
(* administrators switched the schedule on.                                *)
THEOREM QuietCopies == Spec => QuietUntilEnabled
<1>1. ASSUME Inv, [Next]_vars, newest = "original", newest' = "copy", rpc = "done"
      PROVE  enabled
  <2>1. PICK s \in Servers : ScheduledDeposit(s)
    <3>1. newest' # newest
      BY <1>1
    <3>2. ASSUME NEW p \in Procs, Start(p) \/ Step(p) \/ Crash(p) PROVE newest' = newest
      BY <3>2 DEF Start, Step, Crash, OpenStore, Check, ExecDDL, Record, Commit, FindClashes,
                  CreateIndex, CountUsers, Bootstrap, RunTool, backups
    <3>3. ASSUME NEW s \in Servers, Provision(s) \/ \E value \in {"on", "off"} : SetSchedule(s, value)
          PROVE  newest' = newest
      BY <3>3 DEF Provision, SetSchedule, backups
    <3>4. ASSUME NEW i \in Ids, ResolveClash(i) PROVE newest' = newest
      BY <3>4 DEF ResolveClash, backups
    <3>5. Restore \/ UNCHANGED vars => newest' = newest
      BY DEF Restore, RestoreFiles, DisableDeposits, DisableByHand, RestoreDies, vars, backups
    <3>6. ~OriginalDeposits
      BY <1>1 DEF OriginalDeposits
    <3> QED
      BY <1>1, <3>1, <3>2, <3>3, <3>4, <3>5, <3>6 DEF Next
  <2> QED
    BY <1>1, <2>1 DEF ScheduledDeposit, Inv, QuietInv
<1>2. Inv /\ [Next]_vars
      => [newest = "original" /\ newest' = "copy" /\ rpc = "done" => enabled]_vars
  BY <1>1
<1> QED
  BY <1>2, Invariance, PTL DEF Spec, QuietUntilEnabled

-----------------------------------------------------------------------------
(* Whoever has left the loop of Run sees every version. *)
LEMMA LoopDone ==
    ASSUME Inv, NEW p \in Procs, ver[p] = LastVersion + 1
    PROVE  schema = UpTo(LastVersion)
<1> USE StartupAssumption
<1>1. PICK k \in 0 .. LastVersion : schema = UpTo(k) /\ recorded = 1 .. k
  BY DEF Inv, Prefix
<1>2. 1 .. (LastVersion + 1) - 1 \subseteq 1 .. k
  BY <1>1 DEF Inv, LoopInv
<1>3. LastVersion \in 1 .. k
  BY <1>2
<1>4. k = LastVersion
  BY <1>3
<1> QED
  BY <1>1, <1>4

(* A step of a process opens its store on the last schema, closes it, or   *)
(* leaves who has it open alone.                                           *)
LEMMA OpenSteps ==
    ASSUME Inv, NEW p \in Procs, NEW s \in States, Goto(p, s), schema' = schema,
           s \in {"opened", "bootstrap", "serving"} => ver[p] = LastVersion + 1
    PROVE  [Upgrade!Next]_<<schema, Open>>
<1>1. \A q \in Procs : pc'[q] = IF q = p THEN s ELSE pc[q]
  BY DEF Inv, TypeOK, Goto
<1>2. CASE s \in {"opened", "bootstrap", "serving"}
  <2>1. schema = Upgrade!UpTo(LastVersion)
    BY <1>2, LoopDone DEF UpTo, Upgrade!UpTo
  <2>2. Open' = Open \cup {p}
    BY <1>1, <1>2 DEF Open
  <2> QED
    BY <2>1, <2>2 DEF Upgrade!Next, Upgrade!Open
<1>3. CASE s \notin {"opened", "bootstrap", "serving"}
  <2>1. Open' = Open \ {p}
    BY <1>1, <1>3 DEF Open
  <2> QED
    BY <2>1 DEF Upgrade!Next, Upgrade!Close
<1> QED
  BY <1>2, <1>3

(* Opening the store upgrades it once and in order, and nobody works on an *)
(* older schema: Startup implements SchemaUpgrade.                         *)
THEOREM UpgradeRefined == Spec => RefinesUpgrade
<1> USE StartupAssumption
<1>1. Init => Upgrade!Init
  BY DEF Init, Open, UpTo, Upgrade!Init, Upgrade!UpTo
<1>2. ASSUME Inv, [Next]_vars PROVE [Upgrade!Next]_<<schema, Open>>
  <2> USE <1>2
  <2>1. ASSUME NEW p \in Procs, Commit(p) PROVE [Upgrade!Next]_<<schema, Open>>
    <3>1. PICK k \in 0 .. LastVersion : schema = UpTo(k) /\ recorded = 1 .. k
      BY DEF Inv, Prefix
    <3>2. ver[p] = k + 1 /\ k + 1 <= LastVersion
      BY <2>1, <3>1, CommitNext DEF Inv, Commit
    <3>3. Len(schema) = k
      <4>1. k \in Nat
        OBVIOUS
      <4> QED
        BY <3>1, <4>1, UpToFacts, Zenon
    <3>4. Open' = Open
      BY <2>1 DEF Inv, TypeOK, Commit, Goto, Open
    <3> QED
      BY <2>1, <3>2, <3>3, <3>4 DEF Commit, Upgrade!Next, Upgrade!Advance
  <2>2. ASSUME NEW p \in Procs, Start(p) \/ Step(p) \/ Crash(p), ~Commit(p)
        PROVE  [Upgrade!Next]_<<schema, Open>>
    <3>1. /\ pc[p] \in States
          /\ pc[p] \in {"clash", "index", "opened", "bootstrap"} => ver[p] = LastVersion + 1
      BY DEF Inv, TypeOK, LoopInv
    <3>2. CASE Start(p) \/ ExecDDL(p) \/ Record(p) \/ FindClashes(p) \/ Crash(p)
      BY <3>1, <3>2, OpenSteps
      DEF Start, ExecDDL, Record, FindClashes, Crash, Exit, tables, States
    <3>3. CASE Check(p)
      <4>1. CASE pc' = pc
        BY <3>3, <4>1 DEF Check, tables, Open
      <4>2. CASE Goto(p, "clash") \/ Goto(p, "ddl")
        BY <3>3, <4>2, OpenSteps DEF Check, tables, States
      <4> QED
        BY <3>3, <4>1, <4>2 DEF Check
    <3>4. CASE CreateIndex(p) \/ CountUsers(p)
      BY <3>1, <3>4, OpenSteps DEF CreateIndex, CountUsers, Exit, tables, States
    <3>5. CASE Bootstrap(p) \/ RunTool(p)
      BY <3>1, <3>5, OpenSteps DEF Bootstrap, RunTool, Exit, States
    <3> QED
      BY <2>2, <3>2, <3>3, <3>4, <3>5 DEF Step, OpenStore
  <2>3. CASE RestoreFiles
    <3>1. Open = {} /\ Open' = {}
      BY <2>3 DEF RestoreFiles, Open
    <3>2. PICK k \in 1 .. LastVersion : schema' = UpTo(k)
      BY <2>3 DEF RestoreFiles, Older
    <3>3. schema' \in {Upgrade!UpTo(j) : j \in 1 .. LastVersion}
      BY <3>2 DEF UpTo, Upgrade!UpTo
    <3> QED
      BY <2>3, <3>1, <3>3 DEF RestoreFiles, Upgrade!Next, Upgrade!Replace
  <2>4. ASSUME UNCHANGED <<schema, pc>> PROVE [Upgrade!Next]_<<schema, Open>>
    BY <2>4 DEF Open
  <2>5. ASSUME NEW s \in Servers,
               \/ Provision(s) \/ ScheduledDeposit(s)
               \/ \E value \in {"on", "off"} : SetSchedule(s, value)
        PROVE  [Upgrade!Next]_<<schema, Open>>
    BY <2>4, <2>5 DEF Provision, ScheduledDeposit, SetSchedule, tables
  <2>6. ASSUME NEW i \in Ids, ResolveClash(i) PROVE [Upgrade!Next]_<<schema, Open>>
    BY <2>4, <2>6 DEF ResolveClash
  <2>7. CASE DisableDeposits \/ DisableByHand \/ RestoreDies \/ OriginalDeposits \/ UNCHANGED vars
    BY <2>4, <2>7 DEF DisableDeposits, DisableByHand, RestoreDies, OriginalDeposits, vars, tables
  <2> QED
    BY <2>1, <2>2, <2>3, <2>5, <2>6, <2>7 DEF Next, Restore
<1>3. Inv /\ [Next]_vars => [Upgrade!Next]_<<schema, Open>>
  BY <1>2
<1> QED
  BY <1>1, <1>3, Invariance, PTL DEF Spec, RefinesUpgrade, Upgrade!Spec, Upgrade!vars

=============================================================================

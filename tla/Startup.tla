------------------------------ MODULE Startup -------------------------------
(***************************************************************************)
(* From a data directory to a server that serves it.  Servers and the      *)
(* command line's tools open one database, side by side: each runs the     *)
(* pending migrations, one transaction a version, then looks for user      *)
(* names that differ only in case and builds the unique index if there are *)
(* none.  A server then creates the bootstrap administrator of an empty    *)
(* database and serves.  The directory may be an older installation, be    *)
(* empty, or be filled by a restore first.  Any process may die anywhere.  *)
(* One action is one statement or transaction.                             *)
(***************************************************************************)
EXTENDS Naturals, Sequences

CONSTANTS Servers, Tools,
          LastVersion,   \* versions in registry
          Guarded,       \* versions whose SQL fails on a schema that has them:
                         \* ADD COLUMN without IF NOT EXISTS
          Ids,           \* rows the users table has room for
          Names,         \* user names, in lower case
          Admin,         \* the name of the bootstrap administrator
          NoUser,
          MaxFaults      \* bound on crashes and failing statements

ASSUME StartupAssumption ==
    /\ Servers \cap Tools = {}
    /\ LastVersion \in Nat \ {0} /\ Guarded \subseteq 1 .. LastVersion
    /\ Admin \in Names /\ NoUser \notin Names
    /\ MaxFaults \in Nat

Procs == Servers \cup Tools

VARIABLES schema,     \* versions whose SQL is committed, in the order of the commits
          recorded,   \* schema_migrations
          users,      \* lower-cased name of each row of users
          index,      \* idx_users_username_ci exists
          interval,   \* backup_interval_sec; "default" for no row
          pc, ver,    \* processes: control state, version at hand
          rpc,        \* the restore command
          enabled,    \* history: an administrator of this copy switched the schedule on
          newest,     \* whose capsule is KyRecovery's newest
          faults

tables == <<schema, recorded, users, index>>
backups == <<interval, rpc, enabled, newest>>
vars == <<tables, backups, pc, ver, faults>>

-----------------------------------------------------------------------------
UpTo(k) == [i \in 1 .. k |-> i]

States == {"down", "check", "ddl", "record", "commit", "clash", "index", "opened",
           "bootstrap", "serving"}

(* The store is open: newSQLStore has returned. *)
Open == {p \in Procs : pc[p] \in {"opened", "bootstrap", "serving"}}

(* A transaction that has written and not ended. *)
HasWritten(p) == pc[p] \in {"record", "commit"}

Clashing(i) == users[i] # NoUser /\ \E j \in Ids \ {i} : users[j] = users[i]
Clashes == {i \in Ids : Clashing(i)}

(* A database an installation can hold: some versions, and accounts from   *)
(* before names were compared without case.                                *)
Older(k, us, ix) ==
    /\ schema' = UpTo(k) /\ recorded' = 1 .. k
    /\ users' = us
    /\ index' = ix
    /\ ix => \A i, j \in Ids : us[i] = us[j] /\ us[i] # NoUser => i = j

Goto(p, s) == pc' = [pc EXCEPT ![p] = s]

(* log.Fatalf, or the end of a command: the transaction rolls back. *)
Exit(p) == Goto(p, "down") /\ ver' = [ver EXCEPT ![p] = 1]

-----------------------------------------------------------------------------
Init ==
    /\ \E k \in 0 .. LastVersion :
         /\ schema = UpTo(k) /\ recorded = 1 .. k
         /\ users \in [Ids -> IF k = 0 THEN {NoUser} ELSE Names \cup {NoUser}]
         /\ index \in IF k > 0 /\ Clashes = {} THEN BOOLEAN ELSE {FALSE}
    /\ interval \in IF schema = <<>> THEN {"default"} ELSE {"default", "on", "off"}
    /\ pc = [p \in Procs |-> "down"] /\ ver = [p \in Procs |-> 1]
    /\ rpc = "idle" /\ enabled = FALSE /\ newest = "original"
    /\ faults = 0

(***************************************************************************)
(* Opening the store                                                       *)
(***************************************************************************)

(* The supervisor or an operator starts a process, but not on a directory  *)
(* that is being restored.  Run creates schema_migrations if it must.      *)
Start(p) ==
    /\ pc[p] = "down" /\ rpc \in {"idle", "done", "dead"}
    /\ Goto(p, "check")
    /\ UNCHANGED <<tables, backups, ver, faults>>

(* Faulty variant: the loop goes on for one version too many. *)
Check_OnePastTheEnd(p) ==
    /\ pc[p] = "check"
    /\ IF ver[p] > LastVersion + 1 THEN Goto(p, "clash") /\ UNCHANGED ver
       ELSE IF ver[p] \in recorded
       THEN ver' = [ver EXCEPT ![p] = @ + 1] /\ UNCHANGED pc
       ELSE Goto(p, "ddl") /\ UNCHANGED ver
    /\ UNCHANGED <<tables, backups, faults>>

(* Run: the version is looked up outside any transaction. *)
Check(p) ==
    /\ pc[p] = "check"
    /\ IF ver[p] > LastVersion THEN Goto(p, "clash") /\ UNCHANGED ver
       ELSE IF ver[p] \in recorded
       THEN ver' = [ver EXCEPT ![p] = @ + 1] /\ UNCHANGED pc
       ELSE Goto(p, "ddl") /\ UNCHANGED ver
    /\ UNCHANGED <<tables, backups, faults>>

Applied == {schema[i] : i \in 1 .. Len(schema)}

(* Faulty variant: the SQL runs outside the transaction that records it. *)
ExecDDL_OutsideTx(p) ==
    /\ pc[p] = "ddl"
    /\ \/ /\ ver[p] \notin Guarded \cap Applied /\ Goto(p, "record") /\ UNCHANGED ver
          /\ schema' = Append(schema, ver[p])
       \/ ver[p] \in Guarded \cap Applied /\ Exit(p) /\ UNCHANGED schema
    /\ UNCHANGED <<recorded, users, index, backups, faults>>

(* The version's SQL, seen by this transaction only.  It may find the      *)
(* database busy with another transaction for too long.                    *)
ExecDDL(p) ==
    /\ pc[p] = "ddl"
    /\ \/ ver[p] \notin Guarded \cap Applied /\ Goto(p, "record") /\ UNCHANGED ver
       \/ ver[p] \in Guarded \cap Applied /\ Exit(p)
       \/ (\E q \in Procs \ {p} : HasWritten(q)) /\ Exit(p)
    /\ UNCHANGED <<tables, backups, faults>>

(* Faulty variant: schema_migrations has no primary key. *)
Record_NoKey(p) ==
    /\ pc[p] = "record"
    /\ Goto(p, "commit") /\ UNCHANGED ver
    /\ UNCHANGED <<tables, backups, faults>>

(* The row of schema_migrations: its primary key waits for a transaction   *)
(* that inserted the same version, and fails once it has committed.        *)
Record(p) ==
    /\ pc[p] = "record"
    /\ \A q \in Procs \ {p} : ~(pc[q] = "commit" /\ ver[q] = ver[p])
    /\ IF ver[p] \in recorded THEN Exit(p) ELSE Goto(p, "commit") /\ UNCHANGED ver
    /\ UNCHANGED <<tables, backups, faults>>

Commit(p) ==
    /\ pc[p] = "commit"
    /\ schema' = Append(schema, ver[p])
    /\ recorded' = recorded \cup {ver[p]}
    /\ Goto(p, "check") /\ ver' = [ver EXCEPT ![p] = @ + 1]
    /\ UNCHANGED <<users, index, backups, faults>>

(* EnsureUsernameIndex: clashes are logged and the index is left out. *)
FindClashes(p) ==
    /\ pc[p] = "clash"
    /\ Goto(p, IF Clashes = {} THEN "index" ELSE "opened")
    /\ UNCHANGED <<tables, backups, ver, faults>>

(* CREATE UNIQUE INDEX IF NOT EXISTS, in a later statement. *)
CreateIndex(p) ==
    /\ pc[p] = "index"
    /\ IF index \/ Clashes = {}
       THEN index' = TRUE /\ Goto(p, "opened") /\ UNCHANGED ver
       ELSE Exit(p) /\ UNCHANGED index
    /\ UNCHANGED <<schema, recorded, users, backups, faults>>

(***************************************************************************)
(* Accounts                                                                *)
(***************************************************************************)

(* Faulty variant: only the unique index keeps a name from a second row. *)
NameFree_IndexOnly(name) == index => \A i \in Ids : users[i] # name

(* checkUsernameFree for a row that does not exist yet. *)
NameFree(name) == \A i \in Ids : users[i] # name

(* CreateUser, one transaction. *)
Insert(name) ==
    /\ NameFree(name)
    /\ \E i \in Ids : users[i] = NoUser /\ users' = [users EXCEPT ![i] = name]

(* runServer counts the accounts and ignores an error, which leaves 0. *)
CountUsers(s) ==
    /\ pc[s] = "opened" /\ s \in Servers
    /\ \/ /\ Goto(s, IF \A i \in Ids : users[i] = NoUser THEN "bootstrap" ELSE "serving")
          /\ UNCHANGED faults
       \/ /\ faults < MaxFaults /\ faults' = faults + 1
          /\ Goto(s, "bootstrap")
    /\ UNCHANGED <<tables, backups, ver>>

(* The bootstrap administrator; a name that is taken, or any other error   *)
(* of CreateUser (here: no room), is fatal.                                *)
Bootstrap(s) ==
    /\ pc[s] = "bootstrap"
    /\ \/ Insert(Admin) /\ Goto(s, "serving") /\ UNCHANGED ver
       \/ ~(NameFree(Admin) /\ \E i \in Ids : users[i] = NoUser) /\ Exit(s) /\ UNCHANGED users
    /\ UNCHANGED <<schema, recorded, index, backups, faults>>

(* A command does its work on the open store and ends; init-admin creates  *)
(* the account it is given.                                                *)
RunTool(t) ==
    /\ pc[t] = "opened" /\ t \in Tools
    /\ UNCHANGED users \/ \E name \in Names : Insert(name)
    /\ Exit(t)
    /\ UNCHANGED <<schema, recorded, index, backups, faults>>

(* Sign-in and SCIM create accounts. *)
Provision(s) ==
    /\ pc[s] = "serving"
    /\ \E name \in Names : Insert(name)
    /\ UNCHANGED <<schema, recorded, index, backups, pc, ver, faults>>

(* "rename or remove all but one": the operator removes a row. *)
ResolveClash(i) ==
    /\ Clashing(i)
    /\ users' = [users EXCEPT ![i] = NoUser]
    /\ UNCHANGED <<schema, recorded, index, backups, pc, ver, faults>>

(***************************************************************************)
(* Restore and the schedule                                                *)
(***************************************************************************)

(* recoveryclient.Restore fills an empty directory with what a capsule of  *)
(* the original holds: its database, hence its pairing and its schedule.   *)
(* (A capsule without a database file has neither and is left alone.)      *)
RestoreFiles ==
    /\ rpc = "idle" /\ schema = <<>> /\ \A p \in Procs : pc[p] = "down"
    /\ \E k \in 1 .. LastVersion, us \in [Ids -> Names \cup {NoUser}], ix \in BOOLEAN :
         Older(k, us, ix)
    /\ interval' \in {"default", "on", "off"}
    /\ rpc' = "files"
    /\ UNCHANGED <<enabled, newest, pc, ver, faults>>

(* Faulty variant: the row is removed, as for a schedule never set. *)
DisableDeposits_RemovesRow ==
    /\ rpc = "files"
    /\ \/ interval' = "default" /\ rpc' = "done" /\ UNCHANGED faults
       \/ faults < MaxFaults /\ faults' = faults + 1 /\ rpc' = "failed" /\ UNCHANGED interval
    /\ UNCHANGED <<tables, enabled, newest, pc, ver>>

(* disableScheduledDeposits; an error is reported: "do not start it until  *)
(* they are" off.                                                          *)
DisableDeposits ==
    /\ rpc = "files"
    /\ \/ interval' = "off" /\ rpc' = "done" /\ UNCHANGED faults
       \/ faults < MaxFaults /\ faults' = faults + 1 /\ rpc' = "failed" /\ UNCHANGED interval
    /\ UNCHANGED <<tables, enabled, newest, pc, ver>>

(* The operator who read that error turns them off by hand. *)
DisableByHand ==
    /\ rpc = "failed"
    /\ interval' = "off" /\ rpc' = "done"
    /\ UNCHANGED <<tables, enabled, newest, pc, ver, faults>>

(* The command dies between the files and the setting. *)
RestoreDies ==
    /\ rpc = "files" /\ faults < MaxFaults
    /\ rpc' = "dead" /\ faults' = faults + 1
    /\ UNCHANGED <<tables, interval, enabled, newest, pc, ver>>

(* handleSetSchedule on this directory's server. *)
SetSchedule(s, value) ==
    /\ pc[s] = "serving"
    /\ interval' = value
    /\ enabled' = (enabled \/ value = "on")
    /\ UNCHANGED <<tables, rpc, newest, pc, ver, faults>>

(* backupLoop: the setting wins over KY_BACKUP_DEPOSIT_INTERVAL, whose     *)
(* default is a day.                                                       *)
ScheduledDeposit(s) ==
    /\ pc[s] = "serving" /\ interval # "off"
    /\ newest' = IF rpc = "idle" THEN "original" ELSE "copy"
    /\ UNCHANGED <<tables, interval, rpc, enabled, pc, ver, faults>>

(* The server the capsule came from is still in service. *)
OriginalDeposits ==
    /\ rpc # "idle"
    /\ newest' = "original"
    /\ UNCHANGED <<tables, interval, rpc, enabled, pc, ver, faults>>

-----------------------------------------------------------------------------
(* A crash, a kill or a statement that fails. *)
Crash(p) ==
    /\ pc[p] # "down" /\ faults < MaxFaults
    /\ faults' = faults + 1
    /\ Exit(p)
    /\ UNCHANGED <<tables, backups>>

OpenStore(p) ==
    Check(p) \/ ExecDDL(p) \/ Record(p) \/ Commit(p) \/ FindClashes(p) \/ CreateIndex(p)

Step(p) == OpenStore(p) \/ CountUsers(p) \/ Bootstrap(p) \/ RunTool(p)

Restore == RestoreFiles \/ DisableDeposits \/ DisableByHand \/ RestoreDies

Next ==
    \/ \E p \in Procs : Start(p) \/ Step(p) \/ Crash(p)
    \/ \E s \in Servers :
         Provision(s) \/ ScheduledDeposit(s) \/ \E value \in {"on", "off"} : SetSchedule(s, value)
    \/ \E i \in Ids : ResolveClash(i)
    \/ Restore \/ OriginalDeposits

Spec == Init /\ [][Next]_vars

(* A process that can go on does; the supervisor starts a server again     *)
(* ("restart: unless-stopped"); an operator who was told to turn deposits  *)
(* off does so.                                                            *)
Fairness ==
    /\ \A p \in Procs : WF_vars(Step(p))
    /\ \A s \in Servers : WF_vars(Start(s))
    /\ WF_vars(DisableDeposits \/ DisableByHand)

FairSpec == Spec /\ Fairness

-----------------------------------------------------------------------------
(***************************************************************************)
(* Properties                                                              *)
(***************************************************************************)

(* Tables, settings and processes keep their types, and no process works   *)
(* on a version registry does not have.                                    *)
TypeOK ==
    /\ schema \in Seq(1 .. LastVersion)
    /\ recorded \subseteq 1 .. LastVersion
    /\ users \in [Ids -> Names \cup {NoUser}] /\ index \in BOOLEAN
    /\ interval \in {"default", "on", "off"}
    /\ pc \in [Procs -> States] /\ ver \in [Procs -> 1 .. LastVersion + 1]
    /\ rpc \in {"idle", "files", "done", "failed", "dead"}
    /\ enabled \in BOOLEAN /\ newest \in {"original", "copy"}
    /\ faults \in 0 .. MaxFaults

(* "when existing data allows it": an index that the clash query allowed   *)
(* is never refused by the database, although accounts are created by      *)
(* other processes between the two statements (EnsureUsernameIndex,        *)
(* checkUsernameFree); a refusal would keep the server from starting.      *)
IndexNeverRefused == \A p \in Procs : pc[p] = "index" => Clashes = {}

(* Migrations take effect once and in order and nobody works on an older   *)
(* schema, although versions are looked up outside their transactions,     *)
(* several processes migrate at once and any of them dies (Run, Open).     *)
Upgrade == INSTANCE SchemaUpgrade WITH open <- Open
RefinesUpgrade == Upgrade!Spec

(* A copy whose restore ended well makes no scheduled deposit before an    *)
(* administrator of that copy switches them on, whatever schedule the      *)
(* capsule carried and KY_BACKUP_DEPOSIT_INTERVAL says                     *)
(* (disableScheduledDeposits, backupLoop).                                 *)
QuietUntilEnabled ==
    [][newest = "original" /\ newest' = "copy" /\ rpc = "done" => enabled]_vars

(* "A restored copy starts with scheduled deposits off": the same of every *)
(* copy that is started (restore).                                         *)
RestoredStartsQuiet ==
    [][newest = "original" /\ newest' = "copy" => enabled]_vars

(* Servers end up serving, once crashes stop: losing the race for a        *)
(* version or for the bootstrap administrator, a transaction cut short, or *)
(* a version applied by another process costs a restart, not the           *)
(* installation (Run, runServer).                                          *)
ServersServe == <>[](\A s \in Servers : pc[s] = "serving")

=============================================================================

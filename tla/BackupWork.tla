----------------------------- MODULE BackupWork -----------------------------
(***************************************************************************)
(* Backup work and the way the server stops.                               *)
(*                                                                         *)
(* Administrators pair with KyRecovery, pin a recovery key, deposit a      *)
(* capsule, remove the pairing or set the schedule; a scheduler deposits   *)
(* on its own.  Pairing, pinning and depositing detach from their          *)
(* connection and are counted (Server.tracked); the other two run on the   *)
(* request's context.  On a signal the listener closes and requests are    *)
(* drained for a while, the scheduler's context is cancelled, and          *)
(* waitForBackupWork waits for the scheduler and for the counted handlers  *)
(* under one deadline.  Then the store closes and the process exits, which *)
(* ends every goroutine where it stands.                                   *)
(*                                                                         *)
(* KyRecovery and recoveryclient are outside the repository: a claim and   *)
(* an upload take any time and may fail, StoreRecoveryKey creates the key  *)
(* file exclusively before it writes the rows, and Run writes the receipt  *)
(* after the upload.  Any statement may fail: the open store refuses it    *)
(* (a busy database, a full disk), the store is closed, or its context is  *)
(* cancelled.                                                              *)
(***************************************************************************)
EXTENDS Naturals, FiniteSets

CONSTANTS Requests,   \* administrator requests, each made at most once
          NoKey

ASSUME RequestsAssumption == /\ IsFiniteSet(Requests)
                             /\ "scheduler" \notin Requests
                             /\ NoKey \notin Requests

VARIABLES
    main,        \* runServer
    expired,     \* which of the deadlines "drain" and "wait" have passed
    abandoned,   \* what waitForBackupWork gave up on
    waiter, n,   \* the goroutine in WaitDetached, detachedCounter.n
    pc, kind,
    keyFile,     \* recovery.pub: the request that created it
    rows, schedule,   \* server_settings: key ID and pairing, the interval
    capsule,     \* the last run: nothing sent, "stored" at KyRecovery, "receipt" here
    trail,       \* the audit row of each handler, and of the last scheduled run
    refused,     \* history: statements that failed on an open store
    late         \* history: requests dispatched after WaitDetached returned

vars == <<main, expired, abandoned, waiter, n, pc, kind,
          keyFile, rows, schedule, capsule, trail, refused, late>>

stopping == <<main, expired, abandoned, waiter>>
settings == <<keyFile, rows, schedule>>
records == <<capsule, trail>>
history == <<refused, late>>

Actors == Requests \cup {"scheduler"}
Tracked == {"pair", "pin", "deposit"}
Kinds == Tracked \cup {"unpair", "schedule"}
Stages == {"serving", "draining", "scheduler", "handlers", "closed", "exited"}
Outside == {"idle", "reading", "broadcast", "gone"}
Steps == {"auth", "claim", "keyFile", "keyRow", "pairing", "clear", "interval",
          "readBack", "run", "upload", "receipt", "audit", "leaving"}
LoopSteps == {"select", "run", "upload", "receipt", "audit", "ended"}

StoreOpen == main \notin {"closed", "exited"}
Cancelled == main \notin {"serving", "draining"}

(* detachedCounter: between add and done. *)
Counted(r) == kind[r] \in Tracked /\ pc[r] \notin Outside
CountedRequests == {r \in Requests : Counted(r)}

Goto(a, s) == pc' = [pc EXCEPT ![a] = s]

-----------------------------------------------------------------------------
(* backupLoop waits for its first tick: config.LoadFromEnv yields only     *)
(* keys that seal, so RunConfig does not fail.                             *)
Init ==
    /\ main = "serving" /\ expired = {} /\ abandoned = {}
    /\ waiter = "off" /\ n = 0
    /\ pc = [a \in Actors |-> IF a = "scheduler" THEN "select" ELSE "idle"]
    /\ kind \in [Requests -> Kinds]
    /\ keyFile = NoKey /\ rows = {} /\ schedule \in {"on", "off"}
    /\ capsule = [a \in Actors |-> "none"]
    /\ trail = [a \in Actors |-> "none"]
    /\ refused = {} /\ late = {}

(***************************************************************************)
(* Requests                                                                *)
(***************************************************************************)

(* A connection is accepted while the listener is open. *)
Arrive(r) ==
    /\ pc[r] = "idle" /\ main = "serving"
    /\ Goto(r, "reading")
    /\ UNCHANGED <<stopping, n, kind, settings, records, history>>

(* A connection that drops, or times out, while its request is read. *)
ReadFails(r) ==
    /\ pc[r] = "reading" /\ main # "exited"
    /\ Goto(r, "gone")
    /\ UNCHANGED <<stopping, n, kind, settings, records, history>>

(* Faulty variant: counted by the handler, behind the authentication. *)
Dispatch_Uncounted(r) ==
    /\ pc[r] = "reading" /\ main # "exited"
    /\ Goto(r, "auth")
    /\ UNCHANGED <<stopping, n, kind, settings, records, history>>

(* ServeHTTP: tracked counts the request before anything else is done. *)
Dispatch(r) ==
    /\ pc[r] = "reading" /\ main # "exited"
    /\ Goto(r, "auth")
    /\ n' = IF kind[r] \in Tracked THEN n + 1 ELSE n
    /\ late' = IF waiter = "done" THEN late \cup {r} ELSE late
    /\ UNCHANGED <<stopping, kind, settings, records, refused>>

First == [pair |-> "claim", pin |-> "keyFile", deposit |-> "run",
          unpair |-> "clear", schedule |-> "interval"]

(* requireAdmin and the validation of the request, on its own context. *)
Authenticate(r) ==
    /\ pc[r] = "auth" /\ main # "exited"
    /\ \/ StoreOpen /\ Goto(r, First[kind[r]])
       \/ Goto(r, "leaving")
    /\ UNCHANGED <<stopping, n, kind, settings, records, history>>

(* Faulty variant: detached handlers keep the request's context. *)
CutOff_OwnContext(a) == ~StoreOpen \/ a \in Requests

(* Whether a statement can fail without the store's doing: a detached      *)
(* context outlives the connection, the request's own may be cancelled at  *)
(* any time.                                                               *)
CutOff(a) == ~StoreOpen \/ (a \in Requests /\ kind[a] \notin Tracked)

(* The two outcomes of the statement a is at, where a property tells them  *)
(* apart: any statement may fail, and where nothing else explains it, the  *)
(* open store has refused it.                                              *)
Succeeds == StoreOpen /\ UNCHANGED refused
Fails(a) == refused' = IF CutOff(a) THEN refused ELSE refused \cup {<<a, pc[a]>>}

(* Faulty variant: the pairing is stored before its key. *)
ClaimPairing_StoresPairing(r) ==
    /\ pc[r] = "claim" /\ main # "exited"
    /\ \/ StoreOpen /\ rows' = rows \cup {"pairing"} /\ Goto(r, "keyFile")
       \/ UNCHANGED rows /\ Goto(r, "audit")
    /\ UNCHANGED <<stopping, n, kind, keyFile, schedule, records, history>>

(* ClaimPairing; its failure is audited. *)
ClaimPairing(r) ==
    /\ pc[r] = "claim" /\ main # "exited"
    /\ Goto(r, "keyFile") \/ Goto(r, "audit")
    /\ UNCHANGED <<stopping, n, kind, settings, records, history>>

(* StoreRecoveryKey, the file: created exclusively, the same key again is  *)
(* no error, another key is refused and the refusal audited.  A file that  *)
(* cannot be written or read ends the handler.                             *)
StoreKeyFile(r) ==
    /\ pc[r] = "keyFile" /\ main # "exited"
    /\ \/ keyFile = NoKey /\ keyFile' = r /\ Goto(r, "keyRow")
       \/ keyFile # NoKey /\ (Goto(r, "keyRow") \/ Goto(r, "audit")) /\ UNCHANGED keyFile
       \/ Goto(r, "leaving") /\ UNCHANGED keyFile
    /\ UNCHANGED <<stopping, n, kind, rows, schedule, records, history>>

(* StoreRecoveryKey, the rows, one statement each: a failure may leave the *)
(* key ID behind.  It is answered but not audited.                         *)
StoreKeyRow(r) ==
    /\ pc[r] = "keyRow" /\ main # "exited"
    /\ \/ /\ Succeeds /\ rows' = rows \cup {"key"}
          /\ Goto(r, IF kind[r] = "pair" THEN "pairing" ELSE "audit")
       \/ Fails(r) /\ rows' \in {rows, rows \cup {"key"}} /\ Goto(r, "leaving")
    /\ UNCHANGED <<stopping, n, kind, keyFile, schedule, records, late>>

(* StorePairing; success and failure are both audited.  NewSealer before   *)
(* it does not fail either.                                                *)
StorePairing(r) ==
    /\ pc[r] = "pairing" /\ main # "exited"
    /\ \/ StoreOpen /\ rows' = rows \cup {"pairing"}
       \/ UNCHANGED rows
    /\ Goto(r, "audit")
    /\ UNCHANGED <<stopping, n, kind, keyFile, schedule, records, history>>

(* handleUnpair: ClearPairing removes the pairing and leaves the key.  One *)
(* that fails half-way leaves no pairing either.                           *)
ClearPairing(r) ==
    /\ pc[r] = "clear" /\ main # "exited"
    /\ \/ /\ StoreOpen /\ rows' = rows \ {"pairing"}
          /\ Goto(r, IF "pairing" \in rows THEN "audit" ELSE "leaving")
       \/ rows' \in {rows, rows \ {"pairing"}} /\ Goto(r, "audit")
    /\ UNCHANGED <<stopping, n, kind, keyFile, schedule, records, history>>

(* handleSetSchedule: an interval out of range or a failure ends it. *)
SetInterval(r) ==
    /\ pc[r] = "interval" /\ main # "exited"
    /\ \/ StoreOpen /\ schedule' \in {"on", "off"} /\ Goto(r, "readBack")
       \/ UNCHANGED schedule /\ Goto(r, "leaving")
    /\ UNCHANGED <<stopping, n, kind, keyFile, rows, records, history>>

ReadBack(r) ==
    /\ pc[r] = "readBack" /\ main # "exited"
    /\ \/ StoreOpen /\ Goto(r, "audit")
       \/ Goto(r, "leaving")
    /\ UNCHANGED <<stopping, n, kind, settings, records, history>>

(* Faulty variant: the count drops and nobody is told. *)
Done_NoBroadcast(r) ==
    /\ pc[r] = "leaving" /\ main # "exited"
    /\ Goto(r, "gone")
    /\ n' = IF kind[r] \in Tracked THEN n - 1 ELSE n
    /\ UNCHANGED <<stopping, kind, settings, records, history>>

(* detachedCounter.done: the count drops under the lock ... *)
Done(r) ==
    /\ pc[r] = "leaving" /\ main # "exited"
    /\ IF kind[r] \in Tracked
       THEN n' = n - 1 /\ Goto(r, "broadcast")
       ELSE n' = n /\ Goto(r, "gone")
    /\ UNCHANGED <<stopping, kind, settings, records, history>>

(* ... and the broadcast follows the unlock. *)
Broadcast(r) ==
    /\ pc[r] = "broadcast" /\ main # "exited"
    /\ Goto(r, "gone")
    /\ waiter' = IF waiter = "waiting" THEN "checking" ELSE waiter
    /\ UNCHANGED <<main, expired, abandoned, n, kind, settings, records, history>>

-----------------------------------------------------------------------------
(***************************************************************************)
(* Runs, by a request or by the scheduler                                  *)
(***************************************************************************)

(* Where a run that has been audited, or that has nothing to report, goes. *)
After(a) == IF a = "scheduler" THEN "select" ELSE "leaving"

(* recoveryclient.Run up to the first byte: paired, it uploads; otherwise  *)
(* it writes a local copy or fails.  The scheduler keeps silent about a    *)
(* server that was never configured.                                       *)
Run(a) ==
    /\ pc[a] = "run" /\ main # "exited"
    /\ \/ StoreOpen /\ {"key", "pairing"} \subseteq rows /\ Goto(a, "upload")
       \/ Goto(a, "audit")
       \/ a = "scheduler" /\ Goto(a, "select")
    /\ UNCHANGED <<stopping, n, kind, settings, records, history>>

(* KyRecovery takes the capsule or does not. *)
Upload(a) ==
    /\ pc[a] = "upload" /\ main # "exited"
    /\ \/ capsule' = [capsule EXCEPT ![a] = "stored"] /\ Goto(a, "receipt")
       \/ UNCHANGED capsule /\ Goto(a, "audit")
    /\ UNCHANGED <<stopping, n, kind, settings, trail, history>>

(* The receipt; without one Run answers ErrReceiptUnrecorded. *)
WriteReceipt(a) ==
    /\ pc[a] = "receipt" /\ main # "exited"
    /\ \/ Succeeds /\ capsule' = [capsule EXCEPT ![a] = "receipt"]
       \/ Fails(a) /\ UNCHANGED capsule
    /\ Goto(a, "audit")
    /\ UNCHANGED <<stopping, n, kind, settings, trail, late>>

(* What the audit row says: that a delivered capsule has no receipt, or    *)
(* anything else (Outcome, and the actions the handlers name).             *)
Outcome(a) == IF capsule[a] = "stored" THEN "unrecorded" ELSE "other"

(* auditBackup and recordRun: a row that cannot be written is only logged. *)
Audit(a) ==
    /\ pc[a] = "audit" /\ main # "exited"
    /\ \/ Succeeds /\ trail' = [trail EXCEPT ![a] = Outcome(a)]
       \/ Fails(a) /\ UNCHANGED trail
    /\ Goto(a, After(a))
    /\ UNCHANGED <<stopping, n, kind, settings, capsule, late>>

(* backupLoop: the ticker, and NextRun read on the context that shutdown   *)
(* cancels: no run is due once it is cancelled, while the schedule is off, *)
(* before its time or when it cannot be read.                              *)
Tick ==
    /\ pc["scheduler"] = "select" /\ ~Cancelled /\ schedule = "on"
    /\ Goto("scheduler", "run")
    /\ capsule' = [capsule EXCEPT !["scheduler"] = "none"]
    /\ trail' = [trail EXCEPT !["scheduler"] = "none"]
    /\ refused' = {f \in refused : f[1] # "scheduler"}
    /\ UNCHANGED <<stopping, n, kind, settings, late>>

(* Faulty variant: a run that is due ends the loop on cancellation. *)
StopLoop_MidRun ==
    /\ pc["scheduler"] \in {"select", "upload", "receipt"} /\ Cancelled /\ main # "exited"
    /\ Goto("scheduler", "ended")
    /\ UNCHANGED <<stopping, n, kind, settings, records, history>>

(* ... or the cancelled context, between runs only. *)
StopLoop ==
    /\ pc["scheduler"] = "select" /\ Cancelled /\ main # "exited"
    /\ Goto("scheduler", "ended")
    /\ UNCHANGED <<stopping, n, kind, settings, records, history>>

-----------------------------------------------------------------------------
(***************************************************************************)
(* Stopping                                                                *)
(***************************************************************************)

(* The signal; Shutdown closes the listener. *)
Signal ==
    /\ main = "serving"
    /\ main' = "draining"
    /\ UNCHANGED <<expired, abandoned, waiter, n, pc, kind, settings, records, history>>

(* A context's deadline: shutdownTimeout while draining, backupWaitTimeout *)
(* over both waits.                                                        *)
DrainTimeout ==
    /\ main = "draining"
    /\ expired' = expired \cup {"drain"}
    /\ UNCHANGED <<main, abandoned, waiter, n, pc, kind, settings, records, history>>

WaitTimeout ==
    /\ main \in {"scheduler", "handlers"}
    /\ expired' = expired \cup {"wait"}
    /\ UNCHANGED <<main, abandoned, waiter, n, pc, kind, settings, records, history>>

(* Shutdown returns, cancel is called, and the wait for the handlers is    *)
(* started before either wait blocks.                                      *)
BeginWait ==
    /\ main = "draining"
    /\ "drain" \in expired \/ \A r \in Requests : pc[r] \in {"idle", "gone"}
    /\ main' = "scheduler" /\ waiter' = "checking"
    /\ UNCHANGED <<expired, abandoned, n, pc, kind, settings, records, history>>

(* WaitDetached: looks at the count under the lock and sleeps on the       *)
(* condition, or returns.                                                  *)
CheckCount ==
    /\ waiter = "checking" /\ main # "exited"
    /\ waiter' = IF n > 0 THEN "waiting" ELSE "done"
    /\ UNCHANGED <<main, expired, abandoned, n, pc, kind, settings, records, history>>

(* Either wait of waitForBackupWork: the work has finished, or the         *)
(* deadline has passed and it is abandoned.                                *)
Finished(w) == IF w = "scheduler" THEN pc["scheduler"] = "ended" ELSE waiter = "done"

(* Faulty variant: the first wait consumes the timer. *)
Wait_OneTimer ==
    /\ main \in {"scheduler", "handlers"}
    /\ \/ Finished(main) /\ UNCHANGED <<abandoned, expired>>
       \/ "wait" \in expired /\ abandoned' = abandoned \cup {main}
          /\ main = "scheduler" /\ UNCHANGED expired
    /\ main' = IF main = "scheduler" THEN "handlers" ELSE "closed"
    /\ UNCHANGED <<waiter, n, pc, kind, settings, records, history>>

(* Faulty variant: a scheduler that is still running is not waited for. *)
Wait_HandlersOnly ==
    /\ main \in {"scheduler", "handlers"}
    /\ \/ main = "handlers" /\ ~Finished(main) /\ "wait" \in expired
          /\ abandoned' = abandoned \cup {main}
       \/ (main = "scheduler" \/ Finished(main)) /\ UNCHANGED abandoned
    /\ main' = IF main = "scheduler" THEN "handlers" ELSE "closed"
    /\ UNCHANGED <<expired, waiter, n, pc, kind, settings, records, history>>

(* The store closes when both are over. *)
Wait ==
    /\ main \in {"scheduler", "handlers"}
    /\ \/ Finished(main) /\ UNCHANGED abandoned
       \/ "wait" \in expired /\ abandoned' = abandoned \cup {main}
    /\ main' = IF main = "scheduler" THEN "handlers" ELSE "closed"
    /\ UNCHANGED <<expired, waiter, n, pc, kind, settings, records, history>>

Exit ==
    /\ main = "closed"
    /\ main' = "exited"
    /\ UNCHANGED <<expired, abandoned, waiter, n, pc, kind, settings, records, history>>

-----------------------------------------------------------------------------
Handle(r) ==
    \/ Arrive(r) \/ ReadFails(r) \/ Dispatch(r) \/ Authenticate(r)
    \/ ClaimPairing(r) \/ StoreKeyFile(r) \/ StoreKeyRow(r) \/ StorePairing(r)
    \/ ClearPairing(r) \/ SetInterval(r) \/ ReadBack(r) \/ Done(r) \/ Broadcast(r)

Deposit(a) == Run(a) \/ Upload(a) \/ WriteReceipt(a) \/ Audit(a)

Loop == Tick \/ StopLoop

Stop == BeginWait \/ Wait \/ Exit

Next ==
    \/ \E r \in Requests : Handle(r)
    \/ \E a \in Actors : Deposit(a)
    \/ Loop \/ Signal \/ DrainTimeout \/ WaitTimeout \/ CheckCount \/ Stop

Spec == Init /\ [][Next]_vars

(* Main is run and timers fire; nothing is asked of handlers, of the       *)
(* scheduler or of KyRecovery.                                             *)
Fairness == WF_vars(Stop) /\ WF_vars(DrainTimeout) /\ WF_vars(WaitTimeout)

-----------------------------------------------------------------------------
(***************************************************************************)
(* Properties                                                              *)
(***************************************************************************)

(* Every variable has its type, and the counter is the number of requests  *)
(* between add and done (detachedCounter).                                 *)
TypeOK ==
    /\ main \in Stages /\ expired \subseteq {"drain", "wait"}
    /\ abandoned \subseteq {"scheduler", "handlers"}
    /\ waiter \in {"off", "checking", "waiting", "done"}
    /\ n = Cardinality(CountedRequests)
    /\ pc \in [Actors -> Outside \cup Steps \cup LoopSteps]
    /\ pc["scheduler"] \in LoopSteps
    /\ \A r \in Requests : pc[r] \in Outside \cup Steps
    /\ kind \in [Requests -> Kinds]
    /\ keyFile \in Requests \cup {NoKey}
    /\ rows \subseteq {"key", "pairing"} /\ schedule \in {"on", "off"}
    /\ capsule \in [Actors -> {"none", "stored", "receipt"}]
    /\ trail \in [Actors -> {"none", "unrecorded", "other"}]
    /\ refused \subseteq Actors \X (Steps \cup LoopSteps) /\ late \subseteq Requests

(* What excuses work that the store did not wait for: the deadline passed  *)
(* and the log says so, or the request was still being read when the drain *)
(* gave up and was dispatched after the wait (tracked, waitForBackupWork). *)
Excused(a) ==
    IF a = "scheduler"
    THEN "scheduler" \in abandoned /\ "wait" \in expired
    ELSE \/ "handlers" \in abandoned /\ "wait" \in expired
         \/ a \in late /\ "drain" \in expired

(* The store closes only after the scheduler loop and every counted        *)
(* handler have finished, but for work that is excused, in whatever order  *)
(* requests are dispatched and finish around the wait.                     *)
StoreOutlivesWork ==
    ~StoreOpen =>
        /\ pc["scheduler"] = "ended" \/ Excused("scheduler")
        /\ \A r \in Requests : Counted(r) => Excused(r)

(* WaitDetached is never asleep over an empty count without a broadcast on *)
(* its way (detachedCounter).                                              *)
NoLostWakeup ==
    waiter = "waiting" /\ n = 0 => \E r \in Requests : pc[r] = "broadcast"

Settled(a) == pc[a] \in {"select", "ended", "gone"} \/ main = "exited"

(* A key pinned on disk is in the audit trail when the handler that pinned *)
(* it is over or the process has exited, whether or not the administrator  *)
(* stayed connected.  Otherwise the work is excused, or the open store     *)
(* refused the key's row, on which the handler gives up, or the audit row  *)
(* itself (handlePairRemoteRecovery, handlePinKey).                        *)
PinIsRecorded ==
    keyFile # NoKey /\ Settled(keyFile) =>
        \/ trail[keyFile] # "none"
        \/ {<<keyFile, "keyRow">>, <<keyFile, "audit">>} \cap refused # {}
        \/ Excused(keyFile)

(* What the comment in handlePairRemoteRecovery says: a key pinned on disk *)
(* by a pairing is recorded whatever happens next.  A store that refuses   *)
(* the audit row itself is let off, like work that is excused.             *)
PairedPinInTrail ==
    keyFile # NoKey /\ kind[keyFile] = "pair" /\ Settled(keyFile) =>
        \/ trail[keyFile] # "none"
        \/ <<keyFile, "audit">> \in refused
        \/ Excused(keyFile)

(* When a run is over or the process has exited, a capsule KyRecovery      *)
(* holds has its receipt and its audit row, or the open store refused the  *)
(* one that is missing, and an audit row over a missing receipt says so    *)
(* (backupLoop, handleRunBackup).                                          *)
DepositIsRecorded ==
    \A a \in Actors :
        capsule[a] # "none" /\ Settled(a) =>
            \/ /\ capsule[a] = "receipt" \/ <<a, "receipt">> \in refused
               /\ trail[a] = Outcome(a) \/ <<a, "audit">> \in refused
            \/ Excused(a)

(* A stored pairing always has its recovery key, on disk and pinned in the *)
(* settings, whatever failed in between (handlePairRemoteRecovery).        *)
PairingHasKey == "pairing" \in rows => keyFile # NoKey /\ "key" \in rows

(* A signalled server stops, whatever hangs (runServer,                    *)
(* waitForBackupWork).                                                     *)
ShutdownEnds == main = "draining" ~> main = "exited"

=============================================================================

-------------------------- MODULE BackupWorkProofs --------------------------
(***************************************************************************)
(* Proofs about BackupWork for any number of requests.                     *)
(***************************************************************************)
EXTENDS BackupWork, FiniteSetTheorems, TLAPS

(* What each stage of the stop has established. *)
StageInv ==
    /\ waiter = "off" <=> ~Cancelled
    /\ abandoned # {} => "wait" \in expired
    /\ main \in {"handlers", "closed", "exited"} =>
          pc["scheduler"] = "ended" \/ "scheduler" \in abandoned
    /\ ~StoreOpen => waiter = "done" \/ "handlers" \in abandoned

(* The wait for the handlers returned over an empty count, and requests    *)
(* that can still be dispatched then are leftovers of an expired drain.    *)
WaitInv ==
    /\ waiter = "done" => \A r \in Requests : Counted(r) => r \in late
    /\ Cancelled /\ "drain" \notin expired => \A r \in Requests : pc[r] \in {"idle", "gone"}
    /\ late # {} => "drain" \in expired

(* Each step belongs to the handlers that take it. *)
KindInv ==
    \A r \in Requests :
        /\ pc[r] \in {"claim", "keyFile", "keyRow", "pairing"} => kind[r] \in {"pair", "pin"}
        /\ pc[r] \in {"run", "upload", "receipt"} => kind[r] = "deposit"

(* The key file comes before the rows, the rows before the pairing. *)
KeyInv ==
    /\ rows # {} => keyFile # NoKey
    /\ "pairing" \in rows => "key" \in rows
    /\ \A r \in Requests :
         /\ pc[r] = "keyRow" => keyFile # NoKey
         /\ pc[r] = "pairing" => "key" \in rows

(* The handler that created the key file is on its way to the audit row,   *)
(* or its pin is accounted for.                                            *)
PinKnown ==
    \/ trail[keyFile] # "none"
    \/ <<keyFile, "keyRow">> \in refused \/ <<keyFile, "audit">> \in refused
    \/ Excused(keyFile)

PinInv ==
    keyFile # NoKey =>
        /\ kind[keyFile] \in {"pair", "pin"}
        /\ pc[keyFile] \in {"keyRow", "pairing", "audit"} \/ PinKnown

(* So is a run on its way to the receipt and to the audit row. *)
ReceiptKnown(a) == <<a, "receipt">> \in refused \/ Excused(a)
RunKnown(a) == trail[a] = Outcome(a) \/ <<a, "audit">> \in refused \/ Excused(a)

DepositInv ==
    \A a \in Actors :
        /\ capsule[a] # "none" /\ a \in Requests => kind[a] = "deposit"
        /\ capsule[a] = "stored" => pc[a] = "receipt" \/ ReceiptKnown(a)
        /\ capsule[a] # "none" => pc[a] \in {"receipt", "audit"} \/ RunKnown(a)

Inv == /\ TypeOK /\ StageInv /\ WaitInv /\ NoLostWakeup
       /\ KindInv /\ KeyInv /\ PinInv /\ DepositInv

-----------------------------------------------------------------------------
(* The scheduler is not a request. *)
LEMMA ActorFacts ==
    /\ "scheduler" \in Actors /\ Requests \subseteq Actors
    /\ \A r \in Requests : r # "scheduler" /\ r # NoKey
    /\ \A a \in Actors : a \in Requests \/ a = "scheduler"
  BY RequestsAssumption DEF Actors

(* The counted requests are finitely many. *)
LEMMA CountedFinite == IsFiniteSet(CountedRequests) /\ Cardinality(CountedRequests) \in Nat
<1>1. CountedRequests \subseteq Requests
  BY DEF CountedRequests
<1> QED
  BY <1>1, RequestsAssumption, FS_Subset, FS_CardinalityType

(* A request that moves within its handler, or outside it, is counted as   *)
(* before.                                                                 *)
LEMMA SameCount ==
    ASSUME TypeOK, NEW a \in Actors, NEW s, Goto(a, s), kind' = kind,
           a \in Requests => (pc[a] \in Outside <=> s \in Outside) \/ kind[a] \notin Tracked
    PROVE  CountedRequests' = CountedRequests
<1>1. \A r \in Requests : pc'[r] = IF r = a THEN s ELSE pc[r]
  BY ActorFacts DEF TypeOK, Goto
<1> QED
  BY <1>1 DEF CountedRequests, Counted

(* The initial state has its types and counts nobody. *)
LEMMA InitType == Init => TypeOK
<1> SUFFICES ASSUME Init PROVE TypeOK
  OBVIOUS
<1>1. CountedRequests = {}
  BY ActorFacts DEF Init, CountedRequests, Counted, Outside
<1>2. n = Cardinality(CountedRequests)
  BY <1>1, FS_EmptySet DEF Init
<1> QED
  BY <1>2, ActorFacts DEF Init, TypeOK, Stages, Outside, Steps, LoopSteps, Actors

(* The outcome of a statement adds at most the statement to the refused    *)
(* ones.                                                                   *)
LEMMA OutcomeType ==
    ASSUME TypeOK, NEW a \in Actors, Succeeds \/ Fails(a)
    PROVE  /\ refused \subseteq refused'
           /\ pc[a] \in Steps \cup LoopSteps => refused' \subseteq Actors \X (Steps \cup LoopSteps)
  BY DEF TypeOK, Succeeds, Fails

(* Every step keeps the types, and the count in step with add and done. *)
LEMMA StepType == TypeOK /\ [Next]_vars => TypeOK'
<1> SUFFICES ASSUME TypeOK, [Next]_vars PROVE TypeOK'
  OBVIOUS
<1> USE ActorFacts
<1>1. ASSUME NEW r \in Requests, Arrive(r) PROVE TypeOK'
  <2>1. CountedRequests' = CountedRequests
    BY <1>1, SameCount DEF Arrive, Outside
  <2> QED
    BY <1>1, <2>1 DEF Arrive, TypeOK, Goto, stopping, settings, records, history, Outside, Steps, LoopSteps, Stages
<1>2. ASSUME NEW r \in Requests, ReadFails(r) PROVE TypeOK'
  <2>1. CountedRequests' = CountedRequests
    BY <1>2, SameCount DEF ReadFails, Outside
  <2> QED
    BY <1>2, <2>1 DEF ReadFails, TypeOK, Goto, stopping, settings, records, history, Outside, Steps, LoopSteps, Stages
<1>3. ASSUME NEW r \in Requests, Authenticate(r) PROVE TypeOK'
  <2>1. CountedRequests' = CountedRequests
    BY <1>3, SameCount DEF Authenticate, Outside, First, Kinds, Tracked, TypeOK
  <2> QED
    BY <1>3, <2>1 DEF Authenticate, TypeOK, Goto, stopping, settings, records, history, Outside, Steps, LoopSteps, Stages, First, Kinds, Tracked
<1>4. ASSUME NEW r \in Requests, ClaimPairing(r) PROVE TypeOK'
  <2>1. CountedRequests' = CountedRequests
    BY <1>4, SameCount DEF ClaimPairing, Outside
  <2> QED
    BY <1>4, <2>1 DEF ClaimPairing, TypeOK, Goto, stopping, settings, records, history, Outside, Steps, LoopSteps, Stages
<1>5. ASSUME NEW r \in Requests, StoreKeyFile(r) PROVE TypeOK'
  <2>1. CountedRequests' = CountedRequests
    BY <1>5, SameCount DEF StoreKeyFile, Outside
  <2> QED
    BY <1>5, <2>1 DEF StoreKeyFile, TypeOK, Goto, stopping, settings, records, history, Outside, Steps, LoopSteps, Stages
<1>6. ASSUME NEW r \in Requests, StoreKeyRow(r) PROVE TypeOK'
  <2>1. CountedRequests' = CountedRequests
    BY <1>6, SameCount DEF StoreKeyRow, Outside
  <2>2. rows' \subseteq {"key", "pairing"}
    BY <1>6 DEF StoreKeyRow, TypeOK
  <2>3. UNCHANGED <<main, expired, abandoned, waiter, n, kind, keyFile, schedule,
                    capsule, trail, late>>
    BY <1>6 DEF StoreKeyRow, stopping, records
  <2>4. \E s \in Steps : Goto(r, s)
    BY <1>6 DEF StoreKeyRow, Steps
  <2>5. refused' \subseteq Actors \X (Steps \cup LoopSteps)
    BY <1>6, OutcomeType DEF StoreKeyRow, Steps
  <2> QED
    BY <2>1, <2>2, <2>3, <2>4, <2>5 DEF TypeOK, Goto
<1>7. ASSUME NEW r \in Requests, StorePairing(r) PROVE TypeOK'
  <2>1. CountedRequests' = CountedRequests
    BY <1>7, SameCount DEF StorePairing, Outside
  <2>2. rows' \subseteq {"key", "pairing"}
    BY <1>7 DEF StorePairing, TypeOK
  <2>3. UNCHANGED <<main, expired, abandoned, waiter, n, kind, keyFile, schedule,
                    capsule, trail, refused, late>>
    BY <1>7 DEF StorePairing, stopping, records, history
  <2>4. \E s \in Steps : Goto(r, s)
    BY <1>7 DEF StorePairing, Steps
  <2> QED
    BY <2>1, <2>2, <2>3, <2>4 DEF TypeOK, Goto
<1>8. ASSUME NEW r \in Requests, ClearPairing(r) PROVE TypeOK'
  <2>1. CountedRequests' = CountedRequests
    BY <1>8, SameCount DEF ClearPairing, Outside
  <2>2. rows' \subseteq {"key", "pairing"}
    BY <1>8 DEF ClearPairing, TypeOK
  <2>3. UNCHANGED <<main, expired, abandoned, waiter, n, kind, keyFile, schedule,
                    capsule, trail, refused, late>>
    BY <1>8 DEF ClearPairing, stopping, records, history
  <2>4. \E s \in Steps : Goto(r, s)
    BY <1>8 DEF ClearPairing, Steps
  <2> QED
    BY <2>1, <2>2, <2>3, <2>4 DEF TypeOK, Goto
<1>9. ASSUME NEW r \in Requests, SetInterval(r) PROVE TypeOK'
  <2>1. CountedRequests' = CountedRequests
    BY <1>9, SameCount DEF SetInterval, Outside
  <2> QED
    BY <1>9, <2>1 DEF SetInterval, TypeOK, Goto, stopping, settings, records, history, Outside, Steps, LoopSteps, Stages
<1>10. ASSUME NEW r \in Requests, ReadBack(r) PROVE TypeOK'
  <2>1. CountedRequests' = CountedRequests
    BY <1>10, SameCount DEF ReadBack, Outside
  <2> QED
    BY <1>10, <2>1 DEF ReadBack, TypeOK, Goto, stopping, settings, records, history, Outside, Steps, LoopSteps, Stages
<1>11. ASSUME NEW r \in Requests, Broadcast(r) PROVE TypeOK'
  <2>1. CountedRequests' = CountedRequests
    BY <1>11, SameCount DEF Broadcast, Outside
  <2> QED
    BY <1>11, <2>1 DEF Broadcast, TypeOK, Goto, stopping, settings, records, history, Outside, Steps, LoopSteps, Stages
<1>12. ASSUME NEW r \in Requests, Dispatch(r) PROVE TypeOK'
  <2>1. \A q \in Requests : pc'[q] = IF q = r THEN "auth" ELSE pc[q]
    BY <1>12 DEF Dispatch, Goto, TypeOK
  <2>2. n' = Cardinality(CountedRequests')
    <3>1. CASE kind[r] \in Tracked
      <4>1. CountedRequests' = CountedRequests \cup {r} /\ r \notin CountedRequests
        BY <1>12, <2>1, <3>1 DEF Dispatch, CountedRequests, Counted, Outside
      <4>2. n' = n + 1
        BY <1>12, <3>1 DEF Dispatch
      <4> QED
        BY <4>1, <4>2, CountedFinite, FS_AddElement DEF TypeOK
    <3>2. CASE kind[r] \notin Tracked
      <4>1. CountedRequests' = CountedRequests
        BY <1>12, <2>1, <3>2 DEF Dispatch, CountedRequests, Counted
      <4>2. n' = n
        BY <1>12, <3>2 DEF Dispatch
      <4> QED
        BY <4>1, <4>2 DEF TypeOK
    <3> QED
      BY <3>1, <3>2
  <2> QED
    BY <1>12, <2>2 DEF Dispatch, TypeOK, Goto, stopping, settings, records, history, Outside, Steps, LoopSteps, Stages
<1>13. ASSUME NEW r \in Requests, Done(r) PROVE TypeOK'
  <2>1. \A q \in Requests : q # r => pc'[q] = pc[q]
    BY <1>13 DEF Done, Goto, TypeOK
  <2>2. pc'[r] \in {"broadcast", "gone"}
    BY <1>13 DEF Done, Goto, TypeOK
  <2>3. n' = Cardinality(CountedRequests')
    <3>1. CASE kind[r] \in Tracked
      <4>1. CountedRequests' = CountedRequests \ {r} /\ r \in CountedRequests
        BY <1>13, <2>1, <2>2, <3>1 DEF Done, CountedRequests, Counted, Outside
      <4>2. n' = n - 1
        BY <1>13, <3>1 DEF Done
      <4> QED
        BY <4>1, <4>2, CountedFinite, FS_RemoveElement DEF TypeOK
    <3>2. CASE kind[r] \notin Tracked
      <4>1. CountedRequests' = CountedRequests
        BY <1>13, <2>1, <3>2 DEF Done, CountedRequests, Counted
      <4>2. n' = n
        BY <1>13, <3>2 DEF Done
      <4> QED
        BY <4>1, <4>2 DEF TypeOK
    <3> QED
      BY <3>1, <3>2
  <2> QED
    BY <1>13, <2>3 DEF Done, TypeOK, Goto, stopping, settings, records, history, Outside, Steps, LoopSteps, Stages
<1>14. ASSUME NEW a \in Actors, Run(a) PROVE TypeOK'
  <2>1. CountedRequests' = CountedRequests
    BY <1>14, SameCount DEF Run, After, Outside
  <2> QED
    BY <1>14, <2>1 DEF Run, After, TypeOK, Goto, stopping, settings, records, history, Outside, Steps, LoopSteps, Stages
<1>15. ASSUME NEW a \in Actors, Upload(a) PROVE TypeOK'
  <2>1. CountedRequests' = CountedRequests
    BY <1>15, SameCount DEF Upload, After, Outside
  <2> QED
    BY <1>15, <2>1 DEF Upload, After, TypeOK, Goto, stopping, settings, records, history, Outside, Steps, LoopSteps, Stages
<1>16. ASSUME NEW a \in Actors, WriteReceipt(a) PROVE TypeOK'
  <2>1. CountedRequests' = CountedRequests
    BY <1>16, SameCount DEF WriteReceipt, After, Outside
  <2>2. refused' \subseteq Actors \X (Steps \cup LoopSteps)
    BY <1>16, OutcomeType DEF WriteReceipt, Steps
  <2>3. capsule' \in [Actors -> {"none", "stored", "receipt"}]
    BY <1>16 DEF WriteReceipt, TypeOK
  <2>4. UNCHANGED <<main, expired, abandoned, waiter, n, kind, keyFile, rows, schedule, trail, late>>
    BY <1>16 DEF WriteReceipt, stopping, settings
  <2>5. Goto(a, "audit")
    BY <1>16 DEF WriteReceipt
  <2> QED
    BY <2>1, <2>2, <2>3, <2>4, <2>5 DEF TypeOK, Goto, Outside, Steps, LoopSteps, Actors
<1>17. ASSUME NEW a \in Actors, Audit(a) PROVE TypeOK'
  <2>1. CountedRequests' = CountedRequests
    BY <1>17, SameCount DEF Audit, After, Outside
  <2>2. refused' \subseteq Actors \X (Steps \cup LoopSteps)
    BY <1>17, OutcomeType DEF Audit, Steps
  <2>3. trail' \in [Actors -> {"none", "unrecorded", "other"}]
    BY <1>17 DEF Audit, Outcome, TypeOK
  <2>4. UNCHANGED <<main, expired, abandoned, waiter, n, kind, keyFile, rows, schedule, capsule, late>>
    BY <1>17 DEF Audit, stopping, settings
  <2>5. Goto(a, After(a))
    BY <1>17 DEF Audit
  <2> QED
    BY <2>1, <2>2, <2>3, <2>4, <2>5 DEF TypeOK, Goto, After, Outside, Steps, LoopSteps
<1>18. CASE Tick
  <2>1. CountedRequests' = CountedRequests
    BY <1>18, SameCount DEF Tick
  <2>2. refused' \subseteq Actors \X (Steps \cup LoopSteps)
    BY <1>18 DEF Tick, TypeOK
  <2>3. /\ capsule' \in [Actors -> {"none", "stored", "receipt"}]
        /\ trail' \in [Actors -> {"none", "unrecorded", "other"}]
    BY <1>18 DEF Tick, TypeOK
  <2> QED
    BY <1>18, <2>1, <2>2, <2>3 DEF Tick, TypeOK, Goto, stopping, settings, Outside, Steps, LoopSteps, Stages
<1>19. CASE StopLoop
  <2>1. CountedRequests' = CountedRequests
    BY <1>19, SameCount DEF StopLoop
  <2> QED
    BY <1>19, <2>1 DEF StopLoop, TypeOK, Goto, stopping, settings, records, history, Outside, Steps, LoopSteps, Stages
<1>20. CASE Signal
  BY <1>20 DEF Signal, TypeOK, CountedRequests, Counted, stopping, settings, records, history, Stages
<1>21. CASE DrainTimeout
  BY <1>21 DEF DrainTimeout, TypeOK, CountedRequests, Counted, stopping, settings, records, history, Stages
<1>22. CASE WaitTimeout
  BY <1>22 DEF WaitTimeout, TypeOK, CountedRequests, Counted, stopping, settings, records, history, Stages
<1>23. CASE CheckCount
  BY <1>23 DEF CheckCount, TypeOK, CountedRequests, Counted, stopping, settings, records, history, Stages
<1>24. CASE BeginWait
  BY <1>24 DEF BeginWait, TypeOK, CountedRequests, Counted, stopping, settings, records, history, Stages
<1>25. CASE Wait
  BY <1>25 DEF Wait, TypeOK, CountedRequests, Counted, stopping, settings, records, history, Stages
<1>26. CASE Exit
  BY <1>26 DEF Exit, TypeOK, CountedRequests, Counted, stopping, settings, records, history, Stages
<1>27. CASE UNCHANGED vars
  BY <1>27 DEF vars, TypeOK, CountedRequests, Counted, stopping, settings, records, history, Stages
<1> QED
  BY <1>1, <1>2, <1>3, <1>4, <1>5, <1>6, <1>7, <1>8, <1>9, <1>10, <1>11, <1>12, <1>13, <1>14, <1>15, <1>16, <1>17, <1>18, <1>19, <1>20, <1>21, <1>22, <1>23, <1>24, <1>25, <1>26, <1>27 DEF Next, Handle, Deposit, Loop, Stop

-----------------------------------------------------------------------------
(* What a step of a request leaves alone. *)
LEMMA HandleFrame ==
    ASSUME TypeOK, NEW r \in Requests, Handle(r)
    PROVE  /\ UNCHANGED <<main, expired, abandoned, kind, capsule, trail>>
           /\ refused \subseteq refused'
           /\ \A a \in Actors : a # r => pc'[a] = pc[a]
           /\ waiter' = waiter \/ (waiter = "waiting" /\ waiter' = "checking")
           /\ late \subseteq late'
  BY ActorFacts DEF Handle, Arrive, ReadFails, Dispatch, Authenticate, ClaimPairing,
      StoreKeyFile, StoreKeyRow, StorePairing, ClearPairing, SetInterval, ReadBack, Done,
      Broadcast, Succeeds, Fails,
      TypeOK, Goto, stopping, settings, records, history

(* What a step of a run leaves alone. *)
LEMMA DepositFrame ==
    ASSUME TypeOK, NEW a \in Actors, Deposit(a)
    PROVE  /\ UNCHANGED <<main, expired, abandoned, waiter, n, kind, keyFile, rows,
                          schedule, late>>
           /\ \A b \in Actors : b # a => /\ pc'[b] = pc[b] /\ capsule'[b] = capsule[b]
                                         /\ trail'[b] = trail[b]
                                         /\ \A s : <<b, s>> \in refused => <<b, s>> \in refused'
           /\ pc[a] \in {"run", "upload", "receipt", "audit"}
           /\ pc'[a] \in {"upload", "receipt", "audit", "select", "leaving"}
           /\ a \in Requests => pc'[a] # "select"
  BY ActorFacts DEF Deposit, Run, Upload, WriteReceipt, Audit, After, Succeeds, Fails,
      TypeOK, Goto, stopping, settings, records, history

(* What a step of the scheduler between runs leaves alone. *)
LEMMA LoopFrame ==
    ASSUME TypeOK, Loop
    PROVE  /\ UNCHANGED <<main, expired, abandoned, waiter, n, kind, keyFile, rows,
                          schedule, late>>
           /\ \A r \in Requests : /\ pc'[r] = pc[r] /\ capsule'[r] = capsule[r]
                                  /\ trail'[r] = trail[r]
                                  /\ \A s : <<r, s>> \in refused => <<r, s>> \in refused'
           /\ pc["scheduler"] = "select"
           /\ capsule'["scheduler"] = "none" \/ UNCHANGED <<capsule, trail, refused>>
  BY ActorFacts DEF Loop, Tick, StopLoop,
      TypeOK, Goto, stopping, settings, records, history

(* The steps of main, of its timers and of the goroutine in WaitDetached. *)
Main == Signal \/ DrainTimeout \/ WaitTimeout \/ CheckCount \/ Stop

(* What they leave alone. *)
LEMMA MainFrame ==
    ASSUME Main \/ UNCHANGED vars
    PROVE  /\ UNCHANGED <<n, pc, kind, keyFile, rows, schedule, capsule, trail,
                          refused, late>>
           /\ expired \subseteq expired' /\ abandoned \subseteq abandoned'
  BY DEF Main, Stop, Signal, DrainTimeout, WaitTimeout, CheckCount, BeginWait, Wait, Exit,
      vars, settings, records, history

(* The steps by actor. *)
LEMMA StepCases ==
    ASSUME [Next]_vars
    PROVE  \/ \E r \in Requests : Handle(r)
           \/ \E a \in Actors : Deposit(a)
           \/ Loop
           \/ Main \/ UNCHANGED vars
  BY DEF Next, Main

(* An excuse stays one. *)
LEMMA ExcuseStays ==
    ASSUME TypeOK, [Next]_vars, NEW a \in Actors, Excused(a)
    PROVE  Excused(a)'
<1>1. expired \subseteq expired' /\ abandoned \subseteq abandoned' /\ late \subseteq late'
  BY StepCases, HandleFrame, DepositFrame, LoopFrame, MainFrame
<1> QED
  BY <1>1 DEF Excused

(* Each stage of the stop establishes what the next one relies on. *)
LEMMA StageStep ==
    ASSUME TypeOK, StageInv, [Next]_vars
    PROVE  StageInv'
<1>1. ASSUME NEW r \in Requests, Handle(r) PROVE StageInv'
  BY <1>1, HandleFrame, ActorFacts DEF StageInv, StoreOpen, Cancelled
<1>2. ASSUME NEW a \in Actors, Deposit(a) PROVE StageInv'
  BY <1>2, DepositFrame, ActorFacts DEF StageInv, StoreOpen, Cancelled
<1>3. CASE Loop
  BY <1>3, LoopFrame DEF StageInv, StoreOpen, Cancelled
<1>4. CASE Signal \/ DrainTimeout \/ WaitTimeout \/ CheckCount \/ BeginWait
  BY <1>4 DEF Signal, DrainTimeout, WaitTimeout, CheckCount, BeginWait, StageInv, StoreOpen, Cancelled
<1>5. CASE Wait
  BY <1>5 DEF Wait, Finished, StageInv, StoreOpen, Cancelled
<1>6. CASE Exit \/ UNCHANGED vars
  BY <1>6 DEF Exit, vars, StageInv, StoreOpen, Cancelled
<1> QED
  BY <1>1, <1>2, <1>3, <1>4, <1>5, <1>6, StepCases DEF Main, Stop

(* A request is counted from its dispatch to its last step. *)
LEMMA CountedBefore ==
    ASSUME TypeOK, NEW r \in Requests, Handle(r), Counted(r)'
    PROVE  Counted(r) \/ Dispatch(r)
  BY ActorFacts DEF Handle, Arrive, ReadFails, Dispatch, Authenticate, ClaimPairing,
      StoreKeyFile, StoreKeyRow, StorePairing, ClearPairing, SetInterval, ReadBack, Done,
      Broadcast,
      TypeOK, Goto, Counted, Outside, stopping, settings, records, history

(* A request counted after WaitDetached returned was dispatched after it,  *)
(* and only an expired drain leaves one to dispatch.                       *)
LEMMA WaitStep ==
    ASSUME TypeOK, StageInv, WaitInv, [Next]_vars
    PROVE  WaitInv'
<1>1. ASSUME NEW r \in Requests, Handle(r) PROVE WaitInv'
  <2>1. CASE Dispatch(r)
    <3>1. kind' = kind /\ main' = main /\ waiter' = waiter /\ expired' = expired
      BY <2>1 DEF Dispatch, stopping
    <3>2. \A q \in Requests : pc'[q] = IF q = r THEN "auth" ELSE pc[q]
      BY <2>1, ActorFacts DEF Dispatch, Goto, TypeOK
    <3>3. late' = IF waiter = "done" THEN late \cup {r} ELSE late
      BY <2>1 DEF Dispatch
    <3>4. Cancelled => "drain" \in expired
      BY <2>1 DEF Dispatch, WaitInv
    <3> QED
      BY <3>1, <3>2, <3>3, <3>4 DEF WaitInv, StageInv, Cancelled, Counted
  <2>2. CASE ~Dispatch(r)
    <3>1. late' = late
      BY <1>1, <2>2 DEF Handle, Arrive, ReadFails, Dispatch, Authenticate, ClaimPairing,
      StoreKeyFile, StoreKeyRow, StorePairing, ClearPairing, SetInterval, ReadBack, Done,
      Broadcast, history
    <3>2. Cancelled => pc[r] \notin {"idle", "gone"}
      BY <1>1 DEF Cancelled, Handle, Arrive, ReadFails, Dispatch, Authenticate, ClaimPairing,
      StoreKeyFile, StoreKeyRow, StorePairing, ClearPairing, SetInterval, ReadBack, Done,
      Broadcast
    <3>3. waiter' = "done" => \A q \in Requests : Counted(q)' => q \in late'
      BY <1>1, <2>2, <3>1, HandleFrame, CountedBefore, ActorFacts DEF WaitInv, Counted
    <3> QED
      BY <1>1, <3>1, <3>2, <3>3, HandleFrame, ActorFacts DEF WaitInv, Cancelled
  <2> QED
    BY <2>1, <2>2
<1>2. ASSUME NEW a \in Actors, Deposit(a) PROVE WaitInv'
  <2>1. \A r \in Requests : Counted(r)' => Counted(r)
    BY <1>2, DepositFrame, ActorFacts DEF Counted, Outside
  <2> QED
    BY <1>2, <2>1, DepositFrame, ActorFacts DEF WaitInv, Cancelled
<1>3. CASE Loop
  BY <1>3, LoopFrame DEF WaitInv, Cancelled, Counted
<1>4. CASE CheckCount
  <2>1. n = 0 => CountedRequests = {}
    BY CountedFinite, FS_EmptySet DEF TypeOK
  <2>2. waiter' = "done" => n = 0
    BY <1>4, CountedFinite DEF CheckCount, TypeOK
  <2> QED
    BY <1>4, <2>1, <2>2 DEF CheckCount, WaitInv, CountedRequests, Counted, Cancelled, history
<1>5. CASE BeginWait
  BY <1>5 DEF BeginWait, WaitInv, Counted, Cancelled, history
<1>6. CASE Signal \/ DrainTimeout \/ WaitTimeout \/ Wait \/ Exit \/ UNCHANGED vars
  <2>1. UNCHANGED <<waiter, pc, kind, late>> /\ expired \subseteq expired'
    BY <1>6, MainFrame DEF Signal, DrainTimeout, WaitTimeout, Wait, Exit, vars, Main, Stop
  <2>2. Cancelled' => Cancelled
    BY <1>6 DEF Signal, DrainTimeout, WaitTimeout, Wait, Exit, vars, Cancelled
  <2> QED
    BY <2>1, <2>2 DEF WaitInv, Counted
<1> QED
  BY <1>1, <1>2, <1>3, <1>4, <1>5, <1>6, StepCases DEF Main, Stop

(* Only done takes the count to zero, and its broadcast is still to come;  *)
(* the wait looks at the count before it sleeps.                           *)
LEMMA WakeupStep ==
    ASSUME TypeOK, NoLostWakeup, [Next]_vars
    PROVE  NoLostWakeup'
<1>0. n \in Nat
  BY CountedFinite DEF TypeOK
<1>1. ASSUME NEW r \in Requests, Handle(r) PROVE NoLostWakeup'
  <2>1. CASE Done(r)
    BY <1>1, <2>1, ActorFacts, HandleFrame
    DEF Done, NoLostWakeup, Goto, TypeOK, Outside, stopping
  <2>2. CASE Broadcast(r)
    BY <2>2 DEF Broadcast, NoLostWakeup
  <2>3. CASE Dispatch(r)
    BY <1>0, <2>3 DEF Dispatch, NoLostWakeup, Goto, stopping, TypeOK, Actors
  <2>4. CASE ~Done(r) /\ ~Broadcast(r) /\ ~Dispatch(r)
    <3>1. n' = n /\ waiter' = waiter
      BY <1>1, <2>4 DEF Handle, Arrive, ReadFails, Dispatch, Authenticate, ClaimPairing,
      StoreKeyFile, StoreKeyRow, StorePairing, ClearPairing, SetInterval, ReadBack, Done,
      Broadcast, stopping
    <3>2. pc[r] # "broadcast"
      BY <1>1, <2>4 DEF Handle, Arrive, ReadFails, Dispatch, Authenticate, ClaimPairing,
      StoreKeyFile, StoreKeyRow, StorePairing, ClearPairing, SetInterval, ReadBack, Done,
      Broadcast
    <3> QED
      BY <1>1, <3>1, <3>2, HandleFrame, ActorFacts DEF NoLostWakeup
  <2> QED
    BY <2>1, <2>2, <2>3, <2>4
<1>2. ASSUME NEW a \in Actors, Deposit(a) PROVE NoLostWakeup'
  BY <1>2, DepositFrame, ActorFacts DEF NoLostWakeup
<1>3. CASE Loop
  BY <1>3, LoopFrame DEF NoLostWakeup
<1>4. CASE CheckCount
  BY <1>4 DEF CheckCount, NoLostWakeup
<1>5. CASE BeginWait
  BY <1>5 DEF BeginWait, NoLostWakeup
<1>6. CASE Signal \/ DrainTimeout \/ WaitTimeout \/ Wait \/ Exit \/ UNCHANGED vars
  BY <1>6 DEF Signal, DrainTimeout, WaitTimeout, Wait, Exit, vars, NoLostWakeup
<1> QED
  BY <1>1, <1>2, <1>3, <1>4, <1>5, <1>6, StepCases DEF Main, Stop

(* Every step stays within the handler of its kind. *)
LEMMA KindStep ==
    ASSUME TypeOK, KindInv, [Next]_vars
    PROVE  KindInv'
<1>1. ASSUME NEW r \in Requests, Handle(r) PROVE KindInv'
  <2>1. /\ pc'[r] \in {"claim", "keyFile", "keyRow", "pairing"} => kind[r] \in {"pair", "pin"}
        /\ pc'[r] \in {"run", "upload", "receipt"} => kind[r] = "deposit"
    <3>1. CASE Authenticate(r)
      BY <3>1, ActorFacts DEF Authenticate, First, Goto, TypeOK, Kinds, Tracked
    <3>2. CASE ~Authenticate(r)
      BY <1>1, <3>2, ActorFacts DEF Handle, Arrive, ReadFails, Dispatch, Authenticate, ClaimPairing,
      StoreKeyFile, StoreKeyRow, StorePairing, ClearPairing, SetInterval, ReadBack, Done,
      Broadcast, Goto, TypeOK, KindInv, settings
    <3> QED
      BY <3>1, <3>2
  <2> QED
    BY <1>1, <2>1, HandleFrame, ActorFacts DEF KindInv
<1>2. ASSUME NEW a \in Actors, Deposit(a) PROVE KindInv'
  <2>1. pc'[a] \in {"upload", "receipt"} => pc[a] \in {"run", "upload"}
    BY <1>2 DEF Deposit, Run, Upload, WriteReceipt, Audit, After, Goto, TypeOK
  <2> QED
    BY <1>2, <2>1, DepositFrame, ActorFacts DEF KindInv
<1>3. CASE Loop
  BY <1>3, LoopFrame DEF KindInv
<1>4. CASE Main \/ UNCHANGED vars
  BY <1>4, MainFrame DEF KindInv
<1> QED
  BY <1>1, <1>2, <1>3, <1>4, StepCases

(* Nothing takes back the key file or its row. *)
LEMMA KeyStep ==
    ASSUME TypeOK, KeyInv, [Next]_vars
    PROVE  KeyInv'
<1>1. ASSUME NEW r \in Requests, Handle(r) PROVE KeyInv'
  <2>1. CASE StoreKeyFile(r)
    BY <2>1, ActorFacts DEF StoreKeyFile, KeyInv, Goto, TypeOK
  <2>2. CASE StoreKeyRow(r)
    BY <2>2, ActorFacts DEF StoreKeyRow, KeyInv, Goto, TypeOK
  <2>3. CASE StorePairing(r)
    BY <2>3, ActorFacts DEF StorePairing, KeyInv, Goto, TypeOK
  <2>4. CASE ClearPairing(r)
    BY <2>4, ActorFacts DEF ClearPairing, KeyInv, Goto, TypeOK
  <2>5. CASE ~StoreKeyFile(r) /\ ~StoreKeyRow(r) /\ ~StorePairing(r) /\ ~ClearPairing(r)
    <3>1. keyFile' = keyFile /\ rows' = rows
      BY <1>1, <2>5 DEF Handle, Arrive, ReadFails, Dispatch, Authenticate, ClaimPairing,
      StoreKeyFile, StoreKeyRow, StorePairing, ClearPairing, SetInterval, ReadBack, Done,
      Broadcast, settings
    <3>2. pc'[r] \notin {"keyRow", "pairing"}
      BY <1>1, <2>5, ActorFacts DEF Handle, Arrive, ReadFails, Dispatch, Authenticate, ClaimPairing,
      StoreKeyFile, StoreKeyRow, StorePairing, ClearPairing, SetInterval, ReadBack, Done,
      Broadcast, Goto, TypeOK, First, Kinds, Tracked
    <3> QED
      BY <1>1, <3>1, <3>2, HandleFrame, ActorFacts DEF KeyInv
  <2> QED
    BY <2>1, <2>2, <2>3, <2>4, <2>5
<1>2. ASSUME NEW a \in Actors, Deposit(a) PROVE KeyInv'
  BY <1>2, DepositFrame, ActorFacts DEF KeyInv
<1>3. CASE Loop
  BY <1>3, LoopFrame DEF KeyInv
<1>4. CASE Main \/ UNCHANGED vars
  BY <1>4, MainFrame DEF KeyInv
<1> QED
  BY <1>1, <1>2, <1>3, <1>4, StepCases

(* The store has waited for whatever is still running, or it is excused. *)
LEMMA Outlives ==
    ASSUME StageInv, WaitInv
    PROVE  StoreOutlivesWork
<1> SUFFICES ASSUME ~StoreOpen PROVE StoreOutlivesWork!2
  BY DEF StoreOutlivesWork
<1>1. main \in {"closed", "exited"}
  BY DEF StoreOpen
<1>2. pc["scheduler"] = "ended" \/ Excused("scheduler")
  BY <1>1 DEF StageInv, Excused
<1>3. ASSUME NEW r \in Requests, Counted(r) PROVE Excused(r)
  <2>1. r # "scheduler"
    BY ActorFacts
  <2>2. CASE "handlers" \in abandoned
    BY <2>1, <2>2 DEF StageInv, Excused
  <2>3. CASE waiter = "done"
    <3>1. r \in late
      BY <1>3, <2>3 DEF WaitInv
    <3> QED
      BY <2>1, <3>1 DEF WaitInv, Excused
  <2> QED
    BY <2>2, <2>3 DEF StageInv
<1> QED
  BY <1>2, <1>3

(* A statement of detached work fails because the open store refused it,   *)
(* or with an excuse.                                                      *)
LEMMA FailureExplained ==
    ASSUME TypeOK, StoreOutlivesWork, NEW a \in Actors, Fails(a),
           a \in Requests => Counted(a), a = "scheduler" => pc[a] # "ended"
    PROVE  <<a, pc[a]>> \in refused' \/ Excused(a)
  BY ActorFacts DEF Fails, CutOff, StoreOutlivesWork, Counted

(* A refused statement is remembered until the actor's next run. *)
LEMMA RefusedStays ==
    ASSUME TypeOK, [Next]_vars, NEW a \in Actors, NEW s, <<a, s>> \in refused, pc[a] # "select"
    PROVE  <<a, s>> \in refused'
<1>1. ASSUME NEW b \in Actors, Deposit(b) PROVE <<a, s>> \in refused'
  <2>1. CASE b # a
    BY <1>1, <2>1, DepositFrame
  <2>2. CASE b = a
    BY <1>1, <2>2, OutcomeType DEF Deposit, Run, Upload, WriteReceipt, Audit, history
  <2> QED
    BY <2>1, <2>2
<1>2. CASE Loop
  BY <1>2, LoopFrame, ActorFacts
<1> QED
  BY <1>1, <1>2, StepCases, HandleFrame, MainFrame

(* So is an audit row. *)
LEMMA TrailStays ==
    ASSUME TypeOK, [Next]_vars, NEW a \in Actors, pc[a] # "select"
    PROVE  trail'[a] = trail[a] \/ (Audit(a) /\ trail'[a] = Outcome(a))
<1>1. ASSUME NEW b \in Actors, Deposit(b)
      PROVE  trail'[a] = trail[a] \/ (Audit(a) /\ trail'[a] = Outcome(a))
  <2>1. CASE b # a
    BY <1>1, <2>1, DepositFrame
  <2>2. CASE b = a /\ Audit(a)
    <3>1. trail' = [trail EXCEPT ![a] = Outcome(a)] \/ trail' = trail
      BY <2>2 DEF Audit
    <3> QED
      BY <2>2, <3>1 DEF TypeOK
  <2>3. CASE b = a /\ ~Audit(a)
    BY <1>1, <2>3 DEF Deposit, Run, Upload, WriteReceipt, records
  <2> QED
    BY <2>1, <2>2, <2>3
<1>2. CASE Loop
  BY <1>2, LoopFrame, ActorFacts
<1> QED
  BY <1>1, <1>2, StepCases, HandleFrame, MainFrame

(* What accounts for a pin stays. *)
LEMMA PinKnownStays ==
    ASSUME TypeOK, KindInv, [Next]_vars, keyFile \in Requests, keyFile' = keyFile,
           kind[keyFile] \in {"pair", "pin"}, PinKnown
    PROVE  PinKnown'
<1>1. keyFile \in Actors /\ pc[keyFile] # "select"
  BY ActorFacts DEF TypeOK, Outside, Steps
<1>2. trail[keyFile] # "none" => trail'[keyFile] # "none"
  BY <1>1, TrailStays DEF Outcome
<1>3. \A s : <<keyFile, s>> \in refused => <<keyFile, s>> \in refused'
  BY <1>1, RefusedStays
<1>4. Excused(keyFile) => Excused(keyFile)'
  BY <1>1, ExcuseStays
<1> QED
  BY <1>2, <1>3, <1>4 DEF PinKnown, Excused

(* The handler that created the key file reaches its audit row, unless the *)
(* store refuses a statement: the handler runs detached, on a store that   *)
(* waits for it.                                                           *)
LEMMA PinStep ==
    ASSUME TypeOK, StageInv, WaitInv, KindInv, PinInv, [Next]_vars
    PROVE  PinInv'
<1>0. StoreOutlivesWork
  BY Outlives
<1>1. ASSUME keyFile = NoKey PROVE PinInv'
  <2>1. ASSUME NEW r \in Requests, Handle(r), keyFile' # NoKey PROVE StoreKeyFile(r)
    BY <1>1, <2>1 DEF Handle, Arrive, ReadFails, Dispatch, Authenticate, ClaimPairing,
      StoreKeyFile, StoreKeyRow, StorePairing, ClearPairing, SetInterval, ReadBack, Done,
      Broadcast, settings
  <2>2. ASSUME NEW r \in Requests, StoreKeyFile(r) PROVE PinInv'
    BY <1>1, <2>2, ActorFacts DEF StoreKeyFile, KindInv, PinInv, Goto, TypeOK
  <2>3. keyFile' = NoKey => PinInv'
    BY DEF PinInv
  <2> QED
    BY <1>1, <2>1, <2>2, <2>3, StepCases, DepositFrame, LoopFrame, MainFrame
<1>2. ASSUME keyFile # NoKey PROVE PinInv'
  <2>1. keyFile \in Requests /\ keyFile \in Actors /\ kind[keyFile] \in {"pair", "pin"}
    BY <1>2, ActorFacts DEF PinInv, TypeOK
  <2>2. keyFile' = keyFile
    <3>1. ASSUME NEW r \in Requests, Handle(r) PROVE keyFile' = keyFile
      BY <1>2, <3>1 DEF Handle, Arrive, ReadFails, Dispatch, Authenticate, ClaimPairing,
      StoreKeyFile, StoreKeyRow, StorePairing, ClearPairing, SetInterval, ReadBack, Done,
      Broadcast, settings
    <3> QED
      BY <3>1, StepCases, DepositFrame, LoopFrame, MainFrame
  <2>3. kind' = kind
    BY StepCases, HandleFrame, DepositFrame, LoopFrame, MainFrame
  <2>k. PICK k \in Requests : k = keyFile /\ k \in Actors
    BY <2>1
  <2>4. CASE PinKnown
    BY <1>2, <2>1, <2>2, <2>3, <2>4, PinKnownStays DEF PinInv
  <2>5. CASE pc[k] \in {"keyRow", "pairing", "audit"}
    <3>1. Counted(k) /\ k # "scheduler"
      BY <2>1, <2>k, <2>5, ActorFacts DEF Counted, Tracked, Outside
    <3>2. ASSUME Fails(k) PROVE <<k, pc[k]>> \in refused' \/ Excused(k)'
      BY <1>0, <2>1, <2>k, <3>1, <3>2, FailureExplained, ExcuseStays
    <3>3. CASE pc'[k] = pc[k]
      BY <2>1, <2>k, <2>2, <2>3, <2>5, <3>3 DEF PinInv
    <3>4. CASE StoreKeyRow(k)
      <4>1. pc'[k] \in {"pairing", "audit"} \/ Fails(k)
        BY <2>1, <2>k, <3>4 DEF StoreKeyRow, Goto, TypeOK
      <4>2. pc[k] = "keyRow"
        BY <3>4 DEF StoreKeyRow
      <4>3. CASE pc'[k] \in {"pairing", "audit"}
        BY <2>1, <2>k, <2>2, <2>3, <4>3 DEF PinInv
      <4>4. CASE Fails(k)
        <5>1. <<k, "keyRow">> \in refused' \/ Excused(k)'
          BY <3>2, <4>2, <4>4
        <5>2. PinKnown'
          BY <2>k, <2>2, <5>1 DEF PinKnown, Excused
        <5> QED
          BY <2>1, <2>k, <2>2, <2>3, <5>2 DEF PinInv
      <4> QED
        BY <4>1, <4>3, <4>4
    <3>5. CASE StorePairing(k)
      <4>1. pc'[k] = "audit"
        BY <2>1, <2>k, <3>5 DEF StorePairing, Goto, TypeOK
      <4> QED
        BY <2>1, <2>k, <2>2, <2>3, <4>1 DEF PinInv
    <3>6. CASE Audit(k)
      <4>1. pc[k] = "audit"
        BY <3>6 DEF Audit
      <4>2. trail'[k] # "none" \/ Fails(k)
        BY <2>1, <2>k, <3>6 DEF Audit, Outcome, TypeOK
      <4>3. <<k, "audit">> \in refused' \/ Excused(k)' \/ trail'[k] # "none"
        BY <3>2, <4>1, <4>2
      <4>4. PinKnown'
        BY <2>k, <2>2, <4>3 DEF PinKnown, Excused
      <4> QED
        BY <2>1, <2>k, <2>2, <2>3, <4>4 DEF PinInv
    <3>7. ASSUME NEW r \in Requests, Handle(r) PROVE PinInv'
      <4>1. CASE r = k
        <5>1. StoreKeyRow(k) \/ StorePairing(k)
          BY <2>5, <3>7, <4>1 DEF Handle, Arrive, ReadFails, Dispatch, Authenticate, ClaimPairing,
      StoreKeyFile, StoreKeyRow, StorePairing, ClearPairing, SetInterval, ReadBack, Done,
      Broadcast
        <5> QED
          BY <3>4, <3>5, <5>1
      <4>2. CASE r # k
        BY <2>1, <2>k, <3>3, <3>7, <4>2, HandleFrame
      <4> QED
        BY <4>1, <4>2
    <3>8. ASSUME NEW a \in Actors, Deposit(a) PROVE PinInv'
      <4>1. CASE a = k
        <5>1. Audit(k)
          BY <2>5, <3>8, <4>1 DEF Deposit, Run, Upload, WriteReceipt
        <5> QED
          BY <3>6, <5>1
      <4>2. CASE a # k
        BY <2>1, <2>k, <3>3, <3>8, <4>2, DepositFrame
      <4> QED
        BY <4>1, <4>2
    <3>9. CASE Loop
      BY <2>1, <2>k, <3>3, <3>9, LoopFrame
    <3>10. CASE Main \/ UNCHANGED vars
      BY <3>3, <3>10, MainFrame
    <3> QED
      BY <3>7, <3>8, <3>9, <3>10, StepCases
  <2> QED
    BY <1>2, <2>k, <2>4, <2>5 DEF PinInv
<1> QED
  BY <1>1, <1>2

(* And a run whose capsule was taken reaches its receipt and its audit     *)
(* row, which tells whether there is a receipt.                            *)
LEMMA DepositStep ==
    ASSUME TypeOK, StageInv, WaitInv, KindInv, DepositInv, [Next]_vars
    PROVE  DepositInv'
<1>0. StoreOutlivesWork
  BY Outlives
<1>1. kind' = kind
  BY StepCases, HandleFrame, DepositFrame, LoopFrame, MainFrame
<1> DEFINE Part(a) ==
        /\ capsule[a] # "none" /\ a \in Requests => kind[a] = "deposit"
        /\ capsule[a] = "stored" => pc[a] = "receipt" \/ ReceiptKnown(a)
        /\ capsule[a] # "none" => pc[a] \in {"receipt", "audit"} \/ RunKnown(a)
<1>2. ASSUME NEW a \in Actors, pc'[a] = pc[a] \/ pc[a] \notin {"receipt", "audit"},
             capsule'[a] = capsule[a], trail'[a] = trail[a],
             \A s : <<a, s>> \in refused => <<a, s>> \in refused'
      PROVE  Part(a)'
  <2>1. Excused(a) => Excused(a)'
    BY ExcuseStays
  <2>2. Part(a)
    BY DEF DepositInv
  <2> QED
    BY <1>1, <1>2, <2>1, <2>2 DEF ReceiptKnown, RunKnown, Outcome
<1>3. ASSUME NEW a \in Actors, pc[a] # "select", capsule'[a] = capsule[a] PROVE ReceiptKnown(a) => ReceiptKnown(a)'
  BY <1>3, RefusedStays, ExcuseStays DEF ReceiptKnown
<1>4. ASSUME NEW a \in Actors, pc[a] \in {"receipt", "audit"}, Fails(a), capsule[a] # "none"
      PROVE  <<a, pc[a]>> \in refused' \/ Excused(a)'
  <2>1. a \in Requests => Counted(a)
    BY <1>4 DEF DepositInv, Counted, Tracked, Outside
  <2> QED
    BY <1>0, <1>4, <2>1, FailureExplained, ExcuseStays
<1>5. ASSUME NEW a \in Actors, Deposit(a) PROVE Part(a)'
  <2>0. capsule'[a] # "none" /\ a \in Requests => kind'[a] = "deposit"
    BY <1>1, <1>5 DEF Deposit, Run, Upload, WriteReceipt, Audit, KindInv, DepositInv, TypeOK
  <2>1. CASE Run(a)
    BY <1>2, <2>1 DEF Run, records, history
  <2>2. CASE Upload(a)
    <3>1. CASE capsule'[a] = "stored" /\ pc'[a] = "receipt"
      BY <2>0, <3>1
    <3>2. CASE capsule' = capsule
      BY <1>2, <2>2, <3>2 DEF Upload, history
    <3> QED
      BY <2>2, <3>1, <3>2 DEF Upload, Goto, TypeOK
  <2>3. CASE WriteReceipt(a)
    <3>1. pc[a] = "receipt" /\ pc'[a] = "audit"
      BY <2>3 DEF WriteReceipt, Goto, TypeOK
    <3>2. capsule'[a] = "stored" => Fails(a) /\ capsule[a] # "none"
      BY <2>3 DEF WriteReceipt, TypeOK
    <3>3. capsule'[a] = "stored" => ReceiptKnown(a)'
      BY <1>4, <3>1, <3>2 DEF ReceiptKnown
    <3> QED
      BY <2>0, <3>1, <3>3
  <2>4. CASE Audit(a)
    <3>1. capsule' = capsule /\ pc[a] = "audit"
      BY <2>4 DEF Audit
    <3>2. capsule'[a] = "stored" => ReceiptKnown(a)'
      BY <1>3, <3>1 DEF DepositInv
    <3>3. capsule[a] # "none" => RunKnown(a)'
      <4>1. trail'[a] = Outcome(a) \/ Fails(a)
        BY <2>4 DEF Audit, TypeOK
      <4>2. Outcome(a)' = Outcome(a)
        BY <3>1 DEF Outcome
      <4> QED
        BY <1>4, <3>1, <4>1, <4>2 DEF RunKnown
    <3> QED
      BY <2>0, <3>1, <3>2, <3>3
  <2> QED
    BY <1>5, <2>1, <2>2, <2>3, <2>4 DEF Deposit
<1>6. ASSUME NEW r \in Requests, Handle(r) PROVE \A a \in Actors : Part(a)'
  <2>1. pc[r] \notin {"receipt", "audit"}
    BY <1>6 DEF Handle, Arrive, ReadFails, Dispatch, Authenticate, ClaimPairing,
      StoreKeyFile, StoreKeyRow, StorePairing, ClearPairing, SetInterval, ReadBack, Done,
      Broadcast
  <2>2. ASSUME NEW a \in Actors PROVE Part(a)'
    <3>1. pc'[a] = pc[a] \/ pc[a] \notin {"receipt", "audit"}
      BY <1>6, <2>1, HandleFrame
    <3>2. capsule' = capsule /\ trail' = trail /\ refused \subseteq refused'
      BY <1>6, HandleFrame
    <3> HIDE DEF Part
    <3> QED
      BY <1>2, <3>1, <3>2
  <2> QED
    BY <2>2
<1>7. ASSUME NEW b \in Actors, Deposit(b) PROVE \A a \in Actors : Part(a)'
  <2>1. ASSUME NEW a \in Actors, a # b PROVE Part(a)'
    <3>1. /\ pc'[a] = pc[a] /\ capsule'[a] = capsule[a] /\ trail'[a] = trail[a]
          /\ \A s : <<a, s>> \in refused => <<a, s>> \in refused'
      BY <1>7, <2>1, DepositFrame
    <3> HIDE DEF Part
    <3> QED
      BY <1>2, <3>1
  <2> HIDE DEF Part
  <2> QED
    BY <1>5, <1>7, <2>1
<1>8. ASSUME Loop \/ Main \/ UNCHANGED vars PROVE \A a \in Actors : Part(a)'
  <2>1. ASSUME NEW a \in Actors, capsule'[a] # "none" PROVE Part(a)'
    <3>1. /\ capsule'[a] = capsule[a] /\ trail'[a] = trail[a]
          /\ \A s : <<a, s>> \in refused => <<a, s>> \in refused'
      BY <1>8, <2>1, LoopFrame, MainFrame, ActorFacts
    <3>2. pc'[a] = pc[a] \/ pc[a] \notin {"receipt", "audit"}
      BY <1>8, LoopFrame, MainFrame, ActorFacts
    <3> HIDE DEF Part
    <3> QED
      BY <1>2, <3>1, <3>2
  <2>2. ASSUME NEW a \in Actors, capsule'[a] = "none" PROVE Part(a)'
    BY <2>2
  <2> QED
    BY <2>1, <2>2
<1>9. \A a \in Actors : Part(a)'
  <2> HIDE DEF Part
  <2> QED
    BY <1>6, <1>7, <1>8, StepCases
<1> QED
  BY <1>9 DEF DepositInv

-----------------------------------------------------------------------------
(* The invariant holds when the server starts. *)
LEMMA InitInv == Init => Inv
<1> SUFFICES ASSUME Init PROVE Inv
  OBVIOUS
<1>1. TypeOK
  BY InitType
<1>2. StageInv /\ NoLostWakeup
  BY DEF Init, StageInv, NoLostWakeup, Cancelled, StoreOpen
<1>3. WaitInv
  BY DEF Init, WaitInv, Cancelled
<1>4. KindInv /\ KeyInv
  BY ActorFacts DEF Init, KindInv, KeyInv
<1>5. PinInv /\ DepositInv
  BY DEF Init, PinInv, DepositInv
<1> QED
  BY <1>1, <1>2, <1>3, <1>4, <1>5 DEF Inv

(* Types hold throughout, and detachedCounter.n counts the requests        *)
(* between add and done (Server.tracked).                                  *)
THEOREM TypeCorrect == Spec => []TypeOK
  BY InitType, StepType, PTL DEF Spec

(* The inductive invariant holds throughout. *)
THEOREM Invariance == Spec => []Inv
<1>1. Inv /\ [Next]_vars => Inv'
  BY StepType, StageStep, WaitStep, WakeupStep, KindStep, KeyStep, PinStep, DepositStep DEF Inv
<1> QED
  BY InitInv, <1>1, PTL DEF Spec

(* The store closes only after the scheduler loop and every counted        *)
(* handler, or with an excuse (runServer, waitForBackupWork).              *)
THEOREM StoreWaits == Spec => []StoreOutlivesWork
<1>1. Inv => StoreOutlivesWork
  BY Outlives DEF Inv
<1> QED
  BY Invariance, <1>1, PTL

(* WaitDetached never sleeps over an empty count with no broadcast to come *)
(* (detachedCounter).                                                      *)
THEOREM NoSleepOver == Spec => []NoLostWakeup
<1>1. Inv => NoLostWakeup
  BY DEF Inv
<1> QED
  BY Invariance, <1>1, PTL

(* A key that was pinned is in the audit trail once its handler is over or *)
(* the process has exited, unless the open store refused the key's row or  *)
(* the audit row, or the work is excused (handlePairRemoteRecovery,        *)
(* handlePinKey).                                                          *)
THEOREM PinsRecorded == Spec => []PinIsRecorded
<1>1. ASSUME Inv PROVE PinIsRecorded
  <2> SUFFICES ASSUME keyFile # NoKey, Settled(keyFile)
               PROVE  PinKnown
    BY DEF PinIsRecorded, PinKnown
  <2>1. keyFile \in Requests
    BY <1>1 DEF Inv, TypeOK
  <2>2. CASE pc[keyFile] \in {"keyRow", "pairing", "audit"}
    <3>1. ~StoreOpen
      BY <2>2 DEF Settled, StoreOpen
    <3>2. Counted(keyFile)
      BY <1>1, <2>2 DEF Inv, PinInv, Counted, Tracked, Outside
    <3>3. Excused(keyFile)
      BY <1>1, <2>1, <3>1, <3>2, Outlives DEF Inv, StoreOutlivesWork
    <3> QED
      BY <3>3 DEF PinKnown
  <2> QED
    BY <1>1, <2>2 DEF Inv, PinInv
<1> QED
  BY Invariance, <1>1, PTL

(* A capsule that KyRecovery took has its receipt and its audit row once   *)
(* the run is over or the process has exited, but for the one the open     *)
(* store refused, and the audit row tells whether there is a receipt       *)
(* (backupLoop, handleRunBackup).                                          *)
THEOREM DepositsRecorded == Spec => []DepositIsRecorded
<1>1. ASSUME Inv PROVE DepositIsRecorded
  <2> SUFFICES ASSUME NEW a \in Actors, capsule[a] # "none", Settled(a), ~Excused(a)
               PROVE  /\ capsule[a] = "receipt" \/ <<a, "receipt">> \in refused
                      /\ trail[a] = Outcome(a) \/ <<a, "audit">> \in refused
    BY DEF DepositIsRecorded
  <2>1. pc[a] \notin {"receipt", "audit"}
    <3> SUFFICES ASSUME pc[a] \in {"receipt", "audit"} PROVE FALSE
      OBVIOUS
    <3>1. ~StoreOpen
      BY DEF Settled, StoreOpen
    <3>2. a \in Requests => Counted(a)
      BY <1>1 DEF Inv, DepositInv, Counted, Tracked, Outside
    <3> QED
      BY <1>1, <3>1, <3>2, Outlives, ActorFacts DEF Inv, StoreOutlivesWork
  <2>2. capsule[a] \in {"stored", "receipt"}
    BY <1>1 DEF Inv, TypeOK
  <2> QED
    BY <1>1, <2>1, <2>2 DEF Inv, DepositInv, ReceiptKnown, RunKnown
<1> QED
  BY Invariance, <1>1, PTL

(* A stored pairing has its key on disk and in the settings                *)
(* (handlePairRemoteRecovery).                                             *)
THEOREM PairingKeyed == Spec => []PairingHasKey
<1>1. Inv => PairingHasKey
  BY DEF Inv, KeyInv, PairingHasKey
<1> QED
  BY Invariance, <1>1, PTL

=============================================================================

--------------------------- MODULE CompletionProofs ---------------------------
(***************************************************************************)
(* How an action ends.  A completed transaction has a completed req, or    *)
(* one that was purged: only the monitor completes transactions, and       *)
(* whoever else writes a copy of a req back does so for a transaction that *)
(* is not completed yet.  The terminal statuses of a req are final.  An    *)
(* action holds its inputs until it ends, and does not begin again.  And   *)
(* what was failed stays off the network, what the network accepted holds  *)
(* its inputs, and no change is lost.                                      *)
(***************************************************************************)
EXTENDS WalletStorageProofs, FiniteSetTheorems

Done(t) == tx[t].status = "completed"

(* Who posts an action, or revives it, works on one that is not completed. *)
Working == {"mergeBeef", "postBeef", "transferNotes", "refresh", "updateReq", "sendWaiting",
            "getProofs", "saveCopy", "getPath", "unfailTx", "unfailReq"}

(* Who looks for its proof has read the req before it was completed, or a  *)
(* req that says so.                                                       *)
Proving == {"newProvenTx", "insertProvenTx", "finishProof"}

Agrees(r) ==
  /\ r.pc \in Working => ~Done(r.t)
  /\ r.pc \in Proving => (Done(r.t) => r.copy.status \in {"completed", "none"})

(* Steps of the monitor under the storage provider lock. *)
Holding == {"insertProvenTx", "notifyTx", "saveNotified", "review1", "review2", "review3"}

Reviewing == {"review1", "review2", "review3"}

(* Without faults a proof is linked to its transaction in the closure that *)
(* inserts it.                                                             *)
ProofsLinked ==
  \A t \in proven :
    tx[t].proof \/ tx[t].status = "none" \/ (s[Monitor].pc = "notifyTx" /\ s[Monitor].t = t)

Notifying ==
  s[Monitor].pc \in {"notifyTx", "saveNotified"} =>
    /\ s[Monitor].copy.status = "completed"
    /\ req[s[Monitor].t].status \in {"completed", "none"}

(* The steps a process takes with some care, internalizeAction left out.   *)
Involved == Working \cup Proving \cup Holding \cup InternalizePcs

AgreesInv ==
  /\ CompletedAgrees
  /\ \A p \in Procs : Agrees(s[p]) /\ s[p].pc \notin InternalizePcs
  /\ s[Monitor].pc \in Holding => lock = Monitor
  /\ s[Monitor].pc \in Reviewing => "ReviewStatus" \in Tasks
  /\ Notifying
  /\ MaxFaults = 0 => ProofsLinked

LEMMA InitAgrees == Init => AgreesInv
<1> SUFFICES ASSUME Init PROVE AgreesInv
  OBVIOUS
<1>1. \A p \in Procs : s[p] = Idle
  BY DEF Init
<1>2. Monitor \in Procs /\ "idle" \notin Involved \cup Reviewing
  BY DEF Procs, Involved, Working, Proving, Holding, Reviewing, InternalizePcs
<1>3. CompletedAgrees /\ ProofsLinked
  BY DEF Init, CompletedAgrees, ProofsLinked
<1>4. Notifying
  BY <1>1, <1>2, IdleTyped DEF Notifying, Involved, Holding
<1> QED
  BY <1>1, <1>2, <1>3, <1>4, IdleTyped DEF AgreesInv, Agrees, Involved

----------------------------------------------------------------------------
(* Steps that complete nothing *)

(* No row is completed, and the req of one that is stays completed.        *)
Humble ==
  \A t \in Txs :
    Done(t)' => Done(t) /\ req'[t].status \in {req[t].status, "completed", "none"}

KeepsProofs ==
  /\ proven' \subseteq proven
  /\ \A t \in proven' : tx'[t].status # "none" =>
       tx[t].status # "none" /\ tx'[t].proof = tx[t].proof

(* The process goes on with an action that is not completed, or leaves it. *)
Steady(p) ==
  /\ \A q \in Procs \ {p} : s'[q] = s[q]
  /\ \/ s'[p] = s[p]
     \/ s'[p].pc \notin Involved
     \/ s'[p].pc \in Working /\ s'[p].t \in Txs /\ ~Done(s'[p].t)

LEMMA PcsApart ==
  /\ Holding \cap Working = {} /\ Proving \cap Working = {}
  /\ Reviewing \subseteq Holding /\ {"notifyTx", "saveNotified"} \subseteq Holding
  /\ "idle" \notin Involved /\ Idle.pc = "idle"
  /\ Funding \cap Involved = {} /\ Working \cap InternalizePcs = {}
  /\ Working \cup Proving \cup Holding \cup InternalizePcs = Involved
  BY IdleTyped DEF Involved, Holding, Working, Proving, Reviewing, Funding, InternalizePcs

LEMMA HasTxAgrees ==
  ASSUME Typed, NEW p \in Procs, s[p].pc \in Working \cup Proving
  PROVE  s[p].t \in Txs
  BY DEF Typed, HasTx, Untied, Purging, Listing, Working, Proving

LEMMA AgreesStays ==
  ASSUME Humble, NEW r, Agrees(r), r.pc \in Working \cup Proving => r.t \in Txs
  PROVE  Agrees(r)'
  BY DEF Humble, Agrees

LEMMA SteadyAgrees ==
  ASSUME Typed, AgreesInv, Humble, KeepsProofs, NEW p \in Procs, Steady(p),
         s[Monitor].pc \notin Holding
  PROVE  AgreesInv'
<1> Monitor \in Procs
  BY DEF Procs
<1>1. CompletedAgrees'
  BY DEF AgreesInv, CompletedAgrees, Humble, Done
<1>i. \A q \in Procs : s'[q].pc \notin InternalizePcs
  BY PcsApart DEF Steady, AgreesInv
<1>2. ASSUME NEW q \in Procs PROVE Agrees(s[q])'
  <2> PICK r : r = s'[q]
    OBVIOUS
  <2>1. CASE s'[q] = s[q]
    <3>1. Agrees(r)'
      BY <2>1, HasTxAgrees, AgreesStays DEF AgreesInv
    <3> QED
      BY <3>1 DEF Agrees
  <2>2. CASE s'[q].pc \notin Working \cup Proving
    BY <2>2 DEF Agrees
  <2>3. CASE s'[q].pc \in Working /\ s'[q].t \in Txs /\ ~Done(s'[q].t)
    <3>1. ~Done(r.t)'
      BY <2>3 DEF Humble
    <3> QED
      BY <2>3, <3>1, PcsApart DEF Agrees
  <2> QED
    BY <2>1, <2>2, <2>3, PcsApart DEF Steady
<1>3. s'[Monitor].pc \notin Holding
  BY PcsApart DEF Steady
<1>4. ASSUME MaxFaults = 0 PROVE ProofsLinked'
  BY <1>4, PcsApart DEF AgreesInv, ProofsLinked, KeepsProofs
<1> QED
  BY <1>1, <1>2, <1>3, <1>4, <1>i, PcsApart DEF AgreesInv, Notifying

LEMMA WriteAgrees ==
  ASSUME Typed, NEW t \in Txs, NEW copy, WriteReq(t, copy)
  PROVE  /\ \A u \in Txs \ {t} : req'[u] = req[u]
         /\ req'[t].status \in {"none", copy.status}
  BY DEF WriteReq, Typed, TypeOK

LEMMA RowsKept ==
  ASSUME UNCHANGED <<tx, proven>>
  PROVE  KeepsProofs /\ \A t \in Txs : Done(t)' => Done(t)
  BY DEF KeepsProofs, Done

(* updateTransactionStatus with another status than 'completed'. *)
LEMMA UpdateAgrees ==
  ASSUME Typed, NEW t \in Txs, NEW status, status # "completed",
         updateTransactionStatus(t, status) \/ UNCHANGED tx, UNCHANGED proven
  PROVE  /\ KeepsProofs /\ \A u \in Txs : Done(u)' => Done(u)
         /\ updateTransactionStatus(t, status) => ~Done(t)'
<1>1. CASE UNCHANGED tx
  BY <1>1 DEF KeepsProofs, Done, updateTransactionStatus, MayUpdateStatus
<1>2. CASE updateTransactionStatus(t, status)
  <2>1. /\ tx[t].status # "none" /\ tx'[t].status = status /\ tx'[t].proof = tx[t].proof
        /\ \A u \in Txs \ {t} : tx'[u] = tx[u]
    BY <1>2 DEF updateTransactionStatus, MayUpdateStatus, Typed, TypeOK, TxRow
  <2> QED
    BY <2>1 DEF KeepsProofs, Done, Typed, TypeOK
<1> QED
  BY <1>1, <1>2

LEMMA ReturnSteady ==
  ASSUME Typed, NEW p \in Procs, Return(p) \/ UNCHANGED s
  PROVE  Steady(p)
  BY PcsApart DEF Return, Steady, Typed, TypeOK

LEMMA GotoSteady ==
  ASSUME Typed, NEW p \in Procs, NEW pc,
         Goto(p, pc), pc \notin Involved
  PROVE  Steady(p)
  BY DEF Goto, Steady, Typed, TypeOK, Session

LEMMA RowsHumble ==
  ASSUME UNCHANGED <<tx, req, proven>>
  PROVE  Humble /\ KeepsProofs
  BY DEF Humble, KeepsProofs, Done

LEMMA PostAgrees ==
  ASSUME Typed, AgreesInv, NEW p \in Procs, PostStep(p)
  PROVE  Humble /\ KeepsProofs /\ Steady(p)
<1> s[p] \in Session
  BY DEF Typed, TypeOK
<1>w. /\ {"mergeBeef", "postBeef", "transferNotes", "refresh", "updateReq"} \subseteq Working
      /\ "updateTx" \notin Involved
  BY DEF Involved, Working, Proving, Holding, InternalizePcs
<1>a. s[p].pc \in Working => s[p].t \in Txs /\ ~Done(s[p].t)
  BY HasTxAgrees DEF AgreesInv, Agrees
<1>1. CASE mergeBeef(p)
  <2>1. Steady(p)
    BY <1>1, <1>w, <1>a DEF mergeBeef, At, Goto, Steady, Typed, TypeOK, Session
  <2> QED
    BY <1>1, <2>1, RowsHumble DEF mergeBeef, tables
<1>2. CASE mergeBeefThrows(p)
  <2>1. s[p].t \in Txs /\ ~Done(s[p].t) /\ UNCHANGED <<tx, proven>>
    BY <1>2, <1>w, <1>a DEF mergeBeefThrows, At
  <2>2. PICK copy : WriteReq(s[p].t, copy)
    BY <1>2 DEF mergeBeefThrows
  <2>3. Humble
    BY <2>1, <2>2, WriteAgrees, RowsKept DEF Humble
  <2> QED
    BY <1>2, <2>1, <2>3, RowsKept, ReturnSteady DEF mergeBeefThrows
<1>3. CASE postBeef(p)
  <2>1. PICK v : s' = [s EXCEPT ![p].pc = "transferNotes", ![p].verdict = v]
    BY <1>3 DEF postBeef
  <2>2. Steady(p)
    BY <1>3, <1>w, <1>a, <2>1 DEF postBeef, At, Steady, Typed, TypeOK, Session
  <2> QED
    BY <1>3, <2>2, RowsHumble DEF postBeef, tables
<1>4. CASE transferNotes(p)
  <2>1. /\ s[p].t \in Txs /\ ~Done(s[p].t) /\ UNCHANGED <<tx, proven>>
        /\ WriteReq(s[p].t, s[p].copy)
    BY <1>4, <1>w, <1>a DEF transferNotes, At
  <2>2. Humble
    BY <2>1, WriteAgrees, RowsKept DEF Humble
  <2>3. Steady(p)
    BY <1>4, <1>w, <1>a DEF transferNotes, At, Goto, Steady, Typed, TypeOK, Session
  <2> QED
    BY <2>1, <2>2, <2>3, RowsKept
<1>5. CASE refreshReq(p)
  <2>1. Steady(p)
    <3>1. CASE Return(p)
      BY <3>1, ReturnSteady
    <3>2. CASE s' = [s EXCEPT ![p].copy = req[s[p].t], ![p].pc = "updateReq"]
      BY <1>5, <1>w, <1>a, <3>2 DEF refreshReq, At, Steady, Typed, TypeOK, Session
    <3> QED
      BY <1>5, <3>1, <3>2 DEF refreshReq
  <2> QED
    BY <1>5, <2>1, RowsHumble DEF refreshReq, tables
<1>6. CASE updateReqFromResult(p)
  <2>1. s[p].t \in Txs /\ ~Done(s[p].t) /\ UNCHANGED <<tx, proven>>
    BY <1>6, <1>w, <1>a DEF updateReqFromResult, At
  <2>2. PICK v : s' = [s EXCEPT ![p].verdict = v, ![p].pc = "updateTx"]
    BY <1>6 DEF updateReqFromResult
  <2>3. PICK copy : WriteReq(s[p].t, copy)
    BY <1>6 DEF updateReqFromResult
  <2>4. Humble
    BY <2>1, <2>3, WriteAgrees, RowsKept DEF Humble
  <2>5. Steady(p)
    BY <1>w, <2>2 DEF Steady, Typed, TypeOK, Session
  <2> QED
    BY <2>1, <2>4, <2>5, RowsKept
<1>7. CASE updateTxFromResult(p)
  <2>1. s[p].t \in Txs /\ UNCHANGED <<req, proven>>
    BY <1>7, TiedPcs DEF updateTxFromResult, At, Typed, HasTx
  <2>2. PICK status : /\ status = NewStatus(s[p].verdict).tx
                      /\ updateTransactionStatus(s[p].t, status) \/ UNCHANGED tx
    BY <1>7 DEF updateTxFromResult
  <2>3. status # "completed"
    <3>1. s[p].verdict \in {"success", "doubleSpend", "invalidTx", "serviceError"}
      BY <1>7 DEF updateTxFromResult, At, Typed, HasVerdict, Posted, Session, Verdicts
    <3> QED
      BY <2>2, <3>1 DEF NewStatus
  <2>4. KeepsProofs /\ \A u \in Txs : Done(u)' => Done(u)
    BY <2>1, <2>2, <2>3, UpdateAgrees
  <2> QED
    BY <1>7, <2>1, <2>4, ReturnSteady DEF updateTxFromResult, Humble
<1> QED
  BY <1>1, <1>2, <1>3, <1>4, <1>5, <1>6, <1>7 DEF PostStep

(* A transaction is created once, before there is a proof of it.           *)
LEMMA CreateAgrees ==
  ASSUME Typed, PlanInv, NEW p \in Callers, CreateActionStep(p)
  PROVE  Humble /\ KeepsProofs /\ Steady(p)
<1> p \in Procs /\ s[p] \in Session
  BY DEF Procs, Typed, TypeOK
<1>p. {"fund", "release", "insertOutputs", "mergeChangeBeefs", "lockFixed"} = Funding
  BY DEF Funding
<1>1. CASE \E t \in Txs : createNewTxRecord(p, t)
  <2> PICK t \in Txs : createNewTxRecord(p, t)
    BY <1>1
  <2>1. /\ UNCHANGED <<req, proven>> /\ t \notin proven
        /\ \A u \in Txs \ {t} : tx'[u] = tx[u]
        /\ tx'[t].status = "unsigned"
    BY DEF createNewTxRecord, PlanInv, PlansFirst, Unplanned, Unknown, Typed, TypeOK, TxRow
  <2>2. Humble /\ KeepsProofs
    BY <2>1 DEF Humble, KeepsProofs, Done, Typed, TypeOK
  <2>3. Steady(p)
    BY <1>p, PcsApart DEF createNewTxRecord, Steady, Typed, TypeOK, Session
  <2> QED
    BY <2>2, <2>3
<1>2. CASE ~\E t \in Txs : createNewTxRecord(p, t)
  <2>1. UNCHANGED <<tx, req, proven>>
    BY <1>2 DEF CreateActionStep, allocateNoSendChange, allocateChangeInput, createNewInput,
       startRelease, releaseChangeInput, released, funded, createNewOutputs,
       mergeAllocatedChangeBeefs, createNewInputThrows, createActionReturns, tables
  <2>2. Steady(p)
    <3>1. CASE Return(p)
      BY <3>1, ReturnSteady
    <3>2. CASE \E pc \in Funding : Goto(p, pc)
      BY <3>2, GotoSteady, PcsApart
    <3>3. CASE allocateNoSendChange(p) \/ allocateChangeInput(p) \/ createNewInput(p)
               \/ startRelease(p) \/ releaseChangeInput(p)
      <4>1. PICK again, held, nsc :
              \/ s' = [s EXCEPT ![p].nsc = nsc, ![p].held = held]
              \/ s' = [s EXCEPT ![p].held = held]
              \/ s' = [s EXCEPT ![p].pc = "release", ![p].again = again]
              \/ s' = [s EXCEPT ![p].held = held, ![p].nsc = nsc]
        BY <3>3 DEF allocateNoSendChange, allocateChangeInput, createNewInput,
           startRelease, releaseChangeInput
      <4>2. s[p].pc \in Funding
        BY <3>3, <1>p DEF allocateNoSendChange, allocateChangeInput, createNewInput,
           startRelease, releaseChangeInput, At
      <4> QED
        BY <4>1, <4>2, <1>p, PcsApart DEF Steady, Typed, TypeOK, Session
    <3> QED
      BY <1>2, <1>p, <3>1, <3>2, <3>3
      DEF CreateActionStep, released, funded, createNewOutputs, mergeAllocatedChangeBeefs,
          createNewInputThrows, createActionReturns
  <2> QED
    BY <2>1, <2>2, RowsHumble
<1> QED
  BY <1>1, <1>2

LEMMA AbortAgrees ==
  ASSUME Typed, NEW t \in Txs, abortTx(t), UNCHANGED proven
  PROVE  Humble /\ KeepsProofs
<1>1. \A u \in Txs \ {t} : req'[u] = req[u]
  BY DEF abortTx, Typed, TypeOK
<1>2. updateTransactionStatus(t, "failed")
  BY DEF abortTx
<1> QED
  BY <1>1, <1>2, UpdateAgrees DEF Humble

LEMMA ProcessAgrees ==
  ASSUME Typed, AgreesInv, NEW p \in Callers, ProcessActionStep(p)
  PROVE  Humble /\ KeepsProofs /\ Steady(p)
<1> p \in Procs /\ s[p] \in Session
  BY DEF Procs, Typed, TypeOK
<1>w. /\ {"commit", "share", "bump"} \cap Involved = {} /\ "mergeBeef" \in Working
      /\ "mergeBeef" \notin Holding
  BY DEF Involved, Working, Proving, Holding, InternalizePcs
<1>t. s[p].pc \in {"commit", "share", "bump"} => s[p].t \in Txs
  BY TiedPcs DEF Typed, HasTx
<1>1. CASE PostStep(p)
  BY <1>1, PostAgrees
<1>2. CASE \E t \in Txs : validateCommitNewTx(p, t) \/ sendWith(p, t)
  <2>1. PICK pc \in {"commit", "share"} : \E t, mode :
          s' = [s EXCEPT ![p] = [Idle EXCEPT !.pc = pc, !.t = t, !.mode = mode]]
    BY <1>2 DEF validateCommitNewTx, sendWith
  <2>2. Steady(p)
    BY <1>w, <2>1 DEF Steady, Typed, TypeOK, Idle
  <2> QED
    BY <1>2, <2>2, RowsHumble DEF validateCommitNewTx, sendWith, tables
<1>3. CASE commitNewTxToStorage(p)
  <2>0. s[p].t \in Txs
    BY <1>3, <1>t DEF commitNewTxToStorage, At
  <2> PICK t \in Txs : t = s[p].t
    BY <2>0
  <2>1. /\ UNCHANGED proven
        /\ \A u \in Txs \ {t} : req'[u] = req[u] /\ tx'[u] = tx[u]
        /\ tx'[t] = UpdateTx(t, [tx[t] EXCEPT !.status = CreateStatus(s[p].mode).tx])
    BY <1>3 DEF commitNewTxToStorage, Typed, TypeOK
  <2>2. CreateStatus(s[p].mode).tx \in {"nosend", "unprocessed"}
    BY DEF CreateStatus, Session, Modes
  <2>3. /\ tx'[t].status # "completed" /\ tx'[t].proof = tx[t].proof
        /\ tx'[t].status # "none" => tx[t].status # "none"
    BY <2>1, <2>2 DEF UpdateTx, Typed, TypeOK, TxRow
  <2>4. Humble /\ KeepsProofs
    BY <2>1, <2>3 DEF Humble, KeepsProofs, Done, Typed, TypeOK
  <2>5. Steady(p)
    BY <1>3, <1>w, ReturnSteady, GotoSteady DEF commitNewTxToStorage
  <2> QED
    BY <2>4, <2>5
<1>4. CASE \E t \in Txs : abortAction(p, t)
  BY <1>4, AbortAgrees, ReturnSteady DEF abortAction
<1>5. CASE getReqsAndBeef(p)
  <2>1. s[p].t \in Txs /\ UNCHANGED <<tx, req, proven>>
    BY <1>5, <1>t DEF getReqsAndBeef, At, tables
  <2>2. CASE Return(p)
    BY <2>1, <2>2, ReturnSteady, RowsHumble
  <2>3. CASE ~Return(p)
    <3>1. /\ req[s[p].t].status \in ReadyToSend
          /\ \/ s' = [s EXCEPT ![p].copy = req[s[p].t], ![p].pc = "bump"]
             \/ s' = [s EXCEPT ![p].copy = req[s[p].t], ![p].pc = "mergeBeef"]
      BY <1>5, <2>3 DEF getReqsAndBeef
    <3>2. ~Done(s[p].t)
      BY <2>1, <3>1 DEF AgreesInv, CompletedAgrees, Done, ReadyToSend
    <3>3. Steady(p)
      <4>1. CASE s' = [s EXCEPT ![p].copy = req[s[p].t], ![p].pc = "bump"]
        BY <1>w, <4>1 DEF Steady, Typed, TypeOK, Session
      <4>2. CASE s' = [s EXCEPT ![p].copy = req[s[p].t], ![p].pc = "mergeBeef"]
        BY <1>w, <2>1, <3>2, <4>2 DEF Steady, Typed, TypeOK, Session
      <4> QED
        BY <3>1, <4>1, <4>2
    <3> QED
      BY <2>1, <3>3, RowsHumble
  <2> QED
    BY <2>2, <2>3
<1>6. CASE bumpToUnsent(p)
  <2>0. s[p].t \in Txs
    BY <1>6, <1>t DEF bumpToUnsent, At
  <2> PICK t \in Txs : t = s[p].t
    BY <2>0
  <2>1. /\ UNCHANGED proven
        /\ \A u \in Txs \ {t} : req'[u] = req[u] /\ tx'[u] = tx[u]
        /\ tx'[t] = UpdateTx(t, [tx[t] EXCEPT !.status = "sending"])
    BY <1>6 DEF bumpToUnsent, Typed, TypeOK
  <2>2. /\ tx'[t].status # "completed" /\ tx'[t].proof = tx[t].proof
        /\ tx'[t].status # "none" => tx[t].status # "none"
    BY <2>1 DEF UpdateTx, Typed, TypeOK, TxRow
  <2>3. Humble /\ KeepsProofs
    BY <2>1, <2>2 DEF Humble, KeepsProofs, Done, Typed, TypeOK
  <2> QED
    BY <1>6, <2>3, ReturnSteady DEF bumpToUnsent
<1> QED
  BY <1>1, <1>2, <1>3, <1>4, <1>5, <1>6 DEF ProcessActionStep

LEMMA ListSpecOpsAgrees ==
  ASSUME Typed, NEW p \in Callers, ListSpecOpsStep(p)
  PROVE  Humble /\ KeepsProofs /\ Steady(p)
<1> p \in Procs /\ s[p] \in Session
  BY DEF Procs, Typed, TypeOK
<1>d. Listing \cap Involved = {}
  BY DEF Involved, Working, Proving, Holding, InternalizePcs, Listing
<1>1. Steady(p)
  <2>1. CASE listNoSends(p) \/ listFailed(p) \/ listChange(p)
    <3>1. PICK pc \in Listing : \E held :
            s' = [s EXCEPT ![p] = [Idle EXCEPT !.pc = pc, !.held = held]]
      BY <2>1 DEF listNoSends, listFailed, listChange, Listed, Listing
    <3> QED
      BY <1>d, <3>1 DEF Steady, Typed, TypeOK, Idle
  <2>2. CASE abortListed(p) \/ unfailListed(p) \/ releaseListed(p) \/ listed(p)
    <3>1. s[p].pc \in Listing
      BY <2>2 DEF abortListed, unfailListed, releaseListed, listed, At, Listing
    <3>2. CASE Return(p)
      BY <3>2, ReturnSteady
    <3>3. CASE \E x : Rest(p, x)
      BY <1>d, <3>1, <3>3 DEF Rest, Steady, Typed, TypeOK, Session
    <3> QED
      BY <2>2, <3>2, <3>3 DEF abortListed, unfailListed, releaseListed, listed
  <2>3. CASE filterOutputs(p)
    <3>1. PICK held : s' = [s EXCEPT ![p].pc = "releaseListed", ![p].held = held]
      BY <2>3 DEF filterOutputs
    <3> QED
      BY <1>d, <3>1 DEF Steady, Typed, TypeOK, Session, Listing
  <2> QED
    BY <2>1, <2>2, <2>3 DEF ListSpecOpsStep
<1>2. CASE abortListed(p)
  <2>1. CASE UNCHANGED <<tx, req>>
    BY <1>1, <1>2, <2>1, RowsHumble DEF abortListed
  <2>2. CASE \E t \in Txs : abortTx(t)
    BY <1>1, <1>2, <2>2, AbortAgrees DEF abortListed
  <2> QED
    BY <1>2, <2>1, <2>2 DEF abortListed
<1>3. CASE unfailListed(p)
  <2>1. PICK t : tx' = [tx EXCEPT ![t] = UpdateTx(t, [@ EXCEPT !.status = "unfail"])]
    BY <1>3 DEF unfailListed
  <2>2. \A u \in Txs : \/ tx'[u] = tx[u]
                       \/ /\ tx'[u].status = "unfail" /\ tx'[u].proof = tx[u].proof
                          /\ tx[u].status # "none"
    BY <2>1 DEF UpdateTx, Typed, TypeOK, TxRow
  <2> QED
    BY <1>1, <1>3, <2>2 DEF unfailListed, Humble, KeepsProofs, Done, Typed, TypeOK
<1>4. CASE ~(abortListed(p) \/ unfailListed(p))
  <2>1. UNCHANGED <<tx, req, proven>>
    BY <1>4 DEF ListSpecOpsStep, listNoSends, listFailed, listChange, Listed, filterOutputs,
       releaseListed, listed, tables
  <2> QED
    BY <1>1, <2>1, RowsHumble
<1> QED
  BY <1>2, <1>3, <1>4

(* A caller that internalizes nothing. *)
LEMMA CallerAgrees ==
  ASSUME Typed, Locked, PlanInv, AgreesInv, ManagerLocks, "internalizeAction" \notin Calls,
         NEW p \in Callers, CallerStep(p)
  PROVE  AgreesInv'
<1> p \in Procs /\ p # Monitor /\ Nobody # Monitor
  BY NamesAssumption DEF Procs
<1>1. s[Monitor].pc \notin Holding
  BY CallerRuns DEF Locked, CallsLocked, Free, AgreesInv
<1>2. ~InternalizeActionStep(p)
  BY DEF InternalizeActionStep, internalizeAction, findOrInsertProvenTx, insertCompleted,
     insertUnproven, getProvenOrReq, storeOutput, mergeOutput, At, AgreesInv, InternalizePcs
<1>3. Humble /\ KeepsProofs /\ Steady(p)
  BY <1>2, CreateAgrees, ProcessAgrees, ListSpecOpsAgrees DEF CallerStep
<1> QED
  BY <1>1, <1>3, SteadyAgrees

----------------------------------------------------------------------------
(* The monitor *)

(* A step of the monitor that completes nothing. *)
LEMMA TaskAgrees ==
  ASSUME Typed, AgreesInv, Humble, KeepsProofs, \A p \in Callers : s'[p] = s[p],
         s[Monitor].pc # "notifyTx",
         Agrees(s[Monitor])', s'[Monitor].pc \notin InternalizePcs \cup Reviewing,
         s'[Monitor].pc \in Holding => s'[Monitor].pc = "insertProvenTx" /\ lock' = Monitor
  PROVE  AgreesInv'
<1>1. CompletedAgrees'
  BY DEF AgreesInv, CompletedAgrees, Humble, Done
<1>2. ASSUME NEW p \in Procs PROVE Agrees(s[p])' /\ s'[p].pc \notin InternalizePcs
  <2>1. CASE p = Monitor
    BY <2>1
  <2>2. CASE p # Monitor
    <3> PICK r : r = s[p]
      OBVIOUS
    <3>1. s'[p] = s[p]
      BY <2>2 DEF Procs
    <3>2. Agrees(r)'
      BY HasTxAgrees, AgreesStays DEF AgreesInv
    <3> QED
      BY <3>1, <3>2 DEF Agrees, AgreesInv
  <2> QED
    BY <2>1, <2>2
<1>3. ASSUME MaxFaults = 0 PROVE ProofsLinked'
  BY <1>3 DEF AgreesInv, ProofsLinked, KeepsProofs
<1>4. Notifying'
  BY PcsApart DEF Notifying
<1> QED
  BY <1>1, <1>2, <1>3, <1>4 DEF AgreesInv

(* A step of the monitor under the lock, while all callers are idle. *)
LEMMA HoldingAgrees ==
  ASSUME Typed, Locked, ManagerLocks, AgreesInv, s[Monitor].pc \in Holding,
         \A p \in Callers : s'[p] = s[p],
         CompletedAgrees', Agrees(s[Monitor])', s'[Monitor].pc \notin InternalizePcs,
         s'[Monitor].pc \in Holding => lock' = Monitor,
         s'[Monitor].pc \in Reviewing => "ReviewStatus" \in Tasks,
         Notifying', MaxFaults = 0 => ProofsLinked'
  PROVE  AgreesInv'
<1>1. \A p \in Callers : s[p].pc = "idle"
  BY NamesAssumption DEF Locked, CallsLocked, AgreesInv
<1>2. \A p \in Callers : Agrees(s[p])' /\ s'[p].pc \notin InternalizePcs
  BY <1>1, PcsApart DEF Agrees
<1> QED
  BY <1>2 DEF AgreesInv, Procs

LEMMA SendAgrees ==
  ASSUME Typed, AgreesInv, SendWaitingStep
  PROVE  AgreesInv'
<1> Monitor \in Procs /\ M = Monitor /\ s[Monitor] \in Session
  BY DEF Procs, M, Typed, TypeOK
<1>w. {"sendWaiting", "mergeBeef"} \subseteq Working /\ "idle" \notin Holding
      /\ "sendWaiting" \notin Holding
  BY DEF Working, Holding
<1>1. UNCHANGED <<tx, req, proven>>
  BY DEF SendWaitingStep, sendWaiting, processUnsent, Read, tables
<1>2. Steady(Monitor) /\ s[Monitor].pc \notin Holding
  <2>1. CASE \E t \in Txs : sendWaiting(t)
    <3> PICK t \in Txs : sendWaiting(t)
      BY <2>1
    <3>1. ~Done(t) /\ s[Monitor].pc = "idle"
      BY DEF sendWaiting, Read, At, AgreesInv, CompletedAgrees, Done
    <3>2. s' = [s EXCEPT ![Monitor] = [Idle EXCEPT !.pc = "sendWaiting", !.t = t,
                                        !.copy = req[t], !.counts = FALSE]]
      BY DEF sendWaiting, Read
    <3>3. s'[Monitor].pc = "sendWaiting" /\ s'[Monitor].t = t
      BY <3>2 DEF Typed, TypeOK, Idle
    <3> QED
      BY <1>w, <3>1, <3>2, <3>3 DEF Steady, Typed, TypeOK
  <2>2. CASE processUnsent
    <3>1. s[Monitor].pc = "sendWaiting" /\ Goto(Monitor, "mergeBeef")
      BY <2>2 DEF processUnsent, At
    <3>2. s[Monitor].t \in Txs /\ ~Done(s[Monitor].t)
      BY <1>w, <3>1, HasTxAgrees DEF AgreesInv, Agrees
    <3> QED
      BY <1>w, <3>1, <3>2 DEF Steady, Goto, Typed, TypeOK, Session
  <2> QED
    BY <2>1, <2>2 DEF SendWaitingStep
<1> QED
  BY <1>1, <1>2, RowsHumble, SteadyAgrees

LEMMA FailAbandonedAgrees ==
  ASSUME Typed, AgreesInv, FailAbandonedStep
  PROVE  AgreesInv'
<1> Monitor \in Procs /\ M = Monitor /\ s[Monitor] \in Session
  BY DEF Procs, M, Typed, TypeOK
<1>w. {"failAbandoned", "idle"} \cap Involved = {} /\ {"failAbandoned", "idle"} \cap Holding = {}
  BY DEF Involved, Working, Proving, Holding, InternalizePcs
<1>1. CASE \E t \in Txs : failAbandoned(t)
  <2>1. PICK t : s' = [s EXCEPT ![Monitor] = [Idle EXCEPT !.pc = "failAbandoned", !.t = t]]
    BY <1>1 DEF failAbandoned
  <2>2. Steady(Monitor)
    BY <1>w, <2>1 DEF Steady, Typed, TypeOK, Idle
  <2> QED
    BY <1>1, <1>w, <2>2, RowsHumble, SteadyAgrees DEF failAbandoned, At, tables
<1>2. CASE failAbandonedTx
  <2>1. /\ s[Monitor].t \in Txs /\ s[Monitor].pc \notin Holding
        /\ UNCHANGED <<req, proven>> /\ Steady(Monitor)
    BY <1>2, <1>w, ReturnSteady
    DEF failAbandonedTx, At, Typed, HasTx, Untied, Purging, Listing
  <2>2. updateTransactionStatus(s[Monitor].t, "failed") \/ UNCHANGED tx
    BY <1>2 DEF failAbandonedTx
  <2>3. KeepsProofs /\ \A u \in Txs : Done(u)' => Done(u)
    <3> PICK status : status = "failed"
      OBVIOUS
    <3>1. status # "completed" /\ (updateTransactionStatus(s[Monitor].t, status) \/ UNCHANGED tx)
      BY <2>2
    <3> QED
      BY <2>1, <3>1, UpdateAgrees
  <2> QED
    BY <2>1, <2>3, SteadyAgrees DEF Humble
<1> QED
  BY <1>1, <1>2 DEF FailAbandonedStep

LEMMA PurgeAgrees ==
  ASSUME Typed, AgreesInv, PurgeStep
  PROVE  AgreesInv'
<1> Monitor \in Procs /\ M = Monitor /\ s[Monitor] \in Session
  BY DEF Procs, M, Typed, TypeOK
<1>w. (Purging \cup {"idle"}) \cap Involved = {} /\ (Purging \cup {"idle"}) \cap Holding = {}
  BY DEF Involved, Working, Proving, Holding, InternalizePcs, Purging
<1>1. s[Monitor].pc \in Purging \cup {"idle"}
  BY DEF PurgeStep, purge, purgeCompleted, selectFailed, deleteFailedOutputs, markNotSpentBy,
     deleteFailedTxs, deleteFailedReqs, selectSpent, selectSpentThrows, forgetSpentBy,
     deleteSpentOutputs, deleteSpentTxs, deleteOrphans, At, Purging
<1>2. Steady(Monitor)
  <2>1. {AfterCompleted, AfterFailed, FirstPurge} \subseteq Purging
    BY DEF AfterCompleted, AfterFailed, FirstPurge, Purging
  <2>2. CASE purge
    BY <1>w, <2>1, <2>2 DEF purge, Steady, Typed, TypeOK, Idle
  <2>3. CASE selectFailed \/ selectSpent
    <3>1. PICK pc \in Purging : \E held : s' = [s EXCEPT ![Monitor].held = held,
                                                         ![Monitor].pc = pc]
      BY <2>3 DEF selectFailed, selectSpent, Purging
    <3> QED
      BY <1>w, <3>1 DEF Steady, Typed, TypeOK, Session
  <2>4. CASE Return(Monitor)
    BY <2>4, ReturnSteady
  <2>5. CASE \E pc \in Purging : Goto(Monitor, pc)
    BY <1>w, <2>5, GotoSteady
  <2> QED
    BY <2>1, <2>2, <2>3, <2>4, <2>5
    DEF PurgeStep, purgeCompleted, deleteFailedOutputs, markNotSpentBy, deleteFailedTxs,
        deleteFailedReqs, selectSpentThrows, forgetSpentBy, deleteSpentOutputs,
        deleteSpentTxs, deleteOrphans, Purging
<1>3. Humble /\ KeepsProofs
  <2>1. CASE purgeCompleted \/ deleteFailedReqs
    BY <2>1 DEF purgeCompleted, deleteFailedReqs, DeleteReqs, NoReq, Humble, KeepsProofs, Done
  <2>2. CASE deleteFailedTxs \/ deleteSpentTxs
    BY <2>2 DEF deleteFailedTxs, deleteSpentTxs, DeleteTxs, Humble, KeepsProofs, Done, Typed,
       TypeOK
  <2>3. CASE deleteOrphans
    BY <2>3 DEF deleteOrphans, Humble, KeepsProofs, Done
  <2>4. CASE ~(purgeCompleted \/ deleteFailedReqs \/ deleteFailedTxs \/ deleteSpentTxs
                 \/ deleteOrphans)
    BY <2>4, RowsHumble DEF PurgeStep, purge, selectFailed, deleteFailedOutputs,
       markNotSpentBy, selectSpent, selectSpentThrows, forgetSpentBy, deleteSpentOutputs,
       tables
  <2> QED
    BY <2>1, <2>2, <2>3, <2>4
<1> QED
  BY <1>1, <1>2, <1>3, <1>w, SteadyAgrees

LEMMA MerklePathPc ==
  ASSUME Typed, getMerklePath
  PROVE  s'[Monitor].pc \in {"saveCopy", "finishProof"} /\ s'[Monitor].t = s[Monitor].t
<1> Monitor \in Procs /\ M = Monitor /\ s[Monitor] \in Session
  BY DEF Procs, M, Typed, TypeOK
<1> PICK c : c = IF s[Monitor].counts THEN Counted(s[Monitor].copy) ELSE s[Monitor].copy
  OBVIOUS
<1>1. CASE s' = [s EXCEPT ![Monitor].pc = "saveCopy", ![Monitor].copy = c,
                          ![Monitor].kept = c.attempts]
  BY <1>1 DEF Typed, TypeOK, Session
<1>2. ASSUME NEW status,
             s' = [s EXCEPT ![Monitor].pc = "finishProof", ![Monitor].kept = c.attempts,
                            ![Monitor].copy = [c EXCEPT !.status = status]]
      PROVE  s'[Monitor].pc = "finishProof" /\ s'[Monitor].t = s[Monitor].t
  BY <1>2 DEF Typed, TypeOK, Session
<1> HIDE DEF Counted
<1>3. CASE ~(s' = [s EXCEPT ![Monitor].pc = "saveCopy", ![Monitor].copy = c,
                            ![Monitor].kept = c.attempts])
  <2>1. \E status : s' = [s EXCEPT ![Monitor].pc = "finishProof", ![Monitor].kept = c.attempts,
                                   ![Monitor].copy = [c EXCEPT !.status = status]]
    BY <1>3 DEF getMerklePath
  <2> QED
    BY <1>2, <2>1
<1> QED
  BY <1>1, <1>3

(* The search for a proof, up to the closure that stores it. *)
LEMMA SearchAgrees ==
  ASSUME Typed, AgreesInv, ManagerLocks,
         \/ \E t \in Txs, counts \in BOOLEAN : checkForProofs(t, counts) \/ checkNoSends(t, counts)
         \/ settleCopy \/ getMerklePath \/ proofTooNew \/ saveCopy \/ refreshCopy
         \/ newProvenTx \/ finishProof
  PROVE  AgreesInv'
<1> Monitor \in Procs /\ M = Monitor /\ s[Monitor] \in Session
  BY DEF Procs, M, Typed, TypeOK
<1>w. /\ {"getProofs", "saveCopy"} \subseteq Working
      /\ {"newProvenTx", "finishProof", "insertProvenTx"} \subseteq Proving
      /\ {"idle", "getProofs", "saveCopy", "refreshCopy", "newProvenTx", "finishProof"}
           \cap Holding = {}
      /\ {"idle", "refreshCopy"} \cap Involved = {}
      /\ Proving \cap (InternalizePcs \cup Reviewing \cup Working) = {}
      /\ "insertProvenTx" \in Holding
  BY DEF Working, Proving, Holding, Reviewing, Involved, InternalizePcs
<1>t. s[Monitor].pc \in {"getProofs", "saveCopy", "refreshCopy", "newProvenTx", "finishProof"} =>
        s[Monitor].t \in Txs
  BY DEF Typed, HasTx, Untied, Purging, Listing
<1>a. s[Monitor].pc \in {"getProofs", "saveCopy"} => ~Done(s[Monitor].t)
  BY <1>w DEF AgreesInv, Agrees
<1>m. \A p \in Callers : s'[p] = s[p]
  <2>1. GetProofsStep
    BY DEF GetProofsStep
  <2> QED
    BY <2>1, MonitorOnly DEF MonitorStep
<1>1. CASE \E t \in Txs, counts \in BOOLEAN : checkForProofs(t, counts) \/ checkNoSends(t, counts)
  <2>1. PICK t \in Txs :
          /\ req[t].status \in {"unmined", "sending", "nosend"}
          /\ \E counts : s' = [s EXCEPT ![Monitor] = [Idle EXCEPT !.pc = "getProofs", !.t = t,
                                           !.copy = req[t], !.counts = counts]]
    BY <1>1 DEF checkForProofs, checkNoSends, Read
  <2>2. s[Monitor].pc = "idle" /\ UNCHANGED <<tx, req, proven>>
    BY <1>1 DEF checkForProofs, checkNoSends, Read, At, tables
  <2>3. ~Done(t)
    BY <2>1 DEF AgreesInv, CompletedAgrees, Done
  <2>4. s'[Monitor].pc = "getProofs" /\ s'[Monitor].t = t
        /\ \A p \in Procs \ {Monitor} : s'[p] = s[p]
    BY <2>1 DEF Typed, TypeOK, Idle
  <2>5. Steady(Monitor)
    BY <1>w, <2>3, <2>4 DEF Steady
  <2> QED
    BY <1>w, <2>2, <2>5, RowsHumble, SteadyAgrees
<1>2. CASE settleCopy \/ saveCopy
  <2>1. /\ s[Monitor].t \in Txs /\ ~Done(s[Monitor].t) /\ UNCHANGED <<tx, proven>>
        /\ \E copy : WriteReq(s[Monitor].t, copy)
        /\ s[Monitor].pc \notin Holding
    BY <1>2, <1>a, <1>t, <1>w DEF settleCopy, saveCopy, At
  <2>2. Humble
    BY <2>1, WriteAgrees, RowsKept DEF Humble
  <2>3. Steady(Monitor)
    BY <1>2, <1>w, ReturnSteady, GotoSteady DEF settleCopy, saveCopy
  <2> QED
    BY <2>1, <2>2, <2>3, RowsKept, SteadyAgrees
<1>3. CASE proofTooNew
  <2>1. s[Monitor].pc = "getProofs" /\ Steady(Monitor) /\ UNCHANGED <<tx, req, proven>>
    BY <1>3, ReturnSteady DEF proofTooNew, At, tables
  <2> QED
    BY <1>w, <2>1, RowsHumble, SteadyAgrees
<1>4. CASE getMerklePath
  <2>1. s[Monitor].pc = "getProofs" /\ UNCHANGED <<tx, req, proven>>
    BY <1>4 DEF getMerklePath, At, tables
  <2>2. s'[Monitor].pc \in {"saveCopy", "finishProof"} /\ s'[Monitor].t = s[Monitor].t
    BY <1>4, MerklePathPc
  <2>3. Agrees(s[Monitor])'
    <3> PICK r : r = s'[Monitor]
      OBVIOUS
    <3>1. ~Done(r.t)'
      BY <1>a, <2>1, <2>2 DEF Done
    <3> QED
      BY <3>1 DEF Agrees
  <2> QED
    BY <1>m, <1>w, <2>1, <2>2, <2>3, RowsHumble, TaskAgrees, PcsApart
    DEF Reviewing, InternalizePcs
<1>5. CASE refreshCopy \/ newProvenTx
  <2>1. /\ s[Monitor].pc \in {"refreshCopy", "newProvenTx"} /\ s[Monitor].t \in Txs
        /\ UNCHANGED <<tx, req, proven>>
    BY <1>5, <1>t DEF refreshCopy, newProvenTx, At, tables
  <2>2. /\ s'[Monitor].pc \in Proving /\ s'[Monitor].t = s[Monitor].t
        /\ s'[Monitor].copy = req[s[Monitor].t]
        /\ s'[Monitor].pc \in Holding =>
             s'[Monitor].pc = "insertProvenTx" /\ lock' = Monitor
    <3>1. CASE refreshCopy
      BY <1>w, <3>1 DEF refreshCopy, Typed, TypeOK, Session
    <3>2. CASE newProvenTx
      <4>1. \/ /\ s' = [s EXCEPT ![Monitor].copy = req[s[Monitor].t],
                                 ![Monitor].pc = "insertProvenTx"]
               /\ lock' = Monitor
            \/ s' = [s EXCEPT ![Monitor].copy = req[s[Monitor].t],
                              ![Monitor].pc = "finishProof"]
        BY <3>2 DEF newProvenTx, Acquire
      <4> QED
        BY <1>w, <4>1 DEF Typed, TypeOK, Session
    <3> QED
      BY <1>5, <3>1, <3>2
  <2>3. Agrees(s[Monitor])'
    <3> PICK r : r = s'[Monitor]
      OBVIOUS
    <3>1. Done(r.t)' => r.copy.status \in {"completed", "none"}
      BY <2>1, <2>2 DEF Done, AgreesInv, CompletedAgrees
    <3> QED
      BY <1>w, <2>2, <3>1 DEF Agrees
  <2> QED
    BY <1>m, <1>w, <2>1, <2>2, <2>3, RowsHumble, TaskAgrees
<1>6. CASE finishProof
  <2>1. /\ s[Monitor].pc = "finishProof" /\ s[Monitor].t \in Txs /\ UNCHANGED <<tx, proven>>
        /\ Steady(Monitor)
    BY <1>6, <1>t, ReturnSteady DEF finishProof, At
  <2>2. PICK copy : WriteReq(s[Monitor].t, copy) /\ copy.status = s[Monitor].copy.status
    BY <1>6 DEF finishProof, Session, ReqRow
  <2>3. Done(s[Monitor].t) => copy.status \in {"completed", "none"}
    BY <1>w, <2>1, <2>2 DEF AgreesInv, Agrees
  <2>4. Humble
    BY <2>1, <2>2, <2>3, WriteAgrees, RowsKept DEF Humble
  <2> QED
    BY <1>w, <2>1, <2>4, RowsKept, SteadyAgrees
<1> QED
  BY <1>1, <1>2, <1>3, <1>4, <1>5, <1>6

(* The closure that stores the proof, under the lock. *)
LEMMA StoreAgrees ==
  ASSUME Typed, Locked, AgreesInv, ManagerLocks, insertProvenTx \/ notifyTx \/ saveNotified
  PROVE  AgreesInv'
<1> Monitor \in Procs /\ M = Monitor /\ s[Monitor] \in Session
  BY DEF Procs, M, Typed, TypeOK
<1>w. /\ "insertProvenTx" \in Holding /\ {"notifyTx", "saveNotified"} \subseteq Holding
      /\ {"notifyTx", "saveNotified"} \cap (Working \cup Proving \cup InternalizePcs \cup Reviewing) = {}
      /\ {"insertProvenTx", "finishProof"} \subseteq Proving /\ "finishProof" \notin Holding
      /\ Proving \cap (InternalizePcs \cup Reviewing \cup Working) = {}
  BY DEF Working, Proving, Holding, Reviewing, InternalizePcs
<1>h. s[Monitor].pc \in Holding /\ s[Monitor].t \in Txs /\ lock = Monitor
  BY <1>w DEF insertProvenTx, notifyTx, saveNotified, At, Typed, HasTx, Untied, Purging, Listing,
     AgreesInv
<1>m. \A p \in Callers : s'[p] = s[p]
  <2>1. GetProofsStep
    BY DEF GetProofsStep
  <2> QED
    BY <2>1, MonitorOnly DEF MonitorStep
<1> PICK t \in Txs : t = s[Monitor].t
  BY <1>h
<1>1. CASE insertProvenTx /\ t \in proven
  <2>1. /\ s' = [s EXCEPT ![Monitor].pc = "finishProof", ![Monitor].copy.proof = TRUE]
        /\ UNCHANGED <<tx, req, proven>>
        /\ s[Monitor].pc = "insertProvenTx"
    BY <1>1 DEF insertProvenTx, At
  <2>2. /\ s'[Monitor].pc = "finishProof" /\ s'[Monitor].t = t
        /\ s'[Monitor].copy.status = s[Monitor].copy.status
    BY <2>1 DEF Typed, TypeOK, Session, ReqRow
  <2>3. Agrees(s[Monitor])'
    <3> PICK r : r = s'[Monitor]
      OBVIOUS
    <3>1. Done(r.t)' => r.copy.status \in {"completed", "none"}
      BY <1>w, <2>1, <2>2 DEF Done, AgreesInv, Agrees
    <3> QED
      BY <1>w, <2>2, <3>1 DEF Agrees
  <2> QED
    BY <1>m, <1>w, <2>1, <2>2, <2>3, RowsHumble, TaskAgrees
<1>2. CASE insertProvenTx /\ t \notin proven
  <2> DEFINE c == [s[Monitor].copy EXCEPT !.status = "completed", !.proof = TRUE]
  <2>1. /\ s' = [s EXCEPT ![Monitor].pc = "notifyTx", ![Monitor].copy = c]
        /\ UNCHANGED <<tx, lock>> /\ proven' = proven \cup {t} /\ WriteReq(t, c)
        /\ s[Monitor].pc = "insertProvenTx"
    BY <1>2 DEF insertProvenTx, At
  <2>2. c.status = "completed"
    BY DEF Session, ReqRow
  <2> HIDE DEF c
  <2>3. s'[Monitor].pc = "notifyTx" /\ s'[Monitor].t = t /\ s'[Monitor].copy = c
    BY <2>1 DEF Typed, TypeOK, Session
  <2>4. /\ \A u \in Txs \ {t} : req'[u] = req[u]
        /\ req'[t].status \in {"none", "completed"}
    BY <2>1, <2>2, WriteAgrees
  <2>5. CompletedAgrees'
    BY <2>1, <2>4 DEF AgreesInv, CompletedAgrees
  <2>6. Agrees(s[Monitor])'
    BY <1>w, <2>3 DEF Agrees
  <2>7. Notifying'
    BY <2>2, <2>3, <2>4 DEF Notifying
  <2>8. ASSUME MaxFaults = 0 PROVE ProofsLinked'
    BY <2>1, <2>3, <2>8 DEF AgreesInv, ProofsLinked
  <2> QED
    BY <1>h, <1>m, <1>w, <2>1, <2>3, <2>5, <2>6, <2>7, <2>8, HoldingAgrees
<1>3. CASE notifyTx
  <2>1. /\ s[Monitor].pc = "notifyTx" /\ Goto(Monitor, "saveNotified")
        /\ UNCHANGED <<req, proven, lock>>
    BY <1>3 DEF notifyTx, At
  <2>2. /\ \A u \in Txs \ {t} : tx'[u] = tx[u]
        /\ \/ UNCHANGED tx /\ MaxFaults # 0
           \/ tx'[t].status = "none" \/ (tx'[t].status = "completed" /\ tx'[t].proof)
    <3>1. CASE tx' = [tx EXCEPT ![t] = UpdateTx(t, [status |-> "completed", proof |-> TRUE])]
      BY <3>1 DEF UpdateTx, Typed, TypeOK
    <3>2. CASE faults < MaxFaults /\ UNCHANGED tx
      BY <3>2, OptionsAssumption DEF Typed, TypeOK
    <3> QED
      BY <1>3, <3>1, <3>2 DEF notifyTx
  <2>3. s'[Monitor].pc = "saveNotified" /\ s'[Monitor].t = t
        /\ s'[Monitor].copy = s[Monitor].copy
    BY <2>1 DEF Goto, Typed, TypeOK, Session
  <2>4. s[Monitor].copy.status = "completed" /\ req[t].status \in {"completed", "none"}
    BY <2>1 DEF AgreesInv, Notifying
  <2>5. CompletedAgrees'
    BY <2>1, <2>2, <2>4 DEF AgreesInv, CompletedAgrees
  <2>6. Agrees(s[Monitor])'
    BY <1>w, <2>3 DEF Agrees
  <2>7. Notifying'
    BY <2>1, <2>3, <2>4 DEF Notifying
  <2>8. ASSUME MaxFaults = 0 PROVE ProofsLinked'
    BY <2>1, <2>2, <2>8 DEF AgreesInv, ProofsLinked, Typed, TypeOK
  <2> QED
    BY <1>h, <1>m, <1>w, <2>1, <2>3, <2>5, <2>6, <2>7, <2>8, HoldingAgrees
<1>4. CASE saveNotified
  <2>1. /\ s[Monitor].pc = "saveNotified" /\ Goto(Monitor, "finishProof")
        /\ UNCHANGED <<tx, proven>> /\ WriteReq(t, s[Monitor].copy)
    BY <1>4 DEF saveNotified, At
  <2>2. s'[Monitor].pc = "finishProof" /\ s'[Monitor].t = t
        /\ s'[Monitor].copy = s[Monitor].copy
    BY <2>1 DEF Goto, Typed, TypeOK, Session
  <2>3. s[Monitor].copy.status = "completed"
    BY <2>1 DEF AgreesInv, Notifying
  <2>4. Humble
    BY <2>1, <2>3, WriteAgrees, RowsKept DEF Humble
  <2>5. Agrees(s[Monitor])'
    BY <1>w, <2>2, <2>3 DEF Agrees
  <2> QED
    BY <1>m, <1>w, <2>1, <2>2, <2>4, <2>5, RowsKept, TaskAgrees
<1> QED
  BY <1>1, <1>2, <1>3, <1>4

(* A transaction that is revived is unproven by then. *)
LEMMA UnFailAgrees ==
  ASSUME Typed, AgreesInv, UnFailStep
  PROVE  AgreesInv'
<1> Monitor \in Procs /\ M = Monitor /\ Nobody # Monitor /\ s[Monitor] \in Session
  BY NamesAssumption DEF Procs, M, Typed, TypeOK
<1>w. /\ {"getPath", "unfailTx", "unfailReq"} \subseteq Working
      /\ {"getPath", "unfailTx", "unfailReq", "idle"} \cap Holding = {}
  BY DEF Working, Holding
<1>a. s[Monitor].pc \in {"getPath", "unfailTx", "unfailReq"} =>
        s[Monitor].t \in Txs /\ ~Done(s[Monitor].t)
  BY <1>w, HasTxAgrees DEF AgreesInv, Agrees
<1>1. CASE \E t \in Txs : assignUnfail(t)
  <2>1. PICK t \in Txs : /\ req[t].status = "invalid" /\ UNCHANGED <<tx, proven, s>>
                         /\ req' = [req EXCEPT ![t].status = "unfail"] /\ Free
    BY <1>1 DEF assignUnfail
  <2>2. ~Done(t)
    BY <2>1 DEF AgreesInv, CompletedAgrees, Done
  <2>3. Humble
    BY <2>1, <2>2 DEF Humble, Done, Typed, TypeOK
  <2>4. Steady(Monitor) /\ s[Monitor].pc \notin Holding
    BY <2>1, ReturnSteady DEF AgreesInv, Free
  <2> QED
    BY <2>1, <2>3, <2>4, RowsKept, SteadyAgrees
<1>2. CASE \E t \in Txs : unfail(t)
  <2>1. PICK t \in Txs : /\ req[t].status = "unfail" /\ UNCHANGED <<tx, req, proven>>
                         /\ s[Monitor].pc = "idle"
                         /\ s' = [s EXCEPT ![Monitor] = [Idle EXCEPT !.pc = "getPath", !.t = t,
                                             !.copy = req[t], !.counts = FALSE]]
    BY <1>2 DEF unfail, Read, At, tables
  <2>2. ~Done(t)
    BY <2>1 DEF AgreesInv, CompletedAgrees, Done
  <2>3. s'[Monitor].pc = "getPath" /\ s'[Monitor].t = t
        /\ \A p \in Procs \ {Monitor} : s'[p] = s[p]
    BY <2>1 DEF Typed, TypeOK, Idle
  <2>4. Steady(Monitor)
    BY <1>w, <2>2, <2>3 DEF Steady
  <2> QED
    BY <1>w, <2>1, <2>4, RowsHumble, SteadyAgrees
<1>3. CASE getUnfailPath
  <2>1. s[Monitor].pc = "getPath" /\ UNCHANGED <<tx, req, proven>>
    BY <1>3 DEF getUnfailPath, At, tables
  <2>2. s'[Monitor].pc \in {"unfailTx", "unfailReq"} /\ s'[Monitor].t = s[Monitor].t
        /\ \A p \in Procs \ {Monitor} : s'[p] = s[p]
    <3>1. CASE s' = [s EXCEPT ![Monitor].pc = "unfailTx", ![Monitor].copy.status = "unmined",
                              ![Monitor].copy.attempts = 0]
      BY <3>1 DEF Typed, TypeOK, Session
    <3>2. CASE s' = [s EXCEPT ![Monitor].pc = "unfailReq", ![Monitor].copy.status = "invalid"]
      BY <3>2 DEF Typed, TypeOK, Session
    <3> QED
      BY <1>3, <3>1, <3>2 DEF getUnfailPath
  <2>3. Steady(Monitor)
    BY <1>a, <1>w, <2>1, <2>2 DEF Steady
  <2> QED
    BY <1>w, <2>1, <2>3, RowsHumble, SteadyAgrees
<1>4. CASE unfailTx
  <2>1. /\ s[Monitor].pc = "unfailTx" /\ Goto(Monitor, "unfailReq")
        /\ UNCHANGED <<req, proven>>
        /\ \/ UNCHANGED tx
           \/ /\ tx[s[Monitor].t].status # "none"
              /\ tx' = [tx EXCEPT ![s[Monitor].t].status = "unproven"]
    BY <1>4 DEF unfailTx, At
  <2>2. \A t \in Txs : \/ tx'[t] = tx[t]
                       \/ /\ tx'[t].status = "unproven" /\ tx'[t].proof = tx[t].proof
                          /\ tx[t].status # "none"
    BY <1>a, <2>1 DEF Typed, TypeOK, TxRow
  <2>3. Humble /\ KeepsProofs
    BY <2>1, <2>2 DEF Humble, KeepsProofs, Done, Typed, TypeOK
  <2>4. s'[Monitor].pc = "unfailReq" /\ s'[Monitor].t = s[Monitor].t
        /\ \A p \in Procs \ {Monitor} : s'[p] = s[p]
    BY <2>1 DEF Goto, Typed, TypeOK, Session
  <2>5. Steady(Monitor)
    BY <1>a, <1>w, <2>1, <2>4 DEF Steady
  <2> QED
    BY <1>w, <2>1, <2>3, <2>5, SteadyAgrees
<1>5. CASE unfailReq
  <2>1. /\ s[Monitor].pc = "unfailReq" /\ UNCHANGED <<tx, proven>>
        /\ WriteReq(s[Monitor].t, s[Monitor].copy) /\ Steady(Monitor)
    BY <1>5, ReturnSteady DEF unfailReq, At
  <2>2. Humble
    BY <1>a, <2>1, WriteAgrees, RowsKept DEF Humble
  <2> QED
    BY <1>w, <2>1, <2>2, RowsKept, SteadyAgrees
<1> QED
  BY <1>1, <1>2, <1>3, <1>4, <1>5 DEF UnFailStep

(* reviewStatus completes only what has a proof the notification missed,   *)
(* and without faults it misses none.                                      *)
LEMMA ReviewAgrees ==
  ASSUME Typed, Locked, AgreesInv, ManagerLocks, "ReviewStatus" \in Tasks => MaxFaults = 0,
         ReviewStatusStep
  PROVE  AgreesInv'
<1> Monitor \in Procs /\ M = Monitor /\ s[Monitor] \in Session
  BY DEF Procs, M, Typed, TypeOK
<1>w. /\ Reviewing \subseteq Holding /\ "idle" \notin Holding
      /\ Reviewing \cap (Working \cup Proving \cup InternalizePcs) = {}
      /\ {"notifyTx", "saveNotified"} \cap Reviewing = {}
  BY DEF Working, Proving, Holding, Reviewing, InternalizePcs
<1>m. \A p \in Callers : s'[p] = s[p]
  BY MonitorOnly DEF MonitorStep
<1>1. CASE reviewStatus
  <2>1. /\ UNCHANGED <<tx, req, proven>> /\ lock' = Monitor /\ "ReviewStatus" \in Tasks
        /\ s[Monitor].pc = "idle" /\ s'[Monitor].pc = "review1"
        /\ \A p \in Procs \ {Monitor} : s'[p] = s[p]
    BY <1>1 DEF reviewStatus, At, Acquire, tables, Typed, TypeOK, Idle
  <2>2. Humble /\ KeepsProofs
    BY <2>1, RowsHumble
  <2>3. ASSUME NEW p \in Procs PROVE Agrees(s[p])' /\ s'[p].pc \notin InternalizePcs
    <3>1. CASE p = Monitor
      BY <1>w, <2>1, <3>1 DEF Agrees, Reviewing
    <3>2. CASE p # Monitor
      <4> PICK r : r = s[p]
        OBVIOUS
      <4>1. Agrees(r)'
        BY <2>2, HasTxAgrees, AgreesStays DEF AgreesInv
      <4> QED
        BY <2>1, <3>2, <4>1 DEF Agrees, AgreesInv
    <3> QED
      BY <3>1, <3>2
  <2>4. CompletedAgrees' /\ (MaxFaults = 0 => ProofsLinked')
    BY <2>1 DEF AgreesInv, CompletedAgrees, ProofsLinked
  <2>5. Notifying'
    BY <1>w, <2>1 DEF Notifying, Reviewing
  <2> QED
    BY <2>1, <2>3, <2>4, <2>5 DEF AgreesInv
<1>2. CASE ~reviewStatus
  <2>1. /\ s[Monitor].pc \in Reviewing /\ s[Monitor].pc \in Holding /\ MaxFaults = 0
        /\ UNCHANGED <<req, proven>> /\ "ReviewStatus" \in Tasks
    BY <1>2, <1>w DEF ReviewStatusStep, failWhereReqInvalid, releaseWhereTxFailed,
       completeWhereProven, At, Reviewing, AgreesInv
  <2>2. \A t \in Txs : \/ tx'[t] = tx[t]
                       \/ /\ tx'[t].status = "failed" /\ tx'[t].proof = tx[t].proof
                          /\ tx[t].status # "none"
    <3>1. CASE failWhereReqInvalid
      BY <3>1 DEF failWhereReqInvalid, UpdateTx, Typed, TypeOK, TxRow
    <3>2. CASE releaseWhereTxFailed
      BY <3>2 DEF releaseWhereTxFailed
    <3>3. CASE completeWhereProven
      <4>1. \A t \in Txs : ~MissedProof(t)
        BY <1>w, <2>1 DEF AgreesInv, ProofsLinked, MissedProof
      <4> QED
        BY <3>3, <4>1 DEF completeWhereProven
    <3> QED
      BY <1>2, <3>1, <3>2, <3>3 DEF ReviewStatusStep
  <2>3. /\ s'[Monitor].pc \in Reviewing \cup {"idle"}
        /\ s'[Monitor].pc \in Reviewing => lock' = lock
    <3>1. CASE Return(Monitor)
      BY <1>w, <3>1, IdleTyped DEF Return, Typed, TypeOK, Reviewing
    <3>2. CASE UNCHANGED lock /\ (Goto(Monitor, "review2") \/ Goto(Monitor, "review3"))
      BY <3>2 DEF Goto, Typed, TypeOK, Session, Reviewing
    <3> QED
      BY <1>2, <3>1, <3>2 DEF ReviewStatusStep, failWhereReqInvalid, releaseWhereTxFailed,
         completeWhereProven
  <2>4. CompletedAgrees'
    BY <2>1, <2>2 DEF AgreesInv, CompletedAgrees
  <2>5. ProofsLinked'
    BY <1>w, <2>1, <2>2 DEF AgreesInv, ProofsLinked, Typed, TypeOK, TxRow
  <2>6. Agrees(s[Monitor])' /\ Notifying' /\ s'[Monitor].pc \notin InternalizePcs
    BY <1>w, <2>3, PcsApart DEF Agrees, Notifying
  <2>7. s'[Monitor].pc \in Holding => lock' = Monitor
    BY <1>w, <2>1, <2>3 DEF AgreesInv
  <2> QED
    BY <1>m, <2>1, <2>4, <2>5, <2>6, <2>7, HoldingAgrees
<1> QED
  BY <1>1, <1>2

(* An exception ends what a process was doing and changes no row. *)
LEMMA ThrowsAgrees ==
  ASSUME Typed, Locked, AgreesInv, ManagerLocks, NEW p \in Procs, Throws(p)
  PROVE  AgreesInv'
<1> Monitor \in Procs /\ UNCHANGED <<tx, req, proven>> /\ s'[p].pc = "idle"
  BY IdleTyped DEF Procs, Throws, tables, Return, Typed, TypeOK
<1> MaxFaults # 0
  BY OptionsAssumption DEF Throws, Typed, TypeOK
<1>1. CASE s[Monitor].pc \notin Holding
  BY <1>1, RowsHumble, ReturnSteady, SteadyAgrees DEF Throws
<1>2. CASE s[Monitor].pc \in Holding
  <2>1. p = Monitor
    BY <1>2, NamesAssumption DEF Throws, At, Locked, CallsLocked, AgreesInv, Procs
  <2>2. CompletedAgrees'
    BY DEF AgreesInv, CompletedAgrees
  <2>3. Agrees(s[Monitor])' /\ Notifying' /\ s'[Monitor].pc \notin InternalizePcs \cup Holding
    BY <2>1, PcsApart DEF Agrees, Notifying
  <2>4. \A q \in Callers : s'[q] = s[q]
    BY <2>1, NamesAssumption DEF Throws, Return
  <2> QED
    BY <1>2, <2>2, <2>3, <2>4, PcsApart, HoldingAgrees
<1> QED
  BY <1>1, <1>2

LEMMA NextAgrees ==
  ASSUME Typed, Locked, PlanInv, AgreesInv, ManagerLocks, "internalizeAction" \notin Calls,
         "ReviewStatus" \in Tasks => MaxFaults = 0, [Next]_vars
  PROVE  AgreesInv'
<1> Monitor \in Procs
  BY DEF Procs
<1>1. CASE MonitorStep
  <2>1. CASE GetProofsStep
    BY <2>1, SearchAgrees, StoreAgrees DEF GetProofsStep
  <2> QED
    BY <1>1, <2>1, SendAgrees, FailAbandonedAgrees, UnFailAgrees, ReviewAgrees DEF MonitorStep
<1>2. CASE PostStep(Monitor)
  <2>1. s[Monitor].pc \notin Holding
    BY <1>2 DEF Holding, PostStep, mergeBeef, postBeef, transferNotes, mergeBeefThrows, refreshReq,
       updateReqFromResult, updateTxFromResult, At
  <2> QED
    BY <1>2, <2>1, PostAgrees, SteadyAgrees
<1>3. CASE (\E t \in Txs : Arrive(t) \/ Mine(t)) \/ UNCHANGED vars
  <2>1. UNCHANGED <<tx, req, proven, s, lock>>
    BY <1>3 DEF Arrive, Mine, vars, tables
  <2>2. \A p \in Procs : Agrees(s[p])'
    BY <2>1 DEF AgreesInv, Agrees, Done
  <2> QED
    BY <2>1, <2>2 DEF AgreesInv, CompletedAgrees, Notifying, ProofsLinked
<1> QED
  BY <1>1, <1>2, <1>3, CallerAgrees, PurgeAgrees, ThrowsAgrees DEF Next

(* The req of a completed transaction is completed, or purged: no retry,   *)
(* posting or copy that was read before the proof arrived writes another   *)
(* status over it, and nothing completes a transaction but the proof of    *)
(* its req.  internalizeAction is left out: it completes a transaction     *)
(* whose req is a double spend.  Neither does it hold with faults where    *)
(* reviewStatus runs: that task completes what a failed notification left. *)
THEOREM CompletionIsShared ==
  ASSUME ManagerLocks, "internalizeAction" \notin Calls,
         "ReviewStatus" \in Tasks => MaxFaults = 0
  PROVE  Spec => []CompletedAgrees
<1> DEFINE Inv == Typed /\ Locked /\ PlanInv /\ AgreesInv
<1>1. Init => Inv
  BY InitTyped, InitLocked, InitPlan, InitAgrees
<1>2. Inv /\ [Next]_vars => Inv'
  BY NextTyped, NextLocked, NextPlan, NextAgrees
<1>3. Inv => CompletedAgrees
  BY DEF AgreesInv
<1> QED
  BY <1>1, <1>2, <1>3, PTL DEF Spec

----------------------------------------------------------------------------
(* A terminal status of a req is left only by the operator, by the purge   *)
(* and by a copy that the monitor writes back.  What is posted was read    *)
(* under the lock, or by the monitor before; in both cases the row is      *)
(* read again, or written, before a result is stored in it.                *)

Posting == {"mergeBeef", "postBeef", "transferNotes", "refresh", "updateReq", "updateTx"}

UnderLock == Posting \cup {"insertProvenTx", "notifyTx", "saveNotified"}

(* The locals r of any process.                                            *)
Fresh(r) ==
  /\ r.pc \in {"sendWaiting", "mergeBeef", "postBeef", "transferNotes"} =>
       r.copy.status \notin Terminal
  /\ r.pc \in {"refresh", "updateReq"} => req[r.t].status \notin Terminal
  /\ r.pc \in {"notifyTx", "saveNotified"} => r.copy.status = "completed"

(* And of a caller, who has had the lock since the req was read.           *)
Fresher(r) ==
  r.pc \in {"bump", "mergeBeef", "postBeef", "transferNotes"} =>
    req[r.t].status \notin Terminal

TerminalInv ==
  /\ s[Monitor].pc \in UnderLock => lock = Monitor
  /\ \A p \in Procs : Fresh(s[p])
  /\ \A p \in Callers : Fresher(s[p])

(* What TerminalIsFinal asks of a step. *)
KeepsTerminal ==
  \A t \in Txs : req[t].status \in Terminal =>
    req'[t].status \in Terminal \cup {"unfail", "none"} \/ WritesBack(t)

(* Steps that are not about posting or storing a proof. *)
FreshPcs == UnderLock \cup {"sendWaiting", "bump"}

LEMMA OtherPcs ==
  ASSUME NEW r, r.pc \notin FreshPcs
  PROVE  Fresh(r) /\ Fresher(r) /\ r.pc \notin UnderLock
  BY DEF FreshPcs, UnderLock, Posting, Fresh, Fresher

LEMMA IdleFresh == Idle.pc \notin FreshPcs
  BY IdleTyped DEF FreshPcs, UnderLock, Posting

LEMMA ReqKept ==
  ASSUME UNCHANGED req
  PROVE  KeepsTerminal
  BY DEF KeepsTerminal

LEMMA PostTerminal ==
  ASSUME Typed, NEW p \in Procs, Fresh(s[p]), p # Monitor => Fresher(s[p]), PostStep(p)
  PROVE  /\ KeepsTerminal /\ Fresh(s[p])'
         /\ p # Monitor => Fresher(s[p])'
         /\ s'[p].pc \notin UnderLock \/ UNCHANGED lock
<1> s[p] \in Session /\ p \in DOMAIN s /\ M = Monitor
  BY DEF Typed, TypeOK, M
<1>i. s'[p].pc \notin FreshPcs => Fresh(s[p])' /\ Fresher(s[p])' /\ s'[p].pc \notin UnderLock
  <2> PICK r : r = s'[p]
    OBVIOUS
  <2> QED
    BY DEF FreshPcs, UnderLock, Posting, Fresh, Fresher
<1>t. s[p].pc \in Posting => s[p].t \in Txs
  BY TiedPcs DEF Typed, HasTx, Posting
<1>1. CASE mergeBeef(p)
  <2>1. s'[p].pc = "postBeef" /\ s'[p].t = s[p].t /\ s'[p].copy = s[p].copy
    BY <1>1 DEF mergeBeef, Goto, Typed, TypeOK, Session
  <2>2. UNCHANGED <<req, lock>> /\ s[p].pc = "mergeBeef"
    BY <1>1 DEF mergeBeef, At, tables
  <2> QED
    BY <2>1, <2>2, ReqKept DEF Fresh, Fresher
<1>2. CASE mergeBeefThrows(p)
  <2>1. /\ s[p].pc = "mergeBeef" /\ s[p].t \in Txs /\ Return(p)
        /\ \E copy : WriteReq(s[p].t, copy)
    BY <1>2, <1>t DEF mergeBeefThrows, At, Posting
  <2>2. KeepsTerminal
    BY <2>1, WriteAgrees DEF KeepsTerminal, WritesBack, Fresh, Fresher
  <2> QED
    BY <1>i, <2>1, <2>2, IdleFresh DEF Return, Typed, TypeOK
<1>3. CASE postBeef(p)
  <2>1. PICK v : s' = [s EXCEPT ![p].pc = "transferNotes", ![p].verdict = v]
    BY <1>3 DEF postBeef
  <2>2. s'[p].pc = "transferNotes" /\ s'[p].t = s[p].t /\ s'[p].copy = s[p].copy
    BY <2>1 DEF Typed, TypeOK, Session
  <2>3. UNCHANGED <<req, lock>> /\ s[p].pc = "postBeef"
    BY <1>3 DEF postBeef, At, tables
  <2> QED
    BY <2>2, <2>3, ReqKept DEF Fresh, Fresher
<1>4. CASE transferNotes(p)
  <2>1. /\ s[p].pc = "transferNotes" /\ s[p].t \in Txs /\ UNCHANGED lock
        /\ WriteReq(s[p].t, s[p].copy)
    BY <1>4, <1>t DEF transferNotes, At, Posting
  <2>2. s'[p].pc = "refresh" /\ s'[p].t = s[p].t
    BY <1>4 DEF transferNotes, Goto, Typed, TypeOK, Session
  <2>3. req'[s[p].t].status \notin Terminal
    BY <2>1, WriteAgrees DEF Fresh, Terminal
  <2>4. KeepsTerminal
    BY <2>1, WriteAgrees DEF KeepsTerminal, WritesBack, Fresh, Fresher
  <2> QED
    BY <2>1, <2>2, <2>3, <2>4 DEF Fresh, Fresher
<1>5. CASE refreshReq(p)
  <2>1. s[p].pc = "refresh" /\ UNCHANGED req
    BY <1>5 DEF refreshReq, At, tables
  <2>2. CASE Return(p)
    BY <1>i, <2>1, <2>2, ReqKept, IdleFresh DEF Return, Typed, TypeOK
  <2>3. CASE s' = [s EXCEPT ![p].copy = req[s[p].t], ![p].pc = "updateReq"] /\ UNCHANGED lock
    <3>1. s'[p].pc = "updateReq" /\ s'[p].t = s[p].t
      BY <2>3 DEF Typed, TypeOK, Session
    <3> QED
      BY <2>1, <2>3, <3>1, ReqKept DEF Fresh, Fresher
  <2> QED
    BY <1>5, <2>2, <2>3 DEF refreshReq
<1>6. CASE updateReqFromResult(p)
  <2>1. PICK v : s' = [s EXCEPT ![p].verdict = v, ![p].pc = "updateTx"]
    BY <1>6 DEF updateReqFromResult
  <2>2. s[p].pc = "updateReq" /\ s[p].t \in Txs /\ UNCHANGED lock /\ \E copy : WriteReq(s[p].t, copy)
    BY <1>6, <1>t DEF updateReqFromResult, At, Posting
  <2>3. s'[p].pc = "updateTx"
    BY <2>1 DEF Typed, TypeOK, Session
  <2>4. KeepsTerminal
    BY <2>2, WriteAgrees DEF KeepsTerminal, Fresh
  <2> QED
    BY <2>2, <2>3, <2>4 DEF Fresh, Fresher
<1>7. CASE updateTxFromResult(p)
  BY <1>7, <1>i, ReqKept, IdleFresh DEF updateTxFromResult, Return, Typed, TypeOK
<1> QED
  BY <1>1, <1>2, <1>3, <1>4, <1>5, <1>6, <1>7 DEF PostStep

LEMMA AbortTerminal ==
  ASSUME Typed, NEW t \in Txs, abortTx(t)
  PROVE  KeepsTerminal
<1>1. \A u \in Txs : req'[u] = req[u] \/ req'[u].status = "invalid"
  BY DEF abortTx, Typed, TypeOK, ReqRow
<1> QED
  BY <1>1 DEF KeepsTerminal, Terminal

(* The other steps of a caller: no terminal status is left, and a req is   *)
(* taken to be sent only if it is ready for that.                          *)
LEMMA CallTerminal ==
  ASSUME Typed, NEW p \in Callers, Fresh(s[p]), Fresher(s[p]), CallerStep(p)
  PROVE  KeepsTerminal /\ Fresh(s[p])' /\ Fresher(s[p])'
<1> p \in Procs /\ s[p] \in Session /\ p # Monitor
  BY NamesAssumption DEF Procs, Typed, TypeOK
<1>i. s'[p].pc \notin FreshPcs => Fresh(s[p])' /\ Fresher(s[p])'
  <2> PICK r : r = s'[p]
    OBVIOUS
  <2> QED
    BY DEF FreshPcs, UnderLock, Posting, Fresh, Fresher
<1>w. /\ Funding \cap FreshPcs = {} /\ InternalizePcs \cap FreshPcs = {}
      /\ Listing \cap FreshPcs = {} /\ {"idle", "commit", "share"} \cap FreshPcs = {}
  BY DEF Funding, FreshPcs, InternalizePcs, Listing, UnderLock, Posting
<1>n. Terminal \cap ({"none"} \cup ReadyToSend) = {}
  BY DEF Terminal, ReadyToSend
<1>r. s'[p] = Idle => s'[p].pc \notin FreshPcs
  BY IdleFresh
<1>1. CASE CreateActionStep(p)
  <2>1. UNCHANGED req
    BY <1>1 DEF CreateActionStep, createNewTxRecord, allocateNoSendChange, allocateChangeInput,
       startRelease, releaseChangeInput, released, funded, createNewOutputs,
       mergeAllocatedChangeBeefs, createNewInput, createNewInputThrows, createActionReturns,
       tables
  <2>2. s'[p].pc \in Funding \cup {"idle"}
    <3>1. CASE \E t \in Txs : createNewTxRecord(p, t)
      <4> PICK t \in Txs : createNewTxRecord(p, t)
        BY <3>1
      <4>1. NoSendChange \subseteq Outs /\ CustomCoins \subseteq Outs
        BY DEF NoSendChange, Outs, Coins
      <4>2. PICK mode \in Modes, given \in SUBSET Outs, fixed \in SUBSET Outs :
              s' = [s EXCEPT ![p] = [Idle EXCEPT !.pc = "fund", !.t = t, !.mode = mode,
                                       !.given = given, !.nsc = given, !.fixed = fixed]]
        BY <4>1 DEF createNewTxRecord, RequiredInputs, Typed, TypeOK
      <4> QED
        BY <4>2 DEF Funding, Idle, Typed, TypeOK
    <3>2. CASE allocateNoSendChange(p) \/ allocateChangeInput(p) \/ createNewInput(p)
      <4>1. PICK held, nsc : \/ s' = [s EXCEPT ![p].held = held]
                             \/ s' = [s EXCEPT ![p].held = held, ![p].nsc = nsc]
                             \/ s' = [s EXCEPT ![p].nsc = nsc, ![p].held = held]
        BY <3>2 DEF allocateNoSendChange, allocateChangeInput, createNewInput
      <4>2. s[p].pc \in Funding
        BY <3>2 DEF allocateNoSendChange, allocateChangeInput, createNewInput, At, Funding
      <4> QED
        BY <4>1, <4>2 DEF Typed, TypeOK, Session, Funding
    <3>3. CASE startRelease(p) \/ releaseChangeInput(p)
      <4>1. PICK again, held, nsc :
              \/ s' = [s EXCEPT ![p].pc = "release", ![p].again = again]
              \/ s' = [s EXCEPT ![p].held = held, ![p].nsc = nsc]
              \/ s' = [s EXCEPT ![p].held = held]
        BY <3>3 DEF startRelease, releaseChangeInput
      <4>2. s[p].pc \in Funding
        BY <3>3 DEF startRelease, releaseChangeInput, At, Funding
      <4> QED
        BY <4>1, <4>2 DEF Typed, TypeOK, Session, Funding
    <3>4. CASE released(p) \/ funded(p) \/ createNewOutputs(p) \/ mergeAllocatedChangeBeefs(p)
      BY <3>4, IdleTyped DEF released, funded, createNewOutputs, mergeAllocatedChangeBeefs, Goto,
         Return, Funding, Typed, TypeOK, Session
    <3>5. CASE createNewInputThrows(p) \/ createActionReturns(p)
      BY <3>5, IdleTyped DEF createNewInputThrows, createActionReturns, Return, Typed, TypeOK
    <3> QED
      BY <1>1, <3>1, <3>2, <3>3, <3>4, <3>5 DEF CreateActionStep
  <2> QED
    BY <1>i, <1>w, <2>1, <2>2, ReqKept
<1>2. CASE InternalizeActionStep(p)
  <2>1. s'[p].pc \in InternalizePcs \cup {"idle"}
    <3>1. CASE \E t \in Txs : internalizeAction(p, t)
      <4>1. PICK t, pc : /\ s' = [s EXCEPT ![p] = [Idle EXCEPT !.t = t, !.pc = pc]]
                         /\ pc \in InternalizePcs
        BY <3>1 DEF internalizeAction, InternalizePcs
      <4> QED
        BY <4>1 DEF Idle, Typed, TypeOK
    <3>2. CASE findOrInsertProvenTx(p) \/ insertCompleted(p) \/ insertUnproven(p)
               \/ getProvenOrReq(p)
      BY <3>2, IdleTyped DEF findOrInsertProvenTx, insertCompleted, insertUnproven, InsertTx,
         getProvenOrReq, Goto, Return, InternalizePcs, Typed, TypeOK, Session
    <3>3. CASE storeOutput(p) \/ mergeOutput(p)
      BY <3>3, IdleTyped DEF storeOutput, mergeOutput, Return, Typed, TypeOK
    <3> QED
      BY <1>2, <3>1, <3>2, <3>3 DEF InternalizeActionStep
  <2>2. \A t \in Txs : req[t].status # "none" => req'[t] = req[t]
    BY <1>2 DEF InternalizeActionStep, internalizeAction, findOrInsertProvenTx, insertCompleted,
       insertUnproven, getProvenOrReq, storeOutput, mergeOutput, tables, Typed, TypeOK
  <2> QED
    BY <1>i, <1>n, <1>w, <2>1, <2>2 DEF KeepsTerminal
<1>3. CASE ListSpecOpsStep(p)
  <2>1. s'[p].pc \in Listing \cup {"idle"}
    <3>1. CASE listNoSends(p) \/ listFailed(p) \/ listChange(p)
      <4>1. PICK pc \in Listing : \E held :
              s' = [s EXCEPT ![p] = [Idle EXCEPT !.pc = pc, !.held = held]]
        BY <3>1 DEF listNoSends, listFailed, listChange, Listed, Listing
      <4> QED
        BY <4>1 DEF Idle, Typed, TypeOK
    <3>2. CASE abortListed(p) \/ unfailListed(p) \/ releaseListed(p) \/ listed(p)
      <4>1. s[p].pc \in Listing
        BY <3>2 DEF abortListed, unfailListed, releaseListed, listed, At, Listing
      <4>2. CASE Return(p)
        BY <4>2, IdleTyped DEF Return, Typed, TypeOK
      <4>3. CASE \E x : Rest(p, x)
        BY <4>1, <4>3 DEF Rest, Typed, TypeOK, Session
      <4> QED
        BY <3>2, <4>2, <4>3 DEF abortListed, unfailListed, releaseListed, listed
    <3>3. CASE filterOutputs(p)
      <4>1. PICK held : s' = [s EXCEPT ![p].pc = "releaseListed", ![p].held = held]
        BY <3>3 DEF filterOutputs
      <4> QED
        BY <4>1 DEF Typed, TypeOK, Session, Listing
    <3> QED
      BY <1>3, <3>1, <3>2, <3>3 DEF ListSpecOpsStep
  <2>2. CASE \E t \in Txs : abortTx(t)
    BY <1>i, <1>w, <2>1, <2>2, AbortTerminal
  <2>3. CASE UNCHANGED req
    BY <1>i, <1>w, <2>1, <2>3, ReqKept
  <2> QED
    BY <1>3, <2>2, <2>3 DEF ListSpecOpsStep, listNoSends, listFailed, listChange, Listed,
       abortListed, unfailListed, filterOutputs, releaseListed, listed, tables
<1>4. CASE \E t \in Txs : abortAction(p, t)
  <2>1. /\ \E t \in Txs : abortTx(t)
        /\ s'[p] = s[p] /\ s[p].pc = "idle"
    BY <1>4 DEF abortAction, At
  <2> QED
    BY <1>i, <1>w, <2>1, AbortTerminal
<1>5. CASE \E t \in Txs : validateCommitNewTx(p, t) \/ sendWith(p, t)
  <2>1. PICK pc \in {"commit", "share"} : \E t, mode :
          s' = [s EXCEPT ![p] = [Idle EXCEPT !.pc = pc, !.t = t, !.mode = mode]]
    BY <1>5 DEF validateCommitNewTx, sendWith
  <2>2. s'[p].pc \in {"commit", "share"} /\ UNCHANGED req
    BY <1>5, <2>1 DEF validateCommitNewTx, sendWith, tables, Idle, Typed, TypeOK
  <2> QED
    BY <1>i, <1>w, <2>2, ReqKept
<1>6. CASE commitNewTxToStorage(p)
  <2>1. s'[p].pc \in {"idle", "share"}
    BY <1>6, IdleTyped DEF commitNewTxToStorage, Return, Goto, Typed, TypeOK, Session
  <2>2. \A t \in Txs : req[t].status # "none" => req'[t].status = req[t].status
    BY <1>6 DEF commitNewTxToStorage, Typed, TypeOK, ReqRow
  <2> QED
    BY <1>i, <1>n, <1>w, <2>1, <2>2 DEF KeepsTerminal
<1>7. CASE getReqsAndBeef(p)
  <2>1. CASE Return(p)
    BY <1>7, <1>i, <1>r, <2>1, ReqKept DEF getReqsAndBeef, Return, tables, Typed, TypeOK
  <2>2. CASE ~Return(p)
    <3>1. /\ req[s[p].t].status \in ReadyToSend /\ UNCHANGED req
          /\ \/ s' = [s EXCEPT ![p].copy = req[s[p].t], ![p].pc = "bump"]
             \/ s' = [s EXCEPT ![p].copy = req[s[p].t], ![p].pc = "mergeBeef"]
      BY <1>7, <2>2 DEF getReqsAndBeef, tables
    <3>2. s'[p].pc \in {"bump", "mergeBeef"} /\ s'[p].t = s[p].t /\ s'[p].copy = req[s[p].t]
      BY <3>1 DEF Typed, TypeOK, Session
    <3> QED
      BY <1>n, <3>1, <3>2, ReqKept DEF Fresh, Fresher
  <2> QED
    BY <2>1, <2>2
<1>8. CASE bumpToUnsent(p)
  <2>1. s[p].pc = "bump" /\ s[p].t \in Txs /\ s'[p] = Idle
    BY <1>8, TiedPcs DEF bumpToUnsent, At, Typed, TypeOK, HasTx, Return
  <2>2. \A t \in Txs \ {s[p].t} : req'[t] = req[t]
    BY <1>8 DEF bumpToUnsent, Typed, TypeOK
  <2> QED
    BY <1>i, <1>r, <2>1, <2>2 DEF KeepsTerminal, Fresher
<1>9. CASE PostStep(p)
  BY <1>9, PostTerminal
<1> QED
  BY <1>1, <1>2, <1>3, <1>4, <1>5, <1>6, <1>7, <1>8, <1>9 DEF CallerStep, ProcessActionStep

(* What a step of the monitor has to do for the invariant. *)
MonitorKeeps ==
  /\ KeepsTerminal /\ Fresh(s[Monitor])'
  /\ s'[Monitor].pc \in UnderLock => lock' = Monitor

LEMMA Elsewhere ==
  ASSUME KeepsTerminal, s'[Monitor].pc \notin FreshPcs
  PROVE  MonitorKeeps
<1> PICK r : r = s'[Monitor]
  OBVIOUS
<1> QED
  BY DEF MonitorKeeps, FreshPcs, UnderLock, Posting, Fresh

LEMMA OneReqTerminal ==
  ASSUME Typed, NEW t \in Txs, NEW copy, WriteReq(t, copy),
         copy.status \in Terminal \/ WritesBack(t)
  PROVE  KeepsTerminal
<1>1. \A u \in Txs \ {t} : req'[u] = req[u]
  BY DEF WriteReq, Typed, TypeOK
<1>2. req'[t].status \in {req[t].status, copy.status}
  BY DEF WriteReq, Typed, TypeOK, ReqRow
<1> QED
  BY <1>1, <1>2 DEF KeepsTerminal

LEMMA SendTerminal ==
  ASSUME Typed, TerminalInv, ManagerLocks, SendWaitingStep
  PROVE  MonitorKeeps
<1> Monitor \in Procs /\ M = Monitor /\ s[Monitor] \in Session
  BY DEF Procs, M, Typed, TypeOK
<1>1. KeepsTerminal
  BY ReqKept DEF SendWaitingStep, sendWaiting, processUnsent, Read, tables
<1>2. CASE \E t \in Txs : sendWaiting(t)
  <2> PICK t \in Txs : sendWaiting(t)
    BY <1>2
  <2>1. s' = [s EXCEPT ![Monitor] = [Idle EXCEPT !.pc = "sendWaiting", !.t = t,
                                       !.copy = req[t], !.counts = FALSE]]
    BY DEF sendWaiting, Read
  <2>2. s'[Monitor].pc = "sendWaiting" /\ s'[Monitor].copy = req[t]
    BY <2>1 DEF Typed, TypeOK, Idle
  <2> QED
    BY <1>1, <2>2 DEF sendWaiting, MonitorKeeps, Fresh, UnderLock, Posting, Terminal
<1>3. CASE processUnsent
  <2>1. s[Monitor].pc = "sendWaiting" /\ lock' = Monitor
    BY <1>3 DEF processUnsent, At, Acquire
  <2>2. s'[Monitor].pc = "mergeBeef" /\ s'[Monitor].copy = s[Monitor].copy
    BY <1>3 DEF processUnsent, Goto, Typed, TypeOK, Session
  <2> QED
    BY <1>1, <2>1, <2>2 DEF TerminalInv, MonitorKeeps, Fresh
<1> QED
  BY <1>2, <1>3 DEF SendWaitingStep

LEMMA ProofTerminal ==
  ASSUME Typed, TerminalInv, ManagerLocks, GetProofsStep
  PROVE  MonitorKeeps
<1> Monitor \in Procs /\ M = Monitor /\ s[Monitor] \in Session
  BY DEF Procs, M, Typed, TypeOK
<1>t. s[Monitor].pc \notin Untied => s[Monitor].t \in Txs
  BY DEF Typed, HasTx
<1>u. {"getProofs", "saveCopy", "insertProvenTx", "saveNotified", "finishProof"}
        \cap Untied = {}
  BY DEF Untied, Purging, Listing
<1>w. {"getProofs", "saveCopy", "refreshCopy", "newProvenTx", "finishProof", "idle"}
        \cap FreshPcs = {}
  BY DEF FreshPcs, UnderLock, Posting
<1>1. CASE \E t \in Txs, counts \in BOOLEAN : checkForProofs(t, counts) \/ checkNoSends(t, counts)
  <2>1. PICK t \in Txs, counts \in BOOLEAN :
          s' = [s EXCEPT ![Monitor] = [Idle EXCEPT !.pc = "getProofs", !.t = t, !.copy = req[t],
                                         !.counts = counts]]
    BY <1>1 DEF checkForProofs, checkNoSends, Read
  <2>2. s'[Monitor].pc = "getProofs"
    BY <2>1 DEF Typed, TypeOK, Idle
  <2> QED
    BY <1>1, <1>w, <2>2, ReqKept, Elsewhere DEF checkForProofs, checkNoSends, Read, tables
<1>2. CASE settleCopy
  <2>1. s[Monitor].t \in Txs /\ s'[Monitor].pc = "idle"
    BY <1>2, <1>t, <1>u, IdleTyped DEF settleCopy, At, Return, Typed, TypeOK
  <2>2. PICK copy : copy.status \in Terminal /\ WriteReq(s[Monitor].t, copy)
    <3> DEFINE c == s[Monitor].copy
    <3>1. [c EXCEPT !.status = "completed"].status \in Terminal
          /\ [c EXCEPT !.status = "invalid"].status \in Terminal
      BY DEF Terminal, Session, ReqRow
    <3> QED
      BY <1>2, <3>1 DEF settleCopy
  <2> QED
    BY <1>w, <2>1, <2>2, OneReqTerminal, Elsewhere
<1>3. CASE getMerklePath
  <2>2. s'[Monitor].pc \in {"saveCopy", "finishProof"}
    BY <1>3, MerklePathPc
  <2> QED
    BY <1>3, <1>w, <2>2, ReqKept, Elsewhere DEF getMerklePath, tables
<1>4. CASE proofTooNew \/ refreshCopy
  <2>1. s'[Monitor].pc \in {"idle", "newProvenTx"}
    BY <1>4, IdleTyped DEF proofTooNew, refreshCopy, Return, Typed, TypeOK, Session
  <2> QED
    BY <1>4, <1>w, <2>1, ReqKept, Elsewhere DEF proofTooNew, refreshCopy, tables
<1>5. CASE saveCopy
  <2>1. /\ s[Monitor].pc = "saveCopy" /\ s[Monitor].t \in Txs /\ s'[Monitor].pc = "refreshCopy"
        /\ WriteReq(s[Monitor].t, s[Monitor].copy)
    BY <1>5, <1>t, <1>u DEF saveCopy, At, Goto, Typed, TypeOK, Session
  <2>2. s[Monitor].copy.status \in Terminal \/ WritesBack(s[Monitor].t)
    BY <2>1 DEF WritesBack
  <2> QED
    BY <1>w, <2>1, <2>2, OneReqTerminal, Elsewhere
<1>6. CASE newProvenTx
  <2>1. KeepsTerminal
    BY <1>6, ReqKept DEF newProvenTx, tables
  <2>2. CASE Acquire(M) /\ s' = [s EXCEPT ![M].copy = req[s[M].t], ![M].pc = "insertProvenTx"]
    <3>1. s'[Monitor].pc = "insertProvenTx" /\ lock' = Monitor
      BY <2>2 DEF Acquire, Typed, TypeOK, Session
    <3> QED
      BY <2>1, <3>1 DEF MonitorKeeps, Fresh
  <2>3. CASE s' = [s EXCEPT ![M].copy = req[s[M].t], ![M].pc = "finishProof"]
    <3>1. s'[Monitor].pc = "finishProof"
      BY <2>3 DEF Typed, TypeOK, Session
    <3> QED
      BY <1>w, <2>1, <3>1, Elsewhere
  <2> QED
    BY <1>6, <2>2, <2>3 DEF newProvenTx
<1>7. CASE insertProvenTx
  <2> DEFINE c == [s[Monitor].copy EXCEPT !.status = "completed", !.proof = TRUE]
  <2>0. s[Monitor].pc = "insertProvenTx" /\ s[Monitor].t \in Txs
    BY <1>7, <1>t, <1>u DEF insertProvenTx, At
  <2>c. c.status = "completed"
    BY DEF Session, ReqRow
  <2>1. CASE s' = [s EXCEPT ![M].pc = "finishProof", ![M].copy.proof = TRUE] /\ UNCHANGED req
    <3>1. s'[Monitor].pc = "finishProof"
      BY <2>1 DEF Typed, TypeOK, Session
    <3> QED
      BY <1>w, <2>1, <3>1, ReqKept, Elsewhere
  <2>2. CASE /\ WriteReq(s[Monitor].t, c) /\ UNCHANGED lock
             /\ s' = [s EXCEPT ![M].copy = c, ![M].pc = "notifyTx"]
    <3>1. s'[Monitor].pc = "notifyTx" /\ s'[Monitor].copy = c
      BY <2>2 DEF Typed, TypeOK, Session
    <3>2. lock' = Monitor
      BY <2>0, <2>2 DEF TerminalInv, UnderLock
    <3>3. KeepsTerminal
      BY <2>0, <2>2, <2>c, OneReqTerminal DEF Terminal
    <3> QED
      BY <2>c, <3>1, <3>2, <3>3 DEF MonitorKeeps, Fresh
  <2> QED
    BY <1>7, <2>1, <2>2 DEF insertProvenTx
<1>8. CASE notifyTx
  <2>1. s'[Monitor].pc = "saveNotified" /\ s'[Monitor].copy = s[Monitor].copy
    BY <1>8 DEF notifyTx, Goto, Typed, TypeOK, Session
  <2>2. s[Monitor].pc = "notifyTx" /\ UNCHANGED <<req, lock>>
    BY <1>8 DEF notifyTx, At
  <2> QED
    BY <2>1, <2>2, ReqKept DEF TerminalInv, MonitorKeeps, Fresh, UnderLock
<1>9. CASE saveNotified
  <2>1. /\ s[Monitor].pc = "saveNotified" /\ s[Monitor].t \in Txs /\ s'[Monitor].pc = "finishProof"
        /\ WriteReq(s[Monitor].t, s[Monitor].copy)
    BY <1>9, <1>t, <1>u DEF saveNotified, At, Goto, Typed, TypeOK, Session
  <2>2. s[Monitor].copy.status \in Terminal
    BY <2>1 DEF TerminalInv, Fresh, Terminal
  <2> QED
    BY <1>w, <2>1, <2>2, OneReqTerminal, Elsewhere
<1>10. CASE finishProof
  <2> DEFINE c == [s[Monitor].copy EXCEPT !.attempts = s[Monitor].kept]
  <2>1. /\ s[Monitor].pc = "finishProof" /\ s[Monitor].t \in Txs /\ s'[Monitor].pc = "idle"
        /\ WriteReq(s[Monitor].t, c)
    BY <1>10, <1>t, <1>u, IdleTyped DEF finishProof, At, Return, Typed, TypeOK
  <2>2. c.status = s[Monitor].copy.status
    BY DEF Session, ReqRow
  <2>3. c.status \in Terminal \/ WritesBack(s[Monitor].t)
    BY <2>1, <2>2 DEF WritesBack
  <2> QED
    BY <1>w, <2>1, <2>3, OneReqTerminal, Elsewhere
<1> QED
  BY <1>1, <1>2, <1>3, <1>4, <1>5, <1>6, <1>7, <1>8, <1>9, <1>10 DEF GetProofsStep

LEMMA RestTerminal ==
  ASSUME Typed, TerminalInv, ManagerLocks, FailAbandonedStep \/ UnFailStep \/ ReviewStatusStep
  PROVE  MonitorKeeps
<1> Monitor \in Procs /\ M = Monitor /\ s[Monitor] \in Session /\ Nobody # Monitor
  BY NamesAssumption DEF Procs, M, Typed, TypeOK
<1>w. {"failAbandoned", "idle", "getPath", "unfailTx", "unfailReq", "review1", "review2",
       "review3"} \cap FreshPcs = {}
  BY DEF FreshPcs, UnderLock, Posting
<1>1. CASE FailAbandonedStep
  <2>1. s'[Monitor].pc \in {"failAbandoned", "idle"}
    <3>1. CASE \E t \in Txs : failAbandoned(t)
      <4>1. PICK t \in Txs :
              s' = [s EXCEPT ![Monitor] = [Idle EXCEPT !.pc = "failAbandoned", !.t = t]]
        BY <3>1 DEF failAbandoned
      <4> QED
        BY <4>1 DEF Typed, TypeOK, Idle
    <3>2. CASE failAbandonedTx
      BY <3>2, IdleTyped DEF failAbandonedTx, Return, Typed, TypeOK
    <3> QED
      BY <1>1, <3>1, <3>2 DEF FailAbandonedStep
  <2> QED
    BY <1>1, <1>w, <2>1, ReqKept, Elsewhere DEF FailAbandonedStep, failAbandoned, failAbandonedTx,
       tables
<1>2. CASE ReviewStatusStep
  <2>1. s'[Monitor].pc \in {"idle", "review1", "review2", "review3"}
    BY <1>2, IdleTyped DEF ReviewStatusStep, reviewStatus, failWhereReqInvalid,
       releaseWhereTxFailed, completeWhereProven, Goto, Return, Typed, TypeOK, Session
  <2> QED
    BY <1>2, <1>w, <2>1, ReqKept, Elsewhere DEF ReviewStatusStep, reviewStatus,
       failWhereReqInvalid, releaseWhereTxFailed, completeWhereProven, tables
<1>3. CASE \E t \in Txs : assignUnfail(t)
  <2>1. /\ UNCHANGED <<s, lock>> /\ s[Monitor].pc \notin UnderLock
        /\ \A u \in Txs : req'[u] = req[u] \/ req'[u].status = "unfail"
    BY <1>3 DEF assignUnfail, Free, TerminalInv, Typed, TypeOK, ReqRow
  <2>2. Fresh(s[Monitor])'
    BY <2>1 DEF TerminalInv, Fresh, UnderLock, Posting
  <2> QED
    BY <2>1, <2>2 DEF MonitorKeeps, KeepsTerminal
<1>4. CASE \E t \in Txs : unfail(t)
  <2>1. PICK t \in Txs : s' = [s EXCEPT ![Monitor] = [Idle EXCEPT !.pc = "getPath", !.t = t,
                                         !.copy = req[t], !.counts = FALSE]]
    BY <1>4 DEF unfail, Read
  <2>2. s'[Monitor].pc = "getPath"
    BY <2>1 DEF Typed, TypeOK, Idle
  <2> QED
    BY <1>4, <1>w, <2>2, ReqKept, Elsewhere DEF unfail, Read, tables
<1>5. CASE getUnfailPath
  <2>1. CASE s' = [s EXCEPT ![M].pc = "unfailTx", ![M].copy.status = "unmined",
                            ![M].copy.attempts = 0]
    <3>1. s'[Monitor].pc = "unfailTx"
      BY <2>1 DEF Typed, TypeOK, Session
    <3> QED
      BY <1>5, <1>w, <3>1, ReqKept, Elsewhere DEF getUnfailPath, tables
  <2>2. CASE s' = [s EXCEPT ![M].pc = "unfailReq", ![M].copy.status = "invalid"]
    <3>1. s'[Monitor].pc = "unfailReq"
      BY <2>2 DEF Typed, TypeOK, Session
    <3> QED
      BY <1>5, <1>w, <3>1, ReqKept, Elsewhere DEF getUnfailPath, tables
  <2> QED
    BY <1>5, <2>1, <2>2 DEF getUnfailPath
<1>6. CASE unfailTx
  <2>1. s'[Monitor].pc = "unfailReq"
    BY <1>6 DEF unfailTx, Goto, Typed, TypeOK, Session
  <2> QED
    BY <1>6, <1>w, <2>1, ReqKept, Elsewhere DEF unfailTx
<1>7. CASE unfailReq
  <2>1. /\ s[Monitor].pc = "unfailReq" /\ s'[Monitor].pc = "idle"
        /\ WriteReq(s[Monitor].t, s[Monitor].copy)
    BY <1>7, IdleTyped DEF unfailReq, At, Return, Typed, TypeOK
  <2>2. s[Monitor].t \in Txs
    BY <2>1 DEF Typed, HasTx, Untied, Purging, Listing
  <2>3. s[Monitor].copy.status \in Terminal \/ WritesBack(s[Monitor].t)
    BY <2>1 DEF WritesBack
  <2> QED
    BY <1>w, <2>1, <2>2, <2>3, OneReqTerminal, Elsewhere
<1> QED
  BY <1>1, <1>2, <1>3, <1>4, <1>5, <1>6, <1>7 DEF UnFailStep

LEMMA PurgeTerminal ==
  ASSUME Typed, PurgeStep
  PROVE  MonitorKeeps /\ s[Monitor].pc \in Purging \cup {"idle"}
<1> Monitor \in Procs /\ M = Monitor /\ s[Monitor] \in Session
  BY DEF Procs, M, Typed, TypeOK
<1>w. (Purging \cup {"idle"}) \cap FreshPcs = {}
  BY DEF FreshPcs, UnderLock, Posting, Purging
<1>1. s[Monitor].pc \in Purging \cup {"idle"}
  BY DEF PurgeStep, purge, purgeCompleted, selectFailed, deleteFailedOutputs, markNotSpentBy,
     deleteFailedTxs, deleteFailedReqs, selectSpent, selectSpentThrows, forgetSpentBy,
     deleteSpentOutputs, deleteSpentTxs, deleteOrphans, At, Purging
<1>2. s'[Monitor].pc \in Purging \cup {"idle"}
  <2>1. {AfterCompleted, AfterFailed, FirstPurge} \subseteq Purging
    BY DEF AfterCompleted, AfterFailed, FirstPurge, Purging
  <2>2. CASE purge
    BY <2>1, <2>2 DEF purge, Typed, TypeOK, Idle
  <2>3. CASE selectFailed \/ selectSpent
    <3>1. PICK pc \in Purging : \E held : s' = [s EXCEPT ![Monitor].held = held,
                                                         ![Monitor].pc = pc]
      BY <2>3 DEF selectFailed, selectSpent, Purging
    <3> QED
      BY <3>1 DEF Typed, TypeOK, Session
  <2>4. CASE Return(Monitor)
    BY <2>4, IdleTyped DEF Return, Typed, TypeOK
  <2>5. CASE \E pc \in Purging : Goto(Monitor, pc)
    BY <2>5 DEF Goto, Typed, TypeOK, Session
  <2> QED
    BY <2>1, <2>2, <2>3, <2>4, <2>5
    DEF PurgeStep, purgeCompleted, deleteFailedOutputs, markNotSpentBy, deleteFailedTxs,
        deleteFailedReqs, selectSpentThrows, forgetSpentBy, deleteSpentOutputs,
        deleteSpentTxs, deleteOrphans, Purging
<1>3. KeepsTerminal
  <2>1. CASE purgeCompleted \/ deleteFailedReqs
    BY <2>1 DEF purgeCompleted, deleteFailedReqs, DeleteReqs, NoReq, KeepsTerminal
  <2>2. CASE ~(purgeCompleted \/ deleteFailedReqs)
    BY <2>2, ReqKept DEF PurgeStep, purge, selectFailed, deleteFailedOutputs, markNotSpentBy,
       deleteFailedTxs, selectSpent, selectSpentThrows, forgetSpentBy, deleteSpentOutputs,
       deleteSpentTxs, deleteOrphans, tables
  <2> QED
    BY <2>1, <2>2
<1> QED
  BY <1>1, <1>2, <1>3, <1>w, Elsewhere

(* While a call runs, the monitor waits for the lock wherever it would     *)
(* write a req.                                                            *)
LEMMA MonitorQuiet ==
  ASSUME Typed, Locked, TerminalInv, ManagerLocks,
         MonitorStep \/ PurgeStep \/ PostStep(Monitor),
         NEW p \in Callers, s[p].pc # "idle"
  PROVE  UNCHANGED req
<1>1. lock = p /\ p # Monitor /\ p # Nobody /\ M = Monitor
  BY NamesAssumption DEF Locked, CallsLocked, M, Procs
<1>2. ~Free /\ s[Monitor].pc \notin UnderLock \cup Purging
  BY <1>1 DEF Free, TerminalInv, Locked, PurgeLocked
<1>3. CASE PostStep(Monitor)
  BY <1>2, <1>3 DEF PostStep, mergeBeef, mergeBeefThrows, postBeef, transferNotes, refreshReq,
     updateReqFromResult, updateTxFromResult, At, UnderLock, Posting
<1>4. CASE PurgeStep
  BY <1>1, <1>2, <1>4 DEF PurgeStep, purge, purgeCompleted, selectFailed, deleteFailedOutputs,
     markNotSpentBy, deleteFailedTxs, deleteFailedReqs, selectSpent, selectSpentThrows,
     forgetSpentBy, deleteSpentOutputs, deleteSpentTxs, deleteOrphans, At, Purging, tables
<1>5. CASE SendWaitingStep \/ FailAbandonedStep \/ ReviewStatusStep
  BY <1>5 DEF SendWaitingStep, sendWaiting, processUnsent, Read, FailAbandonedStep,
     failAbandoned, failAbandonedTx, ReviewStatusStep, reviewStatus, failWhereReqInvalid,
     releaseWhereTxFailed, completeWhereProven, tables
<1>6. CASE UnFailStep
  BY <1>2, <1>6 DEF UnFailStep, assignUnfail, unfail, getUnfailPath, unfailTx, unfailReq, Read,
     tables
<1>7. CASE GetProofsStep
  BY <1>1, <1>2, <1>7 DEF GetProofsStep, checkForProofs, checkNoSends, Read, settleCopy,
     getMerklePath, proofTooNew, saveCopy, refreshCopy, newProvenTx, insertProvenTx, notifyTx,
     saveNotified, finishProof, At, UnderLock, tables
<1> QED
  BY <1>3, <1>4, <1>5, <1>6, <1>7 DEF MonitorStep

LEMMA NextTerminal ==
  ASSUME Typed, Locked, TerminalInv, ManagerLocks, [Next]_vars
  PROVE  TerminalInv' /\ KeepsTerminal
<1> Monitor \in Procs /\ Monitor \notin Callers /\ Nobody # Monitor /\ Callers \subseteq Procs
  BY NamesAssumption DEF Procs
<1>i. \A p \in Callers : s'[p].pc = "idle" => Fresh(s[p])' /\ Fresher(s[p])'
  BY DEF Fresh, Fresher
<1>1. CASE MonitorStep \/ PurgeStep \/ PostStep(Monitor)
  <2>1. MonitorKeeps
    <3>1. CASE MonitorStep
      BY <3>1, SendTerminal, ProofTerminal, RestTerminal DEF MonitorStep
    <3>2. CASE PostStep(Monitor)
      <4>1. s[Monitor].pc \in UnderLock
        BY <3>2 DEF PostStep, mergeBeef, mergeBeefThrows, postBeef, transferNotes, refreshReq,
           updateReqFromResult, updateTxFromResult, At, UnderLock, Posting
      <4> QED
        BY <3>2, <4>1, PostTerminal DEF TerminalInv, MonitorKeeps
    <3> QED
      BY <1>1, <3>1, <3>2, PurgeTerminal
  <2>2. \A p \in Callers : s'[p] = s[p]
    <3>1. CASE PostStep(Monitor)
      BY <3>1, PostLocked DEF PostingStep, Procs
    <3> QED
      BY <1>1, <3>1, MonitorOnly
  <2>3. ASSUME NEW p \in Callers
        PROVE  Fresh(s[p])' /\ Fresher(s[p])'
    <3>1. CASE s[p].pc = "idle"
      BY <1>i, <2>2, <3>1
    <3>2. CASE s[p].pc # "idle"
      <4>1. UNCHANGED req /\ s'[p] = s[p]
        BY <1>1, <2>2, <3>2, MonitorQuiet
      <4> QED
        BY <4>1 DEF TerminalInv, Fresh, Fresher
    <3> QED
      BY <3>1, <3>2
  <2> QED
    BY <2>1, <2>3 DEF TerminalInv, MonitorKeeps, Procs
<1>2. CASE \E p \in Callers : CallerStep(p)
  <2> PICK p \in Callers : CallerStep(p)
    BY <1>2
  <2>1. KeepsTerminal /\ Fresh(s[p])' /\ Fresher(s[p])'
    BY CallTerminal, PostTerminal DEF TerminalInv
  <2>2. /\ \A q \in Callers \ {p} : s[q].pc = "idle" /\ s'[q] = s[q]
        /\ s'[Monitor] = s[Monitor]
    BY CallerAlone
  <2>3. s[Monitor].pc \notin UnderLock
    BY CallerRuns DEF TerminalInv, Free, Locked, CallsLocked
  <2>4. Fresh(s[Monitor])'
    BY <2>2, <2>3 DEF TerminalInv, Fresh, UnderLock, Posting
  <2>5. \A q \in Callers : Fresh(s[q])' /\ Fresher(s[q])'
    BY <1>i, <2>1, <2>2
  <2> QED
    BY <2>1, <2>2, <2>3, <2>4, <2>5 DEF TerminalInv, Procs
<1>3. CASE \E p \in Procs : Throws(p)
  <2> PICK p \in Procs : Throws(p)
    BY <1>3
  <2>1. UNCHANGED req /\ s'[p] = Idle /\ \A q \in Procs \ {p} : s'[q] = s[q]
    BY DEF Throws, tables, Return, Typed, TypeOK
  <2>2. ASSUME NEW q \in Procs
        PROVE  /\ Fresh(s[q])'
               /\ q \in Callers => Fresher(s[q])'
    <3>1. CASE q = p
      <4>1. s'[q].pc = "idle"
        BY <2>1, <3>1, IdleTyped
      <4> QED
        BY <4>1 DEF Fresh, Fresher
    <3>2. CASE q # p
      BY <2>1, <3>2 DEF TerminalInv, Fresh, Fresher
    <3> QED
      BY <3>1, <3>2
  <2>3. s'[Monitor].pc \in UnderLock => lock' = Monitor
    BY <2>1, IdleTyped DEF TerminalInv, UnderLock, Posting, Throws, Return, Release
  <2> QED
    BY <2>1, <2>2, <2>3, ReqKept DEF TerminalInv
<1>4. CASE (\E t \in Txs : Arrive(t) \/ Mine(t)) \/ UNCHANGED vars
  <2>1. UNCHANGED <<req, s, lock>>
    BY <1>4 DEF Arrive, Mine, vars, tables
  <2> QED
    BY <2>1, ReqKept DEF TerminalInv, Fresh, Fresher
<1> QED
  BY <1>1, <1>2, <1>3, <1>4 DEF Next

LEMMA InitTerminal == Init => TerminalInv
  BY IdleTyped DEF Init, TerminalInv, Fresh, Fresher, UnderLock, Posting, Procs

(* A req that is completed, invalid or a double spend stays so: whichever  *)
(* calls, tasks and exceptions there are, nothing that posts, retries,     *)
(* aborts or merges takes it back, but the monitor's copies of WritesBack, *)
(* the operator and the purge.                                             *)
THEOREM TerminalStays ==
  ASSUME ManagerLocks
  PROVE  Spec => TerminalIsFinal
<1> DEFINE Inv == Typed /\ Locked /\ TerminalInv
<1>1. Init => Inv
  BY InitTyped, InitLocked, InitTerminal
<1>2. Inv /\ [Next]_vars => Inv' /\ KeepsTerminal
  BY NextTyped, NextLocked, NextTerminal
<1>3. KeepsTerminal =>
        [\A t \in Txs : req[t].status \in Terminal =>
           req'[t].status \in Terminal \cup {"unfail", "none"} \/ WritesBack(t)]_vars
  BY DEF KeepsTerminal
<1> QED
  BY <1>1, <1>2, <1>3, PTL DEF Spec, TerminalIsFinal

----------------------------------------------------------------------------
(* An action that lives holds its inputs, and one that was given up never  *)
(* comes back.  Calls and the monitor write the rows of an action only     *)
(* under the lock, the purge and TaskUnFail left out.                      *)

(* Tasks that hold the lock from their first step to their last. *)
Cleaning == {"failAbandoned"} \cup Reviewing

(* Who posts a req or looks for its proof. *)
Tracked == Posting \cup {"bump", "sendWaiting", "getProofs", "saveCopy", "refreshCopy",
                         "newProvenTx", "insertProvenTx", "notifyTx", "saveNotified",
                         "finishProof", "unfailReq"}

OnItsWay(t) == req[t].status \notin {"none", "invalid", "doubleSpend"}

(* The locals r of a process: the req it works on, and copied, is there;   *)
(* its transaction is told of a proof, or of a post that did not fail,     *)
(* when the req has been.                                                  *)
Tracks(r) ==
  /\ r.pc \in Tracked => req[r.t].status # "none" /\ r.copy.status # "none"
  /\ r.pc = "notifyTx" => req[r.t].status = "completed"
  /\ r.pc = "updateTx" => NewStatus(r.verdict).tx = "failed" \/ OnItsWay(r.t)

(* The locals r of a caller: what createAction allocated is assigned to    *)
(* its action, the change it was given to nobody else, and an action that  *)
(* is about to be committed has not failed.                                *)
Reserves(r) ==
  /\ r.pc \in Funding => /\ \A o \in r.held : spentBy[o] = r.t
                         /\ \A o \in r.nsc : spentBy[o] = NoTx \/ spentBy[o] = r.t
  /\ r.pc = "commit" => tx[r.t].status \in CommitableStatus

InputInv ==
  /\ s[Monitor].pc \in Cleaning => lock = Monitor
  /\ s[Monitor].pc \in Reviewing => "ReviewStatus" \in Tasks
  /\ \A p \in Procs : Tracks(s[p])
  /\ \A p \in Callers : Reserves(s[p])

LEMMA InitInputs == Init => InputInv
  BY IdleTyped
  DEF Init, InputInv, Tracks, Reserves, Tracked, Posting, Cleaning, Reviewing, Funding, Procs

(* What a step may do: an output leaves only a transaction that fails or   *)
(* whose createAction goes on, no action that was given up comes to life,  *)
(* a plan is made once and of what was reserved, and no req goes.          *)
Spares ==
  \A o \in Outs : \/ spentBy'[o] = spentBy[o] \/ spentBy[o] = NoTx
                  \/ tx'[spentBy[o]].status = "failed" \/ ~plan[spentBy[o]].ready

Revives == \A t \in Txs : plan[t].ready /\ GivenUp(t) => ~Lives(t)'

PlansKept ==
  \A t \in Txs : /\ plan[t].ready => plan'[t] = plan[t]
                 /\ plan'[t].ready /\ ~plan[t].ready =>
                      \A o \in plan'[t].inputs : spentBy'[o] = t

ReqsStay == \A t \in Txs : req[t].status # "none" => req'[t].status # "none"

Keeps == Spares /\ Revives /\ PlansKept /\ ReqsStay

StaysLocked ==
  \A t \in Txs : Lives(t)' /\ (Held(t) \/ ~Lives(t)) /\ (Lives(t) \/ GivenUp(t)) => Held(t)'

LEMMA KeepsLocked ==
  ASSUME Typed, Typed', Offered', Keeps
  PROVE  StaysLocked
<1> SUFFICES ASSUME NEW t \in Txs, Lives(t)', Held(t) \/ ~Lives(t), Lives(t) \/ GivenUp(t)
             PROVE  Held(t)'
  BY DEF StaysLocked
<1> t # NoTx /\ plan[t].inputs \subseteq Outs /\ plan'[t].inputs \subseteq Outs
  BY NamesAssumption DEF Typed, TypeOK, Outs
<1>1. \A o \in plan'[t].inputs : spentBy'[o] = t
  <2>1. CASE ~plan[t].ready
    BY <2>1 DEF Keeps, PlansKept, Lives
  <2>2. CASE plan[t].ready
    <3>1. Lives(t) /\ Held(t) /\ plan'[t] = plan[t]
      BY <2>2 DEF Keeps, PlansKept, Revives
    <3>2. tx'[t].status # "failed"
      BY DEF Lives
    <3> QED
      BY <2>2, <3>1, <3>2 DEF Keeps, Spares, Held
  <2> QED
    BY <2>1, <2>2
<1> QED
  BY <1>1 DEF Offered, Held

LEMMA SameKeeps ==
  ASSUME UNCHANGED <<tx, spentBy, plan>>, ReqsStay
  PROVE  Keeps
  BY DEF Keeps, Spares, Revives, PlansKept, GivenUp, Lives

(* Rows that change end, or belong to an action that was not given up.     *)
LEMMA RowsKeep ==
  ASSUME Spares, ReqsStay, UNCHANGED plan,
         \A t \in Txs : \/ tx'[t].status = tx[t].status
                        \/ tx'[t].status \in {"none", "failed", "unfail"}
                        \/ OnItsWay(t) \/ Lives(t) \/ ~plan[t].ready
  PROVE  Keeps
  BY DEF Keeps, Revives, PlansKept, GivenUp, Lives, OnItsWay

LEMMA UpdateKeeps ==
  ASSUME Typed, NEW t \in Txs, NEW status, status = "failed" \/ OnItsWay(t),
         updateTransactionStatus(t, status) \/ UNCHANGED <<tx, outputs>>,
         UNCHANGED plan, ReqsStay
  PROVE  Keeps
<1>1. CASE UNCHANGED <<tx, outputs>>
  BY <1>1, SameKeeps DEF outputs
<1>2. CASE updateTransactionStatus(t, status)
  <2>1. tx'[t].status = status /\ \A u \in Txs \ {t} : tx'[u] = tx[u]
    BY <1>2 DEF updateTransactionStatus, Typed, TypeOK, TxRow
  <2>2. Spares
    <3>1. CASE status = "failed"
      <4>1. \A o \in Outs : spentBy'[o] = IF spentBy[o] \in {t} THEN NoTx ELSE spentBy[o]
        BY <1>2, <3>1, ReleaseLetsGo DEF updateTransactionStatus
      <4> QED
        BY <2>1, <3>1, <4>1 DEF Spares
    <3>2. CASE status # "failed"
      BY <1>2, <3>2 DEF updateTransactionStatus, outputs, Spares
    <3> QED
      BY <3>1, <3>2
  <2> QED
    BY <2>1, <2>2, RowsKeep
<1> QED
  BY <1>1, <1>2

LEMMA WriteStays ==
  ASSUME Typed, NEW t \in Txs, NEW copy, WriteReq(t, copy), copy.status # "none"
  PROVE  /\ ReqsStay
         /\ req[t].status # "none" => req'[t].status = copy.status
  BY DEF WriteReq, ReqsStay, Typed, TypeOK, ReqRow

(* Steps that neither reserve nor track anything. *)
LEMMA NotTracked ==
  ASSUME NEW r, r.pc \notin Tracked
  PROVE  Tracks(r)
  BY DEF Tracks, Tracked, Posting

LEMMA FundingPcs ==
  /\ Funding \cap Tracked = {} /\ Idle.pc = "idle"
  /\ {"idle", "commit", "share"} \cap (Tracked \cup Funding \cup Cleaning) = {}
  /\ (Listing \cup InternalizePcs) \cap (Tracked \cup Funding \cup {"commit"}) = {}
  /\ Tracked \cap (Funding \cup {"commit"} \cup Cleaning) = {}
  BY IdleTyped
  DEF Funding, Tracked, Posting, Cleaning, Reviewing, Listing, InternalizePcs

LEMMA CreateInputs ==
  ASSUME Typed, PlanInv, Tables, NEW p \in Callers, Reserves(s[p]), CreateActionStep(p)
  PROVE  Keeps /\ Reserves(s[p])' /\ s'[p].pc \in Funding \cup {"idle"}
<1> p \in Procs /\ s[p] \in Session
  BY DEF Procs, Typed, TypeOK
<1>i. "idle" \notin Funding \cup {"commit"} /\ Idle.pc = "idle" /\ "commit" \notin Funding
      /\ "fund" \in Funding
  BY IdleTyped DEF Funding
<1>u. s[p].pc \in Funding => s[p].t \in Txs /\ ~plan[s[p].t].ready
  BY DEF PlanInv, FundersAlone, Funder, Unplanned, Typed, HasTx, Untied, Purging, Listing,
     Funding
<1>r. s'[p].pc = "idle" => Reserves(s[p])'
  BY <1>i DEF Reserves
<1>1. CASE \E t \in Txs : createNewTxRecord(p, t)
  <2> PICK t \in Txs : createNewTxRecord(p, t)
    BY <1>1
  <2>1. /\ UNCHANGED <<outputs, req, plan>> /\ ~plan[t].ready
        /\ \A u \in Txs \ {t} : tx'[u] = tx[u]
    BY DEF createNewTxRecord, Typed, TypeOK
  <2>2. PICK mode \in Modes, given \in SUBSET NoSendChange, fixed \in SUBSET (exists \ change) :
          s' = [s EXCEPT ![p] = [Idle EXCEPT !.pc = "fund", !.t = t, !.mode = mode,
                                   !.given = given, !.nsc = given, !.fixed = fixed]]
    <3>1. PICK mode \in Modes :
            \E given \in SUBSET (IF mode = "noSend" THEN NoSendChange ELSE {}) :
            \E fixed \in SUBSET RequiredInputs :
              s' = [s EXCEPT ![p] = [Idle EXCEPT !.pc = "fund", !.t = t, !.mode = mode,
                                       !.given = given, !.nsc = given, !.fixed = fixed]]
      BY DEF createNewTxRecord
    <3>2. RequiredInputs \subseteq exists \ change
      BY DEF RequiredInputs
    <3> QED
      BY <3>1, <3>2
  <2>3. s'[p].pc = "fund" /\ s'[p].nsc = given /\ s'[p].held = {}
    BY <2>2 DEF Typed, TypeOK, Session, Idle
  <2>4. \A o \in given : spentBy'[o] = NoTx
    BY <2>1 DEF NoSendChange, outputs
  <2>5. Reserves(s[p])'
    BY <1>i, <2>3, <2>4 DEF Reserves
  <2>6. Keeps
    BY <2>1, RowsKeep DEF Spares, ReqsStay, outputs
  <2> QED
    BY <1>i, <2>3, <2>5, <2>6
<1>2. CASE allocateNoSendChange(p) \/ allocateChangeInput(p) \/ createNewInput(p)
  <2>1. UNCHANGED <<tx, req, plan>> /\ s[p].pc \in Funding
    BY <1>2 DEF allocateNoSendChange, allocateChangeInput, createNewInput, At, Funding
  <2>2. PICK o \in Outs :
          /\ LockOutput(o, s[p].t) /\ (o \in s[p].nsc \/ o \in spendable)
          /\ \/ s' = [s EXCEPT ![p].nsc = @ \ {o}, ![p].held = @ \cup {o}]
             \/ s' = [s EXCEPT ![p].held = @ \cup {o}]
    <3>1. CASE allocateNoSendChange(p)
      BY <3>1 DEF allocateNoSendChange, Session
    <3>2. CASE allocateChangeInput(p)
      BY <3>2 DEF allocateChangeInput, AvailableChange, Typed, TypeOK
    <3>3. CASE createNewInput(p)
      BY <3>3 DEF createNewInput, Pending, InputIsTaken, Session
    <3> QED
      BY <1>2, <3>1, <3>2, <3>3
  <2>3. spentBy[o] = NoTx \/ spentBy[o] = s[p].t
    BY <2>1, <2>2 DEF Reserves, Tables, Offered
  <2>4. spentBy'[o] = s[p].t /\ \A x \in Outs \ {o} : spentBy'[x] = spentBy[x]
    BY <2>2 DEF LockOutput, Typed, TypeOK
  <2>5. /\ s'[p].pc = s[p].pc /\ s'[p].t = s[p].t
        /\ s'[p].held = s[p].held \cup {o} /\ s'[p].nsc \subseteq s[p].nsc
    <3>1. CASE s' = [s EXCEPT ![p].held = @ \cup {o}]
      BY <3>1 DEF Typed, TypeOK, Session
    <3>2. CASE s' = [s EXCEPT ![p].nsc = @ \ {o}, ![p].held = @ \cup {o}]
      BY <3>2 DEF Typed, TypeOK, Session
    <3> QED
      BY <2>2, <3>1, <3>2
  <2>6. s[p].held \subseteq Outs /\ s[p].nsc \subseteq Outs
    BY DEF Session
  <2>7. Reserves(s[p])'
    BY <1>i, <2>1, <2>4, <2>5, <2>6 DEF Reserves
  <2>8. Keeps
    BY <1>u, <2>1, <2>3, <2>4, RowsKeep DEF Spares, ReqsStay
  <2> QED
    BY <2>1, <2>5, <2>7, <2>8
<1>3. CASE releaseChangeInput(p)
  <2>1. UNCHANGED <<tx, req, plan>> /\ s[p].pc \in Funding
    BY <1>3 DEF releaseChangeInput, At, Funding
  <2>2. PICK o \in s[p].held :
          \/ /\ UNCHANGED <<spendable, spentBy>>
             /\ s' = [s EXCEPT ![p].held = @ \ {o}, ![p].nsc = @ \cup {o}]
          \/ UnlockOutput(o) /\ s' = [s EXCEPT ![p].held = @ \ {o}]
    BY <1>3 DEF releaseChangeInput
  <2>3. spentBy[o] = s[p].t /\ s[p].held \subseteq Outs /\ s[p].nsc \subseteq Outs
    BY <2>1 DEF Reserves, Session
  <2>4. CASE UnlockOutput(o) /\ s' = [s EXCEPT ![p].held = @ \ {o}]
    <3>1. spentBy'[o] = NoTx /\ \A x \in Outs \ {o} : spentBy'[x] = spentBy[x]
      BY <2>3, <2>4 DEF UnlockOutput, Typed, TypeOK
    <3>2. /\ s'[p].pc = s[p].pc /\ s'[p].t = s[p].t
          /\ s'[p].held = s[p].held \ {o} /\ s'[p].nsc = s[p].nsc
      BY <2>4 DEF Typed, TypeOK, Session
    <3>3. Reserves(s[p])'
      BY <1>i, <2>1, <2>3, <3>1, <3>2 DEF Reserves
    <3>4. Keeps
      BY <1>u, <2>1, <2>3, <3>1, RowsKeep DEF Spares, ReqsStay
    <3> QED
      BY <2>1, <3>2, <3>3, <3>4
  <2>5. CASE /\ UNCHANGED <<spendable, spentBy>>
             /\ s' = [s EXCEPT ![p].held = @ \ {o}, ![p].nsc = @ \cup {o}]
    <3>1. /\ s'[p].pc = s[p].pc /\ s'[p].t = s[p].t
          /\ s'[p].held = s[p].held \ {o} /\ s'[p].nsc = s[p].nsc \cup {o}
      BY <2>5 DEF Typed, TypeOK, Session
    <3>2. Reserves(s[p])'
      BY <1>i, <2>1, <2>3, <2>5, <3>1 DEF Reserves
    <3> QED
      BY <2>1, <2>5, <3>1, <3>2, SameKeeps DEF ReqsStay
  <2> QED
    BY <2>2, <2>4, <2>5
<1>4. CASE startRelease(p) \/ funded(p) \/ mergeAllocatedChangeBeefs(p) \/ released(p)
           \/ createNewInputThrows(p) \/ createNewOutputs(p)
  <2>1. UNCHANGED <<tx, req, spentBy, plan>> /\ s[p].pc \in Funding
    BY <1>4 DEF startRelease, funded, mergeAllocatedChangeBeefs, released,
       createNewInputThrows, createNewOutputs, tables, outputs, At, Funding
  <2>2. \/ Return(p) \/ \E pc \in Funding : Goto(p, pc)
        \/ \E again : s' = [s EXCEPT ![p].pc = "release", ![p].again = again]
    BY <1>4 DEF startRelease, funded, mergeAllocatedChangeBeefs, released,
       createNewInputThrows, createNewOutputs, Funding
  <2>3. Keeps
    BY <2>1, SameKeeps DEF ReqsStay
  <2>4. CASE Return(p)
    BY <1>i, <1>r, <2>3, <2>4 DEF Return, Typed, TypeOK
  <2>5. CASE ~Return(p)
    <3>1. /\ s'[p].pc \in Funding /\ s'[p].t = s[p].t
          /\ s'[p].held = s[p].held /\ s'[p].nsc = s[p].nsc
      BY <2>2, <2>5 DEF Goto, Typed, TypeOK, Session, Funding
    <3> QED
      BY <1>i, <2>1, <2>3, <3>1 DEF Reserves
  <2> QED
    BY <2>4, <2>5
<1>5. CASE createActionReturns(p)
  <2>1. /\ UNCHANGED <<tx, req, outputs>> /\ s[p].pc \in Funding /\ Return(p)
        /\ plan' = [plan EXCEPT ![s[p].t] =
                      [ready |-> TRUE, mode |-> s[p].mode, inputs |-> s[p].held]]
    BY <1>5 DEF createActionReturns, tables, outputs, At, Funding
  <2>2. \A t \in Txs \ {s[p].t} : plan'[t] = plan[t]
    BY <2>1 DEF Typed, TypeOK
  <2>3. plan'[s[p].t].inputs = s[p].held /\ ~plan[s[p].t].ready
    BY <1>u, <2>1 DEF Typed, TypeOK
  <2>4. \A o \in s[p].held : spentBy'[o] = s[p].t
    BY <2>1 DEF Reserves, outputs
  <2>5. PlansKept
    BY <2>2, <2>3, <2>4 DEF PlansKept
  <2>6. Spares /\ ReqsStay
    BY <2>1 DEF Spares, ReqsStay, outputs
  <2>7. Revives
    BY <2>1, <2>2, <2>3 DEF Revives, GivenUp, Lives
  <2> QED
    BY <1>i, <1>r, <2>1, <2>5, <2>6, <2>7 DEF Keeps, Return, Typed, TypeOK
<1> QED
  BY <1>1, <1>2, <1>3, <1>4, <1>5 DEF CreateActionStep

LEMMA PostInputs ==
  ASSUME Typed, NEW p \in Procs, Tracks(s[p]), PostStep(p)
  PROVE  /\ Keeps /\ Tracks(s[p])'
         /\ s'[p].pc \in Posting \cup {"idle"}
<1> s[p] \in Session /\ p \in DOMAIN s
  BY DEF Typed, TypeOK
<1>i. s'[p].pc = "idle" => Tracks(s[p])'
  <2> PICK r : r = s'[p]
    OBVIOUS
  <2> QED
    BY NotTracked, FundingPcs DEF Tracks
<1>t. s[p].pc \in Posting => s[p].t \in Txs /\ req[s[p].t].status # "none"
                             /\ s[p].copy.status # "none"
  BY TiedPcs DEF Typed, HasTx, Posting, Tracks, Tracked
<1>1. CASE mergeBeef(p) \/ postBeef(p)
  <2>1. UNCHANGED <<tx, req, spentBy, plan>> /\ s[p].pc \in Posting
    BY <1>1 DEF mergeBeef, postBeef, At, tables, Posting
  <2>2. \/ Goto(p, "postBeef")
        \/ \E v : s' = [s EXCEPT ![p].pc = "transferNotes", ![p].verdict = v]
    BY <1>1 DEF mergeBeef, postBeef
  <2>3. s'[p].pc \in {"postBeef", "transferNotes"} /\ s'[p].t = s[p].t
        /\ s'[p].copy = s[p].copy
    <3>1. CASE Goto(p, "postBeef")
      BY <3>1 DEF Goto, Typed, TypeOK, Session
    <3>2. ASSUME NEW v, s' = [s EXCEPT ![p].pc = "transferNotes", ![p].verdict = v]
          PROVE  s'[p].pc = "transferNotes" /\ s'[p].t = s[p].t /\ s'[p].copy = s[p].copy
      BY <3>2 DEF Typed, TypeOK, Session
    <3> QED
      BY <2>2, <3>1, <3>2
  <2>4. Tracks(s[p])'
    BY <1>t, <2>1, <2>3 DEF Tracks
  <2> QED
    BY <2>1, <2>3, <2>4, SameKeeps DEF ReqsStay, Posting
<1>2. CASE mergeBeefThrows(p)
  <2>1. s[p].pc = "mergeBeef" /\ UNCHANGED <<tx, spentBy, plan>> /\ Return(p)
    BY <1>2 DEF mergeBeefThrows, At, outputs
  <2>2. PICK copy : copy.status # "none" /\ WriteReq(s[p].t, copy)
    <3> DEFINE c == s[p].copy
               attempts == c.attempts + 1
    <3>1. [c EXCEPT !.attempts = attempts,
                    !.status = IF attempts > PostLimit THEN "invalid" ELSE @].status # "none"
      BY <1>t, <2>1 DEF Session, ReqRow, Posting
    <3> QED
      BY <1>2, <3>1 DEF mergeBeefThrows
  <2>3. Keeps
    BY <1>t, <2>1, <2>2, WriteStays, SameKeeps DEF Posting
  <2>4. s'[p].pc = "idle"
    BY <2>1, IdleTyped DEF Return, Typed, TypeOK
  <2> QED
    BY <1>i, <2>3, <2>4
<1>3. CASE transferNotes(p)
  <2>1. s[p].pc = "transferNotes" /\ UNCHANGED <<tx, spentBy, plan>>
        /\ WriteReq(s[p].t, s[p].copy)
    BY <1>3 DEF transferNotes, At, outputs
  <2>2. s'[p].pc = "refresh" /\ s'[p].t = s[p].t /\ s'[p].copy = s[p].copy
    BY <1>3 DEF transferNotes, Goto, Typed, TypeOK, Session
  <2>3. ReqsStay /\ req'[s[p].t].status # "none"
    BY <1>t, <2>1, WriteStays DEF Posting
  <2>4. Tracks(s[p])'
    BY <1>t, <2>1, <2>2, <2>3 DEF Tracks, Posting
  <2> QED
    BY <2>1, <2>2, <2>3, <2>4, SameKeeps DEF Posting
<1>4. CASE refreshReq(p)
  <2>1. UNCHANGED <<tx, req, spentBy, plan>>
    BY <1>4 DEF refreshReq, tables
  <2>2. Keeps
    BY <2>1, SameKeeps DEF ReqsStay
  <2>3. CASE Return(p)
    BY <1>i, <2>2, <2>3, IdleTyped DEF Return, Typed, TypeOK
  <2>4. CASE ~Return(p)
    <3>1. /\ req[s[p].t].status # "none"
          /\ s' = [s EXCEPT ![p].copy = req[s[p].t], ![p].pc = "updateReq"]
      BY <1>4, <2>4 DEF refreshReq
    <3>2. s'[p].pc = "updateReq" /\ s'[p].t = s[p].t /\ s'[p].copy = req[s[p].t]
      BY <3>1 DEF Typed, TypeOK, Session
    <3>3. Tracks(s[p])'
      BY <2>1, <3>1, <3>2 DEF Tracks
    <3> QED
      BY <2>2, <3>2, <3>3 DEF Posting
  <2> QED
    BY <2>3, <2>4
<1>5. CASE updateReqFromResult(p)
  <2>1. s[p].pc = "updateReq" /\ UNCHANGED <<tx, spentBy, plan>>
    BY <1>5 DEF updateReqFromResult, At, outputs
  <2> DEFINE Written(v) ==
        [s[p].copy EXCEPT !.status = NewStatus(v).req,
                          !.attempts = IF v = "serviceError" THEN @ + 1 ELSE @]
  <2>2. PICK v \in confirmed(p) :
          /\ WriteReq(s[p].t, Written(v))
          /\ s' = [s EXCEPT ![p].verdict = v, ![p].pc = "updateTx"]
    BY <1>5 DEF updateReqFromResult
  <2>3. v \in {"success", "doubleSpend", "invalidTx", "serviceError"}
    <3>1. s[p].verdict \in {"success", "doubleSpend", "invalidTx", "serviceError"}
      BY <2>1 DEF Typed, HasVerdict, Posted, Session, Verdicts
    <3> QED
      BY <3>1 DEF confirmed
  <2>4. /\ NewStatus(v).req # "none"
        /\ NewStatus(v).tx = "failed" \/ NewStatus(v).req \notin {"none", "invalid", "doubleSpend"}
    BY <2>3 DEF NewStatus
  <2>5. Written(v).status = NewStatus(v).req
    BY DEF Session, ReqRow
  <2>6. ReqsStay /\ req'[s[p].t].status = NewStatus(v).req
    <3> HIDE DEF Written
    <3> QED
      BY <1>t, <2>1, <2>2, <2>4, <2>5, WriteStays DEF Posting
  <2>7. s'[p].pc = "updateTx" /\ s'[p].t = s[p].t /\ s'[p].copy = s[p].copy
        /\ s'[p].verdict = v
    BY <2>2 DEF Typed, TypeOK, Session
  <2>8. Tracks(s[p])'
    BY <1>t, <2>1, <2>4, <2>6, <2>7 DEF Tracks, OnItsWay, Posting
  <2> QED
    BY <2>1, <2>6, <2>7, <2>8, SameKeeps DEF Posting
<1>6. CASE updateTxFromResult(p)
  <2>1. s[p].pc = "updateTx" /\ UNCHANGED <<req, plan>> /\ Return(p)
    BY <1>6 DEF updateTxFromResult, At
  <2>2. PICK status : /\ status = NewStatus(s[p].verdict).tx
                      /\ \/ updateTransactionStatus(s[p].t, status)
                         \/ UNCHANGED <<tx, outputs>>
    BY <1>6 DEF updateTxFromResult
  <2>3. status = "failed" \/ OnItsWay(s[p].t)
    BY <2>1, <2>2 DEF Tracks
  <2>4. Keeps
    BY <1>t, <2>1, <2>2, <2>3, UpdateKeeps DEF ReqsStay, Posting
  <2>5. s'[p].pc = "idle"
    BY <2>1, IdleTyped DEF Return, Typed, TypeOK
  <2> QED
    BY <1>i, <2>4, <2>5
<1> QED
  BY <1>1, <1>2, <1>3, <1>4, <1>5, <1>6 DEF PostStep

LEMMA AbortKeeps ==
  ASSUME Typed, NEW t \in Txs, abortTx(t), UNCHANGED plan
  PROVE  Keeps
<1>1. ReqsStay
  BY DEF abortTx, ReqsStay, Typed, TypeOK, ReqRow
<1>2. PICK status : status = "failed" /\ updateTransactionStatus(t, status)
  BY DEF abortTx
<1> QED
  BY <1>1, <1>2, UpdateKeeps

(* What the step of a call has to do for the invariant. *)
CallKeeps(p) == Keeps /\ Tracks(s[p])' /\ Reserves(s[p])'

LEMMA EndsCall ==
  ASSUME NEW p, Keeps, s'[p].pc \notin Tracked \cup Funding \cup {"commit"}
  PROVE  CallKeeps(p)
  BY DEF CallKeeps, Tracks, Reserves, Tracked, Posting

LEMMA ProcessInputs ==
  ASSUME Typed, OutputInv, NEW p \in Callers, Tracks(s[p]), Reserves(s[p]), Fresher(s[p]),
         ProcessActionStep(p)
  PROVE  CallKeeps(p)
<1> p \in Procs /\ s[p] \in Session /\ p \in DOMAIN s
  BY DEF Procs, Typed, TypeOK
<1>c. Call(s[p])
  BY DEF OutputInv
<1>n. {"idle", "share"} \cap (Tracked \cup Funding \cup {"commit"}) = {}
  BY DEF Tracked, Funding, Posting
<1>t. s[p].pc \in {"commit", "share", "bump"} => s[p].t \in Txs
  BY TiedPcs DEF Typed, HasTx
<1>1. CASE PostStep(p)
  <2>1. Keeps /\ Tracks(s[p])' /\ s'[p].pc \in Posting \cup {"idle"}
    BY <1>1, PostInputs
  <2>2. Reserves(s[p])'
    BY <2>1, FundingPcs DEF Reserves, Tracked
  <2> QED
    BY <2>1, <2>2 DEF CallKeeps
<1>2. CASE \E t \in Txs : validateCommitNewTx(p, t)
  <2> PICK t \in Txs : validateCommitNewTx(p, t)
    BY <1>2
  <2>1. UNCHANGED <<tx, req, spentBy, plan>> /\ tx[t].status \in CommitableStatus
    BY DEF validateCommitNewTx, tables
  <2>2. s'[p].pc = "commit" /\ s'[p].t = t
    BY DEF validateCommitNewTx, Typed, TypeOK, Idle
  <2>3. Keeps
    BY <2>1, SameKeeps DEF ReqsStay
  <2>4. Reserves(s[p])'
    BY <2>1, <2>2, FundingPcs DEF Reserves
  <2>5. Tracks(s[p])'
    BY <2>2, FundingPcs DEF Tracks, Tracked, Posting
  <2> QED
    BY <2>3, <2>4, <2>5 DEF CallKeeps
<1>3. CASE \E t \in Txs : sendWith(p, t)
  <2>1. PICK t, mode : s' = [s EXCEPT ![p] = [Idle EXCEPT !.pc = "share", !.t = t, !.mode = mode]]
    BY <1>3 DEF sendWith
  <2>2. s'[p].pc = "share"
    BY <2>1 DEF Typed, TypeOK, Idle
  <2>3. Keeps
    BY <1>3, SameKeeps DEF sendWith, tables, ReqsStay
  <2> QED
    BY <1>n, <2>2, <2>3, EndsCall
<1>4. CASE commitNewTxToStorage(p)
  <2>0. s[p].pc = "commit" /\ s[p].t \in Txs
    BY <1>4, <1>t DEF commitNewTxToStorage, At
  <2> PICK t \in Txs : t = s[p].t
    BY <2>0
  <2>1. /\ UNCHANGED <<spentBy, plan>>
        /\ \A u \in Txs \ {t} : tx'[u] = tx[u]
    BY <1>4 DEF commitNewTxToStorage, Typed, TypeOK
  <2>2. Lives(t)
    BY <1>c, <2>0 DEF Call, Reserves, Lives, CommitableStatus
  <2>3. ReqsStay
    BY <1>4 DEF commitNewTxToStorage, ReqsStay, Typed, TypeOK, ReqRow
  <2>4. Keeps
    BY <2>1, <2>2, <2>3, RowsKeep DEF Spares
  <2>5. s'[p].pc \in {"idle", "share"}
    BY <1>4, IdleTyped DEF commitNewTxToStorage, Return, Goto, Typed, TypeOK, Session
  <2> QED
    BY <1>n, <2>4, <2>5, EndsCall
<1>5. CASE getReqsAndBeef(p)
  <2>1. Keeps
    BY <1>5, SameKeeps DEF getReqsAndBeef, tables, ReqsStay
  <2>2. CASE Return(p)
    BY <1>n, <2>1, <2>2, IdleTyped, EndsCall DEF Return, Typed, TypeOK
  <2>3. CASE ~Return(p)
    <3>1. /\ req[s[p].t].status \in ReadyToSend /\ UNCHANGED req
          /\ \/ s' = [s EXCEPT ![p].copy = req[s[p].t], ![p].pc = "bump"]
             \/ s' = [s EXCEPT ![p].copy = req[s[p].t], ![p].pc = "mergeBeef"]
      BY <1>5, <2>3 DEF getReqsAndBeef, tables
    <3>2. s'[p].pc \in {"bump", "mergeBeef"} /\ s'[p].t = s[p].t /\ s'[p].copy = req[s[p].t]
      BY <3>1 DEF Typed, TypeOK, Session
    <3>3. Tracks(s[p])' /\ Reserves(s[p])'
      BY <3>1, <3>2 DEF Tracks, Reserves, ReadyToSend, Funding
    <3> QED
      BY <2>1, <3>3 DEF CallKeeps
  <2> QED
    BY <2>2, <2>3
<1>6. CASE bumpToUnsent(p)
  <2>0. s[p].pc = "bump" /\ s[p].t \in Txs
    BY <1>6, <1>t DEF bumpToUnsent, At
  <2> PICK t \in Txs : t = s[p].t
    BY <2>0
  <2>1. /\ UNCHANGED <<spentBy, plan>>
        /\ \A u \in Txs \ {t} : tx'[u] = tx[u]
    BY <1>6 DEF bumpToUnsent, outputs, Typed, TypeOK
  <2>2. OnItsWay(t)
    BY <2>0 DEF Fresher, Terminal, Tracks, Tracked, OnItsWay
  <2>3. ReqsStay
    BY <1>6 DEF bumpToUnsent, ReqsStay, Typed, TypeOK, ReqRow
  <2>4. Keeps
    BY <2>1, <2>2, <2>3, RowsKeep DEF Spares
  <2>5. s'[p].pc = "idle"
    BY <1>6, IdleTyped DEF bumpToUnsent, Return, Typed, TypeOK
  <2> QED
    BY <1>n, <2>4, <2>5, EndsCall
<1>7. CASE \E t \in Txs : abortAction(p, t)
  <2>1. Keeps
    BY <1>7, AbortKeeps DEF abortAction
  <2>2. s'[p].pc = "idle"
    BY <1>7 DEF abortAction, At
  <2> QED
    BY <1>n, <2>1, <2>2, EndsCall
<1> QED
  BY <1>1, <1>2, <1>3, <1>4, <1>5, <1>6, <1>7 DEF ProcessActionStep

LEMMA InternalizeInputs ==
  ASSUME Typed, OutputInv, NEW p \in Callers, InternalizeActionStep(p)
  PROVE  CallKeeps(p)
<1> p \in Procs /\ s[p] \in Session /\ p \in DOMAIN s
  BY DEF Procs, Typed, TypeOK
<1>n. (InternalizePcs \cup {"idle"}) \cap (Tracked \cup Funding \cup {"commit"}) = {}
  BY FundingPcs
<1>1. s'[p].pc \in InternalizePcs \cup {"idle"}
  <2>1. CASE \E t \in Txs : internalizeAction(p, t)
    <3>1. PICK t, pc : /\ s' = [s EXCEPT ![p] = [Idle EXCEPT !.t = t, !.pc = pc]]
                       /\ pc \in InternalizePcs
      BY <2>1 DEF internalizeAction, InternalizePcs
    <3> QED
      BY <3>1 DEF Idle, Typed, TypeOK
  <2>2. CASE findOrInsertProvenTx(p) \/ insertCompleted(p) \/ insertUnproven(p)
             \/ getProvenOrReq(p)
    BY <2>2, IdleTyped DEF findOrInsertProvenTx, insertCompleted, insertUnproven, InsertTx,
       getProvenOrReq, Goto, Return, InternalizePcs, Typed, TypeOK, Session
  <2>3. CASE storeOutput(p) \/ mergeOutput(p)
    BY <2>3, IdleTyped DEF storeOutput, mergeOutput, Return, Typed, TypeOK
  <2> QED
    BY <2>1, <2>2, <2>3 DEF InternalizeActionStep
<1>2. UNCHANGED <<spentBy, plan>>
  BY DEF InternalizeActionStep, internalizeAction, findOrInsertProvenTx, insertCompleted,
     insertUnproven, getProvenOrReq, storeOutput, mergeOutput, tables, outputs
<1>3. ReqsStay
  BY DEF InternalizeActionStep, internalizeAction, findOrInsertProvenTx, insertCompleted,
     insertUnproven, getProvenOrReq, storeOutput, mergeOutput, tables, ReqsStay, Typed, TypeOK
<1>4. Keeps
  <2>1. CASE insertCompleted(p) \/ insertUnproven(p)
    <3>1. ~plan[s[p].t].ready \/ s[p].t \notin Txs
      BY <2>1 DEF insertCompleted, insertUnproven, At, OutputInv, Tables, PlansCommitted, Call,
         ReceivedPcs
    <3>2. \A t \in Txs \ {s[p].t} : tx'[t] = tx[t]
      BY <2>1 DEF insertCompleted, insertUnproven, InsertTx, Typed, TypeOK
    <3> QED
      BY <1>2, <1>3, <3>1, <3>2, RowsKeep DEF Spares
  <2>2. CASE ~(insertCompleted(p) \/ insertUnproven(p))
    <3>1. UNCHANGED tx
      BY <2>2 DEF InternalizeActionStep, internalizeAction, findOrInsertProvenTx,
         getProvenOrReq, storeOutput, mergeOutput, tables
    <3> QED
      BY <1>2, <1>3, <3>1, SameKeeps
  <2> QED
    BY <2>1, <2>2
<1> QED
  BY <1>1, <1>4, <1>n, EndsCall

LEMMA ListInputs ==
  ASSUME Typed, NEW p \in Callers, ListSpecOpsStep(p)
  PROVE  CallKeeps(p)
<1> p \in Procs /\ s[p] \in Session /\ p \in DOMAIN s
  BY DEF Procs, Typed, TypeOK
<1>n. (Listing \cup {"idle"}) \cap (Tracked \cup Funding \cup {"commit"}) = {}
  BY FundingPcs
<1>1. s'[p].pc \in Listing \cup {"idle"}
  <2>1. CASE listNoSends(p) \/ listFailed(p) \/ listChange(p)
    <3>1. PICK pc \in Listing : \E held :
            s' = [s EXCEPT ![p] = [Idle EXCEPT !.pc = pc, !.held = held]]
      BY <2>1 DEF listNoSends, listFailed, listChange, Listed, Listing
    <3> QED
      BY <3>1 DEF Idle, Typed, TypeOK
  <2>2. CASE abortListed(p) \/ unfailListed(p) \/ releaseListed(p) \/ listed(p)
    <3>1. s[p].pc \in Listing
      BY <2>2 DEF abortListed, unfailListed, releaseListed, listed, At, Listing
    <3>2. CASE Return(p)
      BY <3>2, IdleTyped DEF Return, Typed, TypeOK
    <3>3. CASE \E x : Rest(p, x)
      BY <3>1, <3>3 DEF Rest, Typed, TypeOK, Session
    <3> QED
      BY <2>2, <3>2, <3>3 DEF abortListed, unfailListed, releaseListed, listed
  <2>3. CASE filterOutputs(p)
    <3>1. PICK held : s' = [s EXCEPT ![p].pc = "releaseListed", ![p].held = held]
      BY <2>3 DEF filterOutputs
    <3> QED
      BY <3>1 DEF Typed, TypeOK, Session, Listing
  <2> QED
    BY <2>1, <2>2, <2>3 DEF ListSpecOpsStep
<1>2. UNCHANGED plan
  BY DEF ListSpecOpsStep, listNoSends, listFailed, listChange, Listed, abortListed,
     unfailListed, filterOutputs, releaseListed, listed
<1>3. Keeps
  <2>1. CASE \E t \in Txs : abortTx(t)
    BY <1>2, <2>1, AbortKeeps
  <2>2. CASE unfailListed(p)
    <3>1. \A t \in Txs : tx'[t].status \in {tx[t].status, "unfail"}
      BY <2>2 DEF unfailListed, UpdateTx, Typed, TypeOK, TxRow
    <3>2. UNCHANGED <<req, spentBy>>
      BY <2>2 DEF unfailListed, outputs
    <3> QED
      BY <1>2, <3>1, <3>2, RowsKeep DEF Spares, ReqsStay
  <2>3. CASE UNCHANGED <<tx, req, spentBy>>
    BY <1>2, <2>3, SameKeeps DEF ReqsStay
  <2> QED
    BY <2>1, <2>2, <2>3 DEF ListSpecOpsStep, listNoSends, listFailed, listChange, Listed,
       abortListed, filterOutputs, releaseListed, listed, tables, outputs
<1> QED
  BY <1>1, <1>3, <1>n, EndsCall

LEMMA CallInputs ==
  ASSUME Typed, PlanInv, OutputInv, NEW p \in Callers, Tracks(s[p]), Reserves(s[p]),
         Fresher(s[p]), CallerStep(p)
  PROVE  CallKeeps(p)
<1>1. CASE CreateActionStep(p)
  <2>1. Keeps /\ Reserves(s[p])' /\ s'[p].pc \in Funding \cup {"idle"}
    BY <1>1, CreateInputs DEF OutputInv
  <2>2. Tracks(s[p])'
    BY <2>1, FundingPcs DEF Tracks, Tracked, Posting
  <2> QED
    BY <2>1, <2>2 DEF CallKeeps
<1> QED
  BY <1>1, ProcessInputs, InternalizeInputs, ListInputs DEF CallerStep

----------------------------------------------------------------------------
(* The monitor *)

(* What its step has to do for the invariant. *)
TaskKeeps ==
  /\ Keeps /\ Tracks(s[Monitor])'
  /\ s'[Monitor].pc \in Cleaning => lock' = Monitor
  /\ s'[Monitor].pc \in Reviewing => "ReviewStatus" \in Tasks

LEMMA EndsTask ==
  ASSUME Keeps, s'[Monitor].pc \notin Tracked \cup Cleaning
  PROVE  TaskKeeps
  BY DEF TaskKeeps, Tracks, Tracked, Posting, Cleaning

LEMMA GoesOn ==
  ASSUME Keeps, s'[Monitor].pc \in Tracked \ {"notifyTx", "updateTx"},
         req'[s'[Monitor].t].status # "none", s'[Monitor].copy.status # "none"
  PROVE  TaskKeeps
  BY FundingPcs DEF TaskKeeps, Tracks, Cleaning

LEMMA SendInputs ==
  ASSUME Typed, Tracks(s[Monitor]), SendWaitingStep
  PROVE  TaskKeeps
<1> Monitor \in Procs /\ M = Monitor /\ s[Monitor] \in Session
  BY DEF Procs, M, Typed, TypeOK
<1>k. Keeps /\ UNCHANGED req
  BY SameKeeps DEF SendWaitingStep, sendWaiting, processUnsent, Read, tables, ReqsStay
<1>1. CASE \E t \in Txs : sendWaiting(t)
  <2> PICK t \in Txs : sendWaiting(t)
    BY <1>1
  <2>1. s' = [s EXCEPT ![Monitor] = [Idle EXCEPT !.pc = "sendWaiting", !.t = t,
                                       !.copy = req[t], !.counts = FALSE]]
    BY DEF sendWaiting, Read
  <2>2. s'[Monitor].pc = "sendWaiting" /\ s'[Monitor].t = t /\ s'[Monitor].copy = req[t]
    BY <2>1 DEF Typed, TypeOK, Idle
  <2>3. req[t].status # "none"
    BY DEF sendWaiting
  <2> QED
    BY <1>k, <2>2, <2>3, GoesOn DEF Tracked
<1>2. CASE processUnsent
  <2>1. /\ s'[Monitor].pc = "mergeBeef" /\ s'[Monitor].t = s[Monitor].t
        /\ s'[Monitor].copy = s[Monitor].copy /\ s[Monitor].pc = "sendWaiting"
    BY <1>2 DEF processUnsent, At, Goto, Typed, TypeOK, Session
  <2> QED
    BY <1>k, <2>1, GoesOn DEF Tracks, Tracked, Posting
<1> QED
  BY <1>1, <1>2 DEF SendWaitingStep

LEMMA MerklePathCopy ==
  ASSUME Typed, getMerklePath, s[Monitor].copy.status # "none"
  PROVE  s'[Monitor].copy.status # "none"
<1> Monitor \in Procs /\ M = Monitor /\ s[Monitor] \in Session
  BY DEF Procs, M, Typed, TypeOK
<1> PICK c : c = IF s[Monitor].counts THEN Counted(s[Monitor].copy) ELSE s[Monitor].copy
  OBVIOUS
<1>1. c \in ReqRow /\ c.status = s[Monitor].copy.status
  <2>1. Counted(s[Monitor].copy) \in ReqRow
        /\ Counted(s[Monitor].copy).status = s[Monitor].copy.status
    BY DEF Counted, Session, ReqRow
  <2> QED
    BY <2>1 DEF Session
<1>2. CASE s' = [s EXCEPT ![Monitor].pc = "saveCopy", ![Monitor].copy = c,
                          ![Monitor].kept = c.attempts]
  BY <1>1, <1>2 DEF Typed, TypeOK, Session
<1>3. ASSUME NEW status, status \in {c.status, "invalid"},
             s' = [s EXCEPT ![Monitor].pc = "finishProof", ![Monitor].kept = c.attempts,
                            ![Monitor].copy = [c EXCEPT !.status = status]]
      PROVE  s'[Monitor].copy.status # "none"
  <2>1. [c EXCEPT !.status = status].status # "none"
    BY <1>1, <1>3 DEF ReqRow
  <2>2. s'[Monitor].copy = [c EXCEPT !.status = status]
    BY <1>3 DEF Typed, TypeOK, Session
  <2> QED
    BY <2>1, <2>2
<1>4. CASE ~(s' = [s EXCEPT ![Monitor].pc = "saveCopy", ![Monitor].copy = c,
                            ![Monitor].kept = c.attempts])
  <2>1. \E status \in {c.status} \cup
              (IF s[Monitor].copy.attempts > GiveUpLimit THEN {"invalid"} ELSE {}) :
          s' = [s EXCEPT ![Monitor].pc = "finishProof", ![Monitor].kept = c.attempts,
                         ![Monitor].copy = [c EXCEPT !.status = status]]
    <3> HIDE DEF Counted
    <3> QED
      BY <1>4 DEF getMerklePath
  <2> QED
    BY <1>3, <2>1
<1> QED
  BY <1>2, <1>4

LEMMA ProofInputs ==
  ASSUME Typed, Tracks(s[Monitor]), GetProofsStep
  PROVE  TaskKeeps
<1> Monitor \in Procs /\ M = Monitor /\ s[Monitor] \in Session
  BY DEF Procs, M, Typed, TypeOK
<1> DEFINE t == s[Monitor].t
           c == s[Monitor].copy
           Seeking == {"getProofs", "saveCopy", "refreshCopy", "newProvenTx", "insertProvenTx",
                       "notifyTx", "saveNotified", "finishProof"}
<1>a. s[Monitor].pc \in Seeking => t \in Txs /\ req[t].status # "none" /\ c.status # "none"
  BY DEF Typed, HasTx, Untied, Purging, Listing, Tracks, Tracked
<1>w. Seeking \subseteq Tracked /\ "idle" \notin Tracked \cup Cleaning
  BY FundingPcs DEF Tracked
<1>1. CASE \E u \in Txs, counts \in BOOLEAN : checkForProofs(u, counts) \/ checkNoSends(u, counts)
  <2>1. PICK u \in Txs :
          /\ req[u].status # "none"
          /\ \E counts : s' = [s EXCEPT ![Monitor] = [Idle EXCEPT !.pc = "getProofs", !.t = u,
                                           !.copy = req[u], !.counts = counts]]
    BY <1>1 DEF checkForProofs, checkNoSends, Read
  <2>2. s'[Monitor].pc = "getProofs" /\ s'[Monitor].t = u /\ s'[Monitor].copy = req[u]
    BY <2>1 DEF Typed, TypeOK, Idle
  <2>3. Keeps /\ UNCHANGED req
    BY <1>1, SameKeeps DEF checkForProofs, checkNoSends, Read, tables, ReqsStay
  <2> QED
    BY <1>w, <2>1, <2>2, <2>3, GoesOn
<1>2. CASE settleCopy \/ finishProof
  <2>1. s[Monitor].pc \in Seeking /\ UNCHANGED <<tx, spentBy, plan>> /\ Return(Monitor)
    BY <1>2 DEF settleCopy, finishProof, At, outputs
  <2>2. PICK copy : copy.status # "none" /\ WriteReq(t, copy)
    <3>1. /\ [c EXCEPT !.status = "completed"].status # "none"
          /\ [c EXCEPT !.status = "invalid"].status # "none"
          /\ [c EXCEPT !.attempts = s[Monitor].kept].status # "none"
      BY <1>a, <2>1 DEF Session, ReqRow
    <3> QED
      BY <1>2, <3>1 DEF settleCopy, finishProof
  <2>3. Keeps
    <3> HIDE DEF c
    <3> QED
      BY <1>a, <2>1, <2>2, WriteStays, SameKeeps
  <2>4. s'[Monitor].pc = "idle"
    BY <2>1, IdleTyped DEF Return, Typed, TypeOK
  <2> QED
    BY <1>w, <2>3, <2>4, EndsTask
<1>3. CASE getMerklePath
  <2>1. s[Monitor].pc \in Seeking /\ UNCHANGED <<tx, req, spentBy, plan>>
    BY <1>3 DEF getMerklePath, At, tables
  <2>2. /\ s'[Monitor].pc \in {"saveCopy", "finishProof"} /\ s'[Monitor].t = t
        /\ s'[Monitor].copy.status # "none"
    BY <1>3, <1>a, <2>1, MerklePathPc, MerklePathCopy
  <2> QED
    BY <1>a, <1>w, <2>1, <2>2, SameKeeps, GoesOn DEF ReqsStay
<1>4. CASE proofTooNew
  <2>1. s'[Monitor].pc = "idle" /\ Keeps
    BY <1>4, IdleTyped, SameKeeps DEF proofTooNew, Return, tables, ReqsStay, Typed, TypeOK
  <2> QED
    BY <1>w, <2>1, EndsTask
<1>5. CASE saveCopy \/ saveNotified
  <2>1. /\ s[Monitor].pc \in Seeking /\ UNCHANGED <<tx, spentBy, plan>> /\ WriteReq(t, c)
        /\ s'[Monitor].pc \in {"refreshCopy", "finishProof"} /\ s'[Monitor].t = t
        /\ s'[Monitor].copy = c
    BY <1>5 DEF saveCopy, saveNotified, At, outputs, Goto, Typed, TypeOK, Session
  <2>2. Keeps /\ req'[t].status # "none"
    BY <1>a, <2>1, WriteStays, SameKeeps
  <2> QED
    BY <1>a, <1>w, <2>1, <2>2, GoesOn
<1>6. CASE refreshCopy \/ newProvenTx
  <2>1. s[Monitor].pc \in Seeking /\ UNCHANGED <<tx, req, spentBy, plan>>
    BY <1>6 DEF refreshCopy, newProvenTx, At, tables
  <2>2. /\ s'[Monitor].pc \in {"newProvenTx", "insertProvenTx", "finishProof"}
        /\ s'[Monitor].t = t /\ s'[Monitor].copy = req[t]
    <3>1. CASE refreshCopy
      BY <3>1 DEF refreshCopy, Typed, TypeOK, Session
    <3>2. CASE newProvenTx
      BY <3>2 DEF newProvenTx, Typed, TypeOK, Session
    <3> QED
      BY <1>6, <3>1, <3>2
  <2> QED
    BY <1>a, <1>w, <2>1, <2>2, SameKeeps, GoesOn DEF ReqsStay
<1>7. CASE insertProvenTx
  <2> DEFINE done == [c EXCEPT !.status = "completed", !.proof = TRUE]
  <2>1. s[Monitor].pc \in Seeking /\ UNCHANGED <<tx, spentBy, plan>>
    BY <1>7 DEF insertProvenTx, At, outputs
  <2>2. CASE s' = [s EXCEPT ![M].pc = "finishProof", ![M].copy.proof = TRUE] /\ UNCHANGED req
    <3>1. /\ s'[Monitor].pc = "finishProof" /\ s'[Monitor].t = t
          /\ s'[Monitor].copy.status = c.status
      BY <2>2 DEF Typed, TypeOK, Session, ReqRow
    <3> QED
      BY <1>a, <1>w, <2>1, <2>2, <3>1, SameKeeps, GoesOn DEF ReqsStay
  <2>3. CASE /\ WriteReq(t, done)
             /\ s' = [s EXCEPT ![M].copy = done, ![M].pc = "notifyTx"]
    <3>1. done.status = "completed"
      BY DEF Session, ReqRow
    <3>2. s'[Monitor].pc = "notifyTx" /\ s'[Monitor].t = t /\ s'[Monitor].copy = done
      BY <2>3 DEF Typed, TypeOK, Session
    <3>3. ReqsStay /\ req'[t].status = "completed"
      <4> HIDE DEF done
      <4> QED
        BY <1>a, <2>1, <2>3, <3>1, WriteStays
    <3>4. Keeps
      BY <2>1, <3>3, SameKeeps
    <3>5. Tracks(s[Monitor])'
      <4> HIDE DEF done, t
      <4> QED
        BY <3>1, <3>2, <3>3 DEF Tracks
    <3> QED
      BY <1>w, <3>2, <3>4, <3>5, FundingPcs DEF TaskKeeps, Cleaning
  <2> QED
    BY <1>7, <2>2, <2>3 DEF insertProvenTx
<1>8. CASE notifyTx
  <2>1. /\ s[Monitor].pc = "notifyTx" /\ UNCHANGED <<req, spentBy, plan>>
        /\ s'[Monitor].pc = "saveNotified" /\ s'[Monitor].t = t /\ s'[Monitor].copy = c
    BY <1>8 DEF notifyTx, At, outputs, Goto, Typed, TypeOK, Session
  <2>2. t \in Txs /\ OnItsWay(t)
    BY <1>a, <2>1 DEF Tracks, OnItsWay
  <2>3. \A u \in Txs \ {t} : tx'[u] = tx[u]
    BY <1>8 DEF notifyTx, Typed, TypeOK
  <2>4. Keeps
    BY <2>1, <2>2, <2>3, RowsKeep DEF Spares, ReqsStay
  <2> QED
    BY <1>a, <1>w, <2>1, <2>4, GoesOn
<1> QED
  BY <1>1, <1>2, <1>3, <1>4, <1>5, <1>6, <1>7, <1>8 DEF GetProofsStep

LEMMA RestInputs ==
  ASSUME Typed, PlanInv, InputInv, ManagerLocks, "UnFail" \notin Tasks,
         "ReviewStatus" \in Tasks => AgreesInv /\ MaxFaults = 0,
         FailAbandonedStep \/ UnFailStep \/ ReviewStatusStep
  PROVE  TaskKeeps
<1> Monitor \in Procs /\ M = Monitor /\ s[Monitor] \in Session /\ Nobody # Monitor
  BY NamesAssumption DEF Procs, M, Typed, TypeOK
<1>w. /\ "idle" \notin Tracked \cup Cleaning
      /\ ({"failAbandoned"} \cup Reviewing) \cap Tracked = {}
  BY FundingPcs DEF Tracked, Posting, Reviewing
<1>x. Tracks(s[Monitor])
  BY DEF InputInv
<1>1. CASE \E t \in Txs : failAbandoned(t)
  <2>1. PICK t \in Txs :
          s' = [s EXCEPT ![Monitor] = [Idle EXCEPT !.pc = "failAbandoned", !.t = t]]
    BY <1>1 DEF failAbandoned
  <2>2. s'[Monitor].pc = "failAbandoned"
    BY <2>1 DEF Typed, TypeOK, Idle
  <2>3. Keeps /\ lock' = Monitor
    BY <1>1, SameKeeps DEF failAbandoned, Acquire, tables, ReqsStay
  <2> QED
    BY <1>w, <2>2, <2>3 DEF TaskKeeps, Tracks, Tracked, Posting, Reviewing
<1>2. CASE failAbandonedTx
  <2>1. s[Monitor].t \in Txs /\ UNCHANGED <<req, plan>> /\ Return(Monitor)
    BY <1>2 DEF failAbandonedTx, At, Typed, HasTx, Untied, Purging, Listing
  <2>2. PICK status : /\ status = "failed"
                      /\ \/ updateTransactionStatus(s[Monitor].t, status)
                         \/ UNCHANGED <<tx, outputs>>
    BY <1>2 DEF failAbandonedTx
  <2>3. Keeps
    BY <2>1, <2>2, UpdateKeeps DEF ReqsStay
  <2>4. s'[Monitor].pc = "idle"
    BY <2>1, IdleTyped DEF Return, Typed, TypeOK
  <2> QED
    BY <1>w, <2>3, <2>4, EndsTask
<1>3. CASE UnFailStep
  <2>1. unfailReq
    BY <1>3 DEF UnFailStep, assignUnfail, unfail, Read, getUnfailPath, unfailTx, At, PlanInv,
       RowsStay, Installed
  <2>2. /\ s[Monitor].pc = "unfailReq" /\ UNCHANGED <<tx, spentBy, plan>>
        /\ WriteReq(s[Monitor].t, s[Monitor].copy) /\ s'[Monitor].pc = "idle"
    BY <2>1, IdleTyped DEF unfailReq, At, outputs, Return, Typed, TypeOK
  <2>3. s[Monitor].t \in Txs /\ s[Monitor].copy.status # "none"
    BY <1>x, <2>2 DEF Typed, HasTx, Untied, Purging, Listing, Tracks, Tracked
  <2>4. Keeps
    BY <2>2, <2>3, WriteStays, SameKeeps
  <2> QED
    BY <1>w, <2>2, <2>4, EndsTask
<1>4. CASE reviewStatus
  <2>1. s'[Monitor].pc = "review1" /\ lock' = Monitor /\ "ReviewStatus" \in Tasks
    BY <1>4 DEF reviewStatus, Acquire, Typed, TypeOK, Idle
  <2>2. Keeps
    BY <1>4, SameKeeps DEF reviewStatus, tables, ReqsStay
  <2> QED
    BY <2>1, <2>2 DEF TaskKeeps, Tracks, Tracked, Posting
<1>5. CASE failWhereReqInvalid \/ releaseWhereTxFailed \/ completeWhereProven
  <2>1. s[Monitor].pc \in Reviewing /\ UNCHANGED <<req, plan>> /\ ReqsStay
    BY <1>5 DEF failWhereReqInvalid, releaseWhereTxFailed, completeWhereProven, At, Reviewing,
       ReqsStay
  <2>2. "ReviewStatus" \in Tasks /\ lock = Monitor /\ AgreesInv /\ MaxFaults = 0
    BY <2>1 DEF InputInv, Cleaning
  <2>3. Keeps
    <3>1. CASE failWhereReqInvalid
      <4>1. UNCHANGED spentBy /\ \A t \in Txs : tx'[t].status \in {tx[t].status, "failed"}
        BY <3>1 DEF failWhereReqInvalid, outputs, UpdateTx, Typed, TypeOK, TxRow
      <4> QED
        BY <2>1, <4>1, RowsKeep DEF Spares
    <3>2. CASE releaseWhereTxFailed
      <4> PICK T \in SUBSET Txs : T = {t \in Txs : tx[t].status = "failed"}
        OBVIOUS
      <4>1. \A o \in Outs : spentBy'[o] = IF spentBy[o] \in T THEN NoTx ELSE spentBy[o]
        BY <3>2, ReleaseLetsGo DEF releaseWhereTxFailed
      <4>2. UNCHANGED tx
        BY <3>2 DEF releaseWhereTxFailed
      <4>3. Spares
        BY <4>1, <4>2 DEF Spares
      <4> QED
        BY <2>1, <4>2, <4>3, RowsKeep
    <3>3. CASE completeWhereProven
      <4>1. s[Monitor].pc # "notifyTx"
        BY <2>1 DEF Reviewing
      <4>2. \A t \in Txs : ~MissedProof(t)
        BY <2>2, <4>1 DEF AgreesInv, ProofsLinked, MissedProof
      <4>3. UNCHANGED spentBy /\ \A t \in Txs : tx'[t] = tx[t]
        BY <3>3, <4>2 DEF completeWhereProven, outputs
      <4> QED
        BY <2>1, <4>3, RowsKeep DEF Spares
    <3> QED
      BY <1>5, <3>1, <3>2, <3>3
  <2>4. /\ s'[Monitor].pc \in Reviewing \cup {"idle"}
        /\ s'[Monitor].pc \in Reviewing => lock' = lock
    <3>1. CASE Return(Monitor)
      BY <3>1, <1>w, IdleTyped DEF Return, Typed, TypeOK, Cleaning
    <3>2. CASE UNCHANGED lock /\ (Goto(Monitor, "review2") \/ Goto(Monitor, "review3"))
      BY <3>2 DEF Goto, Typed, TypeOK, Session, Reviewing
    <3> QED
      BY <1>5, <3>1, <3>2 DEF failWhereReqInvalid, releaseWhereTxFailed, completeWhereProven
  <2>5. Tracks(s[Monitor])'
    BY <1>w, <2>4 DEF Tracks, Tracked, Posting
  <2> QED
    BY <1>w, <2>2, <2>3, <2>4, <2>5 DEF TaskKeeps, Cleaning
<1> QED
  BY <1>1, <1>2, <1>3, <1>4, <1>5 DEF FailAbandonedStep, ReviewStatusStep

(* While a call runs, the monitor waits for the lock wherever it would     *)
(* write a row or an output.                                               *)
LEMMA MonitorWaits ==
  ASSUME Typed, Locked, TerminalInv, InputInv, ManagerLocks,
         MonitorStep \/ PurgeStep \/ PostStep(Monitor),
         NEW p \in Callers, s[p].pc # "idle"
  PROVE  UNCHANGED <<tx, spentBy>>
<1>1. lock = p /\ p # Monitor /\ p # Nobody /\ M = Monitor
  BY NamesAssumption DEF Locked, CallsLocked, M, Procs
<1>2. ~Free /\ s[Monitor].pc \notin UnderLock \cup Purging \cup Cleaning
  BY <1>1 DEF Free, TerminalInv, InputInv, Locked, PurgeLocked
<1>3. CASE PostStep(Monitor)
  BY <1>2, <1>3 DEF PostStep, mergeBeef, mergeBeefThrows, postBeef, transferNotes, refreshReq,
     updateReqFromResult, updateTxFromResult, At, UnderLock, Posting
<1>4. CASE PurgeStep
  BY <1>1, <1>2, <1>4 DEF PurgeStep, purge, purgeCompleted, selectFailed, deleteFailedOutputs,
     markNotSpentBy, deleteFailedTxs, deleteFailedReqs, selectSpent, selectSpentThrows,
     forgetSpentBy, deleteSpentOutputs, deleteSpentTxs, deleteOrphans, At, Purging, tables
<1>5. CASE SendWaitingStep \/ FailAbandonedStep \/ ReviewStatusStep
  BY <1>1, <1>2, <1>5 DEF SendWaitingStep, sendWaiting, processUnsent, Read, FailAbandonedStep,
     failAbandoned, failAbandonedTx, ReviewStatusStep, reviewStatus, failWhereReqInvalid,
     releaseWhereTxFailed, completeWhereProven, At, Cleaning, Reviewing, tables
<1>6. CASE UnFailStep
  BY <1>2, <1>6 DEF UnFailStep, assignUnfail, unfail, getUnfailPath, unfailTx, unfailReq, Read,
     outputs, tables
<1>7. CASE GetProofsStep
  BY <1>1, <1>2, <1>7 DEF GetProofsStep, checkForProofs, checkNoSends, Read, settleCopy,
     getMerklePath, proofTooNew, saveCopy, refreshCopy, newProvenTx, insertProvenTx, notifyTx,
     saveNotified, finishProof, At, UnderLock, outputs, tables
<1> QED
  BY <1>3, <1>4, <1>5, <1>6, <1>7 DEF MonitorStep

LEMMA NextInputs ==
  ASSUME Typed, Locked, PlanInv, OutputInv, TerminalInv, InputInv, ManagerLocks,
         "UnFail" \notin Tasks, "Purge" \notin Tasks,
         "ReviewStatus" \in Tasks => AgreesInv /\ MaxFaults = 0, [Next]_vars
  PROVE  InputInv' /\ Keeps
<1> Monitor \in Procs /\ Monitor \notin Callers /\ Nobody # Monitor /\ Callers \subseteq Procs
  BY NamesAssumption DEF Procs
<1>i. \A p \in Callers : s'[p].pc = "idle" => Tracks(s[p])' /\ Reserves(s[p])'
  BY FundingPcs DEF Tracks, Tracked, Posting, Reserves
<1>0. ~PurgeStep
  <2>1. s[Monitor].pc \notin Purging
    BY DEF Locked, PurgeLocked
  <2> QED
    BY <2>1 DEF PurgeStep, purge, purgeCompleted, selectFailed, deleteFailedOutputs,
       markNotSpentBy, deleteFailedTxs, deleteFailedReqs, selectSpent, selectSpentThrows,
       forgetSpentBy, deleteSpentOutputs, deleteSpentTxs, deleteOrphans, At, M, Purging
<1>1. CASE MonitorStep \/ PostStep(Monitor)
  <2>1. TaskKeeps
    <3>1. CASE MonitorStep
      BY <3>1, SendInputs, ProofInputs, RestInputs DEF MonitorStep, InputInv
    <3>2. CASE PostStep(Monitor)
      <4>1. Keeps /\ Tracks(s[Monitor])' /\ s'[Monitor].pc \in Posting \cup {"idle"}
        BY <3>2, PostInputs DEF InputInv
      <4> QED
        BY <4>1, FundingPcs DEF TaskKeeps, Tracked, Cleaning
    <3> QED
      BY <1>1, <3>1, <3>2
  <2>2. \A p \in Callers : s'[p] = s[p]
    <3>1. CASE PostStep(Monitor)
      BY <3>1, PostLocked DEF PostingStep, Procs
    <3> QED
      BY <1>1, <3>1, MonitorOnly
  <2>3. ASSUME NEW p \in Callers PROVE Tracks(s[p])' /\ Reserves(s[p])'
    <3>1. CASE s[p].pc = "idle"
      BY <1>i, <2>2, <3>1
    <3>2. CASE s[p].pc # "idle"
      <4>1. UNCHANGED <<tx, req, spentBy>> /\ s'[p] = s[p]
        BY <1>1, <2>2, <3>2, MonitorQuiet, MonitorWaits
      <4> QED
        BY <4>1 DEF InputInv, Tracks, Reserves, OnItsWay
    <3> QED
      BY <3>1, <3>2
  <2> QED
    BY <2>1, <2>3 DEF InputInv, TaskKeeps, Procs
<1>2. CASE \E p \in Callers : CallerStep(p)
  <2> PICK p \in Callers : CallerStep(p)
    BY <1>2
  <2>1. CallKeeps(p)
    BY CallInputs DEF InputInv, TerminalInv
  <2>2. /\ \A q \in Callers \ {p} : s[q].pc = "idle" /\ s'[q] = s[q]
        /\ s'[Monitor] = s[Monitor]
    BY CallerAlone
  <2>3. s[Monitor].pc \notin UnderLock \cup Cleaning
    BY CallerRuns DEF TerminalInv, InputInv, Free, Locked, CallsLocked
  <2>4. Tracks(s[Monitor])'
    <3>1. s[Monitor].pc \in Tracked => s[Monitor].t \in Txs
      BY DEF Typed, HasTx, Untied, Purging, Listing, Tracked, Posting
    <3> QED
      BY <2>1, <2>2, <2>3, <3>1 DEF CallKeeps, Keeps, ReqsStay, InputInv, Tracks, UnderLock,
         Posting
  <2>5. \A q \in Callers : Tracks(s[q])' /\ Reserves(s[q])'
    BY <1>i, <2>1, <2>2 DEF CallKeeps
  <2> QED
    BY <2>1, <2>2, <2>3, <2>4, <2>5 DEF CallKeeps, InputInv, Procs, Cleaning
<1>3. CASE \E p \in Procs : Throws(p)
  <2> PICK p \in Procs : Throws(p)
    BY <1>3
  <2>1. UNCHANGED <<tx, req, spentBy, plan>> /\ s'[p] = Idle
        /\ \A q \in Procs \ {p} : s'[q] = s[q]
    BY DEF Throws, tables, Return, Typed, TypeOK
  <2>2. ASSUME NEW q \in Procs
        PROVE  Tracks(s[q])' /\ (q \in Callers => Reserves(s[q])')
    <3>1. CASE q = p
      <4>1. s'[q].pc = "idle"
        BY <2>1, <3>1, IdleTyped
      <4> QED
        BY <4>1, FundingPcs DEF Tracks, Tracked, Posting, Reserves
    <3>2. CASE q # p
      BY <2>1, <3>2 DEF InputInv, Tracks, Reserves, OnItsWay
    <3> QED
      BY <3>1, <3>2
  <2>3. /\ s'[Monitor].pc \in Cleaning => lock' = Monitor
        /\ s'[Monitor].pc \in Reviewing => "ReviewStatus" \in Tasks
    BY <2>1, FundingPcs DEF InputInv, Throws, Return, Release, Cleaning
  <2> QED
    BY <2>1, <2>2, <2>3, SameKeeps DEF InputInv, ReqsStay
<1>4. CASE (\E t \in Txs : Arrive(t) \/ Mine(t)) \/ UNCHANGED vars
  <2>1. UNCHANGED <<tx, req, spentBy, plan, s, lock>>
    BY <1>4 DEF Arrive, Mine, vars, tables
  <2> QED
    BY <2>1, SameKeeps DEF InputInv, Tracks, Reserves, OnItsWay, ReqsStay
<1> QED
  BY <1>0, <1>1, <1>2, <1>3, <1>4 DEF Next

(* From the moment createAction returns, and for as long as the action     *)
(* lives, its inputs are assigned to it and offered to nobody, whatever    *)
(* other calls, posts, retries, clean-ups and exceptions do; and one that  *)
(* was given up stays so.  The purge, which forgets whose an output is,    *)
(* and TaskUnFail are not installed, and where reviewStatus completes what *)
(* a failed notification left, there must be no such failure.              *)
THEOREM InputsAreKept ==
  ASSUME ManagerLocks, "UnFail" \notin Tasks, "Purge" \notin Tasks,
         "ReviewStatus" \in Tasks => MaxFaults = 0 /\ "internalizeAction" \notin Calls
  PROVE  Spec => InputsStayLocked
<1> DEFINE Reviewed == "ReviewStatus" \in Tasks => AgreesInv
           Inv == /\ Typed /\ Locked /\ PlanInv /\ OutputInv /\ TerminalInv
                  /\ InputInv /\ Reviewed
<1>1. Init => Inv
  BY InitTyped, InitLocked, InitPlan, InitOutput, InitTerminal, InitInputs, InitAgrees
<1>2. Inv /\ [Next]_vars => Inv' /\ StaysLocked
  <2> SUFFICES ASSUME Inv, [Next]_vars PROVE Inv' /\ StaysLocked
    OBVIOUS
  <2>1. Typed' /\ Locked' /\ PlanInv' /\ OutputInv' /\ TerminalInv'
    BY NextTyped, NextLocked, NextPlan, NextOutput, NextTerminal
  <2>2. Reviewed'
    BY NextAgrees
  <2>3. InputInv' /\ Keeps
    BY NextInputs
  <2>4. StaysLocked
    BY <2>1, <2>3, KeepsLocked DEF OutputInv, Tables
  <2> QED
    BY <2>1, <2>2, <2>3, <2>4
<1>3. StaysLocked =>
        [\A t \in Txs : Lives(t)' /\ (Held(t) \/ ~Lives(t)) /\ (Lives(t) \/ GivenUp(t))
                          => Held(t)']_vars
  BY DEF StaysLocked
<1> QED
  BY <1>1, <1>2, <1>3, PTL DEF Spec, InputsStayLocked

----------------------------------------------------------------------------
(* Who is on the network.  A transaction that failed got there only as the *)
(* parent of another, and one that was accepted has its inputs.  First,    *)
(* packages: what a BEEF takes to the network.                             *)

LEMMA PackageFacts ==
  ASSUME NEW t \in Txs
  PROVE  /\ t \in Package(t) /\ Package(t) \subseteq Txs
         /\ \A u \in Package(t) : Parents(u) \subseteq Package(t)
         /\ \A T \in SUBSET Txs :
              t \in T /\ (\A v \in T : Parents(v) \subseteq T) => Package(t) \subseteq T
  BY DEF Package, Parents

LEMMA PackageOf ==
  ASSUME NEW t \in Txs, NEW u \in Package(t)
  PROVE  Package(u) \subseteq Package(t)
<1> u \in Txs
  BY PackageFacts
<1> QED
  BY PackageFacts

(* Whoever is in a package without being its first is the parent of one.   *)
LEMMA PackageChild ==
  ASSUME NEW t \in Txs, NEW u \in Package(t), u # t
  PROVE  \E w \in Package(t) : u \in Parents(w)
<1> DEFINE T == Package(t) \ {u}
<1> SUFFICES ASSUME \A w \in Package(t) : u \notin Parents(w) PROVE FALSE
  OBVIOUS
<1>1. t \in T /\ T \in SUBSET Txs /\ \A v \in T : Parents(v) \subseteq T
  BY PackageFacts
<1>2. Package(t) \subseteq T
  BY <1>1, PackageFacts
<1> QED
  BY <1>2

LEMMA AcceptableOf ==
  ASSUME NEW t \in Txs, NEW u \in Package(t), Acceptable(t)
  PROVE  Acceptable(u)
<1>1. Package(u) \subseteq Package(t)
  BY PackageOf
<1> QED
  BY <1>1 DEF Acceptable

(* Rejected for ever: what the network knows does not change any more. *)
Rejected(t) == t \notin known /\ ~Acceptable(t)

LEMMA PackagesSame ==
  ASSUME UNCHANGED plan, NEW t \in Txs
  PROVE  Package(t)' = Package(t)
<1>1. \A u \in Txs : Parents(u)' = Parents(u)
  BY DEF Parents
<1>2. ASSUME NEW T \in SUBSET Txs
      PROVE  (\A v \in T : Parents(v)' \subseteq T) <=> (\A v \in T : Parents(v) \subseteq T)
  BY <1>1
<1> QED
  BY <1>2 DEF Package

LEMMA RejectedStays ==
  ASSUME UNCHANGED <<plan, origin>>, known \subseteq known', NEW t \in Txs, Rejected(t),
         \/ known' = known
         \/ \E u \in Txs : known' = known \cup Package(u) /\ Acceptable(u)
  PROVE  Rejected(t)'
<1>1. Package(t)' = Package(t)
  BY PackagesSame
<1>2. ~Acceptable(t)'
  BY <1>1 DEF Rejected, Acceptable, Conflict
<1>3. t \notin known'
  BY AcceptableOf DEF Rejected
<1> QED
  BY <1>2, <1>3 DEF Rejected

(* What postBeef answers, where a server that says nothing is not taken    *)
(* for an answer: a verdict against a transaction the network had not      *)
(* heard of is due to a conflict, or to a double spend with itself.        *)
Refused == {"doubleSpend", "invalidTx"}

LEMMA NewReplies ==
  ASSUME Failures \cap {"refused", "status"} = {}, NEW failures \in {Failures, {}},
         NEW reply \in Replies("new", failures), NEW provider \in PostProviders
  PROVE  TxResult(provider, reply) \in {"success", "serviceError"}
<1>1. reply \in {"accepted", "unreachable", "lost"}
  BY ServicesAssumption DEF Replies, ProviderFailure
<1>2. provider \in {"ARC", "Bitails", "WoC"}
  BY ServicesAssumption
<1> QED
  BY <1>1, <1>2 DEF TxResult, ARC, Bitails, WhatsOnChain, Conflicts

LEMMA KnownReplies ==
  ASSUME Failures \cap {"refused", "status"} = {}, NEW failures \in {Failures, {}},
         NEW reply \in Replies("known", failures), NEW provider \in PostProviders
  PROVE  TxResult(provider, reply) \in {"success", "serviceError", "doubleSpend"}
<1>1. reply \in {"accepted", "alreadyInMempool", "missingInputs", "unreachable"}
  BY ServicesAssumption DEF Replies, ProviderFailure
<1>2. provider \in {"ARC", "Bitails", "WoC"}
  BY ServicesAssumption
<1> QED
  BY <1>1, <1>2 DEF TxResult, ARC, Bitails, WhatsOnChain, Conflicts

LEMMA OneMore ==
  ASSUME NEW S, IsFiniteSet(S), NEW k \in Nat, Cardinality(S) <= k, NEW x
  PROVE  /\ IsFiniteSet(S \cup {x}) /\ Cardinality(S \cup {x}) \in Nat
         /\ Cardinality(S \cup {x}) <= k + 1
<1>1. IsFiniteSet(S \cup {x}) /\ Cardinality(S) \in Nat
  BY FS_AddElement, FS_CardinalityType
<1>2. Cardinality(S \cup {x}) \in {Cardinality(S), Cardinality(S) + 1}
  BY FS_AddElement
<1> QED
  BY <1>1, <1>2

LEMMA ResultsOf ==
  ASSUME Failures \cap {"refused", "status"} = {}, NEW failures \in {Failures, {}},
         NEW view \in {"new", "known", "conflict"}, NEW r \in PostBeefResults(view, failures)
  PROVE  /\ r.arrived => view # "conflict"
         /\ view = "known" => r.arrived
         /\ view # "conflict" => "statusError" \notin r.results
         /\ view # "conflict" /\ "doubleSpend" \in r.results => r.arrived
<1>0. PICK order \in Orders : \E replies \in UntilSuccess(view, order, failures) :
      r = [results |-> {TxResult(order[i], replies[i]) : i \in DOMAIN replies},
           arrived |-> Arrived(view, replies, Len(replies))]
  BY DEF PostBeefResults
<1>p. PICK replies \in UntilSuccess(view, order, failures) :
      r = [results |-> {TxResult(order[i], replies[i]) : i \in DOMAIN replies},
           arrived |-> Arrived(view, replies, Len(replies))]
  BY <1>0
<1> DEFINE Seen(i) == IF Arrived(view, replies, i - 1) THEN "known" ELSE view
           Result(i) == TxResult(order[i], replies[i])
<1>o. order \in [1..Cardinality(PostProviders) -> PostProviders]
  BY DEF Orders
<1>1. PICK n \in DOMAIN order :
        replies \in [1..n -> Replies("new", failures) \cup Replies("known", failures)
                               \cup Replies("conflict", failures)]
  BY DEF UntilSuccess
<1>n. n \in 1..3 /\ 1..n \subseteq DOMAIN order
  <2> DEFINE All == {"ARC"} \cup {"Bitails"} \cup {"WoC"}
  <2>1. IsFiniteSet(All) /\ Cardinality(All) \in Nat /\ Cardinality(All) <= 3
    <3> DEFINE Two == {"ARC"} \cup {"Bitails"}
    <3>1. IsFiniteSet({"ARC"}) /\ Cardinality({"ARC"}) = 1
      BY FS_Singleton
    <3>2. Cardinality({"ARC"}) <= 1 /\ 1 + 1 \in Nat /\ 1 \in Nat
      BY <3>1
    <3>3. IsFiniteSet(Two) /\ Cardinality(Two) <= 1 + 1
      BY <3>1, <3>2, OneMore, Zenon
    <3> HIDE DEF Two
    <3>4. IsFiniteSet(Two \cup {"WoC"}) /\ Cardinality(Two \cup {"WoC"}) \in Nat
          /\ Cardinality(Two \cup {"WoC"}) <= (1 + 1) + 1
      BY <3>2, <3>3, OneMore, Zenon
    <3>5. (1 + 1) + 1 = 3
      OBVIOUS
    <3> QED
      BY <3>4, <3>5 DEF Two
  <2>2. PostProviders \subseteq All
    BY ServicesAssumption
  <2> HIDE DEF All
  <2>3. Cardinality(PostProviders) \in Nat /\ Cardinality(PostProviders) <= 3
    BY <2>1, <2>2, FS_Subset, FS_CardinalityType
  <2> QED
    BY <1>o, <2>3
<1>2. \A i \in 1..n : replies[i] \in Replies(Seen(i), failures)
  BY <1>1 DEF UntilSuccess
<1>3. DOMAIN replies = 1..n /\ Len(replies) = n
  BY <1>1, <1>n
<1>4. /\ \A i \in 1..n : order[i] \in PostProviders
      /\ r.results = {Result(i) : i \in 1..n} /\ r.arrived = Arrived(view, replies, n)
  BY <1>o, <1>p, <1>n, <1>3
<1>5. ASSUME NEW i \in 1..n, view = "new", ~Arrived(view, replies, i - 1)
      PROVE  Result(i) \in {"success", "serviceError"}
  BY <1>2, <1>4, <1>5, NewReplies
<1>6. ASSUME NEW i \in 1..n, Arrived(view, replies, i - 1)
      PROVE  Result(i) \in {"success", "serviceError", "doubleSpend"}
  BY <1>2, <1>4, <1>6, KnownReplies
<1>7. ASSUME NEW i \in 1..n, Arrived(view, replies, i - 1) PROVE r.arrived
  <2>1. 1..(i - 1) \subseteq 1..n
    BY <1>n
  <2> QED
    BY <1>4, <1>7, <2>1 DEF Arrived
<1>8. view = "known" => \A i \in 1..n : Arrived(view, replies, i - 1)
  BY DEF Arrived
<1>9. ASSUME view = "conflict" PROVE ~r.arrived
  <2>1. {"accepted", "lost"} \cap Replies("conflict", failures) = {}
    BY ServicesAssumption DEF Replies, Conflicts, ProviderFailure
  <2>2. ASSUME NEW i \in 1..n, \A j \in 1..(i - 1) : replies[j] \notin {"accepted", "lost"}
        PROVE  replies[i] \notin {"accepted", "lost"}
    BY <1>2, <1>9, <2>1, <2>2 DEF Arrived
  <2>3. replies[1] \notin {"accepted", "lost"}
    BY <1>n, <2>2
  <2>4. n >= 2 => replies[2] \notin {"accepted", "lost"}
    BY <1>n, <2>2, <2>3
  <2>5. n >= 3 => replies[3] \notin {"accepted", "lost"}
    BY <1>n, <2>2, <2>3, <2>4
  <2>6. \A i \in 1..n : replies[i] \notin {"accepted", "lost"}
    BY <1>n, <2>3, <2>4, <2>5
  <2> QED
    BY <1>4, <1>9, <2>6 DEF Arrived
<1>10. view = "known" => r.arrived
  BY <1>4 DEF Arrived
<1>11. ASSUME view # "conflict", NEW i \in 1..n
       PROVE  /\ Result(i) # "statusError"
              /\ Result(i) = "doubleSpend" => r.arrived
  <2>1. CASE Arrived(view, replies, i - 1)
    BY <1>6, <1>7, <2>1
  <2>2. CASE ~Arrived(view, replies, i - 1)
    BY <1>5, <1>8, <1>11, <2>2
  <2> QED
    BY <2>1, <2>2
<1> HIDE DEF Result, Seen
<1> QED
  BY <1>4, <1>9, <1>10, <1>11

LEMMA AnswerOf ==
  ASSUME Failures \cap {"refused", "status"} = {}, NEW t \in Txs, NEW failing \in BOOLEAN,
         NEW answer \in PostBeefAnswers[View(t)][failing]
  PROVE  /\ answer.arrived => t \in known \/ Acceptable(t)
         /\ answer.verdict \in Refused =>
              \/ answer.verdict = "doubleSpend" /\ (t \in known \/ answer.arrived)
              \/ Rejected(t) /\ ~answer.arrived
<1>1. View(t) \in {"new", "known", "conflict"}
  BY DEF View
<1>2. PICK r \in PostBeefResults(View(t), IF failing THEN Failures ELSE {}) :
        answer = [verdict |-> Aggregate(r.results), arrived |-> r.arrived]
  BY <1>1 DEF PostBeefAnswers
<1>3. /\ r.arrived => View(t) # "conflict"
      /\ View(t) # "conflict" => "statusError" \notin r.results
      /\ View(t) # "conflict" /\ "doubleSpend" \in r.results => r.arrived
  BY <1>1, ResultsOf
<1>4. /\ Aggregate(r.results) = "doubleSpend" => "doubleSpend" \in r.results
      /\ Aggregate(r.results) = "invalidTx" => "statusError" \in r.results
  BY DEF Aggregate
<1>5. View(t) = "conflict" <=> Rejected(t)
  BY DEF View, Rejected
<1> QED
  BY <1>2, <1>3, <1>4, <1>5 DEF Refused, Rejected

----------------------------------------------------------------------------
(* The invariant.  What was given up, and is on its way none the less, is  *)
(* rejected by the network for ever.                                       *)
Gone == {"failed", "unfail"}

(* The statuses of a req that may still be sent, or was and is not done.   *)
Afloat == {"unprocessed", "unsent", "nosend", "sending", "unmined"}

(* If it is on the network, another transaction took it there. *)
Carried(t) == t \in known => \E u \in known : t \in Parents(u)

(* The monitor has a copy of its req.                                      *)
Watched(t) == s[Monitor].t = t /\ s[Monitor].pc # "failAbandoned"

OnWay(t) == req[t].status \in Afloat \/ Watched(t)

(* The call with the locals r sends it, or has just committed it.          *)
Sends(r, t) ==
  /\ r.t = t
  /\ \/ r.pc \in {"bump"} \cup Posting
     \/ r.pc = "share" /\ tx[t].status = "unprocessed"

Sent(t) == \E p \in Callers : Sends(s[p], t)

(* The rows of a transaction that failed; reviewStatus fails, by its req,  *)
(* one that the network has.                                               *)
Buried(t) ==
  /\ OnWay(t) => Rejected(t)
  /\ "ReviewStatus" \notin Tasks => Carried(t) /\ origin[t] # "received"

(* Of one that is not signed: nobody but this wallet has heard of it.      *)
Unseen(t) == Own(t) /\ t \notin known /\ req[t].status = "none" /\ ~Watched(t)

(* Of one that was committed and not sent yet.                             *)
Early(t) ==
  /\ Own(t) /\ ~tx[t].proof /\ ~Watched(t)
  /\ \/ Sent(t)
     \/ tx[t].status = "nosend" /\ Carried(t) /\ req[t].status \in {"none", "nosend"}

NetRow(t) ==
  /\ tx[t].status \in Gone => Buried(t)
  /\ tx[t].status = "unsigned" => Unseen(t)
  /\ tx[t].status \in {"nosend", "unprocessed"} => Early(t)

(* What the network knows was planned, with all its parents; and a parent  *)
(* of this wallet has been committed.                                      *)
KnownInv ==
  /\ mined \subseteq known /\ proven \subseteq known
  /\ \A t \in known : (Own(t) => plan[t].ready) /\ Parents(t) \subseteq known
  /\ \A t \in Txs : /\ ~plan[t].ready => plan[t].inputs = {}
                    /\ \A v \in Parents(t) : Own(v) => Committed(v)

(* The locals r of a caller: createAction works on an unsigned row, and a  *)
(* req that is being sent stays ready for that.                            *)
CallNet(r) ==
  /\ r.pc \in Funding \cup {"commit"} => tx[r.t].status = "unsigned"
  /\ r.pc \in {"bump", "mergeBeef", "postBeef", "transferNotes", "refresh", "updateReq"} =>
       req[r.t].status \in ReadyToSend
  /\ r.pc \in {"bump", "mergeBeef", "postBeef", "transferNotes"} =>
       r.copy.status \in ReadyToSend
  /\ r.pc = "share" /\ tx[r.t].status = "unprocessed" =>
       r.t \notin proven /\ req[r.t].status \in ReadyToSend
  /\ r.pc = "insertProven" => r.t \in known
  /\ r.pc = "getReq" => tx[r.t].status = "unproven"
  /\ r.pc = "unfailListed" => \A t \in r.held \cap Txs : tx[t].status \in Gone

(* The locals r of whoever posts: a verdict against the transaction is     *)
(* right, or is about to be found wrong.                                   *)
Judged(r) ==
  /\ r.pc \in {"transferNotes", "refresh", "updateReq"} /\ r.verdict \in Refused =>
       (r.verdict = "doubleSpend" /\ r.t \in known) \/ Rejected(r.t)
  /\ r.pc = "updateTx" /\ (r.verdict \in Refused \/ tx[r.t].status \in Gone) =>
       Rejected(r.t)

TaskNet ==
  /\ s[Monitor].pc \in {"saveCopy", "refreshCopy", "newProvenTx", "insertProvenTx"} =>
       s[Monitor].t \in known
  /\ s[Monitor].pc = "failAbandoned" =>
       tx[s[Monitor].t].status = "unsigned" /\ lock = Monitor
  /\ s[Monitor].pc \in Reviewing => lock = Monitor
  /\ s[Monitor].pc \in Purging \cup Reviewing => s[Monitor].t = NoTx

NetRows == \A t \in Txs : NetRow(t)

NetInv ==
  /\ KnownInv /\ NetRows /\ TaskNet
  /\ \A p \in Callers : CallNet(s[p])
  /\ \A p \in Procs : Judged(s[p])

(* The invariants it stands on. *)
Ground == Typed /\ Locked /\ PlanInv /\ OutputInv /\ TerminalInv /\ ProofInv

LEMMA InitNet == Init => NetInv
<1> SUFFICES ASSUME Init PROVE NetInv
  OBVIOUS
<1>1. \A p \in Procs : s[p] = Idle
  BY DEF Init
<1>2. Monitor \in Procs /\ Callers \subseteq Procs
  BY DEF Procs
<1>3. "idle" \notin Funding \cup Posting \cup Purging \cup Reviewing
  BY DEF Funding, Posting, Purging, Reviewing
<1>4. \A t \in Txs : tx[t].status = "none"
  BY DEF Init
<1>5. KnownInv
  BY DEF Init, KnownInv, Parents
<1>6. NetRows
  BY <1>4 DEF NetRows, NetRow, Gone
<1>7. \A p \in Procs : CallNet(s[p]) /\ Judged(s[p])
  BY <1>1, <1>3, IdleTyped DEF CallNet, Judged
<1>8. TaskNet
  BY <1>1, <1>2, <1>3, IdleTyped DEF TaskNet
<1> QED
  BY <1>2, <1>5, <1>6, <1>7, <1>8 DEF NetInv

(* What a transaction becomes that was given up, or purged: nothing, or    *)
(* one the network rejects.                                                *)
Revival ==
  \A t \in Txs : plan[t].ready /\ tx[t].status \in Gone \cup {"none"} =>
    \/ tx'[t].status \in Gone \cup {"none"} \/ Rejected(t)
    \/ s[Monitor].pc = "review3" /\ MissedProof(t)

StaysRejected == \A t \in Txs : plan[t].ready /\ Rejected(t) => Rejected(t)'

(* What a step of any process has to do for the rows and the network. *)
KeepsNet == KnownInv' /\ NetRows' /\ Revival /\ StaysRejected

CallKeepsNet(p) == KeepsNet /\ CallNet(s[p])' /\ Judged(s[p])'

(* A step that leaves the network and the plans alone. *)
Offline ==
  /\ UNCHANGED <<plan, known, origin>>
  /\ mined' \subseteq known /\ proven' \subseteq known

LEMMA OfflineKnown ==
  ASSUME KnownInv, Offline, \A t \in Txs : Committed(t) => Committed(t)'
  PROVE  /\ KnownInv' /\ StaysRejected
         /\ \A t \in Txs : Rejected(t) => Rejected(t)'
         /\ \A t \in Txs : Carried(t) => Carried(t)'
<1>1. \A t \in Txs : Rejected(t) => Rejected(t)'
  BY RejectedStays DEF Offline
<1>2. \A t \in Txs : Parents(t)' = Parents(t) /\ (Own(t)' <=> Own(t))
  BY DEF Offline, Parents, Own
<1>3. \A t \in Txs : Carried(t) => Carried(t)'
  BY DEF Carried, Offline, Parents
<1>4. KnownInv'
  BY <1>2 DEF KnownInv, Offline, Parents, Own
<1> QED
  BY <1>1, <1>3, <1>4 DEF StaysRejected

(* A row nobody writes keeps what is said about it. *)
LEMMA SameRow ==
  ASSUME Offline, NEW t \in Txs, NetRow(t), tx'[t] = tx[t], req'[t].status = req[t].status,
         Rejected(t) => Rejected(t)', Carried(t) => Carried(t)',
         Watched(t)' => Watched(t), Sent(t) => Sent(t)'
  PROVE  NetRow(t)'
<1>1. Own(t)' <=> Own(t)
  BY DEF Own, Offline
<1>2. Buried(t) => Buried(t)'
  BY DEF Buried, OnWay, Offline
<1>3. Unseen(t) => Unseen(t)'
  BY <1>1 DEF Unseen, Offline
<1>4. Early(t) => Early(t)'
  BY <1>1 DEF Early
<1> QED
  BY <1>2, <1>3, <1>4 DEF NetRow

(* A step that writes the rows of one action at most. *)
LEMMA OneRow ==
  ASSUME KnownInv, NetRows, Offline, NEW t,
         \A u \in Txs \ {t} :
           /\ tx'[u] = tx[u] /\ req'[u] = req[u]
           /\ Watched(u)' => Watched(u)
           /\ Sent(u) => Sent(u)',
         t \in Txs =>
           /\ Committed(t) => Committed(t)'
           /\ plan[t].ready /\ tx[t].status \in Gone \cup {"none"} =>
                tx'[t].status \in Gone \cup {"none"} \/ Rejected(t),
         t \in Txs /\ (Rejected(t) => Rejected(t)') /\ (Carried(t) => Carried(t)') =>
           NetRow(t)'
  PROVE  KeepsNet
<1>1. \A u \in Txs : Committed(u) => Committed(u)'
  BY DEF Committed, Offline
<1>2. /\ KnownInv' /\ StaysRejected
      /\ \A u \in Txs : (Rejected(u) => Rejected(u)') /\ (Carried(u) => Carried(u)')
  BY <1>1, OfflineKnown
<1>3. NetRows'
  BY <1>2, SameRow DEF NetRows
<1>4. Revival
  BY DEF Revival
<1> QED
  BY <1>2, <1>3, <1>4 DEF KeepsNet

LEMMA NoRow ==
  ASSUME KnownInv, NetRows, Offline, UNCHANGED <<tx, req>>,
         \A u \in Txs : (Watched(u)' => Watched(u)) /\ (Sent(u) => Sent(u)')
  PROVE  KeepsNet
<1>1. \A u \in Txs : Committed(u) => Committed(u)'
  BY DEF Committed, Offline
<1>2. /\ KnownInv' /\ StaysRejected
      /\ \A u \in Txs : (Rejected(u) => Rejected(u)') /\ (Carried(u) => Carried(u)')
  BY <1>1, OfflineKnown
<1>3. NetRows'
  BY <1>2, SameRow DEF NetRows
<1>4. Revival
  BY DEF Revival
<1> QED
  BY <1>2, <1>3, <1>4 DEF KeepsNet

----------------------------------------------------------------------------
(* Callers *)

(* A call is alone: nobody else sends, and the monitor waits.              *)
LEMMA CallAlone ==
  ASSUME Ground, TaskNet, ManagerLocks, NEW p \in Callers, CallerStep(p)
  PROVE  /\ \A q \in Procs \ {p} : s'[q] = s[q]
         /\ \A q \in Callers \ {p} : s[q].pc = "idle"
         /\ \A u \in Txs : Watched(u)' <=> Watched(u)
         /\ \A u \in Txs : Sent(u) <=> Sends(s[p], u)
         /\ s[Monitor].pc \notin UnderLock \cup Reviewing \cup Purging \cup {"failAbandoned"}
<1> p \in Procs /\ Monitor \in Procs /\ Callers \subseteq Procs /\ Procs = Callers \cup {Monitor}
  BY DEF Procs
<1>1. /\ \A q \in Callers \ {p} : s[q].pc = "idle" /\ s'[q] = s[q]
      /\ s'[Monitor] = s[Monitor]
  BY CallerAlone DEF Ground
<1>2. \A q \in Procs \ {p} : s'[q] = s[q]
  BY <1>1
<1>3. \A u \in Txs : Watched(u)' <=> Watched(u)
  BY <1>1 DEF Watched
<1>4. \A q \in Callers \ {p} : \A u \in Txs : ~Sends(s[q], u)
  BY <1>1 DEF Sends, Posting
<1>5. s[Monitor].pc \notin UnderLock \cup Reviewing \cup Purging \cup {"failAbandoned"}
  <2>1. lock # Monitor
    BY CallerRuns, NamesAssumption DEF Ground, Free, Locked, CallsLocked
  <2> QED
    BY <2>1 DEF Ground, TaskNet, TerminalInv, Locked, PurgeLocked
<1> QED
  BY <1>1, <1>2, <1>3, <1>4, <1>5 DEF Sent

(* What is left of a call that ended, or that is at a step nothing is said *)
(* about.                                                                  *)
CarefulPcs == Funding \cup Posting \cup {"commit", "share", "bump", "insertProven", "getReq",
                                         "unfailListed"}

LEMMA CarelessCall ==
  ASSUME NEW r, r.pc \notin CarefulPcs
  PROVE  CallNet(r) /\ Judged(r) /\ \A t : ~Sends(r, t)
  BY DEF CarefulPcs, CallNet, Judged, Sends, Posting

LEMMA CarelessPcs ==
  /\ Idle.pc \notin CarefulPcs
  /\ {"insertCompleted", "insertUnproven", "storeOutput", "mergeOutput", "abortListed",
      "filterListed", "releaseListed"} \cap CarefulPcs = {}
  BY IdleTyped DEF CarefulPcs, Funding, Posting

LEMMA CallEnds ==
  ASSUME NEW p, KeepsNet, s'[p].pc \notin CarefulPcs
  PROVE  CallKeepsNet(p)
<1> PICK r : r = s'[p]
  OBVIOUS
<1>1. CallNet(r)' /\ Judged(r)'
  BY DEF CarefulPcs, CallNet, Judged, Posting
<1> QED
  BY <1>1 DEF CallKeepsNet, CallNet, Judged

(* A call that sends nothing, and writes no row. *)
LEMMA CallReads ==
  ASSUME Ground, NetInv, NEW p \in Callers, Offline, UNCHANGED <<tx, req>>,
         \A q \in Procs \ {p} : s'[q] = s[q],
         \A u \in Txs : Sends(s[p], u) => Sends(s[p], u)'
  PROVE  KeepsNet
<1> p # Monitor /\ Monitor \in Procs /\ Callers \subseteq Procs
  BY NamesAssumption DEF Procs
<1>1. ASSUME NEW u \in Txs PROVE (Watched(u)' => Watched(u)) /\ (Sent(u) => Sent(u)')
  <2>1. Watched(u)' <=> Watched(u)
    BY DEF Watched
  <2>2. ASSUME NEW q \in Callers, Sends(s[q], u) PROVE Sends(s[q], u)'
    BY <2>2 DEF Sends
  <2> QED
    BY <2>1, <2>2 DEF Sent
<1> QED
  BY <1>1, NoRow DEF NetInv

(* A call that writes the rows of the action it works on. *)
LEMMA CallWrites ==
  ASSUME Ground, NetInv, NEW p \in Callers, Offline, NEW t \in Txs,
         \A q \in Procs \ {p} : s'[q] = s[q],
         \A u \in Txs \ {t} : tx'[u] = tx[u] /\ req'[u] = req[u] /\ ~Sends(s[p], u),
         Committed(t) => Committed(t)',
         plan[t].ready /\ tx[t].status \in Gone \cup {"none"} =>
           tx'[t].status \in Gone \cup {"none"} \/ Rejected(t),
         (Rejected(t) => Rejected(t)') /\ (Carried(t) => Carried(t)') => NetRow(t)'
  PROVE  KeepsNet
<1> p # Monitor /\ Monitor \in Procs /\ Callers \subseteq Procs
  BY NamesAssumption DEF Procs
<1>1. ASSUME NEW u \in Txs \ {t} PROVE (Watched(u)' => Watched(u)) /\ (Sent(u) => Sent(u)')
  <2>1. Watched(u)' <=> Watched(u)
    BY DEF Watched
  <2>2. ASSUME NEW q \in Callers, Sends(s[q], u) PROVE Sends(s[q], u)'
    <3>1. q # p /\ s'[q] = s[q]
      BY <2>2
    <3> QED
      BY <2>2, <3>1 DEF Sends
  <2> QED
    BY <2>1, <2>2 DEF Sent
<1> QED
  BY <1>1, OneRow DEF NetInv

(* createAction returns: the plan is new, but nobody spends an output of   *)
(* the action yet, so that no other package is another one for it.         *)
LEMMA PlanReturns ==
  ASSUME Typed, PlanInv, NetInv, OutputInv, NEW p \in Callers, createActionReturns(p)
  PROVE  KeepsNet /\ s'[p] = Idle
<1> p \in Procs /\ Monitor \in Procs /\ p # Monitor /\ Callers \subseteq Procs
  BY NamesAssumption DEF Procs
<1> s[p] \in Session /\ KnownInv /\ NetRows
  BY DEF Typed, TypeOK, NetInv
<1> PICK z : z = s[p].t
  OBVIOUS
<1>0. /\ s[p].pc = "lockFixed" /\ s'[p] = Idle /\ \A q \in Procs \ {p} : s'[q] = s[q]
      /\ UNCHANGED <<tx, req, proven, known, mined, origin>>
  BY DEF createActionReturns, At, Return, tables, network, Typed, TypeOK
<1>f. s[p].pc \in Funding
  BY <1>0 DEF Funding
<1>1. z \in Txs /\ Own(z) /\ ~plan[z].ready /\ tx[z].status = "unsigned"
  BY <1>0, <1>f, TiedPcs DEF Typed, HasTx, PlanInv, FundersAlone, Funder, Unplanned, NetInv, CallNet
<1>2. z \notin known /\ ~Committed(z) /\ Unseen(z)
  BY <1>1 DEF KnownInv, Committed, NetRows, NetRow
<1>p. /\ plan'[z] = [ready |-> TRUE, mode |-> s[p].mode, inputs |-> s[p].held]
      /\ \A t \in Txs \ {z} : plan'[t] = plan[t]
  BY <1>1 DEF createActionReturns, Typed, TypeOK
<1>h. \A v \in s[p].held \cap Txs : Own(v) => Committed(v)
  BY <1>f DEF OutputInv, Call, Picked
<1>c. \A t \in Txs : Committed(t) => Committed(t)'
  BY <1>0, <1>1, <1>p DEF Committed
<1>3. \A t \in Txs \ {z} : Parents(t)' = Parents(t)
  BY <1>p DEF Parents
<1>4. KnownInv'
  <2>1. \A t \in known' : (Own(t)' => plan'[t].ready) /\ Parents(t)' \subseteq known'
    BY <1>0, <1>2, <1>3, <1>p DEF KnownInv, Own, Typed, TypeOK
  <2>2. ASSUME NEW t \in Txs PROVE \A v \in Parents(t)' : Own(v)' => Committed(v)'
    <3>1. CASE t = z
      BY <1>0, <1>h, <1>c, <1>p, <3>1 DEF Parents, Own
    <3>2. CASE t # z
      BY <1>0, <1>c, <1>3, <3>2 DEF KnownInv, Own, Parents
    <3> QED
      BY <3>1, <3>2
  <2>3. \A t \in Txs : ~plan'[t].ready => plan'[t].inputs = {}
    BY <1>p DEF KnownInv
  <2> QED
    BY <1>0, <2>1, <2>2, <2>3 DEF KnownInv
<1>5. ASSUME NEW t \in Txs \ {z}
      PROVE  /\ Rejected(t) <=> Rejected(t)'
             /\ Carried(t) => Carried(t)'
  <2>1. z \notin Package(t)
    <3> SUFFICES ASSUME z \in Package(t) PROVE FALSE
      OBVIOUS
    <3>1. PICK w \in Package(t) : z \in Parents(w)
      BY PackageChild
    <3>2. w \in Txs
      BY PackageFacts
    <3> QED
      BY <1>1, <1>2, <3>1, <3>2 DEF KnownInv
  <2>2. /\ t \in Package(t) /\ Package(t) \subseteq Txs
        /\ \A u \in Package(t) : Parents(u) \subseteq Package(t)
    BY PackageFacts
  <2>3. Package(t)' \subseteq Package(t)
    <3>1. \A u \in Package(t) : Parents(u)' \subseteq Package(t)
      BY <1>3, <2>1, <2>2
    <3> QED
      BY <2>2, <3>1 DEF Package
  <2>4. ASSUME NEW T \in SUBSET Txs, t \in T, \A v \in T : Parents(v)' \subseteq T
        PROVE  Package(t) \subseteq T
    <3> DEFINE U == T \cap Package(t)
    <3>1. t \in U /\ U \in SUBSET Txs /\ \A v \in U : Parents(v) \subseteq U
      BY <1>3, <2>1, <2>2, <2>4
    <3>2. Package(t) \subseteq U
      BY <3>1, PackageFacts
    <3> QED
      BY <3>2
  <2>5. Package(t)' = Package(t)
    BY <2>2, <2>3, <2>4 DEF Package
  <2>6. \A u \in Package(t), v \in known \cup Package(t) : Conflict(u, v)' <=> Conflict(u, v)
    BY <1>2, <1>p, <2>1, <2>2 DEF Conflict, Typed, TypeOK
  <2>7. Acceptable(t)' <=> Acceptable(t)
    BY <1>0, <2>5, <2>6 DEF Acceptable
  <2>8. Carried(t) => Carried(t)'
    BY <1>0, <1>2, <1>3 DEF Carried, Typed, TypeOK
  <2> QED
    BY <1>0, <2>7, <2>8 DEF Rejected
<1>6. ASSUME NEW t \in Txs PROVE (Watched(t)' <=> Watched(t)) /\ (Sent(t) => Sent(t)')
  <2>1. Watched(t)' <=> Watched(t)
    BY <1>0 DEF Watched
  <2>2. ASSUME NEW q \in Callers, Sends(s[q], t) PROVE Sends(s[q], t)'
    <3>1. q # p
      BY <1>0, <2>2 DEF Sends, Posting
    <3> QED
      BY <1>0, <2>2, <3>1 DEF Sends
  <2> QED
    BY <2>1, <2>2 DEF Sent
<1>7. NetRows'
  <2> SUFFICES ASSUME NEW t \in Txs PROVE NetRow(t)'
    BY DEF NetRows
  <2>1. CASE t = z
    <3>1. Unseen(z)'
      BY <1>0, <1>2, <1>6, <2>1 DEF Unseen, Own
    <3> QED
      BY <1>0, <1>1, <2>1, <3>1 DEF NetRow, Gone
  <2>2. CASE t # z
    <3>1. (Rejected(t) => Rejected(t)') /\ (Carried(t) => Carried(t)') /\ NetRow(t)
      BY <1>5, <2>2 DEF NetRows
    <3>2. Buried(t) => Buried(t)'
      BY <1>0, <1>6, <3>1 DEF Buried, OnWay
    <3>3. Unseen(t) => Unseen(t)'
      BY <1>0, <1>6 DEF Unseen, Own
    <3>4. Early(t) => Early(t)'
      BY <1>0, <1>6, <3>1 DEF Early, Own
    <3> QED
      BY <1>0, <3>1, <3>2, <3>3, <3>4 DEF NetRow
  <2> QED
    BY <2>1, <2>2
<1>8. Revival /\ StaysRejected
  BY <1>0, <1>1, <1>5 DEF Revival, StaysRejected
<1> QED
  BY <1>0, <1>4, <1>7, <1>8 DEF KeepsNet

(* The other steps of createAction once there is a row. *)
LEMMA CreateMoves ==
  ASSUME Typed, NEW p \in Callers, CreateActionStep(p),
         ~\E t \in Txs : createNewTxRecord(p, t)
  PROVE  /\ s[p].pc \in Funding
         /\ \A q \in Procs \ {p} : s'[q] = s[q]
         /\ UNCHANGED <<tx, req, proven, network>>
         /\ UNCHANGED plan \/ createActionReturns(p)
         /\ s'[p] = Idle \/ (s'[p].pc \in Funding /\ s'[p].t = s[p].t)
<1> p \in Procs /\ s[p] \in Session
  BY DEF Procs, Typed, TypeOK
<1>p. {"fund", "release", "insertOutputs", "mergeChangeBeefs", "lockFixed"} = Funding
  BY DEF Funding
<1>1. UNCHANGED <<tx, req, proven, network>> /\ (UNCHANGED plan \/ createActionReturns(p))
  BY DEF CreateActionStep, allocateNoSendChange, allocateChangeInput, createNewInput,
     startRelease, releaseChangeInput, released, funded, createNewOutputs,
     mergeAllocatedChangeBeefs, createNewInputThrows, createActionReturns, tables
<1>2. s[p].pc \in Funding
  BY DEF CreateActionStep, allocateNoSendChange, allocateChangeInput, createNewInput,
     startRelease, releaseChangeInput, released, funded, createNewOutputs,
     mergeAllocatedChangeBeefs, createNewInputThrows, createActionReturns, At, Funding
<1>3. \A q \in Procs \ {p} : s'[q] = s[q]
  <2>1. CallStep(p)
    BY CreateLocked
  <2> QED
    BY <2>1 DEF CallStep
<1>4. CASE Return(p)
  BY <1>1, <1>2, <1>3, <1>4 DEF Return, Typed, TypeOK
<1>5. CASE \E pc \in Funding : Goto(p, pc)
  BY <1>1, <1>2, <1>3, <1>5 DEF Goto, Typed, TypeOK, Session
<1>6. CASE allocateNoSendChange(p) \/ allocateChangeInput(p) \/ createNewInput(p)
           \/ startRelease(p) \/ releaseChangeInput(p)
  <2>1. PICK again, held, nsc :
          \/ s' = [s EXCEPT ![p].nsc = nsc, ![p].held = held]
          \/ s' = [s EXCEPT ![p].held = held]
          \/ s' = [s EXCEPT ![p].pc = "release", ![p].again = again]
          \/ s' = [s EXCEPT ![p].held = held, ![p].nsc = nsc]
    BY <1>6 DEF allocateNoSendChange, allocateChangeInput, createNewInput,
       startRelease, releaseChangeInput
  <2>2. s'[p].pc \in Funding /\ s'[p].t = s[p].t
    BY <1>2, <1>p, <2>1 DEF Typed, TypeOK, Session
  <2> QED
    BY <1>1, <1>2, <1>3, <2>2
<1> QED
  BY <1>p, <1>4, <1>5, <1>6
  DEF CreateActionStep, released, funded, createNewOutputs, mergeAllocatedChangeBeefs,
      createNewInputThrows, createActionReturns

LEMMA CreateNet ==
  ASSUME Ground, NetInv, NEW p \in Callers, CreateActionStep(p)
  PROVE  CallKeepsNet(p)
<1> /\ p \in Procs /\ Monitor \in Procs /\ p # Monitor /\ Typed /\ PlanInv /\ OutputInv
    /\ s[p] \in Session /\ KnownInv /\ CallNet(s[p])
  BY NamesAssumption DEF Procs, Ground, Typed, TypeOK, NetInv
<1>f. Funding \cap (Posting \cup {"share", "bump", "idle"}) = {}
  BY DEF Funding, Posting
<1>s. s[p].pc \in {"idle"} \cup Funding => \A u : ~Sends(s[p], u)
  BY <1>f DEF Sends, Posting
<1>1. CASE \E t \in Txs : createNewTxRecord(p, t)
  <2> PICK t \in Txs : createNewTxRecord(p, t)
    BY <1>1
  <2>1. /\ s[p].pc = "idle" /\ Own(t) /\ tx[t].status = "none" /\ ~plan[t].ready
        /\ tx'[t].status = "unsigned" /\ \A u \in Txs \ {t} : tx'[u] = tx[u]
        /\ UNCHANGED <<req, plan, known, mined, origin, proven>>
    BY DEF createNewTxRecord, At, network, Typed, TypeOK, TxRow
  <2>2. s'[p].pc = "fund" /\ s'[p].t = t /\ \A q \in Procs \ {p} : s'[q] = s[q]
    BY DEF createNewTxRecord, Typed, TypeOK, Idle
  <2>3. Unknown(t)
    BY <2>1 DEF PlanInv, PlansFirst, Unplanned
  <2>4. ~Watched(t)
    <3>1. s[Monitor].t = t => s[Monitor].pc \in Funding \cup {"failAbandoned"}
      BY <2>3 DEF Unknown
    <3>2. s[Monitor].pc \notin Funding
      BY NamesAssumption DEF PlanInv, FundersAlone, Funder
    <3> QED
      BY <3>1, <3>2 DEF Watched
  <2>5. Unseen(t)'
    BY <2>1, <2>2, <2>3, <2>4 DEF Unseen, Unknown, Watched, Own, KnownInv
  <2>6. NetRow(t)'
    BY <2>1, <2>5 DEF NetRow, Gone
  <2>7. Offline
    BY <2>1 DEF Offline, KnownInv
  <2>8. KeepsNet
    BY <1>s, <2>1, <2>2, <2>6, <2>7, CallWrites DEF Committed
  <2>9. CallNet(s[p])' /\ Judged(s[p])'
    BY <2>1, <2>2, <1>f DEF CallNet, Judged
  <2> QED
    BY <2>8, <2>9 DEF CallKeepsNet
<1>2. CASE ~\E t \in Txs : createNewTxRecord(p, t)
  <2>1. CASE createActionReturns(p)
    BY <2>1, PlanReturns, CallEnds, CarelessPcs
  <2>2. CASE ~createActionReturns(p)
    <3>1. /\ s[p].pc \in Funding
          /\ \A q \in Procs \ {p} : s'[q] = s[q]
          /\ UNCHANGED <<tx, req, proven, known, mined, origin, plan>>
          /\ s'[p] = Idle \/ (s'[p].pc \in Funding /\ s'[p].t = s[p].t)
      BY <1>2, <2>2, CreateMoves DEF network
    <3>2. Offline
      BY <3>1 DEF Offline, KnownInv
    <3>3. KeepsNet
      BY <1>s, <3>1, <3>2, CallReads
    <3>4. CASE s'[p] = Idle
      BY <3>3, <3>4, CallEnds, CarelessPcs
    <3>5. CASE s'[p].pc \in Funding /\ s'[p].t = s[p].t
      <4>1. CallNet(s[p])' /\ Judged(s[p])'
        BY <3>1, <3>5, <1>f DEF CallNet, Judged, Posting, Funding
      <4> QED
        BY <3>3, <4>1 DEF CallKeepsNet
    <3> QED
      BY <3>1, <3>4, <3>5
  <2> QED
    BY <2>1, <2>2
<1> QED
  BY <1>1, <1>2

----------------------------------------------------------------------------
(* The network *)

LEMMA ReceivedAccepted ==
  ASSUME Ground, NetInv, NEW t \in Txs, origin[t] = "received"
  PROVE  Package(t) = {t} /\ Acceptable(t)
<1>1. plan[t].inputs = {}
  BY DEF NetInv, KnownInv, Ground, OutputInv, Tables, PlansCommitted, Own
<1>2. Package(t) = {t}
  <2>1. {t} \in SUBSET Txs /\ \A v \in {t} : Parents(v) \subseteq {t}
    BY <1>1 DEF Parents
  <2> QED
    BY <2>1, PackageFacts
<1>3. Acceptable(t)
  BY <1>1, <1>2 DEF Acceptable, Conflict
<1> QED
  BY <1>2, <1>3

(* A package arrives: of an action that is sent, or of a received one.     *)
LEMMA NetGrows ==
  ASSUME Ground, NetInv, NEW t \in Txs, t \in known \/ Acceptable(t),
         known' = known \cup Package(t),
         UNCHANGED <<tx, req, proven, plan, mined, origin>>,
         \A u \in Txs : (Watched(u)' => Watched(u)) /\ (Sent(u) => Sent(u)'),
         Own(t) => plan[t].ready,
         \/ OnWay(t) /\ (Sent(t)' \/ Watched(t))
         \/ origin[t] = "received"
  PROVE  KeepsNet
<1> KnownInv /\ NetRows
  BY DEF NetInv
<1>p. /\ t \in Package(t) /\ Package(t) \subseteq Txs
      /\ \A u \in Package(t) : Parents(u) \subseteq Package(t)
  BY PackageFacts
<1>k. known \subseteq Txs
  BY DEF Ground, Typed, TypeOK
<1>1. known' = known \/ Acceptable(t)
  <2>1. t \in known => Package(t) \subseteq known
    BY <1>k, PackageFacts DEF KnownInv
  <2> QED
    BY <2>1
<1>2. ASSUME NEW u \in Txs, Rejected(u) PROVE Rejected(u)'
  BY <1>1, <1>2, RejectedStays
<1>c. ASSUME NEW u \in Package(t), u # t
      PROVE  (\E w \in known' : u \in Parents(w)) /\ (Own(u) => Committed(u))
  <2>1. PICK w \in Package(t) : u \in Parents(w)
    BY <1>c, PackageChild
  <2> QED
    BY <1>p, <2>1 DEF KnownInv
<1>s. \A u \in Txs : /\ Parents(u)' = Parents(u) /\ (Own(u)' <=> Own(u))
                     /\ (Committed(u)' <=> Committed(u))
  BY DEF Parents, Own, Committed
<1>3. KnownInv'
  <2>1. \A u \in Package(t) : Own(u) => plan[u].ready
    BY <1>c DEF Committed
  <2>2. \A u \in known' : (Own(u) => plan[u].ready) /\ Parents(u) \subseteq known'
    BY <1>p, <2>1 DEF KnownInv
  <2>3. \A u \in known' : (Own(u)' => plan'[u].ready) /\ Parents(u)' \subseteq known'
    BY <1>s, <1>p, <1>k, <2>2
  <2>4. \A u \in Txs : /\ ~plan'[u].ready => plan'[u].inputs = {}
                      /\ \A v \in Parents(u)' : Own(v)' => Committed(v)'
    <3>1. \A u \in Txs : Parents(u) \subseteq Txs
      BY DEF Parents
    <3> QED
      BY <1>s, <3>1 DEF KnownInv
  <2> QED
    BY <2>3, <2>4 DEF KnownInv
<1>4. ASSUME NEW u \in Txs, Carried(u), u # t PROVE Carried(u)'
  BY <1>4, <1>s, <1>c, <1>k, <1>p DEF Carried
<1>5. NetRows'
  <2> SUFFICES ASSUME NEW u \in Txs PROVE NetRow(u)'
    BY DEF NetRows
  <2>w. /\ Watched(u)' => Watched(u)
        /\ Sent(u) => Sent(u)' 
        /\ NetRow(u)
    BY DEF NetRows
  <2>1. ASSUME tx[u].status \in Gone PROVE Buried(u)'
    <3>1. Buried(u)
      BY <2>w, <2>1 DEF NetRow
    <3>2. OnWay(u)' => Rejected(u)'
      BY <1>2, <2>w, <3>1 DEF Buried, OnWay
    <3>3. CASE u # t
      BY <1>4, <3>1, <3>2, <3>3 DEF Buried
    <3>4. CASE u = t /\ origin[t] = "received"
      BY <3>1, <3>2, <3>4 DEF Buried
    <3>5. CASE u = t /\ OnWay(t)
      <4>1. Rejected(t)
        BY <3>1, <3>5 DEF Buried
      <4> QED
        BY <4>1 DEF Rejected
    <3> QED
      BY <3>3, <3>4, <3>5
  <2>2. ASSUME tx[u].status = "unsigned" PROVE Unseen(u)'
    <3>1. Unseen(u)
      BY <2>w, <2>2 DEF NetRow
    <3>2. u # t
      BY <3>1 DEF Unseen, OnWay, Afloat, Own
    <3>3. u \notin Package(t)
      BY <1>c, <2>2, <3>1, <3>2 DEF Unseen, Committed, CommitableStatus
    <3> QED
      BY <1>s, <2>w, <3>1, <3>3 DEF Unseen
  <2>3. ASSUME tx[u].status \in {"nosend", "unprocessed"} PROVE Early(u)'
    <3>1. Early(u)
      BY <2>w, <2>3 DEF NetRow
    <3>2. CASE u = t
      <4>1. Sent(t)'
        BY <3>1, <3>2 DEF Early, Own
      <4> QED
        BY <1>s, <2>w, <3>1, <3>2, <4>1 DEF Early
    <3>3. CASE u # t
      BY <1>s, <1>4, <2>w, <3>1, <3>3 DEF Early
    <3> QED
      BY <3>2, <3>3
  <2> QED
    BY <2>1, <2>2, <2>3 DEF NetRow
<1>6. Revival /\ StaysRejected
  BY <1>2 DEF Revival, StaysRejected
<1> QED
  BY <1>3, <1>5, <1>6 DEF KeepsNet

(* updateReqFromResult asks the network again, and gets an answer. *)
LEMMA ConfirmedBy ==
  ASSUME "status" \notin Failures, NEW p, NEW verdict \in confirmed(p),
         s[p].t \in Txs
  PROVE  /\ verdict \in {"success", s[p].verdict}
         /\ verdict = "doubleSpend" => s[p].t \notin known
<1> DEFINE Found == s[p].t \in known
<1>1. getStatusForTxids(Found, Failures) = {[status |-> "success", unknown |-> ~Found]}
  BY DEF getStatusForTxids
<1>2. PICK gsr \in getStatusForTxids(Found, Failures) :
        verdict = IF s[p].verdict = "doubleSpend" /\ gsr.status = "success" /\ ~gsr.unknown
                    THEN "success" ELSE s[p].verdict
  BY DEF confirmed
<1>3. gsr.status = "success" /\ gsr.unknown = ~Found
  BY <1>1
<1> QED
  BY <1>2, <1>3

(* Who posts goes on with the action it works on, which is on its way.     *)
LEMMA PostingOn ==
  ASSUME Ground, NetInv, NEW p \in Procs, s[p].pc \in Posting \ {"updateTx"}
  PROVE  /\ s[p].t \in Txs /\ OnWay(s[p].t)
         /\ p = Monitor => Watched(s[p].t)
         /\ Own(s[p].t) => plan[s[p].t].ready
<1>1. s[p].pc \notin Untied \cup Funding \cup {"failAbandoned"}
  BY TiedPcs DEF Posting, Funding
<1>2. s[p].t \in Txs /\ ~Unplanned(s[p].t)
  BY <1>1, Planned DEF Ground, Typed, HasTx
<1>3. CASE p = Monitor
  BY <1>1, <1>2, <1>3 DEF OnWay, Watched, Unplanned
<1>4. CASE p # Monitor
  <2>1. req[s[p].t].status \in ReadyToSend
    BY <1>4 DEF NetInv, CallNet, Posting, Procs
  <2> QED
    BY <1>2, <1>4, <2>1 DEF OnWay, Afloat, ReadyToSend, Unplanned
<1> QED
  BY <1>3, <1>4

LEMMA PostGoes ==
  ASSUME Ground, NetInv, NEW p \in Procs, s[p].pc \in Posting, UNCHANGED tx,
         s'[p].pc \in Posting, s'[p].t = s[p].t, \A q \in Procs \ {p} : s'[q] = s[q]
  PROVE  /\ \A u \in Txs : (Watched(u)' => Watched(u)) /\ (Sent(u) => Sent(u)')
         /\ p \in Callers => Sent(s[p].t)'
<1> Monitor \in Procs /\ Callers \subseteq Procs /\ "failAbandoned" \notin Posting
    /\ "share" \notin Posting
  BY DEF Procs, Posting
<1>1. ASSUME NEW u \in Txs PROVE Watched(u)' => Watched(u)
  BY DEF Watched
<1>2. ASSUME NEW u, u = s[p].t PROVE Sends(s[p], u)'
  BY <1>2 DEF Sends
<1>3. ASSUME NEW u \in Txs, NEW q \in Callers, Sends(s[q], u) PROVE Sends(s[q], u)'
  <2>1. CASE q = p
    BY <1>2, <1>3, <2>1 DEF Sends
  <2>2. CASE q # p
    BY <1>3, <2>2 DEF Sends
  <2> QED
    BY <2>1, <2>2
<1> QED
  BY <1>1, <1>2, <1>3 DEF Sent

(* Whatever is written to the req of an action that is on its way. *)
LEMMA PostRow ==
  ASSUME Ground, NetInv, NEW t \in Txs, OnWay(t), UNCHANGED <<tx, plan, origin>>,
         Watched(t) \/ Sent(t)', Watched(t)' => Watched(t),
         Rejected(t) => Rejected(t)', Carried(t) => Carried(t)'
  PROVE  NetRow(t)' /\ (tx[t].status \in Gone => Rejected(t))
<1> NetRow(t)
  BY DEF NetInv, NetRows
<1>1. tx[t].status \in Gone => Buried(t)' /\ Rejected(t)
  BY DEF NetRow, Buried
<1>2. tx[t].status # "unsigned"
  BY DEF NetRow, Unseen, OnWay, Afloat
<1>3. tx[t].status \in {"nosend", "unprocessed"} => Early(t)'
  BY DEF NetRow, Early, Own
<1> QED
  BY <1>1, <1>2, <1>3 DEF NetRow

LEMMA PostNet ==
  ASSUME Ground, NetInv, NEW p \in Procs, PostStep(p), MaxFaults = 0,
         Failures \cap {"refused", "status"} = {}
  PROVE  KeepsNet /\ Judged(s[p])' /\ (p \in Callers => CallNet(s[p])')
<1> /\ Typed /\ KnownInv /\ NetRows /\ s[p] \in Session /\ Judged(s[p])
    /\ (p \in Callers => CallNet(s[p])) /\ Monitor \in Procs /\ Callers \subseteq Procs
    /\ (p = Monitor \/ p \in Callers)
  BY DEF Ground, Typed, TypeOK, NetInv, Procs
<1> PICK t : t = s[p].t
  OBVIOUS
<1>0. \A q \in Procs \ {p} : s'[q] = s[q]
  BY PostLocked DEF PostingStep
<1>i. /\ Idle.pc \notin Posting \cup Funding \cup CarefulPcs \cup {"share", "bump", "failAbandoned"}
      /\ Idle.t \notin Txs
      /\ ReadyToSend \subseteq Afloat /\ "none" \notin Afloat
      /\ ReadyToSend \cap {"none", "completed", "unmined"} = {}
  BY IdleTyped, CarelessPcs, NamesAssumption
  DEF Posting, Funding, Outs, ReadyToSend, Afloat
<1>1. CASE mergeBeef(p)
  <2>1. /\ s[p].pc = "mergeBeef" /\ s'[p].pc = "postBeef" /\ s'[p].t = t
        /\ s'[p].copy = s[p].copy
        /\ UNCHANGED <<tx, req, plan, known, mined, origin, proven>>
    BY <1>1 DEF mergeBeef, At, Goto, tables, network, Typed, TypeOK, Session
  <2>2. KeepsNet
    BY <1>0, <2>1, PostGoes, NoRow DEF Posting, Offline, KnownInv
  <2>3. Judged(s[p])' /\ (p \in Callers => CallNet(s[p])')
    BY <2>1 DEF Judged, CallNet, Funding
  <2> QED
    BY <2>2, <2>3
<1>2. ~mergeBeefThrows(p)
  BY DEF mergeBeefThrows, Ground, Typed, TypeOK
<1>3. CASE postBeef(p)
  <2>0. s[p].pc = "postBeef" /\ s[p].pc \in Posting \ {"updateTx"}
    BY <1>3 DEF postBeef, At, Posting
  <2>1. /\ t \in Txs /\ OnWay(t) /\ (p = Monitor => Watched(t))
        /\ Own(t) => plan[t].ready
    BY <2>0, PostingOn
  <2>f. PICK failing \in BOOLEAN : \E answer \in PostBeefAnswers[View(t)][failing] :
          /\ s' = [s EXCEPT ![p].pc = "transferNotes", ![p].verdict = answer.verdict]
          /\ known' = IF answer.arrived THEN known \cup Package(t) ELSE known
    <3> DEFINE attempts == Larger(req[t].attempts, s[p].copy.attempts)
    <3>1. (attempts < MaxAttempts) \in BOOLEAN
      OBVIOUS
    <3> QED
      BY <1>3, <3>1 DEF postBeef
  <2>2. PICK answer \in PostBeefAnswers[View(t)][failing] :
          /\ s' = [s EXCEPT ![p].pc = "transferNotes", ![p].verdict = answer.verdict]
          /\ known' = IF answer.arrived THEN known \cup Package(t) ELSE known
    BY <2>f
  <2>3. /\ s'[p].pc = "transferNotes" /\ s'[p].t = t /\ s'[p].copy = s[p].copy
        /\ s'[p].verdict = answer.verdict
        /\ UNCHANGED <<tx, req, plan, mined, origin, proven>>
    BY <1>3, <2>2 DEF postBeef, tables, Typed, TypeOK, Session
  <2>4. /\ answer.arrived => t \in known \/ Acceptable(t)
        /\ answer.verdict \in Refused =>
             \/ answer.verdict = "doubleSpend" /\ (t \in known \/ answer.arrived)
             \/ Rejected(t) /\ ~answer.arrived
    BY <2>1, AnswerOf
  <2>5. /\ \A u \in Txs : (Watched(u)' => Watched(u)) /\ (Sent(u) => Sent(u)')
        /\ p \in Callers => Sent(t)'
    BY <1>0, <2>0, <2>3, PostGoes DEF Posting
  <2>6. KeepsNet
    <3>1. CASE answer.arrived
      BY <2>1, <2>2, <2>3, <2>4, <2>5, <3>1, NetGrows
    <3>2. CASE ~answer.arrived
      BY <2>2, <2>3, <2>5, <3>2, NoRow DEF Offline, KnownInv
    <3> QED
      BY <3>1, <3>2
  <2>7. answer.verdict \in Refused =>
          (answer.verdict = "doubleSpend" /\ t \in known') \/ Rejected(t)'
    <3>1. t \in Package(t)
      BY <2>1, PackageFacts
    <3>2. ASSUME Rejected(t), ~answer.arrived PROVE Rejected(t)'
      BY <2>1, <2>2, <2>3, <3>2, RejectedStays
    <3> QED
      BY <2>2, <2>4, <3>1, <3>2
  <2>8. Judged(s[p])'
    BY <2>3, <2>7 DEF Judged
  <2>9. p \in Callers => CallNet(s[p])'
    BY <2>0, <2>3 DEF CallNet, Funding
  <2> QED
    BY <2>6, <2>8, <2>9
<1>4. CASE transferNotes(p)
  <2>0. s[p].pc = "transferNotes" /\ s[p].pc \in Posting \ {"updateTx"}
    BY <1>4 DEF transferNotes, At, Posting
  <2>1. t \in Txs /\ OnWay(t) /\ (p = Monitor => Watched(t))
    BY <2>0, PostingOn
  <2>2. /\ s'[p].pc = "refresh" /\ s'[p].t = t /\ s'[p].verdict = s[p].verdict
        /\ UNCHANGED <<tx, plan, known, mined, origin, proven>>
        /\ WriteReq(t, s[p].copy)
    BY <1>4 DEF transferNotes, network, Goto, Typed, TypeOK, Session
  <2>3. /\ \A u \in Txs \ {t} : req'[u] = req[u]
        /\ \A u \in Txs : (Watched(u)' => Watched(u)) /\ (Sent(u) => Sent(u)')
        /\ p \in Callers => Sent(t)'
        /\ Offline
    BY <1>0, <2>0, <2>1, <2>2, PostGoes, WriteAgrees DEF Posting, Offline, KnownInv
  <2>4. (Rejected(t) => Rejected(t)') /\ (Carried(t) => Carried(t)') => NetRow(t)'
    BY <2>1, <2>2, <2>3, PostRow
  <2>5. Committed(t) => Committed(t)'
    BY <2>2 DEF Committed
  <2>6. KeepsNet
    BY <2>1, <2>2, <2>3, <2>4, <2>5, OneRow
  <2>7. Rejected(t) => Rejected(t)'
    BY <2>1, <2>3, RejectedStays DEF Offline
  <2>8. Judged(s[p])'
    BY <2>0, <2>2, <2>7 DEF Judged
  <2>9. p \in Callers => CallNet(s[p])'
    <3> SUFFICES ASSUME p \in Callers PROVE CallNet(s[p])'
      OBVIOUS
    <3>1. req[t].status \in ReadyToSend /\ s[p].copy.status \in ReadyToSend
      BY <2>0 DEF CallNet
    <3>2. req'[t].status \in ReadyToSend
      BY <1>i, <2>1, <2>2, <3>1, WriteStays
    <3> QED
      BY <2>2, <3>2 DEF CallNet, Funding
  <2> QED
    BY <2>6, <2>8, <2>9
<1>5. CASE refreshReq(p)
  <2>0. s[p].pc = "refresh" /\ s[p].pc \in Posting \ {"updateTx"}
    BY <1>5 DEF refreshReq, At, Posting
  <2>1. /\ UNCHANGED <<tx, req, plan, known, mined, origin, proven>>
        /\ Offline
    BY <1>5 DEF refreshReq, tables, network, Offline, KnownInv
  <2>2. CASE Return(p)
    <3>0. s'[p] = Idle /\ s'[p].pc = "idle"
      BY <2>2, IdleTyped DEF Return, Typed, TypeOK
    <3>1. p = Monitor
      <4>1. req[t].status \in {"none", "completed", "unmined"}
        <5>1. s' # [s EXCEPT ![p].copy = req[t], ![p].pc = "updateReq"]
          BY <3>0 DEF Typed, TypeOK, Session
        <5> QED
          BY <1>5, <5>1 DEF refreshReq
      <4> QED
        BY <1>i, <2>0, <4>1 DEF CallNet
    <3>2. \A u \in Txs : ~Watched(u)' /\ (Sent(u) => Sent(u)')
      BY <1>0, <1>i, <2>1, <3>0, <3>1, NamesAssumption DEF Watched, Sent, Sends
    <3>3. KeepsNet
      BY <2>1, <3>2, NoRow
    <3>4. Judged(s[p])'
      BY <3>0, <1>i DEF Judged, Posting
    <3> QED
      BY <3>1, <3>3, <3>4, NamesAssumption
  <2>3. CASE ~Return(p)
    <3>1. s' = [s EXCEPT ![p].copy = req[t], ![p].pc = "updateReq"]
      BY <1>5, <2>3 DEF refreshReq
    <3>2. s'[p].pc = "updateReq" /\ s'[p].t = t /\ s'[p].verdict = s[p].verdict
      BY <3>1 DEF Typed, TypeOK, Session
    <3>3. KeepsNet
      BY <1>0, <2>0, <2>1, <3>2, PostGoes, NoRow DEF Posting
    <3>4. t \in Txs
      BY <2>0, PostingOn
    <3>5. Rejected(t) => Rejected(t)'
      BY <2>1, <3>4, RejectedStays
    <3>6. Judged(s[p])'
      BY <2>0, <2>1, <3>2, <3>5 DEF Judged
    <3>7. p \in Callers => CallNet(s[p])'
      BY <2>0, <2>1, <3>2 DEF CallNet, Funding
    <3> QED
      BY <3>3, <3>6, <3>7
  <2> QED
    BY <2>2, <2>3
<1>6. CASE updateReqFromResult(p)
  <2>0. s[p].pc = "updateReq" /\ s[p].pc \in Posting \ {"updateTx"}
    BY <1>6 DEF updateReqFromResult, At, Posting
  <2>1. t \in Txs /\ OnWay(t) /\ (p = Monitor => Watched(t))
    BY <2>0, PostingOn
  <2>2. PICK verdict \in confirmed(p) :
          /\ \E copy : WriteReq(t, copy)
          /\ s' = [s EXCEPT ![p].verdict = verdict, ![p].pc = "updateTx"]
    BY <1>6 DEF updateReqFromResult
  <2>3. /\ s'[p].pc = "updateTx" /\ s'[p].t = t /\ s'[p].verdict = verdict
        /\ UNCHANGED <<tx, plan, known, mined, origin, proven>>
    BY <1>6, <2>2 DEF updateReqFromResult, network, Typed, TypeOK, Session
  <2>4. /\ \A u \in Txs \ {t} : req'[u] = req[u]
        /\ \A u \in Txs : (Watched(u)' => Watched(u)) /\ (Sent(u) => Sent(u)')
        /\ p \in Callers => Sent(t)'
        /\ Offline
    BY <1>0, <2>0, <2>1, <2>2, <2>3, PostGoes, WriteAgrees DEF Posting, Offline, KnownInv
  <2>5. /\ (Rejected(t) => Rejected(t)') /\ (Carried(t) => Carried(t)') => NetRow(t)'
        /\ Committed(t) => Committed(t)'
    BY <2>1, <2>3, <2>4, PostRow DEF Committed
  <2>6. KeepsNet
    BY <2>1, <2>3, <2>4, <2>5, OneRow
  <2>7. Rejected(t) => Rejected(t)'
    BY <2>1, <2>4, RejectedStays DEF Offline
  <2>8. Judged(s[p])'
    <3>1. verdict \in Refused => Rejected(t)
      BY <2>0, <2>1, ConfirmedBy DEF Judged, Refused
    <3>2. tx[t].status \in Gone => Rejected(t)
      BY <2>1 DEF NetRows, NetRow, Buried
    <3> QED
      BY <2>3, <2>7, <3>1, <3>2 DEF Judged
  <2>9. p \in Callers => CallNet(s[p])'
    BY <2>3 DEF CallNet, Funding
  <2> QED
    BY <2>6, <2>8, <2>9
<1>7. CASE updateTxFromResult(p)
  <2>0. s[p].pc = "updateTx" /\ t \in Txs
    BY <1>7, TiedPcs DEF updateTxFromResult, At, Typed, HasTx
  <2>1. s'[p] = Idle /\ UNCHANGED <<req, plan, known, mined, origin, proven>> /\ Offline
    BY <1>7 DEF updateTxFromResult, Return, network, Typed, TypeOK, Offline, KnownInv
  <2>2. PICK status : /\ status = NewStatus(s[p].verdict).tx
                      /\ \/ updateTransactionStatus(t, status)
                         \/ ~MayUpdateStatus(t, status) /\ UNCHANGED <<tx, outputs>>
    BY <1>7 DEF updateTxFromResult
  <2>3. /\ status \in {"unproven", "failed", "sending"}
        /\ status = "failed" => s[p].verdict \in Refused
    BY <2>0, <2>2 DEF NewStatus, Typed, HasVerdict, Posted, Session, Verdicts, Refused
  <2>4. (status = "failed" \/ tx[t].status \in Gone) => Rejected(t)
    BY <2>0, <2>3 DEF Judged
  <2>5. \A u \in Txs : Watched(u)' => Watched(u)
    <3>1. p = Monitor => \A u \in Txs : ~Watched(u)'
      BY <1>i, <2>1 DEF Watched
    <3>2. p # Monitor => s'[Monitor] = s[Monitor]
      BY <1>0
    <3> QED
      BY <3>1, <3>2 DEF Watched
  <2>6. CASE updateTransactionStatus(t, status)
    <3>1. /\ tx'[t].status = status /\ tx[t].status # "none"
          /\ \A u \in Txs \ {t} : tx'[u] = tx[u]
      BY <2>0, <2>6 DEF updateTransactionStatus, MayUpdateStatus, Typed, TypeOK, TxRow
    <3>2. \A u \in Txs \ {t} : Sent(u) => Sent(u)'
      BY <1>0, <2>0, <2>1, <3>1 DEF Sent, Sends
    <3>3. ASSUME Rejected(t), Rejected(t)' PROVE Buried(t)'
      <4>1. origin[t] # "received"
        BY <2>0, <3>3, ReceivedAccepted DEF Rejected
      <4> QED
        BY <2>1, <3>3, <4>1 DEF Buried, Rejected, Carried
    <3>4. (Rejected(t) => Rejected(t)') => NetRow(t)'
      BY <2>3, <2>4, <3>1, <3>3 DEF NetRow, Gone
    <3>5. KeepsNet
      BY <2>0, <2>1, <2>3, <2>4, <2>5, <3>1, <3>2, <3>4, OneRow
      DEF Committed, CommitableStatus, Gone
    <3> QED
      BY <1>i, <2>1, <3>5, CallEnds DEF CallKeepsNet
  <2>7. CASE ~MayUpdateStatus(t, status) /\ UNCHANGED <<tx, outputs>>
    <3>1. tx[t].status \notin {"nosend", "unprocessed"}
      <4>1. SUFFICES ASSUME tx[t].status \in {"nosend", "unprocessed"} PROVE MayUpdateStatus(t, status)
        BY <2>7
      <4>2. ~tx[t].proof
        BY <2>0, <4>1 DEF NetRows, NetRow, Early
      <4>3. tx[t].status \notin {"none", "completed", "failed"}
        BY <4>1
      <4> QED
        BY <4>2, <4>3 DEF MayUpdateStatus
    <3>2. \A u \in Txs \ {t} : Sent(u) => Sent(u)'
      BY <1>0, <2>0, <2>1, <2>7 DEF Sent, Sends
    <3>3. Buried(t) /\ (Rejected(t) => Rejected(t)') /\ (Carried(t) => Carried(t)') => Buried(t)'
      BY <2>0, <2>1, <2>5 DEF Buried, OnWay
    <3>4. Unseen(t) => Unseen(t)'
      BY <2>0, <2>1, <2>5 DEF Unseen, Own
    <3>5. (Rejected(t) => Rejected(t)') /\ (Carried(t) => Carried(t)') => NetRow(t)'
      BY <2>0, <2>7, <3>1, <3>3, <3>4 DEF NetRows, NetRow
    <3>6. KeepsNet
      BY <2>0, <2>1, <2>5, <2>7, <3>2, <3>5, OneRow DEF Committed
    <3> QED
      BY <1>i, <2>1, <3>6, CallEnds DEF CallKeepsNet
  <2> QED
    BY <2>2, <2>6, <2>7
<1> QED
  BY <1>1, <1>2, <1>3, <1>4, <1>5, <1>6, <1>7 DEF PostStep

----------------------------------------------------------------------------
(* The other calls *)

(* An action that is aborted has not been sent, or is rejected.            *)
LEMMA AbortNet ==
  ASSUME Ground, NetInv, NEW p \in Callers, NEW t \in Txs, abortTx(t), Offline,
         ~Sent(t), \A u \in Txs : ~Sends(s[p], u), \A q \in Procs \ {p} : s'[q] = s[q]
  PROVE  KeepsNet
<1> Typed /\ NetRow(t) /\ p # Monitor /\ Monitor \in Procs
  BY NamesAssumption DEF Ground, NetInv, NetRows, Procs
<1>1. /\ tx'[t].status = "failed" /\ \A u \in Txs \ {t} : tx'[u] = tx[u] /\ req'[u] = req[u]
      /\ req'[t].status \in {"none", "invalid"}
      /\ Own(t) /\ tx[t].status \in {"unsigned", "unprocessed", "nosend", "unfail"}
  BY DEF abortTx, updateTransactionStatus, MayUpdateStatus, Abortable, UnAbortable, Typed, TypeOK,
     TxRow, ReqRow, TransactionStatus
<1>2. /\ Watched(t) => Rejected(t)
      /\ "ReviewStatus" \notin Tasks => Carried(t)
      /\ Watched(t)' <=> Watched(t)
  <2>1. Watched(t)' <=> Watched(t)
    BY DEF Watched
  <2>2. CASE tx[t].status = "unsigned"
    BY <2>1, <2>2 DEF NetRow, Unseen, Carried
  <2>3. CASE tx[t].status \in {"nosend", "unprocessed"}
    BY <2>1, <2>3 DEF NetRow, Early
  <2>4. CASE tx[t].status = "unfail"
    <3>1. Buried(t)
      BY <2>4 DEF NetRow, Gone
    <3> QED
      BY <2>1, <3>1 DEF Buried, OnWay
  <2> QED
    BY <1>1, <2>2, <2>3, <2>4
<1>3. ASSUME Rejected(t) => Rejected(t)', Carried(t) => Carried(t)' PROVE NetRow(t)'
  <2>1. OnWay(t)' => Rejected(t)'
    BY <1>1, <1>2, <1>3 DEF OnWay, Afloat
  <2>2. ("ReviewStatus" \notin Tasks => Carried(t)') /\ origin'[t] # "received"
    BY <1>1, <1>2, <1>3 DEF Own, Offline
  <2> QED
    BY <1>1, <2>1, <2>2 DEF NetRow, Buried
<1>4. Committed(t) => Committed(t)'
  BY <1>1 DEF Committed, CommitableStatus, Offline
<1>5. tx'[t].status \in Gone
  BY <1>1 DEF Gone
<1> QED
  BY <1>1, <1>3, <1>4, <1>5, CallWrites

LEMMA CallsIdle ==
  ASSUME Locked, ManagerLocks, Free
  PROVE  \A p \in Callers : s[p].pc = "idle"
  BY NamesAssumption DEF Locked, CallsLocked, Free, Procs

LEMMA IdleSends ==
  ASSUME \A p \in Callers : s[p].pc = "idle"
  PROVE  \A t : ~Sent(t)
  BY DEF Sent, Sends, Posting

LEMMA ProcessNet ==
  ASSUME Ground, NetInv, ManagerLocks, NEW p \in Callers, ProcessActionStep(p),
         \A q \in Procs \ {p} : s'[q] = s[q], MaxFaults = 0,
         Failures \cap {"refused", "status"} = {}
  PROVE  CallKeepsNet(p)
<1> /\ p \in Procs /\ Monitor \in Procs /\ p # Monitor /\ Typed /\ PlanInv /\ OutputInv
    /\ Locked /\ ProofInv
    /\ s[p] \in Session /\ KnownInv /\ NetRows /\ CallNet(s[p])
  BY NamesAssumption DEF Procs, Ground, Typed, TypeOK, NetInv
<1>i. /\ "idle" \notin {"bump", "share"} \cup Posting \cup Funding
      /\ {"commit", "share", "bump"} \cap Posting = {}
  BY DEF Posting, Funding
<1>s. At(p, "idle") /\ Free => \A u : ~Sent(u) /\ ~Sends(s[p], u)
  <2>1. At(p, "idle") => \A u : ~Sends(s[p], u)
    BY <1>i DEF At, Sends
  <2> QED
    BY <2>1, CallsIdle, IdleSends
<1>0. s[p].pc \in {"commit", "share", "bump"} => s[p].t \in Txs
  BY TiedPcs DEF Typed, HasTx
<1>1. CASE PostStep(p)
  BY <1>1, PostNet DEF CallKeepsNet
<1>2. CASE \E t \in Txs : validateCommitNewTx(p, t)
  <2> PICK t \in Txs : validateCommitNewTx(p, t)
    BY <1>2
  <2>1. /\ At(p, "idle") /\ Free /\ tx[t].status \in CommitableStatus
        /\ UNCHANGED <<tx, req, plan, known, mined, origin, proven>>
        /\ s'[p].pc = "commit" /\ s'[p].t = t
    BY DEF validateCommitNewTx, Acquire, tables, network, Typed, TypeOK, Idle
  <2>2. tx[t].status = "unsigned"
    BY <1>s, <2>1 DEF NetRows, NetRow, Early, CommitableStatus
  <2>3. KeepsNet
    BY <1>s, <2>1, CallReads DEF Offline, KnownInv
  <2>4. CallNet(s[p])' /\ Judged(s[p])'
    BY <1>i, <2>1, <2>2 DEF CallNet, Judged
  <2> QED
    BY <2>3, <2>4 DEF CallKeepsNet
<1>3. CASE \E t \in Txs : sendWith(p, t)
  <2> PICK t \in Txs : sendWith(p, t)
    BY <1>3
  <2>1. PICK mode : s' = [s EXCEPT ![p] = [Idle EXCEPT !.pc = "share", !.t = t, !.mode = mode]]
    BY DEF sendWith
  <2>2. /\ At(p, "idle") /\ Free
        /\ UNCHANGED <<tx, req, plan, known, mined, origin, proven>>
        /\ s'[p].pc = "share" /\ s'[p].t = t
    BY <2>1 DEF sendWith, Acquire, tables, network, Typed, TypeOK, Idle
  <2>3. tx[t].status # "unprocessed"
    BY <1>s, <2>2 DEF NetRows, NetRow, Early
  <2>4. KeepsNet
    BY <1>s, <2>2, CallReads DEF Offline, KnownInv
  <2>5. CallNet(s[p])' /\ Judged(s[p])'
    BY <1>i, <2>2, <2>3 DEF CallNet, Judged, Funding
  <2> QED
    BY <2>4, <2>5 DEF CallKeepsNet
<1>4. CASE \E t \in Txs : abortAction(p, t)
  <2> PICK t \in Txs : abortAction(p, t)
    BY <1>4
  <2>1. /\ At(p, "idle") /\ Free /\ abortTx(t) /\ UNCHANGED s
        /\ UNCHANGED <<plan, known, mined, origin, proven>>
    BY DEF abortAction, network
  <2>2. KeepsNet
    BY <1>s, <2>1, AbortNet DEF Offline, KnownInv
  <2>3. s'[p].pc \notin CarefulPcs
    BY <2>1, CarelessPcs, IdleTyped DEF At
  <2> QED
    BY <2>2, <2>3, CallEnds
<1>5. CASE commitNewTxToStorage(p)
  <2>0. s[p].pc = "commit"
    BY <1>5 DEF commitNewTxToStorage, At
  <2> PICK t \in Txs : t = s[p].t
    BY <1>0, <2>0
  <2> PICK status : status = CreateStatus(s[p].mode)
    OBVIOUS
  <2>1. Unseen(t) /\ ~tx[t].proof /\ tx[t].status = "unsigned"
    <3>1. tx[t].status = "unsigned" /\ Unseen(t)
      BY <2>0 DEF CallNet, NetRows, NetRow
    <3> QED
      BY <3>1 DEF ProofInv, TxHasProof, KnownInv, Unseen
  <2>2. /\ tx'[t].status = status.tx /\ tx'[t].proof = tx[t].proof
        /\ req'[t].status = status.req
        /\ \A u \in Txs \ {t} : tx'[u] = tx[u] /\ req'[u] = req[u]
        /\ UNCHANGED <<plan, known, mined, origin, proven>>
    BY <1>5, <2>1 DEF commitNewTxToStorage, network, UpdateTx, Unseen, Typed, TypeOK, TxRow, ReqRow
  <2>3. \/ /\ s[p].mode = "noSend" /\ status.tx = "nosend" /\ status.req = "nosend"
           /\ s'[p] = Idle
        \/ /\ status.tx = "unprocessed" /\ status.req \in {"unsent", "unprocessed"}
           /\ s'[p].pc = "share" /\ s'[p].t = t
    BY <1>5 DEF commitNewTxToStorage, Return, Goto, CreateStatus, Typed, TypeOK, Session, Modes
  <2>4. \A u \in Txs : ~Sends(s[p], u)
    BY <1>i, <2>0 DEF Sends
  <2>5. Watched(t)' <=> Watched(t)
    BY DEF Watched
  <2>6. Early(t)'
    <3>1. Own(t)' /\ ~tx'[t].proof /\ ~Watched(t)'
      BY <2>1, <2>2, <2>5 DEF Unseen, Own
    <3>2. CASE s'[p] = Idle
      <4>1. tx'[t].status = "nosend" /\ req'[t].status = "nosend"
        BY <2>2, <2>3, <3>2, IdleTyped
      <4>2. Carried(t)'
        BY <2>1, <2>2 DEF Carried, Unseen
      <4> QED
        BY <3>1, <4>1, <4>2 DEF Early
    <3>3. CASE s'[p].pc = "share" /\ s'[p].t = t
      <4>1. tx'[t].status = "unprocessed"
        BY <2>2, <2>3, <3>3, IdleTyped
      <4>2. Sent(t)'
        BY <3>3, <4>1 DEF Sent, Sends
      <4> QED
        BY <3>1, <4>2 DEF Early
    <3> QED
      BY <2>3, <3>2, <3>3
  <2>7. NetRow(t)'
    BY <2>2, <2>3, <2>6 DEF NetRow, Gone
  <2>8. KeepsNet
    BY <2>1, <2>2, <2>4, <2>7, CallWrites DEF Offline, KnownInv, Committed, CommitableStatus, Gone
  <2>9. CASE s'[p] = Idle
    BY <2>8, <2>9, CallEnds, CarelessPcs
  <2>10. CASE s'[p].pc = "share" /\ s'[p].t = t
    <3>1. t \notin proven'
      BY <2>1, <2>2 DEF Unseen, KnownInv
    <3>2. req'[t].status \in ReadyToSend
      BY <2>2, <2>3 DEF ReadyToSend
    <3>3. CallNet(s[p])' /\ Judged(s[p])'
      BY <1>i, <2>10, <3>1, <3>2 DEF CallNet, Judged, Funding
    <3> QED
      BY <2>8, <3>3 DEF CallKeepsNet
  <2> QED
    BY <2>3, <2>9, <2>10
<1>6. CASE getReqsAndBeef(p)
  <2>0. s[p].pc = "share" /\ UNCHANGED <<tx, req, plan, known, mined, origin, proven>>
    BY <1>6 DEF getReqsAndBeef, At, tables, network
  <2> PICK t \in Txs : t = s[p].t
    BY <1>0, <2>0
  <2>n. t \in proven \/ req[t].status \notin ReadyToSend => tx[t].status # "unprocessed"
    BY <2>0 DEF CallNet
  <2>o. Offline
    BY <2>0 DEF Offline, KnownInv
  <2>1. CASE Return(p)
    <3>1. s'[p] = Idle /\ s'[p].pc = "idle"
      BY <2>1, IdleTyped DEF Return, Typed, TypeOK
    <3>2. t \in proven \/ req[t].status \notin ReadyToSend
      <4> PICK pc \in {"bump", "mergeBeef"} :
            pc = IF s[p].mode = "delayed" THEN "bump" ELSE "mergeBeef"
        OBVIOUS
      <4>1. s' # [s EXCEPT ![p].copy = req[t], ![p].pc = pc]
        BY <3>1 DEF Typed, TypeOK, Session
      <4> QED
        BY <1>6, <4>1 DEF getReqsAndBeef
    <3>3. \A u \in Txs : ~Sends(s[p], u)
      BY <1>i, <2>0, <2>n, <3>2 DEF Sends
    <3>4. KeepsNet
      BY <2>0, <2>o, <3>3, CallReads
    <3> QED
      BY <3>1, <3>4, CallEnds, CarelessPcs
  <2>2. CASE ~Return(p)
    <3>1. PICK pc \in {"bump", "mergeBeef"} :
            req[t].status \in ReadyToSend /\ s' = [s EXCEPT ![p].copy = req[t], ![p].pc = pc]
      BY <1>6, <2>2 DEF getReqsAndBeef
    <3>2. s'[p].pc = pc /\ s'[p].t = t /\ s'[p].copy = req[t]
      BY <3>1 DEF Typed, TypeOK, Session
    <3>3. Sends(s[p], t)'
      BY <3>2 DEF Sends, Posting
    <3>4. \A u \in Txs : Sends(s[p], u) => Sends(s[p], u)'
      <4>1. \A u \in Txs : Sends(s[p], u) => u = t
        BY DEF Sends
      <4> QED
        BY <3>3, <4>1
    <3>5. KeepsNet
      BY <2>0, <2>o, <3>4, CallReads
    <3>6. CallNet(s[p])' /\ Judged(s[p])'
      BY <1>i, <2>0, <3>1, <3>2 DEF CallNet, Judged, Funding
    <3> QED
      BY <3>5, <3>6 DEF CallKeepsNet
  <2> QED
    BY <2>1, <2>2
<1>7. CASE bumpToUnsent(p)
  <2>0. s[p].pc = "bump"
    BY <1>7 DEF bumpToUnsent, At
  <2> PICK t \in Txs : t = s[p].t
    BY <1>0, <2>0
  <2>1. /\ s'[p] = Idle /\ UNCHANGED <<plan, known, mined, origin, proven>>
        /\ \A u \in Txs \ {t} : tx'[u] = tx[u] /\ req'[u] = req[u]
        /\ tx'[t].status = IF tx[t].status = "none" THEN "none" ELSE "sending"
    BY <1>7 DEF bumpToUnsent, network, Return, UpdateTx, Typed, TypeOK, TxRow
  <2>2. OnWay(t)
    BY <2>0 DEF CallNet, OnWay, Afloat, ReadyToSend
  <2>3. tx[t].status \in Gone => Rejected(t)
    BY <2>2 DEF NetRows, NetRow, Buried
  <2>4. NetRow(t)'
    BY <2>1 DEF NetRow, Gone
  <2>5. \A u \in Txs \ {t} : ~Sends(s[p], u)
    BY DEF Sends
  <2>6. Committed(t) => Committed(t)'
    BY <2>1 DEF Committed, CommitableStatus
  <2>7. KeepsNet
    BY <2>1, <2>3, <2>4, <2>5, <2>6, CallWrites DEF Offline, KnownInv, Gone
  <2> QED
    BY <2>1, <2>7, CallEnds, CarelessPcs
<1> QED
  BY <1>1, <1>2, <1>3, <1>4, <1>5, <1>6, <1>7 DEF ProcessActionStep

LEMMA ListMoves ==
  ASSUME Typed, NEW p \in Callers, ListSpecOpsStep(p)
  PROVE  /\ UNCHANGED <<plan, proven, network>>
         /\ s'[p].pc \notin CarefulPcs \ {"unfailListed"}
         /\ At(p, "idle") \/ s[p].pc \in Listing
<1> p \in Procs /\ s[p] \in Session /\ p \in DOMAIN s
  BY DEF Procs, Typed, TypeOK
<1>n. (Listing \cup {"idle"}) \cap CarefulPcs \subseteq {"unfailListed"}
  BY DEF Listing, CarefulPcs, Funding, Posting
<1>1. s'[p].pc \in Listing \cup {"idle"}
  <2>1. CASE listNoSends(p) \/ listFailed(p) \/ listChange(p)
    <3>1. PICK pc \in Listing : \E held :
            s' = [s EXCEPT ![p] = [Idle EXCEPT !.pc = pc, !.held = held]]
      BY <2>1 DEF listNoSends, listFailed, listChange, Listed, Listing
    <3> QED
      BY <3>1 DEF Idle, Typed, TypeOK
  <2>2. CASE abortListed(p) \/ unfailListed(p) \/ releaseListed(p) \/ listed(p)
    <3>1. s[p].pc \in Listing
      BY <2>2 DEF abortListed, unfailListed, releaseListed, listed, At, Listing
    <3>2. CASE Return(p)
      BY <3>2, IdleTyped DEF Return, Typed, TypeOK
    <3>3. CASE \E x : Rest(p, x)
      BY <3>1, <3>3 DEF Rest, Typed, TypeOK, Session
    <3> QED
      BY <2>2, <3>2, <3>3 DEF abortListed, unfailListed, releaseListed, listed
  <2>3. CASE filterOutputs(p)
    <3>1. PICK held : s' = [s EXCEPT ![p].pc = "releaseListed", ![p].held = held]
      BY <2>3 DEF filterOutputs
    <3> QED
      BY <3>1 DEF Typed, TypeOK, Session, Listing
  <2> QED
    BY <2>1, <2>2, <2>3 DEF ListSpecOpsStep
<1>2. UNCHANGED <<plan, proven, network>>
  BY DEF ListSpecOpsStep, listNoSends, listFailed, listChange, Listed, abortListed,
     unfailListed, filterOutputs, releaseListed, listed, tables
<1>3. At(p, "idle") \/ s[p].pc \in Listing
  BY DEF ListSpecOpsStep, listNoSends, listFailed, listChange, Listed, abortListed,
     unfailListed, filterOutputs, releaseListed, listed, At, Listing
<1> QED
  BY <1>1, <1>2, <1>3, <1>n

LEMMA ListNet ==
  ASSUME Ground, NetInv, ManagerLocks, NEW p \in Callers, ListSpecOpsStep(p),
         \A q \in Procs \ {p} : s'[q] = s[q], \A u \in Txs : Sent(u) <=> Sends(s[p], u)
  PROVE  CallKeepsNet(p)
<1> /\ p \in Procs /\ Monitor \in Procs /\ p # Monitor /\ Typed
    /\ s[p] \in Session /\ KnownInv /\ NetRows /\ CallNet(s[p])
  BY NamesAssumption DEF Procs, Ground, Typed, TypeOK, NetInv
<1>0. /\ UNCHANGED <<plan, proven, known, mined, origin>> /\ Offline
      /\ s'[p].pc \notin CarefulPcs \ {"unfailListed"}
      /\ At(p, "idle") \/ s[p].pc \in Listing
  BY ListMoves DEF network, Offline, KnownInv
<1>s. \A u \in Txs : ~Sends(s[p], u) /\ ~Sent(u)
  <2>1. (Listing \cup {"idle"}) \cap ({"share", "bump"} \cup Posting) = {}
    BY DEF Listing, Posting
  <2> QED
    BY <1>0, <2>1 DEF At, Sends
<1>r. ASSUME NEW x, Rest(p, x)
      PROVE  s'[p].pc = s[p].pc /\ s'[p].held = s[p].held \ {x}
  BY <1>r DEF Rest, Typed, TypeOK, Session
<1>t. Return(p) => s'[p].pc = "idle"
  BY IdleTyped DEF Return, Typed, TypeOK
<1>1. CASE abortListed(p)
  <2>1. s'[p].pc \in {"abortListed", "idle"}
    BY <1>1, <1>r, <1>t DEF abortListed, At
  <2>2. KeepsNet
    <3>1. CASE \E t \in Txs : abortTx(t)
      BY <1>0, <1>s, <3>1, AbortNet
    <3>2. CASE UNCHANGED <<tx, req>>
      BY <1>0, <1>s, <3>2, CallReads
    <3> QED
      BY <1>1, <3>1, <3>2 DEF abortListed
  <2> QED
    BY <1>0, <2>1, <2>2, CallEnds
<1>2. CASE listFailed(p)
  <2>1. UNCHANGED <<tx, req>>
    BY <1>2 DEF listFailed, Listed, tables
  <2>2. /\ s'[p].pc = "unfailListed" /\ s'[p].held = {t \in Txs : tx[t].status = "failed"}
    BY <1>2 DEF listFailed, Listed, Typed, TypeOK, Idle
  <2>3. KeepsNet
    BY <1>0, <1>s, <2>1, CallReads
  <2>4. CallNet(s[p])' /\ Judged(s[p])'
    BY <2>1, <2>2 DEF CallNet, Judged, Gone, Funding
  <2> QED
    BY <2>3, <2>4 DEF CallKeepsNet
<1>3. CASE unfailListed(p)
  <2> PICK t \in s[p].held :
        /\ tx' = [tx EXCEPT ![t] = UpdateTx(t, [tx[t] EXCEPT !.status = "unfail"])]
        /\ Rest(p, t)
    BY <1>3 DEF unfailListed
  <2>0. s[p].pc = "unfailListed" /\ UNCHANGED req
    BY <1>3 DEF unfailListed, At
  <2>1. s'[p].pc = "unfailListed" /\ s'[p].held = s[p].held \ {t}
    BY <1>r, <2>0
  <2>2. \A u \in Txs \ {t} : tx'[u] = tx[u]
    BY DEF Typed, TypeOK
  <2>3. KeepsNet
    <3>1. CASE t \in Txs
      <4>1. tx[t].status \in Gone
        BY <2>0, <3>1 DEF CallNet
      <4>2. tx'[t].status = "unfail"
        BY <3>1, <4>1 DEF UpdateTx, Typed, TypeOK, TxRow, Gone
      <4>3. Buried(t) /\ (Watched(t)' <=> Watched(t))
        BY <3>1, <4>1 DEF NetRows, NetRow, Watched
      <4>4. (Rejected(t) => Rejected(t)') /\ (Carried(t) => Carried(t)') => Buried(t)'
        BY <1>0, <2>0, <4>3 DEF Buried, OnWay
      <4>5. (Rejected(t) => Rejected(t)') /\ (Carried(t) => Carried(t)') => NetRow(t)'
        BY <4>2, <4>4 DEF NetRow
      <4>6. Committed(t) => Committed(t)'
        BY <1>0, <4>2 DEF Committed, CommitableStatus
      <4> QED
        BY <1>0, <1>s, <2>0, <2>2, <3>1, <4>2, <4>5, <4>6, CallWrites DEF Gone
    <3>2. CASE t \notin Txs
      <4>1. UNCHANGED tx
        BY <3>2 DEF Typed, TypeOK
      <4> QED
        BY <1>0, <1>s, <2>0, <4>1, CallReads
    <3> QED
      BY <3>1, <3>2
  <2>4. CallNet(s[p])' /\ Judged(s[p])'
    <3>1. \A u \in s'[p].held \cap Txs : tx'[u].status \in Gone
      BY <2>0, <2>1, <2>2 DEF CallNet
    <3> QED
      BY <2>1, <3>1 DEF CallNet, Judged, Funding
  <2> QED
    BY <2>3, <2>4 DEF CallKeepsNet
<1>4. CASE listNoSends(p) \/ listChange(p) \/ filterOutputs(p) \/ releaseListed(p) \/ listed(p)
  <2>1. UNCHANGED <<tx, req>>
    BY <1>4 DEF listNoSends, listChange, Listed, filterOutputs, releaseListed, listed, tables
  <2>2. KeepsNet
    BY <1>0, <1>s, <2>1, CallReads
  <2>3. s'[p].pc # "unfailListed"
    <3>1. CASE listNoSends(p) \/ listChange(p)
      <4>1. PICK pc \in {"abortListed", "filterListed"} : \E held :
              s' = [s EXCEPT ![p] = [Idle EXCEPT !.pc = pc, !.held = held]]
        BY <3>1 DEF listNoSends, listChange, Listed
      <4> QED
        BY <4>1 DEF Idle, Typed, TypeOK
    <3>2. CASE filterOutputs(p)
      <4>1. PICK held : s' = [s EXCEPT ![p].pc = "releaseListed", ![p].held = held]
        BY <3>2 DEF filterOutputs
      <4> QED
        BY <4>1 DEF Typed, TypeOK, Session
    <3>3. CASE releaseListed(p) \/ listed(p)
      BY <1>r, <1>t, <3>3 DEF releaseListed, listed, At
    <3> QED
      BY <1>4, <3>1, <3>2, <3>3
  <2> QED
    BY <1>0, <2>2, <2>3, CallEnds
<1> QED
  BY <1>1, <1>2, <1>3, <1>4 DEF ListSpecOpsStep

LEMMA InternalizeNet ==
  ASSUME Ground, NetInv, ManagerLocks, NEW p \in Callers, InternalizeActionStep(p),
         \A q \in Procs \ {p} : s'[q] = s[q]
  PROVE  CallKeepsNet(p)
<1> /\ p \in Procs /\ Monitor \in Procs /\ p # Monitor /\ Typed
    /\ s[p] \in Session /\ KnownInv /\ NetRows /\ CallNet(s[p]) /\ Call(s[p])
  BY NamesAssumption DEF Procs, Ground, Typed, TypeOK, NetInv, OutputInv
<1>n. /\ (InternalizePcs \cup {"idle"}) \cap CarefulPcs \subseteq {"insertProven", "getReq"}
      /\ (InternalizePcs \cup {"idle"}) \cap ({"share", "bump"} \cup Posting) = {}
  BY DEF InternalizePcs, CarefulPcs, Funding, Posting
<1>s. s[p].pc \in InternalizePcs \cup {"idle"} => \A u : ~Sends(s[p], u)
  BY <1>n DEF Sends
<1>t. Return(p) => s'[p].pc = "idle"
  BY IdleTyped DEF Return, Typed, TypeOK
<1>p. InternalizePcs = {"insertProven", "insertCompleted", "insertUnproven", "getReq",
                        "storeOutput", "mergeOutput"}
  BY DEF InternalizePcs
<1>g. \A pc : Goto(p, pc) => s'[p].pc = pc /\ s'[p].t = s[p].t
  BY DEF Goto, Typed, TypeOK, Session
<1>x. s[p].pc \in InternalizePcs => s[p].t \in Txs
  BY InternalizePcsTyped DEF Typed, HasTx
<1>1. CASE \E t \in Txs : internalizeAction(p, t)
  <2> PICK t \in Txs : internalizeAction(p, t)
    BY <1>1
  <2>1. At(p, "idle") /\ UNCHANGED <<tx, req, plan, proven, known, mined, origin>>
    BY DEF internalizeAction, tables, network
  <2>2. PICK pc \in InternalizePcs \ {"getReq"} :
          /\ s' = [s EXCEPT ![p] = [Idle EXCEPT !.t = t, !.pc = pc]]
          /\ pc = "insertProven" => t \in mined
    <3>1. CASE \E merged \in {"mergeOutput", "storeOutput"} :
                 s' = [s EXCEPT ![p] = [Idle EXCEPT !.t = t, !.pc = merged]]
      BY <1>p, <3>1
    <3>2. CASE \E bump \in BOOLEAN :
                 /\ bump => t \in mined
                 /\ s' = [s EXCEPT ![p] = [Idle EXCEPT !.t = t,
                            !.pc = IF bump THEN "insertProven" ELSE "insertUnproven"]]
      <4> PICK bump \in BOOLEAN :
            /\ bump => t \in mined
            /\ s' = [s EXCEPT ![p] = [Idle EXCEPT !.t = t,
                       !.pc = IF bump THEN "insertProven" ELSE "insertUnproven"]]
        BY <3>2
      <4> QED
        <5> DEFINE pc == IF bump THEN "insertProven" ELSE "insertUnproven"
        <5>1. pc \in InternalizePcs \ {"getReq"} /\ (pc = "insertProven" => t \in mined)
          BY <1>p
        <5>2. s' = [s EXCEPT ![p] = [Idle EXCEPT !.t = t, !.pc = pc]]
          OBVIOUS
        <5> QED
          BY <5>1, <5>2
    <3>3. \/ \E merged \in {"mergeOutput", "storeOutput"} :
               s' = [s EXCEPT ![p] = [Idle EXCEPT !.t = t, !.pc = merged]]
          \/ \E bump \in BOOLEAN :
               /\ bump => t \in mined
               /\ s' = [s EXCEPT ![p] = [Idle EXCEPT !.t = t,
                          !.pc = IF bump THEN "insertProven" ELSE "insertUnproven"]]
      BY DEF internalizeAction
    <3> QED
      BY <3>1, <3>2, <3>3
  <2>3. s'[p].pc = pc /\ s'[p].t = t
    BY <2>2 DEF Typed, TypeOK, Idle
  <2>4. KeepsNet
    BY <1>s, <2>1, CallReads DEF At, Offline, KnownInv
  <2>5. CallNet(s[p])' /\ Judged(s[p])'
    <3>1. pc = "insertProven" => t \in known'
      BY <2>1, <2>2 DEF KnownInv
    <3> QED
      BY <1>p, <2>3, <3>1 DEF CallNet, Judged, Funding
  <2> QED
    BY <2>4, <2>5 DEF CallKeepsNet
<1>2. CASE findOrInsertProvenTx(p)
  <2>1. /\ s[p].pc = "insertProven" /\ s'[p].pc = "insertCompleted"
        /\ UNCHANGED <<tx, req, plan, known, mined, origin>> /\ proven' = proven \cup {s[p].t}
    BY <1>2, <1>g DEF findOrInsertProvenTx, At, network
  <2>2. Offline
    BY <2>1 DEF CallNet, Offline, KnownInv
  <2>3. KeepsNet
    BY <1>p, <1>s, <2>1, <2>2, CallReads
  <2> QED
    BY <2>1, <2>3, CallEnds, CarelessPcs
<1>3. CASE insertCompleted(p) \/ insertUnproven(p)
  <2>0. s[p].pc \in {"insertCompleted", "insertUnproven"}
    BY <1>3 DEF insertCompleted, insertUnproven, At
  <2> PICK t \in Txs : t = s[p].t
    BY <1>p, <1>x, <2>0
  <2>1. ~plan[t].ready
    BY <2>0 DEF Ground, OutputInv, Tables, PlansCommitted, Call, ReceivedPcs
  <2>2. /\ UNCHANGED <<req, plan, proven, known, mined, origin>>
        /\ \A u \in Txs \ {t} : tx'[u] = tx[u]
    BY <1>3 DEF insertCompleted, insertUnproven, InsertTx, network, Typed, TypeOK
  <2>3. /\ UNCHANGED tx \/ tx'[t].status \in {"completed", "unproven"}
        /\ s'[p].pc \in {"storeOutput", "getReq", "idle"}
        /\ s'[p].pc = "getReq" => s'[p].t = t /\ tx'[t].status = "unproven"
    BY <1>3, <1>g, <1>t DEF insertCompleted, insertUnproven, InsertTx, Typed, TypeOK
  <2>o. Offline
    BY <2>2 DEF Offline, KnownInv
  <2>s. \A u \in Txs : ~Sends(s[p], u)
    BY <1>p, <1>s, <2>0
  <2>4. KeepsNet
    <3>1. CASE UNCHANGED tx
      BY <2>2, <2>o, <2>s, <3>1, CallReads
    <3>2. CASE tx'[t].status \in {"completed", "unproven"}
      <4>1. NetRow(t)'
        BY <3>2 DEF NetRow, Gone
      <4> QED
        BY <2>1, <2>2, <2>o, <2>s, <4>1, CallWrites DEF Committed
    <3> QED
      BY <2>3, <3>1, <3>2
  <2>5. CallNet(s[p])' /\ Judged(s[p])'
    BY <2>3 DEF CallNet, Judged, Funding
  <2> QED
    BY <2>4, <2>5 DEF CallKeepsNet
<1>4. CASE getProvenOrReq(p)
  <2>0. s[p].pc = "getReq" /\ s'[p].pc = "storeOutput"
    BY <1>4, <1>g DEF getProvenOrReq, At
  <2> PICK t \in Txs : t = s[p].t
    BY <1>p, <1>x, <2>0
  <2>1. /\ UNCHANGED <<tx, plan, proven, known, mined, origin>>
        /\ \A u \in Txs \ {t} : req'[u] = req[u]
    BY <1>4 DEF getProvenOrReq, network, Typed, TypeOK
  <2>2. NetRow(t)'
    BY <2>0, <2>1 DEF CallNet, NetRow, Gone
  <2>3. KeepsNet
    BY <1>p, <1>s, <2>0, <2>1, <2>2, CallWrites DEF Offline, KnownInv, Committed
  <2> QED
    BY <2>0, <2>3, CallEnds, CarelessPcs
<1>5. CASE storeOutput(p) \/ mergeOutput(p)
  <2>1. /\ s[p].pc \in InternalizePcs /\ s'[p].pc = "idle"
        /\ UNCHANGED <<tx, req, plan, proven, known, mined, origin>>
    BY <1>5, <1>p, <1>t DEF storeOutput, mergeOutput, At, network
  <2>2. KeepsNet
    BY <1>s, <2>1, CallReads DEF Offline, KnownInv
  <2> QED
    BY <1>n, <2>1, <2>2, CallEnds
<1> QED
  BY <1>1, <1>2, <1>3, <1>4, <1>5 DEF InternalizeActionStep

LEMMA CallerNet ==
  ASSUME Ground, NetInv, ManagerLocks, NEW p \in Callers, CallerStep(p), MaxFaults = 0,
         Failures \cap {"refused", "status"} = {}
  PROVE  CallKeepsNet(p)
<1>1. /\ \A q \in Procs \ {p} : s'[q] = s[q]
      /\ \A u \in Txs : Sent(u) <=> Sends(s[p], u)
  BY CallAlone DEF NetInv
<1> QED
  BY <1>1, CreateNet, ProcessNet, ListNet, InternalizeNet DEF CallerStep

----------------------------------------------------------------------------
(* The monitor *)
TaskKeepsNet == KeepsNet /\ TaskNet' /\ Judged(s[Monitor])'

(* Steps after which nothing is asked of the locals but the action. *)
Plain == {"idle", "sendWaiting", "getProofs", "mergeBeef", "notifyTx", "saveNotified",
          "finishProof"}

LEMMA PlainTask ==
  ASSUME KeepsNet, s'[Monitor].pc \in Plain
  PROVE  TaskKeepsNet
<1>1. Plain \cap (Purging \cup Reviewing \cup {"transferNotes", "refresh", "updateReq", "updateTx",
                   "saveCopy", "refreshCopy", "newProvenTx", "insertProvenTx",
                   "failAbandoned"}) = {}
  BY DEF Plain, Purging, Reviewing
<1> QED
  BY <1>1 DEF TaskKeepsNet, TaskNet, Judged

(* The monitor writes the req it has a copy of. *)
LEMMA WatchedWrites ==
  ASSUME Ground, NetInv, NEW t \in Txs, Watched(t), UNCHANGED tx, Offline,
         \A u \in Txs \ {t} : req'[u] = req[u],
         \A q \in Callers : s'[q] = s[q], \A u \in Txs : Watched(u)' => Watched(u)
  PROVE  KeepsNet
<1>1. \A u \in Txs : Sent(u) <=> Sent(u)'
  BY DEF Sent, Sends
<1>2. (Rejected(t) => Rejected(t)') /\ (Carried(t) => Carried(t)') => NetRow(t)'
  BY PostRow DEF OnWay, Offline
<1>3. Committed(t) => Committed(t)'
  BY DEF Committed, Offline
<1>4. plan[t].ready /\ tx[t].status \in Gone \cup {"none"} =>
        tx'[t].status \in Gone \cup {"none"} \/ Rejected(t)
  OBVIOUS
<1> QED
  BY <1>1, <1>2, <1>3, <1>4, OneRow DEF NetInv

(* It begins with a req that is on its way; no call is sending that one.   *)
LEMMA WatchBegins ==
  ASSUME Ground, NetInv, ManagerLocks, Free, NEW t \in Txs,
         req[t].status \in Afloat \ {"nosend"}, UNCHANGED <<tx, req>>, Offline,
         \A u \in Txs \ {t} : Watched(u)' => Watched(u)
  PROVE  KeepsNet
<1> NetRow(t)
  BY DEF NetInv, NetRows
<1>1. \A u \in Txs : ~Sent(u)
  BY CallsIdle, IdleSends DEF Ground
<1>2. tx[t].status \notin {"unsigned", "nosend", "unprocessed"}
  BY <1>1 DEF NetRow, Unseen, Early, Afloat
<1>3. (Rejected(t) => Rejected(t)') /\ (Carried(t) => Carried(t)') => NetRow(t)'
  BY <1>2 DEF NetRow, Buried, OnWay, Offline
<1>4. Committed(t) => Committed(t)'
  BY DEF Committed, Offline
<1>5. plan[t].ready /\ tx[t].status \in Gone \cup {"none"} =>
        tx'[t].status \in Gone \cup {"none"} \/ Rejected(t)
  OBVIOUS
<1> QED
  BY <1>1, <1>3, <1>4, <1>5, OneRow DEF NetInv

LEMMA SendTaskNet ==
  ASSUME Ground, NetInv, ManagerLocks, SendWaitingStep
  PROVE  TaskKeepsNet
<1> /\ Monitor \in Procs /\ M = Monitor /\ s[Monitor] \in Session /\ KnownInv
    /\ \A q \in Callers : s'[q] = s[q]
  BY MonitorOnly DEF Procs, M, Ground, Typed, TypeOK, NetInv, MonitorStep
<1>o. Offline /\ UNCHANGED <<tx, req>>
  BY DEF SendWaitingStep, sendWaiting, processUnsent, Read, tables, network, Offline, KnownInv
<1>1. CASE \E t \in Txs : sendWaiting(t)
  <2> PICK t \in Txs : sendWaiting(t)
    BY <1>1
  <2>1. s' = [s EXCEPT ![Monitor] = [Idle EXCEPT !.pc = "sendWaiting", !.t = t,
                                       !.copy = req[t], !.counts = FALSE]]
    BY DEF sendWaiting, Read
  <2>2. s'[Monitor].pc = "sendWaiting" /\ s'[Monitor].t = t
    BY <2>1 DEF Ground, Typed, TypeOK, Idle
  <2>3. Free /\ req[t].status \in Afloat \ {"nosend"}
    BY DEF sendWaiting, Read, Afloat
  <2>4. KeepsNet
    BY <1>o, <2>2, <2>3, WatchBegins DEF Watched
  <2> QED
    BY <2>2, <2>4, PlainTask DEF Plain
<1>2. CASE processUnsent
  <2>1. s'[Monitor].pc = "mergeBeef" /\ s'[Monitor].t = s[Monitor].t /\ s[Monitor].pc = "sendWaiting"
    BY <1>2 DEF processUnsent, At, Goto, Ground, Typed, TypeOK, Session
  <2>2. \A u \in Txs : (Watched(u)' => Watched(u)) /\ (Sent(u) => Sent(u)')
    BY <1>o, <2>1 DEF Watched, Sent, Sends
  <2>3. KeepsNet
    BY <1>o, <2>2, NoRow DEF NetInv
  <2> QED
    BY <2>1, <2>3, PlainTask DEF Plain
<1> QED
  BY <1>1, <1>2 DEF SendWaitingStep

(* A path is found for what is in a block. *)
LEMMA PathIsMined ==
  ASSUME NEW m \in BOOLEAN, TRUE \in MerklePaths(m)
  PROVE  m
<1> SUFFICES ASSUME ~m PROVE FALSE
  OBVIOUS
<1>1. \A x \in WhatsOnChainPath(m) : x = "none"
  BY DEF WhatsOnChainPath
<1>2. \A x \in BitailsPath(m) : x = "none"
  BY DEF BitailsPath
<1>3. ASSUME NEW found \in MerklePaths(m) PROVE found = FALSE
  <2>1. \E first \in WhatsOnChainPath(m) : \E second \in BitailsPath(m) :
          found = (first = "path" \/ second = "path")
    BY DEF MerklePaths
  <2>2. PICK first \in WhatsOnChainPath(m) : \E second \in BitailsPath(m) :
          found = (first = "path" \/ second = "path")
    BY <2>1
  <2> QED
    BY <1>1, <1>2, <2>2
<1> QED
  BY <1>3


LEMMA ProofTaskNet ==
  ASSUME Ground, NetInv, ManagerLocks, MaxFaults = 0, "CheckNoSends" \notin Tasks,
         GetProofsStep
  PROVE  TaskKeepsNet
<1> /\ Monitor \in Procs /\ M = Monitor /\ s[Monitor] \in Session /\ KnownInv /\ TaskNet
    /\ \A q \in Callers : s'[q] = s[q]
  BY MonitorOnly DEF Procs, M, Ground, Typed, TypeOK, NetInv, MonitorStep
<1> PICK t : t = s[Monitor].t
  OBVIOUS
<1> DEFINE Seeking == {"getProofs", "saveCopy", "refreshCopy", "newProvenTx", "insertProvenTx",
                       "notifyTx", "saveNotified", "finishProof"}
<1>t. s[Monitor].pc \in Seeking => t \in Txs /\ Watched(t)
  BY DEF Ground, Typed, HasTx, Untied, Purging, Listing, Watched
<1>i. Idle.t \notin Txs
  BY IdleTyped, NamesAssumption DEF Outs
<1>g. \A pc : Goto(Monitor, pc) => s'[Monitor].pc = pc /\ s'[Monitor].t = t
  BY DEF Goto, Ground, Typed, TypeOK, Session
<1>r. Return(Monitor) => s'[Monitor].pc = "idle" /\ s'[Monitor].t = Idle.t
  BY IdleTyped DEF Return, Ground, Typed, TypeOK
<1>w. s[Monitor].pc \in Seeking /\ s'[Monitor].t \in {t, Idle.t} =>
        \A u \in Txs : Watched(u)' => Watched(u)
  BY <1>i DEF Watched
<1>1. CASE \E u \in Txs, counts \in BOOLEAN : checkForProofs(u, counts) \/ checkNoSends(u, counts)
  <2>1. PICK u \in Txs :
          /\ req[u].status \in {"unmined", "sending"} /\ Free /\ UNCHANGED <<tables, plan, network>>
          /\ \E counts : s' = [s EXCEPT ![Monitor] = [Idle EXCEPT !.pc = "getProofs", !.t = u,
                                           !.copy = req[u], !.counts = counts]]
    BY <1>1 DEF checkForProofs, checkNoSends, Read
  <2>2. s'[Monitor].pc = "getProofs" /\ s'[Monitor].t = u
    BY <2>1 DEF Ground, Typed, TypeOK, Idle
  <2>3. Offline /\ UNCHANGED <<tx, req>>
    BY <2>1 DEF tables, network, Offline, KnownInv
  <2>4. KeepsNet
    BY <2>1, <2>2, <2>3, WatchBegins DEF Watched, Afloat
  <2> QED
    BY <2>2, <2>4, PlainTask DEF Plain
<1>2. CASE settleCopy \/ finishProof
  <2>1. /\ s[Monitor].pc \in {"getProofs", "finishProof"} /\ s'[Monitor].pc = "idle"
        /\ s'[Monitor].t = Idle.t /\ \E c : WriteReq(t, c)
        /\ UNCHANGED tx /\ Offline
    BY <1>2, <1>r DEF settleCopy, finishProof, At, network, Offline, KnownInv
  <2>2. t \in Txs /\ Watched(t) /\ \A u \in Txs : Watched(u)' => Watched(u)
    BY <1>t, <1>w, <2>1
  <2>3. \A u \in Txs \ {t} : req'[u] = req[u]
    BY <2>1, <2>2, WriteAgrees DEF Ground
  <2>4. KeepsNet
    BY <2>1, <2>2, <2>3, WatchedWrites
  <2> QED
    BY <2>1, <2>4, PlainTask DEF Plain
<1>3. CASE getMerklePath
  <2>1. /\ s[Monitor].pc = "getProofs" /\ UNCHANGED <<tx, req>> /\ Offline
        /\ s'[Monitor].pc \in {"saveCopy", "finishProof"} /\ s'[Monitor].t = t
    BY <1>3, MerklePathPc DEF getMerklePath, At, tables, network, Offline, KnownInv, Ground
  <2>2. s'[Monitor].pc = "saveCopy" => t \in known
    <3> SUFFICES ASSUME s'[Monitor].pc = "saveCopy" PROVE t \in mined
      BY DEF KnownInv
    <3>1. TRUE \in MerklePaths(s[Monitor].t \in mined)
      <4> PICK c : c = IF s[Monitor].counts THEN Counted(s[Monitor].copy) ELSE s[Monitor].copy
        OBVIOUS
      <4>1. ASSUME NEW status,
                   s' = [s EXCEPT ![Monitor].pc = "finishProof", ![Monitor].kept = c.attempts,
                                  ![Monitor].copy = [c EXCEPT !.status = status]]
            PROVE  FALSE
        BY <4>1 DEF Ground, Typed, TypeOK, Session
      <4> HIDE DEF Counted
      <4> QED
        BY <1>3, <4>1 DEF getMerklePath
    <3>2. (s[Monitor].t \in mined) \in BOOLEAN
      OBVIOUS
    <3>3. s[Monitor].t \in mined
      BY <3>1, <3>2, PathIsMined
    <3> QED
      BY <3>3
  <2>3. KeepsNet
    BY <1>w, <2>1, NoRow DEF NetInv, Sent, Sends
  <2>4. s'[Monitor].pc = "saveCopy" => Judged(s[Monitor])' /\ TaskNet'
    BY <2>1, <2>2 DEF Judged, TaskNet, Purging, Reviewing, Offline
  <2>5. s'[Monitor].pc = "finishProof" => TaskKeepsNet
    BY <2>3, PlainTask DEF Plain
  <2> QED
    BY <2>1, <2>3, <2>4, <2>5 DEF TaskKeepsNet
<1>4. CASE proofTooNew
  <2>1. /\ s[Monitor].pc = "getProofs" /\ UNCHANGED <<tx, req>> /\ Offline
        /\ s'[Monitor].pc = "idle" /\ s'[Monitor].t = Idle.t
    BY <1>4, <1>r DEF proofTooNew, At, tables, network, Offline, KnownInv
  <2>2. KeepsNet
    BY <1>w, <2>1, NoRow DEF NetInv, Sent, Sends
  <2> QED
    BY <2>1, <2>2, PlainTask DEF Plain
<1>5. CASE saveCopy
  <2>1. /\ s[Monitor].pc = "saveCopy" /\ s'[Monitor].pc = "refreshCopy" /\ s'[Monitor].t = t
        /\ WriteReq(t, s[Monitor].copy) /\ UNCHANGED tx /\ Offline
    BY <1>5, <1>g DEF saveCopy, At, network, Offline, KnownInv
  <2>2. t \in Txs /\ Watched(t) /\ \A u \in Txs : Watched(u)' => Watched(u)
    BY <1>t, <1>w, <2>1
  <2>3. \A u \in Txs \ {t} : req'[u] = req[u]
    BY <2>1, <2>2, WriteAgrees DEF Ground
  <2>4. KeepsNet
    BY <2>1, <2>2, <2>3, WatchedWrites
  <2>5. Judged(s[Monitor])' /\ TaskNet'
    BY <2>1 DEF Judged, TaskNet, Purging, Reviewing, Offline
  <2> QED
    BY <2>4, <2>5 DEF TaskKeepsNet
<1>6. CASE refreshCopy \/ newProvenTx
  <2>1. /\ s[Monitor].pc \in {"refreshCopy", "newProvenTx"} /\ s'[Monitor].t = t
        /\ s'[Monitor].pc \in {"newProvenTx", "insertProvenTx", "finishProof"}
        /\ UNCHANGED <<tx, req>> /\ Offline
    BY <1>6 DEF refreshCopy, newProvenTx, At, tables, network, Offline, KnownInv, Ground, Typed,
       TypeOK, Session
  <2>2. KeepsNet
    BY <1>w, <2>1, NoRow DEF NetInv, Sent, Sends
  <2>3. Judged(s[Monitor])' /\ TaskNet'
    BY <2>1 DEF Judged, TaskNet, Purging, Reviewing, Offline
  <2> QED
    BY <2>2, <2>3 DEF TaskKeepsNet
<1>7. CASE insertProvenTx
  <2>1. /\ s[Monitor].pc = "insertProvenTx" /\ UNCHANGED <<tx, plan, known, mined, origin>>
        /\ t \in Txs /\ Watched(t) /\ t \in known
    BY <1>7, <1>t DEF insertProvenTx, At, network, TaskNet
  <2>2. Offline /\ \A u \in Txs \ {t} : req'[u] = req[u]
    <3>1. proven' \subseteq proven \cup {t}
      BY <1>7 DEF insertProvenTx
    <3>2. \A u \in Txs \ {t} : req'[u] = req[u]
      <4>1. UNCHANGED req \/ \E c : WriteReq(t, c)
        BY <1>7 DEF insertProvenTx
      <4> QED
        BY <2>1, <4>1, WriteAgrees DEF Ground
    <3> QED
      BY <2>1, <3>1, <3>2 DEF Offline, KnownInv
  <2>3. s'[Monitor].pc \in {"finishProof", "notifyTx"} /\ s'[Monitor].t = t
    BY <1>7 DEF insertProvenTx, Ground, Typed, TypeOK, Session
  <2>4. KeepsNet
    BY <1>w, <2>1, <2>2, <2>3, WatchedWrites
  <2> QED
    BY <2>3, <2>4, PlainTask DEF Plain
<1>8. CASE notifyTx
  <2>1. /\ s[Monitor].pc = "notifyTx" /\ s'[Monitor].pc = "saveNotified" /\ s'[Monitor].t = t
        /\ UNCHANGED req /\ Offline
    BY <1>8, <1>g DEF notifyTx, At, network, Offline, KnownInv
  <2>2. t \in Txs /\ Watched(t) /\ \A u \in Txs : Watched(u)' => Watched(u)
    BY <1>t, <1>w, <2>1
  <2>3. /\ \A u \in Txs \ {t} : tx'[u] = tx[u]
        /\ tx'[t].status = IF tx[t].status = "none" THEN "none" ELSE "completed"
    BY <1>8, <2>2 DEF notifyTx, UpdateTx, Ground, Typed, TypeOK
  <2>4. \A u \in Txs : ~Sent(u)
    <3>1. lock = Monitor
      BY <2>1 DEF Ground, TerminalInv, UnderLock
    <3>2. \A p \in Callers : s[p].pc = "idle"
      BY <3>1, NamesAssumption DEF Ground, Locked, CallsLocked, Procs
    <3> QED
      BY <3>2, IdleSends
  <2>5. NetRow(t)'
    BY <2>3 DEF NetRow, Gone
  <2>6. /\ Committed(t) => Committed(t)'
        /\ plan[t].ready /\ tx[t].status \in Gone \cup {"none"} =>
             tx'[t].status \in Gone \cup {"none"} \/ Rejected(t)
    <3>1. tx[t].status \in Gone => Rejected(t)
      BY <2>2 DEF NetInv, NetRows, NetRow, Buried, OnWay
    <3> QED
      BY <2>1, <2>3, <3>1 DEF Committed, CommitableStatus, Offline
  <2>7. KeepsNet
    BY <2>1, <2>2, <2>3, <2>4, <2>5, <2>6, OneRow DEF NetInv
  <2> QED
    BY <2>1, <2>7, PlainTask DEF Plain
<1>9. CASE saveNotified
  <2>1. /\ s[Monitor].pc = "saveNotified" /\ s'[Monitor].pc = "finishProof" /\ s'[Monitor].t = t
        /\ WriteReq(t, s[Monitor].copy) /\ UNCHANGED tx /\ Offline
    BY <1>9, <1>g DEF saveNotified, At, network, Offline, KnownInv
  <2>2. t \in Txs /\ Watched(t) /\ \A u \in Txs : Watched(u)' => Watched(u)
    BY <1>t, <1>w, <2>1
  <2>3. \A u \in Txs \ {t} : req'[u] = req[u]
    BY <2>1, <2>2, WriteAgrees DEF Ground
  <2>4. KeepsNet
    BY <2>1, <2>2, <2>3, WatchedWrites
  <2> QED
    BY <2>1, <2>4, PlainTask DEF Plain
<1> QED
  BY <1>1, <1>2, <1>3, <1>4, <1>5, <1>6, <1>7, <1>8, <1>9 DEF GetProofsStep


(* The monitor holds the lock: no call is under way. *)
LEMMA LockedOut ==
  ASSUME Ground, ManagerLocks, lock = Monitor
  PROVE  (\A p \in Callers : s[p].pc = "idle") /\ \A t : ~Sent(t)
<1>1. \A p \in Callers : s[p].pc = "idle"
  BY NamesAssumption DEF Ground, Locked, CallsLocked, Procs
<1> QED
  BY <1>1, IdleSends

LEMMA RestTaskNet ==
  ASSUME Ground, NetInv, ManagerLocks, "UnFail" \notin Tasks,
         FailAbandonedStep \/ UnFailStep \/ ReviewStatusStep
  PROVE  TaskKeepsNet
<1> /\ Monitor \in Procs /\ M = Monitor /\ s[Monitor] \in Session /\ KnownInv /\ TaskNet
    /\ NetRows /\ Nobody # Monitor /\ \A q \in Callers : s'[q] = s[q]
  BY MonitorOnly, NamesAssumption DEF Procs, M, Ground, Typed, TypeOK, NetInv, MonitorStep
<1>i. Idle.t \notin Txs /\ Idle.t = NoTx /\ NoTx \notin Txs
  BY IdleTyped, NamesAssumption DEF Outs
<1>r. Return(Monitor) => s'[Monitor].pc = "idle" /\ s'[Monitor].t = NoTx
  BY IdleTyped DEF Return, Ground, Typed, TypeOK
<1>o. Offline
  BY DEF FailAbandonedStep, failAbandoned, failAbandonedTx, UnFailStep, assignUnfail, unfail,
     getUnfailPath, unfailTx, unfailReq, ReviewStatusStep, reviewStatus, failWhereReqInvalid,
     releaseWhereTxFailed, completeWhereProven, Read, tables, network, Offline, KnownInv
<1>p. "failAbandoned" \notin Purging \cup Reviewing \cup {"review1"}
  BY DEF Purging, Reviewing
<1>1. CASE \E t \in Txs : failAbandoned(t)
  <2> PICK t \in Txs : failAbandoned(t)
    BY <1>1
  <2>1. s' = [s EXCEPT ![Monitor] = [Idle EXCEPT !.pc = "failAbandoned", !.t = t]]
    BY DEF failAbandoned
  <2>2. s'[Monitor].pc = "failAbandoned" /\ s'[Monitor].t = t
    BY <2>1 DEF Ground, Typed, TypeOK, Idle
  <2>3. Free /\ lock' = Monitor /\ UNCHANGED <<tx, req>>
    BY DEF failAbandoned, Acquire, tables
  <2>4. tx[t].status = "unsigned"
    <3>1. ~Sent(t)
      BY <2>3, CallsIdle, IdleSends DEF Ground
    <3>2. tx[t].status \in {"unprocessed", "unsigned"}
      BY DEF failAbandoned, Abandoned
    <3> QED
      BY <3>1, <3>2 DEF NetRows, NetRow, Early
  <2>5. KeepsNet
    BY <1>o, <2>2, <2>3, NoRow DEF Watched, Sent, Sends
  <2>6. TaskNet' /\ Judged(s[Monitor])'
    BY <1>p, <2>2, <2>3, <2>4 DEF TaskNet, Judged
  <2> QED
    BY <2>5, <2>6 DEF TaskKeepsNet
<1>2. CASE failAbandonedTx
  <2> PICK t \in Txs : t = s[Monitor].t
    BY <1>2 DEF failAbandonedTx, At, Ground, Typed, HasTx, Untied, Purging, Listing
  <2>0. /\ s[Monitor].pc = "failAbandoned" /\ s'[Monitor].pc = "idle" /\ s'[Monitor].t = NoTx
        /\ UNCHANGED req
    BY <1>2, <1>r DEF failAbandonedTx, At
  <2>1. tx[t].status = "unsigned" /\ \A u \in Txs : ~Sent(u)
    BY <2>0, LockedOut DEF TaskNet
  <2>w. \A u \in Txs : ~Watched(u)'
    BY <1>i, <2>0 DEF Watched
  <2>2. KeepsNet
    <3>1. CASE UNCHANGED <<tx, outputs>>
      BY <1>o, <2>0, <2>1, <2>w, <3>1, NoRow
    <3>2. CASE updateTransactionStatus(t, "failed")
      <4>1. tx'[t].status = "failed" /\ \A u \in Txs \ {t} : tx'[u] = tx[u]
        BY <3>2 DEF updateTransactionStatus, Ground, Typed, TypeOK, TxRow
      <4>2. Unseen(t)
        BY <2>1 DEF NetRows, NetRow
      <4>3. Buried(t)'
        BY <1>o, <2>0, <2>w, <4>2 DEF Unseen, Buried, OnWay, Afloat, Carried, Offline, Own
      <4>4. NetRow(t)'
        BY <4>1, <4>3 DEF NetRow
      <4>5. Committed(t) => Committed(t)'
        BY <2>1 DEF Committed, CommitableStatus
      <4> QED
        BY <1>o, <2>0, <2>1, <2>w, <4>1, <4>4, <4>5, OneRow DEF Gone
    <3> QED
      BY <1>2, <3>1, <3>2 DEF failAbandonedTx
  <2> QED
    BY <2>0, <2>2, PlainTask DEF Plain
<1>3. CASE UnFailStep
  <2>1. unfailReq
    BY <1>3 DEF UnFailStep, assignUnfail, unfail, Read, getUnfailPath, unfailTx, At, Ground,
       PlanInv, RowsStay, Installed
  <2> PICK t \in Txs : t = s[Monitor].t
    BY <2>1 DEF unfailReq, At, Ground, Typed, HasTx, Untied, Purging, Listing
  <2>2. /\ s[Monitor].pc = "unfailReq" /\ UNCHANGED tx
        /\ WriteReq(t, s[Monitor].copy) /\ s'[Monitor].pc = "idle" /\ s'[Monitor].t = NoTx
    BY <1>r, <2>1 DEF unfailReq, At
  <2>3. Watched(t) /\ \A u \in Txs : Watched(u)' => Watched(u)
    BY <1>i, <2>2 DEF Watched
  <2>4. \A u \in Txs \ {t} : req'[u] = req[u]
    BY <2>2, WriteAgrees DEF Ground
  <2>5. KeepsNet
    BY <1>o, <2>2, <2>3, <2>4, WatchedWrites
  <2> QED
    BY <2>2, <2>5, PlainTask DEF Plain
<1>4. CASE reviewStatus
  <2>0. s' = [s EXCEPT ![Monitor] = [Idle EXCEPT !.pc = "review1"]]
    BY <1>4 DEF reviewStatus
  <2>1. s'[Monitor].pc = "review1" /\ s'[Monitor].t = NoTx
    BY <2>0 DEF Ground, Typed, TypeOK, Idle
  <2>2. lock' = Monitor /\ UNCHANGED <<tx, req>>
    BY <1>4 DEF reviewStatus, Acquire, tables
  <2>3. KeepsNet
    BY <1>i, <1>o, <2>1, <2>2, NoRow DEF Watched, Sent, Sends
  <2>4. TaskNet' /\ Judged(s[Monitor])'
    BY <2>1, <2>2 DEF TaskNet, Judged
  <2> QED
    BY <2>3, <2>4 DEF TaskKeepsNet
<1>5. CASE failWhereReqInvalid \/ releaseWhereTxFailed \/ completeWhereProven
  <2>0. s[Monitor].pc \in Reviewing /\ UNCHANGED req
    BY <1>5 DEF failWhereReqInvalid, releaseWhereTxFailed, completeWhereProven, At, Reviewing
  <2>1. lock = Monitor /\ s[Monitor].t = NoTx /\ \A u \in Txs : ~Sent(u)
    BY <2>0, LockedOut DEF TaskNet
  <2>2. /\ s'[Monitor].t = NoTx /\ s'[Monitor].pc \in {"review2", "review3", "idle"}
        /\ s'[Monitor].pc # "idle" => lock' = Monitor
    <3>1. CASE Return(Monitor)
      BY <1>r, <3>1
    <3>2. CASE UNCHANGED lock /\ (Goto(Monitor, "review2") \/ Goto(Monitor, "review3"))
      BY <2>1, <3>2 DEF Goto, Ground, Typed, TypeOK, Session
    <3> QED
      BY <1>5, <3>1, <3>2 DEF failWhereReqInvalid, releaseWhereTxFailed, completeWhereProven
  <2>3. TaskNet' /\ Judged(s[Monitor])'
    <3>1. {"review2", "review3", "idle"} \cap Purging = {}
      BY DEF Purging
    <3> QED
      BY <2>2, <3>1 DEF TaskNet, Judged, Reviewing
  <2>w. \A u \in Txs : ~Watched(u)'
    BY <1>i, <2>2 DEF Watched
  <2>4. KeepsNet
    <3>1. CASE releaseWhereTxFailed
      <4>1. UNCHANGED tx
        BY <3>1 DEF releaseWhereTxFailed
      <4> QED
        BY <1>o, <2>0, <2>1, <2>w, <4>1, NoRow
    <3>2. CASE failWhereReqInvalid
      <4>0. "ReviewStatus" \in Tasks
        BY <3>2 DEF failWhereReqInvalid, At, Ground, PlanInv, RowsStay, Installed
      <4>1. \A u \in Txs : IF req[u].status = "invalid" /\ tx[u].status # "none"
                             THEN tx'[u].status = "failed" ELSE tx'[u] = tx[u]
        BY <3>2 DEF failWhereReqInvalid, UpdateTx, Ground, Typed, TypeOK, TxRow
      <4>2. \A u \in Txs : Committed(u) => Committed(u)'
        BY <1>o, <4>1 DEF Committed, CommitableStatus, Offline
      <4>3. /\ KnownInv' /\ StaysRejected
            /\ \A u \in Txs : (Rejected(u) => Rejected(u)') /\ (Carried(u) => Carried(u)')
        BY <1>o, <4>2, OfflineKnown
      <4>4. ASSUME NEW u \in Txs PROVE NetRow(u)'
        <5>1. CASE tx'[u] = tx[u]
          BY <1>o, <2>0, <2>1, <2>w, <4>3, <5>1, SameRow DEF NetRows
        <5>2. CASE tx'[u].status = "failed" /\ req[u].status = "invalid"
          <6>1. Buried(u)'
            BY <2>0, <2>w, <4>0, <5>2 DEF Buried, OnWay, Afloat
          <6> QED
            BY <5>2, <6>1 DEF NetRow
        <5> QED
          BY <4>1, <5>1, <5>2
      <4>5. Revival
        BY <4>1 DEF Revival, Gone
      <4> QED
        BY <4>3, <4>4, <4>5 DEF KeepsNet, NetRows
    <3>3. CASE completeWhereProven
      <4>1. /\ s[Monitor].pc = "review3"
            /\ \A u \in Txs : IF MissedProof(u) THEN tx'[u].status = "completed"
                                                ELSE tx'[u] = tx[u]
        BY <3>3 DEF completeWhereProven, At
      <4>2. \A u \in Txs : Committed(u) => Committed(u)'
        BY <1>o, <4>1 DEF Committed, CommitableStatus, Offline
      <4>3. /\ KnownInv' /\ StaysRejected
            /\ \A u \in Txs : (Rejected(u) => Rejected(u)') /\ (Carried(u) => Carried(u)')
        BY <1>o, <4>2, OfflineKnown
      <4>4. ASSUME NEW u \in Txs PROVE NetRow(u)'
        <5>1. CASE tx'[u] = tx[u]
          BY <1>o, <2>0, <2>1, <2>w, <4>3, <5>1, SameRow DEF NetRows
        <5>2. CASE tx'[u].status = "completed"
          BY <5>2 DEF NetRow, Gone
        <5> QED
          BY <4>1, <5>1, <5>2
      <4>5. Revival
        BY <4>1 DEF Revival
      <4> QED
        BY <4>3, <4>4, <4>5 DEF KeepsNet, NetRows
    <3> QED
      BY <1>5, <3>1, <3>2, <3>3
  <2> QED
    BY <2>3, <2>4 DEF TaskKeepsNet
<1> QED
  BY <1>1, <1>2, <1>3, <1>4, <1>5 DEF FailAbandonedStep, ReviewStatusStep


(* The purge deletes rows and writes none. *)
LEMMA PurgeNet ==
  ASSUME Ground, NetInv, ManagerLocks, PurgeStep
  PROVE  TaskKeepsNet
<1> /\ Monitor \in Procs /\ M = Monitor /\ s[Monitor] \in Session /\ KnownInv /\ TaskNet
    /\ NetRows /\ \A q \in Callers : s'[q] = s[q]
  BY MonitorOnly DEF Procs, M, Ground, Typed, TypeOK, NetInv
<1>i. Idle.t = NoTx /\ NoTx \notin Txs
  BY IdleTyped, NamesAssumption DEF Outs
<1>o. Offline
  BY DEF PurgeStep, purge, purgeCompleted, selectFailed, deleteFailedOutputs,
     markNotSpentBy, deleteFailedTxs, deleteFailedReqs, selectSpent, selectSpentThrows,
     forgetSpentBy, deleteSpentOutputs, deleteSpentTxs, deleteOrphans, tables, network, Offline,
     KnownInv
<1>p. PurgeStep /\ ~purge => s[Monitor].pc \in Purging
  BY DEF PurgeStep, purgeCompleted, selectFailed, deleteFailedOutputs,
     markNotSpentBy, deleteFailedTxs, deleteFailedReqs, selectSpent, selectSpentThrows,
     forgetSpentBy, deleteSpentOutputs, deleteSpentTxs, deleteOrphans, At, Purging
<1>1. s'[Monitor].pc \in Purging \cup {"idle"} /\ s'[Monitor].t = NoTx
  <2>1. CASE purge
    <3>1. PICK pc \in Purging : s' = [s EXCEPT ![Monitor] = [Idle EXCEPT !.pc = pc]]
      BY <2>1, PhasesTyped DEF purge
    <3> QED
      BY <3>1, <1>i DEF Ground, Typed, TypeOK, Idle
  <2>2. CASE Return(Monitor)
    BY <2>2, <1>i, IdleTyped DEF Return, Ground, Typed, TypeOK
  <2>3. CASE ~purge /\ \E pc \in Purging : Goto(Monitor, pc)
    BY <1>p, <2>3 DEF Goto, TaskNet, Ground, Typed, TypeOK, Session
  <2>4. CASE ~purge /\ \E pc \in Purging : \E held :
               s' = [s EXCEPT ![Monitor].held = held, ![Monitor].pc = pc]
    BY <1>p, <2>4 DEF TaskNet, Ground, Typed, TypeOK, Session
  <2>5. CASE selectFailed
    <3>1. PICK old : s' = [s EXCEPT ![Monitor].held = old,
                             ![Monitor].pc = IF old = {} THEN "purgeReqs" ELSE "purgeOutputs"]
      BY <2>5 DEF selectFailed
    <3>2. ~purge
      BY <2>5 DEF selectFailed, purge, At
    <3> QED
      BY <2>4, <3>1, <3>2 DEF Purging
  <2>6. CASE selectSpent
    <3>1. PICK old : s' = [s EXCEPT ![Monitor].held = old,
                             ![Monitor].pc = IF old = {} THEN "purgeOrphans" ELSE "forgetSpent"]
      BY <2>6 DEF selectSpent
    <3>2. ~purge
      BY <2>6 DEF selectSpent, purge, At
    <3> QED
      BY <2>4, <3>1, <3>2 DEF Purging
  <2>7. CASE ~purge /\ ~selectFailed /\ ~selectSpent
    <3>1. AfterCompleted \in Purging /\ AfterFailed \in Purging
          /\ {"purgeInputs", "purgeTxs", "purgeReqs", "spentOutputs", "spentTxs",
              "purgeOrphans"} \subseteq Purging
      BY PhasesTyped DEF Purging
    <3>2. Return(Monitor) \/ \E pc \in Purging : Goto(Monitor, pc)
      BY <2>7, <3>1 DEF PurgeStep, purgeCompleted, deleteFailedOutputs,
         markNotSpentBy, deleteFailedTxs, deleteFailedReqs, selectSpentThrows,
         forgetSpentBy, deleteSpentOutputs, deleteSpentTxs, deleteOrphans
    <3> QED
      BY <2>2, <2>3, <2>7, <3>2
  <2> QED
    BY <2>1, <2>5, <2>6, <2>7
<1>2. \A u \in Txs : ~Watched(u)'
  BY <1>i, <1>1 DEF Watched
<1>3. TaskNet' /\ Judged(s[Monitor])'
  <2>1. (Purging \cup {"idle"}) \cap ({"saveCopy", "refreshCopy", "newProvenTx", "insertProvenTx",
           "failAbandoned", "transferNotes", "refresh", "updateReq", "updateTx"} \cup Reviewing) = {}
    BY DEF Purging, Reviewing
  <2> QED
    BY <1>1, <2>1 DEF TaskNet, Judged
<1>4. KeepsNet
  <2>1. CASE UNCHANGED <<tx, req>>
    BY <1>o, <1>2, <2>1, NoRow DEF Sent, Sends
  <2>2. CASE ~UNCHANGED <<tx, req>>
    <3>1. \A u \in Txs : ~Sent(u)
      <4>1. s[Monitor].pc \in Purging
        BY <1>p, <2>2 DEF purge, tables
      <4> QED
        BY <4>1, LockedOut DEF Ground, Locked, PurgeLocked
    <3>2. \A u \in Txs : (tx'[u] = tx[u] \/ tx'[u].status = "none")
                         /\ (req'[u] = req[u] \/ req'[u].status = "none")
      BY <2>2 DEF PurgeStep, purge, purgeCompleted, selectFailed, deleteFailedOutputs,
         markNotSpentBy, deleteFailedTxs, deleteFailedReqs, selectSpent, selectSpentThrows,
         forgetSpentBy, deleteSpentOutputs, deleteSpentTxs, deleteOrphans, tables, DeleteReqs,
         DeleteTxs, NoReq
    <3>3. \A u \in Txs : Committed(u) => Committed(u)'
      BY <1>o, <3>2 DEF Committed, CommitableStatus, Offline
    <3>4. /\ KnownInv' /\ StaysRejected
          /\ \A u \in Txs : (Rejected(u) => Rejected(u)') /\ (Carried(u) => Carried(u)')
      BY <1>o, <3>3, OfflineKnown
    <3>5. ASSUME NEW u \in Txs PROVE NetRow(u)'
      <4>1. CASE tx'[u].status = "none"
        BY <4>1 DEF NetRow, Gone
      <4>2. CASE tx'[u] = tx[u] /\ req'[u] = req[u]
        BY <1>o, <1>2, <3>1, <3>4, <4>2, SameRow DEF NetRows
      <4>3. CASE tx'[u] = tx[u] /\ req'[u].status = "none"
        <5>1. Own(u)' <=> Own(u)
          BY <1>o DEF Own, Offline
        <5>2. Buried(u) => Buried(u)'
          BY <1>o, <1>2, <3>4, <4>3 DEF Buried, OnWay, Afloat, Offline
        <5>3. Unseen(u) => Unseen(u)'
          BY <1>o, <1>2, <4>3, <5>1 DEF Unseen, Offline
        <5>4. Early(u) => Early(u)'
          BY <1>2, <3>1, <3>4, <4>3, <5>1 DEF Early
        <5> QED
          BY <4>3, <5>2, <5>3, <5>4 DEF NetRows, NetRow
      <4> QED
        BY <3>2, <4>1, <4>2, <4>3
    <3>6. Revival
      BY <3>2 DEF Revival
    <3> QED
      BY <3>4, <3>5, <3>6 DEF KeepsNet, NetRows
  <2> QED
    BY <2>1, <2>2
<1> QED
  BY <1>3, <1>4 DEF TaskKeepsNet

LEMMA PostTaskNet ==
  ASSUME Ground, NetInv, PostStep(Monitor), MaxFaults = 0,
         Failures \cap {"refused", "status"} = {}
  PROVE  TaskKeepsNet
<1> Monitor \in Procs /\ s[Monitor] \in Session /\ Monitor \in DOMAIN s
  BY DEF Procs, Ground, Typed, TypeOK
<1>1. s'[Monitor].pc \in Posting \cup {"idle"}
  <2>1. CASE Return(Monitor)
    BY <2>1, IdleTyped DEF Return, Ground, Typed, TypeOK
  <2>2. CASE ~Return(Monitor)
    <3>1. \/ \E pc \in Posting : Goto(Monitor, pc)
          \/ \E v : s' = [s EXCEPT ![Monitor].pc = "transferNotes", ![Monitor].verdict = v]
          \/ \E v : s' = [s EXCEPT ![Monitor].verdict = v, ![Monitor].pc = "updateTx"]
          \/ \E c : s' = [s EXCEPT ![Monitor].copy = c, ![Monitor].pc = "updateReq"]
      BY <2>2 DEF PostStep, mergeBeef, mergeBeefThrows, postBeef, transferNotes, refreshReq,
         updateReqFromResult, updateTxFromResult, Posting
    <3>2. ASSUME NEW pc \in Posting, Goto(Monitor, pc) PROVE s'[Monitor].pc \in Posting
      BY <3>2 DEF Goto, Ground, Typed, TypeOK, Session
    <3>3. ASSUME NEW v, s' = [s EXCEPT ![Monitor].pc = "transferNotes", ![Monitor].verdict = v]
          PROVE  s'[Monitor].pc = "transferNotes"
      BY <3>3 DEF Ground, Typed, TypeOK, Session
    <3>4. ASSUME NEW v, s' = [s EXCEPT ![Monitor].verdict = v, ![Monitor].pc = "updateTx"]
          PROVE  s'[Monitor].pc = "updateTx"
      BY <3>4 DEF Ground, Typed, TypeOK, Session
    <3>5. ASSUME NEW c, s' = [s EXCEPT ![Monitor].copy = c, ![Monitor].pc = "updateReq"]
          PROVE  s'[Monitor].pc = "updateReq"
      BY <3>5 DEF Ground, Typed, TypeOK, Session
    <3> QED
      BY <3>1, <3>2, <3>3, <3>4, <3>5 DEF Posting
  <2> QED
    BY <2>1, <2>2
<1>2. (Posting \cup {"idle"}) \cap ({"saveCopy", "refreshCopy", "newProvenTx", "insertProvenTx",
         "failAbandoned"} \cup Reviewing \cup Purging) = {}
  BY DEF Posting, Reviewing, Purging
<1>3. TaskNet'
  BY <1>1, <1>2 DEF TaskNet
<1> QED
  BY <1>3, PostNet DEF TaskKeepsNet


----------------------------------------------------------------------------
(* Everybody *)

(* While a call runs, the monitor writes nothing that the call relies on.  *)
LEMMA MonitorStands ==
  ASSUME Ground, TaskNet, ManagerLocks, MonitorStep \/ PurgeStep \/ PostStep(Monitor),
         NEW p \in Callers, s[p].pc # "idle"
  PROVE  UNCHANGED <<tx, req, proven, plan, known, origin>>
<1>1. lock = p /\ p # Monitor /\ p # Nobody /\ M = Monitor
  BY NamesAssumption DEF Ground, Locked, CallsLocked, M, Procs
<1>2. ~Free /\ s[Monitor].pc \notin UnderLock \cup Purging \cup Reviewing \cup {"failAbandoned"}
  BY <1>1 DEF Free, TerminalInv, Ground, TaskNet, Locked, PurgeLocked
<1>0. UNCHANGED req
  BY <1>1, MonitorQuiet DEF Ground
<1>3. ~PostStep(Monitor)
  BY <1>2 DEF PostStep, mergeBeef, mergeBeefThrows, postBeef, transferNotes, refreshReq,
     updateReqFromResult, updateTxFromResult, At, UnderLock, Posting
<1>4. CASE PurgeStep
  BY <1>0, <1>1, <1>2, <1>4 DEF PurgeStep, purge, purgeCompleted, selectFailed, deleteFailedOutputs,
     markNotSpentBy, deleteFailedTxs, deleteFailedReqs, selectSpent, selectSpentThrows,
     forgetSpentBy, deleteSpentOutputs, deleteSpentTxs, deleteOrphans, At, Purging, tables, network
<1>5. CASE SendWaitingStep \/ FailAbandonedStep \/ ReviewStatusStep
  BY <1>0, <1>1, <1>2, <1>5 DEF SendWaitingStep, sendWaiting, processUnsent, Read,
     FailAbandonedStep, failAbandoned, failAbandonedTx, ReviewStatusStep, reviewStatus,
     failWhereReqInvalid, releaseWhereTxFailed, completeWhereProven, At, Reviewing, tables, network
<1>6. CASE UnFailStep
  BY <1>0, <1>2, <1>6 DEF UnFailStep, assignUnfail, unfail, getUnfailPath, unfailTx, unfailReq, Read,
     outputs, tables, network
<1>7. CASE GetProofsStep
  BY <1>0, <1>1, <1>2, <1>7 DEF GetProofsStep, checkForProofs, checkNoSends, Read, settleCopy,
     getMerklePath, proofTooNew, saveCopy, refreshCopy, newProvenTx, insertProvenTx, notifyTx,
     saveNotified, finishProof, At, UnderLock, outputs, tables, network
<1> QED
  BY <1>3, <1>4, <1>5, <1>6, <1>7 DEF MonitorStep

(* What is said of somebody's locals stays true while nothing it is about  *)
(* changes.                                                                *)
LEMMA JudgedStays ==
  ASSUME Typed, NEW p \in Procs, s'[p] = s[p], Judged(s[p]), UNCHANGED tx, known \subseteq known',
         \A t \in Txs : Rejected(t) => Rejected(t)'
  PROVE  Judged(s[p])'
<1> PICK r : r = s[p]
  OBVIOUS
<1>1. r.pc \in {"transferNotes", "refresh", "updateReq", "updateTx"} => r.t \in Txs
  BY TiedPcs DEF Typed, HasTx
<1> QED
  BY <1>1 DEF Judged

LEMMA CallStays ==
  ASSUME NEW p, s'[p] = s[p], CallNet(s[p]), UNCHANGED <<tx, req, proven>>, known \subseteq known'
  PROVE  CallNet(s[p])'
  BY DEF CallNet

(* The network forgets nothing. *)
LEMMA CallerKnown ==
  ASSUME NEW p \in Callers, CallerStep(p)
  PROVE  known \subseteq known'
<1>1. CASE CreateActionStep(p)
  BY <1>1 DEF CreateActionStep, createNewTxRecord, allocateNoSendChange,
     allocateChangeInput, startRelease, releaseChangeInput, released, funded,
     createNewOutputs, mergeAllocatedChangeBeefs, createNewInput,
     createNewInputThrows, createActionReturns, network
<1>2. CASE ProcessActionStep(p)
  <2>1. CASE PostStep(p)
    <3>1. CASE postBeef(p)
      <4>1. known' = known \/ known' = known \cup Package(s[p].t)
        BY <3>1 DEF postBeef
      <4> QED
        BY <4>1
    <3>2. CASE ~postBeef(p)
      BY <2>1, <3>2 DEF PostStep, mergeBeef, mergeBeefThrows, transferNotes, refreshReq,
         updateReqFromResult, updateTxFromResult, network
    <3> QED
      BY <3>1, <3>2
  <2>2. CASE ~PostStep(p)
    BY <1>2, <2>2 DEF ProcessActionStep, validateCommitNewTx, sendWith, abortAction,
       commitNewTxToStorage, getReqsAndBeef, bumpToUnsent, network
  <2> QED
    BY <2>1, <2>2
<1>3. CASE InternalizeActionStep(p)
  BY <1>3 DEF InternalizeActionStep, internalizeAction, findOrInsertProvenTx,
     insertCompleted, insertUnproven, getProvenOrReq, storeOutput, mergeOutput, network
<1>4. CASE ListSpecOpsStep(p)
  BY <1>4 DEF ListSpecOpsStep, listNoSends, listFailed, listChange, Listed,
     abortListed, unfailListed, filterOutputs, releaseListed, listed, network
<1> QED
  BY <1>1, <1>2, <1>3, <1>4 DEF CallerStep


LEMMA IdleNet ==
  ASSUME NEW p, s'[p].pc = "idle"
  PROVE  CallNet(s[p])' /\ Judged(s[p])'
  BY DEF CallNet, Judged, Funding

Nets == NetInv' /\ Revival /\ StaysRejected

(* What the network is like, for the theorems below: services that answer  *)
(* tell the truth, and tasks that take up what was not to be sent, or what *)
(* was given up, are not installed.                                        *)
HonestServices == Failures \cap {"refused", "status"} = {}

LEMMA TaskStepNet ==
  ASSUME Ground, NetInv, ManagerLocks, MaxFaults = 0, HonestServices,
         "CheckNoSends" \notin Tasks, "UnFail" \notin Tasks,
         MonitorStep \/ PurgeStep \/ PostStep(Monitor)
  PROVE  Nets
<1> Monitor \in Procs /\ Callers \subseteq Procs /\ Procs = Callers \cup {Monitor}
  BY DEF Procs
<1>1. TaskKeepsNet
  BY SendTaskNet, ProofTaskNet, RestTaskNet, PurgeNet, PostTaskNet DEF MonitorStep, HonestServices
<1>2. \A p \in Callers : s'[p] = s[p]
  <2>1. CASE PostStep(Monitor)
    BY <2>1, PostLocked, NamesAssumption DEF PostingStep, Ground
  <2>2. CASE MonitorStep \/ PurgeStep
    BY <2>2, MonitorOnly DEF Ground
  <2> QED
    BY <2>1, <2>2
<1>3. ASSUME NEW p \in Callers PROVE CallNet(s[p])' /\ Judged(s[p])'
  <2>1. CASE s[p].pc = "idle"
    BY <1>2, <2>1, IdleNet
  <2>2. CASE s[p].pc # "idle"
    <3>1. UNCHANGED <<tx, req, proven, plan, known, origin>>
      BY <2>2, MonitorStands DEF NetInv
    <3>2. \A t \in Txs : Rejected(t) => Rejected(t)'
      BY <3>1, RejectedStays
    <3>3. CallNet(s[p])'
      BY <1>2, <3>1, CallStays DEF NetInv
    <3>4. Judged(s[p])'
      BY <1>2, <3>1, <3>2, JudgedStays DEF NetInv, Ground
    <3> QED
      BY <3>3, <3>4
  <2> QED
    BY <2>1, <2>2
<1> QED
  BY <1>1, <1>3 DEF Nets, NetInv, TaskKeepsNet, KeepsNet

LEMMA CallerStepNet ==
  ASSUME Ground, NetInv, ManagerLocks, MaxFaults = 0, HonestServices,
         NEW p \in Callers, CallerStep(p)
  PROVE  Nets
<1> Monitor \in Procs /\ Callers \subseteq Procs /\ Procs = Callers \cup {Monitor}
    /\ p # Monitor
  BY NamesAssumption DEF Procs
<1>1. CallKeepsNet(p)
  BY CallerNet DEF HonestServices
<1>2. /\ \A q \in Procs \ {p} : s'[q] = s[q]
      /\ \A q \in Callers \ {p} : s[q].pc = "idle"
      /\ s[Monitor].pc \notin UnderLock \cup Reviewing \cup Purging \cup {"failAbandoned"}
  BY CallAlone DEF NetInv
<1>3. known \subseteq known'
  BY CallerKnown
<1>4. \A q \in Callers : CallNet(s[q])' /\ Judged(s[q])'
  BY <1>1, <1>2, IdleNet DEF CallKeepsNet
<1>5. Judged(s[Monitor])'
  BY <1>2 DEF Judged, UnderLock, Posting
<1>6. TaskNet'
  <2>1. s'[Monitor] = s[Monitor] /\ TaskNet
    BY <1>2 DEF NetInv
  <2> QED
    BY <1>2, <1>3, <2>1 DEF TaskNet
<1> QED
  BY <1>1, <1>4, <1>5, <1>6 DEF Nets, NetInv, CallKeepsNet, KeepsNet

LEMMA NetworkNet ==
  ASSUME Ground, NetInv, (\E t \in Txs : Arrive(t) \/ Mine(t)) \/ UNCHANGED vars
  PROVE  Nets
<1> KnownInv
  BY DEF NetInv
<1>1. UNCHANGED <<tx, req, proven, plan, origin, s, lock>>
  BY DEF Arrive, Mine, vars, tables
<1>2. known \subseteq known'
  BY DEF Arrive, Mine, vars
<1>3. \A u \in Txs : (Watched(u)' => Watched(u)) /\ (Sent(u) => Sent(u)')
  BY <1>1 DEF Watched, Sent, Sends
<1>4. KeepsNet /\ \A u \in Txs : Rejected(u) => Rejected(u)'
  <2>1. CASE UNCHANGED known
    <3>1. Offline
      BY <1>1, <2>1 DEF Arrive, Mine, vars, Offline, KnownInv
    <3>2. KeepsNet
      BY <1>1, <1>3, <3>1, NoRow DEF NetInv
    <3> QED
      BY <1>1, <2>1, <3>2, RejectedStays
  <2>2. CASE ~UNCHANGED known
    <3>1. PICK t \in Txs : Arrive(t)
      BY <2>2 DEF Mine, vars
    <3>2. origin[t] = "received" /\ known' = known \cup {t} /\ UNCHANGED mined
      BY <3>1 DEF Arrive
    <3>3. Package(t) = {t} /\ Acceptable(t)
      BY <3>2, ReceivedAccepted
    <3>4. KeepsNet
      BY <1>1, <1>3, <3>2, <3>3, NetGrows DEF Own
    <3> QED
      BY <1>1, <1>2, <3>2, <3>3, <3>4, RejectedStays
  <2> QED
    BY <2>1, <2>2
<1>5. TaskNet'
  BY <1>1, <1>2 DEF NetInv, TaskNet
<1>6. \A p \in Callers : CallNet(s[p])'
  BY <1>1, <1>2, CallStays DEF NetInv
<1>7. \A p \in Procs : Judged(s[p])'
  BY <1>1, <1>2, <1>4, JudgedStays DEF NetInv, Ground
<1> QED
  BY <1>4, <1>5, <1>6, <1>7 DEF Nets, NetInv, KeepsNet

LEMMA NextNet ==
  ASSUME Ground, NetInv, ManagerLocks, MaxFaults = 0, HonestServices,
         "CheckNoSends" \notin Tasks, "UnFail" \notin Tasks, [Next]_vars
  PROVE  Nets
<1>1. \A p \in Procs : ~Throws(p)
  BY DEF Throws, Ground, Typed, TypeOK
<1> QED
  BY <1>1, TaskStepNet, CallerStepNet, NetworkNet DEF Next

LEMMA NextGround ==
  ASSUME Ground, ManagerLocks, "UnFail" \notin Tasks, [Next]_vars
  PROVE  Ground'
  BY NextTyped, NextLocked, NextPlan, NextOutput, NextTerminal, NextProof DEF Ground, OneManager

LEMMA InitGround == Init => Ground
  BY InitTyped, InitLocked, InitPlan, InitOutput, InitTerminal, InitProof DEF Ground

(* What failed, and gave its inputs back, is not on the network, unless    *)
(* the beef of a child took it there: whichever calls run, in whatever     *)
(* order, servers are down or take a transaction and do not say so.  The   *)
(* wallet must not have failed by itself between a post and its results.   *)
(* TaskReviewStatus is not installed: it fails what has an invalid req,    *)
(* and a req is given up while its transaction is on the network.          *)
THEOREM FailedIsNotSent ==
  ASSUME ManagerLocks, MaxFaults = 0, HonestServices, "CheckNoSends" \notin Tasks,
         "UnFail" \notin Tasks, "ReviewStatus" \notin Tasks
  PROVE  Spec => []FailedStaysOffNetwork
<1> DEFINE Inv == Ground /\ NetInv
<1>1. Init => Inv
  BY InitGround, InitNet
<1>2. Inv /\ [Next]_vars => Inv'
  BY NextGround, NextNet DEF Nets
<1>3. Inv => FailedStaysOffNetwork
  BY DEF NetInv, NetRows, NetRow, Gone, Buried, Carried, FailedStaysOffNetwork
<1> QED
  BY <1>1, <1>2, <1>3, PTL DEF Spec

----------------------------------------------------------------------------
(* Whoever lives has its inputs, or is rejected for ever. *)
HoldInv ==
  \A t \in Txs : Lives(t) => (\A o \in plan[t].inputs : spentBy[o] = t) \/ Rejected(t)

LEMMA NextHold ==
  ASSUME Ground, NetInv, HoldInv, Keeps, Revival, StaysRejected, Typed',
         s[Monitor].pc = "review3" => \A t \in Txs : ~MissedProof(t)
  PROVE  HoldInv'
<1> SUFFICES ASSUME NEW t \in Txs, Lives(t)'
             PROVE  (\A o \in plan'[t].inputs : spentBy'[o] = t) \/ Rejected(t)'
  BY DEF HoldInv
<1> t # NoTx /\ plan[t].inputs \subseteq Outs
  BY NamesAssumption DEF Ground, Typed, TypeOK, Outs
<1>1. CASE ~plan[t].ready
  BY <1>1 DEF Keeps, PlansKept, Lives
<1>2. CASE plan[t].ready /\ ~Lives(t)
  <2>1. Rejected(t)
    BY <1>2 DEF Revival, Lives, Gone
  <2> QED
    BY <1>2, <2>1 DEF StaysRejected
<1>3. CASE plan[t].ready /\ Lives(t)
  <2>1. plan'[t] = plan[t] /\ tx'[t].status # "failed"
    BY <1>3 DEF Keeps, PlansKept, Lives
  <2>2. Rejected(t) => Rejected(t)'
    BY <1>3 DEF StaysRejected
  <2>3. (\A o \in plan[t].inputs : spentBy[o] = t) => \A o \in plan[t].inputs : spentBy'[o] = t
    BY <1>3, <2>1 DEF Keeps, Spares
  <2> QED
    BY <1>3, <2>1, <2>2, <2>3 DEF HoldInv
<1> QED
  BY <1>1, <1>2, <1>3

(* A transaction the network accepted owns its inputs: neither the calls   *)
(* nor the tasks gave them away, and one that was failed is not brought    *)
(* back to life, unless the network rejects it for ever.  The purge, which *)
(* forgets whose an output is, and TaskUnFail are not installed, services  *)
(* tell the truth, and the wallet does not fail by itself.                 *)
THEOREM AcceptedKeepsInputs ==
  ASSUME ManagerLocks, MaxFaults = 0, HonestServices, "CheckNoSends" \notin Tasks,
         "UnFail" \notin Tasks, "Purge" \notin Tasks,
         "ReviewStatus" \in Tasks => "internalizeAction" \notin Calls
  PROVE  Spec => []AcceptedHoldsInputs
<1> DEFINE Reviewed == "ReviewStatus" \in Tasks => AgreesInv
           Inv == Ground /\ NetInv /\ InputInv /\ Reviewed /\ HoldInv
<1>1. Init => Inv
  <2>1. Init => HoldInv
    BY DEF Init, HoldInv, Lives
  <2> QED
    BY <2>1, InitGround, InitNet, InitInputs, InitAgrees
<1>2. Inv /\ [Next]_vars => Inv'
  <2> SUFFICES ASSUME Inv, [Next]_vars PROVE Inv'
    OBVIOUS
  <2>1. Ground' /\ NetInv' /\ Revival /\ StaysRejected
    BY NextGround, NextNet DEF Nets
  <2>2. Reviewed'
    BY NextAgrees DEF Ground
  <2>3. InputInv' /\ Keeps
    BY NextInputs DEF Ground
  <2>4. s[Monitor].pc = "review3" => \A t \in Txs : ~MissedProof(t)
    BY DEF InputInv, AgreesInv, ProofsLinked, MissedProof, Reviewing
  <2>5. HoldInv'
    BY <2>1, <2>3, <2>4, NextHold DEF Ground
  <2> QED
    BY <2>1, <2>2, <2>3, <2>5
<1>3. Inv => AcceptedHoldsInputs
  <2> SUFFICES ASSUME Inv, NEW t \in known, tx[t].status \in {"unproven", "completed"},
                      NEW o \in plan[t].inputs
               PROVE  spentBy[o] = t
    BY DEF AcceptedHoldsInputs
  <2>1. t \in Txs /\ plan[t].ready
    BY DEF Ground, Typed, TypeOK, NetInv, KnownInv
  <2> QED
    BY <2>1 DEF HoldInv, Lives, Rejected
<1> QED
  BY <1>1, <1>2, <1>3, PTL DEF Spec

----------------------------------------------------------------------------
(* Change is not lost.  An output has a holder when it is spendable, when  *)
(* it is assigned, or when the network has what spends it.  What is        *)
(* assigned to an action whose createAction has not returned is in the     *)
(* locals of that call; what is assigned to any other is among its inputs. *)
(* So a purge that forgets what a completed transaction spent forgets what *)
(* is spent, and TaskUnFail takes an output away when the network says so. *)

Spent(o) == \E u \in known : o \in plan[u].inputs

HasHolder == \A o \in exists : o \in spendable \/ spentBy[o] # NoTx \/ Spent(o)

(* The network knows what it has mined and what is proven, and no action   *)
(* before its createAction returned; nor is one the input of another.      *)
Traced ==
  /\ mined \subseteq known /\ proven \subseteq known
  /\ \A t \in known : ~Unplanned(t)
  /\ \A t \in Txs : \A v \in Parents(t) : ~Unplanned(v)
  /\ \A t \in exists \cap Txs : Unplanned(t) => t \in change

Assigned ==
  \A o \in Outs : spentBy[o] \in Txs =>
    Unplanned(spentBy[o]) \/ o \in plan[spentBy[o]].inputs

(* Nothing is assigned to an action that has no row yet.                   *)
Vacant ==
  \A t \in Txs : Unplanned(t) /\ tx[t].status = "none" => \A o \in Outs : spentBy[o] # t

PurgeVacates ==
  s[Monitor].pc = "purgeTxs" =>
    \A t \in s[Monitor].held \cap Txs : Unplanned(t) => \A o \in Outs : spentBy[o] # t

(* Steps that work with a path the network gave.                           *)
OfMined == {"saveCopy", "refreshCopy", "newProvenTx", "insertProvenTx", "insertProven", "unfailTx"}

Forgetting == {"forgetSpent", "spentOutputs", "spentTxs"}

Filtering == {"filterListed", "releaseListed"}

Delicate == Funding \cup OfMined \cup Forgetting \cup Filtering

LocalChange(r) ==
  /\ r.pc \in Funding =>
       /\ \A o \in Outs : spentBy[o] = r.t => o \in r.held \cup r.nsc
       /\ \A v \in Picked(r) \cap Txs : ~Unplanned(v)
       /\ r.nsc \subseteq r.given
       /\ r.pc \notin {"fund", "release"} => r.nsc = {}
  /\ r.pc \in OfMined => r.t \in mined
  /\ r.pc \in Forgetting => r.held \cap Txs \subseteq known
  /\ r.pc \notin Filtering

ChangeInv ==
  /\ HasHolder /\ Traced /\ Assigned /\ Vacant /\ PurgeVacates
  /\ \A p \in Procs : LocalChange(s[p])

LEMMA PlainChange ==
  ASSUME NEW r, r.pc \notin Delicate
  PROVE  LocalChange(r)
  BY DEF LocalChange, Delicate

LEMMA IdleDelicate == Idle.pc \notin Delicate /\ "purgeTxs" \notin Delicate
  BY IdleTyped DEF Delicate, Funding, OfMined, Forgetting, Filtering

LEMMA InitChange == Init => ChangeInv
<1> SUFFICES ASSUME Init PROVE ChangeInv
  OBVIOUS
<1> Monitor \in Procs
  BY DEF Procs
<1>1. \A p \in Procs : LocalChange(s[p])
  BY PlainChange, IdleDelicate DEF Init
<1>2. PurgeVacates
  BY IdleTyped DEF Init, PurgeVacates
<1>3. HasHolder
  BY DEF Init, HasHolder
<1>4. Traced
  BY NamesAssumption DEF Init, Traced, Parents, Outs, Unplanned
<1>5. Assigned /\ Vacant
  BY NamesAssumption DEF Init, Assigned, Vacant, Outs
<1> QED
  BY <1>1, <1>2, <1>3, <1>4, <1>5 DEF ChangeInv

(* What the step of a process does to the rows: nothing is left without a  *)
(* holder, an output goes to the action that is being funded or to one     *)
(* that was told to spend it, and no row is deleted that holds something.  *)
GoesTo(p, o) ==
  \/ spentBy'[o] \in {spentBy[o], NoTx}
  \/ s[p].pc \in Funding /\ spentBy'[o] = s[p].t
  \/ ~Unplanned(spentBy'[o]) /\ o \in plan[spentBy'[o]].inputs

LeavesHolder(o) ==
  \/ o \in spendable' \/ spentBy'[o] # NoTx \/ Spent(o)
  \/ o \in exists \ spendable /\ spentBy[o] = NoTx

Hands(p) ==
  /\ \A o \in Outs : GoesTo(p, o)
  /\ \A o \in exists' : LeavesHolder(o)
  /\ \A t \in exists' \cap Txs : Unplanned(t) => t \in change'
  /\ \A t \in Txs : Unplanned(t) /\ tx'[t].status = "none" =>
       tx[t].status = "none" \/ \A o \in Outs : spentBy'[o] # t

Sight ==
  /\ known \subseteq known' /\ mined \subseteq mined'
  /\ mined' \subseteq known' /\ proven' \subseteq known'
  /\ \A t \in known' : ~Unplanned(t)

LEMMA SameSight ==
  ASSUME ChangeInv, UNCHANGED <<known, mined>>, proven' \subseteq proven
  PROVE  Sight
  BY DEF ChangeInv, Traced, Sight

LEMMA OtherChange ==
  ASSUME Typed, PlanInv, NEW p \in Procs, NEW q \in Procs \ {p}, LocalChange(s[q]),
         UNCHANGED <<plan, origin>>, s'[q] = s[q], Sight, Hands(p)
  PROVE  LocalChange(s[q])'
<1> PICK r : r = s'[q]
  OBVIOUS
<1> SUFFICES LocalChange(r)'
  BY DEF LocalChange, Picked
<1>1. ASSUME r.pc \in Funding, NEW o \in Outs, spentBy'[o] = r.t
      PROVE  o \in r.held \cup r.nsc
  <2>1. Funder(q) /\ r.t \in Txs
    BY <1>1 DEF PlanInv, FundersAlone, Typed, HasTx, Untied, Purging, Listing, Funding
  <2>2. Unplanned(r.t) /\ s[p].t # r.t
    BY <2>1 DEF Funder
  <2>3. r.t # NoTx
    BY <2>1, NamesAssumption DEF Outs
  <2>4. spentBy[o] = r.t
    BY <1>1, <2>2, <2>3 DEF Hands, GoesTo
  <2> QED
    BY <1>1, <2>4 DEF LocalChange
<1>2. \A v : Unplanned(v)' <=> Unplanned(v)
  BY DEF Unplanned, Own
<1> QED
  BY <1>1, <1>2 DEF LocalChange, Sight, Picked

LEMMA HandsKeep ==
  ASSUME Typed, PlanInv, ChangeInv, NEW p \in Procs, UNCHANGED <<plan, origin>>, Sight,
         Hands(p), \A q \in Procs \ {p} : s'[q] = s[q],
         LocalChange(s[p])', p = Monitor => PurgeVacates'
  PROVE  ChangeInv'
<1> Monitor \in Procs
  BY DEF Procs
<1>u. \A v : Unplanned(v)' <=> Unplanned(v)
  BY DEF Unplanned, Own
<1>t. ASSUME NEW t \in Txs, Unplanned(t), NEW o \in Outs, spentBy'[o] = t
      PROVE  spentBy[o] = t \/ (s[p].pc \in Funding /\ s[p].t = t)
  BY <1>t, NamesAssumption DEF Hands, GoesTo, Outs
<1>1. HasHolder'
  <2> SUFFICES ASSUME NEW o \in exists' PROVE o \in spendable' \/ spentBy'[o] # NoTx \/ Spent(o)'
    BY DEF HasHolder
  <2>1. Spent(o) => Spent(o)'
    BY DEF Spent, Sight
  <2> QED
    BY <2>1 DEF Hands, LeavesHolder, ChangeInv, HasHolder
<1>2. Traced'
  BY <1>u DEF Traced, ChangeInv, Sight, Hands, Parents
<1>3. Assigned'
  <2> SUFFICES ASSUME NEW o \in Outs, NEW t \in Txs, spentBy'[o] = t, ~Unplanned(t)
               PROVE  o \in plan[t].inputs
    BY <1>u DEF Assigned
  <2>1. s[p].pc \in Funding => Unplanned(s[p].t)
    BY DEF PlanInv, FundersAlone, Funder
  <2>2. spentBy[o] = t \/ o \in plan[t].inputs
    BY <2>1, NamesAssumption DEF Hands, GoesTo, Outs
  <2> QED
    BY <2>2 DEF ChangeInv, Assigned
<1>4. Vacant'
  <2> SUFFICES ASSUME NEW t \in Txs, Unplanned(t), tx'[t].status = "none", NEW o \in Outs,
                      spentBy'[o] = t
               PROVE  FALSE
    BY <1>u DEF Vacant
  <2>1. tx[t].status = "none"
    BY DEF Hands
  <2>2. spentBy[o] # t
    BY <2>1 DEF ChangeInv, Vacant
  <2>3. ~(s[p].pc \in Funding /\ s[p].t = t)
    BY <2>1 DEF PlanInv, FundersAlone, Funder
  <2> QED
    BY <1>t, <2>2, <2>3
<1>5. ASSUME p # Monitor PROVE PurgeVacates'
  <2> SUFFICES ASSUME s[Monitor].pc = "purgeTxs", NEW t \in s[Monitor].held \cap Txs,
                      Unplanned(t), NEW o \in Outs, spentBy'[o] = t
               PROVE  FALSE
    BY <1>5, <1>u DEF PurgeVacates
  <2>1. spentBy[o] # t
    BY DEF ChangeInv, PurgeVacates
  <2>2. s[p].pc \in Funding => s[p].t # t
    BY DEF PlanInv, FundersAlone, Funder, Deleting
  <2> QED
    BY <1>t, <2>1, <2>2
<1>6. \A q \in Procs : LocalChange(s[q])'
  BY OtherChange DEF ChangeInv
<1> QED
  BY <1>1, <1>2, <1>3, <1>4, <1>5, <1>6 DEF ChangeInv

RowsRemain == \A t \in Txs : tx'[t].status = "none" => tx[t].status = "none"

LEMMA SameHands ==
  ASSUME ChangeInv, NEW p, UNCHANGED outputs, RowsRemain
  PROVE  Hands(p)
  BY DEF outputs, Hands, GoesTo, LeavesHolder, ChangeInv, Traced, RowsRemain

(* Outputs that become spendable or are given back have no need of a holder. *)
LEMMA FreedHands ==
  ASSUME ChangeInv, NEW p, RowsRemain, UNCHANGED <<exists, change>>,
         spendable \subseteq spendable',
         \A o \in Outs : spentBy'[o] = spentBy[o] \/ (spentBy'[o] = NoTx /\ o \in spendable'),
         exists \subseteq Outs
  PROVE  Hands(p)
  BY DEF Hands, GoesTo, LeavesHolder, ChangeInv, Traced, RowsRemain

LEMMA ReleaseHands ==
  ASSUME Typed, ChangeInv, NEW p, NEW T, ReleaseInputs(T), RowsRemain
  PROVE  Hands(p)
<1>1. \A o \in Outs : spentBy'[o] = spentBy[o] \/ (spentBy'[o] = NoTx /\ o \in spendable')
  BY DEF ReleaseInputs
<1> QED
  BY <1>1, FreedHands DEF ReleaseInputs, Typed, TypeOK

LEMMA UpdateHands ==
  ASSUME Typed, ChangeInv, NEW p, NEW t \in Txs, NEW status, status # "none",
         updateTransactionStatus(t, status)
  PROVE  Hands(p)
<1>1. RowsRemain
  BY DEF updateTransactionStatus, RowsRemain, Typed, TypeOK, TxRow
<1> QED
  BY <1>1, ReleaseHands, SameHands DEF updateTransactionStatus

LEMMA CalmChange ==
  ASSUME Typed, PlanInv, ChangeInv, NEW p \in Procs, UNCHANGED <<plan, network>>,
         proven' \subseteq proven, Hands(p), \A q \in Procs \ {p} : s'[q] = s[q],
         s'[p].pc \notin Delicate \cup {"purgeTxs"}
  PROVE  ChangeInv'
<1>1. Sight
  BY SameSight DEF network
<1>2. LocalChange(s[p])'
  <2> PICK r : r = s'[p]
    OBVIOUS
  <2>1. r.pc \notin Delicate
    OBVIOUS
  <2> QED
    BY <2>1 DEF LocalChange, Delicate
<1>3. p = Monitor => PurgeVacates'
  BY DEF PurgeVacates
<1> QED
  BY <1>1, <1>2, <1>3, HandsKeep DEF network

LEMMA ReturnChange ==
  ASSUME Typed, PlanInv, ChangeInv, NEW p \in Procs, UNCHANGED <<plan, network>>,
         proven' \subseteq proven, Hands(p), Return(p)
  PROVE  ChangeInv'
<1>1. s'[p] = Idle /\ \A q \in Procs \ {p} : s'[q] = s[q]
  BY DEF Return, Typed, TypeOK
<1>2. s'[p].pc \notin Delicate \cup {"purgeTxs"}
  BY <1>1, IdleTyped, IdleDelicate
<1> QED
  BY <1>1, <1>2, CalmChange

LEMMA GotoChange ==
  ASSUME Typed, PlanInv, ChangeInv, NEW p \in Procs, UNCHANGED <<plan, network>>,
         proven' \subseteq proven, Hands(p), NEW pc, pc \notin Delicate \cup {"purgeTxs"},
         Goto(p, pc)
  PROVE  ChangeInv'
<1>1. s'[p].pc = pc /\ \A q \in Procs \ {p} : s'[q] = s[q]
  BY DEF Goto, Typed, TypeOK, Session
<1> QED
  BY <1>1, CalmChange

(* Only s changes, and the process goes on with care. *)
LEMMA QuietChange ==
  ASSUME Typed, PlanInv, ChangeInv, NEW p \in Callers, UNCHANGED <<tables, plan, network>>,
         \A q \in Procs \ {p} : s'[q] = s[q], LocalChange(s[p])'
  PROVE  ChangeInv'
<1> p \in Procs /\ p # Monitor
  BY NamesAssumption DEF Procs
<1>1. Hands(p) /\ Sight
  BY SameHands, SameSight DEF tables, outputs, network, RowsRemain
<1> QED
  BY <1>1, HandsKeep DEF network
----------------------------------------------------------------------------
(* createAction *)

LEMMA FundingChange ==
  ASSUME Typed, PlanInv, ChangeInv, NEW p \in Callers, UNCHANGED <<plan, network>>,
         proven' \subseteq proven, Hands(p), \A q \in Procs \ {p} : s'[q] = s[q],
         s'[p].pc \in Funding, s'[p].nsc \subseteq s'[p].given,
         s'[p].pc \notin {"fund", "release"} => s'[p].nsc = {},
         \A v \in Picked(s[p])' \cap Txs : ~Unplanned(v),
         \A o \in Outs : spentBy'[o] = s'[p].t => o \in s'[p].held \cup s'[p].nsc
  PROVE  ChangeInv'
<1> p \in Procs /\ p # Monitor
  BY NamesAssumption DEF Procs
<1>1. Sight
  BY SameSight DEF network
<1>2. Funding \cap OfMined = {} /\ Funding \cap Forgetting = {} /\ Funding \cap Filtering = {}
  BY DEF Funding, OfMined, Forgetting, Filtering
<1>3. \A v : Unplanned(v)' <=> Unplanned(v)
  BY DEF Unplanned, Own, network
<1>4. LocalChange(s[p])'
  <2> PICK r : r = s'[p]
    OBVIOUS
  <2>1. \A v \in Picked(r) \cap Txs : ~Unplanned(v)
    BY DEF Picked
  <2>2. LocalChange(r)'
    BY <1>2, <1>3, <2>1 DEF LocalChange, Picked
  <2> QED
    BY <2>2 DEF LocalChange, Picked
<1> QED
  BY <1>1, <1>4, HandsKeep DEF network

LEMMA NewTxChange ==
  ASSUME Typed, PlanInv, ChangeInv, NEW p \in Callers, NEW t \in Txs, createNewTxRecord(p, t)
  PROVE  ChangeInv'
<1> p \in Procs /\ s[p] \in Session
  BY DEF Procs, Typed, TypeOK
<1>1. PICK mode \in Modes :
        \E given \in SUBSET (IF mode = "noSend" THEN NoSendChange ELSE {}) :
        \E fixed \in SUBSET RequiredInputs :
          s' = [s EXCEPT ![p] = [Idle EXCEPT !.pc = "fund", !.t = t, !.mode = mode,
                                   !.given = given, !.nsc = given, !.fixed = fixed]]
  BY DEF createNewTxRecord
<1>2. PICK given \in SUBSET (IF mode = "noSend" THEN NoSendChange ELSE {}) :
        \E fixed \in SUBSET RequiredInputs :
          s' = [s EXCEPT ![p] = [Idle EXCEPT !.pc = "fund", !.t = t, !.mode = mode,
                                   !.given = given, !.nsc = given, !.fixed = fixed]]
  BY <1>1
<1>3. PICK fixed \in SUBSET RequiredInputs :
        s' = [s EXCEPT ![p] = [Idle EXCEPT !.pc = "fund", !.t = t, !.mode = mode,
                                 !.given = given, !.nsc = given, !.fixed = fixed]]
  BY <1>2
<1>4. /\ s'[p] = [Idle EXCEPT !.pc = "fund", !.t = t, !.mode = mode,
                    !.given = given, !.nsc = given, !.fixed = fixed]
      /\ \A q \in Procs \ {p} : s'[q] = s[q]
  BY <1>3 DEF Typed, TypeOK
<1>5. /\ s'[p].pc = "fund" /\ s'[p].t = t /\ s'[p].given = given /\ s'[p].nsc = given
      /\ s'[p].fixed = fixed /\ s'[p].held = {}
  BY <1>4 DEF Idle
<1>6. \A v \in given \cap Txs : ~Unplanned(v)
  BY DEF NoSendChange, PlanInv, PlansFirst, Unknown
<1>7. \A v \in fixed \cap Txs : ~Unplanned(v)
  BY DEF RequiredInputs, ChangeInv, Traced
<1>8. Hands(p)
  BY SameHands DEF createNewTxRecord, RowsRemain, Typed, TypeOK, TxRow
<1>9. \A o \in Outs : spentBy'[o] # t
  BY DEF createNewTxRecord, ChangeInv, Vacant, Unplanned, outputs
<1>10. \A v \in Picked(s[p])' \cap Txs : ~Unplanned(v)
  BY <1>5, <1>6, <1>7 DEF Picked
<1> QED
  BY <1>4, <1>5, <1>8, <1>9, <1>10, FundingChange DEF createNewTxRecord, Funding

(* The call returns: what is assigned to the action is what its caller was *)
(* told to spend.                                                          *)
LEMMA ResultChange ==
  ASSUME Typed, PlanInv, ChangeInv, NEW p \in Callers, createActionReturns(p)
  PROVE  ChangeInv'
<1> DEFINE t == s[p].t
<1> p \in Procs /\ s[p] \in Session /\ p # Monitor /\ Monitor \in Procs
  BY NamesAssumption DEF Procs, Typed, TypeOK
<1>1. /\ s[p].pc = "lockFixed" /\ s[p].pc \in Funding
      /\ UNCHANGED <<tx, proven, exists, spendable, spentBy, change, known, mined, origin>>
      /\ plan' = [plan EXCEPT ![t] = [ready |-> TRUE, mode |-> s[p].mode, inputs |-> s[p].held]]
  BY DEF createActionReturns, At, tables, network, Funding
<1>2. Unplanned(t) /\ t \in Txs
  BY <1>1 DEF PlanInv, FundersAlone, Funder, Typed, HasTx, Untied, Purging, Listing, Funding
<1>3. /\ \A u \in Txs \ {t} : plan'[u] = plan[u]
      /\ plan'[t].ready /\ plan'[t].inputs = s[p].held
  BY <1>1, <1>2 DEF Typed, TypeOK
<1>4. \A u \in Txs : Unplanned(u)' => Unplanned(u) /\ u # t
  BY <1>1, <1>2, <1>3 DEF Unplanned, Own
<1>5. s'[p] = Idle /\ \A q \in Procs \ {p} : s'[q] = s[q]
  BY DEF createActionReturns, Return, Typed, TypeOK
<1>6. /\ \A o \in Outs : spentBy[o] = t => o \in s[p].held
      /\ \A v \in s[p].held \cap Txs : ~Unplanned(v)
  BY <1>1 DEF ChangeInv, LocalChange, Picked
<1>7. t \notin known /\ known \subseteq Txs
  BY <1>2 DEF ChangeInv, Traced, Typed, TypeOK
<1>8. HasHolder'
  <2>1. ASSUME NEW o, Spent(o) PROVE Spent(o)'
    BY <1>1, <1>3, <1>7, <2>1 DEF Spent
  <2> QED
    BY <1>1, <2>1 DEF HasHolder, ChangeInv
<1>9. Traced'
  <2>1. \A u \in known : ~Unplanned(u)'
    BY <1>4, <1>7 DEF ChangeInv, Traced
  <2>2. ASSUME NEW u \in Txs, NEW v \in Parents(u)' PROVE ~Unplanned(v)'
    <3>1. CASE u = t
      BY <1>3, <1>4, <1>6, <3>1 DEF Parents
    <3>2. CASE u # t
      <4>1. v \in Parents(u) /\ v \in Txs
        BY <1>3, <3>2 DEF Parents
      <4> QED
        BY <1>4, <4>1 DEF ChangeInv, Traced
    <3> QED
      BY <3>1, <3>2
  <2> QED
    BY <1>1, <1>4, <2>1, <2>2 DEF ChangeInv, Traced
<1>10. Assigned'
  <2> SUFFICES ASSUME NEW o \in Outs, spentBy[o] \in Txs, ~Unplanned(spentBy[o])'
               PROVE  o \in plan'[spentBy[o]].inputs
    BY <1>1 DEF Assigned
  <2>1. CASE spentBy[o] = t
    BY <1>3, <1>6, <2>1
  <2>2. CASE spentBy[o] # t
    <3>1. ~Unplanned(spentBy[o])
      BY <1>1, <1>3, <2>2 DEF Unplanned, Own
    <3> QED
      BY <1>3, <2>2, <3>1 DEF ChangeInv, Assigned
  <2> QED
    BY <2>1, <2>2
<1>11. Vacant' /\ PurgeVacates'
  BY <1>1, <1>4, <1>5 DEF Vacant, PurgeVacates, ChangeInv
<1>12. ASSUME NEW q \in Procs PROVE LocalChange(s[q])'
  <2>1. CASE q = p
    <3> PICK r : r = s'[q]
      OBVIOUS
    <3>1. r.pc \notin Delicate
      BY <1>5, <2>1, IdleDelicate
    <3> QED
      BY <3>1 DEF LocalChange, Delicate
  <2>2. CASE q # p
    <3> PICK r : r = s'[q]
      OBVIOUS
    <3>1. LocalChange(r) /\ r = s[q]
      BY <1>5, <2>2 DEF ChangeInv
    <3>2. \A v \in Picked(r) \cap Txs : Unplanned(v)' => Unplanned(v)
      BY <1>4
    <3>3. LocalChange(r)'
      BY <1>1, <3>1, <3>2 DEF LocalChange, Picked
    <3> QED
      BY <3>3 DEF LocalChange, Picked
  <2> QED
    BY <2>1, <2>2
<1> QED
  BY <1>8, <1>9, <1>10, <1>11, <1>12 DEF ChangeInv

LEMMA CreateChange ==
  ASSUME Typed, PlanInv, ChangeInv, NEW p \in Callers, CreateActionStep(p)
  PROVE  ChangeInv'
<1> p \in Procs /\ s[p] \in Session /\ p # Monitor /\ spentBy \in [Outs -> Txs \cup {NoTx}]
    /\ s \in [Procs -> Session] /\ exists \subseteq Outs
  BY NamesAssumption DEF Procs, Typed, TypeOK
<1>l. LocalChange(s[p])
  BY DEF ChangeInv
<1>f. ASSUME s[p].pc \in Funding
      PROVE  Unplanned(s[p].t) /\ s[p].t \in Txs /\ s[p].t # NoTx
             /\ tx[s[p].t].status \notin {"none", "failed"}
  BY <1>f, NamesAssumption DEF PlanInv, FundersAlone, Funder, Typed, HasTx, Untied, Purging,
     Listing, Funding, Outs
<1>p. /\ {"fund", "release", "insertOutputs", "mergeChangeBeefs", "lockFixed"} = Funding
  BY DEF Funding
<1>0. ASSUME NEW t \in Txs, createNewTxRecord(p, t) PROVE ChangeInv'
  BY <1>0, NewTxChange
<1>o. ASSUME s[p].pc \in Funding, UNCHANGED outputs, UNCHANGED tx PROVE Hands(p)
  BY <1>o, SameHands DEF RowsRemain
<1>k. ASSUME NEW o \in Outs, s[p].pc \in Funding, UNCHANGED <<tx, exists, change>>,
             LockOutput(o, s[p].t)
      PROVE  Hands(p)
  <2>1. \A x \in Outs : spentBy'[x] = spentBy[x] \/ spentBy'[x] = s[p].t
    BY <1>k DEF LockOutput
  <2>2. \A x \in exists' : LeavesHolder(x)
    BY <1>k, <1>f DEF LeavesHolder, LockOutput
  <2> QED
    BY <1>k, <2>1, <2>2 DEF Hands, GoesTo, ChangeInv, Traced
<1>1. CASE allocateNoSendChange(p)
  <2>1. PICK o \in s[p].nsc :
          /\ LockOutput(o, s[p].t)
          /\ s' = [s EXCEPT ![p].nsc = @ \ {o}, ![p].held = @ \cup {o}]
    BY <1>1 DEF allocateNoSendChange
  <2>2. s[p].pc = "fund" /\ s[p].pc \in Funding /\ o \in Outs
    BY <1>1, <1>p DEF allocateNoSendChange, At, Session
  <2>3. /\ s'[p].pc = "fund" /\ s'[p].t = s[p].t /\ s'[p].nsc = s[p].nsc \ {o}
        /\ s'[p].held = s[p].held \cup {o} /\ s'[p].given = s[p].given /\ s'[p].fixed = s[p].fixed
        /\ \A q \in Procs \ {p} : s'[q] = s[q]
    BY <2>1, <2>2 DEF Session
  <2>4. Hands(p)
    BY <1>1, <1>k, <2>1, <2>2 DEF allocateNoSendChange
  <2>5. \A v \in Picked(s[p])' \cap Txs : ~Unplanned(v)
    BY <1>l, <2>2, <2>3 DEF LocalChange, Picked
  <2>6. \A x \in Outs : spentBy'[x] = s'[p].t => x \in s'[p].held \cup s'[p].nsc
    BY <1>l, <2>1, <2>2, <2>3 DEF LocalChange, LockOutput
  <2>7. s'[p].nsc \subseteq s'[p].given
    BY <1>l, <2>2, <2>3 DEF LocalChange
  <2> QED
    BY <1>1, <1>p, <2>3, <2>4, <2>5, <2>6, <2>7, FundingChange DEF allocateNoSendChange
<1>2. CASE allocateChangeInput(p)
  <2>1. PICK o \in AvailableChange(s[p].mode) :
          LockOutput(o, s[p].t) /\ s' = [s EXCEPT ![p].held = @ \cup {o}]
    BY <1>2 DEF allocateChangeInput
  <2>2. s[p].pc = "fund" /\ s[p].pc \in Funding /\ s[p].nsc = {} /\ o \in Outs
    BY <1>2, <1>p DEF allocateChangeInput, At, AvailableChange
  <2>3. /\ s'[p].pc = "fund" /\ s'[p].t = s[p].t /\ s'[p].nsc = s[p].nsc
        /\ s'[p].held = s[p].held \cup {o} /\ s'[p].given = s[p].given /\ s'[p].fixed = s[p].fixed
        /\ \A q \in Procs \ {p} : s'[q] = s[q]
    BY <2>1, <2>2 DEF Session
  <2>4. Hands(p)
    BY <1>2, <1>k, <2>1, <2>2 DEF allocateChangeInput
  <2>5. o \in Txs => ~Unplanned(o)
    BY DEF AvailableChange, UsableStatus, OwnerStatus, PlanInv, PlansFirst, Unknown
  <2>6. \A v \in Picked(s[p])' \cap Txs : ~Unplanned(v)
    BY <1>l, <2>2, <2>3, <2>5 DEF LocalChange, Picked
  <2>7. \A x \in Outs : spentBy'[x] = s'[p].t => x \in s'[p].held \cup s'[p].nsc
    BY <1>l, <2>1, <2>2, <2>3 DEF LocalChange, LockOutput
  <2>8. s'[p].nsc \subseteq s'[p].given
    BY <1>l, <2>2, <2>3 DEF LocalChange
  <2> QED
    BY <1>2, <1>p, <2>3, <2>4, <2>6, <2>7, <2>8, FundingChange DEF allocateChangeInput
<1>3. CASE startRelease(p)
  <2>1. PICK retry \in BOOLEAN : s' = [s EXCEPT ![p].pc = "release", ![p].again = retry]
    BY <1>3 DEF startRelease
  <2>2. s[p].pc \in Funding
    BY <1>3, <1>p DEF startRelease, At
  <2>3. /\ s'[p].pc = "release" /\ s'[p].t = s[p].t /\ s'[p].nsc = s[p].nsc
        /\ s'[p].held = s[p].held /\ s'[p].given = s[p].given /\ s'[p].fixed = s[p].fixed
        /\ \A q \in Procs \ {p} : s'[q] = s[q]
    BY <2>1 DEF Session
  <2>4. UNCHANGED outputs /\ UNCHANGED <<tx, proven, plan, network>>
    BY <1>3 DEF startRelease, tables, outputs
  <2>5. \A v \in Picked(s[p])' \cap Txs : ~Unplanned(v)
    BY <1>l, <2>2, <2>3 DEF LocalChange, Picked
  <2>6. /\ s'[p].nsc \subseteq s'[p].given
        /\ \A x \in Outs : spentBy'[x] = s'[p].t => x \in s'[p].held \cup s'[p].nsc
    BY <1>l, <2>2, <2>3, <2>4 DEF LocalChange, outputs
  <2> QED
    BY <1>o, <1>p, <2>2, <2>3, <2>4, <2>5, <2>6, FundingChange
<1>4. CASE releaseChangeInput(p)
  <2>1. PICK o \in s[p].held :
          \/ /\ o \in s[p].given
             /\ s' = [s EXCEPT ![p].held = @ \ {o}, ![p].nsc = @ \cup {o}]
             /\ UNCHANGED <<spendable, spentBy>>
          \/ /\ o \notin s[p].given
             /\ UnlockOutput(o)
             /\ s' = [s EXCEPT ![p].held = @ \ {o}]
    BY <1>4 DEF releaseChangeInput
  <2>2. s[p].pc = "release" /\ s[p].pc \in Funding /\ o \in Outs
    BY <1>4, <1>p DEF releaseChangeInput, At, Session
  <2>n. UNCHANGED <<tx, proven, exists, change, plan, network>>
    BY <1>4 DEF releaseChangeInput
  <2>3. CASE /\ o \in s[p].given
             /\ s' = [s EXCEPT ![p].held = @ \ {o}, ![p].nsc = @ \cup {o}]
             /\ UNCHANGED <<spendable, spentBy>>
    <3>1. /\ s'[p].pc = "release" /\ s'[p].t = s[p].t /\ s'[p].nsc = s[p].nsc \cup {o}
          /\ s'[p].held = s[p].held \ {o} /\ s'[p].given = s[p].given
          /\ s'[p].fixed = s[p].fixed /\ \A q \in Procs \ {p} : s'[q] = s[q]
      BY <2>2, <2>3 DEF Session
    <3>2. \A v \in Picked(s[p])' \cap Txs : ~Unplanned(v)
      BY <1>l, <2>2, <3>1 DEF LocalChange, Picked
    <3>3. /\ s'[p].nsc \subseteq s'[p].given
          /\ \A x \in Outs : spentBy'[x] = s'[p].t => x \in s'[p].held \cup s'[p].nsc
      BY <1>l, <2>2, <2>3, <3>1 DEF LocalChange
    <3>4. Hands(p)
      BY <1>o, <2>2, <2>3, <2>n DEF outputs
    <3> QED
      BY <1>p, <2>2, <2>n, <3>1, <3>2, <3>3, <3>4, FundingChange
  <2>4. CASE /\ o \notin s[p].given
             /\ UnlockOutput(o)
             /\ s' = [s EXCEPT ![p].held = @ \ {o}]
    <3>1. /\ s'[p].pc = "release" /\ s'[p].t = s[p].t /\ s'[p].nsc = s[p].nsc
          /\ s'[p].held = s[p].held \ {o} /\ s'[p].given = s[p].given
          /\ s'[p].fixed = s[p].fixed /\ \A q \in Procs \ {p} : s'[q] = s[q]
      BY <2>2, <2>4 DEF Session
    <3>2. \A v \in Picked(s[p])' \cap Txs : ~Unplanned(v)
      BY <1>l, <2>2, <3>1 DEF LocalChange, Picked
    <3>3. /\ s'[p].nsc \subseteq s'[p].given
          /\ \A x \in Outs : spentBy'[x] = s'[p].t => x \in s'[p].held \cup s'[p].nsc
      BY <1>f, <1>l, <2>2, <2>4, <3>1 DEF LocalChange, UnlockOutput
    <3>4. Hands(p)
      <4>1. \A x \in Outs : spentBy'[x] = spentBy[x] \/ (spentBy'[x] = NoTx /\ x \in spendable')
        BY <2>4 DEF UnlockOutput
      <4> QED
        BY <2>4, <2>n, <4>1, FreedHands DEF UnlockOutput, RowsRemain
    <3> QED
      BY <1>p, <2>2, <2>n, <3>1, <3>2, <3>3, <3>4, FundingChange
  <2> QED
    BY <2>1, <2>3, <2>4
<1>5. ASSUME NEW pc \in Funding, s[p].pc \in Funding, Goto(p, pc),
             UNCHANGED <<tx, proven, outputs, plan, network>>,
             pc \notin {"fund", "release"} => s[p].nsc = {}
      PROVE  ChangeInv'
  <2>1. /\ s'[p].pc = pc /\ s'[p].t = s[p].t /\ s'[p].nsc = s[p].nsc
        /\ s'[p].held = s[p].held /\ s'[p].given = s[p].given
        /\ s'[p].fixed = s[p].fixed /\ \A q \in Procs \ {p} : s'[q] = s[q]
    BY <1>5 DEF Session, Goto
  <2>2. \A v \in Picked(s[p])' \cap Txs : ~Unplanned(v)
    BY <1>l, <1>5, <2>1 DEF LocalChange, Picked
  <2>3. /\ s'[p].nsc \subseteq s'[p].given
        /\ \A x \in Outs : spentBy'[x] = s'[p].t => x \in s'[p].held \cup s'[p].nsc
    BY <1>l, <1>5, <2>1 DEF LocalChange, outputs
  <2> QED
    BY <1>o, <1>5, <2>1, <2>2, <2>3, FundingChange
<1>6. CASE released(p)
  <2>1. s[p].pc = "release" /\ s[p].pc \in Funding /\ UNCHANGED <<tx, proven, outputs, plan, network>>
    BY <1>6, <1>p DEF released, At, tables, outputs
  <2>2. CASE Goto(p, "fund")
    BY <1>5, <1>p, <2>1, <2>2
  <2>3. CASE Return(p)
    BY <1>o, <2>1, <2>3, ReturnChange
  <2> QED
    BY <1>6, <2>2, <2>3 DEF released
<1>7. CASE funded(p)
  <2>1. s[p].pc \in Funding /\ UNCHANGED <<tx, proven, outputs, plan, network>>
        /\ Goto(p, "insertOutputs") /\ s[p].nsc = {}
    BY <1>7, <1>p DEF funded, At, tables, outputs
  <2> QED
    BY <1>5, <1>p, <2>1
<1>8. CASE createNewOutputs(p)
  <2>1. s[p].pc = "insertOutputs" /\ s[p].pc \in Funding
        /\ UNCHANGED <<tx, proven, spentBy, plan, network>>
    BY <1>8, <1>p DEF createNewOutputs, At
  <2>2. /\ s'[p].pc = "mergeChangeBeefs" /\ s'[p].t = s[p].t /\ s'[p].nsc = s[p].nsc
        /\ s'[p].held = s[p].held /\ s'[p].given = s[p].given
        /\ s'[p].fixed = s[p].fixed /\ \A q \in Procs \ {p} : s'[q] = s[q]
    BY <1>8 DEF createNewOutputs, Session, Goto
  <2>3. \A v \in Picked(s[p])' \cap Txs : ~Unplanned(v)
    BY <1>l, <2>1, <2>2 DEF LocalChange, Picked
  <2>4. /\ s'[p].nsc \subseteq s'[p].given /\ s[p].nsc = {}
        /\ \A x \in Outs : spentBy'[x] = s'[p].t => x \in s'[p].held \cup s'[p].nsc
    BY <1>l, <2>1, <2>2 DEF LocalChange
  <2>5. Hands(p)
    <3>1. exists' = exists \cup {s[p].t} /\ spendable' = spendable \cup {s[p].t}
          /\ change' = change \cup {s[p].t}
      BY <1>8 DEF createNewOutputs
    <3> QED
      BY <2>1, <3>1 DEF Hands, GoesTo, LeavesHolder, ChangeInv, Traced
  <2> QED
    BY <1>p, <2>1, <2>2, <2>3, <2>4, <2>5, FundingChange
<1>9. CASE mergeAllocatedChangeBeefs(p)
  <2>1. s[p].pc = "mergeChangeBeefs" /\ s[p].pc \in Funding
        /\ UNCHANGED <<tx, proven, outputs, plan, network>>
    BY <1>9, <1>p DEF mergeAllocatedChangeBeefs, At, tables, outputs
  <2>2. CASE Goto(p, "lockFixed")
    BY <1>5, <1>l, <1>p, <2>1, <2>2 DEF LocalChange
  <2>3. CASE Return(p)
    BY <1>o, <2>1, <2>3, ReturnChange
  <2> QED
    BY <1>9, <2>2, <2>3 DEF mergeAllocatedChangeBeefs
<1>10. CASE createNewInput(p)
  <2>1. PICK o \in Pending(p) : LockOutput(o, s[p].t) /\ s' = [s EXCEPT ![p].held = @ \cup {o}]
    BY <1>10 DEF createNewInput
  <2>2. s[p].pc = "lockFixed" /\ s[p].pc \in Funding /\ o \in Outs /\ o \in s[p].fixed
    BY <1>10, <1>p DEF createNewInput, At, Pending, Session
  <2>3. /\ s'[p].pc = "lockFixed" /\ s'[p].t = s[p].t /\ s'[p].nsc = s[p].nsc
        /\ s'[p].held = s[p].held \cup {o} /\ s'[p].given = s[p].given /\ s'[p].fixed = s[p].fixed
        /\ \A q \in Procs \ {p} : s'[q] = s[q]
    BY <2>1, <2>2 DEF Session
  <2>4. Hands(p)
    BY <1>10, <1>k, <2>1, <2>2 DEF createNewInput
  <2>5. \A v \in Picked(s[p])' \cap Txs : ~Unplanned(v)
    BY <1>l, <2>2, <2>3 DEF LocalChange, Picked
  <2>6. \A x \in Outs : spentBy'[x] = s'[p].t => x \in s'[p].held \cup s'[p].nsc
    BY <1>l, <2>1, <2>2, <2>3 DEF LocalChange, LockOutput
  <2>7. s'[p].nsc \subseteq s'[p].given /\ s'[p].nsc = {}
    BY <1>l, <2>2, <2>3 DEF LocalChange
  <2> QED
    BY <1>10, <1>p, <2>3, <2>4, <2>5, <2>6, <2>7, FundingChange DEF createNewInput
<1>11. CASE createNewInputThrows(p)
  <2>1. s[p].pc \in Funding /\ UNCHANGED <<tx, proven, outputs, plan, network>> /\ Return(p)
    BY <1>11, <1>p DEF createNewInputThrows, At, tables, outputs
  <2> QED
    BY <1>o, <2>1, ReturnChange
<1> QED
  BY <1>0, <1>1, <1>2, <1>3, <1>4, <1>6, <1>7, <1>8, <1>9, <1>10, <1>11, ResultChange
     DEF CreateActionStep

----------------------------------------------------------------------------
(* Posting, the other calls                                                *)

LEMMA PackageKnown ==
  ASSUME ChangeInv, NEW t \in Txs, ~Unplanned(t)
  PROVE  \A u \in Package(t) : ~Unplanned(u)
<1> DEFINE T == {u \in Txs : ~Unplanned(u)}
<1>1. t \in T /\ T \in SUBSET Txs /\ \A v \in T : Parents(v) \subseteq T
  BY DEF ChangeInv, Traced, Parents
<1>2. Package(t) \subseteq T
  BY <1>1, PackageFacts
<1> QED
  BY <1>2

LEMMA PostChange ==
  ASSUME Typed, PlanInv, ChangeInv, NEW p \in Procs, PostStep(p)
  PROVE  ChangeInv'
<1> s[p] \in Session
  BY DEF Typed, TypeOK
<1>p. /\ Posting \cap (Delicate \cup {"purgeTxs"}) = {} /\ Posting \cap Untied = {}
      /\ Posting \cap (Funding \cup {"failAbandoned"}) = {}
  BY DEF Posting, Delicate, Funding, OfMined, Forgetting, Filtering, Untied, Purging, Listing
<1>s. ASSUME UNCHANGED outputs, UNCHANGED tx PROVE Hands(p)
  BY <1>s, SameHands DEF RowsRemain
<1>1. CASE mergeBeef(p)
  <2>1. UNCHANGED <<tx, proven, outputs, plan, network>> /\ Goto(p, "postBeef")
    BY <1>1 DEF mergeBeef, tables, outputs
  <2> QED
    BY <1>p, <1>s, <2>1, GotoChange DEF Posting
<1>2. CASE mergeBeefThrows(p)
  BY <1>2, <1>s, ReturnChange DEF mergeBeefThrows
<1>3. CASE postBeef(p)
  <2>1. s[p].pc = "postBeef" /\ UNCHANGED <<tx, proven, outputs, plan, mined, origin>>
    BY <1>3 DEF postBeef, At, tables, outputs
  <2>2. s[p].t \in Txs /\ ~Unplanned(s[p].t)
    BY <1>p, <2>1, Planned DEF Typed, HasTx, Posting
  <2>3. PICK arrived, verdict :
          /\ s' = [s EXCEPT ![p].pc = "transferNotes", ![p].verdict = verdict]
          /\ known' = IF arrived THEN known \cup Package(s[p].t) ELSE known
    BY <1>3 DEF postBeef
  <2>4. s'[p].pc = "transferNotes" /\ \A q \in Procs \ {p} : s'[q] = s[q]
    BY <2>3 DEF Typed, TypeOK, Session
  <2>5. Sight
    BY <2>1, <2>2, <2>3, PackageKnown DEF Sight, ChangeInv, Traced
  <2>6. LocalChange(s[p])'
    <3> PICK r : r = s'[p]
      OBVIOUS
    <3>1. r.pc \notin Delicate
      BY <1>p, <2>4 DEF Posting
    <3> QED
      BY <3>1 DEF LocalChange, Delicate
  <2>7. PurgeVacates' \/ p # Monitor
    BY <2>4 DEF PurgeVacates
  <2> QED
    BY <1>s, <2>1, <2>4, <2>5, <2>6, <2>7, HandsKeep
<1>4. CASE transferNotes(p)
  BY <1>4, <1>p, <1>s, GotoChange DEF transferNotes, Posting
<1>5. CASE refreshReq(p)
  <2>1. UNCHANGED <<tx, proven, outputs, plan, network>>
    BY <1>5 DEF refreshReq, tables, outputs
  <2>2. CASE Return(p)
    BY <1>s, <2>1, <2>2, ReturnChange
  <2>3. CASE s' = [s EXCEPT ![p].copy = req[s[p].t], ![p].pc = "updateReq"]
    <3>1. s'[p].pc = "updateReq" /\ \A q \in Procs \ {p} : s'[q] = s[q]
      BY <2>3 DEF Typed, TypeOK, Session
    <3> QED
      BY <1>p, <1>s, <2>1, <3>1, CalmChange DEF Posting
  <2> QED
    BY <1>5, <2>2, <2>3 DEF refreshReq
<1>6. CASE updateReqFromResult(p)
  <2>1. PICK verdict : s' = [s EXCEPT ![p].verdict = verdict, ![p].pc = "updateTx"]
    BY <1>6 DEF updateReqFromResult
  <2>2. s'[p].pc = "updateTx" /\ \A q \in Procs \ {p} : s'[q] = s[q]
    BY <2>1 DEF Typed, TypeOK, Session
  <2> QED
    BY <1>6, <1>p, <1>s, <2>2, CalmChange DEF updateReqFromResult, Posting
<1>7. CASE updateTxFromResult(p)
  <2>1. s[p].pc = "updateTx" /\ UNCHANGED <<proven, plan, network>> /\ Return(p)
    BY <1>7 DEF updateTxFromResult, At
  <2>2. s[p].t \in Txs /\ s[p].verdict \in Verdicts \ {"none"}
    BY <1>p, <2>1 DEF Typed, HasTx, HasVerdict, Posted, Posting, Session
  <2>3. NewStatus(s[p].verdict).tx # "none"
    BY <2>2, NewStatusTyped DEF Verdicts, NewStatus
  <2>4. Hands(p)
    BY <1>7, <1>s, <2>2, <2>3, UpdateHands DEF updateTxFromResult
  <2> QED
    BY <2>1, <2>4, ReturnChange
<1> QED
  BY <1>1, <1>2, <1>3, <1>4, <1>5, <1>6, <1>7 DEF PostStep

LEMMA AbortHands ==
  ASSUME Typed, ChangeInv, NEW p, NEW t \in Txs, abortTx(t)
  PROVE  Hands(p)
  BY UpdateHands DEF abortTx

LEMMA ProcessChange ==
  ASSUME Typed, PlanInv, ChangeInv, NEW p \in Callers, ProcessActionStep(p)
  PROVE  ChangeInv'
<1> p \in Procs /\ s[p] \in Session
  BY DEF Procs, Typed, TypeOK
<1>p. {"commit", "share", "bump", "mergeBeef", "idle"} \cap (Delicate \cup {"purgeTxs"}) = {}
      /\ {"commit", "bump"} \cap Untied = {}
  BY DEF Delicate, Funding, OfMined, Forgetting, Filtering, Untied, Purging, Listing
<1>1. CASE \E t \in Txs : validateCommitNewTx(p, t) \/ sendWith(p, t)
  <2> PICK t \in Txs : validateCommitNewTx(p, t) \/ sendWith(p, t)
    BY <1>1
  <2>1. UNCHANGED <<tx, proven, outputs, plan, network>>
    BY DEF validateCommitNewTx, sendWith, tables, outputs
  <2>2. PICK pc \in {"commit", "share"} : \E mode :
          s' = [s EXCEPT ![p] = [Idle EXCEPT !.pc = pc, !.t = t, !.mode = mode]]
    BY DEF validateCommitNewTx, sendWith
  <2>3. s'[p].pc = pc /\ \A q \in Procs \ {p} : s'[q] = s[q]
    BY <2>2 DEF Typed, TypeOK, Idle
  <2>4. Hands(p)
    BY <2>1, SameHands DEF RowsRemain
  <2> QED
    BY <1>p, <2>1, <2>3, <2>4, CalmChange
<1>2. CASE \E t \in Txs : abortAction(p, t)
  <2> PICK t \in Txs : abortAction(p, t)
    BY <1>2
  <2>1. s'[p].pc = "idle" /\ UNCHANGED <<s, plan, proven, network>>
    BY DEF abortAction, At
  <2>2. Hands(p)
    BY AbortHands DEF abortAction
  <2> QED
    BY <1>p, <2>1, <2>2, CalmChange
<1>3. CASE commitNewTxToStorage(p) \/ bumpToUnsent(p)
  <2>1. s[p].pc \in {"commit", "bump"} /\ UNCHANGED <<proven, plan, network>>
    BY <1>3 DEF commitNewTxToStorage, bumpToUnsent, At
  <2>2. s[p].t \in Txs
    BY <2>1, <1>p DEF Typed, HasTx
  <2>3. PICK status \in {"sending", "nosend", "unprocessed"} :
          tx' = [tx EXCEPT ![s[p].t] = UpdateTx(s[p].t, [@ EXCEPT !.status = status])]
    BY <1>3 DEF commitNewTxToStorage, bumpToUnsent, CreateStatus, Typed, TypeOK, Session,
       Modes
  <2>4. RowsRemain
    BY <2>2, <2>3 DEF RowsRemain, UpdateTx, Typed, TypeOK, TxRow
  <2>5. /\ UNCHANGED <<exists, change, spentBy>> /\ spendable \subseteq spendable'
    BY <1>3 DEF commitNewTxToStorage, bumpToUnsent, outputs
  <2>6. Hands(p)
    BY <2>4, <2>5, FreedHands DEF Typed, TypeOK
  <2> QED
    BY <1>3, <1>p, <2>1, <2>6, ReturnChange, GotoChange DEF commitNewTxToStorage, bumpToUnsent
<1>4. CASE getReqsAndBeef(p)
  <2>1. UNCHANGED <<tx, proven, outputs, plan, network>>
    BY <1>4 DEF getReqsAndBeef, tables, outputs
  <2>2. \/ Return(p)
        \/ \E pc \in {"bump", "mergeBeef"} :
             s' = [s EXCEPT ![p].copy = req[s[p].t], ![p].pc = pc]
    BY <1>4 DEF getReqsAndBeef
  <2>3. Hands(p)
    BY <2>1, SameHands DEF RowsRemain
  <2>4. ASSUME NEW pc \in {"bump", "mergeBeef"},
               s' = [s EXCEPT ![p].copy = req[s[p].t], ![p].pc = pc]
        PROVE  ChangeInv'
    <3>1. s'[p].pc = pc /\ \A q \in Procs \ {p} : s'[q] = s[q]
      BY <2>4 DEF Typed, TypeOK, Session
    <3> QED
      BY <1>p, <2>1, <2>3, <3>1, CalmChange
  <2> QED
    BY <2>1, <2>2, <2>3, <2>4, ReturnChange
<1>5. CASE PostStep(p)
  BY <1>5, PostChange
<1> QED
  BY <1>1, <1>2, <1>3, <1>4, <1>5 DEF ProcessActionStep

LEMMA InternalizeChange ==
  ASSUME Typed, PlanInv, ChangeInv, NEW p \in Callers, InternalizeActionStep(p)
  PROVE  ChangeInv'
<1> p \in Procs /\ s[p] \in Session
  BY DEF Procs, Typed, TypeOK
<1>p. /\ (InternalizePcs \ {"insertProven"}) \cap (Delicate \cup {"purgeTxs"}) = {}
      /\ InternalizePcs \cap (Untied \cup Funding \cup {"failAbandoned"}) = {}
      /\ "insertProven" \in OfMined \ (Funding \cup Forgetting \cup Filtering)
  BY DEF InternalizePcs, Delicate, Funding, OfMined, Forgetting, Filtering, Untied, Purging,
     Listing
<1>t. ASSUME s[p].pc \in InternalizePcs PROVE s[p].t \in Txs /\ ~Unplanned(s[p].t)
  BY <1>p, <1>t, Planned DEF Typed, HasTx
<1>1. ASSUME NEW t \in Txs, internalizeAction(p, t) PROVE ChangeInv'
  <2>1. UNCHANGED <<tables, tx, proven, outputs, plan, network>>
    BY <1>1 DEF internalizeAction, tables, outputs
  <2>2. PICK pc \in InternalizePcs :
          /\ s' = [s EXCEPT ![p] = [Idle EXCEPT !.t = t, !.pc = pc]]
          /\ pc = "insertProven" => t \in mined
    <3>1. CASE s' = [s EXCEPT ![p] = [Idle EXCEPT !.t = t,
                       !.pc = IF t \in exists THEN "mergeOutput" ELSE "storeOutput"]]
      <4>1. PICK pc : pc = IF t \in exists THEN "mergeOutput" ELSE "storeOutput"
        OBVIOUS
      <4> QED
        BY <3>1, <4>1 DEF InternalizePcs
    <3>2. CASE \E bump \in BOOLEAN :
                 /\ bump => t \in mined
                 /\ s' = [s EXCEPT ![p] = [Idle EXCEPT !.t = t,
                            !.pc = IF bump THEN "insertProven" ELSE "insertUnproven"]]
      <4>1. PICK bump \in BOOLEAN :
                 /\ bump => t \in mined
                 /\ s' = [s EXCEPT ![p] = [Idle EXCEPT !.t = t,
                            !.pc = IF bump THEN "insertProven" ELSE "insertUnproven"]]
        BY <3>2
      <4>2. PICK pc : pc = IF bump THEN "insertProven" ELSE "insertUnproven"
        OBVIOUS
      <4> QED
        BY <4>1, <4>2 DEF InternalizePcs
    <3> QED
      BY <1>1, <3>1, <3>2 DEF internalizeAction
  <2>3. s'[p].pc = pc /\ s'[p].t = t /\ \A q \in Procs \ {p} : s'[q] = s[q]
    BY <2>2 DEF Typed, TypeOK, Idle
  <2>4. LocalChange(s[p])'
    <3> PICK r : r = s'[p]
      OBVIOUS
    <3>1. r.pc = "insertProven" => r.t \in mined'
      BY <2>1, <2>2, <2>3 DEF network
    <3>2. r.pc = "insertProven" \/ r.pc \notin Delicate
      BY <1>p, <2>3
    <3> QED
      BY <1>p, <3>1, <3>2 DEF LocalChange, Delicate
  <2> QED
    BY <2>1, <2>3, <2>4, QuietChange
<1>s. ASSUME UNCHANGED outputs, RowsRemain PROVE Hands(p)
  BY <1>s, SameHands
<1>2. CASE findOrInsertProvenTx(p)
  <2>1. /\ s[p].pc = "insertProven" /\ UNCHANGED <<tx, outputs, plan, network>>
        /\ proven' = proven \cup {s[p].t} /\ Goto(p, "insertCompleted")
    BY <1>2 DEF findOrInsertProvenTx, At
  <2>2. s[p].t \in mined
    BY <1>p, <2>1 DEF ChangeInv, LocalChange
  <2>3. Sight
    BY <2>1, <2>2 DEF Sight, ChangeInv, Traced, network
  <2>4. s'[p].pc = "insertCompleted" /\ \A q \in Procs \ {p} : s'[q] = s[q]
    BY <2>1 DEF Goto, Typed, TypeOK, Session
  <2>5. LocalChange(s[p])'
    <3> PICK r : r = s'[p]
      OBVIOUS
    <3>1. r.pc \notin Delicate
      BY <1>p, <2>4 DEF InternalizePcs
    <3> QED
      BY <3>1 DEF LocalChange, Delicate
  <2>6. p # Monitor
    BY NamesAssumption
  <2>7. Hands(p)
    BY <1>s, <2>1 DEF RowsRemain
  <2> QED
    BY <2>1, <2>3, <2>4, <2>5, <2>6, <2>7, HandsKeep DEF network
<1>3. CASE insertCompleted(p) \/ insertUnproven(p)
  <2>1. \/ InsertTx(p, [status |-> "completed", proof |-> TRUE], "storeOutput")
        \/ InsertTx(p, [status |-> "unproven", proof |-> FALSE], "getReq")
    BY <1>3 DEF insertCompleted, insertUnproven
  <2>2. UNCHANGED <<proven, outputs, plan, network>> /\ s[p].pc \in InternalizePcs
    BY <1>3 DEF insertCompleted, insertUnproven, InternalizePcs, At
  <2>3. RowsRemain
    BY <1>t, <2>1, <2>2 DEF InsertTx, RowsRemain, Typed, TypeOK
  <2>4. {"storeOutput", "getReq"} \cap (Delicate \cup {"purgeTxs"}) = {}
    BY <1>p DEF InternalizePcs
  <2>5. Return(p) \/ Goto(p, "storeOutput") \/ Goto(p, "getReq")
    BY <2>1 DEF InsertTx
  <2> QED
    BY <1>s, <2>2, <2>3, <2>4, <2>5, ReturnChange, GotoChange
<1>4. CASE getProvenOrReq(p)
  BY <1>4, <1>s, <1>p, GotoChange DEF getProvenOrReq, RowsRemain, InternalizePcs
<1>5. CASE storeOutput(p)
  <2>1. s[p].pc \in InternalizePcs /\ UNCHANGED <<tx, proven, plan, network>> /\ Return(p)
    BY <1>5 DEF storeOutput, At, InternalizePcs
  <2>2. CASE UNCHANGED outputs
    BY <1>s, <2>1, <2>2, ReturnChange DEF RowsRemain
  <2>3. CASE /\ exists' = exists \cup {s[p].t}
             /\ spendable' = spendable \cup {s[p].t}
             /\ change' \in {change \cup {s[p].t}, change}
             /\ UNCHANGED spentBy
    <3>1. change \subseteq change'
      BY <2>3
    <3>2. Hands(p)
      BY <1>t, <2>1, <2>3, <3>1 DEF Hands, GoesTo, LeavesHolder, ChangeInv, Traced
    <3> QED
      BY <2>1, <3>2, ReturnChange
  <2> QED
    BY <1>5, <2>2, <2>3 DEF storeOutput
<1>6. CASE mergeOutput(p)
  <2>1. /\ s[p].pc \in InternalizePcs /\ UNCHANGED <<tx, proven, exists, spendable, spentBy>>
        /\ UNCHANGED <<plan, network>> /\ Return(p)
        /\ change \ {s[p].t} \subseteq change'
    BY <1>6 DEF mergeOutput, At, InternalizePcs
  <2>2. Hands(p)
    BY <1>t, <2>1 DEF Hands, GoesTo, LeavesHolder, ChangeInv, Traced
  <2> QED
    BY <2>1, <2>2, ReturnChange
<1> QED
  BY <1>1, <1>2, <1>3, <1>4, <1>5, <1>6 DEF InternalizeActionStep

(* Change that the network takes for spent is not taken out of use by      *)
(* listOutputs.                                                            *)
LEMMA ListSpecOpsChange ==
  ASSUME Typed, PlanInv, ChangeInv, "invalidChange" \notin Calls, NEW p \in Callers,
         ListSpecOpsStep(p)
  PROVE  ChangeInv'
<1> p \in Procs /\ s[p] \in Session
  BY DEF Procs, Typed, TypeOK
<1>p. /\ {"abortListed", "unfailListed"} \cap (Delicate \cup {"purgeTxs"}) = {}
      /\ {"filterListed", "releaseListed"} = Filtering
  BY DEF Delicate, Funding, OfMined, Forgetting, Filtering
<1>s. ASSUME UNCHANGED outputs, RowsRemain PROVE Hands(p)
  BY <1>s, SameHands
<1>1. CASE listNoSends(p) \/ listFailed(p) \/ listChange(p)
  <2>1. PICK pc \in {"abortListed", "unfailListed"} : \E rows :
          s' = [s EXCEPT ![p] = [Idle EXCEPT !.pc = pc, !.held = rows]]
    BY <1>1 DEF listNoSends, listFailed, listChange, Listed
  <2>2. UNCHANGED <<tx, proven, outputs, plan, network>>
    BY <1>1 DEF listNoSends, listFailed, listChange, Listed, tables, outputs
  <2>3. s'[p].pc = pc /\ \A q \in Procs \ {p} : s'[q] = s[q]
    BY <2>1 DEF Typed, TypeOK, Idle
  <2> QED
    BY <1>p, <1>s, <2>2, <2>3, CalmChange DEF RowsRemain
<1>2. CASE listed(p)
  <2>1. UNCHANGED <<tx, proven, outputs, plan, network>> /\ Return(p)
    BY <1>2 DEF listed, tables, outputs
  <2> QED
    BY <1>s, <2>1, ReturnChange DEF RowsRemain
<1>r. ASSUME NEW x, Rest(p, x), s[p].pc \in {"abortListed", "unfailListed"}, Hands(p),
             UNCHANGED <<plan, network, proven>>
      PROVE  ChangeInv'
  <2>1. s'[p].pc = s[p].pc /\ \A q \in Procs \ {p} : s'[q] = s[q]
    BY <1>r DEF Rest, Typed, TypeOK, Session
  <2> QED
    BY <1>p, <1>r, <2>1, CalmChange
<1>3. CASE abortListed(p)
  <2>1. PICK t \in s[p].held \cap Txs :
          \/ abortTx(t) /\ Rest(p, t)
          \/ Return(p) /\ UNCHANGED <<tx, outputs>>
    BY <1>3 DEF abortListed
  <2>2. UNCHANGED <<proven, plan, network>> /\ s[p].pc = "abortListed"
    BY <1>3 DEF abortListed, At
  <2>3. CASE abortTx(t) /\ Rest(p, t)
    BY <1>r, <2>2, <2>3, AbortHands
  <2>4. CASE Return(p) /\ UNCHANGED <<tx, outputs>>
    BY <1>s, <2>2, <2>4, ReturnChange DEF RowsRemain
  <2> QED
    BY <2>1, <2>3, <2>4
<1>4. CASE unfailListed(p)
  <2>1. PICK t \in s[p].held :
          /\ tx' = [tx EXCEPT ![t] = UpdateTx(t, [@ EXCEPT !.status = "unfail"])]
          /\ Rest(p, t)
    BY <1>4 DEF unfailListed
  <2>2. UNCHANGED <<proven, outputs, plan, network>> /\ s[p].pc = "unfailListed"
    BY <1>4 DEF unfailListed, At
  <2>3. RowsRemain
    BY <2>1 DEF RowsRemain, UpdateTx, Typed, TypeOK, TxRow
  <2> QED
    BY <1>r, <1>s, <2>1, <2>2, <2>3
<1>5. CASE filterOutputs(p) \/ releaseListed(p)
  BY <1>5, <1>p DEF filterOutputs, releaseListed, At, ChangeInv, LocalChange
<1> QED
  BY <1>1, <1>2, <1>3, <1>4, <1>5 DEF ListSpecOpsStep

----------------------------------------------------------------------------
(* The monitor *)

(* A task goes on with the action it works on; only s and reqs change.     *)
LEMMA TaskChange ==
  ASSUME Typed, PlanInv, ChangeInv,
         UNCHANGED <<tx, proven, outputs, plan, network>>,
         \A q \in Procs \ {Monitor} : s'[q] = s[q],
         s'[Monitor].pc \notin (Delicate \ OfMined) \cup {"purgeTxs"},
         s'[Monitor].pc \in OfMined => s'[Monitor].t \in mined
  PROVE  ChangeInv'
<1> Monitor \in Procs
  BY DEF Procs
<1>1. Hands(Monitor)
  BY SameHands DEF RowsRemain
<1>2. Sight
  BY SameSight DEF network
<1>3. LocalChange(s[Monitor])'
  <2> PICK r : r = s'[Monitor]
    OBVIOUS
  <2>1. r.pc \in OfMined => r.t \in mined'
    BY DEF network
  <2>2. r.pc \in OfMined \/ r.pc \notin Delicate
    OBVIOUS
  <2>3. OfMined \cap (Funding \cup Forgetting \cup Filtering) = {}
    BY DEF Funding, OfMined, Forgetting, Filtering
  <2> QED
    BY <2>1, <2>2, <2>3 DEF LocalChange, Delicate
<1>4. PurgeVacates'
  BY DEF PurgeVacates
<1> QED
  BY <1>1, <1>2, <1>3, <1>4, HandsKeep DEF network

LEMMA SearchChange ==
  ASSUME Typed, PlanInv, ChangeInv, SendWaitingStep \/ GetProofsStep
  PROVE  ChangeInv'
<1> /\ Monitor \in Procs /\ M = Monitor /\ s[Monitor] \in Session /\ s \in [Procs -> Session]
    /\ tx \in [Txs -> TxRow]
  BY DEF Procs, M, Typed, TypeOK
<1> DEFINE soft == {"idle", "sendWaiting", "getProofs", "mergeBeef", "notifyTx", "saveNotified",
                    "finishProof"}
<1>p. /\ soft \cap (Delicate \cup {"purgeTxs"}) = {} /\ soft \cap OfMined = {}
      /\ OfMined \cap Untied = {} /\ Idle.pc = "idle" /\ "purgeTxs" \notin OfMined
      /\ {"insertProvenTx", "notifyTx"} \cap Untied = {}
      /\ {"saveCopy", "refreshCopy", "newProvenTx", "insertProvenTx"} \subseteq OfMined
      /\ OfMined \cap (Delicate \ OfMined) = {}
  BY IdleTyped DEF Delicate, Funding, OfMined, Forgetting, Filtering, Untied, Purging, Listing
<1>m. s[Monitor].pc \in OfMined => s[Monitor].t \in mined
  BY DEF ChangeInv, LocalChange
<1>s. ASSUME UNCHANGED outputs, RowsRemain PROVE Hands(Monitor)
  BY <1>s, SameHands
<1>h. ASSUME UNCHANGED <<tx, proven, outputs, plan, network>>,
             s'[Monitor].pc \in soft \cup OfMined, \A q \in Procs \ {Monitor} : s'[q] = s[q],
             s'[Monitor].pc \in OfMined => s'[Monitor].t \in mined
      PROVE  ChangeInv'
  BY <1>h, <1>p, TaskChange DEF Delicate
<1>1. CASE (\E t \in Txs : sendWaiting(t))
           \/ \E t \in Txs, counts \in BOOLEAN : checkForProofs(t, counts) \/ checkNoSends(t, counts)
  <2>1. ASSUME NEW t, NEW task, NEW pc \in {"sendWaiting", "getProofs"}, NEW counts,
               Read(task, t, pc, counts)
        PROVE  ChangeInv'
    <3>1. s'[Monitor].pc \in soft /\ \A q \in Procs \ {Monitor} : s'[q] = s[q]
      BY <2>1 DEF Read, Idle
    <3>2. UNCHANGED <<tx, proven, outputs, plan, network>>
      BY <2>1 DEF Read, tables, outputs
    <3> QED
      BY <1>p, <1>h, <3>1, <3>2
  <2> QED
    BY <1>1, <2>1 DEF sendWaiting, checkForProofs, checkNoSends
<1>2. CASE processUnsent
  <2>1. s'[Monitor].pc = "mergeBeef" /\ \A q \in Procs \ {Monitor} : s'[q] = s[q]
    BY <1>2 DEF processUnsent, Goto, Session
  <2>2. UNCHANGED <<tx, proven, outputs, plan, network>>
    BY <1>2 DEF processUnsent, tables, outputs
  <2> QED
    BY <1>p, <1>h, <2>1, <2>2
<1>3. CASE settleCopy \/ proofTooNew \/ finishProof
  <2>1. UNCHANGED <<tx, proven, outputs, plan, network>> /\ Return(Monitor)
    BY <1>3 DEF settleCopy, proofTooNew, finishProof, tables, outputs
  <2> QED
    BY <1>s, <2>1, ReturnChange DEF RowsRemain
<1>4. CASE getMerklePath
  <2>1. UNCHANGED <<tx, proven, outputs, plan, network>>
    BY <1>4 DEF getMerklePath, tables, outputs
  <2>2. s'[Monitor].pc \in {"saveCopy", "finishProof"} /\ s'[Monitor].t = s[Monitor].t
    BY <1>4, MerklePathPc
  <2>3. \A q \in Procs \ {Monitor} : s'[q] = s[q]
    BY <1>4 DEF getMerklePath
  <2>4. ASSUME s'[Monitor].pc = "saveCopy" PROVE s[Monitor].t \in mined
    <3>1. TRUE \in MerklePaths(s[M].t \in mined)
      <4> PICK c : c = IF s[M].counts THEN Counted(s[M].copy) ELSE s[M].copy
        OBVIOUS
      <4>1. ASSUME NEW status,
                   s' = [s EXCEPT ![M].pc = "finishProof", ![M].kept = c.attempts,
                                  ![M].copy = [c EXCEPT !.status = status]]
            PROVE  FALSE
        BY <2>4, <4>1 DEF Session
      <4> HIDE DEF Counted
      <4> QED
        BY <1>4, <4>1 DEF getMerklePath
    <3>2. (s[M].t \in mined) \in BOOLEAN
      OBVIOUS
    <3> QED
      BY <3>1, <3>2, PathIsMined
  <2> QED
    BY <1>h, <2>1, <2>2, <2>3, <2>4, <1>p
<1>5. CASE saveCopy
  <2>1. /\ s'[Monitor].pc = "refreshCopy" /\ s'[Monitor].t = s[Monitor].t
        /\ \A q \in Procs \ {Monitor} : s'[q] = s[q] /\ s[Monitor].pc = "saveCopy"
    BY <1>5 DEF saveCopy, Goto, At, Session
  <2> QED
    BY <1>5, <1>p, <1>h, <1>m, <2>1 DEF saveCopy, At
<1>6. CASE refreshCopy
  <2>1. /\ s'[Monitor].pc = "newProvenTx" /\ s'[Monitor].t = s[Monitor].t
        /\ \A q \in Procs \ {Monitor} : s'[q] = s[q]
    BY <1>6 DEF refreshCopy, Session
  <2>2. UNCHANGED <<tx, proven, outputs, plan, network>> /\ s[Monitor].pc = "refreshCopy"
    BY <1>6 DEF refreshCopy, tables, outputs, At
  <2> QED
    BY <1>p, <1>h, <1>m, <2>1, <2>2
<1>7. CASE newProvenTx
  <2>1. UNCHANGED <<tx, proven, outputs, plan, network>> /\ s[Monitor].pc = "newProvenTx"
    BY <1>7 DEF newProvenTx, tables, outputs, At
  <2>2. PICK c : \/ s' = [s EXCEPT ![M].copy = c, ![M].pc = "insertProvenTx"]
                 \/ s' = [s EXCEPT ![M].copy = c, ![M].pc = "finishProof"]
    BY <1>7 DEF newProvenTx
  <2>3. CASE s' = [s EXCEPT ![M].copy = c, ![M].pc = "insertProvenTx"]
    <3>1. /\ s'[Monitor].pc = "insertProvenTx" /\ s'[Monitor].t = s[Monitor].t
          /\ \A q \in Procs \ {Monitor} : s'[q] = s[q]
      BY <2>3 DEF Session
    <3> QED
      BY <1>p, <1>h, <1>m, <2>1, <3>1
  <2>4. CASE s' = [s EXCEPT ![M].copy = c, ![M].pc = "finishProof"]
    <3>1. s'[Monitor].pc = "finishProof" /\ \A q \in Procs \ {Monitor} : s'[q] = s[q]
      BY <2>4 DEF Session
    <3> QED
      BY <1>p, <1>h, <2>1, <3>1
  <2> QED
    BY <2>2, <2>3, <2>4
<1>8. CASE insertProvenTx
  <2>1. /\ UNCHANGED <<tx, outputs, plan, network>> /\ s[Monitor].pc = "insertProvenTx"
        /\ proven' \subseteq proven \cup {s[Monitor].t}
    BY <1>8 DEF insertProvenTx, At
  <2>2. s[Monitor].t \in mined
    BY <1>m, <1>p, <2>1
  <2>3. s'[Monitor].pc \in soft /\ \A q \in Procs \ {Monitor} : s'[q] = s[q]
    <3>1. CASE s' = [s EXCEPT ![M].pc = "finishProof", ![M].copy.proof = TRUE]
      BY <3>1 DEF Session
    <3>2. CASE \E c : s' = [s EXCEPT ![M].copy = c, ![M].pc = "notifyTx"]
      BY <3>2 DEF Session
    <3> QED
      BY <1>8, <3>1, <3>2 DEF insertProvenTx
  <2>4. Sight
    BY <2>1, <2>2 DEF Sight, ChangeInv, Traced, network
  <2>5. LocalChange(s[Monitor])' /\ PurgeVacates'
    <3> PICK r : r = s'[Monitor]
      OBVIOUS
    <3>1. r.pc \notin Delicate /\ r.pc # "purgeTxs"
      BY <1>p, <2>3
    <3> QED
      BY <3>1 DEF LocalChange, Delicate, PurgeVacates
  <2>6. Hands(Monitor)
    BY <1>s, <2>1 DEF RowsRemain
  <2> QED
    BY <2>1, <2>3, <2>4, <2>5, <2>6, HandsKeep DEF network
<1>9. CASE notifyTx
  <2>1. UNCHANGED <<proven, outputs, plan, network>> /\ Goto(Monitor, "saveNotified")
    BY <1>9 DEF notifyTx
  <2>2. RowsRemain
    BY <1>9 DEF notifyTx, RowsRemain, UpdateTx
  <2> QED
    BY <1>p, <1>s, <2>1, <2>2, GotoChange
<1>10. CASE saveNotified
  <2>1. UNCHANGED <<tx, proven, outputs, plan, network>> /\ Goto(Monitor, "finishProof")
    BY <1>10 DEF saveNotified
  <2> QED
    BY <1>p, <1>s, <2>1, GotoChange DEF RowsRemain
<1> QED
  BY <1>1, <1>2, <1>3, <1>4, <1>5, <1>6, <1>7, <1>8, <1>9, <1>10
     DEF SendWaitingStep, GetProofsStep

LEMMA CleanupChange ==
  ASSUME Typed, PlanInv, ChangeInv, FailAbandonedStep \/ ReviewStatusStep
  PROVE  ChangeInv'
<1> /\ Monitor \in Procs /\ M = Monitor /\ s[Monitor] \in Session /\ s \in [Procs -> Session]
    /\ tx \in [Txs -> TxRow]
  BY DEF Procs, M, Typed, TypeOK
<1>p. /\ {"failAbandoned", "review1", "review2", "review3"} \cap (Delicate \cup {"purgeTxs"}) = {}
      /\ "failAbandoned" \notin Untied
  BY DEF Delicate, Funding, OfMined, Forgetting, Filtering, Untied, Purging, Listing
<1>s. ASSUME UNCHANGED outputs, RowsRemain PROVE Hands(Monitor)
  BY <1>s, SameHands
<1>1. CASE (\E t \in Txs : failAbandoned(t)) \/ reviewStatus
  <2>1. s'[Monitor].pc \in {"failAbandoned", "review1"} /\ \A q \in Procs \ {Monitor} : s'[q] = s[q]
    BY <1>1 DEF failAbandoned, reviewStatus, Idle
  <2>2. UNCHANGED <<tx, proven, outputs, plan, network>>
    BY <1>1 DEF failAbandoned, reviewStatus, tables, outputs
  <2> QED
    BY <1>p, <1>s, <2>1, <2>2, CalmChange DEF RowsRemain
<1>2. CASE failAbandonedTx
  <2>1. s[Monitor].pc = "failAbandoned" /\ UNCHANGED <<proven, plan, network>> /\ Return(Monitor)
    BY <1>2 DEF failAbandonedTx, At
  <2>2. s[Monitor].t \in Txs
    BY <1>p, <2>1 DEF Typed, HasTx
  <2>3. Hands(Monitor)
    BY <1>2, <1>s, <2>2, UpdateHands DEF failAbandonedTx, RowsRemain
  <2> QED
    BY <2>1, <2>3, ReturnChange
<1>3. CASE failWhereReqInvalid
  <2>1. UNCHANGED <<proven, outputs, plan, network>> /\ Goto(Monitor, "review2")
    BY <1>3 DEF failWhereReqInvalid
  <2>2. RowsRemain
    BY <1>3 DEF failWhereReqInvalid, RowsRemain, UpdateTx, TxRow
  <2> QED
    BY <1>p, <1>s, <2>1, <2>2, GotoChange
<1>4. CASE releaseWhereTxFailed
  <2>1. UNCHANGED <<tx, proven, plan, network>> /\ Goto(Monitor, "review3")
    BY <1>4 DEF releaseWhereTxFailed
  <2>2. Hands(Monitor)
    BY <1>4, <2>1, ReleaseHands DEF releaseWhereTxFailed, RowsRemain
  <2> QED
    BY <1>p, <2>1, <2>2, GotoChange
<1>5. CASE completeWhereProven
  <2>1. UNCHANGED <<proven, outputs, plan, network>> /\ Return(Monitor)
    BY <1>5 DEF completeWhereProven
  <2>2. RowsRemain
    BY <1>5 DEF completeWhereProven, RowsRemain
  <2> QED
    BY <1>s, <2>1, <2>2, ReturnChange
<1> QED
  BY <1>1, <1>2, <1>3, <1>4, <1>5 DEF FailAbandonedStep, ReviewStatusStep

(* TaskUnFail takes the inputs of a mined transaction, and asks for its    *)
(* output: what is not offered then is spent on the network.               *)
LEMMA RevivalChange ==
  ASSUME Typed, PlanInv, ChangeInv, "status" \notin Failures, unfailTx
  PROVE  ChangeInv'
<1> DEFINE t == s[Monitor].t
<1> /\ Monitor \in Procs /\ M = Monitor /\ s[Monitor] \in Session /\ s \in [Procs -> Session]
    /\ tx \in [Txs -> TxRow] /\ exists \subseteq Outs /\ known \subseteq Txs
  BY DEF Procs, M, Typed, TypeOK
<1>p. /\ "unfailReq" \notin Delicate \cup {"purgeTxs"} /\ "unfailTx" \in OfMined
      /\ "unfailTx" \notin Untied \cup Funding \cup {"failAbandoned"}
  BY DEF Delicate, Funding, OfMined, Forgetting, Filtering, Untied, Purging, Listing
<1>1. /\ s[Monitor].pc = "unfailTx" /\ UNCHANGED <<proven, exists, change, plan, network>>
      /\ Goto(Monitor, "unfailReq")
  BY DEF unfailTx, At, network
<1>2. t \in Txs /\ ~Unplanned(t) /\ t \in mined
  BY <1>1, <1>p, Planned DEF Typed, HasTx, ChangeInv, LocalChange
<1>3. t \in known
  BY <1>2 DEF ChangeInv, Traced
<1>4. CASE UNCHANGED <<tx, spendable, spentBy>>
  BY <1>1, <1>4, <1>p, SameHands, GotoChange DEF outputs, RowsRemain
<1>5. CASE tx[t].status # "none"
  <2>1. PICK found \in isUtxo(Unspent(t), Failures) :
          spendable' = LET kept == spendable \ plan[t].inputs IN
                         IF t \notin exists THEN kept
                         ELSE IF found THEN kept \cup {t} ELSE kept \ {t}
    BY <1>5 DEF unfailTx
  <2>2. /\ tx' = [tx EXCEPT ![t].status = "unproven"]
        /\ spentBy' = [o \in Outs |-> IF o \in plan[t].inputs \cap exists THEN t ELSE spentBy[o]]
    BY <1>5 DEF unfailTx, RetakenBy
  <2>3. RowsRemain
    BY <1>2, <2>2 DEF RowsRemain, TxRow
  <2>4. \A o \in Outs : GoesTo(Monitor, o)
    BY <1>2, <2>2 DEF GoesTo
  <2>5. found \/ Spent(t)
    <3>1. PICK unspent \in BOOLEAN : unspent <=> Unspent(t)
      OBVIOUS
    <3>2. found \/ ~Unspent(t)
      BY <2>1 DEF isUtxo, getUtxoStatus
    <3> QED
      BY <1>3, <3>2 DEF Unspent, Spent
  <2>6. ASSUME NEW o \in exists' PROVE LeavesHolder(o)
    <3>1. o \in exists /\ o \in Outs
      BY <1>1
    <3>2. CASE o \in plan[t].inputs
      <4>1. spentBy'[o] # NoTx
        BY <1>2, <2>2, <3>1, <3>2, NamesAssumption DEF Outs
      <4> QED
        BY <4>1 DEF LeavesHolder
    <3>3. CASE o \notin plan[t].inputs /\ o # t
      <4>1. spentBy'[o] = spentBy[o] /\ (o \in spendable <=> o \in spendable')
        BY <2>1, <2>2, <3>1, <3>3
      <4> QED
        BY <3>1, <4>1 DEF LeavesHolder
    <3>4. CASE o = t
      BY <2>1, <2>5, <3>1, <3>4 DEF LeavesHolder
    <3> QED
      BY <3>2, <3>3, <3>4
  <2>7. Hands(Monitor)
    BY <1>1, <2>3, <2>4, <2>6 DEF Hands, RowsRemain, ChangeInv, Traced
  <2> QED
    BY <1>1, <1>p, <2>7, GotoChange
<1> QED
  BY <1>4, <1>5 DEF unfailTx

LEMMA UnFailChange ==
  ASSUME Typed, PlanInv, ChangeInv, "status" \notin Failures, UnFailStep
  PROVE  ChangeInv'
<1> /\ Monitor \in Procs /\ M = Monitor /\ s[Monitor] \in Session /\ s \in [Procs -> Session]
  BY DEF Procs, M, Typed, TypeOK
<1>p. /\ {"getPath", "unfailReq"} \cap (Delicate \cup {"purgeTxs"}) = {} /\ "unfailTx" \in OfMined
      /\ "unfailTx" \notin (Delicate \ OfMined) \cup {"purgeTxs"} /\ "unfailReq" \notin OfMined
  BY DEF Delicate, Funding, OfMined, Forgetting, Filtering
<1>s. ASSUME UNCHANGED <<tx, outputs>> PROVE Hands(Monitor)
  BY <1>s, SameHands DEF RowsRemain
<1>1. CASE \E t \in Txs : assignUnfail(t)
  <2>1. UNCHANGED <<tx, proven, outputs, plan, network, s>>
    BY <1>1 DEF assignUnfail
  <2>2. LocalChange(s[Monitor])'
    <3>1. LocalChange(s[Monitor])
      BY DEF ChangeInv
    <3> QED
      BY <2>1, <3>1 DEF LocalChange, Picked, Unplanned, Own, outputs, network
  <2>3. PurgeVacates'
    BY <2>1 DEF PurgeVacates, ChangeInv, Unplanned, Own, outputs, network
  <2> QED
    BY <1>s, <2>1, <2>2, <2>3, SameSight, HandsKeep DEF network
<1>2. CASE \E t \in Txs : unfail(t)
  <2>1. s'[Monitor].pc = "getPath" /\ \A q \in Procs \ {Monitor} : s'[q] = s[q]
    BY <1>2 DEF unfail, Read, Idle
  <2>2. UNCHANGED <<tx, proven, outputs, plan, network>>
    BY <1>2 DEF unfail, Read, tables, outputs
  <2> QED
    BY <1>p, <1>s, <2>1, <2>2, CalmChange
<1>3. CASE getUnfailPath
  <2>1. UNCHANGED <<tx, proven, outputs, plan, network>>
    BY <1>3 DEF getUnfailPath, tables, outputs
  <2>2. CASE /\ TRUE \in MerklePaths(s[M].t \in mined)
             /\ s' = [s EXCEPT ![M].pc = "unfailTx", ![M].copy.status = "unmined",
                               ![M].copy.attempts = 0]
    <3>1. /\ s'[Monitor].pc = "unfailTx" /\ s'[Monitor].t = s[Monitor].t
          /\ \A q \in Procs \ {Monitor} : s'[q] = s[q]
      BY <2>2 DEF Session
    <3>2. (s[M].t \in mined) \in BOOLEAN
      OBVIOUS
    <3>3. s[Monitor].t \in mined
      BY <2>2, <3>2, PathIsMined
    <3> QED
      BY <1>p, <2>1, <3>1, <3>3, TaskChange
  <2>3. CASE s' = [s EXCEPT ![M].pc = "unfailReq", ![M].copy.status = "invalid"]
    <3>1. s'[Monitor].pc = "unfailReq" /\ \A q \in Procs \ {Monitor} : s'[q] = s[q]
      BY <2>3 DEF Session
    <3> QED
      BY <1>p, <1>s, <2>1, <3>1, CalmChange
  <2> QED
    BY <1>3, <2>2, <2>3 DEF getUnfailPath
<1>4. CASE unfailTx
  BY <1>4, RevivalChange
<1>5. CASE unfailReq
  <2>1. UNCHANGED <<tx, proven, outputs, plan, network>> /\ Return(Monitor)
    BY <1>5 DEF unfailReq
  <2> QED
    BY <1>s, <2>1, ReturnChange
<1> QED
  BY <1>1, <1>2, <1>3, <1>4, <1>5 DEF UnFailStep

(* The purge forgets what a completed transaction spent: that is spent.    *)
LEMMA PurgeChange ==
  ASSUME Typed, PlanInv, ProofInv, ChangeInv, PurgeStep
  PROVE  ChangeInv'
<1> /\ Monitor \in Procs /\ M = Monitor /\ s[Monitor] \in Session /\ s \in [Procs -> Session]
    /\ tx \in [Txs -> TxRow] /\ exists \subseteq Outs /\ known \subseteq Txs
    /\ spentBy \in [Outs -> Txs \cup {NoTx}]
  BY DEF Procs, M, Typed, TypeOK
<1> DEFINE soft == {"purgeCompleted", "purgeFailed", "purgeOutputs", "purgeInputs", "purgeReqs",
                    "purgeSpent", "purgeOrphans"}
<1>p. /\ soft \cap (Delicate \cup {"purgeTxs"}) = {} /\ "purgeTxs" \notin Delicate
      /\ AfterCompleted \in soft /\ AfterFailed \in soft /\ FirstPurge \in soft
  BY DEF Delicate, Funding, OfMined, Forgetting, Filtering, AfterCompleted, AfterFailed, FirstPurge
<1>f. /\ Forgetting \cap (Funding \cup OfMined \cup Filtering \cup {"purgeTxs"}) = {}
      /\ {"forgetSpent", "spentOutputs", "spentTxs"} = Forgetting
  BY DEF Funding, OfMined, Forgetting, Filtering
<1>s. ASSUME UNCHANGED <<tx, outputs>> PROVE Hands(Monitor)
  BY <1>s, SameHands DEF RowsRemain
<1>d. ASSUME UNCHANGED tx, Delete(s[Monitor].held) PROVE Hands(Monitor)
  BY <1>d DEF Hands, Delete, GoesTo, LeavesHolder, ChangeInv, Traced
(* A step that goes on with the transactions the network has. *)
<1>g. ASSUME Hands(Monitor), UNCHANGED <<proven, plan, network>>, s'[Monitor].pc \in Forgetting,
             \A q \in Procs \ {Monitor} : s'[q] = s[q], s'[Monitor].held \cap Txs \subseteq known
      PROVE  ChangeInv'
  <2>1. LocalChange(s[Monitor])' /\ PurgeVacates'
    <3> PICK r : r = s'[Monitor]
      OBVIOUS
    <3>1. r.pc \in Forgetting /\ r.held \cap Txs \subseteq known'
      BY <1>g DEF network
    <3> QED
      BY <1>f, <3>1 DEF LocalChange, PurgeVacates
  <2>2. Sight
    BY <1>g, SameSight DEF network
  <2> QED
    BY <1>g, <2>1, <2>2, HandsKeep DEF network
<1>k. s[Monitor].pc \in Forgetting => s[Monitor].held \cap Txs \subseteq known
  BY DEF ChangeInv, LocalChange
<1>1. CASE purge
  <2>1. UNCHANGED <<tx, proven, outputs, plan, network>>
        /\ s' = [s EXCEPT ![Monitor] = [Idle EXCEPT !.pc = FirstPurge]]
    BY <1>1 DEF purge, tables, outputs
  <2>2. s'[Monitor].pc = FirstPurge /\ \A q \in Procs \ {Monitor} : s'[q] = s[q]
    BY <2>1 DEF Idle
  <2> QED
    BY <1>p, <1>s, <2>1, <2>2, CalmChange
<1>2. CASE purgeCompleted \/ deleteFailedReqs
  <2>1. UNCHANGED <<tx, proven, outputs, plan, network>>
    BY <1>2 DEF purgeCompleted, deleteFailedReqs
  <2>2. Goto(Monitor, AfterCompleted) \/ Goto(Monitor, AfterFailed)
    BY <1>2 DEF purgeCompleted, deleteFailedReqs
  <2> QED
    BY <1>p, <1>s, <2>1, <2>2, GotoChange
<1>3. CASE selectFailed
  <2>1. UNCHANGED <<tx, proven, outputs, plan, network>>
    BY <1>3 DEF selectFailed, tables, outputs
  <2>2. PICK old : s' = [s EXCEPT ![M].held = old,
                           ![M].pc = IF old = {} THEN "purgeReqs" ELSE "purgeOutputs"]
    BY <1>3 DEF selectFailed
  <2>3. s'[Monitor].pc \in soft /\ \A q \in Procs \ {Monitor} : s'[q] = s[q]
    BY <2>2 DEF Session
  <2> QED
    BY <1>p, <1>s, <2>1, <2>3, CalmChange
<1>4. CASE deleteFailedOutputs
  <2>1. UNCHANGED <<tx, proven, plan, network>> /\ Goto(Monitor, "purgeInputs")
        /\ Delete(s[Monitor].held)
    BY <1>4 DEF deleteFailedOutputs
  <2> QED
    BY <1>p, <1>d, <2>1, GotoChange
<1>5. CASE markNotSpentBy
  <2>1. UNCHANGED <<tx, proven, plan, network>> /\ Goto(Monitor, "purgeTxs")
        /\ ReleaseInputs(s[Monitor].held \cap Txs)
    BY <1>5 DEF markNotSpentBy, MarkNotSpentBy
  <2>2. Hands(Monitor) /\ Sight
    BY <2>1, ReleaseHands, SameSight DEF RowsRemain, network
  <2>3. /\ s'[Monitor].pc = "purgeTxs" /\ s'[Monitor].held = s[Monitor].held
        /\ \A q \in Procs \ {Monitor} : s'[q] = s[q]
    BY <2>1 DEF Goto, Session
  <2>4. LocalChange(s[Monitor])'
    <3> PICK r : r = s'[Monitor]
      OBVIOUS
    <3>1. r.pc \notin Delicate
      BY <1>p, <2>3
    <3> QED
      BY <3>1 DEF LocalChange, Delicate
  <2>5. ASSUME NEW t \in s[Monitor].held \cap Txs, NEW o \in Outs PROVE spentBy'[o] # t
    <3>1. CASE spentBy[o] \in s[Monitor].held \cap Txs
      BY <2>1, <3>1, NamesAssumption DEF ReleaseInputs, getInputs, Outs
    <3>2. CASE spentBy[o] \notin s[Monitor].held \cap Txs
      BY <2>1, <3>2, NamesAssumption DEF ReleaseInputs, getInputs, Outs
    <3> QED
      BY <3>1, <3>2
  <2>6. PurgeVacates'
    BY <2>3, <2>5 DEF PurgeVacates
  <2> QED
    BY <2>1, <2>2, <2>3, <2>4, <2>6, HandsKeep DEF network
<1>6. CASE deleteFailedTxs
  <2>1. /\ s[Monitor].pc = "purgeTxs" /\ UNCHANGED <<proven, outputs, plan, network>>
        /\ Goto(Monitor, "purgeReqs") /\ DeleteTxs(s[Monitor].held)
    BY <1>6 DEF deleteFailedTxs, At
  <2>2. Hands(Monitor)
    BY <2>1 DEF Hands, GoesTo, LeavesHolder, DeleteTxs, ChangeInv, PurgeVacates, Traced, outputs
  <2> QED
    BY <1>p, <2>1, <2>2, GotoChange
<1>7. CASE selectSpent
  <2>1. UNCHANGED <<tx, proven, outputs, plan, network>>
    BY <1>7 DEF selectSpent, tables, outputs
  <2>2. PICK old \in SUBSET SpentTxs :
          s' = [s EXCEPT ![M].held = old,
                         ![M].pc = IF old = {} THEN "purgeOrphans" ELSE "forgetSpent"]
    BY <1>7 DEF selectSpent
  <2>3. old \cap Txs \subseteq known
    BY DEF SpentTxs, OwnerStatus, ProofInv, TxHasProof, ChangeInv, Traced
  <2>4. /\ s'[Monitor].pc = (IF old = {} THEN "purgeOrphans" ELSE "forgetSpent")
        /\ s'[Monitor].held = old /\ \A q \in Procs \ {Monitor} : s'[q] = s[q]
    BY <2>2 DEF Session
  <2>5. CASE old = {}
    BY <1>p, <1>s, <2>1, <2>4, <2>5, CalmChange
  <2>6. CASE old # {}
    BY <1>f, <1>g, <1>s, <2>1, <2>3, <2>4, <2>6
  <2> QED
    BY <2>5, <2>6
<1>8. CASE selectSpentThrows
  <2>1. UNCHANGED <<tx, proven, outputs, plan, network>> /\ Return(Monitor)
    BY <1>8 DEF selectSpentThrows, tables, outputs
  <2> QED
    BY <1>s, <2>1, ReturnChange
<1>9. CASE forgetSpentBy
  <2>1. /\ s[Monitor].pc = "forgetSpent" /\ Goto(Monitor, "spentOutputs")
        /\ UNCHANGED <<tx, proven, exists, spendable, change, plan, network>>
        /\ spentBy' = [o \in Outs |-> IF spentBy[o] \in s[Monitor].held /\ o \notin spendable
                                      THEN NoTx ELSE spentBy[o]]
    BY <1>9 DEF forgetSpentBy, At
  <2>2. s[Monitor].held \cap Txs \subseteq known /\ NoTx \notin s[Monitor].held
    BY <1>f, <1>k, <2>1, NamesAssumption DEF Session
  <2>3. ASSUME NEW o \in exists, spentBy[o] \in s[Monitor].held PROVE Spent(o)
    <3>1. o \in Outs /\ spentBy[o] \in Txs /\ spentBy[o] \in known
      BY <2>2, <2>3
    <3> QED
      BY <3>1 DEF ChangeInv, Traced, Assigned, Spent
  <2>4. \A o \in exists' : LeavesHolder(o)
    BY <2>1, <2>3 DEF LeavesHolder
  <2>5. Hands(Monitor)
    BY <2>1, <2>4 DEF Hands, GoesTo, ChangeInv, Traced
  <2>6. /\ s'[Monitor].pc = "spentOutputs" /\ s'[Monitor].held = s[Monitor].held
        /\ \A q \in Procs \ {Monitor} : s'[q] = s[q]
    BY <2>1 DEF Goto, Session
  <2> QED
    BY <1>f, <1>g, <2>1, <2>2, <2>5, <2>6
<1>10. CASE deleteSpentOutputs
  <2>1. /\ s[Monitor].pc = "spentOutputs" /\ UNCHANGED <<tx, proven, plan, network>>
        /\ Goto(Monitor, "spentTxs") /\ Delete(s[Monitor].held)
    BY <1>10 DEF deleteSpentOutputs, At
  <2>2. /\ s'[Monitor].pc = "spentTxs" /\ s'[Monitor].held = s[Monitor].held
        /\ \A q \in Procs \ {Monitor} : s'[q] = s[q]
    BY <2>1 DEF Goto, Session
  <2> QED
    BY <1>d, <1>f, <1>g, <1>k, <2>1, <2>2
<1>11. CASE deleteSpentTxs
  <2>1. /\ s[Monitor].pc = "spentTxs" /\ UNCHANGED <<proven, outputs, plan, network>>
        /\ Goto(Monitor, "purgeOrphans") /\ DeleteTxs(s[Monitor].held)
    BY <1>11 DEF deleteSpentTxs, At
  <2>2. \A t \in s[Monitor].held \cap Txs : ~Unplanned(t)
    BY <1>f, <1>k, <2>1 DEF ChangeInv, Traced
  <2>3. Hands(Monitor)
    BY <2>1, <2>2 DEF Hands, GoesTo, LeavesHolder, DeleteTxs, ChangeInv, Traced, outputs
  <2> QED
    BY <1>p, <2>1, <2>3, GotoChange
<1>12. CASE deleteOrphans
  <2>1. UNCHANGED <<tx, outputs, plan, network>> /\ proven' \subseteq proven /\ Return(Monitor)
    BY <1>12 DEF deleteOrphans
  <2> QED
    BY <1>s, <2>1, ReturnChange
<1> QED
  BY <1>1, <1>2, <1>3, <1>4, <1>5, <1>6, <1>7, <1>8, <1>9, <1>10, <1>11, <1>12 DEF PurgeStep

----------------------------------------------------------------------------
LEMMA NetworkChange ==
  ASSUME Typed, PlanInv, ChangeInv, NEW t \in Txs, Arrive(t) \/ Mine(t)
  PROVE  ChangeInv'
<1> Monitor \in Procs
  BY DEF Procs
<1>1. UNCHANGED <<tx, proven, outputs, plan, origin, s>>
  BY DEF Arrive, Mine, tables, outputs
<1>2. Sight
  BY DEF Arrive, Mine, Sight, ChangeInv, Traced, Unplanned, Own, tables
<1>3. Hands(Monitor)
  BY <1>1, SameHands DEF RowsRemain
<1>4. LocalChange(s[Monitor])'
  <2>1. LocalChange(s[Monitor])
    BY DEF ChangeInv
  <2> QED
    BY <1>1, <1>2, <2>1 DEF LocalChange, Picked, Unplanned, Own, outputs, Sight
<1>5. PurgeVacates'
  BY <1>1 DEF PurgeVacates, ChangeInv, Unplanned, Own, outputs
<1> QED
  BY <1>1, <1>2, <1>3, <1>4, <1>5, HandsKeep

LEMMA NextChange ==
  ASSUME Typed, PlanInv, ProofInv, ChangeInv, "invalidChange" \notin Calls,
         "status" \notin Failures, [Next]_vars
  PROVE  ChangeInv'
<1>1. CASE \E p \in Callers : CallerStep(p)
  BY <1>1, CreateChange, ProcessChange, InternalizeChange, ListSpecOpsChange DEF CallerStep
<1>2. CASE MonitorStep
  BY <1>2, SearchChange, CleanupChange, UnFailChange DEF MonitorStep
<1>3. CASE PurgeStep \/ PostStep(Monitor)
  BY <1>3, PurgeChange, PostChange DEF Procs
<1>4. ASSUME NEW p \in Procs, Throws(p) PROVE ChangeInv'
  <2>1. UNCHANGED <<tx, proven, outputs, plan, network>> /\ Return(p)
    BY <1>4 DEF Throws, tables, outputs
  <2> QED
    BY <2>1, SameHands, ReturnChange DEF RowsRemain
<1>5. CASE \E t \in Txs : Arrive(t) \/ Mine(t)
  BY <1>5, NetworkChange
<1>6. CASE UNCHANGED vars
  <2>1. \A p \in Procs : LocalChange(s[p])'
    BY <1>6 DEF vars, ChangeInv, LocalChange, Picked, Unplanned, Own
  <2> QED
    BY <1>6, <2>1 DEF vars, ChangeInv, HasHolder, Spent, Traced, Parents, Assigned, Vacant,
       PurgeVacates, Unplanned, Own
<1> QED
  BY <1>1, <1>2, <1>3, <1>4, <1>5, <1>6 DEF Next

(* No change is lost, whatever calls, exceptions and tasks do, the purge   *)
(* of spent rows and TaskUnFail among them, and with or without the        *)
(* manager's locks unless rows are purged: an output in the change basket  *)
(* that is unspent on the network is offered, or somebody has it.  Two     *)
(* things are left out because they do lose change: invalidChangeOutputs   *)
(* takes the change of what is not sent yet for spent, and TaskUnFail      *)
(* takes no answer of the UTXO service for 'spent'.                        *)
THEOREM ChangeStays ==
  ASSUME OneManager, "invalidChange" \notin Calls, "status" \notin Failures
  PROVE  Spec => []ChangeIsNotLost
<1> DEFINE Inv == Typed /\ Locked /\ PlanInv /\ ProofInv /\ ChangeInv
<1>1. Init => Inv
  BY InitTyped, InitLocked, InitPlan, InitProof, InitChange
<1>2. Inv /\ [Next]_vars => Inv'
  BY NextTyped, NextLocked, NextPlan, NextProof, NextChange
<1>3. Inv => ChangeIsNotLost
  BY DEF ChangeInv, HasHolder, Spent, ChangeIsNotLost, Unspent
<1> QED
  BY <1>1, <1>2, <1>3, PTL DEF Spec
=============================================================================

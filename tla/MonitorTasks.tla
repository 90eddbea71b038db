---------------------------- MODULE MonitorTasks ----------------------------
(***************************************************************************)
(* The monitor's background tasks over transactions and reqs               *)
(* (src/src/monitor/tasks/).  The monitor runs one task at a time.  A task *)
(* first reads the rows it will work on, and a lock is held only while one *)
(* read, one write or one runAsStorageProvider closure runs, so rows may   *)
(* change between its steps.  Tasks work through a list; the steps below   *)
(* are the ones for one row of it.                                         *)
(***************************************************************************)
EXTENDS ProcessAction

M == Monitor

Read(task, t, pc, counts) ==
  /\ task \in Tasks
  /\ At(M, "idle") /\ Free
  /\ s' = [s EXCEPT ![M] = [Idle EXCEPT !.pc = pc, !.t = t, !.copy = req[t],
                                        !.counts = counts]]
  /\ UNCHANGED <<tables, plan, network, lock, faults>>

----------------------------------------------------------------------------
(* TaskSendWaiting: read 'unsent' and 'sending' reqs, then post each one   *)
(* under the storage provider lock.                                        *)

sendWaiting(t) ==
  /\ req[t].status \in {"unsent", "sending"}
  /\ Read("SendWaiting", t, "sendWaiting", FALSE)

processUnsent ==
  /\ At(M, "sendWaiting") /\ Acquire(M)
  /\ Goto(M, "mergeBeef")
  /\ UNCHANGED <<tables, plan, network, faults>>

----------------------------------------------------------------------------
(* TaskCheckForProofs and TaskCheckNoSends: read reqs, then getProofs.  A  *)
(* run caused by a new block (checkNow) counts as an attempt, a run of the *)
(* timer does not.                                                         *)

checkForProofs(t, counts) ==
  /\ req[t].status \in {"unmined", "sending"}
  /\ Read("CheckForProofs", t, "getProofs", counts)

checkNoSends(t, counts) ==
  /\ req[t].status = "nosend"
  /\ Read("CheckNoSends", t, "getProofs", counts)

(* Decisions on the req as it was read: already linked to a proof, or too  *)
(* many attempts.  The copy is written back, under the lock of that write. *)
settleCopy ==
  /\ At(M, "getProofs") /\ Free
  /\ LET c == s[M].copy IN
       \/ c.proof /\ WriteReq(s[M].t, [c EXCEPT !.status = "completed"])
       \/ /\ ~c.proof /\ c.attempts > ProofLimit
          /\ WriteReq(s[M].t, [c EXCEPT !.status = "invalid"])
  /\ Return(M)
  /\ UNCHANGED <<tx, proven, outputs, plan, network, faults>>

(* services.getMerklePath (external) and EntityProvenTx.fromReq: a path    *)
(* exists once the transaction is mined, and a provider may fail to give   *)
(* it.  A lookup that counts does so unless the req is 'nosend'.  An old    *)
(* req (age is left open) with many attempts is given up.                  *)
Counted_Never(c) == c                              \* mutant: not incremented

Counted(c) ==
  IF c.status = "nosend" THEN c ELSE [c EXCEPT !.attempts = @ + 1]

getMerklePath ==
  /\ At(M, "getProofs")
  /\ ~s[M].copy.proof /\ s[M].copy.attempts <= ProofLimit
  /\ LET c == IF s[M].counts THEN Counted(s[M].copy) ELSE s[M].copy IN
     \/ /\ TRUE \in MerklePaths(s[M].t \in mined)
        /\ s' = [s EXCEPT ![M].pc = "saveCopy", ![M].copy = c,
                          ![M].kept = c.attempts]
     \/ /\ FALSE \in MerklePaths(s[M].t \in mined)
        /\ \E status \in {c.status} \cup
            (IF s[M].copy.attempts > GiveUpLimit THEN {"invalid"} ELSE {}) :
          s' = [s EXCEPT ![M].pc = "finishProof", ![M].kept = c.attempts,
                         ![M].copy = [c EXCEPT !.status = status]]
  /\ UNCHANGED <<tables, plan, network, lock, faults>>

(* A proof from the newest block is ignored, and nothing is written.       *)
proofTooNew ==
  /\ At(M, "getProofs")
  /\ s[M].t \in known \ mined
  /\ Return(M)
  /\ UNCHANGED <<tables, plan, network, faults>>

(* getProofs writes the copy before it uses the proof, then refreshes it.  *)
saveCopy ==
  /\ At(M, "saveCopy") /\ Free
  /\ WriteReq(s[M].t, s[M].copy)
  /\ Goto(M, "refreshCopy")
  /\ UNCHANGED <<tx, proven, outputs, plan, network, lock, faults>>

refreshCopy ==
  /\ At(M, "refreshCopy") /\ Free
  /\ s' = [s EXCEPT ![M].copy = req[s[M].t], ![M].pc = "newProvenTx",
                    ![M].kept = req[s[M].t].attempts]
  /\ UNCHANGED <<tables, plan, network, lock, faults>>

(* updateProvenTxReqWithNewProvenTx: read the req; if somebody linked it   *)
(* to a proof already there is nothing to do.                              *)
newProvenTx ==
  /\ At(M, "newProvenTx")
  /\ LET c == req[s[M].t] IN
     \/ /\ ~c.proof /\ Acquire(M)
        /\ s' = [s EXCEPT ![M].copy = c, ![M].pc = "insertProvenTx"]
     \/ /\ c.proof /\ Free /\ UNCHANGED lock
        /\ s' = [s EXCEPT ![M].copy = c, ![M].pc = "finishProof"]
  /\ UNCHANGED <<tables, plan, network, faults>>

(* One database transaction: findOrInsertProvenTx and, if the row is new,  *)
(* the req completed and linked.                                           *)
insertProvenTx ==
  /\ At(M, "insertProvenTx")
  /\ LET t == s[M].t
         c == [s[M].copy EXCEPT !.status = "completed", !.proof = TRUE] IN
     \/ /\ t \in proven
        /\ s' = [s EXCEPT ![M].pc = "finishProof", ![M].copy.proof = TRUE]
        /\ Release(M)
        /\ UNCHANGED <<req, proven>>
     \/ /\ t \notin proven
        /\ proven' = proven \cup {t}
        /\ WriteReq(t, c)
        /\ s' = [s EXCEPT ![M].copy = c, ![M].pc = "notifyTx"]
        /\ UNCHANGED lock
  /\ UNCHANGED <<tx, outputs, plan, network, faults>>

(* The notification of the transaction row, outside that transaction: a    *)
(* plain update, whatever the row's status.  A failure here is only noted. *)
notifyTx ==
  /\ At(M, "notifyTx")
  /\ \/ /\ tx' = [tx EXCEPT ![s[M].t] =
                    UpdateTx(s[M].t, [status |-> "completed", proof |-> TRUE])]
        /\ UNCHANGED faults
     \/ /\ faults < MaxFaults /\ faults' = faults + 1
        /\ UNCHANGED tx
  /\ Goto(M, "saveNotified")
  /\ UNCHANGED <<req, proven, outputs, plan, network, lock>>

saveNotified ==
  /\ At(M, "saveNotified")
  /\ WriteReq(s[M].t, s[M].copy)
  /\ Goto(M, "finishProof") /\ Release(M)
  /\ UNCHANGED <<tx, proven, outputs, plan, network, faults>>

(* getProofs' last write, after the closure released its lock: its own req *)
(* (with the attempts it kept) given the status and link of the closure's. *)
finishProof_StatusNotTaken ==             \* mutant: the closure's status lost
  /\ At(M, "finishProof")
  /\ Free
  /\ WriteReq(s[M].t, [s[M].copy EXCEPT !.attempts = s[M].kept,
                         !.status = IF @ = "completed" THEN "unmined" ELSE @])
  /\ Return(M)
  /\ UNCHANGED <<tx, proven, outputs, plan, network, faults>>

finishProof ==
  /\ At(M, "finishProof")
  /\ Free
  /\ WriteReq(s[M].t, [s[M].copy EXCEPT !.attempts = s[M].kept])
  /\ Return(M)
  /\ UNCHANGED <<tx, proven, outputs, plan, network, faults>>

----------------------------------------------------------------------------
(* TaskFailAbandoned: rows left 'unsigned' or 'unprocessed' for longer     *)
(* than abandonedMsecs are failed.  Storage calls are taken to be shorter  *)
(* than that: no call is working on a row that counts as abandoned.        *)
Abandoned(t) ==
  /\ tx[t].status \in {"unprocessed", "unsigned"}
  /\ \A p \in Callers : s[p].t # t

failAbandoned(t) ==
  /\ "FailAbandoned" \in Tasks
  /\ At(M, "idle") /\ Acquire(M)
  /\ Abandoned(t)
  /\ s' = [s EXCEPT ![M] = [Idle EXCEPT !.pc = "failAbandoned", !.t = t]]
  /\ UNCHANGED <<tables, plan, network, faults>>

failAbandonedTx ==
  /\ At(M, "failAbandoned")
  /\ \/ updateTransactionStatus(s[M].t, "failed")
     \/ ~MayUpdateStatus(s[M].t, "failed") /\ UNCHANGED <<tx, outputs>>
  /\ Return(M)
  /\ UNCHANGED <<req, proven, plan, network, faults>>

----------------------------------------------------------------------------
(* TaskUnFail.  An operator marks an invalid req 'unfail' by hand (external *)
(* to the code); the task revives it if the network has a proof.           *)

assignUnfail(t) ==
  /\ "UnFail" \in Tasks /\ Free
  /\ req[t].status = "invalid"
  /\ req' = [req EXCEPT ![t].status = "unfail"]
  /\ UNCHANGED <<tx, proven, outputs, plan, network, s, lock, faults>>

unfail(t) ==
  /\ req[t].status = "unfail"
  /\ Read("UnFail", t, "getPath", FALSE)

getUnfailPath ==
  /\ At(M, "getPath")
  /\ \/ /\ TRUE \in MerklePaths(s[M].t \in mined)
        /\ s' = [s EXCEPT ![M].pc = "unfailTx", ![M].copy.status = "unmined",
                          ![M].copy.attempts = 0]
     \/ /\ FALSE \in MerklePaths(s[M].t \in mined)
        /\ s' = [s EXCEPT ![M].pc = "unfailReq", ![M].copy.status = "invalid"]
  /\ UNCHANGED <<tables, plan, network, lock, faults>>

(* unfailReq: the transaction is 'unproven' again, its inputs are taken    *)
(* back from whoever holds them, and its outputs follow the UTXO set.  The *)
(* writes of this closure are one step: it runs under the storage provider *)
(* lock, and the task is only installed where the manager's locks are.  An *)
(* input or an output whose row is gone, or a transaction, is passed over. *)
RetakenBy_Nobody(t) == spentBy                    \* mutant: inputs forgotten

RetakenBy(t) ==
  [o \in Outs |-> IF o \in plan[t].inputs \cap exists THEN t ELSE spentBy[o]]

unfailTx ==
  /\ At(M, "unfailTx") /\ Free
  /\ LET t == s[M].t IN
       IF tx[t].status = "none" THEN UNCHANGED <<tx, spendable, spentBy>> ELSE
         /\ tx' = [tx EXCEPT ![t].status = "unproven"]
         /\ spentBy' = RetakenBy(t)
         /\ \E found \in isUtxo(Unspent(t), Failures) :
              spendable' = LET kept == spendable \ plan[t].inputs IN
                             IF t \notin exists THEN kept
                             ELSE IF found THEN kept \cup {t} ELSE kept \ {t}
  /\ Goto(M, "unfailReq")
  /\ UNCHANGED <<req, proven, exists, change, plan, network, lock, faults>>

unfailReq ==
  /\ At(M, "unfailReq") /\ Free
  /\ WriteReq(s[M].t, s[M].copy)
  /\ Return(M)
  /\ UNCHANGED <<tx, proven, outputs, plan, network, faults>>

----------------------------------------------------------------------------
(* TaskReviewStatus: the three update queries of methods/reviewStatus.ts,  *)
(* one after the other over all rows, not in a common transaction.         *)

reviewStatus ==
  /\ "ReviewStatus" \in Tasks
  /\ At(M, "idle") /\ Acquire(M)
  /\ s' = [s EXCEPT ![M] = [Idle EXCEPT !.pc = "review1"]]
  /\ UNCHANGED <<tables, plan, network, faults>>

failWhereReqInvalid ==
  /\ At(M, "review1")
  /\ tx' = [t \in Txs |-> IF req[t].status = "invalid"
                            THEN UpdateTx(t, [tx[t] EXCEPT !.status = "failed"])
                            ELSE tx[t]]
  /\ Goto(M, "review2")
  /\ UNCHANGED <<req, proven, outputs, plan, network, lock, faults>>

releaseWhereTxFailed ==
  /\ At(M, "review2")
  /\ ReleaseInputs({t \in Txs : tx[t].status = "failed"})
  /\ Goto(M, "review3")
  /\ UNCHANGED <<tx, req, proven, plan, network, lock, faults>>

MissedProof_Linked(t) == t \in proven /\ tx[t].proof     \* mutant: negation lost

MissedProof(t) == t \in proven /\ ~tx[t].proof /\ tx[t].status # "none"

completeWhereProven ==
  /\ At(M, "review3")
  /\ tx' = [t \in Txs |->
              IF MissedProof(t)
                THEN [status |-> "completed", proof |-> TRUE] ELSE tx[t]]
  /\ Return(M)
  /\ UNCHANGED <<req, proven, outputs, plan, network, faults>>

----------------------------------------------------------------------------
SendWaitingStep == (\E t \in Txs : sendWaiting(t)) \/ processUnsent
GetProofsStep ==
  \/ \E t \in Txs, counts \in BOOLEAN :
       checkForProofs(t, counts) \/ checkNoSends(t, counts)
  \/ settleCopy \/ getMerklePath \/ proofTooNew \/ saveCopy \/ refreshCopy \/ newProvenTx
  \/ insertProvenTx \/ notifyTx \/ saveNotified \/ finishProof
FailAbandonedStep == (\E t \in Txs : failAbandoned(t)) \/ failAbandonedTx
UnFailStep ==
  \/ \E t \in Txs : assignUnfail(t) \/ unfail(t)
  \/ getUnfailPath \/ unfailTx \/ unfailReq
ReviewStatusStep ==
  reviewStatus \/ failWhereReqInvalid \/ releaseWhereTxFailed \/ completeWhereProven

MonitorStep ==
  SendWaitingStep \/ GetProofsStep \/ FailAbandonedStep \/ UnFailStep
    \/ ReviewStatusStep
=============================================================================

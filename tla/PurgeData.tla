----------------------------- MODULE PurgeData -----------------------------
(***************************************************************************)
(* TaskPurge and purgeData (src/src/storage/methods/purgeData.ts): rows    *)
(* that were not updated for long are deleted, by one query after the      *)
(* other and in no common database transaction, under the storage provider *)
(* lock.  Ages are left open: any set of rows may be the old ones.         *)
(***************************************************************************)
EXTENDS MonitorTasks

(* purgeData does the purges it is asked for in this order; each begins    *)
(* with reads of the rows to delete.                                       *)
AfterCompleted == IF "failed" \in PurgeParams THEN "purgeFailed"
                  ELSE IF "spent" \in PurgeParams THEN "purgeSpent"
                  ELSE "purgeOrphans"
AfterFailed == IF "spent" \in PurgeParams THEN "purgeSpent" ELSE "purgeOrphans"
FirstPurge == IF "completed" \in PurgeParams THEN "purgeCompleted"
              ELSE AfterCompleted

purge ==
  /\ "Purge" \in Tasks
  /\ At(M, "idle") /\ Acquire(M)
  /\ s' = [s EXCEPT ![M] = [Idle EXCEPT !.pc = FirstPurge]]
  /\ UNCHANGED <<tables, plan, network, faults>>

(* purgeCompleted deletes completed reqs that were notified: notified is   *)
(* set with the proof, also when the transaction could not be told.  What  *)
(* it clears of transaction rows, rawTx and inputBEEF, is not modelled.    *)
NotifiedReqs == {t \in Txs : req[t].status = "completed" /\ req[t].proof}

DeleteReqs(T) == req' = [t \in Txs |-> IF t \in T THEN NoReq ELSE req[t]]

purgeCompleted ==
  /\ At(M, "purgeCompleted")
  /\ \E old \in SUBSET NotifiedReqs : DeleteReqs(old)
  /\ Goto(M, AfterCompleted)
  /\ UNCHANGED <<tx, proven, outputs, plan, network, lock, faults>>

(* purgeFailed: the failed transactions, then their outputs, then their    *)
(* inputs made spendable, then their rows, then invalid and doubleSpend    *)
(* reqs.  held is the list of transactions.                                *)
FailedTxs == {t \in Txs : tx[t].status = "failed"}

selectFailed ==
  /\ At(M, "purgeFailed")
  /\ \E old \in SUBSET FailedTxs :
       s' = [s EXCEPT ![M].held = old,
                      ![M].pc = IF old = {} THEN "purgeReqs" ELSE "purgeOutputs"]
  /\ UNCHANGED <<tables, plan, network, lock, faults>>

Delete(O) ==
  /\ exists' = exists \ O
  /\ spendable' = spendable \ O
  /\ spentBy' = [o \in Outs |-> IF o \in O THEN NoTx ELSE spentBy[o]]
  /\ change' = change \ O

deleteFailedOutputs ==
  /\ At(M, "purgeOutputs")
  /\ Delete(s[M].held)
  /\ Goto(M, "purgeInputs")
  /\ UNCHANGED <<tx, req, proven, plan, network, lock, faults>>

MarkNotSpentBy(T) == ReleaseInputs(T)

markNotSpentBy ==
  /\ At(M, "purgeInputs")
  /\ MarkNotSpentBy(s[M].held \cap Txs)
  /\ Goto(M, "purgeTxs")
  /\ UNCHANGED <<tx, req, proven, plan, network, lock, faults>>

DeleteTxs(T) ==
  tx' = [t \in Txs |-> IF t \in T THEN [status |-> "none", proof |-> FALSE]
                                  ELSE tx[t]]

deleteFailedTxs ==
  /\ At(M, "purgeTxs")
  /\ DeleteTxs(s[M].held)
  /\ Goto(M, "purgeReqs")
  /\ UNCHANGED <<req, proven, outputs, plan, network, lock, faults>>

deleteFailedReqs ==
  /\ At(M, "purgeReqs")
  /\ \E old \in SUBSET {t \in Txs : req[t].status \in {"invalid", "doubleSpend"}} :
       DeleteReqs(old)
  /\ Goto(M, AfterFailed)
  /\ UNCHANGED <<tx, proven, outputs, plan, network, lock, faults>>

(* purgeSpent: completed transactions without a spendable output go, if    *)
(* they are not needed to prove one that is spendable.  The beef of a      *)
(* transaction without a proof has the transactions of its inputs in it.   *)
(* Coins stand for the transactions that made them.                        *)
Needed(o) == {o} \cup (IF o \in Txs \ proven THEN plan[o].inputs ELSE {})

ProofsOf(O) ==
  {x \in Outs : \E o \in O : \A K \in SUBSET Outs :
                  (o \in K /\ \A y \in K : Needed(y) \subseteq K) => x \in K}

UtxoStatus == {"sending", "unproven", "completed", "nosend"}
Utxos == {o \in exists \cap spendable : OwnerStatus(o) \in UtxoStatus}

SpentTxs ==
  {o \in Txs \cup exists : OwnerStatus(o) = "completed" /\ o \notin exists \cap spendable}
    \ ProofsOf(Utxos)

(* Storage must vouch for each of them, else getBeefForTransaction throws.  *)
CanProve == \A t \in ProofsOf(Utxos) \cap Txs : Vouched(t)

selectSpent ==
  /\ At(M, "purgeSpent") /\ CanProve
  /\ \E old \in SUBSET SpentTxs :
       s' = [s EXCEPT ![M].held = old,
                      ![M].pc = IF old = {} THEN "purgeOrphans" ELSE "forgetSpent"]
  /\ UNCHANGED <<tables, plan, network, lock, faults>>

selectSpentThrows ==
  /\ At(M, "purgeSpent") /\ ~CanProve
  /\ Return(M)
  /\ UNCHANGED <<tables, plan, network, faults>>

(* Outputs they spent are no longer assigned to them, then their own       *)
(* outputs are deleted, then their rows.                                   *)
forgetSpentBy ==
  /\ At(M, "forgetSpent")
  /\ spentBy' = [o \in Outs |-> IF spentBy[o] \in s[M].held /\ o \notin spendable
                                 THEN NoTx ELSE spentBy[o]]
  /\ Goto(M, "spentOutputs")
  /\ UNCHANGED <<tx, req, proven, exists, spendable, change, plan, network, lock,
                 faults>>

deleteSpentOutputs ==
  /\ At(M, "spentOutputs")
  /\ Delete(s[M].held)
  /\ Goto(M, "spentTxs")
  /\ UNCHANGED <<tx, req, proven, plan, network, lock, faults>>

deleteSpentTxs ==
  /\ At(M, "spentTxs")
  /\ DeleteTxs(s[M].held)
  /\ Goto(M, "purgeOrphans")
  /\ UNCHANGED <<req, proven, outputs, plan, network, lock, faults>>

(* Proofs that no transaction and no req refers to, by txid or by          *)
(* provenTxId, are deleted.                                                *)
Orphans_ByReqs == {t \in proven : req[t].status = "none"}  \* mutant: one query

Orphans ==
  {t \in proven : /\ tx[t].status = "none" /\ ~tx[t].proof
                  /\ req[t].status = "none" /\ ~req[t].proof}

deleteOrphans ==
  /\ At(M, "purgeOrphans")
  /\ proven' = proven \ Orphans
  /\ Return(M)
  /\ UNCHANGED <<tx, req, outputs, plan, network, faults>>

PurgeStep ==
  \/ purge \/ purgeCompleted
  \/ selectFailed \/ deleteFailedOutputs \/ markNotSpentBy \/ deleteFailedTxs
  \/ deleteFailedReqs
  \/ selectSpent \/ selectSpentThrows \/ forgetSpentBy
  \/ deleteSpentOutputs \/ deleteSpentTxs
  \/ deleteOrphans
=============================================================================

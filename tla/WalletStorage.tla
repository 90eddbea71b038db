--------------------------- MODULE WalletStorage ---------------------------
(***************************************************************************)
(* The life of an action in wallet storage: callers create, process, send  *)
(* and abort actions while the monitor posts them, looks for their proofs  *)
(* and cleans up.  Composes CreateAction, ProcessAction and MonitorTasks   *)
(* with the network, and states what must hold of the rows.                *)
(***************************************************************************)
EXTENDS CreateAction, InternalizeAction, ListSpecOps, MonitorTasks, PurgeData

(* The network (external).  Whoever made a received transaction may send   *)
(* it, unless they spent its inputs elsewhere.                             *)
Arrive(t) ==
  /\ origin[t] = "received" /\ t \notin known
  /\ known' = known \cup {t}
  /\ UNCHANGED <<tables, plan, mined, origin, s, lock, faults>>

(* A block takes an accepted transaction, after    *)
(* its parents.                                                            *)
Mine(t) ==
  /\ t \in known \ mined
  /\ Parents(t) \subseteq mined
  /\ mined' = mined \cup {t}
  /\ UNCHANGED <<tables, plan, known, origin, s, lock, faults>>

CallerStep(p) ==
  CreateActionStep(p) \/ ProcessActionStep(p) \/ InternalizeActionStep(p)
    \/ ListSpecOpsStep(p)

Next ==
  \/ \E p \in Callers : CallerStep(p)
  \/ MonitorStep \/ PurgeStep
  \/ PostStep(Monitor)
  \/ \E p \in Procs : Throws(p)
  \/ \E t \in Txs : Arrive(t) \/ Mine(t)

Spec == Init /\ [][Next]_vars

(* Calls that started go on.  The monitor's loop starts every task again   *)
(* and again and its tasks page through all rows; it queues for the lock   *)
(* in FIFO order, hence strong fairness.  Blocks are found, so that proofs *)
(* are sought by runs that count, after a new header.  Nobody is           *)
(* obliged to call the wallet, to mine an unposted transaction or to fail. *)
Continues(p) == ~At(p, "idle") /\ (CallerStep(p) \/ (p = M /\ (MonitorStep \/ PurgeStep)))

Fairness ==
  /\ \A p \in Callers : WF_vars(Continues(p))
  /\ SF_vars(Continues(M))
  /\ SF_vars(reviewStatus)
  /\ \A t \in Txs : SF_vars(sendWaiting(t)) /\ SF_vars(checkForProofs(t, TRUE))
                       /\ WF_vars(Mine(t))

FairSpec == Spec /\ Fairness

(* createAction alone, on a storage that holds only coins.                 *)
FundingNext == \E p \in Callers : CreateActionStep(p) \/ Throws(p)

FundingSpec == Init /\ [][FundingNext]_vars

----------------------------------------------------------------------------
(* Safety: who holds the outputs *)

(* The caller was told what to spend, and the action has not failed.       *)
Lives(t) == plan[t].ready /\ tx[t].status \notin {"none", "failed", "unfail"}

Held(t) == \A o \in plan[t].inputs : spentBy[o] = t /\ o \notin spendable

(* Nothing is left that may bring the action to life again.                *)
GivenUp(t) == ~Lives(t) /\ req[t].status \in {"none", "invalid", "doubleSpend"}

(* The inputs the caller was told to spend are reserved when createAction  *)
(* returns and for as long as the action lives: only failing releases      *)
(* them, no other action, retry or clean-up takes them in between, and an  *)
(* action that was given up lives no more.  One that failed while a copy   *)
(* of its req was in use is not given up when that copy is written back.   *)
InputsStayLocked ==
  [][\A t \in Txs : Lives(t)' /\ (Held(t) \/ ~Lives(t)) /\ (Lives(t) \/ GivenUp(t))
                     => Held(t)']_vars

(* While a transaction is being funded, the change it allocated and the    *)
(* inputs it locked stay its own, whatever other createAction calls do     *)
(* between the steps of this one.  Only the noSendChange named by the      *)
(* caller is exempt: it is locked without another look at its row.         *)
ChangeLockedWhileFunding ==
  \A p \in Callers : \A o \in s[p].held \ s[p].given :
    spentBy[o] = s[p].t /\ o \notin spendable

(* No two results of createAction tell their callers to spend one output.  *)
PlansDisjoint == \A t, u \in Txs : ~Conflict(t, u)

(* updateTransactionStatus('failed') gives back every input, and no later  *)
(* step of a call or a task locks an output for a failed transaction.      *)
FailedHoldsNothing ==
  \A t \in Txs : tx[t].status = "failed" => getInputs(t) = {}

(* An output offered for spending is not assigned to any transaction:      *)
(* spendable and spentBy are two columns, written by many statements.      *)
SpendableIsFree == \A o \in spendable : spentBy[o] = NoTx

(* A transaction the network accepted owns its inputs, even after it was   *)
(* declared failed, its inputs were given away and TaskUnFail revived it.  *)
(* The row of one that never arrived may say 'unproven' as well.  Where    *)
(* TaskUnFail runs this is said of the coins only: it offers the outputs   *)
(* of what it revives by the UTXO set, without a look at their spentBy, so *)
(* an output that a child not yet sent has reserved is allocated again.    *)
AcceptedHoldsInputs ==
  \A t \in known : tx[t].status \in {"unproven", "completed"} =>
    \A o \in plan[t].inputs : ("UnFail" \in Tasks => o \in Coins) => spentBy[o] = t

(* No change is lost: an output that is unspent on the network can be      *)
(* spent, or somebody in the wallet has it.                                *)
ChangeIsNotLost ==
  \A o \in exists \cap change : Unspent(o) => o \in spendable \/ spentBy[o] # NoTx

----------------------------------------------------------------------------
(* Safety: rows, proofs and the network tell the same story *)

(* A transaction that failed, and whose inputs were therefore given back,  *)
(* is not on the network, unless the beef of a child took it there.        *)
FailedStaysOffNetwork ==
  \A t \in Txs : tx[t].status = "failed" /\ t \in known =>
    \E u \in known : t \in Parents(u)

(* No row claims completion without the proof: completed and proven_txs    *)
(* are set by different statements, copies of a req are written back late. *)
CompletedHasProof ==
  \A t \in Txs :
    (req[t].status = "completed" \/ tx[t].status = "completed" \/ req[t].proof
       \/ tx[t].proof) => t \in proven

(* A completed transaction has a completed req, or one that was purged:    *)
(* stale copies of the req do not take it back to an earlier stage.        *)
CompletedAgrees ==
  \A t \in Txs :
    tx[t].status = "completed" => req[t].status \in {"completed", "none"}

(* "Terminal status: doubleSpend, invalid ('Will never be re-attempted or  *)
(* completed'), completed" (sdk/types.ts).  An operator may assign unfail, *)
(* purgeData deletes the row, and the monitor writes back a copy of the    *)
(* req that it read before; no other step of a caller or a task leaves a   *)
(* terminal status.                                                        *)
Terminal == {"completed", "invalid", "doubleSpend"}

WritesBack(t) ==
  /\ s[M].t = t /\ s[M].copy.status \notin Terminal
  /\ s[M].pc \in {"mergeBeef", "transferNotes", "saveCopy", "finishProof", "unfailReq"}

TerminalIsFinal ==
  [][\A t \in Txs : req[t].status \in Terminal =>
       req'[t].status \in Terminal \cup {"unfail", "none"} \/ WritesBack(t)]_vars

----------------------------------------------------------------------------
(* Liveness *)

(* A req on its way to the network, or waiting for its proof there, gets   *)
(* to a terminal status: posted, retried, proven or given up.              *)
InFlightSettles ==
  \A t \in Txs : req[t].status \in {"unsent", "sending", "unmined"}
                   ~> req[t].status \in Terminal

(* A transaction on its way is completed or fails, if somebody looks after *)
(* it.  Without a req nobody does: internalizeAction inserts the 'unproven' *)
(* row first, and merges into it when it is tried again after a failure.   *)
(* And a double spend that was noted in the req only stays 'sending' or    *)
(* 'unproven': reviewStatus looks for 'invalid' reqs alone.  A transaction *)
(* that failed lets go of its inputs (TaskReviewStatus).                   *)
Unattended(t) == req[t].status \in {"none", "doubleSpend"}

TransactionSettles ==
  /\ \A t \in Txs :
       tx[t].status \in {"sending", "unproven"}
         ~> tx[t].status \in {"completed", "failed"} \/ Unattended(t)
  /\ \A t \in Txs, o \in Outs :
       (tx[t].status = "failed" /\ spentBy[o] = t) ~> spentBy[o] # t
=============================================================================

---------------------------- MODULE ListSpecOps ----------------------------
(***************************************************************************)
(* The special operations behind listActions and listOutputs               *)
(* (src/src/storage/methods/ListActionsSpecOp.ts, ListOutputsSpecOp.ts):   *)
(* labels and baskets of reserved names turn a query into an update of the *)
(* rows it found.  The rows are read first and then updated one by one.    *)
(***************************************************************************)
EXTENDS ProcessAction

(* listActions and listOutputs with a special operation: read the rows.    *)
Listed(call, p, pc, rows) ==
  /\ call \in Calls
  /\ At(p, "idle") /\ Acquire(p)
  /\ rows # {}
  /\ s' = [s EXCEPT ![p] = [Idle EXCEPT !.pc = pc, !.held = rows]]
  /\ UNCHANGED <<tables, plan, network, faults>>

Rest(p, x) == s' = [s EXCEPT ![p].held = @ \ {x}]

listed(p) ==
  /\ s[p].pc \in {"abortListed", "unfailListed", "releaseListed"}
  /\ s[p].held = {}
  /\ Return(p)
  /\ UNCHANGED <<tables, plan, network, faults>>

(* noSendActions with label 'abort'.                                       *)
listNoSends(p) ==
  Listed("noSendActions", p, "abortListed", {t \in Txs : tx[t].status = "nosend"})

abortListed(p) ==
  /\ At(p, "abortListed")
  /\ \E t \in s[p].held \cap Txs :
       \/ abortTx(t) /\ Rest(p, t) /\ UNCHANGED lock
       \/ ~Abortable(t) /\ Return(p) /\ UNCHANGED <<tx, req, outputs>>
  /\ UNCHANGED <<proven, plan, network, faults>>

(* failedActions with label 'unfail': the transaction row, and not the req *)
(* that TaskUnFail looks for, is given the status.                         *)
listFailed(p) ==
  Listed("failedActions", p, "unfailListed", {t \in Txs : tx[t].status = "failed"})

unfailListed(p) ==
  /\ At(p, "unfailListed")
  /\ \E t \in s[p].held :
       /\ tx' = [tx EXCEPT ![t] = UpdateTx(t, [@ EXCEPT !.status = "unfail"])]
       /\ Rest(p, t)
  /\ UNCHANGED <<req, proven, outputs, plan, network, lock, faults>>

(* invalidChangeOutputs with tag 'release': spendable change the network   *)
(* does not know as unspent is not spendable any more.  All are asked for  *)
(* before the first is updated.                                            *)
ListedStatus == {"completed", "unproven", "nosend", "sending"}

listChange(p) ==
  Listed("invalidChange", p, "filterListed",
         {o \in exists \cap spendable \cap change :
            OwnerStatus(o) \in ListedStatus})

filterOutputs(p) ==
  /\ At(p, "filterListed")
  /\ \E invalid \in SUBSET s[p].held :
       /\ \A o \in s[p].held :
            (o \notin invalid) \in isUtxo(Unspent(o), Failures)
       /\ s' = [s EXCEPT ![p].pc = "releaseListed", ![p].held = invalid]
  /\ UNCHANGED <<tables, plan, network, lock, faults>>

releaseListed(p) ==
  /\ At(p, "releaseListed")
  /\ \E o \in s[p].held :
       /\ spendable' = spendable \ {o}
       /\ Rest(p, o)
  /\ UNCHANGED <<tx, req, proven, exists, spentBy, change, plan, network, lock,
                 faults>>

ListSpecOpsStep(p) ==
  \/ listNoSends(p) \/ abortListed(p) \/ listFailed(p) \/ unfailListed(p)
  \/ listChange(p) \/ filterOutputs(p) \/ releaseListed(p) \/ listed(p)
=============================================================================

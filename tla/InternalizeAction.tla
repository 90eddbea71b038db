------------------------- MODULE InternalizeAction -------------------------
(***************************************************************************)
(* internalizeAction of the storage                                        *)
(* (src/src/storage/methods/internalizeAction.ts): the wallet takes        *)
(* ownership of an output of a transaction, as a wallet payment (change)   *)
(* or as a basket insertion (custom).  Nothing here is in one database     *)
(* transaction with anything else.                                         *)
(*                                                                         *)
(* getProvenOrReq never sets isNew, so the branch of newInternalize that   *)
(* would send the transaction at once is never taken: a new req waits as   *)
(* 'unsent' for TaskSendWaiting.                                           *)
(***************************************************************************)
EXTENDS ProcessAction

(* asyncSetup: a transaction the user has a row for is merged into, one    *)
(* that is new is stored.  Its beef was verified: a bump is the path of a  *)
(* transaction in a block, a beef without a bump may be of any.  The txid  *)
(* of an action is not in its row before processAction.                    *)
MergeStatus == {"completed", "unproven", "nosend"}

internalizeAction(p, t) ==
  /\ "internalizeAction" \in Calls
  /\ At(p, "idle") /\ Acquire(p)
  /\ \/ /\ ~Own(t) \/ plan[t].ready
        /\ tx[t].status \in MergeStatus
        /\ s' = [s EXCEPT ![p] = [Idle EXCEPT !.t = t,
                   !.pc = IF t \in exists THEN "mergeOutput" ELSE "storeOutput"]]
     \/ /\ ~Own(t) /\ tx[t].status = "none"
        /\ \E bump \in BOOLEAN :
             /\ bump => t \in mined
             /\ s' = [s EXCEPT ![p] = [Idle EXCEPT !.t = t,
                        !.pc = IF bump THEN "insertProven" ELSE "insertUnproven"]]
  /\ UNCHANGED <<tables, plan, network, faults>>

(* newInternalize, with a bump: findOrInsertProvenTx, by itself.           *)
findOrInsertProvenTx(p) ==
  /\ At(p, "insertProven")
  /\ proven' = proven \cup {s[p].t}
  /\ Goto(p, "insertCompleted")
  /\ UNCHANGED <<tx, req, outputs, plan, network, lock, faults>>

(* findOrInsertTargetTransaction: it throws if the row came up meanwhile.  *)
InsertTx(p, row, next) ==
  IF tx[s[p].t].status = "none"
    THEN tx' = [tx EXCEPT ![s[p].t] = row] /\ Goto(p, next) /\ UNCHANGED lock
    ELSE UNCHANGED tx /\ Return(p)

insertCompleted(p) ==
  /\ At(p, "insertCompleted")
  /\ InsertTx(p, [status |-> "completed", proof |-> TRUE], "storeOutput")
  /\ UNCHANGED <<req, proven, outputs, plan, network, faults>>

insertUnproven(p) ==
  /\ At(p, "insertUnproven")
  /\ InsertTx(p, [status |-> "unproven", proof |-> FALSE], "getReq")
  /\ UNCHANGED <<req, proven, outputs, plan, network, faults>>

(* getProvenOrReq: with a proof there is no need of a req; the status of a *)
(* req that exists is not changed.                                         *)
NewReq(t) == [NoReq EXCEPT !.status = "unsent"]

getProvenOrReq(p) ==
  /\ At(p, "getReq")
  /\ LET t == s[p].t IN
       req' = IF t \in proven \/ req[t].status # "none" THEN req
                ELSE [req EXCEPT ![t] = NewReq(t)]
  /\ Goto(p, "storeOutput")
  /\ UNCHANGED <<tx, proven, outputs, plan, network, lock, faults>>

(* storeNewWalletPaymentForOutput, storeNewBasketInsertionForOutput: the   *)
(* output is spendable at once.  The columns transactionId and vout are    *)
(* unique: a second insertion throws.                                      *)
storeOutput(p) ==
  /\ At(p, "storeOutput")
  /\ LET t == s[p].t IN
     \/ /\ t \notin exists
        /\ exists' = exists \cup {t}
        /\ spendable' = spendable \cup {t}
        /\ change' \in {change \cup {t}, change}
        /\ UNCHANGED spentBy
     \/ t \in exists /\ UNCHANGED outputs
  /\ Return(p)
  /\ UNCHANGED <<tx, req, proven, plan, network, faults>>

(* mergeWalletPaymentForOutput makes a custom output change, but leaves an *)
(* output that is change; mergeBasketInsertionForOutput makes any output   *)
(* custom, though its rule 2 says it refuses one of the change basket.     *)
(* Neither looks at spendable and spentBy.                                 *)
mergeOutput(p) ==
  /\ At(p, "mergeOutput")
  /\ change' \in {change \cup ({s[p].t} \cap exists), change \ {s[p].t}}
  /\ Return(p)
  /\ UNCHANGED <<tx, req, proven, exists, spendable, spentBy, plan, network,
                 faults>>

InternalizeActionStep(p) ==
  \/ \E t \in Txs : internalizeAction(p, t)
  \/ findOrInsertProvenTx(p) \/ insertCompleted(p) \/ insertUnproven(p)
  \/ getProvenOrReq(p) \/ storeOutput(p) \/ mergeOutput(p)
=============================================================================

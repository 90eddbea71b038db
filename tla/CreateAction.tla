---------------------------- MODULE CreateAction ----------------------------
(***************************************************************************)
(* createAction of the storage (src/src/storage/methods/createAction.ts).  *)
(* The steps are not one database transaction: the transaction row comes   *)
(* first, change is locked one output at a time while the transaction is   *)
(* funded, then output rows are inserted, and the inputs the caller chose  *)
(* are locked last.  An exception leaves what was done in place.           *)
(***************************************************************************)
EXTENDS StorageTables

(* validateNoSendChange: outputs a caller may pass as noSendChange.  The   *)
(* caller names change of an earlier noSend action; the row must not be    *)
(* spent.                                                                  *)
NoSendChange ==
  {o \in exists \cap Txs :
     /\ plan[o].mode = "noSend" /\ req[o].status # "none"
     /\ o \in spendable /\ spentBy[o] = NoTx}

(* validateRequiredInputs: any stored output but change may be named, for  *)
(* the check that it is spendable is switched off                          *)
(* (disableDoubleSpendCheckForTest is true).                               *)
RequiredInputs == exists \ change

(* Validation reads, then createNewTxRecord inserts the 'unsigned' row.  A *)
(* name is used once, even if its rows are purged.                         *)
createNewTxRecord(p, t) ==
  /\ At(p, "idle") /\ Acquire(p)
  /\ Own(t) /\ tx[t].status = "none" /\ ~plan[t].ready
  /\ \E mode \in Modes :
     \E given \in SUBSET (IF mode = "noSend" THEN NoSendChange ELSE {}) :
     \E fixed \in SUBSET RequiredInputs :
       /\ Cardinality(given) <= 1 /\ Cardinality(fixed) <= 1
       /\ s' = [s EXCEPT ![p] = [Idle EXCEPT !.pc = "fund", !.t = t,
                                   !.mode = mode, !.given = given,
                                   !.nsc = given, !.fixed = fixed]]
  /\ tx' = [tx EXCEPT ![t].status = "unsigned"]
  /\ UNCHANGED <<req, proven, outputs, plan, network, faults>>

(* fundNewTransactionSdk's allocateChangeInput: noSendChange goes first,   *)
(* locked without looking at the row again.                                *)
allocateNoSendChange(p) ==
  /\ At(p, "fund")
  /\ \E o \in s[p].nsc :
       /\ LockOutput(o, s[p].t)
       /\ s' = [s EXCEPT ![p].nsc = @ \ {o}, ![p].held = @ \cup {o}]
  /\ UNCHANGED <<tx, req, proven, exists, change, plan, network, lock, faults>>

(* StorageKnex.allocateChangeInput: in one database transaction, pick a    *)
(* spendable output of the change basket whose transaction is usable, and  *)
(* lock it.                                                                *)
UsableStatus(mode) ==
  {"completed", "unproven"} \cup (IF mode = "now" THEN {} ELSE {"sending"})

AvailableChange_EvenLocked(mode) ==          \* mutant: spendable not asked for
  {o \in exists \cap change : OwnerStatus(o) \in UsableStatus(mode)}

AvailableChange(mode) ==
  {o \in exists \cap spendable \cap change :
     OwnerStatus(o) \in UsableStatus(mode)}

allocateChangeInput(p) ==
  /\ At(p, "fund") /\ s[p].nsc = {}
  /\ \E o \in AvailableChange(s[p].mode) :
       /\ LockOutput(o, s[p].t)
       /\ s' = [s EXCEPT ![p].held = @ \cup {o}]
  /\ UNCHANGED <<tx, req, proven, exists, change, plan, network, lock, faults>>

(* The starvation loop gives every allocated input back and funds again    *)
(* with fewer change outputs (again), or finds the funds insufficient.     *)
startRelease(p) ==
  /\ At(p, "fund") /\ s[p].nsc = {}
  /\ \E retry \in BOOLEAN :
       /\ retry => ~s[p].again /\ s[p].held # {}
       /\ s' = [s EXCEPT ![p].pc = "release", ![p].again = retry]
  /\ UNCHANGED <<tables, plan, network, lock, faults>>

(* releaseChangeInput: a noSendChange output only returns to the local     *)
(* list, its row stays locked; any other row is freed without a check.     *)
releaseChangeInput(p) ==
  /\ At(p, "release")
  /\ \E o \in s[p].held :
       \/ /\ o \in s[p].given
          /\ s' = [s EXCEPT ![p].held = @ \ {o}, ![p].nsc = @ \cup {o}]
          /\ UNCHANGED <<spendable, spentBy>>
       \/ /\ o \notin s[p].given
          /\ UnlockOutput(o)
          /\ s' = [s EXCEPT ![p].held = @ \ {o}]
  /\ UNCHANGED <<tx, req, proven, exists, change, plan, network, lock, faults>>

(* All released: fund again, or throw WERR_INSUFFICIENT_FUNDS, which       *)
(* leaves the 'unsigned' row behind.                                       *)
released(p) ==
  /\ At(p, "release") /\ s[p].held = {}
  /\ \/ s[p].again /\ Goto(p, "fund") /\ UNCHANGED lock
     \/ ~s[p].again /\ Return(p)
  /\ UNCHANGED <<tables, plan, network, faults>>

(* The transaction is funded, by what was allocated or by its own inputs.  *)
funded(p) ==
  /\ At(p, "fund") /\ s[p].nsc = {}
  /\ s[p].held \cup s[p].fixed # {}
  /\ Goto(p, "insertOutputs")
  /\ UNCHANGED <<tables, plan, network, lock, faults>>

(* createNewOutputs: change rows are inserted with spendable true and are  *)
(* kept out of reach by the status of their transaction.                   *)
createNewOutputs(p) ==
  /\ At(p, "insertOutputs")
  /\ exists' = exists \cup {s[p].t}
  /\ spendable' = spendable \cup {s[p].t}
  /\ change' = change \cup {s[p].t}
  /\ Goto(p, "mergeChangeBeefs")
  /\ UNCHANGED <<tx, req, proven, spentBy, plan, network, lock, faults>>

(* mergeAllocatedChangeBeefs: storage must be able to vouch for the owner  *)
(* of every change input (getProvenOrRawTx); services are not asked.       *)
(* Callers are taken to want the beef, with no knownTxids.                 *)
mergeAllocatedChangeBeefs(p) ==
  /\ At(p, "mergeChangeBeefs")
  /\ \/ /\ \A t \in s[p].held \cap Txs : Vouched(t)
        /\ Goto(p, "lockFixed") /\ UNCHANGED lock
     \/ /\ \E t \in s[p].held \cap Txs : ~Vouched(t)
        /\ Return(p)
  /\ UNCHANGED <<tables, plan, network, faults>>

(* createNewInputs: each input the caller named is checked again and       *)
(* locked in one database transaction.                                     *)
InputIsTaken_NotAsked(o) == FALSE                 \* mutant: no second check

InputIsTaken(o) ==
  \/ o \notin spendable
  \/ spentBy[o] # NoTx /\ req[spentBy[o]].status # "none"

Pending(p) == s[p].fixed \ s[p].held

createNewInput(p) ==
  /\ At(p, "lockFixed")
  /\ \E o \in Pending(p) :
       /\ ~InputIsTaken(o)
       /\ LockOutput(o, s[p].t)
       /\ s' = [s EXCEPT ![p].held = @ \cup {o}]
  /\ UNCHANGED <<tx, req, proven, exists, change, plan, network, lock, faults>>

createNewInputThrows(p) ==
  /\ At(p, "lockFixed")
  /\ \E o \in Pending(p) : InputIsTaken(o)
  /\ Return(p)
  /\ UNCHANGED <<tables, plan, network, faults>>

(* The result goes to the caller, who signs a transaction that spends      *)
(* exactly the inputs named in it.                                         *)
createActionReturns(p) ==
  /\ At(p, "lockFixed") /\ Pending(p) = {}
  /\ plan' = [plan EXCEPT ![s[p].t] =
                [ready |-> TRUE, mode |-> s[p].mode, inputs |-> s[p].held]]
  /\ Return(p)
  /\ UNCHANGED <<tables, network, faults>>

CreateActionStep(p) ==
  \/ \E t \in Txs : createNewTxRecord(p, t)
  \/ allocateNoSendChange(p) \/ allocateChangeInput(p)
  \/ startRelease(p) \/ releaseChangeInput(p) \/ released(p)
  \/ funded(p) \/ createNewOutputs(p) \/ mergeAllocatedChangeBeefs(p)
  \/ createNewInput(p) \/ createNewInputThrows(p) \/ createActionReturns(p)
=============================================================================

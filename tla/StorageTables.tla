--------------------------- MODULE StorageTables ---------------------------
(***************************************************************************)
(* The rows a wallet storage keeps about actions, and the primitive        *)
(* updates StorageProvider makes to them (src/src/storage/).               *)
(*                                                                         *)
(* One user and one row per kind and action are modelled, so a transaction *)
(* row, its txid and its ProvenTxReq row share one name t \in Txs, and t   *)
(* also names the change output that action creates.  An output that       *)
(* existed before is a coin: a change coin of the 'default' basket or a    *)
(* custom coin of a user basket.  A received transaction was made by       *)
(* somebody else; its name stands for the output that is internalized.     *)
(*                                                                         *)
(* Every await is a point where other work may run, so each database       *)
(* operation, or closure run in one database transaction, is one step of   *)
(* the process that runs it.  A process is a caller of the storage's       *)
(* methods or the monitor.  "s" holds what a process keeps in local        *)
(* variables between its steps.                                            *)
(***************************************************************************)
EXTENDS Naturals, FiniteSets

CONSTANTS
  Txs,            \* action names: a transaction row, its txid and its req
  Origins,        \* who may have made them, among AllOrigins
  ChangeCoins,    \* spendable change outputs present at the start
  CustomCoins,    \* spendable user basket outputs present at the start
  Callers,        \* concurrent callers of wallet storage methods
  Monitor,        \* the monitor's single task runner
  NoTx, Nobody,   \* no transaction, no lock holder
  ManagerLocks,   \* TRUE: one WalletStorageManager serves every process;
                  \* FALSE: requests reach the StorageProvider unlocked, as
                  \* through StorageServer or from a separate monitor
  Calls,          \* calls that are made besides create-, process- and abortAction
  Tasks,          \* the monitor tasks that are installed
  PurgeParams,    \* what purgeData is asked to purge
  PostLimit,      \* req.attempts limit of validateReqsAndMergeBeefs
  ProofLimit,     \* unprovenAttemptsLimit of the monitor's options
  GiveUpLimit,    \* getProofAttemptsLimit of EntityProvenTx
  MaxAttempts,    \* bound: services fail no req with this many attempts
  MaxFaults       \* bound: number of exceptions injected between steps

Coins == ChangeCoins \cup CustomCoins
Outs  == Coins \cup Txs
Procs == Callers \cup {Monitor}

AllTasks == {"SendWaiting", "CheckForProofs", "CheckNoSends",
             "FailAbandoned", "UnFail", "ReviewStatus", "Purge"}

(* Made by this wallet; received from another one; received, while its     *)
(* inputs are spent elsewhere.                                             *)
AllOrigins == {"own", "received", "doomed"}

AllCalls == {"internalizeAction", "noSendActions", "failedActions",
             "invalidChange"}

ASSUME NamesAssumption ==
  /\ Coins \cap Txs = {} /\ ChangeCoins \cap CustomCoins = {}
  /\ NoTx \notin Outs
  /\ Monitor \notin Callers /\ Nobody \notin Procs

ASSUME OptionsAssumption ==
  /\ ManagerLocks \in BOOLEAN
  /\ Origins \subseteq AllOrigins
  /\ Calls \subseteq AllCalls /\ Tasks \subseteq AllTasks
  /\ PurgeParams \subseteq {"completed", "failed", "spent"}
  /\ PostLimit \in Nat /\ ProofLimit \in Nat /\ GiveUpLimit \in Nat
  /\ MaxAttempts \in Nat /\ MaxFaults \in Nat

(* The statuses of sdk/types.ts the modelled code assigns, and "none" for  *)
(* no row: not inserted yet, or purged.                                    *)
TransactionStatus == {"none", "unsigned", "unprocessed", "nosend", "sending",
                      "unproven", "completed", "failed", "unfail"}
ProvenTxReqStatus == {"none", "unprocessed", "unsent", "nosend", "sending",
                      "unmined", "completed", "invalid", "doubleSpend",
                      "unfail"}

VARIABLES
  tx,         \* transactions: status, and whether provenTxId is set
  req,        \* proven_tx_reqs: status, attempts, whether provenTxId is set
  proven,     \* proven_txs: the txids with a proof
  exists,     \* outputs: the rows inserted
  spendable,  \* outputs: those whose spendable is true
  spentBy,    \* outputs: the spentBy column
  change,     \* outputs: those in the change basket
  plan,       \* what createAction returned to its caller for each action
  known,      \* network: txids some miner has accepted
  mined,      \* network: txids in a block the monitor may use
  origin,     \* who made each transaction; this never changes
  s,          \* local variables of each process
  lock,       \* process that runs under the manager's locks
  faults      \* exceptions injected so far

outputs == <<exists, spendable, spentBy, change>>
tables  == <<tx, req, proven, exists, spendable, spentBy, change>>
network == <<known, mined, origin>>
vars    == <<tx, req, proven, exists, spendable, spentBy, change, plan, known,
             mined, origin, s, lock, faults>>

TxRow  == [status : TransactionStatus, proof : BOOLEAN]
ReqRow == [status : ProvenTxReqStatus, attempts : Nat, proof : BOOLEAN]

Modes    == {"noSend", "delayed", "now"}
Verdicts == {"none", "success", "doubleSpend", "invalidTx", "serviceError"}

Pcs == {"idle",
        "fund", "release", "insertOutputs",                       \* createAction
        "mergeChangeBeefs", "lockFixed",
        "commit", "share", "bump",                                \* processAction
        "mergeBeef", "postBeef", "transferNotes", "refresh",      \* posting
        "updateReq", "updateTx",
        "sendWaiting",                                            \* monitor
        "getProofs", "saveCopy", "refreshCopy", "newProvenTx",
        "insertProvenTx", "notifyTx", "saveNotified", "finishProof",
        "failAbandoned", "getPath", "unfailTx", "unfailReq",
        "review1", "review2", "review3",
        "purgeCompleted", "purgeFailed", "purgeOutputs", "purgeInputs",
        "purgeTxs", "purgeReqs", "purgeSpent", "forgetSpent", "spentOutputs",
        "spentTxs", "purgeOrphans",
        "insertProven", "insertCompleted", "insertUnproven",      \* internalize
        "getReq", "storeOutput", "mergeOutput",
        "abortListed", "unfailListed", "filterListed",            \* listings
        "releaseListed"}

Session == [pc : Pcs, t : Txs \cup {NoTx}, mode : Modes,
            given : SUBSET Outs, nsc : SUBSET Outs, fixed : SUBSET Outs,
            held : SUBSET Outs, again : BOOLEAN, counts : BOOLEAN,
            copy : ReqRow, kept : Nat, verdict : Verdicts]

NoReq == [status |-> "none", attempts |-> 0, proof |-> FALSE]

Idle == [pc |-> "idle", t |-> NoTx, mode |-> "now",
         given |-> {}, nsc |-> {}, fixed |-> {}, held |-> {}, again |-> FALSE,
         counts |-> FALSE, copy |-> NoReq, kept |-> 0, verdict |-> "none"]

TypeOK ==
  /\ tx \in [Txs -> TxRow]
  /\ req \in [Txs -> ReqRow]
  /\ proven \subseteq Txs
  /\ exists \subseteq Outs
  /\ spendable \subseteq Outs
  /\ spentBy \in [Outs -> Txs \cup {NoTx}]
  /\ change \subseteq Outs
  /\ plan \in [Txs -> [ready : BOOLEAN, mode : Modes, inputs : SUBSET Outs]]
  /\ known \subseteq Txs
  /\ mined \subseteq Txs
  /\ origin \in [Txs -> AllOrigins]
  /\ s \in [Procs -> Session]
  /\ lock \in Procs \cup {Nobody}
  /\ faults \in Nat

Init ==
  /\ tx = [t \in Txs |-> [status |-> "none", proof |-> FALSE]]
  /\ req = [t \in Txs |-> NoReq]
  /\ proven = {}
  /\ exists = Coins
  /\ spendable = Coins
  /\ spentBy = [o \in Outs |-> NoTx]
  /\ change = ChangeCoins
  /\ plan = [t \in Txs |-> [ready |-> FALSE, mode |-> "now", inputs |-> {}]]
  /\ known = {}
  /\ mined = {}
  /\ origin \in [Txs -> Origins]
  /\ s = [p \in Procs |-> Idle]
  /\ lock = Nobody
  /\ faults = 0

----------------------------------------------------------------------------
(* Locks.  WalletStorageManager runs a method, or a closure of the         *)
(* monitor, with its queues held from the first to the last await (module  *)
(* StorageLocks); without a manager nothing is held.                       *)

Free == lock = Nobody
Acquire(p) == Free /\ lock' = (IF ManagerLocks THEN p ELSE Nobody)
Release(p) == lock' = (IF lock = p THEN Nobody ELSE lock)

Own(t) == origin[t] = "own"

At(p, pc) == s[p].pc = pc
Goto(p, pc) == s' = [s EXCEPT ![p].pc = pc]

(* The method returns or throws: locals are gone, finally unlocks.         *)
Return(p) == s' = [s EXCEPT ![p] = Idle] /\ Release(p)

(* An await rejects: the storage or a service is unreachable.  The method  *)
(* or the task ends where it stands.                                       *)
Throws(p) ==
  /\ ~At(p, "idle")
  /\ faults < MaxFaults
  /\ faults' = faults + 1
  /\ Return(p)
  /\ UNCHANGED <<tables, plan, network>>

----------------------------------------------------------------------------
(* updateOutput({spendable: false, spentBy: t}) and its inverse.           *)

LockOutput(o, t) ==
  /\ spendable' = spendable \ {o}
  /\ spentBy' = [spentBy EXCEPT ![o] = t]

(* Mutant: the spentBy column is not cleared. *)
UnlockOutput_KeepsSpentBy(o) ==
  spendable' = spendable \cup {o} /\ UNCHANGED spentBy

UnlockOutput(o) ==
  /\ spendable' = spendable \cup {o}
  /\ spentBy' = [spentBy EXCEPT ![o] = NoTx]

(* The outputs EntityTransaction.getInputs finds: rows whose spentBy names *)
(* the transaction (rows are read without rawTx, so its inputs add none).  *)
getInputs(t) == {o \in Outs : spentBy[o] = t}

(* Mutant: the outputs are left alone. *)
ReleaseInputs_Lost(T) == UNCHANGED outputs

(* Mutant: the spentBy column is cleared, spendable is not set. *)
ReleaseInputs_Unassigned(T) ==
  /\ spentBy' = [o \in Outs |-> IF spentBy[o] \in T THEN NoTx ELSE spentBy[o]]
  /\ UNCHANGED <<exists, spendable, change>>

ReleaseInputs(T) ==
  LET freed == UNION {getInputs(t) : t \in T} IN
  /\ spendable' = spendable \cup freed
  /\ spentBy' = [o \in Outs |-> IF o \in freed THEN NoTx ELSE spentBy[o]]
  /\ UNCHANGED <<exists, change>>

(* updateTransactionStatus: the row must exist; the two exceptions, then   *)
(* the update.                                                             *)
MayUpdateStatus(t, status) ==
  /\ tx[t].status # "none"
  /\ tx[t].status = "completed" => status = "completed"
  /\ ~tx[t].proof
  /\ tx[t].status = "failed" => status = "failed"

updateTransactionStatus(t, status) ==
  /\ MayUpdateStatus(t, status)
  /\ tx' = [tx EXCEPT ![t].status = status]
  /\ IF status = "failed" THEN ReleaseInputs({t}) ELSE UNCHANGED outputs

(* updateStorageDynamicProperties: status and attempts of an in-memory     *)
(* req overwrite the row, whatever it holds by now; provenTxId is written  *)
(* only when the copy has one.  An update finds no row that was purged.    *)
WriteReq(t, copy) ==
  req' = [req EXCEPT ![t] = IF @.status = "none" THEN @ ELSE
                            [status   |-> copy.status,
                             attempts |-> copy.attempts,
                             proof    |-> copy.proof \/ @.proof]]

(* An update of transaction rows by id finds those that are there.         *)
UpdateTx(t, row) == IF tx[t].status = "none" THEN tx[t] ELSE row

(* Output rows belong to the action that creates them; coins belong to     *)
(* transactions completed long ago.                                        *)
OwnerStatus(o) == IF o \in Txs THEN tx[o].status ELSE "completed"

(* Actions that share an input can not both be accepted by the network.    *)
Conflict(t, u) == t # u /\ plan[t].inputs \cap plan[u].inputs # {}

(* A BEEF carries the unproven ancestors of a transaction with it.         *)
Parents(t) == plan[t].inputs \cap Txs
Package(t) ==
  {u \in Txs : \A T \in SUBSET Txs :
                 (t \in T /\ \A v \in T : Parents(v) \subseteq T) => u \in T}

(* getProvenOrRawTx: storage can vouch for a transaction.                  *)
Vouched(t) ==
  \/ t \in proven
  \/ req[t].status \in {"unsent", "unmined", "sending", "nosend", "completed"}

(* The UTXO set of the network.                                            *)
Unspent(o) ==
  (o \in Txs => o \in known) /\ \A u \in known : o \notin plan[u].inputs
=============================================================================

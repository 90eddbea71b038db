---------------------------- MODULE HeaderTasks ----------------------------
(***************************************************************************)
(* Proofs of transactions (proven_txs rows) against a chain that           *)
(* reorganizes: Monitor.processReorg, called by Chaintracks; TaskNewHeader *)
(* and TaskCheckForProofs, which lag the tip; and TaskReorg, which looks   *)
(* again at the proofs of blocks that left the active chain                *)
(* (src/src/monitor/tasks/, WalletStorageManager.reproveHeader).  The      *)
(* monitor runs one task at a time; the Chaintracks main thread runs       *)
(* beside it.                                                              *)
(***************************************************************************)
EXTENDS Chaintracks

CONSTANTS
  Txs,
  MinedIn,         \* transaction -> the headers of the blocks that hold it
  MaxRetries       \* TaskReorg.maxRetries

ASSUME HeaderTasksAssumption ==
  /\ MinedIn \in [Txs -> SUBSET Headers]
  /\ MaxRetries \in Nat \ {0}

VARIABLES
  proof,               \* proven_txs: transaction -> block, or NoHeader
  deactivatedHeaders,  \* queue of [header, tries]
  process,             \* the aged part of it, taken by TaskReorg
  task,                \* the monitor's current task
  newHeader,           \* TaskNewHeader's header and queuedHeader
  lastNewHeader,       \* the newest header that was processed
  givenUp              \* history: blocks TaskReorg will not look at again

reorgVars == <<deactivatedHeaders, process>>
monitorVars == <<proof, reorgVars, task, newHeader, lastNewHeader, givenUp>>
vars == <<chainVars, monitorVars>>

NoTask == [pc |-> "idle", header |-> NoHeader, tries |-> 0,
           todo |-> {}, updates |-> [t \in Txs |-> NoHeader], again |-> FALSE]

Init ==
  /\ ChainInit
  /\ proof = [t \in Txs |-> NoHeader]
  /\ deactivatedHeaders = <<>> /\ process = <<>>
  /\ task = NoTask
  /\ newHeader = [header |-> NoHeader, queued |-> NoHeader]
  /\ lastNewHeader = NoHeader
  /\ givenUp = {}

(* isValidRootForHeight: the block is the active one of its height.        *)
IsValid(h) == h \in Active

----------------------------------------------------------------------------
(* Chaintracks' notify calls processReorg, which queues every deactivated  *)
(* header, from the old tip down.                                          *)
Notified_TipOnly(hs) ==                          \* mutant: the old tip alone
  {h \in hs : \A g \in hs : Height[g] <= Height[h]}
Notified(hs) == hs

FromTheTip(hs) ==
  {q \in [1..Cardinality(hs) -> hs] :
     /\ \A h \in hs : \E i \in DOMAIN q : q[i] = h
     /\ \A i, j \in DOMAIN q : i < j => Height[q[i]] > Height[q[j]]}

processReorg ==
  /\ notify
  /\ \E hs \in FromTheTip(Notified(thread.deactivated)) :
       deactivatedHeaders' = deactivatedHeaders \o
         [i \in DOMAIN hs |-> [header |-> hs[i], tries |-> 0]]
  /\ givenUp' = givenUp \ thread.deactivated
  /\ UNCHANGED <<proof, process, task, newHeader, lastNewHeader>>

----------------------------------------------------------------------------
(* TaskNewHeader.runTask: a tip that is not lower than the last one, and   *)
(* not the same, is queued; one cycle without such a change processes it.  *)
findChainTipHeader ==
  /\ task.pc = "idle" /\ enabled
  /\ \E tip \in ActiveTips :
       LET old == newHeader.header
           isNew == old # NoHeader =>
                      Height[old] < Height[tip] \/ (Height[old] = Height[tip] /\ old # tip)
       IN
       \/ /\ isNew
          /\ newHeader' = [header |-> tip, queued |-> tip]
          /\ UNCHANGED lastNewHeader
       \/ /\ ~isNew /\ newHeader.queued # NoHeader
          /\ lastNewHeader' = newHeader.queued
          /\ newHeader' = [newHeader EXCEPT !.queued = NoHeader]
  /\ UNCHANGED <<chainVars, proof, reorgVars, task, givenUp>>

----------------------------------------------------------------------------
(* getProofs, for a transaction without a proof: services.getMerklePath    *)
(* (external) answers with a block of the active chain, as the providers   *)
(* follow the same network.  One above lastNewHeader is ignored.           *)
getMerklePath(t) ==
  /\ task.pc = "idle" /\ lastNewHeader # NoHeader /\ proof[t] = NoHeader
  /\ \E h \in MinedIn[t] \cap Active :
       /\ Height[h] <= Height[lastNewHeader]
       /\ task' = [NoTask EXCEPT !.pc = "saveProof", !.header = h, !.todo = {t}]
  /\ UNCHANGED <<chainVars, proof, reorgVars, newHeader, lastNewHeader, givenUp>>

saveProof ==
  /\ task.pc = "saveProof"
  /\ proof' = [t \in Txs |-> IF t \in task.todo THEN task.header ELSE proof[t]]
  /\ task' = NoTask
  /\ UNCHANGED <<chainVars, reorgVars, newHeader, lastNewHeader, givenUp>>

----------------------------------------------------------------------------
(* TaskReorg.  The trigger takes the entries that are old enough, a prefix *)
(* of the queue, and entries an exception left behind are a reason to run; *)
(* runTask shifts one and finds the proofs that rest on it.                *)
trigger ==
  /\ task.pc = "idle"
  /\ \E n \in 0..Len(deactivatedHeaders) :
       /\ process # <<>> \/ n > 0
       /\ process' = process \o SubSeq(deactivatedHeaders, 1, n)
       /\ deactivatedHeaders' = SubSeq(deactivatedHeaders, n + 1, Len(deactivatedHeaders))
  /\ task' = [NoTask EXCEPT !.pc = "shift"]
  /\ UNCHANGED <<chainVars, proof, newHeader, lastNewHeader, givenUp>>

reproveHeader ==
  /\ task.pc = "shift" /\ process # <<>>
  /\ LET e == Head(process) IN
     task' = [NoTask EXCEPT !.pc = "reprove", !.header = e.header, !.tries = e.tries,
                            !.todo = {t \in Txs : proof[t] = e.header}]
  /\ process' = Tail(process)
  /\ UNCHANGED <<chainVars, proof, deactivatedHeaders, newHeader, lastNewHeader, givenUp>>

runTaskEnds ==
  /\ task.pc = "shift" /\ process = <<>>
  /\ task' = NoTask
  /\ UNCHANGED <<chainVars, proof, reorgVars, newHeader, lastNewHeader, givenUp>>

(* reproveProven: whatever block the services answer with, it is used only *)
(* if it is another one and Chaintracks confirms it.                       *)
reproveProven(t) ==
  /\ task.pc = "reprove" /\ t \in task.todo
  /\ \E h \in MinedIn[t] \cup {NoHeader} :
       LET confirmed == h # task.header /\ IsValid(h) IN
       task' = [task EXCEPT !.todo = @ \ {t},
                            !.updates[t] = IF confirmed THEN h ELSE @,
                            !.again = @ \/ ~confirmed]
  /\ UNCHANGED <<chainVars, proof, reorgVars, newHeader, lastNewHeader, givenUp>>

(* The updates are written without a second look at the chain.  If a proof *)
(* could not be replaced the header is queued again, up to MaxRetries.     *)
Requeued_Never(e) == <<>>                        \* mutant: no retry
Requeued(e) == IF e.tries < MaxRetries THEN <<e>> ELSE <<>>

updateProvenTx ==
  /\ task.pc = "reprove" /\ task.todo = {}
  /\ proof' = [t \in Txs |-> IF task.updates[t] # NoHeader THEN task.updates[t]
                             ELSE proof[t]]
  /\ IF task.again
       THEN /\ deactivatedHeaders' = deactivatedHeaders \o
                 Requeued([header |-> task.header, tries |-> task.tries + 1])
            /\ givenUp' = IF task.tries + 1 >= MaxRetries
                            THEN givenUp \cup {task.header} ELSE givenUp
       ELSE UNCHANGED <<deactivatedHeaders, givenUp>>
  /\ task' = [NoTask EXCEPT !.pc = "shift"]
  /\ UNCHANGED <<chainVars, process, newHeader, lastNewHeader>>

(* An exception ends the task; the header in hand is in no queue any more. *)
reproveThrows ==
  /\ task.pc = "reprove" /\ faults < MaxFaults
  /\ faults' = faults + 1
  /\ givenUp' = givenUp \cup {task.header}
  /\ task' = NoTask
  /\ UNCHANGED <<live, queues, thread, enabled, announcements>>
  /\ UNCHANGED <<proof, reorgVars, newHeader, lastNewHeader>>

----------------------------------------------------------------------------
Ingest == \E h \in Headers : Listen(h) \/ addHeader(h)

TaskSteps ==
  \/ saveProof \/ runTaskEnds \/ reproveHeader \/ updateProvenTx
  \/ \E t \in Txs : reproveProven(t)

Next ==
  \/ (Ingest \/ MainThread) /\ UNCHANGED monitorVars
  \/ processReorg
  \/ findChainTipHeader \/ (\E t \in Txs : getMerklePath(t))
  \/ trigger \/ reproveThrows \/ TaskSteps

Spec == Init /\ [][Next]_vars

(* The main thread loops for ever, and so does the monitor, which gives    *)
(* every task its turn; both finish what they have begun.  A task's turn   *)
(* comes when the monitor is idle again and again (SF).                    *)
FairSpec ==
  /\ Spec
  /\ WF_vars(processReorg \/ (MainThread /\ UNCHANGED monitorVars))
  /\ WF_vars(TaskSteps)
  /\ SF_vars(trigger)

----------------------------------------------------------------------------
Entry == [header : Headers, tries : 0..MaxRetries]

(* Type invariant: queues hold headers with their tries, and every proof   *)
(* is one of a block that holds the transaction.                           *)
TypeOK ==
  /\ ChainTypeOK
  /\ proof \in [Txs -> Headers \cup {NoHeader}]
  /\ \A t \in Txs : proof[t] \in MinedIn[t] \cup {NoHeader}
  /\ deactivatedHeaders \in Seq(Entry) /\ process \in Seq(Entry)
  /\ task.pc \in {"idle", "saveProof", "shift", "reprove"}
  /\ task.todo \subseteq Txs
  /\ newHeader \in [header : Headers \cup {NoHeader}, queued : Headers \cup {NoHeader}]
  /\ lastNewHeader \in Headers \cup {NoHeader}
  /\ givenUp \subseteq Headers

Stale(t) == proof[t] # NoHeader /\ proof[t] \notin Active

Pending(h) ==
  \/ \E i \in DOMAIN deactivatedHeaders : deactivatedHeaders[i].header = h
  \/ \E i \in DOMAIN process : process[i].header = h
  \/ task.pc = "reprove" /\ task.header = h
  \/ thread.pc = "notify" /\ h \in thread.deactivated

(* A reorg loses no proof: one that rests on a block which left the active *)
(* chain is queued for TaskReorg or is being reproved, unless the retries  *)
(* ran out or an exception dropped the block.  This also holds when the    *)
(* block left while its proof was being fetched, saved or replaced.        *)
StaleProofIsQueued ==
  \A t \in Txs : Stale(t) => Pending(proof[t]) \/ proof[t] \in givenUp

(* A proof on a block that left the active chain does not stay so: it is   *)
(* replaced, its block returns, or TaskReorg gives the block up.           *)
StaleProofSettles ==
  \A t \in Txs : Stale(t) ~> (~Stale(t) \/ proof[t] \in givenUp)

(* The tip of a branch that an ingestor queued is added, with all of its   *)
(* ancestors, unless one is not found: the recursion limit drops only the  *)
(* parent fetched last, and the headers requeued above it fetch it again.  *)
BranchTips == {h \in Headers : WellPlaced(h) /\ \A g \in Headers : Prev[g] # h}

HeadersAreAdded ==
  \A h \in BranchTips :
    (\E i \in DOMAIN liveHeaders : liveHeaders[i] = h)
      ~> ({h} \cup Ancestors[h] \subseteq Known \/ faults > 0)
=============================================================================

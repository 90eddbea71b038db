--------------------------- MODULE ProcessAction ---------------------------
(***************************************************************************)
(* processAction, abortAction and the posting of reqs to the network       *)
(* (src/src/storage/methods/processAction.ts, StorageProvider.ts and       *)
(* methods/attemptToPostReqsToNetwork.ts).  Posting is run by a caller     *)
(* that sends at once and by the monitor.  Batches hold one req: the steps *)
(* of a batch are the same ones for each req in turn.                      *)
(***************************************************************************)
EXTENDS StorageTables, Services

CreateStatus(mode) ==
  CASE mode = "noSend"  -> [req |-> "nosend",      tx |-> "nosend"]
    [] mode = "delayed" -> [req |-> "unsent",      tx |-> "unprocessed"]
    [] mode = "now"     -> [req |-> "unprocessed", tx |-> "unprocessed"]

(* validateCommitNewTxToStorageArgs: reads, outside any transaction.  Any  *)
(* other status throws, which changes nothing.                             *)
CommitableStatus_Any ==                        \* mutant: status not looked at
  TransactionStatus \ {"none"}

CommitableStatus == {"unsigned", "unprocessed"}

validateCommitNewTx(p, t) ==
  /\ At(p, "idle") /\ Acquire(p)
  /\ plan[t].ready
  /\ tx[t].status \in CommitableStatus
  /\ s' = [s EXCEPT ![p] = [Idle EXCEPT !.pc = "commit", !.t = t,
                                        !.mode = plan[t].mode]]
  /\ UNCHANGED <<tables, plan, network, faults>>

(* commitNewTxToStorage, one database transaction: insertOrMerge leaves    *)
(* the status of a req that exists, while output and transaction rows are  *)
(* overwritten from what validation read.                                  *)
commitNewTxToStorage(p) ==
  /\ At(p, "commit")
  /\ LET t == s[p].t
         status == CreateStatus(s[p].mode) IN
       /\ req' = [req EXCEPT ![t].status = IF @ = "none" THEN status.req ELSE @]
       /\ tx' = [tx EXCEPT ![t] = UpdateTx(t, [@ EXCEPT !.status = status.tx])]
       /\ spendable' = spendable \cup ({t} \cap exists)
  /\ IF s[p].mode = "noSend" THEN Return(p)
                             ELSE Goto(p, "share") /\ UNCHANGED lock
  /\ UNCHANGED <<proven, exists, spentBy, change, plan, network, faults>>

(* processAction of no new transaction, whose sendWith names an action     *)
(* processed before.                                                       *)
sendWith(p, t) ==
  /\ At(p, "idle") /\ Acquire(p)
  /\ req[t].status # "none"
  /\ \E mode \in {"delayed", "now"} :
       s' = [s EXCEPT ![p] = [Idle EXCEPT !.pc = "share", !.t = t,
                                          !.mode = mode]]
  /\ UNCHANGED <<tables, plan, network, faults>>

(* getReqsAndBeefToShareWithWorld sorts the req; only a ready one goes on. *)
ReadyToSend_Invalid ==                               \* mutant: one status more
  {"sending", "unsent", "nosend", "unprocessed", "invalid"}

ReadyToSend == {"sending", "unsent", "nosend", "unprocessed"}

getReqsAndBeef(p) ==
  /\ At(p, "share")
  /\ LET t == s[p].t IN
       \/ /\ t \notin proven /\ req[t].status \in ReadyToSend
          /\ s' = [s EXCEPT ![p].copy = req[t],
                            ![p].pc = IF s[p].mode = "delayed"
                                        THEN "bump" ELSE "mergeBeef"]
          /\ UNCHANGED lock
       \/ /\ t \in proven \/ req[t].status \notin ReadyToSend
          /\ Return(p)
  /\ UNCHANGED <<tables, plan, network, faults>>

(* shareReqsWithWorld, delayed: one database transaction that looks at     *)
(* neither row again.                                                      *)
bumpToUnsent(p) ==
  /\ At(p, "bump")
  /\ LET t == s[p].t IN
       /\ req' = [req EXCEPT ![t].status = IF @ = "none" THEN @ ELSE "unsent"]
       /\ tx' = [tx EXCEPT ![t] = UpdateTx(t, [@ EXCEPT !.status = "sending"])]
  /\ Return(p)
  /\ UNCHANGED <<proven, outputs, plan, network, faults>>

----------------------------------------------------------------------------
(* abortAction, one database transaction.  The caller knows the reference  *)
(* createAction returned.                                                  *)

UnAbortable_NotSending == {"completed", "failed", "unproven"}        \* mutant

UnAbortable == {"completed", "failed", "sending", "unproven"}

Abortable(t) ==                               \* isOutgoing, and the status
  Own(t) /\ tx[t].status \notin UnAbortable \cup {"none"}

abortTx(t) ==
  /\ Abortable(t)
  /\ updateTransactionStatus(t, "failed")
  /\ req' = [req EXCEPT ![t].status = IF @ = "none" THEN @ ELSE "invalid"]

abortAction(p, t) ==
  /\ At(p, "idle") /\ Free
  /\ plan[t].ready
  /\ abortTx(t)
  /\ UNCHANGED <<proven, plan, network, s, lock, faults>>

----------------------------------------------------------------------------
(* attemptToPostReqsToNetwork *)

(* validateReqsAndMergeBeefs.  Building the beef reads other rows and may  *)
(* fail, which counts an attempt and leaves nothing to post.  (No req      *)
(* lacks rawTx, inputBEEF or transactionIds, which would make it invalid:  *)
(* processAction and internalizeAction insert it with all three, and       *)
(* nothing clears them.)                                                   *)
mergeBeef(p) ==
  /\ At(p, "mergeBeef")
  /\ Goto(p, "postBeef")
  /\ UNCHANGED <<tables, plan, network, lock, faults>>

mergeBeefThrows(p) ==
  /\ At(p, "mergeBeef") /\ faults < MaxFaults
  /\ LET c == s[p].copy
         attempts == c.attempts + 1 IN
       WriteReq(s[p].t, [c EXCEPT !.attempts = attempts,
                           !.status = IF attempts > PostLimit
                                        THEN "invalid" ELSE @])
  /\ faults' = faults + 1
  /\ Return(p)
  /\ UNCHANGED <<tx, proven, outputs, plan, network>>

(* Miners accept a transaction, and the ancestors in its beef, unless one *)
(* of them conflicts with what they know.                                  *)
Acceptable(t) ==
  /\ \A u \in Package(t) : origin[u] # "doomed"
  /\ \A u \in Package(t), v \in known \cup Package(t) : ~Conflict(u, v)

View(t) ==
  IF t \in known THEN "known" ELSE IF Acceptable(t) THEN "new" ELSE "conflict"

(* aggregatePostBeefResultsByTxid, of the results of all providers asked.  *)
Aggregate(results) ==
  IF "doubleSpend" \in results THEN "doubleSpend"
  ELSE IF "success" \in results THEN "success"
  ELSE IF "statusError" \in results THEN "invalidTx"
  ELSE "serviceError"

PostBeefAnswers ==
  [view \in {"new", "known", "conflict"} |-> [failing \in BOOLEAN |->
     {[verdict |-> Aggregate(r.results), arrived |-> r.arrived] :
        r \in PostBeefResults(view, IF failing THEN Failures ELSE {})}]]

Larger(m, n) == IF m > n THEN m ELSE n

(* services.postBeef; providers fail while the req has attempts left       *)
(* (bound MaxAttempts).                                                    *)
postBeef(p) ==
  /\ At(p, "postBeef")
  /\ LET t == s[p].t
         attempts == Larger(req[t].attempts, s[p].copy.attempts) IN
     \E answer \in PostBeefAnswers[View(t)][attempts < MaxAttempts] :
       /\ s' = [s EXCEPT ![p].pc = "transferNotes", ![p].verdict = answer.verdict]
       /\ known' = IF answer.arrived THEN known \cup Package(t) ELSE known
  /\ UNCHANGED <<tables, plan, mined, origin, lock, faults>>

(* transferNotesToReqHistories adds notes to the in-memory req and writes  *)
(* its dynamic properties back, the status among them.                     *)
transferNotes(p) ==
  /\ At(p, "transferNotes")
  /\ WriteReq(s[p].t, s[p].copy)
  /\ Goto(p, "refresh")
  /\ UNCHANGED <<tx, proven, outputs, plan, network, lock, faults>>

(* updateReqsFromAggregateResults: refreshFromStorage, then stop if the    *)
(* row says the req is past broadcasting, or is gone (verifyOne throws).   *)
refreshReq(p) ==
  /\ At(p, "refresh")
  /\ IF req[s[p].t].status \in {"none", "completed", "unmined"}
       THEN Return(p)
       ELSE /\ s' = [s EXCEPT ![p].copy = req[s[p].t], ![p].pc = "updateReq"]
            /\ UNCHANGED lock
  /\ UNCHANGED <<tables, plan, network, faults>>

(* confirmDoubleSpend asks the network whether it knows the txid after all *)
(* and then calls the verdict a success.                                   *)
confirmed(p) ==
  {IF s[p].verdict = "doubleSpend" /\ gsr.status = "success" /\ ~gsr.unknown
     THEN "success" ELSE s[p].verdict :
     gsr \in getStatusForTxids(s[p].t \in known, Failures)}

NewStatus(verdict) ==
  CASE verdict = "success"      -> [req |-> "unmined",     tx |-> "unproven"]
    [] verdict = "doubleSpend"  -> [req |-> "doubleSpend", tx |-> "failed"]
    [] verdict = "invalidTx"    -> [req |-> "invalid",     tx |-> "failed"]
    [] verdict = "serviceError" -> [req |-> "sending",     tx |-> "sending"]

updateReqFromResult(p) ==
  /\ At(p, "updateReq")
  /\ \E verdict \in confirmed(p) :
       /\ LET c == s[p].copy IN
            WriteReq(s[p].t,
              [c EXCEPT !.status = NewStatus(verdict).req,
                        !.attempts = IF verdict = "serviceError" THEN @ + 1 ELSE @])
       /\ s' = [s EXCEPT ![p].verdict = verdict, ![p].pc = "updateTx"]
  /\ UNCHANGED <<tx, proven, outputs, plan, network, lock, faults>>

(* updateTransactionsStatus, a database transaction of its own; it throws  *)
(* for a completed transaction and for one that would be un-failed.        *)
updateTxFromResult(p) ==
  /\ At(p, "updateTx")
  /\ LET t == s[p].t
         status == NewStatus(s[p].verdict).tx IN
       \/ updateTransactionStatus(t, status)
       \/ ~MayUpdateStatus(t, status) /\ UNCHANGED <<tx, outputs>>
  /\ Return(p)
  /\ UNCHANGED <<req, proven, plan, network, faults>>

----------------------------------------------------------------------------
PostStep(p) ==
  \/ mergeBeef(p) \/ mergeBeefThrows(p) \/ postBeef(p) \/ transferNotes(p)
  \/ refreshReq(p) \/ updateReqFromResult(p) \/ updateTxFromResult(p)

ProcessActionStep(p) ==
  \/ \E t \in Txs : \/ validateCommitNewTx(p, t)
                    \/ sendWith(p, t)
                    \/ abortAction(p, t)
  \/ commitNewTxToStorage(p) \/ getReqsAndBeef(p) \/ bumpToUnsent(p)
  \/ PostStep(p)
=============================================================================

------------------------ MODULE WalletStorageProofs -------------------------
(***************************************************************************)
(* Type correctness of the wallet storage, and that no row claims to be    *)
(* completed without a proof: for every number of actions, coins and       *)
(* callers, with or without the manager's locks, for every set of monitor  *)
(* tasks and other calls and any number of faults.  Then, who holds the    *)
(* outputs: a failed transaction holds none, an output that is offered for *)
(* spending is held by nobody, and concurrent createAction calls share no  *)
(* input.                                                                  *)
(***************************************************************************)
EXTENDS WalletStorage, TLAPS

(* A process that is in a call works on an action; the review and the purge *)
(* of the monitor, and the updates of listed rows, work on many of them.   *)
Purging == {"purgeCompleted", "purgeFailed", "purgeOutputs", "purgeInputs",
            "purgeTxs", "purgeReqs", "purgeSpent", "forgetSpent", "spentOutputs",
            "spentTxs", "purgeOrphans"}

Listing == {"abortListed", "unfailListed", "filterListed", "releaseListed"}

Untied == {"idle", "review1", "review2", "review3"} \cup Purging \cup Listing

HasTx == \A p \in Procs : s[p].pc \notin Untied => s[p].t \in Txs

(* After postBeef a verdict is known.                                      *)
Posted == {"transferNotes", "refresh", "updateReq", "updateTx"}

HasVerdict == \A p \in Procs : s[p].pc \in Posted => s[p].verdict # "none"

Typed == TypeOK /\ HasTx /\ HasVerdict

LEMMA InitTyped == Init => Typed
  BY NamesAssumption, OptionsAssumption
  DEF Init, Typed, TypeOK, HasTx, HasVerdict, TxRow, ReqRow, NoReq, Idle, Session, Pcs,
      Untied, Purging, Listing, Posted, TransactionStatus, ProvenTxReqStatus, Modes, Verdicts, Procs,
      Outs, Coins

----------------------------------------------------------------------------
(* How a step changes the locals of the process that takes it.             *)

Sessions == s \in [Procs -> Session] /\ HasTx /\ HasVerdict

(* A session replaced by one that is well formed. *)
LEMMA SessionTyped ==
  ASSUME Sessions, NEW p \in Procs, NEW r \in Session,
         s' = [s EXCEPT ![p] = r],
         r.pc \notin Untied => r.t \in Txs,
         r.pc \in Posted => r.verdict # "none"
  PROVE  Sessions'
  BY DEF Sessions, HasTx, HasVerdict

(* The usual case: a call goes on with the action it works on. *)
LEMMA LocalsTyped ==
  ASSUME Sessions, NEW p \in Procs, NEW r \in Session,
         s' = [s EXCEPT ![p] = r],
         s[p].pc \notin Untied, r.t = s[p].t,
         r.pc \in Posted => r.verdict # "none"
  PROVE  Sessions'
  BY SessionTyped DEF Sessions, HasTx

(* Where a call or task works on one action. *)
LEMMA TiedPcs ==
  \A pc \in {"fund", "release", "insertOutputs", "mergeChangeBeefs", "lockFixed",
             "commit", "share", "bump", "mergeBeef", "postBeef", "transferNotes",
             "refresh", "updateReq", "updateTx"} : pc \notin Untied
  BY DEF Untied, Purging, Listing

LEMMA PostingPcs ==
  {"release", "commit", "share", "bump", "mergeBeef", "transferNotes", "updateReq",
   "updateTx"} \subseteq Pcs
  BY DEF Pcs

LEMMA GotoTyped ==
  ASSUME Sessions, NEW p \in Procs, NEW pc \in Pcs, Goto(p, pc),
         s[p].pc \notin Untied \/ pc \in Untied,
         s[p].pc \in Posted \/ pc \notin Posted
  PROVE  Sessions'
<1> DEFINE r == [s[p] EXCEPT !.pc = pc]
<1>1. r \in Session
  BY DEF Sessions, Session
<1>2. r.pc = pc /\ r.t = s[p].t /\ r.verdict = s[p].verdict
  BY DEF Sessions, Session
<1>3. s' = [s EXCEPT ![p] = r]
  BY DEF Goto
<1> QED
  BY <1>1, <1>2, <1>3, SessionTyped DEF Sessions, HasTx, HasVerdict

LEMMA IdleTyped ==
  /\ Idle \in Session /\ Idle.pc = "idle" /\ Idle.t = NoTx
  /\ Idle.copy = NoReq /\ NoReq \in ReqRow
  BY DEF Idle, Session, Pcs, Modes, NoReq, ReqRow, ProvenTxReqStatus, Verdicts

LEMMA ReturnTyped ==
  ASSUME Sessions, NEW p \in Procs, Return(p), lock \in Procs \cup {Nobody}
  PROVE  Sessions' /\ lock' \in Procs \cup {Nobody}
<1>1. Sessions'
  BY IdleTyped, SessionTyped DEF Return, Untied, Purging, Listing, Posted
<1>2. lock' \in Procs \cup {Nobody}
  BY DEF Return, Release
<1> QED
  BY <1>1, <1>2

LEMMA AcquireTyped ==
  ASSUME NEW p \in Procs, Acquire(p)
  PROVE  lock' \in Procs \cup {Nobody}
  BY DEF Acquire

----------------------------------------------------------------------------
(* createAction *)
LEMMA CreateTyped ==
  ASSUME Typed, NEW p \in Callers, CreateActionStep(p)
  PROVE  Typed'
<1> p \in Procs
  BY DEF Procs
<1>0. Sessions
  BY DEF Typed, TypeOK, Sessions
<1>s. s[p] \in Session
  BY DEF Typed, TypeOK
<1> SUFFICES TypeOK' /\ Sessions'
  BY DEF Typed, Sessions
<1> USE DEF Typed, TypeOK
<1>1. CASE \E t \in Txs : createNewTxRecord(p, t)
  <2> PICK t \in Txs : createNewTxRecord(p, t)
    BY <1>1
  <2>0. NoSendChange \subseteq Outs /\ CustomCoins \subseteq Outs
    BY DEF NoSendChange, Outs, Coins
  <2> PICK mode \in Modes, given \in SUBSET Outs, fixed \in SUBSET Outs :
        s' = [s EXCEPT ![p] = [Idle EXCEPT !.pc = "fund", !.t = t,
                                 !.mode = mode, !.given = given,
                                 !.nsc = given, !.fixed = fixed]]
    BY <2>0 DEF createNewTxRecord, RequiredInputs
  <2> DEFINE r == [Idle EXCEPT !.pc = "fund", !.t = t, !.mode = mode,
                     !.given = given, !.nsc = given, !.fixed = fixed]
  <2>f. "fund" \in Pcs
    BY DEF Pcs
  <2>1. r \in Session /\ r.pc = "fund" /\ r.t = t
    BY IdleTyped, <2>f DEF Session
  <2>2. Sessions'
    BY <1>0, <2>1, SessionTyped DEF Untied, Purging, Listing, Posted
  <2>3. tx' \in [Txs -> TxRow]
    BY DEF createNewTxRecord, TxRow, TransactionStatus
  <2> QED
    BY <2>2, <2>3, AcquireTyped DEF createNewTxRecord, outputs, network, Sessions
<1>2. CASE allocateNoSendChange(p)
  <2> PICK o \in s[p].nsc :
        /\ LockOutput(o, s[p].t)
        /\ s' = [s EXCEPT ![p].nsc = @ \ {o}, ![p].held = @ \cup {o}]
    BY <1>2 DEF allocateNoSendChange
  <2> DEFINE r == [s[p] EXCEPT !.nsc = @ \ {o}, !.held = @ \cup {o}]
  <2>1. o \in Outs /\ s[p].t \in Txs /\ s[p].pc = "fund"
    BY <1>s, <1>2 DEF allocateNoSendChange, Session, HasTx, At, Untied, Purging, Listing
  <2>2. r \in Session /\ r.pc = "fund" /\ r.t = s[p].t
    BY <1>s, <2>1 DEF Session
  <2>3. s' = [s EXCEPT ![p] = r]
    OBVIOUS
  <2>4. Sessions'
    BY <1>0, <2>1, <2>2, <2>3, LocalsTyped DEF Untied, Purging, Listing, Posted
  <2> QED
    BY <1>2, <2>1, <2>4 DEF allocateNoSendChange, LockOutput, network, Sessions
<1>3. CASE allocateChangeInput(p)
  <2> PICK o \in Outs :
        /\ LockOutput(o, s[p].t)
        /\ s' = [s EXCEPT ![p].held = @ \cup {o}]
    BY <1>3 DEF allocateChangeInput, AvailableChange
  <2> DEFINE r == [s[p] EXCEPT !.held = @ \cup {o}]
  <2>1. s[p].t \in Txs /\ s[p].pc = "fund"
    BY <1>3 DEF allocateChangeInput, HasTx, At, Untied, Purging, Listing
  <2>2. r \in Session /\ r.pc = "fund" /\ r.t = s[p].t
    BY <1>s, <2>1 DEF Session
  <2>3. Sessions'
    BY <1>0, <2>1, <2>2, SessionTyped DEF Posted
  <2> QED
    BY <1>3, <2>1, <2>3 DEF allocateChangeInput, LockOutput, network, Sessions
<1>4. CASE startRelease(p)
  <2> PICK retry \in BOOLEAN :
        s' = [s EXCEPT ![p].pc = "release", ![p].again = retry]
    BY <1>4 DEF startRelease
  <2> DEFINE r == [s[p] EXCEPT !.pc = "release", !.again = retry]
  <2>1. r \in Session /\ r.pc = "release" /\ r.t = s[p].t
    BY <1>s DEF Session, Pcs
  <2>t. s[p].pc \notin Untied
    BY <1>4, TiedPcs DEF startRelease, At
  <2>2. Sessions'
    BY <1>0, <2>t, <2>1, LocalsTyped DEF Posted
  <2> QED
    BY <1>4, <2>2 DEF startRelease, tables, network, Sessions
<1>5. CASE releaseChangeInput(p)
  <2> PICK o \in s[p].held :
        \/ /\ s' = [s EXCEPT ![p].held = @ \ {o}, ![p].nsc = @ \cup {o}]
           /\ UNCHANGED <<spendable, spentBy>>
        \/ /\ UnlockOutput(o)
           /\ s' = [s EXCEPT ![p].held = @ \ {o}]
    BY <1>5 DEF releaseChangeInput
  <2> DEFINE kept  == [s[p] EXCEPT !.held = @ \ {o}, !.nsc = @ \cup {o}]
             freed == [s[p] EXCEPT !.held = @ \ {o}]
  <2>1. o \in Outs
    BY <1>s DEF Session
  <2>2. /\ kept \in Session /\ kept.pc = s[p].pc /\ kept.t = s[p].t
        /\ freed \in Session /\ freed.pc = s[p].pc /\ freed.t = s[p].t
    BY <1>s, <2>1 DEF Session
  <2>3. s' = [s EXCEPT ![p] = kept] \/ s' = [s EXCEPT ![p] = freed]
    OBVIOUS
  <2>4. Sessions'
    BY <1>0, <1>5, <2>2, <2>3, LocalsTyped
    DEF releaseChangeInput, At, Untied, Purging, Listing, Posted
  <2> QED
    BY <1>5, <2>1, <2>4 DEF releaseChangeInput, UnlockOutput, network, Sessions
<1>6. CASE released(p)
  <2>1. Sessions' /\ lock' \in Procs \cup {Nobody}
    <3>1. CASE Goto(p, "fund") /\ UNCHANGED lock
      BY <1>0, <1>6, <3>1, GotoTyped DEF released, Pcs, At, Untied, Purging, Listing, Posted
    <3>2. CASE Return(p)
      BY <1>0, <3>2, ReturnTyped
    <3> QED
      BY <1>6, <3>1, <3>2 DEF released
  <2> QED
    BY <1>6, <2>1 DEF released, tables, network, Sessions
<1>7. CASE funded(p)
  <2>1. Sessions'
    BY <1>0, <1>7, GotoTyped DEF funded, Pcs, At, Untied, Purging, Listing, Posted
  <2> QED
    BY <1>7, <2>1 DEF funded, tables, network, Sessions
<1>8. CASE createNewOutputs(p)
  <2>1. Sessions'
    BY <1>0, <1>8, GotoTyped DEF createNewOutputs, Pcs, At, Untied, Purging, Listing, Posted
  <2>2. s[p].t \in Outs
    BY <1>8 DEF createNewOutputs, HasTx, At, Untied, Purging, Listing, Outs
  <2> QED
    BY <1>8, <2>1, <2>2 DEF createNewOutputs, network, Sessions
<1>9. CASE mergeAllocatedChangeBeefs(p)
  <2>1. Sessions' /\ lock' \in Procs \cup {Nobody}
    <3>1. CASE Goto(p, "lockFixed") /\ UNCHANGED lock
      BY <1>0, <1>9, <3>1, GotoTyped
      DEF mergeAllocatedChangeBeefs, Pcs, At, Untied, Purging, Listing, Posted
    <3>2. CASE Return(p)
      BY <1>0, <3>2, ReturnTyped
    <3> QED
      BY <1>9, <3>1, <3>2 DEF mergeAllocatedChangeBeefs
  <2> QED
    BY <1>9, <2>1 DEF mergeAllocatedChangeBeefs, tables, network, Sessions
<1>10. CASE createNewInput(p)
  <2> PICK o \in Pending(p) :
        /\ LockOutput(o, s[p].t)
        /\ s' = [s EXCEPT ![p].held = @ \cup {o}]
    BY <1>10 DEF createNewInput
  <2> DEFINE r == [s[p] EXCEPT !.held = @ \cup {o}]
  <2>1. o \in Outs /\ s[p].t \in Txs /\ s[p].pc = "lockFixed"
    BY <1>s, <1>10 DEF createNewInput, Pending, Session, HasTx, At, Untied, Purging, Listing
  <2>2. r \in Session /\ r.pc = "lockFixed" /\ r.t = s[p].t
    BY <1>s, <2>1 DEF Session
  <2>3. Sessions'
    BY <1>0, <2>1, <2>2, SessionTyped DEF Posted
  <2> QED
    BY <1>10, <2>1, <2>3 DEF createNewInput, LockOutput, network, Sessions
<1>11. CASE createNewInputThrows(p)
  BY <1>0, <1>11, ReturnTyped DEF createNewInputThrows, tables, network, Sessions
<1>12. CASE createActionReturns(p)
  <2>1. s[p].mode \in Modes /\ s[p].held \subseteq Outs
    BY <1>s DEF Session
  <2> QED
    BY <1>0, <1>12, <2>1, ReturnTyped
    DEF createActionReturns, tables, network, Sessions
<1> QED
  BY <1>1, <1>2, <1>3, <1>4, <1>5, <1>6, <1>7, <1>8, <1>9, <1>10, <1>11, <1>12
  DEF CreateActionStep
----------------------------------------------------------------------------
(* The updates of rows.                                                    *)

LEMMA ReqRowUpdate ==
  ASSUME NEW c \in ReqRow, NEW n \in Nat, NEW status \in ProvenTxReqStatus
  PROVE  [c EXCEPT !.attempts = n, !.status = status] \in ReqRow
  BY DEF ReqRow

LEMMA WriteReqTyped ==
  ASSUME TypeOK, NEW t \in Txs, NEW c \in ReqRow, WriteReq(t, c)
  PROVE  req' \in [Txs -> ReqRow]
  BY DEF TypeOK, WriteReq, ReqRow

Outputs == /\ exists \subseteq Outs /\ spendable \subseteq Outs
           /\ spentBy \in [Outs -> Txs \cup {NoTx}] /\ change \subseteq Outs

LEMMA ReleaseInputsTyped ==
  ASSUME TypeOK, NEW T, ReleaseInputs(T)
  PROVE  Outputs'
  BY DEF TypeOK, ReleaseInputs, getInputs, Outputs

LEMMA UpdateTransactionTyped ==
  ASSUME TypeOK, NEW t \in Txs, NEW status \in TransactionStatus,
         updateTransactionStatus(t, status)
  PROVE  tx' \in [Txs -> TxRow] /\ Outputs'
<1>1. tx' \in [Txs -> TxRow]
  BY DEF TypeOK, updateTransactionStatus, TxRow
<1>2. CASE ReleaseInputs({t})
  BY <1>1, <1>2, ReleaseInputsTyped
<1>3. CASE UNCHANGED outputs
  BY <1>1, <1>3 DEF TypeOK, outputs, Outputs
<1> QED
  BY <1>2, <1>3 DEF updateTransactionStatus

LEMMA AbortTxTyped ==
  ASSUME TypeOK, NEW t \in Txs, abortTx(t)
  PROVE  tx' \in [Txs -> TxRow] /\ req' \in [Txs -> ReqRow] /\ Outputs'
<1>1. "failed" \in TransactionStatus
  BY DEF TransactionStatus
<1>2. tx' \in [Txs -> TxRow] /\ Outputs'
  BY <1>1, UpdateTransactionTyped DEF abortTx
<1>3. req' \in [Txs -> ReqRow]
  BY DEF abortTx, TypeOK, ReqRow, ProvenTxReqStatus
<1> QED
  BY <1>2, <1>3

LEMMA UpdateTxTyped ==
  ASSUME TypeOK, NEW t \in Txs, NEW row \in TxRow
  PROVE  UpdateTx(t, row) \in TxRow
  BY DEF UpdateTx, TypeOK

LEMMA StatusTyped ==
  ASSUME TypeOK, NEW t \in Txs, NEW status \in TransactionStatus
  PROVE  [tx[t] EXCEPT !.status = status] \in TxRow
  BY DEF TypeOK, TxRow

LEMMA NewStatusTyped ==
  ASSUME NEW verdict \in Verdicts \ {"none"}
  PROVE  /\ NewStatus(verdict).req \in ProvenTxReqStatus \ {"completed"}
         /\ NewStatus(verdict).tx \in TransactionStatus \ {"completed"}
  BY DEF NewStatus, Verdicts, ProvenTxReqStatus, TransactionStatus

(* Whatever the providers reply, there is a verdict on the transaction.    *)
LEMMA AnswerTyped ==
  ASSUME NEW t \in Txs, NEW failing \in BOOLEAN,
         NEW answer \in PostBeefAnswers[View(t)][failing]
  PROVE  answer.verdict \in Verdicts \ {"none"}
<1>1. View(t) \in {"new", "known", "conflict"}
  BY DEF View
<1>2. PICK r \in PostBeefResults(View(t), IF failing THEN Failures ELSE {}) :
        answer = [verdict |-> Aggregate(r.results), arrived |-> r.arrived]
  BY <1>1 DEF PostBeefAnswers
<1>3. Aggregate(r.results) \in Verdicts \ {"none"}
  BY DEF Aggregate, Verdicts
<1> QED
  BY <1>2, <1>3

LEMMA ConfirmedTyped ==
  ASSUME NEW p \in Procs, NEW v \in confirmed(p),
         s[p].verdict \in Verdicts \ {"none"}
  PROVE  v \in Verdicts \ {"none"}
  BY DEF confirmed, Verdicts

LEMMA CreateStatusTyped ==
  ASSUME NEW mode \in Modes
  PROVE  /\ CreateStatus(mode).req \in ProvenTxReqStatus \ {"completed"}
         /\ CreateStatus(mode).tx \in TransactionStatus \ {"completed"}
  BY DEF CreateStatus, Modes, ProvenTxReqStatus, TransactionStatus

----------------------------------------------------------------------------
(* Posting, by a caller or the monitor *)
LEMMA PostTyped ==
  ASSUME Typed, NEW p \in Procs, PostStep(p)
  PROVE  Typed'
<1>0. Sessions
  BY DEF Typed, TypeOK, Sessions
<1>s. s[p] \in Session /\ s[p].copy \in ReqRow
  BY DEF Typed, TypeOK, Session
<1> SUFFICES TypeOK' /\ Sessions'
  BY DEF Typed, Sessions
<1> USE DEF Typed, TypeOK
<1>1. CASE mergeBeef(p)
  <2>1. Sessions'
    BY <1>0, <1>1, GotoTyped DEF mergeBeef, Pcs, At, Untied, Purging, Listing, Posted
  <2> QED
    BY <1>1, <2>1 DEF mergeBeef, tables, network, Sessions
<1>2. CASE mergeBeefThrows(p)
  <2> DEFINE attempts == s[p].copy.attempts + 1
             status == IF attempts > PostLimit THEN "invalid"
                                               ELSE s[p].copy.status
             c == [s[p].copy EXCEPT !.attempts = attempts, !.status = status]
  <2>1. c \in ReqRow
    <3>1. attempts \in Nat /\ status \in ProvenTxReqStatus
      BY <1>s DEF ReqRow, ProvenTxReqStatus
    <3> QED
      BY <1>s, <3>1, ReqRowUpdate
  <2>2. s[p].t \in Txs
    BY <1>2 DEF mergeBeefThrows, HasTx, At, Untied, Purging, Listing
  <2>3. req' \in [Txs -> ReqRow]
    BY <1>2, <2>1, <2>2, WriteReqTyped DEF mergeBeefThrows
  <2> QED
    BY <1>0, <1>2, <2>3, ReturnTyped DEF mergeBeefThrows, outputs, network, Sessions
<1>3. CASE postBeef(p)
  <2> DEFINE attempts == Larger(req[s[p].t].attempts, s[p].copy.attempts)
             failing == attempts < MaxAttempts
  <2>t. s[p].t \in Txs /\ failing \in BOOLEAN
    BY <1>3 DEF postBeef, HasTx, At, Untied, Purging, Listing
  <2>a. PICK answer \in PostBeefAnswers[View(s[p].t)][failing] :
          /\ s' = [s EXCEPT ![p].pc = "transferNotes", ![p].verdict = answer.verdict]
          /\ known' = known \cup Package(s[p].t) \/ known' = known
    BY <1>3 DEF postBeef
  <2>v. answer.verdict \in Verdicts \ {"none"}
    BY <2>t, <2>a, AnswerTyped
  <2> DEFINE verdict == answer.verdict
  <2> HIDE DEF failing, attempts
  <2> DEFINE r == [s[p] EXCEPT !.pc = "transferNotes", !.verdict = verdict]
  <2>1. r \in Session /\ r.t = s[p].t /\ r.verdict # "none"
    BY <1>s, <2>v, PostingPcs DEF Session
  <2>p. s[p].pc \notin Untied
    BY <1>3, TiedPcs DEF postBeef, At
  <2>2. Sessions'
    BY <1>0, <2>a, <2>1, <2>p, LocalsTyped
  <2>3. known' \subseteq Txs
    BY <2>a DEF Package
  <2> QED
    BY <1>3, <2>2, <2>3 DEF postBeef, tables, Sessions
<1>4. CASE transferNotes(p)
  <2>1. Sessions'
    BY <1>0, <1>4, GotoTyped DEF transferNotes, Pcs, At, Untied, Purging, Listing, Posted
  <2>2. s[p].t \in Txs
    BY <1>4 DEF transferNotes, HasTx, At, Untied, Purging, Listing
  <2>3. req' \in [Txs -> ReqRow]
    BY <1>s, <1>4, <2>2, WriteReqTyped DEF transferNotes
  <2> QED
    BY <1>4, <2>1, <2>3 DEF transferNotes, outputs, network, Sessions
<1>5. CASE refreshReq(p)
  <2> DEFINE r == [s[p] EXCEPT !.copy = req[s[p].t], !.pc = "updateReq"]
  <2>1. s[p].t \in Txs /\ s[p].verdict # "none" /\ s[p].pc = "refresh"
    BY <1>5 DEF refreshReq, HasTx, HasVerdict, At, Untied, Purging, Listing, Posted
  <2>2. r \in Session /\ r.t = s[p].t /\ r.verdict # "none"
    BY <1>s, <2>1 DEF Session, Pcs
  <2>3. Sessions' /\ lock' \in Procs \cup {Nobody}
    <3>1. CASE Return(p)
      BY <1>0, <3>1, ReturnTyped
    <3>2. CASE s' = [s EXCEPT ![p] = r] /\ UNCHANGED lock
      BY <1>0, <2>1, <2>2, <3>2, LocalsTyped DEF Untied, Purging, Listing
    <3> QED
      BY <1>5, <3>1, <3>2 DEF refreshReq
  <2> QED
    BY <1>5, <2>3 DEF refreshReq, tables, network, Sessions
<1>6. CASE updateReqFromResult(p)
  <2>1. s[p].t \in Txs /\ s[p].pc = "updateReq"
    BY <1>6 DEF updateReqFromResult, HasTx, At, Untied, Purging, Listing
  <2>v. s[p].verdict \in Verdicts \ {"none"}
    BY <1>s, <2>1 DEF HasVerdict, Posted, Session
  <2>0. PICK v \in confirmed(p) :
          /\ LET c == s[p].copy IN
               WriteReq(s[p].t,
                 [c EXCEPT !.status = NewStatus(v).req,
                           !.attempts = IF v = "serviceError" THEN @ + 1 ELSE @])
          /\ s' = [s EXCEPT ![p].verdict = v, ![p].pc = "updateTx"]
    BY <1>6 DEF updateReqFromResult
  <2> DEFINE r == [s[p] EXCEPT !.verdict = v, !.pc = "updateTx"]
             attempts == IF v = "serviceError" THEN s[p].copy.attempts + 1
                                               ELSE s[p].copy.attempts
             c == [s[p].copy EXCEPT !.status = NewStatus(v).req,
                                    !.attempts = attempts]
  <2>2. v \in Verdicts \ {"none"}
    BY <2>v, <2>0, ConfirmedTyped
  <2>3. c \in ReqRow
    <3>1. attempts \in Nat /\ NewStatus(v).req \in ProvenTxReqStatus
      BY <1>s, <2>2, NewStatusTyped DEF ReqRow
    <3> QED
      BY <1>s, <3>1 DEF ReqRow
  <2>4. req' \in [Txs -> ReqRow]
    BY <2>0, <2>1, <2>3, WriteReqTyped
  <2>5. r \in Session /\ r.t = s[p].t /\ r.verdict # "none"
    BY <1>s, <2>2, PostingPcs DEF Session
  <2>6. Sessions'
    BY <1>0, <2>0, <2>1, <2>5, LocalsTyped, TiedPcs
  <2> QED
    BY <1>6, <2>4, <2>6 DEF updateReqFromResult, outputs, network, Sessions
<1>7. CASE updateTxFromResult(p)
  <2>1. s[p].t \in Txs /\ s[p].verdict \in Verdicts \ {"none"}
    BY <1>s, <1>7
    DEF updateTxFromResult, HasTx, HasVerdict, At, Untied, Purging, Listing, Posted, Session
  <2>2. NewStatus(s[p].verdict).tx \in TransactionStatus
    BY <2>1, NewStatusTyped
  <2>3. tx' \in [Txs -> TxRow] /\ Outputs'
    BY <1>7, <2>1, <2>2, UpdateTransactionTyped
    DEF updateTxFromResult, Outputs, outputs
  <2> QED
    BY <1>0, <1>7, <2>3, ReturnTyped
    DEF updateTxFromResult, Outputs, network, Sessions
<1> QED
  BY <1>1, <1>2, <1>3, <1>4, <1>5, <1>6, <1>7 DEF PostStep
----------------------------------------------------------------------------
(* processAction and abortAction *)
LEMMA ProcessTyped ==
  ASSUME Typed, NEW p \in Callers, ProcessActionStep(p)
  PROVE  Typed'
<1> p \in Procs
  BY DEF Procs
<1>0. Sessions
  BY DEF Typed, TypeOK, Sessions
<1>s. s[p] \in Session
  BY DEF Typed, TypeOK
<1>1. CASE \E t \in Txs : validateCommitNewTx(p, t)
  <2> PICK t \in Txs : validateCommitNewTx(p, t)
    BY <1>1
  <2> DEFINE r == [Idle EXCEPT !.pc = "commit", !.t = t, !.mode = plan[t].mode]
  <2>1. r \in Session /\ r.pc = "commit" /\ r.t = t
    BY IdleTyped, PostingPcs DEF Typed, TypeOK, Session
  <2>2. Sessions'
    BY <1>0, <2>1, SessionTyped DEF validateCommitNewTx, Untied, Purging, Listing, Posted
  <2> QED
    BY <2>2, AcquireTyped
    DEF validateCommitNewTx, Typed, TypeOK, tables, network, Sessions
<1>2. CASE \E t \in Txs : sendWith(p, t)
  <2> PICK t \in Txs : sendWith(p, t)
    BY <1>2
  <2> PICK mode \in Modes :
        s' = [s EXCEPT ![p] = [Idle EXCEPT !.pc = "share", !.t = t, !.mode = mode]]
    BY DEF sendWith, Modes
  <2> DEFINE r == [Idle EXCEPT !.pc = "share", !.t = t, !.mode = mode]
  <2>1. r \in Session /\ r.pc = "share" /\ r.t = t
    BY IdleTyped DEF Session, Pcs
  <2>2. Sessions'
    BY <1>0, <2>1, SessionTyped DEF Untied, Purging, Listing, Posted
  <2> QED
    BY <2>2, AcquireTyped DEF sendWith, Typed, TypeOK, tables, network, Sessions
<1>3. CASE \E t \in Txs : abortAction(p, t)
  <2> PICK t \in Txs : abortAction(p, t)
    BY <1>3
  <2>1. tx' \in [Txs -> TxRow] /\ Outputs'
    BY AbortTxTyped DEF abortAction, Typed
  <2>2. req' \in [Txs -> ReqRow]
    BY AbortTxTyped DEF abortAction, Typed
  <2> QED
    BY <2>1, <2>2
    DEF abortAction, Typed, TypeOK, Outputs, network, HasTx, HasVerdict
<1>4. CASE commitNewTxToStorage(p)
  <2>1. s[p].t \in Txs /\ s[p].mode \in Modes
    BY <1>s, <1>4 DEF commitNewTxToStorage, Typed, HasTx, At, Untied, Purging, Listing, Session
  <2>2. req' \in [Txs -> ReqRow] /\ tx' \in [Txs -> TxRow]
    <3>1. req' \in [Txs -> ReqRow]
      BY <1>4, <2>1, CreateStatusTyped DEF commitNewTxToStorage, Typed, TypeOK, ReqRow
    <3>2. UpdateTx(s[p].t, [tx[s[p].t] EXCEPT !.status = CreateStatus(s[p].mode).tx])
            \in TxRow
      BY <2>1, CreateStatusTyped, StatusTyped, UpdateTxTyped DEF Typed
    <3> QED
      BY <1>4, <2>1, <3>1, <3>2 DEF commitNewTxToStorage, Typed, TypeOK
  <2>3. Sessions' /\ lock' \in Procs \cup {Nobody}
    <3>1. CASE Goto(p, "share") /\ UNCHANGED lock
      BY <1>0, <1>4, <3>1, GotoTyped
      DEF commitNewTxToStorage, Typed, TypeOK, Pcs, At, Untied, Purging, Listing, Posted
    <3>2. CASE Return(p)
      BY <1>0, <3>2, ReturnTyped DEF Typed, TypeOK
    <3> QED
      BY <1>4, <3>1, <3>2 DEF commitNewTxToStorage
  <2> QED
    BY <1>4, <2>1, <2>2, <2>3
    DEF commitNewTxToStorage, Typed, TypeOK, network, Sessions
<1>5. CASE getReqsAndBeef(p)
  <2>1. s[p].t \in Txs /\ s[p].pc = "share"
    BY <1>5 DEF getReqsAndBeef, Typed, HasTx, At, Untied, Purging, Listing
  <2>2. Sessions' /\ lock' \in Procs \cup {Nobody}
    <3>1. CASE Return(p)
      BY <1>0, <3>1, ReturnTyped DEF Typed, TypeOK
    <3>2. CASE ~Return(p)
      <4> PICK pc \in {"bump", "mergeBeef"} :
            s' = [s EXCEPT ![p].copy = req[s[p].t], ![p].pc = pc]
            /\ UNCHANGED lock
        BY <1>5, <3>2 DEF getReqsAndBeef
      <4> DEFINE r == [s[p] EXCEPT !.copy = req[s[p].t], !.pc = pc]
      <4>1. r \in Session /\ r.t = s[p].t /\ r.pc = pc
        BY <1>s, <2>1 DEF Typed, TypeOK, Session, Pcs
      <4> QED
        BY <1>0, <2>1, <4>1, LocalsTyped, TiedPcs DEF Typed, TypeOK, Posted
    <3> QED
      BY <3>1, <3>2
  <2> QED
    BY <1>5, <2>2 DEF getReqsAndBeef, Typed, TypeOK, tables, network, Sessions
<1>6. CASE bumpToUnsent(p)
  <2>1. s[p].t \in Txs
    BY <1>6 DEF bumpToUnsent, Typed, HasTx, At, Untied, Purging, Listing
  <2>2. req' \in [Txs -> ReqRow] /\ tx' \in [Txs -> TxRow]
    <3>1. req' \in [Txs -> ReqRow]
      <4>1. "unsent" \in ProvenTxReqStatus
        BY DEF ProvenTxReqStatus
      <4> QED
        BY <1>6, <2>1, <4>1 DEF bumpToUnsent, Typed, TypeOK, ReqRow
    <3>2. UpdateTx(s[p].t, [tx[s[p].t] EXCEPT !.status = "sending"]) \in TxRow
      BY <2>1, StatusTyped, UpdateTxTyped DEF Typed, TransactionStatus
    <3> QED
      BY <1>6, <2>1, <3>1, <3>2 DEF bumpToUnsent, Typed, TypeOK
  <2> QED
    BY <1>0, <1>6, <2>2, ReturnTyped
    DEF bumpToUnsent, Typed, TypeOK, outputs, network, Sessions
<1>7. CASE PostStep(p)
  BY <1>7, PostTyped
<1> QED
  BY <1>1, <1>2, <1>3, <1>4, <1>5, <1>6, <1>7 DEF ProcessActionStep
----------------------------------------------------------------------------
(* The monitor's tasks *)

LEMMA ReadTyped ==
  ASSUME Typed, NEW task, NEW t \in Txs, NEW pc \in Pcs \ Posted,
         NEW counts \in BOOLEAN, Read(task, t, pc, counts)
  PROVE  Typed'
<1> DEFINE r == [Idle EXCEPT !.pc = pc, !.t = t, !.copy = req[t], !.counts = counts]
<1>1. r \in Session /\ r.pc = pc /\ r.t = t
  BY IdleTyped DEF Typed, TypeOK, Session
<1>2. Sessions'
  BY <1>1, SessionTyped DEF Read, Typed, TypeOK, Sessions, Procs, M
<1> QED
  BY <1>2 DEF Read, Typed, TypeOK, tables, network, Sessions

LEMMA SendWaitingTyped ==
  ASSUME Typed, SendWaitingStep
  PROVE  Typed'
<1>0. Sessions /\ Monitor \in Procs
  BY DEF Typed, TypeOK, Sessions, Procs
<1>1. CASE \E t \in Txs : sendWaiting(t)
  <2> PICK t \in Txs : sendWaiting(t)
    BY <1>1
  <2>1. "sendWaiting" \in Pcs \ Posted
    BY DEF Pcs, Posted
  <2> QED
    BY <2>1, ReadTyped DEF sendWaiting
<1>2. CASE processUnsent
  BY <1>0, <1>2, GotoTyped, AcquireTyped
  DEF processUnsent, Typed, TypeOK, tables, network, Sessions, M, Pcs, At, Untied, Purging, Listing,
      Posted
<1> QED
  BY <1>1, <1>2 DEF SendWaitingStep

LEMMA GetProofsTyped ==
  ASSUME Typed, GetProofsStep
  PROVE  Typed'
<1>0. Sessions /\ Monitor \in Procs /\ M = Monitor
  BY DEF Typed, TypeOK, Sessions, Procs, M
<1>s. s[Monitor] \in Session /\ s[Monitor].copy \in ReqRow /\ s[Monitor].kept \in Nat
  BY <1>0 DEF Typed, TypeOK, Session
<1>1. CASE \E t \in Txs, counts \in BOOLEAN :
             checkForProofs(t, counts) \/ checkNoSends(t, counts)
  <2> PICK t \in Txs, counts \in BOOLEAN :
             checkForProofs(t, counts) \/ checkNoSends(t, counts)
    BY <1>1
  <2>1. "getProofs" \in Pcs \ Posted
    BY DEF Pcs, Posted
  <2> QED
    BY <2>1, ReadTyped DEF checkForProofs, checkNoSends
<1>2. CASE settleCopy
  <2>1. s[Monitor].t \in Txs
    BY <1>0, <1>2 DEF settleCopy, Typed, HasTx, At, Untied, Purging, Listing
  <2>2. PICK status \in {"completed", "invalid"} :
          WriteReq(s[Monitor].t, [s[Monitor].copy EXCEPT !.status = status])
    BY <1>0, <1>2 DEF settleCopy
  <2>3. [s[Monitor].copy EXCEPT !.status = status] \in ReqRow
    BY <1>s DEF ReqRow, ProvenTxReqStatus
  <2>4. req' \in [Txs -> ReqRow]
    BY <2>1, <2>2, <2>3, WriteReqTyped DEF Typed
  <2> QED
    BY <1>0, <1>2, <2>4, ReturnTyped
    DEF settleCopy, Typed, TypeOK, outputs, network, Sessions
<1>3. CASE getMerklePath
  <2> DEFINE c == IF s[Monitor].counts THEN Counted(s[Monitor].copy)
                                       ELSE s[Monitor].copy
             found == [s[Monitor] EXCEPT !.pc = "saveCopy", !.copy = c,
                                         !.kept = c.attempts]
             missed(status) == [s[Monitor] EXCEPT !.pc = "finishProof",
                                  !.kept = c.attempts,
                                  !.copy = [c EXCEPT !.status = status]]
  <2>1. c \in ReqRow
    BY <1>s DEF Counted, ReqRow
  <2>4. /\ \/ s' = [s EXCEPT ![Monitor].pc = "saveCopy", ![Monitor].copy = c,
                            ![Monitor].kept = c.attempts]
           \/ \E status \in {c.status, "invalid"} :
                 s' = [s EXCEPT ![Monitor].pc = "finishProof",
                                ![Monitor].kept = c.attempts,
                                ![Monitor].copy = [c EXCEPT !.status = status]]
    BY <1>0, <1>3 DEF getMerklePath
  <2> HIDE DEF c
  <2>2. CASE s' = [s EXCEPT ![Monitor].pc = "saveCopy", ![Monitor].copy = c,
                           ![Monitor].kept = c.attempts]
    <3>0. s' = [s EXCEPT ![Monitor] = found]
      BY <2>2
    <3>1. found \in Session /\ found.pc = "saveCopy" /\ found.t = s[Monitor].t
      BY <1>s, <2>1 DEF Session, ReqRow, Pcs
    <3>2. Sessions'
      BY <1>0, <1>3, <3>0, <3>1, LocalsTyped DEF getMerklePath, At, Untied, Purging, Listing, Posted
    <3> QED
      BY <1>3, <3>2 DEF getMerklePath, Typed, TypeOK, tables, network, Sessions
  <2>3. CASE \E status \in {c.status, "invalid"} :
               s' = [s EXCEPT ![Monitor].pc = "finishProof",
                              ![Monitor].kept = c.attempts,
                              ![Monitor].copy = [c EXCEPT !.status = status]]
    <3> PICK status \in {c.status, "invalid"} :
          s' = [s EXCEPT ![Monitor].pc = "finishProof",
                         ![Monitor].kept = c.attempts,
                         ![Monitor].copy = [c EXCEPT !.status = status]]
      BY <2>3
    <3>0. s' = [s EXCEPT ![Monitor] = missed(status)]
      OBVIOUS
    <3>1. [c EXCEPT !.status = status] \in ReqRow /\ c.attempts \in Nat
      BY <2>1 DEF ReqRow, ProvenTxReqStatus
    <3>2. /\ missed(status) \in Session /\ missed(status).pc = "finishProof"
          /\ missed(status).t = s[Monitor].t
      BY <1>s, <3>1 DEF Session, Pcs
    <3>3. Sessions'
      BY <1>0, <1>3, <3>0, <3>2, LocalsTyped DEF getMerklePath, At, Untied, Purging, Listing, Posted
    <3> QED
      BY <1>3, <3>3 DEF getMerklePath, Typed, TypeOK, tables, network, Sessions
  <2> QED
    BY <2>2, <2>3, <2>4
<1>4. CASE proofTooNew
  BY <1>0, <1>4, ReturnTyped
  DEF proofTooNew, Typed, TypeOK, tables, network, Sessions
<1>5. CASE saveCopy
  <2>1. s[Monitor].t \in Txs
    BY <1>0, <1>5 DEF saveCopy, Typed, HasTx, At, Untied, Purging, Listing
  <2>2. req' \in [Txs -> ReqRow]
    BY <1>0, <1>s, <1>5, <2>1, WriteReqTyped DEF saveCopy, Typed
  <2>3. Sessions'
    BY <1>0, <1>5, GotoTyped DEF saveCopy, Pcs, At, Untied, Purging, Listing, Posted
  <2> QED
    BY <1>5, <2>2, <2>3 DEF saveCopy, Typed, TypeOK, outputs, network, Sessions
<1>6. CASE refreshCopy
  <2> DEFINE r == [s[Monitor] EXCEPT !.copy = req[s[Monitor].t],
                     !.pc = "newProvenTx", !.kept = req[s[Monitor].t].attempts]
  <2>1. s[Monitor].t \in Txs /\ s[Monitor].pc = "refreshCopy"
    BY <1>0, <1>6 DEF refreshCopy, Typed, HasTx, At, Untied, Purging, Listing
  <2>2. req[s[Monitor].t] \in ReqRow /\ req[s[Monitor].t].attempts \in Nat
    BY <2>1 DEF Typed, TypeOK, ReqRow
  <2>3. r \in Session /\ r.pc = "newProvenTx" /\ r.t = s[Monitor].t
    BY <1>s, <2>2 DEF Session, Pcs
  <2>4. s' = [s EXCEPT ![Monitor] = r]
    BY <1>0, <1>6 DEF refreshCopy
  <2>5. Sessions'
    BY <1>0, <2>1, <2>3, <2>4, LocalsTyped DEF Untied, Purging, Listing, Posted
  <2> QED
    BY <1>6, <2>5 DEF refreshCopy, Typed, TypeOK, tables, network, Sessions
<1>7. CASE newProvenTx
  <2>1. s[Monitor].t \in Txs /\ s[Monitor].pc = "newProvenTx"
    BY <1>0, <1>7 DEF newProvenTx, Typed, HasTx, At, Untied, Purging, Listing
  <2>2. PICK pc \in {"insertProvenTx", "finishProof"} :
          s' = [s EXCEPT ![Monitor].copy = req[s[Monitor].t], ![Monitor].pc = pc]
    BY <1>0, <1>7 DEF newProvenTx
  <2> DEFINE r == [s[Monitor] EXCEPT !.copy = req[s[Monitor].t], !.pc = pc]
  <2>3. r \in Session /\ r.pc = pc /\ r.t = s[Monitor].t
    BY <1>s, <2>1 DEF Typed, TypeOK, Session, Pcs
  <2>4. Sessions'
    BY <1>0, <2>1, <2>2, <2>3, LocalsTyped DEF Untied, Purging, Listing, Posted
  <2> QED
    BY <1>0, <1>7, <2>4, AcquireTyped
    DEF newProvenTx, Typed, TypeOK, tables, network, Sessions
<1>8. CASE insertProvenTx
  <2> DEFINE done == [s[Monitor].copy EXCEPT !.status = "completed", !.proof = TRUE]
             linked == [s[Monitor].copy EXCEPT !.proof = TRUE]
             old == [s[Monitor] EXCEPT !.pc = "finishProof", !.copy = linked]
             new == [s[Monitor] EXCEPT !.copy = done, !.pc = "notifyTx"]
  <2>1. s[Monitor].t \in Txs /\ s[Monitor].pc = "insertProvenTx"
    BY <1>0, <1>8 DEF insertProvenTx, Typed, HasTx, At, Untied, Purging, Listing
  <2>2. done \in ReqRow /\ linked \in ReqRow
    BY <1>s DEF ReqRow, ProvenTxReqStatus
  <2>3. CASE /\ s' = [s EXCEPT ![Monitor].pc = "finishProof",
                               ![Monitor].copy.proof = TRUE]
             /\ Release(Monitor) /\ UNCHANGED <<req, proven>>
    <3>0. s' = [s EXCEPT ![Monitor] = old]
      BY <2>3
    <3>1. old \in Session /\ old.pc = "finishProof" /\ old.t = s[Monitor].t
      BY <1>s, <2>2 DEF Session, Pcs
    <3>2. Sessions'
      BY <1>0, <2>1, <3>0, <3>1, LocalsTyped DEF Untied, Purging, Listing, Posted
    <3> QED
      BY <1>8, <2>3, <3>2
      DEF insertProvenTx, Release, Typed, TypeOK, outputs, network, Sessions
  <2>4. CASE /\ s' = [s EXCEPT ![Monitor].copy = done, ![Monitor].pc = "notifyTx"]
             /\ WriteReq(s[Monitor].t, done)
             /\ proven' = proven \cup {s[Monitor].t} /\ UNCHANGED lock
    <3>0. s' = [s EXCEPT ![Monitor] = new]
      BY <2>4
    <3>1. new \in Session /\ new.pc = "notifyTx" /\ new.t = s[Monitor].t
      BY <1>s, <2>2 DEF Session, Pcs
    <3>2. Sessions'
      BY <1>0, <2>1, <3>0, <3>1, LocalsTyped DEF Untied, Purging, Listing, Posted
    <3>3. req' \in [Txs -> ReqRow]
      BY <2>1, <2>2, <2>4, WriteReqTyped DEF Typed
    <3> QED
      BY <1>8, <2>1, <2>4, <3>2, <3>3
      DEF insertProvenTx, Typed, TypeOK, outputs, network, Sessions
  <2> QED
    BY <1>0, <1>8, <2>3, <2>4 DEF insertProvenTx
<1>9. CASE notifyTx
  <2>1. Sessions'
    BY <1>0, <1>9, GotoTyped DEF notifyTx, Pcs, At, Untied, Purging, Listing, Posted
  <2>2. [status |-> "completed", proof |-> TRUE] \in TxRow
    BY DEF TxRow, TransactionStatus
  <2>3. tx' \in [Txs -> TxRow] /\ faults' \in Nat
    BY <1>9, <2>2 DEF notifyTx, UpdateTx, Typed, TypeOK
  <2> QED
    BY <1>9, <2>1, <2>3 DEF notifyTx, Typed, TypeOK, outputs, network, Sessions
<1>10. CASE saveNotified
  <2>1. s[Monitor].t \in Txs
    BY <1>0, <1>10 DEF saveNotified, Typed, HasTx, At, Untied, Purging, Listing
  <2>2. req' \in [Txs -> ReqRow]
    BY <1>0, <1>s, <1>10, <2>1, WriteReqTyped DEF saveNotified, Typed
  <2>3. Sessions'
    BY <1>0, <1>10, GotoTyped DEF saveNotified, Pcs, At, Untied, Purging, Listing, Posted
  <2> QED
    BY <1>10, <2>2, <2>3
    DEF saveNotified, Release, Typed, TypeOK, outputs, network, Sessions
<1>11. CASE finishProof
  <2> DEFINE c == [s[Monitor].copy EXCEPT !.attempts = s[Monitor].kept]
  <2>1. s[Monitor].t \in Txs
    BY <1>0, <1>11 DEF finishProof, Typed, HasTx, At, Untied, Purging, Listing
  <2>2. c \in ReqRow
    BY <1>s DEF ReqRow
  <2>3. req' \in [Txs -> ReqRow]
    BY <1>0, <1>11, <2>1, <2>2, WriteReqTyped DEF finishProof, Typed
  <2> QED
    BY <1>0, <1>11, <2>3, ReturnTyped
    DEF finishProof, Typed, TypeOK, outputs, network, Sessions
<1> QED
  BY <1>1, <1>2, <1>3, <1>4, <1>5, <1>6, <1>7, <1>8, <1>9, <1>10, <1>11
  DEF GetProofsStep
LEMMA FailAbandonedTyped ==
  ASSUME Typed, FailAbandonedStep
  PROVE  Typed'
<1>0. Sessions /\ Monitor \in Procs /\ M = Monitor
  BY DEF Typed, TypeOK, Sessions, Procs, M
<1>1. CASE \E t \in Txs : failAbandoned(t)
  <2> PICK t \in Txs : failAbandoned(t)
    BY <1>1
  <2> DEFINE r == [Idle EXCEPT !.pc = "failAbandoned", !.t = t]
  <2>1. r \in Session /\ r.pc = "failAbandoned" /\ r.t = t
    BY IdleTyped DEF Session, Pcs
  <2>2. Sessions'
    BY <1>0, <2>1, SessionTyped DEF failAbandoned, Untied, Purging, Listing, Posted
  <2> QED
    BY <1>0, <2>2, AcquireTyped
    DEF failAbandoned, Typed, TypeOK, tables, network, Sessions
<1>2. CASE failAbandonedTx
  <2>1. s[Monitor].t \in Txs
    BY <1>0, <1>2 DEF failAbandonedTx, Typed, HasTx, At, Untied, Purging, Listing
  <2>2. tx' \in [Txs -> TxRow] /\ Outputs'
    BY <1>0, <1>2, <2>1, UpdateTransactionTyped
    DEF failAbandonedTx, Typed, TypeOK, Outputs, outputs, TransactionStatus
  <2> QED
    BY <1>0, <1>2, <2>2, ReturnTyped
    DEF failAbandonedTx, Typed, TypeOK, Outputs, network, Sessions
<1> QED
  BY <1>1, <1>2 DEF FailAbandonedStep

LEMMA UnFailTyped ==
  ASSUME Typed, UnFailStep
  PROVE  Typed'
<1>0. Sessions /\ Monitor \in Procs /\ M = Monitor
  BY DEF Typed, TypeOK, Sessions, Procs, M
<1>s. s[Monitor] \in Session /\ s[Monitor].copy \in ReqRow
  BY <1>0 DEF Typed, TypeOK, Session
<1>1. CASE \E t \in Txs : assignUnfail(t)
  <2>1. req' \in [Txs -> ReqRow]
    BY <1>1 DEF assignUnfail, Typed, TypeOK, ReqRow, ProvenTxReqStatus
  <2> QED
    BY <1>1, <2>1
    DEF assignUnfail, Typed, TypeOK, outputs, network, HasTx, HasVerdict
<1>2. CASE \E t \in Txs : unfail(t)
  <2>1. "getPath" \in Pcs \ Posted
    BY DEF Pcs, Posted
  <2> QED
    BY <1>2, <2>1, ReadTyped DEF unfail
<1>3. CASE getUnfailPath
  <2>1. ASSUME s' = [s EXCEPT ![Monitor].pc = "unfailTx",
                              ![Monitor].copy.status = "unmined",
                              ![Monitor].copy.attempts = 0]
         PROVE  Sessions'
    <3> DEFINE c == [s[Monitor].copy EXCEPT !.status = "unmined", !.attempts = 0]
               r == [s[Monitor] EXCEPT !.pc = "unfailTx", !.copy = c]
    <3>1. s' = [s EXCEPT ![Monitor] = r]
      BY <1>s, <2>1 DEF Session
    <3>2. c \in ReqRow
      BY <1>s DEF ReqRow, ProvenTxReqStatus
    <3>3. r \in Session /\ r.pc = "unfailTx" /\ r.t = s[Monitor].t
      BY <1>s, <3>2 DEF Session, Pcs
    <3> QED
      BY <1>0, <1>3, <3>1, <3>3, LocalsTyped DEF getUnfailPath, At, Untied, Purging, Listing, Posted
  <2>2. ASSUME s' = [s EXCEPT ![Monitor].pc = "unfailReq",
                              ![Monitor].copy.status = "invalid"]
         PROVE  Sessions'
    <3> DEFINE c == [s[Monitor].copy EXCEPT !.status = "invalid"]
               r == [s[Monitor] EXCEPT !.pc = "unfailReq", !.copy = c]
    <3>1. s' = [s EXCEPT ![Monitor] = r]
      BY <2>2
    <3>2. c \in ReqRow
      BY <1>s DEF ReqRow, ProvenTxReqStatus
    <3>3. r \in Session /\ r.pc = "unfailReq" /\ r.t = s[Monitor].t
      BY <1>s, <3>2 DEF Session, Pcs
    <3> QED
      BY <1>0, <1>3, <3>1, <3>3, LocalsTyped DEF getUnfailPath, At, Untied, Purging, Listing, Posted
  <2>3. Sessions'
    BY <1>0, <1>3, <2>1, <2>2 DEF getUnfailPath
  <2> QED
    BY <1>3, <2>3 DEF getUnfailPath, Typed, TypeOK, tables, network, Sessions
<1>4. CASE unfailTx
  <2>1. s[Monitor].t \in Txs
    BY <1>0, <1>4 DEF unfailTx, Typed, HasTx, At, Untied, Purging, Listing
  <2>2. tx' \in [Txs -> TxRow]
    BY <1>4 DEF unfailTx, Typed, TypeOK, TxRow, TransactionStatus
  <2>3. Outputs'
    BY <1>0, <1>4, <2>1 DEF unfailTx, RetakenBy, Typed, TypeOK, Outputs, Outs
  <2>4. Sessions'
    BY <1>0, <1>4, GotoTyped DEF unfailTx, Pcs, At, Untied, Purging, Listing, Posted
  <2> QED
    BY <1>4, <2>2, <2>3, <2>4 DEF unfailTx, Typed, TypeOK, Outputs, network, Sessions
<1>5. CASE unfailReq
  <2>1. s[Monitor].t \in Txs
    BY <1>0, <1>5 DEF unfailReq, Typed, HasTx, At, Untied, Purging, Listing
  <2>2. req' \in [Txs -> ReqRow]
    BY <1>0, <1>s, <1>5, <2>1, WriteReqTyped DEF unfailReq, Typed
  <2> QED
    BY <1>0, <1>5, <2>2, ReturnTyped
    DEF unfailReq, Typed, TypeOK, outputs, network, Sessions
<1> QED
  BY <1>1, <1>2, <1>3, <1>4, <1>5 DEF UnFailStep

LEMMA ReviewStatusTyped ==
  ASSUME Typed, ReviewStatusStep
  PROVE  Typed'
<1>0. Sessions /\ Monitor \in Procs /\ M = Monitor
  BY DEF Typed, TypeOK, Sessions, Procs, M
<1>1. CASE reviewStatus
  <2> DEFINE r == [Idle EXCEPT !.pc = "review1"]
  <2>1. r \in Session /\ r.pc = "review1"
    BY IdleTyped DEF Session, Pcs
  <2>2. Sessions'
    BY <1>0, <1>1, <2>1, SessionTyped DEF reviewStatus, Untied, Purging, Listing, Posted
  <2> QED
    BY <1>0, <1>1, <2>2, AcquireTyped
    DEF reviewStatus, Typed, TypeOK, tables, network, Sessions
<1>2. CASE failWhereReqInvalid
  <2>1. tx' \in [Txs -> TxRow]
    <3>1. \A t \in Txs : UpdateTx(t, [tx[t] EXCEPT !.status = "failed"]) \in TxRow
      BY StatusTyped, UpdateTxTyped DEF Typed, TransactionStatus
    <3> QED
      BY <1>2, <3>1 DEF failWhereReqInvalid, Typed, TypeOK
  <2>2. Sessions'
    BY <1>0, <1>2, GotoTyped DEF failWhereReqInvalid, Pcs, At, Untied, Purging, Listing, Posted
  <2> QED
    BY <1>2, <2>1, <2>2
    DEF failWhereReqInvalid, Typed, TypeOK, outputs, network, Sessions
<1>3. CASE releaseWhereTxFailed
  <2>1. Outputs'
    BY <1>3, ReleaseInputsTyped DEF releaseWhereTxFailed, Typed
  <2>2. Sessions'
    BY <1>0, <1>3, GotoTyped DEF releaseWhereTxFailed, Pcs, At, Untied, Purging, Listing, Posted
  <2> QED
    BY <1>3, <2>1, <2>2
    DEF releaseWhereTxFailed, Typed, TypeOK, Outputs, network, Sessions
<1>4. CASE completeWhereProven
  <2>1. [status |-> "completed", proof |-> TRUE] \in TxRow
    BY DEF TxRow, TransactionStatus
  <2>2. tx' \in [Txs -> TxRow]
    BY <1>4, <2>1 DEF completeWhereProven, Typed, TypeOK
  <2> QED
    BY <1>0, <1>4, <2>2, ReturnTyped
    DEF completeWhereProven, Typed, TypeOK, outputs, network, Sessions
<1> QED
  BY <1>1, <1>2, <1>3, <1>4 DEF ReviewStatusStep

----------------------------------------------------------------------------
(* internalizeAction *)
InternalizePcs == {"insertProven", "insertCompleted", "insertUnproven", "getReq",
                   "storeOutput", "mergeOutput"}

LEMMA InternalizePcsTyped ==
  /\ InternalizePcs \subseteq Pcs /\ InternalizePcs \cap Posted = {}
  /\ \A pc \in InternalizePcs : pc \notin Untied
  BY DEF InternalizePcs, Pcs, Posted, Untied, Purging, Listing

LEMMA InternalizeTyped ==
  ASSUME Typed, NEW p \in Callers, InternalizeActionStep(p)
  PROVE  Typed'
<1> p \in Procs
  BY DEF Procs
<1>0. Sessions /\ Outputs
  BY DEF Typed, TypeOK, Sessions, Outputs
<1>g. ASSUME NEW pc \in InternalizePcs, Goto(p, pc), s[p].pc \in InternalizePcs
      PROVE  Sessions'
  BY <1>0, <1>g, GotoTyped, InternalizePcsTyped
<1>t. s[p].pc \in InternalizePcs => s[p].t \in Txs /\ s[p].t \in Outs
  BY InternalizePcsTyped DEF Typed, HasTx, Outs
<1>1. CASE \E t \in Txs : internalizeAction(p, t)
  <2> PICK t \in Txs : internalizeAction(p, t)
    BY <1>1
  <2> PICK pc \in InternalizePcs : s' = [s EXCEPT ![p] = [Idle EXCEPT !.t = t, !.pc = pc]]
    BY DEF internalizeAction, InternalizePcs
  <2> DEFINE r == [Idle EXCEPT !.t = t, !.pc = pc]
  <2>1. r \in Session /\ r.pc = pc /\ r.t = t
    BY IdleTyped, InternalizePcsTyped DEF Session
  <2>2. Sessions'
    BY <1>0, <2>1, SessionTyped, InternalizePcsTyped
  <2> QED
    BY <2>2, AcquireTyped
    DEF internalizeAction, Typed, TypeOK, tables, network, Sessions
<1>2. CASE findOrInsertProvenTx(p)
  <2>1. s[p].t \in Txs /\ Sessions'
    BY <1>2, <1>g, <1>t DEF findOrInsertProvenTx, At, InternalizePcs
  <2> QED
    BY <1>2, <2>1 DEF findOrInsertProvenTx, Typed, TypeOK, outputs, network, Sessions
<1>3. CASE insertCompleted(p)
  <2>1. s[p].t \in Txs /\ Sessions' /\ lock' \in Procs \cup {Nobody}
    <3>1. s[p].pc \in InternalizePcs /\ "storeOutput" \in InternalizePcs
      BY <1>3 DEF insertCompleted, At, InternalizePcs
    <3>2. (Goto(p, "storeOutput") /\ UNCHANGED lock) \/ Return(p)
      BY <1>3 DEF insertCompleted, InsertTx
    <3> QED
      BY <1>0, <1>g, <1>t, <3>1, <3>2, ReturnTyped DEF Typed, TypeOK
  <2>2. [status |-> "completed", proof |-> TRUE] \in TxRow
    BY DEF TxRow, TransactionStatus
  <2> QED
    BY <1>3, <2>1, <2>2
    DEF insertCompleted, InsertTx, Typed, TypeOK, outputs, network, Sessions
<1>4. CASE insertUnproven(p)
  <2>1. s[p].t \in Txs /\ Sessions' /\ lock' \in Procs \cup {Nobody}
    <3>1. s[p].pc \in InternalizePcs /\ "getReq" \in InternalizePcs
      BY <1>4 DEF insertUnproven, At, InternalizePcs
    <3>2. (Goto(p, "getReq") /\ UNCHANGED lock) \/ Return(p)
      BY <1>4 DEF insertUnproven, InsertTx
    <3> QED
      BY <1>0, <1>g, <1>t, <3>1, <3>2, ReturnTyped DEF Typed, TypeOK
  <2>2. [status |-> "unproven", proof |-> FALSE] \in TxRow
    BY DEF TxRow, TransactionStatus
  <2> QED
    BY <1>4, <2>1, <2>2
    DEF insertUnproven, InsertTx, Typed, TypeOK, outputs, network, Sessions
<1>6. CASE getProvenOrReq(p)
  <2>1. s[p].t \in Txs /\ Sessions'
    BY <1>6, <1>g, <1>t DEF getProvenOrReq, At, InternalizePcs
  <2>2. NewReq(s[p].t) \in ReqRow
    BY DEF NewReq, NoReq, ReqRow, ProvenTxReqStatus
  <2>3. req' \in [Txs -> ReqRow]
    BY <1>6, <2>1, <2>2 DEF getProvenOrReq, Typed, TypeOK
  <2> QED
    BY <1>6, <2>1, <2>3 DEF getProvenOrReq, Typed, TypeOK, outputs, network, Sessions
<1>7. CASE storeOutput(p)
  <2>1. s[p].t \in Outs
    BY <1>7, <1>t DEF storeOutput, At, InternalizePcs
  <2>2. Outputs'
    BY <1>0, <1>7, <2>1 DEF storeOutput, outputs, Outputs
  <2> QED
    BY <1>0, <1>7, <2>2, ReturnTyped
    DEF storeOutput, Typed, TypeOK, Outputs, network, Sessions
<1>8. CASE mergeOutput(p)
  <2>1. change' \subseteq Outs
    BY <1>0, <1>8 DEF mergeOutput, Outputs
  <2> QED
    BY <1>0, <1>8, <2>1, ReturnTyped
    DEF mergeOutput, Typed, TypeOK, network, Sessions
<1> QED
  BY <1>1, <1>2, <1>3, <1>4, <1>6, <1>7, <1>8 DEF InternalizeActionStep

----------------------------------------------------------------------------
(* The special operations of listActions and listOutputs *)
LEMMA ListingTyped ==
  Listing \subseteq Pcs /\ Listing \subseteq Untied /\ Listing \cap Posted = {}
  BY DEF Listing, Pcs, Untied, Posted

LEMMA ListedTyped ==
  ASSUME Typed, NEW p \in Callers, NEW call, NEW pc \in Listing,
         NEW rows \in SUBSET Outs, Listed(call, p, pc, rows)
  PROVE  Typed'
<1> p \in Procs
  BY DEF Procs
<1> DEFINE r == [Idle EXCEPT !.pc = pc, !.held = rows]
<1>1. r \in Session /\ r.pc = pc
  BY IdleTyped, ListingTyped DEF Session
<1>2. Sessions'
  BY <1>1, SessionTyped, ListingTyped DEF Listed, Typed, TypeOK, Sessions
<1> QED
  BY <1>2, AcquireTyped DEF Listed, Typed, TypeOK, tables, network, Sessions

LEMMA RestTyped ==
  ASSUME Sessions, NEW p \in Procs, NEW x, Rest(p, x), s[p].pc \in Listing
  PROVE  Sessions'
<1> DEFINE r == [s[p] EXCEPT !.held = @ \ {x}]
<1>1. r \in Session /\ r.pc = s[p].pc
  BY DEF Sessions, Session
<1>2. s' = [s EXCEPT ![p] = r]
  BY DEF Rest
<1> QED
  BY <1>1, <1>2, SessionTyped, ListingTyped

LEMMA ListSpecOpsTyped ==
  ASSUME Typed, NEW p \in Callers, ListSpecOpsStep(p)
  PROVE  Typed'
<1> p \in Procs
  BY DEF Procs
<1>0. Sessions /\ Outputs /\ Txs \subseteq Outs
  BY DEF Typed, TypeOK, Sessions, Outputs, Outs
<1>1. CASE listNoSends(p) \/ listFailed(p) \/ listChange(p)
  <2>1. /\ {t \in Txs : tx[t].status = "nosend"} \in SUBSET Outs
        /\ {t \in Txs : tx[t].status = "failed"} \in SUBSET Outs
        /\ {o \in exists \cap spendable \cap change :
              OwnerStatus(o) \in ListedStatus} \in SUBSET Outs
    BY <1>0 DEF Outputs
  <2> QED
    BY <1>1, <2>1, ListedTyped DEF listNoSends, listFailed, listChange, Listing
<1>2. CASE abortListed(p)
  <2> PICK t \in s[p].held \cap Txs :
        \/ abortTx(t) /\ Rest(p, t) /\ UNCHANGED lock
        \/ ~Abortable(t) /\ Return(p) /\ UNCHANGED <<tx, req, outputs>>
    BY <1>2 DEF abortListed
  <2>p. s[p].pc \in Listing
    BY <1>2 DEF abortListed, At, Listing
  <2>1. CASE ~Abortable(t) /\ Return(p) /\ UNCHANGED <<tx, req, outputs>>
    BY <1>0, <1>2, <2>1, ReturnTyped
    DEF abortListed, Typed, TypeOK, outputs, network, Sessions
  <2>2. CASE abortTx(t) /\ Rest(p, t) /\ UNCHANGED lock
    BY <1>0, <1>2, <2>p, <2>2, AbortTxTyped, RestTyped
    DEF abortListed, Typed, TypeOK, Outputs, network, Sessions
  <2> QED
    BY <2>1, <2>2
<1>3. CASE unfailListed(p)
  <2> PICK t \in s[p].held :
        /\ tx' = [tx EXCEPT ![t] = UpdateTx(t, [@ EXCEPT !.status = "unfail"])]
        /\ Rest(p, t)
    BY <1>3 DEF unfailListed
  <2>1. Sessions'
    BY <1>0, <1>3, RestTyped DEF unfailListed, At, Listing
  <2>2. tx' \in [Txs -> TxRow]
    <3>1. CASE t \in Txs
      <4>1. UpdateTx(t, [tx[t] EXCEPT !.status = "unfail"]) \in TxRow
        BY <3>1, StatusTyped, UpdateTxTyped DEF Typed, TransactionStatus
      <4> QED
        BY <3>1, <4>1 DEF Typed, TypeOK
    <3>2. CASE t \notin Txs
      BY <3>2 DEF Typed, TypeOK
    <3> QED
      BY <3>1, <3>2
  <2> QED
    BY <1>3, <2>1, <2>2 DEF unfailListed, Typed, TypeOK, outputs, network, Sessions
<1>4. CASE releaseListed(p)
  <2> PICK o \in s[p].held :
        spendable' = spendable \ {o} /\ Rest(p, o)
    BY <1>4 DEF releaseListed
  <2>1. Sessions'
    BY <1>0, <1>4, RestTyped DEF releaseListed, At, Listing
  <2>2. spendable' \subseteq Outs
    BY <1>0 DEF Outputs
  <2> QED
    BY <1>4, <2>1, <2>2 DEF releaseListed, Typed, TypeOK, network, Sessions
<1>5. CASE listed(p)
  BY <1>0, <1>5, ReturnTyped DEF listed, Typed, TypeOK, tables, network, Sessions
<1>6. CASE filterOutputs(p)
  <2> PICK invalid \in SUBSET s[p].held :
        s' = [s EXCEPT ![p].pc = "releaseListed", ![p].held = invalid]
    BY <1>6 DEF filterOutputs
  <2> DEFINE r == [s[p] EXCEPT !.pc = "releaseListed", !.held = invalid]
  <2>1. r \in Session /\ r.pc \in Listing /\ s' = [s EXCEPT ![p] = r]
    BY <1>0, ListingTyped DEF Sessions, Session, Listing
  <2>2. Sessions'
    BY <1>0, <2>1, SessionTyped, ListingTyped
  <2> QED
    BY <1>6, <2>2 DEF filterOutputs, Typed, TypeOK, tables, network, Sessions
<1> QED
  BY <1>1, <1>2, <1>3, <1>4, <1>5, <1>6 DEF ListSpecOpsStep

----------------------------------------------------------------------------
(* purgeData *)
LEMMA PurgingTyped ==
  Purging \subseteq Pcs /\ Purging \subseteq Untied /\ Purging \cap Posted = {}
  BY DEF Purging, Pcs, Untied, Posted

LEMMA PhasesTyped ==
  AfterCompleted \in Purging /\ AfterFailed \in Purging /\ FirstPurge \in Purging
  BY DEF AfterCompleted, AfterFailed, FirstPurge, Purging

LEMMA DeletesTyped ==
  ASSUME Typed
  PROVE  /\ \A T : DeleteReqs(T) => req' \in [Txs -> ReqRow]
         /\ \A T : DeleteTxs(T) => tx' \in [Txs -> TxRow]
         /\ \A O : Delete(O) => Outputs'
<1>1. NoReq \in ReqRow /\ [status |-> "none", proof |-> FALSE] \in TxRow
  BY DEF NoReq, ReqRow, TxRow, ProvenTxReqStatus, TransactionStatus
<1> QED
  BY <1>1 DEF DeleteReqs, DeleteTxs, Delete, Outputs, Typed, TypeOK

LEMMA PurgeTyped ==
  ASSUME Typed, PurgeStep
  PROVE  Typed'
<1>0. Sessions /\ Outputs /\ Monitor \in Procs /\ M = Monitor
  BY DEF Typed, TypeOK, Sessions, Outputs, Procs, M
<1>s. s[Monitor] \in Session
  BY <1>0 DEF Sessions
<1>g. ASSUME NEW pc \in Purging, Goto(Monitor, pc)
      PROVE  Sessions'
  BY <1>0, <1>g, GotoTyped, PurgingTyped
<1>h. ASSUME NEW old \in SUBSET Outs, NEW pc \in Purging,
             s' = [s EXCEPT ![Monitor].held = old, ![Monitor].pc = pc]
      PROVE  Sessions'
  <2> DEFINE r == [s[Monitor] EXCEPT !.held = old, !.pc = pc]
  <2>1. r \in Session /\ r.pc = pc
    BY <1>s, PurgingTyped DEF Session
  <2> QED
    BY <1>0, <1>h, <2>1, SessionTyped, PurgingTyped
<1>p. {"purgeInputs", "purgeTxs", "purgeReqs", "purgeOutputs", "purgeOrphans",
       "forgetSpent", "spentOutputs", "spentTxs"} \subseteq Purging
  BY DEF Purging
<1>1. CASE purge
  <2> DEFINE r == [Idle EXCEPT !.pc = FirstPurge]
  <2>1. r \in Session /\ r.pc = FirstPurge
    BY IdleTyped, PhasesTyped, PurgingTyped DEF Session
  <2>2. Sessions'
    BY <1>0, <1>1, <2>1, SessionTyped, PhasesTyped, PurgingTyped DEF purge
  <2> QED
    BY <1>0, <1>1, <2>2, AcquireTyped
    DEF purge, Typed, TypeOK, tables, network, Sessions
<1>2. CASE purgeCompleted \/ deleteFailedReqs
  <2>1. Sessions'
    BY <1>0, <1>2, <1>g, PhasesTyped DEF purgeCompleted, deleteFailedReqs
  <2>2. req' \in [Txs -> ReqRow]
    BY <1>2, DeletesTyped DEF purgeCompleted, deleteFailedReqs
  <2> QED
    BY <1>2, <2>1, <2>2
    DEF purgeCompleted, deleteFailedReqs, Typed, TypeOK, outputs, network, Sessions
<1>3. CASE selectFailed \/ selectSpent
  <2>1. FailedTxs \subseteq Outs /\ SpentTxs \subseteq Outs
    BY <1>0 DEF FailedTxs, SpentTxs, Outputs, Outs
  <2>2. PICK old \in SUBSET Outs, pc \in Purging :
          s' = [s EXCEPT ![Monitor].held = old, ![Monitor].pc = pc]
    BY <1>0, <1>3, <1>p, <2>1 DEF selectFailed, selectSpent
  <2>3. Sessions'
    BY <1>h, <2>2
  <2> QED
    BY <1>3, <2>3
    DEF selectFailed, selectSpent, Typed, TypeOK, tables, network, Sessions
<1>4. CASE deleteFailedOutputs \/ deleteSpentOutputs
  <2>1. Sessions'
    BY <1>0, <1>4, <1>g, <1>p DEF deleteFailedOutputs, deleteSpentOutputs
  <2>2. Outputs'
    BY <1>4, DeletesTyped DEF deleteFailedOutputs, deleteSpentOutputs
  <2> QED
    BY <1>4, <2>1, <2>2
    DEF deleteFailedOutputs, deleteSpentOutputs, Typed, TypeOK, Outputs, network,
        Sessions
<1>5. CASE markNotSpentBy
  <2>1. Sessions'
    BY <1>0, <1>5, <1>g, <1>p DEF markNotSpentBy
  <2>2. Outputs'
    BY <1>5, ReleaseInputsTyped DEF markNotSpentBy, MarkNotSpentBy, Typed
  <2> QED
    BY <1>5, <2>1, <2>2 DEF markNotSpentBy, Typed, TypeOK, Outputs, network, Sessions
<1>6. CASE deleteFailedTxs \/ deleteSpentTxs
  <2>1. Sessions'
    BY <1>0, <1>6, <1>g, <1>p DEF deleteFailedTxs, deleteSpentTxs
  <2>2. tx' \in [Txs -> TxRow]
    BY <1>6, DeletesTyped DEF deleteFailedTxs, deleteSpentTxs
  <2> QED
    BY <1>6, <2>1, <2>2
    DEF deleteFailedTxs, deleteSpentTxs, Typed, TypeOK, outputs, network, Sessions
<1>7. CASE selectSpentThrows
  BY <1>0, <1>7, ReturnTyped
  DEF selectSpentThrows, Typed, TypeOK, tables, network, Sessions
<1>8. CASE forgetSpentBy
  <2>1. Sessions'
    BY <1>0, <1>8, <1>g, <1>p DEF forgetSpentBy
  <2>2. spentBy' \in [Outs -> Txs \cup {NoTx}]
    BY <1>0, <1>8 DEF forgetSpentBy, Outputs
  <2> QED
    BY <1>8, <2>1, <2>2 DEF forgetSpentBy, Typed, TypeOK, network, Sessions
<1>9. CASE deleteOrphans
  <2>1. proven' \subseteq Txs
    BY <1>9 DEF deleteOrphans, Typed, TypeOK
  <2> QED
    BY <1>0, <1>9, <2>1, ReturnTyped
    DEF deleteOrphans, Typed, TypeOK, outputs, network, Sessions
<1> QED
  BY <1>1, <1>2, <1>3, <1>4, <1>5, <1>6, <1>7, <1>8, <1>9 DEF PurgeStep

----------------------------------------------------------------------------
(* Types hold in every reachable state, for all constants. *)
LEMMA NextTyped ==
  ASSUME Typed, [Next]_vars
  PROVE  Typed'
<1>1. CASE \E p \in Callers : CallerStep(p)
  BY <1>1, CreateTyped, ProcessTyped, InternalizeTyped, ListSpecOpsTyped DEF CallerStep
<1>2. CASE MonitorStep \/ PurgeStep
  BY <1>2, SendWaitingTyped, GetProofsTyped, FailAbandonedTyped, UnFailTyped,
     ReviewStatusTyped, PurgeTyped DEF MonitorStep
<1>3. CASE PostStep(Monitor)
  BY <1>3, PostTyped DEF Procs
<1>4. CASE \E p \in Procs : Throws(p)
  <2> PICK p \in Procs : Throws(p)
    BY <1>4
  <2>1. Sessions' /\ lock' \in Procs \cup {Nobody}
    BY ReturnTyped DEF Throws, Typed, TypeOK, Sessions
  <2> QED
    BY <2>1 DEF Throws, Typed, TypeOK, tables, network, Sessions
<1>5. CASE \E t \in Txs : Arrive(t) \/ Mine(t)
  BY <1>5 DEF Arrive, Mine, Typed, TypeOK, tables, HasTx, HasVerdict
<1>6. CASE UNCHANGED vars
  BY <1>6 DEF vars, Typed, TypeOK, HasTx, HasVerdict
<1> QED
  BY <1>1, <1>2, <1>3, <1>4, <1>5, <1>6 DEF Next

(* Every row, and every local variable, keeps its type: no step of a call  *)
(* or a task works on a missing action or an unknown verdict.              *)
THEOREM TypeCorrect == Spec => []TypeOK
<1>1. Init => Typed
  BY InitTyped
<1>2. Typed /\ [Next]_vars => Typed'
  BY NextTyped
<1>3. Typed => TypeOK
  BY DEF Typed
<1> QED
  BY <1>1, <1>2, <1>3, PTL DEF Spec

----------------------------------------------------------------------------
(* Who works alone.  Under the manager's locks a call holds the lock for   *)
(* as long as it lasts, and the purge of the monitor does, too; a process  *)
(* between two calls remembers nothing.                                    *)

CallsLocked ==
  ManagerLocks => \A p \in Callers : s[p].pc # "idle" => lock = p

PurgeLocked ==
  s[Monitor].pc \in Purging => "Purge" \in Tasks /\ (ManagerLocks => lock = Monitor)

IdleForgets == \A p \in Procs : s[p].pc = "idle" => s[p].copy = NoReq

Locked == CallsLocked /\ PurgeLocked /\ IdleForgets

LEMMA InitLocked == Init => Locked
  BY IdleTyped DEF Init, Locked, CallsLocked, PurgeLocked, IdleForgets, Purging, Procs

(* A step of a caller: its call begins, goes on or ends. *)
CallStep(p) ==
  /\ \A q \in Procs \ {p} : s'[q] = s[q]
  /\ \/ s[p].pc # "idle" /\ s'[p].pc # "idle" /\ UNCHANGED lock
     \/ Acquire(p) /\ s'[p].pc # "idle"
     \/ Return(p)
     \/ UNCHANGED <<s, lock>>

LEMMA CallStepLocked ==
  ASSUME Typed, Locked, NEW p \in Callers, CallStep(p)
  PROVE  Locked'
<1> p \in Procs /\ p # Monitor /\ Monitor \in Procs /\ p # Nobody /\ Nobody # Monitor
  BY NamesAssumption DEF Procs
<1>1. s'[Monitor] = s[Monitor]
  BY DEF CallStep
<1>2. Return(p) => s'[p] = Idle
  BY DEF Return, Typed, TypeOK
<1>3. CallsLocked'
  <2> SUFFICES ASSUME ManagerLocks, NEW q \in Callers, s'[q].pc # "idle"
               PROVE  lock' = q
    BY DEF CallsLocked
  <2>n. q # Nobody
    BY NamesAssumption DEF Procs
  <2>1. q # p => lock = q
    BY DEF Locked, CallsLocked, CallStep, Procs
  <2>2. s[p].pc # "idle" => lock = p
    BY DEF Locked, CallsLocked
  <2>3. Return(p) => q # p
    BY <1>2, IdleTyped
  <2> QED
    BY <2>n, <2>1, <2>2, <2>3 DEF CallStep, Acquire, Free, Return, Release
<1>4. PurgeLocked'
  BY <1>1 DEF Locked, PurgeLocked, CallStep, Acquire, Free, Return, Release
<1>5. IdleForgets'
  BY <1>2, IdleTyped DEF Locked, IdleForgets, CallStep
<1> QED
  BY <1>3, <1>4, <1>5 DEF Locked

(* A step of the monitor outside of the purge. *)
TaskStep ==
  /\ \A q \in Callers : s'[q] = s[q]
  /\ lock \in Callers => UNCHANGED lock
  /\ s'[Monitor].pc \notin Purging
  /\ s'[Monitor].pc = "idle" => s'[Monitor].copy = NoReq

LEMMA TaskStepLocked ==
  ASSUME Typed, Locked, TaskStep
  PROVE  Locked'
<1>1. CallsLocked'
  BY DEF Typed, TypeOK, Locked, CallsLocked, TaskStep
<1>2. PurgeLocked' /\ IdleForgets'
  BY DEF Locked, PurgeLocked, IdleForgets, TaskStep, Procs
<1> QED
  BY <1>1, <1>2 DEF Locked

LEMMA CreateLocked ==
  ASSUME Typed, NEW p \in Callers, CreateActionStep(p)
  PROVE  CallStep(p)
<1> p \in Procs /\ s[p] \in Session
  BY DEF Procs, Typed, TypeOK
<1> USE DEF CallStep, Typed, TypeOK, Session, At
<1>1. CASE \E t \in Txs : createNewTxRecord(p, t)
  BY <1>1, IdleTyped DEF createNewTxRecord
<1>2. CASE allocateNoSendChange(p) \/ allocateChangeInput(p) \/ createNewInput(p)
  BY <1>2 DEF allocateNoSendChange, allocateChangeInput, createNewInput
<1>3. CASE startRelease(p) \/ releaseChangeInput(p)
  <2>1. PICK again, held, nsc :
          \/ s' = [s EXCEPT ![p].pc = "release", ![p].again = again]
          \/ s' = [s EXCEPT ![p].held = held, ![p].nsc = nsc]
          \/ s' = [s EXCEPT ![p].held = held]
    BY <1>3 DEF startRelease, releaseChangeInput
  <2>2. s[p].pc # "idle" /\ UNCHANGED lock
    BY <1>3 DEF startRelease, releaseChangeInput
  <2> QED
    BY <2>1, <2>2
<1>4. CASE released(p) \/ funded(p) \/ createNewOutputs(p) \/ mergeAllocatedChangeBeefs(p)
  BY <1>4 DEF released, funded, createNewOutputs, mergeAllocatedChangeBeefs, Goto,
     Return
<1>5. CASE createNewInputThrows(p) \/ createActionReturns(p)
  BY <1>5 DEF createNewInputThrows, createActionReturns, Return
<1> QED
  BY <1>1, <1>2, <1>3, <1>4, <1>5 DEF CreateActionStep

(* Posting goes on without a look at the locks, in a call or in the task.  *)
PostingStep(p) ==
  /\ \A q \in Procs \ {p} : s'[q] = s[q]
  /\ \/ s[p].pc # "idle" /\ UNCHANGED lock /\ s'[p].pc \notin {"idle"} \cup Purging
     \/ Return(p)

LEMMA PostLocked ==
  ASSUME Typed, NEW p \in Procs, PostStep(p)
  PROVE  PostingStep(p)
<1> s[p] \in Session
  BY DEF Typed, TypeOK
<1> USE DEF PostingStep, Typed, TypeOK, Session, At, Purging
<1>1. CASE mergeBeef(p) \/ transferNotes(p)
  BY <1>1 DEF mergeBeef, transferNotes, Goto
<1>2. CASE mergeBeefThrows(p) \/ updateTxFromResult(p)
  BY <1>2 DEF mergeBeefThrows, updateTxFromResult, Return
<1>3. CASE postBeef(p)
  <2>1. PICK v : s' = [s EXCEPT ![p].pc = "transferNotes", ![p].verdict = v]
    BY <1>3 DEF postBeef
  <2> QED
    BY <1>3, <2>1 DEF postBeef
<1>4. CASE refreshReq(p)
  BY <1>4 DEF refreshReq, Return
<1>5. CASE updateReqFromResult(p)
  <2>1. PICK v : s' = [s EXCEPT ![p].verdict = v, ![p].pc = "updateTx"]
    BY <1>5 DEF updateReqFromResult
  <2> QED
    BY <1>5, <2>1 DEF updateReqFromResult
<1> QED
  BY <1>1, <1>2, <1>3, <1>4, <1>5 DEF PostStep

LEMMA ProcessLocked ==
  ASSUME Typed, NEW p \in Callers, ProcessActionStep(p)
  PROVE  CallStep(p)
<1> p \in Procs /\ s[p] \in Session
  BY DEF Procs, Typed, TypeOK
<1> USE DEF CallStep, Typed, TypeOK, Session, At
<1>1. CASE \E t \in Txs : validateCommitNewTx(p, t) \/ sendWith(p, t)
  <2>1. PICK pc \in {"commit", "share"} : \E t, mode :
          s' = [s EXCEPT ![p] = [Idle EXCEPT !.pc = pc, !.t = t, !.mode = mode]]
    BY <1>1 DEF validateCommitNewTx, sendWith
  <2> QED
    BY <1>1, <2>1, IdleTyped DEF validateCommitNewTx, sendWith
<1>2. CASE \E t \in Txs : abortAction(p, t)
  BY <1>2 DEF abortAction
<1>3. CASE commitNewTxToStorage(p) \/ bumpToUnsent(p)
  BY <1>3 DEF commitNewTxToStorage, bumpToUnsent, Goto, Return
<1>4. CASE getReqsAndBeef(p)
  <2>1. \/ Return(p)
        \/ \E pc \in {"bump", "mergeBeef"} :
             s' = [s EXCEPT ![p].copy = req[s[p].t], ![p].pc = pc] /\ UNCHANGED lock
    BY <1>4 DEF getReqsAndBeef
  <2> QED
    BY <1>4, <2>1 DEF getReqsAndBeef, Return
<1>5. CASE PostStep(p)
  BY <1>5, PostLocked DEF PostingStep
<1> QED
  BY <1>1, <1>2, <1>3, <1>4, <1>5 DEF ProcessActionStep

LEMMA InternalizeLocked ==
  ASSUME Typed, NEW p \in Callers, InternalizeActionStep(p)
  PROVE  CallStep(p)
<1> p \in Procs /\ s[p] \in Session
  BY DEF Procs, Typed, TypeOK
<1> USE DEF CallStep, Typed, TypeOK, Session, At
<1>1. CASE \E t \in Txs : internalizeAction(p, t)
  <2>1. PICK t, pc : /\ s' = [s EXCEPT ![p] = [Idle EXCEPT !.t = t, !.pc = pc]]
                     /\ pc \in InternalizePcs
    BY <1>1 DEF internalizeAction, InternalizePcs
  <2> QED
    BY <1>1, <2>1, IdleTyped DEF internalizeAction, InternalizePcs
<1>2. CASE findOrInsertProvenTx(p) \/ insertCompleted(p) \/ insertUnproven(p)
           \/ getProvenOrReq(p)
  BY <1>2 DEF findOrInsertProvenTx, insertCompleted, insertUnproven, InsertTx,
     getProvenOrReq, Goto, Return
<1>3. CASE storeOutput(p) \/ mergeOutput(p)
  BY <1>3 DEF storeOutput, mergeOutput, Return
<1> QED
  BY <1>1, <1>2, <1>3 DEF InternalizeActionStep

LEMMA ListSpecOpsLocked ==
  ASSUME Typed, NEW p \in Callers, ListSpecOpsStep(p)
  PROVE  CallStep(p)
<1> p \in Procs /\ s[p] \in Session
  BY DEF Procs, Typed, TypeOK
<1> USE DEF CallStep, Typed, TypeOK, Session, At
<1>1. CASE listNoSends(p) \/ listFailed(p) \/ listChange(p)
  <2>1. /\ Acquire(p)
        /\ \E pc \in Listing : \E rows :
             s' = [s EXCEPT ![p] = [Idle EXCEPT !.pc = pc, !.held = rows]]
    BY <1>1 DEF listNoSends, listFailed, listChange, Listed, Listing
  <2> QED
    BY <2>1, IdleTyped DEF Listing
<1>2. CASE abortListed(p)
  <2>1. \/ Return(p)
        \/ \E t \in Txs : s' = [s EXCEPT ![p].held = @ \ {t}] /\ UNCHANGED lock
    BY <1>2 DEF abortListed, Rest
  <2> QED
    BY <1>2, <2>1 DEF abortListed, Return
<1>3. CASE unfailListed(p) \/ releaseListed(p)
  <2>1. PICK o : s' = [s EXCEPT ![p].held = @ \ {o}]
    BY <1>3 DEF unfailListed, releaseListed, Rest
  <2> QED
    BY <1>3, <2>1 DEF unfailListed, releaseListed
<1>4. CASE listed(p)
  BY <1>4 DEF listed, Return
<1>5. CASE filterOutputs(p)
  <2>1. PICK invalid :
          s' = [s EXCEPT ![p].pc = "releaseListed", ![p].held = invalid]
    BY <1>5 DEF filterOutputs
  <2> QED
    BY <1>5, <2>1 DEF filterOutputs
<1> QED
  BY <1>1, <1>2, <1>3, <1>4, <1>5 DEF ListSpecOpsStep

LEMMA CallerLocked ==
  ASSUME Typed, Locked, NEW p \in Callers, CallerStep(p)
  PROVE  Locked'
  BY CreateLocked, ProcessLocked, InternalizeLocked, ListSpecOpsLocked, CallStepLocked
  DEF CallerStep

(* What the monitor does with the lock: it takes it when it is free, and   *)
(* gives back what it has.                                                 *)
LEMMA MonitorLocked ==
  ASSUME Typed, Locked, MonitorStep
  PROVE  Locked'
<1> Monitor \in Procs /\ M = Monitor /\ s[Monitor] \in Session
    /\ Monitor \notin Callers /\ Nobody \notin Callers
  BY NamesAssumption DEF Procs, M, Typed, TypeOK
<1>i. Idle.pc = "idle" /\ Idle.copy = NoReq /\ "idle" \notin Purging
  BY IdleTyped DEF Purging
<1>r. ASSUME Return(Monitor) PROVE TaskStep
  BY <1>i, <1>r DEF TaskStep, Return, Release, Typed, TypeOK, Procs
<1>g. ASSUME NEW pc, Goto(Monitor, pc), pc \notin {"idle"} \cup Purging,
             lock \in Callers => UNCHANGED lock
      PROVE  TaskStep
  BY <1>g DEF TaskStep, Goto, Typed, TypeOK, Session, Procs
<1>d. ASSUME NEW task, NEW t, NEW pc, NEW counts, Read(task, t, pc, counts),
             pc \notin {"idle"} \cup Purging
      PROVE  TaskStep
  BY <1>d, IdleTyped DEF TaskStep, Read, Typed, TypeOK, Session, Procs
<1>p. /\ {"sendWaiting", "mergeBeef", "getProofs", "saveCopy", "refreshCopy",
           "newProvenTx", "insertProvenTx", "notifyTx", "saveNotified", "finishProof",
           "failAbandoned", "getPath", "unfailTx", "unfailReq", "review1", "review2",
           "review3"} \cap ({"idle"} \cup Purging) = {}
  BY DEF Purging
<1> SUFFICES TaskStep \/ UNCHANGED <<s, lock>>
  BY TaskStepLocked DEF Locked, CallsLocked, PurgeLocked, IdleForgets
<1>1. CASE SendWaitingStep
  BY <1>1, <1>d, <1>g, <1>p DEF SendWaitingStep, sendWaiting, processUnsent, Acquire,
     Free
<1>2. CASE GetProofsStep
  <2>1. CASE \E t \in Txs, counts \in BOOLEAN :
               checkForProofs(t, counts) \/ checkNoSends(t, counts)
    BY <2>1, <1>d, <1>p DEF checkForProofs, checkNoSends
  <2>2. CASE settleCopy \/ proofTooNew \/ finishProof
    BY <2>2, <1>r DEF settleCopy, proofTooNew, finishProof
  <2>3. CASE saveCopy \/ notifyTx \/ saveNotified
    BY <2>3, <1>g, <1>p DEF saveCopy, notifyTx, saveNotified, Release
  <2>4. CASE getMerklePath
    <3>1. /\ \A q \in Callers : s'[q] = s[q]
          /\ s'[Monitor].pc \in {"saveCopy", "finishProof"}
      <4> DEFINE c == IF s[Monitor].counts THEN Counted(s[Monitor].copy)
                                           ELSE s[Monitor].copy
      <4>1. PICK pc \in {"saveCopy", "finishProof"} : \E status :
              \/ s' = [s EXCEPT ![Monitor].pc = pc, ![Monitor].copy = c,
                                ![Monitor].kept = c.attempts]
              \/ s' = [s EXCEPT ![Monitor].pc = pc, ![Monitor].kept = c.attempts,
                                ![Monitor].copy = [c EXCEPT !.status = status]]
        BY <2>4 DEF getMerklePath
      <4> HIDE DEF c
      <4> QED
        BY <4>1 DEF Typed, TypeOK, Session, Procs
    <3> QED
      BY <2>4, <3>1, <1>p DEF getMerklePath, TaskStep
  <2>5. CASE refreshCopy \/ newProvenTx \/ insertProvenTx
    <3>1. /\ \A q \in Callers : s'[q] = s[q]
          /\ s'[Monitor].pc \in {"newProvenTx", "insertProvenTx", "notifyTx",
                                 "finishProof"}
      BY <2>5 DEF refreshCopy, newProvenTx, insertProvenTx, Typed, TypeOK, Session, Procs
    <3>2. lock \in Callers => UNCHANGED lock
      BY <2>5 DEF refreshCopy, newProvenTx, insertProvenTx, Acquire, Free, Release
    <3> QED
      BY <3>1, <3>2, <1>p DEF TaskStep
  <2> QED
    BY <1>2, <2>1, <2>2, <2>3, <2>4, <2>5 DEF GetProofsStep
<1>3. CASE FailAbandonedStep
  <2>1. CASE \E t \in Txs : failAbandoned(t)
    BY <2>1, <1>p, IdleTyped
    DEF failAbandoned, TaskStep, Acquire, Free, Typed, TypeOK, Session, Procs
  <2>2. CASE failAbandonedTx
    BY <2>2, <1>r DEF failAbandonedTx
  <2> QED
    BY <1>3, <2>1, <2>2 DEF FailAbandonedStep
<1>4. CASE UnFailStep
  <2>1. CASE \E t \in Txs : assignUnfail(t)
    BY <2>1 DEF assignUnfail
  <2>2. CASE \E t \in Txs : unfail(t)
    BY <2>2, <1>d, <1>p DEF unfail
  <2>3. CASE getUnfailPath
    <3>1. /\ \A q \in Callers : s'[q] = s[q]
          /\ s'[Monitor].pc \in {"unfailTx", "unfailReq"}
      <4>1. \/ s' = [s EXCEPT ![Monitor].pc = "unfailTx",
                              ![Monitor].copy.status = "unmined",
                              ![Monitor].copy.attempts = 0]
            \/ s' = [s EXCEPT ![Monitor].pc = "unfailReq",
                              ![Monitor].copy.status = "invalid"]
        BY <2>3, Zenon DEF getUnfailPath, M
      <4> QED
        BY <4>1 DEF Typed, TypeOK, Session, Procs
    <3> QED
      BY <2>3, <3>1, <1>p DEF getUnfailPath, TaskStep
  <2>4. CASE unfailTx
    BY <2>4, <1>g, <1>p DEF unfailTx
  <2>5. CASE unfailReq
    BY <2>5, <1>r DEF unfailReq
  <2> QED
    BY <1>4, <2>1, <2>2, <2>3, <2>4, <2>5 DEF UnFailStep
<1>5. CASE ReviewStatusStep
  <2>1. CASE reviewStatus
    BY <2>1, <1>p, IdleTyped
    DEF reviewStatus, TaskStep, Acquire, Free, Typed, TypeOK, Session, Procs
  <2>2. CASE failWhereReqInvalid \/ releaseWhereTxFailed
    BY <2>2, <1>g, <1>p DEF failWhereReqInvalid, releaseWhereTxFailed
  <2>3. CASE completeWhereProven
    BY <2>3, <1>r DEF completeWhereProven
  <2> QED
    BY <1>5, <2>1, <2>2, <2>3 DEF ReviewStatusStep
<1> QED
  BY <1>1, <1>2, <1>3, <1>4, <1>5 DEF MonitorStep

(* The purge keeps the lock from its first to its last step. *)
LEMMA PurgeStepLocked ==
  ASSUME Typed, Locked, PurgeStep
  PROVE  Locked'
<1> Monitor \in Procs /\ M = Monitor /\ s[Monitor] \in Session
    /\ Monitor \notin Callers /\ Nobody \notin Callers
  BY NamesAssumption DEF Procs, M, Typed, TypeOK
<1>i. Idle.pc = "idle" /\ Idle.copy = NoReq /\ "idle" \notin Purging
  BY IdleTyped DEF Purging
<1>r. ASSUME Return(Monitor) PROVE TaskStep
  BY <1>i, <1>r DEF TaskStep, Return, Release, Typed, TypeOK, Procs
<1>p. ASSUME NEW pc \in Purging, \A q \in Callers : s'[q] = s[q],
             s'[Monitor].pc = pc, s[Monitor].pc \in Purging, UNCHANGED lock
      PROVE  Locked'
  BY <1>i, <1>p DEF Locked, CallsLocked, PurgeLocked, IdleForgets, Procs
<1>1. CASE purge
  <2>1. /\ \A q \in Callers : s'[q] = s[q]
        /\ s'[Monitor].pc \in Purging
    BY <1>1, IdleTyped, PhasesTyped DEF purge, Typed, TypeOK, Session, Procs
  <2>2. "Purge" \in Tasks /\ lock = Nobody /\ (ManagerLocks => lock' = Monitor)
    BY <1>1 DEF purge, Acquire, Free
  <2> QED
    BY <1>i, <2>1, <2>2 DEF Locked, CallsLocked, PurgeLocked, IdleForgets, Procs
<1>2. CASE selectSpentThrows \/ deleteOrphans
  BY <1>2, <1>r, TaskStepLocked DEF selectSpentThrows, deleteOrphans
<1>3. CASE selectFailed \/ selectSpent
  <2>1. /\ \A q \in Callers : s'[q] = s[q]
        /\ s'[Monitor].pc \in {"purgeReqs", "purgeOutputs", "purgeOrphans", "forgetSpent"}
        /\ s[Monitor].pc \in {"purgeFailed", "purgeSpent"} /\ UNCHANGED lock
    <3>1. PICK old : \/ s' = [s EXCEPT ![Monitor].held = old,
                                ![Monitor].pc = IF old = {} THEN "purgeReqs"
                                                            ELSE "purgeOutputs"]
                     \/ s' = [s EXCEPT ![Monitor].held = old,
                                ![Monitor].pc = IF old = {} THEN "purgeOrphans"
                                                            ELSE "forgetSpent"]
      BY <1>3 DEF selectFailed, selectSpent
    <3> QED
      BY <1>3, <3>1 DEF selectFailed, selectSpent, At, Typed, TypeOK, Session, Procs
  <2> QED
    BY <1>p, <2>1 DEF Purging
<1>4. CASE ~(purge \/ selectSpentThrows \/ deleteOrphans \/ selectFailed \/ selectSpent)
  <2>1. PICK pc \in {AfterCompleted, AfterFailed, "purgeInputs", "purgeTxs", "purgeReqs",
                     "spentOutputs", "spentTxs", "purgeOrphans"} :
          Goto(Monitor, pc) /\ UNCHANGED lock
    BY <1>4 DEF PurgeStep, purgeCompleted, deleteFailedOutputs, markNotSpentBy,
       deleteFailedTxs, deleteFailedReqs, forgetSpentBy, deleteSpentOutputs,
       deleteSpentTxs
  <2>2. s[Monitor].pc \in {"purgeCompleted", "purgeOutputs", "purgeInputs", "purgeTxs",
                           "purgeReqs", "forgetSpent", "spentOutputs", "spentTxs"}
    BY <1>4 DEF PurgeStep, purgeCompleted, deleteFailedOutputs, markNotSpentBy,
       deleteFailedTxs, deleteFailedReqs, forgetSpentBy, deleteSpentOutputs,
       deleteSpentTxs, At
  <2>3. pc \in Purging /\ s[Monitor].pc \in Purging
    BY <2>1, <2>2, PhasesTyped DEF Purging
  <2>4. s'[Monitor].pc = pc /\ \A q \in Callers : s'[q] = s[q]
    BY <2>1 DEF Goto, Typed, TypeOK, Session, Procs
  <2> QED
    BY <1>p, <2>1, <2>3, <2>4
<1> QED
  BY <1>1, <1>2, <1>3, <1>4

LEMMA NextLocked ==
  ASSUME Typed, Locked, [Next]_vars
  PROVE  Locked'
<1> Monitor \notin Callers /\ Nobody \notin Callers /\ Monitor \in Procs
  BY NamesAssumption DEF Procs
<1>r. ASSUME NEW p \in Procs, Return(p)
      PROVE  Locked'
  <2>1. CASE p \in Callers
    BY <1>r, <2>1, CallStepLocked DEF CallStep, Return, Typed, TypeOK
  <2>2. CASE p = Monitor
    BY <1>r, <2>2, TaskStepLocked, IdleTyped
    DEF TaskStep, Return, Release, Purging, Typed, TypeOK, Procs
  <2> QED
    BY <2>1, <2>2 DEF Procs
<1>1. CASE \E p \in Callers : CallerStep(p)
  BY <1>1, CallerLocked
<1>2. CASE MonitorStep \/ PurgeStep
  BY <1>2, MonitorLocked, PurgeStepLocked
<1>3. CASE PostStep(Monitor)
  <2>1. CASE Return(Monitor)
    BY <1>r, <2>1
  <2>2. CASE ~Return(Monitor)
    BY <1>3, <2>2, PostLocked, TaskStepLocked DEF PostingStep, TaskStep, Procs
  <2> QED
    BY <2>1, <2>2
<1>4. CASE \E p \in Procs : Throws(p)
  BY <1>4, <1>r DEF Throws
<1>5. CASE (\E t \in Txs : Arrive(t) \/ Mine(t)) \/ UNCHANGED vars
  BY <1>5 DEF Arrive, Mine, vars, Locked, CallsLocked, PurgeLocked, IdleForgets
<1> QED
  BY <1>1, <1>2, <1>3, <1>4, <1>5 DEF Next

PurgesAlone ==
  s[Monitor].pc \in Purging => \A p \in Callers : s[p].pc = "idle"

(* One WalletStorageManager serves the calls and the purge. *)
OneManager == "Purge" \in Tasks => ManagerLocks

----------------------------------------------------------------------------
(* Completion is proven.                                                   *)

ReqHasProof ==
  \A t \in Txs : req[t].status = "completed" \/ req[t].proof => t \in proven

TxHasProof ==
  \A t \in Txs : tx[t].status = "completed" \/ tx[t].proof => t \in proven

(* A copy of a req is written back late, so it must not claim more than    *)
(* proven_txs holds, nor may the notification that is still to come.       *)
CopyHasProof ==
  \A p \in Procs :
    (s[p].copy.status = "completed" \/ s[p].copy.proof) => s[p].t \in proven

NotifiesProven == s[Monitor].pc = "notifyTx" => s[Monitor].t \in proven

(* Nor may a transaction that is about to be inserted as completed.        *)
CompletesProven ==
  \A p \in Callers : s[p].pc = "insertCompleted" => s[p].t \in proven

LocalHasProof == CopyHasProof /\ NotifiesProven /\ CompletesProven

ProofInv == ReqHasProof /\ TxHasProof /\ LocalHasProof

LEMMA InitProof == Init => ProofInv
<1>1. Idle.copy = NoReq /\ Idle.pc = "idle"
      /\ NoReq.status = "none" /\ ~NoReq.proof
  BY DEF Idle, NoReq
<1> QED
  BY <1>1 DEF Init, ProofInv, ReqHasProof, TxHasProof, LocalHasProof, CopyHasProof,
     NotifiesProven, CompletesProven, Procs

(* proven_txs only grows, so a step that changes nothing else keeps it all. *)
LEMMA GotoProof ==
  ASSUME Typed, LocalHasProof, NEW p \in Procs, NEW pc, Goto(p, pc),
         pc \notin {"notifyTx", "insertCompleted"}, proven \subseteq proven'
  PROVE  LocalHasProof'
  BY DEF Typed, TypeOK, Session, LocalHasProof, CopyHasProof, NotifiesProven, CompletesProven, Goto

(* A step that keeps the copy of the process taking it, or drops it. *)
CopyKept(p) ==
  /\ \A q \in Procs \ {p} : s'[q] = s[q]
  /\ (s'[p].copy = s[p].copy /\ s'[p].t = s[p].t) \/ s'[p].copy = NoReq
  /\ s'[p].pc \notin {"notifyTx", "insertCompleted"}

LEMMA CopyKeptProof ==
  ASSUME Typed, LocalHasProof, NEW p \in Procs, CopyKept(p), proven \subseteq proven'
  PROVE  LocalHasProof'
  BY DEF Typed, TypeOK, LocalHasProof, CopyHasProof, NotifiesProven, CompletesProven,
     CopyKept, NoReq,
     Procs

LEMMA ReturnProof ==
  ASSUME Typed, LocalHasProof, NEW p \in Procs, Return(p), proven \subseteq proven'
  PROVE  LocalHasProof'
  BY IdleTyped DEF Typed, TypeOK, LocalHasProof, CopyHasProof, NotifiesProven, CompletesProven,
     Return, NoReq, Idle

LEMMA WriteReqProof ==
  ASSUME Typed, ReqHasProof, NEW t \in Txs, NEW c \in ReqRow, WriteReq(t, c),
         c.status = "completed" \/ c.proof => t \in proven',
         proven \subseteq proven'
  PROVE  ReqHasProof'
  BY DEF Typed, TypeOK, ReqRow, ReqHasProof, WriteReq

LEMMA UpdateTransactionProof ==
  ASSUME Typed, TxHasProof, NEW t \in Txs, NEW status, status # "completed",
         updateTransactionStatus(t, status), UNCHANGED proven
  PROVE  TxHasProof'
  BY DEF Typed, TypeOK, TxRow, TxHasProof, updateTransactionStatus

LEMMA CreateProof ==
  ASSUME Typed, ProofInv, NEW p \in Callers, CreateActionStep(p)
  PROVE  ProofInv'
<1> p \in Procs /\ s[p] \in Session
  BY DEF Procs, Typed, TypeOK
<1>0. ReqHasProof /\ TxHasProof /\ LocalHasProof
  BY DEF ProofInv
<1>1. UNCHANGED <<req, proven>>
  BY DEF CreateActionStep, createNewTxRecord, allocateNoSendChange,
     allocateChangeInput, startRelease, releaseChangeInput, released, funded,
     createNewOutputs, mergeAllocatedChangeBeefs, createNewInput,
     createNewInputThrows, createActionReturns, tables
<1>2. TxHasProof'
  <2>1. CASE UNCHANGED tx
    BY <1>0, <1>1, <2>1 DEF TxHasProof
  <2>2. CASE \E t \in Txs : tx' = [tx EXCEPT ![t].status = "unsigned"]
    BY <1>0, <1>1, <2>2 DEF TxHasProof, Typed, TypeOK, TxRow
  <2> QED
    BY <2>1, <2>2 DEF CreateActionStep, createNewTxRecord, allocateNoSendChange,
       allocateChangeInput, startRelease, releaseChangeInput, released, funded,
       createNewOutputs, mergeAllocatedChangeBeefs, createNewInput,
       createNewInputThrows, createActionReturns, tables
<1>3. LocalHasProof'
  <2> USE <1>0 DEF CopyKept, Session
  <2> SUFFICES CopyKept(p)
    BY <1>1, CopyKeptProof
  <2>1. CASE \E t \in Txs : createNewTxRecord(p, t)
    BY <2>1, IdleTyped DEF createNewTxRecord, Typed, TypeOK
  <2>2. CASE allocateNoSendChange(p)
    BY <2>2 DEF allocateNoSendChange, Typed, TypeOK, At
  <2>3. CASE allocateChangeInput(p)
    BY <2>3 DEF allocateChangeInput, Typed, TypeOK, At
  <2>4. CASE startRelease(p) \/ released(p)
    BY <2>4, IdleTyped DEF startRelease, released, Typed, TypeOK, At, Goto, Return
  <2>5. CASE releaseChangeInput(p)
    BY <2>5 DEF releaseChangeInput, Typed, TypeOK, At
  <2>6. CASE funded(p) \/ createNewOutputs(p) \/ mergeAllocatedChangeBeefs(p)
    BY <2>6, IdleTyped DEF funded, createNewOutputs, mergeAllocatedChangeBeefs,
       Typed, TypeOK, At, Goto, Return
  <2>7. CASE createNewInput(p)
    BY <2>7 DEF createNewInput, Typed, TypeOK, At
  <2>8. CASE createNewInputThrows(p) \/ createActionReturns(p)
    BY <2>8, IdleTyped
    DEF createNewInputThrows, createActionReturns, Typed, TypeOK, Return
  <2> QED
    BY <2>1, <2>2, <2>3, <2>4, <2>5, <2>6, <2>7, <2>8 DEF CreateActionStep
<1> QED
  BY <1>0, <1>1, <1>2, <1>3 DEF ReqHasProof, ProofInv
LEMMA PostProof ==
  ASSUME Typed, ProofInv, NEW p \in Procs, PostStep(p)
  PROVE  ProofInv'
<1>0. ReqHasProof /\ TxHasProof /\ LocalHasProof
  BY DEF ProofInv
<1>s. s[p] \in Session /\ s[p].copy \in ReqRow
  BY DEF Typed, TypeOK, Session
<1>1. UNCHANGED proven
  BY DEF PostStep, mergeBeef, mergeBeefThrows, postBeef, transferNotes, refreshReq,
     updateReqFromResult, updateTxFromResult, tables
<1>2. CASE mergeBeef(p) \/ postBeef(p)
  <2>1. CopyKept(p)
    <3>1. CASE mergeBeef(p)
      BY <1>s, <3>1 DEF mergeBeef, CopyKept, Typed, TypeOK, Goto, Session
    <3>2. CASE postBeef(p)
      <4>1. PICK verdict : s' = [s EXCEPT ![p].pc = "transferNotes", ![p].verdict = verdict]
        BY <3>2 DEF postBeef
      <4> QED
        BY <1>s, <4>1 DEF CopyKept, Typed, TypeOK, Session
    <3> QED
      BY <1>2, <3>1, <3>2
  <2> QED
    BY <1>0, <1>1, <1>2, <2>1, CopyKeptProof
    DEF mergeBeef, postBeef, tables, ProofInv, ReqHasProof, TxHasProof
<1>3. CASE mergeBeefThrows(p)
  <2> DEFINE attempts == s[p].copy.attempts + 1
             status == IF attempts > PostLimit THEN "invalid"
                                               ELSE s[p].copy.status
             c == [s[p].copy EXCEPT !.attempts = attempts, !.status = status]
  <2>1. s[p].t \in Txs
    BY <1>3 DEF mergeBeefThrows, Typed, HasTx, At, Untied, Purging, Listing
  <2>2. attempts \in Nat /\ status \in ProvenTxReqStatus
        /\ (status = "completed" => s[p].copy.status = "completed")
    BY <1>s DEF ReqRow, ProvenTxReqStatus
  <2>3. c \in ReqRow /\ c.status = status /\ c.proof = s[p].copy.proof
    BY <1>s, <2>2 DEF ReqRow
  <2>4. c.status = "completed" \/ c.proof => s[p].t \in proven
    BY <1>0, <2>2, <2>3 DEF LocalHasProof, CopyHasProof
  <2>5. ReqHasProof'
    BY <1>0, <1>1, <1>3, <2>1, <2>3, <2>4, WriteReqProof DEF mergeBeefThrows
  <2> QED
    BY <1>0, <1>1, <1>3, <2>5, ReturnProof
    DEF mergeBeefThrows, ProofInv, TxHasProof
<1>4. CASE transferNotes(p)
  <2>1. s[p].t \in Txs
    BY <1>4 DEF transferNotes, Typed, HasTx, At, Untied, Purging, Listing
  <2>2. s[p].copy.status = "completed" \/ s[p].copy.proof => s[p].t \in proven
    BY <1>0 DEF LocalHasProof, CopyHasProof
  <2>3. ReqHasProof'
    BY <1>0, <1>1, <1>s, <1>4, <2>1, <2>2, WriteReqProof DEF transferNotes
  <2>4. LocalHasProof'
    BY <1>0, <1>1, <1>4, GotoProof DEF transferNotes
  <2> QED
    BY <1>0, <1>1, <1>4, <2>3, <2>4 DEF transferNotes, ProofInv, TxHasProof
<1>5. CASE refreshReq(p)
  <2>1. s[p].t \in Txs
    BY <1>5 DEF refreshReq, Typed, HasTx, At, Untied, Purging, Listing
  <2>2. LocalHasProof'
    <3>1. CASE Return(p)
      BY <1>0, <1>1, <3>1, ReturnProof
    <3>2. CASE s' = [s EXCEPT ![p].copy = req[s[p].t], ![p].pc = "updateReq"]
      <4>1. s'[p].copy = req[s[p].t] /\ s'[p].t = s[p].t /\ s'[p].pc = "updateReq"
            /\ \A q \in Procs \ {p} : s'[q] = s[q]
        BY <1>s, <3>2 DEF Typed, TypeOK, Session
      <4> QED
        BY <1>0, <1>1, <2>1, <4>1
        DEF LocalHasProof, CopyHasProof, NotifiesProven, CompletesProven, ReqHasProof, Procs
    <3> QED
      BY <1>5, <3>1, <3>2 DEF refreshReq
  <2> QED
    BY <1>0, <1>1, <1>5, <2>2 DEF refreshReq, tables, ProofInv, ReqHasProof, TxHasProof
<1>6. CASE updateReqFromResult(p)
  <2>1. s[p].t \in Txs /\ s[p].pc = "updateReq"
    BY <1>6 DEF updateReqFromResult, Typed, HasTx, At, Untied, Purging, Listing
  <2>v. s[p].verdict \in Verdicts \ {"none"}
    BY <1>s, <2>1 DEF Typed, HasVerdict, Posted, Session
  <2>0. PICK v \in confirmed(p) :
          /\ LET c == s[p].copy IN
               WriteReq(s[p].t,
                 [c EXCEPT !.status = NewStatus(v).req,
                           !.attempts = IF v = "serviceError" THEN @ + 1 ELSE @])
          /\ s' = [s EXCEPT ![p].verdict = v, ![p].pc = "updateTx"]
    BY <1>6 DEF updateReqFromResult
  <2> DEFINE attempts == IF v = "serviceError" THEN s[p].copy.attempts + 1
                                               ELSE s[p].copy.attempts
             c == [s[p].copy EXCEPT !.status = NewStatus(v).req,
                                    !.attempts = attempts]
  <2>2. v \in Verdicts \ {"none"}
    BY <2>v, <2>0, ConfirmedTyped
  <2>3. attempts \in Nat
    BY <1>s DEF ReqRow
  <2>4. c \in ReqRow /\ c.status # "completed" /\ c.proof = s[p].copy.proof
    BY <1>s, <2>2, <2>3, NewStatusTyped DEF ReqRow
  <2>5. c.proof => s[p].t \in proven
    BY <1>0, <2>4 DEF LocalHasProof, CopyHasProof
  <2>6. ReqHasProof'
    BY <1>0, <1>1, <2>0, <2>1, <2>4, <2>5, WriteReqProof
  <2>7. CopyKept(p)
    BY <1>s, <1>6 DEF updateReqFromResult, CopyKept, Typed, TypeOK, Session
  <2> QED
    BY <1>0, <1>1, <1>6, <2>6, <2>7, CopyKeptProof
    DEF updateReqFromResult, ProofInv, TxHasProof
<1>7. CASE updateTxFromResult(p)
  <2>1. s[p].t \in Txs /\ s[p].verdict \in Verdicts \ {"none"}
    BY <1>s, <1>7
    DEF updateTxFromResult, Typed, HasTx, HasVerdict, At, Untied, Purging, Listing, Posted, Session
  <2>2. NewStatus(s[p].verdict).tx # "completed"
    BY <2>1, NewStatusTyped
  <2>3. TxHasProof'
    BY <1>0, <1>1, <1>7, <2>1, <2>2, UpdateTransactionProof
    DEF updateTxFromResult, TxHasProof
  <2> QED
    BY <1>0, <1>1, <1>7, <2>3, ReturnProof
    DEF updateTxFromResult, ProofInv, ReqHasProof
<1> QED
  BY <1>2, <1>3, <1>4, <1>5, <1>6, <1>7 DEF PostStep
LEMMA ProcessProof ==
  ASSUME Typed, ProofInv, NEW p \in Callers, ProcessActionStep(p)
  PROVE  ProofInv'
<1> p \in Procs
  BY DEF Procs
<1>0. ReqHasProof /\ TxHasProof /\ LocalHasProof
  BY DEF ProofInv
<1>s. s[p] \in Session
  BY DEF Typed, TypeOK
<1>1. CASE \E t \in Txs : validateCommitNewTx(p, t) \/ sendWith(p, t)
  <2> PICK t \in Txs : validateCommitNewTx(p, t) \/ sendWith(p, t)
    BY <1>1
  <2>1. PICK pc \in {"commit", "share"}, mode \in Modes :
          s' = [s EXCEPT ![p] = [Idle EXCEPT !.pc = pc, !.t = t, !.mode = mode]]
    BY DEF validateCommitNewTx, sendWith, Typed, TypeOK, Modes
  <2>2. [Idle EXCEPT !.pc = pc, !.t = t, !.mode = mode].copy = NoReq
        /\ [Idle EXCEPT !.pc = pc, !.t = t, !.mode = mode].pc = pc
    BY IdleTyped DEF Session
  <2>3. CopyKept(p)
    BY <2>1, <2>2 DEF CopyKept, Typed, TypeOK
  <2> QED
    BY <1>0, <2>3, CopyKeptProof
    DEF validateCommitNewTx, sendWith, tables, ProofInv, ReqHasProof, TxHasProof
<1>2. CASE \E t \in Txs : abortAction(p, t)
  <2> PICK t \in Txs : abortAction(p, t)
    BY <1>2
  <2>1. TxHasProof'
    BY <1>0, UpdateTransactionProof DEF abortAction, abortTx
  <2>2. ReqHasProof'
    BY <1>0 DEF abortAction, abortTx, ReqHasProof, Typed, TypeOK, ReqRow
  <2> QED
    BY <1>0, <2>1, <2>2
    DEF abortAction, ProofInv, LocalHasProof, CopyHasProof, NotifiesProven, CompletesProven
<1>3. CASE commitNewTxToStorage(p)
  <2> DEFINE t == s[p].t
  <2>1. t \in Txs /\ s[p].mode \in Modes
    BY <1>s, <1>3 DEF commitNewTxToStorage, Typed, HasTx, At, Untied, Purging, Listing, Session
  <2>2. CreateStatus(s[p].mode).req # "completed"
        /\ CreateStatus(s[p].mode).tx # "completed"
    BY <2>1, CreateStatusTyped
  <2>3. ReqHasProof' /\ TxHasProof'
    BY <1>0, <1>3, <2>1, <2>2
    DEF commitNewTxToStorage, UpdateTx, ReqHasProof, TxHasProof, Typed, TypeOK,
        ReqRow, TxRow
  <2>4. LocalHasProof'
    BY <1>0, <1>3, GotoProof, ReturnProof DEF commitNewTxToStorage
  <2> QED
    BY <2>3, <2>4 DEF ProofInv
<1>4. CASE getReqsAndBeef(p)
  <2>1. s[p].t \in Txs /\ UNCHANGED <<tx, req, proven>>
    BY <1>4 DEF getReqsAndBeef, Typed, HasTx, At, Untied, Purging, Listing, tables
  <2>2. LocalHasProof'
    <3>1. CASE Return(p)
      BY <1>0, <2>1, <3>1, ReturnProof
    <3>2. CASE ~Return(p)
      <4>1. PICK pc \in {"bump", "mergeBeef"} :
              s' = [s EXCEPT ![p].copy = req[s[p].t], ![p].pc = pc]
        BY <1>4, <3>2 DEF getReqsAndBeef
      <4>2. s'[p].copy = req[s[p].t] /\ s'[p].t = s[p].t
            /\ s'[p].pc \notin {"notifyTx", "insertCompleted"}
            /\ \A q \in Procs \ {p} : s'[q] = s[q]
        BY <1>s, <4>1 DEF Typed, TypeOK, Session
      <4> QED
        BY <1>0, <2>1, <4>2
        DEF LocalHasProof, CopyHasProof, NotifiesProven, CompletesProven, ReqHasProof, Procs
    <3> QED
      BY <3>1, <3>2
  <2> QED
    BY <1>0, <2>1, <2>2 DEF ProofInv, ReqHasProof, TxHasProof
<1>5. CASE bumpToUnsent(p)
  <2>1. s[p].t \in Txs
    BY <1>5 DEF bumpToUnsent, Typed, HasTx, At, Untied, Purging, Listing
  <2>2. ReqHasProof' /\ TxHasProof'
    BY <1>0, <1>5, <2>1
    DEF bumpToUnsent, UpdateTx, ReqHasProof, TxHasProof, Typed, TypeOK, ReqRow, TxRow
  <2> QED
    BY <1>0, <1>5, <2>2, ReturnProof DEF bumpToUnsent, ProofInv
<1>6. CASE PostStep(p)
  BY <1>6, PostProof
<1> QED
  BY <1>1, <1>2, <1>3, <1>4, <1>5, <1>6 DEF ProcessActionStep

LEMMA ReadProof ==
  ASSUME Typed, ProofInv, NEW task, NEW t \in Txs, NEW pc \in Pcs \ {"notifyTx", "insertCompleted"},
         NEW counts \in BOOLEAN, Read(task, t, pc, counts)
  PROVE  ProofInv'
<1> DEFINE r == [Idle EXCEPT !.pc = pc, !.t = t, !.copy = req[t], !.counts = counts]
<1>1. r.copy = req[t] /\ r.pc = pc /\ r.t = t
  BY IdleTyped DEF Session
<1>2. s'[Monitor] = r /\ \A q \in Procs \ {Monitor} : s'[q] = s[q]
  BY DEF Read, M, Typed, TypeOK, Procs
<1>3. UNCHANGED <<tx, req, proven>>
  BY DEF Read, tables
<1> QED
  BY <1>1, <1>2, <1>3, NamesAssumption
  DEF ProofInv, LocalHasProof, CopyHasProof, NotifiesProven, CompletesProven, ReqHasProof,
      TxHasProof, Procs

LEMMA GetProofsProof ==
  ASSUME Typed, ProofInv, GetProofsStep
  PROVE  ProofInv'
<1>0. ReqHasProof /\ TxHasProof /\ LocalHasProof
  BY DEF ProofInv
<1> Monitor \in Procs /\ Monitor \notin Callers /\ M = Monitor
  BY NamesAssumption DEF Procs, M
<1> DEFINE me == s[Monitor]
<1>s. me \in Session /\ me.copy \in ReqRow /\ me.kept \in Nat
  BY DEF Typed, TypeOK, Session
<1>c. me.copy.status = "completed" \/ me.copy.proof => me.t \in proven
  BY <1>0 DEF LocalHasProof, CopyHasProof
<1>1. CASE \E t \in Txs, counts \in BOOLEAN :
             checkForProofs(t, counts) \/ checkNoSends(t, counts)
  <2>1. "getProofs" \in Pcs \ {"notifyTx", "insertCompleted"}
    BY DEF Pcs
  <2> QED
    BY <1>1, <2>1, ReadProof DEF checkForProofs, checkNoSends
<1>2. CASE settleCopy
  <2>1. me.t \in Txs
    BY <1>2 DEF settleCopy, Typed, HasTx, At, Untied, Purging, Listing
  <2>2. PICK status \in {"completed", "invalid"} :
          /\ WriteReq(me.t, [me.copy EXCEPT !.status = status])
          /\ status = "completed" => me.copy.proof
    BY <1>2 DEF settleCopy
  <2> DEFINE c == [me.copy EXCEPT !.status = status]
  <2>3. c \in ReqRow /\ c.status = status /\ c.proof = me.copy.proof
    BY <1>s DEF ReqRow, ProvenTxReqStatus
  <2>4. ReqHasProof'
    BY <1>0, <1>2, <1>c, <2>1, <2>2, <2>3, WriteReqProof DEF settleCopy
  <2> QED
    BY <1>0, <1>2, <2>4, ReturnProof DEF settleCopy, ProofInv, TxHasProof
<1>3. CASE getMerklePath
  <2>1. PICK c \in ReqRow :
          /\ s'[Monitor].copy = c /\ s'[Monitor].t = me.t
          /\ s'[Monitor].pc # "notifyTx"
          /\ c.proof = me.copy.proof
          /\ c.status \in {me.copy.status, "invalid"}
          /\ \A q \in Procs \ {Monitor} : s'[q] = s[q]
    <3> DEFINE d == IF me.counts THEN Counted(me.copy) ELSE me.copy
    <3>1. d \in ReqRow /\ d.proof = me.copy.proof /\ d.status = me.copy.status
      BY <1>s DEF Counted, ReqRow
    <3>2. PICK pc \in {"saveCopy", "finishProof"}, status \in {d.status, "invalid"} :
            \/ s' = [s EXCEPT ![Monitor].pc = pc, ![Monitor].copy = d,
                             ![Monitor].kept = d.attempts]
            \/ s' = [s EXCEPT ![Monitor].pc = pc, ![Monitor].kept = d.attempts,
                             ![Monitor].copy = [d EXCEPT !.status = status]]
      BY <1>3 DEF getMerklePath
    <3>3. [d EXCEPT !.status = status] \in ReqRow
          /\ [d EXCEPT !.status = status].status = status
          /\ [d EXCEPT !.status = status].proof = me.copy.proof
      BY <3>1 DEF ReqRow, ProvenTxReqStatus
    <3>4. /\ s'[Monitor].copy \in {d, [d EXCEPT !.status = status]}
          /\ s'[Monitor].t = me.t /\ s'[Monitor].pc = pc
          /\ \A q \in Procs \ {Monitor} : s'[q] = s[q]
      BY <1>s, <3>2 DEF Typed, TypeOK, Session
    <3> HIDE DEF d
    <3> QED
      BY <3>1, <3>3, <3>4
  <2> QED
    BY <1>0, <1>3, <1>c, <2>1
    DEF getMerklePath, tables, ProofInv, ReqHasProof, TxHasProof, LocalHasProof,
        CopyHasProof, NotifiesProven, CompletesProven, Procs
<1>4. CASE proofTooNew
  BY <1>0, <1>4, ReturnProof DEF proofTooNew, tables, ProofInv, ReqHasProof, TxHasProof
<1>5. CASE saveCopy
  <2>1. me.t \in Txs
    BY <1>5 DEF saveCopy, Typed, HasTx, At, Untied, Purging, Listing
  <2>2. ReqHasProof'
    BY <1>0, <1>5, <1>s, <1>c, <2>1, WriteReqProof DEF saveCopy
  <2> QED
    BY <1>0, <1>5, <2>2, GotoProof DEF saveCopy, ProofInv, TxHasProof
<1>6. CASE refreshCopy \/ newProvenTx
  <2>1. me.t \in Txs /\ UNCHANGED <<tx, req, proven>>
    BY <1>6 DEF refreshCopy, newProvenTx, Typed, HasTx, At, Untied, Purging, Listing, tables
  <2>2. /\ s'[Monitor].copy = req[me.t] /\ s'[Monitor].t = me.t
        /\ s'[Monitor].pc # "notifyTx"
        /\ \A q \in Procs \ {Monitor} : s'[q] = s[q]
    BY <1>s, <1>6 DEF refreshCopy, newProvenTx, Typed, TypeOK, Session
  <2> QED
    BY <1>0, <2>1, <2>2 DEF ProofInv, ReqHasProof, TxHasProof, LocalHasProof,
       CopyHasProof, NotifiesProven, CompletesProven, Procs
<1>7. CASE insertProvenTx
  <2> DEFINE done == [me.copy EXCEPT !.status = "completed", !.proof = TRUE]
  <2>1. me.t \in Txs /\ UNCHANGED tx
    BY <1>7 DEF insertProvenTx, Typed, HasTx, At, Untied, Purging, Listing
  <2>2. me.t \in proven' /\ proven \subseteq proven'
    BY <1>7 DEF insertProvenTx
  <2>3. ReqHasProof'
    <3>1. CASE UNCHANGED <<req, proven>>
      BY <1>0, <3>1 DEF ReqHasProof
    <3>2. CASE WriteReq(me.t, done)
      <4>1. done \in ReqRow
        BY <1>s DEF ReqRow, ProvenTxReqStatus
      <4> QED
        BY <1>0, <2>1, <2>2, <3>2, <4>1, WriteReqProof
    <3> QED
      BY <1>7, <3>1, <3>2 DEF insertProvenTx
  <2>4. s'[Monitor].t = me.t /\ \A q \in Procs \ {Monitor} : s'[q] = s[q]
    BY <1>s, <1>7 DEF insertProvenTx, Typed, TypeOK, Session
  <2> QED
    BY <1>0, <2>1, <2>2, <2>3, <2>4
    DEF ProofInv, TxHasProof, LocalHasProof, CopyHasProof, NotifiesProven,
        CompletesProven, Procs
<1>8. CASE notifyTx
  <2>1. me.t \in proven
    BY <1>0, <1>8 DEF LocalHasProof, NotifiesProven, notifyTx, At
  <2>2. TxHasProof'
    BY <1>0, <1>8, <2>1 DEF notifyTx, TxHasProof, Typed, TypeOK
  <2> QED
    BY <1>0, <1>8, <2>2, GotoProof DEF notifyTx, ProofInv, ReqHasProof
<1>9. CASE saveNotified
  <2>1. me.t \in Txs
    BY <1>9 DEF saveNotified, Typed, HasTx, At, Untied, Purging, Listing
  <2>2. ReqHasProof'
    BY <1>0, <1>9, <1>s, <1>c, <2>1, WriteReqProof DEF saveNotified
  <2> QED
    BY <1>0, <1>9, <2>2, GotoProof DEF saveNotified, ProofInv, TxHasProof
<1>10. CASE finishProof
  <2> DEFINE c == [me.copy EXCEPT !.attempts = me.kept]
  <2>1. me.t \in Txs
    BY <1>10 DEF finishProof, Typed, HasTx, At, Untied, Purging, Listing
  <2>2. c \in ReqRow /\ c.status = me.copy.status /\ c.proof = me.copy.proof
    BY <1>s DEF ReqRow
  <2>3. ReqHasProof'
    BY <1>0, <1>10, <1>c, <2>1, <2>2, WriteReqProof DEF finishProof
  <2> QED
    BY <1>0, <1>10, <2>3, ReturnProof DEF finishProof, ProofInv, TxHasProof
<1> QED
  BY <1>1, <1>2, <1>3, <1>4, <1>5, <1>6, <1>7, <1>8, <1>9, <1>10 DEF GetProofsStep
LEMMA OtherTasksProof ==
  ASSUME Typed, ProofInv,
         SendWaitingStep \/ FailAbandonedStep \/ UnFailStep \/ ReviewStatusStep
  PROVE  ProofInv'
<1>0. ReqHasProof /\ TxHasProof /\ LocalHasProof
  BY DEF ProofInv
<1> Monitor \in Procs /\ Monitor \notin Callers /\ M = Monitor
  BY NamesAssumption DEF Procs, M
<1> DEFINE me == s[Monitor]
<1>s. me \in Session /\ me.copy \in ReqRow
  BY DEF Typed, TypeOK, Session
<1>c. me.copy.status = "completed" \/ me.copy.proof => me.t \in proven
  BY <1>0 DEF LocalHasProof, CopyHasProof
<1>1. CASE \E t \in Txs : sendWaiting(t) \/ unfail(t)
  <2>1. {"sendWaiting", "getPath"} \subseteq Pcs \ {"notifyTx", "insertCompleted"}
    BY DEF Pcs
  <2> QED
    BY <1>1, <2>1, ReadProof DEF sendWaiting, unfail
<1>2. CASE processUnsent
  BY <1>0, <1>2, GotoProof DEF processUnsent, tables, ProofInv, ReqHasProof, TxHasProof
<1>3. CASE \E t \in Txs : failAbandoned(t)
  <2> PICK t \in Txs : failAbandoned(t)
    BY <1>3
  <2>1. [Idle EXCEPT !.pc = "failAbandoned", !.t = t].copy = NoReq
        /\ [Idle EXCEPT !.pc = "failAbandoned", !.t = t].pc = "failAbandoned"
    BY IdleTyped DEF Session
  <2>2. CopyKept(Monitor)
    BY <2>1 DEF failAbandoned, CopyKept, Typed, TypeOK
  <2> QED
    BY <1>0, <2>2, CopyKeptProof
    DEF failAbandoned, tables, ProofInv, ReqHasProof, TxHasProof
<1>4. CASE failAbandonedTx
  <2>1. me.t \in Txs
    BY <1>4 DEF failAbandonedTx, Typed, HasTx, At, Untied, Purging, Listing
  <2>2. TxHasProof'
    BY <1>0, <1>4, <2>1, UpdateTransactionProof DEF failAbandonedTx, TxHasProof
  <2> QED
    BY <1>0, <1>4, <2>2, ReturnProof DEF failAbandonedTx, ProofInv, ReqHasProof
<1>5. CASE \E t \in Txs : assignUnfail(t)
  BY <1>0, <1>5 DEF assignUnfail, Typed, TypeOK, ReqRow, ProofInv, ReqHasProof,
     TxHasProof, LocalHasProof, CopyHasProof, NotifiesProven, CompletesProven
<1>6. CASE getUnfailPath
  <2>1. /\ s'[Monitor].copy.status # "completed"
        /\ s'[Monitor].copy.proof = me.copy.proof
        /\ s'[Monitor].t = me.t /\ s'[Monitor].pc # "notifyTx"
        /\ \A q \in Procs \ {Monitor} : s'[q] = s[q]
    <3>1. \/ s' = [s EXCEPT ![Monitor].pc = "unfailTx",
                         ![Monitor].copy.status = "unmined", ![Monitor].copy.attempts = 0]
          \/ s' = [s EXCEPT ![Monitor].pc = "unfailReq", ![Monitor].copy.status = "invalid"]
      BY <1>6, Zenon DEF getUnfailPath, M
    <3> QED
      BY <1>s, <3>1 DEF Typed, TypeOK, Session, ReqRow
  <2> QED
    BY <1>0, <1>6, <1>c, <2>1 DEF getUnfailPath, tables, ProofInv, ReqHasProof,
       TxHasProof, LocalHasProof, CopyHasProof, NotifiesProven, CompletesProven, Procs
<1>7. CASE unfailTx
  <2>1. TxHasProof'
    BY <1>0, <1>7 DEF unfailTx, TxHasProof, Typed, TypeOK, TxRow
  <2> QED
    BY <1>0, <1>7, <2>1, GotoProof
    DEF unfailTx, ProofInv, ReqHasProof
<1>8. CASE unfailReq
  <2>1. me.t \in Txs
    BY <1>8 DEF unfailReq, Typed, HasTx, At, Untied, Purging, Listing
  <2>2. ReqHasProof'
    BY <1>0, <1>8, <1>s, <1>c, <2>1, WriteReqProof DEF unfailReq
  <2> QED
    BY <1>0, <1>8, <2>2, ReturnProof DEF unfailReq, ProofInv, TxHasProof
<1>9. CASE reviewStatus
  <2>1. [Idle EXCEPT !.pc = "review1"].copy = NoReq
        /\ [Idle EXCEPT !.pc = "review1"].pc = "review1"
    BY IdleTyped DEF Session
  <2>2. CopyKept(Monitor)
    BY <1>9, <2>1 DEF reviewStatus, CopyKept, Typed, TypeOK
  <2> QED
    BY <1>0, <1>9, <2>2, CopyKeptProof
    DEF reviewStatus, tables, ProofInv, ReqHasProof, TxHasProof
<1>10. CASE failWhereReqInvalid
  <2>1. TxHasProof'
    BY <1>0, <1>10 DEF failWhereReqInvalid, UpdateTx, TxHasProof, Typed, TypeOK, TxRow
  <2> QED
    BY <1>0, <1>10, <2>1, GotoProof DEF failWhereReqInvalid, ProofInv, ReqHasProof
<1>11. CASE releaseWhereTxFailed
  BY <1>0, <1>11, GotoProof
  DEF releaseWhereTxFailed, ProofInv, ReqHasProof, TxHasProof
<1>12. CASE completeWhereProven
  <2>1. TxHasProof'
    BY <1>0, <1>12 DEF completeWhereProven, MissedProof, TxHasProof, Typed, TypeOK
  <2> QED
    BY <1>0, <1>12, <2>1, ReturnProof DEF completeWhereProven, ProofInv, ReqHasProof
<1> QED
  BY <1>1, <1>2, <1>3, <1>4, <1>5, <1>6, <1>7, <1>8, <1>9, <1>10, <1>11, <1>12
  DEF SendWaitingStep, FailAbandonedStep, UnFailStep, ReviewStatusStep

LEMMA InternalizeProof ==
  ASSUME Typed, ProofInv, NEW p \in Callers, InternalizeActionStep(p)
  PROVE  ProofInv'
<1> p \in Procs /\ s[p] \in Session
  BY DEF Procs, Typed, TypeOK
<1>0. ReqHasProof /\ TxHasProof /\ LocalHasProof
  BY DEF ProofInv
<1>t. s[p].pc \in InternalizePcs => s[p].t \in Txs
  BY InternalizePcsTyped DEF Typed, HasTx
<1>1. CASE \E t \in Txs : internalizeAction(p, t)
  <2>1. UNCHANGED <<tx, req, proven>>
    BY <1>1 DEF internalizeAction, tables
  <2>2. PICK t, pc : /\ s' = [s EXCEPT ![p] = [Idle EXCEPT !.t = t, !.pc = pc]]
                     /\ pc \in InternalizePcs /\ pc # "insertCompleted"
    BY <1>1 DEF internalizeAction, InternalizePcs
  <2>3. CopyKept(p)
    BY <2>2, IdleTyped DEF CopyKept, Typed, TypeOK, Session, InternalizePcs
  <2> QED
    BY <1>0, <2>1, <2>3, CopyKeptProof DEF ProofInv, ReqHasProof, TxHasProof
<1>2. CASE findOrInsertProvenTx(p)
  <2>1. s[p].t \in Txs /\ UNCHANGED <<tx, req>> /\ proven' = proven \cup {s[p].t}
    BY <1>2, <1>t DEF findOrInsertProvenTx, At, InternalizePcs
  <2>2. /\ \A q \in Procs \ {p} : s'[q] = s[q]
        /\ s'[p].copy = s[p].copy /\ s'[p].t = s[p].t /\ s'[p].pc = "insertCompleted"
    BY <1>2 DEF findOrInsertProvenTx, Goto, Typed, TypeOK, Session
  <2>3. Monitor # p
    BY NamesAssumption
  <2> QED
    BY <1>0, <2>1, <2>2, <2>3
    DEF ProofInv, ReqHasProof, TxHasProof, LocalHasProof, CopyHasProof, NotifiesProven,
        CompletesProven, Procs
<1>3. CASE insertCompleted(p)
  <2>1. s[p].t \in proven
    BY <1>0, <1>3 DEF insertCompleted, At, LocalHasProof, CompletesProven
  <2>2. TxHasProof'
    BY <1>0, <1>3, <2>1 DEF insertCompleted, InsertTx, TxHasProof, Typed, TypeOK
  <2> QED
    BY <1>0, <1>3, <2>2, GotoProof, ReturnProof
    DEF insertCompleted, InsertTx, ProofInv, ReqHasProof
<1>4. CASE insertUnproven(p)
  <2>1. TxHasProof'
    BY <1>0, <1>4 DEF insertUnproven, InsertTx, TxHasProof, Typed, TypeOK
  <2> QED
    BY <1>0, <1>4, <2>1, GotoProof, ReturnProof
    DEF insertUnproven, InsertTx, ProofInv, ReqHasProof
<1>5. CASE getProvenOrReq(p)
  <2>1. NewReq(s[p].t).status # "completed" /\ ~NewReq(s[p].t).proof
    BY DEF NewReq, NoReq
  <2>2. ReqHasProof'
    BY <1>0, <1>5, <2>1 DEF getProvenOrReq, ReqHasProof, Typed, TypeOK
  <2> QED
    BY <1>0, <1>5, <2>2, GotoProof DEF getProvenOrReq, ProofInv, TxHasProof
<1>6. CASE storeOutput(p) \/ mergeOutput(p)
  BY <1>0, <1>6, ReturnProof
  DEF storeOutput, mergeOutput, tables, ProofInv, ReqHasProof,
      TxHasProof
<1> QED
  BY <1>1, <1>2, <1>3, <1>4, <1>5, <1>6 DEF InternalizeActionStep

LEMMA ListSpecOpsProof ==
  ASSUME Typed, ProofInv, NEW p \in Callers, ListSpecOpsStep(p)
  PROVE  ProofInv'
<1> p \in Procs /\ s[p] \in Session
  BY DEF Procs, Typed, TypeOK
<1>0. ReqHasProof /\ TxHasProof /\ LocalHasProof
  BY DEF ProofInv
<1>r. ASSUME NEW x, Rest(p, x), s[p].pc \in Listing, UNCHANGED proven
      PROVE  LocalHasProof'
  <2>1. /\ \A q \in Procs \ {p} : s'[q] = s[q]
        /\ s'[p].copy = s[p].copy /\ s'[p].t = s[p].t /\ s'[p].pc = s[p].pc
    BY <1>r DEF Rest, Typed, TypeOK, Session
  <2>2. CopyKept(p)
    BY <1>r, <2>1 DEF CopyKept, Listing
  <2> QED
    BY <1>0, <1>r, <2>2, CopyKeptProof
<1>1. CASE listNoSends(p) \/ listFailed(p) \/ listChange(p)
  <2>1. PICK pc, rows :
          /\ s' = [s EXCEPT ![p] = [Idle EXCEPT !.pc = pc, !.held = rows]]
          /\ pc \in Listing /\ UNCHANGED <<tx, req, proven>>
    BY <1>1 DEF listNoSends, listFailed, listChange, Listed, Listing, tables
  <2>2. CopyKept(p)
    BY <2>1, IdleTyped DEF CopyKept, Typed, TypeOK, Session, Listing
  <2> QED
    BY <1>0, <2>1, <2>2, CopyKeptProof DEF ProofInv, ReqHasProof, TxHasProof
<1>2. CASE abortListed(p)
  <2>1. CASE Return(p) /\ UNCHANGED <<tx, req, outputs>>
    BY <1>0, <1>2, <2>1, ReturnProof DEF abortListed, ProofInv, ReqHasProof, TxHasProof
  <2>2. CASE \E t \in s[p].held \cap Txs : abortTx(t) /\ Rest(p, t)
    <3> PICK t \in s[p].held \cap Txs : abortTx(t) /\ Rest(p, t)
      BY <2>2
    <3>1. UNCHANGED proven /\ s[p].pc \in Listing
      BY <1>2 DEF abortListed, At, Listing
    <3>2. TxHasProof'
      BY <1>0, <3>1, UpdateTransactionProof DEF abortTx
    <3>3. ReqHasProof'
      BY <1>0, <3>1 DEF abortTx, ReqHasProof, Typed, TypeOK, ReqRow
    <3> QED
      BY <1>r, <3>1, <3>2, <3>3 DEF ProofInv
  <2> QED
    BY <1>2, <2>1, <2>2 DEF abortListed
<1>3. CASE unfailListed(p)
  <2> PICK t \in s[p].held :
        /\ tx' = [tx EXCEPT ![t] = UpdateTx(t, [@ EXCEPT !.status = "unfail"])]
        /\ Rest(p, t)
    BY <1>3 DEF unfailListed
  <2>1. TxHasProof'
    BY <1>0, <1>3 DEF unfailListed, UpdateTx, TxHasProof, Typed, TypeOK, TxRow
  <2> QED
    BY <1>0, <1>3, <1>r, <2>1 DEF unfailListed, At, Listing, ProofInv, ReqHasProof
<1>4. CASE releaseListed(p)
  <2> PICK o \in s[p].held : Rest(p, o)
    BY <1>4 DEF releaseListed
  <2> QED
    BY <1>0, <1>4, <1>r
    DEF releaseListed, At, Listing, ProofInv, ReqHasProof, TxHasProof
<1>5. CASE listed(p)
  BY <1>0, <1>5, ReturnProof DEF listed, tables, ProofInv, ReqHasProof, TxHasProof
<1>6. CASE filterOutputs(p)
  <2>1. PICK invalid :
          /\ s' = [s EXCEPT ![p].pc = "releaseListed", ![p].held = invalid]
          /\ UNCHANGED <<tx, req, proven>>
    BY <1>6 DEF filterOutputs, tables
  <2>2. /\ \A q \in Procs \ {p} : s'[q] = s[q]
        /\ s'[p].copy = s[p].copy /\ s'[p].t = s[p].t
        /\ s'[p].pc = "releaseListed"
    BY <2>1 DEF Typed, TypeOK, Session
  <2>3. CopyKept(p)
    BY <2>2 DEF CopyKept
  <2> QED
    BY <1>0, <2>1, <2>3, CopyKeptProof DEF ProofInv, ReqHasProof, TxHasProof
<1> QED
  BY <1>1, <1>2, <1>3, <1>4, <1>5, <1>6 DEF ListSpecOpsStep

(* deleteOrphans is the only step after which less is proven: no row and,  *)
(* as the purge is alone, no local variable refers to what it deletes.     *)
LEMMA PurgeProof ==
  ASSUME Typed, Locked, OneManager, ProofInv, PurgeStep
  PROVE  ProofInv'
<1>0. ReqHasProof /\ TxHasProof /\ LocalHasProof
  BY DEF ProofInv
<1> Monitor \in Procs /\ M = Monitor /\ s[Monitor] \in Session /\ Monitor \notin Callers
  BY NamesAssumption DEF Procs, M, Typed, TypeOK
<1>k. ASSUME UNCHANGED proven, \A q \in Callers : s'[q] = s[q],
             \/ s'[Monitor].copy = s[Monitor].copy /\ s'[Monitor].t = s[Monitor].t
             \/ s'[Monitor].copy = NoReq,
             s'[Monitor].pc # "notifyTx"
      PROVE  LocalHasProof'
  BY <1>0, <1>k DEF LocalHasProof, CopyHasProof, NotifiesProven, CompletesProven, NoReq,
     Procs
<1>g. ASSUME UNCHANGED proven, NEW pc, pc # "notifyTx",
             Goto(Monitor, pc) \/ \E old : s' = [s EXCEPT ![Monitor].held = old,
                                                        ![Monitor].pc = pc]
      PROVE  LocalHasProof'
  <2>1. /\ \A q \in Callers : s'[q] = s[q]
        /\ s'[Monitor].copy = s[Monitor].copy /\ s'[Monitor].t = s[Monitor].t
        /\ s'[Monitor].pc = pc
    <3>1. PICK old : s' = [s EXCEPT ![Monitor].pc = pc]
                     \/ s' = [s EXCEPT ![Monitor].held = old, ![Monitor].pc = pc]
      BY <1>g DEF Goto
    <3> QED
      BY <3>1 DEF Typed, TypeOK, Session, Procs
  <2> QED
    BY <1>g, <1>k, <2>1
<1>p. AfterCompleted # "notifyTx" /\ AfterFailed # "notifyTx" /\ FirstPurge # "notifyTx"
  BY DEF AfterCompleted, AfterFailed, FirstPurge
<1>1. CASE purge
  <2>1. \A q \in Callers : s'[q] = s[q]
    BY <1>1 DEF purge, Typed, TypeOK, Procs
  <2>2. s'[Monitor].copy = NoReq /\ s'[Monitor].pc = FirstPurge
    BY <1>1, IdleTyped DEF purge, Typed, TypeOK, Session
  <2> QED
    BY <1>0, <1>1, <1>k, <1>p, <2>1, <2>2
    DEF purge, tables, ProofInv, ReqHasProof, TxHasProof
<1>2. CASE purgeCompleted \/ deleteFailedReqs
  <2>1. PICK old : DeleteReqs(old)
    BY <1>2 DEF purgeCompleted, deleteFailedReqs
  <2>2. ReqHasProof'
    BY <1>0, <1>2, <2>1
    DEF purgeCompleted, deleteFailedReqs, DeleteReqs, NoReq, ReqHasProof
  <2> QED
    BY <1>0, <1>2, <1>g, <1>p, <2>2
    DEF purgeCompleted, deleteFailedReqs, ProofInv, TxHasProof
<1>3. CASE deleteFailedTxs \/ deleteSpentTxs
  <2>1. TxHasProof'
    BY <1>0, <1>3 DEF deleteFailedTxs, deleteSpentTxs, DeleteTxs, TxHasProof
  <2> QED
    BY <1>0, <1>3, <1>g, <2>1 DEF deleteFailedTxs, deleteSpentTxs, ProofInv, ReqHasProof
<1>4. CASE deleteFailedOutputs \/ markNotSpentBy \/ forgetSpentBy \/ deleteSpentOutputs
  BY <1>0, <1>4, <1>g
  DEF deleteFailedOutputs, markNotSpentBy, forgetSpentBy, deleteSpentOutputs, ProofInv,
      ReqHasProof, TxHasProof
<1>5. CASE selectFailed \/ selectSpent
  <2>1. PICK old : \/ s' = [s EXCEPT ![Monitor].held = old,
                              ![Monitor].pc = IF old = {} THEN "purgeReqs"
                                                          ELSE "purgeOutputs"]
                   \/ s' = [s EXCEPT ![Monitor].held = old,
                              ![Monitor].pc = IF old = {} THEN "purgeOrphans"
                                                          ELSE "forgetSpent"]
    BY <1>5 DEF selectFailed, selectSpent
  <2>2. LocalHasProof'
    <3>1. UNCHANGED proven
      BY <1>5 DEF selectFailed, selectSpent, tables
    <3>2. CASE old = {}
      <4>1. \/ s' = [s EXCEPT ![Monitor].held = old, ![Monitor].pc = "purgeReqs"]
            \/ s' = [s EXCEPT ![Monitor].held = old, ![Monitor].pc = "purgeOrphans"]
        BY <2>1, <3>2
      <4> QED
        BY <1>g, <3>1, <4>1
    <3>3. CASE old # {}
      BY <1>g, <2>1, <3>1, <3>3
    <3> QED
      BY <3>2, <3>3
  <2> QED
    BY <1>0, <1>5, <2>2
    DEF selectFailed, selectSpent, tables, ProofInv, ReqHasProof, TxHasProof
<1>6. CASE selectSpentThrows
  BY <1>0, <1>6, ReturnProof
  DEF selectSpentThrows, tables, ProofInv, ReqHasProof, TxHasProof
<1>7. CASE deleteOrphans
  <2>1. ReqHasProof' /\ TxHasProof'
    BY <1>0, <1>7 DEF deleteOrphans, Orphans, ReqHasProof, TxHasProof
  <2>2. \A p \in Callers : s'[p].pc = "idle" /\ s'[p].copy = NoReq
    <3>1. s[Monitor].pc \in Purging
      BY <1>7 DEF deleteOrphans, At, Purging
    <3>2. \A p \in Callers : s[p].pc = "idle"
      BY <3>1 DEF Locked, CallsLocked, PurgeLocked, OneManager
    <3>3. \A p \in Callers : s'[p] = s[p]
      BY <1>7 DEF deleteOrphans, Return, Typed, TypeOK, Procs
    <3> QED
      BY <3>2, <3>3 DEF Locked, IdleForgets, Procs
  <2>3. s'[Monitor].pc = "idle" /\ s'[Monitor].copy = NoReq
    BY <1>7, IdleTyped DEF deleteOrphans, Return, Typed, TypeOK
  <2>4. LocalHasProof'
    BY <2>2, <2>3 DEF LocalHasProof, CopyHasProof, NotifiesProven, CompletesProven, NoReq,
       Procs
  <2> QED
    BY <2>1, <2>4 DEF ProofInv
<1> QED
  BY <1>1, <1>2, <1>3, <1>4, <1>5, <1>6, <1>7 DEF PurgeStep

LEMMA NextProof ==
  ASSUME Typed, Locked, OneManager, ProofInv, [Next]_vars
  PROVE  ProofInv'
<1>1. CASE \E p \in Callers : CallerStep(p)
  BY <1>1, CreateProof, ProcessProof, InternalizeProof, ListSpecOpsProof DEF CallerStep
<1>2. CASE MonitorStep \/ PurgeStep
  BY <1>2, GetProofsProof, OtherTasksProof, PurgeProof DEF MonitorStep
<1>3. CASE PostStep(Monitor)
  BY <1>3, PostProof DEF Procs
<1>4. CASE \E p \in Procs : Throws(p)
  BY <1>4, ReturnProof DEF Throws, tables, ProofInv, ReqHasProof, TxHasProof
<1>5. CASE \E t \in Txs : Arrive(t) \/ Mine(t)
  BY <1>5 DEF Arrive, Mine, tables, ProofInv, ReqHasProof, TxHasProof, LocalHasProof,
     CopyHasProof, NotifiesProven, CompletesProven
<1>6. CASE UNCHANGED vars
  BY <1>6 DEF vars, ProofInv, ReqHasProof, TxHasProof, LocalHasProof, CopyHasProof,
     NotifiesProven, CompletesProven
<1> QED
  BY <1>1, <1>2, <1>3, <1>4, <1>5, <1>6 DEF Next

(* No row claims completion without the proof, although the statements     *)
(* that complete a req, notify its transaction, and write an old copy of a *)
(* req back are not atomic, and whether or not locks are held; only the    *)
(* purge, which deletes proofs, must be served by the manager of the calls: *)
(* internalizeAction inserts a proof before the row that refers to it.     *)
THEOREM CompletionProven ==
  ASSUME OneManager
  PROVE  Spec => []CompletedHasProof
<1>1. Init => Typed /\ Locked /\ ProofInv
  BY InitTyped, InitLocked, InitProof
<1>2. Typed /\ Locked /\ ProofInv /\ [Next]_vars => (Typed /\ Locked /\ ProofInv)'
  BY NextTyped, NextLocked, NextProof
<1>3. ProofInv => CompletedHasProof
  BY DEF ProofInv, ReqHasProof, TxHasProof, CompletedHasProof
<1> QED
  BY <1>1, <1>2, <1>3, PTL DEF Spec

(* The purge and the calls of a wallet exclude each other, if one manager  *)
(* serves both.                                                            *)
THEOREM PurgeIsAlone ==
  ASSUME OneManager
  PROVE  Spec => []PurgesAlone
<1>1. Init => Typed /\ Locked
  BY InitTyped, InitLocked
<1>2. Typed /\ Locked /\ [Next]_vars => (Typed /\ Locked)'
  BY NextTyped, NextLocked
<1>3. Locked => PurgesAlone
  BY NamesAssumption DEF Locked, CallsLocked, PurgeLocked, PurgesAlone, OneManager
<1> QED
  BY <1>1, <1>2, <1>3, PTL DEF Spec

----------------------------------------------------------------------------
(* Outputs: who holds them.                                                *)

(* The steps of createAction.                                              *)
Funding == {"fund", "release", "insertOutputs", "mergeChangeBeefs", "lockFixed"}

(* An action of this wallet whose createAction has not returned.           *)
Unplanned(t) == Own(t) /\ ~plan[t].ready

(* Nobody knows of it but the call that creates it, the clean-up of what   *)
(* was abandoned and failedActions.                                        *)
Unknown(t) ==
  /\ tx[t].status \in {"none", "unsigned", "failed", "unfail"}
  /\ req[t].status = "none" /\ t \notin proven
  /\ \A p \in Procs : s[p].t = t => s[p].pc \in Funding \cup {"failAbandoned"}
  /\ \A p \in Procs : s[p].pc = "abortListed" => t \notin s[p].held

PlansFirst == \A t \in Txs : Unplanned(t) => Unknown(t)

(* The rows the purge, and the clean-up of what was abandoned, work on are *)
(* there until they delete them.                                           *)
Deleting == {"purgeOutputs", "purgeInputs", "purgeTxs", "forgetSpent", "spentOutputs",
             "spentTxs"}

(* Steps of tasks that are not installed everywhere.                       *)
Guarded == {"review1", "getPath", "unfailTx"}

Installed(pc) ==
  /\ pc = "review1" => "ReviewStatus" \in Tasks
  /\ pc \in {"getPath", "unfailTx"} => "UnFail" \in Tasks

LEMMA NotGuarded == \A pc : pc \notin Guarded => Installed(pc)
  BY DEF Guarded, Installed

RowsStay ==
  /\ s[Monitor].pc \in Deleting =>
       \A t \in s[Monitor].held \cap Txs : tx[t].status # "none"
  /\ s[Monitor].pc = "failAbandoned" => tx[s[Monitor].t].status # "none"
  /\ \A p \in Callers : s[p].pc # "failAbandoned"
  /\ \A p \in Procs : Installed(s[p].pc)

(* A call of createAction has the row it inserted to itself.               *)
Funder(p) ==
  /\ p \in Callers /\ Unplanned(s[p].t)
  /\ tx[s[p].t].status \notin {"none", "failed"}
  /\ \A q \in Procs \ {p} : s[q].t # s[p].t
  /\ s[Monitor].pc \in Deleting => s[p].t \notin s[Monitor].held

FundersAlone == \A p \in Procs : s[p].pc \in Funding => Funder(p)

PlanInv == PlansFirst /\ RowsStay /\ FundersAlone

LEMMA InitPlan == Init => PlanInv
<1> SUFFICES ASSUME Init PROVE PlanInv
  OBVIOUS
<1>1. \A p \in Procs : s[p] = Idle
  BY DEF Init
<1>2. Idle.pc = "idle" /\ Idle.t \notin Txs /\ Monitor \in Procs
  BY NamesAssumption, IdleTyped DEF Outs, Procs
<1>3. PlansFirst
  BY <1>1, <1>2 DEF PlansFirst, Unknown, Init, NoReq
<1>4. RowsStay /\ FundersAlone
  BY <1>1, <1>2, NotGuarded DEF RowsStay, FundersAlone, Deleting, Funding, Guarded, Procs
<1> QED
  BY <1>3, <1>4 DEF PlanInv

(* What the step of a process does to its locals: it ends, goes on with the *)
(* action or the rows it works on, or begins with an action others know.   *)
Turn(p) ==
  /\ \A q \in Procs \ {p} : s'[q] = s[q]
  /\ \/ s'[p] = Idle
     \/ s'[p] = s[p]
     \/ /\ s'[p].t = s[p].t
        /\ s'[p].pc \in Funding <=> s[p].pc \in Funding
        /\ s[p].pc # "failAbandoned" /\ s'[p].pc # "failAbandoned"
        /\ Installed(s'[p].pc)
        /\ s'[p].pc \in Deleting => s[p].pc \in Deleting /\ s'[p].held = s[p].held
        /\ s'[p].pc = "abortListed" =>
             s[p].pc = "abortListed" /\ s'[p].held \subseteq s[p].held
     \/ /\ s'[p].pc \notin Funding \cup Deleting \cup {"failAbandoned", "abortListed"}
        /\ s'[p].t \in Txs => ~Unplanned(s'[p].t)
        /\ Installed(s'[p].pc)

(* And to the rows: nothing but failing, reviving and deleting happens to  *)
(* those of an unplanned action, and not to one that is being funded.      *)
Rows(p) ==
  \A t \in Txs :
    /\ Unplanned(t)' =>
         /\ Unplanned(t)
         /\ req'[t].status = req[t].status /\ (t \in proven' => t \in proven)
         /\ tx'[t].status \in {tx[t].status, "none", "failed", "unfail"}
    /\ Unplanned(t) /\ ~Unplanned(t)' =>
         s[p].pc \in Funding /\ s[p].t = t /\ s'[p] = Idle
    /\ tx'[t].status \in {"none", "failed"} =>
         \/ tx'[t].status = tx[t].status
         \/ \A q \in Procs : s[q].pc \in Funding => s[q].t # t
    /\ tx'[t].status = "none" =>
         tx[t].status = "none" \/ s'[Monitor].pc \notin Deleting \cup {"failAbandoned"}

LEMMA TurnPlan ==
  ASSUME Typed, Typed', PlanInv, NEW p \in Procs, Turn(p), Rows(p)
  PROVE  PlanInv'
<1> DEFINE kept == {"none", "unsigned", "failed", "unfail"}
<1> Monitor \in Procs
  BY DEF Procs
<1>i. Idle.pc = "idle" /\ Idle.t \notin Txs /\ "idle" \notin Funding \cup Deleting
  BY NamesAssumption, IdleTyped DEF Outs, Funding, Deleting
<1>t. \A q \in Procs : /\ s[q].pc \in Funding => s[q].t \in Txs
                       /\ s[q].pc = "failAbandoned" => s[q].t \in Txs
  BY DEF Typed, HasTx, Untied, Purging, Listing, Funding
<1>1. PlansFirst'
  <2> SUFFICES ASSUME NEW t \in Txs, Unplanned(t)' PROVE Unknown(t)'
    BY DEF PlansFirst
  <2>1. Unplanned(t) /\ Unknown(t)
    BY DEF Rows, PlanInv, PlansFirst
  <2>2. tx'[t].status \in kept /\ req'[t].status = "none" /\ t \notin proven'
    BY <2>1 DEF Rows, Unknown
  <2>3. ASSUME NEW q \in Procs, s'[q].t = t
        PROVE  s'[q].pc \in Funding \cup {"failAbandoned"}
    BY <1>i, <2>1, <2>3 DEF Turn, Unknown
  <2>4. ASSUME NEW q \in Procs, s'[q].pc = "abortListed"
        PROVE  t \notin s'[q].held
    BY <1>i, <2>1, <2>4 DEF Turn, Unknown
  <2> QED
    BY <2>2, <2>3, <2>4 DEF Unknown
<1>2. RowsStay'
  <2>1. s'[Monitor].pc \in Deleting =>
          s[Monitor].pc \in Deleting /\ s'[Monitor].held = s[Monitor].held
    BY <1>i DEF Turn
  <2>2. s'[Monitor].pc = "failAbandoned" =>
          s[Monitor].pc = "failAbandoned" /\ s'[Monitor].t = s[Monitor].t
    BY <1>i DEF Turn
  <2>3. \A q \in Callers : s'[q].pc # "failAbandoned"
    BY <1>i DEF Turn, RowsStay, PlanInv, Procs
  <2>4. \A q \in Procs : Installed(s'[q].pc)
    BY <1>i, NotGuarded DEF Turn, RowsStay, PlanInv, Guarded
  <2> QED
    BY <1>t, <2>1, <2>2, <2>3, <2>4 DEF RowsStay, PlanInv, Rows
<1>3. FundersAlone'
  <2> SUFFICES ASSUME NEW q \in Procs, s'[q].pc \in Funding PROVE Funder(q)'
    BY DEF FundersAlone
  <2>1. s[q].pc \in Funding /\ s'[q].t = s[q].t /\ s'[q] # Idle
    BY <1>i DEF Turn
  <2>2. Funder(q) /\ s[q].t \in Txs
    BY <1>t, <2>1 DEF PlanInv, FundersAlone
  <2>3. Unplanned(s[q].t)'
    BY <2>1, <2>2 DEF Funder, Rows
  <2>4. tx'[s[q].t].status \notin {"none", "failed"}
    BY <2>1, <2>2 DEF Funder, Rows
  <2>5. \A o \in Procs \ {q} : s'[o].t # s[q].t
    BY <1>i, <2>2 DEF Funder, Turn
  <2>6. s'[Monitor].pc \in Deleting => s[q].t \notin s'[Monitor].held
    BY <1>i, <2>2 DEF Funder, Turn
  <2> QED
    BY <2>1, <2>2, <2>3, <2>4, <2>5, <2>6 DEF Funder
<1> QED
  BY <1>1, <1>2, <1>3 DEF PlanInv

LEMMA RowsSame ==
  ASSUME UNCHANGED <<tx, req, proven, plan, origin>>, NEW p
  PROVE  Rows(p)
  BY DEF Rows, Unplanned, Own

(* A process writes the rows of an action others know. *)
LEMMA RowsOne ==
  ASSUME UNCHANGED <<plan, origin>>, NEW p, NEW t \in Txs, ~Unplanned(t), PlanInv,
         \A u \in Txs \ {t} : tx'[u] = tx[u] /\ req'[u] = req[u],
         proven' \subseteq proven \cup {t},
         tx'[t].status = "none" => tx[t].status = "none"
  PROVE  Rows(p)
<1>1. \A u \in Txs : Unplanned(u)' <=> Unplanned(u)
  BY DEF Unplanned, Own
<1>2. \A q \in Procs : s[q].pc \in Funding => s[q].t # t
  BY DEF PlanInv, FundersAlone, Funder
<1> QED
  BY <1>1, <1>2 DEF Rows

(* Only createAction and the clean-up work on an action nobody knows. *)
LEMMA Planned ==
  ASSUME Typed, PlanInv, NEW p \in Procs, s[p].t \in Txs,
         s[p].pc \notin Funding \cup {"failAbandoned"}
  PROVE  ~Unplanned(s[p].t)
  BY DEF PlanInv, PlansFirst, Unknown

----------------------------------------------------------------------------
(* Step by step: every component keeps the plans first.                    *)

LEMMA ReturnTurn ==
  ASSUME Typed, NEW p \in Procs, Return(p)
  PROVE  Turn(p)
  BY DEF Return, Turn, Typed, TypeOK

LEMMA GotoTurn ==
  ASSUME Typed, NEW p \in Procs, NEW pc, Goto(p, pc),
         pc \in Funding <=> s[p].pc \in Funding,
         "failAbandoned" \notin {pc, s[p].pc}, pc \notin {"abortListed"} \cup Guarded,
         pc \in Deleting => s[p].pc \in Deleting
  PROVE  Turn(p)
  BY NotGuarded DEF Goto, Turn, Typed, TypeOK, Session

LEMMA CreatePlan ==
  ASSUME Typed, Typed', PlanInv, NEW p \in Callers, CreateActionStep(p)
  PROVE  PlanInv'
<1> p \in Procs /\ p # Monitor /\ Monitor \in Procs /\ s[p] \in Session
  BY NamesAssumption DEF Procs, Typed, TypeOK
<1>p. /\ {"fund", "release", "insertOutputs", "mergeChangeBeefs", "lockFixed"} = Funding
      /\ Funding \cap (Deleting \cup {"idle", "failAbandoned", "abortListed"} \cup Guarded) = {}
  BY DEF Guarded, Funding, Deleting
<1>1. CASE \E t \in Txs : createNewTxRecord(p, t)
  <2> PICK t \in Txs : createNewTxRecord(p, t)
    BY <1>1
  <2>s. /\ \A q \in Procs \ {p} : s'[q] = s[q]
        /\ s'[p].pc = "fund" /\ s'[p].t = t
    BY IdleTyped DEF createNewTxRecord, Typed, TypeOK, Session
  <2>t. /\ s[p].pc = "idle" /\ tx[t].status = "none" /\ Unplanned(t) /\ Unknown(t)
        /\ tx'[t].status = "unsigned" /\ \A u \in Txs \ {t} : tx'[u] = tx[u]
        /\ UNCHANGED <<req, proven, plan, origin>>
    BY DEF createNewTxRecord, At, Unplanned, Own, PlanInv, PlansFirst, Typed, TypeOK,
       TxRow, network
  <2>u. \A u \in Txs : Unplanned(u)' <=> Unplanned(u)
    BY <2>t DEF Unplanned, Own
  <2>f. \A q \in Procs : s[q].pc \in Funding => s[q].t \in Txs
    BY DEF Typed, HasTx, Untied, Purging, Listing, Funding
  <2>a. s[Monitor].pc = "failAbandoned" => s[Monitor].t \in Txs
    BY DEF Typed, HasTx, Untied, Purging, Listing
  <2>o. \A q \in Procs : s[q].t # t
    <3> SUFFICES ASSUME NEW q \in Procs, s[q].t = t PROVE FALSE
      OBVIOUS
    <3>1. CASE s[q].pc \in Funding
      BY <2>t, <3>1 DEF PlanInv, FundersAlone, Funder
    <3>2. CASE s[q].pc = "failAbandoned"
      BY <2>t, <3>2 DEF PlanInv, RowsStay, Procs
    <3> QED
      BY <2>t, <3>1, <3>2 DEF Unknown
  <2>1. PlansFirst'
    BY <2>s, <2>t, <2>u, <1>p DEF PlanInv, PlansFirst, Unknown
  <2>2. RowsStay'
    BY <2>s, <2>t, <2>a, <1>p, NotGuarded DEF PlanInv, RowsStay, Procs
  <2>3. FundersAlone'
    <3> SUFFICES ASSUME NEW q \in Procs, s'[q].pc \in Funding PROVE Funder(q)'
      BY DEF FundersAlone
    <3>1. CASE q = p
      BY <2>s, <2>t, <2>u, <2>o, <3>1 DEF Funder, PlanInv, RowsStay
    <3>2. CASE q # p
      BY <2>s, <2>t, <2>u, <2>o, <2>f, <3>2 DEF Funder, PlanInv, FundersAlone
    <3> QED
      BY <3>1, <3>2
  <2> QED
    BY <2>1, <2>2, <2>3 DEF PlanInv
<1>2. CASE allocateNoSendChange(p) \/ allocateChangeInput(p) \/ createNewInput(p)
           \/ startRelease(p) \/ releaseChangeInput(p)
  <2>1. PICK again, held, nsc :
          \/ s' = [s EXCEPT ![p].nsc = nsc, ![p].held = held]
          \/ s' = [s EXCEPT ![p].held = held]
          \/ s' = [s EXCEPT ![p].pc = "release", ![p].again = again]
          \/ s' = [s EXCEPT ![p].held = held, ![p].nsc = nsc]
    BY <1>2 DEF allocateNoSendChange, allocateChangeInput, createNewInput,
       startRelease, releaseChangeInput
  <2>2. s[p].pc \in Funding
    BY <1>2, <1>p DEF allocateNoSendChange, allocateChangeInput, createNewInput,
       startRelease, releaseChangeInput, At
  <2>3. Turn(p)
    BY <2>1, <2>2, <1>p, NotGuarded DEF Turn, Typed, TypeOK, Session
  <2>4. UNCHANGED <<tx, req, proven, plan, origin>>
    BY <1>2 DEF allocateNoSendChange, allocateChangeInput, createNewInput,
       startRelease, releaseChangeInput, tables, network
  <2> QED
    BY <2>3, <2>4, RowsSame, TurnPlan
<1>3. CASE released(p) \/ funded(p) \/ createNewOutputs(p)
           \/ mergeAllocatedChangeBeefs(p) \/ createNewInputThrows(p)
  <2>1. /\ UNCHANGED <<tx, req, proven, plan, origin>>
        /\ s[p].pc \in Funding
        /\ Return(p) \/ \E pc \in Funding : Goto(p, pc)
    BY <1>3, <1>p DEF released, funded, createNewOutputs, mergeAllocatedChangeBeefs,
       createNewInputThrows, At, tables, network
  <2> QED
    BY <2>1, <1>p, ReturnTurn, GotoTurn, RowsSame, TurnPlan
<1>4. CASE createActionReturns(p)
  <2>1. s'[p] = Idle /\ Turn(p) /\ s[p].pc \in Funding /\ s[p].t \in Txs
    BY <1>4, <1>p, ReturnTurn
    DEF createActionReturns, At, Return, Typed, TypeOK, HasTx, Untied, Purging, Listing
  <2>2. /\ UNCHANGED <<tx, req, proven, origin>>
        /\ plan'[s[p].t].ready /\ \A t \in Txs \ {s[p].t} : plan'[t] = plan[t]
    BY <1>4, <2>1 DEF createActionReturns, tables, network, Typed, TypeOK
  <2>3. Rows(p)
    BY <2>1, <2>2 DEF Rows, Unplanned, Own
  <2> QED
    BY <2>1, <2>3, TurnPlan
<1> QED
  BY <1>1, <1>2, <1>3, <1>4 DEF CreateActionStep

(* Posting writes the rows of an action that has a req. *)
LEMMA PostPlan ==
  ASSUME Typed, Typed', PlanInv, NEW p \in Procs, PostStep(p)
  PROVE  PlanInv'
<1> s[p] \in Session
  BY DEF Typed, TypeOK
<1>p. {"mergeBeef", "postBeef", "transferNotes", "refresh", "updateReq", "updateTx"}
        \cap (Funding \cup Deleting \cup Untied \cup {"failAbandoned", "abortListed"} \cup Guarded) = {}
  BY DEF Guarded, Funding, Deleting, Untied, Purging, Listing
<1>1. s[p].pc \in {"mergeBeef", "postBeef", "transferNotes", "refresh", "updateReq",
                   "updateTx"}
  BY DEF PostStep, mergeBeef, mergeBeefThrows, postBeef, transferNotes, refreshReq,
     updateReqFromResult, updateTxFromResult, At
<1>2. s[p].t \in Txs /\ ~Unplanned(s[p].t)
  BY <1>1, <1>p, Planned DEF Typed, HasTx
<1>3. Turn(p)
  <2>1. CASE mergeBeef(p) \/ transferNotes(p)
    BY <2>1, <1>1, <1>p, GotoTurn DEF mergeBeef, transferNotes
  <2>2. CASE Return(p)
    BY <2>2, ReturnTurn
  <2>3. CASE postBeef(p) \/ refreshReq(p) \/ updateReqFromResult(p)
    <3>1. \/ Return(p)
          \/ \E v : s' = [s EXCEPT ![p].pc = "transferNotes", ![p].verdict = v]
          \/ s' = [s EXCEPT ![p].copy = req[s[p].t], ![p].pc = "updateReq"]
          \/ \E v : s' = [s EXCEPT ![p].verdict = v, ![p].pc = "updateTx"]
      BY <2>3 DEF postBeef, refreshReq, updateReqFromResult
    <3>2. CASE \E v : s' = [s EXCEPT ![p].pc = "transferNotes", ![p].verdict = v]
      BY <3>2, <1>1, <1>p, NotGuarded DEF Turn, Typed, TypeOK, Session
    <3>3. CASE s' = [s EXCEPT ![p].copy = req[s[p].t], ![p].pc = "updateReq"]
      BY <3>3, <1>1, <1>p, NotGuarded DEF Turn, Typed, TypeOK, Session
    <3>4. CASE \E v : s' = [s EXCEPT ![p].verdict = v, ![p].pc = "updateTx"]
      BY <3>4, <1>1, <1>p, NotGuarded DEF Turn, Typed, TypeOK, Session
    <3> QED
      BY <3>1, <3>2, <3>3, <3>4, ReturnTurn
  <2> QED
    BY <2>1, <2>2, <2>3 DEF PostStep, mergeBeefThrows, updateTxFromResult
<1>4. /\ UNCHANGED <<plan, origin, proven>>
      /\ \A u \in Txs \ {s[p].t} : tx'[u] = tx[u] /\ req'[u] = req[u]
      /\ tx'[s[p].t].status = "none" => tx[s[p].t].status = "none"
  <2>1. CASE mergeBeef(p) \/ postBeef(p) \/ refreshReq(p)
    BY <2>1 DEF mergeBeef, postBeef, refreshReq, tables, network
  <2>2. CASE mergeBeefThrows(p) \/ transferNotes(p) \/ updateReqFromResult(p)
    BY <2>2 DEF mergeBeefThrows, transferNotes, updateReqFromResult, WriteReq, network,
       Typed, TypeOK
  <2>3. CASE updateTxFromResult(p)
    <3>1. NewStatus(s[p].verdict).tx # "none"
      BY <2>3 DEF updateTxFromResult, At, Typed, HasVerdict, Posted, NewStatus, TypeOK,
         Session, Verdicts
    <3>2. UNCHANGED <<plan, origin, proven, req>>
      BY <2>3 DEF updateTxFromResult, network
    <3>3. \/ UNCHANGED tx
          \/ tx' = [tx EXCEPT ![s[p].t].status = NewStatus(s[p].verdict).tx]
      BY <2>3 DEF updateTxFromResult, updateTransactionStatus
    <3> QED
      BY <1>2, <3>1, <3>2, <3>3 DEF Typed, TypeOK, TxRow
  <2> QED
    BY <2>1, <2>2, <2>3 DEF PostStep
<1> QED
  BY <1>2, <1>3, <1>4, RowsOne, TurnPlan

LEMMA ProcessPlan ==
  ASSUME Typed, Typed', PlanInv, NEW p \in Callers, ProcessActionStep(p)
  PROVE  PlanInv'
<1> p \in Procs /\ s[p] \in Session
  BY DEF Procs, Typed, TypeOK
<1>p. {"commit", "share", "bump", "mergeBeef"}
        \cap (Funding \cup Deleting \cup Untied \cup {"failAbandoned", "abortListed"} \cup Guarded) = {}
  BY DEF Guarded, Funding, Deleting, Untied, Purging, Listing
<1>1. CASE \E t \in Txs : validateCommitNewTx(p, t) \/ sendWith(p, t)
  <2> PICK t \in Txs : validateCommitNewTx(p, t) \/ sendWith(p, t)
    BY <1>1
  <2>1. UNCHANGED <<tx, req, proven, plan, origin>>
    BY DEF validateCommitNewTx, sendWith, tables, network
  <2>2. ~Unplanned(t)
    BY DEF validateCommitNewTx, sendWith, Unplanned, PlanInv, PlansFirst, Unknown
  <2>3. PICK pc \in {"commit", "share"} : \E mode :
          s' = [s EXCEPT ![p] = [Idle EXCEPT !.pc = pc, !.t = t, !.mode = mode]]
    BY DEF validateCommitNewTx, sendWith
  <2>4. Turn(p)
    BY <2>2, <2>3, <1>p, IdleTyped, NotGuarded DEF Turn, Typed, TypeOK, Session
  <2> QED
    BY <2>1, <2>4, RowsSame, TurnPlan
<1>2. CASE \E t \in Txs : abortAction(p, t)
  <2> PICK t \in Txs : abortAction(p, t)
    BY <1>2
  <2>1. ~Unplanned(t) /\ Turn(p) /\ UNCHANGED <<plan, origin, proven>>
    BY DEF abortAction, Unplanned, Turn, network
  <2>2. /\ tx' = [tx EXCEPT ![t].status = "failed"]
        /\ \A u \in Txs \ {t} : req'[u] = req[u]
    BY DEF abortAction, abortTx, updateTransactionStatus, Typed, TypeOK
  <2>3. \A u \in Txs \ {t} : tx'[u] = tx[u]
    BY <2>2 DEF Typed, TypeOK
  <2>4. tx'[t].status = "failed"
    BY <2>2 DEF Typed, TypeOK, TxRow
  <2> QED
    BY <2>1, <2>2, <2>3, <2>4, RowsOne, TurnPlan
<1>3. CASE commitNewTxToStorage(p) \/ bumpToUnsent(p)
  <2>1. s[p].pc \in {"commit", "bump"}
    BY <1>3 DEF commitNewTxToStorage, bumpToUnsent, At
  <2>2. s[p].t \in Txs /\ ~Unplanned(s[p].t)
    BY <2>1, <1>p, Planned DEF Typed, HasTx
  <2>3. Turn(p)
    BY <1>3, <2>1, <1>p, GotoTurn, ReturnTurn DEF commitNewTxToStorage, bumpToUnsent
  <2>4. PICK status \in {"sending", "nosend", "unprocessed"} :
          tx' = [tx EXCEPT ![s[p].t] = UpdateTx(s[p].t, [@ EXCEPT !.status = status])]
    BY <1>3 DEF commitNewTxToStorage, bumpToUnsent, CreateStatus, Typed, TypeOK, Session,
       Modes
  <2>5. /\ UNCHANGED <<plan, origin, proven>>
        /\ \A u \in Txs \ {s[p].t} : tx'[u] = tx[u] /\ req'[u] = req[u]
        /\ tx'[s[p].t].status = "none" => tx[s[p].t].status = "none"
    <3>1. UNCHANGED <<plan, origin, proven>>
      BY <1>3 DEF commitNewTxToStorage, bumpToUnsent, network
    <3>2. \A u \in Txs \ {s[p].t} : req'[u] = req[u]
      BY <1>3 DEF commitNewTxToStorage, bumpToUnsent, Typed, TypeOK
    <3> QED
      BY <2>2, <2>4, <3>1, <3>2 DEF UpdateTx, Typed, TypeOK, TxRow
  <2> QED
    BY <2>2, <2>3, <2>5, RowsOne, TurnPlan
<1>4. CASE getReqsAndBeef(p)
  <2>1. UNCHANGED <<tx, req, proven, plan, origin>> /\ s[p].pc = "share"
    BY <1>4 DEF getReqsAndBeef, tables, network, At
  <2>2. \/ Return(p)
        \/ \E pc \in {"bump", "mergeBeef"} :
             s' = [s EXCEPT ![p].copy = req[s[p].t], ![p].pc = pc]
    BY <1>4 DEF getReqsAndBeef
  <2>3. Turn(p)
    BY <2>1, <2>2, <1>p, ReturnTurn, NotGuarded DEF Turn, Typed, TypeOK, Session
  <2> QED
    BY <2>1, <2>3, RowsSame, TurnPlan
<1>5. CASE PostStep(p)
  BY <1>5, PostPlan
<1> QED
  BY <1>1, <1>2, <1>3, <1>4, <1>5 DEF ProcessActionStep

LEMMA InternalizePlan ==
  ASSUME Typed, Typed', PlanInv, NEW p \in Callers, InternalizeActionStep(p)
  PROVE  PlanInv'
<1> p \in Procs /\ s[p] \in Session
  BY DEF Procs, Typed, TypeOK
<1>p. InternalizePcs
        \cap (Funding \cup Deleting \cup Untied \cup {"failAbandoned", "abortListed"} \cup Guarded) = {}
  BY DEF Guarded, InternalizePcs, Funding, Deleting, Untied, Purging, Listing
<1>1. CASE \E t \in Txs : internalizeAction(p, t)
  <2> PICK t \in Txs : internalizeAction(p, t)
    BY <1>1
  <2>1. UNCHANGED <<tx, req, proven, plan, origin>> /\ ~Unplanned(t)
    BY DEF internalizeAction, tables, network, Unplanned
  <2>2. PICK pc \in InternalizePcs : s' = [s EXCEPT ![p] = [Idle EXCEPT !.t = t, !.pc = pc]]
    BY DEF internalizeAction, InternalizePcs
  <2>3. Turn(p)
    BY <2>1, <2>2, <1>p, IdleTyped, NotGuarded DEF Turn, Typed, TypeOK, Session
  <2> QED
    BY <2>1, <2>3, RowsSame, TurnPlan
<1>2. CASE ~\E t \in Txs : internalizeAction(p, t)
  <2>1. s[p].pc \in InternalizePcs
    BY <1>2 DEF InternalizeActionStep, findOrInsertProvenTx, insertCompleted,
       insertUnproven, getProvenOrReq, storeOutput, mergeOutput, At, InternalizePcs
  <2>2. s[p].t \in Txs /\ ~Unplanned(s[p].t)
    BY <2>1, <1>p, Planned DEF Typed, HasTx
  <2>3. Return(p) \/ \E pc \in InternalizePcs : Goto(p, pc)
    BY <1>2 DEF InternalizeActionStep, findOrInsertProvenTx, insertCompleted,
       insertUnproven, InsertTx, getProvenOrReq, storeOutput, mergeOutput, InternalizePcs
  <2>4. Turn(p)
    BY <2>1, <2>3, <1>p, GotoTurn, ReturnTurn
  <2>5. /\ UNCHANGED <<plan, origin>> /\ proven' \subseteq proven \cup {s[p].t}
        /\ \A u \in Txs \ {s[p].t} : tx'[u] = tx[u] /\ req'[u] = req[u]
        /\ tx'[s[p].t].status = "none" => tx[s[p].t].status = "none"
    <3>1. CASE findOrInsertProvenTx(p) \/ storeOutput(p) \/ mergeOutput(p)
      BY <3>1 DEF findOrInsertProvenTx, storeOutput, mergeOutput, network
    <3>2. CASE insertCompleted(p) \/ insertUnproven(p)
      BY <3>2, <2>2 DEF insertCompleted, insertUnproven, InsertTx, network, Typed, TypeOK
    <3>3. CASE getProvenOrReq(p)
      BY <3>3 DEF getProvenOrReq, network, Typed, TypeOK
    <3> QED
      BY <1>2, <3>1, <3>2, <3>3 DEF InternalizeActionStep
  <2> QED
    BY <2>2, <2>4, <2>5, RowsOne, TurnPlan
<1> QED
  BY <1>1, <1>2

LEMMA ListSpecOpsPlan ==
  ASSUME Typed, Typed', PlanInv, NEW p \in Callers, ListSpecOpsStep(p)
  PROVE  PlanInv'
<1> p \in Procs /\ s[p] \in Session
  BY DEF Procs, Typed, TypeOK
<1>p. Listing \cap (Funding \cup Deleting \cup {"idle", "failAbandoned"} \cup Guarded) = {}
  BY DEF Guarded, Funding, Deleting, Listing
<1>1. CASE listFailed(p) \/ listChange(p)
  <2>1. UNCHANGED <<tx, req, proven, plan, origin>>
    BY <1>1 DEF listFailed, listChange, Listed, tables, network
  <2>2. PICK pc \in {"unfailListed", "filterListed"} : \E rows :
          s' = [s EXCEPT ![p] = [Idle EXCEPT !.pc = pc, !.held = rows]]
    BY <1>1 DEF listFailed, listChange, Listed
  <2>3. s'[p].pc = pc /\ s'[p].t = NoTx /\ \A q \in Procs \ {p} : s'[q] = s[q]
    BY <2>2, IdleTyped DEF Typed, TypeOK, Session
  <2>4. Turn(p)
    BY <2>3, NamesAssumption, NotGuarded DEF Turn, Outs, Funding, Deleting, Guarded
  <2> QED
    BY <2>1, <2>4, RowsSame, TurnPlan
<1>2. CASE listNoSends(p)
  <2>1. /\ UNCHANGED <<tx, req, proven, plan, origin>>
        /\ s' = [s EXCEPT ![p] = [Idle EXCEPT !.pc = "abortListed",
                                    !.held = {t \in Txs : tx[t].status = "nosend"}]]
    BY <1>2 DEF listNoSends, Listed, tables, network
  <2>2. /\ \A q \in Procs \ {p} : s'[q] = s[q]
        /\ s'[p].pc = "abortListed" /\ s'[p].t = NoTx
        /\ s'[p].held = {t \in Txs : tx[t].status = "nosend"}
    BY <2>1, IdleTyped DEF Typed, TypeOK, Session
  <2>3. \A t \in Txs : Unplanned(t)' <=> Unplanned(t)
    BY <2>1 DEF Unplanned, Own
  <2>n. NoTx \notin Txs /\ p # Monitor /\ Monitor \in Procs
    BY NamesAssumption DEF Outs, Procs
  <2>4. PlansFirst'
    BY <2>1, <2>2, <2>3, <2>n DEF PlanInv, PlansFirst, Unknown
  <2>5. RowsStay'
    BY <2>1, <2>2, <2>n, NotGuarded DEF PlanInv, RowsStay, Guarded
  <2>6. FundersAlone'
    <3>1. \A q \in Procs : s[q].pc \in Funding => s[q].t \in Txs
      BY DEF Typed, HasTx, Untied, Purging, Listing, Funding
    <3> QED
      BY <2>1, <2>2, <2>3, <2>n, <3>1, <1>p DEF PlanInv, FundersAlone, Funder, Listing
  <2> QED
    BY <2>4, <2>5, <2>6 DEF PlanInv
<1>3. CASE abortListed(p)
  <2> PICK t \in s[p].held \cap Txs :
        \/ abortTx(t) /\ Rest(p, t) /\ UNCHANGED lock
        \/ ~Abortable(t) /\ Return(p) /\ UNCHANGED <<tx, req, outputs>>
    BY <1>3 DEF abortListed
  <2>1. s[p].pc = "abortListed" /\ ~Unplanned(t) /\ UNCHANGED <<proven, plan, origin>>
    BY <1>3 DEF abortListed, At, PlanInv, PlansFirst, Unknown, network
  <2>2. CASE Return(p) /\ UNCHANGED <<tx, req, outputs>>
    BY <2>1, <2>2, ReturnTurn, RowsSame, TurnPlan
  <2>3. CASE abortTx(t) /\ Rest(p, t)
    <3>1. Turn(p)
      BY <2>1, <2>3, <1>p, NotGuarded DEF Rest, Turn, Typed, TypeOK, Session, Listing
    <3>2. tx' = [tx EXCEPT ![t].status = "failed"] /\ \A u \in Txs \ {t} : req'[u] = req[u]
      BY <2>3 DEF abortTx, updateTransactionStatus, Typed, TypeOK
    <3>3. \A u \in Txs \ {t} : tx'[u] = tx[u]
      BY <3>2 DEF Typed, TypeOK
    <3>4. tx'[t].status = "failed"
      BY <3>2 DEF Typed, TypeOK, TxRow
    <3> QED
      BY <2>1, <3>1, <3>2, <3>3, <3>4, RowsOne, TurnPlan
  <2> QED
    BY <2>2, <2>3
<1>4. CASE unfailListed(p)
  <2> PICK t \in s[p].held :
        /\ tx' = [tx EXCEPT ![t] = UpdateTx(t, [@ EXCEPT !.status = "unfail"])]
        /\ Rest(p, t)
    BY <1>4 DEF unfailListed
  <2>1. s[p].pc = "unfailListed" /\ UNCHANGED <<req, proven, plan, origin>>
    BY <1>4 DEF unfailListed, At, network
  <2>2. Turn(p)
    BY <2>1, <1>p, NotGuarded DEF Rest, Turn, Typed, TypeOK, Session, Listing
  <2>3. \A u \in Txs : \/ tx'[u] = tx[u]
                       \/ tx[u].status # "none" /\ tx'[u].status = "unfail"
    BY DEF UpdateTx, Typed, TypeOK, TxRow
  <2>4. Rows(p)
    BY <2>1, <2>3 DEF Rows, Unplanned, Own
  <2> QED
    BY <2>2, <2>4, TurnPlan
<1>5. CASE releaseListed(p) \/ filterOutputs(p) \/ listed(p)
  <2>1. UNCHANGED <<tx, req, proven, plan, origin>> /\ s[p].pc \in Listing
    BY <1>5 DEF releaseListed, filterOutputs, listed, tables, network, At, Listing
  <2>2. PICK o, rows : \/ Return(p)
                       \/ s' = [s EXCEPT ![p].held = @ \ {o}]
                       \/ s' = [s EXCEPT ![p].pc = "releaseListed", ![p].held = rows]
    BY <1>5 DEF releaseListed, filterOutputs, listed, Rest
  <2>3. Turn(p)
    BY <2>1, <2>2, <1>p, ReturnTurn, NotGuarded DEF Turn, Typed, TypeOK, Session, Listing
  <2> QED
    BY <2>1, <2>3, RowsSame, TurnPlan
<1> QED
  BY <1>1, <1>2, <1>3, <1>4, <1>5 DEF ListSpecOpsStep

(* The monitor's tasks but for the purge. *)
TaskPcs == {"sendWaiting", "getProofs", "saveCopy", "refreshCopy", "newProvenTx",
            "insertProvenTx", "notifyTx", "saveNotified", "finishProof", "getPath",
            "unfailTx", "unfailReq"}

LEMMA ReadPlan ==
  ASSUME Typed, Typed', PlanInv, NEW task, NEW t \in Txs, NEW pc \in TaskPcs, NEW counts,
         Read(task, t, pc, counts), req[t].status # "none",
         pc \in Guarded => task = "UnFail" /\ pc = "getPath"
  PROVE  PlanInv'
<1> Monitor \in Procs /\ M = Monitor
  BY DEF Procs, M
<1>1. UNCHANGED <<tx, req, proven, plan, origin>> /\ ~Unplanned(t)
  BY DEF Read, tables, network, PlanInv, PlansFirst, Unknown
<1>2. Installed(pc)
  BY NotGuarded DEF Read, Installed
<1>3. Turn(Monitor)
  BY <1>1, <1>2, IdleTyped DEF Read, Turn, Typed, TypeOK, Session, TaskPcs, Funding, Deleting
<1> QED
  BY <1>1, <1>3, RowsSame, TurnPlan

LEMMA TasksPlan ==
  ASSUME Typed, Typed', PlanInv, SendWaitingStep \/ GetProofsStep \/ UnFailStep
  PROVE  PlanInv'
<1> Monitor \in Procs /\ M = Monitor /\ s[Monitor] \in Session
  BY DEF Procs, M, Typed, TypeOK
<1>p. (TaskPcs \cup {"mergeBeef"})
        \cap (Funding \cup Deleting \cup Untied \cup {"failAbandoned", "abortListed"}) = {}
  BY DEF TaskPcs, Funding, Deleting, Untied, Purging, Listing
<1>1. CASE \/ \E t \in Txs : sendWaiting(t) \/ unfail(t)
           \/ \E t \in Txs, counts \in BOOLEAN : checkForProofs(t, counts) \/ checkNoSends(t, counts)
  BY <1>1, ReadPlan DEF sendWaiting, unfail, checkForProofs, checkNoSends, TaskPcs, Guarded
<1>2. CASE \E t \in Txs : assignUnfail(t)
  <2> PICK t \in Txs : assignUnfail(t)
    BY <1>2
  <2>1. /\ UNCHANGED <<tx, proven, plan, origin, s>> /\ ~Unplanned(t)
        /\ \A u \in Txs \ {t} : req'[u] = req[u]
    BY DEF assignUnfail, network, PlanInv, PlansFirst, Unknown, Typed, TypeOK
  <2>2. Turn(Monitor)
    BY <2>1 DEF Turn
  <2> QED
    BY <2>1, <2>2, RowsOne, TurnPlan
<1>3. CASE \/ processUnsent \/ settleCopy \/ getMerklePath \/ proofTooNew \/ saveCopy
           \/ refreshCopy \/ newProvenTx \/ insertProvenTx \/ notifyTx \/ saveNotified
           \/ finishProof \/ getUnfailPath \/ unfailTx \/ unfailReq
  <2>1. s[Monitor].pc \in TaskPcs
    BY <1>3 DEF processUnsent, settleCopy, getMerklePath, proofTooNew, saveCopy, refreshCopy,
       newProvenTx, insertProvenTx, notifyTx, saveNotified, finishProof, getUnfailPath,
       unfailTx, unfailReq, At, TaskPcs
  <2>2. s[Monitor].t \in Txs /\ ~Unplanned(s[Monitor].t)
    BY <2>1, <1>p, Planned DEF Typed, HasTx
  <2>3. Turn(Monitor)
    <3>1. CASE processUnsent \/ saveCopy \/ notifyTx \/ saveNotified \/ unfailTx
      <4>1. \E pc \in (TaskPcs \cup {"mergeBeef"}) \ Guarded : Goto(Monitor, pc)
        BY <3>1 DEF processUnsent, saveCopy, notifyTx, saveNotified, unfailTx, TaskPcs, Guarded
      <4> QED
        BY <4>1, <2>1, <1>p, GotoTurn
    <3>2. CASE settleCopy \/ proofTooNew \/ finishProof \/ unfailReq
      BY <3>2, ReturnTurn DEF settleCopy, proofTooNew, finishProof, unfailReq
    <3>3. CASE getMerklePath
      <4> DEFINE c == IF s[Monitor].counts THEN Counted(s[Monitor].copy)
                                           ELSE s[Monitor].copy
      <4>1. PICK pc \in {"saveCopy", "finishProof"} : \E status :
              \/ s' = [s EXCEPT ![Monitor].pc = pc, ![Monitor].copy = c,
                                ![Monitor].kept = c.attempts]
              \/ s' = [s EXCEPT ![Monitor].pc = pc, ![Monitor].kept = c.attempts,
                                ![Monitor].copy = [c EXCEPT !.status = status]]
        BY <3>3 DEF getMerklePath
      <4> HIDE DEF c
      <4>2. s'[Monitor].pc \in TaskPcs \ Guarded /\ s'[Monitor].t = s[Monitor].t
            /\ \A q \in Procs \ {Monitor} : s'[q] = s[q]
        BY <4>1 DEF TaskPcs, Guarded, Typed, TypeOK, Session
      <4> QED
        BY <2>1, <4>2, <1>p, NotGuarded DEF Turn
    <3>4. CASE refreshCopy \/ newProvenTx \/ insertProvenTx
      <4>1. s'[Monitor].pc \in TaskPcs \ Guarded /\ s'[Monitor].t = s[Monitor].t
            /\ \A q \in Procs \ {Monitor} : s'[q] = s[q]
        BY <3>4 DEF refreshCopy, newProvenTx, insertProvenTx, TaskPcs, Guarded, Typed, TypeOK,
           Session
      <4> QED
        BY <2>1, <4>1, <1>p, NotGuarded DEF Turn
    <3>5. CASE getUnfailPath
      <4>1. \/ s' = [s EXCEPT ![Monitor].pc = "unfailTx",
                              ![Monitor].copy.status = "unmined",
                              ![Monitor].copy.attempts = 0]
            \/ s' = [s EXCEPT ![Monitor].pc = "unfailReq",
                              ![Monitor].copy.status = "invalid"]
        BY <3>5, Zenon DEF getUnfailPath, M
      <4>2. s'[Monitor].pc \in {"unfailTx", "unfailReq"} /\ s'[Monitor].t = s[Monitor].t
            /\ \A q \in Procs \ {Monitor} : s'[q] = s[q]
        BY <4>1 DEF Typed, TypeOK, Session
      <4>3. Installed(s'[Monitor].pc)
        BY <3>5, <4>2 DEF getUnfailPath, At, PlanInv, RowsStay, Installed
      <4> QED
        BY <2>1, <4>2, <4>3, <1>p DEF Turn, TaskPcs
    <3> QED
      BY <1>3, <3>1, <3>2, <3>3, <3>4, <3>5
  <2>4. /\ UNCHANGED <<plan, origin>> /\ proven' \subseteq proven \cup {s[Monitor].t}
        /\ \A u \in Txs \ {s[Monitor].t} : tx'[u] = tx[u] /\ req'[u] = req[u]
        /\ tx'[s[Monitor].t].status = "none" => tx[s[Monitor].t].status = "none"
    <3>1. CASE processUnsent \/ getMerklePath \/ proofTooNew \/ refreshCopy \/ newProvenTx
               \/ getUnfailPath
      BY <3>1 DEF processUnsent, getMerklePath, proofTooNew, refreshCopy, newProvenTx,
         getUnfailPath, tables, network
    <3>2. CASE settleCopy \/ saveCopy \/ saveNotified \/ finishProof \/ unfailReq
               \/ insertProvenTx
      BY <3>2 DEF settleCopy, saveCopy, saveNotified, finishProof, unfailReq, insertProvenTx,
         WriteReq, network, Typed, TypeOK
    <3>3. CASE notifyTx
      BY <3>3, <2>2 DEF notifyTx, UpdateTx, network, Typed, TypeOK
    <3>4. CASE unfailTx
      <4>1. UNCHANGED <<plan, origin, proven, req>>
        BY <3>4 DEF unfailTx, network
      <4>2. UNCHANGED tx \/ tx' = [tx EXCEPT ![s[Monitor].t].status = "unproven"]
        BY <3>4 DEF unfailTx
      <4> QED
        BY <2>2, <4>1, <4>2 DEF Typed, TypeOK, TxRow
    <3> QED
      BY <1>3, <3>1, <3>2, <3>3, <3>4
  <2> QED
    BY <2>2, <2>3, <2>4, RowsOne, TurnPlan
<1> QED
  BY <1>1, <1>2, <1>3 DEF SendWaitingStep, GetProofsStep, UnFailStep

LEMMA FailAbandonedPlan ==
  ASSUME Typed, Typed', PlanInv, FailAbandonedStep
  PROVE  PlanInv'
<1> Monitor \in Procs /\ M = Monitor /\ s[Monitor] \in Session /\ Monitor \notin Callers
  BY NamesAssumption DEF Procs, M, Typed, TypeOK
<1>f. \A q \in Procs : s[q].pc \in Funding => s[q].t \in Txs
  BY DEF Typed, HasTx, Untied, Purging, Listing, Funding
<1>p. "failAbandoned" \notin Funding \cup Deleting \cup {"idle"} /\ "idle" \notin Funding
  BY DEF Funding, Deleting
<1>1. CASE \E t \in Txs : failAbandoned(t)
  <2> PICK t \in Txs : failAbandoned(t)
    BY <1>1
  <2>1. /\ \A q \in Callers : s'[q] = s[q] /\ s[q].t # t
        /\ s'[Monitor].pc = "failAbandoned" /\ s'[Monitor].t = t
        /\ tx[t].status # "none" /\ s[Monitor].pc = "idle"
        /\ UNCHANGED <<tx, req, proven, plan, origin>>
    BY IdleTyped DEF failAbandoned, Abandoned, At, Typed, TypeOK, Session, Procs, tables,
       network
  <2>2. \A u \in Txs : Unplanned(u)' <=> Unplanned(u)
    BY <2>1 DEF Unplanned, Own
  <2>3. PlansFirst'
    BY <2>1, <2>2 DEF PlanInv, PlansFirst, Unknown, Procs
  <2>4. RowsStay'
    BY <2>1, <1>p, NotGuarded DEF PlanInv, RowsStay, Guarded, Procs
  <2>5. FundersAlone'
    BY <2>1, <2>2, <1>f, <1>p DEF PlanInv, FundersAlone, Funder, Procs
  <2> QED
    BY <2>3, <2>4, <2>5 DEF PlanInv
<1>2. CASE failAbandonedTx
  <2>1. s[Monitor].pc = "failAbandoned" /\ s[Monitor].t \in Txs
    BY <1>2 DEF failAbandonedTx, At, Typed, HasTx, Untied, Purging, Listing
  <2>2. \A q \in Procs : s[q].pc \in Funding => s[q].t # s[Monitor].t
    BY <2>1, <1>p DEF PlanInv, FundersAlone, Funder
  <2>3. /\ UNCHANGED <<req, proven, plan, origin>> /\ Turn(Monitor)
        /\ UNCHANGED tx \/ tx' = [tx EXCEPT ![s[Monitor].t].status = "failed"]
    BY <1>2, ReturnTurn DEF failAbandonedTx, updateTransactionStatus, network
  <2>4. Rows(Monitor)
    BY <2>1, <2>2, <2>3 DEF Rows, Unplanned, Own, Typed, TypeOK, TxRow
  <2> QED
    BY <2>3, <2>4, TurnPlan
<1> QED
  BY <1>1, <1>2 DEF FailAbandonedStep

LEMMA ReviewPlan ==
  ASSUME Typed, Typed', PlanInv, ReviewStatusStep
  PROVE  PlanInv'
<1> Monitor \in Procs /\ M = Monitor /\ s[Monitor] \in Session
  BY DEF Procs, M, Typed, TypeOK
<1>p. {"review1", "review2", "review3"}
        \cap (Funding \cup Deleting \cup {"idle", "failAbandoned", "abortListed"}) = {}
  BY DEF Funding, Deleting
<1>1. Turn(Monitor)
  <2>1. CASE reviewStatus
    BY <2>1, <1>p, IdleTyped, NamesAssumption
    DEF reviewStatus, Turn, Installed, Typed, TypeOK, Session, Outs
  <2>2. CASE failWhereReqInvalid \/ releaseWhereTxFailed
    <3>1. s[Monitor].pc \in {"review1", "review2"}
          /\ \E pc \in {"review2", "review3"} : Goto(Monitor, pc)
      BY <2>2 DEF failWhereReqInvalid, releaseWhereTxFailed, At
    <3>2. {"review2", "review3"} \cap Guarded = {}
      BY DEF Guarded
    <3> QED
      BY <3>1, <3>2, <1>p, GotoTurn
  <2>3. CASE completeWhereProven
    BY <2>3, ReturnTurn DEF completeWhereProven
  <2> QED
    BY <2>1, <2>2, <2>3 DEF ReviewStatusStep
<1>2. UNCHANGED <<req, proven, plan, origin>>
  BY DEF ReviewStatusStep, reviewStatus, failWhereReqInvalid, releaseWhereTxFailed,
     completeWhereProven, tables, network
<1>3. \A t \in Txs : tx'[t] # tx[t] =>
        /\ req[t].status # "none" \/ t \in proven
        /\ tx'[t].status # "none"
  <2>1. CASE failWhereReqInvalid
    BY <2>1 DEF failWhereReqInvalid, UpdateTx, Typed, TypeOK, TxRow
  <2>2. CASE completeWhereProven
    BY <2>2 DEF completeWhereProven, MissedProof
  <2>3. CASE reviewStatus \/ releaseWhereTxFailed
    BY <2>3 DEF reviewStatus, releaseWhereTxFailed, tables
  <2> QED
    BY <2>1, <2>2, <2>3 DEF ReviewStatusStep
<1>4. \A t \in Txs : tx'[t] # tx[t] => ~Unplanned(t)
  BY <1>3 DEF PlanInv, PlansFirst, Unknown
<1>5. Rows(Monitor)
  BY <1>2, <1>3, <1>4 DEF Rows, Unplanned, Own, PlanInv, FundersAlone, Funder
<1> QED
  BY <1>1, <1>5, TurnPlan

LEMMA MonitorPlan ==
  ASSUME Typed, Typed', PlanInv, MonitorStep
  PROVE  PlanInv'
  BY TasksPlan, FailAbandonedPlan, ReviewPlan DEF MonitorStep

LEMMA PurgePlan ==
  ASSUME Typed, Typed', PlanInv, PurgeStep
  PROVE  PlanInv'
<1> Monitor \in Procs /\ M = Monitor /\ s[Monitor] \in Session
  BY DEF Procs, M, Typed, TypeOK
<1>p. Purging \cap (Funding \cup {"idle", "failAbandoned", "abortListed"} \cup Guarded) = {}
  BY DEF Guarded, Funding, Purging
<1>1. CASE purge
  <2>1. UNCHANGED <<tx, req, proven, plan, origin>>
    BY <1>1 DEF purge, tables, network
  <2>2. Turn(Monitor)
    <3>1. FirstPurge \in Purging \ Deleting
      BY DEF FirstPurge, AfterCompleted, Purging, Deleting
    <3>2. s'[Monitor].pc = FirstPurge /\ s'[Monitor].t = NoTx
          /\ \A q \in Procs \ {Monitor} : s'[q] = s[q]
      BY <1>1, IdleTyped DEF purge, Typed, TypeOK, Session
    <3> QED
      BY <3>1, <3>2, <1>p, NamesAssumption, NotGuarded DEF Turn, Outs
  <2> QED
    BY <2>1, <2>2, RowsSame, TurnPlan
<1>2. CASE selectFailed \/ selectSpent
  <2>1. UNCHANGED <<tx, req, proven, plan, origin>>
        /\ s[Monitor].pc \in {"purgeFailed", "purgeSpent"}
    BY <1>2 DEF selectFailed, selectSpent, tables, network, At
  <2>2. PICK old :
          /\ \/ s' = [s EXCEPT ![Monitor].held = old,
                        ![Monitor].pc = IF old = {} THEN "purgeReqs" ELSE "purgeOutputs"]
             \/ s' = [s EXCEPT ![Monitor].held = old,
                        ![Monitor].pc = IF old = {} THEN "purgeOrphans" ELSE "forgetSpent"]
          /\ old \subseteq FailedTxs \/ old \subseteq SpentTxs
    BY <1>2 DEF selectFailed, selectSpent
  <2>3. \A t \in old \cap Txs : tx[t].status \in {"failed", "completed"}
    BY <2>2 DEF FailedTxs, SpentTxs, OwnerStatus
  <2>4. /\ \A q \in Procs \ {Monitor} : s'[q] = s[q]
        /\ s'[Monitor].held = old /\ s'[Monitor].t = s[Monitor].t
        /\ s'[Monitor].pc \in {"purgeReqs", "purgeOutputs", "purgeOrphans", "forgetSpent"}
    BY <2>2 DEF Typed, TypeOK, Session
  <2>5. \A u \in Txs : Unplanned(u)' <=> Unplanned(u)
    BY <2>1 DEF Unplanned, Own
  <2>p. {"purgeReqs", "purgeOutputs", "purgeOrphans", "forgetSpent", "purgeFailed", "purgeSpent"}
          \subseteq Purging
    BY DEF Purging
  <2>f. \A q \in Procs : s[q].pc \in Funding => s[q].t \in Txs
    BY DEF Typed, HasTx, Untied, Purging, Listing, Funding
  <2>6. PlansFirst'
    <3> SUFFICES ASSUME NEW t \in Txs, Unplanned(t)' PROVE Unknown(t)'
      BY DEF PlansFirst
    <3>1. Unknown(t)
      BY <2>5 DEF PlanInv, PlansFirst
    <3>2. s'[Monitor].t # t /\ s'[Monitor].pc # "abortListed"
      BY <2>1, <2>4, <2>p, <1>p, <3>1 DEF Unknown
    <3> QED
      BY <2>1, <2>4, <3>1, <3>2 DEF Unknown
  <2>7. RowsStay'
    <3>1. s'[Monitor].pc # "failAbandoned" /\ \A q \in Callers : s'[q].pc # "failAbandoned"
      BY <2>4, <2>p, <1>p DEF PlanInv, RowsStay, Procs
    <3>2. \A q \in Procs : Installed(s'[q].pc)
      BY <2>4, <2>p, <1>p, NotGuarded DEF PlanInv, RowsStay
    <3> QED
      BY <2>1, <2>3, <2>4, <3>1, <3>2 DEF RowsStay
  <2>8. FundersAlone'
    <3> SUFFICES ASSUME NEW q \in Procs, s'[q].pc \in Funding PROVE Funder(q)'
      BY DEF FundersAlone
    <3>1. q # Monitor
      BY <2>4, <2>p, <1>p
    <3>2. Funder(q) /\ s[q].t \in Txs /\ Unknown(s[q].t)
      BY <2>4, <2>f, <3>1 DEF PlanInv, FundersAlone, PlansFirst, Funder
    <3>3. s[q].t \notin old
      BY <2>3, <3>2 DEF Funder, Unknown
    <3> QED
      BY <2>1, <2>4, <2>5, <3>1, <3>2, <3>3 DEF Funder
  <2> QED
    BY <2>6, <2>7, <2>8 DEF PlanInv
<1>3. CASE deleteFailedTxs \/ deleteSpentTxs
  <2>1. /\ UNCHANGED <<req, proven, plan, origin>>
        /\ s[Monitor].pc \in {"purgeTxs", "spentTxs"} /\ DeleteTxs(s[Monitor].held)
        /\ \E pc \in {"purgeReqs", "purgeOrphans"} : Goto(Monitor, pc)
    BY <1>3 DEF deleteFailedTxs, deleteSpentTxs, network, At
  <2>p. /\ {"purgeTxs", "spentTxs"} \subseteq Deleting \cap Purging
        /\ {"purgeReqs", "purgeOrphans"} \subseteq Purging \ Deleting
    BY DEF Deleting, Purging
  <2>2. Turn(Monitor)
    BY <2>1, <2>p, <1>p, GotoTurn
  <2>3. s'[Monitor].pc \notin Deleting \cup {"failAbandoned"}
    BY <2>1, <2>p, <1>p DEF Goto, Typed, TypeOK, Session
  <2>4. \A t \in Txs : \/ tx'[t] = tx[t]
                       \/ tx'[t].status = "none" /\ t \in s[Monitor].held
    BY <2>1 DEF DeleteTxs
  <2>5. Rows(Monitor)
    BY <2>1, <2>p, <2>3, <2>4 DEF Rows, Unplanned, Own, PlanInv, FundersAlone, Funder
  <2> QED
    BY <2>2, <2>5, TurnPlan
<1>4. CASE purgeCompleted \/ deleteFailedReqs
  <2>1. /\ UNCHANGED <<tx, proven, plan, origin>>
        /\ s[Monitor].pc \in {"purgeCompleted", "purgeReqs"} /\ \E T : DeleteReqs(T)
        /\ \E pc \in {AfterCompleted, AfterFailed} : Goto(Monitor, pc)
    BY <1>4 DEF purgeCompleted, deleteFailedReqs, network, At
  <2>p. {"purgeCompleted", "purgeReqs", AfterCompleted, AfterFailed} \subseteq Purging \ Deleting
    BY DEF Deleting, Purging, AfterCompleted, AfterFailed
  <2>2. Turn(Monitor)
    BY <2>1, <2>p, <1>p, GotoTurn
  <2>3. \A t \in Txs : req'[t].status = req[t].status \/ req'[t].status = "none"
    BY <2>1 DEF DeleteReqs, NoReq
  <2>4. Rows(Monitor)
    BY <2>1, <2>3 DEF Rows, Unplanned, Own, PlanInv, PlansFirst, Unknown
  <2> QED
    BY <2>2, <2>4, TurnPlan
<1>5. CASE deleteFailedOutputs \/ markNotSpentBy \/ forgetSpentBy \/ deleteSpentOutputs
  <2>1. /\ UNCHANGED <<tx, req, proven, plan, origin>>
        /\ s[Monitor].pc \in {"purgeOutputs", "purgeInputs", "forgetSpent", "spentOutputs"}
        /\ \E pc \in {"purgeInputs", "purgeTxs", "spentOutputs", "spentTxs"} : Goto(Monitor, pc)
    BY <1>5 DEF deleteFailedOutputs, markNotSpentBy, forgetSpentBy, deleteSpentOutputs,
       network, At
  <2>p. {"purgeOutputs", "purgeInputs", "forgetSpent", "spentOutputs", "purgeTxs", "spentTxs"}
          \subseteq Deleting \cap Purging
    BY DEF Deleting, Purging
  <2>2. Turn(Monitor)
    BY <2>1, <2>p, <1>p, GotoTurn
  <2> QED
    BY <2>1, <2>2, RowsSame, TurnPlan
<1>6. CASE selectSpentThrows \/ deleteOrphans
  <2>1. Return(Monitor) /\ UNCHANGED <<tx, req, plan, origin>> /\ proven' \subseteq proven
    BY <1>6 DEF selectSpentThrows, deleteOrphans, tables, network
  <2>2. Rows(Monitor)
    BY <2>1 DEF Rows, Unplanned, Own
  <2> QED
    BY <2>1, <2>2, ReturnTurn, TurnPlan
<1> QED
  BY <1>1, <1>2, <1>3, <1>4, <1>5, <1>6 DEF PurgeStep

LEMMA NextPlan ==
  ASSUME Typed, Typed', PlanInv, [Next]_vars
  PROVE  PlanInv'
<1> Callers \subseteq Procs /\ Monitor \in Procs
  BY DEF Procs
<1>s. ASSUME NEW p \in Procs, UNCHANGED <<tx, req, proven, plan, origin>>,
             Return(p) \/ UNCHANGED s
      PROVE  PlanInv'
  <2>1. Turn(p)
    BY <1>s, ReturnTurn DEF Turn
  <2> QED
    BY <1>s, <2>1, RowsSame, TurnPlan
<1>1. CASE \E p \in Callers : CallerStep(p)
  BY <1>1, CreatePlan, ProcessPlan, InternalizePlan, ListSpecOpsPlan DEF CallerStep
<1>2. CASE MonitorStep \/ PurgeStep \/ PostStep(Monitor)
  BY <1>2, MonitorPlan, PurgePlan, PostPlan
<1>3. CASE \E p \in Procs : Throws(p)
  BY <1>3, <1>s DEF Throws, tables, network
<1>4. CASE \/ \E t \in Txs : Arrive(t) \/ Mine(t)
           \/ UNCHANGED vars
  BY <1>4, <1>s DEF Arrive, Mine, vars, tables, network
<1> QED
  BY <1>1, <1>2, <1>3, <1>4 DEF Next

----------------------------------------------------------------------------
(* A failed transaction holds nothing.                                     *)

(* What may happen to the rows: a transaction that fails lets go of its    *)
(* inputs, or had failed before, and no output goes to one that is failed. *)
LetsGo ==
  \A t \in Txs : tx'[t].status = "failed" =>
    \/ tx[t].status = "failed" /\ \A o \in Outs : spentBy'[o] = t => spentBy[o] = t
    \/ \A o \in Outs : spentBy'[o] # t

LEMMA LetsGoHoldsNothing ==
  ASSUME FailedHoldsNothing, LetsGo
  PROVE  FailedHoldsNothing'
  BY DEF FailedHoldsNothing, LetsGo, getInputs

LEMMA ReleaseLetsGo ==
  ASSUME Typed, NEW T \in SUBSET Txs, ReleaseInputs(T)
  PROVE  \A o \in Outs : spentBy'[o] = IF spentBy[o] \in T THEN NoTx ELSE spentBy[o]
  BY DEF ReleaseInputs, getInputs, Typed, TypeOK

(* updateTransactionStatus fails a transaction and releases what it holds. *)
LEMMA UpdateLetsGo ==
  ASSUME Typed, NEW t \in Txs, NEW status,
         \/ updateTransactionStatus(t, status)
         \/ UNCHANGED <<tx, outputs>>
  PROVE  LetsGo
<1> NoTx \notin Txs
  BY NamesAssumption DEF Outs
<1>1. CASE UNCHANGED <<tx, outputs>>
  BY <1>1 DEF LetsGo, outputs
<1>2. CASE updateTransactionStatus(t, status) /\ status = "failed"
  <2>1. \A o \in Outs : spentBy'[o] = IF spentBy[o] \in {t} THEN NoTx ELSE spentBy[o]
    BY <1>2, ReleaseLetsGo DEF updateTransactionStatus
  <2>2. \A u \in Txs \ {t} : tx'[u] = tx[u]
    BY <1>2 DEF updateTransactionStatus, Typed, TypeOK
  <2> QED
    BY <2>1, <2>2 DEF LetsGo
<1>3. CASE updateTransactionStatus(t, status) /\ status # "failed"
  <2>1. UNCHANGED spentBy
    BY <1>3 DEF updateTransactionStatus, outputs
  <2>2. tx'[t].status = status /\ \A u \in Txs \ {t} : tx'[u] = tx[u]
    BY <1>3 DEF updateTransactionStatus, Typed, TypeOK, TxRow
  <2> QED
    BY <1>3, <2>1, <2>2 DEF LetsGo
<1> QED
  BY <1>1, <1>2, <1>3

(* Steps that give no row the status 'failed' and assign no output. *)
LEMMA NothingFails ==
  ASSUME \A t \in Txs : tx'[t].status = "failed" => tx[t].status = "failed",
         \A o \in Outs : spentBy'[o] \in {spentBy[o], NoTx}
  PROVE  LetsGo
  BY NamesAssumption DEF LetsGo, Outs

(* A row that is updated, if it is there, by a status that is not 'failed'. *)
LEMMA UpdateTxLetsGo ==
  ASSUME Typed, NEW t, NEW row, row.status # "failed",
         tx' = [tx EXCEPT ![t] = UpdateTx(t, row)], UNCHANGED spentBy
  PROVE  LetsGo
<1>1. \A u \in Txs : tx'[u].status = "failed" => tx[u].status = "failed"
  BY DEF UpdateTx, Typed, TypeOK
<1> QED
  BY <1>1, NothingFails

LEMMA CreateLetsGo ==
  ASSUME Typed, PlanInv, NEW p \in Callers, CreateActionStep(p)
  PROVE  LetsGo
<1> p \in Procs /\ NoTx \notin Txs
  BY NamesAssumption DEF Procs, Outs
<1>1. CASE \E t \in Txs : createNewTxRecord(p, t)
  <2>1. \A t \in Txs : tx'[t].status = "failed" => tx[t].status = "failed"
    BY <1>1 DEF createNewTxRecord, Typed, TypeOK, TxRow
  <2> QED
    BY <1>1, <2>1, NothingFails DEF createNewTxRecord, outputs
<1>2. CASE allocateNoSendChange(p) \/ allocateChangeInput(p) \/ createNewInput(p)
  <2>1. UNCHANGED tx /\ s[p].pc \in Funding /\ \E o : LockOutput(o, s[p].t)
    BY <1>2 DEF allocateNoSendChange, allocateChangeInput, createNewInput, At, Funding
  <2>2. tx[s[p].t].status # "failed"
    BY <2>1 DEF PlanInv, FundersAlone, Funder
  <2> QED
    BY <2>1, <2>2 DEF LockOutput, LetsGo, Typed, TypeOK
<1>3. CASE releaseChangeInput(p)
  <2>1. UNCHANGED tx /\ \A o \in Outs : spentBy'[o] \in {spentBy[o], NoTx}
    BY <1>3 DEF releaseChangeInput, UnlockOutput, Typed, TypeOK
  <2> QED
    BY <2>1, NothingFails
<1>4. CASE startRelease(p) \/ released(p) \/ funded(p) \/ createNewOutputs(p)
           \/ mergeAllocatedChangeBeefs(p) \/ createNewInputThrows(p)
           \/ createActionReturns(p)
  <2>1. UNCHANGED <<tx, spentBy>>
    BY <1>4 DEF startRelease, released, funded, createNewOutputs,
       mergeAllocatedChangeBeefs, createNewInputThrows, createActionReturns, tables
  <2> QED
    BY <2>1, NothingFails
<1> QED
  BY <1>1, <1>2, <1>3, <1>4 DEF CreateActionStep

LEMMA PostLetsGo ==
  ASSUME Typed, NEW p \in Procs, PostStep(p)
  PROVE  LetsGo
<1>1. CASE updateTxFromResult(p)
  <2>1. s[p].t \in Txs
    BY <1>1, TiedPcs DEF updateTxFromResult, At, Typed, HasTx
  <2> QED
    BY <1>1, <2>1, UpdateLetsGo DEF updateTxFromResult
<1>2. CASE ~updateTxFromResult(p)
  <2>1. UNCHANGED <<tx, spentBy>>
    BY <1>2 DEF PostStep, mergeBeef, mergeBeefThrows, postBeef, transferNotes, refreshReq,
       updateReqFromResult, tables, outputs
  <2> QED
    BY <2>1, NothingFails
<1> QED
  BY <1>1, <1>2

LEMMA CallsLetsGo ==
  ASSUME Typed, NEW p \in Callers,
         ProcessActionStep(p) \/ InternalizeActionStep(p) \/ ListSpecOpsStep(p)
  PROVE  LetsGo
<1> p \in Procs
  BY DEF Procs
<1>1. CASE PostStep(p)
  BY <1>1, PostLetsGo
<1>2. CASE \/ \E t \in Txs : abortAction(p, t)
           \/ abortListed(p)
  <2>1. PICK t \in Txs : updateTransactionStatus(t, "failed") \/ UNCHANGED <<tx, outputs>>
    BY <1>2 DEF abortAction, abortListed, abortTx
  <2> QED
    BY <2>1, UpdateLetsGo
<1>3. CASE commitNewTxToStorage(p) \/ bumpToUnsent(p) \/ unfailListed(p)
  <2>0. CreateStatus(s[p].mode).tx \in {"nosend", "unprocessed"}
    BY DEF CreateStatus, Typed, TypeOK, Session, Modes
  <2> DEFINE Updates(status) ==
        \E t : tx' = [tx EXCEPT ![t] = UpdateTx(t, [@ EXCEPT !.status = status])]
  <2>1. PICK status : Updates(status) /\ status # "failed"
    <3>1. CASE commitNewTxToStorage(p)
      BY <3>1, <2>0 DEF commitNewTxToStorage
    <3>2. CASE bumpToUnsent(p)
      <4>1. Updates("sending")
        BY <3>2 DEF bumpToUnsent
      <4> HIDE DEF Updates
      <4> QED
        BY <4>1
    <3>3. CASE unfailListed(p)
      <4>1. Updates("unfail")
        BY <3>3 DEF unfailListed
      <4> HIDE DEF Updates
      <4> QED
        BY <4>1
    <3> QED
      BY <1>3, <3>1, <3>2, <3>3
  <2>2. UNCHANGED spentBy
    BY <1>3 DEF commitNewTxToStorage, bumpToUnsent, unfailListed, outputs
  <2>3. \A u \in Txs : tx'[u].status = "failed" => tx[u].status = "failed"
    BY <2>1 DEF UpdateTx, Typed, TypeOK, TxRow
  <2> QED
    BY <2>2, <2>3, NothingFails
<1>4. CASE insertCompleted(p) \/ insertUnproven(p)
  <2>1. \A t \in Txs : tx'[t].status = "failed" => tx[t].status = "failed"
    BY <1>4 DEF insertCompleted, insertUnproven, InsertTx, Typed, TypeOK
  <2> QED
    BY <1>4, <2>1, NothingFails DEF insertCompleted, insertUnproven, outputs
<1>5. CASE \/ \E t \in Txs : validateCommitNewTx(p, t) \/ sendWith(p, t)
                             \/ internalizeAction(p, t)
           \/ getReqsAndBeef(p) \/ findOrInsertProvenTx(p) \/ getProvenOrReq(p)
           \/ storeOutput(p) \/ mergeOutput(p)
           \/ listNoSends(p) \/ listFailed(p) \/ listChange(p) \/ filterOutputs(p)
           \/ releaseListed(p) \/ listed(p)
  <2>1. UNCHANGED <<tx, spentBy>>
    BY <1>5 DEF validateCommitNewTx, sendWith, internalizeAction, getReqsAndBeef,
       findOrInsertProvenTx, getProvenOrReq, storeOutput, mergeOutput, listNoSends,
       listFailed, listChange, Listed, filterOutputs, releaseListed, listed, tables, outputs
  <2> QED
    BY <2>1, NothingFails
<1> QED
  BY <1>1, <1>2, <1>3, <1>4, <1>5
  DEF ProcessActionStep, InternalizeActionStep, ListSpecOpsStep

LEMMA MonitorLetsGo ==
  ASSUME Typed, MonitorStep, ~failWhereReqInvalid
  PROVE  LetsGo
<1> Monitor \in Procs /\ M = Monitor
  BY DEF Procs, M
<1>1. CASE failAbandonedTx
  <2>1. s[Monitor].t \in Txs
    BY <1>1 DEF failAbandonedTx, At, Typed, HasTx, Untied, Purging, Listing
  <2> QED
    BY <1>1, <2>1, UpdateLetsGo DEF failAbandonedTx
<1>2. CASE notifyTx
  <2>1. CASE UNCHANGED tx
    BY <1>2, <2>1, NothingFails DEF notifyTx, outputs
  <2>2. CASE ~UNCHANGED tx
    BY <1>2, <2>2, UpdateTxLetsGo DEF notifyTx, outputs
  <2> QED
    BY <2>1, <2>2
<1>3. CASE unfailTx
  <2>1. CASE UNCHANGED <<tx, spentBy>>
    BY <2>1, NothingFails
  <2>2. CASE /\ tx' = [tx EXCEPT ![s[Monitor].t].status = "unproven"]
             /\ spentBy' = RetakenBy(s[Monitor].t)
    <3>1. s[Monitor].t \in Txs
      BY <1>3 DEF unfailTx, At, Typed, HasTx, Untied, Purging, Listing
    <3>2. tx'[s[Monitor].t].status = "unproven"
          /\ \A u \in Txs \ {s[Monitor].t} : tx'[u] = tx[u]
      BY <2>2, <3>1 DEF Typed, TypeOK, TxRow
    <3>3. \A o \in Outs : spentBy'[o] \in {spentBy[o], s[Monitor].t}
      BY <2>2 DEF RetakenBy
    <3> QED
      BY <3>1, <3>2, <3>3 DEF LetsGo
  <2> QED
    BY <1>3, <2>1, <2>2 DEF unfailTx
<1>4. CASE releaseWhereTxFailed
  <2>1. \A o \in Outs : spentBy'[o] \in {spentBy[o], NoTx}
    BY <1>4, ReleaseLetsGo DEF releaseWhereTxFailed
  <2> QED
    BY <1>4, <2>1, NothingFails DEF releaseWhereTxFailed
<1>5. CASE completeWhereProven
  <2>1. \A t \in Txs : tx'[t].status = "failed" => tx[t].status = "failed"
    BY <1>5 DEF completeWhereProven
  <2> QED
    BY <1>5, <2>1, NothingFails DEF completeWhereProven, outputs
<1>6. CASE ~(failAbandonedTx \/ notifyTx \/ unfailTx \/ releaseWhereTxFailed
               \/ completeWhereProven)
  <2>1. UNCHANGED <<tx, spentBy>>
    <3>1. CASE SendWaitingStep
      BY <3>1 DEF SendWaitingStep, sendWaiting, processUnsent, Read, tables
    <3>2. CASE GetProofsStep
      BY <3>2, <1>6 DEF GetProofsStep, checkForProofs, checkNoSends, settleCopy, getMerklePath,
         proofTooNew, saveCopy, refreshCopy, newProvenTx, insertProvenTx, saveNotified,
         finishProof, Read, tables, outputs
    <3>3. CASE FailAbandonedStep \/ UnFailStep \/ ReviewStatusStep
      BY <3>3, <1>6 DEF FailAbandonedStep, failAbandoned, UnFailStep, assignUnfail, unfail,
         getUnfailPath, unfailReq, ReviewStatusStep, reviewStatus, Read, tables, outputs
    <3> QED
      BY <3>1, <3>2, <3>3 DEF MonitorStep
  <2> QED
    BY <2>1, NothingFails
<1> QED
  BY <1>1, <1>2, <1>3, <1>4, <1>5, <1>6

LEMMA PurgeLetsGo ==
  ASSUME Typed, PurgeStep
  PROVE  LetsGo
<1> Monitor \in Procs /\ M = Monitor
  BY DEF Procs, M
<1>1. CASE deleteFailedTxs \/ deleteSpentTxs
  <2>1. \A t \in Txs : tx'[t].status = "failed" => tx[t].status = "failed"
    BY <1>1 DEF deleteFailedTxs, deleteSpentTxs, DeleteTxs
  <2> QED
    BY <1>1, <2>1, NothingFails DEF deleteFailedTxs, deleteSpentTxs, outputs
<1>2. CASE deleteFailedOutputs \/ deleteSpentOutputs \/ forgetSpentBy
  <2>1. UNCHANGED tx /\ \A o \in Outs : spentBy'[o] \in {spentBy[o], NoTx}
    BY <1>2 DEF deleteFailedOutputs, deleteSpentOutputs, forgetSpentBy, Delete
  <2> QED
    BY <2>1, NothingFails
<1>3. CASE markNotSpentBy
  <2>1. UNCHANGED tx /\ \A o \in Outs : spentBy'[o] \in {spentBy[o], NoTx}
    BY <1>3, ReleaseLetsGo DEF markNotSpentBy, MarkNotSpentBy
  <2> QED
    BY <2>1, NothingFails
<1>4. CASE purge \/ purgeCompleted \/ selectFailed \/ deleteFailedReqs \/ selectSpent
           \/ selectSpentThrows \/ deleteOrphans
  <2>1. UNCHANGED <<tx, spentBy>>
    BY <1>4 DEF purge, purgeCompleted, selectFailed, deleteFailedReqs, selectSpent,
       selectSpentThrows, deleteOrphans, tables, outputs
  <2> QED
    BY <2>1, NothingFails
<1> QED
  BY <1>1, <1>2, <1>3, <1>4 DEF PurgeStep

LEMMA NextLetsGo ==
  ASSUME Typed, PlanInv, [Next]_vars, "ReviewStatus" \notin Tasks
  PROVE  LetsGo
<1> Monitor \in Procs
  BY DEF Procs
<1>1. CASE \E p \in Callers : CallerStep(p)
  BY <1>1, CreateLetsGo, CallsLetsGo DEF CallerStep
<1>2. CASE MonitorStep
  <2>1. ~failWhereReqInvalid
    BY DEF PlanInv, RowsStay, Installed, failWhereReqInvalid, At, M
  <2> QED
    BY <1>2, <2>1, MonitorLetsGo
<1>3. CASE PurgeStep \/ PostStep(Monitor)
  BY <1>3, PurgeLetsGo, PostLetsGo
<1>4. CASE \/ \E p \in Procs : Throws(p)
           \/ \E t \in Txs : Arrive(t) \/ Mine(t)
           \/ UNCHANGED vars
  <2>1. UNCHANGED <<tx, spentBy>>
    BY <1>4 DEF Throws, Arrive, Mine, vars, tables
  <2> QED
    BY <2>1, NothingFails
<1> QED
  BY <1>1, <1>2, <1>3, <1>4 DEF Next

(* A failed transaction holds no output, with or without the manager's     *)
(* locks, whatever else runs and fails: updateTransactionStatus releases   *)
(* its inputs in the same database transaction, and no createAction locks  *)
(* outputs for a row that somebody failed.  TaskReviewStatus is left out,  *)
(* as it fails the rows by one query and releases outputs by the next.     *)
THEOREM FailedReleases ==
  ASSUME "ReviewStatus" \notin Tasks
  PROVE  Spec => []FailedHoldsNothing
<1>1. Init => Typed /\ PlanInv /\ FailedHoldsNothing
  <2>1. Init => FailedHoldsNothing
    BY DEF Init, FailedHoldsNothing
  <2> QED
    BY <2>1, InitTyped, InitPlan
<1>2. Typed /\ PlanInv /\ FailedHoldsNothing /\ [Next]_vars
        => (Typed /\ PlanInv /\ FailedHoldsNothing)'
  BY NextTyped, NextPlan, NextLetsGo, LetsGoHoldsNothing
<1> QED
  BY <1>1, <1>2, PTL DEF Spec

----------------------------------------------------------------------------
(* An output that is offered for spending is held by nobody.  Callers have *)
(* the manager's locks, so that one call goes on at a time, and TaskUnFail *)
(* is not installed: it offers the change of an action it revives,         *)
(* whoever holds it by now.                                                *)

Custom(t) == t \in exists \ change

(* Its outputs will not be offered by a commit any more.                   *)
Committed(t) == plan[t].ready /\ tx[t].status \notin CommitableStatus

(* The tables: what is offered or held exists, and an action of this       *)
(* wallet whose output is held, or in another basket, or that was committed *)
(* without being sent, is not committed again.                             *)
Offered ==
  /\ spendable \subseteq exists
  /\ \A o \in spendable : spentBy[o] = NoTx
  /\ \A o \in Outs : spentBy[o] # NoTx => o \in exists

HeldIsCommitted ==
  \A t \in Txs : Own(t) /\ (spentBy[t] # NoTx \/ Custom(t)) => Committed(t)

PlansCommitted ==
  \A t \in Txs :
    /\ plan[t].ready => Own(t)
    /\ plan[t].mode = "noSend" =>
         plan[t].ready /\ (req[t].status # "none" => Committed(t))

(* The locals r of a call: createAction has picked outputs that exist, a   *)
(* commit will offer one that is free, and internalizeAction works on      *)
(* what somebody else made or on what was committed.                       *)
Picked(r) == r.given \cup r.fixed \cup r.held

ReceivedPcs == {"insertProven", "insertCompleted", "insertUnproven", "getReq"}

StoringPcs == {"storeOutput", "mergeOutput"}

Call(r) ==
  /\ r.pc \in Funding =>
       /\ r.nsc \subseteq r.given /\ Picked(r) \subseteq exists
       /\ \A t \in Picked(r) \cap Txs : Own(t) => Committed(t)
  /\ r.pc = "commit" =>
       /\ r.t \in Txs /\ plan[r.t].ready /\ r.mode = plan[r.t].mode
       /\ spentBy[r.t] = NoTx /\ ~Custom(r.t)
  /\ r.pc \in ReceivedPcs => ~Own(r.t)
  /\ r.pc \in StoringPcs => r.t \in Txs /\ (Own(r.t) => Committed(r.t))

Tables == Offered /\ HeldIsCommitted /\ PlansCommitted

OutputInv == Tables /\ \A p \in Callers : Call(s[p])

CallPcs == Funding \cup {"commit"} \cup ReceivedPcs \cup StoringPcs

LEMMA NoCall ==
  ASSUME NEW r, r.pc \notin CallPcs
  PROVE  Call(r)
  BY DEF Call, CallPcs

LEMMA InitOutput == Init => OutputInv
<1> SUFFICES ASSUME Init PROVE OutputInv
  OBVIOUS
<1>1. \A p \in Procs : s[p].pc = "idle"
  BY IdleTyped DEF Init
<1>2. \A p \in Callers : Call(s[p])
  BY <1>1, NoCall DEF CallPcs, Funding, ReceivedPcs, StoringPcs, Procs
<1>3. Offered /\ HeldIsCommitted /\ PlansCommitted
  BY NamesAssumption
  DEF Init, Offered, HeldIsCommitted, PlansCommitted, Custom, Outs
<1> QED
  BY <1>2, <1>3 DEF OutputInv, Tables

(* Rows change, outputs do not: no action is to be committed again, and a  *)
(* req comes up only for an action that may be sent.                       *)
LEMMA RowsOutput ==
  ASSUME Tables, UNCHANGED <<outputs, plan, origin>>,
         \A t \in Txs : Committed(t) => Committed(t)',
         \A t \in Txs : \/ req'[t].status = "none" \/ req[t].status # "none"
                        \/ plan[t].mode # "noSend"
  PROVE  Tables'
  BY DEF Tables, Offered, HeldIsCommitted, PlansCommitted, Custom, Own, outputs

LEMMA CallerRuns ==
  ASSUME NEW p \in Callers, CallerStep(p)
  PROVE  s[p].pc # "idle" \/ Free
<1>1. CASE CreateActionStep(p)
  BY <1>1 DEF CreateActionStep, createNewTxRecord, allocateNoSendChange,
     allocateChangeInput, startRelease, releaseChangeInput, released, funded,
     createNewOutputs, mergeAllocatedChangeBeefs, createNewInput,
     createNewInputThrows, createActionReturns, At, Acquire
<1>2. CASE ProcessActionStep(p)
  BY <1>2 DEF ProcessActionStep, validateCommitNewTx, sendWith, abortAction,
     commitNewTxToStorage, getReqsAndBeef, bumpToUnsent, PostStep, mergeBeef,
     mergeBeefThrows, postBeef, transferNotes, refreshReq, updateReqFromResult,
     updateTxFromResult, At, Acquire
<1>3. CASE InternalizeActionStep(p)
  BY <1>3 DEF InternalizeActionStep, internalizeAction, findOrInsertProvenTx,
     insertCompleted, insertUnproven, getProvenOrReq, storeOutput, mergeOutput, At,
     Acquire
<1>4. CASE ListSpecOpsStep(p)
  BY <1>4 DEF ListSpecOpsStep, listNoSends, listFailed, listChange, Listed,
     abortListed, unfailListed, filterOutputs, releaseListed, listed, At, Acquire
<1> QED
  BY <1>1, <1>2, <1>3, <1>4 DEF CallerStep

(* A call is alone under the manager's locks.                              *)
LEMMA CallerAlone ==
  ASSUME Typed, Locked, ManagerLocks, NEW p \in Callers, CallerStep(p)
  PROVE  /\ \A q \in Callers \ {p} : s[q].pc = "idle" /\ s'[q] = s[q]
         /\ s'[Monitor] = s[Monitor]
<1> p \in Procs /\ p # Monitor /\ Monitor \in Procs /\ p # Nobody /\ Nobody \notin Procs
  BY NamesAssumption DEF Procs
<1>1. CallStep(p)
  BY CreateLocked, ProcessLocked, InternalizeLocked, ListSpecOpsLocked DEF CallerStep
<1>2. s[p].pc # "idle" \/ Free
  BY CallerRuns
<1>3. \A q \in Callers \ {p} : s[q].pc = "idle"
  BY <1>2 DEF Locked, CallsLocked, Free, Procs
<1> QED
  BY <1>1, <1>3 DEF CallStep, Procs

(* LockOutput keeps the tables, for an output that exists and that will    *)
(* not be offered again by the commit of its action.                       *)
LEMMA LockOutputTables ==
  ASSUME Typed, Tables, NEW o \in exists, NEW t \in Txs, LockOutput(o, t),
         UNCHANGED <<tx, req, exists, change, plan, origin>>,
         o \in Txs /\ Own(o) => Committed(o)
  PROVE  Tables'
<1> o \in Outs
  BY DEF Typed, TypeOK
<1>1. spentBy'[o] = t /\ \A x \in Outs \ {o} : spentBy'[x] = spentBy[x]
  BY DEF LockOutput, Typed, TypeOK
<1>2. spendable' = spendable \ {o} /\ spendable \subseteq Outs
  BY DEF LockOutput, Typed, TypeOK
<1>3. Offered'
  BY <1>1, <1>2 DEF Tables, Offered
<1>4. HeldIsCommitted'
  BY <1>1 DEF Tables, HeldIsCommitted, Committed, Custom, Own, Outs
<1>5. PlansCommitted'
  BY DEF Tables, PlansCommitted, Committed, Own
<1> QED
  BY <1>3, <1>4, <1>5 DEF Tables

LEMMA CreateOutput ==
  ASSUME Typed, PlanInv, OutputInv, NEW p \in Callers, CreateActionStep(p)
  PROVE  Tables' /\ Call(s[p])'
<1> p \in Procs /\ s[p] \in Session /\ Tables /\ Call(s[p])
  BY DEF Procs, Typed, TypeOK, Tables, OutputInv
<1>i. "idle" \notin CallPcs /\ Idle.pc = "idle" /\ Funding \subseteq CallPcs
      /\ Funding \cap ({"commit", "idle"} \cup ReceivedPcs \cup StoringPcs) = {}
  BY IdleTyped DEF CallPcs, Funding, ReceivedPcs, StoringPcs
<1>u. s[p].pc \in Funding => s[p].t \in Txs /\ Unplanned(s[p].t) /\ Unknown(s[p].t)
  BY DEF PlanInv, FundersAlone, Funder, PlansFirst, Typed, HasTx, Untied, Purging, Listing,
     Funding
<1>1. CASE \E t \in Txs : createNewTxRecord(p, t)
  <2> PICK t \in Txs : createNewTxRecord(p, t)
    BY <1>1
  <2>1. /\ UNCHANGED <<outputs, req, plan, origin>> /\ ~plan[t].ready
        /\ \A u \in Txs \ {t} : tx'[u] = tx[u]
    BY DEF createNewTxRecord, network, Typed, TypeOK
  <2>2. \A u \in Txs : Committed(u) => Committed(u)'
    BY <2>1 DEF Committed
  <2>3. Tables'
    BY <2>1, <2>2, RowsOutput
  <2>4. PICK mode \in Modes, given \in SUBSET NoSendChange, fixed \in SUBSET (exists \ change) :
          s' = [s EXCEPT ![p] = [Idle EXCEPT !.pc = "fund", !.t = t, !.mode = mode,
                                   !.given = given, !.nsc = given, !.fixed = fixed]]
    <3>1. PICK mode \in Modes :
            \E given \in SUBSET (IF mode = "noSend" THEN NoSendChange ELSE {}) :
            \E fixed \in SUBSET RequiredInputs :
              s' = [s EXCEPT ![p] = [Idle EXCEPT !.pc = "fund", !.t = t, !.mode = mode,
                                       !.given = given, !.nsc = given, !.fixed = fixed]]
      BY DEF createNewTxRecord
    <3>2. RequiredInputs \subseteq exists \ change
      BY DEF RequiredInputs
    <3> QED
      BY <3>1, <3>2
  <2>5. /\ s'[p].pc = "fund" /\ s'[p].nsc = s'[p].given
        /\ s'[p].given = given /\ s'[p].fixed = fixed /\ s'[p].held = {}
    BY <2>4 DEF Typed, TypeOK, Session, Idle
  <2>6. \A u \in given \cup fixed : u \in exists
    BY DEF NoSendChange
  <2>7. \A u \in (given \cup fixed) \cap Txs : Own(u) => Committed(u)
    BY DEF NoSendChange, Tables, PlansCommitted, HeldIsCommitted, Custom
  <2>8. Call(s[p])'
    BY <2>1, <2>2, <2>5, <2>6, <2>7, <1>i DEF Call, Picked, Own, Funding, outputs
  <2> QED
    BY <2>3, <2>8
<1>2. CASE allocateNoSendChange(p) \/ allocateChangeInput(p) \/ createNewInput(p)
  <2>1. /\ UNCHANGED <<tx, req, exists, change, plan, origin>>
        /\ s[p].pc \in Funding /\ s'[p].pc = s[p].pc
    BY <1>2 DEF allocateNoSendChange, allocateChangeInput, createNewInput, network, At,
       Funding, Typed, TypeOK, Session
  <2>2. PICK o \in Outs :
          /\ LockOutput(o, s[p].t)
          /\ o \in s[p].nsc \cup Pending(p) \cup AvailableChange(s[p].mode)
          /\ \/ s' = [s EXCEPT ![p].nsc = @ \ {o}, ![p].held = @ \cup {o}]
             \/ s' = [s EXCEPT ![p].held = @ \cup {o}]
    <3>1. CASE allocateNoSendChange(p)
      BY <3>1 DEF allocateNoSendChange, Session
    <3>2. CASE allocateChangeInput(p)
      BY <3>2 DEF allocateChangeInput, AvailableChange, Typed, TypeOK
    <3>3. CASE createNewInput(p)
      BY <3>3 DEF createNewInput, Pending, Session
    <3> QED
      BY <1>2, <3>1, <3>2, <3>3
  <2>3. o \in exists /\ (o \in Txs /\ Own(o) => Committed(o))
    <3>1. CASE o \in s[p].nsc \cup Pending(p)
      BY <2>1, <3>1 DEF Call, Picked, Pending
    <3>2. CASE o \in AvailableChange(s[p].mode)
      BY <3>2 DEF AvailableChange, UsableStatus, OwnerStatus, PlanInv, PlansFirst, Unknown,
         Unplanned, Committed, CommitableStatus
    <3> QED
      BY <2>2, <3>1, <3>2
  <2>4. Tables'
    BY <1>u, <2>1, <2>2, <2>3, LockOutputTables
  <2>5. /\ s'[p].given = s[p].given /\ s'[p].fixed = s[p].fixed
        /\ s'[p].held = s[p].held \cup {o} /\ s'[p].nsc \subseteq s[p].nsc
    <3>1. CASE s' = [s EXCEPT ![p].held = @ \cup {o}]
      BY <3>1 DEF Typed, TypeOK, Session
    <3>2. CASE s' = [s EXCEPT ![p].nsc = @ \ {o}, ![p].held = @ \cup {o}]
      BY <3>2 DEF Typed, TypeOK, Session
    <3> QED
      BY <2>2, <3>1, <3>2
  <2>6. \A u \in Txs : (Committed(u)' <=> Committed(u)) /\ (Own(u)' <=> Own(u))
    BY <2>1 DEF Committed, Own
  <2>7. Call(s[p])'
    BY <2>1, <2>3, <2>5, <2>6, <1>i DEF Call, Picked
  <2> QED
    BY <2>4, <2>7
<1>3. CASE releaseChangeInput(p)
  <2>1. /\ UNCHANGED <<tx, req, exists, change, plan, origin>> /\ s[p].pc \in Funding
    BY <1>3 DEF releaseChangeInput, network, At, Funding
  <2>2. PICK o \in s[p].held :
          /\ UNCHANGED <<spendable, spentBy>> \/ UnlockOutput(o)
          /\ \/ s' = [s EXCEPT ![p].held = @ \ {o}, ![p].nsc = @ \cup {o}] /\ o \in s[p].given
             \/ s' = [s EXCEPT ![p].held = @ \ {o}]
    BY <1>3 DEF releaseChangeInput
  <2>3. o \in exists
    BY <2>1 DEF Call, Picked
  <2>4. /\ s'[p].given = s[p].given /\ s'[p].fixed = s[p].fixed /\ s'[p].pc = s[p].pc
        /\ s'[p].held \subseteq s[p].held /\ s'[p].nsc \subseteq s[p].nsc \cup s[p].given
    <3>1. CASE s' = [s EXCEPT ![p].held = @ \ {o}]
      BY <3>1 DEF Typed, TypeOK, Session
    <3>2. CASE s' = [s EXCEPT ![p].held = @ \ {o}, ![p].nsc = @ \cup {o}] /\ o \in s[p].given
      BY <3>2 DEF Typed, TypeOK, Session
    <3> QED
      BY <2>2, <3>1, <3>2
  <2>5. \A u \in Txs : (Committed(u)' <=> Committed(u)) /\ (Own(u)' <=> Own(u))
    BY <2>1 DEF Committed, Own
  <2>6. Call(s[p])'
    BY <2>1, <2>4, <2>5, <1>i DEF Call, Picked
  <2>7. /\ spendable' \subseteq spendable \cup {o}
        /\ \A x \in Outs : spentBy'[x] \in {spentBy[x], NoTx}
        /\ \/ o \notin spendable' \/ spentBy'[o] = NoTx
           \/ o \in spendable /\ spentBy'[o] = spentBy[o]
    BY <2>2, <2>3 DEF UnlockOutput, Typed, TypeOK
  <2>8. Tables'
    BY <2>1, <2>3, <2>5, <2>7
    DEF Tables, Offered, HeldIsCommitted, PlansCommitted, Custom, Typed, TypeOK, Outs
  <2> QED
    BY <2>6, <2>8
<1>4. CASE startRelease(p) \/ funded(p) \/ mergeAllocatedChangeBeefs(p) \/ released(p)
           \/ createNewInputThrows(p)
  <2>1. UNCHANGED <<tx, req, outputs, plan, origin>> /\ s[p].pc \in Funding
    BY <1>4 DEF startRelease, funded, mergeAllocatedChangeBeefs, released,
       createNewInputThrows, tables, outputs, network, At, Funding
  <2>2. \A u \in Txs : (Committed(u)' <=> Committed(u)) /\ (Own(u)' <=> Own(u))
    BY <2>1 DEF Committed, Own
  <2>3. Tables'
    BY <2>1, <2>2, RowsOutput
  <2>4. \/ Return(p) \/ \E pc \in Funding : Goto(p, pc)
        \/ \E again : s' = [s EXCEPT ![p].pc = "release", ![p].again = again]
    BY <1>4 DEF startRelease, funded, mergeAllocatedChangeBeefs, released,
       createNewInputThrows, Funding
  <2>5. CASE Return(p)
    <3>1. s'[p].pc \notin CallPcs
      BY <2>5, <1>i DEF Return, Typed, TypeOK
    <3> QED
      BY <2>3, <3>1, NoCall DEF Call, CallPcs
  <2>6. CASE ~Return(p)
    <3>1. /\ s'[p].given = s[p].given /\ s'[p].fixed = s[p].fixed /\ s'[p].pc \in Funding
          /\ s'[p].held = s[p].held /\ s'[p].nsc = s[p].nsc
      BY <2>4, <2>6 DEF Goto, Typed, TypeOK, Session, Funding
    <3> QED
      BY <2>1, <2>2, <2>3, <3>1, <1>i DEF Call, Picked, outputs
  <2> QED
    BY <2>5, <2>6
<1>5. CASE createNewOutputs(p)
  <2>1. /\ UNCHANGED <<tx, req, spentBy, plan, origin>> /\ s[p].pc \in Funding
        /\ exists' = exists \cup {s[p].t} /\ spendable' = spendable \cup {s[p].t}
        /\ change' = change \cup {s[p].t} /\ Goto(p, "mergeChangeBeefs")
    BY <1>5 DEF createNewOutputs, network, At, Funding
  <2>2. \A u \in Txs : /\ Committed(u)' <=> Committed(u)
                       /\ Own(u)' <=> Own(u)
                       /\ Custom(u)' => Custom(u)
    BY <2>1 DEF Committed, Own, Custom
  <2>3. spentBy[s[p].t] = NoTx
    BY <1>u, <2>1 DEF Tables, HeldIsCommitted, Committed, Unplanned
  <2>4. Tables'
    BY <2>1, <2>2, <2>3 DEF Tables, Offered, HeldIsCommitted, PlansCommitted
  <2>5. /\ s'[p].given = s[p].given /\ s'[p].fixed = s[p].fixed
        /\ s'[p].pc = "mergeChangeBeefs"
        /\ s'[p].held = s[p].held /\ s'[p].nsc = s[p].nsc
    BY <2>1 DEF Goto, Typed, TypeOK, Session
  <2>6. Call(s[p])'
    BY <2>1, <2>2, <2>5, <1>i DEF Call, Picked, Funding
  <2> QED
    BY <2>4, <2>6
<1>6. CASE createActionReturns(p)
  <2>1. /\ UNCHANGED <<tx, req, outputs, origin>> /\ s[p].pc \in Funding /\ Return(p)
        /\ plan' = [plan EXCEPT ![s[p].t] =
                      [ready |-> TRUE, mode |-> s[p].mode, inputs |-> s[p].held]]
    BY <1>6 DEF createActionReturns, tables, outputs, network, At, Funding
  <2>2. s'[p].pc \notin CallPcs
    BY <2>1, <1>i DEF Return, Typed, TypeOK
  <2>3. /\ \A u \in Txs \ {s[p].t} : plan'[u] = plan[u]
        /\ plan'[s[p].t].ready
    BY <2>1, <1>u DEF Typed, TypeOK
  <2>4. \A u \in Txs : (Committed(u) => Committed(u)') /\ (Own(u)' <=> Own(u))
    BY <2>1, <2>3, <1>u DEF Committed, Own, Unplanned
  <2>5. req[s[p].t].status = "none" /\ Own(s[p].t)
    BY <2>1, <1>u DEF Unplanned, Unknown
  <2>6. Tables'
    BY <2>1, <2>3, <2>4, <2>5
    DEF Tables, Offered, HeldIsCommitted, PlansCommitted, Custom, outputs
  <2> QED
    BY <2>2, <2>6 DEF Call, CallPcs
<1> QED
  BY <1>1, <1>2, <1>3, <1>4, <1>5, <1>6 DEF CreateActionStep

(* A step that commits nothing and inserts no output: what it makes        *)
(* spendable exists and is assigned to nobody.                             *)
Mild ==
  /\ UNCHANGED <<plan, origin, exists, change>>
  /\ \A t \in Txs : Committed(t) => Committed(t)'
  /\ \A t \in Txs : \/ req'[t].status = "none" \/ req[t].status # "none"
                    \/ plan[t].mode # "noSend"
  /\ \A o \in Outs : spentBy'[o] \in {spentBy[o], NoTx}
  /\ \A o \in spendable' : o \in spendable \/ (o \in exists /\ spentBy'[o] = NoTx)

LEMMA MildTables ==
  ASSUME Typed, Tables, Mild
  PROVE  Tables'
<1>1. Offered'
  BY DEF Mild, Tables, Offered, Typed, TypeOK
<1>2. HeldIsCommitted' /\ PlansCommitted'
  BY DEF Mild, Tables, HeldIsCommitted, PlansCommitted, Own, Custom, Outs
<1> QED
  BY <1>1, <1>2 DEF Tables

LEMMA MildCall ==
  ASSUME Mild, NEW r, Call(r)
  PROVE  Call(r)'
<1>1. r.pc \in Funding =>
        /\ r.nsc \subseteq r.given /\ Picked(r) \subseteq exists
        /\ \A t \in Picked(r) \cap Txs : Own(t)' => Committed(t)'
  BY DEF Call, Mild, Own
<1>2. r.pc = "commit" =>
        /\ r.t \in Txs /\ plan[r.t].ready /\ r.mode = plan[r.t].mode
        /\ spentBy'[r.t] = NoTx /\ ~Custom(r.t)
  BY DEF Call, Mild, Outs
<1>3. r.pc \in StoringPcs => r.t \in Txs /\ (Own(r.t) => Committed(r.t)')
  BY DEF Call, Mild
<1>4. r.pc \in ReceivedPcs => ~Own(r.t)
  BY DEF Call
<1> QED
  BY <1>1, <1>2, <1>3, <1>4 DEF Call, Mild, Own, Custom, Picked

LEMMA MildCalls ==
  ASSUME Typed, OutputInv, Mild,
         \A p \in Callers : s'[p] = s[p] \/ s'[p].pc \notin CallPcs
  PROVE  OutputInv'
<1>1. Tables'
  BY MildTables DEF OutputInv
<1>2. ASSUME NEW p \in Callers PROVE Call(s[p])'
  <2>1. CASE s'[p] = s[p]
    <3> PICK r : r = s[p]
      OBVIOUS
    <3>1. Call(r)'
      BY MildCall DEF OutputInv
    <3> QED
      BY <2>1, <3>1 DEF Call, Picked
  <2>2. CASE s'[p].pc \notin CallPcs
    <3> PICK r : r = s'[p]
      OBVIOUS
    <3> QED
      BY <2>2 DEF Call, CallPcs
  <2> QED
    BY <2>1, <2>2
<1> QED
  BY <1>1, <1>2 DEF OutputInv

LEMMA ReleaseMild ==
  ASSUME Typed, Tables, NEW T \in SUBSET Txs, ReleaseInputs(T)
  PROVE  /\ UNCHANGED <<exists, change>>
         /\ \A o \in Outs : spentBy'[o] \in {spentBy[o], NoTx}
         /\ \A o \in spendable' : o \in spendable \/ (o \in exists /\ spentBy'[o] = NoTx)
<1> DEFINE freed == UNION {getInputs(t) : t \in T}
<1>1. freed \subseteq Outs /\ \A o \in freed : spentBy[o] \in T
  BY DEF getInputs
<1>2. ASSUME NEW o \in freed PROVE o \in exists
  BY <1>1, NamesAssumption DEF Tables, Offered, Outs
<1> QED
  BY <1>1, <1>2 DEF ReleaseInputs, Typed, TypeOK

(* No req comes up. *)
NoNewReq == \A t \in Txs : req'[t].status = "none" \/ req[t].status # "none"

LEMMA WriteNoReq ==
  ASSUME Typed, NEW t, NEW copy, WriteReq(t, copy) \/ UNCHANGED req
  PROVE  NoNewReq
  BY DEF WriteReq, NoNewReq, Typed, TypeOK

(* Rows get a status from which nothing is committed. *)
StatusMoves ==
  \A t \in Txs : tx'[t].status = tx[t].status \/ tx'[t].status \notin CommitableStatus

LEMMA RowsMild ==
  ASSUME UNCHANGED <<outputs, plan, origin>>, NoNewReq, StatusMoves
  PROVE  Mild
  BY DEF Mild, NoNewReq, StatusMoves, Committed, outputs

LEMMA UpdateMild ==
  ASSUME Typed, Tables, NEW t \in Txs, NEW status, status \notin CommitableStatus,
         updateTransactionStatus(t, status) \/ UNCHANGED <<tx, outputs>>,
         UNCHANGED <<plan, origin>>, NoNewReq
  PROVE  Mild
<1>1. StatusMoves
  BY DEF updateTransactionStatus, StatusMoves, Typed, TypeOK, TxRow
<1>2. CASE UNCHANGED outputs
  BY <1>1, <1>2, RowsMild
<1>3. CASE ~UNCHANGED outputs
  <2>1. ReleaseInputs({t})
    BY <1>3 DEF updateTransactionStatus, outputs
  <2>2. /\ UNCHANGED <<exists, change>>
        /\ \A o \in Outs : spentBy'[o] \in {spentBy[o], NoTx}
        /\ \A o \in spendable' : o \in spendable \/ (o \in exists /\ spentBy'[o] = NoTx)
    BY <2>1, ReleaseMild
  <2> QED
    BY <1>1, <2>2 DEF Mild, NoNewReq, StatusMoves, Committed
<1> QED
  BY <1>2, <1>3

LEMMA UpdateTxMoves ==
  ASSUME Typed, NEW t, NEW row, row.status \notin CommitableStatus,
         tx' = [tx EXCEPT ![t] = UpdateTx(t, row)]
  PROVE  StatusMoves
  BY DEF UpdateTx, StatusMoves, Typed, TypeOK

(* The steps from which no call is in one of the states Call is about. *)
Leaves(p) ==
  /\ \A q \in Procs \ {p} : s'[q] = s[q]
  /\ s'[p].pc \notin CallPcs \/ s'[p] = s[p]

LEMMA LeavesPcs ==
  /\ Idle.pc \notin CallPcs
  /\ CallPcs \cap {"share", "bump", "mergeBeef", "postBeef", "transferNotes", "refresh",
                   "updateReq", "updateTx"} = {}
  BY IdleTyped DEF CallPcs, Funding, ReceivedPcs, StoringPcs

LEMMA GotoLeaves ==
  ASSUME Typed, NEW p \in Procs, NEW pc,
         (Goto(p, pc) /\ pc \notin CallPcs) \/ Return(p)
  PROVE  Leaves(p)
  BY LeavesPcs DEF Goto, Return, Leaves, Typed, TypeOK, Session

LEMMA PostOutput ==
  ASSUME Typed, Tables, NEW p \in Procs, PostStep(p)
  PROVE  Mild /\ Leaves(p)
<1> s[p].pc \in {"updateTx"} => s[p].t \in Txs
  BY TiedPcs DEF Typed, HasTx
<1>1. CASE mergeBeef(p) \/ transferNotes(p) \/ mergeBeefThrows(p)
  <2>1. UNCHANGED <<tx, outputs, plan, origin>> /\ NoNewReq
    BY <1>1, WriteNoReq DEF mergeBeef, transferNotes, mergeBeefThrows, tables, outputs, network
  <2>2. Leaves(p)
    BY <1>1, GotoLeaves, LeavesPcs DEF mergeBeef, transferNotes, mergeBeefThrows
  <2> QED
    BY <2>1, <2>2, RowsMild DEF StatusMoves
<1>2. CASE postBeef(p) \/ refreshReq(p) \/ updateReqFromResult(p)
  <2>1. UNCHANGED <<tx, outputs, plan, origin>> /\ NoNewReq
    BY <1>2, WriteNoReq
    DEF postBeef, refreshReq, updateReqFromResult, tables, outputs, network
  <2>2. Leaves(p)
    <3>1. CASE postBeef(p)
      <4>1. PICK v : s' = [s EXCEPT ![p].pc = "transferNotes", ![p].verdict = v]
        BY <3>1 DEF postBeef
      <4> QED
        BY <4>1, LeavesPcs DEF Leaves, Typed, TypeOK, Session
    <3>2. CASE refreshReq(p)
      <4>1. CASE Return(p)
        BY <4>1, GotoLeaves
      <4>2. CASE s' = [s EXCEPT ![p].copy = req[s[p].t], ![p].pc = "updateReq"]
        BY <4>2, LeavesPcs DEF Leaves, Typed, TypeOK, Session
      <4> QED
        BY <3>2, <4>1, <4>2 DEF refreshReq
    <3>3. CASE updateReqFromResult(p)
      <4>1. PICK v : s' = [s EXCEPT ![p].verdict = v, ![p].pc = "updateTx"]
        BY <3>3 DEF updateReqFromResult
      <4> QED
        BY <4>1, LeavesPcs DEF Leaves, Typed, TypeOK, Session
    <3> QED
      BY <1>2, <3>1, <3>2, <3>3
  <2> QED
    BY <2>1, <2>2, RowsMild DEF StatusMoves
<1>3. CASE updateTxFromResult(p)
  <2>1. s[p].t \in Txs /\ NoNewReq /\ UNCHANGED <<plan, origin>>
    BY <1>3, WriteNoReq DEF updateTxFromResult, At, network
  <2>2. PICK status : /\ status = NewStatus(s[p].verdict).tx
                      /\ \/ updateTransactionStatus(s[p].t, status)
                         \/ UNCHANGED <<tx, outputs>>
    BY <1>3 DEF updateTxFromResult
  <2>3. status \notin CommitableStatus
    <3>1. s[p].verdict \in {"success", "doubleSpend", "invalidTx", "serviceError"}
      BY <1>3 DEF updateTxFromResult, At, Typed, TypeOK, Session, HasVerdict, Posted, Verdicts
    <3> QED
      BY <2>2, <3>1 DEF NewStatus, CommitableStatus
  <2>4. Leaves(p)
    BY <1>3, GotoLeaves DEF updateTxFromResult
  <2> QED
    BY <2>1, <2>2, <2>3, <2>4, UpdateMild
<1> QED
  BY <1>1, <1>2, <1>3 DEF PostStep

LEMMA MildCaller ==
  ASSUME Typed, OutputInv, NEW p \in Callers, Mild, Leaves(p)
  PROVE  Tables' /\ Call(s[p])'
<1> PICK r : r = s'[p]
  OBVIOUS
<1>1. Tables'
  BY MildTables DEF OutputInv
<1>2. Call(r)'
  <2>1. CASE s'[p] = s[p]
    BY <2>1, MildCall DEF OutputInv
  <2>2. CASE s'[p].pc \notin CallPcs
    BY <2>2 DEF Call, CallPcs
  <2> QED
    BY <2>1, <2>2 DEF Leaves
<1> QED
  BY <1>1, <1>2 DEF Call, Picked

LEMMA ProcessOutput ==
  ASSUME Typed, PlanInv, OutputInv, NEW p \in Callers, ProcessActionStep(p)
  PROVE  Tables' /\ Call(s[p])'
<1> p \in Procs /\ s[p] \in Session /\ Tables /\ Call(s[p])
  BY DEF Procs, Typed, TypeOK, OutputInv
<1>t. s[p].pc \in {"commit", "bump"} => s[p].t \in Txs
  BY TiedPcs DEF Typed, HasTx
<1>1. CASE PostStep(p)
  BY <1>1, PostOutput, MildCaller
<1>2. CASE \E t \in Txs : validateCommitNewTx(p, t)
  <2> PICK t \in Txs : validateCommitNewTx(p, t)
    BY <1>2
  <2>1. /\ UNCHANGED <<tx, req, outputs, plan, origin>>
        /\ plan[t].ready /\ tx[t].status \in CommitableStatus
        /\ s' = [s EXCEPT ![p] = [Idle EXCEPT !.pc = "commit", !.t = t, !.mode = plan[t].mode]]
    BY DEF validateCommitNewTx, tables, outputs, network
  <2>2. Tables'
    BY <2>1, MildTables, RowsMild DEF NoNewReq, StatusMoves
  <2>3. s'[p].pc = "commit" /\ s'[p].t = t /\ s'[p].mode = plan[t].mode
    BY <2>1 DEF Typed, TypeOK, Session, Idle
  <2>4. spentBy[t] = NoTx /\ ~Custom(t)
    BY <2>1 DEF Tables, HeldIsCommitted, PlansCommitted, Committed
  <2>5. Call(s[p])'
    BY <2>1, <2>3, <2>4 DEF Call, Custom, outputs, Funding, ReceivedPcs, StoringPcs
  <2> QED
    BY <2>2, <2>5
<1>3. CASE commitNewTxToStorage(p)
  <2> PICK t : t = s[p].t
    OBVIOUS
  <2>0. t \in Txs /\ plan[t].ready /\ s[p].mode = plan[t].mode
        /\ spentBy[t] = NoTx /\ ~Custom(t)
    BY <1>3, <1>t DEF commitNewTxToStorage, At, Call
  <2>1. /\ UNCHANGED <<exists, spentBy, change, plan, origin>>
        /\ spendable' = spendable \cup ({t} \cap exists)
    BY <1>3 DEF commitNewTxToStorage, network
  <2>2. /\ \A u \in Txs \ {t} : tx'[u] = tx[u] /\ req'[u] = req[u]
        /\ tx'[t].status \in {"none", CreateStatus(s[p].mode).tx}
    BY <2>0, <1>3 DEF commitNewTxToStorage, UpdateTx, Typed, TypeOK, TxRow
  <2>3. Own(t)
    BY <2>0 DEF Tables, PlansCommitted
  <2>4. plan[t].mode = "noSend" => Committed(t)'
    BY <2>0, <2>1, <2>2 DEF CreateStatus, Committed, CommitableStatus
  <2>5. \A u \in Txs \ {t} : Committed(u)' <=> Committed(u)
    BY <2>1, <2>2 DEF Committed
  <2>6. Offered'
    BY <2>0, <2>1 DEF Tables, Offered
  <2>7. HeldIsCommitted'
    BY <2>0, <2>1, <2>5 DEF Tables, HeldIsCommitted, Custom, Own
  <2>8. PlansCommitted'
    BY <2>0, <2>1, <2>2, <2>4, <2>5 DEF Tables, PlansCommitted, Own
  <2>9. Leaves(p)
    BY <1>3, GotoLeaves, LeavesPcs DEF commitNewTxToStorage
  <2>10. s'[p].pc \notin CallPcs
    BY <1>3, LeavesPcs DEF commitNewTxToStorage, Goto, Return, Typed, TypeOK, Session
  <2> QED
    BY <2>6, <2>7, <2>8, <2>10 DEF Tables, Call, CallPcs
<1>4. CASE \E t \in Txs : sendWith(p, t)
  <2>1. UNCHANGED <<tx, req, outputs, plan, origin>>
    BY <1>4 DEF sendWith, tables, outputs, network
  <2>2. PICK t \in Txs, mode \in {"delayed", "now"} :
          s' = [s EXCEPT ![p] = [Idle EXCEPT !.pc = "share", !.t = t, !.mode = mode]]
    BY <1>4 DEF sendWith
  <2>3. Leaves(p)
    BY <2>2, LeavesPcs DEF Leaves, Typed, TypeOK, Idle, Session
  <2> QED
    BY <2>1, <2>3, RowsMild, MildCaller DEF NoNewReq, StatusMoves
<1>5. CASE \E t \in Txs : abortAction(p, t)
  <2>1. PICK t \in Txs : abortAction(p, t)
    BY <1>5
  <2>2. UNCHANGED <<plan, origin, s>> /\ NoNewReq
        /\ updateTransactionStatus(t, "failed")
    BY <2>1 DEF abortAction, abortTx, network, NoNewReq, Typed, TypeOK
  <2>3. Leaves(p)
    BY <2>2 DEF Leaves
  <2> QED
    BY <2>2, <2>3, UpdateMild, MildCaller DEF CommitableStatus
<1>6. CASE getReqsAndBeef(p)
  <2>1. UNCHANGED <<tx, req, outputs, plan, origin>>
    BY <1>6 DEF getReqsAndBeef, tables, outputs, network
  <2>2. Leaves(p)
    <3>1. CASE Return(p)
      BY <3>1, GotoLeaves
    <3>2. CASE \E pc \in {"bump", "mergeBeef"} :
                 s' = [s EXCEPT ![p].copy = req[s[p].t], ![p].pc = pc]
      BY <3>2, LeavesPcs DEF Leaves, Typed, TypeOK, Session
    <3> QED
      BY <1>6, <3>1, <3>2 DEF getReqsAndBeef
  <2> QED
    BY <2>1, <2>2, RowsMild, MildCaller DEF NoNewReq, StatusMoves
<1>7. CASE bumpToUnsent(p)
  <2>1. UNCHANGED <<outputs, plan, origin>> /\ NoNewReq
    BY <1>7 DEF bumpToUnsent, network, NoNewReq, Typed, TypeOK
  <2>2. StatusMoves
    BY <1>7 DEF bumpToUnsent, StatusMoves, UpdateTx, CommitableStatus, Typed, TypeOK, TxRow
  <2>3. Leaves(p)
    BY <1>7, GotoLeaves DEF bumpToUnsent
  <2> QED
    BY <2>1, <2>2, <2>3, RowsMild, MildCaller
<1> QED
  BY <1>1, <1>2, <1>3, <1>4, <1>5, <1>6, <1>7 DEF ProcessActionStep

LEMMA InternalizeOutput ==
  ASSUME Typed, PlanInv, OutputInv, NEW p \in Callers, InternalizeActionStep(p)
  PROVE  Tables' /\ Call(s[p])'
<1> p \in Procs /\ s[p] \in Session /\ Tables /\ Call(s[p])
  BY DEF Procs, Typed, TypeOK, OutputInv
<1> PICK t : t = s[p].t
  OBVIOUS
<1>t. s[p].pc \in ReceivedPcs \cup StoringPcs => t \in Txs
  BY DEF Typed, HasTx, ReceivedPcs, StoringPcs, Untied, Purging, Listing
<1>d. /\ ReceivedPcs \cap (Funding \cup {"commit"} \cup StoringPcs) = {}
      /\ StoringPcs \cap (Funding \cup {"commit"}) = {}
  BY DEF ReceivedPcs, StoringPcs, Funding
<1>1. CASE \E u \in Txs : internalizeAction(p, u)
  <2> PICK u \in Txs : internalizeAction(p, u)
    BY <1>1
  <2>1. UNCHANGED <<tx, req, outputs, plan, origin>>
    BY DEF internalizeAction, tables, outputs, network
  <2>2. Tables'
    BY <2>1, MildTables, RowsMild DEF NoNewReq, StatusMoves
  <2>3. \/ /\ s'[p].pc \in StoringPcs /\ s'[p].t = u
           /\ ~Own(u) \/ plan[u].ready
           /\ tx[u].status \in MergeStatus
        \/ s'[p].pc \in ReceivedPcs /\ s'[p].t = u /\ ~Own(u)
    <3>1. PICK pc \in StoringPcs \cup ReceivedPcs :
            /\ s' = [s EXCEPT ![p] = [Idle EXCEPT !.t = u, !.pc = pc]]
            /\ \/ /\ pc \in StoringPcs /\ tx[u].status \in MergeStatus
                  /\ ~Own(u) \/ plan[u].ready
               \/ pc \in ReceivedPcs /\ ~Own(u)
      BY DEF internalizeAction, StoringPcs, ReceivedPcs
    <3>2. s'[p].pc = pc /\ s'[p].t = u
      BY <3>1 DEF Typed, TypeOK, Idle
    <3> QED
      BY <3>1, <3>2
  <2>4. tx[u].status \in MergeStatus => tx[u].status \notin CommitableStatus
    BY DEF MergeStatus, CommitableStatus
  <2> QED
    BY <1>d, <2>1, <2>2, <2>3, <2>4 DEF Call, Committed, Own
<1>2. CASE findOrInsertProvenTx(p)
  <2>1. UNCHANGED <<tx, req, outputs, plan, origin>> /\ s[p].pc \in ReceivedPcs
    BY <1>2 DEF findOrInsertProvenTx, At, outputs, network, ReceivedPcs
  <2>2. Tables'
    BY <2>1, MildTables, RowsMild DEF NoNewReq, StatusMoves
  <2>3. s'[p].pc \in ReceivedPcs /\ s'[p].t = s[p].t
    BY <1>2 DEF findOrInsertProvenTx, Goto, Typed, TypeOK, Session, ReceivedPcs
  <2> QED
    BY <1>d, <2>1, <2>2, <2>3 DEF Call, Own
<1>3. CASE insertCompleted(p) \/ insertUnproven(p)
  <2>1. UNCHANGED <<req, outputs, plan, origin>> /\ s[p].pc \in ReceivedPcs
    BY <1>3 DEF insertCompleted, insertUnproven, At, outputs, network, ReceivedPcs
  <2>2. StatusMoves
    BY <1>3 DEF insertCompleted, insertUnproven, InsertTx, StatusMoves, CommitableStatus,
       Typed, TypeOK
  <2>3. Tables'
    BY <2>1, <2>2, MildTables, RowsMild DEF NoNewReq
  <2>4. (s'[p].t = s[p].t /\ s'[p].pc \in ReceivedPcs \cup StoringPcs) \/ s'[p].pc \notin CallPcs
    BY <1>3, LeavesPcs DEF insertCompleted, insertUnproven, InsertTx, Goto, Return, Typed,
       TypeOK, Session, ReceivedPcs, StoringPcs
  <2> QED
    BY <1>d, <1>t, <2>1, <2>3, <2>4 DEF Call, CallPcs, Own
<1>4. CASE getProvenOrReq(p)
  <2>1. UNCHANGED <<tx, outputs, plan, origin>> /\ t \in Txs /\ ~Own(t)
        /\ s[p].pc \in ReceivedPcs
    BY <1>4, <1>t DEF getProvenOrReq, At, outputs, network, ReceivedPcs, Call
  <2>2. \A u \in Txs \ {t} : req'[u] = req[u]
    BY <1>4 DEF getProvenOrReq, Typed, TypeOK
  <2>3. plan[t].mode # "noSend"
    BY <2>1 DEF Tables, PlansCommitted
  <2>4. Tables'
    BY <2>1, <2>2, <2>3, MildTables DEF Mild, Committed, outputs
  <2>5. s'[p].t = t /\ s'[p].pc \in StoringPcs
    BY <1>4 DEF getProvenOrReq, Goto, Typed, TypeOK, Session, StoringPcs
  <2> QED
    BY <1>d, <2>1, <2>4, <2>5 DEF Call, Own
<1>5. CASE storeOutput(p)
  <2>1. UNCHANGED <<tx, req, spentBy, plan, origin>> /\ t \in Txs
        /\ (Own(t) => Committed(t))
    BY <1>5, <1>t DEF storeOutput, At, outputs, network, StoringPcs, Call
  <2>2. \/ UNCHANGED outputs
        \/ /\ t \notin exists
           /\ exists' = exists \cup {t} /\ spendable' = spendable \cup {t}
           /\ change' \in {change \cup {t}, change}
    BY <1>5 DEF storeOutput
  <2>3. \A u \in Txs : /\ Committed(u)' <=> Committed(u)
                       /\ Own(u)' <=> Own(u)
    BY <2>1 DEF Committed, Own
  <2>4. Offered'
    BY <2>1, <2>2 DEF Tables, Offered, Outs, outputs
  <2>5. \A u \in Txs \ {t} : Custom(u)' => Custom(u)
    BY <2>2 DEF Custom, outputs
  <2>6. HeldIsCommitted' /\ PlansCommitted'
    BY <2>1, <2>3, <2>5 DEF Tables, HeldIsCommitted, PlansCommitted
  <2>7. s'[p].pc \notin CallPcs
    BY <1>5, LeavesPcs DEF storeOutput, Return, Typed, TypeOK
  <2> QED
    BY <2>4, <2>6, <2>7 DEF Tables, Call, CallPcs
<1>6. CASE mergeOutput(p)
  <2>1. UNCHANGED <<tx, req, exists, spendable, spentBy, plan, origin>> /\ t \in Txs
        /\ (Own(t) => Committed(t))
    BY <1>6, <1>t DEF mergeOutput, At, network, StoringPcs, Call
  <2>2. \A u \in Txs \ {t} : Custom(u)' => Custom(u)
    BY <1>6, <2>1 DEF mergeOutput, Custom
  <2>3. \A u \in Txs : /\ Committed(u)' <=> Committed(u)
                       /\ Own(u)' <=> Own(u)
    BY <2>1 DEF Committed, Own
  <2>4. Tables'
    BY <2>1, <2>2, <2>3 DEF Tables, Offered, HeldIsCommitted, PlansCommitted
  <2>5. s'[p].pc \notin CallPcs
    BY <1>6, LeavesPcs DEF mergeOutput, Return, Typed, TypeOK
  <2> QED
    BY <2>4, <2>5 DEF Call, CallPcs
<1> QED
  BY <1>1, <1>2, <1>3, <1>4, <1>5, <1>6 DEF InternalizeActionStep

LEMMA ListSpecOpsOutput ==
  ASSUME Typed, PlanInv, OutputInv, NEW p \in Callers, ListSpecOpsStep(p)
  PROVE  Tables' /\ Call(s[p])'
<1> p \in Procs /\ s[p] \in Session /\ Tables
  BY DEF Procs, Typed, TypeOK, OutputInv
<1>d. CallPcs \cap (Listing \cup {"idle"}) = {} /\ Idle.pc = "idle"
  BY IdleTyped DEF CallPcs, Funding, ReceivedPcs, StoringPcs, Listing
<1>1. s[p].pc \in Listing \cup {"idle"} /\ UNCHANGED <<plan, origin>>
  BY DEF ListSpecOpsStep, listNoSends, listFailed, listChange, Listed, abortListed,
     unfailListed, filterOutputs, releaseListed, listed, At, network, Listing
<1>2. Leaves(p)
  <2>1. CASE listNoSends(p) \/ listFailed(p) \/ listChange(p)
    <3>1. PICK pc \in Listing : \E held :
            s' = [s EXCEPT ![p] = [Idle EXCEPT !.pc = pc, !.held = held]]
      BY <2>1 DEF listNoSends, listFailed, listChange, Listed, Listing
    <3>2. PICK held : s' = [s EXCEPT ![p] = [Idle EXCEPT !.pc = pc, !.held = held]]
      BY <3>1
    <3> QED
      BY <1>d, <3>2 DEF Leaves, Typed, TypeOK, Idle
  <2>2. CASE abortListed(p) \/ unfailListed(p) \/ releaseListed(p) \/ listed(p)
    <3>1. CASE Return(p)
      BY <3>1, GotoLeaves
    <3>2. CASE \E x : Rest(p, x)
      BY <1>1, <1>d, <3>2 DEF Rest, Leaves, Typed, TypeOK, Session
    <3> QED
      BY <2>2, <3>1, <3>2 DEF abortListed, unfailListed, releaseListed, listed
  <2>3. CASE filterOutputs(p)
    <3>1. PICK held : s' = [s EXCEPT ![p].pc = "releaseListed", ![p].held = held]
      BY <2>3 DEF filterOutputs
    <3> QED
      BY <1>d, <3>1 DEF Leaves, Typed, TypeOK, Session, Listing
  <2> QED
    BY <2>1, <2>2, <2>3 DEF ListSpecOpsStep
<1>3. CASE abortListed(p)
  <2>1. PICK t \in Txs : \/ abortTx(t)
                         \/ UNCHANGED <<tx, req, outputs>>
    BY <1>3 DEF abortListed
  <2>2. NoNewReq
    <3>1. CASE abortTx(t)
      BY <3>1 DEF abortTx, NoNewReq, Typed, TypeOK, ReqRow
    <3>2. CASE UNCHANGED req
      BY <3>2 DEF NoNewReq
    <3> QED
      BY <2>1, <3>1, <3>2
  <2> QED
    BY <1>1, <1>2, <2>1, <2>2, UpdateMild, MildCaller DEF abortTx, CommitableStatus
<1>4. CASE unfailListed(p)
  <2>1. StatusMoves
    BY <1>4 DEF unfailListed, StatusMoves, UpdateTx, CommitableStatus, Typed, TypeOK, TxRow
  <2> QED
    BY <1>1, <1>2, <1>4, <2>1, RowsMild, MildCaller DEF unfailListed, NoNewReq
<1>5. CASE releaseListed(p)
  <2>1. /\ UNCHANGED <<tx, req, exists, spentBy, change>> /\ spendable' \subseteq spendable
    BY <1>5 DEF releaseListed
  <2> QED
    BY <1>1, <1>2, <2>1, MildCaller DEF Mild, Committed
<1>6. CASE listNoSends(p) \/ listFailed(p) \/ listChange(p) \/ filterOutputs(p) \/ listed(p)
  <2>1. UNCHANGED <<tx, req, outputs>>
    BY <1>6 DEF listNoSends, listFailed, listChange, Listed, filterOutputs, listed, tables,
       outputs
  <2> QED
    BY <1>1, <1>2, <2>1, RowsMild, MildCaller DEF NoNewReq, StatusMoves
<1> QED
  BY <1>3, <1>4, <1>5, <1>6 DEF ListSpecOpsStep

(* The monitor has its own locals. *)
LEMMA MonitorOnly ==
  ASSUME Typed, MonitorStep \/ PurgeStep
  PROVE  \A p \in Callers : s'[p] = s[p]
<1> SUFFICES ASSUME NEW p \in Callers PROVE s'[p] = s[p]
  OBVIOUS
<1> p # M /\ p \in Procs /\ M \in Procs
  BY NamesAssumption DEF Procs, M
<1> USE DEF Typed, TypeOK
<1>1. CASE SendWaitingStep \/ FailAbandonedStep \/ ReviewStatusStep
  BY <1>1 DEF SendWaitingStep, sendWaiting, processUnsent, FailAbandonedStep, failAbandoned,
     failAbandonedTx, ReviewStatusStep, reviewStatus, failWhereReqInvalid,
     releaseWhereTxFailed, completeWhereProven, Read, Goto, Return
<1>2. CASE UnFailStep
  BY <1>2 DEF UnFailStep, assignUnfail, unfail, getUnfailPath, unfailTx, unfailReq, Read, Goto,
     Return
<1>3. CASE GetProofsStep
  <2>1. CASE getMerklePath
    BY <2>1 DEF getMerklePath
  <2>2. CASE ~getMerklePath
    BY <1>3, <2>2 DEF GetProofsStep, checkForProofs, checkNoSends, settleCopy, proofTooNew,
       saveCopy, refreshCopy, newProvenTx, insertProvenTx, notifyTx, saveNotified, finishProof,
       Read, Goto, Return
  <2> QED
    BY <2>1, <2>2
<1>4. CASE PurgeStep
  BY <1>4 DEF PurgeStep, purge, purgeCompleted, selectFailed, deleteFailedOutputs,
     markNotSpentBy, deleteFailedTxs, deleteFailedReqs, selectSpent, selectSpentThrows,
     forgetSpentBy, deleteSpentOutputs, deleteSpentTxs, deleteOrphans, Goto, Return
<1> QED
  BY <1>1, <1>2, <1>3, <1>4 DEF MonitorStep

LEMMA MonitorOutput ==
  ASSUME Typed, PlanInv, Tables, "UnFail" \notin Tasks, MonitorStep
  PROVE  Mild /\ \A p \in Callers : s'[p] = s[p]
<1> Monitor \in Procs /\ M = Monitor
  BY DEF Procs, M
<1>s. \A p \in Callers : s'[p] = s[p]
  BY MonitorOnly
<1>1. CASE failAbandonedTx
  <2>1. s[Monitor].t \in Txs
    BY <1>1 DEF failAbandonedTx, At, Typed, HasTx, Untied, Purging, Listing
  <2> QED
    BY <1>1, <1>s, <2>1, UpdateMild DEF failAbandonedTx, CommitableStatus, NoNewReq, network
<1>2. CASE releaseWhereTxFailed
  <2> DEFINE T == {t \in Txs : tx[t].status = "failed"}
  <2>1. UNCHANGED <<tx, req, plan, origin>> /\ ReleaseInputs(T)
    BY <1>2 DEF releaseWhereTxFailed, network
  <2>2. T \in SUBSET Txs
    OBVIOUS
  <2> HIDE DEF T
  <2>3. /\ UNCHANGED <<exists, change>>
        /\ \A o \in Outs : spentBy'[o] \in {spentBy[o], NoTx}
        /\ \A o \in spendable' : o \in spendable \/ (o \in exists /\ spentBy'[o] = NoTx)
    BY <2>1, <2>2, ReleaseMild
  <2> QED
    BY <1>s, <2>1, <2>3 DEF Mild, Committed
<1>3. CASE notifyTx
  <2>1. UNCHANGED <<req, outputs, plan, origin>>
    BY <1>3 DEF notifyTx, network
  <2>2. StatusMoves
    <3>1. CASE UNCHANGED tx
      BY <3>1 DEF StatusMoves
    <3>2. CASE ~UNCHANGED tx
      BY <1>3, <3>2, UpdateTxMoves DEF notifyTx, CommitableStatus
    <3> QED
      BY <3>1, <3>2
  <2> QED
    BY <1>s, <2>1, <2>2, RowsMild DEF NoNewReq
<1>4. CASE failWhereReqInvalid \/ completeWhereProven
  <2>1. UNCHANGED <<req, outputs, plan, origin>>
    BY <1>4 DEF failWhereReqInvalid, completeWhereProven, network
  <2>2. StatusMoves
    <3>1. CASE failWhereReqInvalid
      BY <3>1 DEF failWhereReqInvalid, UpdateTx, StatusMoves, CommitableStatus, Typed, TypeOK,
         TxRow
    <3>2. CASE completeWhereProven
      BY <3>2 DEF completeWhereProven, StatusMoves, CommitableStatus
    <3> QED
      BY <1>4, <3>1, <3>2
  <2> QED
    BY <1>s, <2>1, <2>2, RowsMild DEF NoNewReq
<1>5. CASE ~(failAbandonedTx \/ notifyTx \/ releaseWhereTxFailed \/ failWhereReqInvalid
               \/ completeWhereProven)
  <2>1. UNCHANGED <<tx, outputs, plan, origin>> /\ NoNewReq
    <3>1. CASE SendWaitingStep
      BY <3>1 DEF SendWaitingStep, sendWaiting, processUnsent, Read, tables, network, outputs,
         NoNewReq
    <3>2. CASE GetProofsStep
      <4>1. UNCHANGED <<tx, outputs, plan, origin>>
        BY <3>2, <1>5 DEF GetProofsStep, checkForProofs, checkNoSends, settleCopy,
           getMerklePath, proofTooNew, saveCopy, refreshCopy, newProvenTx, insertProvenTx,
           saveNotified, finishProof, Read, tables, outputs, network
      <4>2. \/ UNCHANGED req
            \/ \E t, copy : WriteReq(t, copy)
        BY <3>2, <1>5 DEF GetProofsStep, checkForProofs, checkNoSends, settleCopy,
           getMerklePath, proofTooNew, saveCopy, refreshCopy, newProvenTx, insertProvenTx,
           saveNotified, finishProof, Read, tables
      <4> QED
        BY <4>1, <4>2, WriteNoReq
    <3>3. CASE FailAbandonedStep \/ ReviewStatusStep
      BY <3>3, <1>5 DEF FailAbandonedStep, failAbandoned, ReviewStatusStep, reviewStatus,
         Read, tables, outputs, network, NoNewReq
    <3>4. CASE UnFailStep
      <4>1. ~unfailTx
        BY DEF PlanInv, RowsStay, Installed, unfailTx, At
      <4>2. UNCHANGED <<tx, outputs, plan, origin>>
        BY <3>4, <4>1 DEF UnFailStep, assignUnfail, unfail, getUnfailPath, unfailReq, Read,
           tables, outputs, network
      <4>3. UNCHANGED req \/ \E t, copy : WriteReq(t, copy)
        BY <3>4, <4>1 DEF UnFailStep, assignUnfail, unfail, getUnfailPath, unfailReq, Read,
           tables
      <4> QED
        BY <4>2, <4>3, WriteNoReq
    <3> QED
      BY <3>1, <3>2, <3>3, <3>4 DEF MonitorStep
  <2> QED
    BY <1>s, <2>1, RowsMild DEF StatusMoves
<1> QED
  BY <1>1, <1>2, <1>3, <1>4, <1>5

(* The purge deletes outputs while no call is under way.                   *)
LEMMA PurgeOutput ==
  ASSUME Typed, Locked, PlanInv, ManagerLocks, OutputInv, PurgeStep
  PROVE  OutputInv'
<1> Monitor \in Procs /\ M = Monitor /\ Tables
  BY DEF Procs, M, OutputInv
<1>s. \A p \in Callers : s'[p] = s[p]
  BY MonitorOnly
<1>o. UNCHANGED <<plan, origin>>
  BY DEF PurgeStep, purge, purgeCompleted, selectFailed, deleteFailedOutputs, markNotSpentBy,
     deleteFailedTxs, deleteFailedReqs, selectSpent, selectSpentThrows, forgetSpentBy,
     deleteSpentOutputs, deleteSpentTxs, deleteOrphans, network
<1>1. CASE deleteFailedOutputs \/ deleteSpentOutputs
  <2>1. UNCHANGED <<tx, req>> /\ Delete(s[Monitor].held) /\ s[Monitor].pc \in Purging
    BY <1>1 DEF deleteFailedOutputs, deleteSpentOutputs, At, Purging
  <2>2. \A p \in Callers : s[p].pc = "idle"
    BY <2>1, NamesAssumption DEF Locked, PurgeLocked, CallsLocked
  <2>3. \A p \in Callers : Call(s[p])'
    <3> SUFFICES ASSUME NEW p \in Callers PROVE Call(s[p])'
      OBVIOUS
    <3>1. s'[p].pc \notin CallPcs
      BY <1>s, <2>2 DEF CallPcs, Funding, ReceivedPcs, StoringPcs
    <3> QED
      BY <3>1 DEF Call, CallPcs
  <2>4. Offered'
    BY <2>1 DEF Delete, Tables, Offered, Typed, TypeOK
  <2>5. HeldIsCommitted' /\ PlansCommitted'
    BY <1>o, <2>1 DEF Delete, Tables, HeldIsCommitted, PlansCommitted, Custom, Committed, Own,
       Outs
  <2> QED
    BY <2>3, <2>4, <2>5 DEF OutputInv, Tables
<1>2. CASE ~(deleteFailedOutputs \/ deleteSpentOutputs)
  <2>1. Mild
    <3>1. CASE markNotSpentBy
      <4>1. UNCHANGED <<tx, req>> /\ ReleaseInputs(s[Monitor].held \cap Txs)
        BY <3>1 DEF markNotSpentBy, MarkNotSpentBy
      <4>2. /\ UNCHANGED <<exists, change>>
            /\ \A o \in Outs : spentBy'[o] \in {spentBy[o], NoTx}
            /\ \A o \in spendable' : o \in spendable \/ (o \in exists /\ spentBy'[o] = NoTx)
        BY <4>1, ReleaseMild
      <4> QED
        BY <1>o, <4>1, <4>2 DEF Mild, Committed
    <3>2. CASE forgetSpentBy
      BY <1>o, <3>2 DEF forgetSpentBy, Mild, Committed
    <3>3. CASE deleteFailedTxs \/ deleteSpentTxs
      <4>1. StatusMoves
        BY <3>3 DEF deleteFailedTxs, deleteSpentTxs, DeleteTxs, StatusMoves, CommitableStatus
      <4> QED
        BY <1>o, <3>3, <4>1, RowsMild DEF deleteFailedTxs, deleteSpentTxs, NoNewReq
    <3>4. CASE purgeCompleted \/ deleteFailedReqs
      BY <1>o, <3>4, RowsMild DEF purgeCompleted, deleteFailedReqs, DeleteReqs, NoReq,
         StatusMoves, NoNewReq
    <3>5. CASE purge \/ selectFailed \/ selectSpent \/ selectSpentThrows \/ deleteOrphans
      <4>1. UNCHANGED <<tx, req, outputs>>
        BY <3>5 DEF purge, selectFailed, selectSpent, selectSpentThrows, deleteOrphans, tables,
           outputs
      <4> QED
        BY <1>o, <4>1, RowsMild DEF StatusMoves, NoNewReq
    <3> QED
      BY <1>2, <3>1, <3>2, <3>3, <3>4, <3>5 DEF PurgeStep
  <2> QED
    BY <1>s, <2>1, MildCalls
<1> QED
  BY <1>1, <1>2

LEMMA NextOutput ==
  ASSUME Typed, Locked, PlanInv, OutputInv, ManagerLocks, "UnFail" \notin Tasks, [Next]_vars
  PROVE  OutputInv'
<1> Monitor \in Procs /\ Monitor \notin Callers /\ Callers \subseteq Procs /\ Tables
  BY NamesAssumption DEF Procs, OutputInv
<1>1. ASSUME NEW p \in Callers, CallerStep(p) PROVE OutputInv'
  <2>1. Tables' /\ Call(s[p])'
    BY <1>1, CreateOutput, ProcessOutput, InternalizeOutput, ListSpecOpsOutput DEF CallerStep
  <2>2. ASSUME NEW q \in Callers \ {p} PROVE Call(s[q])'
    <3>1. s'[q].pc \notin CallPcs
      BY <1>1, CallerAlone DEF CallPcs, Funding, ReceivedPcs, StoringPcs
    <3> QED
      BY <3>1 DEF Call, CallPcs
  <2> QED
    BY <2>1, <2>2 DEF OutputInv
<1>2. CASE MonitorStep
  BY <1>2, MonitorOutput, MildCalls
<1>3. CASE PurgeStep
  BY <1>3, PurgeOutput
<1>4. CASE PostStep(Monitor)
  BY <1>4, PostOutput, MildCalls DEF Leaves
<1>5. ASSUME NEW p \in Procs, Throws(p) PROVE OutputInv'
  <2>1. UNCHANGED <<tx, req, outputs, plan, origin>> /\ Leaves(p)
    BY <1>5, GotoLeaves DEF Throws, tables, outputs, network
  <2> QED
    BY <2>1, RowsMild, MildCalls DEF NoNewReq, StatusMoves, Leaves
<1>6. CASE (\E t \in Txs : Arrive(t) \/ Mine(t)) \/ UNCHANGED vars
  <2>1. UNCHANGED <<tx, req, outputs, plan, origin, s>>
    BY <1>6 DEF Arrive, Mine, vars, tables, outputs
  <2> QED
    BY <2>1, RowsMild, MildCalls DEF NoNewReq, StatusMoves
<1> QED
  BY <1>1, <1>2, <1>3, <1>4, <1>5, <1>6 DEF Next

(* An output that is offered for spending is assigned to no transaction,   *)
(* however calls fail and whatever the monitor does in between: no commit  *)
(* offers an output that createAction, its caller or an earlier basket     *)
(* insertion has given away.  One manager serves all, and TaskUnFail,      *)
(* which takes inputs back from whoever holds them, is not installed.      *)
THEOREM OfferedIsFree ==
  ASSUME ManagerLocks, "UnFail" \notin Tasks
  PROVE  Spec => []SpendableIsFree
<1> DEFINE Inv == Typed /\ Locked /\ PlanInv /\ OutputInv
<1>1. Init => Inv
  BY InitTyped, InitLocked, InitPlan, InitOutput
<1>2. Inv /\ [Next]_vars => Inv'
  BY NextTyped, NextLocked, NextPlan, NextOutput
<1>3. Inv => SpendableIsFree
  BY DEF OutputInv, Tables, Offered, SpendableIsFree
<1> QED
  BY <1>1, <1>2, <1>3, PTL DEF Spec

----------------------------------------------------------------------------
(* Concurrent createAction calls, for any number of callers, actions and   *)
(* coins and without any lock around the calls: the database transactions  *)
(* that lock an output are enough.                                         *)

(* Nothing was processed yet, so there is no noSendChange to be given.     *)
NothingProcessed ==
  /\ \A t \in Txs : req[t].status = "none"
  /\ \A p \in Procs : s[p].given = {} /\ s[p].nsc = {}

(* The action a call works on was inserted by that call and is not known   *)
(* to anybody else.                                                        *)
OwnAction ==
  /\ \A p \in Procs : s[p].t \in Txs => /\ tx[s[p].t].status # "none"
                                        /\ ~plan[s[p].t].ready
  /\ \A p, q \in Procs : p # q /\ s[p].t \in Txs => s[p].t # s[q].t
  /\ \A t \in Txs : plan[t].ready \/ t \in exists => tx[t].status # "none"

(* Only rows that exist can be held, and the change of an action does not  *)
(* exist before createNewOutputs.                                          *)
BeforeOutputs == {"fund", "release", "insertOutputs"}

RowsExist ==
  /\ spendable \subseteq exists
  /\ \A p \in Procs : s[p].held \subseteq exists
  /\ \A t \in Txs : plan[t].inputs \subseteq exists
  /\ \A p \in Procs : s[p].pc \in BeforeOutputs => s[p].t \notin exists

HeldIsLocked ==
  \A p \in Procs : \A o \in s[p].held :
    /\ s[p].t \in Txs /\ spentBy[o] = s[p].t /\ o \notin spendable

PlannedIsLocked ==
  \A t \in Txs : /\ ~plan[t].ready => plan[t].inputs = {}
                 /\ \A o \in plan[t].inputs : spentBy[o] = t /\ o \notin spendable

FundingInv == /\ Typed /\ NothingProcessed /\ OwnAction /\ RowsExist
              /\ HeldIsLocked /\ PlannedIsLocked
LEMMA InitFunding == Init => FundingInv
<1> SUFFICES ASSUME Init PROVE FundingInv
  OBVIOUS
<1>1. Typed
  BY InitTyped
<1>2. \A p \in Procs : s[p] = Idle
  BY DEF Init
<1>3. Idle.t = NoTx /\ Idle.given = {} /\ Idle.nsc = {} /\ Idle.held = {}
      /\ Idle.pc = "idle" /\ NoTx \notin Txs /\ Coins \cap Txs = {}
  BY NamesAssumption DEF Idle, Outs
<1>4. \A t \in Txs : req[t].status = "none" /\ plan[t].inputs = {} /\ ~plan[t].ready
  BY DEF Init, NoReq
<1> QED
  BY <1>1, <1>2, <1>3, <1>4
  DEF Init, FundingInv, NothingProcessed, OwnAction, RowsExist, HeldIsLocked,
      PlannedIsLocked, BeforeOutputs

(* The call ends, with a result or with an exception.                      *)
LEMMA ReturnFunding ==
  ASSUME FundingInv, Typed', NEW p \in Procs, Return(p),
         UNCHANGED <<tx, req, exists, spendable, spentBy, plan>>
  PROVE  FundingInv'
<1>1. Idle.t = NoTx /\ Idle.given = {} /\ Idle.nsc = {} /\ Idle.held = {}
      /\ Idle.pc = "idle" /\ NoTx \notin Txs
  BY NamesAssumption DEF Idle, Outs
<1>2. s'[p] = Idle /\ \A q \in Procs \ {p} : s'[q] = s[q]
  BY DEF Return, FundingInv, Typed, TypeOK
<1> QED
  BY <1>1, <1>2
  DEF FundingInv, NothingProcessed, OwnAction, RowsExist, HeldIsLocked,
      PlannedIsLocked, BeforeOutputs

(* The call goes on and nothing else changes.                              *)
LEMMA LocalsFunding ==
  ASSUME FundingInv, Typed', NEW p \in Procs,
         \A q \in Procs \ {p} : s'[q] = s[q],
         s'[p].t = s[p].t, s'[p].given = s[p].given, s'[p].nsc = s[p].nsc,
         s'[p].held = s[p].held,
         s'[p].pc \in BeforeOutputs => s[p].pc \in BeforeOutputs,
         UNCHANGED <<tx, req, exists, spendable, spentBy, plan>>
  PROVE  FundingInv'
  BY DEF FundingInv, NothingProcessed, OwnAction, RowsExist, HeldIsLocked,
     PlannedIsLocked

(* A spendable output is locked for the action of the call.                *)
LEMMA LockFunding ==
  ASSUME FundingInv, Typed', NEW p \in Procs, NEW o \in spendable, s[p].t \in Txs,
         LockOutput(o, s[p].t), s' = [s EXCEPT ![p].held = @ \cup {o}],
         UNCHANGED <<tx, req, exists, plan>>
  PROVE  FundingInv'
<1>1. /\ \A q \in Procs \ {p} : s'[q] = s[q]
      /\ s'[p].t = s[p].t /\ s'[p].given = s[p].given /\ s'[p].nsc = s[p].nsc
      /\ s'[p].pc = s[p].pc /\ s'[p].held = s[p].held \cup {o}
  BY DEF FundingInv, Typed, TypeOK, Session
<1>2. spendable' = spendable \ {o} /\ spentBy'[o] = s[p].t
      /\ \A u \in Outs \ {o} : spentBy'[u] = spentBy[u]
  BY DEF LockOutput, FundingInv, Typed, TypeOK
<1>3. exists \subseteq Outs
  BY DEF FundingInv, Typed, TypeOK
<1>4. NothingProcessed' /\ OwnAction' /\ RowsExist'
  BY <1>1, <1>2 DEF FundingInv, NothingProcessed, OwnAction, RowsExist
<1>5. HeldIsLocked'
  BY <1>1, <1>2, <1>3 DEF FundingInv, HeldIsLocked, RowsExist
<1>6. PlannedIsLocked'
  BY <1>2, <1>3 DEF FundingInv, PlannedIsLocked, RowsExist
<1> QED
  BY <1>4, <1>5, <1>6 DEF FundingInv

LEMMA NewTxFunding ==
  ASSUME FundingInv, Typed', NEW p \in Procs, NEW t \in Txs, createNewTxRecord(p, t)
  PROVE  FundingInv'
<1>1. NoSendChange = {}
  BY DEF NoSendChange, FundingInv, NothingProcessed
<1>2. PICK mode \in Modes, fixed \in SUBSET exists :
        s' = [s EXCEPT ![p] = [Idle EXCEPT !.pc = "fund", !.t = t, !.mode = mode,
                                 !.given = {}, !.nsc = {}, !.fixed = fixed]]
  BY <1>1 DEF createNewTxRecord, RequiredInputs
<1> DEFINE r == [Idle EXCEPT !.pc = "fund", !.t = t, !.mode = mode,
                   !.given = {}, !.nsc = {}, !.fixed = fixed]
<1>3. r.t = t /\ r.given = {} /\ r.nsc = {} /\ r.held = {} /\ r.pc = "fund"
  BY DEF Idle
<1>4. /\ \A q \in Procs \ {p} : s'[q] = s[q]
      /\ s'[p].t = t /\ s'[p].given = {} /\ s'[p].nsc = {} /\ s'[p].held = {}
      /\ s'[p].pc = "fund"
  BY <1>2, <1>3 DEF FundingInv, Typed, TypeOK
<1>5. tx[t].status = "none" /\ tx'[t].status = "unsigned"
      /\ \A u \in Txs \ {t} : tx'[u] = tx[u]
  BY DEF createNewTxRecord, FundingInv, Typed, TypeOK, TxRow
<1>6. UNCHANGED <<req, exists, spendable, spentBy, plan>>
  BY DEF createNewTxRecord, outputs
<1>7. NothingProcessed' /\ HeldIsLocked' /\ PlannedIsLocked'
  BY <1>4, <1>6 DEF FundingInv, NothingProcessed, HeldIsLocked, PlannedIsLocked
<1>8. OwnAction'
  BY <1>4, <1>5, <1>6 DEF FundingInv, OwnAction
<1>9. RowsExist'
  BY <1>4, <1>5, <1>6 DEF FundingInv, RowsExist, OwnAction
<1> QED
  BY <1>7, <1>8, <1>9 DEF FundingInv

LEMMA ReleaseFunding ==
  ASSUME FundingInv, Typed', NEW p \in Procs, releaseChangeInput(p)
  PROVE  FundingInv'
<1>1. PICK o \in s[p].held :
        UnlockOutput(o) /\ s' = [s EXCEPT ![p].held = @ \ {o}]
  BY DEF releaseChangeInput, FundingInv, NothingProcessed
<1>2. /\ \A q \in Procs \ {p} : s'[q] = s[q]
      /\ s'[p].t = s[p].t /\ s'[p].given = s[p].given /\ s'[p].nsc = s[p].nsc
      /\ s'[p].pc = s[p].pc /\ s'[p].held = s[p].held \ {o}
  BY <1>1 DEF FundingInv, Typed, TypeOK, Session
<1>3. spendable' = spendable \cup {o}
      /\ \A u \in Outs \ {o} : spentBy'[u] = spentBy[u]
  BY <1>1 DEF UnlockOutput, FundingInv, Typed, TypeOK
<1>4. UNCHANGED <<tx, req, exists, plan>>
  BY DEF releaseChangeInput
<1>5. exists \subseteq Outs /\ o \in exists
  BY DEF FundingInv, Typed, TypeOK, RowsExist
<1>6. spentBy[o] = s[p].t /\ s[p].t \in Txs
  BY DEF FundingInv, HeldIsLocked
<1>7. NothingProcessed' /\ OwnAction' /\ RowsExist'
  BY <1>2, <1>3, <1>4, <1>5 DEF FundingInv, NothingProcessed, OwnAction, RowsExist
<1>8. \A q \in Procs \ {p} : o \notin s[q].held
  BY <1>6 DEF FundingInv, HeldIsLocked, OwnAction
<1>9. HeldIsLocked'
  BY <1>2, <1>3, <1>5, <1>8 DEF FundingInv, HeldIsLocked, RowsExist
<1>10. \A t \in Txs : o \notin plan[t].inputs
  BY <1>6 DEF FundingInv, PlannedIsLocked, OwnAction
<1>11. PlannedIsLocked'
  BY <1>3, <1>4, <1>5, <1>10 DEF FundingInv, PlannedIsLocked, RowsExist
<1> QED
  BY <1>7, <1>9, <1>11 DEF FundingInv

LEMMA OutputsFunding ==
  ASSUME FundingInv, Typed', NEW p \in Procs, createNewOutputs(p)
  PROVE  FundingInv'
<1> DEFINE t == s[p].t
<1>1. t \in Txs /\ t \notin exists /\ tx[t].status # "none"
  BY TiedPcs DEF createNewOutputs, At, FundingInv, Typed, HasTx, RowsExist,
     BeforeOutputs, OwnAction
<1>2. /\ \A q \in Procs \ {p} : s'[q] = s[q]
      /\ s'[p].t = t /\ s'[p].given = s[p].given /\ s'[p].nsc = s[p].nsc
      /\ s'[p].held = s[p].held /\ s'[p].pc = "mergeChangeBeefs"
  BY DEF createNewOutputs, Goto, FundingInv, Typed, TypeOK, Session
<1>3. exists' = exists \cup {t} /\ spendable' = spendable \cup {t}
      /\ UNCHANGED <<tx, req, spentBy, plan>>
  BY DEF createNewOutputs
<1>4. NothingProcessed' /\ OwnAction'
  BY <1>1, <1>2, <1>3 DEF FundingInv, NothingProcessed, OwnAction
<1>5. RowsExist'
  BY <1>1, <1>2, <1>3, TiedPcs
  DEF FundingInv, RowsExist, OwnAction, BeforeOutputs, Typed, HasTx
<1>6. HeldIsLocked' /\ PlannedIsLocked'
  BY <1>1, <1>2, <1>3 DEF FundingInv, RowsExist, HeldIsLocked, PlannedIsLocked
<1> QED
  BY <1>4, <1>5, <1>6 DEF FundingInv

LEMMA ResultFunding ==
  ASSUME FundingInv, Typed', NEW p \in Procs, createActionReturns(p)
  PROVE  FundingInv'
<1> DEFINE t == s[p].t
<1>1. t \in Txs /\ tx[t].status # "none"
  BY TiedPcs DEF createActionReturns, At, FundingInv, Typed, HasTx, OwnAction
<1>2. Idle.t = NoTx /\ Idle.given = {} /\ Idle.nsc = {} /\ Idle.held = {}
      /\ Idle.pc = "idle" /\ NoTx \notin Txs
  BY NamesAssumption DEF Idle, Outs
<1>3. s'[p] = Idle /\ \A q \in Procs \ {p} : s'[q] = s[q]
  BY DEF createActionReturns, Return, FundingInv, Typed, TypeOK
<1>4. plan'[t].ready /\ plan'[t].inputs = s[p].held
      /\ \A u \in Txs \ {t} : plan'[u] = plan[u]
  BY <1>1 DEF createActionReturns, FundingInv, Typed, TypeOK
<1>5. UNCHANGED <<tx, req, exists, spendable, spentBy>>
  BY DEF createActionReturns, tables
<1>6. NothingProcessed' /\ RowsExist' /\ HeldIsLocked'
  BY <1>2, <1>3, <1>4, <1>5
  DEF FundingInv, NothingProcessed, RowsExist, HeldIsLocked, BeforeOutputs
<1>7. OwnAction'
  BY <1>1, <1>2, <1>3, <1>4, <1>5 DEF FundingInv, OwnAction
<1>8. PlannedIsLocked'
  BY <1>4, <1>5 DEF FundingInv, PlannedIsLocked, HeldIsLocked
<1> QED
  BY <1>6, <1>7, <1>8 DEF FundingInv
LEMMA CreateFunding ==
  ASSUME FundingInv, Typed', NEW p \in Callers, CreateActionStep(p)
  PROVE  FundingInv'
<1> p \in Procs /\ s[p] \in Session
  BY DEF Procs, FundingInv, Typed, TypeOK
<1>1. CASE \E t \in Txs : createNewTxRecord(p, t)
  BY <1>1, NewTxFunding
<1>2. CASE allocateNoSendChange(p)
  BY <1>2 DEF allocateNoSendChange, FundingInv, NothingProcessed
<1>3. CASE allocateChangeInput(p)
  <2>1. PICK o \in spendable :
          /\ LockOutput(o, s[p].t)
          /\ s' = [s EXCEPT ![p].held = @ \cup {o}]
    BY <1>3 DEF allocateChangeInput, AvailableChange
  <2>2. s[p].t \in Txs
    BY <1>3, TiedPcs DEF allocateChangeInput, At, FundingInv, Typed, HasTx
  <2> QED
    BY <1>3, <2>1, <2>2, LockFunding DEF allocateChangeInput
<1>4. CASE startRelease(p) \/ funded(p)
  <2>1. /\ \A q \in Procs \ {p} : s'[q] = s[q]
        /\ s'[p].t = s[p].t /\ s'[p].given = s[p].given
        /\ s'[p].nsc = s[p].nsc /\ s'[p].held = s[p].held
        /\ s[p].pc \in BeforeOutputs
    BY <1>4 DEF startRelease, funded, Goto, At, FundingInv, Typed, TypeOK, Session,
       BeforeOutputs
  <2> QED
    BY <1>4, <2>1, LocalsFunding DEF startRelease, funded, tables
<1>5. CASE releaseChangeInput(p)
  BY <1>5, ReleaseFunding
<1>6. CASE released(p) \/ mergeAllocatedChangeBeefs(p)
  <2>1. CASE Return(p)
    BY <1>6, <2>1, ReturnFunding DEF released, mergeAllocatedChangeBeefs, tables
  <2>2. CASE \E pc \in {"fund", "lockFixed"} :
               Goto(p, pc) /\ (pc = "fund" => s[p].pc = "release")
    <3>1. /\ \A q \in Procs \ {p} : s'[q] = s[q]
          /\ s'[p].t = s[p].t /\ s'[p].given = s[p].given
          /\ s'[p].nsc = s[p].nsc /\ s'[p].held = s[p].held
          /\ s'[p].pc \in BeforeOutputs => s[p].pc \in BeforeOutputs
      BY <2>2 DEF Goto, FundingInv, Typed, TypeOK, Session, BeforeOutputs
    <3> QED
      BY <1>6, <3>1, LocalsFunding DEF released, mergeAllocatedChangeBeefs, tables
  <2> QED
    BY <1>6, <2>1, <2>2 DEF released, mergeAllocatedChangeBeefs, At
<1>7. CASE createNewOutputs(p)
  BY <1>7, OutputsFunding
<1>8. CASE createNewInput(p)
  <2>1. PICK o \in spendable :
          /\ LockOutput(o, s[p].t)
          /\ s' = [s EXCEPT ![p].held = @ \cup {o}]
    BY <1>8 DEF createNewInput, InputIsTaken
  <2>2. s[p].t \in Txs
    BY <1>8, TiedPcs DEF createNewInput, At, FundingInv, Typed, HasTx
  <2> QED
    BY <1>8, <2>1, <2>2, LockFunding DEF createNewInput
<1>9. CASE createNewInputThrows(p)
  BY <1>9, ReturnFunding DEF createNewInputThrows, tables
<1>10. CASE createActionReturns(p)
  BY <1>10, ResultFunding
<1> QED
  BY <1>1, <1>2, <1>3, <1>4, <1>5, <1>6, <1>7, <1>8, <1>9, <1>10
  DEF CreateActionStep

LEMMA FundingStep ==
  ASSUME FundingInv, [FundingNext]_vars
  PROVE  FundingInv'
<1>1. Typed'
  BY NextTyped DEF FundingInv, FundingNext, Next, CallerStep, Procs
<1>2. CASE \E p \in Callers : CreateActionStep(p)
  BY <1>1, <1>2, CreateFunding
<1>3. CASE \E p \in Callers : Throws(p)
  BY <1>1, <1>3, ReturnFunding DEF Throws, tables, Procs
<1>4. CASE UNCHANGED vars
  BY <1>1, <1>4 DEF vars, FundingInv, NothingProcessed, OwnAction, RowsExist,
     HeldIsLocked, PlannedIsLocked
<1> QED
  BY <1>2, <1>3, <1>4 DEF FundingNext

(* What a createAction call allocated stays its own until the call ends,   *)
(* however the steps of other calls and their failures fall in between.    *)
THEOREM AllocationHolds == FundingSpec => []ChangeLockedWhileFunding
<1>1. FundingInv => ChangeLockedWhileFunding
  BY DEF FundingInv, HeldIsLocked, ChangeLockedWhileFunding, Procs
<1> QED
  BY <1>1, InitFunding, FundingStep, PTL DEF FundingSpec

(* No two results of createAction tell their callers to spend one output.  *)
THEOREM NoSharedInput == FundingSpec => []PlansDisjoint
<1>1. FundingInv => PlansDisjoint
  BY DEF FundingInv, PlannedIsLocked, PlansDisjoint, Conflict
<1> QED
  BY <1>1, InitFunding, FundingStep, PTL DEF FundingSpec
=============================================================================

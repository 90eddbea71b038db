------------------------------ MODULE Services ------------------------------
(***************************************************************************)
(* The network services of the wallet (src/src/services/): Services asks   *)
(* the providers of a ServiceCollection one after the other, and each      *)
(* provider (ARC, Bitails, WhatsOnChain) turns the reply of its server     *)
(* into a result.  The servers are external: they see the network, and a   *)
(* call fails in the ways that the instance names.                         *)
(***************************************************************************)
EXTENDS Naturals, FiniteSets, Sequences

CONSTANTS
  PostProviders,   \* the providers that postBeef asks, by class; there may
                   \* be two of class ARC, which answer alike
  Failures         \* how calls to a provider may fail in this instance

ProviderFailure ==
  {"unreachable",  \* the request throws, and nothing has arrived
   "lost",         \* it throws, and the transaction has arrived
   "refused",      \* an answer that says nothing: too busy, reset, 5xx
   "status"}       \* getStatusForTxids and getUtxoStatus fail on every try

ASSUME ServicesAssumption ==
  /\ PostProviders \subseteq {"ARC", "Bitails", "WoC"} /\ PostProviders # {}
  /\ Failures \subseteq ProviderFailure

----------------------------------------------------------------------------
(* postBeef.  A transaction is new to the network and acceptable, known to *)
(* it, or in conflict with what it knows (a view), and a server replies:   *)
(* a mined transaction has its own inputs missing.                         *)

Conflicts == {"mempoolConflict", "missingInputs"}

Replies(view, failures) ==
  CASE view = "new"      -> {"accepted"} \cup (failures \ {"status"})
    [] view = "known"    -> {"accepted", "alreadyInMempool", "missingInputs"}
                              \cup (failures \ {"status", "lost"})
    [] view = "conflict" -> Conflicts \cup {"rejected"}
                              \cup (failures \ {"status", "lost"})

(* ARC.postRawTx: a conflict is an 'ok' response; anything else that is    *)
(* not 'ok' counts as an error of the service, and so does an exception.   *)
ARC(reply) ==
  CASE reply \in {"accepted", "alreadyInMempool"} -> "success"
    [] reply \in Conflicts -> "doubleSpend"
    [] OTHER -> "serviceError"

(* WhatsOnChain.postRawTx: after two waits a rate limit is an answer like  *)
(* any other that is not 'ok'.                                             *)
WhatsOnChain(reply) ==
  CASE reply \in {"accepted", "alreadyInMempool"} -> "success"
    [] reply \in Conflicts -> "doubleSpend"
    [] reply \in {"rejected", "refused"} -> "statusError"
    [] OTHER -> "serviceError"

(* Bitails.postRaws: results start out as success, and an exception or a   *)
(* bad response changes the result of the call only.                       *)
Bitails(reply) ==
  CASE reply = "missingInputs" -> "doubleSpend"
    [] reply \in {"mempoolConflict", "rejected", "refused"} -> "statusError"
    [] OTHER -> "success"

TxResult(provider, reply) ==
  CASE provider = "ARC"     -> ARC(reply)
    [] provider = "Bitails" -> Bitails(reply)
    [] provider = "WoC"     -> WhatsOnChain(reply)

(* PostBeefResult.status, of the call as a whole.                          *)
Succeeds(provider, reply) ==
  /\ TxResult(provider, reply) = "success"
  /\ reply \in {"accepted", "alreadyInMempool"}

(* The providers' order changes whenever one only reports service errors:  *)
(* moveServiceToLast.  In the long run it is any order.                    *)
Orders ==
  {order \in [1..Cardinality(PostProviders) -> PostProviders] :
     \A i, j \in DOMAIN order : i # j => order[i] # order[j]}

Arrived(view, replies, n) ==
  view = "known" \/ \E i \in 1..n : replies[i] \in {"accepted", "lost"}

(* postBeef, mode UntilSuccess: the replies of the providers in order, up  *)
(* to the first success.                                                   *)
UntilSuccess(view, order, failures) ==
  LET all == UNION {[1..n -> Replies("new", failures) \cup Replies("known", failures)
                               \cup Replies("conflict", failures)] :
                      n \in DOMAIN order}
      Ends(replies) == Succeeds(order[Len(replies)], replies[Len(replies)])
  IN {replies \in all :
        /\ \A i \in DOMAIN replies :
             /\ replies[i] \in Replies(IF Arrived(view, replies, i - 1) THEN "known"
                                       ELSE view, failures)
             /\ i < Len(replies) => ~Succeeds(order[i], replies[i])
        /\ Len(replies) = Len(order) \/ Ends(replies)}

(* What postBeef may return for a transaction: the results by provider,    *)
(* and whether the network has the transaction then.                       *)
PostBeefResults(view, failures) ==
  UNION {{[results |-> {TxResult(order[i], replies[i]) : i \in DOMAIN replies},
           arrived |-> Arrived(view, replies, Len(replies))] :
             replies \in UntilSuccess(view, order, failures)} : order \in Orders}

----------------------------------------------------------------------------
(* getMerklePath: both providers are asked until one has a path.  A server *)
(* has one of a mined transaction, and the provider makes a merkle path of *)
(* it if Services.hashToHeader knows the block, from Chaintracks or else   *)
(* from WhatsOnChain; whatever goes wrong on the way means no path.        *)
hashToHeader == {"header", "none", "error"}

WhatsOnChainPath(mined) ==
  {IF proof = "proof" /\ header = "header" THEN "path" ELSE "none" :
     proof \in {"tooMany", "noData", "error"} \cup (IF mined THEN {"proof"} ELSE {}),
     header \in hashToHeader}

BitailsPath(mined) ==
  {IF proof = "proof" /\ header = "header" THEN "path" ELSE "none" :
     proof \in {"notFound", "error"} \cup (IF mined THEN {"proof"} ELSE {}),
     header \in hashToHeader}

MerklePaths(mined) ==
  {(first = "path" \/ second = "path") :
     first \in WhatsOnChainPath(mined), second \in BitailsPath(mined)}

(* getStatusForTxids has one provider, which knows transactions in blocks  *)
(* and in the mempool.  Without an answer there are no results.            *)
getStatusForTxids(seen, failures) ==
  {[status |-> "success", unknown |-> ~seen]} \cup
    (IF "status" \in failures THEN {[status |-> "error", unknown |-> TRUE]} ELSE {})

(* getUtxoStatus has one provider, and is tried twice; isUtxo takes no     *)
(* answer for 'spent'.                                                     *)
getUtxoStatus(unspent, failures) ==
  {[status |-> "success", isUtxo |-> unspent]} \cup
    (IF "status" \in failures THEN {[status |-> "error", isUtxo |-> FALSE]} ELSE {})

isUtxo(unspent, failures) == {r.isUtxo : r \in getUtxoStatus(unspent, failures)}
=============================================================================

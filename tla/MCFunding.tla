----------------------------- MODULE MCFunding -----------------------------
(***************************************************************************)
(* The instance of the wallet storage for the run of createAction's        *)
(* funding, with what TLC evaluates of the choice of change itself:        *)
(* generateChangeSdk for every request of a small universe.  The           *)
(* universe has more coins and outputs than a loop of the algorithm has    *)
(* cases, fee rates for which a coin pays for its own input and rates for  *)
(* which it does not, and both ends of randomVals.                         *)
(***************************************************************************)
EXTENDS MCWalletStorage, Integers

Change == INSTANCE GenerateChange

Purses ==
  UNION {{c \in [1..n -> {1, 8, 20}] : \A i \in 1..n - 1 : c[i] <= c[i + 1]} : n \in 0..3}

In(satoshis) == [satoshis |-> satoshis, length |-> 107]
Out(satoshis) == [satoshis |-> satoshis, length |-> 25]

Requests ==
  {[fixedInputs |-> i, fixedOutputs |-> o, satsPerKb |-> r, target |-> t,
    initial |-> 8, first |-> 2, coins |-> c, random |-> x,
    noSend |-> IF n = 0 \/ c = <<>> THEN <<>> ELSE <<1>>] :
     i \in {<<>>, <<In(10)>>},
     o \in {<<>>, <<Out(5)>>, <<Out(25)>>, <<Out(5), Out(Change!maxPossibleSatoshis)>>},
     r \in {0, 10, 50}, t \in {{}, {-1}, {1}, {3}}, c \in Purses, n \in {0, 1},
     x \in {<<0>>, <<999, 500>>}}

(* A draft that spends just these coins for one output of change.          *)
Paying(p, S) ==
  [Change!Start(p) EXCEPT !.allocated = Change!SetToSeq(S), !.outputs = <<p.first>>]

(* What the input of a coin costs is no more than what it brings.          *)
PaysForItself(p, coin) == 1000 * coin >= 148 * p.satsPerKb

(* The transaction pays exactly the fee of its size: the check at the end  *)
(* of generateChangeSdk (generateChange.ts:195-201) never throws           *)
(* WERR_INTERNAL.                                                          *)
Balances(p, r) == r.insufficient \/ Change!validateGenerateChangeSdkResult(r)

(* No coin is allocated twice or lost track of on the way, whichever       *)
(* rounds of the starvation loop released and allocated it again, and who  *)
(* gets WERR_INSUFFICIENT_FUNDS has all change back, the noSendChange in   *)
(* its order.                                                              *)
NothingLeaks(p, r) ==
  LET allocated == {r.draft.allocated[i] : i \in DOMAIN r.draft.allocated}
      kept == {r.draft.noSend[i] : i \in DOMAIN r.draft.noSend}
  IN /\ Cardinality(allocated) = Len(r.draft.allocated)
     /\ r.draft.free \cup allocated \cup kept = DOMAIN p.coins
     /\ r.draft.free \cap (allocated \cup kept) = {} /\ allocated \cap kept = {}
     /\ r.insufficient => r.draft = [Change!Start(p) EXCEPT !.outputs = r.draft.outputs]

(* Every output of change has a satoshi at least, and there is one at most *)
(* when no number of outputs is wanted.                                    *)
OutputsMakeSense(p, r) ==
  /\ \A i \in DOMAIN r.draft.outputs : r.draft.outputs[i] >= 1
  /\ p.target = {} => Len(r.draft.outputs) <= 1

(* Funds are refused only if no choice of coins would pay for the action   *)
(* and one output of change, where each coin pays for its own input: the   *)
(* greedy choice and the dropped outputs cost nobody an action.  (With     *)
(* dust it may: the first coin that is too small for its own fee ends up   *)
(* in the transaction and is never taken out again.)                       *)
RefusedOnlyWithout(p, r) ==
  (r.insufficient /\ \A a \in DOMAIN p.coins : PaysForItself(p, p.coins[a]))
    => \A S \in SUBSET DOMAIN p.coins : Change!Excess(p, Paying(p, S)) < 0

(* generateChangeSdk of every request, by the four statements above.       *)
ASSUME ChangeIsGenerated ==
  \A p \in Requests :
     LET r == Change!generateChangeSdk(p) IN
     Balances(p, r) /\ NothingLeaks(p, r) /\ OutputsMakeSense(p, r) /\ RefusedOnlyWithout(p, r)
=============================================================================

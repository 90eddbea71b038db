--------------------------- MODULE GenerateChange ---------------------------
(***************************************************************************)
(* How much change funds a transaction, and how much comes back:           *)
(* generateChangeSdk (src/src/storage/methods/generateChange.ts), called   *)
(* by fundNewTransactionSdk of createAction.ts.  Module CreateAction says  *)
(* which steps allocate and release change, for any choice of it; this     *)
(* module computes the choice.  Fees are counted in whole satoshis: no     *)
(* rounding of floating point numbers.                                     *)
(*                                                                         *)
(* A request is a record                                                   *)
(*   fixedInputs    of the action: [satoshis, length] of each,             *)
(*   fixedOutputs   [satoshis, length] of each,                            *)
(*   satsPerKb      feeModel.value,                                        *)
(*   target         {targetNetCount}, {} when undefined,                   *)
(*   initial, first changeInitialSatoshis and changeFirstSatoshis,         *)
(*   coins          satoshis by outputId,                                  *)
(*   noSend         the noSendChange of the caller, and                    *)
(*   random         randomVals, in thousandths.                            *)
(* A draft has the change still free, the noSendChange not yet used, the   *)
(* change allocated and the satoshis of the change outputs.                *)
(***************************************************************************)
EXTENDS Integers, Sequences, SequencesExt, FiniteSetsExt

(* Stands for 2099999999999999: more than anybody has.                     *)
maxPossibleSatoshis == 1000000

changeLockingScriptLength == 25
changeUnlockingScriptLength == 107

Sum(s) == FoldSeq(LAMBDA x, y : x + y, 0, s)
Satoshis(s) == Sum([i \in DOMAIN s |-> s[i].satoshis])

(* fundNewTransactionSdk: what it asks generateChangeSdk for.              *)
Request(fixedInputs, fixedOutputs, satsPerKb, basket, available, coins, noSend, random) ==
  [fixedInputs |-> fixedInputs, fixedOutputs |-> fixedOutputs, satsPerKb |-> satsPerKb,
   target |-> {basket.numberOfDesiredUTXOs - available},
   initial |-> basket.minimumDesiredUTXOValue,
   first |-> Max({1, (basket.minimumDesiredUTXOValue + 2) \div 4}),
   coins |-> coins, noSend |-> noSend, random |-> random]

MaxPossible(p) ==
  {i \in DOMAIN p.fixedOutputs : p.fixedOutputs[i].satoshis = maxPossibleSatoshis}

validateGenerateChangeSdkParams(p) ==
  /\ \A i \in DOMAIN p.fixedInputs : p.fixedInputs[i].satoshis >= 0 /\ p.fixedInputs[i].length >= 0
  /\ \A i \in DOMAIN p.fixedOutputs : p.fixedOutputs[i].satoshis >= 0 /\ p.fixedOutputs[i].length >= 0
  /\ \A i, j \in MaxPossible(p) : i = j
  /\ p.first >= 1 /\ p.initial >= 1

----------------------------------------------------------------------------
(* Sizes and fees *)

varUintSize(n) == IF n <= 252 THEN 1 ELSE IF n <= 65535 THEN 3 ELSE 5

transactionSize(inputs, outputs) ==
  8 + varUintSize(Len(inputs)) + varUintSize(Len(outputs))
    + Sum([i \in DOMAIN inputs |-> 40 + varUintSize(inputs[i]) + inputs[i]])
    + Sum([i \in DOMAIN outputs |-> 8 + varUintSize(outputs[i]) + outputs[i]])

Lengths(s) == [i \in DOMAIN s |-> s[i].length]
Copies(x, n) == [i \in 1..n |-> x]

size(p, d, ins, outs) ==
  transactionSize(Lengths(p.fixedInputs) \o Copies(changeUnlockingScriptLength, Len(d.allocated) + ins),
                  Lengths(p.fixedOutputs) \o Copies(changeLockingScriptLength, Len(d.outputs) + outs))

CeilThousandth(n) == (n + 999) \div 1000
feeTarget(p, d, ins, outs) == CeilThousandth(size(p, d, ins, outs) * p.satsPerKb)

funding(p, d) ==
  Satoshis(p.fixedInputs) + Sum([i \in DOMAIN d.allocated |-> p.coins[d.allocated[i]]])
fee(p, d) == funding(p, d) - Satoshis(p.fixedOutputs) - Sum(d.outputs)

(* With ins and outs more of the transaction's change.                     *)
feeExcess(p, d, ins, outs) == fee(p, d) - feeTarget(p, d, ins, outs)
Excess(p, d) == feeExcess(p, d, 0, 0)

netChangeCount(d) == Len(d.outputs) - Len(d.allocated)

----------------------------------------------------------------------------
(* Change in and out *)

(* allocateChangeInput: noSendChange first, from its end; then an exact    *)
(* match, the least that is enough, and else the most there is.            *)
Before(p, a, b) == p.coins[a] < p.coins[b] \/ (p.coins[a] = p.coins[b] /\ a < b)
Least(p, some) == {a \in some : \A b \in some \ {a} : Before(p, a, b)}
Most(p, some) == {a \in some : \A b \in some \ {a} : Before(p, b, a)}

FromStorage(p, d, enough, exact) ==
  LET equal == {a \in d.free : p.coins[a] \in exact}
      over == {a \in d.free : p.coins[a] >= enough}
  IN IF equal # {} THEN Least(p, equal) ELSE IF over # {} THEN Least(p, over) ELSE Most(p, d.free)

allocateChangeInput(p, d, enough, exact) ==
  IF d.noSend # <<>> THEN {Last(d.noSend)} ELSE FromStorage(p, d, enough, exact)

Allocated(d, a) ==
  IF d.noSend # <<>> THEN [d EXCEPT !.noSend = Front(@), !.allocated = Append(@, a)]
  ELSE [d EXCEPT !.free = @ \ {a}, !.allocated = Append(@, a)]

(* releaseAllocatedChangeInputs pops, so noSendChange is in order again.   *)
Released(p, d) ==
  LET given == SelectSeq(Reverse(d.allocated), LAMBDA a : Contains(p.noSend, a)) IN
  [d EXCEPT !.allocated = <<>>, !.noSend = @ \o given,
            !.free = @ \cup (ToSet(d.allocated) \ ToSet(given))]

NewOutput(p, d) == IF d.outputs = <<>> THEN p.first ELSE p.initial
WithOutput(d, satoshis) == [d EXCEPT !.outputs = Append(@, satoshis)]

(* The outputs wanted, to be dropped if they cannot be funded.             *)
RECURSIVE Wanted(_, _)
Wanted(p, d) ==
  IF (\E n \in p.target : n > netChangeCount(d)) \/ (d.outputs = <<>> /\ Excess(p, d) > 0)
  THEN Wanted(p, WithOutput(d, NewOutput(p, d))) ELSE d

addOutputToBalanceNewInput(p, d) == \E n \in p.target : netChangeCount(d) - 1 < n

(* One more input, and an output with what it brought too much.            *)
Funded(p, d, a, balance, removing) ==
  LET e == Allocated(d, a) IN
  IF ~removing /\ Excess(p, e) > 0 /\ (balance \/ e.outputs = <<>>)
  THEN WithOutput(e, Min({Excess(p, e), NewOutput(p, e)})) ELSE e

RECURSIVE Fund(_, _, _)
Fund(p, d, removing) ==
  LET balance == addOutputToBalanceNewInput(p, d)
      exact == IF p.target = {} /\ d.outputs = <<>> THEN {-feeExcess(p, d, 1, 0)} ELSE {}
      enough == IF balance THEN 2 * p.initial - feeExcess(p, d, 1, 1) ELSE -feeExcess(p, d, 1, 0)
      found == allocateChangeInput(p, d, enough, exact)
  IN IF Excess(p, d) >= 0 \/ found = {} THEN d
     ELSE Fund(p, Funded(p, d, CHOOSE a \in found : TRUE, balance, removing), removing)

RECURSIVE Dropped(_, _)
Dropped(p, d) ==
  IF d.outputs = <<>> \/ Excess(p, d) >= 0 THEN d
  ELSE Dropped(p, [d EXCEPT !.outputs = Front(@)])

(* Outputs that would only take back what one input brings.                *)
RECURSIVE Unchurned(_, _)
Unchurned(outputs, inputs) ==
  LET small == {i \in DOMAIN inputs : inputs[i] <= Last(outputs)} IN
  IF Len(inputs) < 2 \/ Len(outputs) < 2 THEN outputs
  ELSE IF small = {} THEN outputs
  ELSE Unchurned(Front(outputs), RemoveAt(inputs, Min(small)))

(* The starvation loop: outputs are dropped until the rest can be funded.  *)
RECURSIVE fundTransaction(_, _, _)
fundTransaction(p, d, removing) ==
  LET e == Fund(p, Released(p, d), removing)
      f == Dropped(p, e)
      inputs == [i \in DOMAIN f.allocated |-> p.coins[f.allocated[i]]]
  IN IF Excess(p, e) >= 0 \/ e.outputs = <<>> THEN e
     ELSE IF Excess(p, f) < 0 THEN f
     ELSE fundTransaction(p, [f EXCEPT !.outputs = Unchurned(f.outputs, inputs)], TRUE)

----------------------------------------------------------------------------
(* The excess is given to the outputs *)

Draw(p, k) == p.random[(k % Len(p.random)) + 1]
rand(low, high, val) == (val * (high - low + 1)) \div 1000 + low

(* Up to changeInitialSatoshis for the first, then 25 to 50 percent of the *)
(* rest at a time for any of them; k values were drawn before.             *)
RECURSIVE Distributed(_, _, _, _)
Distributed(p, outputs, excess, k) ==
  IF outputs = <<>> \/ excess <= 0 THEN outputs
  ELSE IF Len(outputs) = 1 THEN [outputs EXCEPT ![1] = @ + excess]
  ELSE IF outputs[1] < p.initial
  THEN LET sats == Min({excess, p.initial - outputs[1]}) IN
       Distributed(p, [outputs EXCEPT ![1] = @ + sats], excess - sats, k)
  ELSE LET sats == Max({1, (rand(2500, 5000, Draw(p, k)) * excess) \div 10000})
           index == rand(1, Len(outputs), Draw(p, k + 1)) IN
       Distributed(p, [outputs EXCEPT ![index] = @ + sats], excess - sats, k + 2)

(* The output that asks for the most possible gets what is left.           *)
Adjusted(p, d) ==
  IF Excess(p, d) >= 0 \/ MaxPossible(p) = {} THEN p
  ELSE [p EXCEPT !.fixedOutputs[Max(MaxPossible(p))].satoshis = @ + Excess(p, d)]

Start(p) ==
  [free |-> DOMAIN p.coins \ ToSet(p.noSend), noSend |-> p.noSend, allocated |-> <<>>,
   outputs |-> <<>>]

(* The draft, the fixed outputs as adjusted, and whether it throws         *)
(* WERR_INSUFFICIENT_FUNDS, with all change released.                      *)
generateChangeSdk(p) ==
  LET d == fundTransaction(p, Wanted(p, Start(p)), FALSE)
      q == Adjusted(p, d)
      left == Excess(q, d)
  IN IF left < 0 \/ (d.outputs = <<>> /\ left > 0)
     THEN [insufficient |-> TRUE, draft |-> Released(q, d), request |-> q]
     ELSE [insufficient |-> FALSE, request |-> q,
           draft |-> [d EXCEPT !.outputs = Distributed(q, d.outputs, left, 0)]]

(* The rows createAction inserts for the change: their place and satoshis. *)
ChangeOutputs(p, r) ==
  [i \in DOMAIN r.draft.outputs |->
     [vout |-> Len(p.fixedOutputs) + i - 1, satoshis |-> r.draft.outputs[i]]]

(* The check generateChangeSdk ends with, or throws WERR_INTERNAL.         *)
validateGenerateChangeSdkResult(r) ==
  LET paid == fee(r.request, r.draft) IN
  paid >= 0 /\ paid = feeTarget(r.request, r.draft, 0, 0)
=============================================================================

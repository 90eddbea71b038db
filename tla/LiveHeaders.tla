---------------------------- MODULE LiveHeaders ----------------------------
(***************************************************************************)
(* The live headers of Chaintracks: the recent part of the block chain,    *)
(* with its forks, as insertHeader keeps it (Storage/                      *)
(* ChaintracksStorageKnex.ts; the in-memory and IndexedDB storages differ  *)
(* in one write, see NotTip).  The block tree is a constant: a hash        *)
(* names one header for ever, so previousHeaderId is Prev inside live.     *)
(* Storage that migrates headers to bulk files is not modelled: the bulk   *)
(* files end at BulkTip.                                                   *)
(***************************************************************************)
EXTENDS Integers, FiniteSets

CONSTANTS
  Headers,      \* the block headers that may be received
  Prev,         \* header -> header.previousHash
  Height,       \* header -> header.height, as its source gives it
  Work,         \* header -> convertBitsToWork(header.bits)
  Ancestors,    \* header -> the headers under it in the tree
  BulkTip,      \* the last header of the bulk files
  BulkHeight,   \* its height
  BulkWork      \* the chain work up to it

(* A tree over the bulk tip.  Real proof of work makes every hash unique   *)
(* and its ancestry well-founded.                                          *)
ASSUME TreeAssumption ==
  /\ BulkTip \notin Headers
  /\ Ancestors \in [Headers -> SUBSET Headers]
  /\ \A h \in Headers :
       Ancestors[h] = IF Prev[h] \in Headers
                        THEN {Prev[h]} \cup Ancestors[Prev[h]] ELSE {}
  /\ \A h \in Headers : \A g \in Ancestors[h] : Ancestors[g] \subseteq Ancestors[h]

ASSUME WorkAssumption ==
  /\ Height \in [Headers -> Int] /\ BulkHeight \in Int
  /\ Work \in [Headers -> Nat \ {0}] /\ BulkWork \in Nat

(* The difficulty of a block follows from the blocks before it, so two     *)
(* blocks on one parent have equal work (not so on testnet, where a block  *)
(* may lower it by its own timestamp).                                     *)
ASSUME SiblingsEqualWork ==
  \A h, g \in Headers : Prev[h] = Prev[g] => Work[h] = Work[g]

VARIABLE live   \* header -> its row, for the headers stored

Row == [chainWork : Nat, isChainTip : BOOLEAN, isActive : BOOLEAN]

Known == DOMAIN live
Active == {h \in Known : live[h].isActive}
ActiveTips == {h \in Active : live[h].isChainTip}

(* The walk from a row down its previousHeaderId, to where live ends.      *)
Branch(h) == ({h} \cup Ancestors[h]) \cap Known

LiveInit == live = [h \in {} |-> {}]

----------------------------------------------------------------------------
(* The outcomes of insertHeader.                                           *)

Dupe(h) == h \in Known

First(h) ==
  /\ Known = {}
  /\ Prev[h] = BulkTip /\ Height[h] = BulkHeight + 1

NoPrev(h) == ~Dupe(h) /\ Prev[h] \notin Known /\ ~First(h)

PriorTips(g) == IF g \in ActiveTips THEN {g} ELSE ActiveTips

ChainWork(h) == live[Prev[h]].chainWork + Work[h]

MoreWork_OrEqual(h, tip) ==                  \* mutant: the second seen wins
  ChainWork(h) >= live[tip].chainWork

MoreWork_ThanPrev(h, tip) ==                 \* mutant: not the tip's work
  ChainWork(h) > live[Prev[h]].chainWork

MoreWork(h, tip) == ChainWork(h) > live[tip].chainWork

(* badPrev, noTip and noActiveAncestor: nothing is written.                *)
Invalid(h) ==
  /\ ~Dupe(h) /\ Prev[h] \in Known
  /\ \/ Height[h] # Height[Prev[h]] + 1
     \/ PriorTips(Prev[h]) = {}
     \/ /\ \E tip \in PriorTips(Prev[h]) : MoreWork(h, tip)
        /\ Branch(Prev[h]) \cap Active = {}

----------------------------------------------------------------------------
(* The part of g's branch from its first active ancestor down: what both   *)
(* chains share.  The walks of a reorg stop there.                         *)
Shared(g) == UNION {Branch(a) : a \in Branch(g) \cap Active}

Deactivated(h, tip) ==
  IF MoreWork(h, tip) /\ Prev[h] \notin Active
    THEN Branch(tip) \ Shared(Prev[h]) ELSE {}

Activated(h, tip) ==
  IF MoreWork(h, tip) THEN Branch(Prev[h]) \ Shared(Prev[h]) ELSE {}

Reorganized(h, tip) ==
  [g \in Known |->
     [live[g] EXCEPT !.isActive =
        g \in Activated(h, tip) \/ (@ /\ g \notin Deactivated(h, tip))]]

(* The previous header is no tip any more.  The Knex storage updates that  *)
(* column alone.  The other two storages write their copy of the row, read *)
(* before the reorg, back over it.                                         *)
NotTip_Rewritten(g, rows) ==                 \* mutant: as those two do
  [rows EXCEPT ![g] = [live[g] EXCEPT !.isChainTip = FALSE]]

NotTip(g, rows) == [rows EXCEPT ![g].isChainTip = FALSE]

With(h, row, rows) ==
  [g \in DOMAIN rows \cup {h} |-> IF g = h THEN row ELSE rows[g]]

FirstHeader(h) ==
  /\ First(h)
  /\ live' = With(h, [chainWork |-> BulkWork + Work[h], isChainTip |-> TRUE,
                      isActive |-> TRUE], live)

NextHeader(h, tip) ==
  /\ ~Dupe(h) /\ Prev[h] \in Known /\ ~Invalid(h)
  /\ tip \in PriorTips(Prev[h])
  /\ LET best == MoreWork(h, tip) IN
     live' = With(h, [chainWork |-> ChainWork(h), isChainTip |-> best,
                      isActive |-> best],
                  NotTip(Prev[h], Reorganized(h, tip)))

InsertNext ==
  \E h \in Headers : FirstHeader(h) \/ \E tip \in ActiveTips : NextHeader(h, tip)

LiveSpec == LiveInit /\ [][InsertNext]_live

----------------------------------------------------------------------------
(* Type invariant: rows are kept for received headers only, with all their *)
(* columns, and the parent of every row but the lowest is a row.           *)
LiveTypeOK ==
  /\ Known \subseteq Headers
  /\ live \in [Known -> Row]
  /\ \A h \in Known : Ancestors[h] \subseteq Known

(* "Only one (the header on the active chain) will have isActive": the     *)
(* active rows are one branch, from the only active tip to the bottom of   *)
(* live, so findLiveHeaderForHeight answers one header for every height.   *)
OneActiveChain ==
  Known # {} => \E tip \in Known : ActiveTips = {tip} /\ Active = Branch(tip)

(* The active chain is the one with the most work of all that is stored.   *)
TipIsHeaviest ==
  \A tip \in ActiveTips, h \in Known : live[h].chainWork <= live[tip].chainWork

(* A header marked as a tip, also one of a fork that lost, has no child.   *)
TipHasNoChild ==
  \A h, g \in Known : live[h].isChainTip => h \notin Ancestors[g]

(* The active tip moves only to a header with strictly more work: of two   *)
(* equal chains the first one seen stays.                                  *)
TipMovesUp ==
  [][\A old \in ActiveTips, new \in ActiveTips' :
       old # new => live'[new].chainWork > live[old].chainWork]_live
=============================================================================

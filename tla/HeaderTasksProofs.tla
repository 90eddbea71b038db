------------------------- MODULE HeaderTasksProofs --------------------------
(***************************************************************************)
(* For every block tree, insertHeader keeps one active chain, the one with *)
(* the most work.  The main thread of Chaintracks and the monitor's tasks  *)
(* change the live headers by insertHeader alone, so that this holds of    *)
(* the whole.  And a proof of a transaction whose block leaves the active  *)
(* chain is never forgotten.                                               *)
(***************************************************************************)
EXTENDS HeaderTasks, FiniteSetTheorems, TLAPS

(* Why a sibling of an active header never overtakes the tip: all that     *)
(* stands on a header has the work of any child of it, siblings having     *)
(* equal work.                                                             *)
WorkGrows ==
  \A y \in Known : \A g \in Ancestors[y] : \A h \in Headers :
    Prev[h] = g => live[g].chainWork + Work[h] <= live[y].chainWork

LiveInv ==
  /\ LiveTypeOK
  /\ OneActiveChain
  /\ TipIsHeaviest
  /\ TipHasNoChild
  /\ WorkGrows

----------------------------------------------------------------------------
(* Nothing is stored at first, so there is nothing to violate.             *)
LEMMA LiveInitInv == LiveInit => LiveInv
BY DEF LiveInit, LiveInv, LiveTypeOK, OneActiveChain, TipIsHeaviest, TipHasNoChild,
       WorkGrows, Known, Active, ActiveTips, Row

(* A stored header has all its ancestors stored, so walks reach the bottom. *)
LEMMA BranchFull ==
  ASSUME LiveTypeOK, NEW h \in Known
  PROVE  Branch(h) = {h} \cup Ancestors[h]
BY DEF Branch, LiveTypeOK

(* What a reorganization keeps belongs to both branches.                   *)
LEMMA SharedInBoth ==
  ASSUME LiveTypeOK, NEW g \in Known, NEW tip \in Known, Active = Branch(tip)
  PROVE  /\ Shared(g) \subseteq Branch(g)
         /\ Shared(g) \subseteq Active
         /\ g \in Active => Shared(g) = Branch(g)
<1>1. \A a \in Branch(g) \cap Active : Branch(a) \subseteq Branch(g) /\ Branch(a) \subseteq Active
  <2> SUFFICES ASSUME NEW a \in Branch(g), a \in Active
               PROVE  Branch(a) \subseteq Branch(g) /\ Branch(a) \subseteq Branch(tip)
    BY DEF Shared
  <2>1. a \in Known /\ a \in Branch(tip) /\ g \in Headers /\ tip \in Headers
    BY DEF Branch, LiveTypeOK
  <2>2. Branch(a) = {a} \cup Ancestors[a]
    BY <2>1, BranchFull
  <2>3. Branch(g) = {g} \cup Ancestors[g] /\ Branch(tip) = {tip} \cup Ancestors[tip]
    BY BranchFull
  <2>4. a # g => Ancestors[a] \subseteq Ancestors[g]
    BY <2>1, <2>3, TreeAssumption
  <2>5. a # tip => Ancestors[a] \subseteq Ancestors[tip]
    BY <2>1, <2>3, TreeAssumption
  <2>6. QED
    BY <2>1, <2>2, <2>3, <2>4, <2>5
<1>2. g \in Branch(g)
  BY DEF Branch
<1>3. QED
  BY <1>1, <1>2 DEF Shared

----------------------------------------------------------------------------
(* The tip an insertion compares with is the tip of the active chain.      *)
LEMMA TheTip ==
  ASSUME LiveInv, NEW h \in Headers, NEW tip, NextHeader(h, tip)
  PROVE  /\ tip \in Known /\ Prev[h] \in Known /\ h \notin Known
         /\ ActiveTips = {tip} /\ Active = Branch(tip)
<1>1. Prev[h] \in Known /\ h \notin Known /\ tip \in PriorTips(Prev[h])
  BY DEF NextHeader, Dupe
<1>2. PICK t \in Known : ActiveTips = {t} /\ Active = Branch(t)
  BY <1>1 DEF LiveInv, OneActiveChain
<1>3. tip = t
  BY <1>1, <1>2 DEF PriorTips
<1>4. QED
  BY <1>1, <1>2, <1>3

(* The rows after an insertion, column by column.                          *)
LEMMA NextRows ==
  ASSUME LiveTypeOK, NEW h \in Headers, NEW tip, NextHeader(h, tip)
  PROVE  /\ Known' = Known \cup {h}
         /\ live'[h] = [chainWork |-> ChainWork(h), isChainTip |-> MoreWork(h, tip),
                        isActive |-> MoreWork(h, tip)]
         /\ \A g \in Known :
              /\ live'[g] \in Row
              /\ live'[g].chainWork = live[g].chainWork
              /\ live'[g].isChainTip <=> live[g].isChainTip /\ g # Prev[h]
              /\ live'[g].isActive <=>
                   g \in Activated(h, tip) \/ (live[g].isActive /\ g \notin Deactivated(h, tip))
         /\ live' = [g \in Known \cup {h} |-> live'[g]]
<1> DEFINE rows == Reorganized(h, tip)
           after == NotTip(Prev[h], rows)
           row == [chainWork |-> ChainWork(h), isChainTip |-> MoreWork(h, tip),
                   isActive |-> MoreWork(h, tip)]
<1>1. h \notin Known /\ Prev[h] \in Known /\ live' = With(h, row, after)
  BY DEF NextHeader, Dupe
<1>2. /\ DOMAIN rows = Known
      /\ \A g \in Known :
           rows[g] = [live[g] EXCEPT !.isActive =
             g \in Activated(h, tip) \/ (live[g].isActive /\ g \notin Deactivated(h, tip))]
  BY DEF Reorganized
<1>3. /\ DOMAIN after = Known
      /\ \A g \in Known : g # Prev[h] => after[g] = rows[g]
      /\ after[Prev[h]] = [rows[Prev[h]] EXCEPT !.isChainTip = FALSE]
  BY <1>1, <1>2 DEF NotTip
<1> HIDE DEF after, rows
<1>4. live' = [g \in Known \cup {h} |-> IF g = h THEN row ELSE after[g]]
  BY <1>1, <1>3 DEF With
<1>5. live'[h] = row /\ Known' = Known \cup {h}
  BY <1>4 DEF Known
<1>6. \A g \in Known : live'[g] = after[g]
  BY <1>1, <1>4
<1>7. ASSUME NEW g \in Known
      PROVE  /\ after[g] \in Row
             /\ after[g].chainWork = live[g].chainWork
             /\ after[g].isChainTip <=> live[g].isChainTip /\ g # Prev[h]
             /\ after[g].isActive <=>
                  g \in Activated(h, tip) \/ (live[g].isActive /\ g \notin Deactivated(h, tip))
  <2>1. live[g].chainWork \in Nat /\ live[g].isChainTip \in BOOLEAN
    BY DEF LiveTypeOK, Row
  <2>2. rows[g] = [live[g] EXCEPT !.isActive =
                     g \in Activated(h, tip) \/ (live[g].isActive /\ g \notin Deactivated(h, tip))]
    BY <1>2
  <2>3. PICK on \in BOOLEAN :
          on <=> g \in Activated(h, tip) \/ (live[g].isActive /\ g \notin Deactivated(h, tip))
    OBVIOUS
  <2>4. rows[g] = [live[g] EXCEPT !.isActive = on]
    BY <2>2, <2>3
  <2>5. rows[g] = [chainWork |-> live[g].chainWork, isChainTip |-> live[g].isChainTip,
                   isActive |-> on]
    BY <2>4 DEF LiveTypeOK, Row
  <2>6. CASE g # Prev[h]
    BY <1>3, <2>1, <2>3, <2>5, <2>6 DEF Row
  <2>7. CASE g = Prev[h]
    <3>1. after[g] = [chainWork |-> live[g].chainWork, isChainTip |-> FALSE, isActive |-> on]
      <4>1. after[g] = [rows[g] EXCEPT !.isChainTip = FALSE]
        BY <1>3, <2>7
      <4>2. rows[g] \in Row
        BY <2>1, <2>5 DEF Row
      <4>3. after[g] = [chainWork |-> rows[g].chainWork, isChainTip |-> FALSE,
                        isActive |-> rows[g].isActive]
        BY <4>1, <4>2 DEF Row
      <4>4. QED
        BY <2>5, <4>3
    <3>2. QED
      BY <2>1, <2>3, <2>7, <3>1 DEF Row
  <2>8. QED
    BY <2>6, <2>7
<1>8. live' = [g \in Known \cup {h} |-> live'[g]]
  BY <1>4
<1>9. QED
  BY <1>5, <1>6, <1>7, <1>8

(* A child of a row: the branch of the new header is its parent's and it.  *)
LEMMA NewBranch ==
  ASSUME LiveTypeOK, NEW h \in Headers, NEW tip, NextHeader(h, tip)
  PROVE  /\ Ancestors[h] = Branch(Prev[h])
         /\ Branch(h)' = Branch(Prev[h]) \cup {h}
         /\ \A g \in Known : Branch(g)' = Branch(g)
         /\ LiveTypeOK'
<1>1. Prev[h] \in Known /\ h \notin Known /\ Known' = Known \cup {h}
  BY NextRows DEF NextHeader, Dupe
<1>2. Prev[h] \in Headers /\ Ancestors[h] = {Prev[h]} \cup Ancestors[Prev[h]]
  BY <1>1, TreeAssumption DEF LiveTypeOK
<1>3. Branch(Prev[h]) = {Prev[h]} \cup Ancestors[Prev[h]]
  BY <1>1, BranchFull
<1>4. Ancestors[h] \subseteq Known
  BY <1>1, <1>2 DEF LiveTypeOK
<1>5. \A g \in Known : Branch(g)' = Branch(g)
  BY <1>1 DEF Branch, LiveTypeOK
<1>6. Branch(h)' = Branch(Prev[h]) \cup {h}
  BY <1>1, <1>2, <1>3, <1>4 DEF Branch
<1>7. live'[h] \in Row
  <2>1. live[Prev[h]].chainWork \in Nat /\ live[tip].chainWork \in Nat /\ Work[h] \in Nat
    <3>1. tip \in Known
      BY <1>1 DEF NextHeader, PriorTips, ActiveTips, Active
    <3>2. QED
      BY <1>1, <3>1, WorkAssumption DEF LiveTypeOK, Row
  <2>2. ChainWork(h) \in Nat /\ MoreWork(h, tip) \in BOOLEAN
    BY <2>1 DEF ChainWork, MoreWork
  <2>3. live'[h] = [chainWork |-> ChainWork(h), isChainTip |-> MoreWork(h, tip),
                    isActive |-> MoreWork(h, tip)]
    BY NextRows
  <2>4. QED
    BY <2>2, <2>3 DEF Row
<1>8. live' \in [Known' -> Row]
  BY <1>1, <1>7, NextRows
<1>9. QED
  BY <1>1, <1>2, <1>3, <1>4, <1>5, <1>6, <1>8 DEF LiveTypeOK

(* The active chain after an insertion: the new header's branch, or as it  *)
(* was.                                                                    *)
LEMMA NextChain ==
  ASSUME LiveInv, NEW h \in Headers, NEW tip, NextHeader(h, tip)
  PROVE  /\ MoreWork(h, tip) => ActiveTips' = {h} /\ Active' = Branch(h)'
         /\ ~MoreWork(h, tip) => ActiveTips' = {tip} /\ Active' = Branch(tip)'
<1> DEFINE g == Prev[h]
<1>0. LiveTypeOK /\ TipIsHeaviest /\ TipHasNoChild /\ WorkGrows
  BY DEF LiveInv
<1>1. /\ tip \in Known /\ g \in Known /\ h \notin Known
      /\ ActiveTips = {tip} /\ Active = Branch(tip)
  BY TheTip
<1>2. \A x \in Known' : live'[x].isActive <=> x \in Active'
  BY DEF Active
<1>3. /\ Known' = Known \cup {h}
      /\ live'[h].isActive <=> MoreWork(h, tip)
      /\ live'[h].isChainTip <=> MoreWork(h, tip)
      /\ \A x \in Known :
           /\ live'[x].isChainTip <=> live[x].isChainTip /\ x # g
           /\ live'[x].isActive <=>
                x \in Activated(h, tip) \/ (x \in Active /\ x \notin Deactivated(h, tip))
  <2>1. live'[h] = [chainWork |-> ChainWork(h), isChainTip |-> MoreWork(h, tip),
                    isActive |-> MoreWork(h, tip)]
    BY <1>0, NextRows
  <2>2. Known' = Known \cup {h}
    BY <1>0, NextRows
  <2>3. \A x \in Known :
          /\ live'[x].isChainTip <=> live[x].isChainTip /\ x # g
          /\ live'[x].isActive <=>
               x \in Activated(h, tip) \/ (live[x].isActive /\ x \notin Deactivated(h, tip))
    BY <1>0, NextRows
  <2>4. \A x \in Known : live[x].isActive <=> x \in Active
    BY DEF Active
  <2>5. (live'[h].isActive <=> MoreWork(h, tip)) /\ (live'[h].isChainTip <=> MoreWork(h, tip))
    BY <2>1
  <2>6. QED
    BY <2>2, <2>3, <2>4, <2>5
<1>4. Branch(g) \subseteq Known /\ g \in Branch(g)
  BY <1>1 DEF Branch
<1>5. CASE ~MoreWork(h, tip)
  <2>1. Activated(h, tip) = {} /\ Deactivated(h, tip) = {}
    BY <1>5 DEF Activated, Deactivated
  <2>2. Active' = Active
    BY <1>1, <1>3, <1>5, <2>1 DEF Active
  <2>3. g # tip
    <3>1. live[tip].chainWork \in Nat /\ Work[h] \in Nat \ {0}
      BY <1>0, <1>1, WorkAssumption DEF LiveTypeOK, Row
    <3>2. QED
      BY <1>5, <3>1 DEF MoreWork, ChainWork
  <2>4. ActiveTips' = {tip}
    BY <1>1, <1>3, <2>2, <2>3 DEF ActiveTips, Active
  <2>5. QED
    BY <1>0, <1>1, <1>5, <2>2, <2>4, NewBranch
<1>6. CASE MoreWork(h, tip)
  <2>1. /\ Shared(g) \subseteq Branch(g) /\ Shared(g) \subseteq Active
        /\ g \in Active => Shared(g) = Branch(g)
    BY <1>0, <1>1, SharedInBoth
  <2>2. g \in Active => g = tip
    <3> SUFFICES ASSUME g \in Active, g # tip
                 PROVE  FALSE
      OBVIOUS
    <3>1. g \in Ancestors[tip]
      BY <1>0, <1>1, BranchFull
    <3>2. live[g].chainWork + Work[h] <= live[tip].chainWork
      BY <1>0, <1>1, <3>1 DEF WorkGrows
    <3>3. live[g].chainWork \in Nat /\ live[tip].chainWork \in Nat /\ Work[h] \in Nat
      BY <1>0, <1>1, WorkAssumption DEF LiveTypeOK, Row
    <3>4. QED
      BY <1>6, <3>2, <3>3 DEF MoreWork, ChainWork
  <2>3. \A x \in Known : live'[x].isActive <=> x \in Branch(g)
    <3>1. CASE g \in Active
      <4>1. Activated(h, tip) = {} /\ Deactivated(h, tip) = {} /\ Branch(g) = Active
        BY <1>1, <2>1, <2>2, <3>1 DEF Activated, Deactivated
      <4>2. QED
        BY <1>3, <4>1
    <3>2. CASE g \notin Active
      <4>1. /\ Activated(h, tip) = Branch(g) \ Shared(g)
            /\ Deactivated(h, tip) = Active \ Shared(g)
        BY <1>1, <1>6, <3>2 DEF Activated, Deactivated
      <4>2. QED
        BY <1>3, <2>1, <4>1
    <3>3. QED
      BY <3>1, <3>2
  <2>4. Active' = Branch(g) \cup {h}
    BY <1>3, <1>4, <1>6, <2>3 DEF Active
  <2>5. \A x \in Branch(g) : x # g => ~live[x].isChainTip
    <3>1. Branch(g) = {g} \cup Ancestors[g]
      BY <1>0, <1>1, BranchFull
    <3>2. QED
      BY <1>0, <1>1, <1>4, <3>1 DEF TipHasNoChild
  <2>6. ActiveTips' = {h}
    BY <1>1, <1>3, <1>4, <1>6, <2>4, <2>5 DEF ActiveTips
  <2>7. QED
    BY <1>0, <1>6, <2>4, <2>6, NewBranch
<1>7. QED
  BY <1>5, <1>6

(* The chain work of rows after an insertion.                              *)
LEMMA NextWork ==
  ASSUME LiveInv, NEW h \in Headers, NEW tip, NextHeader(h, tip)
  PROVE  /\ live'[h].chainWork = live[Prev[h]].chainWork + Work[h]
         /\ \A g \in Known : live'[g].chainWork = live[g].chainWork
         /\ \A g \in Known : live[g].chainWork \in Nat
         /\ Work[h] \in Nat \ {0}
<1>1. live'[h].chainWork = ChainWork(h)
  <2>1. live'[h] = [chainWork |-> ChainWork(h), isChainTip |-> MoreWork(h, tip),
                    isActive |-> MoreWork(h, tip)]
    BY NextRows DEF LiveInv
  <2>2. QED
    BY <2>1
<1>2. \A g \in Known : live'[g].chainWork = live[g].chainWork
  BY NextRows DEF LiveInv
<1>3. \A g \in Known : live[g].chainWork \in Nat
  BY DEF LiveInv, LiveTypeOK, Row
<1>4. QED
  BY <1>1, <1>2, <1>3, WorkAssumption DEF ChainWork

LEMMA NextInv ==
  ASSUME LiveInv, NEW h \in Headers, NEW tip, NextHeader(h, tip)
  PROVE  LiveInv'
<1> DEFINE g == Prev[h]
<1>0. LiveTypeOK /\ TipIsHeaviest /\ TipHasNoChild /\ WorkGrows
  BY DEF LiveInv
<1>1. /\ tip \in Known /\ g \in Known /\ h \notin Known
      /\ ActiveTips = {tip} /\ Active = Branch(tip)
  BY TheTip
<1>2. Known' = Known \cup {h}
  BY <1>0, NextRows
<1>3. Ancestors[h] = {g} \cup Ancestors[g]
  BY <1>0, <1>1, NewBranch, BranchFull
<1>4. /\ live'[h].chainWork = live[g].chainWork + Work[h]
      /\ \A x \in Known : live'[x].chainWork = live[x].chainWork
      /\ \A x \in Known : live[x].chainWork \in Nat
      /\ Work[h] \in Nat \ {0}
  BY NextWork
<1>5. LiveTypeOK'
  BY <1>0, NewBranch
<1>6. OneActiveChain'
  <2>1. CASE MoreWork(h, tip)
    BY <1>2, <2>1, NextChain DEF OneActiveChain
  <2>2. CASE ~MoreWork(h, tip)
    BY <1>1, <1>2, <2>2, NextChain DEF OneActiveChain
  <2>3. QED
    BY <2>1, <2>2
<1>7. TipIsHeaviest'
  <2>1. \A x \in Known : live[x].chainWork <= live[tip].chainWork
    BY <1>0, <1>1 DEF TipIsHeaviest
  <2>2. CASE MoreWork(h, tip)
    <3>1. ActiveTips' = {h} /\ live'[h].chainWork > live[tip].chainWork
      BY <1>4, <2>2, NextChain DEF MoreWork, ChainWork
    <3>2. \A x \in Known' : live'[x].chainWork <= live'[h].chainWork
      BY <1>1, <1>2, <1>4, <2>1, <3>1
    <3>3. QED
      BY <3>1, <3>2 DEF TipIsHeaviest
  <2>3. CASE ~MoreWork(h, tip)
    <3>1. ActiveTips' = {tip} /\ live'[h].chainWork <= live'[tip].chainWork
      BY <1>1, <1>4, <2>3, NextChain DEF MoreWork, ChainWork
    <3>2. \A x \in Known' : live'[x].chainWork <= live'[tip].chainWork
      BY <1>1, <1>2, <1>4, <2>1, <3>1
    <3>3. QED
      BY <3>1, <3>2 DEF TipIsHeaviest
  <2>4. QED
    BY <2>2, <2>3
<1>8. TipHasNoChild'
  <2> SUFFICES ASSUME NEW x \in Known', NEW y \in Known', live'[x].isChainTip
               PROVE  x \notin Ancestors[y]
    BY DEF TipHasNoChild
  <2>1. Ancestors[y] \subseteq Known
    BY <1>0, <1>1, <1>2, <1>3 DEF LiveTypeOK
  <2>2. CASE x = h
    BY <1>1, <2>1, <2>2
  <2>3. CASE x \in Known
    <3>1. live[x].isChainTip /\ x # g
      BY <1>0, <2>3, NextRows
    <3>2. \A z \in Known : x \notin Ancestors[z]
      BY <1>0, <2>3, <3>1 DEF TipHasNoChild
    <3>3. QED
      BY <1>1, <1>2, <1>3, <3>1, <3>2
  <2>4. QED
    BY <1>2, <2>2, <2>3
<1>9. WorkGrows'
  <2> SUFFICES ASSUME NEW y \in Known', NEW x \in Ancestors[y], NEW z \in Headers, Prev[z] = x
               PROVE  live'[x].chainWork + Work[z] <= live'[y].chainWork
    BY DEF WorkGrows
  <2>1. Work[z] \in Nat
    BY WorkAssumption
  <2>2. x \in Known
    BY <1>0, <1>1, <1>2, <1>3 DEF LiveTypeOK
  <2>3. CASE y \in Known
    BY <1>0, <1>4, <2>2, <2>3 DEF WorkGrows
  <2>4. CASE y = h /\ x = g
    BY <1>1, <1>4, <2>4, SiblingsEqualWork
  <2>5. CASE y = h /\ x # g
    <3>1. x \in Ancestors[g]
      BY <1>3, <2>5
    <3>2. live[x].chainWork + Work[z] <= live[g].chainWork
      BY <1>0, <1>1, <3>1 DEF WorkGrows
    <3>3. QED
      BY <1>1, <1>4, <2>1, <2>2, <2>5, <3>2
  <2>6. QED
    BY <1>2, <2>3, <2>4, <2>5
<1>10. QED
  BY <1>5, <1>6, <1>7, <1>8, <1>9 DEF LiveInv

(* The first header stands alone.                                          *)
LEMMA FirstInv ==
  ASSUME LiveInv, NEW h \in Headers, FirstHeader(h)
  PROVE  LiveInv'
<1>1. Known = {} /\ Prev[h] = BulkTip
  BY DEF FirstHeader, First
<1>2. Ancestors[h] = {}
  BY <1>1, TreeAssumption
<1>3. live' = [g \in {h} |-> [chainWork |-> BulkWork + Work[h], isChainTip |-> TRUE,
                              isActive |-> TRUE]]
  BY <1>1 DEF FirstHeader, With, Known
<1>4. BulkWork + Work[h] \in Nat
  BY WorkAssumption
<1>5. Known' = {h} /\ Active' = {h} /\ ActiveTips' = {h} /\ Branch(h)' = {h}
  BY <1>2, <1>3 DEF Known, Active, ActiveTips, Branch
<1>6. LiveTypeOK'
  BY <1>2, <1>3, <1>4, <1>5 DEF LiveTypeOK, Row
<1>7. live'[h].chainWork <= live'[h].chainWork
  BY <1>3, <1>4
<1>8. QED
  BY <1>2, <1>5, <1>6, <1>7
     DEF LiveInv, OneActiveChain, TipIsHeaviest, TipHasNoChild, WorkGrows

LEMMA LiveStep == LiveInv /\ [InsertNext]_live => LiveInv'
<1> SUFFICES ASSUME LiveInv, [InsertNext]_live
             PROVE  LiveInv'
  OBVIOUS
<1>1. ASSUME NEW h \in Headers, FirstHeader(h)
      PROVE  LiveInv'
  BY <1>1, FirstInv
<1>2. ASSUME NEW h \in Headers, NEW tip \in ActiveTips, NextHeader(h, tip)
      PROVE  LiveInv'
  BY <1>2, NextInv
<1>3. CASE UNCHANGED live
  BY <1>3 DEF LiveInv, LiveTypeOK, OneActiveChain, TipIsHeaviest, TipHasNoChild, WorkGrows,
              Branch, ActiveTips, Active, Known
<1>4. QED
  BY <1>1, <1>2, <1>3 DEF InsertNext

(* An insertion moves the active tip up in work, or leaves it.             *)
LEMMA StepMovesUp ==
  ASSUME LiveInv, [InsertNext]_live, NEW old \in ActiveTips, NEW new \in ActiveTips',
         old # new
  PROVE  live'[new].chainWork > live[old].chainWork
<1>1. old \in Known
  BY DEF ActiveTips, Active
<1>2. ASSUME NEW h \in Headers, FirstHeader(h)
      PROVE  FALSE
  BY <1>1, <1>2 DEF FirstHeader, First
<1>3. ASSUME NEW h \in Headers, NEW tip \in ActiveTips, NextHeader(h, tip)
      PROVE  live'[new].chainWork > live[old].chainWork
  <2>1. ActiveTips = {tip} /\ Prev[h] \in Known
    BY <1>3, TheTip
  <2>2. MoreWork(h, tip) /\ new = h
    BY <1>3, <2>1, NextChain
  <2>3. QED
    BY <1>3, <2>1, <2>2, NextWork DEF MoreWork, ChainWork
<1>4. CASE UNCHANGED live
  <2>1. ActiveTips' = ActiveTips
    BY <1>4 DEF ActiveTips, Active, Known
  <2>2. PICK t \in Known : ActiveTips = {t}
    BY <1>1 DEF LiveInv, OneActiveChain
  <2>3. QED
    BY <2>1, <2>2
<1>5. QED
  BY <1>2, <1>3, <1>4 DEF InsertNext

----------------------------------------------------------------------------
(* insertHeader keeps one active chain of live headers, whatever headers   *)
(* come in whatever order.                                                 *)
THEOREM ChainKept == LiveSpec => []LiveInv
BY LiveInitInv, LiveStep, PTL DEF LiveSpec

----------------------------------------------------------------------------
(* The lowest header, once stored, stays: what is on the bulk tip is known. *)
BottomKnown ==
  Known # {} => \A h \in Headers : Prev[h] = BulkTip => h \in Known

(* The thread only ever asks for the parent of a header that has one.      *)
AsksAboveBulk ==
  /\ thread.pc \in {"insert", "missing"} => thread.header \in Headers
  /\ thread.pc = "missing" => Prev[thread.header] \in Headers

ThreadInv ==
  /\ LiveInv
  /\ liveHeaders \in Seq(Headers) /\ baseHeaders \in Seq(Headers)
  /\ thread \in Thread
  /\ BottomKnown
  /\ AsksAboveBulk

USE DEF ThreadInv, AsksAboveBulk, Thread, Waiting, queues

LEMMA ThreadInitInv == Init => ThreadInv
<1> SUFFICES ASSUME Init
             PROVE  ThreadInv
  OBVIOUS
<1>1. LiveInv
  BY LiveInitInv DEF Init, ChainInit
<1>2. BottomKnown
  BY DEF Init, ChainInit, LiveInit, BottomKnown, Known
<1>3. QED
  BY <1>1, <1>2, ChaintracksAssumption DEF Init, ChainInit

(* Steps that leave the live headers alone keep what is said of them.      *)
LEMMA LiveUnchanged ==
  ASSUME LiveInv, BottomKnown, UNCHANGED live
  PROVE  LiveInv' /\ BottomKnown'
BY LiveStep DEF BottomKnown, Known

LEMMA InsertFirstStep ==
  ASSUME ThreadInv, insertFirst
  PROVE  ThreadInv' /\ InsertNext
<1> DEFINE h == thread.header
<1>1. h \in Headers /\ FirstHeader(h)
  BY DEF insertFirst
<1>2. InsertNext
  BY <1>1 DEF InsertNext
<1>3. LiveInv'
  BY <1>2, LiveStep
<1>4. BottomKnown'
  <2>1. Prev[h] = BulkTip /\ Known' = Known \cup {h}
    BY <1>1 DEF FirstHeader, First, With, Known
  <2>2. QED
    BY <1>1, <2>1, NoForkBelowLive DEF BottomKnown
<1>5. QED
  BY <1>2, <1>3, <1>4, ChaintracksAssumption DEF insertFirst

LEMMA InsertNextStep ==
  ASSUME ThreadInv, insertNext
  PROVE  ThreadInv' /\ InsertNext
<1> DEFINE h == thread.header
<1>1. PICK tip \in ActiveTips : NextHeader(h, tip)
  BY DEF insertNext
<1>2. h \in Headers
  BY DEF insertNext
<1>3. InsertNext
  BY <1>1, <1>2 DEF InsertNext
<1>4. LiveInv'
  BY <1>3, LiveStep
<1>5. Known' = Known \cup {h} /\ Prev[h] \in Known
  BY <1>1, <1>2, NextRows DEF LiveInv, NextHeader
<1>6. BottomKnown'
  BY <1>5 DEF BottomKnown
<1>7. thread' \in Thread /\ AsksAboveBulk'
  <2>1. PICK t \in ActiveTips :
          thread' = IF enabled /\ MoreWork(h, t)
                      THEN [thread EXCEPT !.pc = "notify", !.deactivated = Deactivated(h, t)]
                      ELSE Waiting
    BY DEF insertNext
  <2>2. Deactivated(h, t) \in SUBSET Headers
    BY DEF Deactivated, Branch, LiveInv, LiveTypeOK
  <2>3. Waiting \in Thread
    BY ChaintracksAssumption
  <2>4. CASE thread' = Waiting
    BY <2>3, <2>4
  <2>5. CASE thread' = [thread EXCEPT !.pc = "notify", !.deactivated = Deactivated(h, t)]
    <3>1. thread' \in Thread
      BY <2>2, <2>5
    <3>2. thread'.pc = "notify"
      BY <2>5
    <3>3. QED
      BY <3>1, <3>2
  <2>6. QED
    BY <2>1, <2>4, <2>5
<1>8. QED
  BY <1>3, <1>4, <1>6, <1>7 DEF insertNext

LEMMA MissingStep ==
  ASSUME ThreadInv, noPrev \/ getMissingBlockHeader
  PROVE  ThreadInv' /\ UNCHANGED live
<1>1. CASE noPrev
  <2>1. UNCHANGED <<live, liveHeaders, baseHeaders>> /\ thread.header \in Headers
    BY <1>1 DEF noPrev
  <2>2. Prev[thread.header] \in Headers
    BY <1>1, <2>1, NoForkBelowLive DEF noPrev, NoPrev, Dupe, First, BottomKnown
  <2>3. thread' = Waiting \/ (thread.recursions # 0 /\
          thread' = [thread EXCEPT !.pc = "missing", !.recursions = thread.recursions - 1])
    BY <1>1 DEF noPrev
  <2>4. thread.recursions # 0 => thread.recursions - 1 \in 0..RecursionLimit
    BY ChaintracksAssumption
  <2>5. thread' \in Thread /\ AsksAboveBulk'
    <3>1. CASE thread' = Waiting
      BY <3>1, ChaintracksAssumption
    <3>2. CASE /\ thread.recursions # 0
               /\ thread' = [thread EXCEPT !.pc = "missing", !.recursions = thread.recursions - 1]
      <4>1. thread' \in Thread
        BY <2>4, <3>2
      <4>2. thread'.header = thread.header
        BY <3>2
      <4>3. QED
        BY <2>1, <2>2, <4>1, <4>2
    <3>3. QED
      BY <2>3, <3>1, <3>2
  <2>6. QED
    BY <2>1, <2>5, LiveUnchanged
<1>2. CASE getMissingBlockHeader
  <2>1. UNCHANGED <<live, baseHeaders>> /\ thread.header \in Headers
    BY <1>2 DEF getMissingBlockHeader
  <2>2. liveHeaders' \in Seq(Headers)
    BY <1>2, <2>1 DEF getMissingBlockHeader, Requeue
  <2>3. QED
    BY <1>2, <2>1, <2>2, LiveUnchanged DEF getMissingBlockHeader
<1>3. QED
  BY <1>1, <1>2

LEMMA QueueStep ==
  ASSUME ThreadInv,
         \/ Ingest \/ shiftLive \/ shiftBase \/ idle \/ ignore \/ parentNotFound \/ notify
  PROVE  ThreadInv' /\ UNCHANGED live
<1>1. CASE Ingest
  <2>1. PICK h \in Headers : Listen(h) \/ addHeader(h)
    BY <1>1 DEF Ingest
  <2>2. UNCHANGED <<live, thread>>
    BY <2>1 DEF Listen, addHeader, Announced
  <2>3. liveHeaders' \in Seq(Headers) /\ baseHeaders' \in Seq(Headers)
    <3>1. /\ liveHeaders' \in {liveHeaders, Append(liveHeaders, h), <<h>> \o liveHeaders}
          /\ baseHeaders' \in {baseHeaders, Append(baseHeaders, h)}
      BY <2>1 DEF Listen, addHeader
    <3>2. <<h>> \in Seq(Headers)
      OBVIOUS
    <3>3. <<h>> \o liveHeaders \in Seq(Headers) /\ Append(liveHeaders, h) \in Seq(Headers)
      BY <3>2
    <3>4. Append(baseHeaders, h) \in Seq(Headers)
      OBVIOUS
    <3>5. QED
      BY <3>1, <3>3, <3>4
  <2>4. QED
    BY <2>2, <2>3, LiveUnchanged
<1>2. CASE shiftLive
  <2>1. UNCHANGED <<live, baseHeaders>> /\ liveHeaders # <<>>
    BY <1>2 DEF shiftLive
  <2>2. Head(liveHeaders) \in Headers /\ liveHeaders' \in Seq(Headers)
    BY <1>2, <2>1 DEF shiftLive
  <2>3. thread' = [pc |-> "insert", header |-> Head(liveHeaders),
                   recursions |-> RecursionLimit, deactivated |-> {}]
    BY <1>2 DEF shiftLive
  <2>4. QED
    BY <2>1, <2>2, <2>3, LiveUnchanged, ChaintracksAssumption
<1>3. CASE shiftBase
  <2>1. UNCHANGED <<live, liveHeaders>> /\ baseHeaders # <<>>
    BY <1>3 DEF shiftBase
  <2>2. Head(baseHeaders) \in Headers /\ baseHeaders' \in Seq(Headers)
    BY <1>3, <2>1 DEF shiftBase
  <2>3. thread' = Waiting \/ thread' = [pc |-> "insert", header |-> Head(baseHeaders),
                                        recursions |-> 0, deactivated |-> {}]
    BY <1>3 DEF shiftBase
  <2>4. QED
    BY <2>1, <2>2, <2>3, LiveUnchanged, ChaintracksAssumption
<1>4. CASE idle
  BY <1>4, LiveUnchanged DEF idle
<1>5. CASE ignore \/ parentNotFound \/ notify
  <2>1. UNCHANGED <<live, liveHeaders, baseHeaders>> /\ thread' = Waiting
    BY <1>5 DEF ignore, parentNotFound, notify
  <2>2. QED
    BY <2>1, LiveUnchanged, ChaintracksAssumption
<1>6. QED
  BY <1>1, <1>2, <1>3, <1>4, <1>5

(* The monitor's tasks leave Chaintracks alone, but for the count of faults. *)
LEMMA MonitorStep ==
  ASSUME ThreadInv, UNCHANGED <<live, queues, thread>>
  PROVE  ThreadInv'
BY LiveUnchanged

LEMMA ThreadStep ==
  ASSUME ThreadInv, [Next]_vars
  PROVE  ThreadInv' /\ [InsertNext]_live
<1>1. CASE Ingest \/ MainThread \/ processReorg
  BY <1>1, InsertFirstStep, InsertNextStep, MissingStep, QueueStep DEF MainThread, processReorg
<1>2. CASE \/ findChainTipHeader \/ (\E t \in Txs : getMerklePath(t)) \/ trigger
           \/ reproveThrows \/ TaskSteps
  <2>1. UNCHANGED <<live, queues, thread>>
    BY <1>2 DEF findChainTipHeader, getMerklePath, trigger, reproveThrows, TaskSteps,
                saveProof, runTaskEnds, reproveHeader, updateProvenTx, reproveProven, chainVars
  <2>2. QED
    BY <2>1, MonitorStep
<1>3. CASE UNCHANGED vars
  BY <1>3, MonitorStep DEF vars, chainVars
<1>4. QED
  BY <1>1, <1>2, <1>3 DEF Next

LEMMA ThreadAlways == Spec => []ThreadInv
BY ThreadInitInv, ThreadStep, PTL DEF Spec

----------------------------------------------------------------------------
(* Whatever the ingestors deliver and whoever asks, live headers are only  *)
(* changed as insertHeader changes them.                                   *)
THEOREM ImplementsLive == Spec => LiveSpec
<1>1. Init => LiveInit
  BY DEF Init, ChainInit
<1>2. ThreadInv /\ [Next]_vars => [InsertNext]_live
  BY ThreadStep
<1>3. QED
  BY <1>1, <1>2, ThreadAlways, PTL DEF Spec, LiveSpec

(* There is one active chain, at every moment of every reorganization that *)
(* others can see.                                                         *)
THEOREM OneChain == Spec => []OneActiveChain
<1>1. ThreadInv => OneActiveChain
  BY DEF LiveInv
<1>2. QED
  BY <1>1, ThreadAlways, PTL

(* The active tip has the most work of all stored headers.                 *)
THEOREM HeaviestTip == Spec => []TipIsHeaviest
<1>1. ThreadInv => TipIsHeaviest
  BY DEF LiveInv
<1>2. QED
  BY <1>1, ThreadAlways, PTL

(* The active tip is only ever replaced by one with strictly more work.    *)
THEOREM FirstSeenStays == Spec => TipMovesUp
<1>1. ThreadInv /\ [Next]_vars =>
        [\A old \in ActiveTips, new \in ActiveTips' :
           old # new => live'[new].chainWork > live[old].chainWork]_live
  BY ThreadStep, StepMovesUp
<1>2. QED
  BY <1>1, ThreadAlways, PTL DEF Spec, TipMovesUp

----------------------------------------------------------------------------
(* Queues of headers *)

QueueEntry == [header : Headers, tries : Nat]

QueuedIn(q, h) == \E i \in DOMAIN q : q[i].header = h

LEMMA Concatenated ==
  ASSUME NEW p \in Seq(QueueEntry), NEW q \in Seq(QueueEntry), NEW h,
         QueuedIn(p, h) \/ QueuedIn(q, h)
  PROVE  p \o q \in Seq(QueueEntry) /\ QueuedIn(p \o q, h)
<1>1. p \o q \in Seq(QueueEntry)
  OBVIOUS
<1>2. CASE QueuedIn(p, h)
  <2>1. PICK i \in 1..Len(p) : p[i].header = h
    BY <1>2 DEF QueuedIn
  <2>2. i \in DOMAIN (p \o q) /\ (p \o q)[i] = p[i]
    OBVIOUS
  <2> QED
    BY <1>1, <2>1, <2>2 DEF QueuedIn
<1>3. CASE QueuedIn(q, h)
  <2>1. PICK i \in 1..Len(q) : q[i].header = h
    BY <1>3 DEF QueuedIn
  <2>2. Len(p) + i \in DOMAIN (p \o q) /\ (p \o q)[Len(p) + i] = q[i]
    OBVIOUS
  <2> QED
    BY <1>1, <2>1, <2>2 DEF QueuedIn
<1> QED
  BY <1>2, <1>3

LEMMA EntriesInOrder ==
  ASSUME NEW n \in Nat, NEW f \in [1..n -> QueueEntry]
  PROVE  f \in Seq(QueueEntry)
OBVIOUS

LEMMA Split ==
  ASSUME NEW q \in Seq(QueueEntry), NEW n \in 0..Len(q), NEW h, QueuedIn(q, h)
  PROVE  QueuedIn(SubSeq(q, 1, n), h) \/ QueuedIn(SubSeq(q, n + 1, Len(q)), h)
<1>1. PICK i \in 1..Len(q) : q[i].header = h
  BY DEF QueuedIn
<1>2. CASE i <= n
  <2>1. i \in DOMAIN SubSeq(q, 1, n) /\ SubSeq(q, 1, n)[i] = q[i]
    BY <1>2
  <2> QED
    BY <1>1, <2>1 DEF QueuedIn
<1>3. CASE i > n
  <2>1. /\ i - n \in DOMAIN SubSeq(q, n + 1, Len(q))
        /\ SubSeq(q, n + 1, Len(q))[i - n] = q[i]
    BY <1>3
  <2> QED
    BY <1>1, <2>1 DEF QueuedIn
<1> QED
  BY <1>2, <1>3

LEMMA Shifted ==
  ASSUME NEW q \in Seq(QueueEntry), q # <<>>, NEW h, QueuedIn(q, h)
  PROVE  Head(q).header = h \/ QueuedIn(Tail(q), h)
<1>1. PICK i \in 1..Len(q) : q[i].header = h
  BY DEF QueuedIn
<1>2. CASE i = 1
  BY <1>1, <1>2
<1>3. CASE i # 1
  <2>1. i - 1 \in DOMAIN Tail(q) /\ Tail(q)[i - 1] = q[i]
    BY <1>3
  <2> QED
    BY <1>1, <2>1 DEF QueuedIn
<1> QED
  BY <1>2, <1>3

----------------------------------------------------------------------------
(* Proofs and the blocks they rest on *)

Blocks == Headers \cup {NoHeader}

TaskType == [pc : {"idle", "saveProof", "shift", "reprove"}, header : Blocks, tries : Nat,
             todo : SUBSET Txs, updates : [Txs -> Blocks], again : BOOLEAN]

MonitorTyped ==
  /\ proof \in [Txs -> Blocks]
  /\ deactivatedHeaders \in Seq(QueueEntry) /\ process \in Seq(QueueEntry)
  /\ newHeader \in [header : Blocks, queued : Blocks]
  /\ task \in TaskType
  /\ task.pc \in {"saveProof", "reprove"} => task.header \in Headers

(* Until the listeners are called, the monitor has nothing to go by.       *)
Quiet ==
  ~enabled => /\ \A t \in Txs : proof[t] = NoHeader
              /\ deactivatedHeaders = <<>> /\ process = <<>>
              /\ task.pc = "idle" /\ thread.pc # "notify"
              /\ newHeader.queued = NoHeader /\ lastNewHeader = NoHeader

(* The blocks that proofs rest on, or will when the task has saved them.   *)
Rested(h) ==
  \/ \E t \in Txs : proof[t] = h
  \/ task.pc = "saveProof" /\ task.header = h
  \/ task.pc = "reprove" /\ \E t \in Txs : task.updates[t] = h

Settled(h) == h \in Active \/ Pending(h) \/ h \in givenUp

RestedSettled == \A h \in Headers : Rested(h) => Settled(h)

(* No proof on the block in hand is forgotten, nor replaced by the same.   *)
Accounted ==
  task.pc = "reprove" =>
    \A t \in Txs : /\ task.updates[t] # task.header
                   /\ proof[t] = task.header =>
                        task.again \/ t \in task.todo \/ task.updates[t] # NoHeader

(* Only so many headers are ever stored. *)
Finite == IsFiniteSet(Known) /\ IsFiniteSet(thread.deactivated)

ProofsInv == MonitorTyped /\ Quiet /\ RestedSettled /\ Accounted /\ Finite

LEMMA InitProofsInv == Init => ProofsInv
<1> SUFFICES ASSUME Init PROVE ProofsInv
  OBVIOUS
<1>1. MonitorTyped
  BY DEF Init, MonitorTyped, NoTask, TaskType, Blocks
<1>2. Quiet
  BY DEF Init, ChainInit, Quiet, NoTask
<1>3. RestedSettled /\ Accounted
  BY ChaintracksAssumption DEF Init, RestedSettled, Rested, Accounted, NoTask
<1>4. Finite
  BY FS_EmptySet DEF Init, ChainInit, LiveInit, Finite, Known
<1> QED
  BY <1>1, <1>2, <1>3, <1>4 DEF ProofsInv

(* A step that leaves the monitor alone, and keeps what is active or lets  *)
(* the listeners know.                                                     *)
LEMMA ChainStepKeeps ==
  ASSUME ProofsInv, UNCHANGED monitorVars, enabled => enabled',
         thread.pc # "notify", thread'.pc = "notify" => enabled',
         NEW new, Known' \subseteq Known \cup {new},
         thread'.deactivated \subseteq Known \cup thread.deactivated,
         enabled => \A h \in Active : h \in Active' \/ (thread'.pc = "notify" /\ h \in thread'.deactivated)
  PROVE  ProofsInv'
<1>1. MonitorTyped' /\ Accounted'
  BY DEF ProofsInv, MonitorTyped, Accounted, monitorVars, reorgVars
<1>2. Quiet'
  BY DEF ProofsInv, Quiet, monitorVars, reorgVars
<1>3. RestedSettled'
  <2> SUFFICES ASSUME NEW h \in Headers, Rested(h)'
               PROVE  Settled(h)'
    BY DEF RestedSettled
  <2>1. Rested(h) /\ Settled(h)
    BY DEF ProofsInv, RestedSettled, Rested, monitorVars
  <2>2. enabled
    BY <2>1, ChaintracksAssumption DEF ProofsInv, Quiet, Rested
  <2> QED
    BY <2>1, <2>2 DEF Settled, Pending, monitorVars, reorgVars
<1>4. Finite'
  BY FS_Subset, FS_AddElement, FS_Union DEF ProofsInv, Finite
<1> QED
  BY <1>1, <1>2, <1>3, <1>4 DEF ProofsInv

(* What an insertion takes from the active chain is what it notifies.      *)
LEMMA InsertNotifies ==
  ASSUME ThreadInv, insertNext, enabled, NEW h \in Active
  PROVE  h \in Active' \/ (thread'.pc = "notify" /\ h \in thread'.deactivated)
<1> DEFINE new == thread.header
<1>1. PICK tip \in ActiveTips :
        /\ NextHeader(new, tip)
        /\ thread' = IF enabled /\ MoreWork(new, tip)
                       THEN [thread EXCEPT !.pc = "notify", !.deactivated = Deactivated(new, tip)]
                       ELSE Waiting
  BY DEF insertNext
<1>2. h \in Known /\ live[h].isActive /\ new \in Headers
  BY DEF Active, insertNext
<1>3. Known' = Known \cup {new} /\ (h \notin Deactivated(new, tip) => live'[h].isActive)
  BY <1>1, <1>2, NextRows DEF LiveInv
<1>4. h \in Deactivated(new, tip) => MoreWork(new, tip)
  BY DEF Deactivated
<1> QED
  BY <1>1, <1>2, <1>3, <1>4 DEF Active

LEMMA ThreadMissing ==
  ASSUME NEW t \in Thread, NEW n
  PROVE  /\ [t EXCEPT !.pc = "missing", !.recursions = n].pc = "missing"
         /\ [t EXCEPT !.pc = "missing", !.recursions = n].deactivated = t.deactivated
OBVIOUS

LEMMA ChainKeeps ==
  ASSUME ThreadInv, ProofsInv, Ingest \/ MainThread, UNCHANGED monitorVars
  PROVE  ProofsInv'
<1>1. CASE Ingest
  <2>1. UNCHANGED <<live, thread, enabled>>
    BY <1>1 DEF Ingest, Listen, addHeader, Announced
  <2> QED
    BY <2>1 DEF ProofsInv, MonitorTyped, Quiet, RestedSettled, Rested, Settled, Pending,
       Active, Known, Accounted, Finite, monitorVars, reorgVars
<1>2. CASE insertNext
  <2>1. thread.pc # "notify" /\ UNCHANGED enabled /\ (thread'.pc = "notify" => enabled)
    BY <1>2 DEF insertNext
  <2>2. PICK tip \in ActiveTips :
          /\ NextHeader(thread.header, tip)
          /\ thread'.deactivated \in {Deactivated(thread.header, tip), {}}
    BY <1>2 DEF insertNext
  <2>3. Known' = Known \cup {thread.header}
    BY <2>1, <2>2, <1>2, NextRows DEF LiveInv, insertNext
  <2>4. thread'.deactivated \subseteq Known
    BY <2>2 DEF Deactivated, Branch
  <2> QED
    BY <1>2, <2>1, <2>3, <2>4, InsertNotifies, ChainStepKeeps
<1>3. CASE insertFirst
  <2>1. Active = {}
    BY <1>3 DEF insertFirst, FirstHeader, First, Active
  <2>2. Known' = Known \cup {thread.header}
    BY <1>3 DEF insertFirst, FirstHeader, With, Known
  <2> QED
    BY <1>3, <2>1, <2>2, ChainStepKeeps DEF insertFirst
<1>4. CASE \/ shiftLive \/ shiftBase \/ idle \/ ignore \/ noPrev \/ getMissingBlockHeader
           \/ parentNotFound
  <2>1. /\ UNCHANGED live /\ thread.pc # "notify" /\ thread'.pc # "notify"
        /\ thread'.deactivated \subseteq thread.deactivated /\ (enabled => enabled')
    <3>1. UNCHANGED live /\ thread.pc # "notify" /\ (enabled => enabled')
      BY <1>4 DEF shiftLive, shiftBase, idle, ignore, noPrev, getMissingBlockHeader,
         parentNotFound, bounds
    <3>2. thread'.pc # "notify" /\ thread'.deactivated \subseteq thread.deactivated
      <4>1. CASE shiftLive \/ shiftBase \/ ignore \/ parentNotFound
        <5>1. \E pc, h, n : /\ pc # "notify"
                           /\ thread' = [pc |-> pc, header |-> h, recursions |-> n,
                                         deactivated |-> {}]
          BY <4>1 DEF shiftLive, shiftBase, ignore, parentNotFound
        <5> QED
          BY <5>1
      <4>2. CASE noPrev
        <5>1. PICK n : \/ thread' = Waiting
                       \/ thread' = [thread EXCEPT !.pc = "missing", !.recursions = n]
          BY <4>2 DEF noPrev
        <5>2. CASE thread' = Waiting
          BY <5>2
        <5>3. CASE thread' = [thread EXCEPT !.pc = "missing", !.recursions = n]
          BY <5>3, ThreadMissing
        <5> QED
          BY <5>1, <5>2, <5>3
      <4>3. CASE getMissingBlockHeader
        BY <4>3 DEF getMissingBlockHeader
      <4>4. CASE idle
        BY <4>4 DEF idle
      <4> QED
        BY <1>4, <4>1, <4>2, <4>3, <4>4
    <3> QED
      BY <3>1, <3>2
  <2> QED
    BY <2>1, ChainStepKeeps DEF Active, Known
<1> QED
  BY <1>1, <1>2, <1>3, <1>4 DEF MainThread

(* The listener queues the headers with no gap for others to fall into.    *)
LEMMA ProcessReorgKeeps ==
  ASSUME ThreadInv, ProofsInv, processReorg
  PROVE  ProofsInv'
<1>1. PICK hs \in FromTheTip(Notified(thread.deactivated)) :
        deactivatedHeaders' = deactivatedHeaders \o
          [i \in DOMAIN hs |-> [header |-> hs[i], tries |-> 0]]
  BY DEF processReorg
<1> DEFINE added == [i \in DOMAIN hs |-> [header |-> hs[i], tries |-> 0]]
<1>2. /\ UNCHANGED <<live, enabled, proof, process, task, newHeader, lastNewHeader>>
      /\ thread.pc = "notify" /\ givenUp' = givenUp \ thread.deactivated
      /\ thread' = Waiting
  BY DEF processReorg, notify
<1>3. added \in Seq(QueueEntry) /\ \A h \in thread.deactivated : QueuedIn(added, h)
  <2>1. thread.deactivated \subseteq Headers
    OBVIOUS
  <2>2. hs \in [1..Cardinality(thread.deactivated) -> Headers]
    BY <1>1, <2>1 DEF FromTheTip, Notified
  <2>3. Cardinality(thread.deactivated) \in Nat
    BY FS_CardinalityType DEF ProofsInv, Finite
  <2>4. added \in [1..Cardinality(thread.deactivated) -> QueueEntry]
    BY <2>2, <2>3 DEF QueueEntry
  <2>5. \A h \in thread.deactivated : \E i \in DOMAIN hs : hs[i] = h
    BY <1>1 DEF FromTheTip, Notified
  <2>6. \A h \in thread.deactivated : QueuedIn(added, h)
    BY <2>5 DEF QueuedIn
  <2> QED
    BY <2>3, <2>4, <2>6, EntriesInOrder
<1> HIDE DEF added
<1>4. MonitorTyped'
  BY <1>1, <1>2, <1>3 DEF ProofsInv, MonitorTyped, added
<1>5. Quiet' /\ Accounted' /\ Finite'
  BY <1>2, FS_EmptySet DEF ProofsInv, Quiet, Accounted, Finite, Known
<1>6. RestedSettled'
  <2> SUFFICES ASSUME NEW h \in Headers, Rested(h)'
               PROVE  Settled(h)'
    BY DEF RestedSettled
  <2>1. Settled(h)
    BY <1>2 DEF ProofsInv, RestedSettled, Rested
  <2>2. QueuedIn(deactivatedHeaders, h) \/ h \in thread.deactivated
          => QueuedIn(deactivatedHeaders', h)
    BY <1>1, <1>3, Concatenated DEF added, ProofsInv, MonitorTyped
  <2> QED
    BY <1>2, <2>1, <2>2 DEF Settled, Pending, Active, Known, QueuedIn
<1> QED
  BY <1>4, <1>5, <1>6 DEF ProofsInv

----------------------------------------------------------------------------
(* The monitor's tasks: Chaintracks stays as it is. *)

(* What keeps a block settled when the task leaves it in no queue.         *)
LEMMA MonitorKeeps ==
  ASSUME ProofsInv, UNCHANGED <<live, thread, enabled>>, MonitorTyped', Quiet', Accounted',
         \A h \in Headers : Rested(h)' => Settled(h)'
  PROVE  ProofsInv'
BY DEF ProofsInv, Finite, RestedSettled, Known

LEMMA FindTipKeeps ==
  ASSUME ThreadInv, ProofsInv, findChainTipHeader
  PROVE  ProofsInv'
<1>1. UNCHANGED <<live, thread, enabled, proof, deactivatedHeaders, process, task, givenUp>>
  BY DEF findChainTipHeader, chainVars, reorgVars
<1>2. newHeader' \in [header : Blocks, queued : Blocks]
  <2>1. ActiveTips \subseteq Headers
    BY DEF ActiveTips, Active, LiveInv, LiveTypeOK
  <2> QED
    BY <2>1 DEF findChainTipHeader, ProofsInv, MonitorTyped, Blocks
<1>3. MonitorTyped' /\ Quiet' /\ Accounted'
  BY <1>1, <1>2 DEF ProofsInv, MonitorTyped, Quiet, Accounted, findChainTipHeader
<1> QED
  BY <1>1, <1>3, MonitorKeeps
  DEF ProofsInv, RestedSettled, Rested, Settled, Pending, Active, Known

(* The services answer with an active block, so with a settled one.        *)
LEMMA GetMerklePathKeeps ==
  ASSUME ProofsInv, NEW t \in Txs, getMerklePath(t)
  PROVE  ProofsInv'
<1>1. PICK h \in MinedIn[t] \cap Active :
        task' = [NoTask EXCEPT !.pc = "saveProof", !.header = h, !.todo = {t}]
  BY DEF getMerklePath
<1>2. /\ UNCHANGED <<live, thread, enabled, proof, deactivatedHeaders, process, newHeader,
                     lastNewHeader, givenUp>>
      /\ task.pc = "idle" /\ lastNewHeader # NoHeader
  BY DEF getMerklePath, chainVars, reorgVars
<1>3. h \in Headers
  BY HeaderTasksAssumption
<1>4. task' \in TaskType /\ task'.pc = "saveProof" /\ task'.header = h
  BY <1>1, <1>3 DEF NoTask, TaskType, Blocks
<1>5. MonitorTyped' /\ Quiet' /\ Accounted'
  BY <1>2, <1>3, <1>4 DEF ProofsInv, MonitorTyped, Quiet, Accounted
<1>6. ASSUME NEW g \in Headers, Rested(g)' PROVE Settled(g)'
  BY <1>1, <1>2, <1>4, <1>6
  DEF ProofsInv, RestedSettled, Rested, Settled, Pending, Active, Known
<1> QED
  BY <1>2, <1>5, <1>6, MonitorKeeps

LEMMA SaveProofKeeps ==
  ASSUME ProofsInv, saveProof
  PROVE  ProofsInv'
<1>1. /\ UNCHANGED <<live, thread, enabled, deactivatedHeaders, process, newHeader,
                     lastNewHeader, givenUp>>
      /\ task.pc = "saveProof" /\ task' = NoTask
      /\ proof' = [t \in Txs |-> IF t \in task.todo THEN task.header ELSE proof[t]]
  BY DEF saveProof, chainVars, reorgVars
<1>2. NoTask \in TaskType /\ NoTask.pc = "idle"
  BY DEF NoTask, TaskType, Blocks
<1>3. MonitorTyped' /\ Accounted'
  BY <1>1, <1>2 DEF ProofsInv, MonitorTyped, Accounted, Blocks
<1>4. Quiet'
  BY <1>1 DEF ProofsInv, Quiet
<1>5. ASSUME NEW g \in Headers, Rested(g)' PROVE Settled(g)'
  BY <1>1, <1>2, <1>5
  DEF ProofsInv, RestedSettled, Rested, Settled, Pending, Active, Known
<1> QED
  BY <1>1, <1>3, <1>4, <1>5, MonitorKeeps

(* Entries move from queue to queue, and to the task. *)
LEMMA TriggerKeeps ==
  ASSUME ProofsInv, trigger
  PROVE  ProofsInv'
<1>1. PICK n \in 0..Len(deactivatedHeaders) :
        /\ process # <<>> \/ n > 0
        /\ process' = process \o SubSeq(deactivatedHeaders, 1, n)
        /\ deactivatedHeaders' = SubSeq(deactivatedHeaders, n + 1, Len(deactivatedHeaders))
  BY DEF trigger
<1>2. /\ UNCHANGED <<live, thread, enabled, proof, newHeader, lastNewHeader, givenUp>>
      /\ task.pc = "idle" /\ task' = [NoTask EXCEPT !.pc = "shift"]
  BY DEF trigger, chainVars
<1>3. deactivatedHeaders \in Seq(QueueEntry) /\ process \in Seq(QueueEntry)
  BY DEF ProofsInv, MonitorTyped
<1>4. task' \in TaskType /\ task'.pc = "shift"
  BY <1>2 DEF NoTask, TaskType, Blocks
<1>5. SubSeq(deactivatedHeaders, 1, n) \in Seq(QueueEntry) /\ deactivatedHeaders' \in Seq(QueueEntry)
  BY <1>1, <1>3
<1>6. process' \in Seq(QueueEntry)
  BY <1>1, <1>3, <1>5
<1>7. MonitorTyped' /\ Accounted'
  BY <1>2, <1>4, <1>5, <1>6 DEF ProofsInv, MonitorTyped, Accounted
<1>8. Quiet'
  BY <1>1, <1>2 DEF ProofsInv, Quiet
<1>9. ASSUME NEW h, QueuedIn(deactivatedHeaders, h) \/ QueuedIn(process, h)
      PROVE  QueuedIn(deactivatedHeaders', h) \/ QueuedIn(process', h)
  BY <1>1, <1>3, <1>5, <1>9, Split, Concatenated
<1>10. ASSUME NEW g \in Headers, Rested(g)' PROVE Settled(g)'
  <2>1. Settled(g)
    BY <1>2, <1>4, <1>10 DEF ProofsInv, RestedSettled, Rested
  <2> QED
    BY <1>2, <1>9, <2>1 DEF Settled, Pending, QueuedIn, Active, Known
<1> QED
  BY <1>2, <1>7, <1>8, <1>10, MonitorKeeps

LEMMA ReproveHeaderKeeps ==
  ASSUME ProofsInv, reproveHeader
  PROVE  ProofsInv'
<1> DEFINE e == Head(process)
<1>1. /\ UNCHANGED <<live, thread, enabled, proof, deactivatedHeaders, newHeader,
                     lastNewHeader, givenUp>>
      /\ task.pc = "shift" /\ process # <<>> /\ process' = Tail(process)
      /\ task' = [NoTask EXCEPT !.pc = "reprove", !.header = e.header, !.tries = e.tries,
                                !.todo = {t \in Txs : proof[t] = e.header}]
  BY DEF reproveHeader, chainVars
<1>2. process \in Seq(QueueEntry)
  BY DEF ProofsInv, MonitorTyped
<1>3. e \in QueueEntry /\ process' \in Seq(QueueEntry)
  BY <1>1, <1>2
<1>4. /\ task' \in TaskType /\ task'.pc = "reprove" /\ task'.header = e.header
      /\ e.header \in Headers /\ task'.todo = {t \in Txs : proof[t] = e.header}
      /\ task'.updates = [t \in Txs |-> NoHeader]
  BY <1>1, <1>3 DEF NoTask, TaskType, Blocks, QueueEntry
<1> HIDE DEF e
<1>5. MonitorTyped'
  BY <1>1, <1>3, <1>4 DEF ProofsInv, MonitorTyped
<1>6. Accounted'
  BY <1>1, <1>4, ChaintracksAssumption DEF Accounted
<1>7. Quiet'
  BY <1>1 DEF ProofsInv, Quiet
<1>8. ASSUME NEW g \in Headers, Rested(g)' PROVE Settled(g)'
  <2>1. Settled(g)
    BY <1>1, <1>4, <1>8, ChaintracksAssumption DEF ProofsInv, RestedSettled, Rested
  <2>2. QueuedIn(process, g) => e.header = g \/ QueuedIn(process', g)
    BY <1>1, <1>2, Shifted DEF e
  <2> QED
    BY <1>1, <1>4, <2>1, <2>2 DEF Settled, Pending, QueuedIn, Active, Known
<1> QED
  BY <1>1, <1>5, <1>6, <1>7, <1>8, MonitorKeeps

LEMMA RunTaskEndsKeeps ==
  ASSUME ProofsInv, runTaskEnds
  PROVE  ProofsInv'
<1>1. /\ UNCHANGED <<live, thread, enabled, proof, deactivatedHeaders, process, newHeader,
                     lastNewHeader, givenUp>>
      /\ task.pc = "shift" /\ task' = NoTask
  BY DEF runTaskEnds, chainVars, reorgVars
<1>2. NoTask \in TaskType /\ NoTask.pc = "idle"
  BY DEF NoTask, TaskType, Blocks
<1>3. MonitorTyped' /\ Quiet' /\ Accounted'
  BY <1>1, <1>2 DEF ProofsInv, MonitorTyped, Quiet, Accounted
<1> QED
  BY <1>1, <1>2, <1>3, MonitorKeeps
  DEF ProofsInv, RestedSettled, Rested, Settled, Pending, Active, Known

LEMMA ReproveProvenKeeps ==
  ASSUME ThreadInv, ProofsInv, NEW t \in Txs, reproveProven(t)
  PROVE  ProofsInv'
<1>1. PICK h \in MinedIn[t] \cup {NoHeader} :
        LET confirmed == h # task.header /\ IsValid(h) IN
        task' = [task EXCEPT !.todo = task.todo \ {t},
                             !.updates[t] = IF confirmed THEN h ELSE task.updates[t],
                             !.again = task.again \/ ~confirmed]
  BY DEF reproveProven
<1> DEFINE confirmed == h # task.header /\ IsValid(h)
<1>2. /\ UNCHANGED <<live, thread, enabled, proof, deactivatedHeaders, process, newHeader,
                     lastNewHeader, givenUp>>
      /\ task.pc = "reprove" /\ t \in task.todo
  BY DEF reproveProven, chainVars, reorgVars
<1>3. h \in Blocks /\ task \in TaskType /\ confirmed \in BOOLEAN
      /\ (confirmed => h \in Active)
  BY HeaderTasksAssumption DEF Blocks, ProofsInv, MonitorTyped, IsValid
<1> HIDE DEF confirmed
<1>4. task' = [task EXCEPT !.todo = task.todo \ {t},
                           !.updates[t] = IF confirmed THEN h ELSE task.updates[t],
                           !.again = task.again \/ ~confirmed]
  BY <1>1 DEF confirmed
<1>5. /\ task'.pc = "reprove" /\ task'.header = task.header /\ task'.tries = task.tries
      /\ task'.todo = task.todo \ {t} /\ task'.again = (task.again \/ ~confirmed)
      /\ task'.updates = [task.updates EXCEPT ![t] = IF confirmed THEN h ELSE task.updates[t]]
  BY <1>2, <1>3, <1>4 DEF TaskType
<1>6. task' \in TaskType
  <2>1. task'.updates \in [Txs -> Blocks]
    BY <1>3, <1>5 DEF TaskType
  <2> QED
    BY <1>3, <1>4, <1>5, <2>1 DEF TaskType
<1>7. \A u \in Txs : task'.updates[u] = IF u = t /\ confirmed THEN h ELSE task.updates[u]
  BY <1>3, <1>5 DEF TaskType
<1>8. MonitorTyped' /\ Quiet'
  BY <1>2, <1>5, <1>6 DEF ProofsInv, MonitorTyped, Quiet
<1>9. Accounted'
  <2>1. confirmed => h # task.header /\ h # NoHeader
    <3>1. NoHeader \notin Active
      BY ChaintracksAssumption DEF LiveInv, LiveTypeOK, Active
    <3> QED
      BY <3>1 DEF confirmed, IsValid
  <2> QED
    BY <1>2, <1>5, <1>7, <2>1 DEF ProofsInv, Accounted
<1>10. ASSUME NEW g \in Headers, Rested(g)' PROVE Settled(g)'
  <2>1. Settled(g)
    BY <1>2, <1>3, <1>5, <1>7, <1>10 DEF ProofsInv, RestedSettled, Rested, Settled
  <2> QED
    BY <1>2, <1>5, <2>1 DEF Settled, Pending, Active, Known
<1> QED
  BY <1>2, <1>8, <1>9, <1>10, MonitorKeeps

(* The block in hand is queued again or given up, unless no proof rests on *)
(* it any more.                                                            *)
LEMMA UpdateProvenTxKeeps ==
  ASSUME ProofsInv, updateProvenTx
  PROVE  ProofsInv'
<1> DEFINE g == task.header
           entry == [header |-> g, tries |-> task.tries + 1]
<1>1. /\ UNCHANGED <<live, thread, enabled, process, newHeader, lastNewHeader>>
      /\ task.pc = "reprove" /\ task.todo = {}
      /\ task' = [NoTask EXCEPT !.pc = "shift"]
      /\ proof' = [t \in Txs |-> IF task.updates[t] # NoHeader THEN task.updates[t]
                                 ELSE proof[t]]
  BY DEF updateProvenTx, chainVars
<1>2. task' \in TaskType /\ task'.pc = "shift"
  BY <1>1 DEF NoTask, TaskType, Blocks
<1>3. /\ g \in Headers /\ task \in TaskType /\ deactivatedHeaders \in Seq(QueueEntry)
      /\ entry \in QueueEntry
  BY <1>1 DEF ProofsInv, MonitorTyped, TaskType, QueueEntry
<1>4. IF task.again
        THEN /\ deactivatedHeaders' \in Seq(QueueEntry)
             /\ \A h : QueuedIn(deactivatedHeaders, h) => QueuedIn(deactivatedHeaders', h)
             /\ QueuedIn(deactivatedHeaders', g) \/ g \in givenUp'
             /\ givenUp \subseteq givenUp'
        ELSE UNCHANGED <<deactivatedHeaders, givenUp>>
  <2>1. CASE task.again /\ task.tries + 1 < MaxRetries
    <3>1. deactivatedHeaders' = deactivatedHeaders \o <<entry>> /\ UNCHANGED givenUp
      BY <2>1, <1>3, HeaderTasksAssumption DEF updateProvenTx, Requeued, TaskType
    <3>2. <<entry>> \in Seq(QueueEntry) /\ QueuedIn(<<entry>>, g)
      BY <1>3 DEF QueuedIn
    <3> HIDE DEF entry, g
    <3> QED
      BY <2>1, <1>3, <3>1, <3>2, Concatenated
  <2>2. CASE task.again /\ ~(task.tries + 1 < MaxRetries)
    <3>1. deactivatedHeaders' = deactivatedHeaders \o <<>> /\ givenUp' = givenUp \cup {g}
      BY <2>2, <1>3, HeaderTasksAssumption DEF updateProvenTx, Requeued, TaskType
    <3>2. deactivatedHeaders' = deactivatedHeaders
      BY <1>3, <3>1
    <3> QED
      BY <2>2, <1>3, <3>1, <3>2
  <2>3. CASE ~task.again
    BY <2>3 DEF updateProvenTx
  <2> QED
    BY <2>1, <2>2, <2>3
<1>5. deactivatedHeaders' \in Seq(QueueEntry) /\ givenUp \subseteq givenUp'
  BY <1>3, <1>4
<1>6. MonitorTyped' /\ Accounted'
  <2>1. proof' \in [Txs -> Blocks]
    BY <1>1, <1>3 DEF ProofsInv, MonitorTyped, TaskType
  <2> QED
    BY <1>1, <1>2, <1>5, <2>1 DEF ProofsInv, MonitorTyped, Accounted
<1>7. Quiet'
  BY <1>1 DEF ProofsInv, Quiet
<1>8. ASSUME NEW h \in Headers, Rested(h)' PROVE Settled(h)'
  <2>1. PICK t \in Txs : proof'[t] = h
    BY <1>2, <1>8 DEF Rested
  <2>2. task.updates[t] = h \/ (proof[t] = h /\ task.updates[t] = NoHeader)
    BY <1>1, <2>1
  <2>3. Settled(h)
    BY <1>1, <2>2 DEF ProofsInv, RestedSettled, Rested
  <2>4. CASE h # g
    BY <1>1, <1>2, <1>4, <2>3, <2>4 DEF Settled, Pending, QueuedIn, Active, Known
  <2>5. CASE h = g
    <3>1. task.again
      BY <1>1, <2>2, <2>5 DEF ProofsInv, Accounted
    <3> QED
      BY <1>4, <2>5, <3>1 DEF Settled, Pending, QueuedIn
  <2> QED
    BY <2>4, <2>5
<1> QED
  BY <1>1, <1>6, <1>7, <1>8, MonitorKeeps

LEMMA ReproveThrowsKeeps ==
  ASSUME ProofsInv, reproveThrows
  PROVE  ProofsInv'
<1>1. /\ UNCHANGED <<live, thread, enabled, proof, deactivatedHeaders, process, newHeader,
                     lastNewHeader>>
      /\ task.pc = "reprove" /\ task' = NoTask /\ givenUp' = givenUp \cup {task.header}
  BY DEF reproveThrows, reorgVars
<1>2. NoTask \in TaskType /\ NoTask.pc = "idle"
  BY DEF NoTask, TaskType, Blocks
<1>3. MonitorTyped' /\ Quiet' /\ Accounted'
  BY <1>1, <1>2 DEF ProofsInv, MonitorTyped, Quiet, Accounted
<1> QED
  BY <1>1, <1>2, <1>3, MonitorKeeps
  DEF ProofsInv, RestedSettled, Rested, Settled, Pending, Active, Known

LEMMA ProofsStep ==
  ASSUME ThreadInv, ProofsInv, [Next]_vars
  PROVE  ProofsInv'
<1>1. CASE UNCHANGED vars
  BY <1>1 DEF vars, chainVars, monitorVars, reorgVars, ProofsInv, MonitorTyped, Quiet,
     RestedSettled, Rested, Settled, Pending, Active, Known, Accounted, Finite
<1>2. CASE (Ingest \/ MainThread) /\ UNCHANGED monitorVars
  BY <1>2, ChainKeeps
<1>3. ASSUME NEW t \in Txs, getMerklePath(t) \/ reproveProven(t)
      PROVE  ProofsInv'
  BY <1>3, GetMerklePathKeeps, ReproveProvenKeeps
<1>4. CASE Next
  BY <1>2, <1>3, <1>4, ProcessReorgKeeps, FindTipKeeps, SaveProofKeeps, TriggerKeeps,
     ReproveHeaderKeeps, RunTaskEndsKeeps, UpdateProvenTxKeeps, ReproveThrowsKeeps
  DEF Next, TaskSteps
<1> QED
  BY <1>1, <1>4

(* A proof whose block left the active chain is on its way to be replaced, *)
(* whenever the block left: Monitor.processReorg and TaskReorg.            *)
THEOREM NoStaleProofForgotten == Spec => []StaleProofIsQueued
<1>1. ProofsInv => StaleProofIsQueued
  BY DEF ProofsInv, MonitorTyped, Blocks, RestedSettled, Rested, Settled, Stale,
     StaleProofIsQueued
<1>2. Spec => []ProofsInv
  BY InitProofsInv, ProofsStep, ThreadAlways, PTL DEF Spec
<1> QED
  BY <1>1, <1>2, PTL
=============================================================================

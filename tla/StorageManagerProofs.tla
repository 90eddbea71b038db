------------------------ MODULE StorageManagerProofs ------------------------
(***************************************************************************)
(* Whatever stores, rows and links there are, and wherever synchronizations *)
(* are interrupted, the rows of every store refer to rows it has, and no   *)
(* row is ever taken back to an older update.                              *)
(***************************************************************************)
EXTENDS StorageManager, FiniteSetTheorems, TLAPS

StoresTyped ==
  /\ now \in Nat
  /\ table \in [Stores -> [Rows -> RowType]]
  /\ syncState \in [Stores -> [Stores -> SyncMap]]
  /\ user = [s \in Stores |-> user[s]] /\ \A s \in Stores : user[s].at \in Nat

(* No row is of later than now. *)
Dated == \A s \in Stores, r \in Rows : table[s][r].at <= now

(* The idMaps name rows the writer has. *)
MapsHeld == \A w, rd \in Stores : HasAll(w, syncState[w][rd].idMap)

ItemType == [row : Rows, at : Nat \ {0}, val : Nat, links : SUBSET Rows]

(* So does the idMap of a chunk on its way, whose rows were read by now.   *)
ChunkHeld(w) ==
  /\ chunk.items \in Seq(ItemType) /\ chunk.next \in Nat \ {0}
  /\ \A n \in DOMAIN chunk.items : chunk.items[n].at <= now
  /\ \A u \in chunk.users : u.at \in Nat
  /\ chunk.map \in SyncMap /\ HasAll(w, chunk.map.idMap)

ChunksHeld ==
  chunk # NoChunk => \E w, rd \in Stores : Syncing(w, rd) /\ ChunkHeld(w)

SyncInv == StoresTyped /\ Dated /\ ParentsFirst /\ MapsHeld /\ ChunksHeld

----------------------------------------------------------------------------

LEMMA InitSyncInv == Init => SyncInv
<1> SUFFICES ASSUME Init PROVE SyncInv
  OBVIOUS
<1>1. StoresTyped
  BY DEF Init, StoresInit, StoresTyped, Absent, RowType, FreshState, SyncMap
<1>2. Dated /\ ParentsFirst
  BY DEF Init, StoresInit, Dated, ParentsFirst, Absent, Has
<1>3. MapsHeld
  BY DEF Init, StoresInit, MapsHeld, FreshState, HasAll
<1>4. QED
  BY <1>1, <1>2, <1>3 DEF Init, SyncInv, ChunksHeld

(* A store never loses a row, nor the rows an idMap names.                 *)
Grows == \A s \in Stores, r \in Rows : table'[s][r].at >= table[s][r].at

LEMMA GrowsHolds ==
  ASSUME StoresTyped, StoresTyped', Grows, NEW s \in Stores, NEW rows \in SUBSET Rows,
         HasAll(s, rows)
  PROVE  \A q \in rows : Has(s, q)'
BY DEF StoresTyped, Grows, HasAll, Has, RowType

LEMMA NextIdTyped ==
  ASSUME NEW s
  PROVE  NextId(s) \in Nat
<1>1. IsFiniteSet({r \in Rows : Has(s, r)})
  BY RowsAssumption, FS_Subset
<1>2. QED
  BY <1>1, FS_CardinalityType DEF NextId

(* One row is written or merged, with keys to rows the store has.          *)
PutRow(s, r, row) ==
  /\ row \in RowType /\ row.at >= table[s][r].at /\ row.at <= now'
  /\ row.at > 0 => HasAll(s, Needs[r]) /\ HasAll(s, row.links)
  /\ table' = [table EXCEPT ![s][r] = row]

LEMMA PutRowStep ==
  ASSUME StoresTyped, Dated, ParentsFirst, now' \in Nat, now' >= now,
         NEW s \in Stores, NEW r \in Rows, NEW row, PutRow(s, r, row)
  PROVE  /\ table' \in [Stores -> [Rows -> RowType]]
         /\ Dated' /\ ParentsFirst' /\ Grows
<1> DEFINE new == [table[s] EXCEPT ![r] = row]
<1>1. new \in [Rows -> RowType] /\ table' = [table EXCEPT ![s] = new]
  BY DEF PutRow, StoresTyped
<1>2. table' \in [Stores -> [Rows -> RowType]]
  BY <1>1 DEF StoresTyped
<1>3. \A t \in Stores, q \in Rows :
        table'[t][q] = IF t = s /\ q = r THEN row ELSE table[t][q]
  BY <1>1 DEF StoresTyped
<1>4. Grows /\ Dated'
  BY <1>2, <1>3 DEF Grows, Dated, PutRow, StoresTyped, RowType
<1>5. \A t \in Stores, q \in Rows : Has(t, q) => Has(t, q)'
  BY <1>2, <1>4 DEF Grows, Has, StoresTyped, RowType
<1>6. ParentsFirst'
  <2> SUFFICES ASSUME NEW t \in Stores, NEW q \in Rows, Has(t, q)'
               PROVE  /\ \A p \in Needs[q] : Has(t, p)'
                      /\ \A p \in table'[t][q].links : Has(t, p)'
    BY DEF ParentsFirst, HasAll
  <2>1. Needs[q] \subseteq Rows /\ table'[t][q].links \subseteq Rows
    BY <1>2, RowsAssumption DEF RowType
  <2>2. CASE t = s /\ q = r
    BY <1>3, <1>5, <2>1, <2>2 DEF PutRow, HasAll, Has
  <2>3. CASE ~(t = s /\ q = r)
    BY <1>3, <1>5, <2>1, <2>3 DEF ParentsFirst, HasAll, Has
  <2> QED
    BY <2>2, <2>3
<1> QED
  BY <1>2, <1>4, <1>6

----------------------------------------------------------------------------
(* Steps that write no row *)

(* Steps of the manager and of the network of others leave the stores alone. *)
LEMMA StoresKept ==
  ASSUME SyncInv, UNCHANGED <<now, table, syncState>>,
         user' = [s \in Stores |-> user'[s]], \A s \in Stores : user'[s].at \in Nat,
         ChunksHeld'
  PROVE  SyncInv' /\ Grows
<1>1. StoresTyped' /\ Dated' /\ MapsHeld' /\ ParentsFirst'
  BY DEF SyncInv, StoresTyped, Dated, MapsHeld, ParentsFirst, HasAll, Has
<1>2. Grows
  BY DEF SyncInv, StoresTyped, RowType, Grows
<1> QED
  BY <1>1, <1>2 DEF SyncInv

(* A step before or after a synchronization has no chunk on its way.       *)
LEMMA NoChunkKept ==
  ASSUME SyncInv, UNCHANGED <<storeVars, chunk>>, chunk = NoChunk
  PROVE  SyncInv' /\ Grows
<1>1. ChunksHeld'
  BY DEF ChunksHeld
<1> QED
  BY <1>1, StoresKept DEF SyncInv, StoresTyped, storeVars

LEMMA ChunkOnlySyncing ==
  ASSUME SyncInv, ~\E w, rd \in Stores : Syncing(w, rd)
  PROVE  chunk = NoChunk
BY DEF SyncInv, ChunksHeld

LEMMA AbandonKeeps ==
  ASSUME SyncInv, UNCHANGED storeVars, Abandon
  PROVE  SyncInv' /\ Grows
<1>1. ChunksHeld'
  BY DEF Abandon, ChunksHeld
<1> QED
  BY <1>1, StoresKept DEF SyncInv, StoresTyped, storeVars

(* The manager's own steps: its roles, and the start of a synchronization. *)
ManagerStep ==
  \/ makeAvailable
  \/ \E s \in Stores : addWalletStorageProvider(s) \/ setActive(s) \/ syncFromReader(s)
  \/ updateBackups

LEMMA ManagerStepKeeps ==
  ASSUME SyncInv, ManagerStep
  PROVE  SyncInv' /\ Grows
<1>1. UNCHANGED <<storeVars, chunk>>
  BY DEF ManagerStep, makeAvailable, addWalletStorageProvider, setActive, syncFromReader,
     updateBackups, Start, reading
<1>2. CASE chunk = NoChunk
  BY <1>1, <1>2, NoChunkKept
<1>3. CASE chunk # NoChunk
  <2>1. PICK w \in Stores, rd \in Stores : Syncing(w, rd) /\ ChunkHeld(w)
    BY <1>3 DEF SyncInv, ChunksHeld
  <2>2. plan # <<>>
    BY <2>1 DEF Syncing, Doing
  <2>3. UNCHANGED plan
    BY <2>2 DEF ManagerStep, makeAvailable, addWalletStorageProvider, setActive,
       syncFromReader, updateBackups, Start, Idle
  <2>4. ChunksHeld'
    BY <1>1, <2>1, <2>3 DEF ChunksHeld, ChunkHeld, Syncing, Doing, HasAll, Has, storeVars
  <2> QED
    BY <1>1, <2>4, StoresKept DEF SyncInv, StoresTyped, storeVars
<1> QED
  BY <1>2, <1>3

(* The steps of a plan are of one kind each. *)
LEMMA StepsDiffer ==
  ASSUME NEW step, Doing(step), step.op \notin {"sync", "import"}, SyncInv
  PROVE  chunk = NoChunk
BY ChunkOnlySyncing DEF Syncing, Doing, Sync, Import

LEMMA RoleStepKeeps ==
  ASSUME SyncInv, NEW s \in Stores, NEW t \in Stores,
         SelectStep(s, t) \/ CacheStep(s, t) \/ ResetStep
  PROVE  SyncInv' /\ Grows
<1>1. chunk = NoChunk /\ UNCHANGED chunk
  BY StepsDiffer DEF SelectStep, CacheStep, ResetStep, Select, Cache, Reset, reading
<1>2. CASE CacheStep(s, t) \/ ResetStep
  BY <1>1, <1>2, NoChunkKept DEF CacheStep, ResetStep
<1>3. CASE SelectStep(s, t)
  <2>1. /\ now' = now + 1 /\ UNCHANGED <<table, syncState>>
        /\ user' = [user EXCEPT ![s] = [active |-> t, at |-> now + 1]]
    BY <1>3 DEF SelectStep, selectActive
  <2>2. StoresTyped'
    BY <2>1 DEF SyncInv, StoresTyped
  <2>3. Dated' /\ MapsHeld' /\ ParentsFirst' /\ Grows
    BY <2>1 DEF SyncInv, StoresTyped, RowType, Dated, MapsHeld, ParentsFirst, HasAll, Has, Grows
  <2> QED
    BY <1>1, <2>2, <2>3 DEF SyncInv, ChunksHeld
<1> QED
  BY <1>2, <1>3

----------------------------------------------------------------------------
(* Writes *)

LEMMA WriteRowStep ==
  ASSUME SyncInv, NEW s, NEW r \in Rows, WriteRow(s, r),
         UNCHANGED <<user, syncState, plan, chunk>>
  PROVE  SyncInv' /\ Grows
<1>1. now' = now + 1 /\ now \in Nat
  BY DEF WriteRow, SyncInv, StoresTyped
<1>2. /\ table' \in [Stores -> [Rows -> RowType]]
      /\ Dated' /\ ParentsFirst' /\ Grows
  <2>1. CASE s \in Stores
    <3>1. PICK links \in SUBSET {q \in Links[r] : Has(s, q)} :
            table' = [table EXCEPT ![s][r] =
                        [id |-> IF Has(s, r) THEN @.id ELSE NextId(s),
                         at |-> now + 1, val |-> now + 1, links |-> links]]
      BY DEF WriteRow
    <3> DEFINE row == [id |-> IF Has(s, r) THEN table[s][r].id ELSE NextId(s),
                       at |-> now + 1, val |-> now + 1, links |-> links]
    <3>2. row \in RowType
      BY <1>1, <2>1, NextIdTyped, RowsAssumption DEF SyncInv, StoresTyped, RowType
    <3>3. row.at >= table[s][r].at
      BY <1>1, <2>1 DEF SyncInv, Dated, StoresTyped, RowType
    <3>4. HasAll(s, Needs[r]) /\ HasAll(s, row.links)
      BY DEF WriteRow, HasAll
    <3>5. row.at <= now' /\ table' = [table EXCEPT ![s][r] = row]
      BY <1>1, <3>1
    <3> HIDE DEF row
    <3>6. PutRow(s, r, row)
      BY <3>2, <3>3, <3>4, <3>5 DEF PutRow
    <3> QED
      BY <1>1, <2>1, <3>6, PutRowStep DEF SyncInv
  <2>2. CASE s \notin Stores
    <3>1. UNCHANGED table
      BY <2>2 DEF WriteRow, SyncInv, StoresTyped
    <3> QED
      BY <1>1, <3>1 DEF SyncInv, StoresTyped, RowType, Dated, ParentsFirst, HasAll, Has, Grows
  <2> QED
    BY <2>1, <2>2
<1>3. StoresTyped'
  BY <1>1, <1>2 DEF SyncInv, StoresTyped
<1>4. MapsHeld'
  <2> SUFFICES ASSUME NEW w \in Stores, NEW rd \in Stores
               PROVE  HasAll(w, syncState[w][rd].idMap)'
    BY DEF MapsHeld
  <2>1. syncState[w][rd].idMap \subseteq Rows
    BY DEF SyncInv, StoresTyped, SyncMap
  <2> QED
    BY <1>2, <1>3, <2>1, GrowsHolds DEF SyncInv, MapsHeld, HasAll
<1>5. ChunksHeld'
  <2> SUFFICES ASSUME chunk # NoChunk
               PROVE  ChunksHeld'
    BY DEF ChunksHeld
  <2>1. PICK w \in Stores, rd \in Stores : Syncing(w, rd) /\ ChunkHeld(w)
    BY DEF SyncInv, ChunksHeld
  <2>2. HasAll(w, chunk.map.idMap)'
    BY <1>2, <1>3, <2>1, GrowsHolds DEF SyncInv, ChunkHeld, SyncMap, HasAll
  <2>3. \A n \in DOMAIN chunk.items : chunk.items[n].at <= now'
    <3>1. \A n \in DOMAIN chunk.items : chunk.items[n] \in ItemType
      BY <2>1 DEF ChunkHeld
    <3>2. \A n \in DOMAIN chunk.items : chunk.items[n].at \in Nat
      BY <3>1 DEF ItemType
    <3> QED
      BY <1>1, <2>1, <3>2 DEF ChunkHeld
  <2> QED
    BY <2>1, <2>2, <2>3 DEF ChunksHeld, ChunkHeld, Syncing, Doing
<1> QED
  BY <1>2, <1>3, <1>4, <1>5 DEF SyncInv

----------------------------------------------------------------------------
(* Chunks *)

LEMMA ChunkItemsTyped ==
  ASSUME SyncInv, NEW w \in Stores, NEW rd \in Stores,
         NEW items \in getSyncChunk(rd, syncState[w][rd])
  PROVE  items \in Seq(ItemType) /\ \A n \in DOMAIN items : items[n].at <= now
<1> DEFINE rows == Pending(rd, syncState[w][rd])
           size == Min({ChunkItems, Cardinality(rows)})
<1>1. PICK first \in [1..size -> rows] : items = [n \in 1..size |-> Item(rd, first[n])]
  BY DEF getSyncChunk
<1>2. size \in Nat
  <2>1. IsFiniteSet(rows)
    BY RowsAssumption, FS_Subset DEF Pending, Since
  <2>2. Cardinality(rows) \in Nat
    BY <2>1, FS_CardinalityType
  <2>3. ChunkItems \in Nat
    BY RowsAssumption
  <2> HIDE DEF rows
  <2> QED
    BY <2>2, <2>3 DEF Min
<1>3. \A r \in rows : Item(rd, r) \in ItemType /\ Item(rd, r).at <= now
  <2> SUFFICES ASSUME NEW r \in rows
               PROVE  Item(rd, r) \in ItemType /\ Item(rd, r).at <= now
    OBVIOUS
  <2>1. r \in Rows /\ table[rd][r].at > 0 /\ table[rd][r] \in RowType /\ table[rd][r].at <= now
    BY DEF Pending, Since, OfUser, Has, SyncInv, StoresTyped, Dated
  <2> QED
    BY <2>1 DEF Item, ItemType, RowType
<1> HIDE DEF rows, size
<1> QED
  BY <1>1, <1>2, <1>3

LEMMA ReadChunkKeeps ==
  ASSUME SyncInv, NEW w \in Stores, NEW rd \in Stores, ReadChunk(w, rd)
  PROVE  SyncInv' /\ Grows
<1>1. PICK items \in getSyncChunk(rd, syncState[w][rd]) :
        chunk' = [items |-> items, next |-> 1, users |-> MergedUsers(w, rd),
                  map |-> syncState[w][rd]]
  BY DEF ReadChunk
<1>2. UNCHANGED <<now, table, syncState, plan>> /\ Syncing(w, rd)
  BY DEF ReadChunk
<1>3. user' = [s \in Stores |-> user'[s]] /\ \A s \in Stores : user'[s].at \in Nat
  BY DEF ReadChunk, SyncInv, StoresTyped
<1>4. items \in Seq(ItemType) /\ \A n \in DOMAIN items : items[n].at <= now
  BY ChunkItemsTyped
<1>5. \A u \in MergedUsers(w, rd) : u.at \in Nat
  BY DEF MergedUsers, SyncInv, StoresTyped
<1>6. syncState[w][rd] \in SyncMap /\ HasAll(w, syncState[w][rd].idMap)
  BY DEF SyncInv, StoresTyped, MapsHeld
<1>7. ChunkHeld(w)'
  BY <1>1, <1>2, <1>4, <1>5, <1>6 DEF ChunkHeld, HasAll, Has
<1>8. ChunksHeld'
  BY <1>2, <1>7 DEF ChunksHeld, Syncing, Doing
<1> QED
  BY <1>2, <1>3, <1>8, StoresKept

(* The idMap of the running synchronization is the writer's. *)
LEMMA SyncingWriter ==
  ASSUME SyncInv, NEW w \in Stores, NEW rd \in Stores, Syncing(w, rd), chunk # NoChunk
  PROVE  ChunkHeld(w)
BY DEF SyncInv, ChunksHeld, Syncing, Doing, Sync, Import

LEMMA OneMore ==
  ASSUME NEW S, NEW c \in [S -> Nat], NEW e
  PROVE  [c EXCEPT ![e] = @ + 1] \in [S -> Nat]
<1> DEFINE more == [c EXCEPT ![e] = @ + 1]
<1>1. CASE e \in S
  <2>1. more = [x \in S |-> IF x = e THEN c[e] + 1 ELSE c[x]]
    OBVIOUS
  <2>2. c[e] + 1 \in Nat /\ \A x \in S : c[x] \in Nat
    BY <1>1
  <2> QED
    BY <2>1, <2>2
<1>2. CASE e \notin S
  BY <1>2
<1> QED
  BY <1>1, <1>2

LEMMA ReceivedTyped ==
  ASSUME NEW map \in SyncMap, NEW i \in ItemType
  PROVE  /\ Received(map, i) \in SyncMap
         /\ Received(map, i).idMap = map.idMap \cup {i.row}
<1>1. Newest(map.maxAt, i.at) \in Nat
  BY DEF Newest, SyncMap, ItemType
<1>2. [map.counts EXCEPT ![Entity(i.row)] = @ + 1] \in [Entities -> Nat]
  <2>1. map.counts \in [Entities -> Nat]
    BY DEF SyncMap
  <2> QED
    BY <2>1, OneMore
<1> QED
  BY <1>1, <1>2 DEF Received, SyncMap, ItemType

(* What an item becomes in the writer. *)
MergedRow(w, i, ids) ==
  IF Has(w, i.row) THEN mergeExisting(table[w][i.row], i, ids) ELSE mergeNew(w, i, ids)

LEMMA MergedRowTyped ==
  ASSUME SyncInv, NEW w \in Stores, NEW i \in ItemType, NEW ids \in SUBSET Rows,
         HasAll(w, ids), mergeFind(i, ids), i.at <= now
  PROVE  LET row == MergedRow(w, i, ids) IN
         /\ row \in RowType /\ row.at > 0
         /\ row.at >= table[w][i.row].at /\ row.at <= now
         /\ HasAll(w, Needs[i.row]) /\ HasAll(w, row.links)
<1> DEFINE old == table[w][i.row]
<1> i.row \in Rows /\ i.at \in Nat /\ i.at > 0 /\ i.val \in Nat /\ i.links \subseteq Rows
  BY DEF ItemType
<1>1. old \in RowType /\ old.at <= now
  BY DEF SyncInv, StoresTyped, Dated
<1>2. HasAll(w, Needs[i.row])
  BY DEF mergeFind, HasAll
<1>3. CASE ~Has(w, i.row)
  <2>1. MergedRow(w, i, ids) = mergeNew(w, i, ids) /\ old.at = 0
    BY <1>1, <1>3 DEF MergedRow, Has, RowType
  <2> QED
    BY <1>1, <1>2, <2>1, NextIdTyped DEF mergeNew, Mapped, RowType, HasAll
<1>4. CASE Has(w, i.row)
  <2>1. HasAll(w, old.links)
    BY <1>4 DEF SyncInv, ParentsFirst
  <2>2. MergedRow(w, i, ids) \in {old, mergeLatest(old, i, ids), mergeRequest(old, i, ids)}
    BY <1>4 DEF MergedRow, mergeExisting
  <2> DEFINE kept == (old.links \cap Fixed(i.row)) \cup (Mapped(i, ids) \ Fixed(i.row))
             added == old.links \cup (Mapped(i, ids) \ Fixed(i.row))
  <2>3. \/ MergedRow(w, i, ids) = old
        \/ i.at > old.at /\ MergedRow(w, i, ids) = Updated(old, i, kept)
        \/ MergedRow(w, i, ids) = [old EXCEPT !.at = IF i.at > old.at THEN i.at ELSE old.at,
                                              !.links = added]
    BY <1>1, <2>2 DEF mergeLatest, mergeRequest
  <2>4. kept \subseteq Rows /\ added \subseteq Rows /\ HasAll(w, kept) /\ HasAll(w, added)
    BY <1>1, <2>1 DEF Mapped, HasAll, RowType
  <2>5. old.at > 0
    BY <1>4 DEF Has
  <2> HIDE DEF kept, added
  <2>6. CASE MergedRow(w, i, ids) = old
    BY <1>1, <1>2, <2>1, <2>5, <2>6 DEF RowType
  <2>7. CASE i.at > old.at /\ MergedRow(w, i, ids) = Updated(old, i, kept)
    BY <1>1, <1>2, <2>4, <2>7 DEF Updated, RowType
  <2>8. CASE MergedRow(w, i, ids) = [old EXCEPT !.at = IF i.at > old.at THEN i.at ELSE old.at,
                                               !.links = added]
    <3>1. /\ MergedRow(w, i, ids) \in RowType
          /\ MergedRow(w, i, ids).at = IF i.at > old.at THEN i.at ELSE old.at
          /\ MergedRow(w, i, ids).links = added
      BY <1>1, <2>4, <2>8 DEF RowType
    <3> QED
      BY <1>1, <1>2, <2>4, <2>5, <3>1 DEF RowType
  <2> QED
    BY <2>3, <2>6, <2>7, <2>8
<1> QED
  BY <1>3, <1>4

LEMMA MergeStepKeeps ==
  ASSUME SyncInv, NEW w \in Stores, NEW rd \in Stores, MergeStep(w, rd)
  PROVE  SyncInv' /\ Grows
<1> DEFINE i == Current
           ids == chunk.map.idMap
           row == MergedRow(w, i, ids)
<1>1. ChunkHeld(w)
  BY SyncingWriter DEF MergeStep, Left
<1>2. i \in ItemType /\ i.at <= now /\ chunk.next \in Nat
  <2>1. chunk.next \in DOMAIN chunk.items
    BY <1>1 DEF MergeStep, Left, ChunkHeld
  <2> QED
    BY <1>1, <2>1 DEF ChunkHeld, Current
<1>3. ids \subseteq Rows /\ HasAll(w, ids) /\ chunk.map \in SyncMap
  BY <1>1 DEF ChunkHeld, SyncMap
<1>4. /\ UNCHANGED <<now, user, syncState, plan>> /\ mergeFind(i, ids)
      /\ table' = [table EXCEPT ![w][i.row] = row]
      /\ chunk' = [chunk EXCEPT !.next = @ + 1, !.map = Received(@, i)]
  BY DEF MergeStep, MergeItem, MergedRow
<1>5. /\ row \in RowType /\ row.at > 0
      /\ row.at >= table[w][i.row].at /\ row.at <= now
      /\ HasAll(w, Needs[i.row]) /\ HasAll(w, row.links)
  BY <1>2, <1>3, <1>4, MergedRowTyped
<1> HIDE DEF i, ids, row
<1>6. i.row \in Rows
  BY <1>2 DEF ItemType
<1>7. PutRow(w, i.row, row)
  BY <1>4, <1>5 DEF PutRow
<1>8. now \in Nat
  BY DEF SyncInv, StoresTyped
<1>9. table' \in [Stores -> [Rows -> RowType]] /\ Dated' /\ ParentsFirst' /\ Grows
  BY <1>4, <1>6, <1>7, <1>8, PutRowStep DEF SyncInv
<1>10. StoresTyped'
  BY <1>4, <1>9 DEF SyncInv, StoresTyped
<1>11. MapsHeld'
  <2> SUFFICES ASSUME NEW v \in Stores, NEW u \in Stores
               PROVE  HasAll(v, syncState[v][u].idMap)'
    BY DEF MapsHeld
  <2>1. syncState[v][u].idMap \subseteq Rows
    BY DEF SyncInv, StoresTyped, SyncMap
  <2> QED
    BY <1>4, <1>9, <1>10, <2>1, GrowsHolds DEF SyncInv, MapsHeld, HasAll
<1>12. PICK r \in Rows : r = i.row
  BY <1>6
<1>13. Has(w, r)'
  <2>1. table'[w][r] = row
    BY <1>4, <1>12 DEF SyncInv, StoresTyped
  <2> QED
    BY <1>5, <2>1 DEF Has
<1>14. PICK held \in SUBSET Rows : held = ids \cup {r}
  BY <1>3
<1>15. HasAll(w, held)'
  BY <1>3, <1>9, <1>10, <1>13, <1>14, GrowsHolds DEF SyncInv, HasAll
<1>17. Received(chunk.map, i) \in SyncMap /\ Received(chunk.map, i).idMap = held
  BY <1>2, <1>3, <1>12, <1>14, ReceivedTyped DEF ids
<1>18. ChunkHeld(w)'
  <2>1. /\ chunk'.items = chunk.items /\ chunk'.next = chunk.next + 1
        /\ chunk'.users = chunk.users /\ chunk'.map = Received(chunk.map, i)
    BY <1>4
  <2> QED
    BY <1>1, <1>2, <1>4, <1>15, <1>17, <2>1 DEF ChunkHeld
<1>16. ChunksHeld'
  BY <1>4, <1>18 DEF ChunksHeld, MergeStep, Syncing, Doing
<1> QED
  BY <1>9, <1>10, <1>11, <1>16 DEF SyncInv

LEMMA ChunkDoneKeeps ==
  ASSUME SyncInv, NEW w \in Stores, NEW rd \in Stores, ChunkDone(w, rd)
  PROVE  SyncInv' /\ Grows
<1> DEFINE next == IF Done THEN NextCycle(chunk.map, chunk.users) ELSE chunk.map
<1>1. ChunkHeld(w)
  BY SyncingWriter DEF ChunkDone
<1>2. next \in SyncMap /\ next.idMap = chunk.map.idMap
  <2>1. chunk.map \in SyncMap /\ FreshState.counts \in [Entities -> Nat]
    BY <1>1 DEF ChunkHeld, FreshState
  <2>2. \A u \in chunk.users : Newest(chunk.map.maxAt, u.at) \in Nat
    BY <1>1, <2>1 DEF ChunkHeld, Newest, SyncMap
  <2> QED
    BY <2>1, <2>2 DEF NextCycle, SyncMap
<1>3. /\ UNCHANGED <<now, table, user>> /\ chunk' = NoChunk
      /\ syncState' = [syncState EXCEPT ![w][rd] = next]
  BY DEF ChunkDone
<1>4. HasAll(w, next.idMap)
  BY <1>1, <1>2 DEF ChunkHeld
<1> HIDE DEF next
<1>5. StoresTyped' /\ Dated' /\ ParentsFirst' /\ Grows
  BY <1>2, <1>3 DEF SyncInv, StoresTyped, RowType, Dated, ParentsFirst, HasAll, Has, Grows
<1>6. MapsHeld'
  BY <1>3, <1>4 DEF SyncInv, StoresTyped, MapsHeld, HasAll, Has
<1> QED
  BY <1>3, <1>5, <1>6 DEF SyncInv, ChunksHeld

----------------------------------------------------------------------------
(* The specification *)

LEMMA SyncInvStep ==
  ASSUME SyncInv, [Next]_vars
  PROVE  SyncInv' /\ Grows
<1>1. CASE UNCHANGED vars
  <2>1. UNCHANGED <<storeVars, chunk, plan>>
    BY <1>1 DEF vars, managerVars, reading
  <2>2. ChunksHeld'
    BY <2>1 DEF SyncInv, ChunksHeld, ChunkHeld, Syncing, Doing, HasAll, Has, storeVars
  <2> QED
    BY <2>1, <2>2, StoresKept DEF SyncInv, StoresTyped, storeVars
<1>2. CASE ManagerStep
  BY <1>2, ManagerStepKeeps
<1>3. ASSUME NEW r \in Rows, Write(r)
      PROVE  SyncInv' /\ Grows
  BY <1>3, WriteRowStep DEF Write, managerVars, reading
<1>4. ASSUME NEW r \in Rows, NEW s \in Stores, WriteElsewhere(s, r)
      PROVE  SyncInv' /\ Grows
  BY <1>4, WriteRowStep DEF WriteElsewhere, managerVars, reading
<1>5. ASSUME NEW s \in Stores, NEW t \in Stores,
             SelectStep(s, t) \/ CacheStep(s, t) \/ ResetStep
      PROVE  SyncInv' /\ Grows
  BY <1>5, RoleStepKeeps
<1>6. ASSUME NEW w \in Stores, NEW rd \in Stores,
             ReadChunk(w, rd) \/ MergeStep(w, rd) \/ ChunkDone(w, rd)
      PROVE  SyncInv' /\ Grows
  BY <1>6, ReadChunkKeeps, MergeStepKeeps, ChunkDoneKeeps
<1>7. ASSUME MergeThrows \/ CallThrows \/ Restart
      PROVE  SyncInv' /\ Grows
  BY <1>7, AbandonKeeps DEF MergeThrows, CallThrows, Restart
<1>8. CASE Next
  <2>1. CASE ResetStep
    <3>1. Stores # {}
      BY ManagedAssumption
    <3> QED
      BY <1>5, <2>1, <3>1
  <2> QED
    BY <1>2, <1>3, <1>4, <1>5, <1>6, <1>7, <1>8, <2>1 DEF Next, Step, SyncStep, ManagerStep
<1> QED
  BY <1>1, <1>8

THEOREM SyncAlways == Spec => []SyncInv
<1>1. SyncInv /\ [Next]_vars => SyncInv'
  BY SyncInvStep
<1> QED
  BY <1>1, InitSyncInv, PTL DEF Spec

(* Wherever a synchronization is interrupted, and in whatever order the    *)
(* stores are written and synchronized, each row of a store has there the  *)
(* rows its key is made of and its foreign keys name: mergeFind in         *)
(* src/src/storage/schema/entities.                                        *)
THEOREM ParentsAlwaysFirst == Spec => []ParentsFirst
<1>1. SyncInv => ParentsFirst
  BY DEF SyncInv
<1> QED
  BY <1>1, SyncAlways, PTL

(* No step takes a row of a store back to an older update, and none loses  *)
(* a row: mergeExisting in src/src/storage/schema/entities.                *)
THEOREM UpdatesAreKept == Spec => NeverOlder
<1>1. SyncInv /\ [Next]_vars =>
        [\A s \in Stores, r \in Rows : table'[s][r].at >= table[s][r].at]_vars
  BY SyncInvStep DEF Grows
<1> QED
  BY <1>1, SyncAlways, PTL DEF Spec, NeverOlder
=============================================================================

---------------------------- MODULE StorageManager ----------------------------
(***************************************************************************)
(* The stores a wallet manages: src/src/storage/WalletStorageManager.ts,   *)
(* makeAvailable, updateBackups, setActive, syncToWriter and               *)
(* syncFromReader.  The locks are in StorageLocks: here a write, or a      *)
(* whole synchronization, has the manager to itself.                       *)
(***************************************************************************)
EXTENDS StorageSync

CONSTANTS
  NoStore,
  Managed,     \* the stores given to the constructor, in order
  Shared,      \* stores another wallet of the user writes to as well
  NoChunk,
  MaxFaults    \* bound: exceptions, restarts, and writes amid a synchronization

ASSUME ManagedAssumption ==
  Managed \in Seq(Stores) /\ Managed # <<>> /\ Shared \subseteq Stores /\ MaxFaults \in Nat

VARIABLES
  stores,       \* _stores
  available,    \* _isAvailable
  active, backups, conflicting,
  cached,       \* per store, activeStorage in its cached user, or NoStore
  isActive,     \* _authId.isActive
  plan,         \* what the running synchronization still does
  chunk,        \* the chunk it has read
  faults,
  seen,         \* history: the updates of the user's rows when it was read
  written,      \* history: per time, the row written then and its foreign keys
  exposed       \* history: see Exposes

reading == <<chunk, seen>>
roleVars == <<active, backups, conflicting, isActive>>
managerVars == <<stores, available, roleVars, cached, plan, reading, faults>>
history == <<written, exposed>>
vars == <<storeVars, managerVars, history>>

isActiveEnabled == active # NoStore /\ cached[active] = active /\ conflicting = <<>>

Unwritten == [row |-> "none", links |-> {}]
Unseen == [r \in Rows |-> 0]

Init ==
  /\ StoresInit
  /\ stores = Managed /\ available = FALSE
  /\ active = NoStore /\ backups = <<>> /\ conflicting = <<>> /\ isActive = FALSE
  /\ cached = [s \in Stores |-> NoStore]
  /\ plan = <<>> /\ chunk = NoChunk /\ faults = 0
  /\ seen = Unseen /\ exposed = {} /\ written = [v \in 1..MaxTime |-> Unwritten]

----------------------------------------------------------------------------

(* The first store is the active one, until one that selects itself is met *)
(* while it does not.                                                      *)
Partition(c) ==
  FoldLeft(LAMBDA p, s :
             IF c[s] = s /\ c[p.active] # p.active
             THEN [active |-> s, rest |-> Append(p.rest, p.active)]
             ELSE [p EXCEPT !.rest = Append(@, s)],
           [active |-> Head(stores), rest |-> <<>>], Tail(stores))

makeAvailable ==
  /\ ~available /\ available' = TRUE
  /\ cached' = [s \in Stores |->
                  IF s \in Range(stores) /\ cached[s] = NoStore THEN user[s].active
                  ELSE cached[s]]
  /\ LET p == Partition(cached') IN
     /\ active' = p.active
     /\ backups' = SelectSeq(p.rest, LAMBDA s : cached'[s] = p.active)
     /\ conflicting' = SelectSeq(p.rest, LAMBDA s : cached'[s] # p.active)
     /\ isActive' = (cached'[p.active] = p.active /\ conflicting' = <<>>)
  /\ UNCHANGED <<storeVars, stores, plan, reading, faults>>

Idle == available /\ plan = <<>>

addWalletStorageProvider(s) ==
  /\ Idle /\ s \notin Range(stores)
  /\ stores' = Append(stores, s) /\ available' = FALSE
  /\ UNCHANGED <<storeVars, roleVars, cached, plan, reading, faults>>

Fault == faults < MaxFaults /\ faults' = faults + 1

(* A call that needs the active storage. *)
Write(r) ==
  /\ Idle /\ isActive
  /\ WriteRow(active, r)
  /\ UNCHANGED <<user, syncState, managerVars>>

(* Another wallet of the same user, for which store s is the active one;   *)
(* amid a synchronization its writes are bounded with the faults.          *)
WriteElsewhere(s, r) ==
  /\ s \in Shared /\ user[s].active = s
  /\ WriteRow(s, r)
  /\ IF plan = <<>> THEN UNCHANGED faults ELSE Fault
  /\ UNCHANGED <<user, syncState, stores, available, roleVars, cached, plan, reading>>

----------------------------------------------------------------------------
(* Synchronizations, as the list of what they do *)

Sync(rd, w) == [op |-> "sync", from |-> rd, to |-> w]
Import(rd, w) == [op |-> "import", from |-> rd, to |-> w]
Select(s, t) == [op |-> "select", from |-> s, to |-> t]
Cache(s, t) == [op |-> "cache", from |-> s, to |-> t]
Reset == [op |-> "reset", from |-> NoStore, to |-> NoStore]

Start(steps) == Idle /\ plan' = steps /\ UNCHANGED <<storeVars, stores, available, cached,
                                                     reading, faults>>

updateBackups ==
  /\ isActive /\ backups # <<>>
  /\ Start([i \in DOMAIN backups |-> Sync(active, backups[i])])
  /\ UNCHANGED roleVars

syncFromReader(rd) ==
  /\ rd \notin Range(stores)
  /\ Start(<<Import(rd, active)>>)
  /\ UNCHANGED roleVars

(* Conflicting actives are merged into the new one; then it, or else the   *)
(* current active, is told the selection and pushed to every store.        *)
setActive(t) ==
  LET conflicts == IF conflicting = <<>> THEN <<>>
                   ELSE SelectSeq(Append(conflicting, active), LAMBDA s : s # t)
      source == IF conflicts = <<>> THEN active ELSE t
      push == [i \in DOMAIN stores |->
                 IF stores[i] = source THEN <<Cache(stores[i], t)>>
                 ELSE <<Cache(stores[i], t), Sync(source, stores[i])>>]
  IN
  /\ t \in Range(stores) /\ ~(t = active /\ isActiveEnabled) /\ now < MaxTime
  /\ Start([i \in DOMAIN conflicts |-> Sync(conflicts[i], t)]
             \o <<Select(source, t)>> \o FlattenSeq(push) \o <<Reset>>)
  /\ conflicting' = conflicts
  /\ UNCHANGED <<active, backups, isActive>>

Doing(step) == plan # <<>> /\ Head(plan) = step
Next1 == plan' = Tail(plan)

SelectStep(s, t) ==
  /\ Doing(Select(s, t)) /\ selectActive(s, t) /\ Next1
  /\ UNCHANGED <<table, syncState, stores, available, roleVars, cached, reading, faults>>

CacheStep(s, t) ==
  /\ Doing(Cache(s, t)) /\ Next1
  /\ cached' = [cached EXCEPT ![s] = t]
  /\ UNCHANGED <<storeVars, stores, available, roleVars, reading, faults>>

ResetStep ==
  /\ Doing(Reset) /\ Next1 /\ available' = FALSE
  /\ UNCHANGED <<storeVars, stores, roleVars, cached, reading, faults>>

Syncing(w, rd) == Doing(Sync(rd, w)) \/ Doing(Import(rd, w))

(* A chunk on its way: its items, the next of them to merge, the user that *)
(* was merged with it, and the sync map as far as it has come.  The user   *)
(* is merged first; an import leaves the selection of the active store.    *)
ReadChunk(w, rd) ==
  /\ Syncing(w, rd) /\ chunk = NoChunk
  /\ LET users == MergedUsers(w, rd) IN
     /\ \E items \in getSyncChunk(rd, syncState[w][rd]) :
          chunk' = [items |-> items, next |-> 1, users |-> users, map |-> syncState[w][rd]]
     /\ user' = IF users = {} THEN user
                ELSE [user EXCEPT ![w] =
                        [active |-> IF Doing(Import(rd, w)) THEN cached[active]
                                    ELSE user[rd].active,
                         at |-> user[rd].at]]
  /\ seen' = [r \in Rows |-> IF OfUser(rd, r) THEN table[rd][r].at ELSE 0]
  /\ UNCHANGED <<now, table, syncState, stores, available, roleVars, cached, plan, faults>>

Left == chunk # NoChunk /\ chunk.next <= Len(chunk.items)
Current == chunk.items[chunk.next]

(* An item is merged, in a storage call of its own. *)
MergeStep(w, rd) ==
  /\ Syncing(w, rd) /\ Left /\ mergeFind(Current, chunk.map.idMap)
  /\ MergeItem(w, Current, chunk.map.idMap)
  /\ chunk' = [chunk EXCEPT !.next = @ + 1, !.map = Received(@, Current)]
  /\ UNCHANGED <<now, user, syncState, stores, available, roleVars, cached, plan, seen, faults>>

Done == chunk.items = <<>>

(* The chunk is merged: the sync state is saved. *)
ChunkDone(w, rd) ==
  /\ Syncing(w, rd) /\ chunk # NoChunk /\ ~Left
  /\ syncState' = [syncState EXCEPT ![w][rd] =
                     IF Done THEN NextCycle(chunk.map, chunk.users) ELSE chunk.map]
  /\ chunk' = NoChunk /\ seen' = Unseen
  /\ IF Done THEN Next1 ELSE UNCHANGED plan
  /\ UNCHANGED <<now, table, user, stores, available, roleVars, cached, faults>>

(* The exception ends the synchronization: what it has done stays. *)
Abandon == plan' = <<>> /\ chunk' = NoChunk /\ seen' = Unseen

(* A row whose parents are not mapped. *)
MergeThrows ==
  /\ Left /\ ~mergeFind(Current, chunk.map.idMap)
  /\ Abandon
  /\ UNCHANGED <<storeVars, stores, available, roleVars, cached, faults>>

(* The reader or the writer cannot be reached. *)
CallThrows ==
  /\ \E s, t \in Stores : Syncing(s, t) \/ Doing(Select(s, t))
  /\ Fault /\ Abandon
  /\ UNCHANGED <<storeVars, stores, available, roleVars, cached>>

Restart ==
  /\ Fault /\ Abandon
  /\ available' = FALSE /\ isActive' = FALSE
  /\ active' = NoStore /\ backups' = <<>> /\ conflicting' = <<>>
  /\ cached' = [s \in Stores |-> NoStore]
  /\ UNCHANGED <<storeVars, stores>>

SyncStep ==
  \/ \E s, t \in Stores : \/ SelectStep(s, t) \/ CacheStep(s, t)
                          \/ ReadChunk(s, t) \/ MergeStep(s, t) \/ ChunkDone(s, t)
  \/ ResetStep
  \/ MergeThrows

Step ==
  \/ makeAvailable
  \/ \E s \in Stores : \/ addWalletStorageProvider(s) \/ setActive(s) \/ syncFromReader(s)
  \/ \E r \in Rows : Write(r) \/ \E s \in Stores : WriteElsewhere(s, r)
  \/ updateBackups
  \/ SyncStep
  \/ CallThrows
  \/ Restart

(* History: the pairs <<w, rd>> whose increments may miss a row, because a *)
(* row of rd changed while a cycle of theirs was open, or came to rd, or   *)
(* became one of the user's there, with a time before the one the next     *)
(* increment starts at.                                                    *)
Reading(w, rd) == Syncing(w, rd) /\ chunk # NoChunk

Open(w, rd) ==
  syncState[w][rd].counts # FreshState.counts \/ (Reading(w, rd) /\ ~Done)

(* Where the next increment starts, and where the one after it would. *)
NextStarts(w, rd) ==
  {syncState[w][rd].when}
    \cup (IF Reading(w, rd) THEN {NextCycle(chunk.map, chunk.users).when} ELSE {})

Exposes(w, rd) ==
  \E r \in Rows : /\ OfUser(rd, r)' /\ (table'[rd][r] # table[rd][r] \/ ~OfUser(rd, r))
                  /\ \/ Open(w, rd)
                     \/ \E start \in NextStarts(w, rd) : table'[rd][r].at < start

WrittenNow == {p \in Stores \X Rows : table'[p[1]][p[2]].val > now}

Watch ==
  /\ exposed' = exposed \cup {p \in Stores \X Stores : /\ table'[p[2]] # table[p[2]]
                                                       /\ Exposes(p[1], p[2])}
  /\ IF table' = table \/ WrittenNow = {} THEN UNCHANGED written
     ELSE \E p \in WrittenNow :
            written' = [written EXCEPT ![now'] =
                          [row |-> p[2], links |-> table'[p[1]][p[2]].links]]

Next == Step /\ Watch

Spec == Init /\ [][Next]_vars

(* A synchronization goes on as long as there is something to do, and each *)
(* of its steps changes what there is: weak fairness of SyncStep, with its *)
(* ENABLED written out.                                                    *)
FairSpec == Spec /\ ([]<>(plan = <<>>) \/ []<><<plan # <<>>>>_<<plan, chunk>>)

----------------------------------------------------------------------------
(* Properties *)

RowType == [id : Nat, at : Nat, val : Nat, links : SUBSET Rows]

SyncMap ==
  [when : Nat, counts : [Entities -> Nat], maxAt : Nat, idMap : SUBSET Rows]

(* The values of the variables. *)
TypeOK ==
  /\ now \in Nat
  /\ table \in [Stores -> [Rows -> RowType]]
  /\ user \in [Stores -> [active : Stores, at : Nat]]
  /\ syncState \in [Stores -> [Stores -> SyncMap]]
  /\ stores \in Seq(Stores) /\ available \in BOOLEAN /\ isActive \in BOOLEAN
  /\ active \in Stores \cup {NoStore}
  /\ backups \in Seq(Stores) /\ conflicting \in Seq(Stores)
  /\ cached \in [Stores -> Stores \cup {NoStore}]
  /\ faults \in Nat /\ seen \in [Rows -> Nat] /\ exposed \subseteq Stores \X Stores

(* A row is in a store only with the rows its key is made of and the rows  *)
(* its foreign keys name: chunks bring the tables in dependency order, and *)
(* a row is merged after the others, wherever a synchronization is         *)
(* interrupted and resumed.                                                *)
ParentsFirst ==
  \A s \in Stores, r \in Rows :
    Has(s, r) => HasAll(s, Needs[r]) /\ HasAll(s, table[s][r].links)

(* The row was written with another value of this foreign key as well. *)
Moved(r, q) ==
  \E v, u \in 1..MaxTime : /\ written[v].row = r /\ q \in written[v].links
                           /\ written[u].row = r /\ q \notin written[u].links

(* A copy of a row has the foreign keys it was written with: what a merge  *)
(* cannot map it drops without a word.  But for a missed row (exposed),    *)
(* for keys that mergeExisting does not update, and for a request, whose   *)
(* proof comes only once its transaction has it.                           *)
LinksKept ==
  exposed = {} =>
    \A s \in Stores, r \in Rows :
      Has(s, r) /\ Kind(r) # "req" =>
        \A q \in written[table[s][r].val].links :
          q \in table[s][r].links \/ (q \in Fixed(r) /\ Moved(r, q))

(* No merge ever takes a store back to an older update of a row.           *)
NeverOlder ==
  [][\A s \in Stores, r \in Rows : table'[s][r].at >= table[s][r].at]_vars

Ends(rd, w) ==
  Syncing(w, rd) /\ chunk # NoChunk /\ Done /\ chunk' = NoChunk /\ faults' = faults

(* w has every row rd had when the last chunk was read, as it was or later.*)
Complete(rd, w) ==
  \A r \in Rows : \/ table'[w][r].at >= seen[r]
                  \/ (Kind(r) = "proof" /\ Has(w, r)')

(* Every synchronization, a push, an import or the merge of a conflicting  *)
(* active, leaves the writer with all the reader has, but for the pairs of *)
(* stores exposed to a missed row: the offsets and the time of the next    *)
(* increment are right in every other order of writes, increments,         *)
(* interruptions and changes of the active store.                          *)
NothingLeftBehind ==
  [][\A rd, w \in Stores : Ends(rd, w) /\ <<w, rd>> \notin exposed => Complete(rd, w)]_vars

(* A synchronization ends: the chunks of a cycle come to an end.           *)
SyncEnds == plan # <<>> ~> plan = <<>>
=============================================================================

----------------------------- MODULE StorageSync -----------------------------
(***************************************************************************)
(* Stores of one user and the merge of one into another by chunks:         *)
(* getSyncChunk.ts, EntitySyncState.ts, MergeEntity.ts and the merge       *)
(* methods of the entities, under src/src/storage/.                        *)
(*                                                                         *)
(* A row is its natural key (reference, txid, transaction and vout, name). *)
(* A row of a store is [id, at, val, links]: its number in the order the   *)
(* store inserts them, its updated_at, the write its columns come from,    *)
(* and the rows its foreign keys name.  at = 0 is no row.  The clock       *)
(* advances with each write, and is the same for all stores.               *)
(***************************************************************************)
EXTENDS Integers, SequencesExt

CONSTANTS
  Stores, Rows,
  Table,        \* per row, its table
  Needs,        \* per row, the rows its key is made of
  Links,        \* per row, the rows it may refer to
  ChunkItems,   \* maxItems
  MaxTime       \* bound: writes, and selections, that begin

(* How the rows of a table are merged.  kind: the latest update wins, or   *)
(* requests and proofs, see mergeExisting.  needs: the tables of foreign   *)
(* keys mergeFind looks a row up by.  links: those of the other foreign    *)
(* keys; of these, mergeExisting leaves the ones in fixed as they are.     *)
Merging(kind, needs, links, fixed) ==
  [kind |-> kind, needs |-> needs, links |-> links, fixed |-> fixed]

ProvenTx == Merging("proof", {}, {}, {})
OutputBasket == Merging("latest", {}, {}, {})
OutputTag == Merging("latest", {}, {}, {})
TxLabel == Merging("latest", {}, {}, {})
Transaction == Merging("latest", {}, {"provenTx"}, {})
Output ==
  Merging("latest", {"transaction"}, {"outputBasket", "transaction"}, {"outputBasket"})
TxLabelMap == Merging("latest", {"transaction", "txLabel"}, {}, {})
OutputTagMap == Merging("latest", {"output", "outputTag"}, {}, {})
Certificate == Merging("latest", {}, {}, {})
CertificateField == Merging("latest", {"certificate"}, {}, {})
Commission == Merging("latest", {"transaction"}, {}, {})
ProvenTxReq == Merging("req", {}, {"provenTx", "transaction"}, {"provenTx"})

(* The tables in the order of a chunk. *)
Tables == <<"provenTx", "outputBasket", "outputTag", "txLabel", "transaction",
            "output", "txLabelMap", "outputTagMap", "certificate",
            "certificateField", "commission", "provenTxReq">>

MergeOf ==
  [provenTx |-> ProvenTx, outputBasket |-> OutputBasket, outputTag |-> OutputTag,
   txLabel |-> TxLabel, transaction |-> Transaction, output |-> Output,
   txLabelMap |-> TxLabelMap, outputTagMap |-> OutputTagMap,
   certificate |-> Certificate, certificateField |-> CertificateField,
   commission |-> Commission, provenTxReq |-> ProvenTxReq]

Merge(r) == MergeOf[Table[r]]
Kind(r) == Merge(r).kind

(* The tables that have rows, by their places in a chunk. *)
Entities == {e \in DOMAIN Tables : \E r \in Rows : Table[r] = Tables[e]}
Entity(r) == CHOOSE e \in DOMAIN Tables : Tables[e] = Table[r]

ASSUME RowsAssumption ==
  /\ IsFiniteSet(Rows) /\ Table \in [Rows -> {Tables[e] : e \in DOMAIN Tables}]
  /\ Needs \in [Rows -> SUBSET Rows] /\ Links \in [Rows -> SUBSET Rows]
  /\ \A r \in Rows : /\ {Table[q] : q \in Needs[r]} = Merge(r).needs
                     /\ {Table[q] : q \in Links[r]} \subseteq Merge(r).links
  /\ ChunkItems \in Nat \ {0} /\ MaxTime \in Nat

VARIABLES
  now,
  table,      \* table[s][r]
  user,       \* user[s], the user's row: [active, at]
  syncState   \* syncState[w][rd]: [when, counts, maxAt, idMap]

storeVars == <<now, table, user, syncState>>

Absent == [id |-> 0, at |-> 0, val |-> 0, links |-> {}]
Has(s, r) == table[s][r].at > 0
HasAll(s, rows) == \A q \in rows : Has(s, q)
NextId(s) == 1 + Cardinality({r \in Rows : Has(s, r)})

(* createSyncMap: nothing received yet. *)
FreshState ==
  [when |-> 0, counts |-> [e \in Entities |-> 0], maxAt |-> 0, idMap |-> {}]

StoresInit ==
  /\ now = 0
  /\ table = [s \in Stores |-> [r \in Rows |-> Absent]]
  /\ user = [s \in Stores |-> [active |-> s, at |-> 0]]
  /\ syncState = [w \in Stores |-> [rd \in Stores |-> FreshState]]

(* The wallet writes row r of store s, with foreign keys to rows it has.   *)
WriteRow(s, r) ==
  /\ now < MaxTime /\ now' = now + 1
  /\ HasAll(s, Needs[r])
  /\ Kind(r) = "proof" => ~Has(s, r)
  /\ \E links \in SUBSET {q \in Links[r] : Has(s, q)} :
       table' = [table EXCEPT ![s][r] =
                   [id |-> IF Has(s, r) THEN @.id ELSE NextId(s),
                    at |-> now + 1, val |-> now + 1, links |-> links]]

selectActive(s, t) ==
  /\ now' = now + 1
  /\ user' = [user EXCEPT ![s] = [active |-> t, at |-> now + 1]]

----------------------------------------------------------------------------
(* Reading a chunk *)

(* Proofs and requests are shared by the users of a store: a user has      *)
(* those a transaction of the user refers to, or is for.                   *)
OfUser(rd, r) ==
  /\ Has(rd, r)
  /\ Kind(r) = "proof" =>
       \E q \in Rows : Table[q] = "transaction" /\ r \in table[rd][q].links
  /\ Kind(r) = "req" => \E q \in Links[r] : Table[q] = "transaction" /\ Has(rd, q)

Since(rd, ss) == {r \in Rows : OfUser(rd, r) /\ table[rd][r].at >= ss.when}

(* A chunk has table after table, and the rows of a table by their ids. *)
Before(rd, q, r) ==
  \/ Entity(q) < Entity(r)
  \/ (Entity(q) = Entity(r) /\ table[rd][q].id < table[rd][r].id)

Offset(rd, rows, r) == Cardinality({q \in rows : Entity(q) = Entity(r) /\ Before(rd, q, r)})

(* The rows since `when`, past the offsets of their tables. *)
Pending(rd, ss) ==
  {r \in Since(rd, ss) : Offset(rd, Since(rd, ss), r) >= ss.counts[Entity(r)]}

Item(rd, r) ==
  LET row == table[rd][r] IN [row |-> r, at |-> row.at, val |-> row.val, links |-> row.links]

(* The first ChunkItems of them, in order. *)
getSyncChunk(rd, ss) ==
  LET rows == Pending(rd, ss)
      size == Min({ChunkItems, Cardinality(rows)})
  IN  {[n \in 1..size |-> Item(rd, first[n])] :
         first \in {f \in [1..size -> rows] :
                     \A n \in 1..size : Cardinality({q \in rows : Before(rd, q, f[n])}) = n - 1}}

(* The reader's user goes with them, and is merged if it is more recent.   *)
MergedUsers(w, rd) ==
  {u \in {user[rd]} : u.at > syncState[w][rd].when /\ u.at > user[w].at}

----------------------------------------------------------------------------
(* Merging a chunk.  ids is the idMap, old the writer's row of the item i. *)

(* A foreign key that the idMap does not have becomes undefined. *)
Mapped(i, ids) == i.links \cap ids

mergeNew(w, i, ids) ==
  [id |-> NextId(w), at |-> i.at, val |-> i.val, links |-> Mapped(i, ids)]

Updated(old, i, links) == [id |-> old.id, at |-> i.at, val |-> i.val, links |-> links]

mergeExisting_Any(old, i, ids) ==  \* mutant: the time of the update not compared
  Updated(old, i, Mapped(i, ids))

Fixed(r) == {q \in Rows : Table[q] \in Merge(r).fixed}

mergeLatest_Columns(old, i, ids) ==  \* mutant: foreign keys are not updated
  IF i.at > old.at THEN Updated(old, i, old.links) ELSE old

(* The latest update wins. *)
mergeLatest(old, i, ids) ==
  IF i.at > old.at
  THEN Updated(old, i, (old.links \cap Fixed(i.row)) \cup (Mapped(i, ids) \ Fixed(i.row)))
  ELSE old

(* A request keeps its own status and is notified to more transactions.    *)
mergeRequest(old, i, ids) ==
  [old EXCEPT !.at = IF i.at > @ THEN i.at ELSE @,
              !.links = @ \cup (Mapped(i, ids) \ Fixed(i.row))]

(* A proof is never updated. *)
mergeExisting(old, i, ids) ==
  CASE Kind(i.row) = "latest" -> mergeLatest(old, i, ids)
    [] Kind(i.row) = "req" -> mergeRequest(old, i, ids)
    [] OTHER -> old

mergeFind_Unchecked(i, ids) == TRUE   \* mutant: the row is looked for without its parents

(* A row is found by its natural key, the ids in it taken from the idMap.  *)
mergeFind(i, ids) == Needs[i.row] \subseteq ids

MergeItem(w, i, ids) ==
  table' = [table EXCEPT ![w][i.row] =
              IF Has(w, i.row) THEN mergeExisting(@, i, ids) ELSE mergeNew(w, i, ids)]

Newest(a, b) == IF a >= b THEN a ELSE b

Received_Once(map, i) ==          \* mutant: the counts are not accumulated
  [map EXCEPT !.counts = [FreshState.counts EXCEPT ![Entity(i.row)] = 1],
              !.maxAt = Newest(@, i.at), !.idMap = @ \cup {i.row}]

Received_Everywhere(map, i) ==    \* mutant: the offset of each table grows
  [map EXCEPT !.counts = [e \in Entities |-> @[e] + 1],
              !.maxAt = Newest(@, i.at), !.idMap = @ \cup {i.row}]

(* The sync map once the item is merged: the counts become the offsets of  *)
(* the next chunk.                                                         *)
Received(map, i) ==
  [map EXCEPT !.counts[Entity(i.row)] = @ + 1,
              !.maxAt = Newest(@, i.at), !.idMap = @ \cup {i.row}]

(* An empty chunk ends the cycle: the next one starts at the latest update *)
(* seen, with offsets of zero.                                             *)
NextCycle(map, users) ==
  [map EXCEPT !.when = IF users = {} THEN map.maxAt
                       ELSE Newest(map.maxAt, (CHOOSE u \in users : TRUE).at),
              !.counts = FreshState.counts]
=============================================================================

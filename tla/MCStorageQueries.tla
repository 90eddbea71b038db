-------------------------- MODULE MCStorageQueries --------------------------
(***************************************************************************)
(* The instance of the wallet storage for the run of TaskUnFail, with what *)
(* TLC evaluates of the two implementations of the storage interface, SQL  *)
(* and IndexedDB: every query of a small universe, on databases of two     *)
(* users whose statuses and flags take every combination.  Where the two   *)
(* answer differently, a statement says how.                               *)
(***************************************************************************)
EXTENDS MCWalletStorage, Integers

Knex == INSTANCE KnexQueries
Idb == INSTANCE IdbQueries

(* Two users, an action of the first sent or not, its output spent or not, *)
(* a certificate, a tag and a link that may be deleted; the second user    *)
(* has one of each.                                                        *)
Database(status, unspent, deleted) ==
  [users |-> <<[userId |-> 1, identityKey |-> "k1", updated_at |-> 1, created_at |-> 1],
               [userId |-> 2, identityKey |-> "k2", updated_at |-> 3, created_at |-> 3]>>,
   transactions |->
     <<[transactionId |-> 1, userId |-> 1, status |-> status, provenTxId |-> 0, txid |-> "x1",
        reference |-> "r1", updated_at |-> 1, created_at |-> 1],
       [transactionId |-> 2, userId |-> 2, status |-> "completed", provenTxId |-> 1, txid |-> "x2",
        reference |-> "r2", updated_at |-> 3, created_at |-> 3],
       [transactionId |-> 3, userId |-> 1, status |-> "completed", provenTxId |-> 2, txid |-> "x3",
        reference |-> "r3", updated_at |-> 2, created_at |-> 2]>>,
   output_baskets |->
     <<[basketId |-> 1, userId |-> 1, name |-> "default", isDeleted |-> 0,
        minimumDesiredUTXOValue |-> 32, updated_at |-> 1, created_at |-> 1],
       [basketId |-> 2, userId |-> 2, name |-> "default", isDeleted |-> 0,
        minimumDesiredUTXOValue |-> 32, updated_at |-> 3, created_at |-> 3]>>,
   outputs |->
     <<[outputId |-> 1, userId |-> 1, transactionId |-> 1, vout |-> 0, basketId |-> 1,
        spendable |-> unspent, change |-> 1, satoshis |-> 7, updated_at |-> 1, created_at |-> 1],
       [outputId |-> 2, userId |-> 1, transactionId |-> 1, vout |-> 1, basketId |-> 1,
        spendable |-> 1, change |-> 1, satoshis |-> 4, updated_at |-> 3, created_at |-> 1],
       [outputId |-> 3, userId |-> 2, transactionId |-> 2, vout |-> 0, basketId |-> 2,
        spendable |-> 1, change |-> 0, satoshis |-> 5, updated_at |-> 2, created_at |-> 2],
       [outputId |-> 4, userId |-> 1, transactionId |-> 3, vout |-> 0, basketId |-> 1,
        spendable |-> 1, change |-> 1, satoshis |-> 7, updated_at |-> 1, created_at |-> 1]>>,
   output_tags |->
     <<[outputTagId |-> 1, userId |-> 1, tag |-> "red", isDeleted |-> deleted, updated_at |-> 1,
        created_at |-> 1],
       [outputTagId |-> 2, userId |-> 1, tag |-> "blue", isDeleted |-> 0, updated_at |-> 2,
        created_at |-> 2],
       [outputTagId |-> 3, userId |-> 2, tag |-> "red", isDeleted |-> 0, updated_at |-> 3,
        created_at |-> 3]>>,
   output_tags_map |->
     <<[outputTagId |-> 1, outputId |-> 1, isDeleted |-> 0, updated_at |-> 1],
       [outputTagId |-> 2, outputId |-> 1, isDeleted |-> deleted, updated_at |-> 1],
       [outputTagId |-> 3, outputId |-> 3, isDeleted |-> 0, updated_at |-> 3]>>,
   tx_labels |->
     <<[txLabelId |-> 1, userId |-> 1, label |-> "in", isDeleted |-> deleted, updated_at |-> 1,
        created_at |-> 1],
       [txLabelId |-> 2, userId |-> 2, label |-> "in", isDeleted |-> 0, updated_at |-> 3,
        created_at |-> 3]>>,
   tx_labels_map |->
     <<[txLabelId |-> 1, transactionId |-> 1, isDeleted |-> 0, updated_at |-> 1],
       [txLabelId |-> 2, transactionId |-> 2, isDeleted |-> 0, updated_at |-> 3]>>,
   certificates |->
     <<[certificateId |-> 1, userId |-> 1, type |-> "id", certifier |-> "c", serialNumber |-> 1,
        isDeleted |-> deleted, updated_at |-> 1],
       [certificateId |-> 2, userId |-> 1, type |-> "age", certifier |-> "c", serialNumber |-> 2,
        isDeleted |-> 0, updated_at |-> 2]>>,
   certificate_fields |->
     <<[certificateId |-> 1, userId |-> 1, fieldName |-> "name", updated_at |-> 1]>>,
   proven_txs |-> <<[provenTxId |-> 1, txid |-> "x2", updated_at |-> 3],
                    [provenTxId |-> 2, txid |-> "x3", updated_at |-> 2]>>,
   proven_tx_reqs |->
     <<[provenTxReqId |-> 1, txid |-> "x1", status |-> "unsent", updated_at |-> 1],
       [provenTxReqId |-> 2, txid |-> "x2", status |-> "completed", updated_at |-> 3]>>,
   commissions |->
     <<[commissionId |-> 1, userId |-> 1, transactionId |-> 1, isRedeemed |-> 0, updated_at |-> 1]>>,
   monitor_events |-> <<[id |-> 1, event |-> "e", updated_at |-> 1],
                        [id |-> 2, event |-> "f", updated_at |-> 3]>>,
   sync_states |->
     <<[syncStateId |-> 1, userId |-> 1, refNum |-> "n1", init |-> 0, updated_at |-> 1]>>]

Databases ==
  {Database(x, y, z) : x \in {"sending", "completed", "failed"}, y \in {0, 1}, z \in {0, 1}}

Ask(partial, lists, since, paged, descending) ==
  [partial |-> partial, lists |-> lists, since |-> since, paged |-> paged, descending |-> descending]

RowsOf(rows) == {rows[i] : i \in DOMAIN rows}

(* What is asked of a table: nothing, or the value of a column some row    *)
(* has, alone or beside its user.                                          *)
Partials(db, table) ==
  LET rows == RowsOf(db[table])
      one(r, c) == c :> r[c]
  IN {<<>>} \cup UNION {{one(r, c) : c \in DOMAIN r} : r \in rows}
       \cup UNION {{one(r, c) @@ one(r, "userId") : c \in DOMAIN r} :
                     r \in {x \in rows : "userId" \in DOMAIN x}}

Lists(table) ==
  CASE table = "certificates" -> {<<>>, [types |-> {"id"}], [types |-> {}]}
    [] table = "transactions" -> {<<>>, [status |-> {"completed", "failed"}]}
    [] table = "outputs" -> {<<>>, [txStatus |-> {"completed", "sending"}]}
    [] table = "proven_tx_reqs" -> {<<>>, [status |-> {"unsent", "sending"}]}
    [] table = "output_tags_map" -> {<<>>, [tagIds |-> {1, 3}]}
    [] OTHER -> {<<>>}

Pages == {{}, {[offset |-> 0, limit |-> 1]}, {[offset |-> 1, limit |-> 2]}}

Queries(db, table) ==
  {Ask(p, l, since, g, FALSE) :
     p \in Partials(db, table), l \in Lists(table), since \in {0, 2}, g \in Pages}

(* Where IndexedDB does not look at a part of the question.                *)
Overlooked(table, q) ==
  \/ table = "proven_tx_reqs" /\ q.lists # <<>>
  \/ \E l \in DOMAIN q.lists : q.lists[l] = {}
  \/ table = "certificates" /\ "isDeleted" \in DOMAIN q.partial
  \/ "minimumDesiredUTXOValue" \in DOMAIN q.partial

(* Both implementations find the same rows in the same order, paged alike, *)
(* whatever columns, lists and dates are asked for: fifteen hand-written   *)
(* cursor loops do what one SQL query builder does, but for the questions  *)
(* of Overlooked.                                                          *)
ASSUME SameRowsAreFound ==
  \A db \in Databases : \A table \in Knex!Tables : \A q \in Queries(db, table) :
     Overlooked(table, q) \/ Idb!findIdb(db, table, q) = Knex!find(db, table, q)

(* What is overlooked: StorageIdb finds ProvenTxReqs of every status for   *)
(* the monitor tasks, which ask for those of some (filterProvenTxReqs), no *)
(* certificate for an empty list of types, where SQL finds all, and        *)
(* deleted certificates for those who ask for the others.                  *)
ASSUME WhatIndexedDbOverlooks ==
  \A db \in Databases :
     LET All(table) == Knex!find(db, table, Ask(<<>>, <<>>, 0, {}, FALSE)) IN
     /\ Idb!findIdb(db, "proven_tx_reqs", Ask(<<>>, [status |-> {"unsent"}], 0, {}, FALSE))
          = All("proven_tx_reqs")
     /\ Idb!findIdb(db, "certificates", Ask(<<>>, [types |-> {}], 0, {}, FALSE)) = <<>>
     /\ Knex!find(db, "certificates", Ask(<<>>, [types |-> {}], 0, {}, FALSE)) = All("certificates")
     /\ Idb!findIdb(db, "certificates", Ask([isDeleted |-> 0], <<>>, 0, {}, FALSE))
          = All("certificates")

(* A count is the number of rows found with the same question, but for a   *)
(* page: SQL pages the one row of the count itself, so that getCount       *)
(* throws for a page after the first.                                      *)
ASSUME CountsAreOfRowsFound ==
  \A db \in Databases : \A table \in Knex!Tables : \A q \in Queries(db, table) :
     LET all == [q EXCEPT !.paged = {}] IN
     /\ Knex!count(db, table, q)
          = {Len(Knex!find(db, table, all)) : g \in {x \in {0} : \A p \in q.paged : p.offset = 0}}
     /\ Overlooked(table, q) \/ Idb!countIdb(db, table, all) \in Knex!count(db, table, all)

(* findOutputsAuth and its like give nobody the row of another user.       *)
ASSUME EverybodyFindsHisOwn ==
  \A db \in Databases : \A table \in {"certificates", "output_baskets", "outputs"} :
     \A user \in {1, 2} : \A q \in Queries(db, table) :
        \A rows \in Knex!findAuth(db, table, user, q) : \A i \in DOMAIN rows :
           rows[i].userId = user

(* A sync chunk reads the proofs, reqs and links of its user, in either    *)
(* implementation, but for the tag maps, of which IndexedDB gives those of *)
(* every user.                                                             *)
ASSUME ChunksAreOfTheirUser ==
  \A db \in Databases : \A user \in {1, 2}, since \in {0, 2} :
     LET q == Ask(<<>>, <<>>, since, {}, FALSE) IN
     /\ \A table \in {"proven_txs", "proven_tx_reqs", "tx_labels_map"} :
           Idb!getForUserIdb(db, table, user, q) = Knex!getForUser(db, table, user, q)
     /\ Idb!getForUserIdb(db, "output_tags_map", user, q)
          = Knex!find(db, "output_tags_map", q)

(* The change counted for numberOfDesiredUTXOs: IndexedDB counts as many   *)
(* exactly if none of it is spent, and what was spent besides.             *)
ASSUME ChangeIsCounted ==
  \A db \in Databases : \A exclude \in BOOLEAN :
     LET sql == Knex!countChangeInputs(db, 1, 1, exclude)
         idb == Idb!countChangeInputsIdb(db, 1, 1, exclude)
         status == db.transactions[1].status
         counted == status = "completed" \/ (status = "sending" /\ ~exclude)
     IN idb = sql + (IF counted /\ db.outputs[1].spendable = 0 THEN 1 ELSE 0)

(* A change coin to allocate is there whenever SQL counts one; it is one   *)
(* coin, of the user and the basket, unspent, enough if any is enough, and *)
(* of the exact amount if any is of that.                                  *)
ASSUME ChangeIsAllocated ==
  \A db \in Databases : \A exclude \in BOOLEAN, target \in 3..8, exact \in {{}, {4}, {5}} :
     LET coin == Idb!allocateChangeInputIdb(db, 1, 1, target, exact, exclude)
         free == {o \in RowsOf(db.outputs) : o.userId = 1 /\ o.basketId = 1 /\ o.spendable = 1
                    /\ (o.transactionId = 1 => db.transactions[1].status = "completed"
                           \/ (db.transactions[1].status = "sending" /\ ~exclude))}
     IN /\ coin \subseteq free /\ Cardinality(coin) = IF free = {} THEN 0 ELSE 1
        /\ (coin = {}) = (Knex!countChangeInputs(db, 1, 1, exclude) = 0)
        /\ \A o \in coin :
             /\ (\E x \in free : x.satoshis \in exact) => o.satoshis \in exact
             /\ o.satoshis \in exact \/ o.satoshis >= target
                  \/ \A x \in free : x.satoshis <= o.satoshis /\ x.satoshis < target

(* Labels and tags of a row: the same, or IndexedDB throws because one     *)
(* that is linked was deleted.                                             *)
ASSUME LabelsAndTagsAgree ==
  \A db \in Databases :
     /\ \A t \in {1, 2, 3} : Idb!getLabelsForTransactionIdIdb(db, t)
          \in {{Knex!getLabelsForTransactionId(db, t)}, {}}
     /\ \A o \in {1, 2, 3, 4} : Idb!getTagsForOutputIdIdb(db, o)
          \in {{Knex!getTagsForOutputId(db, o)}, {}}

(* An update of rows that are there does the same to both.  If one is not, *)
(* SQL updates the others and IndexedDB those before it, and throws.       *)
ASSUME UpdatesAgree ==
  \A db \in Databases : \A ids \in {<<1>>, <<2, 1>>, <<1, 9>>, <<9, 1>>} :
     LET u == [status |-> "failed"]
         sql == Knex!update(db, "transactions", {ids[i] : i \in DOMAIN ids}, u, 5)
         idb == Idb!updateIdb(db, "transactions", ids, u, 5)
     IN (idb.db = sql.db) = (ids # <<9, 1>>) /\ idb.throws = (sql.rows < Len(ids))

(* Links are updated by what they relate, and only the one that was meant. *)
ASSUME LinksAreUpdated ==
  \A db \in Databases : \A i \in {1, 2, 3} :
     LET m == db.output_tags_map[i]
         r == Idb!updateIdbKey(db, "output_tags_map",
                [outputTagId |-> m.outputTagId, outputId |-> m.outputId], [isDeleted |-> 1], 5)
     IN /\ ~r.throws /\ r.db.output_tags_map[i].isDeleted = 1
        /\ \A j \in {1, 2, 3} \ {i} : r.db.output_tags_map[j] = db.output_tags_map[j]

(* findOrInsert gives everybody the same row, whoever was first: there is  *)
(* one row of the name afterwards, it is the one returned, it is not       *)
(* deleted, and only who inserted it is told it is new.                    *)
ASSUME EverybodyFindsOne ==
  \A db \in Databases : \A user \in {1, 2}, tag \in {"red", "green"}, first \in BOOLEAN :
     LET row(at) == [userId |-> user, tag |-> tag, isDeleted |-> 0, updated_at |-> at]
         r == Knex!findOrInsert(db, "output_tags", [userId |-> user, tag |-> tag], row(6),
                                IF first THEN {row(5)} ELSE {}, 7)
         now == Knex!Natural(r.db, "output_tags", [userId |-> user, tag |-> tag])
     IN /\ Len(now) = 1 /\ now[1].outputTagId = r.row.outputTagId /\ now[1].isDeleted = 0
        /\ r.isNew = (tag = "green" /\ ~first) \/ (tag = "red" /\ user = 2)

(* adminStats: the transactions of all statuses are all there are, what is *)
(* new of a day is new of its week and month, and what users can spend is  *)
(* in a basket, as change or not.                                          *)
ASSUME StatisticsAddUp ==
  \A db \in Databases : \A now \in {2, 5, 40} :
     LET r == Knex!adminStats(db, now)
         Periods == <<"Day", "Week", "Month", "Total">>
     IN /\ \A i \in 1..3 :
             /\ \A n \in DOMAIN r.rows : r.rows[n][Periods[i]] <= r.rows[n][Periods[i + 1]]
             /\ \A x \in DOMAIN r.tx : r.tx[x][Periods[i]] <= r.tx[x][Periods[i + 1]]
        /\ \A i \in 1..4 : r.rows.transactions[Periods[i]]
             = Knex!MapThenSumSet(LAMBDA x : r.tx[x][Periods[i]], Knex!StatusCounts)
        /\ r.satoshisDefault.Total + r.satoshisOther.Total
             = Knex!Amount({o \in RowsOf(db.outputs) : o.spendable = 1})

(* The row with another name.                                              *)
Renamed(table, r) ==
  [c \in DOMAIN r |->
     IF c \in {"identityKey", "reference", "txid", "refNum", "tag", "label", "name", "type"}
     THEN "new"
     ELSE IF c = "vout" \/ (table = "commissions" /\ c = "transactionId") THEN 9 ELSE r[c]]

(* A new row has an id nobody had, and is found by it; a second one of the *)
(* same unique columns is refused by both.                                 *)
ASSUME InsertedRowsAreFound ==
  \A db \in Databases : \A table \in DOMAIN Knex!Key : \A r \in RowsOf(db[table]) :
     LET other == Renamed(table, r)
         x == Knex!insert(db, table, other)
         id == Knex!Key[table] :> x.id
     IN /\ Knex!Unique[table] # {} => Knex!insert(db, table, r).throws
        /\ ~x.throws /\ x = Idb!insertIdb(db, table, other)
        /\ Knex!find(db, table, Ask(id, <<>>, 0, {}, FALSE)) = <<>>
        /\ Knex!find(x.db, table, Ask(id, <<>>, 0, {}, FALSE)) = <<id @@ other>>
        /\ Knex!find(x.db, table, Ask(id, <<>>, 0, {}, FALSE))
             = Idb!findIdb(x.db, table, Ask(id, <<>>, 0, {}, FALSE))
=============================================================================

---------------------------- MODULE KnexQueries ----------------------------
(***************************************************************************)
(* How StorageKnex finds, counts, inserts and updates rows                 *)
(* (src/src/storage/StorageKnex.ts), and how StorageReaderWriter.ts finds  *)
(* a row or inserts it.  Rows come in the order of their keys, as SQLite   *)
(* scans a table.                                                          *)
(***************************************************************************)
EXTENDS StorageRows, FiniteSetsExt

Where(r, args) ==
  /\ \A c \in DOMAIN args.partial : r[c] = args.partial[c]
  /\ r.updated_at >= args.since

(* What the lists of a query are compared with.                            *)
Listable(db, table, r) ==
  CASE table = "certificates" -> [certifiers |-> r.certifier, types |-> r.type]
    [] table = "outputs" -> [txStatus |-> Owner(db, r).status]
    [] table = "transactions" -> [status |-> r.status]
    [] table = "proven_tx_reqs" -> [status |-> r.status, txids |-> r.txid]
    [] table = "output_tags_map" -> [tagIds |-> r.outputTagId]
    [] table = "tx_labels_map" -> [labelIds |-> r.txLabelId]
    [] OTHER -> <<>>

(* The rows of a find query before they are ordered and paged: an empty    *)
(* list asks for nothing.                                                  *)
Selected(db, table, args) ==
  SelectSeq(db[table], LAMBDA r :
    /\ Where(r, args)
    /\ \A l \in DOMAIN Listable(db, table, r) \cap DOMAIN args.lists :
          args.lists[l] = {} \/ Listable(db, table, r)[l] \in args.lists[l])

(* The maps have no column to sort by.                                     *)
setupQuery(rows, table, args) ==
  LET ordered == IF args.descending /\ table \in DOMAIN Key THEN Reverse(rows) ELSE rows
  IN IF args.paged = {} THEN ordered
     ELSE LET p == CHOOSE p \in args.paged : TRUE IN Rows(ordered, p.offset, p.limit)

find(db, table, args) == setupQuery(Selected(db, table, args), table, args)

(* The count is the one row of its query, which limit and offset page too: *)
(* without that row getCount throws, for {} here.                          *)
count(db, table, args) ==
  {Len(Selected(db, table, args)) : x \in
     ToSet(setupQuery(<<0>>, table, [args EXCEPT !.descending = FALSE]))}

(* findCertificatesAuth, findOutputBasketsAuth and findOutputsAuth; {} for *)
(* WERR_UNAUTHORIZED.                                                      *)
findAuth(db, table, userId, args) ==
  IF "userId" \in DOMAIN args.partial /\ args.partial.userId # userId THEN {}
  ELSE {find(db, table, [args EXCEPT !.partial = ("userId" :> userId) @@ @])}

(* The rows that a sync chunk of this user may hold.                       *)
OfUser(db, table, userId, r) ==
  CASE table = "proven_txs" -> \E t \in ToSet(db.transactions) :
         t.userId = userId /\ t.provenTxId = r.provenTxId
    [] table = "proven_tx_reqs" -> \E t \in ToSet(db.transactions) :
         t.userId = userId /\ t.txid = r.txid
    [] table = "tx_labels_map" -> \E l \in ToSet(db.tx_labels) :
         l.userId = userId /\ l.txLabelId = r.txLabelId
    [] table = "output_tags_map" -> \E g \in ToSet(db.output_tags) :
         g.userId = userId /\ g.outputTagId = r.outputTagId

getForUser(db, table, userId, args) ==
  setupQuery(SelectSeq(db[table], LAMBDA r : Where(r, args) /\ OfUser(db, table, userId, r)),
             table, args)

(* countChangeInputs, and whether a transaction being sent counts.         *)
countChangeInputs(db, userId, basketId, excludeSending) ==
  Cardinality({r \in ToSet(db.outputs) :
     /\ r.userId = userId /\ r.basketId = basketId /\ r.spendable = 1
     /\ Owner(db, r).status \in {"completed", "unproven"}
          \cup (IF excludeSending THEN {} ELSE {"sending"})})

(* Links and labels that were deleted do not show.                         *)
getLabelsForTransactionId(db, transactionId) ==
  {l \in ToSet(db.tx_labels) : l.isDeleted = 0 /\ \E m \in ToSet(db.tx_labels_map) :
     m.transactionId = transactionId /\ m.txLabelId = l.txLabelId /\ m.isDeleted = 0}

getTagsForOutputId(db, outputId) ==
  {g \in ToSet(db.output_tags) : g.isDeleted = 0 /\ \E m \in ToSet(db.output_tags_map) :
     m.outputId = outputId /\ m.outputTagId = g.outputTagId /\ m.isDeleted = 0}

----------------------------------------------------------------------------
(* Changes *)

insert(db, table, row) == Added(db, table, row)

Stamped(u, now) == u @@ ("updated_at" :> now)

(* An id that is not there is not updated, and nobody is told but by the   *)
(* number of rows.                                                         *)
update(db, table, ids, u, now) ==
  [rows |-> Cardinality(ids \cap Ids(db, table)),
   db |-> [db EXCEPT ![table] = [i \in DOMAIN @ |->
             IF @[i][Key[table]] \in ids THEN Stamped(u, now) @@ @[i] ELSE @[i]]]]

Natural(db, table, partial) ==
  SelectSeq(db[table], LAMBDA r : \A c \in DOMAIN partial : r[c] = partial[c])

(* A deleted row that is wanted again is deleted no more.                  *)
Revived(db, table, r, now) ==
  IF "isDeleted" \notin DOMAIN r THEN db
  ELSE IF r.isDeleted = 0 THEN db
  ELSE [db EXCEPT ![table] = [i \in DOMAIN @ |->
          IF @[i] = r THEN ("isDeleted" :> 0 @@ "updated_at" :> now) @@ r ELSE @[i]]]

(* findOrInsertUser, -Transaction, -OutputBasket, -TxLabel, -OutputTag, the *)
(* maps, -SyncStateAuth, -ProvenTxReq and -ProvenTx: who finds no row and  *)
(* fails to insert one, because another one was inserted meanwhile, looks  *)
(* once more.  "meanwhile" holds what others insert before our insertion.  *)
findOrInsert(db, table, partial, row, meanwhile, now) ==
  LET found == Natural(db, table, partial)
      later == FoldSet(LAMBDA r, d : Added(d, table, r).db, db, meanwhile)
      mine == insert(later, table, row)
      again == Natural(later, table, partial)[1]
  IN IF found # <<>>
     THEN [db |-> Revived(db, table, found[1], now), row |-> found[1], isNew |-> FALSE]
     ELSE IF ~mine.throws THEN [db |-> mine.db, row |-> Last(mine.db[table]), isNew |-> TRUE]
     ELSE [db |-> Revived(later, table, again, now), row |-> again, isNew |-> FALSE]

----------------------------------------------------------------------------
(* adminStats: what there is, and what of it is new, by day, week, month.  *)

Statistics ==
  [users |-> "users", transactions |-> "transactions", baskets |-> "output_baskets",
   labels |-> "tx_labels", tags |-> "output_tags"]

StatusCounts == {"completed", "failed", "unprocessed", "sending", "unproven", "unsigned",
                 "nosend", "nonfinal", "unfail"}

Amount(rows) == MapThenSumSet(LAMBDA r : r.satoshis, rows)

adminStats(db, now) ==
  LET after == [Day |-> now - 1, Week |-> now - 7, Month |-> now - 30, Total |-> -1]
      New(table, p) == {r \in ToSet(db[table]) : r.created_at > after[p]}
      Spendable(p, change) == {r \in New("outputs", p) : r.spendable = 1 /\ r.change = change}
  IN [rows |-> [n \in DOMAIN Statistics |-> [p \in DOMAIN after |->
                  Cardinality(New(Statistics[n], p))]],
      tx |-> [x \in StatusCounts |-> [p \in DOMAIN after |->
                  Cardinality({t \in New("transactions", p) : t.status = x})]],
      satoshisDefault |-> [p \in DOMAIN after |-> Amount(Spendable(p, 1))],
      satoshisOther |-> [p \in DOMAIN after |->
                  Amount({r \in Spendable(p, 0) : r.basketId # 0})]]
=============================================================================

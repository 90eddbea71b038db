----------------------------- MODULE IdbQueries -----------------------------
(***************************************************************************)
(* How StorageIdb finds, counts, inserts and updates rows                  *)
(* (src/src/storage/StorageIdb.ts).  Every filter method walks a cursor    *)
(* over an index and compares columns in code of its own, so each is a     *)
(* definition here, and what it forgets to compare is left out.  An index  *)
(* lists rows of one value in the order of their keys, so which index was  *)
(* chosen does not show.                                                   *)
(***************************************************************************)
EXTENDS StorageRows

(* The tail of every filter: offset rows are skipped, and 0 is no limit.   *)
(* No filter looks at orderDescending.                                     *)
Filtered(args, rows) ==
  LET kept == SelectSeq(rows, LAMBDA r : args.since <= r.updated_at)
      p == IF args.paged = {} THEN [offset |-> 0, limit |-> 0]
           ELSE CHOOSE x \in args.paged : TRUE
  IN Rows(kept, p.offset, IF p.limit = 0 THEN Len(kept) ELSE p.limit)

Matches(r, args) == \A c \in DOMAIN args.partial : r[c] = args.partial[c]

(* An empty list contains nothing.                                         *)
Listed(args, l, v) == l \in DOMAIN args.lists => v \in args.lists[l]

(* What a filter does not look at when it is asked for a false value.      *)
Without(args, c) ==
  IF c \in DOMAIN args.partial /\ args.partial[c] = 0
  THEN [args EXCEPT !.partial = [x \in DOMAIN @ \ {c} |-> @[x]]] ELSE args

filterCertificateFields(db, args) ==
  Filtered(args, SelectSeq(db.certificate_fields, LAMBDA r : Matches(r, args)))

filterCertificates(db, args) ==
  Filtered(args, SelectSeq(db.certificates, LAMBDA r :
    /\ Listed(args, "certifiers", r.certifier) /\ Listed(args, "types", r.type)
    /\ Matches(r, Without(args, "isDeleted"))))

filterCommissions(db, args) == Filtered(args, SelectSeq(db.commissions, LAMBDA r : Matches(r, args)))

filterMonitorEvents(db, args) == Filtered(args, SelectSeq(db.monitor_events, LAMBDA r : Matches(r, args)))

(* minimumDesiredUTXOValue is compared with a column that no row has.      *)
filterOutputBaskets(db, args) ==
  Filtered(args, SelectSeq(db.output_baskets, LAMBDA r :
    Matches(r, args) /\ "minimumDesiredUTXOValue" \notin DOMAIN args.partial))

filterOutputTags(db, args) == Filtered(args, SelectSeq(db.output_tags, LAMBDA r : Matches(r, args)))

filterSyncStates(db, args) == Filtered(args, SelectSeq(db.sync_states, LAMBDA r : Matches(r, args)))

filterTxLabels(db, args) == Filtered(args, SelectSeq(db.tx_labels, LAMBDA r : Matches(r, args)))

filterUsers(db, args) == Filtered(args, SelectSeq(db.users, LAMBDA r : Matches(r, args)))

(* Of the tags or labels asked for, all or any is linked to the row.       *)
Linked(wanted, links, all) ==
  wanted = {} \/ (IF all THEN wanted \subseteq links ELSE wanted \cap links # {})

filterTransactions(db, args, labelIds, all) ==
  Filtered(args, SelectSeq(db.transactions, LAMBDA r :
    /\ Listed(args, "status", r.status) /\ Matches(r, args)
    /\ Linked(labelIds, {m.txLabelId : m \in {x \in ToSet(db.tx_labels_map) :
                                          x.transactionId = r.transactionId}}, all)))

filterOutputs(db, args, tagIds, all) ==
  Filtered(args, SelectSeq(db.outputs, LAMBDA r :
    /\ Matches(r, args) /\ Listed(args, "txStatus", Owner(db, r).status)
    /\ Linked(tagIds, {m.outputTagId : m \in {x \in ToSet(db.output_tags_map) :
                                          x.outputId = r.outputId}}, all)))

----------------------------------------------------------------------------
(* These four may be asked for the rows of one user: {} or {userId}.       *)

Exists(rows, partial) == \E x \in ToSet(rows) : \A c \in DOMAIN partial : x[c] = partial[c]

(* The maps of all users are given: a map has no txid, and only rows that  *)
(* have one are looked up.                                                 *)
filterOutputTagMaps(db, args, users) ==
  Filtered(args, SelectSeq(db.output_tags_map, LAMBDA r :
    Listed(args, "tagIds", r.outputTagId) /\ Matches(r, args)))

(* args.status and args.txids are not looked at.                           *)
filterProvenTxReqs(db, args, users) ==
  Filtered(args, SelectSeq(db.proven_tx_reqs, LAMBDA r :
    /\ Matches(r, args)
    /\ \A u \in users : Exists(db.transactions, [userId |-> u, txid |-> r.txid])))

filterProvenTxs(db, args, users) ==
  Filtered(args, SelectSeq(db.proven_txs, LAMBDA r :
    /\ Matches(r, args)
    /\ \A u \in users : Exists(db.transactions, [userId |-> u, provenTxId |-> r.provenTxId])))

(* args.labelIds is not looked at.                                         *)
filterTxLabelMaps(db, args, users) ==
  Filtered(args, SelectSeq(db.tx_labels_map, LAMBDA r :
    /\ Matches(r, args)
    /\ \A u \in users : Exists(db.tx_labels, [userId |-> u, txLabelId |-> r.txLabelId])))

----------------------------------------------------------------------------
(* The methods of the interface *)

(* The find methods: what the filter of their table gives.                 *)
findIdb(db, table, args) ==
  CASE table = "users" -> filterUsers(db, args)
    [] table = "certificates" -> filterCertificates(db, args)
    [] table = "certificate_fields" -> filterCertificateFields(db, args)
    [] table = "output_baskets" -> filterOutputBaskets(db, args)
    [] table = "transactions" -> filterTransactions(db, args, {}, FALSE)
    [] table = "commissions" -> filterCommissions(db, args)
    [] table = "outputs" -> filterOutputs(db, args, {}, FALSE)
    [] table = "output_tags" -> filterOutputTags(db, args)
    [] table = "output_tags_map" -> filterOutputTagMaps(db, args, {})
    [] table = "tx_labels" -> filterTxLabels(db, args)
    [] table = "tx_labels_map" -> filterTxLabelMaps(db, args, {})
    [] table = "proven_txs" -> filterProvenTxs(db, args, {})
    [] table = "proven_tx_reqs" -> filterProvenTxReqs(db, args, {})
    [] table = "monitor_events" -> filterMonitorEvents(db, args)
    [] table = "sync_states" -> filterSyncStates(db, args)

(* The count methods count what is found, so a page counts at most itself. *)
countIdb(db, table, args) == Len(findIdb(db, table, args))

getForUserIdb(db, table, userId, args) ==
  CASE table = "proven_txs" -> filterProvenTxs(db, args, {userId})
    [] table = "proven_tx_reqs" -> filterProvenTxReqs(db, args, {userId})
    [] table = "tx_labels_map" -> filterTxLabelMaps(db, args, {userId})
    [] table = "output_tags_map" -> filterOutputTagMaps(db, args, {userId})

(* Of the change of a basket, what was spent is counted too.               *)
countChangeInputsIdb(db, userId, basketId, excludeSending) ==
  Len(filterOutputs(db, [partial |-> [userId |-> userId, basketId |-> basketId],
                         lists |-> [txStatus |-> {"completed", "unproven"} \cup
                                      (IF excludeSending THEN {} ELSE {"sending"})],
                         since |-> 0, paged |-> {}, descending |-> FALSE], {}, FALSE))

(* The labels or tags of the links that live: {} is WERR_BAD_REQUEST, when *)
(* one of them was deleted itself.                                         *)
LinkedRows(ids, rows, c) ==
  LET live == {r \in ToSet(rows) : r.isDeleted = 0 /\ r[c] \in ids} IN
  IF {r[c] : r \in live} = ids THEN {live} ELSE {}

getLabelsForTransactionIdIdb(db, transactionId) ==
  LinkedRows({m.txLabelId : m \in {x \in ToSet(db.tx_labels_map) :
                 x.transactionId = transactionId /\ x.isDeleted = 0}}, db.tx_labels, "txLabelId")

getTagsForOutputIdIdb(db, outputId) ==
  LinkedRows({m.outputTagId : m \in {x \in ToSet(db.output_tags_map) :
                 x.outputId = outputId /\ x.isDeleted = 0}}, db.output_tags, "outputTagId")

insertIdb(db, table, row) == Added(db, table, row)

(* One row after the other: who is not there makes it throw, and what was  *)
(* put before stays.  The answer is 1 however many there were.             *)
updateIdb(db, table, ids, u, now) ==
  LET known == Ids(db, table)
      before == {i \in 1..Len(ids) : \A j \in 1..i : ids[j] \in known}
  IN [throws |-> ToSet(ids) \ known # {}, rows |-> 1,
      db |-> [db EXCEPT ![table] = [i \in DOMAIN @ |->
                IF \E j \in before : ids[j] = @[i][Key[table]]
                THEN u @@ ("updated_at" :> now) @@ @[i] ELSE @[i]]]]

(* The maps, by what they relate.                                          *)
updateIdbKey(db, table, key, u, now) ==
  LET its(r) == \A c \in DOMAIN key : r[c] = key[c] IN
  [throws |-> \A r \in ToSet(db[table]) : ~its(r),
   db |-> [db EXCEPT ![table] = [i \in DOMAIN @ |->
             IF its(@[i]) THEN u @@ ("updated_at" :> now) @@ @[i] ELSE @[i]]]]

(* allocateChangeInput: the exact amount, the least that is enough, or the *)
(* most; of equal amounts the first, and for the most the last.            *)
allocateChangeInputIdb(db, userId, basketId, target, exact, excludeSending) ==
  LET free == ToSet(filterOutputs(db,
                [partial |-> [userId |-> userId, basketId |-> basketId, spendable |-> 1],
                 lists |-> [txStatus |-> {"completed", "unproven"} \cup
                              (IF excludeSending THEN {} ELSE {"sending"})],
                 since |-> 0, paged |-> {}, descending |-> FALSE], {}, FALSE))
      equal == {o \in free : o.satoshis \in exact \ {0}}
      over == {o \in free : o.satoshis >= target}
      first(some) == {o \in some : \A x \in some : o.outputId <= x.outputId}
      least(some) == {o \in some : \A x \in some : o.satoshis <= x.satoshis}
      most(some) == {o \in some : \A x \in some \ {o} :
                       x.satoshis < o.satoshis \/ (x.satoshis = o.satoshis /\ x.outputId < o.outputId)}
  IN IF equal # {} THEN first(equal) ELSE IF over # {} THEN first(least(over)) ELSE most(free)
=============================================================================

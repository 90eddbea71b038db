---------------------------- MODULE StorageRows ----------------------------
(***************************************************************************)
(* The tables of a wallet storage as the two implementations of its        *)
(* interface keep them: StorageKnex in an SQL database and StorageIdb in   *)
(* the browser's IndexedDB (src/src/storage/).  A database is a record of  *)
(* tables, a table the sequence of its rows by key, a row a function of    *)
(* columns.  Booleans are 0 and 1, as SQLite keeps them, and 0 is no id.   *)
(*                                                                         *)
(* A query is a record of                                                  *)
(*   partial     columns and the values they must have,                    *)
(*   since       the least updated_at, 0 for all rows,                     *)
(*   lists       for some named columns a set of values: args.status etc., *)
(*   descending  orderDescending, and                                      *)
(*   paged       {} or one [limit, offset].                                *)
(***************************************************************************)
EXTENDS Integers, Sequences, FiniteSets, SequencesExt, TLC

(* The tables with a key of their own: the other three are maps, whose     *)
(* rows are known by what they relate.                                     *)
Key ==
  [users |-> "userId", certificates |-> "certificateId", output_baskets |-> "basketId",
   transactions |-> "transactionId", commissions |-> "commissionId", outputs |-> "outputId",
   output_tags |-> "outputTagId", tx_labels |-> "txLabelId", proven_txs |-> "provenTxId",
   proven_tx_reqs |-> "provenTxReqId", monitor_events |-> "id", sync_states |-> "syncStateId"]

Maps == {"certificate_fields", "output_tags_map", "tx_labels_map"}
Tables == DOMAIN Key \cup Maps

(* Columns that no two rows of a table have all in common.                 *)
Unique ==
  [users |-> {{"identityKey"}}, output_baskets |-> {{"name", "userId"}},
   certificates |-> {{"userId", "type", "certifier", "serialNumber"}},
   certificate_fields |-> {{"fieldName", "certificateId"}},
   transactions |-> {{"reference"}}, commissions |-> {{"transactionId"}},
   outputs |-> {{"transactionId", "vout", "userId"}}, output_tags |-> {{"tag", "userId"}},
   output_tags_map |-> {{"outputTagId", "outputId"}}, tx_labels |-> {{"label", "userId"}},
   tx_labels_map |-> {{"txLabelId", "transactionId"}}, proven_txs |-> {{"txid"}},
   proven_tx_reqs |-> {{"txid"}}, monitor_events |-> {}, sync_states |-> {{"refNum"}}]

Conflicts(db, table, row) ==
  \E old \in ToSet(db[table]) : \E u \in Unique[table] : \A c \in u : old[c] = row[c]

Ids(db, table) == {r[Key[table]] : r \in ToSet(db[table])}
NextId(db, table) == Max({0} \cup Ids(db, table)) + 1

(* A row with no id yet is given the next one.                             *)
Added(db, table, row) ==
  LET id == IF table \in Maps THEN 0 ELSE NextId(db, table)
      new == IF table \in Maps THEN row ELSE (Key[table] :> id) @@ row
  IN IF Conflicts(db, table, row) THEN [db |-> db, id |-> 0, throws |-> TRUE]
     ELSE [db |-> [db EXCEPT ![table] = Append(@, new)], id |-> id, throws |-> FALSE]

Owner(db, r) ==
  SelectSeq(db.transactions, LAMBDA t : t.transactionId = r.transactionId)[1]

(* n rows after the first offset.                                          *)
Rows(s, offset, n) ==
  SubSeq(s, offset + 1, IF offset + n > Len(s) THEN Len(s) ELSE offset + n)

Column(rows, c) == [i \in DOMAIN rows |-> rows[i][c]]
=============================================================================

-------------------------- MODULE StorageListings --------------------------
(***************************************************************************)
(* listOutputs, listActions and listCertificates as each storage answers   *)
(* them: src/src/storage/methods/listOutputsKnex.ts, listOutputsIdb.ts,    *)
(* listActionsKnex.ts, listActionsIdb.ts, listCertificates.ts, with the    *)
(* special operations of ListOutputsSpecOp.ts and ListActionsSpecOp.ts.    *)
(* A request v of listOutputs is a record [basket, tags, all, limit,       *)
(* offset], one of listActions [labels, all, limit, offset]; "all" is the  *)
(* query mode, and names are listed as the caller gave them.  Module       *)
(* ListSpecOps has the updates of the special operations step by step;     *)
(* here they are made at once.                                             *)
(***************************************************************************)
EXTENDS KnexQueries, IdbQueries

(* A basket of one of these names is an operation.                         *)
OutputOps == {"walletBalance", "invalidChange", "setWalletChangeParams"}
ActionOps == {"noSendActions", "failedActions"}

(* walletBalance and invalidChange look at 'default', the third at none.   *)
Basket(v) ==
  IF v.basket \notin OutputOps THEN v.basket
  ELSE IF v.basket = "setWalletChangeParams" THEN "" ELSE "default"

(* The tags an operation takes for itself.                                 *)
Intercepted(v) == IF v.basket = "invalidChange" THEN {"release", "all"} ELSE {}
IsTag(v, x) == x \notin Intercepted(v)
QueryTags(v) == SelectSeq(v.tags, LAMBDA x : IsTag(v, x))
Has(v, x) == \E i \in DOMAIN v.tags : v.tags[i] = x /\ x \in Intercepted(v)

NoPages(v) == v.basket \in {"walletBalance", "invalidChange"}

TagIds(db, userId, v) ==
  {g.outputTagId : g \in {x \in ToSet(db.output_tags) :
      x.userId = userId /\ x.isDeleted = 0 /\ x.tag \in ToSet(QueryTags(v))}}

(* Not all of the names, or none of them, exist.  A name given twice is    *)
(* counted twice.                                                          *)
Unsatisfiable(names, ids, all) ==
  names # <<>> /\ (IF all THEN Cardinality(ids) < Len(names) ELSE ids = {})

Baskets(db, userId, v) ==
  SelectSeq(db.output_baskets, LAMBDA b : b.userId = userId /\ b.name = Basket(v))

(* {} is any basket.                                                       *)
BasketIds(db, userId, v) ==
  IF Basket(v) = "" \/ Has(v, "all") THEN {} ELSE {Baskets(db, userId, v)[1].basketId}

Nothing(db) == [total |-> 0, rows |-> <<>>, db |-> db, throws |-> FALSE]

(* setWalletChangeParams: two numbers for the basket of change; they are   *)
(* tags.                                                                   *)
setWalletChangeParams(db, userId, v) ==
  IF Len(v.tags) < 2 THEN [Nothing(db) EXCEPT !.throws = TRUE]
  ELSE [Nothing(db) EXCEPT !.db.output_baskets = [i \in DOMAIN @ |->
          IF @[i].userId = userId /\ @[i].name = "default"
          THEN [@[i] EXCEPT !.numberOfDesiredUTXOs = v.tags[1],
                            !.minimumDesiredUTXOValue = v.tags[2]]
          ELSE @[i]]]

(* What is left of the listed outputs is what the network does not know    *)
(* as unspent; with 'release' these can be spent no more.                  *)
invalidChange(r, v, unspent) ==
  LET invalid == SelectSeq(r.rows, LAMBDA o : o.basketId # 0 /\ o.outputId \notin unspent)
      Release(o) == IF \E i \in DOMAIN invalid : invalid[i].outputId = o.outputId
                    THEN [o EXCEPT !.spendable = 0] ELSE o
  IN IF ~Has(v, "release") THEN [r EXCEPT !.rows = invalid]
     ELSE [r EXCEPT !.rows = [i \in DOMAIN invalid |-> Release(invalid[i])],
                    !.db.outputs = [i \in DOMAIN @ |-> Release(@[i])]]

walletBalance(db, rows) ==
  [Nothing(db) EXCEPT !.total = FoldSeq(LAMBDA o, n : n + o.satoshis, 0, rows)]

(* What both do before their query.                                        *)
Refused(db, userId, v) ==
  (Basket(v) # "" /\ Len(Baskets(db, userId, v)) # 1)
    \/ Unsatisfiable(QueryTags(v), TagIds(db, userId, v), v.all)

----------------------------------------------------------------------------
(* listOutputs *)

(* Links count although they are deleted.                                  *)
TagCount(db, o, ids) ==
  Cardinality({m \in ToSet(db.output_tags_map) : m.outputId = o.outputId /\ m.outputTagId \in ids})

OutputsQuery(db, userId, v) ==
  LET ids == TagIds(db, userId, v) IN
  SelectSeq(db.outputs, LAMBDA o :
    /\ o.userId = userId /\ o.spendable = 1
    /\ BasketIds(db, userId, v) \subseteq {o.basketId}
    /\ Owner(db, o).status \in {"completed", "unproven", "nosend", "sending"}
    /\ ids = {} \/ (IF v.all THEN TagCount(db, o, ids) = Cardinality(ids)
                    ELSE TagCount(db, o, ids) > 0))

(* A negative offset counts from the newest.                               *)
OutputsPage(v, rows) ==
  LET ordered == IF v.offset < 0 THEN Reverse(rows) ELSE rows
      offset == IF v.offset < 0 THEN -v.offset - 1 ELSE v.offset
  IN IF NoPages(v) THEN ordered ELSE Rows(ordered, offset, v.limit)

listOutputsKnex(db, userId, v, unspent) ==
  LET query == OutputsQuery(db, userId, v)
      page == [Nothing(db) EXCEPT !.rows = OutputsPage(v, query)]
      r == IF v.basket = "invalidChange" THEN invalidChange(page, v, unspent) ELSE page
  IN IF v.basket = "setWalletChangeParams" THEN setWalletChangeParams(db, userId, v)
     ELSE IF Refused(db, userId, v) THEN Nothing(db)
     ELSE IF v.basket = "walletBalance" THEN walletBalance(db, r.rows)
     ELSE [r EXCEPT !.total =
             IF v.limit = 0 \/ Len(r.rows) < v.limit THEN Len(r.rows)
             ELSE Len(OutputsQuery(r.db, userId, v))]

(* IndexedDB: no negative offset, and no outputs being sent.               *)
listOutputsIdb(db, userId, v, unspent) ==
  LET q == [partial |-> [userId |-> userId, spendable |-> 1] @@
                          [c \in {x \in {"basketId"} : BasketIds(db, userId, v) # {}} |->
                              CHOOSE b \in BasketIds(db, userId, v) : TRUE],
            lists |-> [txStatus |-> {"completed", "unproven", "nosend"}], since |-> 0,
            descending |-> FALSE,
            paged |-> IF NoPages(v) THEN {} ELSE {[limit |-> v.limit, offset |-> v.offset]}]
      query(a) == filterOutputs(db, a, TagIds(db, userId, v), v.all)
      rows == query(q)
      total == IF Len(rows) = v.limit THEN Len(query([q EXCEPT !.paged = {}])) ELSE Len(rows)
      page == [Nothing(db) EXCEPT !.rows = rows, !.total = total]
  IN IF v.offset < 0 THEN [Nothing(db) EXCEPT !.throws = TRUE]
     ELSE IF v.basket = "setWalletChangeParams" THEN setWalletChangeParams(db, userId, v)
     ELSE IF Refused(db, userId, v) THEN Nothing(db)
     ELSE IF v.basket = "walletBalance" THEN walletBalance(db, rows)
     ELSE IF v.basket = "invalidChange" THEN invalidChange(page, v, unspent)
     ELSE page

----------------------------------------------------------------------------
(* listActions *)

(* The last operation among the labels is the one.                         *)
ActionOp(v) ==
  LET ops == SelectSeq(v.labels, LAMBDA x : x \in ActionOps) IN
  IF ops = <<>> THEN "none" ELSE Last(ops)

Verb(v) == CASE ActionOp(v) = "noSendActions" -> {"abort"}
             [] ActionOp(v) = "failedActions" -> {"unfail"}
             [] OTHER -> {}

QueryLabels(v) == SelectSeq(v.labels, LAMBDA x : x \notin ActionOps \cup Verb(v))
Demanded(v) == \E i \in DOMAIN v.labels : v.labels[i] \in Verb(v)

LabelIds(db, userId, v) ==
  {l.txLabelId : l \in {x \in ToSet(db.tx_labels) :
      x.userId = userId /\ x.isDeleted = 0 /\ x.label \in ToSet(QueryLabels(v))}}

Statuses(v) ==
  CASE ActionOp(v) = "noSendActions" -> {"nosend"}
    [] ActionOp(v) = "failedActions" -> {"failed"}
    [] OTHER -> {"completed", "unprocessed", "sending", "unproven", "unsigned", "nosend",
                 "nonfinal"}

ActionsQuery(db, userId, v) ==
  LET ids == LabelIds(db, userId, v)
      links(t) == Cardinality({m \in ToSet(db.tx_labels_map) :
                     m.transactionId = t.transactionId /\ m.txLabelId \in ids})
  IN SelectSeq(db.transactions, LAMBDA t :
       /\ t.userId = userId /\ t.status \in Statuses(v)
       /\ ids = {} \/ (IF v.all THEN links(t) = Cardinality(ids) ELSE links(t) > 0))

(* postProcess: the actions of the page are aborted, and shown as failed,  *)
(* or given to TaskUnFail, and shown as they were.                         *)
postProcess(db, v, page) ==
  LET on(t) == Demanded(v) /\ \E i \in DOMAIN page : page[i].transactionId = t.transactionId
      abort == Verb(v) = {"abort"}
  IN [db |-> [db EXCEPT !.transactions = [i \in DOMAIN @ |->
                IF on(@[i]) THEN [@[i] EXCEPT !.status = IF abort THEN "failed" ELSE "unfail"]
                ELSE @[i]]],
      rows |-> [i \in DOMAIN page |->
                IF Demanded(v) /\ abort THEN [page[i] EXCEPT !.status = "failed"] ELSE page[i]]]

(* The total is counted after the page was processed.                      *)
listActionsKnex(db, userId, v) ==
  LET page == Rows(ActionsQuery(db, userId, v), v.offset, v.limit)
      r == postProcess(db, v, page)
  IN IF Unsatisfiable(QueryLabels(v), LabelIds(db, userId, v), v.all) THEN Nothing(db)
     ELSE [rows |-> r.rows, db |-> r.db, throws |-> FALSE,
           total |-> IF v.limit = 0 \/ Len(page) < v.limit THEN Len(page)
                     ELSE Len(ActionsQuery(r.db, userId, v))]

(* The total is counted before.                                            *)
listActionsIdb(db, userId, v) ==
  LET q == [partial |-> [userId |-> userId], lists |-> [status |-> Statuses(v)], since |-> 0,
            descending |-> FALSE, paged |-> {[limit |-> v.limit, offset |-> v.offset]}]
      query(a) == filterTransactions(db, a, LabelIds(db, userId, v), v.all)
      page == query(q)
      r == postProcess(db, v, page)
  IN IF Unsatisfiable(QueryLabels(v), LabelIds(db, userId, v), v.all) THEN Nothing(db)
     ELSE [rows |-> r.rows, db |-> r.db, throws |-> FALSE,
           total |-> IF Len(page) = v.limit THEN Len(query([q EXCEPT !.paged = {}]))
                     ELSE Len(page)]

----------------------------------------------------------------------------
(* listCertificates: those of the user that were not relinquished.         *)

CertificatesQuery(userId, v) ==
  [partial |-> [userId |-> userId, isDeleted |-> 0], since |-> 0, descending |-> FALSE,
   lists |-> [certifiers |-> v.certifiers, types |-> v.types],
   paged |-> {[limit |-> v.limit, offset |-> v.offset]}]

(* The total of a full page is what the count of the same page is; {}      *)
(* where it throws.                                                        *)
listCertificates(db, userId, v) ==
  LET q == CertificatesQuery(userId, v)
      page == find(db, "certificates", q)
      totals == IF Len(page) < v.limit THEN {Len(page)} ELSE count(db, "certificates", q)
  IN {[total |-> n, rows |-> page] : n \in totals}

listCertificatesIdb(db, userId, v) ==
  LET page == filterCertificates(db, CertificatesQuery(userId, v)) IN
  [total |-> Len(page), rows |-> page]
=============================================================================

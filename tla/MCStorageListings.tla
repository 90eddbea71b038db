------------------------- MODULE MCStorageListings -------------------------
(***************************************************************************)
(* The instance of the wallet storage for the run of the action life       *)
(* cycle, with what TLC evaluates of the listings of module                *)
(* StorageListings: every request of a small universe on databases of two  *)
(* users, with transactions of every status that decides what is listed.   *)
(***************************************************************************)
EXTENDS MCWalletStorage, Integers

Lists == INSTANCE StorageListings

Transaction(id, user, status) ==
  [transactionId |-> id, userId |-> user, status |-> status, updated_at |-> 1]
Output(id, user, transaction, basket, unspent, satoshis) ==
  [outputId |-> id, userId |-> user, transactionId |-> transaction, basketId |-> basket,
   spendable |-> unspent, satoshis |-> satoshis, updated_at |-> 1]
Named(c, id, name, value, user) ==
  c :> id @@ name :> value @@ [userId |-> user, isDeleted |-> 0, updated_at |-> 1]
Link(c1, id1, c2, id2, deleted) ==
  c1 :> id1 @@ c2 :> id2 @@ [isDeleted |-> deleted, updated_at |-> 1]

(* The first user's first action has any status, its output was spent or   *)
(* not, a link, a tag and a certificate of his were deleted or not.        *)
Database(status, unspent, deleted) ==
  [output_baskets |->
     <<Named("basketId", 1, "name", "default", 1) @@
         [numberOfDesiredUTXOs |-> 1, minimumDesiredUTXOValue |-> 1],
       Named("basketId", 2, "name", "default", 2) @@
         [numberOfDesiredUTXOs |-> 1, minimumDesiredUTXOValue |-> 1],
       Named("basketId", 3, "name", "coins", 1) @@
         [numberOfDesiredUTXOs |-> 1, minimumDesiredUTXOValue |-> 1]>>,
   transactions |-> <<Transaction(1, 1, status), Transaction(2, 1, "completed"),
                      Transaction(3, 2, "completed"), Transaction(4, 1, "nosend"),
                      Transaction(5, 2, "nosend")>>,
   outputs |-> <<Output(1, 1, 1, 1, unspent, 1), Output(2, 1, 2, 1, 1, 2), Output(3, 1, 2, 3, 1, 4),
                 Output(4, 2, 3, 2, 1, 8), Output(5, 1, 4, 1, 1, 16), Output(6, 1, 2, 0, 1, 32)>>,
   output_tags |-> <<Named("outputTagId", 1, "tag", "red", 1),
                     [Named("outputTagId", 2, "tag", "blue", 1) EXCEPT !.isDeleted = deleted],
                     Named("outputTagId", 3, "tag", "red", 2)>>,
   output_tags_map |-> <<Link("outputTagId", 1, "outputId", 1, 0),
                         Link("outputTagId", 2, "outputId", 1, deleted),
                         Link("outputTagId", 2, "outputId", 2, 0),
                         Link("outputTagId", 3, "outputId", 4, 0)>>,
   tx_labels |-> <<Named("txLabelId", 1, "label", "in", 1), Named("txLabelId", 2, "label", "out", 1),
                   Named("txLabelId", 3, "label", "in", 2)>>,
   tx_labels_map |-> <<Link("txLabelId", 1, "transactionId", 1, 0),
                       Link("txLabelId", 2, "transactionId", 1, deleted),
                       Link("txLabelId", 1, "transactionId", 4, 0),
                       Link("txLabelId", 3, "transactionId", 3, 0)>>,
   certificates |->
     <<[certificateId |-> 1, userId |-> 1, type |-> "id", certifier |-> "c", isDeleted |-> deleted,
        updated_at |-> 1],
       [certificateId |-> 2, userId |-> 1, type |-> "age", certifier |-> "c", isDeleted |-> 0,
        updated_at |-> 1],
       [certificateId |-> 3, userId |-> 2, type |-> "id", certifier |-> "c", isDeleted |-> 0,
        updated_at |-> 1]>>]

Databases ==
  {Database(x, y, z) : x \in {"sending", "completed", "failed", "nosend"}, y \in {0, 1},
                       z \in {0, 1}}

Users == {1, 2}
Whole == 10
Limits == {1, 2, Whole}

Ask(basket, tags, all, limit, offset) ==
  [basket |-> basket, tags |-> tags, all |-> all, limit |-> limit, offset |-> offset]
Tags == {<<>>, <<"red">>, <<"red", "blue">>, <<"green">>, <<"red", "green">>}
Baskets == {"", "default", "coins", "nowhere"}
Listings(limits, offsets) ==
  {Ask(b, g, a, l, o) : b \in Baskets, g \in Tags, a \in BOOLEAN, l \in limits, o \in offsets}
SpecialRequests == {Ask("walletBalance", <<>>, FALSE, l, 0) : l \in Limits}
  \cup {Ask("invalidChange", g, FALSE, l, 0) :
          g \in {<<>>, <<"release">>, <<"all">>, <<"release", "all">>}, l \in Limits}
  \cup {Ask("setWalletChangeParams", g, FALSE, 1, 0) : g \in {<<1>>, <<7, 9>>}}

(* Outputs the network may know as unspent.                                *)
Known == {{}, {2}, {1, 2, 3, 5, 6}}

Sql(db, user, v, unspent) == Lists!listOutputsKnex(db, user, v, unspent)
Idb(db, user, v, unspent) == Lists!listOutputsIdb(db, user, v, unspent)
RowsOf(r) == {r.rows[i] : i \in DOMAIN r.rows}

(* Pages of one length, one after the other, are the whole listing; a      *)
(* negative offset counts from the newest output, and lists backwards.     *)
ASSUME PagesAreOfOneListing ==
  \A db \in Databases, user \in Users : \A v \in Listings({Whole}, {0}) :
     LET whole == Sql(db, user, v, {}).rows
         page(limit, offset) ==
           Sql(db, user, [v EXCEPT !.limit = limit, !.offset = offset], {}).rows
     IN /\ page(2, 0) \o page(2, 2) \o page(2, 4) = whole
        /\ \A k \in 1..Len(whole) : page(1, -k) = <<whole[Len(whole) + 1 - k]>>
        /\ page(Whole, -1) = Lists!Reverse(whole)

(* The total is of all there are on the first page and on a full one; a    *)
(* later page that is not full has its own length for a total.             *)
ASSUME TotalsOfPages ==
  \A db \in Databases, user \in Users : \A v \in Listings(Limits, 0..3) :
     LET all == [v EXCEPT !.limit = Whole, !.offset = 0]
         Right(r, whole) ==
           r.total = IF v.offset = 0 \/ Len(r.rows) = v.limit THEN Len(whole.rows) ELSE Len(r.rows)
     IN Right(Sql(db, user, v, {}), Sql(db, user, all, {}))
          /\ Right(Idb(db, user, v, {}), Idb(db, user, all, {}))

(* The balance is what listing basket 'default' page after page adds up    *)
(* to, whatever limit the call has.                                        *)
ASSUME BalanceIsOfTheListing ==
  \A db \in Databases, user \in Users, limit \in Limits :
     LET inDefault == Sql(db, user, Ask("default", <<>>, FALSE, Whole, 0), {}) IN
     Sql(db, user, Ask("walletBalance", <<>>, FALSE, limit, 0), {}).total
       = Lists!Amount(RowsOf(inDefault))

(* A storage in IndexedDB lists what SQL would if no transaction were      *)
(* being sent, so a balance there has no change of those; and its offset   *)
(* is never negative.                                                      *)
ASSUME WhatIsSendingIsMissing ==
  \A db \in Databases, user \in Users, unspent \in Known :
     \A v \in Listings(Limits, {0, 1}) \cup SpecialRequests :
        LET still == [db EXCEPT !.transactions = [i \in DOMAIN @ |->
                        IF @[i].status = "sending" THEN [@[i] EXCEPT !.status = "failed"]
                        ELSE @[i]]]
            sql == Sql(still, user, v, unspent)
            idb == Idb(db, user, v, unspent)
        IN /\ idb.rows = sql.rows /\ idb.throws = sql.throws
           /\ idb.db.outputs = sql.db.outputs /\ idb.db.output_baskets = sql.db.output_baskets
           /\ v.basket = "invalidChange" \/ idb.total = sql.total
           /\ Idb(db, user, [v EXCEPT !.offset = -1], unspent).throws

(* Nobody is listed, or changes, what is another user's.                   *)
ASSUME EverybodyListsHisOwn ==
  \A db \in Databases, user \in Users, unspent \in Known :
     \A v \in Listings(Limits, {-1, 0}) \cup SpecialRequests :
        LET r == Sql(db, user, v, unspent)
            Others(rows) == {x \in RowsOf([rows |-> rows]) : x.userId # user}
        IN /\ \A x \in RowsOf(r) : x.userId = user /\ x.spendable \in
                 (IF v.basket = "invalidChange" THEN {0, 1} ELSE {1})
           /\ Others(r.db.outputs) = Others(db.outputs)
           /\ Others(r.db.output_baskets) = Others(db.output_baskets)

(* invalidChange releases exactly what it lists: what the network knows as *)
(* unspent stays, and a second call finds nothing more.                    *)
ASSUME ReleasedIsListed ==
  \A db \in Databases, user \in Users, unspent \in Known, all \in {<<>>, <<"all">>} :
     LET v == Ask("invalidChange", <<"release">> \o all, FALSE, 1, 0)
         look == Ask("invalidChange", all, FALSE, 1, 0)
         r == Sql(db, user, v, unspent)
         theirs == {x.outputId : x \in RowsOf(r)}
     IN /\ theirs = {x.outputId : x \in RowsOf(Sql(db, user, look, unspent))}
        /\ theirs \cap unspent = {} /\ Sql(r.db, user, look, unspent).rows = <<>>
        /\ Sql(db, user, look, unspent).db = db
        /\ \A i \in DOMAIN db.outputs :
              r.db.outputs[i] = IF db.outputs[i].outputId \in theirs
                                THEN [db.outputs[i] EXCEPT !.spendable = 0] ELSE db.outputs[i]

(* setWalletChangeParams needs two numbers, and sets those of the user's   *)
(* basket of change only.                                                  *)
ASSUME ParamsAreOfTheChange ==
  \A db \in Databases, user \in Users :
     LET set(v) == Sql(db, user, Ask("setWalletChangeParams", v, FALSE, 1, 0), {})
         r == set(<<7, 9>>)
     IN /\ set(<<7>>).throws /\ set(<<7>>).db = db
        /\ \A i \in DOMAIN db.output_baskets :
              (r.db.output_baskets[i] # db.output_baskets[i])
                = (db.output_baskets[i].userId = user /\ db.output_baskets[i].name = "default")

(* A name given twice cannot be had twice: with mode "all" nothing is      *)
(* listed, though outputs and actions of that name there are.              *)
ASSUME TwiceIsNotOnce ==
  \A db \in Databases :
     LET coins(g, a) == Sql(db, 1, Ask("", g, a, Whole, 0), {}).rows
         actions(g, a) == Lists!listActionsKnex(db, 1, [labels |-> g, all |-> a, limit |-> Whole,
                                                        offset |-> 0]).rows
     IN /\ coins(<<"red", "red">>, TRUE) = <<>> /\ actions(<<"in", "in">>, TRUE) = <<>>
        /\ coins(<<"red", "red">>, FALSE) = coins(<<"red">>, TRUE)
        /\ actions(<<"in", "in">>, FALSE) = actions(<<"in">>, TRUE) /\ actions(<<"in">>, TRUE) # <<>>

----------------------------------------------------------------------------
(* listActions *)

Labels == {<<>>, <<"in">>, <<"in", "out">>, <<"in", "else">>, <<"noSendActions">>,
           <<"noSendActions", "abort">>, <<"failedActions", "unfail">>,
           <<"in", "noSendActions", "abort">>, <<"abort">>, <<"failedActions", "noSendActions">>}
Actions == {[labels |-> g, all |-> a, limit |-> l, offset |-> o] :
              g \in Labels, a \in BOOLEAN, l \in {1, 2, Whole}, o \in {0, 1}}
Processed(v) == \E i \in DOMAIN v.labels : v.labels[i] \in {"abort", "unfail"}

(* Both list the same actions and do the same to them; where a full page   *)
(* was processed, SQL counts what is left of the actions, IndexedDB what   *)
(* there were.                                                             *)
ASSUME ActionsAgree ==
  \A db \in Databases, user \in Users : \A v \in Actions :
     LET sql == Lists!listActionsKnex(db, user, v)
         idb == Lists!listActionsIdb(db, user, v)
     IN /\ sql.rows = idb.rows /\ sql.db = idb.db
        /\ sql.total = idb.total - (IF Processed(v) /\ Len(sql.rows) = v.limit
                                    THEN Len(sql.rows) ELSE 0)

(* "abort" and "unfail" touch actions of the page alone, of the user, and  *)
(* of the one status; "abort" with no operation beside it is a label.      *)
ASSUME OnlyThePageIsProcessed ==
  \A db \in Databases, user \in Users : \A v \in Actions :
     LET r == Lists!listActionsKnex(db, user, v)
         page == {x.transactionId : x \in RowsOf(r)}
     IN \A i \in DOMAIN db.transactions :
          LET t == db.transactions[i] IN
          r.db.transactions[i] # t =>
            /\ Processed(v) /\ t.userId = user /\ t.transactionId \in page
            /\ <<t.status, r.db.transactions[i].status>>
                 \in {<<"nosend", "failed">>, <<"failed", "unfail">>}

(* Who aborts page after page misses actions, as those of the next page    *)
(* have moved to this one; who asks for the first page again until it is   *)
(* empty aborts them all.                                                  *)
ASSUME FirstPageAgain ==
  \A db \in Databases :
     LET v == [labels |-> <<"noSendActions", "abort">>, all |-> FALSE, limit |-> 1, offset |-> 0]
         after(d, o) == Lists!listActionsKnex(d, 1, [v EXCEPT !.offset = o]).db
         left(d) == {x \in RowsOf([rows |-> d.transactions]) : x.userId = 1 /\ x.status = "nosend"}
     IN /\ left(after(after(db, 0), 0)) = {}
        /\ (left(after(after(db, 0), 1)) = {}) = (db.transactions[1].status # "nosend")

----------------------------------------------------------------------------
(* listCertificates *)

(* SQL lists what was not relinquished, of all certifiers and types if     *)
(* none are given, but throws for a full page that is not the first.       *)
(* IndexedDB lists nothing if none are given, and what was relinquished    *)
(* otherwise.                                                              *)
ASSUME CertificatesListed ==
  \A db \in Databases, user \in Users, limit \in {1, 2}, offset \in {0, 1} :
     LET v(some) == [certifiers |-> some, types |-> {}, limit |-> limit, offset |-> offset]
         kept == Lists!SelectSeq(db.certificates, LAMBDA c : c.userId = user /\ c.isDeleted = 0)
         page == Lists!Rows(kept, offset, limit)
         sql(some) == Lists!listCertificates(db, user, v(some))
     IN /\ sql({}) = IF offset > 0 /\ Len(page) = limit THEN {}
                     ELSE {[rows |-> page,
                            total |-> IF Len(page) = limit THEN Len(kept) ELSE Len(page)]}
        /\ sql({"c"}) = sql({}) /\ \A r \in sql({"d"}) : r.rows = <<>>
        /\ Lists!listCertificatesIdb(db, user, v({})).rows = <<>>
        /\ LET both == [v({"c"}) EXCEPT !.types = {"id", "age"}] IN
           Lists!listCertificatesIdb(db, user, both).rows
             = Lists!Rows(Lists!SelectSeq(db.certificates, LAMBDA c : c.userId = user), offset, limit)
=============================================================================

------------------------------ MODULE BulkSync ------------------------------
(***************************************************************************)
(* How Chaintracks brings its headers up to date: the review of the main   *)
(* thread (Chaintracks.ts mainThreadShiftLiveHeaders), syncBulkStorage     *)
(* with its two bulk ingestors, the CDN and WhatsOnChain, and the live     *)
(* headers, from the end of the bulk files to the tip, with the migration  *)
(* of the older ones to bulk files (ChaintracksStorageBase.ts).  Live      *)
(* headers are one range here: LiveHeaders has the forks.                  *)
(***************************************************************************)
EXTENDS BulkFiles

CONSTANTS
  LiveHeightThreshold,   \* headers that stay live, not bulk
  ReorgHeightThreshold,  \* live headers that are not migrated when syncing
  MigrationChunkSize,    \* bulkMigrationChunkSize
  RecursionLimit,        \* addLiveRecursionLimit
  MaxRestarts            \* bound: the times the process dies

ASSUME BulkSyncAssumption ==
  /\ LiveHeightThreshold \in Nat \ {0} /\ ReorgHeightThreshold \in Nat
  /\ MigrationChunkSize \in Nat \ {0} /\ RecursionLimit \in Nat \ {0}
  /\ MaxRestarts \in Nat

VARIABLES
  live,       \* the range of the live_headers table
  present,    \* the height of the network's tip
  cdnTop,     \* how many headers the CDN has files for
  known,      \* how many headers the built-in files have
  available,  \* Chaintracks.available
  thread,     \* where the main thread is
  pruning,    \* pruneLiveBlockHeaders runs, nobody waits for it
  restarts

syncVars == <<live, present, cdnTop, known, available, thread, pruning, restarts>>
vars == <<fileVars, syncVars>>

world == <<present, cdnTop, known, restarts>>

(* before, missing, fetch and got are ranges: what there was before the    *)
(* ingestor, what bulk storage lacks, what is fetched, what is for live.   *)
Stopped == [pc |-> "down", ingestor |-> 1, goal |-> 0, before |-> [bulk |-> Empty, live |-> Empty],
            missing |-> Empty, fetch |-> Empty, got |-> Empty]

Init ==
  /\ bfds = <<>> /\ rows = {} /\ merging = <<>> /\ saving = <<>> /\ thrown = FALSE
  /\ faults = 0 /\ exposed = {}
  /\ live = Empty /\ present = 2 /\ cdnTop = 1 /\ known = 0
  /\ available = FALSE /\ thread = Stopped /\ pruning = FALSE /\ restarts = 0

At(pc) == thread.pc = pc
Go(pc) == thread' = [thread EXCEPT !.pc = pc]

----------------------------------------------------------------------------
(* The network, and the process.                                           *)

mine ==
  /\ present < MaxHeight /\ present' = present + 1
  /\ UNCHANGED <<fileVars, live, cdnTop, known, available, thread, pruning, restarts>>

(* The CDN has files for headers of some depth only.                       *)
publish ==
  /\ cdnTop < present /\ cdnTop' = cdnTop + 1
  /\ UNCHANGED <<fileVars, live, present, known, available, thread, pruning, restarts>>

(* The process dies; what starts next may be a later build.                *)
crash ==
  /\ ~At("down") /\ restarts < MaxRestarts /\ restarts' = restarts + 1
  /\ bfds' = <<>> /\ merging' = <<>> /\ saving' = <<>> /\ thrown' = FALSE
  /\ exposed' = exposed \cup Halved
  /\ available' = FALSE /\ thread' = Stopped /\ pruning' = FALSE
  /\ known' \in {known, cdnTop}
  /\ UNCHANGED <<rows, faults, live, present, cdnTop>>

start ==
  /\ At("down") /\ bfds = <<>>
  /\ bfds' = Known(known)
  /\ Go("storage")
  /\ UNCHANGED <<rows, merging, saving, thrown, faults, exposed, live, world, available, pruning>>

makeAvailable ==
  /\ At("storage")
  /\ UNCHANGED <<merging, thrown, live, world, available, pruning>>
  /\ \/ LoadRows /\ Go("review")
     \/ ReplaceRows /\ Go("store")
     \/ /\ setStorageFails /\ Go("failed")
        /\ UNCHANGED <<bfds, rows, saving, faults, exposed>>

(* The rows of the files known at build time are written.                  *)
store ==
  /\ At("store") /\ saving # <<>>
  /\ save
  /\ IF Tail(saving) = <<>> THEN Go("review") ELSE UNCHANGED thread
  /\ UNCHANGED <<live, world, available, pruning>>

(* A write, or the download of a file that is to be written, fails.        *)
storeFails ==
  /\ At("store") /\ saving # <<>>
  /\ Fault /\ saving' = <<>> /\ Go("failed")
  /\ UNCHANGED <<bfds, rows, merging, thrown, exposed, live, world, available, pruning>>

----------------------------------------------------------------------------
(* getAvailableHeightRanges throws unless the two ranges adjoin.           *)

Adjoin ==
  \/ IsEmpty(live)
  \/ IF bfds = <<>> THEN live.min = 0 ELSE getHeightRange.max + 1 = live.min

Available == [bulk |-> getHeightRange, live |-> live]

TargetBulk(goal) == Between(0, Higher(0, goal - LiveHeightThreshold))
Missing(goal, bulk) == Subtract(TargetBulk(goal), bulk)

(* The main loop goes on after an error once it has been available.        *)
Error == IF available THEN Go("review") ELSE Go("failed")

skipBulkSync ==
  ~IsEmpty(live) /\ live.max >= present - RecursionLimit \div 2

(* A review within the day of a sync that skips none is a check for new    *)
(* CDN files.                                                              *)
review ==
  /\ At("review")
  /\ IF ~Adjoin THEN Error
     ELSE \/ skipBulkSync /\ Go("shift")
          \/ /\ ~skipBulkSync \/ available
             /\ thread' = [Stopped EXCEPT !.pc = "synchronize", !.goal = present,
                                          !.before = Available]
  /\ UNCHANGED <<fileVars, live, world, available, pruning>>

(* syncBulkStorageNoLock: an ingestor that throws ends the startup; later  *)
(* the next one goes on, with what there was before.                       *)
IngestorFails ==
  IF ~available THEN Go("failed")
  ELSE thread' = [thread EXCEPT !.pc = "synchronize", !.ingestor = 3 - @]

----------------------------------------------------------------------------
(* migrateLiveToBulk.  addLiveHeadersToBulk passes the chain work from the *)
(* genesis header on for the work of the headers it adds, and the file is  *)
(* refused; only headers the files have already are dropped from live.     *)

MigrationFile(r) == Incremental(r, r.max + 1)

Oldest(n) == Between(live.min, Lower(live.max, live.min + n - 1))

MigrationThrows(n) ==
  /\ n <= MigrationChunkSize
  /\ \/ IsEmpty(Oldest(n))              \* headers.slice(-1)[0] of no headers
     \/ /\ ~IsEmpty(NewHeaders(Oldest(n)))
        /\ ~Follows(Oldest(n)) \/ ~Valid(MigrationFile(Oldest(n)))

(* Too many headers are not migrated, without a word.                      *)
AfterMigration(n) ==
  IF n > MigrationChunkSize THEN live ELSE Between(Oldest(n).max + 1, live.max)

prune ==
  /\ pruning /\ Settled
  /\ IF /\ ~IsEmpty(live)
        /\ Length(live) - LiveHeightThreshold >= MigrationChunkSize
        /\ ~MigrationThrows(MigrationChunkSize)
       THEN live' = AfterMigration(MigrationChunkSize) /\ UNCHANGED pruning
       ELSE pruning' = FALSE /\ UNCHANGED live
  /\ UNCHANGED <<fileVars, world, available, thread>>

----------------------------------------------------------------------------
(* BulkIngestorBase.synchronize, up to fetchHeaders.                       *)

Synchronized ==
  LET full == Union(thread.before.bulk, thread.before.live) IN
  full.max >= thread.goal

Lacking == Missing(thread.goal, thread.before.bulk)

MustMigrate == ~IsEmpty(Lacking) /\ ~IsEmpty(thread.before.live)

ToMigrate ==
  Lower(Length(Lacking), Higher(0, Length(thread.before.live) - ReorgHeightThreshold))

(* What to fetch, with nothing missing in bulk: all that is not stored,    *)
(* and the live headers a reorg may replace.                               *)
ToFetch(missing, before) ==
  IF ~IsEmpty(missing) THEN Between(missing.min, thread.goal)
  ELSE LET rest == Subtract(Between(0, thread.goal), before.bulk) IN
       IF Length(before.live) > ReorgHeightThreshold
         THEN Subtract(rest, Between(before.live.min, before.live.max - ReorgHeightThreshold))
         ELSE rest

Fetch(before) ==
  LET missing == Missing(thread.goal, before.bulk) IN
  thread' = [thread EXCEPT !.pc = "fetch", !.before = before, !.missing = missing,
                           !.fetch = ToFetch(missing, before)]

synchronizeDone ==
  /\ At("synchronize") /\ Synchronized
  /\ Go("settle")
  /\ UNCHANGED <<fileVars, live, world, available, pruning>>

synchronizeFetch ==
  /\ At("synchronize") /\ ~Synchronized /\ ~MustMigrate
  /\ Fetch(thread.before)
  /\ UNCHANGED <<fileVars, live, world, available, pruning>>

(* Live headers in the way of missing bulk headers: the oldest are         *)
(* migrated; all are deleted if that was not enough.                       *)
synchronizeMigrate ==
  /\ At("synchronize") /\ ~Synchronized /\ MustMigrate
  /\ IF MigrationThrows(ToMigrate) \/ ~Adjoin
       THEN IngestorFails /\ UNCHANGED live
       ELSE /\ live' = IF IsEmpty(Missing(thread.goal, getHeightRange))
                         THEN AfterMigration(ToMigrate) ELSE Empty
            /\ Fetch([bulk |-> getHeightRange, live |-> live'])
  /\ UNCHANGED <<fileVars, world, available, pruning>>

----------------------------------------------------------------------------
(* fetchHeaders *)

fetchFromCdn ==
  /\ At("fetch") /\ thread.ingestor = 1
  /\ \/ merging' = CdnFiles(cdnTop) /\ Go("merge") /\ UNCHANGED faults
     \/ Fault /\ IngestorFails /\ UNCHANGED merging
  /\ exposed' = exposed \cup (IF ~IsEmpty(live) /\ cdnTop > live.min THEN {"live"} ELSE {})
  /\ UNCHANGED <<bfds, rows, saving, thrown, live, world, available, pruning>>

(* addBulkHeaders: of the headers that are new or were already there for   *)
(* live storage, those in the missing range go to an incremental file.     *)
Ascending(headers, got) ==
  LET all == Union(headers, got)
      min == IF ~IsEmpty(thread.missing) THEN thread.missing.min
             ELSE NextHeight(bfds) IN
  Between(Higher(all.min, min), all.max)

AddBulkHeaders(headers) ==
  LET all  == Ascending(headers, thread.got)
      bulk == Intersect(all, thread.missing) IN
  IF IsEmpty(headers)
    THEN Go("merge") /\ UNCHANGED merging
  ELSE IF ~Adjoin \/ (~IsEmpty(bulk) /\ ~IsEmpty(NewHeaders(bulk)) /\ ~Follows(bulk))
    THEN IngestorFails /\ UNCHANGED merging
  ELSE /\ merging' = IF IsEmpty(bulk) \/ IsEmpty(NewHeaders(bulk)) THEN <<>>
                     ELSE <<Incremental(bulk, Length(bulk))>>
       /\ thread' = [thread EXCEPT !.pc = "merge",
                       !.got = IF IsEmpty(thread.missing) THEN all
                               ELSE Between(Higher(all.min, thread.missing.max + 1), all.max)]

(* WhatsOnChain gives the headers, or after an error those it had so far.  *)
fetchFromWhatsOnChain ==
  /\ At("fetch") /\ thread.ingestor = 2
  /\ \/ AddBulkHeaders(thread.fetch) /\ UNCHANGED faults
     \/ /\ Fault
        /\ \E max \in thread.fetch.min - 1 .. thread.fetch.max - 1 :
             AddBulkHeaders(Between(thread.fetch.min, max))
  /\ UNCHANGED <<bfds, rows, saving, thrown, exposed, live, world, available, pruning>>

merge == At("merge") /\ (MergeNext \/ save \/ saveFails) /\ UNCHANGED syncVars

Done_BulkOnly(got) ==                        \* mutant: live headers do not count
  IsEmpty(Missing(thread.goal, getHeightRange))

Done(got) ==
  IsEmpty(Missing(thread.goal, getHeightRange)) /\ got.max >= thread.goal

(* The end of synchronize, and syncBulkStorageNoLock's look at it.         *)
synchronized ==
  /\ At("merge") /\ Settled
  /\ IF thrown \/ ~Adjoin THEN IngestorFails
     ELSE thread' = [thread EXCEPT
                       !.pc = IF Done(thread.got) THEN "settle" ELSE "synchronize",
                       !.ingestor = 3 - @, !.before = Available]
  /\ thrown' = FALSE
  /\ UNCHANGED <<bfds, rows, merging, saving, faults, exposed, live, world, available, pruning>>

----------------------------------------------------------------------------
(* Live headers are inserted above those there are, or above the bulk      *)
(* files; as many parents as RecursionLimit are asked for by their hash.   *)

With_Unlinked(r) ==                          \* mutant: the parent is not asked for
  IF r.max <= live.max THEN live
  ELSE Between(IF IsEmpty(live) THEN r.min ELSE live.min, r.max)

With(r) ==
  LET bottom == IF IsEmpty(live) THEN NextHeight(bfds) ELSE live.max + 1 IN
  IF r.max < bottom \/ r.min > bottom + RecursionLimit THEN live
  ELSE Between(IF IsEmpty(live) THEN bottom ELSE live.min, r.max)

Insert(r) ==
  /\ live' = With(r)
  /\ pruning' = (pruning \/ live' # live)
  /\ UNCHANGED <<fileVars, world>>

settle ==
  /\ At("settle")
  /\ Insert(thread.got)
  /\ thread' = [Stopped EXCEPT !.pc = "shift", !.goal = thread.goal]
  /\ UNCHANGED available

(* Nothing is left to insert: from now on clients are served.              *)
idle ==
  /\ At("shift") /\ ~available
  /\ available' = TRUE
  /\ UNCHANGED <<fileVars, live, world, thread, pruning>>

announce ==
  /\ At("shift") /\ available
  /\ With(Between(present, present)) # live
  /\ Insert(Between(present, present))
  /\ UNCHANGED <<available, thread>>

syncCheck ==
  /\ At("shift") /\ available
  /\ thread' = [Stopped EXCEPT !.pc = "review"]
  /\ UNCHANGED <<fileVars, live, world, available, pruning>>

MainThread ==
  \/ start \/ makeAvailable \/ store \/ storeFails \/ review
  \/ synchronizeDone \/ synchronizeFetch \/ synchronizeMigrate
  \/ fetchFromCdn \/ fetchFromWhatsOnChain \/ merge \/ synchronized
  \/ settle \/ idle

Next ==
  \/ mine \/ publish \/ crash \/ prune
  \/ MainThread \/ announce \/ syncCheck

Spec == Init /\ [][Next]_vars
FairSpec == Spec /\ WF_vars(MainThread) /\ WF_vars(prune)

----------------------------------------------------------------------------
TypeOK ==
  /\ bfds \in Seq(File) /\ rows \subseteq File /\ saving \in Seq(Write)
  /\ thrown \in BOOLEAN /\ faults \in 0 .. MaxFaults /\ exposed \subseteq Exposures
  /\ live \in HeightRanges /\ present \in 0 .. MaxHeight
  /\ cdnTop \in 0 .. MaxHeight /\ known \in 0 .. MaxHeight
  /\ available \in BOOLEAN /\ pruning \in BOOLEAN /\ restarts \in 0 .. MaxRestarts

Intact(reasons) == exposed \cap reasons = {}

(* The bulk files are one unbroken series from the genesis header, with at *)
(* most one incremental file, the last ("There can be at most one          *)
(* incremental file and it must be the last file"); and at any moment,     *)
(* between two writes of a merge too, the table has no gap at which the    *)
(* next start would fail.  A death between the two writes of an update     *)
(* leaves rows that overlap, "stale" from then on: they are loaded, and    *)
(* files merged later may leave a gap between them.                        *)
FilesAdjoin ==
  Intact({"kind", "last", "unsaved", "stale"}) =>
    /\ \A i \in DOMAIN bfds :
         /\ bfds[i].first = IF i = 1 THEN 0 ELSE End(bfds[i - 1])
         /\ IsIncremental(bfds[i]) => i = Len(bfds)
    /\ ~HasGap(Sorted(rows))

(* "after which this manager maintains sync": the table has the files of   *)
(* the list whenever no merge is under way.                                *)
StorageAgrees ==
  Intact({"last", "unsaved", "torn"}) /\ Settled
    /\ thread.pc \notin {"down", "storage", "store", "failed"} =>
      rows = ToSet(bfds)

(* Bulk and live headers adjoin between syncs and after every restart:     *)
(* every height up to the tip has one header, and the next review of the   *)
(* main thread does not stop at "a gap or overlap".                        *)
BulkLiveAdjoin ==
  Intact({"last", "unsaved", "torn", "known", "live"})
    /\ thread.pc \in {"review", "shift"} => Adjoin

Stored == Heights(getHeightRange) \cup Heights(live)

(* getHeadersUint8Array: a part from the bulk files, the rest live.        *)
GetHeaders(r) ==
  LET bulk == Intersect(getHeightRange, r) IN
  (IF IsEmpty(bulk) THEN <<>> ELSE Read(bulk)) \o HeadersOf(Intersect(live, r))

(* A client gets exactly the headers it asks for, whatever files they are  *)
(* in and however these were cut.  (From a row that was left stale it gets *)
(* others, once the file's data is no longer kept in memory.)              *)
HeadersServed ==
  Intact({"last", "torn", "stale"}) /\ available /\ At("shift") =>
    \A min \in Stored, max \in Stored :
      GetHeaders(Between(min, max)) = HeadersOf(Between(min, max))

(* A start without live headers from an earlier process, nothing of the    *)
(* above ends with every height up to the tip it found, or fails for a     *)
(* fault; an answer WhatsOnChain cuts short is asked for again.  (With     *)
(* live headers it may not end well: see MigrationThrows.)                 *)
StartupEnds ==
  At("synchronize") /\ ~available /\ IsEmpty(live) ~>
    \/ available /\ 0 .. thread.goal \subseteq Stored
    \/ At("down") \/ exposed # {} \/ (At("failed") /\ faults > 0)
=============================================================================

---------------------------- MODULE Chaintracks ----------------------------
(***************************************************************************)
(* The main thread of Chaintracks (src/src/services/chaintracker/          *)
(* chaintracks/Chaintracks.ts): headers come from the live ingestors and   *)
(* from callers of addHeader, a missing parent is asked for by its hash,   *)
(* and a new best chain is notified to the listeners.  Live storage is     *)
(* taken to be within reach of the present height (skipBulkSync): bulk     *)
(* synchronisation is not modelled, and a sync check that finds nothing to *)
(* do is no step.                                                          *)
(***************************************************************************)
EXTENDS LiveHeaders, Sequences, SequencesExt

CONSTANTS
  NoHeader,
  RecursionLimit,    \* addLiveRecursionLimit
  MaxAnnouncements,  \* bound: announcements of headers by ingestors and callers
  MaxFaults          \* bound: failures of services or storage

ASSUME ChaintracksAssumption ==
  /\ NoHeader \notin Headers
  /\ RecursionLimit \in Nat \ {0, 1} /\ MaxAnnouncements \in Nat /\ MaxFaults \in Nat

(* Forks start above the bulk files, which end thousands of blocks below   *)
(* the tip: a header on the bulk tip is the first of live storage.         *)
ASSUME NoForkBelowLive ==
  /\ \A h \in Headers : Prev[h] \in Headers \/ Prev[h] = BulkTip
  /\ \A h \in Headers : Prev[h] = BulkTip => Height[h] = BulkHeight + 1
  /\ \A h, g \in Headers : Prev[h] = BulkTip /\ Prev[g] = BulkTip => h = g

VARIABLES
  liveHeaders,    \* queue the ingestors put headers in
  baseHeaders,    \* queue of addHeader
  thread,         \* where the main thread is
  enabled,        \* subscriberCallbacksEnabled
  announcements, faults

queues == <<liveHeaders, baseHeaders>>
bounds == <<announcements, faults>>
chainVars == <<live, queues, thread, enabled, bounds>>

Waiting == [pc |-> "shift", header |-> NoHeader, recursions |-> 0, deactivated |-> {}]

Thread == [pc : {"shift", "insert", "missing", "notify"},
           header : Headers \cup {NoHeader},
           recursions : 0..RecursionLimit,
           deactivated : SUBSET Headers]

ChainInit ==
  /\ LiveInit
  /\ liveHeaders = <<>> /\ baseHeaders = <<>>
  /\ thread = Waiting
  /\ enabled = FALSE
  /\ announcements = 0 /\ faults = 0

----------------------------------------------------------------------------
(* Inputs.  Sockets push, pollers unshift, and the same header may be      *)
(* announced by several of them, in any order.                             *)

Announced ==
  /\ announcements < MaxAnnouncements /\ announcements' = announcements + 1
  /\ UNCHANGED <<live, thread, enabled, faults>>

Listen(h) ==
  /\ Announced
  /\ \/ liveHeaders' = Append(liveHeaders, h)
     \/ liveHeaders' = <<h>> \o liveHeaders
  /\ UNCHANGED baseHeaders

WellPlaced(h) ==
  Height[h] = 1 + (IF Prev[h] \in Headers THEN Height[Prev[h]] ELSE BulkHeight)

(* A base header carries no height that could be wrong.                    *)
addHeader(h) ==
  /\ Announced
  /\ WellPlaced(h)
  /\ baseHeaders' = Append(baseHeaders, h)
  /\ UNCHANGED liveHeaders

----------------------------------------------------------------------------
(* mainThreadShiftLiveHeaders *)

shiftLive ==
  /\ thread.pc = "shift" /\ liveHeaders # <<>>
  /\ thread' = [Waiting EXCEPT !.pc = "insert", !.header = Head(liveHeaders),
                               !.recursions = RecursionLimit]
  /\ liveHeaders' = Tail(liveHeaders)
  /\ UNCHANGED <<live, baseHeaders, enabled, bounds>>

(* Only without live headers is a base header tried.  One whose parent is  *)
(* not in live storage is dropped; its height is taken from its parent.    *)
shiftBase ==
  /\ thread.pc = "shift" /\ liveHeaders = <<>> /\ baseHeaders # <<>>
  /\ LET h == Head(baseHeaders) IN
       thread' = IF Prev[h] \in Known
                   THEN [Waiting EXCEPT !.pc = "insert", !.header = h] ELSE Waiting
  /\ baseHeaders' = Tail(baseHeaders)
  /\ UNCHANGED <<live, liveHeaders, enabled, bounds>>

(* Both queues are empty: the first time live storage has headers, the     *)
(* listeners start to be called.                                           *)
idle ==
  /\ thread.pc = "shift" /\ liveHeaders = <<>> /\ baseHeaders = <<>>
  /\ ~enabled /\ Known # {}
  /\ enabled' = TRUE
  /\ UNCHANGED <<live, queues, thread, bounds>>

(* addLiveHeader: the insertion, one transaction under the write lock.     *)
insertFirst ==
  /\ thread.pc = "insert"
  /\ FirstHeader(thread.header)
  /\ thread' = Waiting
  /\ UNCHANGED <<queues, enabled, bounds>>

insertNext ==
  /\ thread.pc = "insert"
  /\ \E tip \in ActiveTips :
       /\ NextHeader(thread.header, tip)
       /\ thread' = IF enabled /\ MoreWork(thread.header, tip)
                      THEN [thread EXCEPT !.pc = "notify",
                              !.deactivated = Deactivated(thread.header, tip)]
                      ELSE Waiting
  /\ UNCHANGED <<queues, enabled, bounds>>

(* A header that is stored already, or is invalid, is forgotten.           *)
ignore ==
  /\ thread.pc = "insert"
  /\ Dupe(thread.header) \/ Invalid(thread.header)
  /\ thread' = Waiting
  /\ UNCHANGED <<live, queues, enabled, bounds>>

noPrev ==
  /\ thread.pc = "insert"
  /\ NoPrev(thread.header)
  /\ thread' = IF thread.recursions = 0 THEN Waiting
                 ELSE [thread EXCEPT !.pc = "missing", !.recursions = @ - 1]
  /\ UNCHANGED <<live, queues, enabled, bounds>>

(* getMissingBlockHeader (external services): the parent is tried first,   *)
(* and the header goes back to the front of the queue.  Without the parent *)
(* the header is dropped.                                                  *)
Requeue_Forgotten == liveHeaders            \* mutant: header replaced by parent
Requeue == <<thread.header>> \o liveHeaders

getMissingBlockHeader ==
  /\ thread.pc = "missing"
  /\ thread' = [thread EXCEPT !.pc = "insert", !.header = Prev[thread.header]]
  /\ liveHeaders' = Requeue
  /\ UNCHANGED <<live, baseHeaders, enabled, bounds>>

parentNotFound ==
  /\ thread.pc = "missing" /\ faults < MaxFaults
  /\ faults' = faults + 1
  /\ thread' = Waiting
  /\ UNCHANGED <<live, queues, enabled, announcements>>

(* The listeners are called after the insertion has committed.             *)
notify ==
  /\ thread.pc = "notify"
  /\ thread' = Waiting
  /\ UNCHANGED <<live, queues, enabled, bounds>>

MainThread ==
  \/ shiftLive \/ shiftBase \/ idle
  \/ insertFirst \/ insertNext \/ ignore \/ noPrev
  \/ getMissingBlockHeader \/ parentNotFound

ChainTypeOK ==
  /\ LiveTypeOK
  /\ liveHeaders \in Seq(Headers) /\ baseHeaders \in Seq(Headers)
  /\ thread \in Thread
  /\ enabled \in BOOLEAN
  /\ announcements \in 0..MaxAnnouncements /\ faults \in 0..MaxFaults
=============================================================================

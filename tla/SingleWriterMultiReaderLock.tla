-------------------- MODULE SingleWriterMultiReaderLock --------------------
(***************************************************************************)
(* The reader-writer lock of Chaintracks and of BulkFileDataManager        *)
(* (src/src/services/chaintracker/chaintracks/util/                        *)
(* SingleWriterMultiReaderLock.ts), run by the JavaScript event loop.      *)
(*                                                                         *)
(* JavaScript runs one synchronous segment at a time.  Resolving a promise *)
(* does not run the code that awaits it: it appends a job to the microtask *)
(* queue, which the engine drains in FIFO order.  The lock changes its     *)
(* counters in the segment of the caller (fast path) or in the segment     *)
(* that resumes after "await promise" (queued path), so the jobs standing  *)
(* between a resolve() and the resumption it causes matter.  The microtask *)
(* queue is therefore part of the state.                                   *)
(***************************************************************************)
EXTENDS Naturals, Sequences, FiniteSets

CONSTANTS
  Clients,        \* callers of withReadLock and withWriteLock
  MicrotaskBurst  \* bound: most jobs pending when one more is scheduled

ASSUME BurstAssumption == MicrotaskBurst \in Nat \ {0}

VARIABLES
  readers,        \* this.readers
  writerActive,   \* this.writerActive
  readerQueue,    \* this.readerQueue, the clients whose resolve it holds
  writerQueue,    \* this.writerQueue
  microtasks,     \* the engine's FIFO of jobs, named by the client they run
  pc              \* where each client stands

vars == <<readers, writerActive, readerQueue, writerQueue, microtasks, pc>>

(* The segment a client's job runs when it reaches the head of microtasks. *)
JobPc == {"callRead", "callWrite", "resumeRead", "resumeWrite",
          "endRead", "endWrite"}

(* idle: no call outstanding; waitRead and waitWrite: awaiting a promise   *)
(* held by a queue; reading and writing: fn() is running under the lock.   *)
Pc == JobPc \cup {"idle", "waitRead", "waitWrite", "reading", "writing"}

Init ==
  /\ readers = 0
  /\ writerActive = FALSE
  /\ readerQueue = <<>>
  /\ writerQueue = <<>>
  /\ microtasks = <<>>
  /\ pc = [c \in Clients |-> "idle"]

----------------------------------------------------------------------------
(* The event loop.  An event, or the segment now running, resolves a       *)
(* promise and so schedules one more job: a client that is about to call   *)
(* the lock, or a client whose fn() has settled and whose finally clause   *)
(* is next.                                                                *)

Schedule(c, from, to) ==
  /\ pc[c] = from
  /\ Len(microtasks) < MicrotaskBurst
  /\ pc' = [pc EXCEPT ![c] = to]
  /\ microtasks' = Append(microtasks, c)
  /\ UNCHANGED <<readers, writerActive, readerQueue, writerQueue>>

WantRead(c)  == Schedule(c, "idle", "callRead")
WantWrite(c) == Schedule(c, "idle", "callWrite")
FnSettles(c) == Schedule(c, "reading", "endRead")
                  \/ Schedule(c, "writing", "endWrite")

Runs(c, step) ==
  /\ microtasks # <<>>
  /\ Head(microtasks) = c
  /\ pc[c] = step

----------------------------------------------------------------------------
(* withReadLock *)

ReaderMayEnter_Overtakes == ~writerActive      \* mutant: queue not looked at

ReaderMayEnter == ~writerActive /\ writerQueue = <<>>

CallRead(c) ==
  /\ Runs(c, "callRead")
  /\ microtasks' = Tail(microtasks)
  /\ \/ /\ ReaderMayEnter                               \* fast path
        /\ readers' = readers + 1
        /\ pc' = [pc EXCEPT ![c] = "reading"]
        /\ UNCHANGED readerQueue
     \/ /\ ~ReaderMayEnter
        /\ readerQueue' = Append(readerQueue, c)
        /\ pc' = [pc EXCEPT ![c] = "waitRead"]
        /\ UNCHANGED readers
  /\ UNCHANGED <<writerActive, writerQueue>>

ResumeRead(c) ==
  /\ Runs(c, "resumeRead")
  /\ microtasks' = Tail(microtasks)
  /\ readers' = readers + 1
  /\ pc' = [pc EXCEPT ![c] = "reading"]
  /\ UNCHANGED <<writerActive, readerQueue, writerQueue>>

(* withWriteLock *)

WriterMayEnter_AmongReaders == ~writerActive        \* mutant: readers ignored

WriterMayEnter == ~writerActive /\ readers = 0

CallWrite(c) ==
  /\ Runs(c, "callWrite")
  /\ microtasks' = Tail(microtasks)
  /\ \/ /\ WriterMayEnter                               \* fast path
        /\ writerActive' = TRUE
        /\ pc' = [pc EXCEPT ![c] = "writing"]
        /\ UNCHANGED writerQueue
     \/ /\ ~WriterMayEnter
        /\ writerQueue' = Append(writerQueue, c)
        /\ pc' = [pc EXCEPT ![c] = "waitWrite"]
        /\ UNCHANGED writerActive
  /\ UNCHANGED <<readers, readerQueue>>

ResumeWrite(c) ==
  /\ Runs(c, "resumeWrite")
  /\ microtasks' = Tail(microtasks)
  /\ writerActive' = TRUE
  /\ pc' = [pc EXCEPT ![c] = "writing"]
  /\ UNCHANGED <<readers, readerQueue, writerQueue>>

(* checkQueues, called by client c whose finally clause has just set       *)
(* readers to r and writerActive to w.  Waking a client moves it from its  *)
(* queue to the end of microtasks.                                         *)
InQueue(q) == {q[i] : i \in 1..Len(q)}

checkQueues(c, r, w) ==
  \/ /\ w \/ r > 0 \/ (writerQueue = <<>> /\ readerQueue = <<>>)
     /\ microtasks' = Tail(microtasks)
     /\ pc' = [pc EXCEPT ![c] = "idle"]
     /\ UNCHANGED <<readerQueue, writerQueue>>
  \/ /\ ~w /\ r = 0 /\ writerQueue # <<>>
     /\ microtasks' = Append(Tail(microtasks), Head(writerQueue))
     /\ writerQueue' = Tail(writerQueue)
     /\ pc' = [pc EXCEPT ![c] = "idle", ![Head(writerQueue)] = "resumeWrite"]
     /\ UNCHANGED readerQueue
  \/ /\ ~w /\ r = 0 /\ writerQueue = <<>> /\ readerQueue # <<>>
     /\ microtasks' = Tail(microtasks) \o readerQueue
     /\ readerQueue' = <<>>
     /\ pc' = [d \in Clients |->
                 IF d = c THEN "idle"
                 ELSE IF d \in InQueue(readerQueue) THEN "resumeRead"
                 ELSE pc[d]]
     /\ UNCHANGED writerQueue

EndRead(c) ==
  /\ Runs(c, "endRead")
  /\ readers' = readers - 1
  /\ checkQueues(c, readers - 1, writerActive)
  /\ UNCHANGED writerActive

EndWrite(c) ==
  /\ Runs(c, "endWrite")
  /\ writerActive' = FALSE
  /\ checkQueues(c, readers, FALSE)
  /\ UNCHANGED readers

----------------------------------------------------------------------------
RunJob(c) ==
  \/ CallRead(c)  \/ ResumeRead(c)  \/ EndRead(c)
  \/ CallWrite(c) \/ ResumeWrite(c) \/ EndWrite(c)

Next == \E c \in Clients :
          WantRead(c) \/ WantWrite(c) \/ FnSettles(c) \/ RunJob(c)

Spec == Init /\ [][Next]_vars

(* The engine always drains the microtask queue, and every fn() the        *)
(* callers pass settles: its body awaits storage and network calls that    *)
(* resolve or reject.  Whether a client calls again is left open.          *)
Fairness == \A c \in Clients : WF_vars(RunJob(c)) /\ SF_vars(FnSettles(c))

FairSpec == Spec /\ Fairness

----------------------------------------------------------------------------
(* Properties *)

Readers == {c \in Clients : pc[c] \in {"reading", "endRead"}}
Writers == {c \in Clients : pc[c] \in {"writing", "endWrite"}}
Woken   == {c \in Clients : pc[c] \in {"resumeRead", "resumeWrite"}}

TypeOK ==
  /\ readers \in Nat
  /\ writerActive \in BOOLEAN
  /\ readerQueue \in Seq(Clients)
  /\ writerQueue \in Seq(Clients)
  /\ microtasks \in Seq(Clients)
  /\ pc \in [Clients -> Pc]

(* "Allows multiple readers or one writer at a time." (the class comment): *)
(* no fn() runs while a writer's fn() runs.                                *)
OneWriterOrReaders ==
  \A c, d \in Clients : (c # d /\ c \in Writers) => d \notin Readers \cup Writers

(* The flag and counter the fast paths read agree with the fn() running.   *)
FlagsAgree ==
  /\ writerActive <=> (Writers # {})
  /\ readers = Cardinality(Readers)

(* Exclusion, and the flags it rests on, can only be lost while a resolved *)
(* waiter has yet to resume: no interleaving of calls and ends does it     *)
(* when nobody is between the queue and fn().                              *)
LostOnlyWhileWaking ==
  [][(OneWriterOrReaders /\ FlagsAgree /\ Woken = {})
       => (OneWriterOrReaders /\ FlagsAgree)']_vars

(* No lost wake-up: whenever somebody waits in a queue there is a client   *)
(* that will call checkQueues, either inside fn() or resuming into it.     *)
(* Overlapping writers reset writerActive under each other's feet, and it  *)
(* still holds.                                                            *)
NoLostWakeup ==
  (readerQueue # <<>> \/ writerQueue # <<>>)
    => Readers \cup Writers \cup Woken # {}

(* A queued writer is woken and runs: readers that arrive later queue up   *)
(* behind it (readerQueue), so a stream of readers cannot starve it.       *)
WriterProgress ==
  \A c \in Clients : pc[c] = "waitWrite" ~> pc[c] = "writing"
=============================================================================

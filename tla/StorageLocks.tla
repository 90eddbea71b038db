---------------------------- MODULE StorageLocks ----------------------------
(***************************************************************************)
(* The locks of WalletStorageManager (src/src/storage/                     *)
(* WalletStorageManager.ts): four queues of promises, taken in the order   *)
(* reader, writer, sync, storage provider and given back in one go.  A     *)
(* promise is resolved once its entry stands at the head of its queue.     *)
(*                                                                         *)
(* An action is the code between two awaits.  getActiveLock first awaits   *)
(* makeAvailable when the manager is not available, as it is at the start  *)
(* and while addWalletStorageProvider runs.                                *)
(***************************************************************************)
EXTENDS Naturals, Sequences

CONSTANTS
  Callers,     \* concurrent calls of the runAs methods
  Methods,     \* bound: the methods called, by the number of queues they take
  MaxAdded,    \* bound: calls of addWalletStorageProvider
  MaxFailures  \* bound: rejections of makeAvailable

(* The queues readerLocks, writerLocks, syncLocks and spLocks.  runAsReader *)
(* takes the first, runAsWriter two, runAsSync three, and                  *)
(* runAsStorageProvider all of them.                                       *)
Levels == 1..4

ASSUME BoundsAssumption ==
  /\ MaxAdded \in Nat /\ MaxFailures \in Nat
  /\ Methods \subseteq Levels

VARIABLES
  queue,      \* per level, the callers whose promise stands in the queue
  resolved,   \* the promises <<caller, level>> resolved and not yet awaited
  pc,         \* where each caller stands
  wants,      \* the number of queues a call takes
  level,      \* the queue it is at
  available,  \* this._isAvailable
  adding,     \* addWalletStorageProvider awaits makeAvailable
  added,      \* calls of addWalletStorageProvider so far
  failures    \* rejections so far

vars == <<queue, resolved, pc, wants, level, available, adding, added, failures>>

Pc == {"idle", "enter", "making", "waiting", "running"}

Init ==
  /\ queue = [l \in Levels |-> <<>>]
  /\ resolved = {}
  /\ pc = [c \in Callers |-> "idle"]
  /\ wants = [c \in Callers |-> 1]
  /\ level = [c \in Callers |-> 1]
  /\ available = FALSE
  /\ adding = FALSE
  /\ added = 0
  /\ failures = 0

----------------------------------------------------------------------------
(* runAsReader, runAsWriter, runAsSync, runAsStorageProvider *)

Call(c) ==
  /\ pc[c] = "idle"
  /\ \E l \in Methods : wants' = [wants EXCEPT ![c] = l]
  /\ level' = [level EXCEPT ![c] = 1]
  /\ pc' = [pc EXCEPT ![c] = "enter"]
  /\ UNCHANGED <<queue, resolved, available, adding, added, failures>>

Alone_NotAsked(l) == TRUE             \* mutant: lockQueue.length not looked at

Alone(l) == queue[l] = <<>>

(* The second half of getActiveLock: push a promise, resolve it at once if *)
(* it is alone, await it.                                                  *)
Push(c) ==
  LET l == level[c] IN
  /\ queue' = [queue EXCEPT ![l] = Append(@, c)]
  /\ resolved' = IF Alone(l) THEN resolved \cup {<<c, l>>} ELSE resolved
  /\ pc' = [pc EXCEPT ![c] = "waiting"]
  /\ UNCHANGED <<wants, level>>

getActiveLock(c) ==
  /\ pc[c] = "enter" /\ available
  /\ Push(c)
  /\ UNCHANGED <<available, adding, added, failures>>

awaitAvailable(c) ==
  /\ pc[c] = "enter" /\ ~available
  /\ pc' = [pc EXCEPT ![c] = "making"]
  /\ UNCHANGED <<queue, resolved, wants, level, available, adding, added, failures>>

makeAvailable(c) ==
  /\ pc[c] = "making"
  /\ available' = TRUE
  /\ Push(c)
  /\ UNCHANGED <<adding, added, failures>>

NeedsMore(c) == level[c] < wants[c]

(* The promise resolved: take the next queue, or run the function with the *)
(* active storage, which getActive has while the manager is available.     *)
Told(c) == pc[c] = "waiting" /\ <<c, level[c]>> \in resolved

granted(c) ==
  /\ Told(c)
  /\ resolved' = resolved \ {<<c, level[c]>>}
  /\ IF NeedsMore(c)
       THEN /\ level' = [level EXCEPT ![c] = @ + 1]
            /\ pc' = [pc EXCEPT ![c] = "enter"]
       ELSE /\ available
            /\ pc' = [pc EXCEPT ![c] = "running"]
            /\ UNCHANGED level
  /\ UNCHANGED <<queue, wants, available, adding, added, failures>>

(* releaseActiveLock on each queue the method takes: shift, and resolve    *)
(* the promise that is first now, whether or not it was before.            *)
Shift_Pop(q) ==                           \* mutant: the last entry goes
  IF q = <<>> THEN <<>> ELSE SubSeq(q, 1, Len(q) - 1)

Shift(q) == IF q = <<>> THEN <<>> ELSE Tail(q)

Woken(shifted, L) ==
  {<<Head(shifted[l]), l>> : l \in {m \in L : shifted[m] # <<>>}}

Released_AllButReader(c) == 2..wants[c]   \* mutant: the reader queue forgotten

Released(c) == 1..wants[c]

releaseActiveLocks(c, told) ==
  LET shifted == [l \in Levels |->
                    IF l \in Released(c) THEN Shift(queue[l]) ELSE queue[l]] IN
  /\ queue' = shifted
  /\ resolved' = told \cup Woken(shifted, Released(c))
  /\ pc' = [pc EXCEPT ![c] = "idle"]
  /\ UNCHANGED <<wants, level>>

(* getActive throws while the manager is not available, and                *)
(* getActiveForStorageProvider if the active storage is not a provider;    *)
(* finally releases the queues.                                            *)
getActiveThrows(c) ==
  /\ Told(c) /\ ~NeedsMore(c)
  /\ ~available \/ wants[c] = 4
  /\ releaseActiveLocks(c, resolved \ {<<c, level[c]>>})
  /\ UNCHANGED <<available, adding, added, failures>>

(* The function settles, by returning or by throwing.                      *)
fnSettles(c) ==
  /\ pc[c] = "running"
  /\ releaseActiveLocks(c, resolved)
  /\ UNCHANGED <<available, adding, added, failures>>

(* makeAvailable rejects: no promise was pushed for the queue the call was *)
(* at, but finally releases all the queues of the method just the same.    *)
makeAvailableRejects(c) ==
  /\ pc[c] = "making" /\ failures < MaxFailures
  /\ failures' = failures + 1
  /\ releaseActiveLocks(c, resolved)
  /\ UNCHANGED <<available, adding, added>>

(* addWalletStorageProvider, which takes no lock, and the end of setActive, *)
(* which runs inside one: the partition of the stores is made again.       *)
addProvider ==
  /\ ~adding /\ added < MaxAdded
  /\ added' = added + 1
  /\ adding' = TRUE /\ available' = FALSE
  /\ UNCHANGED <<queue, resolved, pc, wants, level, failures>>

providerAdded ==
  /\ adding /\ adding' = FALSE
  /\ available' = TRUE
  /\ UNCHANGED <<queue, resolved, pc, wants, level, added, failures>>

providerRejected ==
  /\ adding /\ adding' = FALSE
  /\ failures < MaxFailures /\ failures' = failures + 1
  /\ UNCHANGED <<queue, resolved, pc, wants, level, available, added>>

----------------------------------------------------------------------------
Proceeds(c) ==
  \/ getActiveLock(c) \/ awaitAvailable(c) \/ makeAvailable(c)
  \/ granted(c) \/ getActiveThrows(c)

Next ==
  \/ \E c \in Callers :
       Call(c) \/ Proceeds(c) \/ fnSettles(c) \/ makeAvailableRejects(c)
  \/ addProvider \/ providerAdded \/ providerRejected

Spec == Init /\ [][Next]_vars

(* Promises that resolve are acted on, and the functions the manager runs  *)
(* settle: they await storage and services, which answer or time out.      *)
Fairness == \A c \in Callers : WF_vars(Proceeds(c)) /\ WF_vars(fnSettles(c))

FairSpec == Spec /\ Fairness

----------------------------------------------------------------------------
(* Properties *)

TypeOK ==
  /\ queue \in [Levels -> Seq(Callers)]
  /\ resolved \subseteq Callers \X Levels
  /\ pc \in [Callers -> Pc]
  /\ wants \in [Callers -> Levels]
  /\ level \in [Callers -> Levels]
  /\ available \in BOOLEAN
  /\ adding \in BOOLEAN
  /\ added \in Nat
  /\ failures \in Nat

Running == {c \in Callers : pc[c] = "running"}

(* "While synchronizing, all other access to storage is blocked waiting",  *)
(* and "manages wait-blocking write requests" (the class comment): two     *)
(* functions never run at once.  Every method takes the reader queue.      *)
OneAtATime == \A c, d \in Running : c = d

(* The same for as long as makeAvailable has not rejected: callers come in *)
(* at any await, providers are added, functions and getActive throw.       *)
Served == IF failures = 0 THEN Running ELSE {}

OneUntilRejection == \A c, d \in Served : c = d

(* No lost wake-up, with four queues entered one after the other and left  *)
(* together: whoever stands first in a queue was told so, or is past it.   *)
FirstIsServed ==
  \A l \in Levels : queue[l] # <<>> =>
    LET c == Head(queue[l]) IN
      \/ <<c, l>> \in resolved
      \/ pc[c] = "running" \/ level[c] > l

(* A call ends or has its turn, even after rejections: queues are first in *)
(* first out and every method takes them in the same order, so that nobody *)
(* waits in a circle.                                                      *)
CallIsServed == \A c \in Callers : pc[c] = "enter" ~> pc[c] \in {"running", "idle"}

(* Until makeAvailable rejects, functions run in the order in which their  *)
(* calls entered the reader queue, and a call that leaves, also when       *)
(* getActive throws, removes its own entry there: whoever comes meanwhile, *)
(* at any await of the other queues, neither overtakes nor loses a place.  *)
Line == IF failures = 0 THEN queue[1] ELSE <<>>

Access == INSTANCE StorageAccess WITH
  line <- Line, running <- Served, broken <- failures # 0

AccessSpec == Access!Spec
=============================================================================

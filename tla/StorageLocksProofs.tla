------------------------- MODULE StorageLocksProofs -------------------------
(***************************************************************************)
(* The locks of WalletStorageManager exclude, for any number of callers    *)
(* and whenever providers are added, until makeAvailable first rejects     *)
(* (a rejection releases queues the call had not entered).  And nobody is   *)
(* left at the head of a queue untold, even after rejections.              *)
(*                                                                         *)
(* Every method takes the reader queue first and gives it back last, so    *)
(* the argument is about that queue alone.                                 *)
(***************************************************************************)
EXTENDS StorageLocks, TLAPS

q1 == queue[1]

(* c has pushed its promise on the reader queue and not released it.       *)
Entered(c) ==
  \/ pc[c] \in {"waiting", "running"}
  \/ pc[c] \in {"enter", "making"} /\ level[c] > 1

(* c was told that it is first in the reader queue.                        *)
Inside(c) ==
  \/ pc[c] = "running"
  \/ pc[c] \in {"enter", "making", "waiting"} /\ level[c] > 1
  \/ <<c, 1>> \in resolved

QueuedEntered == \A i \in 1..Len(q1) : Entered(q1[i])
QueuedOnce    == \A i, j \in 1..Len(q1) : q1[i] = q1[j] => i = j
InsideIsFirst == \A c \in Callers : Inside(c) => Len(q1) > 0 /\ q1[1] = c
ToldWaits     == \A c \in Callers :
                   <<c, 1>> \in resolved => pc[c] = "waiting" /\ level[c] = 1

LockInv == TypeOK /\ QueuedEntered /\ QueuedOnce /\ InsideIsFirst /\ ToldWaits

UntilRejection == failures \in Nat /\ (failures = 0 => LockInv)

LEMMA InitLock == Init => LockInv
<1> SUFFICES ASSUME Init PROVE LockInv
  OBVIOUS
<1>1. TypeOK
  <2>1. <<>> \in Seq(Callers) /\ 1 \in Levels
    BY DEF Levels
  <2>2. queue \in [Levels -> Seq(Callers)]
    BY <2>1 DEF Init
  <2> QED
    BY <2>1, <2>2 DEF Init, TypeOK, Pc
<1>2. q1 = <<>> /\ Len(q1) = 0 /\ resolved = {}
  BY DEF Init, q1, Levels
<1>3. QueuedEntered /\ QueuedOnce
  BY <1>2 DEF QueuedEntered, QueuedOnce
<1>4. InsideIsFirst /\ ToldWaits
  BY <1>2 DEF Init, InsideIsFirst, ToldWaits, Inside
<1> QED
  BY <1>1, <1>3, <1>4 DEF LockInv

----------------------------------------------------------------------------
(* What happens to the variables the argument is about.                    *)

LEMMA CallKeeps ==
  ASSUME LockInv, NEW c \in Callers, Call(c)
  PROVE  LockInv'
<1>1. TypeOK'
  BY BoundsAssumption DEF Call, LockInv, TypeOK, Levels, Pc
<1>2. q1' = q1 /\ resolved' = resolved
  BY DEF Call, q1
<1>3. ~Entered(c) /\ <<c, 1>> \notin resolved
  BY DEF Call, LockInv, ToldWaits, Entered
<1>4. \A d \in Callers \ {c} : pc'[d] = pc[d] /\ level'[d] = level[d]
  BY DEF Call, LockInv, TypeOK
<1>5. pc'[c] = "enter" /\ level'[c] = 1
  BY DEF Call, LockInv, TypeOK
<1>6. \A i \in 1..Len(q1) : q1[i] \in Callers \ {c}
  BY <1>3 DEF LockInv, QueuedEntered, TypeOK, Levels, q1
<1>7. QueuedEntered' /\ QueuedOnce'
  BY <1>2, <1>4, <1>6 DEF LockInv, QueuedEntered, QueuedOnce, Entered
<1>8. InsideIsFirst' /\ ToldWaits'
  BY <1>2, <1>3, <1>4, <1>5 DEF LockInv, InsideIsFirst, ToldWaits, Inside
<1> QED
  BY <1>1, <1>7, <1>8 DEF LockInv

LEMMA PushKeeps ==
  ASSUME LockInv, NEW c \in Callers, pc[c] \in {"enter", "making"}, Push(c),
         available' \in BOOLEAN, UNCHANGED <<adding, added, failures>>
  PROVE  LockInv'
<1> DEFINE l == level[c]
<1>0. l \in Levels /\ queue[l] \in Seq(Callers) /\ q1 \in Seq(Callers)
  BY DEF LockInv, TypeOK, Levels, q1
<1>1. TypeOK'
  <2>1. Append(queue[l], c) \in Seq(Callers)
    BY <1>0
  <2>2. queue' \in [Levels -> Seq(Callers)]
    BY <1>0, <2>1 DEF Push, LockInv, TypeOK
  <2>3. resolved' \subseteq Callers \X Levels
    BY <1>0 DEF Push, LockInv, TypeOK
  <2> QED
    BY <2>2, <2>3 DEF Push, LockInv, TypeOK, Pc
<1>2. \A d \in Callers \ {c} : pc'[d] = pc[d]
  BY DEF Push, LockInv, TypeOK
<1>3. pc'[c] = "waiting" /\ level' = level
  BY DEF Push, LockInv, TypeOK
<1>4. <<c, 1>> \notin resolved
  BY DEF LockInv, ToldWaits
<1>5. CASE l = 1
  <2>1. q1' = Append(q1, c)
    BY <1>0, <1>5 DEF Push, LockInv, TypeOK, q1
  <2>2. /\ Len(q1') = Len(q1) + 1 /\ q1'[Len(q1) + 1] = c
        /\ \A i \in 1..Len(q1) : q1'[i] = q1[i]
    BY <1>0, <2>1
  <2>3. Len(q1) \in Nat
    BY <1>0
  <2>4. ~Entered(c)
    BY <1>5 DEF Entered
  <2>5. \A i \in 1..Len(q1) : q1[i] \in Callers \ {c}
    BY <1>0, <2>4 DEF LockInv, QueuedEntered
  <2>6. \A i \in 1..Len(q1') : i \in 1..Len(q1) \/ i = Len(q1) + 1
    BY <2>2, <2>3
  <2>7. QueuedEntered'
    <3> SUFFICES ASSUME NEW i \in 1..Len(q1') PROVE Entered(q1[i])'
      BY DEF QueuedEntered
    <3>1. CASE i \in 1..Len(q1)
      <4>1. q1'[i] = q1[i] /\ Entered(q1[i]) /\ q1[i] \in Callers \ {c}
        BY <3>1, <2>2, <2>5 DEF LockInv, QueuedEntered
      <4> QED
        BY <4>1, <1>2, <1>3 DEF Entered
    <3>2. CASE i = Len(q1) + 1
      BY <3>2, <2>2, <1>3 DEF Entered
    <3> QED
      BY <2>6, <3>1, <3>2
  <2>8. QueuedOnce'
    BY <2>2, <2>3, <2>5, <2>6 DEF LockInv, QueuedOnce
  <2>9. ToldWaits'
    <3> SUFFICES ASSUME NEW d \in Callers, <<d, 1>> \in resolved'
                 PROVE  pc'[d] = "waiting" /\ level'[d] = 1
      BY DEF ToldWaits
    <3>1. d = c \/ <<d, 1>> \in resolved
      BY DEF Push
    <3> QED
      BY <3>1, <1>2, <1>3, <1>5 DEF LockInv, ToldWaits
  <2>10. InsideIsFirst'
    <3> SUFFICES ASSUME NEW d \in Callers, Inside(d)'
                 PROVE  Len(q1') > 0 /\ q1'[1] = d
      BY DEF InsideIsFirst
    <3>1. CASE d = c
      <4>1. <<c, 1>> \in resolved'
        BY <3>1, <1>3, <1>5 DEF Inside
      <4>2. q1 = <<>>
        BY <4>1, <1>4, <1>5 DEF Push, Alone, q1
      <4> QED
        BY <4>2, <3>1, <2>2
    <3>2. CASE d # c
      <4>1. Inside(d)
        BY <3>2, <1>2, <1>3 DEF Inside, Push
      <4>2. Len(q1) > 0 /\ q1[1] = d
        BY <4>1 DEF LockInv, InsideIsFirst
      <4> QED
        BY <4>2, <2>2, <2>3
    <3> QED
      BY <3>1, <3>2
  <2> QED
    BY <1>1, <2>7, <2>8, <2>9, <2>10 DEF LockInv
<1>6. CASE l # 1
  <2>1. q1' = q1
    BY <1>0, <1>6 DEF Push, LockInv, TypeOK, q1, Levels
  <2>2. \A d \in Callers : <<d, 1>> \in resolved' <=> <<d, 1>> \in resolved
    BY <1>6 DEF Push
  <2>3. l > 1
    BY <1>0, <1>6 DEF Levels
  <2>4. \A d \in Callers : (Inside(d)' <=> Inside(d)) /\ (Entered(d) => Entered(d)')
    BY <1>2, <1>3, <2>2, <2>3 DEF Inside, Entered
  <2>5. \A i \in 1..Len(q1) : q1[i] \in Callers
    BY <1>0
  <2>6. QueuedEntered' /\ QueuedOnce' /\ InsideIsFirst'
    BY <2>1, <2>4, <2>5 DEF LockInv, QueuedEntered, QueuedOnce, InsideIsFirst
  <2>7. ToldWaits'
    BY <1>2, <1>3, <1>4, <2>2 DEF LockInv, ToldWaits
  <2> QED
    BY <1>1, <2>6, <2>7 DEF LockInv
<1> QED
  BY <1>5, <1>6

LEMMA GrantedKeeps ==
  ASSUME LockInv, NEW c \in Callers, granted(c)
  PROVE  LockInv'
<1>0. level[c] \in 1..4 /\ wants[c] \in 1..4 /\ pc[c] = "waiting"
  BY DEF granted, Told, LockInv, TypeOK, Levels
<1>1. TypeOK'
  <2>1. level' \in [Callers -> Levels]
    <3>1. CASE NeedsMore(c)
      <4>1. level[c] + 1 \in Levels /\ level' = [level EXCEPT ![c] = @ + 1]
        BY <1>0, <3>1 DEF granted, NeedsMore, Levels
      <4> QED
        BY <4>1 DEF LockInv, TypeOK
    <3>2. CASE ~NeedsMore(c)
      BY <3>2 DEF granted, LockInv, TypeOK
    <3> QED
      BY <3>1, <3>2
  <2>2. pc' \in [Callers -> Pc]
    BY DEF granted, LockInv, TypeOK, Pc
  <2> QED
    BY <2>1, <2>2 DEF granted, LockInv, TypeOK
<1>2. q1' = q1 /\ resolved' \subseteq resolved
  BY DEF granted, q1
<1>3. \A d \in Callers \ {c} : pc'[d] = pc[d] /\ level'[d] = level[d]
  BY DEF granted, LockInv, TypeOK
<1>4. pc'[c] = "running" \/ (pc'[c] = "enter" /\ level'[c] > 1)
  BY <1>0 DEF granted, LockInv, TypeOK
<1>5. Inside(c) /\ Entered(c) /\ Entered(c)'
  BY <1>0, <1>4 DEF granted, Told, Inside, Entered
<1>6. \A d \in Callers : (Inside(d)' => Inside(d)) /\ (Entered(d) => Entered(d)')
  BY <1>2, <1>3, <1>5 DEF Inside, Entered
<1>7. \A i \in 1..Len(q1) : q1[i] \in Callers
  BY DEF LockInv, TypeOK, Levels, q1
<1>8. QueuedEntered' /\ QueuedOnce' /\ InsideIsFirst'
  BY <1>2, <1>6, <1>7 DEF LockInv, QueuedEntered, QueuedOnce, InsideIsFirst
<1>9. <<c, 1>> \notin resolved'
  <2>1. CASE level[c] = 1
    BY <2>1 DEF granted
  <2>2. CASE level[c] # 1
    BY <2>2, <1>2 DEF LockInv, ToldWaits
  <2> QED
    BY <2>1, <2>2
<1>10. ToldWaits'
  BY <1>2, <1>3, <1>9 DEF LockInv, ToldWaits
<1> QED
  BY <1>1, <1>8, <1>10 DEF LockInv

----------------------------------------------------------------------------
(* A call that is inside gives its queues back: it was first in the reader *)
(* queue, and the next one is told.                                        *)
LEMMA ReleaseKeeps ==
  ASSUME LockInv, NEW c \in Callers, Inside(c),
         NEW told \in SUBSET resolved, <<c, 1>> \notin told,
         releaseActiveLocks(c, told), UNCHANGED <<available, adding, added, failures>>
  PROVE  LockInv'
<1> DEFINE shifted == [l \in Levels |->
                        IF l \in Released(c) THEN Shift(queue[l]) ELSE queue[l]]
<1>0. /\ queue \in [Levels -> Seq(Callers)] /\ wants[c] \in 1..4
      /\ q1 \in Seq(Callers) /\ 1 \in Levels /\ 1 \in Released(c)
  BY DEF LockInv, TypeOK, Levels, q1, Released
<1>2. Len(q1) > 0 /\ q1[1] = c
  BY DEF LockInv, InsideIsFirst
<1>3. q1' = Tail(q1)
  BY <1>0, <1>2 DEF releaseActiveLocks, Shift, q1
<1>4. /\ Len(q1') = Len(q1) - 1 /\ Len(q1) \in Nat
      /\ \A i \in 1..Len(q1') : q1'[i] = q1[i + 1] /\ i + 1 \in 1..Len(q1)
  BY <1>0, <1>2, <1>3
<1>5. shifted \in [Levels -> Seq(Callers)]
  BY <1>0 DEF Shift
<1>6. resolved' = told \cup Woken(shifted, Released(c)) /\ queue' = shifted
  BY DEF releaseActiveLocks
<1> HIDE DEF shifted
<1>7. Woken(shifted, Released(c)) \subseteq Callers \X Levels
  <2>1. Released(c) \subseteq Levels
    BY <1>0 DEF Released, Levels
  <2>2. \A l \in Levels : shifted[l] # <<>> => Head(shifted[l]) \in Callers
    BY <1>5
  <2> QED
    BY <2>1, <2>2 DEF Woken
<1>8. TypeOK'
  BY <1>5, <1>6, <1>7 DEF releaseActiveLocks, LockInv, TypeOK, Pc
<1>9. pc'[c] = "idle" /\ level' = level /\ \A d \in Callers \ {c} : pc'[d] = pc[d]
  BY DEF releaseActiveLocks, LockInv, TypeOK
<1>10. \A i \in 1..Len(q1') : q1'[i] \in Callers \ {c}
  <2> SUFFICES ASSUME NEW i \in 1..Len(q1') PROVE q1'[i] \in Callers \ {c}
    OBVIOUS
  <2>1. q1'[i] = q1[i + 1] /\ i + 1 \in 1..Len(q1) /\ i \in Nat /\ 1 \in 1..Len(q1)
    BY <1>2, <1>4
  <2>2. q1[i + 1] # q1[1]
    BY <2>1 DEF LockInv, QueuedOnce
  <2> QED
    BY <1>0, <1>2, <2>1, <2>2
<1>11. QueuedEntered'
  <2> SUFFICES ASSUME NEW i \in 1..Len(q1') PROVE Entered(q1[i])'
    BY DEF QueuedEntered
  <2>1. q1'[i] = q1[i + 1] /\ Entered(q1[i + 1]) /\ q1[i + 1] \in Callers \ {c}
    BY <1>4, <1>10 DEF LockInv, QueuedEntered
  <2> QED
    BY <2>1, <1>9 DEF Entered
<1>12. QueuedOnce'
  <2> SUFFICES ASSUME NEW i \in 1..Len(q1'), NEW j \in 1..Len(q1'), q1'[i] = q1'[j]
               PROVE  i = j
    BY DEF QueuedOnce
  <2>1. i + 1 = j + 1
    BY <1>4 DEF LockInv, QueuedOnce
  <2> QED
    BY <2>1
(* The one promise of the reader queue that may be resolved.               *)
<1>13. \A d \in Callers : <<d, 1>> \in resolved' =>
         <<d, 1>> \in told \/ (Len(q1') > 0 /\ q1'[1] = d)
  BY <1>0, <1>5, <1>6 DEF Woken, q1
<1>14. <<c, 1>> \notin told /\ told \subseteq resolved
  OBVIOUS
<1>15. \A d \in Callers : Inside(d) => d = c
  BY <1>2 DEF LockInv, InsideIsFirst
<1>16. \A d \in Callers : <<d, 1>> \in resolved' => Len(q1') > 0 /\ q1'[1] = d
  BY <1>13, <1>14, <1>15 DEF Inside
<1>17. InsideIsFirst'
  <2> SUFFICES ASSUME NEW d \in Callers, Inside(d)'
               PROVE  Len(q1') > 0 /\ q1'[1] = d
    BY DEF InsideIsFirst
  <2>1. CASE <<d, 1>> \in resolved'
    BY <2>1, <1>16
  <2>2. CASE d = c
    BY <2>2, <1>9, <1>16 DEF Inside
  <2>3. CASE d # c /\ <<d, 1>> \notin resolved'
    BY <2>3, <1>9, <1>15 DEF Inside
  <2> QED
    BY <2>1, <2>2, <2>3
<1>18. ToldWaits'
  <2> SUFFICES ASSUME NEW d \in Callers, <<d, 1>> \in resolved'
               PROVE  pc'[d] = "waiting" /\ level'[d] = 1
    BY DEF ToldWaits
  <2>1. 1 \in 1..Len(q1') /\ q1'[1] = d
    BY <1>4, <1>16
  <2>2. d # c /\ Entered(d)
    BY <1>4, <1>10, <2>1 DEF LockInv, QueuedEntered
  <2>3. ~Inside(d) /\ level[d] \in 1..4
    BY <1>15, <2>2 DEF LockInv, TypeOK, Levels
  <2> QED
    BY <1>9, <2>2, <2>3 DEF Inside, Entered
<1> QED
  BY <1>8, <1>11, <1>12, <1>17, <1>18 DEF LockInv

LEMMA SettlesKeeps ==
  ASSUME LockInv, NEW c \in Callers, fnSettles(c)
  PROVE  LockInv'
<1>1. Inside(c) /\ <<c, 1>> \notin resolved
  BY DEF fnSettles, Inside, LockInv, ToldWaits
<1> QED
  BY <1>1, ReleaseKeeps DEF fnSettles

LEMMA ThrowsKeeps ==
  ASSUME LockInv, NEW c \in Callers, getActiveThrows(c)
  PROVE  LockInv'
<1> DEFINE told == resolved \ {<<c, level[c]>>}
<1>1. level[c] \in 1..4 /\ pc[c] = "waiting" /\ <<c, level[c]>> \in resolved
  BY DEF getActiveThrows, Told, LockInv, TypeOK, Levels
<1>2. CASE level[c] = 1
  BY <1>1, <1>2, ReleaseKeeps DEF getActiveThrows, Inside
<1>3. CASE level[c] > 1
  <2>1. Inside(c) /\ <<c, 1>> \notin resolved
    BY <1>1, <1>3 DEF Inside, LockInv, ToldWaits
  <2> QED
    BY <2>1, ReleaseKeeps DEF getActiveThrows
<1> QED
  BY <1>1, <1>2, <1>3

----------------------------------------------------------------------------
LEMMA OthersKeep ==
  ASSUME LockInv,
         \/ \E c \in Callers : awaitAvailable(c)
         \/ addProvider \/ providerAdded \/ UNCHANGED vars
  PROVE  LockInv'
<1>1. TypeOK'
  <2>1. CASE \E c \in Callers : awaitAvailable(c)
    BY <2>1 DEF awaitAvailable, LockInv, TypeOK, Pc
  <2>2. CASE addProvider
    <3>1. added \in Nat /\ added' = added + 1
      BY <2>2 DEF addProvider, LockInv, TypeOK
    <3>2. added' \in Nat
      BY <3>1
    <3>3. adding' \in BOOLEAN /\ available' \in BOOLEAN
      BY <2>2, Zenon DEF addProvider
    <3> QED
      BY <2>2, <3>2, <3>3 DEF addProvider, LockInv, TypeOK
  <2>3. CASE providerAdded
    BY <2>3 DEF providerAdded, LockInv, TypeOK
  <2>4. CASE UNCHANGED vars
    BY <2>4 DEF vars, LockInv, TypeOK
  <2> QED
    BY <2>1, <2>2, <2>3, <2>4
<1>2. UNCHANGED <<q1, resolved, level>>
  BY DEF awaitAvailable, addProvider, providerAdded, vars, q1
<1>3. \A d \in Callers : pc'[d] = pc[d] \/ (pc[d] = "enter" /\ pc'[d] = "making")
  BY DEF awaitAvailable, addProvider, providerAdded, vars, LockInv, TypeOK
<1>4. \A d \in Callers : (Inside(d)' <=> Inside(d)) /\ (Entered(d) => Entered(d)')
  BY <1>2, <1>3 DEF Inside, Entered
<1>5. \A i \in 1..Len(q1) : q1[i] \in Callers
  BY DEF LockInv, TypeOK, Levels, q1
<1>6. QueuedEntered' /\ QueuedOnce' /\ InsideIsFirst'
  BY <1>2, <1>4, <1>5 DEF LockInv, QueuedEntered, QueuedOnce, InsideIsFirst
<1>7. ToldWaits'
  BY <1>2, <1>3 DEF LockInv, ToldWaits
<1> QED
  BY <1>1, <1>6, <1>7 DEF LockInv

(* A rejection ends what the invariant says.                               *)
LEMMA RejectionCounts ==
  ASSUME UntilRejection,
         providerRejected \/ \E c \in Callers : makeAvailableRejects(c)
  PROVE  failures' \in Nat /\ failures' # 0
  BY DEF UntilRejection, providerRejected, makeAvailableRejects

LEMMA FailuresCount ==
  ASSUME UntilRejection, [Next]_vars
  PROVE  failures' \in Nat /\ (failures' = 0 => failures = 0)
<1>1. CASE UNCHANGED failures
  BY <1>1 DEF UntilRejection
<1>2. CASE providerRejected \/ \E c \in Callers : makeAvailableRejects(c)
  BY <1>2, RejectionCounts
<1> QED
  BY <1>1, <1>2 DEF Next, Proceeds, Call, getActiveLock, awaitAvailable,
     makeAvailable, granted, getActiveThrows, fnSettles, addProvider,
     providerAdded, vars

LEMMA StepKeeps ==
  ASSUME UntilRejection, [Next]_vars
  PROVE  UntilRejection'
<1>0. failures' \in Nat /\ (failures' = 0 => failures = 0)
  BY FailuresCount
<1> SUFFICES ASSUME failures' = 0 PROVE LockInv'
  BY <1>0 DEF UntilRejection
<1>i. LockInv
  BY <1>0 DEF UntilRejection
<1>1. CASE \E c \in Callers : Call(c)
  BY <1>i, <1>1, CallKeeps
<1>2. CASE \E c \in Callers : getActiveLock(c) \/ makeAvailable(c)
  BY <1>i, <1>2, PushKeeps DEF getActiveLock, makeAvailable, LockInv, TypeOK
<1>3. CASE \E c \in Callers : granted(c)
  BY <1>i, <1>3, GrantedKeeps
<1>4. CASE \E c \in Callers : fnSettles(c)
  BY <1>i, <1>4, SettlesKeeps
<1>5. CASE \E c \in Callers : getActiveThrows(c)
  BY <1>i, <1>5, ThrowsKeeps
<1>6. CASE \/ \E c \in Callers : awaitAvailable(c)
           \/ addProvider \/ providerAdded \/ UNCHANGED vars
  BY <1>i, <1>6, OthersKeep
<1>7. CASE providerRejected \/ \E c \in Callers : makeAvailableRejects(c)
  BY <1>7, RejectionCounts
<1> QED
  BY <1>1, <1>2, <1>3, <1>4, <1>5, <1>6, <1>7 DEF Next, Proceeds

LEMMA InitUntil == Init => UntilRejection
  BY InitLock DEF UntilRejection, Init

(* Whoever runs is first in the reader queue.                              *)
LEMMA FirstRuns == LockInv => OneAtATime
  BY DEF LockInv, InsideIsFirst, Inside, OneAtATime, Running

LEMMA FirstIsServedAlone == UntilRejection => OneUntilRejection
  BY FirstRuns DEF UntilRejection, OneUntilRejection, Served, OneAtATime

(* Functions run one at a time until makeAvailable first rejects, for any  *)
(* number of callers, methods and providers.                               *)
THEOREM Serial == Spec => []OneUntilRejection
<1>1. UntilRejection /\ [Next]_vars => UntilRejection'
  BY StepKeeps
<1> QED
  BY <1>1, InitUntil, FirstIsServedAlone, PTL DEF Spec

----------------------------------------------------------------------------
(* The refinement *)

(* The caller is first in the reader queue, and no other runs.             *)
LEMMA InsideAlone ==
  ASSUME LockInv, NEW c \in Callers, Inside(c)
  PROVE  /\ q1 # <<>> /\ Head(q1) = c
         /\ Running \subseteq {c}
<1>1. q1 \in Seq(Callers)
  BY DEF LockInv, TypeOK, Levels, q1
<1>2. Len(q1) > 0 /\ q1[1] = c
  BY DEF LockInv, InsideIsFirst
<1>3. \A d \in Running : d = c
  BY <1>2 DEF LockInv, InsideIsFirst, Inside, Running
<1> QED
  BY <1>1, <1>2, <1>3

Enters(c) ==
  /\ \A i \in 1..Len(q1) : q1[i] # c
  /\ q1' = Append(q1, c) /\ Running' = Running

Runs   == q1 # <<>> /\ Running = {} /\ Running' = {Head(q1)} /\ q1' = q1
Leaves == q1 # <<>> /\ Running \subseteq {Head(q1)} /\ Running' = {} /\ q1' = Tail(q1)
Stays  == q1' = q1 /\ Running' = Running

LEMMA PushEnters ==
  ASSUME LockInv, NEW c \in Callers, pc[c] \in {"enter", "making"}, Push(c)
  PROVE  Enters(c) \/ Stays
<1>0. pc \in [Callers -> Pc] /\ queue \in [Levels -> Seq(Callers)] /\ level[c] \in Levels
  BY DEF LockInv, TypeOK
<1>1. Running' = Running
  BY <1>0 DEF Push, Running
<1>2. CASE level[c] = 1
  <2>1. q1' = Append(q1, c)
    BY <1>0, <1>2 DEF Push, q1
  <2>2. ~Entered(c)
    BY <1>2 DEF Entered
  <2>3. \A i \in 1..Len(q1) : q1[i] # c
    BY <2>2 DEF LockInv, QueuedEntered
  <2> QED
    BY <1>1, <2>1, <2>3 DEF Enters
<1>3. CASE level[c] # 1
  <2>1. q1' = q1
    BY <1>0, <1>3 DEF Push, q1, Levels
  <2> QED
    BY <1>1, <2>1 DEF Stays
<1> QED
  BY <1>2, <1>3

LEMMA GrantedRuns ==
  ASSUME LockInv, NEW c \in Callers, granted(c)
  PROVE  Runs \/ Stays
<1>0. pc \in [Callers -> Pc] /\ level[c] \in 1..4
  BY DEF LockInv, TypeOK, Levels
<1>1. q1' = q1 /\ c \notin Running /\ pc[c] = "waiting"
  BY DEF granted, Told, Running, q1
<1>2. CASE NeedsMore(c)
  BY <1>0, <1>1, <1>2 DEF granted, Running, Stays
<1>3. CASE ~NeedsMore(c)
  <2>1. Running' = Running \cup {c}
    BY <1>0, <1>3 DEF granted, Running
  <2>2. Inside(c)
    BY <1>0, <1>1 DEF granted, Told, Inside
  <2>3. q1 # <<>> /\ Head(q1) = c /\ Running = {}
    BY <1>1, <2>2, InsideAlone
  <2> QED
    BY <1>1, <2>1, <2>3 DEF Runs
<1> QED
  BY <1>2, <1>3

LEMMA ReleaseLeaves ==
  ASSUME LockInv, NEW c \in Callers, Inside(c), NEW told, releaseActiveLocks(c, told)
  PROVE  Leaves
<1>0. /\ queue \in [Levels -> Seq(Callers)] /\ pc \in [Callers -> Pc]
      /\ wants[c] \in 1..4 /\ 1 \in Levels /\ 1 \in Released(c)
  BY DEF LockInv, TypeOK, Levels, Released
<1>1. q1 # <<>> /\ Head(q1) = c /\ Running \subseteq {c}
  BY InsideAlone
<1>2. q1' = Tail(q1)
  BY <1>0, <1>1 DEF releaseActiveLocks, Shift, q1
<1>3. Running' = Running \ {c}
  BY <1>0 DEF releaseActiveLocks, Running
<1> QED
  BY <1>1, <1>2, <1>3 DEF Leaves

LEMMA AccessStep ==
  ASSUME LockInv, [Next]_vars, failures = 0, failures' = 0
  PROVE  (\E c \in Callers : Enters(c)) \/ Runs \/ Leaves \/ Stays
<1>t. pc \in [Callers -> Pc]
  BY DEF LockInv, TypeOK
<1>1. CASE \E c \in Callers : getActiveLock(c) \/ makeAvailable(c)
  BY <1>1, PushEnters DEF getActiveLock, makeAvailable
<1>2. CASE \E c \in Callers : granted(c)
  BY <1>2, GrantedRuns
<1>3. CASE \E c \in Callers : fnSettles(c)
  BY <1>3, ReleaseLeaves DEF fnSettles, Inside
<1>4. CASE \E c \in Callers : getActiveThrows(c)
  <2> PICK c \in Callers : getActiveThrows(c)
    BY <1>4
  <2>0. level[c] \in 1..4 /\ pc[c] = "waiting" /\ <<c, level[c]>> \in resolved
    BY DEF getActiveThrows, Told, LockInv, TypeOK, Levels
  <2>1. Inside(c)
    <3>1. CASE level[c] = 1
      BY <2>0, <3>1 DEF Inside
    <3>2. CASE level[c] > 1
      BY <2>0, <3>2 DEF Inside
    <3> QED
      BY <2>0, <3>1, <3>2
  <2> QED
    BY <2>1, ReleaseLeaves DEF getActiveThrows
<1>5. CASE \E c \in Callers : Call(c) \/ awaitAvailable(c)
  BY <1>t, <1>5 DEF Call, awaitAvailable, Running, q1, Stays
<1>6. CASE addProvider \/ providerAdded \/ UNCHANGED vars
  BY <1>6 DEF addProvider, providerAdded, vars, Running, q1, Stays
<1>7. CASE providerRejected \/ \E c \in Callers : makeAvailableRejects(c)
  BY <1>7 DEF providerRejected, makeAvailableRejects
<1> QED
  BY <1>1, <1>2, <1>3, <1>4, <1>5, <1>6, <1>7 DEF Next, Proceeds

(* The queues serve the calls one at a time and in the order in which they *)
(* entered the reader queue, until makeAvailable first rejects.            *)
THEOREM ImplementsAccess == Spec => AccessSpec
<1>1. UntilRejection /\ [Next]_vars => UntilRejection'
  BY StepKeeps
<1>2. Init => Access!Init
  BY DEF Init, Access!Init, Line, Served, Running, Levels
<1>3. UntilRejection /\ [Next]_vars => [Access!Next]_(Access!vars)
  <2> SUFFICES ASSUME UntilRejection, [Next]_vars
               PROVE  [Access!Next]_(Access!vars)
    OBVIOUS
  <2>0. failures' \in Nat /\ (failures' = 0 => failures = 0)
    BY FailuresCount
  <2>1. CASE failures' = 0
    <3>1. LockInv /\ failures = 0
      BY <2>0, <2>1 DEF UntilRejection
    <3>2. /\ Line = q1 /\ Line' = q1'
          /\ Served = Running /\ Served' = Running'
      BY <2>1, <3>1 DEF Line, Served, q1
    <3>3. CASE \E c \in Callers : Enters(c)
      BY <2>1, <3>1, <3>2, <3>3 DEF Enters, Access!Next, Access!Enter
    <3>4. CASE Runs
      BY <2>1, <3>1, <3>2, <3>4 DEF Runs, Access!Next, Access!Acquire
    <3>5. CASE Leaves
      BY <2>1, <3>1, <3>2, <3>5 DEF Leaves, Access!Next, Access!Leave
    <3>6. CASE Stays
      BY <2>1, <3>1, <3>2, <3>6 DEF Stays, Access!vars
    <3> QED
      BY <2>1, <3>1, <3>3, <3>4, <3>5, <3>6, AccessStep
  <2>2. CASE failures' # 0
    <3>1. Line' = <<>> /\ Served' = {}
      BY <2>2 DEF Line, Served
    <3>2. CASE failures = 0
      BY <2>2, <3>1, <3>2 DEF Access!Next, Access!Break
    <3>3. CASE failures # 0
      BY <2>2, <3>1, <3>3 DEF Access!vars, Line, Served
    <3> QED
      BY <3>2, <3>3
  <2> QED
    BY <2>1, <2>2
<1> QED
  BY <1>1, <1>2, <1>3, InitUntil, PTL DEF Spec, AccessSpec, Access!Spec

----------------------------------------------------------------------------
(* No lost wake-up *)

(* Whoever stands first in a queue was told so, or is past it in this call.*)
Notified(c, l) ==
  \/ <<c, l>> \in resolved
  \/ pc[c] # "idle" /\ level[c] > l
  \/ pc[c] = "running" /\ wants[c] >= l

HeadsNotified == \A l \in Levels : queue[l] # <<>> => Notified(Head(queue[l]), l)

AtMostWanted == \A c \in Callers : pc[c] # "idle" => level[c] <= wants[c]

WakeInv == TypeOK /\ AtMostWanted /\ HeadsNotified

LEMMA InitWake == Init => WakeInv
BY InitLock DEF LockInv, Init, WakeInv, AtMostWanted, HeadsNotified

LEMMA HeadTyped ==
  ASSUME NEW S, NEW q \in Seq(S), q # <<>>
  PROVE  Head(q) \in S /\ Tail(q) \in Seq(S)
OBVIOUS

LEMMA HeadOfAppend ==
  ASSUME NEW S, NEW q \in Seq(S), NEW x \in S
  PROVE  /\ Append(q, x) \in Seq(S)
         /\ q # <<>> => Head(Append(q, x)) = Head(q)
         /\ q = <<>> => Head(Append(q, x)) = x
OBVIOUS

LEMMA PushWakes ==
  ASSUME WakeInv, NEW c \in Callers, pc[c] \in {"enter", "making"}, Push(c),
         available' \in BOOLEAN, UNCHANGED <<adding, added, failures>>
  PROVE  WakeInv'
<1> DEFINE l == level[c]
<1>1. l \in Levels /\ queue[l] \in Seq(Callers) /\ Append(queue[l], c) \in Seq(Callers)
  BY HeadOfAppend DEF WakeInv, TypeOK
<1>2. /\ queue' = [queue EXCEPT ![l] = Append(queue[l], c)]
      /\ resolved' = IF queue[l] = <<>> THEN resolved \cup {<<c, l>>} ELSE resolved
      /\ pc' = [pc EXCEPT ![c] = "waiting"] /\ UNCHANGED <<wants, level>>
  BY DEF Push, Alone
<1>3. TypeOK'
  BY <1>1, <1>2 DEF WakeInv, TypeOK, Pc
<1>4. AtMostWanted'
  BY <1>2 DEF WakeInv, TypeOK, AtMostWanted
<1>5. \A d \in Callers, k \in Levels : Notified(d, k) => Notified(d, k)'
  BY <1>2 DEF WakeInv, TypeOK, Notified
<1>6. HeadsNotified'
  <2> SUFFICES ASSUME NEW k \in Levels, queue'[k] # <<>>, NEW d, d = Head(queue'[k])
               PROVE  Notified(d, k)'
    BY DEF HeadsNotified
  <2>1. CASE k = l /\ queue[l] = <<>>
    <3>1. d = c /\ <<c, k>> \in resolved'
      BY <1>1, <1>2, <2>1, HeadOfAppend DEF WakeInv, TypeOK
    <3> QED
      BY <3>1 DEF Notified
  <2>2. CASE queue[k] # <<>>
    <3>1. d = Head(queue[k]) /\ d \in Callers
      BY <1>1, <1>2, <2>2, HeadOfAppend, HeadTyped DEF WakeInv, TypeOK
    <3> QED
      BY <1>5, <2>2, <3>1 DEF WakeInv, HeadsNotified
  <2>3. CASE k # l /\ queue[k] = <<>>
    BY <1>2, <2>3 DEF WakeInv, TypeOK
  <2> QED
    BY <2>1, <2>2, <2>3
<1> QED
  BY <1>3, <1>4, <1>6 DEF WakeInv

LEMMA GrantedWakes ==
  ASSUME WakeInv, NEW c \in Callers, granted(c)
  PROVE  WakeInv'
<1>1. level[c] \in Levels /\ wants[c] \in Levels /\ level[c] <= wants[c]
  BY DEF granted, Told, WakeInv, TypeOK, AtMostWanted
<1>2. /\ resolved' = resolved \ {<<c, level[c]>>}
      /\ UNCHANGED <<queue, wants, available, adding, added, failures>>
      /\ \/ level[c] < wants[c] /\ level' = [level EXCEPT ![c] = @ + 1]
            /\ pc' = [pc EXCEPT ![c] = "enter"]
         \/ level[c] = wants[c] /\ level' = level /\ pc' = [pc EXCEPT ![c] = "running"]
  BY <1>1 DEF granted, NeedsMore, Levels
<1>3. TypeOK' /\ AtMostWanted'
  <2>1. CASE level[c] < wants[c]
    <3>1. level[c] + 1 \in Levels /\ level[c] + 1 <= wants[c]
      BY <1>1, <2>1 DEF Levels
    <3> QED
      <4>1. level' = [level EXCEPT ![c] = @ + 1] /\ pc' = [pc EXCEPT ![c] = "enter"]
        BY <1>1, <1>2, <2>1 DEF Levels
      <4>2. TypeOK'
        BY <1>2, <3>1, <4>1 DEF WakeInv, TypeOK, Pc
      <4>3. AtMostWanted'
        BY <1>2, <3>1, <4>1 DEF WakeInv, TypeOK, AtMostWanted
      <4> QED
        BY <4>2, <4>3
  <2>2. CASE level[c] = wants[c]
    BY <1>1, <1>2, <2>2 DEF WakeInv, TypeOK, AtMostWanted, Pc, Levels
  <2> QED
    BY <1>2, <2>1, <2>2
<1>4. pc[c] = "waiting"
  BY DEF granted, Told
<1>5. \A d \in Callers, k \in Levels : Notified(d, k) => Notified(d, k)'
  <2> SUFFICES ASSUME NEW d \in Callers, NEW k \in Levels, Notified(d, k)
               PROVE  Notified(d, k)'
    OBVIOUS
  <2>1. CASE d # c
    BY <1>2, <2>1 DEF WakeInv, TypeOK, Notified
  <2>2. CASE d = c
    BY <1>1, <1>2, <1>4, <2>2 DEF WakeInv, TypeOK, Levels, Notified
  <2> QED
    BY <2>1, <2>2
<1>6. HeadsNotified'
  BY <1>2, <1>5, HeadTyped DEF WakeInv, TypeOK, HeadsNotified
<1> QED
  BY <1>3, <1>6 DEF WakeInv

(* The heads of the queues that are released are told; those of the others *)
(* are as they were.                                                       *)
LEMMA ReleaseWakes ==
  ASSUME WakeInv, NEW c \in Callers, pc[c] # "idle",
         NEW told \in SUBSET resolved, resolved \ told \subseteq {<<c, level[c]>>},
         releaseActiveLocks(c, told), failures' \in Nat,
         UNCHANGED <<available, adding, added>>
  PROVE  WakeInv'
<1> DEFINE shifted == [l \in Levels |->
                         IF l \in Released(c) THEN Shift(queue[l]) ELSE queue[l]]
<1>1. /\ queue' = shifted /\ resolved' = told \cup Woken(shifted, Released(c))
      /\ pc' = [pc EXCEPT ![c] = "idle"] /\ UNCHANGED <<wants, level>>
  BY DEF releaseActiveLocks
<1>2. wants[c] \in 1..4 /\ level[c] \in 1..4 /\ level[c] <= wants[c]
  BY DEF WakeInv, TypeOK, AtMostWanted, Levels
<1>3. Released(c) = 1..wants[c] /\ Released(c) \subseteq Levels
  BY <1>2 DEF Released, Levels
<1>4. \A l \in Levels : shifted[l] \in Seq(Callers)
  BY HeadTyped DEF WakeInv, TypeOK, Shift
<1>5. \A l \in Levels : l \notin Released(c) => shifted[l] = queue[l]
  OBVIOUS
<1>6. shifted \in [Levels -> Seq(Callers)]
  BY <1>4
<1> HIDE DEF shifted
<1>7. Woken(shifted, Released(c)) \subseteq Callers \X Levels
  <2> SUFFICES ASSUME NEW l \in Released(c), shifted[l] # <<>>
               PROVE  <<Head(shifted[l]), l>> \in Callers \X Levels
    BY DEF Woken
  <2> QED
    BY <1>3, <1>4, HeadTyped
<1>8. TypeOK' /\ AtMostWanted'
  BY <1>1, <1>6, <1>7 DEF WakeInv, TypeOK, AtMostWanted, Pc
<1>9. HeadsNotified'
  <2> SUFFICES ASSUME NEW l \in Levels, shifted[l] # <<>>, NEW d, d = Head(shifted[l])
               PROVE  Notified(d, l)'
    BY <1>1 DEF HeadsNotified
  <2>1. CASE l \in Released(c)
    <3>1. <<d, l>> \in resolved'
      BY <1>1, <2>1 DEF Woken
    <3> QED
      BY <3>1 DEF Notified
  <2>2. CASE l \notin Released(c)
    <3>1. shifted[l] = queue[l] /\ d \in Callers /\ Notified(d, l)
      BY <1>5, <2>2, HeadTyped DEF WakeInv, TypeOK, HeadsNotified
    <3>2. l > wants[c]
      BY <1>2, <1>3, <2>2 DEF Levels
    <3>3. CASE d = c
      <4>1. <<c, l>> \in resolved
        BY <1>2, <3>1, <3>2, <3>3 DEF Notified, Levels
      <4> QED
        <5>1. <<c, l>> # <<c, level[c]>>
          BY <1>2, <3>2 DEF Levels
        <5> QED
          BY <1>1, <3>3, <4>1, <5>1 DEF Notified
    <3>4. CASE d # c
      BY <1>1, <3>1, <3>4 DEF Notified, WakeInv, TypeOK
    <3> QED
      BY <3>3, <3>4
  <2> QED
    BY <2>1, <2>2
<1> QED
  BY <1>8, <1>9 DEF WakeInv

(* The steps that touch no queue: a call begins, waits for makeAvailable,  *)
(* or a provider is added.                                                 *)
LEMMA OthersWake ==
  ASSUME WakeInv,
         \/ \E c \in Callers : Call(c) \/ awaitAvailable(c)
         \/ addProvider \/ providerAdded \/ providerRejected \/ UNCHANGED vars
  PROVE  WakeInv'
<1>1. UNCHANGED <<queue, resolved>>
  BY DEF Call, awaitAvailable, addProvider, providerAdded, providerRejected, vars
<1>2. TypeOK' /\ AtMostWanted'
  <2>1. ASSUME NEW c \in Callers, Call(c)
        PROVE  TypeOK' /\ AtMostWanted'
    <3>1. PICK l \in Methods : wants' = [wants EXCEPT ![c] = l]
      BY <2>1 DEF Call
    <3>2. l \in Levels /\ 1 \in Levels /\ 1 <= l
      BY BoundsAssumption DEF Levels
    <3> QED
      BY <2>1, <3>1, <3>2 DEF Call, WakeInv, TypeOK, AtMostWanted, Pc
  <2>2. ASSUME NEW c \in Callers, awaitAvailable(c)
        PROVE  TypeOK' /\ AtMostWanted'
    BY <2>2 DEF awaitAvailable, WakeInv, TypeOK, AtMostWanted, Pc
  <2>3. CASE addProvider \/ providerAdded \/ providerRejected \/ UNCHANGED vars
    <3>1. UNCHANGED <<queue, resolved, pc, wants, level>>
      BY <2>3 DEF addProvider, providerAdded, providerRejected, vars
    <3>2. available' \in BOOLEAN /\ adding' \in BOOLEAN /\ added' \in Nat /\ failures' \in Nat
      <4>1. available' \in BOOLEAN /\ adding' \in BOOLEAN
        BY <2>3 DEF addProvider, providerAdded, providerRejected, vars, WakeInv, TypeOK
      <4>2. added' \in {added, added + 1} /\ failures' \in {failures, failures + 1}
        BY <2>3 DEF addProvider, providerAdded, providerRejected, vars
      <4>3. added' \in Nat /\ failures' \in Nat
        BY <4>2 DEF WakeInv, TypeOK
      <4> QED
        BY <4>1, <4>3
    <3> QED
      BY <3>1, <3>2 DEF WakeInv, TypeOK, AtMostWanted
  <2> QED
    BY <2>1, <2>2, <2>3
<1>4. \A d \in Callers, k \in Levels : Notified(d, k) => Notified(d, k)'
  BY DEF WakeInv, TypeOK, Notified, Call, awaitAvailable, addProvider, providerAdded,
     providerRejected, vars
<1>5. HeadsNotified'
  BY <1>1, <1>4, HeadTyped DEF WakeInv, TypeOK, HeadsNotified
<1> QED
  BY <1>2, <1>5 DEF WakeInv

LEMMA WakeStep ==
  ASSUME WakeInv, [Next]_vars
  PROVE  WakeInv'
<1>1. ASSUME NEW c \in Callers, getActiveLock(c) \/ makeAvailable(c)
      PROVE  WakeInv'
  BY <1>1, PushWakes DEF getActiveLock, makeAvailable, WakeInv, TypeOK
<1>2. ASSUME NEW c \in Callers, granted(c)
      PROVE  WakeInv'
  BY <1>2, GrantedWakes
<1>3. ASSUME NEW c \in Callers,
             fnSettles(c) \/ getActiveThrows(c) \/ makeAvailableRejects(c)
      PROVE  WakeInv'
  <2>1. CASE getActiveThrows(c)
    <3> DEFINE told == resolved \ {<<c, level[c]>>}
    <3>1. /\ told \in SUBSET resolved /\ resolved \ told \subseteq {<<c, level[c]>>}
          /\ pc[c] # "idle" /\ failures' \in Nat
          /\ releaseActiveLocks(c, told) /\ UNCHANGED <<available, adding, added>>
      BY <2>1 DEF getActiveThrows, Told, WakeInv, TypeOK
    <3> HIDE DEF told
    <3> QED
      BY <3>1, ReleaseWakes
  <2>2. CASE fnSettles(c) \/ makeAvailableRejects(c)
    <3>1. /\ pc[c] # "idle" /\ failures' \in Nat
          /\ releaseActiveLocks(c, resolved) /\ UNCHANGED <<available, adding, added>>
      BY <2>2 DEF fnSettles, makeAvailableRejects, WakeInv, TypeOK
    <3> QED
      BY <3>1, ReleaseWakes
  <2> QED
    BY <1>3, <2>1, <2>2
<1> QED
  BY <1>1, <1>2, <1>3, OthersWake DEF Next, Proceeds

(* However many callers take and release the queues, and even after        *)
(* rejections that release queues a call had not entered, whoever is first *)
(* in one of the four queues was told so or is past it: getActiveLock and  *)
(* releaseActiveLock of WalletStorageManager.                              *)
THEOREM HeadIsServed == Spec => []FirstIsServed
<1>1. WakeInv /\ [Next]_vars => WakeInv'
  BY WakeStep
<1>2. WakeInv => FirstIsServed
  BY DEF WakeInv, HeadsNotified, Notified, FirstIsServed
<1> QED
  BY <1>1, <1>2, InitWake, PTL DEF Spec
=============================================================================

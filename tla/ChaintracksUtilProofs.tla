------------------------ MODULE ChaintracksUtilProofs ------------------------
(***************************************************************************)
(* The utilities of Chaintracks (src/src/services/chaintracker/            *)
(* chaintracks/util/): what the reader-writer lock keeps at every          *)
(* interleaving of any number of callers, and that ranges of heights are   *)
(* the sets they stand for.                                                *)
(***************************************************************************)
EXTENDS SingleWriterMultiReaderLock, HeightRange, FiniteSetTheorems, TLAPS

(* Who stands in a queue waits for it, and a writer does so once.          *)
QueuesWait ==
  /\ \A i \in 1..Len(readerQueue) : pc[readerQueue[i]] = "waitRead"
  /\ \A i \in 1..Len(writerQueue) : pc[writerQueue[i]] = "waitWrite"
  /\ \A i, j \in 1..Len(writerQueue) : writerQueue[i] = writerQueue[j] => i = j

(* The counter is right at all times; the flag only when it is set.        *)
Counted == IsFiniteSet(Readers) /\ readers = Cardinality(Readers)

FlagMeansWriter == writerActive => Writers # {}

RWInv == TypeOK /\ QueuesWait /\ Counted /\ FlagMeansWriter /\ NoLostWakeup

LEMMA InitRWInv == Init => RWInv
<1> SUFFICES ASSUME Init PROVE RWInv
  OBVIOUS
<1>1. TypeOK
  <2>1. <<>> \in Seq(Clients)
    OBVIOUS
  <2> QED
    BY <2>1 DEF Init, TypeOK, Pc
<1>2. Readers = {}
  BY DEF Init, Readers
<1>3. Counted
  BY <1>2, FS_EmptySet DEF Init, Counted
<1>4. QueuesWait /\ FlagMeansWriter /\ NoLostWakeup
  BY DEF Init, QueuesWait, FlagMeansWriter, NoLostWakeup
<1> QED
  BY <1>1, <1>3, <1>4 DEF RWInv

----------------------------------------------------------------------------
(* The parts of a step: client c moves from one place to another.          *)

Moves(c, from, to) ==
  /\ pc[c] = from
  /\ pc' = [pc EXCEPT ![c] = to]

LEMMA TailTyped ==
  ASSUME NEW S, NEW q \in Seq(S), q # <<>>
  PROVE  /\ Head(q) \in S /\ Tail(q) \in Seq(S) /\ Len(Tail(q)) = Len(q) - 1
         /\ Len(q) \in Nat \ {0} /\ Head(q) = q[1]
         /\ \A i \in 1..Len(Tail(q)) : Tail(q)[i] = q[i + 1]
OBVIOUS

LEMMA AppendTyped ==
  ASSUME NEW S, NEW q \in Seq(S), NEW x \in S
  PROVE  /\ Append(q, x) \in Seq(S) /\ Len(q) \in Nat
         /\ Len(Append(q, x)) = Len(q) + 1
         /\ Append(q, x)[Len(q) + 1] = x
         /\ \A i \in 1..Len(q) : Append(q, x)[i] = q[i]
         /\ 1..Len(Append(q, x)) = 1..Len(q) \cup {Len(q) + 1}
OBVIOUS

(* A reader comes, or goes. *)
LEMMA ReaderEnters ==
  ASSUME RWInv, NEW c \in Clients, c \notin Readers, Readers' = Readers \cup {c},
         readers' = readers + 1
  PROVE  Counted'
BY FS_AddElement DEF RWInv, Counted

LEMMA ReaderLeaves ==
  ASSUME RWInv, NEW c \in Readers, Readers' = Readers \ {c}, readers' = readers - 1
  PROVE  Counted' /\ readers' \in Nat /\ (readers' > 0 <=> Readers' # {})
<1>1. IsFiniteSet(Readers') /\ Cardinality(Readers') = Cardinality(Readers) - 1
  BY FS_RemoveElement DEF RWInv, Counted
<1>2. Cardinality(Readers') \in Nat /\ (Cardinality(Readers') = 0 <=> Readers' = {})
  BY <1>1, FS_CardinalityType, FS_EmptySet
<1>3. readers' = Cardinality(Readers')
  BY <1>1 DEF RWInv, Counted
<1>4. Counted'
  BY <1>1, <1>3 DEF Counted
<1> QED
  BY <1>2, <1>3, <1>4

LEMMA ReadersCounted ==
  ASSUME RWInv
  PROVE  readers \in Nat /\ (readers = 0 <=> Readers = {})
BY FS_CardinalityType, FS_EmptySet DEF RWInv, Counted

----------------------------------------------------------------------------

LEMMA ScheduleKeeps ==
  ASSUME RWInv, NEW c \in Clients, WantRead(c) \/ WantWrite(c) \/ FnSettles(c)
  PROVE  RWInv' /\ Readers' = Readers /\ Writers' = Writers
<1>0. UNCHANGED <<readers, writerActive, readerQueue, writerQueue>>
  BY DEF WantRead, WantWrite, FnSettles, Schedule
<1>1. PICK from \in {"idle", "reading", "writing"},
           to \in {"callRead", "callWrite", "endRead", "endWrite"} :
        /\ pc[c] = from /\ pc' = [pc EXCEPT ![c] = to]
        /\ from = "reading" <=> to = "endRead"
        /\ from = "writing" <=> to = "endWrite"
  BY DEF WantRead, WantWrite, FnSettles, Schedule
<1>2. microtasks' = Append(microtasks, c)
  BY DEF WantRead, WantWrite, FnSettles, Schedule
<1>3. TypeOK'
  BY <1>0, <1>1, <1>2 DEF RWInv, TypeOK, Pc, JobPc
<1>4. Readers' = Readers /\ Writers' = Writers /\ Woken \subseteq Woken'
  BY <1>1 DEF RWInv, TypeOK, Readers, Writers, Woken
<1>5. QueuesWait'
  BY <1>0, <1>1 DEF RWInv, TypeOK, QueuesWait
<1>6. Counted' /\ FlagMeansWriter' /\ NoLostWakeup'
  BY <1>0, <1>4 DEF RWInv, Counted, FlagMeansWriter, NoLostWakeup
<1> QED
  BY <1>3, <1>4, <1>5, <1>6 DEF RWInv

LEMMA RunsTail ==
  ASSUME RWInv, NEW c \in Clients, NEW step, Runs(c, step)
  PROVE  Tail(microtasks) \in Seq(Clients) /\ pc[c] = step
BY TailTyped DEF RWInv, TypeOK, Runs

LEMMA EnterReadKeeps ==
  ASSUME RWInv, NEW c \in Clients, NEW step \in {"callRead", "resumeRead"}, Runs(c, step),
         microtasks' = Tail(microtasks), readers' = readers + 1,
         pc' = [pc EXCEPT ![c] = "reading"],
         UNCHANGED <<readerQueue, writerActive, writerQueue>>
  PROVE  RWInv' /\ c \notin Readers /\ Readers' = Readers \cup {c} /\ Writers' = Writers
<1>1. pc[c] = step
  BY RunsTail
<1>2. TypeOK'
  BY RunsTail DEF RWInv, TypeOK, Pc
<1>3. Readers' = Readers \cup {c} /\ Writers' = Writers /\ c \notin Readers
  BY <1>1 DEF RWInv, TypeOK, Readers, Writers
<1>4. QueuesWait'
  BY <1>1 DEF RWInv, TypeOK, QueuesWait
<1>5. Counted'
  BY <1>3, ReaderEnters
<1>6. FlagMeansWriter' /\ NoLostWakeup'
  BY <1>3 DEF RWInv, FlagMeansWriter, NoLostWakeup
<1> QED
  BY <1>2, <1>3, <1>4, <1>5, <1>6 DEF RWInv

LEMMA EnterWriteKeeps ==
  ASSUME RWInv, NEW c \in Clients, NEW step \in {"callWrite", "resumeWrite"}, Runs(c, step),
         microtasks' = Tail(microtasks), writerActive' = TRUE,
         pc' = [pc EXCEPT ![c] = "writing"],
         UNCHANGED <<readers, readerQueue, writerQueue>>
  PROVE  RWInv' /\ Readers' = Readers /\ Writers' = Writers \cup {c}
<1>1. pc[c] = step
  BY RunsTail
<1>2. TypeOK'
  BY RunsTail DEF RWInv, TypeOK, Pc
<1>3. Readers' = Readers /\ Writers' = Writers \cup {c}
  BY <1>1 DEF RWInv, TypeOK, Readers, Writers
<1>4. QueuesWait'
  BY <1>1 DEF RWInv, TypeOK, QueuesWait
<1>5. Counted' /\ FlagMeansWriter' /\ NoLostWakeup'
  BY <1>3 DEF RWInv, Counted, FlagMeansWriter, NoLostWakeup
<1> QED
  BY <1>2, <1>3, <1>4, <1>5 DEF RWInv

(* A caller that has to wait joins a queue. *)
LEMMA WaitReadKeeps ==
  ASSUME RWInv, NEW c \in Clients, Runs(c, "callRead"), ~ReaderMayEnter,
         microtasks' = Tail(microtasks), readerQueue' = Append(readerQueue, c),
         pc' = [pc EXCEPT ![c] = "waitRead"],
         UNCHANGED <<readers, writerActive, writerQueue>>
  PROVE  RWInv' /\ Readers' = Readers /\ Writers' = Writers
<1>1. pc[c] = "callRead" /\ readerQueue \in Seq(Clients) /\ writerQueue \in Seq(Clients)
  BY RunsTail DEF RWInv, TypeOK
<1>2. TypeOK'
  BY <1>1, RunsTail, AppendTyped DEF RWInv, TypeOK, Pc
<1>3. Readers' = Readers /\ Writers' = Writers /\ Woken' = Woken
  BY <1>1 DEF RWInv, TypeOK, Readers, Writers, Woken
<1>4. QueuesWait'
  <2>1. \A i \in 1..Len(readerQueue) : pc'[readerQueue[i]] = "waitRead"
    BY <1>1 DEF RWInv, TypeOK, QueuesWait
  <2>2. \A i \in 1..Len(readerQueue') : pc'[readerQueue'[i]] = "waitRead"
    BY <1>1, <2>1, AppendTyped DEF RWInv, TypeOK
  <2> QED
    BY <1>1, <2>2 DEF RWInv, TypeOK, QueuesWait
<1>5. Readers \cup Writers \cup Woken # {}
  BY DEF RWInv, NoLostWakeup, FlagMeansWriter, ReaderMayEnter
<1>6. Counted' /\ FlagMeansWriter' /\ NoLostWakeup'
  BY <1>3, <1>5 DEF RWInv, Counted, FlagMeansWriter, NoLostWakeup
<1> QED
  BY <1>2, <1>3, <1>4, <1>6 DEF RWInv

LEMMA WaitWriteKeeps ==
  ASSUME RWInv, NEW c \in Clients, Runs(c, "callWrite"), ~WriterMayEnter,
         microtasks' = Tail(microtasks), writerQueue' = Append(writerQueue, c),
         pc' = [pc EXCEPT ![c] = "waitWrite"],
         UNCHANGED <<readers, writerActive, readerQueue>>
  PROVE  RWInv' /\ Readers' = Readers /\ Writers' = Writers
<1>1. pc[c] = "callWrite" /\ readerQueue \in Seq(Clients) /\ writerQueue \in Seq(Clients)
  BY RunsTail DEF RWInv, TypeOK
<1>2. TypeOK'
  BY <1>1, RunsTail, AppendTyped DEF RWInv, TypeOK, Pc
<1>3. Readers' = Readers /\ Writers' = Writers /\ Woken' = Woken
  BY <1>1 DEF RWInv, TypeOK, Readers, Writers, Woken
<1>4. QueuesWait'
  <2>1. \A i \in 1..Len(writerQueue) : pc'[writerQueue[i]] = "waitWrite" /\ writerQueue[i] # c
    BY <1>1 DEF RWInv, TypeOK, QueuesWait
  <2>2. /\ \A i \in 1..Len(writerQueue') : pc'[writerQueue'[i]] = "waitWrite"
        /\ \A i, j \in 1..Len(writerQueue') : writerQueue'[i] = writerQueue'[j] => i = j
    BY <1>1, <2>1, AppendTyped DEF RWInv, TypeOK, QueuesWait
  <2> QED
    BY <1>1, <2>2 DEF RWInv, TypeOK, QueuesWait
<1>5. Readers \cup Writers \cup Woken # {}
  BY ReadersCounted DEF RWInv, FlagMeansWriter, WriterMayEnter
<1>6. Counted' /\ FlagMeansWriter' /\ NoLostWakeup'
  BY <1>3, <1>5 DEF RWInv, Counted, FlagMeansWriter, NoLostWakeup
<1> QED
  BY <1>2, <1>3, <1>4, <1>6 DEF RWInv

----------------------------------------------------------------------------
(* A call ends, and checkQueues wakes who is next. *)

LEMMA CheckQueuesKeeps ==
  ASSUME RWInv, NEW c \in Clients, NEW step \in {"endRead", "endWrite"}, Runs(c, step),
         NEW r \in Nat, NEW w \in BOOLEAN, checkQueues(c, r, w)
  PROVE  /\ microtasks' \in Seq(Clients) /\ pc' \in [Clients -> Pc]
         /\ readerQueue' \in Seq(Clients) /\ writerQueue' \in Seq(Clients)
         /\ QueuesWait'
         /\ Readers' = Readers \ {c} /\ Writers' = Writers \ {c}
         /\ w \/ r > 0 \/ (writerQueue' = <<>> /\ readerQueue' = <<>>) \/ Woken' # {}
<1>1. /\ pc[c] = step /\ readerQueue \in Seq(Clients) /\ writerQueue \in Seq(Clients)
      /\ pc \in [Clients -> Pc] /\ Tail(microtasks) \in Seq(Clients)
  BY RunsTail DEF RWInv, TypeOK
<1>2. CASE /\ w \/ r > 0 \/ (writerQueue = <<>> /\ readerQueue = <<>>)
           /\ microtasks' = Tail(microtasks)
           /\ pc' = [pc EXCEPT ![c] = "idle"]
           /\ UNCHANGED <<readerQueue, writerQueue>>
  <2>1. Readers' = Readers \ {c} /\ Writers' = Writers \ {c}
    BY <1>1, <1>2 DEF Readers, Writers
  <2>2. QueuesWait'
    BY <1>1, <1>2 DEF RWInv, QueuesWait
  <2>3. pc' \in [Clients -> Pc]
    BY <1>1, <1>2 DEF Pc
  <2> QED
    BY <1>1, <1>2, <2>1, <2>2, <2>3
<1>3. CASE /\ ~w /\ r = 0 /\ writerQueue # <<>>
           /\ microtasks' = Append(Tail(microtasks), Head(writerQueue))
           /\ writerQueue' = Tail(writerQueue)
           /\ pc' = [pc EXCEPT ![c] = "idle", ![Head(writerQueue)] = "resumeWrite"]
           /\ UNCHANGED readerQueue
  <2> DEFINE d == Head(writerQueue)
  <2>1. /\ d \in Clients /\ Tail(writerQueue) \in Seq(Clients) /\ d = writerQueue[1]
        /\ Len(Tail(writerQueue)) = Len(writerQueue) - 1 /\ Len(writerQueue) \in Nat \ {0}
        /\ \A i \in 1..Len(Tail(writerQueue)) : Tail(writerQueue)[i] = writerQueue[i + 1]
    BY <1>1, <1>3, TailTyped
  <2> HIDE DEF d
  <2>2. pc[d] = "waitWrite"
    BY <2>1 DEF RWInv, QueuesWait
  <2>3. pc' = [pc EXCEPT ![c] = "idle", ![d] = "resumeWrite"]
    BY <1>3 DEF d
  <2>4. \A e \in Clients : pc'[e] = IF e = d THEN "resumeWrite"
                                   ELSE IF e = c THEN "idle" ELSE pc[e]
    BY <1>1, <2>1, <2>3
  <2>5. pc' \in [Clients -> Pc]
    BY <1>1, <2>1, <2>3 DEF Pc, JobPc
  <2>6. Readers' = Readers \ {c} /\ Writers' = Writers \ {c} /\ d \in Woken'
    BY <1>1, <2>1, <2>2, <2>4 DEF Readers, Writers, Woken
  <2>7. microtasks' \in Seq(Clients)
    BY <1>1, <1>3, <2>1, AppendTyped DEF d
  <2>8. \A i \in 1..Len(readerQueue) : readerQueue[i] \in Clients \ {c, d}
    BY <1>1, <2>2 DEF RWInv, QueuesWait
  <2>9. \A i \in 1..Len(writerQueue) : i # 1 => writerQueue[i] \in Clients \ {c, d}
    BY <1>1, <2>1 DEF RWInv, QueuesWait
  <2>10. \A i \in 1..Len(readerQueue) : pc'[readerQueue[i]] = "waitRead"
    BY <2>4, <2>8 DEF RWInv, QueuesWait
  <2>11. \A i \in 1..Len(writerQueue) : i # 1 => pc'[writerQueue[i]] = "waitWrite"
    BY <2>4, <2>9 DEF RWInv, QueuesWait
  <2> DEFINE rest == Tail(writerQueue)
             n == Len(writerQueue)
  <2>12. /\ n \in Nat \ {0} /\ writerQueue' = rest /\ Len(rest) = n - 1
         /\ \A i \in 1..Len(rest) : rest[i] = writerQueue[i + 1]
    BY <1>3, <2>1
  <2>13. /\ \A i \in 1..n : i # 1 => pc'[writerQueue[i]] = "waitWrite"
         /\ \A i, j \in 1..n : writerQueue[i] = writerQueue[j] => i = j
    BY <2>11 DEF RWInv, QueuesWait
  <2> HIDE DEF rest, n
  <2>14. \A i \in 1..(n - 1) : i + 1 \in 1..n /\ i + 1 # 1
    BY <2>12
  <2>15. \A i \in 1..Len(rest) : pc'[rest[i]] = "waitWrite"
    BY <2>12, <2>13, <2>14
  <2>16. \A i, j \in 1..Len(rest) : rest[i] = rest[j] => i = j
    BY <2>12, <2>13, <2>14
  <2>17. QueuesWait'
    BY <1>3, <2>10, <2>12, <2>15, <2>16 DEF QueuesWait
  <2> QED
    BY <1>1, <1>3, <2>1, <2>5, <2>6, <2>7, <2>17
<1>4. CASE /\ ~w /\ r = 0 /\ writerQueue = <<>> /\ readerQueue # <<>>
           /\ microtasks' = Tail(microtasks) \o readerQueue
           /\ readerQueue' = <<>>
           /\ pc' = [d \in Clients |->
                       IF d = c THEN "idle"
                       ELSE IF d \in InQueue(readerQueue) THEN "resumeRead"
                       ELSE pc[d]]
           /\ UNCHANGED writerQueue
  <2>1. \A d \in InQueue(readerQueue) : pc[d] = "waitRead"
    BY DEF InQueue, RWInv, QueuesWait
  <2>2. Readers' = Readers \ {c} /\ Writers' = Writers \ {c}
    BY <1>1, <1>4, <2>1 DEF Readers, Writers
  <2>3. Head(readerQueue) \in Clients /\ Head(readerQueue) \in InQueue(readerQueue)
    BY <1>1, <1>4, TailTyped DEF InQueue
  <2>4. Head(readerQueue) \in Woken'
    BY <1>1, <1>4, <2>1, <2>3 DEF Woken
  <2>5. pc' \in [Clients -> Pc]
    BY <1>1, <1>4 DEF Pc, JobPc
  <2>6. QueuesWait'
    BY <1>1, <1>4 DEF QueuesWait
  <2> QED
    BY <1>1, <1>4, <2>2, <2>4, <2>5, <2>6
<1> QED
  BY <1>2, <1>3, <1>4 DEF checkQueues

LEMMA EndReadKeeps ==
  ASSUME RWInv, NEW c \in Clients, EndRead(c)
  PROVE  RWInv' /\ Readers' = Readers \ {c} /\ Writers' = Writers
<1>1. pc[c] = "endRead" /\ c \in Readers /\ c \notin Writers
  BY DEF EndRead, Runs, Readers, Writers
<1>2. readers \in Nat \ {0}
  BY <1>1, ReadersCounted
<1> DEFINE r == readers - 1
<1>3. r \in Nat /\ writerActive \in BOOLEAN
  BY <1>2 DEF RWInv, TypeOK
<1>4. /\ readers' = r /\ checkQueues(c, r, writerActive) /\ UNCHANGED writerActive
      /\ Runs(c, "endRead")
  BY DEF EndRead
<1> HIDE DEF r
<1>5. /\ microtasks' \in Seq(Clients) /\ pc' \in [Clients -> Pc]
      /\ readerQueue' \in Seq(Clients) /\ writerQueue' \in Seq(Clients)
      /\ QueuesWait'
      /\ Readers' = Readers \ {c} /\ Writers' = Writers \ {c}
      /\ writerActive \/ r > 0 \/ (writerQueue' = <<>> /\ readerQueue' = <<>>)
           \/ Woken' # {}
  BY <1>3, <1>4, CheckQueuesKeeps
<1>6. TypeOK'
  BY <1>3, <1>4, <1>5 DEF TypeOK
<1>7. Counted' /\ (readers' > 0 <=> Readers' # {})
  BY <1>1, <1>4, <1>5, ReaderLeaves DEF r
<1>8. Writers' = Writers /\ FlagMeansWriter'
  BY <1>1, <1>4, <1>5 DEF RWInv, FlagMeansWriter
<1>9. NoLostWakeup'
  BY <1>4, <1>5, <1>7, <1>8 DEF NoLostWakeup, FlagMeansWriter
<1> QED
  BY <1>5, <1>6, <1>7, <1>8, <1>9 DEF RWInv

LEMMA EndWriteKeeps ==
  ASSUME RWInv, NEW c \in Clients, EndWrite(c)
  PROVE  RWInv' /\ Readers' = Readers /\ Writers' = Writers \ {c}
<1>1. pc[c] = "endWrite" /\ c \notin Readers
  BY DEF EndWrite, Runs, Readers
<1>2. /\ writerActive' = FALSE /\ checkQueues(c, readers, FALSE) /\ UNCHANGED readers
      /\ Runs(c, "endWrite")
  BY DEF EndWrite
<1>3. readers \in Nat /\ (readers = 0 <=> Readers = {})
  BY ReadersCounted
<1>4. /\ microtasks' \in Seq(Clients) /\ pc' \in [Clients -> Pc]
      /\ readerQueue' \in Seq(Clients) /\ writerQueue' \in Seq(Clients)
      /\ QueuesWait'
      /\ Readers' = Readers \ {c} /\ Writers' = Writers \ {c}
      /\ FALSE \/ readers > 0 \/ (writerQueue' = <<>> /\ readerQueue' = <<>>)
           \/ Woken' # {}
  BY <1>2, <1>3, CheckQueuesKeeps
<1>5. TypeOK' /\ Readers' = Readers
  BY <1>1, <1>2, <1>3, <1>4 DEF TypeOK
<1>6. Counted' /\ FlagMeansWriter'
  BY <1>2, <1>5 DEF RWInv, Counted, FlagMeansWriter
<1>7. NoLostWakeup'
  BY <1>3, <1>4, <1>5 DEF NoLostWakeup
<1> QED
  BY <1>4, <1>5, <1>6, <1>7 DEF RWInv

(* Who is inside before and after a step.                                  *)
Enters(c) ==
  \/ (pc[c] = "resumeRead" \/ ~writerActive) /\ pc[c] \in {"callRead", "resumeRead"}
       /\ readers' = readers + 1 /\ writerActive' = writerActive
       /\ c \notin Readers /\ Readers' = Readers \cup {c} /\ Writers' = Writers
  \/ (pc[c] = "resumeWrite" \/ (~writerActive /\ readers = 0))
       /\ pc[c] \in {"callWrite", "resumeWrite"}
       /\ readers' = readers /\ writerActive'
       /\ Readers' = Readers /\ Writers' = Writers \cup {c}

Leaves(c) ==
  \/ readers' = readers - 1 /\ writerActive' = writerActive
       /\ Readers' = Readers \ {c} /\ Writers' = Writers
  \/ readers' = readers /\ ~writerActive' /\ c \in Writers
       /\ Readers' = Readers /\ Writers' = Writers \ {c}

Stays ==
  UNCHANGED <<readers, writerActive>> /\ Readers' = Readers /\ Writers' = Writers

LEMMA CallStep ==
  ASSUME RWInv, NEW c \in Clients, CallRead(c) \/ CallWrite(c)
  PROVE  RWInv' /\ (Stays \/ Enters(c))
<1>1. CASE CallRead(c) /\ ReaderMayEnter
  BY <1>1, EnterReadKeeps DEF CallRead, Runs, Enters, ReaderMayEnter
<1>2. CASE CallRead(c) /\ ~ReaderMayEnter
  BY <1>2, WaitReadKeeps DEF CallRead, Stays
<1>3. CASE CallWrite(c) /\ WriterMayEnter
  BY <1>3, EnterWriteKeeps DEF CallWrite, Runs, Enters, WriterMayEnter
<1>4. CASE CallWrite(c) /\ ~WriterMayEnter
  BY <1>4, WaitWriteKeeps DEF CallWrite, Stays
<1> QED
  BY <1>1, <1>2, <1>3, <1>4

LEMMA RWStep ==
  ASSUME RWInv, [Next]_vars
  PROVE  RWInv' /\ (Stays \/ \E c \in Clients : Enters(c) \/ Leaves(c))
<1>1. CASE UNCHANGED vars
  BY <1>1 DEF vars, RWInv, TypeOK, QueuesWait, Counted, FlagMeansWriter, NoLostWakeup, Stays,
     Readers, Writers, Woken
<1>2. ASSUME NEW c \in Clients, WantRead(c) \/ WantWrite(c) \/ FnSettles(c)
      PROVE  RWInv' /\ Stays
  BY <1>2, ScheduleKeeps DEF WantRead, WantWrite, FnSettles, Schedule, Stays
<1>3. ASSUME NEW c \in Clients, ResumeRead(c)
      PROVE  RWInv' /\ Enters(c)
  BY <1>3, EnterReadKeeps DEF ResumeRead, Runs, Enters
<1>4. ASSUME NEW c \in Clients, ResumeWrite(c)
      PROVE  RWInv' /\ Enters(c)
  BY <1>4, EnterWriteKeeps DEF ResumeWrite, Runs, Enters
<1>5. ASSUME NEW c \in Clients, EndRead(c)
      PROVE  RWInv' /\ Leaves(c)
  BY <1>5, EndReadKeeps DEF EndRead, Leaves
<1>6. ASSUME NEW c \in Clients, EndWrite(c)
      PROVE  RWInv' /\ Leaves(c)
  BY <1>6, EndWriteKeeps DEF EndWrite, Runs, Writers, Leaves
<1> QED
  BY <1>1, <1>2, <1>3, <1>4, <1>5, <1>6, CallStep DEF Next, RunJob

LEMMA RWAlways == Spec => []RWInv
<1>1. RWInv /\ [Next]_vars => RWInv'
  BY RWStep
<1> QED
  BY <1>1, InitRWInv, PTL DEF Spec

(* Whoever waits in a queue of the lock has somebody who will call         *)
(* checkQueues, although writers that overlap reset each other's flag:     *)
(* SingleWriterMultiReaderLock.ts, whatever calls come at whatever time.   *)
THEOREM NobodyWaitsAlone == Spec => []NoLostWakeup
<1>1. RWInv => NoLostWakeup
  BY DEF RWInv
<1> QED
  BY <1>1, RWAlways, PTL

(* Nobody runs beside a writer, and the fast paths read it rightly. *)
Excluded == OneWriterOrReaders /\ FlagsAgree

LEMMA ExcludedAsSets ==
  OneWriterOrReaders <=>
    \A c \in Writers : Writers = {c} /\ Readers \subseteq {c}
BY DEF OneWriterOrReaders, Readers, Writers

(* Exclusion is only ever lost in the gap between the resolve of a queued  *)
(* caller and the code that awaits it: no call that comes while nobody     *)
(* stands in that gap enters beside a writer (withReadLock, withWriteLock).*)
THEOREM ExclusionKept == Spec => LostOnlyWhileWaking
<1>1. ASSUME RWInv, RWInv', Excluded, Woken = {}, [Next]_vars
      PROVE  Excluded'
  <2>1. Counted' /\ (readers = 0 <=> Readers = {})
    BY <1>1, ReadersCounted DEF RWInv
  <2>2. CASE Stays
    BY <1>1, <2>1, <2>2 DEF Stays, Excluded, OneWriterOrReaders, FlagsAgree, Counted
  <2>3. ASSUME NEW c \in Clients, Leaves(c)
        PROVE  Excluded'
    <3>1. OneWriterOrReaders'
      BY <1>1, <2>3 DEF Leaves, Excluded, OneWriterOrReaders
    <3>2. writerActive' <=> Writers' # {}
      BY <1>1, <2>3, ExcludedAsSets DEF Leaves, Excluded, FlagsAgree
    <3> QED
      BY <2>1, <3>1, <3>2 DEF Excluded, FlagsAgree, Counted
  <2>4. ASSUME NEW c \in Clients, Enters(c)
        PROVE  Excluded'
    <3>1. pc[c] \notin {"resumeRead", "resumeWrite"}
      BY <1>1 DEF Woken
    <3>2. Writers = {}
      BY <1>1, <2>4, <3>1 DEF Enters, Excluded, FlagsAgree
    <3>3. OneWriterOrReaders'
      BY <2>1, <2>4, <3>1, <3>2 DEF Enters, OneWriterOrReaders
    <3>4. writerActive' <=> Writers' # {}
      BY <1>1, <2>4, <3>1, <3>2 DEF Enters, Excluded, FlagsAgree
    <3> QED
      BY <2>1, <3>3, <3>4 DEF Excluded, FlagsAgree, Counted
  <2> QED
    BY <1>1, <2>2, <2>3, <2>4, RWStep
<1>2. RWInv /\ RWInv' /\ [Next]_vars =>
        [(OneWriterOrReaders /\ FlagsAgree /\ Woken = {})
           => (OneWriterOrReaders /\ FlagsAgree)']_vars
  BY <1>1 DEF Excluded
<1> QED
  BY <1>2, RWAlways, PTL DEF Spec, LostOnlyWhileWaking

----------------------------------------------------------------------------
(* Ranges of heights *)

(* Union and subtract describe the union and the difference of the sets of *)
(* heights whenever they do not throw, above is what lies above a range    *)
(* that does not lie far below, and length counts: HeightRange.ts, for all *)
(* integers.                                                               *)
THEOREM RangesAreSets ==
  ASSUME NEW r \in HeightRanges, NEW s \in HeightRanges
  PROVE  /\ IsEmpty(r) <=> Heights(r) = {}
         /\ Heights(Intersect(r, s)) = Heights(r) \cap Heights(s)
         /\ Touch(r, s) => Heights(Union(r, s)) = Heights(r) \cup Heights(s)
         /\ ~Splits(r, s) => Heights(Subtract(r, s)) = Heights(r) \ Heights(s)
         /\ s.max + 1 >= r.min =>
              Heights(Above(r, s)) = {h \in Heights(r) : \A g \in Heights(s) : h > g}
         /\ IsFiniteSet(Heights(r)) /\ Cardinality(Heights(r)) = Length(r)
<1>1. r.min \in Int /\ r.max \in Int /\ s.min \in Int /\ s.max \in Int
  BY DEF HeightRanges
<1>2. IsEmpty(r) <=> Heights(r) = {}
  BY <1>1 DEF IsEmpty, Heights
<1>3. Heights(Intersect(r, s)) = Heights(r) \cap Heights(s)
  BY <1>1 DEF Intersect, Between, Heights, Higher, Lower
<1>4. Touch(r, s) => Heights(Union(r, s)) = Heights(r) \cup Heights(s)
  BY <1>1 DEF Touch, Union, IsEmpty, Between, Heights, Higher, Lower
<1>5. ~Splits(r, s) => Heights(Subtract(r, s)) = Heights(r) \ Heights(s)
  BY <1>1 DEF Splits, Subtract, IsEmpty, Between, Heights
<1>6. IsFiniteSet(Heights(r)) /\ Cardinality(Heights(r)) = Length(r)
  BY <1>1, FS_Interval DEF Heights, Length, Higher
<1>7. s.max + 1 >= r.min =>
        Heights(Above(r, s)) = {h \in Heights(r) : \A g \in Heights(s) : h > g}
  <2> SUFFICES ASSUME s.max + 1 >= r.min
               PROVE  Heights(Above(r, s)) = {h \in Heights(r) : \A g \in Heights(s) : h > g}
    OBVIOUS
  <2>1. CASE IsEmpty(r) \/ IsEmpty(s)
    BY <1>1, <2>1 DEF Above, IsEmpty, Heights
  <2>2. CASE ~IsEmpty(r) /\ ~IsEmpty(s)
    <3>1. s.max \in Heights(s) /\ \A g \in Heights(s) : g <= s.max
      BY <1>1, <2>2 DEF IsEmpty, Heights
    <3> QED
      BY <1>1, <2>2, <3>1 DEF Above, IsEmpty, Between, Heights
  <2> QED
    BY <2>1, <2>2
<1> QED
  BY <1>2, <1>3, <1>4, <1>5, <1>6, <1>7

(* They throw for a reason: the result would not be one range.             *)
THEOREM ThrowsForAGap ==
  ASSUME NEW r \in HeightRanges, NEW s \in HeightRanges, NEW u \in HeightRanges
  PROVE  /\ ~Touch(r, s) => Heights(u) # Heights(r) \cup Heights(s)
         /\ Splits(r, s) => Heights(u) # Heights(r) \ Heights(s)
<1>1. /\ r.min \in Int /\ r.max \in Int /\ s.min \in Int /\ s.max \in Int
      /\ u.min \in Int /\ u.max \in Int
  BY DEF HeightRanges
<1>2. ~Touch(r, s) => Heights(u) # Heights(r) \cup Heights(s)
  <2> SUFFICES ASSUME ~Touch(r, s), Heights(u) = Heights(r) \cup Heights(s) PROVE FALSE
    OBVIOUS
  <2>1. r.min \in Heights(u) /\ s.min \in Heights(u) /\ r.max \in Heights(u) /\ s.max \in Heights(u)
    BY <1>1 DEF Touch, IsEmpty, Heights
  <2>2. CASE r.max + 1 < s.min
    <3>1. r.max + 1 \in Heights(u)
      BY <1>1, <2>1, <2>2 DEF Heights
    <3> QED
      BY <1>1, <2>2, <3>1 DEF Heights
  <2>3. CASE s.max + 1 < r.min
    <3>1. s.max + 1 \in Heights(u)
      BY <1>1, <2>1, <2>3 DEF Heights
    <3> QED
      BY <1>1, <2>3, <3>1 DEF Heights
  <2> QED
    BY <1>1, <2>2, <2>3 DEF Touch
<1>3. Splits(r, s) => Heights(u) # Heights(r) \ Heights(s)
  <2> SUFFICES ASSUME Splits(r, s), Heights(u) = Heights(r) \ Heights(s) PROVE FALSE
    OBVIOUS
  <2>1. r.min \in Heights(u) /\ r.max \in Heights(u) /\ s.min \notin Heights(u)
    BY <1>1 DEF Splits, IsEmpty, Heights
  <2> QED
    BY <1>1, <2>1 DEF Splits, IsEmpty, Heights
<1> QED
  BY <1>2, <1>3
=============================================================================

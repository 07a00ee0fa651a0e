----------------------------- MODULE RuntimeProofs -----------------------------
(***************************************************************************)
(* Theorems about Runtime for any number of streams, of worker threads and *)
(* any size of a pipe, whichever ffmpegs and connections die.              *)
(***************************************************************************)
EXTENDS Runtime, FiniteSetTheorems, SequenceTheorems, TLAPS

-----------------------------------------------------------------------------
(* The lock of the map and its queue.                                       *)

Labels  == Ready \cup OnThread \cup Parked \cup Ended
Holders == {"granted", "locked", "writing", "removing", "removed", "unlinked"}

LockInv ==
    /\ at \in [Streams -> Labels]
    /\ lock \in Streams \cup {None}
    /\ waiters \in Seq(Streams)
    /\ LockIsExact

\* Whom a step of the task of s moves: s, and a task that gets the lock.
OnlyWakes(s) ==
    \A t \in Streams : t = s \/ at'[t] = at[t] \/ (at[t] = "queued" /\ at'[t] = "granted")

\* A task goes on and neither takes the lock nor drops it.
LEMMA Moves ==
    ASSUME LockInv, NEW s \in Streams, NEW l \in Labels, Goto(s, l),
           at[s] # "queued", l # "queued", at[s] \in Holders <=> l \in Holders,
           UNCHANGED <<lock, waiters>>
    PROVE  LockInv' /\ OnlyWakes(s) /\ at'[s] = l
<1>1. at' \in [Streams -> Labels] /\ \A t \in Streams : at'[t] = IF t = s THEN l ELSE at[t]
  BY DEF LockInv, Goto
<1>2. LockIsExact'
  BY <1>1 DEF LockInv, LockIsExact, Holders
<1> QED  BY <1>1, <1>2 DEF LockInv, OnlyWakes

\* A task finds the lock free.
LEMMA Takes ==
    ASSUME LockInv, NEW s \in Streams, at[s] = "asking", lock = None, Goto(s, "locked"), lock' = s,
           UNCHANGED waiters
    PROVE  LockInv' /\ OnlyWakes(s) /\ at'[s] = "locked"
<1>1. /\ at' \in [Streams -> Labels]
      /\ \A t \in Streams : at'[t] = IF t = s THEN "locked" ELSE at[t]
  BY DEF LockInv, Goto, Labels, OnThread
<1>2. None \notin Streams
  BY RuntimeAssumption
<1>3. \A t \in Streams : at[t] \notin Holders
  BY <1>2 DEF LockInv, LockIsExact, Holders
<1>4. LockIsExact'
  BY <1>1, <1>2, <1>3 DEF LockInv, LockIsExact, Holders
<1> QED  BY <1>1, <1>4 DEF LockInv, OnlyWakes

\* A task finds the lock taken and joins the queue.
LEMMA Joins ==
    ASSUME LockInv, NEW s \in Streams, at[s] = "asking", lock # None, Goto(s, "queued"),
           waiters' = Append(waiters, s), UNCHANGED lock
    PROVE  LockInv' /\ OnlyWakes(s) /\ at'[s] = "queued"
<1> DEFINE n == Len(waiters)
<1>1. /\ at' \in [Streams -> Labels]
      /\ \A t \in Streams : at'[t] = IF t = s THEN "queued" ELSE at[t]
  BY DEF LockInv, Goto, Labels, Parked
<1>2. waiters \in Seq(Streams) /\ n \in Nat
  BY DEF LockInv
<1>3. /\ waiters' \in Seq(Streams) /\ Len(waiters') = n + 1 /\ waiters'[n + 1] = s
      /\ \A i \in 1..n : waiters'[i] = waiters[i]
  BY <1>2
<1>4. \A i \in 1..n : waiters[i] # s
  BY DEF LockInv, LockIsExact
<1> HIDE DEF n
<1>5. \A i \in 1..(n + 1) : i \in 1..n \/ i = n + 1
  BY <1>2
<1>6. \A t \in Streams : at'[t] \in Holders <=> lock' = t
  BY <1>1 DEF LockInv, LockIsExact, Holders
<1>7. ASSUME NEW t \in Streams
      PROVE  at'[t] = "queued" <=> \E i \in 1..(n + 1) : waiters'[i] = t
  <2>1. CASE t = s
    <3>1. n + 1 \in 1..(n + 1)
      BY <1>2
    <3> QED  BY <1>1, <1>3, <2>1, <3>1
  <2>2. CASE t # s
    <3>1. at'[t] = "queued" <=> \E i \in 1..n : waiters[i] = t
      BY <1>1, <2>2 DEF LockInv, LockIsExact, n
    <3>2. \A i \in 1..n : i \in 1..(n + 1)
      BY <1>2
    <3> QED  BY <1>3, <1>5, <2>2, <3>1, <3>2
  <2> QED  BY <2>1, <2>2
<1>8. \A i, k \in 1..(n + 1) : waiters'[i] = waiters'[k] => i = k
  <2>1. \A i, k \in 1..n : waiters[i] = waiters[k] => i = k
    BY DEF LockInv, LockIsExact, n
  <2> QED  BY <1>3, <1>4, <1>5, <2>1
<1>9. LockIsExact'
  BY <1>3, <1>6, <1>7, <1>8 DEF LockIsExact, Holders
<1> QED  BY <1>1, <1>3, <1>9 DEF LockInv, OnlyWakes

\* The guard is dropped: the lock becomes free, or goes to the head of the queue,
\* which is another task.
LEMMA Unlocks ==
    ASSUME LockInv, NEW s \in Streams, at[s] \in Holders, NEW next \in {"idle", "listing"},
           Unlock(s, next)
    PROVE  LockInv' /\ OnlyWakes(s) /\ at'[s] = next
<1>1. lock = s /\ next \in Labels /\ next \notin Holders /\ next # "queued" /\ None \notin Streams
  BY RuntimeAssumption DEF LockInv, LockIsExact, Holders, Labels, OnThread, Parked
<1>2. CASE waiters = <<>> /\ lock' = None /\ Goto(s, next) /\ UNCHANGED waiters
  <2>1. at' \in [Streams -> Labels] /\ \A t \in Streams : at'[t] = IF t = s THEN next ELSE at[t]
    BY <1>1, <1>2 DEF LockInv, Goto
  <2>2. LockIsExact'
    BY <1>1, <1>2, <2>1 DEF LockInv, LockIsExact, Holders
  <2> QED  BY <1>2, <2>1, <2>2 DEF LockInv, OnlyWakes
<1>3. CASE /\ waiters # <<>>
           /\ lock' = Head(waiters)
           /\ waiters' = Tail(waiters)
           /\ at' = [at EXCEPT ![s] = next, ![Head(waiters)] = "granted"]
  <2> DEFINE n == Len(waiters)
             h == waiters[1]
  <2>1. /\ waiters \in Seq(Streams) /\ n \in Nat /\ n # 0 /\ h \in Streams /\ Head(waiters) = h
        /\ \A i, k \in 1..n : waiters[i] = waiters[k] => i = k
        /\ \A t \in Streams : at[t] = "queued" <=> \E i \in 1..n : waiters[i] = t
    BY <1>3 DEF LockInv, LockIsExact
  <2>2. /\ waiters' \in Seq(Streams) /\ Len(waiters') = n - 1
        /\ \A i \in 1..(n - 1) : waiters'[i] = waiters[i + 1]
    BY <1>3, <2>1
  <2>3. 1 \in 1..n
    BY <2>1
  <2> HIDE DEF n
  <2>4. at[h] = "queued" /\ h # s
    BY <2>1, <2>3 DEF Holders
  <2> HIDE DEF h
  <2>5. /\ at' \in [Streams -> Labels]
        /\ \A t \in Streams : at'[t] = IF t = h THEN "granted" ELSE IF t = s THEN next ELSE at[t]
    BY <1>1, <1>3, <2>1, <2>4 DEF LockInv, Labels, Ready
  <2>6. \A t \in Streams : at'[t] \in Holders <=> lock' = t
    BY <1>1, <1>3, <2>1, <2>5 DEF LockInv, LockIsExact, Holders
  <2>7. ASSUME NEW t \in Streams
        PROVE  at'[t] = "queued" <=> \E i \in 1..(n - 1) : waiters'[i] = t
    <3>1. ASSUME at'[t] = "queued"
          PROVE  \E i \in 1..(n - 1) : waiters'[i] = t
      <4>1. t # h /\ at[t] = "queued"
        BY <1>1, <2>5, <3>1
      <4>2. PICK k \in 1..n : waiters[k] = t
        BY <2>1, <4>1
      <4>3. k - 1 \in 1..(n - 1) /\ (k - 1) + 1 = k
        BY <2>1, <4>1, <4>2 DEF h
      <4> QED  BY <2>2, <4>2, <4>3
    <3>2. ASSUME NEW i \in 1..(n - 1), waiters'[i] = t
          PROVE  at'[t] = "queued"
      <4>1. i + 1 \in 1..n /\ i + 1 # 1
        BY <2>1
      <4>2. waiters[i + 1] = t
        BY <2>2, <3>2
      <4>3. t # h
        BY <2>1, <2>3, <4>1, <4>2 DEF h
      <4>4. at[t] = "queued"
        BY <2>1, <4>1, <4>2
      <4> QED  BY <2>5, <4>3, <4>4 DEF Holders
    <3> QED  BY <3>1, <3>2
  <2>8. ASSUME NEW i \in 1..(n - 1), NEW k \in 1..(n - 1), waiters'[i] = waiters'[k]
        PROVE  i = k
    <3>1. i + 1 \in 1..n /\ k + 1 \in 1..n /\ waiters[i + 1] = waiters[k + 1]
      BY <2>1, <2>2, <2>8
    <3> QED  BY <2>1, <3>1
  <2>9. lock' # None
    BY <1>1, <1>3, <2>1
  <2>10. LockIsExact'
    BY <2>2, <2>6, <2>7, <2>8, <2>9 DEF LockIsExact, Holders
  <2> QED  BY <1>3, <2>1, <2>2, <2>4, <2>5, <2>10 DEF LockInv, OnlyWakes
<1> QED  BY <1>2, <1>3 DEF Unlock

-----------------------------------------------------------------------------
(* Threads.                                                                 *)

\* What TypeOK says beside the lock.
PipeType ==
    /\ workers \in WorkerCounts
    /\ op \in [Streams -> {"start", "send", "stop"}]
    /\ monitor \in [Streams -> {"none", "spawned", "reading", "ended"}]
    /\ ffmpeg \in [Streams -> {"none", "running", "ended"}]
    /\ entry \subseteq Streams
    /\ stdin \in [Streams -> 0..PipeSize]
    /\ stderr \in [Streams -> 0..PipeSize]

ThreadCount == Cardinality(Readers) + Cardinality(Callers) <= workers

\* Whatever belongs to a stream that was started.
StreamOK(s) ==
    /\ ffmpeg[s] = "none" <=> monitor[s] = "none"
    /\ monitor[s] = "ended" => ffmpeg[s] = "ended"
    /\ s \in entry => ffmpeg[s] # "none"
    /\ at[s] \in {"writing", "removing", "removed", "unlinked"} => s \in entry

Inv == LockInv /\ PipeType /\ ThreadCount /\ \A s \in Streams : StreamOK(s)

LEMMA InvIs == Inv <=> ThreadsInv
BY DEF Inv, LockInv, PipeType, ThreadCount, StreamOK, ThreadsInv, TypeOK, Labels

LEMMA InvInit == Init => Inv
<1> SUFFICES ASSUME Init PROVE Inv
  OBVIOUS
<1>1. LockInv
  <2>1. None \notin Streams
    BY RuntimeAssumption
  <2> QED  BY <2>1 DEF Init, LockInv, LockIsExact, Labels, Parked
<1>2. PipeType
  BY RuntimeAssumption DEF Init, PipeType
<1>3. ThreadCount
  <2>1. Readers = {} /\ Callers = {}
    BY DEF Init, Readers, Callers, OnThread
  <2>2. Cardinality(Readers) = 0 /\ Cardinality(Callers) = 0
    BY <2>1, FS_EmptySet
  <2>3. workers \in Nat
    BY RuntimeAssumption DEF Init
  <2> QED  BY <2>2, <2>3 DEF ThreadCount
<1>4. \A s \in Streams : StreamOK(s)
  BY DEF Init, StreamOK
<1> QED  BY <1>1, <1>2, <1>3, <1>4 DEF Inv

\* The two sets that share the threads, before and after a step, can be counted.
LEMMA Countable ==
    /\ IsFiniteSet(Readers) /\ Cardinality(Readers) \in Nat
    /\ IsFiniteSet(Callers) /\ Cardinality(Callers) \in Nat
    /\ IsFiniteSet(Readers') /\ Cardinality(Readers') \in Nat
    /\ IsFiniteSet(Callers') /\ Cardinality(Callers') \in Nat
<1>1. Readers \subseteq Streams /\ Callers \subseteq Streams
  BY DEF Readers, Callers
<1>2. Readers' \subseteq Streams /\ Callers' \subseteq Streams
  BY DEF Readers, Callers
<1>3. ASSUME NEW S, S \subseteq Streams
      PROVE  IsFiniteSet(S) /\ Cardinality(S) \in Nat
  <2>1. IsFiniteSet(S)
    BY <1>3, FS_Subset, RuntimeAssumption
  <2> QED  BY <2>1, FS_CardinalityType
<1> QED  BY <1>1, <1>2, <1>3

\* A step that puts no task on a thread leaves enough of them.
LEMMA NoneStarts ==
    ASSUME Inv, workers' = workers,
           \A s \in Streams : monitor'[s] = "reading" => monitor[s] = "reading",
           \A s \in Streams : at'[s] \in OnThread => at[s] \in OnThread
    PROVE  ThreadCount'
<1>1. Readers' \subseteq Readers /\ Callers' \subseteq Callers
  BY DEF Readers, Callers
<1>2. Cardinality(Readers') <= Cardinality(Readers)
  BY <1>1, Countable, FS_Subset
<1>3. Cardinality(Callers') <= Cardinality(Callers)
  BY <1>1, Countable, FS_Subset
<1>4. workers \in Nat
  BY RuntimeAssumption DEF Inv, PipeType
<1> QED  BY <1>2, <1>3, <1>4, Countable DEF Inv, ThreadCount

\* A step of a connection's task that leaves its monitor and ffmpeg, and needs the
\* entry it keeps.
LEMMA CallerStays ==
    ASSUME Inv, NEW s \in Streams, LockInv', OnlyWakes(s), PipeType',
           at'[s] \in OnThread => at[s] \in OnThread,
           workers' = workers, UNCHANGED <<monitor, ffmpeg>>,
           entry' \in {entry, entry \ {s}},
           at'[s] \in {"writing", "removing", "removed", "unlinked"} => s \in entry'
    PROVE  Inv'
<1>1. ThreadCount'
  BY NoneStarts DEF OnlyWakes, OnThread
<1>2. \A t \in Streams : StreamOK(t)'
  BY DEF Inv, StreamOK, OnlyWakes
<1> QED  BY <1>1, <1>2 DEF Inv

\* A step of ffmpeg or of its monitor.
LEMMA PipeStep ==
    ASSUME Inv, PipeType', ThreadCount', UNCHANGED <<at, lock, waiters, entry>>,
           \A s \in Streams : /\ ffmpeg'[s] = "none" <=> ffmpeg[s] = "none"
                              /\ monitor'[s] = "none" <=> monitor[s] = "none"
                              /\ monitor'[s] = "ended" => ffmpeg'[s] = "ended"
    PROVE  Inv'
<1>1. LockInv'
  BY DEF Inv, LockInv, LockIsExact
<1>2. \A s \in Streams : StreamOK(s)'
  BY DEF Inv, StreamOK
<1> QED  BY <1>1, <1>2 DEF Inv

-----------------------------------------------------------------------------
(* The steps.                                                               *)

LEMMA CallerKeeps ==
    ASSUME Inv, NEW s \in Streams, Receive(s) \/ Die(s) \/ Ask(s) \/ Removed(s) \/ Listed(s)
    PROVE  Inv'
<1>1. CASE Receive(s)
  <2>1. LockInv' /\ OnlyWakes(s) /\ at'[s] = "ready"
    BY <1>1, Moves DEF Receive, Inv, Labels, Ready, Holders
  <2>2. PipeType'
    BY <1>1 DEF Receive, Inv, PipeType, pipes
  <2> QED  BY <1>1, <2>1, <2>2, CallerStays DEF Receive, pipes, OnThread
<1>2. CASE Die(s)
  <2>1. LockInv' /\ OnlyWakes(s) /\ at'[s] = "dead"
    BY <1>2, Moves DEF Die, Inv, Labels, Ended, Holders
  <2>2. PipeType'
    BY <1>2 DEF Die, Inv, PipeType, pipes
  <2> QED  BY <1>2, <2>1, <2>2, CallerStays DEF Die, pipes, OnThread
<1>3. CASE Ask(s)
  <2>1. LockInv' /\ OnlyWakes(s) /\ at'[s] \in {"locked", "queued"}
    BY <1>3, Takes, Joins DEF Ask, Inv
  <2>2. PipeType'
    BY <1>3 DEF Ask, Inv, PipeType, pipes
  <2> QED  BY <1>3, <2>1, <2>2, CallerStays DEF Ask, pipes, OnThread
<1>4. CASE Removed(s)
  <2>1. LockInv' /\ OnlyWakes(s) /\ at'[s] = "removed"
    BY <1>4, Moves DEF Removed, Inv, Labels, Ready, Holders
  <2>2. PipeType'
    BY <1>4 DEF Removed, Inv, PipeType, pipes
  <2>3. s \in entry
    BY <1>4 DEF Removed, Inv, StreamOK
  <2> QED  BY <1>4, <2>1, <2>2, <2>3, CallerStays DEF Removed, pipes, OnThread
<1>5. CASE Listed(s)
  <2>1. LockInv' /\ OnlyWakes(s) /\ at'[s] = "closed"
    BY <1>5, Moves DEF Listed, Inv, Labels, Ended, Holders
  <2>2. PipeType'
    BY <1>5 DEF Listed, Inv, PipeType, pipes
  <2> QED  BY <1>5, <2>1, <2>2, CallerStays DEF Listed, pipes, OnThread
<1> QED  BY <1>1, <1>2, <1>3, <1>4, <1>5

\* The calls that work under the lock, but for the start.
LEMMA HolderKeeps ==
    ASSUME Inv, NEW s \in Streams, Send(s) \/ Write(s) \/ WriteFails(s) \/ Stop(s) \/ Close(s)
    PROVE  Inv'
<1>1. CASE Send(s)
  <2>1. /\ LockInv' /\ OnlyWakes(s)
        /\ at'[s] = "idle" \/ (at'[s] = "writing" /\ s \in entry)
    BY <1>1, Moves, Unlocks DEF Send, Inv, Labels, OnThread, Holders
  <2>2. PipeType'
    BY <1>1 DEF Send, Inv, PipeType, pipes
  <2> QED  BY <1>1, <2>1, <2>2, CallerStays DEF Send, pipes, OnThread
<1>2. CASE Write(s)
  <2>1. LockInv' /\ OnlyWakes(s) /\ at'[s] = "idle"
    BY <1>2, Unlocks DEF Write, Inv, Holders
  <2>2. stdin[s] + 1 \in 0..PipeSize
    BY <1>2, RuntimeAssumption DEF Write, Inv, PipeType
  <2>3. PipeType'
    BY <1>2, <2>2 DEF Write, Inv, PipeType
  <2> QED  BY <1>2, <2>1, <2>3, CallerStays DEF Write, OnThread
<1>3. CASE WriteFails(s)
  <2>1. LockInv' /\ OnlyWakes(s) /\ at'[s] = "idle"
    BY <1>3, Unlocks DEF WriteFails, Inv, Holders
  <2>2. PipeType'
    BY <1>3 DEF WriteFails, Inv, PipeType
  <2> QED  BY <1>3, <2>1, <2>2, CallerStays DEF WriteFails, OnThread
<1>4. CASE Stop(s)
  <2>1. /\ LockInv' /\ OnlyWakes(s)
        /\ at'[s] = "listing" \/ (at'[s] = "removing" /\ s \in entry)
    BY <1>4, Moves, Unlocks DEF Stop, Inv, Labels, Parked, Holders
  <2>2. PipeType'
    BY <1>4 DEF Stop, Inv, PipeType, pipes
  <2> QED  BY <1>4, <2>1, <2>2, CallerStays DEF Stop, pipes, OnThread
<1>5. CASE Close(s)
  <2>1. LockInv' /\ OnlyWakes(s) /\ at'[s] = "listing"
    BY <1>5, Unlocks DEF Close, Inv, Holders
  <2>2. PipeType'
    BY <1>5 DEF Close, Inv, PipeType
  <2> QED  BY <1>5, <2>1, <2>2, CallerStays DEF Close, OnThread
<1> QED  BY <1>1, <1>2, <1>3, <1>4, <1>5

LEMMA InsertKeeps ==
    ASSUME Inv, NEW s \in Streams, Insert(s)
    PROVE  Inv'
<1>1. LockInv' /\ OnlyWakes(s) /\ at'[s] = "idle"
  BY Unlocks DEF Insert, Inv, Holders
<1>2. /\ \A t \in Streams : monitor'[t] = IF t = s THEN "spawned" ELSE monitor[t]
      /\ \A t \in Streams : ffmpeg'[t] = IF t = s THEN "running" ELSE ffmpeg[t]
      /\ entry' = entry \cup {s}
      /\ PipeType'
  BY DEF Insert, Inv, PipeType
<1>3. ThreadCount'
  BY <1>1, <1>2, NoneStarts DEF Insert, OnlyWakes, OnThread
<1>4. \A t \in Streams : StreamOK(t)'
  BY <1>1, <1>2 DEF Inv, StreamOK, OnlyWakes
<1> QED  BY <1>1, <1>2, <1>3, <1>4 DEF Inv

\* A thread takes up a connection's task.
LEMMA RunCallerKeeps ==
    ASSUME Inv, NEW s \in Streams, RunCaller(s)
    PROVE  Inv'
<1> DEFINE l == CASE at[s] = "ready"   -> "asking"
                  [] at[s] = "granted" -> "locked"
                  [] at[s] = "removed" -> "unlinked"
<1>1. /\ at[s] \in Ready /\ Goto(s, l) /\ ThreadFree
      /\ UNCHANGED <<workers, op, monitor, ffmpeg, entry, stdin, stderr, lock, waiters>>
  BY DEF RunCaller, pipes
<1>2. /\ at[s] = "ready" => l = "asking"
      /\ at[s] = "granted" => l = "locked"
      /\ at[s] = "removed" => l = "unlinked"
      /\ at[s] \in {"ready", "granted", "removed"}
  BY <1>1 DEF Ready
<1> HIDE DEF l
<1>3. l \in Labels /\ at[s] # "queued" /\ l # "queued" /\ (at[s] \in Holders <=> l \in Holders)
  BY <1>2 DEF Labels, OnThread, Holders
<1>4. LockInv' /\ OnlyWakes(s) /\ at'[s] = l
  BY <1>1, <1>3, Moves DEF Inv
<1>5. PipeType'
  BY <1>1 DEF Inv, PipeType
<1>6. ThreadCount'
  <2>1. Readers' = Readers
    BY <1>1 DEF Readers
  <2>2. Callers' \subseteq Callers \cup {s}
    BY <1>4 DEF Callers, OnlyWakes, OnThread
  <2>3. /\ IsFiniteSet(Callers \cup {s})
        /\ Cardinality(Callers \cup {s}) \in {Cardinality(Callers), Cardinality(Callers) + 1}
    BY Countable, FS_AddElement
  <2>4. Cardinality(Callers') <= Cardinality(Callers \cup {s})
    BY <2>2, <2>3, FS_Subset
  <2>5. workers' = workers /\ workers \in Nat
    BY <1>1, RuntimeAssumption DEF Inv, PipeType
  <2>6. Cardinality(Readers) + Cardinality(Callers) < workers
    BY <1>1 DEF ThreadFree
  <2>7. Cardinality(Readers') + Cardinality(Callers') <= workers'
    BY <2>1, <2>3, <2>4, <2>5, <2>6, Countable
  <2> QED  BY <2>7 DEF ThreadCount
<1>7. \A t \in Streams : StreamOK(t)'
  BY <1>1, <1>2, <1>4 DEF Inv, StreamOK, OnlyWakes
<1> QED  BY <1>4, <1>5, <1>6, <1>7 DEF Inv

\* A thread takes up a monitor.
LEMMA RunMonitorKeeps ==
    ASSUME Inv, NEW s \in Streams, RunMonitor(s)
    PROVE  Inv'
<1>1. /\ monitor[s] = "spawned" /\ ThreadFree
      /\ UNCHANGED <<workers, at, op, ffmpeg, entry, stdin, stderr, lock, waiters>>
  BY DEF RunMonitor, pipes
<1>2. /\ \A t \in Streams : monitor'[t] = IF t = s THEN "reading" ELSE monitor[t]
      /\ PipeType'
  BY <1>1 DEF RunMonitor, Inv, PipeType
<1>3. ThreadCount'
  <2>1. Callers' = Callers
    BY <1>1 DEF Callers
  <2>2. Readers' \subseteq Readers \cup {s}
    BY <1>2 DEF Readers
  <2>3. /\ IsFiniteSet(Readers \cup {s})
        /\ Cardinality(Readers \cup {s}) \in {Cardinality(Readers), Cardinality(Readers) + 1}
    BY Countable, FS_AddElement
  <2>4. Cardinality(Readers') <= Cardinality(Readers \cup {s})
    BY <2>2, <2>3, FS_Subset
  <2>5. workers' = workers /\ workers \in Nat
    BY <1>1, RuntimeAssumption DEF Inv, PipeType
  <2>6. Cardinality(Readers) + Cardinality(Callers) < workers
    BY <1>1 DEF ThreadFree
  <2>7. Cardinality(Readers') + Cardinality(Callers') <= workers'
    BY <2>1, <2>3, <2>4, <2>5, <2>6, Countable
  <2> QED  BY <2>7 DEF ThreadCount
<1>4. \A t \in Streams : /\ ffmpeg'[t] = "none" <=> ffmpeg[t] = "none"
                         /\ monitor'[t] = "none" <=> monitor[t] = "none"
                         /\ monitor'[t] = "ended" => ffmpeg'[t] = "ended"
  BY <1>1, <1>2 DEF Inv, StreamOK
<1> QED  BY <1>1, <1>2, <1>3, <1>4, PipeStep

LEMMA PipesKeep ==
    ASSUME Inv, NEW s \in Streams, MonitorStep(s) \/ FfmpegStep(s) \/ FfmpegDies(s)
    PROVE  Inv'
<1>1. UNCHANGED <<workers, at, op, lock, waiters, entry>>
  BY DEF MonitorStep, FfmpegStep, Read, ReadsEnd, ReadReturns, Decode, Finish, FfmpegDies, tasks, pipes
<1>2. PipeType'
  <2>1. stdin[s] \in 0..PipeSize /\ stderr[s] \in 0..PipeSize /\ PipeSize \in Nat \ {0}
    BY RuntimeAssumption DEF Inv, PipeType
  <2>2. CASE Read(s)
    BY <2>1, <2>2 DEF Read, Inv, PipeType, tasks
  <2>3. CASE ReadsEnd(s)
    BY <2>3 DEF ReadsEnd, ReadReturns, Inv, PipeType, pipes
  <2>4. CASE Decode(s)
    <3>1. stdin[s] - 1 \in 0..PipeSize /\ stderr[s] + 1 \in 0..PipeSize
      BY <2>1, <2>4 DEF Decode
    <3> QED  BY <2>4, <3>1 DEF Decode, Inv, PipeType, tasks
  <2>5. CASE Finish(s)
    <3>1. stderr[s] + 1 \in 0..PipeSize
      BY <2>1, <2>5 DEF Finish
    <3> QED  BY <2>5, <3>1 DEF Finish, Inv, PipeType, tasks
  <2>6. CASE FfmpegDies(s)
    BY <2>6 DEF FfmpegDies, Inv, PipeType, tasks
  <2> QED  BY <2>2, <2>3, <2>4, <2>5, <2>6 DEF MonitorStep, FfmpegStep
<1>3. \/ UNCHANGED <<monitor, ffmpeg>>
      \/ /\ monitor' = [monitor EXCEPT ![s] = "ended"] /\ UNCHANGED ffmpeg
         /\ ffmpeg[s] = "ended"
      \/ /\ ffmpeg' = [ffmpeg EXCEPT ![s] = "ended"] /\ UNCHANGED monitor
         /\ ffmpeg[s] = "running"
  BY DEF MonitorStep, FfmpegStep, Read, ReadsEnd, ReadReturns, Decode, Finish, FfmpegDies, tasks, pipes
<1>4. \A t \in Streams : /\ ffmpeg'[t] = "none" <=> ffmpeg[t] = "none"
                         /\ monitor'[t] = "none" <=> monitor[t] = "none"
                         /\ monitor'[t] = "ended" => ffmpeg'[t] = "ended"
                         /\ monitor'[t] = "reading" => monitor[t] = "reading"
  BY <1>3 DEF Inv, PipeType, StreamOK
<1>5. ThreadCount'
  BY <1>1, <1>4, NoneStarts
<1> QED  BY <1>1, <1>2, <1>4, <1>5, PipeStep

\* No step breaks the exclusion of the lock or takes a thread that is not free.
LEMMA ThreadsInductive == Inv /\ [Next]_vars => Inv'
<1> SUFFICES ASSUME Inv, [Next]_vars PROVE Inv'
  OBVIOUS
<1>1. CASE UNCHANGED vars
  <2>1. UNCHANGED <<workers, at, op, monitor, ffmpeg, entry, stdin, stderr, lock, waiters>>
    BY <1>1 DEF vars, tasks, pipes
  <2>2. PipeType'
    BY <2>1 DEF Inv, PipeType
  <2>3. ThreadCount'
    BY <2>1, NoneStarts
  <2> QED  BY <2>1, <2>2, <2>3, PipeStep DEF Inv, StreamOK
<1>2. ASSUME NEW s \in Streams,
             \/ Receive(s) \/ Die(s) \/ RunCaller(s) \/ RunMonitor(s)
             \/ CallerStep(s) \/ MonitorStep(s) \/ FfmpegStep(s) \/ FfmpegDies(s)
      PROVE  Inv'
  <2>1. CASE Receive(s) \/ Die(s) \/ Ask(s) \/ Removed(s) \/ Listed(s)
    BY <2>1, CallerKeeps
  <2>2. CASE Send(s) \/ Write(s) \/ WriteFails(s) \/ Stop(s) \/ Close(s)
    BY <2>2, HolderKeeps
  <2>3. CASE Insert(s)
    BY <2>3, InsertKeeps
  <2>4. CASE RunCaller(s)
    BY <2>4, RunCallerKeeps
  <2>5. CASE RunMonitor(s)
    BY <2>5, RunMonitorKeeps
  <2>6. CASE MonitorStep(s) \/ FfmpegStep(s) \/ FfmpegDies(s)
    BY <2>6, PipesKeep
  <2> QED  BY <1>2, <2>1, <2>2, <2>3, <2>4, <2>5, <2>6 DEF CallerStep
<1> QED  BY <1>1, <1>2 DEF Next, Over

\* The lock of the pipeline map has one owner, who holds it over blocking calls
\* and is in no queue; every thread runs one task; and a task that works with an
\* entry finds it in the map, whichever ffmpegs and connections die.
THEOREM ThreadsAreRight == Spec => []ThreadsInv
<1>1. Spec => []Inv
  BY InvInit, ThreadsInductive, PTL DEF Spec
<1> QED  BY <1>1, InvIs, PTL
-----------------------------------------------------------------------------
(* The freeze.                                                              *)

\* Every thread of a frozen server is in a call on a running ffmpeg: a write to
\* a full pipe, or a read of an empty one.
LEMMA BlockedOnFfmpeg ==
    ASSUME Inv, Frozen, NEW s \in Streams
    PROVE  /\ s \in Callers => s \in Running /\ stdin[s] = PipeSize
           /\ s \in Readers => s \in Running /\ stderr[s] = 0
<1>0. /\ StreamOK(s) /\ ~CallerCanGo(s) /\ ~MonitorCanGo(s)
      /\ ffmpeg[s] \in {"none", "running", "ended"}
      /\ stdin[s] \in 0..PipeSize /\ stderr[s] \in 0..PipeSize /\ PipeSize \in Nat
  BY RuntimeAssumption DEF Inv, PipeType, Frozen
<1>1. ASSUME s \in Callers PROVE s \in Running /\ stdin[s] = PipeSize
  <2>1. at[s] = "writing"
    BY <1>0, <1>1 DEF Callers, OnThread, CallerCanGo
  <2>2. ffmpeg[s] = "running" /\ ~(stdin[s] < PipeSize)
    BY <1>0, <2>1 DEF StreamOK, CallerCanGo
  <2> QED  BY <1>0, <2>2 DEF Running
<1>2. ASSUME s \in Readers PROVE s \in Running /\ stderr[s] = 0
  <2>1. monitor[s] = "reading"
    BY <1>2 DEF Readers
  <2>2. ffmpeg[s] = "running" /\ ~(stderr[s] > 0)
    BY <1>0, <2>1 DEF StreamOK, MonitorCanGo, ReadReturns
  <2> QED  BY <1>0, <2>2 DEF Running
<1> QED  BY <1>1, <1>2

\* A server freezes only with as many ffmpegs running as it has worker threads:
\* a blocked write and a blocked monitor belong to two streams, for a write whose
\* monitor has a thread ends, as the ffmpeg whose log is read takes its input.
THEOREM FreezeNeedsManyStreams == Spec => []FreezeHasCause
<1>1. Inv => FreezeHasCause
  <2> SUFFICES ASSUME Inv, Frozen PROVE workers <= Cardinality(Running)
    BY DEF FreezeHasCause
  <2>1. Readers \cap Callers = {}
    <3> SUFFICES ASSUME NEW s \in Streams, s \in Readers, s \in Callers PROVE FALSE
      BY DEF Readers, Callers
    <3>1. s \in Running /\ stdin[s] = PipeSize /\ stderr[s] = 0
      BY BlockedOnFfmpeg
    <3>2. PipeSize \in Nat \ {0}
      BY RuntimeAssumption
    <3>3. FfmpegCanGo(s)
      BY <3>1, <3>2 DEF FfmpegCanGo, Running
    <3> QED  BY <3>3 DEF Frozen
  <2>2. Readers \cup Callers \subseteq Running
    BY BlockedOnFfmpeg DEF Readers, Callers
  <2>3. IsFiniteSet(Running)
    BY FS_Subset, RuntimeAssumption DEF Running
  <2>4. /\ Cardinality(Readers \cup Callers) <= Cardinality(Running)
        /\ Cardinality(Running) \in Nat
    BY <2>2, <2>3, FS_Subset, FS_CardinalityType
  <2>5. Cardinality(Readers \cap Callers) = 0
    BY <2>1, FS_EmptySet
  <2>6. Cardinality(Readers \cup Callers)
           = Cardinality(Readers) + Cardinality(Callers) - Cardinality(Readers \cap Callers)
    BY Countable, FS_Union
  <2>7. workers \in Nat /\ ~(Cardinality(Readers) + Cardinality(Callers) < workers)
    BY RuntimeAssumption DEF Inv, PipeType, Frozen, ThreadFree
  <2> QED  BY <2>4, <2>5, <2>6, <2>7, Countable
<1>2. Spec => []Inv
  BY InvInit, ThreadsInductive, PTL DEF Spec
<1> QED  BY <1>1, <1>2, PTL

\* What a running task, the blocking pool and ffmpeg do, they can do.
LEMMA StepsCanGo ==
    ASSUME NEW s \in Streams
    PROVE  /\ CallerStep(s) => CallerCanGo(s)
           /\ MonitorStep(s) => MonitorCanGo(s)
           /\ FfmpegStep(s) => FfmpegCanGo(s)
<1>1. CallerStep(s) => CallerCanGo(s)
  BY DEF CallerStep, CallerCanGo, Ask, Insert, Send, Write, WriteFails, Stop, Removed, Close, Listed
<1>2. MonitorStep(s) => MonitorCanGo(s)
  BY DEF MonitorStep, MonitorCanGo, Read, ReadsEnd, ReadReturns
<1>3. FfmpegStep(s) => FfmpegCanGo(s)
  BY DEF FfmpegStep, FfmpegCanGo, Decode, Finish
<1> QED  BY <1>1, <1>2, <1>3

\* A frozen server stays frozen, whatever arrives from the network and whichever
\* connection dies, until an ffmpeg dies by itself.
FreezeLasts == [][Frozen => Frozen' \/ Running' # Running]_vars

THEOREM FrozenForGood == Spec => FreezeLasts
<1>1. Inv /\ [Next]_vars => [Frozen => Frozen' \/ Running' # Running]_vars
  <2> SUFFICES ASSUME Inv, Next, Frozen PROVE Frozen' \/ Running' # Running
    OBVIOUS
  <2>0. /\ at \in [Streams -> Labels] /\ ffmpeg \in [Streams -> {"none", "running", "ended"}]
        /\ \A s \in Streams : ~CallerCanGo(s) /\ ~MonitorCanGo(s) /\ ~FfmpegCanGo(s)
    BY DEF Inv, LockInv, PipeType, Frozen
  <2>1. ASSUME NEW s \in Streams, Receive(s) \/ Die(s) PROVE Frozen'
    <3>1. /\ at[s] = "idle" /\ at'[s] \in {"ready", "dead"}
          /\ \A t \in Streams : t # s => at'[t] = at[t]
          /\ UNCHANGED <<workers, monitor, ffmpeg, entry, stdin, stderr>>
      BY <2>0, <2>1 DEF Receive, Die, Goto, pipes
    <3>2. Readers' = Readers /\ Callers' = Callers
      BY <3>1 DEF Readers, Callers, OnThread
    <3>3. ~ThreadFree'
      BY <3>1, <3>2 DEF Frozen, ThreadFree
    <3>4. \E t \in Streams : at'[t] \in Ready \/ monitor'[t] = "spawned"
      <4>1. PICK t \in Streams : at[t] \in Ready \/ monitor[t] = "spawned"
        BY DEF Frozen
      <4> QED  BY <3>1, <4>1 DEF Ready
    <3>5. \A t \in Streams : ~CallerCanGo(t)' /\ ~MonitorCanGo(t)' /\ ~FfmpegCanGo(t)'
      BY <2>0, <3>1 DEF CallerCanGo, MonitorCanGo, FfmpegCanGo, ReadReturns
    <3> QED  BY <3>3, <3>4, <3>5 DEF Frozen
  <2>2. ASSUME NEW s \in Streams, RunCaller(s) \/ RunMonitor(s) PROVE FALSE
    BY <2>2 DEF RunCaller, RunMonitor, Frozen
  <2>3. ASSUME NEW s \in Streams, CallerStep(s) \/ MonitorStep(s) \/ FfmpegStep(s) PROVE FALSE
    BY <2>0, <2>3, StepsCanGo
  <2>4. ASSUME NEW s \in Streams, FfmpegDies(s) PROVE Running' # Running
    <3>1. ffmpeg[s] = "running" /\ ffmpeg'[s] = "ended"
      BY <2>0, <2>4 DEF FfmpegDies
    <3> QED  BY <3>1 DEF Running
  <2>5. CASE Over
    BY <2>5 DEF Over, vars, tasks, pipes, Frozen, ThreadFree, Readers, Callers, CallerCanGo,
                MonitorCanGo, FfmpegCanGo, ReadReturns
  <2> QED  BY <2>1, <2>2, <2>3, <2>4, <2>5 DEF Next
<1>2. Spec => []Inv
  BY InvInit, ThreadsInductive, PTL DEF Spec
<1> QED  BY <1>1, <1>2, PTL DEF Spec, FreezeLasts
=============================================================================

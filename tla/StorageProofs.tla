---------------------------- MODULE StorageProofs ----------------------------
(***************************************************************************)
(* Theorems about the storage layer that the live path does not call.      *)
(*                                                                         *)
(* HttpUploaders, for every set of jobs and keys, any number of workers    *)
(* and any max_retries: types, the slots and the line, what pending_count  *)
(* sees, and the safety part of UploadService.                             *)
(*                                                                         *)
(* MemoryBuffer, for every set of streams, names and sizes and all limits: *)
(* total_size is exact, and the newest segments are those that are kept.   *)
(* It is about sums over finite sets, so the second half begins with them. *)
(***************************************************************************)
EXTENDS HttpUploaders, MemoryBuffer, FiniteSetTheorems, WellFoundedInduction, TLAPS

-----------------------------------------------------------------------------
(* HttpUploaders.                                                           *)

\* What makes the properties inductive: the stages each uploader has, a retry
\* only where one is left, and an answer only to a PUT that was applied.
StagesOfKind ==
    /\ kind = "bunny" => \A j \in Jobs : stage[j] \notin {"marked", "waiting", "granted"}
    /\ kind = "file" => \A j \in Jobs : stage[j] # "granted"
    /\ kind = "reqwest" => \A j \in Jobs : stage[j] # "marked"
    /\ kind # "file" => /\ crashed = {}
                       /\ \A j \in Jobs : stage[j] \notin {"refused"} \cup Lost
BackoffHasMore == \A j \in Jobs : stage[j] = "backoff" => attempt[j] < MaxRetries
AnsweredHasLanded == \A j \in Jobs : stage[j] \in {"put", "stored", "done"} => j \in landed

Structure ==
    /\ TypeOK
    /\ StagesOfKind
    /\ BackoffHasMore

HttpInv ==
    /\ Structure
    /\ IsFiniteSet(Busy)
    /\ LineIsExact
    /\ SlotsAreExact

-----------------------------------------------------------------------------
(* Types, and what a step does to the stages.                               *)

\* A job other than that of the step: nothing happens to it, unless it waits for a
\* worker when the last one panics.
StaysOrIsLost(i) ==
    \/ stage'[i] = stage[i]
    \/ kind = "file" /\ stage[i] = "waiting" /\ stage'[i] \in {"dropped", "refused"}

\* What a worker that panics leaves behind.
LEMMA PanicMoves ==
    ASSUME TypeOK, NEW j \in Jobs, NEW label \in {"panicked", "failed"}, WorkerPanics(j, label)
    PROVE  /\ kind = "file" /\ crashed' = crashed \cup {j}
           /\ stage' \in [Jobs -> Stages] /\ line' \in Seq(Jobs) /\ crashed' \subseteq Jobs
           /\ stage'[j] = label
           /\ \A i \in Jobs \ {j} : StaysOrIsLost(i)
           /\ \/ /\ Cardinality(crashed') < Workers /\ line' = line
                 /\ \A i \in Jobs \ {j} : stage'[i] = stage[i]
              \/ /\ line' = <<>>
                 /\ \A i \in Jobs \ {j} : stage'[i] # "waiting"
<1> DEFINE left == Cardinality(crashed \cup {j}) < Workers
<1>1. PICK queued :
        /\ line' = IF left THEN line ELSE <<>>
        /\ stage' = [i \in Jobs |->
                       IF i = j THEN label
                       ELSE IF left \/ stage[i] # "waiting" THEN stage[i]
                       ELSE IF i \in queued THEN "dropped" ELSE "refused"]
  <2> DEFINE q == {line[n] : n \in {m \in 1..Len(line) : m <= Capacity}}
  <2>1. /\ line' = IF left THEN line ELSE <<>>
        /\ stage' = [i \in Jobs |->
                       IF i = j THEN label
                       ELSE IF left \/ stage[i] # "waiting" THEN stage[i]
                       ELSE IF i \in q THEN "dropped" ELSE "refused"]
    BY Zenon DEF WorkerPanics
  <2> HIDE DEF q
  <2> QED  BY <2>1, Zenon
<1>2. kind = "file" /\ crashed' = crashed \cup {j}
  BY DEF WorkerPanics
<1>3. stage' \in [Jobs -> Stages]
  BY <1>1 DEF TypeOK, Stages, Lost, Over
<1>4. stage'[j] = label
  BY <1>1
<1>5. \A i \in Jobs \ {j} : StaysOrIsLost(i)
  BY <1>1, <1>2 DEF StaysOrIsLost
<1>6. line' \in Seq(Jobs) /\ crashed' \subseteq Jobs
  BY <1>1, <1>2 DEF TypeOK
<1>7. CASE left
  BY <1>1, <1>2, <1>3, <1>4, <1>5, <1>6, <1>7
<1>8. CASE ~left
  BY <1>1, <1>2, <1>3, <1>4, <1>5, <1>6, <1>8
<1> QED  BY <1>7, <1>8

\* What an attempt that failed leaves in stage.
LEMMA AttemptFailedMoves ==
    ASSUME TypeOK, NEW j \in Jobs, AttemptFailed(j)
    PROVE  /\ stage' \in [Jobs -> Stages] /\ line' \in Seq(Jobs) /\ crashed' \subseteq Jobs
           /\ stage'[j] = "backoff" => attempt[j] < MaxRetries
           /\ stage'[j] \in {"backoff", "exhausted", "panicked"}
           /\ \A i \in Jobs \ {j} : StaysOrIsLost(i)
<1>1. CASE WorkerPanics(j, "panicked")
  BY <1>1, PanicMoves
<1>2. CASE /\ stage' = [stage EXCEPT ![j] = IF attempt[j] < MaxRetries THEN "backoff"
                                                                     ELSE "exhausted"]
           /\ UNCHANGED <<line, crashed>>
  BY <1>2 DEF TypeOK, Stages, Holding, StaysOrIsLost
<1> QED  BY <1>1, <1>2 DEF AttemptFailed

\* What the verdict of a failure leaves in stage.
LEMMA FailedMoves ==
    ASSUME TypeOK, NEW j \in Jobs, Failed(j)
    PROVE  /\ stage' \in [Jobs -> Stages] /\ line' \in Seq(Jobs) /\ crashed' \subseteq Jobs
           /\ stage[j] = "exhausted" /\ stage'[j] = "failed"
           /\ \A i \in Jobs \ {j} : StaysOrIsLost(i)
<1>1. CASE WorkerPanics(j, "failed")
  BY <1>1, PanicMoves DEF Failed
<1>2. CASE stage' = [stage EXCEPT ![j] = "failed"] /\ UNCHANGED <<line, crashed>>
  BY <1>2 DEF Failed, TypeOK, Stages, Over, StaysOrIsLost
<1> QED  BY <1>1, <1>2 DEF Failed

\* Admission takes the head of the line.
LEMMA AdmitMoves ==
    ASSUME TypeOK, NEW j \in Jobs, Admit(j)
    PROVE  /\ stage' \in [Jobs -> Stages]
           /\ stage'[j] = IF kind = "file" THEN "ready" ELSE "granted"
           /\ \A i \in Jobs \ {j} : stage'[i] = stage[i]
           /\ line' \in Seq(Jobs)
BY DEF TypeOK, Admit, Stages, Holding

\* Any other step changes the stage of its own job only.
LEMMA OthersStay ==
    ASSUME TypeOK, NEW j \in Jobs,
           \/ Call(j) \/ MarkUploading(j) \/ Join(j) \/ Admit(j) \/ Count(j) \/ Put(j)
           \/ Answer(j) \/ Retry(j) \/ Completed(j) \/ SendFails(j)
    PROVE  /\ stage' \in [Jobs -> Stages] /\ crashed' = crashed
           /\ \A i \in Jobs \ {j} : stage'[i] = stage[i]
<1>1. CASE Admit(j)
  BY <1>1, AdmitMoves DEF Admit
<1>2. CASE Call(j) \/ MarkUploading(j) \/ Join(j)
  BY <1>2 DEF TypeOK, Stages, Holding, Call, MarkUploading, Join
<1>3. CASE Count(j) \/ Put(j) \/ Answer(j) \/ Retry(j)
  BY <1>3 DEF TypeOK, Stages, Holding, Count, Put, Answer, Retry
<1>4. CASE Completed(j) \/ SendFails(j)
  BY <1>4 DEF TypeOK, Stages, Over, Completed, SendFails
<1> QED  BY <1>1, <1>2, <1>3, <1>4

\* The end of a task keeps the types, if bunny's counter counts it.
LEMMA RecordType ==
    ASSUME TypeOK, NEW j \in Jobs, NEW verdict \in {"Completed", "Failed"},
           Record(j, verdict), kind = "bunny" => active > 0
    PROVE  /\ uploads' \in [Keys -> {None, "Uploading", "Completed", "Failed"}]
           /\ active' \in Nat
<1>1. CASE kind = "bunny" /\ active' = active - 1 /\ uploads' = uploads
  BY <1>1 DEF TypeOK
<1>2. CASE uploads' = [uploads EXCEPT ![KeyOf[j]] = verdict] /\ active' = active
  BY <1>2 DEF TypeOK
<1> QED  BY <1>1, <1>2 DEF Record

\* While a task of bunny runs, its counter is positive.
LEMMA CounterIsPositive ==
    ASSUME HttpInv, NEW j \in Jobs, stage[j] \in Holding, kind = "bunny"
    PROVE  active > 0
<1>1. j \in Running /\ IsFiniteSet(Running)
  BY FS_Subset DEF HttpInv, Running, Busy
<1>2. Cardinality(Running) # 0 /\ Cardinality(Running) \in Nat
  BY <1>1, FS_EmptySet, FS_CardinalityType
<1> QED  BY <1>2 DEF HttpInv, SlotsAreExact

\* Every step keeps the types.
LEMMA TypeStep == HttpInv /\ [Next]_vars => TypeOK'
<1> SUFFICES ASSUME HttpInv, [Next]_vars PROVE TypeOK'
  OBVIOUS
<1>0. TypeOK /\ BackoffHasMore /\ MaxRetries \in Nat
  BY HttpAssumption DEF HttpInv, Structure
<1>1. ASSUME NEW j \in Jobs, Call(j) \/ Put(j) \/ Answer(j) PROVE TypeOK'
  <2>1. stage' \in [Jobs -> Stages]
    BY <1>0, <1>1, OthersStay
  <2>2. object' \in [Keys -> Jobs \cup {None}] /\ landed' \subseteq Jobs
    BY <1>0, <1>1 DEF TypeOK, Call, Put, Answer
  <2>3. UNCHANGED <<kind, attempt, line, uploads, active, inflight, crashed>>
    BY <1>1 DEF Call, Put, Answer
  <2> QED  BY <1>0, <2>1, <2>2, <2>3 DEF TypeOK
<1>2. ASSUME NEW j \in Jobs, MarkUploading(j) PROVE TypeOK'
  <2>1. stage' \in [Jobs -> Stages]
    BY <1>0, <1>2, OthersStay
  <2>2. uploads' \in [Keys -> {None, "Uploading", "Completed", "Failed"}]
    BY <1>0, <1>2 DEF TypeOK, MarkUploading
  <2> QED  BY <1>0, <1>2, <2>1, <2>2 DEF TypeOK, MarkUploading
<1>3. ASSUME NEW j \in Jobs, Join(j) PROVE TypeOK'
  <2>1. stage' \in [Jobs -> Stages]
    BY <1>0, <1>3, OthersStay
  <2>2. line' \in Seq(Jobs)
    <3>1. Append(line, j) \in Seq(Jobs)
      BY <1>0 DEF TypeOK
    <3>2. line' = Append(line, j) \/ line' = line
      BY <1>3 DEF Join
    <3> QED  BY <1>0, <3>1, <3>2 DEF TypeOK
  <2> QED  BY <1>0, <1>3, <2>1, <2>2 DEF TypeOK, Join
<1>4. ASSUME NEW j \in Jobs, Admit(j) PROVE TypeOK'
  BY <1>0, <1>4, AdmitMoves DEF TypeOK, Admit
<1>5. ASSUME NEW j \in Jobs, Count(j) PROVE TypeOK'
  <2>1. stage' \in [Jobs -> Stages]
    BY <1>0, <1>5, OthersStay
  <2>2. active' \in Nat
    BY <1>0, <1>5 DEF TypeOK, Count
  <2> QED  BY <1>0, <1>5, <2>1, <2>2 DEF TypeOK, Count
<1>6. ASSUME NEW j \in Jobs, PutFails(j) \/ TimesOut(j) PROVE TypeOK'
  <2>1. stage' \in [Jobs -> Stages] /\ line' \in Seq(Jobs) /\ crashed' \subseteq Jobs
    BY <1>0, <1>6, AttemptFailedMoves DEF PutFails, TimesOut
  <2>2. inflight' \in [Jobs -> Nat]
    <3>1. inflight' = inflight \/ inflight' = [inflight EXCEPT ![j] = @ + 1]
      BY <1>6 DEF PutFails, TimesOut
    <3> QED  BY <1>0, <3>1 DEF TypeOK
  <2>3. UNCHANGED <<kind, attempt, uploads, active, object, landed>>
    BY <1>6 DEF PutFails, TimesOut
  <2> QED  BY <1>0, <2>1, <2>2, <2>3 DEF TypeOK
<1>7. ASSUME NEW j \in Jobs, LatePut(j) PROVE TypeOK'
  <2>1. inflight' \in [Jobs -> Nat]
    BY <1>0, <1>7 DEF TypeOK, LatePut
  <2>2. object' \in [Keys -> Jobs \cup {None}] /\ landed' \subseteq Jobs
    BY <1>0, <1>7 DEF TypeOK, LatePut
  <2> QED  BY <1>0, <1>7, <2>1, <2>2 DEF TypeOK, LatePut
<1>8. ASSUME NEW j \in Jobs, Retry(j) PROVE TypeOK'
  <2>1. stage' \in [Jobs -> Stages]
    BY <1>0, <1>8, OthersStay
  <2>2. attempt[j] \in 0..MaxRetries /\ attempt[j] < MaxRetries
    BY <1>0, <1>8 DEF TypeOK, Retry, BackoffHasMore
  <2>3. attempt' \in [Jobs -> 0..MaxRetries]
    BY <1>0, <1>8, <2>2 DEF TypeOK, Retry
  <2> QED  BY <1>0, <1>8, <2>1, <2>3 DEF TypeOK, Retry
<1>9. ASSUME NEW j \in Jobs, Completed(j) PROVE TypeOK'
  <2>1. stage' \in [Jobs -> Stages]
    BY <1>0, <1>9, OthersStay
  <2>2. uploads' \in [Keys -> {None, "Uploading", "Completed", "Failed"}] /\ active' \in Nat
    BY <1>0, <1>9, CounterIsPositive, RecordType DEF Completed, Holding
  <2> QED  BY <1>0, <1>9, <2>1, <2>2 DEF TypeOK, Completed
<1>10. ASSUME NEW j \in Jobs, Failed(j) PROVE TypeOK'
  <2>1. stage' \in [Jobs -> Stages] /\ line' \in Seq(Jobs) /\ crashed' \subseteq Jobs
    BY <1>0, <1>10, FailedMoves
  <2>2. uploads' \in [Keys -> {None, "Uploading", "Completed", "Failed"}] /\ active' \in Nat
    BY <1>0, <1>10, CounterIsPositive, RecordType DEF Failed, Holding
  <2>3. UNCHANGED <<kind, attempt, object, landed, inflight>>
    BY <1>10 DEF Failed
  <2> QED  BY <1>0, <2>1, <2>2, <2>3 DEF TypeOK
<1>11. ASSUME NEW j \in Jobs, SendFails(j) PROVE TypeOK'
  <2>1. stage' \in [Jobs -> Stages]
    BY <1>0, <1>11, OthersStay
  <2>2. kind # "bunny"
    BY <1>11 DEF SendFails, HttpInv, Structure, StagesOfKind
  <2>3. uploads' \in [Keys -> {None, "Uploading", "Completed", "Failed"}] /\ active' \in Nat
    BY <1>0, <1>11, <2>2, RecordType DEF SendFails
  <2> QED  BY <1>0, <1>11, <2>1, <2>3 DEF TypeOK, SendFails
<1>12. CASE UNCHANGED vars
  BY <1>0, <1>12 DEF vars, TypeOK
<1> QED
  BY <1>1, <1>2, <1>3, <1>4, <1>5, <1>6, <1>7, <1>8, <1>9, <1>10, <1>11, <1>12
  DEF Next, Step, Quiescent

-----------------------------------------------------------------------------
(* The control flow.                                                        *)

\* Only the channel of file refuses a job.
LEMMA RefusedIsFile ==
    ASSUME HttpInv, NEW j \in Jobs, Join(j), stage'[j] = "refused"
    PROVE  kind = "file"
<1>0. TypeOK /\ StagesOfKind
  BY DEF HttpInv, Structure
<1>1. Cardinality(crashed) >= Workers
  <2>1. stage' # [stage EXCEPT ![j] = "waiting"]
    BY <1>0 DEF TypeOK
  <2> QED  BY <2>1 DEF Join
<1>2. crashed # {}
  <2> SUFFICES ASSUME crashed = {} PROVE FALSE
    OBVIOUS
  <2>1. Cardinality(crashed) = 0
    BY FS_EmptySet
  <2> QED  BY <1>1, <2>1, HttpAssumption
<1> QED  BY <1>0, <1>2 DEF StagesOfKind

\* Every step keeps each uploader to its own stages, and the retries bounded.
LEMMA StructureStep == HttpInv /\ [Next]_vars => Structure'
<1> SUFFICES ASSUME HttpInv, [Next]_vars PROVE Structure'
  OBVIOUS
<1>0. TypeOK /\ StagesOfKind /\ BackoffHasMore /\ LineIsExact
  BY DEF HttpInv, Structure
<1> DEFINE Goal == StagesOfKind' /\ BackoffHasMore'
<1>1. ASSUME NEW j \in Jobs, Admit(j) PROVE Goal
  <2>1. kind # "bunny"
    <3>1. Len(line) >= 1 /\ line[1] = j /\ 1 \in 1..Len(line)
      BY <1>0, <1>1 DEF Admit, TypeOK
    <3> QED  BY <1>0, <3>1 DEF LineIsExact, StagesOfKind
  <2>2. /\ stage'[j] = IF kind = "file" THEN "ready" ELSE "granted"
        /\ \A i \in Jobs \ {j} : stage'[i] = stage[i]
        /\ kind' = kind /\ attempt' = attempt /\ crashed' = crashed
    BY <1>0, <1>1, AdmitMoves DEF Admit
  <2>3. StagesOfKind'
    BY <1>0, <2>1, <2>2 DEF StagesOfKind, Lost
  <2> QED  BY <1>0, <2>2, <2>3 DEF BackoffHasMore
<1>2. ASSUME NEW j \in Jobs, PutFails(j) \/ TimesOut(j) PROVE Goal
  <2>1. AttemptFailed(j) /\ kind' = kind /\ attempt' = attempt
    BY <1>2 DEF PutFails, TimesOut
  <2>2. /\ stage'[j] \in {"backoff", "exhausted", "panicked"}
        /\ stage'[j] = "backoff" => attempt[j] < MaxRetries
        /\ \A i \in Jobs \ {j} : StaysOrIsLost(i)
    BY <1>0, <2>1, AttemptFailedMoves
  <2>3. CASE WorkerPanics(j, "panicked")
    <3>1. kind = "file"
      BY <2>3 DEF WorkerPanics
    <3> QED  BY <1>0, <2>1, <2>2, <3>1 DEF StagesOfKind, BackoffHasMore, StaysOrIsLost
  <2>4. CASE /\ stage' = [stage EXCEPT ![j] = IF attempt[j] < MaxRetries THEN "backoff"
                                                                       ELSE "exhausted"]
             /\ crashed' = crashed
    <3>1. \A i \in Jobs \ {j} : stage'[i] = stage[i]
      BY <1>0, <2>4 DEF TypeOK
    <3>2. stage'[j] \in {"backoff", "exhausted"}
      BY <1>0, <2>4 DEF TypeOK
    <3>3. StagesOfKind'
      BY <1>0, <2>1, <2>4, <3>1, <3>2 DEF StagesOfKind, Lost
    <3> QED  BY <1>0, <2>1, <2>2, <3>1, <3>3 DEF BackoffHasMore
  <2> QED  BY <2>1, <2>3, <2>4 DEF AttemptFailed
<1>3. ASSUME NEW j \in Jobs, Retry(j) PROVE Goal
  <2>1. /\ stage'[j] = "ready" /\ \A i \in Jobs \ {j} : stage'[i] = stage[i]
        /\ \A i \in Jobs \ {j} : attempt'[i] = attempt[i]
        /\ kind' = kind /\ crashed' = crashed
    BY <1>0, <1>3 DEF Retry, TypeOK
  <2> QED  BY <1>0, <2>1 DEF StagesOfKind, BackoffHasMore, Lost
<1>4. ASSUME NEW j \in Jobs, \/ Call(j) \/ MarkUploading(j) \/ Join(j) \/ Count(j)
                            \/ Put(j) \/ Answer(j) \/ Completed(j) \/ SendFails(j)
      PROVE  Goal
  <2>1. /\ \A i \in Jobs \ {j} : stage'[i] = stage[i]
        /\ crashed' = crashed
    BY <1>0, <1>4, OthersStay
  <2>2. /\ stage'[j] = "marked" => kind = "file"
        /\ stage'[j] = "waiting" => kind # "bunny"
        /\ stage'[j] \notin {"granted", "backoff"} \cup Lost
        /\ kind' = kind /\ attempt' = attempt
    BY <1>0, <1>4 DEF TypeOK, Call, MarkUploading, Join, Count, Put, Answer, Completed,
                      SendFails, Lost
  <2>3. stage'[j] = "refused" => kind = "file"
    <3>1. CASE Join(j)
      BY <3>1, RefusedIsFile
    <3>2. CASE Call(j) \/ MarkUploading(j) \/ Count(j) \/ Put(j)
      BY <1>0, <3>2 DEF TypeOK, Call, MarkUploading, Count, Put
    <3>3. CASE Answer(j) \/ Completed(j) \/ SendFails(j)
      BY <1>0, <3>3 DEF TypeOK, Answer, Completed, SendFails
    <3> QED  BY <1>4, <3>1, <3>2, <3>3
  <2>4. StagesOfKind'
    <3>1. kind = "bunny" => \A i \in Jobs : stage'[i] \notin {"marked", "waiting", "granted"}
      BY <1>0, <2>1, <2>2 DEF StagesOfKind
    <3>2. /\ kind = "file" => \A i \in Jobs : stage'[i] # "granted"
          /\ kind = "reqwest" => \A i \in Jobs : stage'[i] # "marked"
      BY <1>0, <2>1, <2>2 DEF StagesOfKind
    <3>3. kind # "file" => /\ crashed' = {}
                          /\ \A i \in Jobs : stage'[i] \notin {"refused"} \cup Lost
      BY <1>0, <2>1, <2>2, <2>3 DEF StagesOfKind, Lost
    <3>4. kind' = kind
      BY <2>2
    <3> QED  BY <3>1, <3>2, <3>3, <3>4 DEF StagesOfKind, Lost
  <2> QED  BY <1>0, <2>1, <2>2, <2>4 DEF BackoffHasMore
<1>5. ASSUME NEW j \in Jobs, LatePut(j) PROVE Goal
  BY <1>0, <1>5 DEF LatePut, StagesOfKind, BackoffHasMore
<1>6. ASSUME NEW j \in Jobs, Failed(j) PROVE Goal
  <2>1. /\ stage'[j] = "failed" /\ \A i \in Jobs \ {j} : StaysOrIsLost(i)
        /\ kind' = kind /\ attempt' = attempt
    BY <1>0, <1>6, FailedMoves DEF Failed
  <2>2. kind # "file" => /\ crashed' = crashed
                         /\ \A i \in Jobs \ {j} : stage'[i] = stage[i]
    BY <1>6, <2>1 DEF Failed, WorkerPanics, StaysOrIsLost
  <2>3. StagesOfKind'
    BY <1>0, <2>1, <2>2 DEF StagesOfKind, StaysOrIsLost, Lost
  <2>4. BackoffHasMore'
    BY <1>0, <2>1 DEF BackoffHasMore, StaysOrIsLost
  <2> QED  BY <2>3, <2>4
<1>7. ASSUME UNCHANGED vars PROVE Goal
  BY <1>0, <1>7 DEF vars, StagesOfKind, BackoffHasMore
<1>8. Goal
  BY <1>1, <1>2, <1>3, <1>4, <1>5, <1>6, <1>7 DEF Next, Step, Quiescent
<1> QED  BY <1>8, TypeStep DEF Structure

-----------------------------------------------------------------------------
(* The slots and the line.                                                  *)

\* The slots are finitely many, those of the running tasks included.
LEMMA BusyIsFinite ==
    ASSUME HttpInv
    PROVE  /\ IsFiniteSet(Busy) /\ Cardinality(Busy) \in Nat
           /\ IsFiniteSet(Running) /\ Cardinality(Running) \in Nat
           /\ IsFiniteSet(crashed) /\ Cardinality(crashed) \in Nat
           /\ Workers \in Nat \ {0}
BY FS_Subset, FS_CardinalityType, HttpAssumption DEF HttpInv, Busy

\* A step that moves no job in or out of a slot or the line keeps both.
LEMMA QuietKeepsSlots ==
    ASSUME HttpInv, UNCHANGED <<kind, line, active, crashed>>,
           \A i \in Jobs : /\ stage'[i] \in Holding <=> stage[i] \in Holding
                           /\ stage'[i] = "waiting" <=> stage[i] = "waiting"
    PROVE  IsFiniteSet(Busy)' /\ LineIsExact' /\ SlotsAreExact'
<1>1. Running' = Running /\ Busy' = Busy
  BY DEF Running, Busy
<1>2. LineIsExact'
  BY DEF HttpInv, LineIsExact
<1> QED  BY <1>1, <1>2 DEF HttpInv, SlotsAreExact

\* A job that takes a slot.
LEMMA RunningGrows ==
    ASSUME HttpInv, NEW j \in Jobs, stage[j] \notin Holding, crashed' = crashed,
           stage'[j] \in Holding, \A i \in Jobs \ {j} : stage'[i] = stage[i]
    PROVE  /\ IsFiniteSet(Busy')
           /\ Cardinality(Busy') <= Cardinality(Busy) + 1
           /\ Cardinality(Running') = Cardinality(Running) + 1
<1>1. Running' = Running \cup {j} /\ j \notin Running
  BY DEF Running
<1>2. Busy' = Busy \cup {j}
  BY <1>1 DEF Busy
<1>3. IsFiniteSet(Busy') /\ Cardinality(Busy') <= Cardinality(Busy) + 1
  <2>1. /\ IsFiniteSet(Busy \cup {j})
        /\ \/ Cardinality(Busy \cup {j}) = Cardinality(Busy)
           \/ Cardinality(Busy \cup {j}) = Cardinality(Busy) + 1
    BY BusyIsFinite, FS_AddElement
  <2>2. Cardinality(Busy) \in Nat
    BY BusyIsFinite
  <2> HIDE DEF Busy
  <2> QED  BY <1>2, <2>1, <2>2
<1>4. Cardinality(Running') = Cardinality(Running) + 1
  BY <1>1, BusyIsFinite, FS_AddElement
<1> QED  BY <1>3, <1>4

\* A job that leaves its slot.
LEMMA RunningShrinks ==
    ASSUME HttpInv, NEW j \in Jobs, stage[j] \in Holding, crashed' = crashed,
           stage'[j] \notin Holding, \A i \in Jobs \ {j} : stage'[i] = stage[i]
    PROVE  /\ IsFiniteSet(Busy')
           /\ Cardinality(Busy') <= Cardinality(Busy)
           /\ Cardinality(Running') = Cardinality(Running) - 1
<1>1. Running' = Running \ {j} /\ j \in Running
  BY DEF Running
<1>2. Busy' \in SUBSET Busy
  BY <1>1 DEF Busy
<1>3. IsFiniteSet(Busy') /\ Cardinality(Busy') <= Cardinality(Busy)
  BY <1>2, BusyIsFinite, FS_Subset
<1>4. Cardinality(Running') = Cardinality(Running) - 1
  BY <1>1, BusyIsFinite, FS_RemoveElement
<1> QED  BY <1>3, <1>4

\* The job of a worker that panics keeps the slot of its worker.
LEMMA PanicKeepsSlots ==
    ASSUME HttpInv, NEW j \in Jobs, NEW label \in {"panicked", "failed"},
           WorkerPanics(j, label), stage[j] \in Holding, UNCHANGED <<kind, active>>
    PROVE  IsFiniteSet(Busy)' /\ LineIsExact' /\ SlotsAreExact'
<1>0. TypeOK /\ LineIsExact /\ SlotsAreExact
  BY DEF HttpInv, Structure
<1>1. /\ kind = "file" /\ crashed' = crashed \cup {j}
      /\ stage'[j] = label /\ \A i \in Jobs \ {j} : StaysOrIsLost(i)
      /\ \/ /\ Cardinality(crashed') < Workers /\ line' = line
            /\ \A i \in Jobs \ {j} : stage'[i] = stage[i]
         \/ /\ line' = <<>>
            /\ \A i \in Jobs \ {j} : stage'[i] # "waiting"
  BY <1>0, PanicMoves
<1>2. stage'[j] \notin Holding /\ stage'[j] # "waiting" /\ stage[j] # "waiting"
  BY <1>1 DEF Holding
<1>3. \A i \in Jobs \ {j} : stage'[i] \in Holding <=> stage[i] \in Holding
  BY <1>1 DEF StaysOrIsLost, Holding
<1>4. Running' = Running \ {j} /\ j \in Running
  BY <1>2, <1>3 DEF Running
<1>5. Busy' = Busy
  BY <1>1, <1>4 DEF Busy
<1>6. CASE line' = <<>> /\ \A i \in Jobs \ {j} : stage'[i] # "waiting"
  <2>1. LineIsExact'
    BY <1>2, <1>6 DEF LineIsExact
  <2> QED  BY <1>0, <1>1, <1>5, <1>6, <2>1, BusyIsFinite DEF SlotsAreExact
<1>7. CASE /\ Cardinality(crashed') < Workers /\ line' = line
           /\ \A i \in Jobs \ {j} : stage'[i] = stage[i]
  <2>1. LineIsExact'
    BY <1>0, <1>2, <1>7 DEF LineIsExact
  <2>2. IsFiniteSet(crashed') /\ Cardinality(crashed') \in Nat
    BY <1>1, BusyIsFinite, FS_AddElement, FS_CardinalityType
  <2>3. ~(Cardinality(crashed') >= Workers)
    BY <1>7, <2>2, BusyIsFinite
  <2> QED  BY <1>0, <1>1, <1>5, <2>1, <2>3, BusyIsFinite DEF SlotsAreExact
<1> QED  BY <1>1, <1>6, <1>7

\* The line grows at its end.
LEMMA JoinKeepsLine ==
    ASSUME HttpInv, NEW j \in Jobs, Join(j), line' = Append(line, j),
           stage' = [stage EXCEPT ![j] = "waiting"]
    PROVE  LineIsExact'
<1>0. TypeOK /\ LineIsExact
  BY DEF HttpInv, Structure
<1>1. /\ stage[j] # "waiting" /\ stage'[j] = "waiting"
      /\ \A i \in Jobs \ {j} : stage'[i] = stage[i]
  BY <1>0 DEF Join, TypeOK
<1>2. /\ Len(line) \in Nat /\ Len(line') = Len(line) + 1
      /\ line'[Len(line')] = j
      /\ \A i \in 1..Len(line) : line'[i] = line[i] /\ line[i] # j
  BY <1>0, <1>1 DEF TypeOK, LineIsExact
<1>3. \A i, l \in 1..Len(line') : line'[i] = line'[l] => i = l
  BY <1>0, <1>2 DEF LineIsExact
<1>4. ASSUME NEW i \in Jobs
      PROVE  stage'[i] = "waiting" <=> \E l \in 1..Len(line') : line'[l] = i
  <2>1. CASE i = j
    BY <1>1, <1>2, <2>1
  <2>2. CASE i # j
    <3>1. \A l \in 1..Len(line') : line'[l] = i => l \in 1..Len(line) /\ line[l] = i
      BY <1>2, <2>2
    <3>2. \A l \in 1..Len(line) : l \in 1..Len(line') /\ line'[l] = line[l]
      BY <1>2
    <3> QED  BY <1>0, <1>1, <2>2, <3>1, <3>2 DEF LineIsExact
  <2> QED  BY <2>1, <2>2
<1> QED  BY <1>3, <1>4 DEF LineIsExact

\* The line loses its head.
LEMMA AdmitKeepsLine ==
    ASSUME HttpInv, NEW j \in Jobs, Admit(j)
    PROVE  LineIsExact' /\ stage[j] = "waiting"
<1>0. TypeOK /\ LineIsExact
  BY DEF HttpInv, Structure
<1>1. /\ Len(line) \in Nat /\ Len(line) >= 1 /\ line[1] = j
      /\ Len(line') = Len(line) - 1
      /\ \A i \in 1..Len(line') : line'[i] = line[i + 1]
  BY <1>0 DEF TypeOK, Admit
<1>2. 1 \in 1..Len(line)
  BY <1>1
<1>3. stage[j] = "waiting"
  BY <1>0, <1>1, <1>2 DEF LineIsExact
<1>4. stage'[j] # "waiting" /\ \A i \in Jobs \ {j} : stage'[i] = stage[i]
  BY <1>0, AdmitMoves
<1>5. \A i, l \in 1..Len(line') : line'[i] = line'[l] => i = l
  BY <1>0, <1>1 DEF LineIsExact
<1>6. ASSUME NEW i \in Jobs
      PROVE  stage'[i] = "waiting" <=> \E l \in 1..Len(line') : line'[l] = i
  <2>1. ASSUME i # j, NEW l \in 1..Len(line), line[l] = i
        PROVE  \E m \in 1..Len(line') : line'[m] = i
    <3>1. l - 1 \in 1..Len(line') /\ (l - 1) + 1 = l
      BY <1>1, <2>1
    <3> QED  BY <1>1, <2>1, <3>1
  <2>2. ASSUME NEW l \in 1..Len(line'), line'[l] = i
        PROVE  i # j /\ \E m \in 1..Len(line) : line[m] = i
    <3>1. l + 1 \in 1..Len(line) /\ line[l + 1] = i /\ l + 1 # 1
      BY <1>1, <2>2
    <3> QED  BY <1>0, <1>1, <1>2, <3>1 DEF LineIsExact
  <2> QED  BY <1>0, <1>4, <2>1, <2>2 DEF LineIsExact
<1> QED  BY <1>3, <1>5, <1>6 DEF LineIsExact

\* The end of a task gives back its slot, or its unit of the counter.
LEMMA EndKeepsSlots ==
    ASSUME HttpInv, NEW j \in Jobs, NEW verdict \in {"Completed", "Failed"},
           Record(j, verdict), stage[j] \in Holding, stage'[j] \in Over,
           \A i \in Jobs \ {j} : stage'[i] = stage[i], UNCHANGED <<kind, line, crashed>>
    PROVE  IsFiniteSet(Busy)' /\ LineIsExact' /\ SlotsAreExact'
<1>1. stage'[j] \notin Holding /\ stage'[j] # "waiting" /\ stage[j] # "waiting"
  BY DEF Holding, Over
<1>2. LineIsExact'
  BY <1>1 DEF HttpInv, LineIsExact
<1>3. /\ IsFiniteSet(Busy') /\ Cardinality(Busy') <= Cardinality(Busy)
      /\ Cardinality(Running') = Cardinality(Running) - 1
  BY <1>1, RunningShrinks
<1>4. /\ Cardinality(Running) \in Nat /\ Cardinality(Busy) \in Nat
      /\ Cardinality(Busy') \in Nat /\ Workers \in Nat
  BY <1>3, BusyIsFinite, FS_CardinalityType
<1>5. /\ kind = "bunny" => active' = active - 1
      /\ kind # "bunny" => active' = active
  BY DEF Record
<1> QED  BY <1>2, <1>3, <1>4, <1>5 DEF HttpInv, SlotsAreExact

\* Every step keeps the slots and the line.
LEMMA SlotsStep ==
    HttpInv /\ [Next]_vars => IsFiniteSet(Busy)' /\ LineIsExact' /\ SlotsAreExact'
<1> SUFFICES ASSUME HttpInv, [Next]_vars
             PROVE  IsFiniteSet(Busy)' /\ LineIsExact' /\ SlotsAreExact'
  OBVIOUS
<1>0. TypeOK /\ StagesOfKind /\ LineIsExact /\ SlotsAreExact
  BY DEF HttpInv, Structure
<1> DEFINE Goal == IsFiniteSet(Busy)' /\ LineIsExact' /\ SlotsAreExact'
<1>1. ASSUME NEW j \in Jobs, Call(j) \/ Put(j) \/ Answer(j) \/ Retry(j) PROVE Goal
  <2>1. /\ UNCHANGED <<kind, line, active, crashed>>
        /\ \A i \in Jobs \ {j} : stage'[i] = stage[i]
    BY <1>0, <1>1, OthersStay DEF Call, Put, Answer, Retry
  <2>2. /\ stage'[j] \in Holding <=> stage[j] \in Holding
        /\ stage'[j] # "waiting" /\ stage[j] # "waiting"
    BY <1>0, <1>1 DEF TypeOK, Call, Put, Answer, Retry, Holding
  <2> QED  BY <2>1, <2>2, QuietKeepsSlots
<1>2. ASSUME NEW j \in Jobs, MarkUploading(j) PROVE Goal
  <2>1. /\ UNCHANGED <<kind, line, active, crashed>>
        /\ \A i \in Jobs \ {j} : stage'[i] = stage[i]
        /\ stage'[j] \in Holding <=> stage[j] \in Holding
        /\ stage'[j] # "waiting" /\ stage[j] # "waiting"
    BY <1>0, <1>2 DEF TypeOK, MarkUploading, Holding
  <2> QED  BY <2>1, QuietKeepsSlots
<1>3. ASSUME NEW j \in Jobs, Join(j) PROVE Goal
  <2>1. /\ stage[j] \notin Holding \cup {"waiting"}
        /\ UNCHANGED <<kind, active, crashed>>
    BY <1>3 DEF Join, Holding
  <2>2. CASE stage' = [stage EXCEPT ![j] = "refused"] /\ line' = line
    <3>1. \A i \in Jobs : /\ stage'[i] \in Holding <=> stage[i] \in Holding
                          /\ stage'[i] = "waiting" <=> stage[i] = "waiting"
      BY <1>0, <2>1, <2>2 DEF TypeOK, Holding
    <3> QED  BY <2>1, <2>2, <3>1, QuietKeepsSlots
  <2>3. CASE /\ stage' = [stage EXCEPT ![j] = "waiting"] /\ line' = Append(line, j)
             /\ Cardinality(crashed) < Workers
    <3>1. Running' = Running
      BY <1>0, <2>1, <2>3 DEF Running, TypeOK, Holding
    <3>2. Busy' = Busy
      BY <2>1, <3>1 DEF Busy
    <3>3. LineIsExact'
      BY <1>3, <2>3, JoinKeepsLine
    <3> QED  BY <1>0, <2>1, <2>3, <3>1, <3>2, <3>3, BusyIsFinite DEF SlotsAreExact
  <2> QED  BY <1>3, <2>2, <2>3 DEF Join
<1>4. ASSUME NEW j \in Jobs, Admit(j) PROVE Goal
  <2>1. LineIsExact' /\ stage[j] = "waiting"
    BY <1>4, AdmitKeepsLine
  <2>2. /\ stage'[j] \in {"ready", "granted"}
        /\ \A i \in Jobs \ {j} : stage'[i] = stage[i]
    BY <1>0, <1>4, AdmitMoves
  <2>3. stage[j] \notin Holding /\ stage'[j] \in Holding
    BY <2>1, <2>2 DEF Holding
  <2>4. Cardinality(Busy) < Workers /\ line # <<>> /\ UNCHANGED <<kind, active, crashed>>
    BY <1>4 DEF Admit
  <2>5. IsFiniteSet(Busy') /\ Cardinality(Busy') <= Cardinality(Busy) + 1
    BY <2>2, <2>3, <2>4, RunningGrows
  <2>6. Cardinality(Busy') <= Workers
    BY <2>4, <2>5, BusyIsFinite, FS_CardinalityType
  <2>7. kind # "bunny"
    BY <1>0, <2>1 DEF StagesOfKind
  <2>8. ~(Cardinality(crashed') >= Workers)
    BY <1>0, <2>4 DEF SlotsAreExact
  <2> QED  BY <1>0, <2>1, <2>4, <2>5, <2>6, <2>7, <2>8 DEF SlotsAreExact
<1>5. ASSUME NEW j \in Jobs, Count(j) PROVE Goal
  <2>1. /\ stage[j] = "called" /\ stage'[j] = "ready"
        /\ \A i \in Jobs \ {j} : stage'[i] = stage[i]
        /\ kind = "bunny" /\ active' = active + 1
        /\ UNCHANGED <<kind, line, crashed>>
    BY <1>0, <1>5 DEF TypeOK, Count
  <2>2. stage[j] \notin Holding /\ stage'[j] \in Holding
    BY <2>1 DEF Holding
  <2>3. IsFiniteSet(Busy') /\ Cardinality(Running') = Cardinality(Running) + 1
    BY <2>1, <2>2, RunningGrows
  <2>4. LineIsExact'
    BY <1>0, <2>1 DEF LineIsExact
  <2> QED  BY <1>0, <2>1, <2>3, <2>4 DEF SlotsAreExact
<1>6. ASSUME NEW j \in Jobs, PutFails(j) \/ TimesOut(j) PROVE Goal
  <2>1. /\ AttemptFailed(j) /\ stage[j] \in {"ready", "put"}
        /\ UNCHANGED <<kind, active>>
    BY <1>6 DEF PutFails, TimesOut
  <2>2. CASE WorkerPanics(j, "panicked")
    BY <2>1, <2>2, PanicKeepsSlots DEF Holding
  <2>3. CASE /\ stage' = [stage EXCEPT ![j] = IF attempt[j] < MaxRetries THEN "backoff"
                                                                       ELSE "exhausted"]
             /\ UNCHANGED <<line, crashed>>
    <3>1. \A i \in Jobs : /\ stage'[i] \in Holding <=> stage[i] \in Holding
                          /\ stage'[i] = "waiting" <=> stage[i] = "waiting"
      BY <1>0, <2>1, <2>3 DEF TypeOK, Holding
    <3> QED  BY <2>1, <2>3, <3>1, QuietKeepsSlots
  <2> QED  BY <2>1, <2>2, <2>3 DEF AttemptFailed
<1>7. ASSUME NEW j \in Jobs, Completed(j) PROVE Goal
  <2>1. /\ stage[j] = "stored" /\ stage'[j] = "done"
        /\ \A i \in Jobs \ {j} : stage'[i] = stage[i]
        /\ Record(j, "Completed") /\ UNCHANGED <<kind, line, crashed>>
    BY <1>0, <1>7 DEF TypeOK, Completed
  <2> QED  BY <2>1, EndKeepsSlots DEF Holding, Over
<1>8. ASSUME NEW j \in Jobs, Failed(j) PROVE Goal
  <2>1. /\ stage[j] = "exhausted" /\ stage[j] \in Holding
        /\ Record(j, "Failed") /\ kind' = kind
    BY <1>8 DEF Failed, Holding
  <2>2. CASE WorkerPanics(j, "failed")
    <3>1. active' = active
      BY <2>1, <2>2 DEF Record, WorkerPanics
    <3> QED  BY <2>1, <2>2, <3>1, PanicKeepsSlots
  <2>3. CASE stage' = [stage EXCEPT ![j] = "failed"] /\ UNCHANGED <<line, crashed>>
    <3>1. stage'[j] \in Over /\ \A i \in Jobs \ {j} : stage'[i] = stage[i]
      BY <1>0, <2>3 DEF TypeOK, Over
    <3> QED  BY <2>1, <2>3, <3>1, EndKeepsSlots
  <2> QED  BY <1>8, <2>2, <2>3 DEF Failed
<1>9. ASSUME NEW j \in Jobs, SendFails(j) PROVE Goal
  <2>1. /\ stage[j] = "refused" /\ stage'[j] = "failed"
        /\ \A i \in Jobs \ {j} : stage'[i] = stage[i]
        /\ UNCHANGED <<kind, line, crashed>>
    BY <1>0, <1>9 DEF TypeOK, SendFails
  <2>2. active' = active
    BY <1>0, <1>9, <2>1 DEF SendFails, Record, StagesOfKind
  <2>3. \A i \in Jobs : /\ stage'[i] \in Holding <=> stage[i] \in Holding
                        /\ stage'[i] = "waiting" <=> stage[i] = "waiting"
    BY <2>1 DEF Holding
  <2> QED  BY <2>1, <2>2, <2>3, QuietKeepsSlots
<1>10. ASSUME NEW j \in Jobs, LatePut(j) PROVE Goal
  BY <1>10, QuietKeepsSlots DEF LatePut
<1>11. ASSUME UNCHANGED vars PROVE Goal
  BY <1>11, QuietKeepsSlots DEF vars
<1> QED
  BY <1>1, <1>2, <1>3, <1>4, <1>5, <1>6, <1>7, <1>8, <1>9, <1>10, <1>11
  DEF Next, Step, Quiescent

\* The initial state.
LEMMA HttpInit == Init => HttpInv
<1> SUFFICES ASSUME Init PROVE HttpInv
  OBVIOUS
<1>1. TypeOK
  <2>1. /\ attempt \in [Jobs -> 0..MaxRetries] /\ inflight \in [Jobs -> Nat]
        /\ line \in Seq(Jobs) /\ active \in Nat
    BY HttpAssumption DEF Init
  <2>2. stage \in [Jobs -> Stages]
    BY DEF Init, Stages
  <2> QED  BY <2>1, <2>2 DEF Init, TypeOK
<1>2. /\ Running = {} /\ Busy = {} /\ crashed = {}
      /\ IsFiniteSet({}) /\ Cardinality({}) = 0
  <2>1. Running = {} /\ Busy = {} /\ crashed = {}
    BY DEF Init, Running, Holding, Busy
  <2> QED  BY <2>1, FS_EmptySet
<1>3. LineIsExact /\ SlotsAreExact
  BY <1>2, HttpAssumption DEF Init, LineIsExact, SlotsAreExact
<1>4. StagesOfKind /\ BackoffHasMore
  BY DEF Init, StagesOfKind, BackoffHasMore, Lost
<1> QED  BY <1>1, <1>2, <1>3, <1>4 DEF HttpInv, Structure

LEMMA HttpInductive == Spec => []HttpInv
<1>1. HttpInv /\ [Next]_vars => HttpInv'
  BY StructureStep, SlotsStep DEF HttpInv
<1> QED  BY <1>1, HttpInit, PTL DEF Spec

\* Types, the line and the slots: the semaphore and the counter lose and gain nothing,
\* the pool loses a worker to a panic and in no other way, and the channel is closed,
\* and empty, once it has lost them all; for any calls, workers, failures and retries.
THEOREM SlotsAreKept == Spec => []SlotsInv
<1>1. HttpInv => SlotsInv
  BY DEF HttpInv, Structure, SlotsInv
<1> QED  BY <1>1, HttpInductive, PTL

-----------------------------------------------------------------------------
(* What pending_count sees.                                                 *)

\* The job is past the point where its entry may read Uploading.
OnItsWay(j) == stage[j] \notin {"idle", "called"} \cup Over

\* The job, of file or reqwest, has set its entry and not yet given its verdict.
Marked(j) ==
    /\ kind # "bunny"
    /\ OnItsWay(j)
    /\ ~(kind = "reqwest" /\ stage[j] \in {"waiting", "granted"})

Overtaken(j) == \E i \in Jobs \ {j} : KeyOf[i] = KeyOf[j] /\ stage[i] \in Over

MarkedIsSeen ==
    \A j \in Jobs : Marked(j) => uploads[KeyOf[j]] = "Uploading" \/ Overtaken(j)

EntriesInv ==
    /\ UploadingHasOwner
    /\ MarkedIsSeen
    /\ kind = "bunny" => \A k \in Keys : uploads[k] # "Uploading"

\* A step that leaves the entries alone, and takes no job back or off its way,
\* keeps them true.
LEMMA QuietKeepsEntries ==
    ASSUME EntriesInv, UNCHANGED <<kind, uploads>>,
           \A i \in Jobs : /\ OnItsWay(i) => OnItsWay(i)'
                           /\ Marked(i)' => Marked(i)
                           /\ stage[i] \in Over => stage'[i] \in Over
    PROVE  EntriesInv'
<1>1. UploadingHasOwner'
  BY DEF EntriesInv, UploadingHasOwner, PendingKeys, OnItsWay
<1>2. MarkedIsSeen'
  BY DEF EntriesInv, MarkedIsSeen, Overtaken
<1> QED  BY <1>1, <1>2 DEF EntriesInv

\* The verdict of a task is the end of its entry, and for the others of its key
\* a cause.
LEMMA EndKeepsEntries ==
    ASSUME Structure, EntriesInv, NEW j \in Jobs, NEW verdict \in {"Completed", "Failed"},
           Record(j, verdict), stage'[j] \in Over, kind' = kind,
           \A i \in Jobs \ {j} : StaysOrIsLost(i)
    PROVE  EntriesInv'
<1>0. TypeOK
  BY DEF Structure
<1>1. CASE kind = "bunny" /\ uploads' = uploads
  BY <1>1 DEF EntriesInv, UploadingHasOwner, PendingKeys, MarkedIsSeen, Marked
<1>2. CASE kind # "bunny" /\ uploads' = [uploads EXCEPT ![KeyOf[j]] = verdict]
  <2>1. /\ uploads'[KeyOf[j]] # "Uploading"
        /\ \A k \in Keys : k # KeyOf[j] => uploads'[k] = uploads[k]
    BY <1>0, <1>2, HttpAssumption DEF TypeOK
  <2>2. UploadingHasOwner'
    BY <2>1 DEF EntriesInv, UploadingHasOwner, PendingKeys, StaysOrIsLost, Over
  <2>3. ASSUME NEW i \in Jobs, Marked(i)'
        PROVE  uploads'[KeyOf[i]] = "Uploading" \/ Overtaken(i)'
    <3>1. i # j /\ KeyOf[i] \in Keys
      BY <2>3, HttpAssumption DEF Marked, OnItsWay
    <3>4. Marked(i)
      BY <2>3, <3>1 DEF Marked, OnItsWay, StaysOrIsLost, Over
    <3>2. CASE KeyOf[i] = KeyOf[j]
      BY <3>1, <3>2 DEF Overtaken
    <3>3. CASE KeyOf[i] # KeyOf[j]
      <4>1. Overtaken(i) => Overtaken(i)'
        BY DEF Overtaken, StaysOrIsLost, Over
      <4> QED  BY <2>1, <3>1, <3>3, <3>4, <4>1 DEF EntriesInv, MarkedIsSeen
    <3> QED  BY <3>2, <3>3
  <2> QED  BY <1>2, <2>2, <2>3 DEF EntriesInv, MarkedIsSeen
<1> QED  BY <1>1, <1>2 DEF Record

\* Every step keeps the entries true.
LEMMA EntriesStep == HttpInv /\ EntriesInv /\ [Next]_vars => EntriesInv'
<1> SUFFICES ASSUME HttpInv, EntriesInv, [Next]_vars PROVE EntriesInv'
  OBVIOUS
<1>0. Structure /\ TypeOK /\ StagesOfKind
  BY DEF HttpInv, Structure
<1>1. ASSUME NEW j \in Jobs, MarkUploading(j) PROVE EntriesInv'
  <2>1. /\ kind # "bunny" /\ kind' = kind
        /\ stage[j] \notin Over /\ OnItsWay(j)'
        /\ \A i \in Jobs \ {j} : stage'[i] = stage[i]
        /\ uploads' = [uploads EXCEPT ![KeyOf[j]] = "Uploading"]
    BY <1>0, <1>1 DEF MarkUploading, TypeOK, OnItsWay, Over
  <2>2. /\ uploads'[KeyOf[j]] = "Uploading" /\ KeyOf[j] \in Keys
        /\ \A k \in Keys : k # KeyOf[j] => uploads'[k] = uploads[k]
    BY <1>0, <2>1, HttpAssumption DEF TypeOK
  <2>3. \A i \in Jobs : OnItsWay(i) => OnItsWay(i)'
    BY <2>1 DEF OnItsWay
  <2>4. UploadingHasOwner'
    BY <2>1, <2>2, <2>3 DEF EntriesInv, UploadingHasOwner, PendingKeys, OnItsWay
  <2>5. ASSUME NEW i \in Jobs, Marked(i)'
        PROVE  uploads'[KeyOf[i]] = "Uploading" \/ Overtaken(i)'
    <3>1. CASE KeyOf[i] = KeyOf[j]
      BY <2>2, <3>1
    <3>2. CASE KeyOf[i] # KeyOf[j]
      <4>1. Marked(i) /\ KeyOf[i] \in Keys
        BY <2>1, <2>5, <3>2, HttpAssumption DEF Marked, OnItsWay
      <4>2. Overtaken(i) => Overtaken(i)'
        BY <2>1 DEF Overtaken
      <4> QED  BY <2>2, <3>2, <4>1, <4>2 DEF EntriesInv, MarkedIsSeen
    <3> QED  BY <3>1, <3>2
  <2> QED  BY <2>1, <2>4, <2>5 DEF EntriesInv, MarkedIsSeen
<1>2. ASSUME NEW j \in Jobs, PutFails(j) \/ TimesOut(j) PROVE EntriesInv'
  <2>1. /\ AttemptFailed(j) /\ stage[j] \in {"ready", "put"}
        /\ UNCHANGED <<kind, uploads>>
    BY <1>2 DEF PutFails, TimesOut
  <2>2. /\ stage'[j] \in {"backoff", "exhausted", "panicked"}
        /\ \A i \in Jobs \ {j} : StaysOrIsLost(i)
    BY <1>0, <2>1, AttemptFailedMoves
  <2>3. \A i \in Jobs : /\ OnItsWay(i) => OnItsWay(i)'
                        /\ Marked(i)' => Marked(i)
                        /\ stage[i] \in Over => stage'[i] \in Over
    BY <2>1, <2>2 DEF StaysOrIsLost, OnItsWay, Marked, Over
  <2> QED  BY <2>1, <2>3, QuietKeepsEntries
<1>3. ASSUME NEW j \in Jobs, Admit(j) PROVE EntriesInv'
  <2>1. stage[j] = "waiting"
    BY <1>3, AdmitKeepsLine
  <2>2. /\ stage'[j] = IF kind = "file" THEN "ready" ELSE "granted"
        /\ \A i \in Jobs \ {j} : stage'[i] = stage[i]
        /\ UNCHANGED <<kind, uploads>>
    BY <1>0, <1>3, AdmitMoves DEF Admit
  <2>3. kind = "file" \/ kind = "reqwest"
    BY <1>0, <2>1 DEF StagesOfKind, TypeOK
  <2> QED  BY <2>1, <2>2, <2>3, QuietKeepsEntries DEF OnItsWay, Marked, Over
<1>4. ASSUME NEW j \in Jobs, \/ Call(j) \/ Join(j) \/ Count(j)
                            \/ Put(j) \/ Answer(j) \/ Retry(j)
      PROVE  EntriesInv'
  <2>1. /\ \A i \in Jobs \ {j} : stage'[i] = stage[i]
        /\ UNCHANGED <<kind, uploads>>
    BY <1>0, <1>4, OthersStay DEF Call, Join, Count, Put, Answer, Retry
  <2>2. stage[j] \notin Over /\ (OnItsWay(j) => OnItsWay(j)')
    BY <1>0, <1>4 DEF TypeOK, Call, Join, Count, Put, Answer, Retry, OnItsWay, Over
  <2>3. Marked(j)' => Marked(j)
    <3>1. CASE Join(j)
      <4>1. stage'[j] = "waiting" \/ (stage'[j] = "refused" /\ kind = "file")
        <5>1. stage'[j] = "waiting" \/ stage'[j] = "refused"
          BY <1>0, <3>1 DEF TypeOK, Join
        <5> QED  BY <3>1, <5>1, RefusedIsFile
      <4>2. \/ kind = "file" /\ stage[j] = "marked"
            \/ kind = "reqwest" /\ stage[j] = "called"
        BY <3>1 DEF Join
      <4>3. kind' = kind
        BY <2>1
      <4>4. CASE kind = "file"
        BY <4>2, <4>4 DEF Marked, OnItsWay, Over
      <4>5. CASE kind = "reqwest" /\ stage'[j] = "waiting"
        BY <4>3, <4>5 DEF Marked
      <4> QED  BY <4>1, <4>2, <4>4, <4>5
    <3>2. CASE Call(j) \/ Count(j) \/ Put(j) \/ Answer(j) \/ Retry(j)
      BY <1>0, <3>2 DEF TypeOK, Call, Count, Put, Answer, Retry, Marked, OnItsWay, Over
    <3> QED  BY <1>4, <3>1, <3>2
  <2> QED  BY <2>1, <2>2, <2>3, QuietKeepsEntries DEF OnItsWay, Marked
<1>5. ASSUME NEW j \in Jobs, Completed(j) PROVE EntriesInv'
  <2>1. /\ Record(j, "Completed") /\ stage'[j] \in Over /\ kind' = kind
        /\ \A i \in Jobs \ {j} : StaysOrIsLost(i)
    BY <1>0, <1>5 DEF TypeOK, Completed, Over, StaysOrIsLost
  <2> QED  BY <1>0, <2>1, EndKeepsEntries
<1>6. ASSUME NEW j \in Jobs, Failed(j) \/ SendFails(j) PROVE EntriesInv'
  <2>1. /\ Record(j, "Failed") /\ stage'[j] \in Over /\ kind' = kind
        /\ \A i \in Jobs \ {j} : StaysOrIsLost(i)
    <3>1. CASE Failed(j)
      BY <1>0, <3>1, FailedMoves DEF Failed, Over
    <3>2. CASE SendFails(j)
      BY <1>0, <3>2 DEF TypeOK, SendFails, Over, StaysOrIsLost
    <3> QED  BY <1>6, <3>1, <3>2
  <2> QED  BY <1>0, <2>1, EndKeepsEntries
<1>7. ASSUME NEW j \in Jobs, LatePut(j) PROVE EntriesInv'
  BY <1>7, QuietKeepsEntries DEF LatePut, OnItsWay, Marked
<1>8. CASE UNCHANGED vars
  BY <1>8, QuietKeepsEntries DEF vars, OnItsWay, Marked
<1> QED
  BY <1>1, <1>2, <1>3, <1>4, <1>5, <1>6, <1>7, <1>8 DEF Next, Step, Quiescent

\* pending_count counts nothing that is over, and what it misses has one of the
\* named causes, for any calls, keys, workers and retries.
THEOREM PendingIsExact == Spec => []PendingIsTrue
<1>1. Init => EntriesInv
  BY HttpAssumption
  DEF Init, EntriesInv, UploadingHasOwner, PendingKeys, MarkedIsSeen, Marked, OnItsWay
<1>2. HttpInv /\ EntriesInv => PendingIsTrue
  <2> SUFFICES ASSUME HttpInv, EntriesInv PROVE PendingIsTrue
    OBVIOUS
  <2>0. TypeOK /\ StagesOfKind
    BY DEF HttpInv, Structure
  <2>1. ASSUME NEW j \in Jobs, stage[j] \notin {"idle"} \cup Over, ~Seen(j)
        PROVE  \/ stage[j] = "called"
               \/ kind = "reqwest" /\ stage[j] \in {"waiting", "granted"}
               \/ \E i \in Jobs \ {j} : KeyOf[i] = KeyOf[j] /\ stage[i] \in Over
    <3>1. CASE kind = "bunny"
      <4>1. /\ stage[j] \in Stages
            /\ stage[j] \notin {"marked", "waiting", "granted", "refused"} \cup Lost
        BY <2>0, <3>1 DEF TypeOK, StagesOfKind
      <4> QED  BY <2>1, <3>1, <4>1 DEF Stages, Seen, Holding, Over
    <3>2. CASE kind # "bunny"
      <4>1. uploads[KeyOf[j]] # "Uploading"
        BY <2>1, <3>2, HttpAssumption DEF Seen, PendingKeys
      <4> QED  BY <2>1, <3>2, <4>1
               DEF EntriesInv, MarkedIsSeen, Marked, OnItsWay, Overtaken
    <3> QED  BY <3>1, <3>2
  <2> QED  BY <2>1 DEF EntriesInv, PendingIsTrue, UnseenHasCause
<1>3. EntriesInv /\ HttpInv /\ [Next]_vars => EntriesInv'
  BY EntriesStep
<1> QED  BY <1>1, <1>2, <1>3, HttpInductive, PTL DEF Spec

-----------------------------------------------------------------------------
(* Refinement.                                                              *)

\* A step that moves no job between the abstract statuses, and leaves the bucket
\* and what is in flight alone, is a stutter of UploadService.
LEMMA QuietStutters ==
    ASSUME UNCHANGED <<object, landed, inflight>>,
           \A i \in Jobs : StatusOf(stage'[i]) = StatusOf(stage[i])
    PROVE  UNCHANGED Service!vars
BY DEF Service!vars

\* What waits for a worker, and what is lost with the last one, has no verdict.
LEMMA LossIsSilent ==
    ASSUME NEW i \in Jobs, StaysOrIsLost(i)
    PROVE  StatusOf(stage'[i]) = StatusOf(stage[i])
<1>1. CASE stage'[i] = stage[i]
  BY <1>1
<1>2. CASE stage[i] = "waiting" /\ stage'[i] \in {"dropped", "refused"}
  BY <1>2 DEF StatusOf
<1> QED  BY <1>1, <1>2 DEF StaysOrIsLost

\* Every step keeps "whoever was answered has landed".
LEMMA LandedStep == HttpInv /\ AnsweredHasLanded /\ [Next]_vars => AnsweredHasLanded'
<1> SUFFICES ASSUME HttpInv, AnsweredHasLanded, [Next]_vars PROVE AnsweredHasLanded'
  OBVIOUS
<1>0. TypeOK
  BY DEF HttpInv, Structure
<1>1. ASSUME NEW j \in Jobs, \/ Call(j) \/ MarkUploading(j) \/ Join(j) \/ Count(j)
                            \/ Put(j) \/ Answer(j) \/ Retry(j)
                            \/ Completed(j) \/ SendFails(j)
      PROVE  AnsweredHasLanded'
  <2>1. /\ \A i \in Jobs \ {j} : stage'[i] = stage[i]
        /\ landed \subseteq landed'
    BY <1>0, <1>1, OthersStay
       DEF Call, MarkUploading, Join, Count, Put, Answer, Retry, Completed, SendFails
  <2>2. stage'[j] \in {"put", "stored", "done"}
           => stage[j] \in {"put", "stored", "done"} \/ j \in landed'
    BY <1>0, <1>1
       DEF TypeOK, Call, MarkUploading, Join, Count, Put, Answer, Retry, Completed, SendFails
  <2> QED  BY <2>1, <2>2 DEF AnsweredHasLanded
<1>2. ASSUME NEW j \in Jobs, PutFails(j) \/ TimesOut(j) PROVE AnsweredHasLanded'
  <2>1. AttemptFailed(j) /\ landed' = landed
    BY <1>2 DEF PutFails, TimesOut
  <2> QED  BY <1>0, <2>1, AttemptFailedMoves DEF AnsweredHasLanded, StaysOrIsLost
<1>3. ASSUME NEW j \in Jobs, Admit(j) PROVE AnsweredHasLanded'
  BY <1>0, <1>3, AdmitMoves DEF Admit, AnsweredHasLanded
<1>4. ASSUME NEW j \in Jobs, LatePut(j) PROVE AnsweredHasLanded'
  BY <1>4 DEF LatePut, AnsweredHasLanded
<1>5. ASSUME NEW j \in Jobs, Failed(j) PROVE AnsweredHasLanded'
  BY <1>0, <1>5, FailedMoves DEF Failed, AnsweredHasLanded, StaysOrIsLost
<1>6. CASE UNCHANGED vars
  BY <1>6 DEF vars, AnsweredHasLanded
<1> QED
  BY <1>1, <1>2, <1>3, <1>4, <1>5, <1>6 DEF Next, Step, Quiescent

\* Every step of HttpUploaders is a step of UploadService or a stutter.
LEMMA RefinementStep ==
    HttpInv /\ AnsweredHasLanded /\ [Next]_vars => [Service!ServiceNext]_(Service!vars)
<1> SUFFICES ASSUME HttpInv, AnsweredHasLanded, [Next]_vars
             PROVE  Service!ServiceNext \/ UNCHANGED Service!vars
  OBVIOUS
<1> DEFINE Goal == Service!ServiceNext \/ UNCHANGED Service!vars
<1>0. TypeOK
  BY DEF HttpInv, Structure
<1>1. ASSUME NEW j \in Jobs, Call(j) PROVE Goal
  <2>1. StatusOf("idle") = "idle" /\ StatusOf("called") = "accepted"
    BY DEF StatusOf
  <2>2. /\ stage[j] = "idle" /\ stage' = [stage EXCEPT ![j] = "called"]
        /\ UNCHANGED <<object, landed, inflight>>
    BY <1>1 DEF Call
  <2>3. [i \in Jobs |-> StatusOf(stage'[i])]
          = [[i \in Jobs |-> StatusOf(stage[i])] EXCEPT ![j] = "accepted"]
    BY <1>0, <2>1, <2>2 DEF TypeOK
  <2>4. Service!Accept(j)
    BY <2>1, <2>2, <2>3 DEF Service!Accept
  <2> QED  BY <2>4 DEF Service!ServiceNext
<1>2. ASSUME NEW j \in Jobs, \/ MarkUploading(j) \/ Join(j) \/ Admit(j) \/ Count(j)
                            \/ Answer(j) \/ PutFails(j) \/ Retry(j)
      PROVE Goal
  <2>1. UNCHANGED <<object, landed, inflight>>
    BY <1>2 DEF MarkUploading, Join, Admit, Count, Answer, PutFails, Retry
  <2>2. \A i \in Jobs \ {j} : StatusOf(stage'[i]) = StatusOf(stage[i])
    <3>1. CASE PutFails(j)
      BY <1>0, <3>1, AttemptFailedMoves, LossIsSilent DEF PutFails
    <3>2. CASE ~PutFails(j)
      BY <1>0, <1>2, <3>2, OthersStay
    <3> QED  BY <3>1, <3>2
  <2>3. StatusOf(stage[j]) = "accepted"
    <3>1. CASE Admit(j)
      BY <3>1, AdmitKeepsLine DEF StatusOf
    <3>2. CASE ~Admit(j)
      BY <1>2, <3>2 DEF MarkUploading, Join, Count, Answer, PutFails, Retry, StatusOf
    <3> QED  BY <3>1, <3>2
  <2>4. StatusOf(stage'[j]) = "accepted"
    <3>1. CASE Admit(j)
      BY <1>0, <3>1, AdmitMoves DEF StatusOf
    <3>2. CASE PutFails(j)
      BY <1>0, <3>2, AttemptFailedMoves DEF PutFails, StatusOf
    <3>3. CASE MarkUploading(j) \/ Join(j) \/ Count(j) \/ Answer(j) \/ Retry(j)
      BY <1>0, <3>3 DEF TypeOK, MarkUploading, Join, Count, Answer, Retry, StatusOf
    <3> QED  BY <1>2, <3>1, <3>2, <3>3
  <2> QED  BY <2>1, <2>2, <2>3, <2>4, QuietStutters
<1>3. ASSUME NEW j \in Jobs, Put(j) PROVE Goal
  <2>1. /\ object' = [object EXCEPT ![KeyOf[j]] = j] /\ landed' = landed \cup {j}
        /\ inflight' = inflight
    BY <1>3 DEF Put
  <2>2. StatusOf(stage[j]) = "accepted" /\ \A i \in Jobs : StatusOf(stage'[i]) = StatusOf(stage[i])
    BY <1>0, <1>3 DEF Put, TypeOK, StatusOf
  <2>3. Service!Put(j)
    BY <2>1, <2>2 DEF Service!Put
  <2> QED  BY <2>3 DEF Service!ServiceNext
<1>4. ASSUME NEW j \in Jobs, TimesOut(j) PROVE Goal
  <2>1. /\ stage[j] = "ready" /\ AttemptFailed(j) /\ UNCHANGED <<object, landed>>
        /\ inflight' = [inflight EXCEPT ![j] = @ + 1]
    BY <1>4 DEF TimesOut
  <2>2. StatusOf(stage[j]) = "accepted" /\ \A i \in Jobs : StatusOf(stage'[i]) = StatusOf(stage[i])
    <3>1. stage'[j] \in {"backoff", "exhausted", "panicked"}
      BY <1>0, <2>1, AttemptFailedMoves
    <3>2. StatusOf(stage[j]) = "accepted" /\ StatusOf(stage'[j]) = "accepted"
      BY <2>1, <3>1 DEF StatusOf
    <3>3. \A i \in Jobs \ {j} : StatusOf(stage'[i]) = StatusOf(stage[i])
      BY <1>0, <2>1, AttemptFailedMoves, LossIsSilent
    <3> QED  BY <3>2, <3>3
  <2>3. {i \in Jobs : inflight'[i] > 0} = {i \in Jobs : inflight[i] > 0} \cup {j}
    BY <1>0, <2>1 DEF TypeOK
  <2>4. Service!Abandon(j)
    BY <2>1, <2>2, <2>3 DEF Service!Abandon
  <2> QED  BY <2>4 DEF Service!ServiceNext
<1>5. ASSUME NEW j \in Jobs, LatePut(j) PROVE Goal
  <2>1. /\ inflight[j] > 0 /\ inflight' = [inflight EXCEPT ![j] = @ - 1]
        /\ object' = [object EXCEPT ![KeyOf[j]] = j] /\ landed' = landed \cup {j}
        /\ stage' = stage
    BY <1>5 DEF LatePut
  <2>2. \/ {i \in Jobs : inflight'[i] > 0} = {i \in Jobs : inflight[i] > 0}
        \/ {i \in Jobs : inflight'[i] > 0} = {i \in Jobs : inflight[i] > 0} \ {j}
    <3>1. \A i \in Jobs \ {j} : inflight'[i] = inflight[i]
      BY <1>0, <2>1 DEF TypeOK
    <3> QED  BY <2>1, <3>1
  <2>3. Service!LatePut(j)
    BY <2>1, <2>2 DEF Service!LatePut
  <2> QED  BY <2>3 DEF Service!ServiceNext
<1>6. ASSUME NEW j \in Jobs, Completed(j) PROVE Goal
  <2>1. /\ stage[j] = "stored" /\ stage' = [stage EXCEPT ![j] = "done"]
        /\ j \in landed /\ UNCHANGED <<object, landed, inflight>>
    BY <1>6 DEF Completed, AnsweredHasLanded
  <2>2. StatusOf("stored") = "accepted" /\ StatusOf("done") = "succeeded"
    BY DEF StatusOf
  <2>3. [i \in Jobs |-> StatusOf(stage'[i])]
          = [[i \in Jobs |-> StatusOf(stage[i])] EXCEPT ![j] = "succeeded"]
    BY <1>0, <2>1, <2>2 DEF TypeOK
  <2>4. Service!Succeed(j)
    BY <2>1, <2>2, <2>3 DEF Service!Succeed
  <2> QED  BY <2>4 DEF Service!ServiceNext
<1>7. ASSUME NEW j \in Jobs, Failed(j) \/ SendFails(j) PROVE Goal
  <2>1. /\ stage[j] \in {"exhausted", "refused"} /\ stage'[j] = "failed"
        /\ \A i \in Jobs \ {j} : StaysOrIsLost(i)
        /\ UNCHANGED <<object, landed, inflight>>
    <3>1. CASE Failed(j)
      BY <1>0, <3>1, FailedMoves DEF Failed
    <3>2. CASE SendFails(j)
      BY <1>0, <3>2 DEF TypeOK, SendFails, StaysOrIsLost
    <3> QED  BY <1>7, <3>1, <3>2
  <2>2. /\ StatusOf(stage[j]) = "accepted" /\ StatusOf(stage'[j]) = "failed"
        /\ \A i \in Jobs \ {j} : StatusOf(stage'[i]) = StatusOf(stage[i])
    <3>1. StatusOf(stage[j]) = "accepted" /\ StatusOf(stage'[j]) = "failed"
      BY <2>1 DEF StatusOf
    <3> QED  BY <2>1, <3>1, LossIsSilent
  <2>3. [i \in Jobs |-> StatusOf(stage'[i])]
          = [[i \in Jobs |-> StatusOf(stage[i])] EXCEPT ![j] = "failed"]
    BY <2>2
  <2>4. Service!Fail(j)
    BY <2>1, <2>2, <2>3 DEF Service!Fail
  <2> QED  BY <2>4 DEF Service!ServiceNext
<1>8. ASSUME UNCHANGED vars PROVE Goal
  BY <1>8, QuietStutters DEF vars
<1> QED
  BY <1>1, <1>2, <1>3, <1>4, <1>5, <1>6, <1>7, <1>8 DEF Next, Step, Quiescent

\* The three uploaders keep the promises of UploadService that are about safety,
\* although a PUT that timed out can land after the verdict of its job.
THEOREM HttpRefinement == Spec => ImplementsSafety
<1>1. Init => Service!ServiceInit
  <2> SUFFICES ASSUME Init PROVE Service!ServiceInit
    OBVIOUS
  <2>1. [j \in Jobs |-> StatusOf(stage[j])] = [j \in Jobs |-> "idle"]
    BY DEF Init, StatusOf
  <2>2. {j \in Jobs : inflight[j] > 0} = {}
    BY DEF Init
  <2> QED  BY <2>1, <2>2 DEF Init, Service!ServiceInit
<1>2. Init => AnsweredHasLanded
  BY DEF Init, AnsweredHasLanded
<1>3. HttpInv /\ AnsweredHasLanded /\ [Next]_vars => AnsweredHasLanded'
  BY LandedStep
<1> QED
  BY <1>1, <1>2, <1>3, RefinementStep, HttpInductive, PTL
  DEF Spec, ImplementsSafety, Service!ServiceSafety

-----------------------------------------------------------------------------
(* MemoryBuffer: sums of the values of a function.                          *)

\* A set of numbers has a least one.
LEMMA LeastOf ==
    ASSUME NEW A \in SUBSET Nat, A # {}
    PROVE  \E m \in A : \A n \in A : m <= n
<1>1. OpToRel(<, Nat) = {rs \in Nat \X Nat : rs[1] < rs[2]}
  BY DEF OpToRel
<1>2. \E m \in A : \A n \in A : ~(<<n, m>> \in OpToRel(<, Nat))
  BY NatLessThanWellFounded, WFMin
<1>3. PICK m \in A : \A n \in A : ~(n < m)
  BY <1>1, <1>2
<1>4. m \in Nat /\ \A n \in A : n \in Nat
  OBVIOUS
<1> QED  BY <1>3, <1>4

\* A set that has 0 and, with a number, the next one has them all.
LEMMA NatSet ==
    ASSUME NEW T, 0 \in T, \A n \in Nat : n \in T => n + 1 \in T
    PROVE  Nat \subseteq T
<1> DEFINE Rest == Nat \ T
<1> SUFFICES ASSUME Rest # {} PROVE FALSE
  OBVIOUS
<1>1. Rest \in SUBSET Nat
  OBVIOUS
<1> HIDE DEF Rest
<1>2. PICK m \in Rest : \A n \in Rest : m <= n
  BY <1>1, LeastOf
<1>3. m \in Nat /\ m \notin T /\ m # 0
  BY <1>2 DEF Rest
<1>4. m - 1 \in Nat /\ ~(m <= m - 1) /\ (m - 1) + 1 = m
  BY <1>3
<1>5. m - 1 \in T
  BY <1>2, <1>4 DEF Rest
<1> QED  BY <1>3, <1>4, <1>5

\* g has the sums of f over the sets U, as Total computes them.
AnyOf(A) == CHOOSE x \in A : TRUE
IsSums(f, U, g) == g = [A \in U |-> IF A = {} THEN 0 ELSE f[AnyOf(A)] + g[A \ {AnyOf(A)}]]
AreSums(f, D, g) == IsSums(f, SUBSET D, g)

LEMMA AnyOfIs == \A A : A # {} => AnyOf(A) \in A
BY DEF AnyOf

\* A finite set without one of its elements.
LEMMA OneLess ==
    ASSUME NEW D, IsFiniteSet(D), NEW A \in SUBSET D, NEW n \in Nat, Cardinality(A) = n + 1,
           NEW x \in A
    PROVE  A \ {x} \in SUBSET D /\ Cardinality(A \ {x}) = n /\ A # {}
<1>1. IsFiniteSet(A)
  BY FS_Subset
<1>2. Cardinality(A \ {x}) = Cardinality(A) - 1
  BY <1>1, FS_RemoveElement
<1> QED  BY <1>2

\* The sums over the subsets of a finite set exist.
LEMMA SumsExist ==
    ASSUME NEW f, NEW D, IsFiniteSet(D)
    PROVE  \E g : AreSums(f, D, g)
<1> DEFINE Small(n) == {A \in SUBSET D : Cardinality(A) <= n}
           T == {n \in Nat : \E g : IsSums(f, Small(n), g)}
<1>0. \A A \in SUBSET D : IsFiniteSet(A) /\ Cardinality(A) \in Nat /\ Cardinality(A) <= Cardinality(D)
  BY FS_Subset, FS_CardinalityType
<1>1. 0 \in T
  <2>1. \A A \in Small(0) : A = {}
    BY <1>0, FS_EmptySet
  <2>2. IsSums(f, Small(0), [A \in Small(0) |-> 0])
    BY <2>1 DEF IsSums
  <2> HIDE DEF Small
  <2> QED  BY <2>2
<1>2. ASSUME NEW n \in Nat, n \in T PROVE n + 1 \in T
  <2>1. PICK g : IsSums(f, Small(n), g)
    BY <1>2
  <2> DEFINE h == [A \in Small(n + 1) |->
                     IF A = {} THEN 0 ELSE f[AnyOf(A)] + g[A \ {AnyOf(A)}]]
  <2>2. \A B \in Small(n) : B \in Small(n + 1) /\ h[B] = g[B]
    <3> SUFFICES ASSUME NEW B \in Small(n) PROVE B \in Small(n + 1) /\ h[B] = g[B]
      OBVIOUS
    <3>1. B \in Small(n + 1)
      BY <1>0
    <3>2. g[B] = IF B = {} THEN 0 ELSE f[AnyOf(B)] + g[B \ {AnyOf(B)}]
      BY <2>1 DEF IsSums
    <3> HIDE DEF Small
    <3> QED  BY <3>1, <3>2
  <2>3. \A A \in Small(n + 1) : A # {} => A \ {AnyOf(A)} \in Small(n)
    <3> SUFFICES ASSUME NEW A \in Small(n + 1), A # {} PROVE A \ {AnyOf(A)} \in Small(n)
      OBVIOUS
    <3>1. AnyOf(A) \in A /\ A \in SUBSET D
      BY AnyOfIs
    <3>2. Cardinality(A \ {AnyOf(A)}) = Cardinality(A) - 1
      BY <1>0, <3>1, FS_RemoveElement
    <3> QED  BY <1>0, <3>1, <3>2
  <2>4. IsSums(f, Small(n + 1), h)
    <3> HIDE DEF Small
    <3>1. \A A \in Small(n + 1) : A # {} => h[A \ {AnyOf(A)}] = g[A \ {AnyOf(A)}]
      BY <2>2, <2>3
    <3> QED  BY <3>1 DEF IsSums
  <2> HIDE DEF Small
  <2> QED  BY <2>4
<1>3. Cardinality(D) \in T
  <2>1. Nat \subseteq T
    <3> HIDE DEF T
    <3> QED  BY <1>1, <1>2, NatSet
  <2> QED  BY <1>0, <2>1
<1>4. Small(Cardinality(D)) = SUBSET D
  BY <1>0
<1> HIDE DEF Small
<1> QED  BY <1>3, <1>4 DEF AreSums

\* Total is the sum over the whole domain.
LEMMA TotalIsSum ==
    ASSUME NEW f, IsFiniteSet(DOMAIN f)
    PROVE  \E g : AreSums(f, DOMAIN f, g) /\ Total(f) = g[DOMAIN f]
<1> DEFINE h == CHOOSE g : AreSums(f, DOMAIN f, g)
<1>1. AreSums(f, DOMAIN f, h)
  BY SumsExist
<1>2. Total(f) = h[DOMAIN f]
  BY Zenon DEF Total, MapThenSumSet, MapThenFoldSet, AreSums, IsSums, AnyOf
<1> QED  BY <1>1, <1>2, Zenon

\* The sums, without the function that has them.
LEMMA SumOfNone ==
    ASSUME NEW f, NEW D, NEW g, AreSums(f, D, g)
    PROVE  g[{}] = 0
BY DEF AreSums, IsSums

LEMMA SumsAreNat ==
    ASSUME NEW f, NEW D, IsFiniteSet(D), \A x \in D : f[x] \in Nat, NEW g, AreSums(f, D, g)
    PROVE  \A A \in SUBSET D : g[A] \in Nat
<1> DEFINE T == {n \in Nat : \A A \in SUBSET D : Cardinality(A) = n => g[A] \in Nat}
<1>0. \A A \in SUBSET D : IsFiniteSet(A) /\ Cardinality(A) \in Nat /\ (Cardinality(A) = 0 => A = {})
  BY FS_Subset, FS_CardinalityType, FS_EmptySet
<1>c. \A A \in SUBSET D : A # {} => g[A] = f[AnyOf(A)] + g[A \ {AnyOf(A)}]
  BY DEF AreSums, IsSums
<1>1. 0 \in T
  BY <1>0, SumOfNone
<1>2. ASSUME NEW n \in Nat, n \in T PROVE n + 1 \in T
  <2> SUFFICES ASSUME NEW A \in SUBSET D, Cardinality(A) = n + 1 PROVE g[A] \in Nat
    OBVIOUS
  <2>1. A # {}
    BY FS_EmptySet, n + 1 # 0
  <2>2. AnyOf(A) \in A
    BY <2>1, AnyOfIs
  <2>3. A \ {AnyOf(A)} \in SUBSET D /\ Cardinality(A \ {AnyOf(A)}) = n
    BY <2>2, OneLess
  <2>4. g[A \ {AnyOf(A)}] \in Nat /\ f[AnyOf(A)] \in Nat
    BY <1>2, <2>2, <2>3
  <2>5. g[A] = f[AnyOf(A)] + g[A \ {AnyOf(A)}]
    BY <1>c, <2>1
  <2> QED  BY <2>4, <2>5
<1>3. Nat \subseteq T
  <2> HIDE DEF T
  <2> QED  BY <1>1, <1>2, NatSet
<1> QED  BY <1>0, <1>3

\* Any element can be taken out first.
LEMMA SumsSplit ==
    ASSUME NEW f, NEW D, IsFiniteSet(D), \A x \in D : f[x] \in Nat, NEW g, AreSums(f, D, g),
           NEW B \in SUBSET D, NEW y \in B
    PROVE  g[B] = f[y] + g[B \ {y}]
<1> DEFINE T == {n \in Nat : \A A \in SUBSET D : Cardinality(A) = n
                                => \A x \in A : g[A] = f[x] + g[A \ {x}]}
<1>0. \A A \in SUBSET D : IsFiniteSet(A) /\ Cardinality(A) \in Nat /\ g[A] \in Nat
  BY FS_Subset, FS_CardinalityType, SumsAreNat
<1>c. \A A \in SUBSET D : A # {} => g[A] = f[AnyOf(A)] + g[A \ {AnyOf(A)}]
  BY DEF AreSums, IsSums
<1>1. 0 \in T
  BY <1>0, FS_EmptySet
<1>2. ASSUME NEW n \in Nat, n \in T PROVE n + 1 \in T
  <2> SUFFICES ASSUME NEW A \in SUBSET D, Cardinality(A) = n + 1, NEW x \in A
               PROVE  g[A] = f[x] + g[A \ {x}]
    OBVIOUS
  <2> DEFINE c == AnyOf(A)
  <2>1. c \in A /\ A # {}
    BY AnyOfIs
  <2> HIDE DEF c
  <2>2. g[A] = f[c] + g[A \ {c}]
    BY <1>c, <2>1 DEF c
  <2>3. CASE x = c
    BY <2>2, <2>3
  <2>4. CASE x # c
    <3>1. /\ A \ {c} \in SUBSET D /\ Cardinality(A \ {c}) = n /\ x \in A \ {c}
          /\ A \ {x} \in SUBSET D /\ Cardinality(A \ {x}) = n /\ c \in A \ {x}
      BY <2>1, <2>4, OneLess
    <3>2. g[A \ {c}] = f[x] + g[(A \ {c}) \ {x}]
      BY <1>2, <3>1
    <3>3. g[A \ {x}] = f[c] + g[(A \ {x}) \ {c}]
      BY <1>2, <3>1
    <3>4. (A \ {c}) \ {x} = (A \ {x}) \ {c} /\ (A \ {x}) \ {c} \in SUBSET D
      OBVIOUS
    <3> DEFINE rest == g[(A \ {x}) \ {c}]
    <3>5. f[x] \in Nat /\ f[c] \in Nat /\ rest \in Nat
      BY <1>0, <2>1, <3>4
    <3>6. g[A] = f[c] + (f[x] + rest) /\ g[A \ {x}] = f[c] + rest
      BY <2>2, <3>2, <3>3, <3>4
    <3> HIDE DEF rest
    <3> QED  BY <3>5, <3>6
  <2> QED  BY <2>3, <2>4
<1>3. Nat \subseteq T
  <2> HIDE DEF T
  <2> QED  BY <1>1, <1>2, NatSet
<1> QED  BY <1>0, <1>3

\* Sums of two functions that are alike on a set.
LEMMA SumsAgree ==
    ASSUME NEW f, NEW D, NEW g, AreSums(f, D, g),
           NEW e, NEW C, NEW h, AreSums(e, C, h),
           IsFiniteSet(D), C \subseteq D, \A x \in C : e[x] = f[x]
    PROVE  h[C] = g[C]
<1> DEFINE T == {n \in Nat : \A A \in SUBSET C : Cardinality(A) = n => h[A] = g[A]}
<1>0. /\ IsFiniteSet(C)
      /\ \A A \in SUBSET C : IsFiniteSet(A) /\ Cardinality(A) \in Nat /\ A \in SUBSET D
  BY FS_Subset, FS_CardinalityType
<1>a. g[{}] = 0
  BY SumOfNone
<1>b. h[{}] = 0
  BY SumOfNone
<1>c. \A A \in SUBSET C : A # {} => h[A] = e[AnyOf(A)] + h[A \ {AnyOf(A)}]
  BY DEF AreSums, IsSums
<1>d. \A A \in SUBSET D : A # {} => g[A] = f[AnyOf(A)] + g[A \ {AnyOf(A)}]
  BY DEF AreSums, IsSums
<1>1. 0 \in T
  BY <1>0, <1>a, <1>b, FS_EmptySet
<1>2. ASSUME NEW n \in Nat, n \in T PROVE n + 1 \in T
  <2> SUFFICES ASSUME NEW A \in SUBSET C, Cardinality(A) = n + 1 PROVE h[A] = g[A]
    OBVIOUS
  <2>1. A # {}
    BY FS_EmptySet
  <2>2. AnyOf(A) \in A
    BY <2>1, AnyOfIs
  <2>3. A \ {AnyOf(A)} \in SUBSET C /\ Cardinality(A \ {AnyOf(A)}) = n
    BY <1>0, <2>2, OneLess
  <2>4. h[A \ {AnyOf(A)}] = g[A \ {AnyOf(A)}] /\ e[AnyOf(A)] = f[AnyOf(A)]
    BY <1>2, <2>2, <2>3
  <2>5. h[A] = e[AnyOf(A)] + h[A \ {AnyOf(A)}]
    BY <1>c, <2>1
  <2>6. g[A] = f[AnyOf(A)] + g[A \ {AnyOf(A)}]
    BY <1>0, <1>d, <2>1
  <2> QED  BY <2>4, <2>5, <2>6
<1>3. Nat \subseteq T
  <2> HIDE DEF T
  <2> QED  BY <1>1, <1>2, NatSet
<1> QED  BY <1>0, <1>3

-----------------------------------------------------------------------------

\* Totals are numbers, and that of nothing is 0.
LEMMA TotalType ==
    ASSUME NEW f, IsFiniteSet(DOMAIN f), \A x \in DOMAIN f : f[x] \in Nat
    PROVE  Total(f) \in Nat /\ (DOMAIN f = {} => Total(f) = 0)
<1>1. PICK g : AreSums(f, DOMAIN f, g) /\ Total(f) = g[DOMAIN f]
  BY TotalIsSum
<1>2. \A A \in SUBSET DOMAIN f : g[A] \in Nat
  BY <1>1, SumsAreNat
<1>3. g[{}] = 0
  BY <1>1, SumOfNone
<1> QED  BY <1>1, <1>2, <1>3

\* Two functions that are alike have the same total, and the total of f over
\* a part of its domain is one of the sums of f.
LEMMA TotalOfPart ==
    ASSUME NEW f, IsFiniteSet(DOMAIN f), NEW g, AreSums(f, DOMAIN f, g),
           NEW e, DOMAIN e \subseteq DOMAIN f, \A x \in DOMAIN e : e[x] = f[x]
    PROVE  Total(e) = g[DOMAIN e]
<1>1. IsFiniteSet(DOMAIN e)
  BY FS_Subset
<1>2. PICK h : AreSums(e, DOMAIN e, h) /\ Total(e) = h[DOMAIN e]
  BY <1>1, TotalIsSum
<1> QED  BY <1>2, SumsAgree

LEMMA TotalSame ==
    ASSUME NEW f, IsFiniteSet(DOMAIN f), NEW e, DOMAIN e = DOMAIN f,
           \A x \in DOMAIN f : e[x] = f[x]
    PROVE  Total(e) = Total(f)
<1>1. PICK g : AreSums(f, DOMAIN f, g) /\ Total(f) = g[DOMAIN f]
  BY TotalIsSum
<1>2. Total(e) = g[DOMAIN e]
  BY <1>1, TotalOfPart
<1> QED  BY <1>1, <1>2

\* The total without one of the values.
LEMMA TotalWithout ==
    ASSUME NEW f, IsFiniteSet(DOMAIN f), \A x \in DOMAIN f : f[x] \in Nat, NEW x \in DOMAIN f
    PROVE  Total(f) = f[x] + Total(Restrict(f, DOMAIN f \ {x}))
<1> DEFINE e == Restrict(f, DOMAIN f \ {x})
<1>1. PICK g : AreSums(f, DOMAIN f, g) /\ Total(f) = g[DOMAIN f]
  BY TotalIsSum
<1>2. DOMAIN e = DOMAIN f \ {x} /\ \A y \in DOMAIN e : e[y] = f[y]
  BY DEF Restrict
<1> HIDE DEF e
<1>3. Total(e) = g[DOMAIN f \ {x}]
  <2>1. DOMAIN e \subseteq DOMAIN f
    BY <1>2
  <2>2. Total(e) = g[DOMAIN e]
    BY <1>1, <1>2, <2>1, TotalOfPart
  <2> QED  BY <1>2, <2>2
<1>4. g[DOMAIN f] = f[x] + g[DOMAIN f \ {x}]
  <2> DEFINE D == DOMAIN f
  <2>1. IsFiniteSet(D) /\ (\A y \in D : f[y] \in Nat) /\ AreSums(f, D, g) /\ x \in D
    BY <1>1
  <2> HIDE DEF D
  <2>2. g[D] = f[x] + g[D \ {x}]
    BY <2>1, SumsSplit
  <2> QED  BY <2>2 DEF D
<1> QED  BY <1>1, <1>3, <1>4 DEF e

\* The total when one value is set.
LEMMA TotalWith ==
    ASSUME NEW f, IsFiniteSet(DOMAIN f), \A z \in DOMAIN f : f[z] \in Nat, NEW x, NEW y \in Nat
    PROVE  Total(With(f, x, y)) = Total(f) + y - (IF x \in DOMAIN f THEN f[x] ELSE 0)
<1> DEFINE e == With(f, x, y)
           rest == Restrict(f, DOMAIN f \ {x})
<1>1. /\ DOMAIN e = DOMAIN f \cup {x}
      /\ \A z \in DOMAIN e : e[z] = IF z = x THEN y ELSE f[z]
  BY DEF With
<1>2. IsFiniteSet(DOMAIN e) /\ x \in DOMAIN e /\ \A z \in DOMAIN e : e[z] \in Nat
  BY <1>1, FS_AddElement
<1>3. Restrict(e, DOMAIN e \ {x}) = rest
  BY <1>1 DEF Restrict
<1> HIDE DEF e
<1>4. Total(e) = y + Total(rest)
  BY <1>1, <1>2, <1>3, TotalWithout
<1>5. Total(rest) \in Nat
  <2>1. DOMAIN rest = DOMAIN f \ {x} /\ \A z \in DOMAIN rest : rest[z] = f[z]
    BY DEF Restrict
  <2>2. IsFiniteSet(DOMAIN rest)
    BY <2>1, FS_Subset
  <2> HIDE DEF rest
  <2> QED  BY <2>1, <2>2, TotalType
<1>6. CASE x \in DOMAIN f
  <2>1. Total(f) = f[x] + Total(rest) /\ f[x] \in Nat
    BY <1>6, TotalWithout
  <2> HIDE DEF rest
  <2> QED  BY <1>4, <1>5, <1>6, <2>1 DEF e
<1>7. CASE x \notin DOMAIN f
  <2>1. Total(f) = Total(rest)
    <3>1. DOMAIN rest = DOMAIN f /\ \A z \in DOMAIN f : rest[z] = f[z]
      BY <1>7 DEF Restrict
    <3> HIDE DEF rest
    <3> QED  BY <3>1, TotalSame
  <2> HIDE DEF rest
  <2> QED  BY <1>4, <1>5, <1>7, <2>1 DEF e
<1> QED  BY <1>6, <1>7

-----------------------------------------------------------------------------
(* What cleanup_old_segments keeps.                                         *)

Above(A, n) == {m \in A : m > n}

\* A finite set of numbers has one with nothing above it.
LEMMA GreatestOf ==
    ASSUME NEW A \in SUBSET Nat, IsFiniteSet(A), A # {}
    PROVE  \E m \in A : Above(A, m) = {}
<1> DEFINE Counts == {Cardinality(Above(A, m)) : m \in A}
<1>1. \A m \in A : IsFiniteSet(Above(A, m)) /\ Cardinality(Above(A, m)) \in Nat
  BY FS_Subset, FS_CardinalityType DEF Above
<1>2. Counts \in SUBSET Nat /\ Counts # {}
  BY <1>1
<1>3. PICK c \in Counts : \A d \in Counts : c <= d
  <2> HIDE DEF Counts
  <2> QED  BY <1>2, LeastOf
<1>4. PICK m \in A : c = Cardinality(Above(A, m))
  BY <1>3
<1>5. ASSUME NEW k \in Above(A, m) PROVE FALSE
  <2>1. k \in A /\ k > m
    BY DEF Above
  <2>2. Above(A, k) \subseteq Above(A, m) \ {k}
    <3>1. ASSUME NEW j \in Above(A, k) PROVE j \in A /\ j > m /\ j # k
      <4>1. j \in Nat /\ k \in Nat /\ m \in Nat /\ j \in A /\ j > k
        BY <2>1 DEF Above
      <4> QED  BY <2>1, <4>1
    <3> QED  BY <3>1 DEF Above
  <2>3. Cardinality(Above(A, m) \ {k}) = c - 1 /\ IsFiniteSet(Above(A, m) \ {k})
    BY <1>1, <1>4, FS_RemoveElement
  <2>4. Cardinality(Above(A, k)) <= c - 1
    BY <2>2, <2>3, FS_Subset
  <2>5. c <= Cardinality(Above(A, k)) /\ c \in Nat
    BY <1>1, <1>3, <1>4, <2>1
  <2> QED  BY <1>1, <2>1, <2>4, <2>5
<1> QED  BY <1>5

\* Kept leaves the greatest names, keep of them at most and one at least.
LEMMA KeptIs ==
    ASSUME NEW f, DOMAIN f \in SUBSET Nat, IsFiniteSet(DOMAIN f), NEW keep \in Nat \ {0}
    PROVE  /\ DOMAIN Kept(f, keep) \subseteq DOMAIN f
           /\ IsFiniteSet(DOMAIN Kept(f, keep))
           /\ Kept(f, keep) = [n \in DOMAIN Kept(f, keep) |-> f[n]]
           /\ \A n \in DOMAIN f \ DOMAIN Kept(f, keep) : \A m \in DOMAIN Kept(f, keep) : n < m
           /\ DOMAIN f # {} => DOMAIN Kept(f, keep) # {}
           /\ Cardinality(DOMAIN Kept(f, keep)) <= keep
           /\ Cardinality(DOMAIN Kept(f, keep)) <= Cardinality(DOMAIN f)
<1> DEFINE A == DOMAIN f
           K == DOMAIN Kept(f, keep)
<1>1. K = {n \in A : Cardinality(Above(A, n)) < keep} /\ Kept(f, keep) = [n \in K |-> f[n]]
  BY DEF Kept, Above, Restrict
<1>2. A \in SUBSET Nat /\ IsFiniteSet(A)
  OBVIOUS
<1> HIDE DEF A, K
<1>3. \A n \in A : IsFiniteSet(Above(A, n)) /\ Cardinality(Above(A, n)) \in Nat
  BY <1>2, FS_Subset, FS_CardinalityType DEF Above
<1>4. IsFiniteSet(K) /\ Cardinality(K) \in Nat /\ Cardinality(K) <= Cardinality(A)
  BY <1>1, <1>2, FS_Subset, FS_CardinalityType
<1>5. ASSUME NEW n \in A \ K, NEW m \in K PROVE n < m
  <2> SUFFICES ASSUME m <= n PROVE FALSE
    BY <1>1, <1>2
  <2>1. Above(A, n) \subseteq Above(A, m)
    <3>1. ASSUME NEW k \in Above(A, n) PROVE k \in A /\ k > m
      <4>1. k \in Nat /\ n \in Nat /\ m \in Nat /\ k \in A /\ k > n
        BY <1>1, <1>2 DEF Above
      <4> QED  BY <4>1
    <3> QED  BY <3>1 DEF Above
  <2>2. Cardinality(Above(A, n)) <= Cardinality(Above(A, m))
    BY <1>1, <1>3, <2>1, FS_Subset
  <2> QED  BY <1>1, <1>3, <2>2
<1>6. A # {} => K # {}
  <2> SUFFICES ASSUME A # {} PROVE K # {}
    OBVIOUS
  <2>1. PICK m \in A : Above(A, m) = {}
    BY <1>2, GreatestOf
  <2>2. Cardinality(Above(A, m)) < keep
    BY <2>1, FS_EmptySet
  <2> QED  BY <1>1, <2>2
<1>7. Cardinality(K) <= keep
  <2>1. CASE K = {}
    BY <2>1, FS_EmptySet
  <2>2. CASE K # {}
    <3>1. PICK x \in K : \A n \in K : x <= n
      BY <1>1, <1>2, <2>2, LeastOf
    <3>2. K \ {x} \subseteq Above(A, x) /\ x \in A
      <4>1. ASSUME NEW k \in K \ {x} PROVE k \in A /\ k > x
        <5>1. k \in Nat /\ x \in Nat /\ x <= k /\ x # k /\ k \in A
          BY <1>1, <1>2, <3>1
        <5> QED  BY <5>1
      <4> QED  BY <1>1, <3>1, <4>1 DEF Above
    <3>3. Cardinality(K \ {x}) <= Cardinality(Above(A, x)) /\ Cardinality(Above(A, x)) < keep
      BY <1>1, <1>3, <3>2, FS_Subset
    <3>4. Cardinality(K \ {x}) = Cardinality(K) - 1
      BY <1>4, <3>1, FS_RemoveElement
    <3> QED  BY <1>3, <1>4, <3>2, <3>3, <3>4
  <2> QED  BY <2>1, <2>2
<1> QED  BY <1>1, <1>4, <1>5, <1>6, <1>7 DEF A, K

-----------------------------------------------------------------------------
(* What is true of the record of a stream, whether or not it has a buffer.  *)

Extras == {"playlist", "init"}

\* The sizes are exact, and, of names given in order, the segments are the newest.
IsRight(ordered, segs, ex, size, stored, lost) ==
    /\ segs \in SomeSizes(Names) /\ IsFiniteSet(DOMAIN segs)
    /\ ex \in SomeSizes(Extras)
    /\ DOMAIN segs \subseteq stored /\ stored \subseteq Names
    /\ lost \in Nat
    /\ size = Total(segs) + Total(ex) + lost
    /\ ordered => /\ \A n \in stored \ DOMAIN segs : \A m \in DOMAIN segs : n < m
                  /\ stored # {} => DOMAIN segs # {}

LEMMA SomeSizesIs ==
    ASSUME NEW Of, NEW f
    PROVE  f \in SomeSizes(Of) <=> f = [x \in DOMAIN f |-> f[x]] /\ DOMAIN f \subseteq Of
                                   /\ \A x \in DOMAIN f : f[x] \in Sizes
<1>1. ASSUME f \in SomeSizes(Of)
      PROVE  f = [x \in DOMAIN f |-> f[x]] /\ DOMAIN f \subseteq Of /\ \A x \in DOMAIN f : f[x] \in Sizes
  <2>1. PICK X \in SUBSET Of : f \in [X -> Sizes]
    BY <1>1 DEF SomeSizes
  <2> QED  BY <2>1
<1>2. ASSUME f = [x \in DOMAIN f |-> f[x]], DOMAIN f \subseteq Of, \A x \in DOMAIN f : f[x] \in Sizes
      PROVE  f \in SomeSizes(Of)
  <2>1. f \in [DOMAIN f -> Sizes]
    BY <1>2
  <2> QED  BY <1>2, <2>1 DEF SomeSizes
<1> QED  BY <1>1, <1>2

LEMMA WithIs ==
    ASSUME NEW Of, NEW f \in SomeSizes(Of), NEW x \in Of, NEW y \in Sizes
    PROVE  With(f, x, y) \in SomeSizes(Of) /\ DOMAIN With(f, x, y) = DOMAIN f \cup {x}
<1> DEFINE e == With(f, x, y)
<1>1. /\ DOMAIN e = DOMAIN f \cup {x}
      /\ e = [z \in DOMAIN e |-> e[z]]
      /\ \A z \in DOMAIN e : e[z] = IF z = x THEN y ELSE f[z]
  BY DEF With
<1>2. DOMAIN f \subseteq Of /\ \A z \in DOMAIN f : f[z] \in Sizes
  BY SomeSizesIs
<1> HIDE DEF e
<1>3. e \in SomeSizes(Of)
  <2>1. DOMAIN e \subseteq Of /\ \A z \in DOMAIN e : e[z] \in Sizes
    BY <1>1, <1>2
  <2> QED  BY <1>1, <2>1, SomeSizesIs
<1> QED  BY <1>1, <1>3 DEF e

\* The totals of the parts of a record are numbers.
LEMMA SizesAreNat ==
    ASSUME NEW Of, NEW f \in SomeSizes(Of), IsFiniteSet(DOMAIN f)
    PROVE  Total(f) \in Nat /\ \A x \in DOMAIN f : f[x] \in Nat
<1>1. \A x \in DOMAIN f : f[x] \in Nat
  BY SomeSizesIs, BufferAssumption
<1> QED  BY <1>1, TotalType

LEMMA ExtrasFinite ==
    ASSUME NEW ex \in SomeSizes(Extras)
    PROVE  IsFiniteSet(DOMAIN ex)
<1>1. IsFiniteSet({"playlist"}) /\ IsFiniteSet(Extras)
  <2>1. IsFiniteSet({"playlist"})
    BY FS_Singleton
  <2>2. Extras = {"playlist"} \cup {"init"}
    BY DEF Extras
  <2> QED  BY <2>1, <2>2, FS_AddElement
<1>2. DOMAIN ex \in SUBSET Extras
  BY SomeSizesIs
<1> QED  BY <1>1, <1>2, FS_Subset

\* An empty record.
LEMMA EmptyIsRight ==
    ASSUME NEW ordered \in BOOLEAN
    PROVE  IsRight(ordered, <<>>, <<>>, 0, {}, 0)
<1> DEFINE none == <<>>
<1>1. DOMAIN none = {} /\ none = [x \in DOMAIN none |-> none[x]]
  OBVIOUS
<1> HIDE DEF none
<1>2. IsFiniteSet(DOMAIN none) /\ \A Of : none \in SomeSizes(Of)
  BY <1>1, SomeSizesIs, FS_EmptySet
<1>3. Total(none) = 0
  BY <1>1, <1>2, TotalType
<1>4. IsRight(ordered, none, none, 0, {}, 0)
  BY <1>1, <1>2, <1>3 DEF IsRight
<1> QED  BY <1>4 DEF none

\* cleanup_old_segments: the size that is freed is taken off.
LEMMA KeptIsRight ==
    ASSUME NEW ordered \in BOOLEAN, NEW segs, NEW ex, NEW size, NEW stored, NEW lost,
           IsRight(ordered, segs, ex, size, stored, lost), NEW keep \in Nat \ {0}
    PROVE  /\ IsRight(ordered, Kept(segs, keep), ex, size - Freed(segs, keep), stored, lost)
           /\ Cardinality(DOMAIN Kept(segs, keep)) <= keep
           /\ Cardinality(DOMAIN Kept(segs, keep)) <= Cardinality(DOMAIN segs)
<1> DEFINE left == Kept(segs, keep)
<1>1. /\ DOMAIN segs \in SUBSET Nat /\ DOMAIN segs \subseteq Names
      /\ IsFiniteSet(DOMAIN segs) /\ \A x \in DOMAIN segs : segs[x] \in Sizes
  BY SomeSizesIs, BufferAssumption DEF IsRight
<1>2. /\ DOMAIN left \subseteq DOMAIN segs
      /\ IsFiniteSet(DOMAIN left)
      /\ left = [n \in DOMAIN left |-> segs[n]]
      /\ \A n \in DOMAIN segs \ DOMAIN left : \A m \in DOMAIN left : n < m
      /\ DOMAIN segs # {} => DOMAIN left # {}
      /\ Cardinality(DOMAIN left) <= keep
      /\ Cardinality(DOMAIN left) <= Cardinality(DOMAIN segs)
  BY <1>1, KeptIs
<1>3. Freed(segs, keep) = Total(segs) - Total(left)
  BY DEF Freed
<1> HIDE DEF left
<1>4. left \in SomeSizes(Names)
  <2>1. \A n \in DOMAIN left : left[n] = segs[n]
    BY <1>2
  <2>2. left = [n \in DOMAIN left |-> left[n]] /\ DOMAIN left \subseteq Names
        /\ \A n \in DOMAIN left : left[n] \in Sizes
    BY <1>1, <1>2, <2>1
  <2> QED  BY <2>2, SomeSizesIs
<1>5. Total(segs) \in Nat /\ Total(left) \in Nat /\ Total(ex) \in Nat
  BY <1>2, <1>4, SizesAreNat, ExtrasFinite DEF IsRight
<1>6. size - Freed(segs, keep) = Total(left) + Total(ex) + lost
  BY <1>3, <1>5 DEF IsRight
<1>7. IsRight(ordered, left, ex, size - Freed(segs, keep), stored, lost)
  BY <1>2, <1>4, <1>6 DEF IsRight
<1> QED  BY <1>2, <1>7 DEF left

\* add_segment: the whole size is added, what it replaces is lost.
LEMMA WithIsRight ==
    ASSUME NEW ordered \in BOOLEAN, NEW segs, NEW ex, NEW total, NEW stored, NEW lost,
           IsRight(ordered, segs, ex, total, stored, lost),
           NEW name \in Names, NEW size \in Sizes, ordered => \A n \in stored : n <= name
    PROVE  IsRight(ordered, With(segs, name, size), ex, total + size, stored \cup {name},
                   IF name \in DOMAIN segs THEN lost + segs[name] ELSE lost)
<1> DEFINE added == With(segs, name, size)
           gone  == IF name \in DOMAIN segs THEN lost + segs[name] ELSE lost
<1>1. /\ added \in SomeSizes(Names) /\ DOMAIN added = DOMAIN segs \cup {name}
      /\ IsFiniteSet(DOMAIN added)
  <2>1. segs \in SomeSizes(Names) /\ IsFiniteSet(DOMAIN segs)
    BY DEF IsRight
  <2>2. added \in SomeSizes(Names)
    BY <2>1, WithIs
  <2>3. DOMAIN added = DOMAIN segs \cup {name}
    BY DEF With
  <2> HIDE DEF added
  <2> QED  BY <2>1, <2>2, <2>3, FS_AddElement
<1>2. (\A x \in DOMAIN segs : segs[x] \in Nat) /\ Total(segs) \in Nat /\ Total(ex) \in Nat /\ size \in Nat
  BY SizesAreNat, ExtrasFinite, BufferAssumption DEF IsRight
<1>3. Total(added) = Total(segs) + size - (IF name \in DOMAIN segs THEN segs[name] ELSE 0)
  BY <1>2, TotalWith DEF IsRight
<1> HIDE DEF added
<1>4. gone \in Nat /\ total + size = Total(added) + Total(ex) + gone
  BY <1>1, <1>2, <1>3 DEF IsRight
<1> HIDE DEF gone
<1>5. ASSUME ordered, NEW n \in (stored \cup {name}) \ DOMAIN added, NEW m \in DOMAIN added
      PROVE  n < m
  <2>1. n \in stored \ DOMAIN segs /\ n # name /\ n \in Nat /\ n <= name
    BY <1>1, <1>5, BufferAssumption DEF IsRight
  <2>2. CASE m = name
    BY <2>1, <2>2, BufferAssumption
  <2>3. CASE m \in DOMAIN segs
    BY <1>5, <2>1, <2>3 DEF IsRight
  <2> QED  BY <1>1, <2>2, <2>3
<1>6. IsRight(ordered, added, ex, total + size, stored \cup {name}, gone)
  BY <1>1, <1>4, <1>5 DEF IsRight
<1> QED  BY <1>6 DEF added, gone

\* store_playlist and store_init_segment: the size of the old data is taken off.
LEMMA ExtraIsRight ==
    ASSUME NEW ordered \in BOOLEAN, NEW segs, NEW ex, NEW total, NEW stored, NEW lost,
           IsRight(ordered, segs, ex, total, stored, lost), NEW what \in Extras, NEW size \in Sizes
    PROVE  IsRight(ordered, segs, With(ex, what, size),
                   total + size - (IF what \in DOMAIN ex THEN ex[what] ELSE 0), stored, lost)
<1> DEFINE added == With(ex, what, size)
<1>1. added \in SomeSizes(Extras) /\ IsFiniteSet(DOMAIN ex)
  BY WithIs, ExtrasFinite DEF IsRight
<1>2. /\ Total(segs) \in Nat /\ Total(ex) \in Nat /\ size \in Nat
      /\ \A x \in DOMAIN ex : ex[x] \in Nat
  BY <1>1, SizesAreNat, BufferAssumption DEF IsRight
<1>3. Total(added) = Total(ex) + size - (IF what \in DOMAIN ex THEN ex[what] ELSE 0)
  BY <1>1, <1>2, TotalWith
<1> HIDE DEF added
<1>4. total + size - (IF what \in DOMAIN ex THEN ex[what] ELSE 0) = Total(segs) + Total(added) + lost
  BY <1>2, <1>3 DEF IsRight
<1>5. IsRight(ordered, segs, added,
              total + size - (IF what \in DOMAIN ex THEN ex[what] ELSE 0), stored, lost)
  BY <1>1, <1>4 DEF IsRight
<1> QED  BY <1>5 DEF added

-----------------------------------------------------------------------------
(* The inductive invariant.                                                 *)

RecordIsRight(s) ==
    IsRight(in_order, segments[s], extra[s], total_size[s], known[s], rewritten[s])
NotTooMany(s) == Cardinality(DOMAIN segments[s]) <= MaxSegments

\* The streams that have a buffer were updated by distinct calls.
ClockIsRight ==
    /\ calls \in Nat
    /\ last_updated \in [Streams -> Nat]
    /\ \A s \in Streams : last_updated[s] <= calls
    /\ \A s, r \in buffers : last_updated[s] = last_updated[r] => s = r

RecordsAreFunctions ==
    /\ segments = [s \in Streams |-> segments[s]]
    /\ extra = [s \in Streams |-> extra[s]]
    /\ total_size = [s \in Streams |-> total_size[s]]
    /\ known = [s \in Streams |-> known[s]]
    /\ rewritten = [s \in Streams |-> rewritten[s]]

BufferStructure ==
    /\ in_order \in BOOLEAN
    /\ buffers \in SUBSET Streams
    /\ RecordsAreFunctions
    /\ ClockIsRight
    /\ \A s \in Streams : RecordIsRight(s) /\ NotTooMany(s)

\* The size of a record is a number.
LEMMA SizeIsNat ==
    ASSUME NEW ordered \in BOOLEAN, NEW segs, NEW ex, NEW size, NEW stored, NEW lost,
           IsRight(ordered, segs, ex, size, stored, lost)
    PROVE  size \in Nat
<1>1. Total(segs) \in Nat /\ Total(ex) \in Nat /\ lost \in Nat
  BY SizesAreNat, ExtrasFinite DEF IsRight
<1> QED  BY <1>1 DEF IsRight

LEMMA StructureImplies ==
    ASSUME BufferStructure
    PROVE  BufferInv /\ KeepsLatest
<1>1. BufferTypeOK
  <2>1. total_size \in [Streams -> Nat]
    <3>1. \A s \in Streams : total_size[s] \in Nat
      BY SizeIsNat DEF BufferStructure, RecordIsRight
    <3> QED  BY <3>1 DEF BufferStructure, RecordsAreFunctions
  <2>2. segments \in [Streams -> SomeSizes(Names)] /\ extra \in [Streams -> SomeSizes({"playlist", "init"})]
    BY DEF BufferStructure, RecordsAreFunctions, RecordIsRight, IsRight, Extras
  <2>3. last_updated \in [Streams -> 0..calls]
    BY DEF BufferStructure, ClockIsRight
  <2> QED  BY <2>1, <2>2, <2>3 DEF BufferTypeOK, BufferStructure, ClockIsRight
<1>2. SizesAreExact
  BY DEF SizesAreExact, BufferStructure, RecordIsRight, IsRight
<1>3. KeepsLatest
  BY DEF KeepsLatest, BufferStructure, RecordIsRight, IsRight, NotTooMany
<1> QED  BY <1>1, <1>2, <1>3 DEF BufferInv

\* A record that is as it was.
LEMMA SameRecord ==
    ASSUME BufferStructure, in_order' = in_order, NEW s \in Streams,
           segments'[s] = segments[s], extra'[s] = extra[s], total_size'[s] = total_size[s],
           known'[s] = known[s], rewritten'[s] = rewritten[s]
    PROVE  (RecordIsRight(s) /\ NotTooMany(s))'
BY DEF BufferStructure, RecordIsRight, NotTooMany

\* A record that was emptied.
LEMMA EmptyRecord ==
    ASSUME BufferStructure, in_order' = in_order, NEW s \in Streams,
           segments'[s] = <<>>, extra'[s] = <<>>, total_size'[s] = 0,
           known'[s] = {}, rewritten'[s] = 0
    PROVE  (RecordIsRight(s) /\ NotTooMany(s))'
<1>1. in_order \in BOOLEAN
  BY DEF BufferStructure
<1>2. IsRight(in_order, <<>>, <<>>, 0, {}, 0)
  BY <1>1, EmptyIsRight
<1>3. RecordIsRight(s)'
  BY <1>2 DEF RecordIsRight
<1>4. Cardinality(DOMAIN <<>>) = 0
  <2>1. DOMAIN <<>> = {}
    OBVIOUS
  <2> QED  BY <2>1, FS_EmptySet
<1>5. NotTooMany(s)'
  BY <1>4, BufferAssumption DEF NotTooMany
<1> QED  BY <1>3, <1>5

\* A call moves the clock, whether it updates a stream or removes it.
LEMMA ClockMoves ==
    ASSUME BufferStructure, Called, NEW s \in Streams,
           \/ Touch(s) /\ buffers' \subseteq buffers \cup {s}
           \/ last_updated' = last_updated /\ buffers' = buffers
           \/ last_updated' = [last_updated EXCEPT ![s] = 0] /\ buffers' = buffers \ {s}
    PROVE  ClockIsRight'
<1>1. /\ calls \in Nat /\ calls' = calls + 1
      /\ last_updated \in [Streams -> Nat]
      /\ \A r \in Streams : last_updated[r] <= calls
      /\ buffers \subseteq Streams
      /\ \A q, r \in buffers : last_updated[q] = last_updated[r] => q = r
  BY DEF BufferStructure, ClockIsRight, Called
<1>2. CASE Touch(s) /\ buffers' \subseteq buffers \cup {s}
  <2>1. /\ last_updated' \in [Streams -> Nat]
        /\ last_updated'[s] = calls + 1
        /\ \A r \in Streams \ {s} : last_updated'[r] = last_updated[r]
    BY <1>1, <1>2 DEF Touch
  <2>2. \A r \in Streams : last_updated'[r] <= calls'
    BY <1>1, <2>1
  <2>3. ASSUME NEW q \in buffers', NEW r \in buffers', last_updated'[q] = last_updated'[r]
        PROVE  q = r
    BY <1>1, <1>2, <2>1, <2>3
  <2> QED  BY <1>1, <2>1, <2>2, <2>3 DEF ClockIsRight
<1>3. CASE last_updated' = last_updated /\ buffers' = buffers
  BY <1>1, <1>3 DEF ClockIsRight
<1>4. CASE last_updated' = [last_updated EXCEPT ![s] = 0] /\ buffers' = buffers \ {s}
  <2>1. /\ last_updated' \in [Streams -> Nat]
        /\ last_updated'[s] = 0
        /\ \A r \in Streams \ {s} : last_updated'[r] = last_updated[r]
    BY <1>1, <1>4
  <2>2. \A r \in Streams : last_updated'[r] <= calls'
    BY <1>1, <2>1
  <2>3. ASSUME NEW q \in buffers', NEW r \in buffers', last_updated'[q] = last_updated'[r]
        PROVE  q = r
    BY <1>1, <1>4, <2>1, <2>3
  <2> QED  BY <1>1, <2>1, <2>2, <2>3 DEF ClockIsRight
<1> QED  BY <1>2, <1>3, <1>4

\* The cleanup of the victim, if there is one.
LEMMA ShrunkIsRight ==
    ASSUME BufferStructure, NEW size, NEW s \in Streams
    PROVE  /\ IsRight(in_order, Shrunk(size)[s], extra[s], ShrunkSize(size)[s], known[s], rewritten[s])
           /\ Cardinality(DOMAIN Shrunk(size)[s]) <= MaxSegments
<1>1. /\ in_order \in BOOLEAN
      /\ IsRight(in_order, segments[s], extra[s], total_size[s], known[s], rewritten[s])
      /\ Cardinality(DOMAIN segments[s]) <= MaxSegments
      /\ IsFiniteSet(DOMAIN segments[s])
  BY DEF BufferStructure, RecordIsRight, NotTooMany, IsRight
<1>2. CASE s \notin Victim(size)
  <2>1. Shrunk(size)[s] = segments[s] /\ ShrunkSize(size)[s] = total_size[s]
    BY <1>2 DEF Shrunk, ShrunkSize
  <2> QED  BY <1>1, <2>1
<1>3. CASE s \in Victim(size)
  <2> DEFINE keep == AtLeastOne(Cardinality(DOMAIN segments[s]) \div 2)
  <2>1. keep \in Nat \ {0}
    <3>1. Cardinality(DOMAIN segments[s]) \in Nat
      BY <1>1, FS_CardinalityType
    <3>2. Cardinality(DOMAIN segments[s]) \div 2 \in Nat
      BY <3>1
    <3> QED  BY <3>2 DEF AtLeastOne
  <2>2. Shrunk(size)[s] = Kept(segments[s], keep) /\ ShrunkSize(size)[s] = total_size[s] - Freed(segments[s], keep)
    BY <1>3 DEF Shrunk, ShrunkSize
  <2> HIDE DEF keep
  <2>3. /\ IsRight(in_order, Kept(segments[s], keep), extra[s], total_size[s] - Freed(segments[s], keep),
                   known[s], rewritten[s])
        /\ Cardinality(DOMAIN Kept(segments[s], keep)) <= Cardinality(DOMAIN segments[s])
    BY <1>1, <2>1, KeptIsRight
  <2>4. Cardinality(DOMAIN Kept(segments[s], keep)) \in Nat /\ Cardinality(DOMAIN segments[s]) \in Nat
    BY <1>1, <2>3, FS_CardinalityType DEF IsRight
  <2> QED  BY <1>1, <2>2, <2>3, <2>4, BufferAssumption
<1> QED  BY <1>2, <1>3

LEMMA BufferInitIsRight ==
    ASSUME BufferInit
    PROVE  BufferStructure
<1>1. in_order \in BOOLEAN /\ buffers \in SUBSET Streams
  BY DEF BufferInit
<1>2. RecordsAreFunctions
  BY DEF BufferInit, RecordsAreFunctions
<1>3. ClockIsRight
  BY DEF BufferInit, ClockIsRight
<1>4. ASSUME NEW s \in Streams PROVE RecordIsRight(s) /\ NotTooMany(s)
  <2>1. /\ segments[s] = <<>> /\ extra[s] = <<>> /\ total_size[s] = 0
        /\ known[s] = {} /\ rewritten[s] = 0
    BY DEF BufferInit
  <2>2. RecordIsRight(s)
    BY <1>1, <2>1, EmptyIsRight DEF RecordIsRight
  <2>3. DOMAIN segments[s] = {}
    BY <2>1
  <2>4. NotTooMany(s)
    BY <2>3, FS_EmptySet, BufferAssumption DEF NotTooMany
  <2> QED  BY <2>2, <2>4
<1> QED  BY <1>1, <1>2, <1>3, <1>4 DEF BufferStructure

LEMMA CreateStreamIsRight ==
    ASSUME BufferStructure, NEW s \in Streams, CreateStream(s)
    PROVE  BufferStructure'
<1>1. in_order' = in_order /\ in_order \in BOOLEAN /\ buffers' \in SUBSET Streams
  BY DEF CreateStream, Called, BufferStructure
<1>2. RecordsAreFunctions'
  BY DEF CreateStream, BufferStructure, RecordsAreFunctions
<1>3. ClockIsRight'
  BY ClockMoves DEF CreateStream
<1>4. ASSUME NEW r \in Streams PROVE (RecordIsRight(r) /\ NotTooMany(r))'
  <2>1. CASE r = s
    <3>1. /\ segments'[r] = <<>> /\ extra'[r] = <<>> /\ total_size'[r] = 0
          /\ known'[r] = {} /\ rewritten'[r] = 0
      BY <2>1 DEF CreateStream, BufferStructure, RecordsAreFunctions
    <3> QED  BY <1>1, <3>1, EmptyRecord
  <2>2. CASE r # s
    <3>1. /\ segments'[r] = segments[r] /\ extra'[r] = extra[r] /\ total_size'[r] = total_size[r]
          /\ known'[r] = known[r] /\ rewritten'[r] = rewritten[r]
      BY <2>2 DEF CreateStream, BufferStructure, RecordsAreFunctions
    <3> QED  BY <1>1, <3>1, SameRecord
  <2> QED  BY <2>1, <2>2
<1> QED  BY <1>1, <1>2, <1>3, <1>4 DEF BufferStructure

LEMMA RemoveStreamIsRight ==
    ASSUME BufferStructure, NEW s \in Streams, RemoveStream(s)
    PROVE  BufferStructure'
<1>1. in_order' = in_order /\ in_order \in BOOLEAN /\ buffers' \in SUBSET Streams
  BY DEF RemoveStream, Called, BufferStructure
<1>2. RecordsAreFunctions'
  BY DEF RemoveStream, BufferStructure, RecordsAreFunctions
<1>3. ClockIsRight'
  BY ClockMoves DEF RemoveStream
<1>4. ASSUME NEW r \in Streams PROVE (RecordIsRight(r) /\ NotTooMany(r))'
  <2>1. CASE r = s
    <3>1. /\ segments'[r] = <<>> /\ extra'[r] = <<>> /\ total_size'[r] = 0
          /\ known'[r] = {} /\ rewritten'[r] = 0
      BY <2>1 DEF RemoveStream, BufferStructure, RecordsAreFunctions
    <3> QED  BY <1>1, <3>1, EmptyRecord
  <2>2. CASE r # s
    <3>1. /\ segments'[r] = segments[r] /\ extra'[r] = extra[r] /\ total_size'[r] = total_size[r]
          /\ known'[r] = known[r] /\ rewritten'[r] = rewritten[r]
      BY <2>2 DEF RemoveStream, BufferStructure, RecordsAreFunctions
    <3> QED  BY <1>1, <3>1, SameRecord
  <2> QED  BY <2>1, <2>2
<1> QED  BY <1>1, <1>2, <1>3, <1>4 DEF BufferStructure

\* The cleanup leaves the record of every stream right, also where nothing is stored.
LEMMA StoreNowhereIsRight ==
    ASSUME BufferStructure, NEW s \in Streams, NEW size, StoreNowhere(s, size)
    PROVE  BufferStructure'
<1>1. in_order' = in_order /\ in_order \in BOOLEAN /\ buffers' \in SUBSET Streams
  BY DEF StoreNowhere, Called, BufferStructure
<1>2. RecordsAreFunctions'
  BY DEF StoreNowhere, BufferStructure, RecordsAreFunctions, Shrunk, ShrunkSize
<1>3. ClockIsRight'
  BY ClockMoves DEF StoreNowhere
<1>4. ASSUME NEW r \in Streams PROVE (RecordIsRight(r) /\ NotTooMany(r))'
  <2>1. /\ segments'[r] = Shrunk(size)[r] /\ total_size'[r] = ShrunkSize(size)[r]
        /\ extra' = extra /\ known' = known /\ rewritten' = rewritten
    BY DEF StoreNowhere
  <2> QED  BY <1>1, <2>1, ShrunkIsRight DEF RecordIsRight, NotTooMany
<1> QED  BY <1>1, <1>2, <1>3, <1>4 DEF BufferStructure

\* add_segment and the cleanup that follows it.
LEMMA StoredIsRight ==
    ASSUME NEW ordered \in BOOLEAN, NEW segs, NEW ex, NEW total, NEW stored, NEW lost,
           IsRight(ordered, segs, ex, total, stored, lost),
           NEW name \in Names, NEW size \in Sizes, ordered => \A n \in stored : n <= name,
           NEW added, added = With(segs, name, size),
           NEW gone, gone = IF name \in DOMAIN segs THEN lost + segs[name] ELSE lost
    PROVE  /\ IsRight(ordered, Kept(added, MaxSegments), ex,
                      total + size - Freed(added, MaxSegments), stored \cup {name}, gone)
           /\ Cardinality(DOMAIN Kept(added, MaxSegments)) <= MaxSegments
<1>1. IsRight(ordered, added, ex, total + size, stored \cup {name}, gone)
  BY WithIsRight
<1>2. MaxSegments \in Nat \ {0}
  BY BufferAssumption
<1>3. /\ IsRight(ordered, Kept(added, MaxSegments), ex, (total + size) - Freed(added, MaxSegments),
                 stored \cup {name}, gone)
      /\ Cardinality(DOMAIN Kept(added, MaxSegments)) <= MaxSegments
  BY <1>1, <1>2, KeptIsRight
<1>4. (total + size) - Freed(added, MaxSegments) = total + size - Freed(added, MaxSegments)
  <2>1. total \in Nat /\ size \in Nat
    BY SizeIsNat, BufferAssumption
  <2>2. Total(added) \in Nat
    BY <1>1, SizesAreNat DEF IsRight
  <2>3. Total(Kept(added, MaxSegments)) \in Nat
    BY <1>3, SizesAreNat DEF IsRight
  <2> QED  BY <2>1, <2>2, <2>3 DEF Freed
<1> QED  BY <1>3, <1>4

LEMMA StoreSegmentIsRight ==
    ASSUME BufferStructure, NEW s \in Streams, NEW name \in Names, NEW size \in Sizes,
           StoreSegment(s, name, size)
    PROVE  BufferStructure'
<1>1. in_order' = in_order /\ in_order \in BOOLEAN /\ buffers' \in SUBSET Streams
  BY DEF StoreSegment, Called, BufferStructure
<1>2. RecordsAreFunctions'
  BY DEF StoreSegment, BufferStructure, RecordsAreFunctions, Shrunk, ShrunkSize
<1>3. ClockIsRight'
  BY ClockMoves DEF StoreSegment
<1>4. PICK before, held, added, lost :
        /\ before = Shrunk(size)[s] /\ held = ShrunkSize(size)[s]
        /\ added = With(before, name, size)
        /\ lost = IF name \in DOMAIN before THEN rewritten[s] + before[name] ELSE rewritten[s]
  OBVIOUS
<1>5. /\ segments'[s] = Kept(added, MaxSegments)
      /\ total_size'[s] = held + size - Freed(added, MaxSegments)
      /\ known'[s] = known[s] \cup {name} /\ extra'[s] = extra[s] /\ rewritten'[s] = lost
  <2>1. s \in DOMAIN Shrunk(size) /\ s \in DOMAIN ShrunkSize(size)
    BY DEF Shrunk, ShrunkSize
  <2>2. segments'[s] = Kept(added, MaxSegments)
    BY <1>4, <2>1 DEF StoreSegment
  <2>3. total_size'[s] = held + size - Freed(added, MaxSegments)
    BY <1>4, <2>1 DEF StoreSegment
  <2>4. known'[s] = known[s] \cup {name} /\ extra'[s] = extra[s]
    BY DEF StoreSegment, BufferStructure, RecordsAreFunctions
  <2>5. rewritten'[s] = lost
    BY <1>4 DEF StoreSegment, BufferStructure, RecordsAreFunctions
  <2> QED  BY <2>2, <2>3, <2>4, <2>5
<1>6. (RecordIsRight(s) /\ NotTooMany(s))'
  <2>1. IsRight(in_order, before, extra[s], held, known[s], rewritten[s])
    BY <1>4, ShrunkIsRight
  <2>2. in_order => \A n \in known[s] : n <= name
    BY DEF StoreSegment
  <2>3. /\ IsRight(in_order, Kept(added, MaxSegments), extra[s],
                   held + size - Freed(added, MaxSegments), known[s] \cup {name}, lost)
        /\ Cardinality(DOMAIN Kept(added, MaxSegments)) <= MaxSegments
    BY <1>1, <1>4, <2>1, <2>2, StoredIsRight
  <2>4. RecordIsRight(s)'
    BY <1>1, <1>5, <2>3 DEF RecordIsRight
  <2>5. NotTooMany(s)'
    BY <1>5, <2>3 DEF NotTooMany
  <2> QED  BY <2>4, <2>5
<1>7. ASSUME NEW r \in Streams \ {s} PROVE (RecordIsRight(r) /\ NotTooMany(r))'
  <2>1. /\ segments'[r] = Shrunk(size)[r] /\ total_size'[r] = ShrunkSize(size)[r]
        /\ extra'[r] = extra[r] /\ known'[r] = known[r] /\ rewritten'[r] = rewritten[r]
    BY DEF StoreSegment, BufferStructure, RecordsAreFunctions, Shrunk, ShrunkSize
  <2> QED  BY <1>1, <2>1, ShrunkIsRight DEF RecordIsRight, NotTooMany
<1> QED  BY <1>1, <1>2, <1>3, <1>6, <1>7 DEF BufferStructure

LEMMA StoreExtraIsRight ==
    ASSUME BufferStructure, NEW s \in Streams, NEW what \in Extras, NEW size \in Sizes,
           StoreExtra(s, what, size)
    PROVE  BufferStructure'
<1> DEFINE old == IF what \in DOMAIN extra[s] THEN extra[s][what] ELSE 0
<1>1. in_order' = in_order /\ in_order \in BOOLEAN /\ buffers' \in SUBSET Streams
  BY DEF StoreExtra, Called, BufferStructure
<1>2. RecordsAreFunctions'
  BY DEF StoreExtra, BufferStructure, RecordsAreFunctions
<1>3. ClockIsRight'
  BY ClockMoves DEF StoreExtra
<1>4. ASSUME NEW r \in Streams PROVE (RecordIsRight(r) /\ NotTooMany(r))'
  <2>1. CASE r = s
    <3>1. /\ segments'[s] = segments[s] /\ extra'[s] = With(extra[s], what, size)
          /\ total_size'[s] = total_size[s] + size - old
          /\ known'[s] = known[s] /\ rewritten'[s] = rewritten[s]
      BY DEF StoreExtra, BufferStructure, RecordsAreFunctions
    <3>2. RecordIsRight(s) /\ NotTooMany(s)
      BY DEF BufferStructure
    <3>3. IsRight(in_order, segments[s], With(extra[s], what, size), total_size[s] + size - old,
                  known[s], rewritten[s])
      BY <1>1, <3>2, ExtraIsRight DEF RecordIsRight
    <3> HIDE DEF old
    <3> QED  BY <1>1, <2>1, <3>1, <3>2, <3>3 DEF RecordIsRight, NotTooMany
  <2>2. CASE r # s
    <3>1. /\ segments'[r] = segments[r] /\ extra'[r] = extra[r] /\ total_size'[r] = total_size[r]
          /\ known'[r] = known[r] /\ rewritten'[r] = rewritten[r]
      BY <2>2 DEF StoreExtra, BufferStructure, RecordsAreFunctions
    <3> QED  BY <1>1, <3>1, SameRecord
  <2> QED  BY <2>1, <2>2
<1> QED  BY <1>1, <1>2, <1>3, <1>4 DEF BufferStructure

LEMMA BufferStaysRight ==
    ASSUME BufferStructure, [BufferNext]_buffer_vars
    PROVE  BufferStructure'
<1>1. CASE UNCHANGED buffer_vars
  BY <1>1 DEF buffer_vars, records, BufferStructure, RecordsAreFunctions, ClockIsRight,
              RecordIsRight, NotTooMany
<1>2. ASSUME NEW s \in Streams, CreateStream(s) PROVE BufferStructure'
  BY <1>2, CreateStreamIsRight
<1>3. ASSUME NEW s \in Streams, RemoveStream(s) PROVE BufferStructure'
  BY <1>3, RemoveStreamIsRight
<1>4. ASSUME NEW s \in Streams, NEW size \in Sizes, StoreNowhere(s, size) PROVE BufferStructure'
  BY <1>4, StoreNowhereIsRight
<1>5. ASSUME NEW s \in Streams, NEW size \in Sizes, NEW name \in Names, StoreSegment(s, name, size)
      PROVE  BufferStructure'
  BY <1>5, StoreSegmentIsRight
<1>6. ASSUME NEW s \in Streams, NEW size \in Sizes, NEW what \in {"playlist", "init"},
             StoreExtra(s, what, size)
      PROVE  BufferStructure'
  BY <1>6, StoreExtraIsRight DEF Extras
<1>7. CASE NoMoreCalls
  BY <1>1, <1>7 DEF NoMoreCalls
<1> QED  BY <1>1, <1>2, <1>3, <1>4, <1>5, <1>6, <1>7 DEF BufferNext

LEMMA BufferIsRight == BufferSpec => []BufferStructure
<1>1. BufferInit => BufferStructure
  BY BufferInitIsRight
<1>2. BufferStructure /\ [BufferNext]_buffer_vars => BufferStructure'
  BY BufferStaysRight
<1> QED  BY <1>1, <1>2, PTL DEF BufferSpec

\* total_size, in unsigned arithmetic, never underflows and is the bytes that are
\* there and those that were overwritten, whatever add_segment replaces and the
\* limits evict; and no two buffers were updated by the same call, so there is one
\* oldest buffer to evict from.
THEOREM BufferSizesAreExact == BufferSpec => []BufferInv
<1>1. BufferStructure => BufferInv
  BY StructureImplies
<1> QED  BY <1>1, BufferIsRight, PTL

\* Names given in the order in which they sort: whatever the limits cost a stream,
\* cleanup_old_segments leaves the newest of its segments, and one at least.
THEOREM NewestAreKept == BufferSpec => []KeepsLatest
<1>1. BufferStructure => KeepsLatest
  BY StructureImplies
<1> QED  BY <1>1, BufferIsRight, PTL
=============================================================================

-------------------------- MODULE CliUploaderProofs --------------------------
(***************************************************************************)
(* Theorems about CliUploader for every set of jobs and keys, any number   *)
(* of permits and any max_retries.                                         *)
(***************************************************************************)
EXTENDS CliUploader, FiniteSetTheorems, TLAPS

-----------------------------------------------------------------------------
(* Type correctness.                                                        *)

\* What an attempt that failed leaves in stage.
LEMMA AttemptFailedType ==
    ASSUME TypeOK, NEW j \in Jobs, AttemptFailed(j)
    PROVE  /\ stage' \in [Jobs -> Stages]
           /\ stage'[j] = "backoff" => attempt[j] < MaxRetries
           /\ stage'[j] \in {"backoff", "exhausted"}
           /\ \A i \in Jobs \ {j} : stage'[i] = stage[i]
BY DEF TypeOK, AttemptFailed, Stages

\* Dropping a permit keeps the semaphore and the stages well typed, if the
\* count of permits has room for it.
LEMMA ReleaseType ==
    ASSUME TypeOK, NEW j \in Jobs, NEW verdict \in Settled, ReleaseAs(j, verdict),
           permits < Workers
    PROVE  /\ stage' \in [Jobs -> Stages]
           /\ \A i \in Jobs : stage'[i] # stage[i] => stage'[i] \in {verdict, "granted"}
           /\ permits' \in 0..Workers
           /\ waiters' \in Seq(Jobs)
<1>1. CASE waiters = <<>>
  <2>1. /\ permits' = permits + 1
        /\ stage' = [stage EXCEPT ![j] = verdict]
        /\ waiters' = waiters
    BY <1>1 DEF ReleaseAs
  <2>2. permits' \in 0..Workers
    BY <2>1, CliAssumption DEF TypeOK
  <2>3. stage' \in [Jobs -> Stages]
    BY <2>1 DEF TypeOK, Stages, Settled
  <2>4. \A i \in Jobs : stage'[i] # stage[i] => stage'[i] \in {verdict, "granted"}
    BY <2>1 DEF TypeOK
  <2> QED  BY <2>1, <2>2, <2>3, <2>4 DEF TypeOK
<1>2. CASE waiters # <<>>
  <2>1. Head(waiters) \in Jobs /\ Tail(waiters) \in Seq(Jobs)
    BY <1>2 DEF TypeOK
  <2>2. /\ permits' = permits
        /\ stage' = [stage EXCEPT ![j] = verdict, ![Head(waiters)] = "granted"]
        /\ waiters' = Tail(waiters)
    BY <1>2 DEF ReleaseAs
  <2>3. stage' \in [Jobs -> Stages]
    BY <2>1, <2>2 DEF TypeOK, Stages, Settled
  <2>4. \A i \in Jobs : stage'[i] # stage[i] => stage'[i] \in {verdict, "granted"}
    BY <2>1, <2>2 DEF TypeOK
  <2> QED  BY <2>1, <2>2, <2>3, <2>4 DEF TypeOK
<1> QED  BY <1>1, <1>2

\* The initial state has the right shape.
LEMMA InitType == Init => TypeOK
BY CliAssumption DEF Init, TypeOK, Stages, Contents

-----------------------------------------------------------------------------
(* The semaphore.  The inductive invariant joins the types, the accounting  *)
(* of permits and the queue: a release may only add a permit because the    *)
(* task that drops it is a holder.                                          *)

\* A holder leaves room for its permit.
LEMMA HolderHasPermit ==
    ASSUME SemaphoreInv, NEW j \in Jobs, stage[j] \in Holding
    PROVE  permits < Workers
<1>1. j \in Holders
  BY DEF Holders
<1>2. Cardinality(Holders) \in Nat /\ Cardinality(Holders) # 0
  BY <1>1, FS_CardinalityType, FS_EmptySet DEF SemaphoreInv, PermitAccounting
<1> QED
  BY <1>2, CliAssumption DEF SemaphoreInv, PermitAccounting, TypeOK

\* Every step keeps the types.
LEMMA TypeStep == SemaphoreInv /\ [Next]_vars => TypeOK'
<1> SUFFICES ASSUME SemaphoreInv, [Next]_vars PROVE TypeOK'
  OBVIOUS
<1>0. TypeOK
  BY DEF SemaphoreInv
<1>1. ASSUME NEW j \in Jobs, Queue(j) PROVE TypeOK'
  BY <1>0, <1>1 DEF TypeOK, Queue, Stages
<1>2. ASSUME NEW j \in Jobs, Acquire(j) PROVE TypeOK'
  <2>1. /\ stage' \in [Jobs -> Stages]
        /\ \A i \in Jobs : stage'[i] # stage[i] => stage'[i] \in {"granted", "waiting"}
    BY <1>0, <1>2 DEF TypeOK, Acquire, Stages
  <2>2. permits' \in 0..Workers
    BY <1>0, <1>2, CliAssumption DEF TypeOK, Acquire
  <2>3. waiters' \in Seq(Jobs)
    <3>1. CASE waiters' = waiters
      BY <1>0, <3>1 DEF TypeOK
    <3>2. CASE waiters' = Append(waiters, j)
      BY <1>0, <3>2 DEF TypeOK
    <3> QED  BY <1>2, <3>1, <3>2 DEF Acquire
  <2> QED  BY <1>0, <1>2, <2>1, <2>2, <2>3 DEF TypeOK, Acquire
<1>3. ASSUME NEW j \in Jobs, MarkUploading(j) PROVE TypeOK'
  BY <1>0, <1>3, CliAssumption DEF TypeOK, MarkUploading, Stages
<1>4. ASSUME NEW j \in Jobs, WriteTemp(j) PROVE TypeOK'
  <2>1. PICK n \in TempNames :
          /\ tempName' = [tempName EXCEPT ![j] = n]
          /\ \/ /\ temp' = [temp EXCEPT ![n] = j]
                /\ stage' = [stage EXCEPT ![j] = "written"]
             \/ /\ temp' = [temp EXCEPT ![n] = Partial]
                /\ AttemptFailed(j)
    BY <1>4 DEF WriteTemp
  <2>2. /\ stage' \in [Jobs -> Stages]
        /\ stage'[j] = "backoff" => attempt[j] < MaxRetries
        /\ \A i \in Jobs \ {j} : stage'[i] = stage[i]
    <3>1. CASE stage' = [stage EXCEPT ![j] = "written"]
      BY <1>0, <3>1 DEF TypeOK, Stages
    <3>2. CASE AttemptFailed(j)
      BY <1>0, <3>2, AttemptFailedType
    <3> QED  BY <2>1, <3>1, <3>2
  <2>3. tempName' \in [Jobs -> TempNames \cup {None}]
    BY <1>0, <2>1 DEF TypeOK
  <2>4. temp' \in [TempNames -> Contents]
    BY <1>0, <2>1 DEF TypeOK, Contents
  <2>5. \A i \in Jobs : stage'[i] \in {"written", "put"} => tempName'[i] \in TempNames
    BY <1>0, <2>1, <2>2 DEF TypeOK
  <2>6. \A i \in Jobs : stage'[i] = "backoff" => attempt[i] < MaxRetries
    BY <1>0, <2>2 DEF TypeOK
  <2> QED  BY <1>0, <1>4, <2>2, <2>3, <2>4, <2>5, <2>6 DEF TypeOK, WriteTemp
<1>5. ASSUME NEW j \in Jobs, CliPut(j) PROVE TypeOK'
  <2>1. temp[tempName[j]] \in Contents
    BY <1>0, <1>5 DEF TypeOK, CliPut
  <2>2. object' \in [Keys -> Contents]
    BY <1>0, <1>5, <2>1 DEF TypeOK, CliPut
  <2>3. landed' \subseteq Jobs
    BY <1>0, <1>5 DEF TypeOK, CliPut
  <2>4. /\ stage' \in [Jobs -> Stages]
        /\ \A i \in Jobs : stage'[i] \in {"written", "put"}
                             => stage[i] \in {"written", "put"}
        /\ \A i \in Jobs : stage'[i] = "backoff" => stage[i] = "backoff"
    BY <1>0, <1>5 DEF TypeOK, CliPut, Stages
  <2> QED  BY <1>0, <1>5, <2>2, <2>3, <2>4 DEF TypeOK, CliPut
<1>6. ASSUME NEW j \in Jobs, CliSucceeds(j) PROVE TypeOK'
  <2>1. temp' \in [TempNames -> Contents]
    BY <1>0, <1>6 DEF TypeOK, CliSucceeds, Contents
  <2> QED  BY <1>0, <1>6, <2>1 DEF TypeOK, CliSucceeds, Stages
<1>7. ASSUME NEW j \in Jobs, CliFails(j) PROVE TypeOK'
  <2>1. temp' \in [TempNames -> Contents]
    BY <1>0, <1>7 DEF TypeOK, CliFails, Contents
  <2>2. /\ stage' \in [Jobs -> Stages]
        /\ stage'[j] \in {"backoff", "exhausted"}
        /\ stage'[j] = "backoff" => attempt[j] < MaxRetries
        /\ \A i \in Jobs \ {j} : stage'[i] = stage[i]
    BY <1>0, <1>7, AttemptFailedType DEF CliFails
  <2> QED  BY <1>0, <1>7, <2>1, <2>2 DEF TypeOK, CliFails
<1>8. ASSUME NEW j \in Jobs, Retry(j) PROVE TypeOK'
  <2>1. attempt' \in [Jobs -> 0..MaxRetries]
    BY <1>0, <1>8, CliAssumption DEF TypeOK, Retry
  <2> QED  BY <1>0, <1>8, <2>1 DEF TypeOK, Retry, Stages
<1>9. ASSUME NEW j \in Jobs, MarkCompleted(j) PROVE TypeOK'
  <2>1. permits < Workers
    BY <1>9, HolderHasPermit DEF MarkCompleted, Holding
  <2>2. ReleaseAs(j, "done")
    BY <1>9 DEF MarkCompleted
  <2>3. /\ stage' \in [Jobs -> Stages]
        /\ \A i \in Jobs : stage'[i] # stage[i] => stage'[i] \in {"done", "granted"}
        /\ permits' \in 0..Workers
        /\ waiters' \in Seq(Jobs)
    BY <1>0, <2>1, <2>2, ReleaseType DEF Settled
  <2> QED  BY <1>0, <1>9, <2>3 DEF TypeOK, MarkCompleted
<1>10. ASSUME NEW j \in Jobs, MarkFailed(j) PROVE TypeOK'
  <2>1. permits < Workers
    BY <1>10, HolderHasPermit DEF MarkFailed, Holding
  <2>2. ReleaseAs(j, "failed")
    BY <1>10 DEF MarkFailed
  <2>3. /\ stage' \in [Jobs -> Stages]
        /\ \A i \in Jobs : stage'[i] # stage[i] => stage'[i] \in {"failed", "granted"}
        /\ permits' \in 0..Workers
        /\ waiters' \in Seq(Jobs)
    BY <1>0, <2>1, <2>2, ReleaseType DEF Settled
  <2> QED  BY <1>0, <1>10, <2>3 DEF TypeOK, MarkFailed
<1>11. CASE UNCHANGED vars
  BY <1>0, <1>11 DEF TypeOK, vars
<1> QED
  BY <1>1, <1>2, <1>3, <1>4, <1>5, <1>6, <1>7, <1>8, <1>9, <1>10, <1>11
  DEF Next, Step, Quiescent

\* The task at the head of the queue waits, so it is not the one that releases.
LEMMA HeadWaits ==
    ASSUME TypeOK, NoIdlePermit, waiters # <<>>
    PROVE  Head(waiters) \in Jobs /\ stage[Head(waiters)] = "waiting"
<1>1. Len(waiters) >= 1 /\ Head(waiters) = waiters[1] /\ Head(waiters) \in Jobs
  BY DEF TypeOK
<1>2. 1 \in 1..Len(waiters)
  BY <1>1 DEF TypeOK
<1> QED  BY <1>1, <1>2 DEF NoIdlePermit

\* A permit that is dropped goes to the head of the queue or back to the
\* semaphore: the accounting and the queue are kept.
LEMMA ReleaseKeeps ==
    ASSUME SemaphoreInv, NEW j \in Jobs, NEW verdict \in Settled,
           stage[j] \in Holding, ReleaseAs(j, verdict)
    PROVE  /\ PermitAccounting'
           /\ NoIdlePermit'
           /\ stage'[j] = verdict
           /\ \A i \in Jobs \ {j} : stage'[i] # stage[i]
                                 => stage[i] = "waiting" /\ stage'[i] = "granted"
<1>0. TypeOK /\ PermitAccounting /\ NoIdlePermit
  BY DEF SemaphoreInv
<1>1. j \in Holders /\ verdict \notin Holding /\ verdict # "waiting"
  BY DEF Holders, Holding, Settled
<1>2. /\ IsFiniteSet(Holders \ {j})
      /\ Cardinality(Holders \ {j}) = Cardinality(Holders) - 1
  BY <1>0, <1>1, FS_RemoveElement DEF PermitAccounting
<1>3. Cardinality(Holders) \in Nat /\ permits \in Nat /\ Workers \in Nat
  BY <1>0, FS_CardinalityType, CliAssumption DEF PermitAccounting, TypeOK
<1>4. CASE waiters = <<>>
  <2>1. permits' = permits + 1 /\ stage' = [stage EXCEPT ![j] = verdict] /\ waiters' = waiters
    BY <1>4 DEF ReleaseAs
  <2>2. Holders' = Holders \ {j}
    BY <1>0, <1>1, <2>1 DEF Holders, TypeOK
  <2>3. PermitAccounting'
    BY <1>0, <1>2, <1>3, <2>1, <2>2 DEF PermitAccounting
  <2>4. NoIdlePermit'
    BY <1>0, <1>1, <1>4, <2>1 DEF NoIdlePermit, TypeOK, Holding
  <2>5. stage'[j] = verdict /\ \A i \in Jobs \ {j} : stage'[i] = stage[i]
    BY <1>0, <2>1 DEF TypeOK
  <2> QED  BY <2>3, <2>4, <2>5
<1>5. CASE waiters # <<>>
  <2> DEFINE h == Head(waiters)
  <2>1. /\ permits' = permits
        /\ stage' = [stage EXCEPT ![j] = verdict, ![h] = "granted"]
        /\ waiters' = Tail(waiters)
    BY <1>5 DEF ReleaseAs
  <2>2. h \in Jobs /\ stage[h] = "waiting"
    BY <1>0, <1>5, HeadWaits
  <2>3. h # j /\ h \notin Holders
    BY <2>2 DEF Holders, Holding
  <2>4. /\ stage'[j] = verdict
        /\ stage'[h] = "granted"
        /\ \A i \in Jobs \ {j, h} : stage'[i] = stage[i]
    BY <1>0, <2>1, <2>2, <2>3 DEF TypeOK
  <2>5. Holders' = (Holders \ {j}) \cup {h}
    BY <1>1, <2>2, <2>3, <2>4 DEF Holders, Holding
  <2>6. PermitAccounting'
    <3>1. /\ IsFiniteSet((Holders \ {j}) \cup {h})
          /\ Cardinality((Holders \ {j}) \cup {h}) = Cardinality(Holders \ {j}) + 1
      BY <1>2, <2>3, FS_AddElement
    <3> QED  BY <1>0, <1>2, <1>3, <2>1, <2>5, <3>1 DEF PermitAccounting
  <2>7. NoIdlePermit'
    <3>1. /\ Len(waiters) \in Nat /\ Len(waiters) >= 1 /\ waiters[1] = h
          /\ Len(waiters') = Len(waiters) - 1
          /\ \A i \in 1..Len(waiters') : waiters'[i] = waiters[i + 1]
      BY <1>0, <1>5, <2>1 DEF TypeOK
    <3>2. waiters' # <<>> => permits' = 0
      BY <1>0, <1>5, <2>1 DEF NoIdlePermit
    <3>3. \A i, l \in 1..Len(waiters') : waiters'[i] = waiters'[l] => i = l
      BY <1>0, <3>1 DEF NoIdlePermit
    <3>4. ASSUME NEW i \in Jobs
          PROVE  stage'[i] = "waiting" <=> \E l \in 1..Len(waiters') : waiters'[l] = i
      <4>1. stage'[i] = "waiting" <=> i # h /\ stage[i] = "waiting"
        BY <1>1, <2>2, <2>4 DEF Holding
      <4>2. ASSUME i # h, NEW l \in 1..Len(waiters), waiters[l] = i
            PROVE  \E m \in 1..Len(waiters') : waiters'[m] = i
        <5>1. l - 1 \in 1..Len(waiters') /\ (l - 1) + 1 = l
          BY <3>1, <4>2
        <5> QED  BY <3>1, <4>2, <5>1
      <4>3. ASSUME NEW l \in 1..Len(waiters'), waiters'[l] = i
            PROVE  i # h /\ \E m \in 1..Len(waiters) : waiters[m] = i
        <5>1. l + 1 \in 1..Len(waiters) /\ waiters[l + 1] = i /\ l + 1 # 1
          BY <3>1, <4>3
        <5>2. 1 \in 1..Len(waiters)
          BY <3>1
        <5> QED  BY <1>0, <3>1, <5>1, <5>2 DEF NoIdlePermit
      <4> QED  BY <1>0, <4>1, <4>2, <4>3 DEF NoIdlePermit
    <3> QED  BY <3>2, <3>3, <3>4 DEF NoIdlePermit
  <2>8. \A i \in Jobs \ {j} : stage'[i] # stage[i]
                              => stage[i] = "waiting" /\ stage'[i] = "granted"
    BY <2>2, <2>4
  <2> QED  BY <2>4, <2>6, <2>7, <2>8
<1> QED  BY <1>4, <1>5

\* A step that neither moves a task in or out of Holding and waiting, nor
\* touches the semaphore, keeps its accounting.
LEMMA QuietKeeps ==
    ASSUME SemaphoreInv, UNCHANGED <<permits, waiters>>,
           \A i \in Jobs : /\ stage'[i] \in Holding <=> stage[i] \in Holding
                           /\ stage'[i] = "waiting" <=> stage[i] = "waiting"
    PROVE  PermitAccounting' /\ NoIdlePermit'
<1>1. Holders' = Holders
  BY DEF Holders
<1>2. PermitAccounting'
  BY <1>1 DEF SemaphoreInv, PermitAccounting
<1>3. NoIdlePermit'
  BY DEF SemaphoreInv, NoIdlePermit
<1> QED  BY <1>2, <1>3

\* Every step keeps the accounting of permits and the queue.
LEMMA SemaphoreStep ==
    SemaphoreInv /\ [Next]_vars => PermitAccounting' /\ NoIdlePermit'
<1> SUFFICES ASSUME SemaphoreInv, [Next]_vars PROVE PermitAccounting' /\ NoIdlePermit'
  OBVIOUS
<1>0. TypeOK /\ PermitAccounting /\ NoIdlePermit
  BY DEF SemaphoreInv
<1>1. ASSUME NEW j \in Jobs, Queue(j) PROVE PermitAccounting' /\ NoIdlePermit'
  BY <1>0, <1>1, QuietKeeps DEF Queue, TypeOK, Holding
<1>2. ASSUME NEW j \in Jobs, Acquire(j) PROVE PermitAccounting' /\ NoIdlePermit'
  <2>1. j \notin Holders /\ stage[j] = "spawned"
    BY <1>2 DEF Acquire, Holders, Holding
  <2>2. Cardinality(Holders) \in Nat /\ permits \in Nat /\ Workers \in Nat
    BY <1>0, FS_CardinalityType, CliAssumption DEF PermitAccounting, TypeOK
  <2>3. CASE permits > 0
    <3>1. /\ permits' = permits - 1 /\ stage' = [stage EXCEPT ![j] = "granted"]
          /\ waiters' = waiters
      BY <1>2, <2>3 DEF Acquire
    <3>2. Holders' = Holders \cup {j}
      BY <1>0, <3>1 DEF Holders, Holding, TypeOK
    <3>3. PermitAccounting'
      BY <1>0, <2>1, <2>2, <3>1, <3>2, FS_AddElement DEF PermitAccounting
    <3>4. waiters = <<>>
      BY <1>0, <2>3 DEF NoIdlePermit
    <3>5. NoIdlePermit'
      BY <1>0, <2>1, <3>1, <3>4 DEF NoIdlePermit, TypeOK
    <3> QED  BY <3>3, <3>5
  <2>4. CASE permits = 0
    <3>1. /\ permits' = permits /\ stage' = [stage EXCEPT ![j] = "waiting"]
          /\ waiters' = Append(waiters, j)
      BY <1>2, <2>4 DEF Acquire
    <3>2. Holders' = Holders
      BY <1>0, <2>1, <3>1 DEF Holders, Holding, TypeOK
    <3>3. PermitAccounting'
      BY <1>0, <3>1, <3>2 DEF PermitAccounting
    <3>4. /\ Len(waiters) \in Nat /\ Len(waiters') = Len(waiters) + 1
          /\ waiters'[Len(waiters')] = j
          /\ \A i \in 1..Len(waiters) : waiters'[i] = waiters[i] /\ waiters[i] # j
      BY <1>0, <2>1, <3>1 DEF TypeOK, NoIdlePermit
    <3>5. \A i, l \in 1..Len(waiters') : waiters'[i] = waiters'[l] => i = l
      BY <1>0, <3>4 DEF NoIdlePermit
    <3>6. ASSUME NEW i \in Jobs
          PROVE  stage'[i] = "waiting" <=> \E l \in 1..Len(waiters') : waiters'[l] = i
      <4>1. CASE i = j
        BY <1>0, <3>1, <3>4, <4>1 DEF TypeOK
      <4>2. CASE i # j
        <5>1. stage'[i] = stage[i]
          BY <1>0, <3>1, <4>2 DEF TypeOK
        <5>2. \A l \in 1..Len(waiters') : waiters'[l] = i
                 => l \in 1..Len(waiters) /\ waiters[l] = i
          BY <3>4, <4>2
        <5>3. \A l \in 1..Len(waiters) : l \in 1..Len(waiters') /\ waiters'[l] = waiters[l]
          BY <3>4
        <5> QED  BY <1>0, <5>1, <5>2, <5>3 DEF NoIdlePermit
      <4> QED  BY <4>1, <4>2
    <3>7. NoIdlePermit'
      BY <2>4, <3>1, <3>5, <3>6 DEF NoIdlePermit
    <3> QED  BY <3>3, <3>7
  <2> QED  BY <2>2, <2>3, <2>4
<1>3. ASSUME NEW j \in Jobs, MarkUploading(j) PROVE PermitAccounting' /\ NoIdlePermit'
  BY <1>0, <1>3, QuietKeeps DEF MarkUploading, TypeOK, Holding
<1>4. ASSUME NEW j \in Jobs, WriteTemp(j) PROVE PermitAccounting' /\ NoIdlePermit'
  <2>1. stage' = [stage EXCEPT ![j] = "written"] \/ AttemptFailed(j)
    BY <1>4 DEF WriteTemp
  <2>2. /\ stage'[j] \in {"written", "backoff", "exhausted"}
        /\ \A i \in Jobs \ {j} : stage'[i] = stage[i]
    BY <1>0, <2>1, AttemptFailedType DEF TypeOK
  <2> QED  BY <1>4, <2>2, QuietKeeps DEF WriteTemp, Holding
<1>5. ASSUME NEW j \in Jobs, CliPut(j) PROVE PermitAccounting' /\ NoIdlePermit'
  BY <1>0, <1>5, QuietKeeps DEF CliPut, TypeOK, Holding
<1>6. ASSUME NEW j \in Jobs, CliSucceeds(j) PROVE PermitAccounting' /\ NoIdlePermit'
  BY <1>0, <1>6, QuietKeeps DEF CliSucceeds, TypeOK, Holding
<1>7. ASSUME NEW j \in Jobs, CliFails(j) PROVE PermitAccounting' /\ NoIdlePermit'
  <2>1. /\ stage'[j] \in {"backoff", "exhausted"}
        /\ \A i \in Jobs \ {j} : stage'[i] = stage[i]
    BY <1>0, <1>7, AttemptFailedType DEF CliFails
  <2> QED  BY <1>7, <2>1, QuietKeeps DEF CliFails, Holding
<1>8. ASSUME NEW j \in Jobs, Retry(j) PROVE PermitAccounting' /\ NoIdlePermit'
  BY <1>0, <1>8, QuietKeeps DEF Retry, TypeOK, Holding
<1>9. ASSUME NEW j \in Jobs, MarkCompleted(j) PROVE PermitAccounting' /\ NoIdlePermit'
  BY <1>9, ReleaseKeeps DEF MarkCompleted, Holding, Settled
<1>10. ASSUME NEW j \in Jobs, MarkFailed(j) PROVE PermitAccounting' /\ NoIdlePermit'
  BY <1>10, ReleaseKeeps DEF MarkFailed, Holding, Settled
<1>11. CASE UNCHANGED vars
  BY <1>11, QuietKeeps DEF vars
<1> QED
  BY <1>1, <1>2, <1>3, <1>4, <1>5, <1>6, <1>7, <1>8, <1>9, <1>10, <1>11
  DEF Next, Step, Quiescent

\* The initial state has all its permits and no queue.
LEMMA SemaphoreInit == Init => SemaphoreInv
<1> SUFFICES ASSUME Init PROVE SemaphoreInv
  OBVIOUS
<1>1. TypeOK
  BY InitType
<1>2. Holders = {}
  BY DEF Init, Holders, Holding
<1>3. PermitAccounting
  BY <1>2, FS_EmptySet, CliAssumption DEF Init, PermitAccounting
<1>4. NoIdlePermit
  BY DEF Init, NoIdlePermit
<1> QED  BY <1>1, <1>3, <1>4 DEF SemaphoreInv

\* The semaphore loses no permit and no waiter, for any jobs, permits and retries.
THEOREM SemaphoreInductive == Spec => []SemaphoreInv
<1>1. SemaphoreInv /\ [Next]_vars => SemaphoreInv'
  BY TypeStep, SemaphoreStep DEF SemaphoreInv
<1> QED  BY SemaphoreInit, <1>1, PTL DEF Spec

\* Type correctness of CliUploader, for any jobs, permits and retries.
THEOREM TypeCorrect == Spec => []TypeOK
<1>1. SemaphoreInv => TypeOK
  BY DEF SemaphoreInv
<1> QED  BY SemaphoreInductive, <1>1, PTL

\* No path through the task leaks or doubles a permit of the semaphore.
THEOREM PermitsAreAccounted == Spec => []PermitAccounting
<1>1. SemaphoreInv => PermitAccounting
  BY DEF SemaphoreInv
<1> QED  BY SemaphoreInductive, <1>1, PTL

\* A task waits only while all permits are held, and is queued exactly once.
THEOREM QueueOnlyWhenBusy == Spec => []NoIdlePermit
<1>1. SemaphoreInv => NoIdlePermit
  BY DEF SemaphoreInv
<1> QED  BY SemaphoreInductive, <1>1, PTL

-----------------------------------------------------------------------------
(* active_uploads.                                                          *)

OwnerInv == SemaphoreInv /\ UploadingHasOwner

\* The task that is about to record its verdict is the only one whose entry
\* leaves Uploading; the owners of the other keys are not moved by a release.
LEMMA VerdictKeepsOwners ==
    ASSUME OwnerInv, NEW j \in Jobs, NEW verdict \in Settled, NEW entry,
           entry # "Uploading", stage[j] \in Holding, ReleaseAs(j, verdict),
           uploads' = [uploads EXCEPT ![KeyOf[j]] = entry]
    PROVE  UploadingHasOwner'
<1>1. SemaphoreInv /\ UploadingHasOwner /\ TypeOK
  BY DEF OwnerInv, SemaphoreInv
<1>2. \A i \in Jobs \ {j} : stage'[i] # stage[i]
                            => stage[i] = "waiting" /\ stage'[i] = "granted"
  BY <1>1, ReleaseKeeps
<1>3. SUFFICES ASSUME NEW k \in PendingKeys'
               PROVE  \E i \in Jobs : KeyOf[i] = k /\ stage'[i] \in Recorded
  BY DEF UploadingHasOwner
<1>4. k \in PendingKeys /\ k # KeyOf[j]
  BY <1>1, CliAssumption DEF PendingKeys, TypeOK
<1>5. PICK i \in Jobs : KeyOf[i] = k /\ stage[i] \in Recorded
  BY <1>1, <1>4 DEF UploadingHasOwner
<1> QED  BY <1>2, <1>4, <1>5 DEF Recorded, Holding

\* A step that leaves active_uploads alone and lets no task out of Recorded
\* keeps the owners.
LEMMA QuietKeepsOwners ==
    ASSUME UploadingHasOwner, UNCHANGED uploads,
           \A i \in Jobs : stage[i] \in Recorded => stage'[i] \in Recorded
    PROVE  UploadingHasOwner'
BY DEF UploadingHasOwner, PendingKeys

\* Every step keeps the owners of the keys that read Uploading.
LEMMA OwnerStep == OwnerInv /\ [Next]_vars => UploadingHasOwner'
<1> SUFFICES ASSUME OwnerInv, [Next]_vars PROVE UploadingHasOwner'
  OBVIOUS
<1>0. TypeOK /\ SemaphoreInv /\ UploadingHasOwner
  BY DEF OwnerInv, SemaphoreInv
<1>1. ASSUME NEW j \in Jobs, Queue(j) PROVE UploadingHasOwner'
  BY <1>0, <1>1, QuietKeepsOwners DEF Queue, TypeOK, Recorded, Holding
<1>2. ASSUME NEW j \in Jobs, Acquire(j) PROVE UploadingHasOwner'
  <2>1. \A i \in Jobs : stage[i] \in Recorded => stage'[i] \in Recorded
    BY <1>0, <1>2 DEF Acquire, TypeOK, Recorded, Holding
  <2> QED  BY <1>0, <1>2, <2>1, QuietKeepsOwners DEF Acquire
<1>3. ASSUME NEW j \in Jobs, MarkUploading(j) PROVE UploadingHasOwner'
  <2>1. stage'[j] \in Recorded /\ \A i \in Jobs \ {j} : stage'[i] = stage[i]
    BY <1>0, <1>3 DEF MarkUploading, TypeOK, Recorded, Holding
  <2>2. SUFFICES ASSUME NEW k \in PendingKeys'
                 PROVE  \E i \in Jobs : KeyOf[i] = k /\ stage'[i] \in Recorded
    BY DEF UploadingHasOwner
  <2>3. CASE k = KeyOf[j]
    BY <2>1, <2>3
  <2>4. CASE k # KeyOf[j]
    <3>1. k \in PendingKeys
      BY <1>0, <1>3, <2>4 DEF MarkUploading, TypeOK, PendingKeys
    <3>2. PICK i \in Jobs : KeyOf[i] = k /\ stage[i] \in Recorded
      BY <1>0, <3>1 DEF UploadingHasOwner
    <3> QED  BY <2>1, <2>4, <3>2
  <2> QED  BY <2>3, <2>4
<1>4. ASSUME NEW j \in Jobs, WriteTemp(j) PROVE UploadingHasOwner'
  <2>1. stage' = [stage EXCEPT ![j] = "written"] \/ AttemptFailed(j)
    BY <1>4 DEF WriteTemp
  <2>2. /\ stage'[j] \in {"written", "backoff", "exhausted"}
        /\ \A i \in Jobs \ {j} : stage'[i] = stage[i]
    BY <1>0, <2>1, AttemptFailedType DEF TypeOK
  <2> QED  BY <1>0, <1>4, <2>2, QuietKeepsOwners DEF WriteTemp, Recorded, Holding
<1>5. ASSUME NEW j \in Jobs, CliPut(j) PROVE UploadingHasOwner'
  BY <1>0, <1>5, QuietKeepsOwners DEF CliPut, TypeOK, Recorded, Holding
<1>6. ASSUME NEW j \in Jobs, CliSucceeds(j) PROVE UploadingHasOwner'
  BY <1>0, <1>6, QuietKeepsOwners DEF CliSucceeds, TypeOK, Recorded, Holding
<1>7. ASSUME NEW j \in Jobs, CliFails(j) PROVE UploadingHasOwner'
  <2>1. /\ stage'[j] \in {"backoff", "exhausted"}
        /\ \A i \in Jobs \ {j} : stage'[i] = stage[i]
    BY <1>0, <1>7, AttemptFailedType DEF CliFails
  <2> QED  BY <1>0, <1>7, <2>1, QuietKeepsOwners DEF CliFails, Recorded, Holding
<1>8. ASSUME NEW j \in Jobs, Retry(j) PROVE UploadingHasOwner'
  BY <1>0, <1>8, QuietKeepsOwners DEF Retry, TypeOK, Recorded, Holding
<1>9. ASSUME NEW j \in Jobs, MarkCompleted(j) PROVE UploadingHasOwner'
  BY <1>9, VerdictKeepsOwners DEF MarkCompleted, Holding, Settled
<1>10. ASSUME NEW j \in Jobs, MarkFailed(j) PROVE UploadingHasOwner'
  BY <1>10, VerdictKeepsOwners DEF MarkFailed, Holding, Settled
<1>11. CASE UNCHANGED vars
  BY <1>0, <1>11, QuietKeepsOwners DEF vars
<1> QED
  BY <1>1, <1>2, <1>3, <1>4, <1>5, <1>6, <1>7, <1>8, <1>9, <1>10, <1>11
  DEF Next, Step, Quiescent

\* The owners' invariant is inductive.
LEMMA OwnerInductive == Spec => []OwnerInv
<1>1. Init => OwnerInv
  <2>1. Init => UploadingHasOwner
    BY CliAssumption DEF Init, UploadingHasOwner, PendingKeys
  <2> QED  BY <2>1, SemaphoreInit DEF OwnerInv
<1>2. OwnerInv /\ [Next]_vars => OwnerInv'
  BY TypeStep, SemaphoreStep, OwnerStep DEF OwnerInv, SemaphoreInv
<1> QED  BY <1>1, <1>2, PTL DEF Spec

\* A key reads Uploading only while a task works on it: no verdict is lost.
THEOREM PendingKeysAreOwned == Spec => []UploadingHasOwner
<1>1. OwnerInv => UploadingHasOwner
  BY DEF OwnerInv
<1> QED  BY OwnerInductive, <1>1, PTL

\* The pending keys map one to one to holders of permits, so pending_count
\* never exceeds the permits: "pending_count < 100" says nothing about a backlog
\* when there are fewer than 100 permits.
THEOREM PendingIsBounded == Spec => []PendingWithinWorkers
<1>1. ASSUME OwnerInv PROVE PendingWithinWorkers
  <2>0. TypeOK /\ PermitAccounting /\ UploadingHasOwner
    BY <1>1 DEF OwnerInv, SemaphoreInv
  <2> DEFINE owner == [k \in PendingKeys |->
                         CHOOSE j \in Jobs : KeyOf[j] = k /\ stage[j] \in Recorded]
  <2>1. \A k \in PendingKeys : /\ owner[k] \in Jobs
                               /\ KeyOf[owner[k]] = k
                               /\ stage[owner[k]] \in Recorded
    BY <2>0 DEF UploadingHasOwner
  <2>2. \A k \in PendingKeys : owner[k] \in Holders
    BY <2>1 DEF Holders, Recorded
  <2> HIDE DEF owner
  <2>3. owner \in [PendingKeys -> Holders]
    BY <2>2 DEF owner
  <2>4. \A k, l \in PendingKeys : owner[k] = owner[l] => k = l
    BY <2>1
  <2>5. owner \in Injection(PendingKeys, Holders)
    BY <2>3, <2>4 DEF Injection, IsInjective
  <2>6. IsFiniteSet(PendingKeys) /\ Cardinality(PendingKeys) <= Cardinality(Holders)
    BY <2>0, <2>5, FS_Injection DEF PermitAccounting
  <2>7. /\ Cardinality(PendingKeys) \in Nat
        /\ Cardinality(Holders) \in Nat
        /\ permits \in Nat
        /\ Workers \in Nat
    BY <2>0, <2>6, FS_CardinalityType, CliAssumption DEF PermitAccounting, TypeOK
  <2> QED  BY <2>0, <2>6, <2>7 DEF PermitAccounting, PendingWithinWorkers
<1> QED  BY OwnerInductive, <1>1, PTL

-----------------------------------------------------------------------------
(* Temporary files, under a clock that never gives two live files one name. *)

\* While an attempt runs the CLI, its file holds its own bytes; and whoever saw
\* its PUT applied has landed.
FileInv ==
    /\ \A j \in Jobs : stage[j] \in {"written", "put"} => temp[tempName[j]] = j
    /\ \A j \in Jobs : stage[j] \in {"put", "stored", "done"} => j \in landed
    /\ ObjectOfOwnKey

\* A step that touches neither the files nor the bucket, and lets no task into
\* the stages that have a file or a PUT, keeps FileInv.
LEMMA QuietKeepsFiles ==
    ASSUME FileInv, UNCHANGED <<temp, tempName, object, landed>>,
           \A i \in Jobs : stage'[i] \in {"written", "put"} => stage'[i] = stage[i],
           \A i \in Jobs : stage'[i] \in {"stored", "done"}
                           => stage[i] \in {"put", "stored", "done"}
    PROVE  FileInv'
BY DEF FileInv, ObjectOfOwnKey

\* Removing the file of one attempt leaves the files of the others.
LEMMA RemoveKeepsFiles ==
    ASSUME TypeOK, FileInv, NEW j \in Jobs, stage[j] \in {"written", "put"},
           temp' = [temp EXCEPT ![tempName[j]] = None],
           UNCHANGED <<tempName, object, landed>>,
           stage'[j] \in {"stored", "backoff", "exhausted"},
           stage'[j] = "stored" => stage[j] = "put",
           \A i \in Jobs \ {j} : stage'[i] = stage[i]
    PROVE  FileInv'
<1>1. ASSUME NEW i \in Jobs, stage'[i] \in {"written", "put"}
      PROVE  temp'[tempName'[i]] = i
  <2>1. i # j /\ stage[i] \in {"written", "put"}
    BY <1>1
  <2>2. temp[tempName[i]] = i /\ temp[tempName[j]] = j
    BY <2>1 DEF FileInv
  <2> QED  BY <2>1, <2>2 DEF TypeOK
<1>2. \A i \in Jobs : stage'[i] \in {"put", "stored", "done"} => i \in landed'
  BY DEF FileInv
<1>3. ObjectOfOwnKey'
  BY DEF FileInv, ObjectOfOwnKey
<1> QED  BY <1>1, <1>2, <1>3 DEF FileInv

\* Every step keeps FileInv, if names are distinct.
LEMMA FileStep ==
    ASSUME FineClock PROVE SemaphoreInv /\ FileInv /\ [Next]_vars => FileInv'
<1> SUFFICES ASSUME SemaphoreInv, FileInv, [Next]_vars PROVE FileInv'
  OBVIOUS
<1>0. TypeOK /\ SemaphoreInv
  BY DEF SemaphoreInv
<1>1. ASSUME NEW j \in Jobs, Queue(j) PROVE FileInv'
  BY <1>0, <1>1, QuietKeepsFiles DEF Queue, TypeOK
<1>2. ASSUME NEW j \in Jobs, Acquire(j) PROVE FileInv'
  <2>1. /\ stage'[j] \in {"granted", "waiting"}
        /\ \A i \in Jobs \ {j} : stage'[i] = stage[i]
    BY <1>0, <1>2 DEF Acquire, TypeOK
  <2> QED  BY <1>2, <2>1, QuietKeepsFiles DEF Acquire
<1>3. ASSUME NEW j \in Jobs, MarkUploading(j) PROVE FileInv'
  BY <1>0, <1>3, QuietKeepsFiles DEF MarkUploading, TypeOK
<1>4. ASSUME NEW j \in Jobs, WriteTemp(j) PROVE FileInv'
  <2>1. PICK n \in TempNames :
          /\ FreshName(n)
          /\ tempName' = [tempName EXCEPT ![j] = n]
          /\ \/ /\ temp' = [temp EXCEPT ![n] = j]
                /\ stage' = [stage EXCEPT ![j] = "written"]
             \/ /\ temp' = [temp EXCEPT ![n] = Partial]
                /\ AttemptFailed(j)
    BY <1>4 DEF WriteTemp
  <2>2. \A i \in Jobs : stage[i] \in {"written", "put"} => tempName[i] # n
    BY <2>1 DEF FreshName
  <2>3. /\ stage'[j] \in {"written", "backoff", "exhausted"}
        /\ \A i \in Jobs \ {j} : stage'[i] = stage[i]
    BY <1>0, <2>1, AttemptFailedType DEF TypeOK
  <2>4. stage'[j] = "written" => temp' = [temp EXCEPT ![n] = j]
    BY <1>0, <2>1, AttemptFailedType
  <2>5. ASSUME NEW i \in Jobs, stage'[i] \in {"written", "put"}
        PROVE  temp'[tempName'[i]] = i
    <3>1. CASE i = j
      BY <1>0, <2>1, <2>3, <2>4, <2>5, <3>1 DEF TypeOK
    <3>2. CASE i # j
      <4>1. stage[i] \in {"written", "put"} /\ tempName'[i] = tempName[i]
        BY <1>0, <2>1, <2>3, <2>5, <3>2 DEF TypeOK
      <4>2. temp[tempName[i]] = i /\ tempName[i] # n /\ tempName[i] \in TempNames
        BY <1>0, <2>2, <4>1 DEF FileInv, TypeOK
      <4>3. temp'[tempName[i]] = temp[tempName[i]]
        BY <1>0, <2>1, <4>2 DEF TypeOK
      <4> QED  BY <4>1, <4>2, <4>3
    <3> QED  BY <3>1, <3>2
  <2>6. \A i \in Jobs : stage'[i] \in {"put", "stored", "done"} => i \in landed'
    BY <1>4, <2>3 DEF FileInv, WriteTemp
  <2>7. ObjectOfOwnKey'
    BY <1>4 DEF WriteTemp, FileInv, ObjectOfOwnKey
  <2> QED  BY <2>5, <2>6, <2>7 DEF FileInv
<1>5. ASSUME NEW j \in Jobs, CliPut(j) PROVE FileInv'
  <2>1. temp[tempName[j]] = j
    BY <1>5 DEF CliPut, FileInv
  <2>2. object' = [object EXCEPT ![KeyOf[j]] = j] /\ landed' = landed \cup {j}
    BY <1>5, <2>1 DEF CliPut
  <2>3. ObjectOfOwnKey'
    BY <1>0, <2>2 DEF TypeOK, FileInv, ObjectOfOwnKey
  <2>4. \A i \in Jobs : stage'[i] \in {"written", "put"} => temp'[tempName'[i]] = i
    BY <1>0, <1>5, <2>1 DEF CliPut, TypeOK, FileInv
  <2>5. \A i \in Jobs : stage'[i] \in {"put", "stored", "done"} => i \in landed'
    BY <1>0, <1>5, <2>2 DEF CliPut, TypeOK, FileInv
  <2> QED  BY <2>3, <2>4, <2>5 DEF FileInv
<1>6. ASSUME NEW j \in Jobs, CliSucceeds(j) PROVE FileInv'
  <2>1. stage'[j] = "stored" /\ \A i \in Jobs \ {j} : stage'[i] = stage[i]
    BY <1>0, <1>6 DEF CliSucceeds, TypeOK
  <2> QED  BY <1>0, <1>6, <2>1, RemoveKeepsFiles DEF CliSucceeds
<1>7. ASSUME NEW j \in Jobs, CliFails(j) PROVE FileInv'
  <2>1. /\ stage'[j] \in {"backoff", "exhausted"}
        /\ \A i \in Jobs \ {j} : stage'[i] = stage[i]
    BY <1>0, <1>7, AttemptFailedType DEF CliFails
  <2> QED  BY <1>0, <1>7, <2>1, RemoveKeepsFiles DEF CliFails
<1>8. ASSUME NEW j \in Jobs, Retry(j) PROVE FileInv'
  BY <1>0, <1>8, QuietKeepsFiles DEF Retry, TypeOK
<1>9. ASSUME NEW j \in Jobs, MarkCompleted(j) PROVE FileInv'
  <2>1. /\ stage'[j] = "done"
        /\ \A i \in Jobs \ {j} : stage'[i] # stage[i]
                              => stage[i] = "waiting" /\ stage'[i] = "granted"
    BY <1>0, <1>9, ReleaseKeeps DEF MarkCompleted, Holding, Settled
  <2> QED  BY <1>9, <2>1, QuietKeepsFiles DEF MarkCompleted
<1>10. ASSUME NEW j \in Jobs, MarkFailed(j) PROVE FileInv'
  <2>1. /\ stage'[j] = "failed"
        /\ \A i \in Jobs \ {j} : stage'[i] # stage[i]
                              => stage[i] = "waiting" /\ stage'[i] = "granted"
    BY <1>0, <1>10, ReleaseKeeps DEF MarkFailed, Holding, Settled
  <2> QED  BY <1>10, <2>1, QuietKeepsFiles DEF MarkFailed
<1>11. CASE UNCHANGED vars
  BY <1>11, QuietKeepsFiles DEF vars
<1> QED
  BY <1>1, <1>2, <1>3, <1>4, <1>5, <1>6, <1>7, <1>8, <1>9, <1>10, <1>11
  DEF Next, Step, Quiescent

\* The invariant of files and bucket is inductive, if names are distinct.
LEMMA FileInductive == ASSUME FineClock PROVE Spec => [](SemaphoreInv /\ FileInv)
<1>1. Init => SemaphoreInv /\ FileInv
  <2>1. Init => FileInv
    BY DEF Init, FileInv, ObjectOfOwnKey
  <2> QED  BY <2>1, SemaphoreInit
<1>2. SemaphoreInv /\ FileInv /\ [Next]_vars => (SemaphoreInv /\ FileInv)'
  BY FileStep, TypeStep, SemaphoreStep DEF SemaphoreInv
<1> QED  BY <1>1, <1>2, PTL DEF Spec

\* With distinct file names the bucket holds, under a key, nothing but complete
\* payloads that were queued for that key.
THEOREM ObjectsAreOwn == ASSUME FineClock PROVE Spec => []ObjectOfOwnKey
<1>1. SemaphoreInv /\ FileInv => ObjectOfOwnKey
  BY DEF FileInv
<1> QED  BY FileInductive, <1>1, PTL

\* With distinct file names a job is Completed only after its own bytes reached
\* its own key, whatever its earlier attempts did.
THEOREM CompletedMeansLanded == ASSUME FineClock PROVE Spec => []DoneMeansLanded
<1>1. SemaphoreInv /\ FileInv => DoneMeansLanded
  BY DEF FileInv, DoneMeansLanded
<1> QED  BY FileInductive, <1>1, PTL

\* With distinct file names, what the bucket newly holds was queued by a task
\* that has no verdict yet.
THEOREM SettledStayAway == ASSUME FineClock PROVE Spec => SettledNeverLands
<1> DEFINE Landing == \A k \in Keys : object'[k] # object[k] /\ object'[k] \in Jobs
                                     => stage[object'[k]] \notin Settled
<1>1. ASSUME SemaphoreInv, FileInv, [Next]_vars PROVE Landing
  <2>0. TypeOK
    BY <1>1 DEF SemaphoreInv
  <2>1. ASSUME NEW j \in Jobs, CliPut(j) PROVE Landing
    <3>1. stage[j] = "written" /\ temp[tempName[j]] = j
      BY <1>1, <2>1 DEF CliPut, FileInv
    <3>2. object' = [object EXCEPT ![KeyOf[j]] = j]
      BY <2>1, <3>1 DEF CliPut
    <3> QED  BY <2>0, <3>1, <3>2 DEF TypeOK, Settled
  <2>2. ASSUME NEW j \in Jobs, \/ Queue(j) \/ Acquire(j) \/ MarkUploading(j)
                              \/ WriteTemp(j) \/ CliSucceeds(j) \/ CliFails(j)
                              \/ Retry(j) \/ MarkCompleted(j) \/ MarkFailed(j)
        PROVE  object' = object
    BY <2>2 DEF Queue, Acquire, MarkUploading, WriteTemp, CliSucceeds, CliFails,
                Retry, MarkCompleted, MarkFailed
  <2>3. CASE UNCHANGED vars
    BY <2>3 DEF vars
  <2> QED  BY <1>1, <2>1, <2>2, <2>3 DEF Next, Step, Quiescent
<1> HIDE DEF Landing
<1>2. SemaphoreInv /\ FileInv /\ [Next]_vars => Landing
  BY <1>1
<1>3. Spec => [][Landing]_vars
  BY <1>2, FileInductive, PTL DEF Spec
<1> QED  BY <1>3 DEF Landing, SettledNeverLands

-----------------------------------------------------------------------------
(* Refinement.                                                              *)

\* A step that moves no task between the abstract statuses and leaves the
\* bucket alone is a stutter of UploadService.
LEMMA QuietStutters ==
    ASSUME UNCHANGED <<object, landed>>,
           \A i \in Jobs : StatusOf(stage'[i]) = StatusOf(stage[i])
    PROVE  UNCHANGED Service!vars
BY DEF Service!vars

\* A release moves the status of the task that ends and of no other.
LEMMA ReleaseStatus ==
    ASSUME SemaphoreInv, NEW j \in Jobs, NEW verdict \in Settled,
           stage[j] \in Holding, ReleaseAs(j, verdict)
    PROVE  /\ StatusOf(stage[j]) = "accepted"
           /\ [i \in Jobs |-> StatusOf(stage'[i])]
                = [[i \in Jobs |-> StatusOf(stage[i])] EXCEPT ![j] = StatusOf(verdict)]
<1>1. /\ stage'[j] = verdict
      /\ \A i \in Jobs \ {j} : stage'[i] # stage[i]
                            => stage[i] = "waiting" /\ stage'[i] = "granted"
  BY ReleaseKeeps
<1>2. StatusOf(stage[j]) = "accepted"
  BY DEF StatusOf, Holding
<1>3. \A i \in Jobs \ {j} : StatusOf(stage'[i]) = StatusOf(stage[i])
  BY <1>1 DEF StatusOf
<1> QED  BY <1>1, <1>2, <1>3

\* Every step of CliUploader is a step of UploadService or a stutter.
LEMMA RefinementStep ==
    SemaphoreInv /\ FileInv /\ [Next]_vars => [Service!ServiceNext]_(Service!vars)
<1> SUFFICES ASSUME SemaphoreInv, FileInv, [Next]_vars
             PROVE  Service!ServiceNext \/ UNCHANGED Service!vars
  OBVIOUS
<1> DEFINE Goal == Service!ServiceNext \/ UNCHANGED Service!vars
<1>0. TypeOK /\ SemaphoreInv
  BY DEF SemaphoreInv
<1>1. ASSUME NEW j \in Jobs, Queue(j) PROVE Goal
  <2>1. StatusOf("idle") = "idle" /\ StatusOf("spawned") = "accepted"
    BY DEF StatusOf
  <2>2. /\ stage[j] = "idle" /\ stage' = [stage EXCEPT ![j] = "spawned"]
        /\ UNCHANGED <<object, landed>>
    BY <1>1 DEF Queue
  <2>3. [i \in Jobs |-> StatusOf(stage'[i])]
          = [[i \in Jobs |-> StatusOf(stage[i])] EXCEPT ![j] = "accepted"]
    BY <1>0, <2>1, <2>2 DEF TypeOK
  <2>4. Service!Accept(j)
    BY <2>1, <2>2, <2>3 DEF Service!Accept
  <2> QED  BY <2>4 DEF Service!ServiceNext
<1>2. ASSUME NEW j \in Jobs, Acquire(j) PROVE Goal
  <2>1. /\ stage[j] = "spawned" /\ stage'[j] \in {"granted", "waiting"}
        /\ \A i \in Jobs \ {j} : stage'[i] = stage[i]
    BY <1>0, <1>2 DEF Acquire, TypeOK
  <2>2. \A i \in Jobs : StatusOf(stage'[i]) = StatusOf(stage[i])
    BY <2>1 DEF StatusOf
  <2> QED  BY <1>2, <2>2, QuietStutters DEF Acquire
<1>3. ASSUME NEW j \in Jobs, MarkUploading(j) PROVE Goal
  <2>1. \A i \in Jobs : StatusOf(stage'[i]) = StatusOf(stage[i])
    BY <1>0, <1>3 DEF MarkUploading, TypeOK, StatusOf
  <2> QED  BY <1>3, <2>1, QuietStutters DEF MarkUploading
<1>4. ASSUME NEW j \in Jobs, WriteTemp(j) PROVE Goal
  <2>1. stage' = [stage EXCEPT ![j] = "written"] \/ AttemptFailed(j)
    BY <1>4 DEF WriteTemp
  <2>2. /\ stage[j] = "ready" /\ stage'[j] \in {"written", "backoff", "exhausted"}
        /\ \A i \in Jobs \ {j} : stage'[i] = stage[i]
    BY <1>0, <1>4, <2>1, AttemptFailedType DEF TypeOK, WriteTemp
  <2>3. \A i \in Jobs : StatusOf(stage'[i]) = StatusOf(stage[i])
    BY <2>2 DEF StatusOf
  <2> QED  BY <1>4, <2>3, QuietStutters DEF WriteTemp
<1>5. ASSUME NEW j \in Jobs, CliPut(j) PROVE Goal
  <2>1. temp[tempName[j]] = j
    BY <1>5 DEF CliPut, FileInv
  <2>2. object' = [object EXCEPT ![KeyOf[j]] = j] /\ landed' = landed \cup {j}
    BY <1>5, <2>1 DEF CliPut
  <2>3. StatusOf(stage[j]) = "accepted" /\ \A i \in Jobs : StatusOf(stage'[i]) = StatusOf(stage[i])
    BY <1>0, <1>5 DEF CliPut, TypeOK, StatusOf
  <2>4. Service!Put(j)
    BY <2>2, <2>3 DEF Service!Put
  <2> QED  BY <2>4 DEF Service!ServiceNext
<1>6. ASSUME NEW j \in Jobs, CliSucceeds(j) PROVE Goal
  <2>1. \A i \in Jobs : StatusOf(stage'[i]) = StatusOf(stage[i])
    BY <1>0, <1>6 DEF CliSucceeds, TypeOK, StatusOf
  <2> QED  BY <1>6, <2>1, QuietStutters DEF CliSucceeds
<1>7. ASSUME NEW j \in Jobs, CliFails(j) PROVE Goal
  <2>1. /\ stage'[j] \in {"backoff", "exhausted"}
        /\ \A i \in Jobs \ {j} : stage'[i] = stage[i]
    BY <1>0, <1>7, AttemptFailedType DEF CliFails
  <2>2. \A i \in Jobs : StatusOf(stage'[i]) = StatusOf(stage[i])
    BY <1>7, <2>1 DEF CliFails, StatusOf
  <2> QED  BY <1>7, <2>2, QuietStutters DEF CliFails
<1>8. ASSUME NEW j \in Jobs, Retry(j) PROVE Goal
  <2>1. \A i \in Jobs : StatusOf(stage'[i]) = StatusOf(stage[i])
    BY <1>0, <1>8 DEF Retry, TypeOK, StatusOf
  <2> QED  BY <1>8, <2>1, QuietStutters DEF Retry
<1>9. ASSUME NEW j \in Jobs, MarkCompleted(j) PROVE Goal
  <2>1. /\ StatusOf(stage[j]) = "accepted"
        /\ [i \in Jobs |-> StatusOf(stage'[i])]
             = [[i \in Jobs |-> StatusOf(stage[i])] EXCEPT ![j] = StatusOf("done")]
    BY <1>0, <1>9, ReleaseStatus DEF MarkCompleted, Holding, Settled
  <2>2. j \in landed /\ UNCHANGED <<object, landed>>
    BY <1>9 DEF MarkCompleted, FileInv
  <2>3. StatusOf("done") = "succeeded"
    BY DEF StatusOf
  <2>4. Service!Succeed(j)
    BY <2>1, <2>2, <2>3 DEF Service!Succeed
  <2> QED  BY <2>4 DEF Service!ServiceNext
<1>10. ASSUME NEW j \in Jobs, MarkFailed(j) PROVE Goal
  <2>1. /\ StatusOf(stage[j]) = "accepted"
        /\ [i \in Jobs |-> StatusOf(stage'[i])]
             = [[i \in Jobs |-> StatusOf(stage[i])] EXCEPT ![j] = StatusOf("failed")]
    BY <1>0, <1>10, ReleaseStatus DEF MarkFailed, Holding, Settled
  <2>2. StatusOf("failed") = "failed" /\ UNCHANGED <<object, landed>>
    BY <1>10 DEF StatusOf, MarkFailed
  <2>3. Service!Fail(j)
    BY <2>1, <2>2 DEF Service!Fail
  <2> QED  BY <2>3 DEF Service!ServiceNext
<1>11. CASE UNCHANGED vars
  BY <1>11, QuietStutters DEF vars
<1> QED
  BY <1>1, <1>2, <1>3, <1>4, <1>5, <1>6, <1>7, <1>8, <1>9, <1>10, <1>11
  DEF Next, Step, Quiescent

\* With distinct file names CliUploader keeps the promises of UploadService that
\* are about safety; the verdict that must come is checked by TLC.
THEOREM Refinement == ASSUME FineClock PROVE Spec => ImplementsSafety
<1>1. Init => Service!ServiceInit
  BY DEF Init, Service!ServiceInit, StatusOf
<1> QED
  BY <1>1, RefinementStep, FileInductive, PTL
  DEF Spec, ImplementsSafety, Service!ServiceSafety
=============================================================================

----------------------------- MODULE CliUploader -----------------------------
(***************************************************************************)
(* CliS3Uploader (data_layer/storage/cli_s3_uploader.rs), the uploader of  *)
(* the live path.                                                          *)
(*                                                                         *)
(* Each queue_segment call is a job: a detached tokio task that waits for  *)
(* a permit of the shared semaphore, records its key in active_uploads,    *)
(* writes its bytes to a file under /tmp named after the clock, runs       *)
(* "aws s3 cp" on that file and removes it, retries with a back-off, and   *)
(* records the verdict as it drops the permit.  One action stands for the  *)
(* code between two awaits.  The priority of a segment is only logged.     *)
(***************************************************************************)
EXTENDS Integers, Sequences, FiniteSets

CONSTANTS Jobs,        \* the calls of queue_segment, each a distinct payload
          Keys,        \* the S3 object keys, "<stream>/<file>"
          KeyOf,       \* the key of each job
          Workers,     \* effective_workers, the permits of the semaphore
          MaxRetries,  \* max_retries
          TempNames,   \* the values uuid_simple can return
          FineClock,   \* TRUE: no two live temporary files get the same name
          None,        \* no file, no object, no entry
          Partial      \* the content of a file whose write failed half-way

ASSUME CliAssumption ==
    /\ KeyOf \in [Jobs -> Keys]
    /\ Workers \in Nat \ {0}
    /\ MaxRetries \in Nat
    /\ FineClock \in BOOLEAN
    /\ None \notin Jobs
    /\ Partial \notin Jobs
    /\ None # Partial
    /\ None \notin TempNames \cup {"Uploading", "Completed", "Failed"}

VARIABLES
    stage,      \* stage[j]: where the task of job j is
    attempt,    \* attempt[j]: the loop counter of the retry loop
    permits,    \* available permits of the semaphore
    waiters,    \* the semaphore's FIFO queue of tasks
    uploads,    \* active_uploads: the last state recorded under each key
    tempName,   \* tempName[j]: temp_path of the current attempt
    temp,       \* temp[n]: whose bytes /tmp/s3_upload_n holds
    object,     \* object[k]: whose bytes the bucket holds under k
    landed      \* history: the jobs whose own bytes reached their own key

vars == <<stage, attempt, permits, waiters, uploads, tempName, temp, object,
          landed>>

Stages == {"idle", "spawned", "waiting", "granted", "ready", "written", "put",
           "backoff", "stored", "exhausted", "done", "failed"}

\* The stages in which the task owns _permit.
Holding == {"granted", "ready", "written", "put", "backoff", "stored",
            "exhausted"}

\* The stages after the insertion of Uploading and before that of a verdict.
Recorded == Holding \ {"granted"}

Settled == {"done", "failed"}

Holders == {j \in Jobs : stage[j] \in Holding}

\* What a file or an object can hold.
Contents == Jobs \cup {None, Partial}

Init ==
    /\ stage = [j \in Jobs |-> "idle"]
    /\ attempt = [j \in Jobs |-> 0]
    /\ permits = Workers
    /\ waiters = <<>>
    /\ uploads = [k \in Keys |-> None]
    /\ tempName = [j \in Jobs |-> None]
    /\ temp = [n \in TempNames |-> None]
    /\ object = [k \in Keys |-> None]
    /\ landed = {}

-----------------------------------------------------------------------------
(* The semaphore.  tokio's is fair: a permit that is dropped goes to the    *)
(* task that has waited longest, and is only made available when no task    *)
(* waits.                                                                   *)

\* semaphore.acquire().await, first poll.
Acquire(j) ==
    /\ stage[j] = "spawned"
    /\ \/ /\ permits > 0
          /\ permits' = permits - 1
          /\ stage' = [stage EXCEPT ![j] = "granted"]
          /\ UNCHANGED waiters
       \/ /\ permits = 0
          /\ waiters' = Append(waiters, j)
          /\ stage' = [stage EXCEPT ![j] = "waiting"]
          /\ UNCHANGED permits
    /\ UNCHANGED <<attempt, uploads, tempName, temp, object, landed>>

\* Mutant of ReleaseAs: the permit is handed over and made available as well.
ReleaseTwice(j, verdict) ==
    /\ permits' = permits + 1
    /\ waiters' = IF waiters = <<>> THEN waiters ELSE Tail(waiters)
    /\ stage' = [i \in Jobs |-> IF i = j THEN verdict
                               ELSE IF waiters # <<>> /\ i = Head(waiters)
                                    THEN "granted" ELSE stage[i]]

\* Mutant of ReleaseAs: the permit is made available, and no task is woken.
ReleaseSilently(j, verdict) ==
    /\ permits' = permits + 1
    /\ stage' = [stage EXCEPT ![j] = verdict]
    /\ UNCHANGED waiters

\* The task of j ends with the given verdict and drops _permit.
ReleaseAs(j, verdict) ==
    \/ /\ waiters = <<>>
       /\ permits' = permits + 1
       /\ stage' = [stage EXCEPT ![j] = verdict]
       /\ UNCHANGED waiters
    \/ /\ waiters # <<>>
       /\ waiters' = Tail(waiters)
       /\ stage' = [stage EXCEPT ![j] = verdict, ![Head(waiters)] = "granted"]
       /\ UNCHANGED permits

-----------------------------------------------------------------------------
(* The task.                                                                *)

\* queue_segment: spawn the task and return Ok.
Queue(j) ==
    /\ stage[j] = "idle"
    /\ stage' = [stage EXCEPT ![j] = "spawned"]
    /\ UNCHANGED <<attempt, permits, waiters, uploads, tempName, temp, object,
                   landed>>

\* uploads.insert(key, Uploading).
MarkUploading(j) ==
    /\ stage[j] = "granted"
    /\ stage' = [stage EXCEPT ![j] = "ready"]
    /\ uploads' = [uploads EXCEPT ![KeyOf[j]] = "Uploading"]
    /\ UNCHANGED <<attempt, permits, waiters, tempName, temp, object, landed>>

\* Mutant of FreshName: the clock's seconds only.
NameOfTheSecond(n) == TRUE

\* uuid_simple: seconds and nanoseconds of the clock.  Two tasks can read the
\* same instant unless the clock is finer than their distance.
FreshName(n) ==
    FineClock => \A i \in Jobs : stage[i] \in {"written", "put"}
                                   => tempName[i] # n

\* The attempt failed: sleep and go round the loop, or leave it.
AttemptFailed(j) ==
    stage' = [stage EXCEPT ![j] = IF attempt[j] < MaxRetries THEN "backoff"
                                                             ELSE "exhausted"]

\* tokio::fs::write(&temp_path, data): the whole file, or an error that can
\* leave part of it behind.
WriteTemp(j) ==
    /\ stage[j] = "ready"
    /\ \E n \in TempNames :
         /\ FreshName(n)
         /\ tempName' = [tempName EXCEPT ![j] = n]
         /\ \/ /\ temp' = [temp EXCEPT ![n] = j]
               /\ stage' = [stage EXCEPT ![j] = "written"]
            \/ /\ temp' = [temp EXCEPT ![n] = Partial]
               /\ AttemptFailed(j)
    /\ UNCHANGED <<attempt, permits, waiters, uploads, object, landed>>

\* Mutant of CliPut: the process outlives the task that gave it up.
OrphanPut(j) ==
    /\ stage[j] \in {"written", "failed"}
    /\ stage' = [stage EXCEPT ![j] = IF @ = "written" THEN "put" ELSE @]
    /\ object' = [object EXCEPT ![KeyOf[j]] = j]
    /\ landed' = landed \cup {j}
    /\ UNCHANGED <<attempt, permits, waiters, uploads, tempName, temp>>

\* "aws s3 cp" reads the file and the bucket applies its PUT.
CliPut(j) ==
    /\ stage[j] = "written"
    /\ temp[tempName[j]] # None
    /\ stage' = [stage EXCEPT ![j] = "put"]
    /\ object' = [object EXCEPT ![KeyOf[j]] = temp[tempName[j]]]
    /\ landed' = IF temp[tempName[j]] = j THEN landed \cup {j} ELSE landed
    /\ UNCHANGED <<attempt, permits, waiters, uploads, tempName, temp>>

\* Exit status 0; remove_file follows in the same blocking closure.
CliSucceeds(j) ==
    /\ stage[j] = "put"
    /\ temp' = [temp EXCEPT ![tempName[j]] = None]
    /\ stage' = [stage EXCEPT ![j] = "stored"]
    /\ UNCHANGED <<attempt, permits, waiters, uploads, tempName, object, landed>>

\* Mutant of CliFails: the exit status is not looked at.
CliFailsUnnoticed(j) ==
    /\ stage[j] \in {"written", "put"}
    /\ temp' = [temp EXCEPT ![tempName[j]] = None]
    /\ stage' = [stage EXCEPT ![j] = "stored"]
    /\ UNCHANGED <<attempt, permits, waiters, uploads, tempName, object, landed>>

\* No such file, no network, a refused PUT, or a PUT that was applied and
\* whose answer was lost.
CliFails(j) ==
    /\ stage[j] \in {"written", "put"}
    /\ temp' = [temp EXCEPT ![tempName[j]] = None]
    /\ AttemptFailed(j)
    /\ UNCHANGED <<attempt, permits, waiters, uploads, tempName, object, landed>>

\* The sleep of backoff_ms ends.
Retry(j) ==
    /\ stage[j] = "backoff"
    /\ attempt' = [attempt EXCEPT ![j] = @ + 1]
    /\ stage' = [stage EXCEPT ![j] = "ready"]
    /\ UNCHANGED <<permits, waiters, uploads, tempName, temp, object, landed>>

\* uploads.insert(key, Completed); return.
MarkCompleted(j) ==
    /\ stage[j] = "stored"
    /\ uploads' = [uploads EXCEPT ![KeyOf[j]] = "Completed"]
    /\ ReleaseAs(j, "done")
    /\ UNCHANGED <<attempt, tempName, temp, object, landed>>

\* Mutant of MarkFailed: the failure is not recorded.
GiveUp(j) ==
    /\ stage[j] = "exhausted"
    /\ ReleaseAs(j, "failed")
    /\ UNCHANGED <<attempt, uploads, tempName, temp, object, landed>>

\* uploads.insert(key, Failed(last_error)); the task ends.
MarkFailed(j) ==
    /\ stage[j] = "exhausted"
    /\ uploads' = [uploads EXCEPT ![KeyOf[j]] = "Failed"]
    /\ ReleaseAs(j, "failed")
    /\ UNCHANGED <<attempt, tempName, temp, object, landed>>

-----------------------------------------------------------------------------
(* Observers.                                                               *)

\* pending_count, which active_count returns too: keys, not jobs.
PendingKeys == {k \in Keys : uploads[k] = "Uploading"}

Step(j) ==
    \/ Acquire(j)
    \/ MarkUploading(j)
    \/ WriteTemp(j)
    \/ CliPut(j)
    \/ CliSucceeds(j)
    \/ CliFails(j)
    \/ Retry(j)
    \/ MarkCompleted(j)
    \/ MarkFailed(j)

\* Every call of the instance has been made and settled.
Quiescent ==
    /\ \A j \in Jobs : stage[j] \in Settled
    /\ UNCHANGED vars

Next == (\E j \in Jobs : Queue(j) \/ Step(j)) \/ Quiescent

Spec == Init /\ [][Next]_vars

\* tokio polls every task that is ready, and "aws s3 cp" terminates.
FairSpec == Spec /\ \A j \in Jobs : WF_vars(Step(j))

-----------------------------------------------------------------------------
(* Properties.                                                              *)

\* The shape of the state; a retry loop never counts past max_retries, it sleeps
\* only when an attempt is left, and an attempt that runs the CLI has a file name.
TypeOK ==
    /\ stage \in [Jobs -> Stages]
    /\ attempt \in [Jobs -> 0..MaxRetries]
    /\ permits \in 0..Workers
    /\ waiters \in Seq(Jobs)
    /\ uploads \in [Keys -> {None, "Uploading", "Completed", "Failed"}]
    /\ tempName \in [Jobs -> TempNames \cup {None}]
    /\ \A j \in Jobs : stage[j] \in {"written", "put"} => tempName[j] \in TempNames
    /\ \A j \in Jobs : stage[j] = "backoff" => attempt[j] < MaxRetries
    /\ temp \in [TempNames -> Contents]
    /\ object \in [Keys -> Contents]
    /\ landed \subseteq Jobs

\* No path through the task (success, retries used up, failed temporary file)
\* leaks or doubles a permit: those held and those available add up to Workers.
PermitAccounting ==
    /\ IsFiniteSet(Holders)
    /\ permits + Cardinality(Holders) = Workers

\* A task queues on the semaphore only while no permit is free, and the queue
\* holds exactly the waiting tasks, once each.
NoIdlePermit ==
    /\ waiters # <<>> => permits = 0
    /\ \A j \in Jobs : stage[j] = "waiting"
                         <=> \E i \in 1..Len(waiters) : waiters[i] = j
    /\ \A i, l \in 1..Len(waiters) : waiters[i] = waiters[l] => i = l

\* The three together: TypeOK is what the accounting needs to be inductive.
SemaphoreInv == TypeOK /\ PermitAccounting /\ NoIdlePermit

\* A key reads Uploading only while some task is working on it: a verdict is
\* always recorded, so pending_count returns to zero.
UploadingHasOwner ==
    \A k \in PendingKeys : \E j \in Jobs : KeyOf[j] = k /\ stage[j] \in Recorded

\* pending_count never exceeds the semaphore's size, whatever the backlog is:
\* health_check's test "pending_count < 100" cannot see jobs without a permit.
PendingWithinWorkers ==
    /\ IsFiniteSet(PendingKeys)
    /\ Cardinality(PendingKeys) <= Workers

\* The bucket never holds, under a key, bytes queued for another key or part
\* of a file: tasks that share /tmp do not mix up their temporary files.
ObjectOfOwnKey ==
    \A k \in Keys : object[k] # None => object[k] \in Jobs /\ KeyOf[object[k]] = k

\* A job counts as done only if its own bytes reached its own key.
DoneMeansLanded == \A j \in Jobs : stage[j] \in {"stored", "done"} => j \in landed

\* The bytes of a job that has its verdict do not appear in the bucket any more:
\* an upload queued after an older one of its key settled cannot be undone by it.
SettledNeverLands ==
    [][\A k \in Keys : object'[k] # object[k] /\ object'[k] \in Jobs
                         => stage[object'[k]] \notin Settled]_vars

\* Every queued upload gets a verdict: the semaphore starves no task.
EveryUploadSettles ==
    \A j \in Jobs : stage[j] = "spawned" ~> stage[j] \in Settled

-----------------------------------------------------------------------------
(* CliUploader implements UploadService: a task is an accepted job from     *)
(* queue_segment's return to its verdict.                                   *)

StatusOf(s) ==
    CASE s = "idle"   -> "idle"
      [] s = "done"   -> "succeeded"
      [] s = "failed" -> "failed"
      [] OTHER        -> "accepted"

Service == INSTANCE UploadService
             WITH status <- [j \in Jobs |-> StatusOf(stage[j])], late <- {}

\* queue_segment, the retries and the verdicts keep the safety part of what
\* UploadService promises; EveryUploadSettles is its liveness.
ImplementsSafety == Service!ServiceSafety
=============================================================================

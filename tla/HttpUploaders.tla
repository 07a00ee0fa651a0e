---------------------------- MODULE HttpUploaders ----------------------------
(***************************************************************************)
(* The three uploaders that PUT from the server's own process, and that    *)
(* nothing on the live path calls:                                         *)
(*   file     FileS3Uploader (data_layer/storage/file_s3_uploader.rs):     *)
(*            a bounded channel and a pool of workers, AWS SDK             *)
(*   reqwest  ReqwestS3Uploader (reqwest_s3_uploader.rs): a task per call, *)
(*            a semaphore, an HTTP client with a timeout                   *)
(*   bunny    BunnyUploader (bunny_uploader.rs): a task per call, without  *)
(*            a limit, and a counter in place of active_uploads            *)
(* They share their phases; each action names the uploaders that have it.  *)
(* Each call of queue_data is a job.  One action stands for the code       *)
(* between two awaits.  The work of one uploader at a time is modelled.    *)
(***************************************************************************)
EXTENDS Integers, Sequences, FiniteSets

CONSTANTS Jobs,        \* the calls of queue_data, each a distinct payload
          Keys,        \* the object keys, "<stream>/<file>"
          KeyOf,       \* the key of each job
          Workers,     \* effective_workers, or the permits of the semaphore
          MaxRetries,  \* max_retries (3; the loop of bunny has 4)
          None         \* no object, no entry

ASSUME HttpAssumption ==
    /\ KeyOf \in [Jobs -> Keys]
    /\ Workers \in Nat \ {0}
    /\ MaxRetries \in Nat
    /\ None \notin Jobs
    /\ None \notin {"Uploading", "Completed", "Failed"}

VARIABLES
    kind,       \* the uploader: "file", "reqwest" or "bunny"
    stage,      \* stage[j]: where the call or the task of job j is
    attempt,    \* attempt[j]: the loop counter of the retry loop
    line,       \* who waits for a worker: the channel and the senders behind it,
                \* or the queue of the semaphore; both are in order of arrival
    uploads,    \* active_uploads (file, reqwest)
    active,     \* active_count (bunny)
    object,     \* object[k]: whose bytes the bucket holds under k
    landed,     \* history: the jobs whose bytes reached their key
    inflight,   \* inflight[j]: the PUTs of j that nobody waits for any more
    crashed     \* the jobs whose worker panicked over them (file)

vars == <<kind, stage, attempt, line, uploads, active, object, landed, inflight, crashed>>

\* The channel of file holds two jobs per worker; the senders behind wait.
Capacity == 2 * Workers

\* An upload that will have no verdict: its worker panicked, or it was in the
\* channel when the last worker did.
Lost == {"panicked", "dropped"}

Over == {"done", "failed"}

\* A worker, a permit or, for bunny, a unit of active_count belongs to the job.
Holding == {"granted", "ready", "put", "backoff", "stored", "exhausted"}

Stages == {"idle", "called", "marked", "waiting", "refused"} \cup Holding \cup Lost \cup Over

Running == {j \in Jobs : stage[j] \in Holding}

\* The workers that cannot take a job, each by the job it has or had: those at
\* work, and those that have panicked, which nobody replaces.
Busy == Running \cup crashed

Init ==
    /\ kind \in {"file", "reqwest", "bunny"}
    /\ stage = [j \in Jobs |-> "idle"]
    /\ attempt = [j \in Jobs |-> 0]
    /\ line = <<>>
    /\ uploads = [k \in Keys |-> None]
    /\ active = 0
    /\ object = [k \in Keys |-> None]
    /\ landed = {}
    /\ inflight = [j \in Jobs |-> 0]
    /\ crashed = {}

-----------------------------------------------------------------------------
(* From the call to a worker.                                               *)

\* queue_data: reqwest and bunny spawn a task and return; file goes on itself.
Call(j) ==
    /\ stage[j] = "idle"
    /\ stage' = [stage EXCEPT ![j] = "called"]
    /\ UNCHANGED <<kind, attempt, line, uploads, active, object, landed, inflight, crashed>>

\* uploads.insert(key, Uploading): file does it before the job is in the channel,
\* reqwest once it has a permit.
MarkUploading(j) ==
    /\ \/ kind = "file" /\ stage[j] = "called" /\ stage' = [stage EXCEPT ![j] = "marked"]
       \/ kind = "reqwest" /\ stage[j] = "granted" /\ stage' = [stage EXCEPT ![j] = "ready"]
    /\ uploads' = [uploads EXCEPT ![KeyOf[j]] = "Uploading"]
    /\ UNCHANGED <<kind, attempt, line, active, object, landed, inflight, crashed>>

\* job_sender.send(job).await, semaphore.acquire().await: first poll.  Without a
\* worker the channel is closed.
Join(j) ==
    /\ \/ kind = "file" /\ stage[j] = "marked"
       \/ kind = "reqwest" /\ stage[j] = "called"
    /\ \/ /\ Cardinality(crashed) < Workers
          /\ line' = Append(line, j)
          /\ stage' = [stage EXCEPT ![j] = "waiting"]
       \/ /\ Cardinality(crashed) >= Workers
          /\ stage' = [stage EXCEPT ![j] = "refused"]
          /\ UNCHANGED line
    /\ UNCHANGED <<kind, attempt, uploads, active, object, landed, inflight, crashed>>

\* Mutant of Admit: no limit on the workers.
AdmitAll(j) ==
    /\ line # <<>>
    /\ j = Head(line)
    /\ line' = Tail(line)
    /\ stage' = [stage EXCEPT ![j] = IF kind = "file" THEN "ready" ELSE "granted"]
    /\ UNCHANGED <<kind, attempt, uploads, active, object, landed, inflight, crashed>>

\* An idle worker receives the job at the head, or the head gets a free permit.
Admit(j) ==
    /\ line # <<>>
    /\ j = Head(line)
    /\ Cardinality(Busy) < Workers
    /\ line' = Tail(line)
    /\ stage' = [stage EXCEPT ![j] = IF kind = "file" THEN "ready" ELSE "granted"]
    /\ UNCHANGED <<kind, attempt, uploads, active, object, landed, inflight, crashed>>

\* bunny: active_count.fetch_add(1), the first thing its task does.
Count(j) ==
    /\ kind = "bunny"
    /\ stage[j] = "called"
    /\ active' = active + 1
    /\ stage' = [stage EXCEPT ![j] = "ready"]
    /\ UNCHANGED <<kind, attempt, line, uploads, object, landed, inflight, crashed>>

-----------------------------------------------------------------------------
(* The upload with its retries.                                             *)

\* The bucket applies the PUT.
Put(j) ==
    /\ stage[j] = "ready"
    /\ stage' = [stage EXCEPT ![j] = "put"]
    /\ object' = [object EXCEPT ![KeyOf[j]] = j]
    /\ landed' = landed \cup {j}
    /\ UNCHANGED <<kind, attempt, line, uploads, active, inflight, crashed>>

\* A success is the answer.
Answer(j) ==
    /\ stage[j] = "put"
    /\ stage' = [stage EXCEPT ![j] = "stored"]
    /\ UNCHANGED <<kind, attempt, line, uploads, active, object, landed, inflight, crashed>>

\* The worker of j panics and leaves its job at label.  With the last worker goes
\* the receiver, and what the channel holds; the senders that wait get an error.
WorkerPanics(j, label) ==
    LET left   == Cardinality(crashed \cup {j}) < Workers
        queued == {line[n] : n \in {m \in 1..Len(line) : m <= Capacity}}
    IN  /\ kind = "file"
        /\ crashed' = crashed \cup {j}
        /\ line' = IF left THEN line ELSE <<>>
        /\ stage' = [i \in Jobs |->
                       IF i = j THEN label
                       ELSE IF left \/ stage[i] # "waiting" THEN stage[i]
                       ELSE IF i \in queued THEN "dropped" ELSE "refused"]

\* The attempt failed: sleep and go round the loop, or leave it.  Before the sleep
\* file logs the error cut at a byte, which panics inside a character.
AttemptFailed(j) ==
    \/ /\ stage' = [stage EXCEPT ![j] = IF attempt[j] < MaxRetries THEN "backoff"
                                                                   ELSE "exhausted"]
       /\ UNCHANGED <<line, crashed>>
    \/ attempt[j] < MaxRetries /\ WorkerPanics(j, "panicked")

\* Mutant of PutFails: the verdict is recorded at each attempt.
PutFailsForGood(j) ==
    /\ stage[j] \in {"ready", "put"}
    /\ AttemptFailed(j)
    /\ uploads' = IF kind = "bunny" THEN uploads ELSE [uploads EXCEPT ![KeyOf[j]] = "Failed"]
    /\ UNCHANGED <<kind, attempt, active, object, landed, inflight>>

\* Mutant of PutFails: the status of the answer is not looked at.
PutFailsUnnoticed(j) ==
    /\ stage[j] \in {"ready", "put"}
    /\ stage' = [stage EXCEPT ![j] = "stored"]
    /\ UNCHANGED <<kind, attempt, line, uploads, active, object, landed, inflight, crashed>>

\* No connection, a refused PUT, or an answer that was lost.
PutFails(j) ==
    /\ stage[j] \in {"ready", "put"}
    /\ AttemptFailed(j)
    /\ UNCHANGED <<kind, attempt, uploads, active, object, landed, inflight>>

\* .timeout(60 s), .timeout(30 s), or a timeout of the SDK: the client gives up, and
\* the request it has sent can still be applied.
TimesOut(j) ==
    /\ stage[j] = "ready"
    /\ AttemptFailed(j)
    /\ inflight' = [inflight EXCEPT ![j] = @ + 1]
    /\ UNCHANGED <<kind, attempt, uploads, active, object, landed>>

\* The bucket applies a PUT that nobody waits for, at any time.
LatePut(j) ==
    /\ inflight[j] > 0
    /\ inflight' = [inflight EXCEPT ![j] = @ - 1]
    /\ object' = [object EXCEPT ![KeyOf[j]] = j]
    /\ landed' = landed \cup {j}
    /\ UNCHANGED <<kind, stage, attempt, line, uploads, active, crashed>>

\* Mutant of Retry: the attempts are not counted.
RetryForEver(j) ==
    /\ stage[j] = "backoff"
    /\ stage' = [stage EXCEPT ![j] = "ready"]
    /\ UNCHANGED <<kind, attempt, line, uploads, active, object, landed, inflight, crashed>>

\* The sleep of the back-off ends.
Retry(j) ==
    /\ stage[j] = "backoff"
    /\ attempt' = [attempt EXCEPT ![j] = @ + 1]
    /\ stage' = [stage EXCEPT ![j] = "ready"]
    /\ UNCHANGED <<kind, line, uploads, active, object, landed, inflight, crashed>>

\* The entry of the key, or the counter, at the end of the task.
Record(j, verdict) ==
    \/ kind = "bunny" /\ active' = active - 1 /\ UNCHANGED uploads
    \/ /\ kind # "bunny"
       /\ uploads' = [uploads EXCEPT ![KeyOf[j]] = verdict]
       /\ UNCHANGED active

\* The loop is left with Ok: Completed, or fetch_sub.
Completed(j) ==
    /\ stage[j] = "stored"
    /\ Record(j, "Completed")
    /\ stage' = [stage EXCEPT ![j] = "done"]
    /\ UNCHANGED <<kind, attempt, line, object, landed, inflight, crashed>>

\* Mutant of Failed: the failure is logged only.
FailedSilently(j) ==
    /\ stage[j] = "exhausted"
    /\ stage' = [stage EXCEPT ![j] = "failed"]
    /\ UNCHANGED <<kind, attempt, line, uploads, active, object, landed, inflight, crashed>>

\* All the attempts are used up: Failed, or fetch_sub.  Then file cuts the error at
\* a byte once more.
Failed(j) ==
    /\ stage[j] = "exhausted"
    /\ Record(j, "Failed")
    /\ \/ stage' = [stage EXCEPT ![j] = "failed"] /\ UNCHANGED <<line, crashed>>
       \/ WorkerPanics(j, "failed")
    /\ UNCHANGED <<kind, attempt, object, landed, inflight>>

\* send gives an error: the entry of the key is Failed, and queue_data returns Ok.
SendFails(j) ==
    /\ stage[j] = "refused"
    /\ Record(j, "Failed")
    /\ stage' = [stage EXCEPT ![j] = "failed"]
    /\ UNCHANGED <<kind, attempt, line, object, landed, inflight, crashed>>

-----------------------------------------------------------------------------
(* Observers.                                                               *)

\* pending_count of file and reqwest; that of bunny is active.
PendingKeys == {k \in Keys : uploads[k] = "Uploading"}

Step(j) ==
    \/ MarkUploading(j)
    \/ Join(j)
    \/ Admit(j)
    \/ Count(j)
    \/ Put(j)
    \/ Answer(j)
    \/ PutFails(j)
    \/ TimesOut(j)
    \/ Retry(j)
    \/ Completed(j)
    \/ Failed(j)
    \/ SendFails(j)

\* Every call of the instance has been made, and settled or lost.
Quiescent ==
    /\ \A j \in Jobs : stage[j] \in Over \cup Lost
    /\ UNCHANGED vars

Next == (\E j \in Jobs : Call(j) \/ Step(j) \/ LatePut(j)) \/ Quiescent

Spec == Init /\ [][Next]_vars

\* tokio polls what is ready, and each request is answered, fails or times out
\* (for the SDK's client of file that is an assumption).  Each job takes finitely
\* many steps, so that fairness of all the tasks together is enough.
FairSpec == Spec /\ WF_vars(\E j \in Jobs : Step(j))

-----------------------------------------------------------------------------
(* Properties.                                                              *)

TypeOK ==
    /\ kind \in {"file", "reqwest", "bunny"}
    /\ stage \in [Jobs -> Stages]
    /\ attempt \in [Jobs -> 0..MaxRetries]
    /\ line \in Seq(Jobs)
    /\ uploads \in [Keys -> {None, "Uploading", "Completed", "Failed"}]
    /\ active \in Nat
    /\ object \in [Keys -> Jobs \cup {None}]
    /\ landed \subseteq Jobs
    /\ inflight \in [Jobs -> Nat]
    /\ crashed \subseteq Jobs

\* The line holds exactly the jobs that wait, once each.
LineIsExact ==
    /\ \A j \in Jobs : stage[j] = "waiting" <=> \E i \in 1..Len(line) : line[i] = j
    /\ \A i, l \in 1..Len(line) : line[i] = line[l] => i = l

\* At most Workers uploads of file or reqwest run at a time, whatever fails, less
\* one for each worker that panicked; a closed channel keeps nobody waiting.  The
\* counter of bunny counts its tasks, and returns to zero after them.
SlotsAreExact ==
    /\ kind # "bunny" => Cardinality(Busy) <= Workers
    /\ Cardinality(crashed) >= Workers => line = <<>>
    /\ active = IF kind = "bunny" THEN Cardinality(Running) ELSE 0

SlotsInv == TypeOK /\ LineIsExact /\ SlotsAreExact

\* A key reads Uploading only while a job of it is on its way, or when one of it was
\* lost on its way, with its worker or with the channel.
UploadingHasOwner ==
    \A k \in PendingKeys : \E j \in Jobs :
        KeyOf[j] = k /\ stage[j] \notin {"idle", "called"} \cup Over

\* pending_count sees the job.
Seen(j) == IF kind = "bunny" THEN stage[j] \in Holding ELSE KeyOf[j] \in PendingKeys

\* What pending_count misses: an upload that is not marked yet (reqwest: as long
\* as it waits for a permit; bunny: until its task is polled), or one whose key
\* has the verdict of another upload.
UnseenHasCause ==
    \A j \in Jobs : stage[j] \notin {"idle"} \cup Over /\ ~Seen(j) =>
        \/ stage[j] = "called"
        \/ kind = "reqwest" /\ stage[j] \in {"waiting", "granted"}
        \/ \E i \in Jobs \ {j} : KeyOf[i] = KeyOf[j] /\ stage[i] \in Over

\* pending_count counts no upload that has its verdict, in whatever order uploads of
\* one key begin and end, and misses none without one of these causes.
PendingIsTrue == UploadingHasOwner /\ UnseenHasCause

\* Every call gets its verdict: neither a full channel, nor the semaphore, nor the
\* loss of other workers starves it.  The exceptions are the upload over which its
\* own worker panics, and those in the channel when the last worker does; a call
\* after that gets Failed.
EveryUploadSettles ==
    \A j \in Jobs : stage[j] = "called" ~>
        \/ stage[j] \in Over
        \/ stage[j] = "panicked" /\ j \in crashed
        \/ stage[j] = "dropped" /\ Cardinality(crashed) = Workers

-----------------------------------------------------------------------------
(* The three implement UploadService.                                       *)

StatusOf(s) ==
    CASE s = "idle"   -> "idle"
      [] s = "done"   -> "succeeded"
      [] s = "failed" -> "failed"
      [] OTHER        -> "accepted"

Service == INSTANCE UploadService
             WITH status <- [j \in Jobs |-> StatusOf(stage[j])],
                  late <- {j \in Jobs : inflight[j] > 0}

\* No verdict without a cause, no object under a foreign key, and nothing lands
\* after a verdict but a PUT that had timed out.
ImplementsSafety == Service!ServiceSafety
=============================================================================

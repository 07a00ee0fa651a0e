---------------------------- MODULE MemoryUploader ----------------------------
(***************************************************************************)
(* MemoryS3Uploader (data_layer/storage/memory_s3_uploader.rs), the        *)
(* uploader that LLHlsManager was written for.                             *)
(*                                                                         *)
(* queue_segment inserts the segment in a queue ordered by priority and    *)
(* spawns as many worker tasks as the queue then has entries.  A worker    *)
(* tries to take a permit and gives up if there is none; with a permit it  *)
(* takes the front of the queue, uploads it from memory with retries,      *)
(* records the verdict and drops the permit.  Until it has a segment a     *)
(* worker has no identity: those in the same place are counted, the ones   *)
(* that a call has still to spawn too.                                     *)
(***************************************************************************)
EXTENDS SequencesExt

CONSTANTS Jobs,        \* the calls of queue_segment, each a distinct payload
          Keys,        \* the S3 object keys, "<stream>/<file>"
          KeyOf,       \* the key of each job
          Priority,    \* the priority field of each MemorySegment
          Workers,     \* effective_workers, the permits of the semaphore
          MaxRetries,  \* max_retries
          None         \* no object, no entry

ASSUME MemoryAssumption ==
    /\ KeyOf \in [Jobs -> Keys]
    /\ Priority \in [Jobs -> Nat]
    /\ Workers \in Nat \ {0}
    /\ MaxRetries \in Nat
    /\ None \notin Jobs
    /\ None \notin {"Uploading", "Completed", "Failed"}

VARIABLES
    stage,         \* stage[j]: how far the segment of call j has come
    to_spawn,      \* workers that the calls under way have still to spawn
    upload_queue,  \* the queue of segments
    arrived,       \* history: the order of the insertions
    fresh,         \* workers that have not tried for a permit
    picking,       \* workers with a permit that wait for the queue's lock
    leaving,       \* workers that return, with a permit to drop
    permits,       \* available permits of worker_semaphore
    gave_up,       \* history: how many workers found no permit
    retry_count,   \* retry_count[j] of the worker that has j
    uploads,       \* active_uploads: the last state recorded under each key
    object,        \* object[k]: whose bytes the bucket holds under k
    landed,        \* history: the jobs whose bytes reached their key
    shutdown       \* "running", then "polling" in shutdown, then "returned"

calls   == <<to_spawn, arrived>>
workers == <<fresh, picking, leaving, permits, gave_up>>
bucket  == <<object, landed>>
vars    == <<stage, upload_queue, calls, workers, retry_count, uploads, bucket, shutdown>>

\* The stages in which a worker owns the segment.
Taken == {"taken", "uploading", "put", "backoff", "stored", "exhausted"}
Settled == {"done", "failed"}
Busy == {j \in Jobs : stage[j] \in Taken}

Init ==
    /\ stage = [j \in Jobs |-> "idle"]
    /\ to_spawn = 0
    /\ upload_queue = <<>>
    /\ arrived = <<>>
    /\ fresh = 0
    /\ picking = 0
    /\ leaving = 0
    /\ permits = Workers
    /\ gave_up = 0
    /\ retry_count = [j \in Jobs |-> 0]
    /\ uploads = [k \in Keys |-> None]
    /\ object = [k \in Keys |-> None]
    /\ landed = {}
    /\ shutdown = "running"

Goto(j, s) == stage' = [stage EXCEPT ![j] = s]

-----------------------------------------------------------------------------
(* queue_segment.                                                           *)

\* Mutant of InsertByPriority: before the segments of the same priority.
InsertBeforeEqual(q, j) ==
    LET lower == SelectInSeq(q, LAMBDA s : Priority[s] <= Priority[j])
    IN  IF lower = 0 THEN Append(q, j) ELSE InsertAt(q, lower, j)

\* Before the first segment of a lower priority.
InsertByPriority(q, j) ==
    LET lower == SelectInSeq(q, LAMBDA s : Priority[s] < Priority[j])
    IN  IF lower = 0 THEN Append(q, j) ELSE InsertAt(q, lower, j)

\* Mutant of Insert: the length of the queue is read before the insertion.
InsertStaleLength(j) ==
    /\ stage[j] = "idle"
    /\ Goto(j, "queued")
    /\ upload_queue' = InsertByPriority(upload_queue, j)
    /\ to_spawn' = to_spawn + Len(upload_queue)
    /\ arrived' = Append(arrived, j)
    /\ UNCHANGED <<workers, retry_count, uploads, bucket, shutdown>>

\* Under the queue's lock.
Insert(j) ==
    /\ stage[j] = "idle"
    /\ Goto(j, "queued")
    /\ upload_queue' = InsertByPriority(upload_queue, j)
    /\ to_spawn' = to_spawn + Len(upload_queue')
    /\ arrived' = Append(arrived, j)
    /\ UNCHANGED <<workers, retry_count, uploads, bucket, shutdown>>

\* spawn_upload_worker, once for each entry that was in the queue.
SpawnWorker ==
    /\ to_spawn > 0
    /\ to_spawn' = to_spawn - 1
    /\ fresh' = fresh + 1
    /\ UNCHANGED <<stage, upload_queue, arrived, picking, leaving, permits, gave_up,
                   retry_count, uploads, bucket, shutdown>>

-----------------------------------------------------------------------------
(* A worker.                                                                *)

\* try_acquire: a worker that finds no permit returns.
TryAcquire ==
    /\ fresh > 0
    /\ fresh' = fresh - 1
    /\ \/ /\ permits > 0
          /\ permits' = permits - 1
          /\ picking' = picking + 1
          /\ UNCHANGED gave_up
       \/ /\ permits = 0
          /\ gave_up' = gave_up + 1
          /\ UNCHANGED <<permits, picking>>
    /\ UNCHANGED <<stage, upload_queue, calls, leaving, retry_count, uploads, bucket,
                   shutdown>>

\* pop_front: the segment, or None, and then the worker returns.
PopFront ==
    /\ picking > 0
    /\ picking' = picking - 1
    /\ \/ /\ upload_queue # <<>>
          /\ Goto(Head(upload_queue), "taken")
          /\ upload_queue' = Tail(upload_queue)
          /\ UNCHANGED leaving
       \/ /\ upload_queue = <<>>
          /\ leaving' = leaving + 1
          /\ UNCHANGED <<stage, upload_queue>>
    /\ UNCHANGED <<calls, fresh, permits, gave_up, retry_count, uploads, bucket, shutdown>>

\* uploads.insert(key, Uploading).
MarkUploading(j) ==
    /\ stage[j] = "taken"
    /\ Goto(j, "uploading")
    /\ uploads' = [uploads EXCEPT ![KeyOf[j]] = "Uploading"]
    /\ UNCHANGED <<upload_queue, calls, workers, retry_count, bucket, shutdown>>

\* The bucket applies the PUT of an attempt.
Put(j) ==
    /\ stage[j] = "uploading"
    /\ Goto(j, "put")
    /\ object' = [object EXCEPT ![KeyOf[j]] = j]
    /\ landed' = landed \cup {j}
    /\ UNCHANGED <<upload_queue, calls, workers, retry_count, uploads, shutdown>>

\* send returns Ok.
PutSucceeds(j) ==
    /\ stage[j] = "put"
    /\ Goto(j, "stored")
    /\ UNCHANGED <<upload_queue, calls, workers, retry_count, uploads, bucket, shutdown>>

\* Mutant of PutFails: the result of send is not looked at.
PutFailsUnnoticed(j) ==
    /\ stage[j] \in {"uploading", "put"}
    /\ Goto(j, "stored")
    /\ UNCHANGED <<upload_queue, calls, workers, retry_count, uploads, bucket, shutdown>>

\* send returns an error: the PUT was not applied, or its answer was lost.
PutFails(j) ==
    /\ stage[j] \in {"uploading", "put"}
    /\ retry_count' = [retry_count EXCEPT ![j] = @ + 1]
    /\ Goto(j, IF retry_count[j] < MaxRetries THEN "backoff" ELSE "exhausted")
    /\ UNCHANGED <<upload_queue, calls, workers, uploads, bucket, shutdown>>

\* The sleep ends and the loop goes round.
Retry(j) ==
    /\ stage[j] = "backoff"
    /\ Goto(j, "uploading")
    /\ UNCHANGED <<upload_queue, calls, workers, retry_count, uploads, bucket, shutdown>>

\* uploads.insert(key, Completed).
MarkCompleted(j) ==
    /\ stage[j] = "stored"
    /\ Goto(j, "done")
    /\ uploads' = [uploads EXCEPT ![KeyOf[j]] = "Completed"]
    /\ leaving' = leaving + 1
    /\ UNCHANGED <<upload_queue, calls, fresh, picking, permits, gave_up, retry_count,
                   bucket, shutdown>>

\* uploads.insert(key, Failed(last_error)).
MarkFailed(j) ==
    /\ stage[j] = "exhausted"
    /\ Goto(j, "failed")
    /\ uploads' = [uploads EXCEPT ![KeyOf[j]] = "Failed"]
    /\ leaving' = leaving + 1
    /\ UNCHANGED <<upload_queue, calls, fresh, picking, permits, gave_up, retry_count,
                   bucket, shutdown>>

\* drop(permit), or the end of the task.
DropPermit ==
    /\ leaving > 0
    /\ leaving' = leaving - 1
    /\ permits' = permits + 1
    /\ UNCHANGED <<stage, upload_queue, calls, fresh, picking, gave_up, retry_count,
                   uploads, bucket, shutdown>>

-----------------------------------------------------------------------------
(* shutdown: the message is sent to a channel that nobody reads, and then   *)
(* active_count is polled.                                                  *)

ActiveKeys == {k \in Keys : uploads[k] = "Uploading"}

CallShutdown ==
    /\ shutdown = "running"
    /\ shutdown' = "polling"
    /\ UNCHANGED <<stage, upload_queue, calls, workers, retry_count, uploads, bucket>>

\* Mutant of ShutdownReturns: it is the queue that is polled.
ShutdownWhenDrained ==
    /\ shutdown = "polling"
    /\ upload_queue = <<>>
    /\ shutdown' = "returned"
    /\ UNCHANGED <<stage, upload_queue, calls, workers, retry_count, uploads, bucket>>

ShutdownReturns ==
    /\ shutdown = "polling"
    /\ ActiveKeys = {}
    /\ shutdown' = "returned"
    /\ UNCHANGED <<stage, upload_queue, calls, workers, retry_count, uploads, bucket>>

Upload(j) ==
    \/ MarkUploading(j)
    \/ Put(j)
    \/ PutSucceeds(j)
    \/ PutFails(j)
    \/ Retry(j)
    \/ MarkCompleted(j)
    \/ MarkFailed(j)

Task == SpawnWorker \/ TryAcquire \/ PopFront \/ DropPermit

\* All the workers are gone; a queue that is not empty stays as it is.
Quiescent ==
    /\ \A j \in Jobs : stage[j] \in Settled \cup {"queued"}
    /\ to_spawn + fresh + picking + leaving = 0
    /\ shutdown = "returned"
    /\ UNCHANGED vars

Next ==
    \/ \E j \in Jobs : Insert(j) \/ Upload(j)
    \/ Task
    \/ CallShutdown
    \/ ShutdownReturns
    \/ Quiescent

Spec == Init /\ [][Next]_vars

-----------------------------------------------------------------------------
(* Properties.                                                              *)

\* The shape of the state; a worker sleeps only when an attempt is left.
TypeOK ==
    /\ stage \in [Jobs -> Taken \cup Settled \cup {"idle", "queued"}]
    /\ upload_queue \in Seq(Jobs)
    /\ arrived \in Seq(Jobs)
    /\ {to_spawn, fresh, picking, leaving, gave_up} \subseteq Nat
    /\ permits \in 0..Workers
    /\ retry_count \in [Jobs -> 0..MaxRetries + 1]
    /\ \A j \in Jobs : stage[j] \in {"uploading", "put", "backoff"}
                         => retry_count[j] <= MaxRetries
    /\ uploads \in [Keys -> {None, "Uploading", "Completed", "Failed"}]
    /\ object \in [Keys -> Jobs \cup {None}]
    /\ landed \subseteq Jobs
    /\ shutdown \in {"running", "polling", "returned"}

\* Every permit is available or owned by one worker, on all the paths on which
\* a worker returns: no permit, empty queue, success, retries used up.
PermitAccounting ==
    permits + picking + leaving + Cardinality(Busy) = Workers

\* Each segment that waits is in the queue once, ahead of those of a lower
\* priority and of those of its own priority that came later.
QueueInOrder ==
    LET before(j, k) == \E a, b \in 1..Len(arrived) :
                            arrived[a] = j /\ arrived[b] = k /\ a < b
    IN  /\ ToSet(upload_queue) = {j \in Jobs : stage[j] = "queued"}
        /\ \A a, b \in 1..Len(upload_queue) : a < b =>
              LET j == upload_queue[a]
                  k == upload_queue[b]
              IN  \/ Priority[j] > Priority[k]
                  \/ Priority[j] = Priority[k] /\ before(j, k)

\* A key reads Uploading only while a worker owns a segment of it, so that
\* shutdown does not wait for nothing.
UploadingHasOwner ==
    \A k \in ActiveKeys :
        \E j \in Jobs : KeyOf[j] = k /\ stage[j] \in Taken \ {"taken"}

\* Queue, permits and the map of the uploads are right together.
QueueInv == TypeOK /\ PermitAccounting /\ QueueInOrder /\ UploadingHasOwner

\* The workers that are still to look at the queue.
Lookers == to_spawn + fresh + picking

\* A segment is left without a worker only because a worker found no permit:
\* as long as none gave up there is a worker to come for every entry.
StrandedHasCause == Len(upload_queue) <= Lookers + gave_up

\* "Wait until all the active uploads are complete": the only uploads that
\* shutdown overlooks are those hidden by the verdict of another upload of the
\* same key, and those not recorded yet.
ShutdownMissesOnlyHidden ==
    [][shutdown = "polling" /\ shutdown' = "returned"
          => \A j \in Busy :
                \/ stage[j] = "taken"
                \/ \E i \in Jobs : KeyOf[i] = KeyOf[j] /\ stage[i] \in Settled]_vars

-----------------------------------------------------------------------------
(* MemoryUploader keeps the safety part of what UploadService promises, and *)
(* not its liveness: a queued segment may be left where it is.              *)

StatusOf(s) ==
    CASE s = "idle"   -> "idle"
      [] s = "done"   -> "succeeded"
      [] s = "failed" -> "failed"
      [] OTHER        -> "accepted"

Service == INSTANCE UploadService
             WITH status <- [j \in Jobs |-> StatusOf(stage[j])], late <- {}

\* The safety part of UploadService.
ImplementsSafety == Service!ServiceSafety
=============================================================================

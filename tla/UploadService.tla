---------------------------- MODULE UploadService ----------------------------
(***************************************************************************)
(* What an uploader promises to the code that queues data with it.         *)
(*                                                                         *)
(* queue_segment returns at once with Ok: the call is only an acceptance.  *)
(* Afterwards, and in any order between jobs, the bytes of an accepted job *)
(* may reach the object of its key, any number of times, because a retry   *)
(* can repeat a PUT that was applied but reported as failed.  Each         *)
(* accepted job ends with exactly one verdict, and "succeeded" is given    *)
(* only to a job whose own bytes reached its own key.                      *)
(*                                                                         *)
(* A PUT that the caller gave up waiting for can still be applied, even    *)
(* after the verdict of its job.                                           *)
(*                                                                         *)
(* No order between keys, and none between two jobs of the same key, is    *)
(* promised.  CliUploader, MemoryUploader and HttpUploaders are shown to   *)
(* implement this module.                                                  *)
(***************************************************************************)

CONSTANTS Jobs,     \* the calls of queue_segment
          Keys,     \* the S3 object keys, "<stream>/<file>"
          KeyOf,    \* the key of each job
          None      \* no object

VARIABLES status,   \* status[j]: what became of the job
          object,   \* object[k]: the job whose bytes the bucket holds under k
          landed,   \* the jobs whose bytes reached their key at some time
          late      \* the jobs with a PUT under way that nobody waits for

vars == <<status, object, landed, late>>

ServiceInit ==
    /\ status = [j \in Jobs |-> "idle"]
    /\ object = [k \in Keys |-> None]
    /\ landed = {}
    /\ late = {}

\* queue_segment returns Ok.
Accept(j) ==
    /\ status[j] = "idle"
    /\ status' = [status EXCEPT ![j] = "accepted"]
    /\ UNCHANGED <<object, landed, late>>

\* The bytes of an accepted job replace whatever its key held.
Put(j) ==
    /\ status[j] = "accepted"
    /\ object' = [object EXCEPT ![KeyOf[j]] = j]
    /\ landed' = landed \cup {j}
    /\ UNCHANGED <<status, late>>

\* The uploader gives up waiting for the answer to a PUT.
Abandon(j) ==
    /\ status[j] = "accepted"
    /\ late' = late \cup {j}
    /\ UNCHANGED <<status, object, landed>>

\* A PUT that nobody waits for is applied all the same; there may be another.
LatePut(j) ==
    /\ j \in late
    /\ object' = [object EXCEPT ![KeyOf[j]] = j]
    /\ landed' = landed \cup {j}
    /\ late' \in {late, late \ {j}}
    /\ UNCHANGED status

\* UploadState::Completed.
Succeed(j) ==
    /\ status[j] = "accepted"
    /\ j \in landed
    /\ status' = [status EXCEPT ![j] = "succeeded"]
    /\ UNCHANGED <<object, landed, late>>

\* UploadState::Failed: all the attempts are used up.
Fail(j) ==
    /\ status[j] = "accepted"
    /\ status' = [status EXCEPT ![j] = "failed"]
    /\ UNCHANGED <<object, landed, late>>

ServiceNext ==
    \E j \in Jobs : \/ Accept(j)
                   \/ Put(j) \/ Abandon(j) \/ LatePut(j)
                   \/ Succeed(j) \/ Fail(j)

ServiceSafety == ServiceInit /\ [][ServiceNext]_vars

\* An accepted job gets its verdict in the end.
ServiceSpec ==
    ServiceSafety /\ \A j \in Jobs : WF_vars(Succeed(j) \/ Fail(j))
=============================================================================

------------------------------- MODULE Replay -------------------------------
(***************************************************************************)
(* The end of a stream and the VOD playlist that makes it replayable       *)
(* (stop_hls_conversion and generate_vod_playlist of memory_hls_manager.rs *)
(* and the stop of pipeline_manager.rs), over the uploads that are still   *)
(* under way.  The uploader is UploadService, which CliUploader            *)
(* implements; the watcher is reduced to handing over one file after the   *)
(* other until it is aborted, as FileWatcher does: init.mp4, then the      *)
(* segments.                                                               *)
(***************************************************************************)
EXTENDS Integers

CONSTANTS FileLimit,     \* bound: how many files ffmpeg produces
          Vod,           \* the job and key of vod_playlist.m3u8
          Master,        \* the job and key of master.m3u8
          None

ASSUME ReplayAssumption ==
    /\ FileLimit \in Nat
    /\ Vod # Master
    /\ None \notin {Vod, Master}
    /\ {Vod, Master, None} \cap Nat = {}

\* The first file is init.mp4, which the playlist names as EXT-X-MAP.
Files == 1..FileLimit

\* Each job of this stream has a key of its own.
Jobs == Files \cup {Vod, Master}

VARIABLES
    pc,        \* the stop path: "live", then the await it is at
    produced,  \* how many files ffmpeg has completed
    handed,    \* how many of them the watcher has handed over
    listing,   \* the files named in the VOD playlist
    settled,   \* history: the files stored for good when the bucket was listed
    completed, \* the stream is in completed_streams
    status, object, landed   \* the uploader

Uploads == INSTANCE UploadService
             WITH Keys <- Jobs, KeyOf <- [j \in Jobs |-> j], late <- {}

uploads == <<status, object, landed>>
vars == <<pc, produced, handed, listing, settled, completed, uploads>>

Init ==
    /\ pc = "live"
    /\ produced = 0
    /\ handed = 0
    /\ listing = {}
    /\ settled = {}
    /\ completed = FALSE
    /\ Uploads!ServiceInit

\* ffmpeg completes a file.
Produce ==
    /\ pc = "live"
    /\ produced < FileLimit
    /\ produced' = produced + 1
    /\ UNCHANGED <<pc, handed, listing, settled, completed, uploads>>

\* Mutant of HandOver: one file ahead of ffmpeg.
HandOverEarly ==
    /\ pc = "live"
    /\ handed <= produced
    /\ handed' = handed + 1
    /\ Uploads!Accept(handed + 1)
    /\ UNCHANGED <<pc, produced, listing, settled, completed>>

\* The watcher hands the next file to the uploader.
HandOver ==
    /\ pc = "live"
    /\ handed < produced
    /\ handed' = handed + 1
    /\ Uploads!Accept(handed + 1)
    /\ UNCHANGED <<pc, produced, listing, settled, completed>>

\* stop_pipeline: the watcher is aborted and the directory removed, with what
\* it had not handed over.
StopPipeline ==
    /\ pc = "live"
    /\ pc' = "vod"
    /\ UNCHANGED <<produced, handed, listing, settled, completed, uploads>>

\* Mutants of Stored: what was handed over, and a listing that loses its last line.
HandedOver == 1..handed
StoredButLast == {f \in Files : object[f] # None /\ f < handed}

\* The files of the stream that "aws s3 ls" shows: init.mp4 and segment_*.m4s.
Stored == {f \in Files : object[f] # None}

\* generate_vod_playlist: list the bucket and hand over a playlist of what it
\* holds, or go on without one when the listing fails.
GenerateVod ==
    /\ pc = "vod"
    /\ pc' = "master"
    /\ \/ /\ listing' = Stored
          /\ settled' = {f \in Files : status[f] = "succeeded"}
          /\ Uploads!Accept(Vod)
       \/ UNCHANGED <<listing, settled, uploads>>
    /\ UNCHANGED <<produced, handed, completed>>

\* Mutant of GenerateMaster: an error of the VOD playlist ends the stop.
MasterAfterVod ==
    /\ pc = "master"
    /\ status[Vod] # "idle"
    /\ pc' = "mark"
    /\ Uploads!Accept(Master)
    /\ UNCHANGED <<produced, handed, listing, settled, completed>>

\* generate_master_playlist: it names vod_playlist.m3u8 in any case.
GenerateMaster ==
    /\ pc = "master"
    /\ pc' = "mark"
    /\ Uploads!Accept(Master)
    /\ UNCHANGED <<produced, handed, listing, settled, completed>>

\* mark_stream_completed.
MarkCompleted ==
    /\ pc = "mark"
    /\ pc' = "over"
    /\ completed' = TRUE
    /\ UNCHANGED <<produced, handed, listing, settled, uploads>>

\* An accepted upload goes on, before and after the stop.
UploadStep(j) ==
    /\ Uploads!Put(j) \/ Uploads!Succeed(j) \/ Uploads!Fail(j)
    /\ UNCHANGED <<pc, produced, handed, listing, settled, completed>>

Verdict(j) ==
    /\ Uploads!Succeed(j) \/ Uploads!Fail(j)
    /\ UNCHANGED <<pc, produced, handed, listing, settled, completed>>

StopPath == GenerateVod \/ GenerateMaster \/ MarkCompleted

\* The stream is over and every upload has its verdict.
Over ==
    /\ pc = "over"
    /\ \A j \in Jobs : status[j] # "accepted"
    /\ UNCHANGED vars

Next ==
    \/ Produce
    \/ HandOver
    \/ StopPipeline
    \/ StopPath
    \/ \E j \in Jobs : UploadStep(j)
    \/ Over

Spec == Init /\ [][Next]_vars

\* The handler's task is polled, and the uploader keeps its promise.
FairSpec == Spec /\ WF_vars(StopPath) /\ \A j \in Jobs : WF_vars(Verdict(j))

-----------------------------------------------------------------------------
(* Properties.                                                              *)

\* The shape of the state.
TypeOK ==
    /\ pc \in {"live", "vod", "master", "mark", "over"}
    /\ produced \in 0..FileLimit
    /\ handed \in 0..produced
    /\ listing \cup settled \subseteq Files
    /\ completed \in BOOLEAN
    /\ status \in [Jobs -> {"idle", "accepted", "succeeded", "failed"}]
    /\ object \in [Jobs -> Jobs \cup {None}]
    /\ landed \subseteq Jobs

\* The VOD playlist in the bucket names only files that the bucket holds,
\* whatever the uploads that were under way at the stop come to.
VodNamesStored ==
    object[Vod] # None => \A f \in listing : object[f] # None

ReplayInv == TypeOK /\ VodNamesStored

\* Neither a segment nor init.mp4 is missing from it when its upload had been
\* reported done before the bucket was listed.
VodHasSettled == object[Vod] # None => settled \subseteq listing

\* "All segments included": what the watcher handed over is in the VOD playlist.
VodHasAllSegments == status[Vod] # "idle" => 1..handed \subseteq listing

\* After a stop every upload of the stream gets its verdict and the stream is
\* recorded as completed.
ReplaySettles ==
    pc = "vod" ~> completed /\ \A j \in Jobs : status[j] # "accepted"
=============================================================================

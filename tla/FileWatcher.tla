----------------------------- MODULE FileWatcher -----------------------------
(***************************************************************************)
(* The file watcher of one stream                                          *)
(* (business_layer/streaming/ffmpeg_pipeline/file_watcher.rs).             *)
(*                                                                         *)
(* ffmpeg writes init.mp4, segments and its own playlist into the stream's *)
(* directory.  The watcher task takes the file events one by one from a    *)
(* channel, reads the file, hands init.mp4 and each new segment to the     *)
(* uploader, slides the live window and hands over the new live playlist.  *)
(* A processed segment is removed from the directory, by the watcher or,   *)
(* when a thumbnail is extracted from it, by the thumbnail task.  All the  *)
(* thumbnail tasks of a stream share combined.mp4 and thumbnail.jpg.       *)
(* stop_pipeline aborts the watcher and removes the directory, while       *)
(* ffmpeg and the thumbnail tasks go on.                                   *)
(*                                                                         *)
(* Segments are numbered in the order in which ffmpeg produces them.  The  *)
(* uploader is the sequence of jobs handed to queue_segment; thumbnails    *)
(* are kept apart from it.                                                 *)
(***************************************************************************)
EXTENDS Integers, Sequences, FiniteSets

CONSTANTS SegmentLimit,    \* bound: how many segments ffmpeg produces
          MaxSegments,     \* max_segments of the live window (10)
          ProcessedLimit,  \* size at which processed_segments is cleared (20)
          Thumbnails,      \* thumbnail_config.enabled
          Interval,        \* thumbnail_config.interval_seconds; with 0 the
                           \* remainder panics at the first segment
          AtomicWrites,    \* TRUE: a file is complete when its events are sent
          FaultLimit,      \* bound: a read, a write or an extraction that finds
                           \* its files fails only after fewer such failures
          EventLimit,      \* bound: ffmpeg goes on while fewer events are queued
          InitFile,        \* init.mp4
          Playlist,        \* ffmpeg's playlist.m3u8
          None

ASSUME WatcherAssumption ==
    /\ SegmentLimit \in Nat
    /\ MaxSegments \in Nat \ {0}
    /\ ProcessedLimit \in Nat
    /\ Interval \in Nat \ {0}
    /\ Thumbnails \in BOOLEAN
    /\ AtomicWrites \in BOOLEAN
    /\ FaultLimit \in Nat
    /\ EventLimit \in Nat \ {0}
    /\ InitFile # Playlist
    /\ \A x \in {InitFile, Playlist, None} : x \notin Nat

Segments == 1..SegmentLimit

\* The files with a content of their own; it is written in Full pieces.
Media == Segments \cup {InitFile}
Files == Media \cup {Playlist}
Full == 1

VARIABLES
    dir,                \* the directory: "there", "swept", "gone" or "left"
    exists,             \* the files of ffmpeg in the directory
    written,            \* written[f]: the pieces ffmpeg has written to f
    produced,           \* how many segments ffmpeg has opened
    listed,             \* how many segments ffmpeg's playlist lists
    events,             \* inotify's queue and the mpsc channel behind it
    pc,                 \* where the watcher task is
    current,            \* the file of the event in hand
    pending_duration,   \* the segment whose EXTINF was parsed last
    segments,           \* LLHlsState.segments: [seg, duration]
    media_sequence,     \* LLHlsState.media_sequence
    segment_count,      \* LLHlsState.segment_count
    processed,          \* LLHlsState.processed_segments
    init_uploaded,      \* LLHlsState.init_uploaded
    missed,             \* history: files that were there before the watch or
                        \* could not be read, and were not handed over yet
    queue,              \* the jobs handed to the uploader, in order
    tasks,              \* the thumbnail tasks, in the order of their spawn
    combined,           \* the segment that combined.mp4 holds
    thumbnail,          \* the segment that thumbnail.jpg shows
    thumbnails          \* history: the thumbnails handed to the uploader

ffmpeg == <<written, produced, listed>>
state  == <<segments, media_sequence, segment_count, processed, init_uploaded,
            missed>>
disk   == <<dir, exists>>
shots  == <<tasks, combined, thumbnail, thumbnails>>
vars   == <<disk, events, pc, current, pending_duration, queue, shots, ffmpeg, state>>

Init ==
    /\ dir = "there"
    /\ exists = {}
    /\ written = [f \in Media |-> 0]
    /\ produced = 0
    /\ listed = 0
    /\ events = <<>>
    /\ pc = "spawned"
    /\ current = None
    /\ pending_duration = None
    /\ segments = <<>>
    /\ media_sequence = 0
    /\ segment_count = 0
    /\ processed = {}
    /\ init_uploaded = FALSE
    /\ missed = {}
    /\ queue = <<>>
    /\ tasks = <<>>
    /\ combined = None
    /\ thumbnail = None
    /\ thumbnails = {}

\* The directory is watched.
Watching == pc \in {"recv", "read", "remove"}

-----------------------------------------------------------------------------
(* ffmpeg and inotify.  A new file sends Create and one Modify per write,   *)
(* as long as it is linked in the directory and the directory is watched;   *)
(* the renaming of playlist.m3u8.tmp sends two events that name             *)
(* playlist.m3u8.  ffmpeg starts before the watcher, and outlives it: its   *)
(* stdin is closed after the directory was removed.                         *)

\* ffmpeg opens init.mp4 first, then one segment after the other.
Complete(f) == written[f] = Full

CanOpen(f) ==
    \/ f = InitFile /\ written[InitFile] = 0 /\ InitFile \notin exists
    \/ /\ f = produced + 1
       /\ Complete(InitFile)
       /\ listed = produced

Notify(names) == events' = IF Watching THEN events \o names ELSE events

\* Once its stdin is closed ffmpeg only finishes the segment at hand.
Open(f) ==
    /\ dir \in {"there", "swept"}
    /\ CanOpen(f)
    /\ exists' = exists \cup {f}
    /\ produced' = IF f = InitFile THEN produced ELSE f
    /\ \/ /\ AtomicWrites
          /\ written' = [written EXCEPT ![f] = Full]
          /\ Notify(<<f, f>>)
       \/ /\ ~AtomicWrites
          /\ Notify(<<f>>)
          /\ UNCHANGED written
    /\ UNCHANGED <<dir, listed, pc, current, pending_duration, queue, shots, state>>

\* A write to the file that is open: no event once it has been unlinked.
Write(f) ==
    /\ dir # "gone"
    /\ ~AtomicWrites
    /\ written[f] < Full
    /\ f = produced \/ (f = InitFile /\ InitFile \in exists)
    /\ written' = [written EXCEPT ![f] = @ + 1]
    /\ Notify(IF f \in exists THEN <<f>> ELSE <<>>)
    /\ UNCHANGED <<disk, produced, listed, pc, current, pending_duration, queue, shots,
                   state>>

\* ffmpeg lists the segment it has closed.
List ==
    /\ dir # "gone"
    /\ listed < produced
    /\ Complete(produced)
    /\ listed' = produced
    /\ exists' = exists \cup {Playlist}
    /\ Notify(<<Playlist, Playlist>>)
    /\ UNCHANGED <<dir, written, produced, pc, current, pending_duration, queue, shots,
                   state>>

-----------------------------------------------------------------------------
(* LLHlsState.                                                              *)

\* Mutant of MarkProcessed: the name is not recorded.
MarkNothing(names, s) == names

\* mark_processed: the set is emptied, with the new name in it, as soon as it
\* has more than ProcessedLimit names.
MarkProcessed(names, s) ==
    IF Cardinality(names \cup {s}) > ProcessedLimit THEN {} ELSE names \cup {s}

\* Mutant of AddSegment: pop_front does not advance media_sequence.
AddSegmentUncounted(s, duration) ==
    LET pushed == Append(segments, [seg |-> s, duration |-> duration])
    IN  /\ segment_count' = segment_count + 1
        /\ segments' = IF Len(pushed) > MaxSegments THEN Tail(pushed) ELSE pushed
        /\ UNCHANGED media_sequence

\* add_segment: push_back, and pop_front while the window is too long.
AddSegment(s, duration) ==
    LET pushed == Append(segments, [seg |-> s, duration |-> duration])
    IN  /\ segment_count' = segment_count + 1
        /\ \/ /\ Len(pushed) <= MaxSegments
              /\ segments' = pushed
              /\ UNCHANGED media_sequence
           \/ /\ Len(pushed) > MaxSegments
              /\ segments' = Tail(pushed)
              /\ media_sequence' = media_sequence + 1

\* should_extract, of the count after add_segment.
ShouldExtract ==
    Thumbnails /\ (segment_count + 1 = 2 \/ (segment_count + 1) % Interval = 0)

\* The jobs handed to the uploader, by what was read rather than by its bytes.
\* generate_playlist writes the window and its media sequence.
InitJob == [kind |-> "init"]
SegmentJob(s) == [kind |-> "segment", seg |-> s]
PlaylistJob(window, seq) == [kind |-> "playlist", window |-> window, first |-> seq]

-----------------------------------------------------------------------------
(* The watcher task: one action per await.                                  *)

\* The task is polled for the first time and sets up the watch.  What ffmpeg has
\* created before is not reported.
Watch ==
    /\ pc = "spawned"
    /\ pc' = "recv"
    /\ missed' = exists \cap Media
    /\ UNCHANGED <<disk, events, current, pending_duration, queue, shots, ffmpeg, segments,
                   media_sequence, segment_count, processed, init_uploaded>>

\* notify cannot be started: the task returns.
WatchFails ==
    /\ pc = "spawned"
    /\ FaultLimit > 0
    /\ pc' = "failed"
    /\ UNCHANGED <<disk, events, current, pending_duration, queue, shots, ffmpeg, state>>

\* Mutant of Recv: the channel is drained and only its last event handled.
RecvLast ==
    /\ pc = "recv"
    /\ events # <<>>
    /\ current' = events[Len(events)]
    /\ events' = <<>>
    /\ pc' = "read"
    /\ UNCHANGED <<disk, pending_duration, queue, shots, ffmpeg, state>>

\* rx.recv().await
Recv ==
    /\ pc = "recv"
    /\ events # <<>>
    /\ current' = Head(events)
    /\ events' = Tail(events)
    /\ pc' = "read"
    /\ UNCHANGED <<disk, pending_duration, queue, shots, ffmpeg, state>>

Queued(s) == \E n \in 1..Len(queue) : queue[n].kind = "segment" /\ queue[n].seg = s

HandedOver(f) == IF f = InitFile THEN init_uploaded ELSE Queued(f)

\* What finds its files can fail all the same, at most FaultLimit times.
MayFail ==
    LET failed == {t \in DOMAIN tasks : tasks[t].result \in {"unread", "unwritten", "lost"}}
    IN  Cardinality(missed) + Cardinality(failed) < FaultLimit

\* fs::read fails: the file is gone, or cannot be read.
ReadFails ==
    /\ pc = "read"
    /\ current \in exists => MayFail
    /\ missed' = missed \cup {f \in {current} \cap exists \cap Media : ~HandedOver(f)}
    /\ pc' = "recv"
    /\ UNCHANGED <<disk, events, current, pending_duration, queue, shots, ffmpeg, segments,
                   media_sequence, segment_count, processed, init_uploaded>>

\* playlist.m3u8: the last EXTINF line of all the lines is kept.
ReadPlaylist ==
    /\ pc = "read"
    /\ current = Playlist
    /\ Playlist \in exists
    /\ pending_duration' = listed
    /\ pc' = "recv"
    /\ UNCHANGED <<disk, events, current, queue, shots, ffmpeg, state>>

\* Mutant of ReadInit: init_uploaded is never set.
ReadInitAgain ==
    /\ pc = "read"
    /\ current = InitFile
    /\ InitFile \in exists
    /\ queue' = Append(queue, InitJob)
    /\ missed' = missed \ {InitFile}
    /\ pc' = "recv"
    /\ UNCHANGED <<disk, events, current, pending_duration, shots, ffmpeg, segments,
                   media_sequence, segment_count, processed, init_uploaded>>

\* init.mp4: uploaded as it is read the first time, and never again.
ReadInit ==
    /\ pc = "read"
    /\ current = InitFile
    /\ InitFile \in exists
    /\ queue' = IF init_uploaded THEN queue ELSE Append(queue, InitJob)
    /\ init_uploaded' = TRUE
    /\ missed' = missed \ {InitFile}
    /\ pc' = "recv"
    /\ UNCHANGED <<disk, events, current, pending_duration, shots, ffmpeg, segments,
                   media_sequence, segment_count, processed>>

\* A segment that was processed before: continue.
SkipSegment ==
    /\ pc = "read"
    /\ current \in exists \cap processed
    /\ pc' = "recv"
    /\ UNCHANGED <<disk, events, current, pending_duration, queue, shots, ffmpeg, state>>

Live(task) == task.at # "ended"

\* The tasks that live have met the one that starts.
OldTasks == [t \in DOMAIN tasks |-> IF Live(tasks[t]) THEN [tasks[t] EXCEPT !.met = TRUE]
                                                      ELSE tasks[t]]

NewTask(s, of) == [seg |-> s, of |-> of, at |-> "spawned", result |-> "open",
                   met |-> \E t \in DOMAIN tasks : Live(tasks[t])]

\* Mutant of SpawnThumbnail: the path of the newest segment, not of this one.
SpawnWithNewest(s) == tasks' = Append(OldTasks, NewTask(s, produced))

\* tokio::spawn(extract_thumbnail_from_segment): the task of segment seg reads
\* the file of.  Histories: result is the step that failed, or how it went; met:
\* the task of another thumbnail ran meanwhile.
SpawnThumbnail(s) == tasks' = Append(OldTasks, NewTask(s, s))

\* Mutant of ProcessSegment: the playlist is handed over before the segment.
ProcessPlaylistFirst ==
    /\ pc = "read"
    /\ current \in (exists \cap Segments) \ processed
    /\ pending_duration' = None
    /\ processed' = MarkProcessed(processed, current)
    /\ AddSegment(current, pending_duration)
    /\ missed' = missed \ {current}
    /\ queue' = queue \o <<PlaylistJob(segments', media_sequence'), SegmentJob(current)>>
    /\ pc' = "remove"
    /\ UNCHANGED <<disk, events, current, shots, ffmpeg, init_uploaded>>

\* A new segment: upload it, slide the window, upload the playlist, then start
\* the thumbnail task or go on to remove the file.
ProcessSegment ==
    /\ pc = "read"
    /\ current \in (exists \cap Segments) \ processed
    /\ pending_duration' = None
    /\ processed' = MarkProcessed(processed, current)
    /\ AddSegment(current, pending_duration)
    /\ missed' = missed \ {current}
    /\ queue' = queue \o <<SegmentJob(current), PlaylistJob(segments', media_sequence')>>
    /\ \/ /\ ShouldExtract
          /\ SpawnThumbnail(current)
          /\ pc' = "recv"
       \/ /\ ~ShouldExtract
          /\ pc' = "remove"
          /\ UNCHANGED tasks
    /\ UNCHANGED <<disk, events, current, combined, thumbnail, thumbnails, ffmpeg,
                   init_uploaded>>

\* fs::remove_file(&path).await
RemoveSegment ==
    /\ pc = "remove"
    /\ exists' = exists \ {current}
    /\ pc' = "recv"
    /\ UNCHANGED <<dir, events, current, pending_duration, queue, shots, ffmpeg, state>>

-----------------------------------------------------------------------------
(* extract_thumbnail_from_segment: one action per await.  Every path leads  *)
(* to the removal of the segment; of the two files that the tasks share the *)
(* paths of a failure may leave one behind.                                 *)

outside == <<pc, events, current, pending_duration, queue, ffmpeg, state>>

At(t, label) == t \in DOMAIN tasks /\ tasks[t].at = label

SetTask(t, label, result) ==
    tasks' = [tasks EXCEPT ![t] = [@ EXCEPT !.at = label, !.result = result]]

\* fs::read of init.mp4 and of the segment; nobody changes them in between.
ReadSources(t) ==
    /\ At(t, "spawned")
    /\ \/ {InitFile, tasks[t].of} \subseteq exists /\ SetTask(t, "read", "open")
       \/ /\ {InitFile, tasks[t].of} \subseteq exists => MayFail
          /\ SetTask(t, "remove", "unread")
    /\ UNCHANGED <<disk, combined, thumbnail, thumbnails, outside>>

\* fs::write(&combined_path): replaces what another task has written.  One that
\* fails may have replaced it too, by a part of the bytes, and removes nothing.
WriteCombined(t) ==
    /\ At(t, "read")
    /\ \/ /\ dir # "gone"
          /\ combined' = tasks[t].of
          /\ SetTask(t, "combined", "open")
       \/ /\ dir # "gone" => MayFail
          /\ combined' \in {combined} \cup IF dir # "gone" THEN {tasks[t].of} ELSE {}
          /\ SetTask(t, "remove", "unwritten")
    /\ UNCHANGED <<disk, thumbnail, thumbnails, outside>>

\* ffmpeg -y: it shows a frame of whatever combined.mp4 holds now, or fails, with
\* thumbnail.jpg begun or not.
RunFfmpeg(t) ==
    /\ At(t, "combined")
    /\ \/ /\ combined # None
          /\ thumbnail' = combined
          /\ SetTask(t, "ran", "shot")
       \/ /\ combined # None => MayFail
          /\ thumbnail' \in {thumbnail} \cup ({combined} \ {None})
          /\ SetTask(t, "ran", "lost")
    /\ UNCHANGED <<disk, combined, thumbnails, outside>>

\* Mutant of RemoveCombined: a failed extraction skips the removal.
RemoveCombinedIfShot(t) ==
    /\ At(t, "ran")
    /\ combined' = IF tasks[t].result = "shot" THEN None ELSE combined
    /\ SetTask(t, "remove", tasks[t].result)
    /\ UNCHANGED <<disk, thumbnail, thumbnails, outside>>

\* remove_file(&combined_path)
RemoveCombined(t) ==
    /\ At(t, "ran")
    /\ combined' = None
    /\ SetTask(t, "remove", tasks[t].result)
    /\ UNCHANGED <<disk, thumbnail, thumbnails, outside>>

\* Without a thumbnail the task ends with the removal of its segment.
AfterSource(t) == IF tasks[t].result = "shot" THEN "shot" ELSE "ended"

\* Mutant of RemoveSource: only a successful extraction removes the segment.
RemoveSourceIfShot(t) ==
    /\ At(t, "remove")
    /\ exists' = IF tasks[t].result = "shot" THEN exists \ {tasks[t].of} ELSE exists
    /\ SetTask(t, AfterSource(t), tasks[t].result)
    /\ UNCHANGED <<dir, combined, thumbnail, thumbnails, outside>>

\* remove_file(&segment_path)
RemoveSource(t) ==
    /\ At(t, "remove")
    /\ exists' = exists \ {tasks[t].of}
    /\ SetTask(t, AfterSource(t), tasks[t].result)
    /\ UNCHANGED <<dir, combined, thumbnail, thumbnails, outside>>

\* fs::read(&thumb_path), queue_segment.  A read that fails leaves the file.
QueueThumbnail(t) ==
    /\ At(t, "shot")
    /\ \/ /\ thumbnail # None
          /\ thumbnails' = thumbnails \cup
               {[seg |-> tasks[t].seg, shows |-> thumbnail, met |-> tasks[t].met]}
          /\ SetTask(t, "queued", "shot")
       \/ /\ thumbnail # None => MayFail
          /\ SetTask(t, "ended", "lost")
          /\ UNCHANGED thumbnails
    /\ UNCHANGED <<disk, combined, thumbnail, outside>>

\* remove_file(&thumb_path)
RemoveThumbnail(t) ==
    /\ At(t, "queued")
    /\ thumbnail' = None
    /\ SetTask(t, "ended", "delivered")
    /\ UNCHANGED <<disk, combined, thumbnails, outside>>

ThumbnailStep(t) ==
    \/ ReadSources(t)
    \/ WriteCombined(t)
    \/ RunFfmpeg(t)
    \/ RemoveCombined(t)
    \/ RemoveSource(t)
    \/ QueueThumbnail(t)
    \/ RemoveThumbnail(t)

ThumbnailTask == \E t \in DOMAIN tasks : ThumbnailStep(t)

-----------------------------------------------------------------------------
(* The end of the stream.                                                   *)

\* stop_pipeline: handle.abort() takes effect at an await and drops the task's
\* variables and the channel; remove_dir_all removes the files that are there.
\* The thumbnail tasks are not aborted, and ffmpeg still has its stdin.
Stop ==
    /\ pc # "stopped"
    /\ pc' = "stopped"
    /\ events' = <<>>
    /\ dir' = "swept"
    /\ exists' = {}
    /\ combined' = None
    /\ thumbnail' = None
    /\ current' = None
    /\ pending_duration' = None
    /\ UNCHANGED <<queue, tasks, thumbnails, ffmpeg, state>>

\* The last step of remove_dir_all fails when a file was created in between; the
\* error is ignored, and whatever is in the directory stays.
RemoveDirectory ==
    /\ dir = "swept"
    /\ \/ exists = {} /\ combined = None /\ thumbnail = None /\ dir' = "gone"
       \/ ~(exists = {} /\ combined = None /\ thumbnail = None) /\ dir' = "left"
    /\ UNCHANGED <<exists, shots, outside>>

Watcher ==
    \/ Watch
    \/ WatchFails
    \/ Recv
    \/ ReadFails
    \/ ReadPlaylist
    \/ ReadInit
    \/ SkipSegment
    \/ ProcessSegment
    \/ RemoveSegment

Ffmpeg ==
    /\ Len(events) < EventLimit
    /\ List \/ \E f \in Media : Open(f) \/ Write(f)

\* Nothing is left to do after a stop.
Stopped ==
    /\ dir \in {"gone", "left"}
    /\ \A t \in DOMAIN tasks : ~Live(tasks[t])
    /\ UNCHANGED vars

Next ==
    \/ Ffmpeg
    \/ Watcher
    \/ ThumbnailTask
    \/ Stop
    \/ RemoveDirectory
    \/ Stopped

Spec == Init /\ [][Next]_vars

\* tokio polls the watcher, the stop and the thumbnail tasks, and ffmpeg is done
\* with one frame some time.  The ffmpeg of the stream owes nothing.
FairSpec ==
    /\ Spec
    /\ WF_vars(Watcher)
    /\ WF_vars(RemoveDirectory)
    /\ WF_vars(ThumbnailTask)

-----------------------------------------------------------------------------
(* Properties.                                                              *)

Durations == 0..SegmentLimit \cup {None}

Entry == [seg : Segments, duration : Durations]

Jobs == [kind : {"init"}]
          \cup [kind : {"segment"}, seg : Segments]
          \cup [kind : {"playlist"}, window : Seq(Entry), first : Nat]

Results == {"open", "unread", "unwritten", "shot", "lost", "delivered"}

Tasks == [seg : Segments, of : Segments, met : BOOLEAN, result : Results,
          at : {"spawned", "read", "combined", "ran", "remove", "shot", "queued", "ended"}]

\* The shape of the state; the watcher holds a segment while it removes it.
TypeOK ==
    /\ dir \in {"there", "swept", "gone", "left"}
    /\ dir = "there" <=> pc # "stopped"
    /\ exists \subseteq Files
    /\ written \in [Media -> 0..Full]
    /\ produced \in 0..SegmentLimit
    /\ listed \in 0..produced
    /\ events \in Seq(Files)
    /\ pc \in {"spawned", "recv", "read", "remove", "failed", "stopped"}
    /\ pc = "read" => current \in Files
    /\ pc = "remove" => current \in Segments
    /\ pending_duration \in Durations
    /\ segments \in Seq(Entry)
    /\ media_sequence \in Nat
    /\ segment_count \in Nat
    /\ processed \subseteq Segments
    /\ init_uploaded \in BOOLEAN
    /\ missed \subseteq Media
    /\ queue \in Seq(Jobs)
    /\ tasks \in Seq(Tasks)
    /\ {combined, thumbnail} \subseteq Segments \cup {None}
    /\ thumbnails \subseteq [seg : Segments, shows : Segments, met : BOOLEAN]

\* No task spawned after t ran alone and came as far as one of the results.
NoneSince(t, results) ==
    \A u \in t + 1..Len(tasks) : tasks[u].met \/ tasks[u].result \notin results

\* Of the files that the thumbnail tasks of a stream share, whatever the order in
\* which they write, extract, fail and clean up, one outlives them all only as the
\* trace of a failure: combined.mp4 of a write of just this segment that failed,
\* thumbnail.jpg of an extraction that failed or of a picture that could not be
\* read.  It is gone with the next task that runs alone and comes as far.
ScratchHasCause ==
    (\A t \in DOMAIN tasks : ~Live(tasks[t])) =>
        /\ combined # None => \E t \in DOMAIN tasks :
              /\ tasks[t].result = "unwritten" /\ tasks[t].of = combined
              /\ NoneSince(t, {"shot", "lost", "delivered"})
        /\ thumbnail # None => \E t \in DOMAIN tasks :
              tasks[t].result = "lost" /\ NoneSince(t, {"delivered"})

\* The directory holds what the tasks and ffmpeg put there and have not removed.
DirectoryInv == TypeOK /\ ScratchHasCause

\* A thumbnail shows the segment that was chosen for it, unless the extraction of
\* another one of the stream ran at the same time: then either may be shown.
ThumbnailIsOwn == \A x \in thumbnails : x.met \/ x.shows = x.seg

\* The live window is never longer than max_segments, and EXT-X-MEDIA-SEQUENCE
\* counts exactly the segments that have left it, so that the sequence number of
\* a segment does not change from one playlist to the next.
WindowSlides ==
    /\ Len(segments) <= MaxSegments
    /\ media_sequence + Len(segments) = segment_count

\* Whatever a live playlist lists was handed to the uploader before it.
ListedWereQueued ==
    \A n \in 1..Len(queue) : queue[n].kind = "playlist" =>
        \A i \in 1..Len(queue[n].window) :
            \E m \in 1..n - 1 : /\ queue[m].kind = "segment"
                               /\ queue[m].seg = queue[n].window[i].seg

\* The init.mp4 that a live playlist names was handed over before it, once,
\* unless it was there before the watch, or could not be read.
InitBeforePlaylist ==
    /\ \A n \in 1..Len(queue) : queue[n].kind = "playlist" =>
          InitFile \in missed \/ \E m \in 1..n - 1 : queue[m].kind = "init"
    /\ \A n, m \in 1..Len(queue) :
          queue[n].kind = "init" /\ queue[m].kind = "init" => n = m

\* Each live playlist lists its segments in the order in which ffmpeg produced
\* them, none twice, and leaves out only those that were missed: those are the
\* only ones that its numbers do not count, whatever the watcher lags behind.
NumberedAsProduced ==
    \A n \in 1..Len(queue) : queue[n].kind = "playlist" =>
        LET window == queue[n].window
            Before(i) == IF i = 1 THEN 0 ELSE window[i - 1].seg
        IN  /\ \A i \in 2..Len(window) :
                  /\ window[i].seg > Before(i)
                  /\ Before(i) + 1..window[i].seg - 1 \subseteq missed
            /\ \A i \in 1..Len(window) :
                  /\ window[i].seg >= queue[n].first + i
                  /\ window[i].seg - (queue[n].first + i)
                       = Cardinality({s \in missed : s \in Segments /\ s < window[i].seg})

\* processed_segments "prevents duplicate processing": no segment is listed
\* twice by one playlist.
NoDuplicateProcessing ==
    \A i, l \in 1..Len(segments) : segments[i].seg = segments[l].seg => i = l

\* Until the stream is stopped every segment that ffmpeg completes goes to the
\* uploader, unless it was missed ...
EverySegmentQueued ==
    \A s \in Segments :
        Complete(s) ~> Queued(s) \/ s \in missed \/ pc \in {"failed", "stopped"}

\* ... and its file leaves the directory, so that the disk does not fill up.  What
\* stays was missed, or belongs to a watcher that did not start, or was created
\* by ffmpeg while the directory was being removed.
DirectoryDrains ==
    \A s \in Segments :
        s \in exists ~> s \notin exists \/ s \in missed \/ pc = "failed" \/ dir = "left"
=============================================================================

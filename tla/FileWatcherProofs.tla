-------------------------- MODULE FileWatcherProofs --------------------------
(***************************************************************************)
(* Theorems about FileWatcher for any number of segments, any window and   *)
(* any thumbnail configuration, with partial reads and read errors.        *)
(***************************************************************************)
EXTENDS FileWatcher, FiniteSetTheorems, TLAPS

-----------------------------------------------------------------------------
(* LLHlsState and the sequence of jobs.                                     *)

\* The part of the state that the window is made of.
WindowType ==
    /\ segments \in Seq(Entry)
    /\ media_sequence \in Nat
    /\ segment_count \in Nat
    /\ pending_duration \in Durations
    /\ produced \in 0..SegmentLimit
    /\ listed \in 0..SegmentLimit

\* add_segment keeps the window within max_segments, counts what leaves it, and
\* lists nothing but the new segment and what it listed before.
LEMMA AddSegmentSlides ==
    ASSUME WindowType, WindowSlides, NEW s \in Segments,
           NEW d \in Durations, AddSegment(s, d)
    PROVE  /\ segments' \in Seq(Entry)
           /\ media_sequence' \in Nat
           /\ segment_count' \in Nat
           /\ WindowSlides'
           /\ \A i \in 1..Len(segments') :
                 segments'[i].seg # s =>
                     \E k \in 1..Len(segments) : segments[k].seg = segments'[i].seg
<1> DEFINE new    == [seg |-> s, duration |-> d]
           pushed == Append(segments, new)
<1>1. /\ new \in Entry /\ new.seg = s
      /\ segments \in Seq(Entry) /\ Len(segments) \in Nat
      /\ media_sequence \in Nat /\ segment_count \in Nat
      /\ MaxSegments \in Nat \ {0}
      /\ Len(segments) <= MaxSegments
      /\ media_sequence + Len(segments) = segment_count
  BY WatcherAssumption DEF WindowType, WindowSlides, Entry
<1> HIDE DEF new
<1>2. /\ pushed \in Seq(Entry) /\ Len(pushed) = Len(segments) + 1
      /\ pushed[Len(pushed)] = new
      /\ \A i \in 1..Len(segments) : pushed[i] = segments[i]
  BY <1>1
<1>3. segment_count' = segment_count + 1
  BY DEF AddSegment
<1>4. CASE Len(pushed) <= MaxSegments /\ segments' = pushed /\ media_sequence' = media_sequence
  <2>1. WindowSlides'
    BY <1>1, <1>2, <1>3, <1>4 DEF WindowSlides
  <2>2. ASSUME NEW i \in 1..Len(segments'), segments'[i].seg # s
        PROVE  \E k \in 1..Len(segments) : segments[k].seg = segments'[i].seg
    <3>1. i \in 1..Len(segments)
      BY <1>1, <1>2, <1>4, <2>2
    <3> QED  BY <1>2, <1>4, <3>1
  <2> QED  BY <1>1, <1>2, <1>3, <1>4, <2>1, <2>2
<1>5. CASE /\ Len(pushed) > MaxSegments
           /\ segments' = Tail(pushed)
           /\ media_sequence' = media_sequence + 1
  <2> HIDE DEF pushed
  <2>1. /\ segments' \in Seq(Entry) /\ Len(segments') = Len(segments)
        /\ \A i \in 1..Len(segments') : segments'[i] = pushed[i + 1]
    BY <1>1, <1>2, <1>5
  <2>2. WindowSlides'
    BY <1>1, <1>3, <1>5, <2>1 DEF WindowSlides
  <2>3. ASSUME NEW i \in 1..Len(segments'), segments'[i].seg # s
        PROVE  \E k \in 1..Len(segments) : segments[k].seg = segments'[i].seg
    <3>1. i + 1 \in 1..Len(pushed) /\ i + 1 # Len(pushed)
      BY <1>1, <1>2, <2>1, <2>3
    <3>2. i + 1 \in 1..Len(segments)
      BY <1>1, <1>2, <3>1
    <3> QED  BY <1>2, <2>1, <3>2
  <2> QED  BY <1>1, <1>3, <1>5, <2>1, <2>2, <2>3
<1> QED
  BY <1>4, <1>5 DEF AddSegment, new, pushed

-----------------------------------------------------------------------------
(* The window.                                                              *)

WindowInv == WindowType /\ WindowSlides

\* A thumbnail task leaves the watcher and the stream's ffmpeg alone.
LEMMA ThumbnailTaskApart == ThumbnailTask => UNCHANGED outside
BY DEF ThumbnailTask, ThumbnailStep, ReadSources, WriteCombined, RunFfmpeg,
       RemoveCombined, RemoveSource, QueueThumbnail, RemoveThumbnail

\* The window is empty at first.
LEMMA WindowInit == Init => WindowInv
BY WatcherAssumption DEF Init, WindowInv, WindowType, WindowSlides, Durations

\* Only ProcessSegment touches the window, and ffmpeg its counters.
LEMMA WindowStep == WindowInv /\ [Next]_vars => WindowInv'
<1> SUFFICES ASSUME WindowInv, [Next]_vars PROVE WindowInv'
  OBVIOUS
<1>0. WindowType /\ WindowSlides
  BY DEF WindowInv
<1>1. ASSUME ProcessSegment PROVE WindowInv'
  <2>1. AddSegment(current, pending_duration) /\ current \in Segments
    BY <1>1 DEF ProcessSegment
  <2>2. /\ segments' \in Seq(Entry) /\ media_sequence' \in Nat /\ segment_count' \in Nat
        /\ WindowSlides'
    BY <1>0, <2>1, AddSegmentSlides DEF WindowType
  <2>3. pending_duration' = None /\ UNCHANGED <<produced, listed>>
    BY <1>1 DEF ProcessSegment, ffmpeg
  <2> QED  BY <1>0, <2>2, <2>3 DEF WindowInv, WindowType, Durations
<1>2. ASSUME UNCHANGED <<segments, media_sequence, segment_count>>,
             produced' \in 0..SegmentLimit, listed' \in 0..SegmentLimit,
             pending_duration' \in Durations
      PROVE  WindowInv'
  BY <1>0, <1>2 DEF WindowInv, WindowType, WindowSlides
<1>3. ASSUME UNCHANGED <<segments, media_sequence, segment_count, produced, listed,
                         pending_duration>>
      PROVE  WindowInv'
  BY <1>0, <1>2, <1>3 DEF WindowType
<1>4. ASSUME NEW f \in Media, Open(f) PROVE WindowInv'
  <2>1. produced' \in 0..SegmentLimit
    BY <1>0, <1>4, WatcherAssumption DEF Open, WindowType, Media, Segments
  <2> QED  BY <1>0, <1>2, <1>4, <2>1 DEF Open, WindowType, state
<1>5. ASSUME NEW f \in Media, Write(f) PROVE WindowInv'
  BY <1>3, <1>5 DEF Write, state
<1>6. ASSUME List PROVE WindowInv'
  BY <1>0, <1>2, <1>6 DEF List, WindowType, state
<1>7. ASSUME ReadPlaylist PROVE WindowInv'
  BY <1>0, <1>2, <1>7 DEF ReadPlaylist, WindowType, Durations, ffmpeg, state
<1>8. ASSUME \/ Watch \/ WatchFails \/ Recv \/ ReadFails \/ SkipSegment
             \/ RemoveSegment
      PROVE  WindowInv'
  BY <1>3, <1>8 DEF Watch, WatchFails, Recv, ReadFails, SkipSegment, RemoveSegment, ffmpeg,
                    state
<1>9. ASSUME ReadInit PROVE WindowInv'
  BY <1>3, <1>9 DEF ReadInit, ffmpeg
<1>10. ASSUME ThumbnailTask \/ RemoveDirectory PROVE WindowInv'
  <2>1. UNCHANGED outside
    BY <1>10, ThumbnailTaskApart DEF RemoveDirectory
  <2> QED  BY <1>3, <2>1 DEF outside, ffmpeg, state
<1>11. ASSUME Stop PROVE WindowInv'
  BY <1>0, <1>2, <1>11 DEF Stop, WindowType, Durations, ffmpeg, state
<1>12. CASE UNCHANGED vars
  BY <1>3, <1>12 DEF vars, ffmpeg, state
<1> QED
  BY <1>1, <1>4, <1>5, <1>6, <1>7, <1>8, <1>9, <1>10, <1>11, <1>12
  DEF Next, Watcher, Ffmpeg, Stopped

\* The window's invariant is inductive.
LEMMA WindowInductive == Spec => []WindowInv
BY WindowInit, WindowStep, PTL DEF Spec

\* The live window is bounded and EXT-X-MEDIA-SEQUENCE counts exactly what left
\* it, however events, reads, thumbnails and the stop interleave.
THEOREM WindowAlwaysSlides == Spec => []WindowSlides
<1>1. WindowInv => WindowSlides
  BY DEF WindowInv
<1> QED  BY WindowInductive, <1>1, PTL

-----------------------------------------------------------------------------
(* The jobs.                                                                *)

\* q holds the upload of segment s.
Has(q, s) == \E n \in 1..Len(q) : q[n].kind = "segment" /\ q[n].seg = s

\* What a playlist of q lists was uploaded before it in q.
Closed(q) ==
    \A n \in 1..Len(q) : q[n].kind = "playlist" =>
        \A i \in 1..Len(q[n].window) :
            \E m \in 1..n - 1 : q[m].kind = "segment" /\ q[m].seg = q[n].window[i].seg

\* A job that is not a playlist, or whose segments were uploaded, keeps a
\* sequence of jobs closed.
LEMMA AppendKeepsClosed ==
    ASSUME NEW q \in Seq(Jobs), NEW job \in Jobs, Closed(q),
           job.kind = "playlist" =>
               \A i \in 1..Len(job.window) : Has(q, job.window[i].seg)
    PROVE  /\ Append(q, job) \in Seq(Jobs)
           /\ Closed(Append(q, job))
           /\ \A s : Has(q, s) => Has(Append(q, job), s)
           /\ job.kind = "segment" => Has(Append(q, job), job.seg)
<1> DEFINE r == Append(q, job)
<1>1. /\ r \in Seq(Jobs) /\ Len(q) \in Nat /\ Len(r) = Len(q) + 1 /\ r[Len(r)] = job
      /\ \A n \in 1..Len(q) : r[n] = q[n]
  OBVIOUS
<1> HIDE DEF r
<1>2. ASSUME NEW n \in 1..Len(r), r[n].kind = "playlist", NEW i \in 1..Len(r[n].window)
      PROVE  \E m \in 1..n - 1 : r[m].kind = "segment" /\ r[m].seg = r[n].window[i].seg
  <2>1. CASE n = Len(r)
    <3>1. PICK m \in 1..Len(q) : q[m].kind = "segment" /\ q[m].seg = job.window[i].seg
      BY <1>1, <1>2, <2>1 DEF Has
    <3>2. m \in 1..n - 1
      BY <1>1, <2>1, <3>1
    <3> QED  BY <1>1, <2>1, <3>1, <3>2
  <2>2. CASE n # Len(r)
    <3>1. n \in 1..Len(q) /\ r[n] = q[n]
      BY <1>1, <1>2, <2>2
    <3>2. PICK m \in 1..n - 1 : q[m].kind = "segment" /\ q[m].seg = q[n].window[i].seg
      BY <1>2, <3>1 DEF Closed
    <3>3. m \in 1..Len(q)
      BY <1>1, <3>1, <3>2
    <3> QED  BY <1>1, <3>1, <3>2, <3>3
  <2> QED  BY <2>1, <2>2
<1>3. Closed(r)
  BY <1>2 DEF Closed
<1>4. ASSUME NEW s, Has(q, s) PROVE Has(r, s)
  <2>1. PICK n \in 1..Len(q) : q[n].kind = "segment" /\ q[n].seg = s
    BY <1>4 DEF Has
  <2>2. n \in 1..Len(r) /\ r[n] = q[n]
    BY <1>1, <2>1
  <2> QED  BY <2>1, <2>2 DEF Has
<1>5. ASSUME job.kind = "segment" PROVE Has(r, job.seg)
  <2>1. Len(r) \in 1..Len(r)
    BY <1>1
  <2> QED  BY <1>1, <1>5, <2>1 DEF Has
<1> QED  BY <1>1, <1>3, <1>4, <1>5 DEF r

\* The window lists only what was uploaded, and the uploads are closed.
JobsInv ==
    /\ queue \in Seq(Jobs)
    /\ Closed(queue)
    /\ \A i \in 1..Len(segments) : Has(queue, segments[i].seg)

\* Nothing is queued at first.
LEMMA JobsInit == Init => JobsInv
BY DEF Init, JobsInv, Closed

\* A job other than a playlist, and a window that does not change.
LEMMA OneJobKeeps ==
    ASSUME JobsInv, NEW job \in Jobs, job.kind # "playlist",
           queue' = Append(queue, job), segments' = segments
    PROVE  JobsInv'
<1>1. /\ Append(queue, job) \in Seq(Jobs)
      /\ Closed(Append(queue, job))
      /\ \A s : Has(queue, s) => Has(Append(queue, job), s)
  BY AppendKeepsClosed DEF JobsInv
<1> QED  BY <1>1 DEF JobsInv

\* Every step keeps the jobs handed over closed.
LEMMA JobsStep == WindowInv /\ JobsInv /\ [Next]_vars => JobsInv'
<1> SUFFICES ASSUME WindowInv, JobsInv, [Next]_vars PROVE JobsInv'
  OBVIOUS
<1>0. WindowType /\ WindowSlides
  BY DEF WindowInv
<1>1. ASSUME ProcessSegment PROVE JobsInv'
  <2> DEFINE up == SegmentJob(current)
             q1 == Append(queue, up)
             pl == PlaylistJob(segments', media_sequence')
  <2>1. /\ AddSegment(current, pending_duration) /\ current \in Segments
        /\ queue' = queue \o <<up, pl>>
    BY <1>1 DEF ProcessSegment
  <2>2. /\ segments' \in Seq(Entry) /\ media_sequence' \in Nat
        /\ \A i \in 1..Len(segments') :
              segments'[i].seg # current =>
                  \E k \in 1..Len(segments) : segments[k].seg = segments'[i].seg
    BY <1>0, <2>1, AddSegmentSlides DEF WindowType
  <2>3. up \in Jobs /\ up.kind = "segment" /\ up.seg = current
    BY <2>1 DEF SegmentJob, Jobs
  <2>4. pl \in Jobs /\ pl.kind = "playlist" /\ pl.window = segments'
    BY <2>2 DEF PlaylistJob, Jobs
  <2> HIDE DEF up, pl
  <2>5. /\ queue \in Seq(Jobs) /\ Closed(queue)
        /\ \A i \in 1..Len(segments) : Has(queue, segments[i].seg)
    BY DEF JobsInv
  <2>6. /\ q1 \in Seq(Jobs) /\ Closed(q1) /\ Has(q1, current)
        /\ \A s : Has(queue, s) => Has(q1, s)
    BY <2>3, <2>5, AppendKeepsClosed
  <2>7. \A i \in 1..Len(segments') : Has(q1, segments'[i].seg)
    BY <2>2, <2>5, <2>6
  <2> DEFINE q2 == Append(q1, pl)
  <2>8. queue \o <<up, pl>> = q2
    BY <2>3, <2>4, <2>5
  <2> HIDE DEF q1
  <2>9. q2 \in Seq(Jobs) /\ Closed(q2) /\ \A s : Has(q1, s) => Has(q2, s)
    BY <2>4, <2>6, <2>7, AppendKeepsClosed
  <2> HIDE DEF q2
  <2> QED  BY <2>1, <2>7, <2>8, <2>9 DEF JobsInv
<1>2. ASSUME UNCHANGED <<queue, segments>> PROVE JobsInv'
  BY <1>2 DEF JobsInv
<1>3. ASSUME ReadInit PROVE JobsInv'
  <2>1. InitJob \in Jobs /\ InitJob.kind # "playlist"
    BY DEF InitJob, Jobs
  <2> QED  BY <1>2, <1>3, <2>1, OneJobKeeps DEF ReadInit
<1>4. ASSUME ThumbnailTask \/ RemoveDirectory PROVE JobsInv'
  <2>1. UNCHANGED outside
    BY <1>4, ThumbnailTaskApart DEF RemoveDirectory
  <2> QED  BY <1>2, <2>1 DEF outside, state
<1>5. ASSUME NEW f \in Media, Open(f) \/ Write(f) PROVE JobsInv'
  BY <1>2, <1>5 DEF Open, Write, state
<1>6. ASSUME \/ List \/ Watch \/ WatchFails \/ Recv \/ ReadFails \/ ReadPlaylist
             \/ SkipSegment \/ RemoveSegment \/ Stop
      PROVE  JobsInv'
  BY <1>2, <1>6 DEF List, Watch, WatchFails, Recv, ReadFails, ReadPlaylist, SkipSegment,
                    RemoveSegment, Stop, state
<1>7. CASE UNCHANGED vars
  BY <1>2, <1>7 DEF vars, state
<1> QED
  BY <1>1, <1>3, <1>4, <1>5, <1>6, <1>7 DEF Next, Watcher, Ffmpeg, Stopped

\* No live playlist is handed to the uploader before the segments it lists, even
\* when segments are processed twice or not read at all.
THEOREM PlaylistsAreClosed == Spec => []ListedWereQueued
<1>1. Init => WindowInv /\ JobsInv
  BY WindowInit, JobsInit
<1>2. WindowInv /\ JobsInv /\ [Next]_vars => (WindowInv /\ JobsInv)'
  BY WindowStep, JobsStep
<1>3. WindowInv /\ JobsInv => ListedWereQueued
  BY DEF JobsInv, Closed, ListedWereQueued
<1> QED  BY <1>1, <1>2, <1>3, PTL DEF Spec

-----------------------------------------------------------------------------
(* Types.                                                                   *)

\* What WindowInv and JobsInv do not say of the state.
FileType ==
    /\ dir \in {"there", "swept", "gone", "left"}
    /\ dir = "there" <=> pc # "stopped"
    /\ exists \subseteq Files
    /\ written \in [Media -> 0..Full]
    /\ produced \in 0..SegmentLimit
    /\ listed \in 0..produced
    /\ events \in Seq(Files)
    /\ pc \in {"spawned", "recv", "read", "remove", "failed", "stopped"}
    /\ pc = "read" => current \in Files
    /\ pc = "remove" => current \in Segments
    /\ processed \subseteq Segments
    /\ init_uploaded \in BOOLEAN
    /\ missed \subseteq Media

ShotType ==
    /\ tasks \in Seq(Tasks)
    /\ {combined, thumbnail} \subseteq Segments \cup {None}
    /\ thumbnails \subseteq [seg : Segments, shows : Segments, met : BOOLEAN]

\* The first state.
LEMMA FileInit == Init => FileType /\ ShotType
BY WatcherAssumption
DEF Init, FileType, ShotType, Files, Media, Segments, Full

\* Media are files, and init.mp4 is no segment.
LEMMA FilesApart ==
    /\ Media \subseteq Files /\ Segments \subseteq Media
    /\ InitFile \in Media /\ Playlist \in Files
    /\ InitFile \notin Segments /\ Playlist \notin Segments
    /\ None \notin Segments
BY WatcherAssumption DEF Files, Media, Segments

\* The events of a file that was opened, written or listed.
LEMMA NotifyType ==
    ASSUME events \in Seq(Files), NEW names \in Seq(Files), Notify(names)
    PROVE  events' \in Seq(Files)
BY DEF Notify

\* The steps of ffmpeg.
LEMMA FfmpegType == FileType /\ Ffmpeg => FileType'
<1> SUFFICES ASSUME FileType, Ffmpeg PROVE FileType'
  OBVIOUS
<1>1. ASSUME NEW f \in Media, Open(f) PROVE FileType'
  <2>1. <<f, f>> \in Seq(Files) /\ <<f>> \in Seq(Files)
    BY FilesApart
  <2>2. events' \in Seq(Files)
    BY <1>1, <2>1, NotifyType DEF FileType, Open
  <2>3. produced' \in 0..SegmentLimit /\ listed' \in 0..produced'
    BY <1>1, FilesApart, WatcherAssumption DEF FileType, Open, CanOpen, Media, Segments
  <2>4. written' \in [Media -> 0..Full]
    BY <1>1 DEF FileType, Open, Full
  <2> QED  BY <1>1, <2>2, <2>3, <2>4, FilesApart DEF FileType, Open, state
<1>2. ASSUME NEW f \in Media, Write(f) PROVE FileType'
  <2>1. (IF f \in exists THEN <<f>> ELSE <<>>) \in Seq(Files)
    BY FilesApart
  <2>2. events' \in Seq(Files)
    BY <1>2, <2>1, NotifyType DEF FileType, Write
  <2>3. written' \in [Media -> 0..Full]
    BY <1>2 DEF FileType, Write, Full
  <2> QED  BY <1>2, <2>2, <2>3 DEF FileType, Write, state, disk
<1>3. ASSUME List PROVE FileType'
  <2>1. <<Playlist, Playlist>> \in Seq(Files)
    BY FilesApart
  <2>2. events' \in Seq(Files)
    BY <1>3, <2>1, NotifyType DEF FileType, List
  <2>3. produced' \in 0..SegmentLimit /\ listed' \in 0..produced'
    BY <1>3 DEF FileType, List
  <2> QED  BY <1>3, <2>2, <2>3, FilesApart DEF FileType, List, state
<1> QED  BY <1>1, <1>2, <1>3 DEF Ffmpeg

\* The steps of the watcher.
LEMMA WatcherType == FileType /\ Watcher => FileType'
<1> SUFFICES ASSUME FileType, Watcher PROVE FileType'
  OBVIOUS
<1>1. ASSUME Watch \/ WatchFails \/ SkipSegment PROVE FileType'
  BY <1>1, FilesApart DEF FileType, Watch, WatchFails, SkipSegment, disk, ffmpeg, state
<1>2. ASSUME Recv PROVE FileType'
  <2>1. Head(events) \in Files /\ Tail(events) \in Seq(Files)
    BY <1>2 DEF FileType, Recv
  <2> QED  BY <1>2, <2>1 DEF FileType, Recv, disk, ffmpeg, state
<1>3. ASSUME ReadFails PROVE FileType'
  BY <1>3 DEF FileType, ReadFails, disk, ffmpeg
<1>4. ASSUME ReadPlaylist PROVE FileType'
  BY <1>4 DEF FileType, ReadPlaylist, disk, ffmpeg, state
<1>5. ASSUME ReadInit PROVE FileType'
  BY <1>5 DEF FileType, ReadInit, disk, ffmpeg
<1>6. ASSUME ProcessSegment PROVE FileType'
  <2>1. processed' \subseteq Segments /\ missed' \subseteq Media
    BY <1>6, FilesApart DEF FileType, ProcessSegment, MarkProcessed
  <2>2. current \in Segments /\ pc' \in {"recv", "remove"} /\ pc # "stopped"
    BY <1>6 DEF ProcessSegment
  <2>3. UNCHANGED <<dir, exists, events, current, written, produced, listed, init_uploaded>>
    BY <1>6 DEF ProcessSegment, disk, ffmpeg
  <2> QED  BY <2>1, <2>2, <2>3 DEF FileType
<1>7. ASSUME RemoveSegment PROVE FileType'
  BY <1>7 DEF FileType, RemoveSegment, ffmpeg, state
<1> QED  BY <1>1, <1>2, <1>3, <1>4, <1>5, <1>6, <1>7 DEF Watcher

\* The other steps change the directory only by taking files out of it.
LEMMA OtherType ==
    FileType /\ (ThumbnailTask \/ Stop \/ RemoveDirectory \/ UNCHANGED vars) => FileType'
<1> SUFFICES ASSUME FileType, ThumbnailTask \/ Stop \/ RemoveDirectory \/ UNCHANGED vars
             PROVE  FileType'
  OBVIOUS
<1>1. ASSUME NEW t \in DOMAIN tasks, ThumbnailStep(t) PROVE FileType'
  <2>1. UNCHANGED outside
    BY <1>1, ThumbnailTaskApart DEF ThumbnailTask
  <2>2. dir' = dir /\ exists' \subseteq exists
    BY <1>1 DEF ThumbnailStep, ReadSources, WriteCombined, RunFfmpeg, RemoveCombined,
                RemoveSource, QueueThumbnail, RemoveThumbnail, disk
  <2> QED  BY <2>1, <2>2 DEF FileType, outside, ffmpeg, state
<1>2. ASSUME Stop PROVE FileType'
  BY <1>2 DEF FileType, Stop, ffmpeg, state
<1>3. ASSUME RemoveDirectory PROVE FileType'
  BY <1>3 DEF FileType, RemoveDirectory, outside, ffmpeg, state
<1>4. CASE UNCHANGED vars
  BY <1>4 DEF FileType, vars, disk, ffmpeg, state
<1> QED  BY <1>1, <1>2, <1>3, <1>4 DEF ThumbnailTask

-----------------------------------------------------------------------------
(* The tasks.                                                               *)

Tagged(t, labels) == tasks[t].at \in labels

\* The task has written thumbnail.jpg, and will read it.
OwesThumbnail(t) ==
    Tagged(t, {"ran", "remove", "shot", "queued"}) /\ tasks[t].result = "shot"

Extracted == {"shot", "lost", "delivered"}

\* What a failed write, extraction or reading has left, and no later task removed.
PartLeft ==
    \E t \in DOMAIN tasks : /\ tasks[t].result = "unwritten" /\ tasks[t].of = combined
                           /\ NoneSince(t, Extracted)

PictureLeft ==
    \E t \in DOMAIN tasks : tasks[t].result = "lost" /\ NoneSince(t, {"delivered"})

\* Each shared file belongs to a task that is going to remove it, or was left.
ScratchOwned ==
    /\ combined # None => PartLeft \/ \E t \in DOMAIN tasks : Tagged(t, {"combined", "ran"})
    /\ thumbnail # None => PictureLeft \/ \E t \in DOMAIN tasks : OwesThumbnail(t)

\* The result of a task that is under way.
ResultOf(label, result) ==
    /\ label \in {"spawned", "read", "combined"} => result = "open"
    /\ label \in {"shot", "queued"} => result = "shot"
    /\ label = "ran" => result \in {"shot", "lost"}
    /\ label = "remove" => result # "delivered"

ResultsFit == \A t \in DOMAIN tasks : ResultOf(tasks[t].at, tasks[t].result)

\* Whoever was spawned while a task lived has met it.
MetSince ==
    \A t, u \in DOMAIN tasks : t < u /\ Live(tasks[t]) => tasks[u].met

\* Tasks that are live together have met.
LiveHaveMet ==
    \A t, u \in DOMAIN tasks :
        t # u /\ Live(tasks[t]) /\ Live(tasks[u]) => tasks[t].met /\ tasks[u].met

\* A task that met no other one finds its own segment in the shared files.
OwnFiles ==
    \A t \in DOMAIN tasks :
        /\ tasks[t].of = tasks[t].seg
        /\ ~tasks[t].met =>
              /\ Tagged(t, {"combined"}) => combined \in {tasks[t].seg, None}
              /\ Tagged(t, {"ran", "remove", "shot"}) /\ tasks[t].result = "shot"
                    => thumbnail \in {tasks[t].seg, None}

TaskInv ==
    /\ ShotType /\ ScratchOwned /\ ResultsFit /\ MetSince /\ LiveHaveMet /\ OwnFiles
    /\ ThumbnailIsOwn

\* There is no task at first.
LEMMA TaskInit == Init => TaskInv
BY WatcherAssumption
DEF Init, TaskInv, ShotType, ScratchOwned, ResultsFit, MetSince, LiveHaveMet, OwnFiles,
    ThumbnailIsOwn

\* What a step of task t leaves in tasks.
LEMMA SetTaskTasks ==
    ASSUME tasks \in Seq(Tasks), NEW t \in DOMAIN tasks, NEW label, NEW result \in Results,
           label \in {"spawned", "read", "combined", "ran", "remove", "shot", "queued",
                      "ended"},
           SetTask(t, label, result)
    PROVE  /\ tasks' \in Seq(Tasks) /\ Len(tasks') = Len(tasks)
           /\ DOMAIN tasks' = DOMAIN tasks
           /\ tasks'[t].at = label /\ tasks'[t].result = result
           /\ tasks'[t].seg = tasks[t].seg /\ tasks'[t].of = tasks[t].of
           /\ tasks'[t].met = tasks[t].met
           /\ \A u \in DOMAIN tasks \ {t} : tasks'[u] = tasks[u]
<1> DEFINE new == [tasks[t] EXCEPT !.at = label, !.result = result]
<1>1. t \in 1..Len(tasks) /\ tasks[t] \in Tasks
  OBVIOUS
<1>2. /\ new \in Tasks /\ new.at = label /\ new.result = result
      /\ new.seg = tasks[t].seg /\ new.of = tasks[t].of /\ new.met = tasks[t].met
  BY <1>1 DEF Tasks
<1>3. tasks' = [tasks EXCEPT ![t] = new]
  BY DEF SetTask
<1> HIDE DEF new
<1> QED  BY <1>1, <1>2, <1>3

\* A new task, with those that live marked as met.
LEMMA SpawnKeeps ==
    ASSUME TaskInv, NEW s \in Segments, SpawnThumbnail(s),
           UNCHANGED <<combined, thumbnail, thumbnails>>
    PROVE  TaskInv'
<1> DEFINE n   == Len(tasks)
           new == NewTask(s, s)
<1>1. tasks' = Append(OldTasks, new)
  BY DEF SpawnThumbnail
<1>2. n \in Nat /\ DOMAIN tasks = 1..n /\ tasks \in Seq(Tasks)
  BY DEF TaskInv, ShotType
<1>3. (\E t \in DOMAIN tasks : Live(tasks[t])) \in BOOLEAN
  BY DEF Live
<1>4. /\ new \in Tasks /\ new.seg = s /\ new.of = s /\ new.at = "spawned"
      /\ new.result = "open"
      /\ new.met = \E t \in DOMAIN tasks : Live(tasks[t])
  BY <1>3 DEF Tasks, Results, NewTask
<1>5. \A t \in 1..n : tasks[t] \in Tasks /\ [tasks[t] EXCEPT !.met = TRUE] \in Tasks
  <2>1. \A t \in 1..n : tasks[t] \in Tasks
    BY <1>2
  <2>2. ASSUME NEW x \in Tasks PROVE [x EXCEPT !.met = TRUE] \in Tasks
    BY DEF Tasks
  <2> QED  BY <2>1, <2>2
<1>6. \A t \in 1..n : /\ OldTasks[t] \in Tasks
                      /\ Live(tasks[t]) => OldTasks[t].met
                      /\ tasks[t].met => OldTasks[t].met
                      /\ OldTasks[t].seg = tasks[t].seg /\ OldTasks[t].of = tasks[t].of
                      /\ OldTasks[t].at = tasks[t].at /\ OldTasks[t].result = tasks[t].result
  BY <1>2, <1>5 DEF Tasks, OldTasks
<1>7. OldTasks \in Seq(Tasks) /\ Len(OldTasks) = n
  <2>1. OldTasks \in [1..n -> Tasks]
    BY <1>2, <1>6 DEF OldTasks
  <2> QED  BY <1>2, <2>1
<1> HIDE DEF new
<1>9. /\ tasks' \in Seq(Tasks) /\ DOMAIN tasks' = 1..n + 1 /\ tasks'[n + 1] = new
      /\ \A t \in 1..n : tasks'[t] = OldTasks[t]
  BY <1>1, <1>2, <1>4, <1>7
<1>10. ShotType'
  BY <1>9 DEF TaskInv, ShotType
<1>11. ScratchOwned'
  <2>1. \A t \in 1..n : t \in DOMAIN tasks'
    BY <1>2, <1>9
  <2>2. Len(tasks') = n + 1
    BY <1>2, <1>9
  <2>3. ASSUME NEW t \in DOMAIN tasks, NEW results, "open" \notin results,
               NoneSince(t, results)
        PROVE  NoneSince(t, results)'
    <3> SUFFICES ASSUME NEW u \in t + 1..n + 1
                 PROVE  tasks'[u].met \/ tasks'[u].result \notin results
      BY <2>2 DEF NoneSince
    <3>1. CASE u = n + 1
      BY <1>4, <1>9, <2>3, <3>1
    <3>2. CASE u # n + 1
      <4>1. u \in t + 1..Len(tasks) /\ u \in 1..n
        BY <1>2, <3>2
      <4> QED  BY <1>6, <1>9, <2>3, <4>1 DEF NoneSince
    <3> QED  BY <3>1, <3>2
  <2>4. PartLeft => PartLeft'
    <3> SUFFICES ASSUME NEW t \in DOMAIN tasks, tasks[t].result = "unwritten",
                        tasks[t].of = combined, NoneSince(t, Extracted)
                 PROVE  PartLeft'
      BY DEF PartLeft
    <3>1. NoneSince(t, Extracted)'
      BY <2>3 DEF Extracted
    <3>2. /\ tasks'[t].result = "unwritten" /\ tasks'[t].of = combined'
          /\ t \in DOMAIN tasks'
      BY <1>2, <1>6, <1>9, <2>1
    <3> QED  BY <3>1, <3>2 DEF PartLeft, Extracted
  <2>5. PictureLeft => PictureLeft'
    <3> SUFFICES ASSUME NEW t \in DOMAIN tasks, tasks[t].result = "lost",
                        NoneSince(t, {"delivered"})
                 PROVE  PictureLeft'
      BY DEF PictureLeft
    <3>1. NoneSince(t, {"delivered"})'
      BY <2>3
    <3>2. tasks'[t].result = "lost" /\ t \in DOMAIN tasks'
      BY <1>2, <1>6, <1>9, <2>1
    <3> QED  BY <3>1, <3>2 DEF PictureLeft
  <2>6. \A t \in DOMAIN tasks : /\ t \in DOMAIN tasks'
                                /\ tasks'[t].at = tasks[t].at
                                /\ tasks'[t].result = tasks[t].result
    BY <1>2, <1>6, <1>9, <2>1
  <2> QED  BY <2>4, <2>5, <2>6 DEF TaskInv, ScratchOwned, Tagged, OwesThumbnail
<1>15. ResultsFit'
  <2> SUFFICES ASSUME NEW t \in DOMAIN tasks'
               PROVE  ResultOf(tasks'[t].at, tasks'[t].result)
    BY DEF ResultsFit, ResultOf
  <2>1. CASE t \in 1..n
    <3>1. ResultOf(tasks[t].at, tasks[t].result)
      BY <1>2, <2>1 DEF TaskInv, ResultsFit
    <3> QED  BY <1>6, <1>9, <2>1, <3>1
  <2>2. CASE t = n + 1
    BY <1>4, <1>9, <2>2 DEF ResultOf
  <2> QED  BY <1>9, <1>2, <2>1, <2>2
<1>16. MetSince'
  <2> SUFFICES ASSUME NEW t \in DOMAIN tasks', NEW u \in DOMAIN tasks', t < u,
                      Live(tasks'[t])
               PROVE  tasks'[u].met
    BY DEF MetSince, Live
  <2>1. t \in 1..n /\ Live(tasks[t])
    BY <1>2, <1>6, <1>9 DEF Live
  <2>2. CASE u \in 1..n
    BY <1>2, <1>6, <1>9, <2>1, <2>2 DEF TaskInv, MetSince
  <2>3. CASE u = n + 1
    BY <1>2, <1>4, <1>9, <2>1, <2>3
  <2> QED  BY <1>2, <1>9, <2>2, <2>3
<1>12. LiveHaveMet'
  <2> SUFFICES ASSUME NEW t \in DOMAIN tasks', NEW u \in DOMAIN tasks', t # u,
                      Live(tasks'[t]), Live(tasks'[u])
               PROVE  tasks'[t].met
    BY DEF LiveHaveMet
  <2>1. CASE t \in 1..n
    BY <1>6, <1>9, <2>1 DEF Live
  <2>2. CASE t = n + 1
    <3>1. u \in 1..n /\ Live(tasks[u])
      BY <1>2, <1>6, <1>9, <2>2 DEF Live
    <3> QED  BY <1>2, <1>4, <1>9, <2>2, <3>1
  <2> QED  BY <1>2, <1>9, <2>1, <2>2
<1>13. OwnFiles'
  <2> SUFFICES ASSUME NEW t \in DOMAIN tasks'
               PROVE  /\ tasks'[t].of = tasks'[t].seg
                      /\ ~tasks'[t].met =>
                           /\ tasks'[t].at = "combined" => combined \in {tasks'[t].seg, None}
                           /\ tasks'[t].at \in {"ran", "remove", "shot"}
                                  /\ tasks'[t].result = "shot"
                                => thumbnail \in {tasks'[t].seg, None}
    BY DEF OwnFiles, Tagged
  <2>1. CASE t \in 1..n
    <3>1. /\ tasks'[t].of = tasks[t].of /\ tasks'[t].seg = tasks[t].seg
          /\ tasks'[t].at = tasks[t].at /\ tasks'[t].result = tasks[t].result
          /\ tasks[t].met => tasks'[t].met
          /\ t \in DOMAIN tasks
      BY <1>2, <1>6, <1>9, <2>1
    <3> QED  BY <3>1 DEF TaskInv, OwnFiles, Tagged
  <2>2. CASE t = n + 1
    BY <1>4, <1>9, <2>2
  <2> QED  BY <1>2, <1>9, <2>1, <2>2
<1>14. ThumbnailIsOwn'
  BY DEF TaskInv, ThumbnailIsOwn
<1> QED  BY <1>10, <1>11, <1>12, <1>13, <1>14, <1>15, <1>16 DEF TaskInv

Labels == {"spawned", "read", "combined", "ran", "remove", "shot", "queued", "ended"}

\* A step of a live task that leaves each shared file with a task that owes its
\* removal, or as the trace of a failure, and a task that met no other one with
\* its own files.
LEMMA StepKeeps ==
    ASSUME TaskInv, NEW t \in DOMAIN tasks, Live(tasks[t]),
           NEW label \in Labels, NEW result \in Results, SetTask(t, label, result),
           {combined', thumbnail'} \subseteq Segments \cup {None},
           thumbnails' \subseteq [seg : Segments, shows : Segments, met : BOOLEAN],
           ThumbnailIsOwn',
           ResultOf(label, result),
           tasks[t].result \in {"open", "shot"} \/ result = tasks[t].result,
           \/ combined' = None
           \/ label \in {"combined", "ran"}
           \/ result = "unwritten" /\ combined' = tasks[t].of
           \/ /\ combined' = combined /\ ~Tagged(t, {"combined", "ran"})
              /\ result \in Extracted => tasks[t].result \in Extracted,
           \/ thumbnail' = None
           \/ label \in {"ran", "remove", "shot", "queued"} /\ result = "shot"
           \/ result = "lost"
           \/ thumbnail' = thumbnail /\ ~OwesThumbnail(t) /\ result # "delivered",
           ~tasks[t].met =>
              /\ label = "combined" => combined' \in {tasks[t].seg, None}
              /\ label \in {"ran", "remove", "shot"} /\ result = "shot"
                    => thumbnail' \in {tasks[t].seg, None}
    PROVE  TaskInv'
<1>1. /\ tasks' \in Seq(Tasks) /\ Len(tasks') = Len(tasks)
      /\ DOMAIN tasks' = DOMAIN tasks
      /\ tasks'[t].at = label /\ tasks'[t].result = result
      /\ tasks'[t].seg = tasks[t].seg /\ tasks'[t].of = tasks[t].of
      /\ tasks'[t].met = tasks[t].met
      /\ \A u \in DOMAIN tasks \ {t} : tasks'[u] = tasks[u]
  BY SetTaskTasks DEF TaskInv, ShotType, Labels
<1>0. DOMAIN tasks = 1..Len(tasks) /\ Len(tasks) \in Nat
  BY DEF TaskInv, ShotType
<1>2. ShotType'
  BY <1>1 DEF ShotType
<1>6. ASSUME NEW w \in DOMAIN tasks, NEW results, NoneSince(w, results),
             result \in results => tasks[t].result \in results
      PROVE  NoneSince(w, results)'
  <2> SUFFICES ASSUME NEW u \in w + 1..Len(tasks)
               PROVE  tasks'[u].met \/ tasks'[u].result \notin results
    BY <1>1 DEF NoneSince
  <2>1. tasks[u].met \/ tasks[u].result \notin results
    BY <1>6 DEF NoneSince
  <2>2. u \in DOMAIN tasks
    BY <1>0
  <2> QED  BY <1>1, <1>6, <2>1, <2>2
<1>7. ASSUME NEW results PROVE NoneSince(t, results)'
  <2> SUFFICES ASSUME NEW u \in t + 1..Len(tasks) PROVE tasks'[u].met
    BY <1>1 DEF NoneSince
  <2>1. u \in DOMAIN tasks /\ t < u
    BY <1>0
  <2> QED  BY <1>1, <2>1 DEF TaskInv, MetSince
<1>3. ScratchOwned'
  <2>1. ASSUME combined' # None
        PROVE  PartLeft' \/ \E u \in DOMAIN tasks' : tasks'[u].at \in {"combined", "ran"}
    <3>1. CASE label \in {"combined", "ran"}
      BY <1>1, <3>1
    <3>2. CASE result = "unwritten" /\ combined' = tasks[t].of
      BY <1>1, <1>7, <3>2 DEF PartLeft, Extracted
    <3>3. CASE /\ combined' = combined /\ ~Tagged(t, {"combined", "ran"})
               /\ result \in Extracted => tasks[t].result \in Extracted
      <4>1. CASE PartLeft
        <5>1. PICK w \in DOMAIN tasks : /\ tasks[w].result = "unwritten"
                                        /\ tasks[w].of = combined
                                        /\ NoneSince(w, Extracted)
          BY <4>1 DEF PartLeft
        <5>2. NoneSince(w, Extracted)'
          BY <1>6, <3>3, <5>1 DEF Extracted
        <5>3. tasks'[w].result = "unwritten" /\ tasks'[w].of = combined'
          BY <1>1, <3>3, <5>1
        <5> QED  BY <1>1, <5>2, <5>3 DEF PartLeft, Extracted
      <4>2. ASSUME NEW u \in DOMAIN tasks, Tagged(u, {"combined", "ran"})
            PROVE  \E x \in DOMAIN tasks' : tasks'[x].at \in {"combined", "ran"}
        BY <1>1, <3>3, <4>2 DEF Tagged
      <4> QED  BY <2>1, <3>3, <4>1, <4>2 DEF TaskInv, ScratchOwned
    <3> QED  BY <2>1, <3>1, <3>2, <3>3
  <2>2. ASSUME thumbnail' # None
        PROVE  PictureLeft' \/ \E u \in DOMAIN tasks' :
                  /\ tasks'[u].at \in {"ran", "remove", "shot", "queued"}
                  /\ tasks'[u].result = "shot"
    <3>1. CASE label \in {"ran", "remove", "shot", "queued"} /\ result = "shot"
      BY <1>1, <3>1
    <3>2. CASE result = "lost"
      BY <1>1, <1>7, <3>2 DEF PictureLeft
    <3>3. CASE thumbnail' = thumbnail /\ ~OwesThumbnail(t) /\ result # "delivered"
      <4>1. CASE PictureLeft
        <5>1. PICK w \in DOMAIN tasks :
                 tasks[w].result = "lost" /\ NoneSince(w, {"delivered"})
          BY <4>1 DEF PictureLeft
        <5>2. NoneSince(w, {"delivered"})'
          BY <1>6, <3>3, <5>1
        <5>3. tasks'[w].result = "lost"
          BY <1>1, <5>1
        <5> QED  BY <1>1, <5>2, <5>3 DEF PictureLeft
      <4>2. ASSUME NEW u \in DOMAIN tasks, OwesThumbnail(u)
            PROVE  \E x \in DOMAIN tasks' :
                      /\ tasks'[x].at \in {"ran", "remove", "shot", "queued"}
                      /\ tasks'[x].result = "shot"
        BY <1>1, <3>3, <4>2 DEF OwesThumbnail, Tagged
      <4> QED  BY <2>2, <3>3, <4>1, <4>2 DEF TaskInv, ScratchOwned
    <3> QED  BY <2>2, <3>1, <3>2, <3>3
  <2> QED  BY <2>1, <2>2 DEF ScratchOwned, OwesThumbnail, Tagged
<1>4. LiveHaveMet'
  BY <1>1 DEF TaskInv, LiveHaveMet, Live
<1>8. MetSince'
  BY <1>1 DEF TaskInv, MetSince, Live
<1>9. ResultsFit'
  <2> SUFFICES ASSUME NEW u \in DOMAIN tasks
               PROVE  ResultOf(tasks'[u].at, tasks'[u].result)
    BY <1>1 DEF ResultsFit, ResultOf
  <2> QED  BY <1>1 DEF TaskInv, ResultsFit
<1>5. OwnFiles'
  <2> SUFFICES ASSUME NEW u \in DOMAIN tasks'
               PROVE  /\ tasks'[u].of = tasks'[u].seg
                      /\ ~tasks'[u].met =>
                           /\ tasks'[u].at = "combined" => combined' \in {tasks'[u].seg, None}
                           /\ tasks'[u].at \in {"ran", "remove", "shot"}
                                  /\ tasks'[u].result = "shot"
                                => thumbnail' \in {tasks'[u].seg, None}
    BY DEF OwnFiles, Tagged
  <2>1. CASE u = t
    BY <1>1, <2>1 DEF TaskInv, OwnFiles
  <2>2. CASE u # t
    <3>1. tasks'[u] = tasks[u] /\ u \in DOMAIN tasks
      BY <1>1, <2>2
    <3>2. ~tasks[u].met => tasks[u].at = "ended"
      BY <2>2, <3>1 DEF TaskInv, LiveHaveMet, Live
    <3> QED  BY <3>1, <3>2 DEF TaskInv, OwnFiles
  <2> QED  BY <2>1, <2>2
<1> QED  BY <1>2, <1>3, <1>4, <1>5, <1>8, <1>9 DEF TaskInv

\* Each step of a task.
LEMMA ThumbnailTaskKeeps == TaskInv /\ ThumbnailTask => TaskInv'
<1> SUFFICES ASSUME TaskInv, NEW t \in DOMAIN tasks, ThumbnailStep(t) PROVE TaskInv'
  BY DEF ThumbnailTask
<1>0. /\ tasks[t] \in Tasks /\ tasks[t].seg \in Segments /\ tasks[t].of = tasks[t].seg
      /\ tasks[t].met \in BOOLEAN /\ tasks[t].result \in Results
      /\ ResultOf(tasks[t].at, tasks[t].result)
      /\ {combined, thumbnail} \subseteq Segments \cup {None}
      /\ thumbnails \subseteq [seg : Segments, shows : Segments, met : BOOLEAN]
      /\ ThumbnailIsOwn
      /\ ~tasks[t].met =>
            /\ tasks[t].at = "combined" => combined \in {tasks[t].seg, None}
            /\ tasks[t].at \in {"ran", "remove", "shot"} /\ tasks[t].result = "shot"
                  => thumbnail \in {tasks[t].seg, None}
  <2>1. tasks[t] \in Tasks
    BY DEF TaskInv, ShotType
  <2> QED  BY <2>1 DEF TaskInv, ShotType, OwnFiles, Tagged, Tasks, ResultsFit
<1> USE DEF Labels, Results, Extracted
<1>1. ASSUME ReadSources(t) PROVE TaskInv'
  <2>1. tasks[t].at = "spawned" /\ UNCHANGED <<combined, thumbnail, thumbnails>>
    BY <1>1 DEF ReadSources, At
  <2>3. /\ ThumbnailIsOwn' /\ ~OwesThumbnail(t) /\ ~Tagged(t, {"combined", "ran"})
        /\ tasks[t].result = "open" /\ Live(tasks[t])
    BY <1>0, <2>1 DEF ThumbnailIsOwn, OwesThumbnail, Tagged, ResultOf, Live
  <2>4. CASE SetTask(t, "read", "open")
    BY <1>0, <2>1, <2>3, <2>4, StepKeeps DEF ResultOf
  <2>5. CASE SetTask(t, "remove", "unread")
    BY <1>0, <2>1, <2>3, <2>5, StepKeeps DEF ResultOf
  <2> QED  BY <1>1, <2>4, <2>5 DEF ReadSources
<1>2. ASSUME WriteCombined(t) PROVE TaskInv'
  <2>1. tasks[t].at = "read" /\ UNCHANGED <<thumbnail, thumbnails>>
    BY <1>2 DEF WriteCombined, At
  <2>2. /\ ThumbnailIsOwn' /\ ~OwesThumbnail(t) /\ ~Tagged(t, {"combined", "ran"})
        /\ tasks[t].result = "open" /\ Live(tasks[t])
    BY <1>0, <2>1 DEF ThumbnailIsOwn, OwesThumbnail, Tagged, ResultOf, Live
  <2>3. CASE combined' = tasks[t].of /\ SetTask(t, "combined", "open")
    BY <1>0, <2>1, <2>2, <2>3, StepKeeps DEF ResultOf
  <2>4. CASE combined' = combined /\ SetTask(t, "remove", "unwritten")
    BY <1>0, <2>1, <2>2, <2>4, StepKeeps DEF ResultOf
  <2>5. CASE combined' = tasks[t].of /\ SetTask(t, "remove", "unwritten")
    BY <1>0, <2>1, <2>2, <2>5, StepKeeps DEF ResultOf
  <2> QED  BY <1>2, <2>3, <2>4, <2>5 DEF WriteCombined
<1>3. ASSUME RunFfmpeg(t) PROVE TaskInv'
  <2>1. tasks[t].at = "combined" /\ UNCHANGED <<combined, thumbnails>>
    BY <1>3 DEF RunFfmpeg, At
  <2>2. /\ ThumbnailIsOwn' /\ ~OwesThumbnail(t) /\ tasks[t].result = "open"
        /\ Live(tasks[t])
    BY <1>0, <2>1 DEF ThumbnailIsOwn, OwesThumbnail, Tagged, ResultOf, Live
  <2>3. CASE combined # None /\ thumbnail' = combined /\ SetTask(t, "ran", "shot")
    BY <1>0, <2>1, <2>2, <2>3, StepKeeps DEF ResultOf
  <2>4. CASE thumbnail' \in {thumbnail, combined} /\ SetTask(t, "ran", "lost")
    BY <1>0, <2>1, <2>2, <2>4, StepKeeps DEF ResultOf
  <2> QED  BY <1>3, <2>3, <2>4 DEF RunFfmpeg
<1>4. ASSUME RemoveCombined(t) PROVE TaskInv'
  <2>1. /\ tasks[t].at = "ran" /\ combined' = None /\ UNCHANGED <<thumbnail, thumbnails>>
        /\ SetTask(t, "remove", tasks[t].result)
    BY <1>4 DEF RemoveCombined, At
  <2>2. /\ ThumbnailIsOwn' /\ (OwesThumbnail(t) <=> tasks[t].result = "shot")
        /\ tasks[t].result \in {"shot", "lost"} /\ Live(tasks[t])
    BY <1>0, <2>1 DEF ThumbnailIsOwn, OwesThumbnail, Tagged, ResultOf, Live
  <2>3. ResultOf("remove", tasks[t].result)
    BY <2>2 DEF ResultOf
  <2> QED  BY <1>0, <2>1, <2>2, <2>3, StepKeeps
<1>5. ASSUME RemoveSource(t) PROVE TaskInv'
  <2>1. /\ tasks[t].at = "remove" /\ UNCHANGED <<combined, thumbnail, thumbnails>>
        /\ SetTask(t, AfterSource(t), tasks[t].result)
    BY <1>5 DEF RemoveSource, At
  <2>2. /\ ThumbnailIsOwn' /\ (OwesThumbnail(t) <=> tasks[t].result = "shot")
        /\ ~Tagged(t, {"combined", "ran"}) /\ Live(tasks[t])
    BY <1>0, <2>1 DEF ThumbnailIsOwn, OwesThumbnail, Tagged, Live
  <2>3. CASE tasks[t].result = "shot"
    <3>1. SetTask(t, "shot", tasks[t].result) /\ ResultOf("shot", tasks[t].result)
      BY <2>1, <2>3 DEF AfterSource, ResultOf
    <3> QED  BY <1>0, <2>1, <2>2, <2>3, <3>1, StepKeeps
  <2>5. CASE tasks[t].result # "shot"
    <3>1. SetTask(t, "ended", tasks[t].result) /\ ResultOf("ended", tasks[t].result)
      BY <2>1, <2>5 DEF AfterSource, ResultOf
    <3>2. tasks[t].result # "delivered"
      BY <1>0, <2>1 DEF ResultOf
    <3> QED  BY <1>0, <2>1, <2>2, <2>5, <3>1, <3>2, StepKeeps
  <2> QED  BY <2>3, <2>5
<1>6. ASSUME QueueThumbnail(t) PROVE TaskInv'
  <2> DEFINE x == [seg |-> tasks[t].seg, shows |-> thumbnail, met |-> tasks[t].met]
  <2>1. tasks[t].at = "shot" /\ UNCHANGED <<combined, thumbnail>>
    BY <1>6 DEF QueueThumbnail, At
  <2>2. ~Tagged(t, {"combined", "ran"}) /\ tasks[t].result = "shot" /\ Live(tasks[t])
    BY <1>0, <2>1 DEF Tagged, ResultOf, Live
  <2>3. CASE /\ thumbnail # None /\ thumbnails' = thumbnails \cup {x}
             /\ SetTask(t, "queued", "shot")
    <3>1. /\ x \in [seg : Segments, shows : Segments, met : BOOLEAN]
          /\ x.met \/ x.shows = x.seg
      BY <1>0, <2>1, <2>2, <2>3
    <3>2. ThumbnailIsOwn'
      BY <1>0, <2>3, <3>1 DEF ThumbnailIsOwn
    <3>3. thumbnails' \subseteq [seg : Segments, shows : Segments, met : BOOLEAN]
      BY <1>0, <2>3, <3>1
    <3> QED  BY <1>0, <2>1, <2>2, <2>3, <3>2, <3>3, StepKeeps DEF ResultOf
  <2>4. CASE thumbnails' = thumbnails /\ SetTask(t, "ended", "lost")
    <3>1. ThumbnailIsOwn'
      BY <1>0, <2>4 DEF ThumbnailIsOwn
    <3> QED  BY <1>0, <2>1, <2>2, <2>4, <3>1, StepKeeps DEF ResultOf
  <2> QED  BY <1>6, <2>3, <2>4 DEF QueueThumbnail
<1>7. ASSUME RemoveThumbnail(t) PROVE TaskInv'
  <2>1. /\ tasks[t].at = "queued" /\ thumbnail' = None /\ UNCHANGED <<combined, thumbnails>>
        /\ SetTask(t, "ended", "delivered")
    BY <1>7 DEF RemoveThumbnail, At
  <2>2. /\ ThumbnailIsOwn' /\ ~Tagged(t, {"combined", "ran"})
        /\ tasks[t].result = "shot" /\ Live(tasks[t])
    BY <1>0, <2>1 DEF ThumbnailIsOwn, Tagged, ResultOf, Live
  <2> QED  BY <1>0, <2>1, <2>2, StepKeeps DEF ResultOf
<1> QED  BY <1>1, <1>2, <1>3, <1>4, <1>5, <1>6, <1>7 DEF ThumbnailStep

\* The other steps start tasks, or remove the shared files with all the rest.
LEMMA TaskStep == FileType /\ TaskInv /\ [Next]_vars => TaskInv'
<1> SUFFICES ASSUME FileType, TaskInv, [Next]_vars PROVE TaskInv'
  OBVIOUS
<1>1. ASSUME ProcessSegment PROVE TaskInv'
  <2>1. CASE SpawnThumbnail(current)
    BY <1>1, <2>1, SpawnKeeps DEF ProcessSegment
  <2>2. CASE UNCHANGED tasks
    BY <1>1, <2>2 DEF ProcessSegment, TaskInv, ShotType, ScratchOwned, LiveHaveMet, OwnFiles,
                      ThumbnailIsOwn, Tagged, OwesThumbnail, PartLeft, PictureLeft,
                      NoneSince, ResultsFit, MetSince
  <2> QED  BY <1>1, <2>1, <2>2 DEF ProcessSegment
<1>2. ASSUME UNCHANGED shots PROVE TaskInv'
  BY <1>2 DEF shots, TaskInv, ShotType, ScratchOwned, LiveHaveMet, OwnFiles, ThumbnailIsOwn,
              Tagged, OwesThumbnail, PartLeft, PictureLeft, NoneSince, ResultsFit, MetSince
<1>3. ASSUME Stop PROVE TaskInv'
  BY <1>3 DEF Stop, TaskInv, ShotType, ScratchOwned, LiveHaveMet, OwnFiles, ThumbnailIsOwn,
              Tagged, OwesThumbnail, PartLeft, PictureLeft, NoneSince, ResultsFit, MetSince
<1>4. ASSUME Ffmpeg PROVE TaskInv'
  BY <1>2, <1>4 DEF Ffmpeg, Open, Write, List
<1>5. ASSUME \/ Watch \/ WatchFails \/ Recv \/ ReadFails \/ ReadPlaylist \/ ReadInit
             \/ SkipSegment \/ RemoveSegment \/ RemoveDirectory
      PROVE  TaskInv'
  BY <1>2, <1>5 DEF Watch, WatchFails, Recv, ReadFails, ReadPlaylist, ReadInit, SkipSegment,
                    RemoveSegment, RemoveDirectory
<1>6. CASE UNCHANGED vars
  BY <1>2, <1>6 DEF vars
<1> QED
  BY <1>1, <1>3, <1>4, <1>5, <1>6, ThumbnailTaskKeeps DEF Next, Watcher, Stopped

-----------------------------------------------------------------------------
(* The theorems.                                                            *)

\* All the parts together are inductive.
LEMMA AllInductive == Spec => [](WindowInv /\ JobsInv /\ FileType /\ TaskInv)
<1>1. Init => WindowInv /\ JobsInv /\ FileType /\ TaskInv
  BY WindowInit, JobsInit, FileInit, TaskInit
<1>2. FileType /\ [Next]_vars => FileType'
  BY FfmpegType, WatcherType, OtherType DEF Next, Stopped
<1>3. WindowInv /\ JobsInv /\ FileType /\ TaskInv /\ [Next]_vars
        => (WindowInv /\ JobsInv /\ FileType /\ TaskInv)'
  BY <1>2, WindowStep, JobsStep, TaskStep
<1> QED  BY <1>1, <1>3, PTL DEF Spec

\* The state keeps its shape, and combined.mp4 or thumbnail.jpg outlives the
\* thumbnail tasks only as the trace of a failure that no later task has cleaned
\* up, whatever tasks, stop and removal do to each other.
THEOREM DirectoryIsKept == Spec => []DirectoryInv
<1>1. WindowInv /\ JobsInv /\ FileType /\ TaskInv => TypeOK
  BY DEF WindowInv, WindowType, JobsInv, FileType, TaskInv, ShotType, TypeOK
<1>2. TaskInv => ScratchHasCause
  BY DEF TaskInv, ScratchOwned, ScratchHasCause, PartLeft, PictureLeft, Extracted,
         OwesThumbnail, Tagged, Live
<1> QED  BY <1>1, <1>2, AllInductive, PTL DEF DirectoryInv

\* A thumbnail whose task ran alone shows the segment it was chosen for.
THEOREM ThumbnailsAreOwn == Spec => []ThumbnailIsOwn
<1>1. TaskInv => ThumbnailIsOwn
  BY DEF TaskInv
<1> QED  BY <1>1, AllInductive, PTL

-----------------------------------------------------------------------------
(* init.mp4.                                                                *)

\* An event of init.mp4 is on its way, or in hand.
InitTold ==
    \/ pc = "read" /\ current = InitFile
    \/ \E i \in 1..Len(events) : events[i] = InitFile

\* ffmpeg completes init.mp4 before its first segment.
InitFirst ==
    /\ produced > 0 => Complete(InitFile)
    /\ dir = "there" /\ written[InitFile] > 0 => InitFile \in exists
    /\ InitTold => InitFile \in exists

\* So no event of init.mp4 comes after one of a segment.
EventsInOrder ==
    /\ \A i \in 1..Len(events) : events[i] \in Segments =>
          produced > 0 /\ \A l \in 1..Len(events) : l > i => events[l] # InitFile
    /\ pc = "read" /\ current \in Segments =>
          produced > 0 /\ \A l \in 1..Len(events) : events[l] # InitFile
    /\ pc = "spawned" => events = <<>> /\ queue = <<>>

HasInit == \E n \in 1..Len(queue) : queue[n].kind = "init"
HasPlaylist == \E n \in 1..Len(queue) : queue[n].kind = "playlist"

\* Nothing is left of init.mp4 once there is a playlist, and a complete init.mp4 is
\* on its way, handed over or missed.
InitAccounted ==
    /\ HasPlaylist => produced > 0 /\ ~InitTold
    /\ Watching /\ Complete(InitFile) => InitFile \in missed \/ init_uploaded \/ InitTold
    /\ init_uploaded <=> HasInit

InitInv == InitFirst /\ EventsInOrder /\ InitAccounted /\ InitBeforePlaylist

\* Nothing was written or handed over at first.
LEMMA InitInit == Init => InitInv
<1> SUFFICES ASSUME Init PROVE InitInv
  OBVIOUS
<1>1. /\ produced = 0 /\ events = <<>> /\ queue = <<>> /\ pc = "spawned" /\ init_uploaded = FALSE
      /\ written[InitFile] = 0
  BY FilesApart DEF Init
<1>2. ~InitTold /\ ~HasInit /\ ~HasPlaylist
  BY <1>1 DEF InitTold, HasInit, HasPlaylist
<1>3. InitBeforePlaylist
  BY <1>1 DEF InitBeforePlaylist
<1> QED  BY <1>1, <1>2, <1>3 DEF InitInv, InitFirst, EventsInOrder, InitAccounted, Watching

\* The events behind those that wait are of the one file that is notified.
LEMMA NotifyIs ==
    ASSUME events \in Seq(Files), NEW f \in Files, NEW names \in Seq({f}), Notify(names)
    PROVE  /\ \A i \in 1..Len(events') :
                 \/ i \in 1..Len(events) /\ events'[i] = events[i]
                 \/ Watching /\ names # <<>> /\ i > Len(events) /\ events'[i] = f
           /\ \A i \in 1..Len(events) : i \in 1..Len(events') /\ events'[i] = events[i]
           /\ Watching /\ names # <<>> => \E i \in 1..Len(events') : events'[i] = f
<1>1. CASE ~Watching
  BY <1>1 DEF Notify
<1>2. CASE Watching
  <2> DEFINE n == Len(events)
             k == Len(names)
  <2>1. events' = events \o names /\ n \in Nat /\ k \in Nat
    BY <1>2 DEF Notify
  <2>2. /\ Len(events') = n + k
        /\ \A i \in 1..n : events'[i] = events[i]
        /\ \A i \in 1..(n + k) : i > n => events'[i] = names[i - n]
    BY <2>1
  <2>3. \A i \in 1..k : names[i] = f
    BY <2>1
  <2>4. names # <<>> <=> k # 0
    BY <2>1
  <2> HIDE DEF n, k
  <2>5. ASSUME NEW i \in 1..(n + k), i > n
        PROVE  names # <<>> /\ events'[i] = f
    <3>1. i - n \in 1..k /\ k # 0
      BY <2>1, <2>5
    <3> QED  BY <2>2, <2>3, <2>4, <2>5, <3>1
  <2>6. \A i \in 1..(n + k) : i \in 1..n \/ i > n
    BY <2>1
  <2>7. \A i \in 1..n : i \in 1..(n + k)
    BY <2>1
  <2>8. ASSUME names # <<>>
        PROVE  \E i \in 1..(n + k) : events'[i] = f
    <3>1. n + k \in 1..(n + k) /\ n + k > n
      BY <2>1, <2>4, <2>8
    <3> QED  BY <2>5, <3>1
  <2> QED  BY <1>2, <2>2, <2>5, <2>6, <2>7, <2>8 DEF n, k
<1> QED  BY <1>1, <1>2

\* ffmpeg writes to another file: a segment, once init.mp4 is complete, or its
\* playlist.
LEMMA OtherFileKeeps ==
    ASSUME FileType, InitInv, NEW f \in Files \ {InitFile}, NEW names \in Seq({f}),
           Notify(names), produced' \in Nat, produced > 0 => produced' > 0,
           produced' > 0 => Complete(InitFile), f \in Segments => produced' > 0,
           written'[InitFile] = written[InitFile], InitFile \in exists' <=> InitFile \in exists,
           UNCHANGED <<dir, pc, current, queue, missed, init_uploaded>>
    PROVE  InitInv'
<1>1. /\ \A i \in 1..Len(events') :
            \/ i \in 1..Len(events) /\ events'[i] = events[i]
            \/ Watching /\ names # <<>> /\ i > Len(events) /\ events'[i] = f
      /\ \A i \in 1..Len(events) : i \in 1..Len(events') /\ events'[i] = events[i]
  BY NotifyIs DEF FileType
<1>2. InitTold' <=> InitTold
  BY <1>1 DEF InitTold
<1>3. InitFirst'
  BY <1>2 DEF InitInv, InitFirst, Complete
<1>4. EventsInOrder'
  <2>1. Len(events) \in Nat
    BY DEF FileType
  <2>2. ASSUME NEW i \in 1..Len(events'), events'[i] \in Segments
        PROVE  produced' > 0 /\ \A l \in 1..Len(events') : l > i => events'[l] # InitFile
    <3>1. CASE i \in 1..Len(events) /\ events'[i] = events[i]
      BY <1>1, <2>2, <3>1 DEF InitInv, EventsInOrder
    <3>2. CASE i > Len(events) /\ events'[i] = f
      <4>1. \A l \in 1..Len(events') : l > i => ~(l \in 1..Len(events))
        BY <2>1, <3>2
      <4> QED  BY <1>1, <2>2, <3>2, <4>1
    <3> QED  BY <1>1, <3>1, <3>2
  <2>3. pc = "spawned" => events' = <<>> /\ queue' = <<>>
    BY DEF InitInv, EventsInOrder, Notify, Watching
  <2>4. pc = "read" /\ current \in Segments =>
          produced' > 0 /\ \A l \in 1..Len(events') : events'[l] # InitFile
    BY <1>1 DEF InitInv, EventsInOrder
  <2> QED  BY <2>2, <2>3, <2>4 DEF EventsInOrder
<1>5. InitAccounted'
  BY <1>2 DEF InitInv, InitAccounted, HasPlaylist, HasInit, Watching, Complete
<1>6. InitBeforePlaylist'
  BY DEF InitInv, InitBeforePlaylist
<1> QED  BY <1>3, <1>4, <1>5, <1>6 DEF InitInv

\* ffmpeg writes to init.mp4, before there is any segment.
LEMMA InitFileKeeps ==
    ASSUME FileType, InitInv, NEW names \in Seq({InitFile}), names # <<>>, Notify(names),
           written[InitFile] < Full, produced' = produced, InitFile \in exists',
           UNCHANGED <<dir, pc, current, queue, missed, init_uploaded>>
    PROVE  InitInv'
<1>0. produced = 0 /\ InitFile \notin Segments /\ InitFile \in Files
  <2>1. written[InitFile] \in 0..Full /\ produced \in Nat
    BY FilesApart, WatcherAssumption DEF FileType
  <2> QED  BY <2>1, FilesApart DEF InitInv, InitFirst, Complete, Full
<1>1. /\ \A i \in 1..Len(events') :
            \/ i \in 1..Len(events) /\ events'[i] = events[i]
            \/ Watching /\ names # <<>> /\ i > Len(events) /\ events'[i] = InitFile
      /\ Watching => \E i \in 1..Len(events') : events'[i] = InitFile
  BY <1>0, NotifyIs DEF FileType
<1>2. ~HasPlaylist /\ \A i \in 1..Len(events) : events[i] \notin Segments
  BY <1>0 DEF InitInv, EventsInOrder, InitAccounted
<1>3. InitFirst'
  BY <1>0 DEF InitFirst
<1>4. EventsInOrder'
  <2>1. \A i \in 1..Len(events') : events'[i] \notin Segments
    BY <1>0, <1>1, <1>2
  <2>2. pc = "spawned" => events' = <<>> /\ queue' = <<>>
    BY DEF InitInv, EventsInOrder, Notify, Watching
  <2>3. ~(pc = "read" /\ current \in Segments)
    BY <1>0 DEF InitInv, EventsInOrder
  <2> QED  BY <2>1, <2>2, <2>3 DEF EventsInOrder
<1>5. InitAccounted'
  <2>1. Watching => InitTold'
    BY <1>1 DEF InitTold
  <2> QED  BY <1>2, <2>1 DEF InitInv, InitAccounted, HasPlaylist, HasInit, Watching
<1>6. InitBeforePlaylist'
  BY DEF InitInv, InitBeforePlaylist
<1> QED  BY <1>3, <1>4, <1>5, <1>6 DEF InitInv

\* What an action of ffmpeg notifies.
LEMMA OneName ==
    ASSUME NEW f
    PROVE  /\ <<>> \in Seq({f}) /\ <<f>> \in Seq({f}) /\ <<f, f>> \in Seq({f})
           /\ <<f>> # <<>> /\ <<f, f>> # <<>>
<1>1. <<>> \in Seq({f}) /\ <<f>> \in Seq({f}) /\ <<f, f>> \in Seq({f})
  OBVIOUS
<1>2. <<f>> # <<>>
  OBVIOUS
<1>3. <<f, f>> # <<>>
  OBVIOUS
<1> QED  BY <1>1, <1>2, <1>3

\* The steps of ffmpeg.
LEMMA FfmpegInitInv == FileType /\ InitInv /\ Ffmpeg => InitInv'
<1> SUFFICES ASSUME FileType, InitInv, Ffmpeg PROVE InitInv'
  OBVIOUS
<1>0. /\ produced \in Nat /\ written \in [Media -> 0..Full] /\ InitFile \in Media
      /\ Media \subseteq Files /\ InitFile \notin Nat /\ Segments \subseteq Nat \ {0}
  BY FilesApart, WatcherAssumption DEF FileType, Segments
<1>1. ASSUME NEW f \in Media, Open(f) PROVE InitInv'
  <2>1. PICK names \in {<<f>>, <<f, f>>} : Notify(names)
    BY <1>1 DEF Open
  <2>2. names \in Seq({f}) /\ names # <<>>
    BY <2>1, OneName
  <2>3. CASE f = InitFile
    <3>1. written[InitFile] < Full
      BY <1>0, <1>1, <2>3 DEF Open, CanOpen, Full
    <3> QED  BY <1>1, <2>1, <2>2, <2>3, <3>1, InitFileKeeps DEF Open, state
  <2>4. CASE f # InitFile
    <3>1. produced' = f /\ Complete(InitFile) /\ f \in Nat \ {0}
      BY <1>0, <1>1, <2>4 DEF Open, CanOpen, Media
    <3>2. written'[InitFile] = written[InitFile]
      BY <1>0, <1>1, <2>4 DEF Open
    <3>3. InitFile \in exists' <=> InitFile \in exists
      BY <1>1, <2>4 DEF Open
    <3> QED  BY <1>0, <1>1, <2>1, <2>2, <2>4, <3>1, <3>2, <3>3, OtherFileKeeps DEF Open, state
  <2> QED  BY <2>3, <2>4
<1>2. ASSUME NEW f \in Media, Write(f) PROVE InitInv'
  <2> DEFINE names == IF f \in exists THEN <<f>> ELSE <<>>
  <2>0. Notify(names)
    BY <1>2 DEF Write
  <2>1. names \in Seq({f}) /\ Notify(names) /\ (f \in exists => names # <<>>)
    BY <2>0, OneName
  <2> HIDE DEF names
  <2>2. CASE f = InitFile
    <3>1. InitFile \in exists /\ written[InitFile] < Full
      BY <1>0, <1>2, <2>2 DEF Write
    <3> QED  BY <1>2, <2>1, <2>2, <3>1, InitFileKeeps DEF Write, disk, state
  <2>3. CASE f # InitFile
    <3>1. produced' = produced /\ f = produced /\ produced > 0
      BY <1>0, <1>2, <2>3 DEF Write, Media
    <3>2. Complete(InitFile)
      BY <3>1 DEF InitInv, InitFirst
    <3>3. written'[InitFile] = written[InitFile]
      BY <1>0, <1>2, <2>3 DEF Write
    <3> QED  BY <1>0, <1>2, <2>1, <2>3, <3>1, <3>2, <3>3, OtherFileKeeps DEF Write, disk, state
  <2> QED  BY <2>2, <2>3
<1>3. ASSUME List PROVE InitInv'
  <2> DEFINE names == <<Playlist, Playlist>>
  <2>1. names \in Seq({Playlist}) /\ Notify(names)
    BY <1>3, OneName DEF List
  <2> HIDE DEF names
  <2>2. /\ Playlist \in Files \ {InitFile} /\ Playlist \notin Segments
        /\ InitFile \in exists' <=> InitFile \in exists
    BY <1>3, FilesApart, WatcherAssumption DEF List
  <2>3. produced > 0 => Complete(InitFile)
    BY DEF InitInv, InitFirst
  <2>4. UNCHANGED <<produced, written, dir, pc, current, queue, missed, init_uploaded>>
    BY <1>3 DEF List, state
  <2> QED  BY <1>0, <2>1, <2>2, <2>3, <2>4, OtherFileKeeps
<1> QED  BY <1>1, <1>2, <1>3 DEF Ffmpeg

\* The watcher takes an event.
LEMMA RecvInitInv == FileType /\ InitInv /\ Recv => InitInv'
<1> SUFFICES ASSUME FileType, InitInv, Recv PROVE InitInv'
  OBVIOUS
<1> DEFINE n == Len(events)
<1>1. /\ events \in Seq(Files) /\ n \in Nat /\ n # 0
      /\ current' = events[1] /\ pc = "recv" /\ pc' = "read"
      /\ Len(events') = n - 1
      /\ \A i \in 1..(n - 1) : events'[i] = events[i + 1]
      /\ UNCHANGED <<dir, exists, written, produced, queue, missed, init_uploaded>>
  BY DEF FileType, Recv, disk, ffmpeg, state
<1> HIDE DEF n
<1>2. 1 \in 1..n /\ \A i \in 1..(n - 1) : i + 1 \in 1..n /\ i + 1 > 1
  BY <1>1
<1>3. InitTold' <=> InitTold
  <2>1. ASSUME NEW i \in 1..n, events[i] = InitFile
        PROVE  current' = InitFile \/ \E k \in 1..(n - 1) : events'[k] = InitFile
    <3>1. CASE i = 1
      BY <1>1, <2>1, <3>1
    <3>2. CASE i # 1
      <4>1. i - 1 \in 1..(n - 1) /\ (i - 1) + 1 = i
        BY <1>1, <3>2
      <4> QED  BY <1>1, <2>1, <4>1
    <3> QED  BY <3>1, <3>2
  <2>2. ASSUME NEW k \in 1..(n - 1), events'[k] = InitFile
        PROVE  \E i \in 1..n : events[i] = InitFile
    BY <1>1, <1>2, <2>2
  <2>3. InitTold <=> \E i \in 1..n : events[i] = InitFile
    BY <1>1 DEF InitTold, n
  <2>4. InitTold' <=> current' = InitFile \/ \E k \in 1..(n - 1) : events'[k] = InitFile
    BY <1>1 DEF InitTold
  <2> QED  BY <1>1, <1>2, <2>1, <2>2, <2>3, <2>4
<1>4. InitFirst'
  BY <1>1, <1>3 DEF InitInv, InitFirst, Complete
<1>5. EventsInOrder'
  <2>1. \A i \in 1..n : events[i] \in Segments =>
           produced > 0 /\ \A l \in 1..n : l > i => events[l] # InitFile
    BY DEF InitInv, EventsInOrder, n
  <2>2. ASSUME NEW i \in 1..(n - 1), events'[i] \in Segments
        PROVE  produced > 0 /\ \A l \in 1..(n - 1) : l > i => events'[l] # InitFile
    <3>1. i + 1 \in 1..n /\ events[i + 1] \in Segments
      BY <1>1, <1>2, <2>2
    <3>2. \A l \in 1..(n - 1) : l > i => l + 1 \in 1..n /\ l + 1 > i + 1
      BY <1>1
    <3> QED  BY <1>1, <2>1, <3>1, <3>2
  <2>3. events[1] \in Segments =>
           produced > 0 /\ \A l \in 1..(n - 1) : events'[l] # InitFile
    BY <1>1, <1>2, <2>1
  <2> QED  BY <1>1, <2>2, <2>3 DEF EventsInOrder
<1>6. InitAccounted'
  BY <1>1, <1>3 DEF InitInv, InitAccounted, HasPlaylist, HasInit, Watching, Complete
<1>7. InitBeforePlaylist'
  BY <1>1 DEF InitInv, InitBeforePlaylist
<1> QED  BY <1>4, <1>5, <1>6, <1>7 DEF InitInv

\* init.mp4 is handed over: there is no playlist yet, and no other init.mp4.
LEMMA ReadInitInv == FileType /\ JobsInv /\ InitInv /\ ReadInit => InitInv'
<1> SUFFICES ASSUME FileType, JobsInv, InitInv, ReadInit PROVE InitInv'
  OBVIOUS
<1>1. /\ pc = "read" /\ pc' = "recv" /\ current = InitFile /\ init_uploaded' = TRUE
      /\ missed' = missed \ {InitFile}
      /\ UNCHANGED <<dir, exists, events, current, written, produced>>
  BY DEF ReadInit, disk, ffmpeg
<1>2. InitTold /\ ~HasPlaylist
  BY <1>1 DEF InitInv, InitAccounted, InitTold
<1>3. InitFirst'
  BY <1>1, <1>2 DEF InitInv, InitFirst, InitTold, Complete
<1>4. EventsInOrder'
  BY <1>1 DEF InitInv, EventsInOrder
<1>5. HasInit' /\ ~HasPlaylist' /\ InitBeforePlaylist'
  <2>1. CASE init_uploaded
    BY <1>2, <2>1 DEF ReadInit, InitInv, InitAccounted, HasInit, HasPlaylist, InitBeforePlaylist
  <2>2. CASE ~init_uploaded
    <3> DEFINE n == Len(queue)
    <3>1. queue' = Append(queue, InitJob) /\ queue \in Seq(Jobs) /\ n \in Nat
      BY <2>2 DEF ReadInit, JobsInv
    <3>2. /\ Len(queue') = n + 1 /\ queue'[n + 1] = InitJob /\ InitJob.kind = "init"
          /\ \A i \in 1..n : queue'[i] = queue[i]
      BY <3>1 DEF InitJob
    <3>3. \A i \in 1..n : queue[i].kind # "init" /\ queue[i].kind # "playlist"
      BY <1>2, <2>2 DEF InitInv, InitAccounted, HasInit, HasPlaylist, n
    <3> HIDE DEF n
    <3>4. n + 1 \in 1..(n + 1) /\ \A i \in 1..(n + 1) : i \in 1..n \/ i = n + 1
      BY <3>1
    <3> QED  BY <3>2, <3>3, <3>4 DEF HasInit, HasPlaylist, InitBeforePlaylist
  <2> QED  BY <2>1, <2>2
<1>6. InitAccounted'
  BY <1>1, <1>5 DEF InitAccounted
<1> QED  BY <1>3, <1>4, <1>5, <1>6 DEF InitInv

\* A segment and its playlist are handed over: init.mp4 was complete before.
LEMMA ProcessInitInv ==
    WindowInv /\ FileType /\ JobsInv /\ InitInv /\ ProcessSegment => InitInv'
<1> SUFFICES ASSUME WindowInv, FileType, JobsInv, InitInv, ProcessSegment PROVE InitInv'
  OBVIOUS
<1> DEFINE n == Len(queue)
           up == SegmentJob(current)
           pl == PlaylistJob(segments', media_sequence')
<1>1. /\ pc = "read" /\ pc' \in {"recv", "remove"} /\ current \in Segments
      /\ missed' = missed \ {current} /\ queue' = queue \o <<up, pl>>
      /\ UNCHANGED <<dir, exists, events, current, written, produced, init_uploaded>>
  BY DEF ProcessSegment, disk, ffmpeg
<1>2. produced > 0 /\ Complete(InitFile) /\ ~InitTold /\ ~InitTold'
  BY <1>1, FilesApart DEF InitInv, InitFirst, EventsInOrder, InitTold
<1>3. InitFile \in missed' \/ init_uploaded
  BY <1>1, <1>2, FilesApart DEF InitInv, InitAccounted, Watching
<1>4. /\ queue \in Seq(Jobs) /\ n \in Nat /\ up.kind = "segment" /\ pl.kind = "playlist"
  BY DEF JobsInv, SegmentJob, PlaylistJob
<1> HIDE DEF up, pl
<1>5. /\ Len(queue') = n + 2 /\ queue'[n + 1] = up /\ queue'[n + 2] = pl
      /\ \A i \in 1..n : queue'[i] = queue[i]
  BY <1>1, <1>4
<1>6. init_uploaded <=> \E i \in 1..n : queue[i].kind = "init"
  BY DEF InitInv, InitAccounted, HasInit, n
<1>7. /\ \A i \in 1..n : queue[i].kind = "playlist" =>
            InitFile \in missed \/ \E m \in 1..(i - 1) : queue[m].kind = "init"
      /\ \A i, m \in 1..n : queue[i].kind = "init" /\ queue[m].kind = "init" => i = m
  BY DEF InitInv, InitBeforePlaylist, n
<1> HIDE DEF n
<1>8. \A i \in 1..(n + 2) : i \in 1..n \/ i = n + 1 \/ i = n + 2
  BY <1>4
<1>9. \A i \in 1..n : i \in 1..(n + 2) /\ i \in 1..((n + 2) - 1)
  BY <1>4
<1>10. InitFile \in missed' <=> InitFile \in missed
  BY <1>1, FilesApart
<1>11. HasInit' <=> init_uploaded
  BY <1>4, <1>5, <1>6, <1>8, <1>9 DEF HasInit
<1>12. InitBeforePlaylist'
  <2>1. ASSUME NEW i \in 1..(n + 2), queue'[i].kind = "playlist"
        PROVE  InitFile \in missed' \/ \E m \in 1..(i - 1) : queue'[m].kind = "init"
    <3>1. CASE i \in 1..n
      <4>1. \A m \in 1..(i - 1) : m \in 1..n
        BY <1>4, <3>1
      <4> QED  BY <1>5, <1>7, <1>10, <2>1, <3>1, <4>1
    <3>2. CASE i = n + 2
      BY <1>3, <1>5, <1>6, <1>9, <3>2
    <3> QED  BY <1>4, <1>5, <1>8, <2>1, <3>1, <3>2
  <2>2. \A i, m \in 1..(n + 2) : queue'[i].kind = "init" /\ queue'[m].kind = "init" => i = m
    BY <1>4, <1>5, <1>7, <1>8
  <2> QED  BY <1>5, <2>1, <2>2 DEF InitBeforePlaylist
<1>13. InitFirst'
  BY <1>1, <1>2 DEF InitInv, InitFirst, Complete
<1>14. EventsInOrder'
  BY <1>1 DEF InitInv, EventsInOrder
<1>15. InitAccounted'
  BY <1>1, <1>2, <1>3, <1>11 DEF InitAccounted
<1> QED  BY <1>12, <1>13, <1>14, <1>15 DEF InitInv

\* A step that hands over nothing, neither sends nor takes an event, and removes no
\* init.mp4 that anyone asks for.
LEMMA QuietKeeps ==
    ASSUME InitInv, UNCHANGED <<written, produced, queue, init_uploaded>>,
           events' \in {events, <<>>}, InitFile \in missed => InitFile \in missed',
           dir' = "there" => dir = "there",
           \/ InitFile \in exists' <=> InitFile \in exists
           \/ dir' # "there" /\ ~InitTold',
           InitTold' => InitTold,
           pc' = "spawned" => pc = "spawned" /\ events' = events,
           pc' = "read" => pc = "read" /\ UNCHANGED <<current, events>>,
           Watching' /\ Complete(InitFile) =>
              InitFile \in missed' \/ init_uploaded \/ InitTold'
    PROVE  InitInv'
<1>1. InitFirst'
  BY DEF InitInv, InitFirst, Complete
<1>2. EventsInOrder'
  <2>1. CASE events' = events
    BY <2>1 DEF InitInv, EventsInOrder
  <2>2. CASE events' = <<>>
    BY <2>2 DEF InitInv, EventsInOrder
  <2> QED  BY <2>1, <2>2
<1>3. InitAccounted'
  BY DEF InitInv, InitAccounted, HasPlaylist, HasInit, Complete
<1>4. InitBeforePlaylist'
  BY DEF InitInv, InitBeforePlaylist
<1> QED  BY <1>1, <1>2, <1>3, <1>4 DEF InitInv

\* The other steps of the watcher.
LEMMA WatcherInitInv ==
    FileType /\ JobsInv /\ InitInv
      /\ (Watch \/ WatchFails \/ ReadFails \/ ReadPlaylist \/ SkipSegment \/ RemoveSegment)
        => InitInv'
<1> SUFFICES ASSUME FileType, JobsInv, InitInv,
                    Watch \/ WatchFails \/ ReadFails \/ ReadPlaylist \/ SkipSegment \/ RemoveSegment
             PROVE  InitInv'
  OBVIOUS
<1>0. /\ UNCHANGED <<dir, events, current, written, produced, queue, init_uploaded>>
      /\ pc \in {"spawned", "read", "remove"} /\ pc' \in {"recv", "failed"}
  BY DEF Watch, WatchFails, ReadFails, ReadPlaylist, SkipSegment, RemoveSegment, disk, ffmpeg,
         state
<1>1. InitTold' => InitTold
  BY <1>0 DEF InitTold
<1>2. InitFile \in exists' <=> InitFile \in exists
  BY FilesApart DEF FileType, Watch, WatchFails, ReadFails, ReadPlaylist, SkipSegment,
                    RemoveSegment, disk
<1>3. CASE Watch
  <2>1. queue = <<>> /\ ~HasPlaylist /\ dir = "there" /\ pc = "spawned"
    BY <1>3 DEF Watch, FileType, InitInv, EventsInOrder, HasPlaylist
  <2>2. Complete(InitFile) => InitFile \in missed'
    BY <1>3, <2>1, FilesApart DEF Watch, InitInv, InitFirst, Complete, Full
  <2>3. InitFirst'
    BY <1>0, <1>1, <1>2 DEF InitInv, InitFirst, Complete
  <2>4. EventsInOrder'
    BY <1>0 DEF InitInv, EventsInOrder
  <2>5. InitAccounted'
    BY <1>0, <2>1, <2>2 DEF InitInv, InitAccounted, HasPlaylist, HasInit, Complete
  <2>6. InitBeforePlaylist'
    BY <1>0, <2>1 DEF InitBeforePlaylist
  <2> QED  BY <2>3, <2>4, <2>5, <2>6 DEF InitInv
<1>4. CASE WatchFails
  <2>1. missed' = missed /\ ~Watching'
    BY <1>4 DEF WatchFails, state, Watching
  <2> QED  BY <1>0, <1>1, <1>2, <2>1, QuietKeeps
<1>5. CASE ReadFails
  <2>1. InitFile \in missed => InitFile \in missed'
    BY <1>5 DEF ReadFails
  <2>2. current = InitFile => InitFile \in missed' \/ init_uploaded
    <3>1. current = InitFile => InitFile \in exists
      BY <1>5 DEF ReadFails, InitInv, InitFirst, InitTold
    <3> QED  BY <1>5, <3>1, FilesApart DEF ReadFails, HandedOver
  <2>3. current # InitFile => (InitTold' <=> InitTold)
    BY <1>0 DEF InitTold
  <2>4. Watching /\ Watching'
    BY <1>5 DEF ReadFails, Watching
  <2>5. Complete(InitFile) => InitFile \in missed' \/ init_uploaded \/ InitTold'
    BY <2>1, <2>2, <2>3, <2>4 DEF InitInv, InitAccounted
  <2> QED  BY <1>0, <1>1, <1>2, <2>1, <2>5, QuietKeeps
<1>6. CASE ReadPlaylist \/ SkipSegment \/ RemoveSegment
  <2>1. missed' = missed
    BY <1>6 DEF ReadPlaylist, SkipSegment, RemoveSegment, state
  <2>2. InitTold' <=> InitTold
    <3>1. pc = "read" => current # InitFile
      BY <1>6, FilesApart, WatcherAssumption
      DEF ReadPlaylist, SkipSegment, RemoveSegment, FileType
    <3> QED  BY <1>0, <3>1 DEF InitTold
  <2>3. Watching
    BY <1>6 DEF ReadPlaylist, SkipSegment, RemoveSegment, Watching
  <2> QED  BY <1>0, <1>1, <1>2, <2>1, <2>2, <2>3, QuietKeeps DEF InitInv, InitAccounted
<1> QED  BY <1>3, <1>4, <1>5, <1>6

\* The thumbnail tasks remove only segments, and a stop ends the watch.
LEMMA OtherInitInv ==
    TaskInv /\ FileType /\ InitInv /\ (ThumbnailTask \/ Stop \/ RemoveDirectory \/ UNCHANGED vars)
      => InitInv'
<1> SUFFICES ASSUME TaskInv, FileType, InitInv,
                    ThumbnailTask \/ Stop \/ RemoveDirectory \/ UNCHANGED vars
             PROVE  InitInv'
  OBVIOUS
<1>1. ASSUME UNCHANGED outside, dir' = "there" => dir = "there",
             InitFile \in exists' <=> InitFile \in exists
      PROVE  InitInv'
  <2>1. UNCHANGED <<pc, events, current, queue, written, produced, missed, init_uploaded>>
    BY <1>1 DEF outside, ffmpeg, state
  <2>2. (InitTold' <=> InitTold) /\ (Watching' <=> Watching)
    BY <2>1 DEF InitTold, Watching
  <2> QED  BY <1>1, <2>1, <2>2, QuietKeeps DEF InitInv, InitAccounted
<1>2. ASSUME NEW t \in DOMAIN tasks, ThumbnailStep(t) PROVE InitInv'
  <2>1. UNCHANGED outside
    BY <1>2, ThumbnailTaskApart DEF ThumbnailTask
  <2>2. tasks[t].of \in Segments
    <3>1. tasks[t] \in Tasks
      BY DEF TaskInv, ShotType
    <3> QED  BY <3>1 DEF Tasks
  <2>3. dir' = dir /\ (exists' = exists \/ exists' = exists \ {tasks[t].of})
    BY <1>2 DEF ThumbnailStep, ReadSources, WriteCombined, RunFfmpeg, RemoveCombined,
                RemoveSource, QueueThumbnail, RemoveThumbnail, disk
  <2> QED  BY <1>1, <2>1, <2>2, <2>3, FilesApart
<1>3. ASSUME Stop PROVE InitInv'
  <2>1. /\ pc' = "stopped" /\ dir' = "swept" /\ events' = <<>>
        /\ UNCHANGED <<queue, written, produced, missed, init_uploaded>>
    BY <1>3 DEF Stop, ffmpeg, state
  <2>2. ~InitTold' /\ ~Watching'
    BY <2>1 DEF InitTold, Watching
  <2> QED  BY <2>1, <2>2, QuietKeeps
<1>4. ASSUME RemoveDirectory PROVE InitInv'
  BY <1>1, <1>4 DEF RemoveDirectory
<1>5. CASE UNCHANGED vars
  BY <1>1, <1>5 DEF vars, disk, outside
<1> QED  BY <1>2, <1>3, <1>4, <1>5 DEF ThumbnailTask

\* A live playlist names an init.mp4 that was handed over before it, once, unless
\* init.mp4 was there before the watch or could not be read.
THEOREM InitComesFirst == Spec => []InitBeforePlaylist
<1> DEFINE Known == WindowInv /\ JobsInv /\ FileType /\ TaskInv
<1>1. Known /\ InitInv /\ [Next]_vars => InitInv'
  BY FfmpegInitInv, RecvInitInv, ReadInitInv, ProcessInitInv, WatcherInitInv, OtherInitInv
  DEF Next, Watcher, Stopped
<1>2. InitInv => InitBeforePlaylist
  BY DEF InitInv
<1> QED  BY <1>1, <1>2, InitInit, AllInductive, PTL DEF Spec

-----------------------------------------------------------------------------
(* The numbers of the segments.                                             *)

\* NumberedAsProduced of one window, whose first number is first + 1, when the
\* segments of gone were missed.
NumberedIn(window, first, gone) ==
    /\ \A i \in 2..Len(window) :
          /\ window[i].seg > window[i - 1].seg
          /\ window[i - 1].seg + 1..window[i].seg - 1 \subseteq gone
    /\ \A i \in 1..Len(window) :
          /\ window[i].seg >= first + i
          /\ window[i].seg - (first + i)
               = Cardinality({s \in gone : s \in Segments /\ s < window[i].seg})

\* Segments are numbers without a gap.
LEMMA SegmentsAre ==
    /\ Segments \subseteq Nat \ {0} /\ IsFiniteSet(Segments)
    /\ \A n \in 1..SegmentLimit : n \in Segments
    /\ \A s \in Segments, n \in Nat \ {0} : n <= s => n \in Segments
<1>1. SegmentLimit \in Nat
  BY WatcherAssumption
<1>2. IsFiniteSet(1..SegmentLimit)
  BY <1>1, FS_Interval
<1> QED  BY <1>1, <1>2 DEF Segments

\* What a window lists.
LEMMA EntryIs ==
    ASSUME NEW window \in Seq(Entry), NEW i \in 1..Len(window)
    PROVE  window[i].seg \in Segments
<1>1. window[i] \in Entry
  OBVIOUS
<1> QED  BY <1>1 DEF Entry

\* What is missed from the last segment of a window on does not number it.
LEMMA NumberedStays ==
    ASSUME NEW window \in Seq(Entry), NEW first \in Nat, NEW gone, NEW left,
           NumberedIn(window, first, gone),
           \A s \in Segments : \/ s \in left <=> s \in gone
                               \/ \A i \in 1..Len(window) : window[i].seg <= s
    PROVE  NumberedIn(window, first, left)
<1>1. ASSUME NEW i \in 1..Len(window), NEW s \in Segments, s < window[i].seg
      PROVE  s \in left <=> s \in gone
  <2>1. window[i].seg \in Nat /\ s \in Nat
    BY EntryIs, SegmentsAre
  <2> QED  BY <1>1, <2>1
<1>2. ASSUME NEW i \in 2..Len(window)
      PROVE  /\ window[i].seg > window[i - 1].seg
             /\ window[i - 1].seg + 1..window[i].seg - 1 \subseteq left
  <2>1. /\ window[i].seg > window[i - 1].seg
        /\ window[i - 1].seg + 1..window[i].seg - 1 \subseteq gone
    BY DEF NumberedIn
  <2>2. i \in 1..Len(window) /\ i - 1 \in 1..Len(window)
    OBVIOUS
  <2>3. window[i].seg \in Segments /\ window[i - 1].seg \in Segments
    BY <2>2, EntryIs
  <2>4. ASSUME NEW s \in window[i - 1].seg + 1..window[i].seg - 1
        PROVE  s \in left
    <3>1. s \in Nat \ {0} /\ s < window[i].seg /\ s <= window[i].seg
      BY <2>3, SegmentsAre
    <3>2. s \in Segments
      BY <2>3, <3>1, SegmentsAre
    <3> QED  BY <1>1, <2>1, <2>2, <3>1, <3>2
  <2> QED  BY <2>1, <2>4
<1>3. ASSUME NEW i \in 1..Len(window)
      PROVE  {s \in gone : s \in Segments /\ s < window[i].seg}
                = {s \in left : s \in Segments /\ s < window[i].seg}
  BY <1>1
<1> QED  BY <1>2, <1>3 DEF NumberedIn

\* pop_front and a media_sequence that counts it.
LEMMA TailNumbered ==
    ASSUME NEW window \in Seq(Entry), window # <<>>, NEW first \in Nat, NEW gone,
           NumberedIn(window, first, gone)
    PROVE  NumberedIn(Tail(window), first + 1, gone)
<1> DEFINE rest == Tail(window)
<1>1. /\ Len(window) \in Nat \ {0} /\ Len(rest) = Len(window) - 1
      /\ \A i \in 1..Len(rest) : rest[i] = window[i + 1]
  OBVIOUS
<1> HIDE DEF rest
<1>2. ASSUME NEW i \in 2..Len(rest)
      PROVE  /\ rest[i].seg > rest[i - 1].seg
             /\ rest[i - 1].seg + 1..rest[i].seg - 1 \subseteq gone
  <2>1. i + 1 \in 2..Len(window) /\ i \in 1..Len(rest) /\ i - 1 \in 1..Len(rest) /\ (i + 1) - 1 = i
        /\ (i - 1) + 1 = i
    BY <1>1
  <2>2. rest[i] = window[i + 1] /\ rest[i - 1] = window[i]
    BY <1>1, <2>1
  <2>3. /\ window[i + 1].seg > window[i].seg
        /\ window[i].seg + 1..window[i + 1].seg - 1 \subseteq gone
    BY <2>1 DEF NumberedIn
  <2> QED  BY <2>2, <2>3
<1>3. ASSUME NEW i \in 1..Len(rest)
      PROVE  /\ rest[i].seg >= (first + 1) + i
             /\ rest[i].seg - ((first + 1) + i)
                  = Cardinality({s \in gone : s \in Segments /\ s < rest[i].seg})
  <2>1. i + 1 \in 1..Len(window) /\ rest[i] = window[i + 1] /\ first + (i + 1) = (first + 1) + i
    BY <1>1
  <2>2. /\ window[i + 1].seg >= first + (i + 1)
        /\ window[i + 1].seg - (first + (i + 1))
             = Cardinality({s \in gone : s \in Segments /\ s < window[i + 1].seg})
    BY <2>1 DEF NumberedIn
  <2> QED  BY <2>1, <2>2
<1>4. NumberedIn(rest, first + 1, gone)
  BY <1>2, <1>3 DEF NumberedIn
<1> QED  BY <1>4 DEF rest

\* push_back of the next segment that was not missed.
LEMMA AppendNumbered ==
    ASSUME NEW window \in Seq(Entry), NEW first \in Nat, NEW gone, NEW entry \in Entry,
           NumberedIn(window, first, gone),
           window # <<>> => /\ window[Len(window)].seg < entry.seg
                            /\ window[Len(window)].seg + 1..entry.seg - 1 \subseteq gone,
           Cardinality({s \in gone : s \in Segments /\ s < entry.seg}) \in Nat,
           entry.seg - 1 = first + Len(window)
                             + Cardinality({s \in gone : s \in Segments /\ s < entry.seg})
    PROVE  NumberedIn(Append(window, entry), first, gone)
<1> DEFINE more == Append(window, entry)
           n == Len(window)
<1>1. /\ n \in Nat /\ Len(more) = n + 1 /\ more[n + 1] = entry
      /\ \A i \in 1..n : more[i] = window[i]
  OBVIOUS
<1>2. entry.seg \in Nat
  BY SegmentsAre DEF Entry
<1>3. n # 0 <=> window # <<>>
  OBVIOUS
<1> HIDE DEF more
<1>4. ASSUME NEW i \in 2..Len(more)
      PROVE  /\ more[i].seg > more[i - 1].seg
             /\ more[i - 1].seg + 1..more[i].seg - 1 \subseteq gone
  <2>1. CASE i = n + 1
    <3>1. n # 0 /\ n \in 1..n /\ i - 1 = n
      BY <1>1, <2>1
    <3>2. more[i] = entry /\ more[i - 1] = window[n] /\ window # <<>>
      BY <1>1, <1>3, <2>1, <3>1
    <3>3. window[n].seg \in Nat
      BY <3>1, EntryIs, SegmentsAre
    <3> QED  BY <1>2, <3>2, <3>3
  <2>2. CASE i # n + 1
    <3>1. i \in 2..n /\ i \in 1..n /\ i - 1 \in 1..n
      BY <1>1, <2>2
    <3>2. more[i] = window[i] /\ more[i - 1] = window[i - 1]
      BY <1>1, <3>1
    <3>3. /\ window[i].seg > window[i - 1].seg
          /\ window[i - 1].seg + 1..window[i].seg - 1 \subseteq gone
      BY <3>1 DEF NumberedIn
    <3> QED  BY <3>2, <3>3
  <2> QED  BY <2>1, <2>2
<1>5. ASSUME NEW i \in 1..Len(more)
      PROVE  /\ more[i].seg >= first + i
             /\ more[i].seg - (first + i)
                  = Cardinality({s \in gone : s \in Segments /\ s < more[i].seg})
  <2>1. CASE i = n + 1
    <3>1. more[i] = entry
      BY <1>1, <2>1
    <3> DEFINE c == Cardinality({s \in gone : s \in Segments /\ s < entry.seg})
    <3>2. c \in Nat /\ entry.seg - 1 = first + n + c
      OBVIOUS
    <3> HIDE DEF c
    <3>3. entry.seg >= first + i /\ entry.seg - (first + i) = c
      BY <1>1, <1>2, <2>1, <3>2
    <3> QED  BY <3>1, <3>3 DEF c
  <2>2. CASE i # n + 1
    <3>1. i \in 1..n
      BY <1>1, <2>2
    <3> QED  BY <1>1, <3>1 DEF NumberedIn
  <2> QED  BY <2>1, <2>2
<1>6. NumberedIn(more, first, gone)
  BY <1>4, <1>5 DEF NumberedIn
<1> QED  BY <1>6 DEF more

-----------------------------------------------------------------------------
(* The order of the segments.                                               *)

\* An event of segment s waits in the channel, or may still reach the watcher.
Came(s) == \E n \in 1..Len(events) : events[n] = s
MayCome(s) == \/ Came(s)
              \/ pc = "read" /\ current = s
              \/ s = produced /\ ~Complete(s)

\* The events come in the order of the segments.
EventsAscend ==
    /\ \A i, l \in 1..Len(events) :
          i < l /\ events[i] \in Segments /\ events[l] \in Segments => events[i] <= events[l]
    /\ \A s \in Segments : MayCome(s) => s <= produced
    /\ pc = "read" /\ current \in Segments => \A s \in Segments : Came(s) => current <= s

\* What was handed over is not newer than what may still come, ...
QueuedEarlier ==
    \A x \in Segments : Queued(x) =>
        x <= produced /\ \A s \in Segments : MayCome(s) => x <= s

\* ... and is not processed again: the name is known, or the file is gone first.
NotTwice ==
    \A s \in Segments : Queued(s) /\ MayCome(s) /\ s \in exists =>
        s \in processed \/ (pc = "remove" /\ current = s)

\* No segment is lost in between, and a file is only removed once it was handed over.
Accounted == \A s \in 1..produced : Queued(s) \/ s \in missed \/ MayCome(s)
StillThere == \A s \in 1..produced : s \in exists \/ Queued(s)
RemovedQueued ==
    /\ \A s \in processed : Queued(s)
    /\ pc = "remove" => Queued(current)
    /\ \A t \in DOMAIN tasks : Queued(tasks[t].of)
MissedApart == \A s \in Segments : s \in missed => ~Queued(s)

EventPart ==
    /\ EventsAscend
    /\ QueuedEarlier
    /\ NotTwice
    /\ Accounted
    /\ StillThere
    /\ RemovedQueued
    /\ MissedApart

\* segment_count counts the segments handed over, and processed_segments is emptied
\* each time it has counted ProcessedLimit + 1 more.
Counted == segment_count = Cardinality({s \in Segments : Queued(s)})
Cleared ==
    /\ Cardinality(processed) <= ProcessedLimit
    /\ \E k \in Nat : segment_count = k * (ProcessedLimit + 1) + Cardinality(processed)

\* The window is numbered as the playlists are, and ends with the newest segment.
WindowNumbered ==
    /\ NumberedIn(segments, media_sequence, missed)
    /\ \A x \in Segments : Queued(x) => segments # <<>> /\ x <= segments[Len(segments)].seg

NumberPart == Counted /\ Cleared /\ WindowNumbered

\* NumberedAsProduced, with the name of its parts.
PlaylistsNumbered ==
    \A n \in 1..Len(queue) : queue[n].kind = "playlist" =>
        NumberedIn(queue[n].window, queue[n].first, missed)

\* Before the watch there is nothing but ffmpeg's files.
Fresh ==
    /\ events = <<>> /\ queue = <<>> /\ segments = <<>> /\ tasks = <<>>
    /\ segment_count = 0 /\ processed = {}
    /\ 1..produced \subseteq exists

OrderInv ==
    /\ listed # 0 => Complete(listed)
    /\ pc = "spawned" => Fresh
    /\ Watching => EventPart /\ NumberPart
    /\ PlaylistsNumbered


-----------------------------------------------------------------------------
(* What does not change keeps its numbers.                                  *)

\* NumberedAsProduced, one playlist at a time.
LEMMA NumberedIsIn ==
    NumberedAsProduced <=> PlaylistsNumbered
<1>1. ASSUME NEW n \in 1..Len(queue)
      PROVE  (LET window == queue[n].window
                  Before(i) == IF i = 1 THEN 0 ELSE window[i - 1].seg
              IN  /\ \A i \in 2..Len(window) :
                        /\ window[i].seg > Before(i)
                        /\ Before(i) + 1..window[i].seg - 1 \subseteq missed
                  /\ \A i \in 1..Len(window) :
                        /\ window[i].seg >= queue[n].first + i
                        /\ window[i].seg - (queue[n].first + i)
                             = Cardinality({s \in missed : s \in Segments /\ s < window[i].seg}))
               <=> NumberedIn(queue[n].window, queue[n].first, missed)
  <2>1. \A i \in 2..Len(queue[n].window) : i # 1
    OBVIOUS
  <2> QED  BY <2>1 DEF NumberedIn
<1> QED  BY <1>1 DEF NumberedAsProduced, PlaylistsNumbered

\* What a playlist job holds.
LEMMA PlaylistIs ==
    ASSUME NEW q \in Seq(Jobs), NEW n \in 1..Len(q), q[n].kind = "playlist"
    PROVE  q[n].window \in Seq(Entry) /\ q[n].first \in Nat
<1>1. q[n] \in Jobs
  OBVIOUS
<1> QED  BY <1>1 DEF Jobs

\* A segment that is missed, or no longer missed, once all that is listed is older.
Later(s) == \A x \in Segments : Queued(x) => x <= s

\* The playlists that were handed over.
LEMMA PlaylistsStay ==
    ASSUME JobsInv, PlaylistsNumbered, NEW left,
           \A s \in Segments : (s \in left <=> s \in missed) \/ Later(s),
           NEW n \in 1..Len(queue), queue[n].kind = "playlist"
    PROVE  NumberedIn(queue[n].window, queue[n].first, left)
<1>1. queue[n].window \in Seq(Entry) /\ queue[n].first \in Nat
  BY PlaylistIs DEF JobsInv
<1>2. NumberedIn(queue[n].window, queue[n].first, missed)
  BY DEF PlaylistsNumbered
<1>3. ASSUME NEW i \in 1..Len(queue[n].window)
      PROVE  queue[n].window[i].seg \in Segments /\ Queued(queue[n].window[i].seg)
  <2>1. PICK m \in 1..n - 1 : /\ queue[m].kind = "segment"
                              /\ queue[m].seg = queue[n].window[i].seg
    BY DEF JobsInv, Closed
  <2>2. m \in 1..Len(queue)
    BY <2>1 DEF JobsInv
  <2> QED  BY <1>1, <2>1, <2>2, EntryIs DEF Queued
<1>4. \A s \in Segments : \/ s \in left <=> s \in missed
                          \/ \A i \in 1..Len(queue[n].window) : queue[n].window[i].seg <= s
  BY <1>3 DEF Later
<1> QED  BY <1>1, <1>2, <1>4, NumberedStays

\* The window.
LEMMA WindowStays ==
    ASSUME WindowInv, JobsInv, NumberedIn(segments, media_sequence, missed), NEW left,
           \A s \in Segments : (s \in left <=> s \in missed) \/ Later(s)
    PROVE  NumberedIn(segments, media_sequence, left)
<1>1. segments \in Seq(Entry) /\ media_sequence \in Nat
  BY DEF WindowInv, WindowType
<1>2. \A i \in 1..Len(segments) : segments[i].seg \in Segments /\ Queued(segments[i].seg)
  BY <1>1, EntryIs DEF JobsInv, Has, Queued
<1>3. \A s \in Segments : \/ s \in left <=> s \in missed
                          \/ \A i \in 1..Len(segments) : segments[i].seg <= s
  BY <1>2 DEF Later
<1> QED  BY <1>1, <1>3, NumberedStays

\* A step that hands over no segment.
LEMMA NumbersStay ==
    ASSUME WindowInv, JobsInv, NumberPart,
           \A x \in Segments : Queued(x)' <=> Queued(x),
           UNCHANGED <<segments, media_sequence, segment_count, processed>>,
           \A s \in Segments : (s \in missed' <=> s \in missed) \/ Later(s)
    PROVE  NumberPart'
<1>1. NumberedIn(segments, media_sequence, missed')
  BY WindowStays DEF NumberPart, WindowNumbered
<1>2. NumberedIn(segments, media_sequence, missed)'
  BY <1>1 DEF NumberedIn
<1>3. {s \in Segments : Queued(s)}' = {s \in Segments : Queued(s)}
  OBVIOUS
<1>4. Counted'
  BY <1>3 DEF NumberPart, Counted
<1>5. Cleared'
  BY DEF NumberPart, Cleared
<1> QED  BY <1>2, <1>4, <1>5 DEF NumberPart, WindowNumbered

\* The same for the playlists, whose jobs stay.
LEMMA PlaylistsKeepNumbers ==
    ASSUME JobsInv, PlaylistsNumbered, queue' = queue,
           \A s \in Segments : (s \in missed' <=> s \in missed) \/ Later(s)
    PROVE  PlaylistsNumbered'
<1>1. \A n \in 1..Len(queue) : queue[n].kind = "playlist" =>
         NumberedIn(queue[n].window, queue[n].first, missed')
  BY PlaylistsStay
<1> QED  BY <1>1 DEF PlaylistsNumbered, NumberedIn

-----------------------------------------------------------------------------
(* The events.                                                              *)

\* A step that hands over nothing keeps the order of the segments.
LEMMA EventsStay ==
    ASSUME FileType, EventPart, EventsAscend', UNCHANGED <<produced, processed>>,
           \A s \in Segments : Queued(s)' <=> Queued(s),
           \A s \in Segments : MayCome(s)' => MayCome(s),
           \A s \in Segments : MayCome(s) => MayCome(s)' \/ Queued(s) \/ s \in missed',
           \A s \in Segments : s \in missed => s \in missed',
           \A s \in Segments : s \in missed' => ~Queued(s),
           \A s \in Segments : s \in exists' => s \in exists,
           \A s \in Segments : s \in exists => s \in exists' \/ Queued(s),
           pc' = "remove" => pc = "remove" /\ current' = current,
           pc = "remove" => pc' = "remove" \/ current \notin exists',
           \A t \in DOMAIN tasks' : \E u \in DOMAIN tasks : tasks'[t].of = tasks[u].of,
           \A t \in DOMAIN tasks : tasks[t].of \in Segments
    PROVE  EventPart'
<1>0. /\ produced \in Nat /\ 1..produced \subseteq Segments /\ processed \subseteq Segments
      /\ pc = "remove" => current \in Segments
  BY WatcherAssumption DEF FileType, Segments
<1>1. QueuedEarlier'
  BY DEF EventPart, QueuedEarlier
<1>2. NotTwice'
  BY DEF EventPart, NotTwice
<1>3. Accounted'
  BY <1>0 DEF EventPart, Accounted
<1>4. StillThere'
  BY <1>0 DEF EventPart, StillThere
<1>5. RemovedQueued'
  BY <1>0 DEF EventPart, RemovedQueued
<1>6. MissedApart'
  BY DEF MissedApart
<1> QED  BY <1>1, <1>2, <1>3, <1>4, <1>5, <1>6 DEF EventPart

\* The event in hand is done with.
LEMMA AfterRead ==
    ASSUME FileType, EventsAscend, pc = "read", pc' \in {"recv", "remove"},
           UNCHANGED <<events, written, produced>>
    PROVE  /\ EventsAscend'
           /\ \A s \in Segments : MayCome(s)' => MayCome(s)
           /\ \A s \in Segments : MayCome(s) => MayCome(s)' \/ s = current
           /\ current \in Segments =>
                 /\ MayCome(current)
                 /\ \A s \in Segments : MayCome(s)' => current <= s
<1>1. \A s \in Segments : MayCome(s)' => MayCome(s)
  BY DEF MayCome, Came, Complete
<1>2. \A s \in Segments : MayCome(s) => MayCome(s)' \/ s = current
  BY DEF MayCome, Came, Complete
<1>3. current \in Segments => MayCome(current)
  BY DEF MayCome
<1>4. ASSUME current \in Segments, NEW s \in Segments, MayCome(s)' PROVE current <= s
  <2>1. CASE Came(s)
    BY <1>4, <2>1 DEF EventsAscend
  <2>2. CASE s = produced
    BY <1>3, <1>4, <2>2 DEF EventsAscend
  <2> QED  BY <1>4, <2>1, <2>2 DEF MayCome, Came
<1>5. EventsAscend'
  BY <1>1 DEF EventsAscend
<1> QED  BY <1>1, <1>2, <1>3, <1>4, <1>5

\* The watcher takes an event.
LEMMA RecvAscends ==
    ASSUME FileType, EventsAscend, Recv
    PROVE  /\ EventsAscend'
           /\ \A s \in Segments : MayCome(s)' <=> MayCome(s)
<1> DEFINE n == Len(events)
<1>1. /\ events \in Seq(Files) /\ n \in Nat /\ n # 0
      /\ current' = events[1] /\ pc = "recv" /\ pc' = "read"
      /\ Len(events') = n - 1
      /\ \A i \in 1..(n - 1) : events'[i] = events[i + 1]
      /\ UNCHANGED <<written, produced>>
  BY DEF FileType, Recv, ffmpeg
<1>0. \A i, l \in 1..n :
         i < l /\ events[i] \in Segments /\ events[l] \in Segments => events[i] <= events[l]
  BY DEF EventsAscend
<1>00. \A s : Came(s) <=> \E i \in 1..n : events[i] = s
  BY DEF Came
<1> HIDE DEF n
<1>2. 1 \in 1..n /\ \A i \in 1..(n - 1) : i + 1 \in 1..n /\ i + 1 > 1
  BY <1>1
<1>3. \A s : Came(s)' <=> \E i \in 1..(n - 1) : events[i + 1] = s
  BY <1>1 DEF Came
<1>4. ASSUME NEW s \in Segments PROVE MayCome(s)' <=> MayCome(s)
  <2>1. ASSUME NEW i \in 1..n, events[i] = s
        PROVE  current' = s \/ \E k \in 1..(n - 1) : events[k + 1] = s
    <3>1. CASE i = 1
      BY <1>1, <2>1, <3>1
    <3>2. CASE i # 1
      <4>1. i - 1 \in 1..(n - 1) /\ (i - 1) + 1 = i
        BY <1>1, <3>2
      <4> QED  BY <2>1, <4>1
    <3> QED  BY <3>1, <3>2
  <2>2. Came(s) <=> current' = s \/ Came(s)'
    BY <1>00, <1>1, <1>2, <1>3, <2>1
  <2> QED  BY <1>1, <2>2 DEF MayCome, Complete
<1>5. ASSUME NEW i \in 1..(n - 1), NEW l \in 1..(n - 1), i < l,
             events'[i] \in Segments, events'[l] \in Segments
      PROVE  events'[i] <= events'[l]
  <2>1. i + 1 \in 1..n /\ l + 1 \in 1..n /\ i + 1 < l + 1
    BY <1>1, <1>5
  <2> QED  BY <1>0, <1>1, <1>5, <2>1
<1>6. ASSUME current' \in Segments, NEW s \in Segments, Came(s)' PROVE current' <= s
  <2>1. PICK i \in 1..(n - 1) : events[i + 1] = s
    BY <1>3, <1>6
  <2> QED  BY <1>0, <1>1, <1>2, <1>6, <2>1
<1>7. \A s \in Segments : MayCome(s)' => s <= produced'
  BY <1>1, <1>4 DEF EventsAscend
<1> QED  BY <1>1, <1>4, <1>5, <1>6, <1>7 DEF EventsAscend

\* ffmpeg's events are of the newest segment, and of one that was not complete.
LEMMA NotifiedOrder ==
    ASSUME FileType, EventPart, Watching,
           NEW f \in Files, NEW names \in Seq({f}), Notify(names),
           UNCHANGED <<pc, current, queue, processed, missed, tasks>>,
           produced' \in {produced, produced + 1}, f \in Segments => f = produced',
           \A s \in Segments : s \in exists' => s \in exists \/ s > produced,
           \A s \in Segments : s \in exists => s \in exists',
           produced' # produced => /\ produced' \in exists' \cap Segments
                                   /\ f = produced' /\ names # <<>>,
           \A s \in Segments :
               s = produced' /\ (~Complete(s)' \/ (s = f /\ names # <<>>)) =>
                   s > produced \/ ~Complete(s),
           produced \in Segments /\ ~Complete(produced) =>
               \/ Queued(produced)
               \/ /\ produced' = produced
                  /\ ~Complete(produced)' \/ (f = produced /\ names # <<>>)
    PROVE  EventPart'
<1>0. /\ produced \in Nat /\ produced' \in Nat /\ produced <= produced'
      /\ Len(events) \in Nat /\ Segments \subseteq Nat
      /\ 1..produced \subseteq Segments
      /\ \A s \in 1..produced' : s \in 1..produced \/ (s = produced' /\ produced' # produced)
  BY WatcherAssumption DEF FileType, Segments
<1>1. /\ \A i \in 1..Len(events') :
            \/ i \in 1..Len(events) /\ events'[i] = events[i]
            \/ Watching /\ names # <<>> /\ i > Len(events) /\ events'[i] = f
      /\ \A i \in 1..Len(events) : i \in 1..Len(events') /\ events'[i] = events[i]
      /\ names # <<>> => \E i \in 1..Len(events') : events'[i] = f
  BY NotifyIs DEF FileType
<1>2. /\ \A s : Came(s) => Came(s)'
      /\ \A s : Came(s)' => Came(s) \/ (s = f /\ names # <<>>)
      /\ names # <<>> => Came(f)'
  BY <1>1 DEF Came
<1>3. /\ \A s \in Segments : Queued(s)' <=> Queued(s)
      /\ \A s \in Segments : Came(s) => s <= produced
      /\ pc = "read" /\ current \in Segments => current <= produced
  BY DEF Queued, EventPart, EventsAscend, MayCome
<1>4. ASSUME NEW s \in Segments, MayCome(s)' PROVE MayCome(s) \/ (s = produced' /\ s > produced)
  <2>1. CASE s = f /\ names # <<>>
    BY <1>0, <2>1 DEF MayCome
  <2>2. CASE s = produced' /\ ~Complete(s)'
    BY <1>0, <2>2 DEF MayCome
  <2> QED  BY <1>2, <1>4, <2>1, <2>2 DEF MayCome
<1>5. EventsAscend'
  <2>1. ASSUME NEW i \in 1..Len(events'), NEW l \in 1..Len(events'), i < l,
               events'[i] \in Segments, events'[l] \in Segments
        PROVE  events'[i] <= events'[l]
    <3>1. CASE l \in 1..Len(events) /\ events'[l] = events[l]
      <4>1. i \in 1..Len(events)
        BY <1>0, <2>1, <3>1
      <4> QED  BY <1>1, <2>1, <3>1, <4>1 DEF EventPart, EventsAscend
    <3>2. CASE events'[l] = f
      <4>1. f = produced'
        BY <2>1, <3>2
      <4>2. PICK s \in Segments : s = events'[i]
        BY <2>1
      <4>3. Came(s)'
        BY <4>2 DEF Came
      <4>4. s <= produced'
        BY <1>0, <1>2, <1>3, <4>1, <4>2, <4>3
      <4> QED  BY <3>2, <4>1, <4>2, <4>4
    <3> QED  BY <1>1, <3>1, <3>2
  <2>2. ASSUME NEW s \in Segments, MayCome(s)' PROVE s <= produced'
    BY <1>0, <1>4, <2>2 DEF EventPart, EventsAscend
  <2>3. ASSUME pc = "read", current \in Segments, NEW s \in Segments, Came(s)'
        PROVE  current <= s
    <3>1. CASE Came(s)
      BY <2>3, <3>1 DEF EventPart, EventsAscend
    <3>2. CASE s = f
      BY <1>0, <1>3, <2>3, <3>2
    <3> QED  BY <1>2, <2>3, <3>1, <3>2
  <2> QED  BY <2>1, <2>2, <2>3 DEF EventsAscend
<1>6. QueuedEarlier'
  <2>1. ASSUME NEW x \in Segments, Queued(x)
        PROVE  x <= produced' /\ \A s \in Segments : MayCome(s)' => x <= s
    <3>1. x <= produced /\ \A s \in Segments : MayCome(s) => x <= s
      BY <2>1 DEF EventPart, QueuedEarlier
    <3> QED  BY <1>0, <1>4, <3>1
  <2> QED  BY <1>3, <2>1 DEF QueuedEarlier
<1>7. NotTwice'
  <2>1. ASSUME NEW s \in Segments, Queued(s), MayCome(s)', s \in exists'
        PROVE  MayCome(s) /\ s \in exists
    <3>1. s <= produced /\ s \in Nat
      BY <1>0, <2>1 DEF EventPart, QueuedEarlier
    <3> QED  BY <1>0, <1>4, <2>1, <3>1
  <2> QED  BY <1>3, <2>1 DEF EventPart, NotTwice
<1>8. Accounted'
  <2>1. ASSUME NEW s \in 1..produced PROVE Queued(s) \/ s \in missed \/ MayCome(s)'
    <3>1. Queued(s) \/ s \in missed \/ MayCome(s)
      BY DEF EventPart, Accounted
    <3>2. CASE Came(s) \/ (pc = "read" /\ current = s)
      BY <1>2, <3>2 DEF MayCome
    <3>3. CASE s = produced /\ ~Complete(s)
      BY <1>0, <1>2, <3>3 DEF MayCome
    <3> QED  BY <3>1, <3>2, <3>3 DEF MayCome
  <2>2. produced' # produced => MayCome(produced)'
    BY <1>2 DEF MayCome
  <2>3. ASSUME NEW s \in 1..produced' PROVE Queued(s) \/ s \in missed \/ MayCome(s)'
    BY <1>0, <2>1, <2>2
  <2> QED  BY <2>3 DEF Accounted, Queued
<1>9. StillThere'
  <2>1. ASSUME NEW s \in 1..produced' PROVE s \in exists' \/ Queued(s)
    BY <1>0 DEF EventPart, StillThere
  <2> QED  BY <2>1 DEF StillThere, Queued
<1>10. RemovedQueued'
  BY DEF EventPart, RemovedQueued, Queued
<1>11. MissedApart'
  BY <1>3 DEF EventPart, MissedApart
<1> QED  BY <1>5, <1>6, <1>7, <1>8, <1>9, <1>10, <1>11 DEF EventPart

\* The numbers and the jobs are left alone.
LEMMA SameNumbers ==
    ASSUME WindowInv, JobsInv, PlaylistsNumbered,
           UNCHANGED <<queue, segments, media_sequence, segment_count, processed, missed>>
    PROVE  /\ NumberPart => NumberPart'
           /\ PlaylistsNumbered'
<1>1. \A x \in Segments : Queued(x)' <=> Queued(x)
  BY DEF Queued
<1> QED  BY <1>1, NumbersStay, PlaylistsKeepNumbers

\* A step of ffmpeg, as NotifiedOrder wants it.
LEMMA NotifiedKeeps ==
    ASSUME WindowInv, JobsInv, FileType, OrderInv,
           NEW f \in Files, NEW names \in Seq({f}), Notify(names),
           UNCHANGED <<pc, current, queue, tasks, segments, media_sequence, segment_count,
                       processed, missed>>,
           listed' # 0 => Complete(listed)',
           produced' \in {produced, produced + 1}, f \in Segments => f = produced',
           \A s \in Segments : s \in exists' => s \in exists \/ s > produced,
           \A s \in Segments : s \in exists => s \in exists',
           produced' # produced => /\ produced' \in exists' \cap Segments
                                   /\ f = produced' /\ names # <<>>,
           \A s \in Segments :
               s = produced' /\ (~Complete(s)' \/ (s = f /\ names # <<>>)) =>
                   s > produced \/ ~Complete(s),
           Watching /\ produced \in Segments /\ ~Complete(produced) =>
               \/ Queued(produced)
               \/ /\ produced' = produced
                  /\ ~Complete(produced)' \/ (f = produced /\ names # <<>>)
    PROVE  OrderInv'
<1>1. PlaylistsNumbered' /\ (NumberPart => NumberPart')
  BY SameNumbers DEF OrderInv
<1>2. Watching' <=> Watching
  BY DEF Watching
<1>3. Watching => EventPart'
  BY NotifiedOrder DEF OrderInv
<1>4. ASSUME pc = "spawned" PROVE Fresh'
  <2>1. events' = events
    BY <1>4 DEF Notify, Watching
  <2>2. 1..produced \subseteq exists /\ 1..produced \subseteq Segments /\ produced \in Nat
    BY <1>4, WatcherAssumption DEF OrderInv, Fresh, FileType, Segments
  <2>3. 1..produced' \subseteq exists'
    BY <2>2
  <2> QED  BY <1>4, <2>1, <2>3 DEF OrderInv, Fresh
<1> QED  BY <1>1, <1>2, <1>3, <1>4 DEF OrderInv

\* The steps of ffmpeg.
LEMMA FfmpegOrder == WindowInv /\ JobsInv /\ FileType /\ OrderInv /\ Ffmpeg => OrderInv'
<1> SUFFICES ASSUME WindowInv, JobsInv, FileType, OrderInv, Ffmpeg PROVE OrderInv'
  OBVIOUS
<1>0. /\ produced \in Nat /\ listed \in 0..produced /\ written \in [Media -> 0..Full]
      /\ InitFile \in Media /\ Media \subseteq Files /\ InitFile \notin Nat
      /\ Segments \subseteq Nat \ {0} /\ Segments \subseteq Media /\ InitFile \notin Segments
      /\ \A s \in Media : s # InitFile => s \in Segments
      /\ 1..produced \subseteq Segments
      /\ listed # 0 => Complete(listed)
  BY FilesApart, WatcherAssumption DEF FileType, Segments, Media, OrderInv
<1>1. ASSUME NEW f \in Media, Open(f) PROVE OrderInv'
  <2>1. PICK names \in {<<f>>, <<f, f>>} : Notify(names)
    BY <1>1 DEF Open
  <2>2. names \in Seq({f}) /\ names # <<>> /\ f \in Files
    BY <1>0, <2>1, OneName
  <2>3. /\ UNCHANGED <<pc, current, queue, tasks, segments, media_sequence, segment_count,
                       processed, missed, listed>>
        /\ exists' = exists \cup {f}
        /\ \A s \in Media \ {f} : Complete(s)' <=> Complete(s)
    BY <1>0, <1>1 DEF Open, state, shots, Complete
  <2>4. CASE f = InitFile
    <3>1. /\ produced' = produced
          /\ \A s \in Segments : Complete(s)' <=> Complete(s)
          /\ \A s \in Segments : s \in exists' <=> s \in exists
      BY <1>0, <1>1, <2>3, <2>4 DEF Open
    <3>2. listed' # 0 => Complete(listed)'
      <4>1. listed # 0 => listed \in Segments
        BY <1>0
      <4> QED  BY <1>0, <2>3, <3>1, <4>1 DEF Complete
    <3> QED  BY <1>0, <2>1, <2>2, <2>3, <2>4, <3>1, <3>2, NotifiedKeeps
  <2>5. CASE f # InitFile
    <3>1. f = produced + 1 /\ produced' = f /\ listed = produced /\ f \in Segments
      BY <1>0, <1>1, <2>5 DEF Open, CanOpen
    <3>2. /\ produced # 0 => Complete(produced)
          /\ listed' # 0 => Complete(listed)'
      <4>1. listed # 0 => listed \in Media \ {f}
        BY <1>0, <3>1
      <4> QED  BY <1>0, <2>3, <3>1, <4>1 DEF Complete
    <3>3. \A s \in Segments : s \in exists' => s \in exists \/ s > produced
      BY <1>0, <2>3, <3>1
    <3>4. produced' > produced /\ produced' \in exists' \cap Segments
      BY <1>0, <2>3, <3>1
    <3>5. produced \in Segments => Complete(produced)
      BY <1>0, <3>2
    <3> QED  BY <1>0, <2>1, <2>2, <2>3, <3>1, <3>2, <3>3, <3>4, <3>5, NotifiedKeeps
  <2> QED  BY <2>4, <2>5
<1>2. ASSUME NEW f \in Media, Write(f) PROVE OrderInv'
  <2>1. PICK names \in {<<>>, <<f>>} : Notify(names) /\ (f \in exists => names = <<f>>)
    BY <1>2 DEF Write
  <2>2. names \in Seq({f}) /\ f \in Files /\ (f \in exists => names # <<>>)
    BY <1>0, <2>1, OneName
  <2>3. /\ UNCHANGED <<pc, current, queue, tasks, segments, media_sequence, segment_count,
                       processed, missed, listed, produced, exists>>
        /\ \A s \in Media \ {f} : Complete(s)' <=> Complete(s)
        /\ ~Complete(f)
        /\ f = produced \/ f = InitFile
    BY <1>0, <1>2 DEF Write, state, shots, disk, Complete, Full
  <2>4. listed' # 0 => Complete(listed)'
    <3>1. listed # 0 => listed \in Media \ {f}
      BY <1>0, <2>3
    <3> QED  BY <1>0, <2>3, <3>1 DEF Complete
  <2>5. ASSUME Watching, produced \in Segments, f = produced
        PROVE  Queued(produced) \/ names # <<>>
    <3>1. produced \in 1..produced
      BY <1>0, <2>5
    <3> QED  BY <2>2, <2>5, <3>1 DEF OrderInv, EventPart, StillThere
  <2>6. \A s \in Segments : ~Complete(s)' => ~Complete(s)
    BY <1>0, <2>3
  <2>7. Watching /\ produced \in Segments /\ ~Complete(produced) =>
          Queued(produced) \/ ~Complete(produced)' \/ (f = produced /\ names # <<>>)
    <3>1. produced \in Segments /\ f # produced => (Complete(produced)' <=> Complete(produced))
      BY <1>0, <2>3 DEF Complete
    <3> QED  BY <2>5, <3>1
  <2> QED  BY <1>0, <2>1, <2>2, <2>3, <2>4, <2>6, <2>7, NotifiedKeeps
<1>3. ASSUME List PROVE OrderInv'
  <2> DEFINE names == <<Playlist, Playlist>>
  <2>1. names \in Seq({Playlist}) /\ Notify(names)
    BY <1>3, OneName DEF List
  <2> HIDE DEF names
  <2>2. Playlist \in Files /\ Playlist \notin Segments
    BY FilesApart
  <2>3. /\ UNCHANGED <<pc, current, queue, tasks, segments, media_sequence, segment_count,
                       processed, missed, produced>>
        /\ listed' = produced /\ Complete(produced)
        /\ exists' = exists \cup {Playlist}
        /\ \A s : Complete(s)' <=> Complete(s)
    BY <1>3 DEF List, state, shots, Complete
  <2>4. listed' # 0 => Complete(listed)'
    BY <1>3, <2>3 DEF List, Complete
  <2> QED  BY <1>0, <2>1, <2>2, <2>3, <2>4, NotifiedKeeps
<1> QED  BY <1>1, <1>2, <1>3 DEF Ffmpeg

\* What a task removes was handed over.
LEMMA TasksAre == TaskInv => \A t \in DOMAIN tasks : tasks[t].of \in Segments
<1> SUFFICES ASSUME TaskInv, NEW t \in DOMAIN tasks PROVE tasks[t].of \in Segments
  OBVIOUS
<1>1. tasks[t] \in Tasks
  BY DEF TaskInv, ShotType
<1> QED  BY <1>1 DEF Tasks

\* The first poll: everything ffmpeg has opened is there, and missed.
LEMMA WatchOrder == FileType /\ OrderInv /\ Watch => OrderInv'
<1> SUFFICES ASSUME FileType, OrderInv, Watch PROVE OrderInv'
  OBVIOUS
<1>1. /\ Fresh /\ pc' = "recv" /\ missed' = exists \cap Media
      /\ UNCHANGED <<exists, events, queue, tasks, written, produced, listed, segments,
                     media_sequence, segment_count, processed>>
  BY DEF Watch, OrderInv, disk, shots, ffmpeg
<1>2. /\ events' = <<>> /\ queue' = <<>> /\ segments' = <<>> /\ tasks' = <<>>
      /\ segment_count' = 0 /\ processed' = {} /\ 1..produced' \subseteq exists'
      /\ 1..produced' \subseteq missed' /\ produced' \in Nat
  <2>1. 1..produced \subseteq Media /\ produced \in Nat
    BY WatcherAssumption DEF FileType, Media, Segments
  <2> QED  BY <1>1, <2>1 DEF Fresh
<1>3. (\A s : ~Queued(s))' /\ (\A s : ~Came(s))'
  BY <1>2 DEF Queued, Came
<1>4. EventPart'
  <2>1. (\A s \in Segments : MayCome(s) => s <= produced)'
    BY <1>1, <1>2, <1>3, SegmentsAre DEF MayCome
  <2>2. EventsAscend'
    BY <1>1, <1>2, <2>1 DEF EventsAscend
  <2> QED
    BY <1>1, <1>2, <1>3, <2>2
    DEF EventPart, QueuedEarlier, NotTwice, Accounted, StillThere, RemovedQueued, MissedApart
<1>5. NumberPart'
  <2>1. {s \in Segments : Queued(s)}' = {} /\ Cardinality({}) = 0
    BY <1>3, FS_EmptySet
  <2>2. Counted'
    BY <1>2, <2>1 DEF Counted
  <2>3. Cleared'
    <3>1. 0 \in Nat /\ 0 = 0 * (ProcessedLimit + 1) + 0 /\ 0 <= ProcessedLimit
      BY WatcherAssumption
    <3> QED  BY <1>2, <2>1, <3>1 DEF Cleared
  <2>4. WindowNumbered'
    BY <1>2, <1>3 DEF WindowNumbered, NumberedIn
  <2> QED  BY <2>2, <2>3, <2>4 DEF NumberPart
<1>6. PlaylistsNumbered'
  BY <1>2 DEF PlaylistsNumbered
<1> QED  BY <1>1, <1>4, <1>5, <1>6 DEF OrderInv, Complete

\* A step that hands over no segment and keeps the window.
LEMMA QuietOrder ==
    ASSUME WindowInv, JobsInv, FileType, TaskInv, OrderInv, Watching, EventsAscend',
           pc' # "spawned", UNCHANGED <<written, listed, produced, queue, segments,
                                        media_sequence, segment_count, processed>>,
           \A s \in Segments : (s \in missed' <=> s \in missed) \/ Later(s),
           \A s \in Segments : MayCome(s)' => MayCome(s),
           \A s \in Segments : MayCome(s) => MayCome(s)' \/ Queued(s) \/ s \in missed',
           \A s \in Segments : s \in missed => s \in missed',
           \A s \in Segments : s \in missed' => ~Queued(s),
           \A s \in Segments : s \in exists' => s \in exists,
           \A s \in Segments : s \in exists => s \in exists' \/ Queued(s),
           pc' = "remove" => pc = "remove" /\ current' = current,
           pc = "remove" => pc' = "remove" \/ current \notin exists',
           \A t \in DOMAIN tasks' : \E u \in DOMAIN tasks : tasks'[t].of = tasks[u].of
    PROVE  OrderInv'
<1>1. \A s \in Segments : Queued(s)' <=> Queued(s)
  BY DEF Queued
<1>2. EventPart'
  BY <1>1, TasksAre, EventsStay DEF OrderInv
<1>3. NumberPart' /\ PlaylistsNumbered'
  BY <1>1, NumbersStay, PlaylistsKeepNumbers DEF OrderInv
<1> QED  BY <1>2, <1>3 DEF OrderInv, Complete

\* The watcher takes an event.
LEMMA RecvOrder ==
    WindowInv /\ JobsInv /\ FileType /\ TaskInv /\ OrderInv /\ Recv => OrderInv'
<1> SUFFICES ASSUME WindowInv, JobsInv, FileType, TaskInv, OrderInv, Recv PROVE OrderInv'
  OBVIOUS
<1>1. /\ pc = "recv" /\ pc' = "read" /\ Watching
      /\ UNCHANGED <<exists, written, listed, produced, queue, tasks, segments, media_sequence,
                     segment_count, processed, missed>>
  BY DEF Recv, disk, shots, ffmpeg, state, Watching
<1>2. EventPart
  BY <1>1 DEF OrderInv
<1>3. EventsAscend' /\ \A s \in Segments : MayCome(s)' <=> MayCome(s)
  BY <1>2, RecvAscends DEF EventPart
<1>4. \A s \in Segments : s \in missed => ~Queued(s)
  BY <1>2 DEF EventPart, MissedApart
<1> QED  BY <1>1, <1>3, <1>4, QuietOrder

\* The event in hand hands over nothing: the file cannot be read, or is another one,
\* or a segment that was processed.
LEMMA ReadOrder ==
    WindowInv /\ JobsInv /\ FileType /\ TaskInv /\ OrderInv
      /\ (ReadFails \/ ReadPlaylist \/ SkipSegment) => OrderInv'
<1> SUFFICES ASSUME WindowInv, JobsInv, FileType, TaskInv, OrderInv,
                    ReadFails \/ ReadPlaylist \/ SkipSegment
             PROVE  OrderInv'
  OBVIOUS
<1>1. /\ pc = "read" /\ pc' = "recv" /\ Watching
      /\ UNCHANGED <<exists, events, written, listed, produced, queue, tasks, segments,
                     media_sequence, segment_count, processed>>
  BY DEF ReadFails, ReadPlaylist, SkipSegment, disk, shots, ffmpeg, state, Watching
<1>2. /\ EventPart /\ produced \in Nat
      /\ 1..produced \subseteq Segments /\ Segments \subseteq Nat \ {0}
  BY <1>1, WatcherAssumption DEF OrderInv, FileType, Segments
<1>3. /\ EventsAscend'
      /\ \A s \in Segments : MayCome(s)' => MayCome(s)
      /\ \A s \in Segments : MayCome(s) => MayCome(s)' \/ s = current
      /\ current \in Segments => MayCome(current)
  BY <1>1, <1>2, AfterRead DEF EventPart
<1>4. current \in Segments => Later(current) /\ current \in 1..produced
  BY <1>2, <1>3 DEF EventPart, EventsAscend, QueuedEarlier, Later
<1>5. \A s \in Segments : s \in missed => ~Queued(s)
  BY <1>2 DEF EventPart, MissedApart
<1>6. CASE ReadFails
  <2>1. missed' = missed \cup {f \in {current} \cap exists \cap Media : ~HandedOver(f)}
    BY <1>6 DEF ReadFails
  <2>2. /\ \A s \in Segments : s \in missed' => s \in missed \/ (s = current /\ ~Queued(s))
        /\ \A s \in Segments : s \in missed => s \in missed'
    BY <2>1, FilesApart DEF HandedOver
  <2>3. current \in Segments => Queued(current) \/ current \in missed'
    BY <1>2, <1>4, <2>1, FilesApart DEF EventPart, StillThere, HandedOver
  <2> QED  BY <1>1, <1>3, <1>4, <1>5, <2>2, <2>3, QuietOrder
<1>7. CASE ReadPlaylist \/ SkipSegment
  <2>1. missed' = missed
    BY <1>7 DEF ReadPlaylist, SkipSegment, state
  <2>2. current \in Segments => Queued(current)
    BY <1>2, <1>7, FilesApart DEF ReadPlaylist, SkipSegment, EventPart, RemovedQueued
  <2> QED  BY <1>1, <1>3, <1>5, <2>1, <2>2, QuietOrder
<1> QED  BY <1>6, <1>7

\* The file is removed, by the watcher or by a task.
LEMMA RemoveOrder ==
    WindowInv /\ JobsInv /\ FileType /\ TaskInv /\ OrderInv /\ RemoveSegment => OrderInv'
<1> SUFFICES ASSUME WindowInv, JobsInv, FileType, TaskInv, OrderInv, RemoveSegment
             PROVE  OrderInv'
  OBVIOUS
<1>1. /\ pc = "remove" /\ pc' = "recv" /\ Watching /\ exists' = exists \ {current}
      /\ UNCHANGED <<events, written, listed, produced, queue, tasks, segments,
                     media_sequence, segment_count, processed, missed>>
  BY DEF RemoveSegment, shots, ffmpeg, state, Watching
<1>2. EventPart
  BY <1>1 DEF OrderInv
<1>3. \A s : MayCome(s)' <=> MayCome(s)
  BY <1>1 DEF MayCome, Came, Complete
<1>4. EventsAscend'
  BY <1>1, <1>2, <1>3 DEF EventPart, EventsAscend
<1>5. Queued(current) /\ \A s \in Segments : s \in missed => ~Queued(s)
  BY <1>1, <1>2 DEF EventPart, RemovedQueued, MissedApart
<1> QED  BY <1>1, <1>3, <1>4, <1>5, QuietOrder

\* Nothing is handed over once the watch has ended.
LEMMA AsideOrder ==
    ASSUME JobsInv, OrderInv, ~Watching', pc' # "spawned",
           UNCHANGED <<written, listed, queue, missed>>
    PROVE  OrderInv'
<1>1. PlaylistsNumbered'
  BY PlaylistsKeepNumbers DEF OrderInv
<1> QED  BY <1>1 DEF OrderInv, Complete

\* The thumbnail tasks remove what was handed over; a stop ends the watch.
LEMMA OtherOrder ==
    WindowInv /\ JobsInv /\ FileType /\ TaskInv /\ OrderInv
      /\ (ThumbnailTask \/ Stop \/ WatchFails \/ RemoveDirectory \/ UNCHANGED vars) => OrderInv'
<1> SUFFICES ASSUME WindowInv, JobsInv, FileType, TaskInv, OrderInv,
                    ThumbnailTask \/ Stop \/ WatchFails \/ RemoveDirectory \/ UNCHANGED vars
             PROVE  OrderInv'
  OBVIOUS
<1>1. ASSUME NEW t \in DOMAIN tasks, ThumbnailStep(t) PROVE OrderInv'
  <2>1. UNCHANGED outside
    BY <1>1, ThumbnailTaskApart DEF ThumbnailTask
  <2>2. /\ UNCHANGED <<pc, events, current, queue, written, listed, produced, segments,
                       media_sequence, segment_count, processed, missed>>
        /\ Watching' <=> Watching
    BY <2>1 DEF outside, ffmpeg, state, Watching
  <2>3. pc # "spawned"
    <3>1. tasks # <<>>
      OBVIOUS
    <3> QED  BY <3>1 DEF OrderInv, Fresh
  <2>4. CASE ~Watching
    BY <2>2, <2>3, <2>4, AsideOrder
  <2>5. CASE Watching
    <3>1. EventPart
      BY <2>5 DEF OrderInv
    <3>2. \A s : MayCome(s)' <=> MayCome(s)
      BY <2>2 DEF MayCome, Came, Complete
    <3>3. EventsAscend'
      BY <2>2, <3>1, <3>2 DEF EventPart, EventsAscend, Came
    <3>4. exists' = exists \/ exists' = exists \ {tasks[t].of}
      BY <1>1 DEF ThumbnailStep, ReadSources, WriteCombined, RunFfmpeg, RemoveCombined,
                  RemoveSource, QueueThumbnail, RemoveThumbnail, disk
    <3>5. Queued(tasks[t].of) /\ \A s \in Segments : s \in missed => ~Queued(s)
      BY <3>1 DEF EventPart, RemovedQueued, MissedApart
    <3>6. tasks[t].result \in Results /\ tasks \in Seq(Tasks)
      <4>1. tasks[t] \in Tasks
        BY DEF TaskInv, ShotType
      <4> QED  BY <4>1 DEF Tasks, TaskInv, ShotType
    <3>7. PICK label \in Labels, result \in Results : SetTask(t, label, result)
      BY <1>1, <3>6
      DEF ThumbnailStep, ReadSources, WriteCombined, RunFfmpeg, RemoveCombined, RemoveSource,
          AfterSource, QueueThumbnail, RemoveThumbnail, Labels, Results
    <3>8. /\ DOMAIN tasks' = DOMAIN tasks /\ tasks'[t].of = tasks[t].of
          /\ \A u \in DOMAIN tasks \ {t} : tasks'[u] = tasks[u]
      BY <3>6, <3>7, SetTaskTasks DEF Labels
    <3>9. \A v \in DOMAIN tasks' : \E u \in DOMAIN tasks : tasks'[v].of = tasks[u].of
      BY <3>8
    <3> QED  BY <2>2, <2>3, <2>5, <3>2, <3>3, <3>4, <3>5, <3>9, QuietOrder
  <2> QED  BY <2>4, <2>5
<1>2. ASSUME Stop \/ WatchFails PROVE OrderInv'
  BY <1>2, AsideOrder DEF Stop, WatchFails, ffmpeg, state, Watching
<1>3. ASSUME RemoveDirectory PROVE OrderInv'
  <2>1. pc = "stopped" /\ UNCHANGED outside
    BY <1>3 DEF RemoveDirectory, FileType
  <2> QED  BY <2>1, AsideOrder DEF outside, ffmpeg, state, Watching
<1>4. CASE UNCHANGED vars
  <2>1. /\ UNCHANGED <<pc, events, current, queue, tasks, exists, written, listed, produced,
                       segments, media_sequence, segment_count, processed, missed>>
        /\ Watching' <=> Watching
    BY <1>4 DEF vars, disk, shots, ffmpeg, state, Watching
  <2>2. CASE pc = "spawned"
    <3>1. Fresh' /\ ~Watching'
      BY <2>1, <2>2 DEF OrderInv, Fresh, Watching
    <3>2. PlaylistsNumbered'
      BY <2>1, PlaylistsKeepNumbers DEF OrderInv
    <3> QED  BY <2>1, <3>1, <3>2 DEF OrderInv, Complete
  <2>3. CASE pc # "spawned" /\ ~Watching
    BY <2>1, <2>3, AsideOrder
  <2>4. CASE Watching
    <3>1. EventPart /\ pc # "spawned"
      BY <2>4 DEF OrderInv, Watching
    <3>2. \A s : MayCome(s)' <=> MayCome(s)
      BY <2>1 DEF MayCome, Came, Complete
    <3>3. EventsAscend'
      BY <2>1, <3>1, <3>2 DEF EventPart, EventsAscend, Came
    <3>4. \A s \in Segments : s \in missed => ~Queued(s)
      BY <3>1 DEF EventPart, MissedApart
    <3> QED  BY <2>1, <2>4, <3>1, <3>2, <3>3, <3>4, QuietOrder
  <2> QED  BY <2>2, <2>3, <2>4
<1> QED  BY <1>1, <1>2, <1>3, <1>4 DEF ThumbnailTask

\* A job that is no segment.
LEMMA QueuedWithout ==
    ASSUME NEW q \in Seq(Jobs), NEW job, job.kind # "segment", NEW s
    PROVE  Has(Append(q, job), s) <=> Has(q, s)
<1> DEFINE n == Len(q)
           more == Append(q, job)
<1>1. /\ n \in Nat /\ Len(more) = n + 1 /\ more[n + 1] = job
      /\ \A i \in 1..n : more[i] = q[i]
  OBVIOUS
<1> HIDE DEF more
<1>2. ASSUME Has(more, s) PROVE Has(q, s)
  <2>1. PICK i \in 1..Len(more) : more[i].kind = "segment" /\ more[i].seg = s
    BY <1>2 DEF Has
  <2>2. i \in 1..n
    BY <1>1, <2>1
  <2> QED  BY <1>1, <2>1, <2>2 DEF Has
<1>3. ASSUME Has(q, s) PROVE Has(more, s)
  <2>1. PICK i \in 1..n : q[i].kind = "segment" /\ q[i].seg = s
    BY <1>3 DEF Has
  <2>2. i \in 1..Len(more)
    BY <1>1, <2>1
  <2> QED  BY <1>1, <2>1, <2>2 DEF Has
<1> QED  BY <1>2, <1>3 DEF more

\* Queued, of the queue at hand.
LEMMA QueuedIsHas == \A s : Queued(s) <=> Has(queue, s)
BY DEF Queued, Has

\* init.mp4 is handed over.
LEMMA ReadInitOrder ==
    WindowInv /\ JobsInv /\ FileType /\ TaskInv /\ OrderInv /\ ReadInit => OrderInv'
<1> SUFFICES ASSUME WindowInv, JobsInv, FileType, TaskInv, OrderInv, ReadInit PROVE OrderInv'
  OBVIOUS
<1>1. /\ pc = "read" /\ pc' = "recv" /\ Watching /\ current = InitFile
      /\ missed' = missed \ {InitFile}
      /\ UNCHANGED <<exists, events, written, listed, produced, tasks, segments,
                     media_sequence, segment_count, processed>>
  BY DEF ReadInit, disk, shots, ffmpeg, Watching
<1>2. EventPart /\ NumberPart
  BY <1>1 DEF OrderInv
<1>3. /\ EventsAscend'
      /\ \A s \in Segments : MayCome(s)' <=> MayCome(s)
      /\ \A s \in Segments : s \in missed' <=> s \in missed
  BY <1>1, <1>2, AfterRead, FilesApart DEF EventPart
<1>4. InitJob.kind = "init" /\ queue \in Seq(Jobs) /\ Len(queue) \in Nat
  BY DEF InitJob, JobsInv
<1>5. \A s \in Segments : Queued(s)' <=> Queued(s)
  <2>1. CASE queue' = queue
    BY <2>1 DEF Queued
  <2>2. CASE queue' = Append(queue, InitJob)
    <3>1. \A s : Has(queue', s) <=> Has(queue, s)
      BY <1>4, <2>2, QueuedWithout
    <3> QED  BY <3>1, QueuedIsHas DEF Queued, Has
  <2> QED  BY <2>1, <2>2 DEF ReadInit
<1>6. \A s \in Segments : s \in missed => ~Queued(s)
  BY <1>2 DEF EventPart, MissedApart
<1>7. EventPart'
  BY <1>1, <1>2, <1>3, <1>5, <1>6, TasksAre, EventsStay
<1>8. NumberPart'
  BY <1>1, <1>2, <1>3, <1>5, NumbersStay
<1>9. PlaylistsNumbered'
  <2>1. \A n \in 1..Len(queue) : queue[n].kind = "playlist" =>
           NumberedIn(queue[n].window, queue[n].first, missed')
    BY <1>3, PlaylistsStay DEF OrderInv
  <2>2. ASSUME NEW n \in 1..Len(queue'), queue'[n].kind = "playlist"
        PROVE  n \in 1..Len(queue) /\ queue'[n] = queue[n]
    BY <1>4, <2>2 DEF ReadInit
  <2>3. \A n \in 1..Len(queue') : queue'[n].kind = "playlist" =>
           NumberedIn(queue'[n].window, queue'[n].first, missed')
    BY <2>1, <2>2
  <2> QED  BY <2>3 DEF PlaylistsNumbered, NumberedIn
<1> QED  BY <1>1, <1>7, <1>8, <1>9 DEF OrderInv, Complete

-----------------------------------------------------------------------------
(* A new segment.                                                           *)

\* What an event of an unprocessed segment says of the other segments.
LEMMA NewSegment ==
    ASSUME FileType, EventPart, pc = "read", current \in (exists \cap Segments) \ processed
    PROVE  /\ current \in Nat /\ current <= produced /\ current \in 1..produced
           /\ ~Queued(current)
           /\ \A x \in Segments : Queued(x) => x < current
           /\ \A y \in 1..current - 1 : y \in Segments /\ (Queued(y) \/ y \in missed)
<1>0. /\ MayCome(current) /\ Segments \subseteq Nat \ {0} /\ produced \in Nat
      /\ 1..produced \subseteq Segments
  BY WatcherAssumption DEF MayCome, FileType, Segments
<1>1. current \in Nat \ {0} /\ current <= produced
  BY <1>0 DEF EventPart, EventsAscend
<1>2. ~Queued(current)
  BY <1>0 DEF EventPart, NotTwice
<1>3. ASSUME NEW x \in Segments, Queued(x) PROVE x < current
  <2>1. x <= current /\ x \in Nat
    BY <1>0, <1>3 DEF EventPart, QueuedEarlier
  <2>2. x # current
    BY <1>2, <1>3
  <2> QED  BY <1>1, <2>1, <2>2
<1>4. ASSUME NEW y \in 1..current - 1 PROVE y \in Segments /\ (Queued(y) \/ y \in missed)
  <2>1. y \in 1..produced /\ y < current /\ y # produced /\ y \in Segments
    BY <1>0, <1>1
  <2>2. ~MayCome(y)
    <3>1. Came(y) => current <= y
      BY <2>1 DEF EventPart, EventsAscend
    <3> QED  BY <1>1, <2>1, <3>1 DEF MayCome
  <2> QED  BY <2>1, <2>2 DEF EventPart, Accounted
<1> QED  BY <1>0, <1>1, <1>2, <1>3, <1>4

\* Its number: the segments before it were handed over or missed.
LEMMA NumberOfNew ==
    ASSUME FileType, EventPart, NumberPart, pc = "read",
           current \in (exists \cap Segments) \ processed
    PROVE  LET before == Cardinality({s \in missed : s \in Segments /\ s < current})
           IN  before \in Nat /\ segment_count \in Nat /\ current - 1 = segment_count + before
<1> DEFINE A == {s \in Segments : Queued(s)}
           B == {s \in missed : s \in Segments /\ s < current}
<1>1. /\ current \in Nat \ {0}
      /\ \A x \in Segments : Queued(x) => x < current
      /\ \A y \in 1..current - 1 : y \in Segments /\ (Queued(y) \/ y \in missed)
      /\ \A s \in Segments : s \in missed => ~Queued(s)
      /\ Segments \subseteq Nat \ {0}
  BY NewSegment, SegmentsAre DEF EventPart, MissedApart
<1>2. A \subseteq Segments /\ B \subseteq Segments
  OBVIOUS
<1>3. A \cup B = 1..current - 1
  <2>1. \A x \in A \cup B : x \in Nat \ {0} /\ x < current
    BY <1>1
  <2>2. \A x \in A \cup B : x \in 1..current - 1
    BY <1>1, <2>1
  <2>3. \A y \in 1..current - 1 : y \in A \cup B
    BY <1>1
  <2> QED  BY <2>2, <2>3
<1>4. A \cap B = {}
  BY <1>1
<1>5. segment_count = Cardinality(A)
  BY DEF NumberPart, Counted
<1> HIDE DEF A, B
<1>6. IsFiniteSet(A) /\ IsFiniteSet(B)
  BY <1>2, SegmentsAre, FS_Subset
<1>7. Cardinality(A) \in Nat /\ Cardinality(B) \in Nat
  BY <1>6, FS_CardinalityType
<1>8. Cardinality(A \cup B) = Cardinality(A) + Cardinality(B) - Cardinality(A \cap B)
  BY <1>6, FS_Union
<1>9. Cardinality(1..current - 1) = current - 1
  <2>1. current - 1 \in Nat /\ 1 \in Nat
    BY <1>1
  <2>2. Cardinality(1..current - 1) = IF 1 > current - 1 THEN 0 ELSE (current - 1) - 1 + 1
    BY <2>1, FS_Interval
  <2> QED  BY <2>1, <2>2
<1>10. Cardinality({}) = 0
  BY FS_EmptySet
<1>11. current - 1 = segment_count + Cardinality(B)
  <2>1. Cardinality(A \cap B) = 0
    BY <1>4, <1>10
  <2>2. Cardinality(A \cup B) = current - 1
    BY <1>3, <1>9
  <2>3. current - 1 = Cardinality(A) + Cardinality(B)
    BY <1>1, <1>7, <1>8, <2>1, <2>2
  <2> QED  BY <1>5, <2>3
<1> QED  BY <1>5, <1>7, <1>11 DEF B

\* The names that are left: all of them, or none at a multiple of ProcessedLimit + 1.
LEMMA MarkClears ==
    ASSUME NEW names, NEW s, NEW c \in Nat, names \subseteq Segments, s \in Segments \ names,
           Cardinality(names) <= ProcessedLimit,
           \E k \in Nat : c = k * (ProcessedLimit + 1) + Cardinality(names)
    PROVE  /\ Cardinality(MarkProcessed(names, s)) <= ProcessedLimit
           /\ \E k \in Nat : c + 1 = k * (ProcessedLimit + 1)
                                       + Cardinality(MarkProcessed(names, s))
           /\ \/ MarkProcessed(names, s) = names \cup {s}
              \/ \E k \in Nat \ {0} : c + 1 = k * (ProcessedLimit + 1)
<1>1. /\ IsFiniteSet(names) /\ Cardinality(names) \in Nat /\ ProcessedLimit \in Nat
      /\ Cardinality(names \cup {s}) = Cardinality(names) + 1
  <2>1. IsFiniteSet(names)
    BY SegmentsAre, FS_Subset
  <2> QED  BY <2>1, FS_CardinalityType, FS_AddElement, WatcherAssumption
<1>2. PICK k \in Nat : c = k * (ProcessedLimit + 1) + Cardinality(names)
  OBVIOUS
<1>3. CASE Cardinality(names \cup {s}) > ProcessedLimit
  <2>1. Cardinality(names) = ProcessedLimit
    BY <1>1, <1>3
  <2>2. c + 1 = k * (ProcessedLimit + 1) + (ProcessedLimit + 1)
    <3>1. k * (ProcessedLimit + 1) \in Nat
      BY <1>1
    <3> QED  BY <1>1, <1>2, <2>1, <3>1
  <2>3. (k + 1) * (ProcessedLimit + 1) = k * (ProcessedLimit + 1) + (ProcessedLimit + 1)
    BY <1>1
  <2>4. c + 1 = (k + 1) * (ProcessedLimit + 1) /\ k + 1 \in Nat \ {0}
    BY <2>2, <2>3
  <2>5. MarkProcessed(names, s) = {} /\ Cardinality({}) = 0
    BY <1>3, FS_EmptySet DEF MarkProcessed
  <2>6. c + 1 = (k + 1) * (ProcessedLimit + 1) + 0
    BY <2>4
  <2>7. c + 1 = (k + 1) * (ProcessedLimit + 1) + Cardinality(MarkProcessed(names, s))
    BY <2>5, <2>6
  <2>8. Cardinality(MarkProcessed(names, s)) <= ProcessedLimit
    BY <1>1, <2>5
  <2> QED  BY <2>4, <2>7, <2>8
<1>4. CASE ~(Cardinality(names \cup {s}) > ProcessedLimit)
  <2>1. MarkProcessed(names, s) = names \cup {s}
    BY <1>4 DEF MarkProcessed
  <2>2. c + 1 = k * (ProcessedLimit + 1) + (Cardinality(names) + 1)
    <3>1. k * (ProcessedLimit + 1) \in Nat
      BY <1>1
    <3>2. Cardinality(names) \in Nat
      BY <1>1
    <3> QED  BY <1>2, <3>1, <3>2
  <2>3. c + 1 = k * (ProcessedLimit + 1) + Cardinality(MarkProcessed(names, s))
    BY <1>1, <2>1, <2>2
  <2>4. Cardinality(MarkProcessed(names, s)) <= ProcessedLimit
    BY <1>1, <1>4, <2>1
  <2> QED  BY <2>1, <2>3, <2>4
<1> QED  BY <1>3, <1>4

\* The jobs after it.
LEMMA QueueWithNew ==
    ASSUME WindowInv, JobsInv, ProcessSegment
    PROVE  /\ \A s : Queued(s)' <=> Queued(s) \/ s = current
           /\ \A n \in 1..Len(queue') : queue'[n].kind = "playlist" =>
                 \/ n \in 1..Len(queue) /\ queue'[n] = queue[n]
                 \/ queue'[n].window = segments' /\ queue'[n].first = media_sequence'
<1> DEFINE n == Len(queue)
           up == SegmentJob(current)
           pl == PlaylistJob(segments', media_sequence')
<1>1. /\ queue \in Seq(Jobs) /\ n \in Nat /\ queue' = queue \o <<up, pl>>
      /\ up.kind = "segment" /\ up.seg = current
      /\ pl.kind = "playlist" /\ pl.window = segments' /\ pl.first = media_sequence'
  BY DEF JobsInv, ProcessSegment, SegmentJob, PlaylistJob
<1> HIDE DEF up, pl
<1>2. /\ Len(queue') = n + 2 /\ queue'[n + 1] = up /\ queue'[n + 2] = pl
      /\ \A i \in 1..n : queue'[i] = queue[i]
  BY <1>1
<1> HIDE DEF n
<1>3. /\ \A i \in 1..(n + 2) : i \in 1..n \/ i = n + 1 \/ i = n + 2
      /\ \A i \in 1..n : i \in 1..(n + 2)
      /\ n + 1 \in 1..(n + 2)
  BY <1>1
<1>4. ASSUME NEW s PROVE Queued(s)' <=> Queued(s) \/ s = current
  <2>1. Queued(s) <=> \E i \in 1..n : queue[i].kind = "segment" /\ queue[i].seg = s
    BY DEF Queued, n
  <2>2. Queued(s)' <=> \E i \in 1..(n + 2) : queue'[i].kind = "segment" /\ queue'[i].seg = s
    BY <1>2 DEF Queued
  <2> QED  BY <1>1, <1>2, <1>3, <2>1, <2>2
<1>5. ASSUME NEW i \in 1..Len(queue'), queue'[i].kind = "playlist"
      PROVE  \/ i \in 1..n /\ queue'[i] = queue[i]
             \/ queue'[i].window = segments' /\ queue'[i].first = media_sequence'
  BY <1>1, <1>2, <1>3, <1>5
<1> QED  BY <1>4, <1>5 DEF n

\* The window with it.
LEMMA WindowWithNew ==
    ASSUME WindowInv, JobsInv, FileType, EventPart, NumberPart, ProcessSegment
    PROVE  /\ NumberedIn(segments', media_sequence', missed')
           /\ segments' # <<>> /\ segments'[Len(segments')].seg = current
<1> DEFINE entry  == [seg |-> current, duration |-> pending_duration]
           pushed == Append(segments, entry)
           n      == Len(segments)
           before == Cardinality({s \in missed : s \in Segments /\ s < current})
           later  == Cardinality({s \in missed' : s \in Segments /\ s < current})
<1>1. /\ pc = "read" /\ current \in (exists \cap Segments) \ processed
      /\ AddSegment(current, pending_duration) /\ missed' = missed \ {current}
  BY DEF ProcessSegment
<1>2. /\ segments \in Seq(Entry) /\ media_sequence \in Nat /\ n \in Nat
      /\ segment_count = media_sequence + n /\ entry \in Entry /\ entry.seg = current
  BY <1>1 DEF WindowInv, WindowType, WindowSlides, Entry
<1>3. /\ current \in Nat
      /\ \A x \in Segments : Queued(x) => x < current
      /\ \A y \in 1..current - 1 : y \in Segments /\ (Queued(y) \/ y \in missed)
  BY <1>1, NewSegment
<1>4. before \in Nat /\ current - 1 = (media_sequence + n) + before
  <2>1. before \in Nat /\ current - 1 = segment_count + before
    BY <1>1, NumberOfNew
  <2> QED  BY <1>2, <2>1
<1>5. later = before
  <2>1. {s \in missed' : s \in Segments /\ s < current}
          = {s \in missed : s \in Segments /\ s < current}
    <3>1. ~(current < current)
      BY <1>3
    <3> QED  BY <1>1, <3>1
  <2> QED  BY <2>1
<1>6. Later(current)
  BY <1>3, SegmentsAre DEF Later
<1>7. \A s \in Segments : (s \in missed' <=> s \in missed) \/ Later(s)
  BY <1>1, <1>6
<1>8. NumberedIn(segments, media_sequence, missed')
  BY <1>7, WindowStays DEF NumberPart, WindowNumbered
<1>9. ASSUME segments # <<>>
      PROVE  /\ segments[n].seg < current
             /\ segments[n].seg + 1..current - 1 \subseteq missed'
  <2>1. n \in 1..n
    BY <1>2, <1>9
  <2>2. segments[n].seg \in Segments /\ segments[n].seg \in Nat
    BY <1>2, <2>1, EntryIs, SegmentsAre
  <2>3. Queued(segments[n].seg)
    BY <2>1 DEF JobsInv, Has, Queued
  <2>4. ASSUME NEW y \in segments[n].seg + 1..current - 1 PROVE y \in missed'
    <3>1. y \in 1..current - 1 /\ y > segments[n].seg /\ y # current /\ y \in Nat
      BY <1>3, <2>2
    <3>2. ~Queued(y)
      <4>1. Queued(y) => y <= segments[n].seg
        BY <1>3, <3>1 DEF NumberPart, WindowNumbered
      <4> QED  BY <2>2, <3>1, <4>1
    <3> QED  BY <1>1, <1>3, <3>1, <3>2
  <2> QED  BY <1>3, <2>2, <2>3, <2>4
<1>10. later \in Nat /\ entry.seg - 1 = media_sequence + Len(segments) + later
  BY <1>2, <1>4, <1>5
<1> HIDE DEF entry
<1>11. NumberedIn(pushed, media_sequence, missed')
  BY <1>2, <1>8, <1>9, <1>10, AppendNumbered
<1>12. /\ pushed \in Seq(Entry) /\ Len(pushed) = n + 1 /\ pushed # <<>>
       /\ pushed[n + 1] = entry
  BY <1>2
<1>13. \/ segments' = pushed /\ media_sequence' = media_sequence
       \/ segments' = Tail(pushed) /\ media_sequence' = media_sequence + 1 /\ n # 0
  <2>1. MaxSegments \in Nat \ {0}
    BY WatcherAssumption
  <2> QED  BY <1>1, <1>2, <1>12, <2>1 DEF AddSegment, entry
<1> HIDE DEF pushed
<1>14. CASE segments' = pushed /\ media_sequence' = media_sequence
  BY <1>2, <1>11, <1>12, <1>14
<1>15. CASE segments' = Tail(pushed) /\ media_sequence' = media_sequence + 1 /\ n # 0
  <2>1. NumberedIn(Tail(pushed), media_sequence + 1, missed')
    BY <1>2, <1>11, <1>12, TailNumbered
  <2>2. /\ Len(Tail(pushed)) = n /\ Tail(pushed)[n] = pushed[n + 1] /\ Tail(pushed) # <<>>
    BY <1>2, <1>12, <1>15
  <2> QED  BY <1>2, <1>12, <1>15, <2>1, <2>2
<1> QED  BY <1>13, <1>14, <1>15

\* No segment that empties processed_segments has a thumbnail: a stream that is not
\* longer than the first such segment, and every stream without thumbnails.
ClearsUnseen ==
    \A k \in Nat \ {0} :
        LET n == k * (ProcessedLimit + 1)
        IN  n <= SegmentLimit => ~(Thumbnails /\ (n = 2 \/ n % Interval = 0))

\* The tasks after it.
LEMMA TasksWithNew ==
    ASSUME TaskInv, ProcessSegment
    PROVE  \A t \in DOMAIN tasks' :
              tasks'[t].of = current \/ \E u \in DOMAIN tasks : tasks'[t].of = tasks[u].of
<1>1. CASE UNCHANGED tasks
  BY <1>1
<1>2. CASE SpawnThumbnail(current)
  <2> DEFINE n == Len(tasks)
             new == NewTask(current, current)
  <2>1. tasks' = Append(OldTasks, new) /\ new.of = current
    BY <1>2 DEF SpawnThumbnail, NewTask
  <2>2. n \in Nat /\ DOMAIN tasks = 1..n /\ \A t \in 1..n : tasks[t] \in Tasks
    BY DEF TaskInv, ShotType
  <2> HIDE DEF new
  <2>3. ASSUME NEW t \in 1..n
        PROVE  OldTasks[t] \in Tasks /\ OldTasks[t].of = tasks[t].of
    <3>1. \A x \in Tasks : [x EXCEPT !.met = TRUE] \in Tasks /\ [x EXCEPT !.met = TRUE].of = x.of
      BY DEF Tasks
    <3> QED  BY <2>2, <3>1 DEF OldTasks
  <2>4. OldTasks \in Seq(Tasks) /\ Len(OldTasks) = n
    <3>1. OldTasks \in [1..n -> Tasks]
      BY <2>2, <2>3 DEF OldTasks
    <3> QED  BY <2>2, <3>1
  <2>5. /\ DOMAIN tasks' = 1..n + 1 /\ tasks'[n + 1] = new
        /\ \A t \in 1..n : tasks'[t] = OldTasks[t]
    BY <2>1, <2>2, <2>4
  <2> QED  BY <2>1, <2>2, <2>3, <2>5
<1> QED  BY <1>1, <1>2 DEF ProcessSegment

\* The numbers after it; the name is lost only with a number that has no thumbnail.
LEMMA NumbersWithNew ==
    ASSUME ClearsUnseen, WindowInv, JobsInv, FileType, EventPart, NumberPart, ProcessSegment
    PROVE  /\ NumberPart'
           /\ current \in processed' \/ pc' = "remove"
<1>1. /\ pc = "read" /\ current \in (exists \cap Segments) \ processed
      /\ segment_count' = segment_count + 1 /\ processed' = MarkProcessed(processed, current)
      /\ pc' = "remove" \/ ShouldExtract
  BY DEF ProcessSegment, AddSegment
<1>2. /\ segment_count \in Nat /\ processed \subseteq Segments
      /\ current \in Segments \ processed
  BY <1>1 DEF WindowInv, WindowType, FileType
<1>3. /\ Cardinality(processed') <= ProcessedLimit
      /\ \E k \in Nat : segment_count + 1 = k * (ProcessedLimit + 1) + Cardinality(processed')
      /\ \/ processed' = processed \cup {current}
         \/ \E k \in Nat \ {0} : segment_count + 1 = k * (ProcessedLimit + 1)
  BY <1>1, <1>2, MarkClears DEF NumberPart, Cleared
<1>4. \A s : Queued(s)' <=> Queued(s) \/ s = current
  BY QueueWithNew
<1>5. /\ current \in Nat /\ ~Queued(current) /\ \A x \in Segments : Queued(x) => x < current
  BY <1>1, NewSegment
<1>6. Counted'
  <2> DEFINE A == {s \in Segments : Queued(s)}
  <2>1. {s \in Segments : Queued(s)}' = A \cup {current} /\ current \notin A /\ A \subseteq Segments
    BY <1>2, <1>4, <1>5
  <2>2. segment_count = Cardinality(A)
    BY DEF NumberPart, Counted
  <2> HIDE DEF A
  <2>3. IsFiniteSet(A)
    BY <2>1, SegmentsAre, FS_Subset
  <2>4. Cardinality(A \cup {current}) = Cardinality(A) + 1
    BY <2>1, <2>3, FS_AddElement
  <2> QED  BY <1>1, <2>1, <2>2, <2>4 DEF Counted
<1>7. Cleared'
  BY <1>1, <1>3 DEF Cleared
<1>8. WindowNumbered'
  <2>1. NumberedIn(segments, media_sequence, missed)'
    BY WindowWithNew DEF NumberedIn
  <2>2. ASSUME NEW x \in Segments, Queued(x)'
        PROVE  segments' # <<>> /\ x <= segments'[Len(segments')].seg
    <3>1. x <= current
      BY <1>4, <1>5, <2>2, SegmentsAre
    <3> QED  BY <3>1, WindowWithNew
  <2> QED  BY <2>1, <2>2 DEF WindowNumbered
<1>9. ASSUME current \notin processed' PROVE pc' = "remove"
  <2>1. PICK k \in Nat \ {0} : segment_count + 1 = k * (ProcessedLimit + 1)
    BY <1>3, <1>9
  <2>2. segment_count + 1 <= SegmentLimit
    <3>1. PICK b \in Nat : current - 1 = segment_count + b
      BY <1>1, NumberOfNew
    <3>2. current <= SegmentLimit /\ SegmentLimit \in Nat
      BY <1>2, WatcherAssumption DEF Segments
    <3> QED  BY <1>2, <1>5, <3>1, <3>2
  <2>3. k * (ProcessedLimit + 1) <= SegmentLimit =>
           ~(Thumbnails /\ (k * (ProcessedLimit + 1) = 2
                              \/ (k * (ProcessedLimit + 1)) % Interval = 0))
    BY DEF ClearsUnseen
  <2>4. ~ShouldExtract
    BY <2>1, <2>2, <2>3 DEF ShouldExtract
  <2> QED  BY <1>1, <2>4
<1> QED  BY <1>6, <1>7, <1>8, <1>9 DEF NumberPart

\* A segment is handed over.
LEMMA ProcessOrder ==
    ASSUME ClearsUnseen, WindowInv, JobsInv, FileType, TaskInv, OrderInv, ProcessSegment
    PROVE  OrderInv'
<1>1. /\ pc = "read" /\ pc' \in {"recv", "remove"} /\ Watching
      /\ current \in (exists \cap Segments) \ processed
      /\ processed' = MarkProcessed(processed, current) /\ missed' = missed \ {current}
      /\ UNCHANGED <<exists, events, current, written, listed, produced>>
  BY DEF ProcessSegment, disk, ffmpeg, Watching
<1>2. EventPart /\ NumberPart /\ current \in Segments /\ Segments \subseteq Nat \ {0}
  BY <1>1, SegmentsAre DEF OrderInv
<1>3. \A s : Queued(s)' <=> Queued(s) \/ s = current
  BY QueueWithNew
<1>4. /\ current \in Nat /\ current <= produced /\ ~Queued(current)
      /\ \A x \in Segments : Queued(x) => x < current
  BY <1>1, <1>2, NewSegment
<1>5. /\ EventsAscend'
      /\ \A s \in Segments : MayCome(s)' => MayCome(s)
      /\ \A s \in Segments : MayCome(s) => MayCome(s)' \/ s = current
      /\ \A s \in Segments : MayCome(s)' => current <= s
  BY <1>1, <1>2, AfterRead DEF EventPart
<1>6. NumberPart' /\ (current \in processed' \/ pc' = "remove")
  BY <1>2, NumbersWithNew
<1>7. QueuedEarlier'
  <2>1. ASSUME NEW x \in Segments, Queued(x)'
        PROVE  x <= produced /\ \A s \in Segments : MayCome(s)' => x <= s
    <3>1. CASE x = current
      BY <1>4, <1>5, <3>1
    <3>2. CASE Queued(x)
      BY <1>2, <1>5, <3>2 DEF EventPart, QueuedEarlier
    <3> QED  BY <1>3, <2>1, <3>1, <3>2
  <2> QED  BY <1>1, <2>1 DEF QueuedEarlier
<1>8. NotTwice'
  <2>1. ASSUME NEW s \in Segments, Queued(s)', MayCome(s)' PROVE s = current
    <3>1. current <= s /\ s \in Nat
      BY <1>2, <1>5, <2>1
    <3>2. Queued(s) => s < current
      BY <1>4
    <3> QED  BY <1>3, <1>4, <2>1, <3>1, <3>2
  <2> QED  BY <1>1, <1>6, <2>1 DEF NotTwice
<1>9. 1..produced \subseteq Segments
  BY WatcherAssumption DEF FileType, Segments
<1>10. Accounted'
  <2>1. ASSUME NEW s \in 1..produced PROVE Queued(s)' \/ s \in missed' \/ MayCome(s)'
    <3>1. Queued(s) \/ s \in missed \/ MayCome(s)
      BY <1>2 DEF EventPart, Accounted
    <3> QED  BY <1>1, <1>3, <1>5, <1>9, <3>1
  <2> QED  BY <1>1, <2>1 DEF Accounted
<1>11. StillThere'
  BY <1>1, <1>2, <1>3 DEF EventPart, StillThere
<1>12. RemovedQueued'
  <2>1. \A s \in processed' : Queued(s)'
    BY <1>1, <1>2, <1>3 DEF EventPart, RemovedQueued, MarkProcessed
  <2>2. \A s : Has(queue', s) <=> Has(queue, s) \/ s = current
    BY <1>3 DEF Queued, Has
  <2>3. \A t \in DOMAIN tasks : Has(queue, tasks[t].of)
    BY <1>2 DEF EventPart, RemovedQueued, Queued, Has
  <2>4. \A t \in DOMAIN tasks' : Has(queue', tasks'[t].of)
    BY <2>2, <2>3, TasksWithNew
  <2>5. (\A t \in DOMAIN tasks : Queued(tasks[t].of))'
    BY <2>4 DEF Queued, Has
  <2>6. pc' = "remove" => Queued(current)'
    BY <1>1, <1>3
  <2> QED  BY <2>1, <2>5, <2>6 DEF RemovedQueued
<1>13. MissedApart'
  BY <1>1, <1>2, <1>3 DEF EventPart, MissedApart
<1>14. PlaylistsNumbered'
  <2>1. \A s \in Segments : (s \in missed' <=> s \in missed) \/ Later(s)
    <3>1. Later(current)
      BY <1>2, <1>4 DEF Later
    <3> QED  BY <1>1, <3>1
  <2>2. \A n \in 1..Len(queue) : queue[n].kind = "playlist" =>
           NumberedIn(queue[n].window, queue[n].first, missed')
    BY <2>1, PlaylistsStay DEF OrderInv
  <2>3. NumberedIn(segments', media_sequence', missed')
    BY <1>2, WindowWithNew
  <2>4. \A n \in 1..Len(queue') : queue'[n].kind = "playlist" =>
           NumberedIn(queue'[n].window, queue'[n].first, missed')
    BY <2>2, <2>3, QueueWithNew
  <2> QED  BY <2>4 DEF PlaylistsNumbered, NumberedIn
<1>15. EventPart'
  BY <1>5, <1>7, <1>8, <1>10, <1>11, <1>12, <1>13 DEF EventPart
<1> QED  BY <1>1, <1>6, <1>14, <1>15 DEF OrderInv, Complete

-----------------------------------------------------------------------------
(* The theorem.                                                             *)

\* There is nothing at first.
LEMMA OrderInit == Init => OrderInv
<1> SUFFICES ASSUME Init PROVE OrderInv
  OBVIOUS
<1>1. Fresh /\ listed = 0 /\ ~Watching
  BY DEF Init, Fresh, Watching
<1>2. PlaylistsNumbered
  BY <1>1 DEF Fresh, PlaylistsNumbered
<1> QED  BY <1>1, <1>2 DEF OrderInv

\* The order of the segments is inductive with the types, the window and the jobs.
LEMMA OrderStep ==
    ASSUME ClearsUnseen
    PROVE  WindowInv /\ JobsInv /\ FileType /\ TaskInv /\ OrderInv /\ [Next]_vars => OrderInv'
BY FfmpegOrder, WatchOrder, RecvOrder, ReadOrder, RemoveOrder, ReadInitOrder, ProcessOrder,
   OtherOrder
DEF Next, Watcher, Stopped

\* Each live playlist lists its segments in the order in which ffmpeg produced them,
\* and its numbers leave out exactly the segments that were missed, for every number
\* of segments and events under way, when no segment that empties
\* processed_segments has a thumbnail.
THEOREM PlaylistsNumberSegments == ClearsUnseen => (Spec => []NumberedAsProduced)
<1> SUFFICES ASSUME ClearsUnseen PROVE Spec => []NumberedAsProduced
  OBVIOUS
<1>1. OrderInv => NumberedAsProduced
  BY NumberedIsIn DEF OrderInv
<1> QED  BY <1>1, OrderStep, OrderInit, AllInductive, PTL DEF Spec

\* Two entries with the same segment have the same number.
LEMMA NumberedOnce == WindowInv /\ NumberPart => NoDuplicateProcessing
<1> SUFFICES ASSUME WindowInv, NumberPart, NEW i \in 1..Len(segments), NEW l \in 1..Len(segments),
                    segments[i].seg = segments[l].seg
             PROVE  i = l
  BY DEF NoDuplicateProcessing
<1>1. PICK c : /\ segments[i].seg - (media_sequence + i) = c
               /\ segments[l].seg - (media_sequence + l) = c
  BY DEF NumberPart, WindowNumbered, NumberedIn
<1>2. segments[i].seg \in Nat /\ media_sequence \in Nat
  BY EntryIs, SegmentsAre DEF WindowInv, WindowType
<1> QED  BY <1>1, <1>2

\* Under the same condition processed_segments does prevent what it is for: no playlist
\* lists a segment twice.
THEOREM NoneProcessedTwice == ClearsUnseen => (Spec => []NoDuplicateProcessing)
<1> SUFFICES ASSUME ClearsUnseen PROVE Spec => []NoDuplicateProcessing
  OBVIOUS
<1> DEFINE Known == WindowInv /\ JobsInv /\ FileType /\ TaskInv
<1>1. Init => NoDuplicateProcessing
  BY DEF Init, NoDuplicateProcessing
<1>2. Known /\ OrderInv /\ NoDuplicateProcessing /\ [Next]_vars => NoDuplicateProcessing'
  <2> SUFFICES ASSUME Known, OrderInv, NoDuplicateProcessing, [Next]_vars
               PROVE  NoDuplicateProcessing'
    OBVIOUS
  <2>1. WindowInv' /\ OrderInv'
    BY WindowStep, OrderStep
  <2>2. CASE Watching'
    <3>1. NumberPart'
      BY <2>1, <2>2 DEF OrderInv
    <3>2. (WindowInv /\ NumberPart => NoDuplicateProcessing)'
      BY NumberedOnce, PTL
    <3> QED  BY <2>1, <3>1, <3>2
  <2>3. CASE ~Watching'
    <3>1. ~ProcessSegment
      BY <2>3 DEF ProcessSegment, Watching
    <3>2. ThumbnailTask => UNCHANGED segments
      BY ThumbnailTaskApart DEF outside, state
    <3>3. UNCHANGED segments
      BY <3>1, <3>2
      DEF Next, Watcher, Ffmpeg, Open, Write, List, Watch, WatchFails, Recv, ReadFails,
          ReadPlaylist, ReadInit, SkipSegment, RemoveSegment, Stop, RemoveDirectory, Stopped,
          vars, outside, state
    <3> QED  BY <3>3 DEF NoDuplicateProcessing
  <2> QED  BY <2>2, <2>3
<1> QED  BY <1>1, <1>2, OrderStep, OrderInit, AllInductive, PTL DEF Spec
=============================================================================

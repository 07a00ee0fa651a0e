# A TLA+ model of pang-media-streaming-server

The server takes RTMP streams, pipes each one into an ffmpeg process that writes
HLS files (fMP4) into a directory under `/tmp/hls_temp`, watches that directory,
and uploads init segment, segments, live playlist and thumbnails to S3 by running
`aws s3 cp`. When a stream ends it writes a VOD playlist and a master playlist.

This directory models the parts of the server whose correctness depends on
interleaving, order and failure, checks them with TLC on small instances, and proves
the central facts for all values of the constants with TLAPS. Paths below are
relative to `src/src/`.

- [Inventory](#inventory) - components, state, operations, interactions, hazards
- [Modules](#modules) - how each module corresponds to the code
- [Runs](#runs) - what TLC checks, with which bounds, and what that shows
- [Fairness](#fairness)
- [Proofs](#proofs) - what is proved, from what, and by which invariant
- [What the code does otherwise than it says](#what-the-code-does-otherwise-than-it-says)
- [Not modelled](#not-modelled)
- [Plan](#plan) - what comes next

## Inventory

The live path, from the socket to the bucket:

```
 RTMP connection (one tokio task each)           RtmpSessionHandler
   on_publish / on_data / on_unpublish
        | authenticate, stop API (HTTP)           authentication_layer
        v
 MemoryHlsManager   stream_metadata, replay_manager.completed_streams
        |
        v
 MemoryFfmpegPipelineManager   pipelines: RwLock<HashMap<u32, pipeline>>
        | spawns                 | spawns
        v                        v
     ffmpeg -- files, inotify --> file watcher task (LLHlsState) -- thumbnail tasks
                                        | queue_segment
                                        v
                                  CliS3Uploader: one task per upload, a semaphore,
                                  active_uploads, /tmp/s3_upload_*, `aws s3 cp`
```

| Component | State it keeps | Operations | Interacts with | What is hard | What makes it correct |
|---|---|---|---|---|---|
| RTMP sessions (`presentation_layer/api_handlers/`) | the handler's `stream_key`, `authed_stream_id`, `internal_stream_id` | `on_publish`, `on_data`, `on_unpublish` | authentication, `MemoryHlsManager` | each callback is a chain of awaits that interleaves with those of other connections; failures half-way keep ids | data go to the connection's own ffmpeg; what was started is stopped |
| Authentication (`authentication_layer/`) | none | two HTTP calls | sessions | a failure is a panic that kills the connection's task | - |
| Pipeline manager (`business_layer/streaming/ffmpeg_pipeline/pipeline_manager.rs`) | the map of pipelines behind an `RwLock`; directories; processes; watcher handles | `start_pipeline`, `send_data`, `stop_pipeline` | sessions, ffmpeg, watcher | the directory is handled outside of the lock at a start, under it at a stop; entries vanish on a broken pipe | a directory belongs to the pipeline in the map; a stop ends the watcher and closes ffmpeg's input; the lock comes free unless a write lasts for ever |
| File watcher (`.../file_watcher.rs`) | `LLHlsState` (window, media sequence, processed names), `pending_duration`, the event channel | event loop, `extract_thumbnail_from_segment` | ffmpeg through the directory, uploader | lags behind ffmpeg; several events per file; files read while written; files removed by two kinds of tasks | playlists number segments as produced and list only what was handed over; files leave the disk |
| `CliS3Uploader` (`data_layer/storage/cli_s3_uploader.rs`) | semaphore, `active_uploads`, temporary files | `queue_segment`, its task, `pending_count` | watcher, manager, S3 | permits on every path; retries of PUTs that were applied; names of shared files; a map keyed by object | no permit is lost, a verdict is true, objects hold their own bytes |
| `MemoryHlsManager`, `ReplayManager` (`memory_hls_manager.rs`, `master_playlist_generator.rs`) | `stream_metadata`, `completed_streams` | `start_hls_conversion`, `stop_hls_conversion`, VOD and master playlists | all of the above | the bucket is listed while uploads are under way; steps of a stop fail one by one | a VOD playlist names what exists and misses nothing that was settled |
| `MemoryS3Uploader` (`memory_s3_uploader.rs`) | priority queue, semaphore, `active_uploads` | `queue_segment`, workers, `shutdown` | `LLHlsManager` | more workers than permits; workers that give up; polling a map keyed by object | the queue keeps its order; permits add up; nothing is stranded or overlooked but for known causes |
| `LLHlsManager`, `LLHlsPlaylistGenerator` (`ll_hls_manager.rs`, `ll_hls_playlist.rs`) | streams behind a fair `RwLock`, window of segments and parts | `start_stream`, `process_segment_file`, `add_part`, `complete_segment`, `stop_stream` | uploader | a read guard held while another is asked for; change and hand-over are not atomic | numbers agree with the window; the last chunklist is the latest; calls end |
| `FileS3Uploader`, `ReqwestS3Uploader`, `BunnyUploader` (`file_s3_uploader.rs`, `reqwest_s3_uploader.rs`, `bunny_uploader.rs`) | a channel and a pool of workers, or a semaphore, or a counter; `active_uploads` | `queue_data`, `pending_count`, `active_count` | not called on the live path | a full channel; timeouts of requests that are applied all the same; a map keyed by object | no slot is lost, `pending_count` is true, verdicts are true |
| `MemoryBufferManager` (`memory_buffer_manager.rs`) | a buffer per stream with its size and the time of its last change | store, create, remove, clean-up | not called on the live path | a limit on all the bytes paid by one stream; names overwritten | sizes add up; what is kept is the newest |
| tokio's worker threads | which task has which thread | - | every blocking call: `write_all` to stdin, `read` of stderr, `aws s3 ls` | blocked threads that wait for each other through a lock or a pipe | calls return; a freeze has a cause |
| configuration, start-up | - | - | - | - | - |

`MemoryS3Uploader`, `LLHlsManager`, `MemoryBufferManager` and the three HTTP uploaders are
complete components of the crate that the live path does not call at this commit; they
are modelled because their concurrency is the most intricate of the code.

`PROJECT.json` lists the hazards one by one, each at its line, with the properties that
would catch it going wrong.

## Modules

One action stands for the code from one await to the next (other tasks run only there;
where the code holds a lock over an await the lock is a variable). `Runtime` is about the
calls that block a thread between two awaits, and splits them further.

**UploadService** - what every uploader promises: a call is accepted at once, its bytes
may reach the object of its key any number of times while it has no verdict, it gets one
verdict, and "succeeded" only after its own bytes landed. A PUT that the caller stopped
waiting for (`Abandon`) may still be applied, even after the verdict (`LatePut`). No order
between jobs is promised. `CliUploader`, `MemoryUploader` and `HttpUploaders` are shown to
implement its safety part (`ImplementsSafety`), and `Replay` uses it as the uploader.
The first two map `late` to the empty set: they wait for the CLI and the SDK without a
timeout of their own, and a PUT is taken to be applied only while its process or call runs.

**CliUploader** - `queue_segment` and its detached task. `stage[j]` is the await the task
is at; `permits`/`waiters` are tokio's fair semaphore (a permit that is dropped goes to
the longest waiting task); `uploads` is `active_uploads`; `tempName`/`temp` are the files
under `/tmp`; `object` is the bucket. `WriteTemp`, `CliPut`, `CliSucceeds`, `CliFails` split
`upload_with_cli` so that a failure may come before the PUT was applied, or after it with
the answer lost. `uuid_simple` is a clock reading: `FineClock` says whether two
live files can get the same name. The priority of a segment is only logged by the code
and does not appear.

**FileWatcher** - the watcher and its thumbnail tasks, with ffmpeg and inotify as their
environment (external: what ffmpeg does under the options of `build_ffmpeg_command`, as
far as the watcher sees it). `Watch` and `WatchFails` begin the task, which ffmpeg precedes:
what is in the directory before the watch sends no event. `Recv`, then one of `ReadFails`,
`ReadPlaylist`, `ReadInit`, `SkipSegment`, `ProcessSegment`, then `RemoveSegment` or a
thumbnail task follow the event loop. `ThumbnailTask` is `extract_thumbnail_from_segment`
await by await: read init and segment, write `combined.mp4`, run ffmpeg, read and remove
`thumbnail.jpg`, remove `combined.mp4` and the segment; all the tasks of a stream share the
two files, and outlive the stop. Each of these awaits may fail with its files there: a write
leaves a part of `combined.mp4`, an ffmpeg that fails may have begun `thumbnail.jpg`, and a
picture that cannot be read is not removed. Nobody removes what is left so but a later task,
or the stop. `result` of a task is a history of how it failed. `Stop` aborts the watcher, `RemoveDirectory` ends
`remove_dir_all` while ffmpeg may still write. `queue` is the sequence of jobs handed to
`queue_segment`. `AtomicWrites` switches partial reads, and `FaultLimit` says after how
many missed files and failed tasks nothing fails any more that finds its files. `missed` is a history of files that
were there and could not be read, or came before the watch.

**StreamLifecycle** - sessions, authentication, pipeline map, directories, processes,
watchers and the records of live and completed streams. `pc[s]` is the await the
callback of connection `s` is at; `lock` is the write guard that `stop_pipeline` keeps over
`remove_dir_all` and `send_data` over `write_all` to ffmpeg's stdin. A write begins in
`SendData` and ends in `WriteReturns` or `WriteFails`, if ever. The removal of the directory
may fail (`unswept` says of what), and nobody waits for an ffmpeg: that the last holder of its
stdin drops it (`StdinOpen`) only allows `FfmpegExits`. Each start is a numbered instance, so
that "whose directory", "whose data" can be said. `lost`, `unswept` and `ended` are histories.

**Runtime** - the worker threads under the blocking calls. A task is parked at an await,
ready (it needs a thread), or on a thread; `write_all` to ffmpeg's stdin, made with the lock
of the pipeline map held, `monitor_ffmpeg_stderr` and `aws s3 ls` keep their thread until they
return. `stdin` and `stderr` are pipes of `PipeSize` units, ffmpeg (external) stops at a full
one, and `waiters` is the queue of the lock. `Frozen` says that no step is left that a running task, the
blocking pool or ffmpeg takes by itself (`CallerCanGo`, `MonitorCanGo` and `FfmpegCanGo`
are the guards of those steps). Two things of tokio are left out: the accept
loop, which `block_on` runs on the main thread, and the slot in which a worker keeps the
task it woke last, which other workers do not steal (a task in that slot waits for its own
worker even when another is idle, so the real server can freeze somewhat more easily).

**Replay** - `stop_hls_conversion` over uploads still under way, with `UploadService` as
the uploader and the watcher reduced to handing over one file after the other: `init.mp4`,
which the VOD playlist names as `EXT-X-MAP`, then the segments.

**MemoryUploader** - `queue_segment` inserts by priority and spawns one worker per entry
of the queue; workers without a segment are anonymous and counted by place: `to_spawn`
(the calls of `queue_segment` have still to spawn them), `fresh`, `picking`, `leaving`. `arrived` and `gave_up` are histories.

**HttpUploaders** - the three uploaders that PUT from the server's own process. They go
through the same phases, so that `kind` says which one runs, and each action names those
that have it: `MarkUploading` comes before the channel for `file` and after the permit for
`reqwest`, `Count` is `active_count.fetch_add` of `bunny`, `TimesOut` is the timeout of the
client or of the SDK, after which the request is in `inflight` and may be applied at any
time. `line` is the bounded channel with the senders behind it, or the queue of the
semaphore: both are in order of arrival, and a worker of the pool is a slot like a permit.
A worker of `file` can panic on the text of an error (`WorkerPanics`: `file_s3_uploader.rs:92`
and `:105` slice it at a byte). Nobody starts another one: its job is in `crashed`, and
`Capacity` counts the workers that are left. The last one takes the receiver with it: what
is in the channel is dropped, and the senders behind it and all later callers are
refused (`SendFails`).

**MemoryBuffer** - each operation of `MemoryBufferManager` is one action, since it holds the
write lock throughout. Data is its length, the name of a segment its rank among the names
as strings, which is what `cleanup_old_segments` sorts by; `last_updated` is the number of the
call that touched the buffer last. `in_order`, `known` and `rewritten` are for the properties.

**LLHlsManager** - one stream, its feeder and a controller over tokio's `RwLock` (`waiting`,
`guards`, `writer`: whoever asks queues behind those that asked before). The generator's
lock is never held over an await, so that what is done under it is one operator on the
window. `encoder` is how the stream's files are named, which decides the branch of
`process_segment_file` taken; `encoded` and `made` are the encoder's own numbers, against
which file names, part indices and the preload hint are compared.

**MC...** modules give the instances for TLC (`MCStorage` puts `HttpUploaders` and
`MemoryBuffer` side by side: `side` says which of them runs). **...Proofs** modules hold
theorems.

Definitions that begin with "Mutant of" in their comment are variants of the definition
after them with a plausible bug; no specification uses them. Substituted for the original
they make the property that `PROJECT.json` pairs with them fail, so that each property is
known to depend on the code it speaks of.

## Runs

The first conjunct of each `...Inv` is the type invariant of its module.

| Run | Checks | Shows |
|---|---|---|
| `cli` | `SemaphoreInv`, `UploadingHasOwner`, `ObjectOfOwnKey`, `SettledNeverLands`, `EveryUploadSettles`, `ImplementsSafety` | the uploader is right in every interleaving of its tasks |
| `watcher` | `DirectoryInv`, `ThumbnailIsOwn`, `WindowSlides`, `ListedWereQueued`, `InitBeforePlaylist`, `NumberedAsProduced`, `EverySegmentQueued`, `DirectoryDrains` | live playlists number segments as ffmpeg produced them, however late events are handled; what can be read is uploaded and removed; a scratch file outlives the thumbnail tasks only as the trace of a failure; they mix pictures only when they overlap |
| `watcher_duplicate` | `NoDuplicateProcessing` (violated) | emptying `processed_segments` lets a segment be processed twice |
| `lifecycle` | `RecordsInv`, `DataToOwnPipeline`, `DirectoryIsOwn`, `WatcherLeakHasCause`, `StopCleansUp`, `CallbacksEnd` | connections do not disturb each other; the ways to leak a watcher are exactly those listed; a stop that finds its entry ends the watcher, closes ffmpeg's input and leaves the directory only if its removal failed; callbacks end if no write to an ffmpeg lasts for ever |
| `lifecycle_broken_pipe` | `StopEndsWatcher` (violated) | after a broken pipe a stop ends no watcher |
| `runtime` | `ThreadsInv`, `FreezeHasCause`, `ThreadsComeBack` | the threads can all be blocked for good, but only with as many ffmpegs running as there are threads; with more threads than streams every call and every monitor ends |
| `replay` | `ReplayInv`, `VodHasSettled`, `ReplaySettles` | the VOD playlist is sound, has what was settled, and the stop ends |
| `replay_all_segments` | `VodHasAllSegments` (violated) | what lands after the listing is missing for good |
| `memory` | `QueueInv`, `StrandedHasCause`, `ShutdownMissesOnlyHidden`, `ImplementsSafety` | order, permits and verdicts; a segment is stranded or an upload overlooked only for the stated cause |
| `storage` | `SlotsInv`, `PendingIsTrue`, `EveryUploadSettles`, `ImplementsSafety`; `BufferInv`, `KeepsLatest` | the HTTP uploaders lose a slot only to a worker that panicked, count what is pending but for known causes, settle every call except those a panic takes with it, and implement `UploadService`; the buffers' sizes add up and the newest segments are kept |
| `llhls` | `ChunklistInv`, `FilesInOrder`, `LastIsLatest`, `PartsNumbered` | chunklists are well formed, lose no file but the first, and the last one is the latest, across stops and restarts |
| `llhls_locked` | `CallsEnd` (violated) | a writer between two reads of one call blocks both for ever |

Bounds, and why they are enough for the cases that matter:

- `cli`: three jobs, two on one key, two permits, one retry, two temporary names. A task
  waits while two work; two tasks share a key; each can fail, repeat an applied PUT, and
  use up its retries; with two live files and two names a name is reused at once.
- `watcher`: four segments, window 2, `ProcessedLimit` 2 (20 in the code) so that it is
  emptied at segment 3, thumbnails at segments 2 and 4 (interval 4), which can overlap; one
  failure of a read, write or extraction that finds its files (`FaultLimit`; those that
  find their files gone fail without limit), both events of a file apart from each other, up to three events
  behind (`EventLimit`), a stop at any time. The window slides twice. The channel has no
  limit of 500: the sender blocks when it is full and loses nothing.
- `watcher_duplicate`: the segment that empties the set (3) is also one with a thumbnail
  (interval 3); with the code's 20 and default interval 5 that is segment 105.
- `lifecycle`: two connections and two publishes: two streams that start, write and stop side by
  side, or one connection that publishes twice while the other closes, or fails to
  authenticate. Three publishes take too long with the writes to ffmpeg as steps of
  their own; the theorems hold for any number; `FreshNames` (the API gives each stream id once) and ids
  without collisions are assumptions of the safety properties, and without them two
  connections share an entry of the map by construction. Symmetry in connections is
  used only where no liveness is checked.
- `runtime`: two streams on two or three threads, so that the threads can and cannot be
  used up; pipes of one unit, which makes "full" and "empty" adjacent; ffmpegs and
  connections may die. With `Faults` off and as many streams as threads TLC finds a real
  freeze (one thread and one stream are enough: the monitor takes the only thread), and
  the properties also hold of three streams on two and three threads, which takes too
  long for a run.
- `replay`: `init.mp4` and three segments at any stage of their upload when the bucket is
  listed.
- `memory`: three segments in two priorities, two permits, one retry, up to six surplus
  workers; the two playlists are interchangeable (symmetry, safety properties only).
- `storage`: for each uploader three calls, two on one key, two slots, one retry; a job can
  be behind the full pool, and have two requests in flight that had timed out. Up to two
  workers panic, so that the channel is closed too; with room for more than three jobs in
  it no sender waits behind a full channel when that happens, which the theorems cover. The
  buffers: six operations over two streams, four names, lengths 1 and 2, at most 5 bytes
  and 3 segments, so that either limit is met first and a stream pays for another one.
- `llhls`: ten calls over a window of 2 (+1 open), which slides for each kind of encoder.
  Calls may block for ever (`llhls_locked`), so deadlock is not checked; it is in all other
  runs, where the end of the instance is an explicit step (`Quiescent`, `Stopped`, `Over`,
  `NoMoreCalls`).

## Fairness

- `CliUploader.FairSpec`: weak fairness of each task's step. tokio polls tasks that are
  ready, the semaphore is fair by its own queue, and `aws s3 cp` ends. Nothing in the code
  bounds that call: the last part is an assumption, and listed as a hazard.
- `FileWatcher.FairSpec`: weak fairness of the watcher and of each thumbnail task. ffmpeg
  owes nothing; it may stop at any point.
- `StreamLifecycle.FairSpec`: weak fairness of steps that need no lock; strong fairness of
  those that take the map's lock, since tokio's `RwLock` serves its waiters in order and
  the model does not keep that queue. An ffmpeg owes nothing: it need not take the bytes
  of a write, and the lock is held until it does. So `CallbacksEnd` has the premise that no
  write lasts for ever, and `Runtime` says when one does. Clients owe nothing: the property
  is about callbacks that have begun.
- `Runtime.FairSpec`: strong fairness of a ready task getting a thread, since other tasks take
  free threads in between and tokio's run queues are served in order; weak fairness of the
  steps of a task on a thread, of `aws s3 ls`, which ends, and of ffmpeg, which works while
  its pipes let it. A blocked write or read is not a step, and no fairness moves it.
- `Replay.FairSpec`: weak fairness of the stop path and of the verdict of each accepted job,
  which `EveryUploadSettles` gives for `CliUploader`.
- `LLHlsManager.FairSpec`: weak fairness of each task's step; the lock's queue is explicit.
- `HttpUploaders.FairSpec`: weak fairness of all the tasks together, which is enough because
  each job takes finitely many steps. A request is answered, fails or times out; for the SDK
  client of `FileS3Uploader` that is an assumption.
- `MemoryBuffer` has none: its operations are atomic and none is owed.
- `MemoryUploader` has none: a queued segment may legitimately stay where it is, see below.

## Proofs

All theorems hold for any finite or infinite choice of the constants that meets the
`ASSUME` of the module.

`CliUploaderProofs`, about `Spec` of `CliUploader`:

- `SemaphoreInv == TypeOK /\ PermitAccounting /\ NoIdlePermit` is inductive
  (`SemaphoreInductive`). The parts need
  each other: that permits and holders add up is kept by `ReleaseAs` only because the head
  of the queue is a waiting task that holds nothing (`NoIdlePermit`), and `NoIdlePermit` is
  kept by `Acquire` because a task queues only when no permit is left. It gives `TypeCorrect`,
  `PermitsAreAccounted` and `QueueOnlyWhenBusy`. Cardinalities are handled by lemmas on
  adding and removing one holder.
- `OwnerInv` adds that a key marked `Uploading` has a task past its insertion; it gives
  `PendingKeysAreOwned`, and by mapping keys to owners `PendingIsBounded`, which
  is proved only: two keys and two permits leave a run nothing to refute.
- `FileInv` says that under `FineClock` the file of a task between its write and the end of
  the CLI holds its own bytes, and that objects hold jobs of their own key. It gives
  `ObjectsAreOwn`, `CompletedMeansLanded`, the action property `SettledStayAway`, and
  `Refinement`: every step of the uploader is a step of `UploadService` or leaves its
  variables alone. These four have `FineClock` as a hypothesis, and fail without it.

`FileWatcherProofs`, about `Spec` of `FileWatcher`, for any number of segments, any window,
any thumbnail interval and all the faults:

- `WindowInv` (types of the window and `WindowSlides`) is inductive: `WindowAlwaysSlides`.
- `JobsInv` (the jobs handed over are closed, and the window lists only what was handed
  over) is inductive relative to it: `PlaylistsAreClosed`. The second conjunct is the
  strengthening: a playlist is closed because the window was, before the new segment.

- with the thumbnail tasks, any number of them: the types that `WindowInv` and `JobsInv` leave
  out, and an invariant that charges each scratch file to a live task that has still to
  remove it, or to a failed task after which no task that ran alone came as far as the
  removal of that file: `DirectoryIsKept`;
- a task that no other task overlapped finds its own segment in `combined.mp4` and its own
  picture in `thumbnail.jpg`; `met` is set on both sides of an overlap: `ThumbnailsAreOwn`.
- `InitInv` follows the events of `init.mp4`: ffmpeg completes it before its first segment, so
  none of them comes after an event of a segment, and a complete `init.mp4` that the watcher
  could see is on its way, handed over or missed. A later read takes it off the missed ones, so
  the invariant also says that no event of it is left once there is a playlist:
  `InitComesFirst`.
- `OrderInv` follows the events of the segments. `MayCome` are the segments with an event in the
  channel, in hand, or still to be sent because ffmpeg writes them. They come in ascending
  order (`EventsAscend`), none before what was handed over (`QueuedEarlier`), and whatever
  ffmpeg has opened was handed over, missed or may come (`Accounted`). So when a segment is
  new, the ones before it are those handed over and those missed, which do not overlap:
  its number is `segment_count` and the missed ones (`NumberOfNew`), and the window, which
  is numbered the same way, takes it at its end (`AppendNumbered`, `TailNumbered`). What is
  missed or found again later is not older than any listed segment (`NumberedStays`).
  The event that is left of a segment handed over must not process it again: its name is in
  `processed_segments` or its file is removed first (`NotTwice`). That needs `ClearsUnseen`: no
  segment whose count is a multiple of `ProcessedLimit + 1`, where the set is emptied with the
  new name in it, has a thumbnail, for then the file outlives the name. Every stream without
  thumbnails satisfies it, and one with the defaults of the code (21 and `interval_seconds`
  5) up to its 104th segment. Beyond it the run `watcher_duplicate` finds a segment listed
  twice. With it: `PlaylistsNumberSegments` and `NoneProcessedTwice`.

`ReplayProofs`, about `Spec` of `Replay`, for any number of files: `VodInv` says that what has
landed is stored, that a job with a success has landed, that the listing is stored and
contains `settled`. `VodNamesStored` alone is not inductive: the listing becomes a claim when
it is made, before its playlist lands. It gives `VodIsPlayable` and `VodIsComplete`.

`StorageProofs`, about `Spec` of `HttpUploaders`, for the three uploaders, any jobs, keys,
slots, retries and panics:

- `HttpInv` joins the types, the stages each uploader has (`StagesOfKind`: no job of `bunny`
  is ever in the line, without which admission could break its counter; only `file` has
  jobs crashed, refused or lost), the retry that is left in a back-off, the line and the
  slots. `Busy` joins the jobs that run and those that crashed: a panic moves a job from
  one to the other, and the slots of the rest add up with what is left: `SlotsAreKept`.
- `EntriesInv` says that the entry of a job that has set it reads Uploading until a job
  of the same key gets a verdict: `PendingIsExact`.
- with "whoever was answered has landed", every step is a step of `UploadService`, `TimesOut`
  an `Abandon` and a late request a `LatePut`: `HttpRefinement`, without `FineClock` or any other
  hypothesis.

and about `BufferSpec` of `MemoryBuffer`, for any streams, names, sizes and limits:

- `Total` is a fold that takes the elements of a set out one by one. `SumsExist` shows that the
  fold has a value on each subset of a finite set, `SumsSplit` that any element may be taken
  out first; from there `TotalWith` and `TotalSame` say how the sum changes with one value.
- `KeptIs`: `cleanup_old_segments` leaves the greatest names, `keep` of them at most and one at
  least. `GreatestOf` and `LeastOf` find them.
- `IsRight` is what is true of the record of a stream, and the lemmas `KeptIsRight`, `WithIsRight`
  and `ExtraIsRight` say that each piece of an operation keeps it; a `store_segment` is a
  cleanup of the victim, an `add_segment` and a cleanup to the limit. That the segments of a
  stream without a buffer are right as well is the strengthening: the victim's record and
  the stream's own change in one step.
- `ClockIsRight` makes the least recently updated buffer unique. With `IsRight` of every stream it
  is inductive and gives `BufferSizesAreExact` and `NewestAreKept`.

`LifecycleProofs`, about `Spec` of `StreamLifecycle`, for any number of connections and publishes.
`DistinctStreams` (the API gives each stream id once, and the hashes of two ids do not
collide) is a hypothesis of all but the first theorem; without it two connections share
an entry of the map and the properties fail.

- `TypeInv` bounds the starts by a count: starts and publishes that have still to spawn are no
  more than the requests, without which the type of `starts` is not kept. That the
  lock is held exactly by the callback that removes a directory or writes to an ffmpeg
  belongs to the types: `TypeCorrect`.
- `NamesAreFresh` says that no stream id is held by two connections or names two starts;
  `EntriesAreOwn` that the map has an instance under the id of its own name, and callbacks the
  instance they started. A start replaces what is under its id, which is nobody else's
  only because the id is fresh: `DataStaysApart` needs both.
- `DirectoriesAreOwn` (the start clears a directory outside of the lock, but only that of its
  own name) is inductive with them: `DirectoriesStayApart`.
- `Accounted` says where an instance can be: in the map, in the hands of its connection, gone
  without its watcher and, unless the removal failed, its directory, or lost for a listed
  cause: `WatcherLeaksAreKnown`. `StoppedAreGone` carries that from the removal to the end of
  the stop.
- An instance is `Out` when neither the map nor a callback holds its stdin; no step brings
  back one that is out (`OutStays`). `StoppedAreOut` says that of what was stopped, and
  with `StoppedAreGone` gives `StopsCleanUp`; `CompletedAreOut` says it of what is recorded as
  completed, and with `RecordedOnce` gives `RecordsAreTrue`.

`MemoryUploaderProofs`, about `Spec` of `MemoryUploader`, for any segments, priorities, permits and
retries:

- `InsertionPoint` says what `InsertByPriority` returns: the queue with the segment behind those
  of its own or a higher priority, up to the first of a lower one. With `ArrivedOnce` (the
  order of arrival has each segment once) the order of the queue is inductive, and a
  segment is in the queue once (`QueuedOnce`): otherwise two workers could take it.
- permits, workers between two places and busy workers add up; a worker that takes a
  segment is counted on because that segment was not yet taken, which is the order of
  the queue again. With `UploadingHasOwner` this is `QueueIsRight`.
- `UploadsAreRecorded` turns the map around: what is under way reads Uploading or is hidden
  by a verdict of its key: `ShutdownIsHonest`.
- `LookersFrame` counts the workers that are still to look at the queue: a call adds as many as the
  queue is long after its insertion, a worker that looks takes an entry or finds none, and
  only one that gives up is taken off without either. The bound of `StrandedHasCause` is
  inductive with the types: `StrandedOnlyByGivingUp`.
- `MemoryRefinement` maps each step to one of `UploadService`, as in the other uploaders.

`LLHlsProofs`, about `Spec` of `LLHlsManager`, for any window and any number of calls:

- `AddPartIs`, `CompleteSegmentIs` and `StartSegmentIs` say what the generator's operators return.
- `ManagerInv` joins the lock (each waiting task is in the queue once; a call owns one guard
  from its lookup to its return, so that a restart finds no call under way) and the
  window (numbers, one open segment, none with an encoder whose names cannot be parsed).
  `CompletedIs` says what the loop of `to_media_playlist` returns when only the last segment
  may be open, namely all but that one: with it this is the whole of `ChunklistInv`:
  `ChunklistIsRight`, for any number of feeders.
- For one feeder (`OneFeeder`; two would hand over files in any order) `FeederInv` says
  which file the generator is told of next, `first_file + media_sequence + Len(segments)`, and
  how many parts of it: `FilesAreInOrder`, `PartsAreNumbered`; and where a chunklist is on its way:
  `LastChunklistIsLatest`. A stop and a start between a call and its lookup are harmless
  since they empty the window, and none comes later because of the guard.

`RuntimeProofs`, about `Spec` of `Runtime`, for any number of streams and threads: `ThreadsInv` is
inductive as it stands. `Unlocks` is its core: the lock goes to the head of the queue, which
is another task and the only entry of it; a step that starts a task found a free thread
(`RunCallerKeeps`, `RunMonitorKeeps`), and no other adds one (`NoneStarts`): `ThreadsAreRight`.
`BlockedOnFfmpeg` charges each blocked thread to a running ffmpeg of its own stream: a monitor
in `read` and a connection in `write_all` block on it, and both at once cannot be, since a
frozen ffmpeg whose monitor reads has room in its log and takes what is in its stdin.
The map from threads to streams gives `FreezeNeedsManyStreams`. `FrozenForGood` is proved only:
no step that is possible in a frozen state ends it, but the death of an ffmpeg (`StepsCanGo`
shows that the guards of `Frozen` are those of the steps).

Data are reasoned about by induction without the library's induction theorems, whose operator
parameters the provers do not instantiate: `NatSet` states induction for a set of numbers,
from the well-foundedness of `<` on them (`WFMin`), and the set is defined in the proof.

Only model-checked: the liveness properties (`EveryUploadSettles`, `EverySegmentQueued`,
`DirectoryDrains`, `CallbacksEnd`, `ReplaySettles`, `ThreadsComeBack`), which are out of the
prover's reach. Every invariant, action property and refinement of a passing run is stated
by a theorem.

## What the code does otherwise than it says

The runs marked "violated", with the lines quoted, are the `findings` of `PROJECT.json`.
Seen while modelling, and not the subject of a run:

- priorities (`file_watcher.rs:331`, "higher than segments") are logged and not used by
  `CliS3Uploader`; permits go out in order of arrival;
- `file_watcher.rs:256` looks for "new" EXTINF lines but takes the last of all lines at each
  event, so that one EXTINF can become the duration of two segments;
- `memory_s3_uploader.rs:117` "another worker handles it": none does until the next call of
  `queue_segment` (`StrandedHasCause` is what remains true);
- `memory_s3_uploader.rs:326` "wait until all active uploads are complete": uploads hidden
  by a verdict of the same key are not waited for (`ShutdownMissesOnlyHidden`);
- `ll_hls_manager.rs:178` gives the first two parts of a segment the index 1, and
  `ll_hls_manager.rs:141` completes no segment for the first file of a stream, which is in no
  chunklist (`FilesInOrder` is what remains true);
- the preload hint of `ll_hls_playlist.rs` has the index of the encoder's next part
  (`PartsNumbered`), but is built from quality, stream, sequence and index, while the
  names that `SegmentInfo::parse_filename` accepts have six fields or more: no encoder whose
  parts are recognised writes a file of that name;
- the VOD playlist has no `EXT-X-MAP` when the upload of `init.mp4` is late or failed;
- a retry of a timed-out PUT can be overtaken by the first PUT, which lands after the
  verdict (`HttpUploaders`), and can then replace a later upload of the same key;
- storing a segment under a name that is in the buffer counts its old size for ever
  (`SizesAreExact` has it as `rewritten`);
- `file_s3_uploader.rs:92` and `:105` cut the text of an error at a byte, which panics inside a
  character: the pool has one worker less for good (`crashed`), the key reads Uploading until
  another upload of it ends, and the caller's `queue_data` had said yes;
- a write of `combined.mp4`, an extraction or a read of `thumbnail.jpg` that fails leaves the
  file (`file_watcher.rs:140`, `:146`, `:167`), and the error of `remove_dir_all` is ignored
  (`pipeline_manager.rs:205`): `ScratchHasCause` and `StopCleansUp` are what remains true.

## Not modelled

- texts: playlists beyond what they list and number, FLV tags, command lines, logging,
  statistics, bit rates; `master_playlist_generator.rs` but for `mark_stream_completed` is
  text that nothing calls, as are the parsers of file names and of ffmpeg playlists in
  the LL-HLS modules, whose results are the inputs of `LLHlsManager`.
- configuration and start-up: data types and I/O; the values that matter are constants.
  `thumbnail_config.interval_seconds = 0` is excluded by `WatcherAssumption`: the remainder
  panics at the first segment and the watcher ends.
- `stop_all_pipelines`, `update_playlist` called by itself, `set_media_sequence`, `health_check` and
  the readers of statistics: not called, or without effect on any state.
- tokio's slot for the last woken task, a hung
  CLI (an assumption of `FairSpec`), and the pairing of durations with segments, of which
  no property holds.
- crash and restart: the program keeps nothing that a restart reads; directories and
  uploads under way are lost, and no code recovers them.

## Plan

What is left is out of the prover's reach (liveness), or of the models (see above).

--------------------------- MODULE StreamLifecycle ---------------------------
(***************************************************************************)
(* The life of streams: RtmpSessionHandler's callbacks, one task per       *)
(* connection, down through MemoryHlsManager to the pipeline map, the      *)
(* ffmpeg processes, the watchers, the output directories and the records  *)
(* of live and completed streams.                                          *)
(*                                                                         *)
(* A callback is a chain of awaits; one action stands for the code from    *)
(* one await to the next, so that the callbacks of different connections   *)
(* interleave.  Each start of a pipeline is an instance, numbered in order.*)
(***************************************************************************)
EXTENDS Integers, Sequences

CONSTANTS Sessions,     \* the RTMP connections
          Names,        \* the stream ids the authentication API returns, numbered
          Ids,          \* the u32 ids of generate_stream_id
          IdOf,         \* generate_stream_id
          MaxStarts,    \* bound: publishes in all
          FreshNames,   \* TRUE: the API returns each stream id only once
          Faults,       \* TRUE: ffmpeg, the API or a spawn can fail
          None

ASSUME LifecycleAssumption ==
    /\ Names \subseteq Nat
    /\ IdOf \in [Names -> Ids]
    /\ MaxStarts \in Nat
    /\ FreshNames \in BOOLEAN
    /\ Faults \in BOOLEAN
    /\ None \notin Names \cup Sessions

Instances == 1..MaxStarts
NoInstance == 0

VARIABLES
    pc,          \* pc[s]: the await the connection's task is at
    stream_key,  \* stream_key[s]: whether self.stream_key is set
    name,        \* name[s]: self.authed_stream_id; internal_stream_id is its hash
    mine,        \* mine[s]: the instance the running callback handles
    requests,    \* how many publishes there were
    used,        \* the stream ids the API has returned
    starts,      \* starts[i]: the connection and the name of instance i
    pipelines,   \* pipelines[id]: the instance in the map
    lock,        \* the connection that holds the map's write lock over an await
    dir,         \* dir[n]: the instance whose output directory exists under n
    watchers,    \* the instances whose watcher task runs
    ffmpegs,     \* the instances whose ffmpeg runs
    got,         \* got[i]: the connections whose data ffmpeg i was given
    live,        \* stream_metadata
    completed,   \* replay_manager.completed_streams
    lost,        \* history: instances that left the map, or never got in it,
                 \* without a stop_pipeline
    unswept,     \* history: instances whose directory a stop failed to remove
    ended        \* history: instances whose connection has run stop to its end

session == <<pc, stream_key, name, mine, requests, used>>
world   == <<starts, pipelines, lock, dir, watchers, ffmpegs, got, live, completed,
             lost, unswept, ended>>
vars    == <<session, world>>

Init ==
    /\ pc = [s \in Sessions |-> "idle"]
    /\ stream_key = [s \in Sessions |-> FALSE]
    /\ name = [s \in Sessions |-> None]
    /\ mine = [s \in Sessions |-> NoInstance]
    /\ requests = 0
    /\ used = {}
    /\ starts = <<>>
    /\ pipelines = [id \in Ids |-> NoInstance]
    /\ lock = None
    /\ dir = [n \in Names |-> NoInstance]
    /\ watchers = {}
    /\ ffmpegs = {}
    /\ got = [i \in Instances |-> {}]
    /\ live = {}
    /\ completed = {}
    /\ lost = {}
    /\ unswept = {}
    /\ ended = {}

Goto(s, label) == pc' = [pc EXCEPT ![s] = label]

\* The handler's id, when name[s] is set.
InternalId(s) == IdOf[name[s]]

\* Somebody holds the writing end of the stdin of instance i: the map, on_publish
\* before it has inserted it, or stop_pipeline until it returns.
StdinOpen(i) ==
    \/ \E id \in Ids : pipelines[id] = i
    \/ \E s \in Sessions : pc[s] \in {"insert", "cleandir"} /\ mine[s] = i

-----------------------------------------------------------------------------
(* on_publish.                                                              *)

\* The client publishes: format_stream_key stores the key before the API call.
Publish(s) ==
    /\ pc[s] = "idle"
    /\ requests < MaxStarts
    /\ requests' = requests + 1
    /\ stream_key' = [stream_key EXCEPT ![s] = TRUE]
    /\ Goto(s, "auth")
    /\ UNCHANGED <<name, mine, used, world>>

\* authenticate_and_get_stream_id returns a stream id, or panics (expect) and
\* kills the connection's task.  Ids that were not used before are alike: they
\* are taken in order.
Authenticate(s) ==
    /\ pc[s] = "auth"
    /\ \/ \E n \in Names :
            /\ FreshNames => used = {m \in Names : m < n}
            /\ used' = used \cup {n}
            /\ name' = [name EXCEPT ![s] = n]
            /\ Goto(s, "cleardir")
       \/ /\ Faults
          /\ Goto(s, "dead")
          /\ UNCHANGED <<name, used>>
    /\ UNCHANGED <<stream_key, mine, requests, world>>

\* Mutant of ClearDirectory: the parent of the output directories is removed.
ClearAllDirectories(s) ==
    /\ pc[s] = "cleardir"
    /\ dir' = [n \in Names |-> NoInstance]
    /\ Goto(s, "spawn")
    /\ UNCHANGED <<stream_key, name, mine, requests, used, starts, pipelines, lock,
                   watchers, ffmpegs, got, live, completed, lost, unswept, ended>>

\* start_pipeline: remove_dir_all, outside the map's lock; its error is ignored.
ClearDirectory(s) ==
    /\ pc[s] = "cleardir"
    /\ dir' \in {dir, [dir EXCEPT ![name[s]] = NoInstance]}
    /\ Goto(s, "spawn")
    /\ UNCHANGED <<stream_key, name, mine, requests, used, starts, pipelines, lock,
                   watchers, ffmpegs, got, live, completed, lost, unswept, ended>>

\* create_dir_all, then ffmpeg and the watcher.  A failure ends on_publish, with
\* the handler's ids set, and leaves the directory if ffmpeg was the cause.  The
\* library may close the connection then, or let the client go on.
Spawn(s) ==
    LET i == Len(starts) + 1
    IN  /\ pc[s] = "spawn"
        /\ \/ /\ dir' = [dir EXCEPT ![name[s]] = i]
              /\ starts' = Append(starts, [by |-> s, name |-> name[s]])
              /\ \/ /\ ffmpegs' = ffmpegs \cup {i}
                    /\ watchers' = watchers \cup {i}
                    /\ mine' = [mine EXCEPT ![s] = i]
                    /\ Goto(s, "insert")
                    /\ UNCHANGED lost
                 \/ /\ Faults
                    /\ lost' = lost \cup {i}
                    /\ Goto(s, "idle")
                    /\ UNCHANGED <<ffmpegs, watchers, mine>>
           \/ /\ Faults
              /\ Goto(s, "idle")
              /\ UNCHANGED <<dir, starts, ffmpegs, watchers, mine, lost>>
        /\ UNCHANGED <<stream_key, name, requests, used, pipelines, lock, got, live,
                       completed, unswept, ended>>

\* pipelines.insert.  The entry it replaces is dropped: its stdin closes, and its
\* watcher's handle is only detached.
InsertPipeline(s) ==
    LET old == pipelines[InternalId(s)]
    IN  /\ pc[s] = "insert"
        /\ lock = None
        /\ pipelines' = [pipelines EXCEPT ![InternalId(s)] = mine[s]]
        /\ lost' = lost \cup ({old} \ {NoInstance})
        /\ Goto(s, "metadata")
        /\ UNCHANGED <<stream_key, name, mine, requests, used, starts, lock, dir,
                       watchers, ffmpegs, got, live, completed, unswept, ended>>

\* start_hls_conversion: stream_metadata.insert.
RecordMetadata(s) ==
    /\ pc[s] = "metadata"
    /\ live' = live \cup {name[s]}
    /\ Goto(s, "send")
    /\ UNCHANGED <<stream_key, name, mine, requests, used, starts, pipelines, lock,
                   dir, watchers, ffmpegs, got, completed, lost, unswept, ended>>

\* on_data: ignored before the first publish.  Like on_publish, which sends the FLV
\* header last, it ends with a send_data.
OnData(s) ==
    /\ pc[s] = "idle"
    /\ name[s] # None
    /\ Goto(s, "send")
    /\ UNCHANGED <<stream_key, name, mine, requests, used, world>>

\* Mutant of SendData: the id is not looked at.
SendDataToAny(s) ==
    /\ pc[s] = "send"
    /\ lock = None
    /\ \E i \in {pipelines[id] : id \in Ids} :
         \/ i = NoInstance /\ Goto(s, "idle") /\ UNCHANGED <<got, lock>>
         \/ /\ i # NoInstance
            /\ got' = [got EXCEPT ![i] = @ \cup {s}]
            /\ lock' = s
            /\ Goto(s, "writing")
    /\ UNCHANGED <<stream_key, name, mine, requests, used, starts, pipelines, dir,
                   watchers, ffmpegs, live, completed, lost, unswept, ended>>

\* send_data: to the instance under the handler's id, if any, by a write_all that
\* blocks with the write lock held.
SendData(s) ==
    LET i == pipelines[InternalId(s)]
    IN  /\ pc[s] = "send"
        /\ lock = None
        /\ \/ i = NoInstance /\ Goto(s, "idle") /\ UNCHANGED <<got, lock>>
           \/ /\ i # NoInstance
              /\ got' = [got EXCEPT ![i] = @ \cup {s}]
              /\ lock' = s
              /\ Goto(s, "writing")
        /\ UNCHANGED <<stream_key, name, mine, requests, used, starts, pipelines, dir,
                       watchers, ffmpegs, live, completed, lost, unswept, ended>>

\* ffmpeg has taken the bytes.  Nothing makes it take them.
WriteReturns(s) ==
    /\ pc[s] = "writing"
    /\ pipelines[InternalId(s)] \in ffmpegs
    /\ lock' = None
    /\ Goto(s, "idle")
    /\ UNCHANGED <<stream_key, name, mine, requests, used, starts, pipelines, dir,
                   watchers, ffmpegs, got, live, completed, lost, unswept, ended>>

\* Mutant of WriteFails: the entry stays, and the data are sent again.
WriteAgain(s) ==
    /\ pc[s] = "writing"
    /\ pipelines[InternalId(s)] \notin ffmpegs
    /\ lock' = None
    /\ Goto(s, "send")
    /\ UNCHANGED <<stream_key, name, mine, requests, used, starts, pipelines, dir,
                   watchers, ffmpegs, got, live, completed, lost, unswept, ended>>

\* ffmpeg is gone: the entry is removed, which detaches the watcher.
WriteFails(s) ==
    LET i == pipelines[InternalId(s)]
    IN  /\ pc[s] = "writing"
        /\ i \notin ffmpegs
        /\ pipelines' = [pipelines EXCEPT ![InternalId(s)] = NoInstance]
        /\ lost' = lost \cup {i}
        /\ lock' = None
        /\ Goto(s, "idle")
        /\ UNCHANGED <<stream_key, name, mine, requests, used, starts, dir, watchers,
                       ffmpegs, got, live, completed, unswept, ended>>

-----------------------------------------------------------------------------
(* on_unpublish.                                                            *)

\* The client stops publishing.
Unpublish(s) ==
    /\ pc[s] = "idle"
    /\ stream_key[s]
    /\ Goto(s, "stopapi")
    /\ UNCHANGED <<stream_key, name, mine, requests, used, world>>

\* stop_stream: the API call; its expect kills the task.  A connection that has
\* no id has nothing to stop.
CallStopApi(s) ==
    /\ pc[s] = "stopapi"
    /\ \/ Goto(s, IF name[s] = None THEN "idle" ELSE "stop")
       \/ Faults /\ Goto(s, "dead")
    /\ UNCHANGED <<stream_key, name, mine, requests, used, world>>

\* Mutant of StopPipeline: the watcher's handle is dropped, not aborted.
StopWithoutAbort(s) ==
    LET i == pipelines[InternalId(s)]
    IN  /\ pc[s] = "stop"
        /\ lock = None
        /\ pipelines' = [pipelines EXCEPT ![InternalId(s)] = NoInstance]
        /\ mine' = [mine EXCEPT ![s] = i]
        /\ \/ i = NoInstance /\ Goto(s, "vod") /\ UNCHANGED lock
           \/ i # NoInstance /\ Goto(s, "cleandir") /\ lock' = s
        /\ UNCHANGED <<stream_key, name, requests, used, starts, dir, watchers,
                       ffmpegs, got, live, completed, lost, unswept, ended>>

\* Mutant of StopPipeline: the entry is looked up, not removed.
StopInPlace(s) ==
    LET i == pipelines[InternalId(s)]
    IN  /\ pc[s] = "stop"
        /\ lock = None
        /\ watchers' = watchers \ {i}
        /\ mine' = [mine EXCEPT ![s] = i]
        /\ \/ i = NoInstance /\ Goto(s, "vod") /\ UNCHANGED lock
           \/ i # NoInstance /\ Goto(s, "cleandir") /\ lock' = s
        /\ UNCHANGED <<stream_key, name, requests, used, starts, pipelines, dir, ffmpegs,
                       got, live, completed, lost, unswept, ended>>

\* stop_pipeline: remove the entry and abort its watcher; the write lock is
\* kept over the removal of the directory.
StopPipeline(s) ==
    LET i == pipelines[InternalId(s)]
    IN  /\ pc[s] = "stop"
        /\ lock = None
        /\ pipelines' = [pipelines EXCEPT ![InternalId(s)] = NoInstance]
        /\ watchers' = watchers \ {i}
        /\ mine' = [mine EXCEPT ![s] = i]
        /\ \/ i = NoInstance /\ Goto(s, "vod") /\ UNCHANGED lock
           \/ i # NoInstance /\ Goto(s, "cleandir") /\ lock' = s
        /\ UNCHANGED <<stream_key, name, requests, used, starts, dir, ffmpegs, got,
                       live, completed, lost, unswept, ended>>

\* fs::remove_dir_all of the directory of the entry that was removed, with ffmpeg
\* still writing to it; its error is ignored.  Then the entry is dropped, which
\* closes ffmpeg's stdin, and the lock.  Nobody waits for ffmpeg.
CleanDirectory(s) ==
    /\ pc[s] = "cleandir"
    /\ \/ /\ dir' = [dir EXCEPT ![starts[mine[s]].name] = NoInstance]
          /\ UNCHANGED unswept
       \/ /\ unswept' = unswept \cup {mine[s]}
          /\ UNCHANGED dir
    /\ lock' = None
    /\ Goto(s, "vod")
    /\ UNCHANGED <<stream_key, name, mine, requests, used, starts, pipelines, watchers,
                   ffmpegs, got, live, completed, lost, ended>>

\* generate_vod_playlist and generate_master_playlist: module Replay.  Whatever
\* they come to, the stop goes on.
GenerateVod(s) ==
    /\ pc[s] = "vod"
    /\ Goto(s, "complete")
    /\ UNCHANGED <<stream_key, name, mine, requests, used, world>>

\* The metadata moves to the replay manager; on_unpublish ends.
MarkCompleted(s) ==
    /\ pc[s] = "complete"
    /\ live' = live \ {name[s]}
    /\ completed' = IF name[s] \in live THEN completed \cup {name[s]} ELSE completed
    /\ ended' = ended \cup {i \in 1..Len(starts) :
                              starts[i] = [by |-> s, name |-> name[s]]}
    /\ Goto(s, "idle")
    /\ UNCHANGED <<stream_key, name, mine, requests, used, starts, pipelines, lock,
                   dir, watchers, ffmpegs, got, lost, unswept>>

-----------------------------------------------------------------------------
(* The environment.                                                         *)

\* The connection ends without another callback.
Close(s) ==
    /\ pc[s] = "idle"
    /\ Goto(s, "closed")
    /\ UNCHANGED <<stream_key, name, mine, requests, used, world>>

\* An ffmpeg process exits: by itself, or at the end of its input, once it has
\* written what it has left.
FfmpegExits(i) ==
    /\ i \in ffmpegs
    /\ Faults \/ ~StdinOpen(i)
    /\ ffmpegs' = ffmpegs \ {i}
    /\ UNCHANGED <<session, starts, pipelines, lock, dir, watchers, got, live,
                   completed, lost, unswept, ended>>

\* The steps of a callback that needs the map, and of one that does not.
LockStep(s) == InsertPipeline(s) \/ SendData(s) \/ StopPipeline(s)
FreeStep(s) ==
    \/ Authenticate(s)
    \/ ClearDirectory(s)
    \/ Spawn(s)
    \/ RecordMetadata(s)
    \/ WriteFails(s)
    \/ CallStopApi(s)
    \/ CleanDirectory(s)
    \/ GenerateVod(s)
    \/ MarkCompleted(s)

\* All the connections are gone.
Over ==
    /\ \A s \in Sessions : pc[s] \in {"closed", "dead"}
    /\ UNCHANGED vars

Next ==
    \/ \E s \in Sessions :
         \/ Publish(s)
         \/ OnData(s)
         \/ Unpublish(s)
         \/ Close(s)
         \/ LockStep(s)
         \/ FreeStep(s)
         \/ WriteReturns(s)
    \/ \E i \in Instances : FfmpegExits(i)
    \/ Over

Spec == Init /\ [][Next]_vars

\* The tasks are polled, the API and the file system answer, and tokio's RwLock
\* serves its waiters in order.  An ffmpeg owes nothing: it need not take the bytes
\* of a write, nor exit.
FairSpec ==
    Spec /\ \A s \in Sessions : WF_vars(FreeStep(s)) /\ SF_vars(LockStep(s))

-----------------------------------------------------------------------------
(* Properties.                                                              *)

\* The shape of the state; the lock is held exactly while a stop removes a
\* directory and while a write to an ffmpeg lasts.
TypeOK ==
    /\ pc \in [Sessions -> {"idle", "auth", "cleardir", "spawn", "insert", "metadata",
                            "send", "writing", "stopapi", "stop", "cleandir", "vod", "complete",
                            "closed", "dead"}]
    /\ stream_key \in [Sessions -> BOOLEAN]
    /\ name \in [Sessions -> Names \cup {None}]
    /\ mine \in [Sessions -> Instances \cup {NoInstance}]
    /\ requests \in 0..MaxStarts
    /\ used \subseteq Names
    /\ starts \in Seq([by : Sessions, name : Names])
    /\ pipelines \in [Ids -> Instances \cup {NoInstance}]
    /\ lock \in Sessions \cup {None}
    /\ \A s \in Sessions : lock = s <=> pc[s] \in {"cleandir", "writing"}
    /\ dir \in [Names -> Instances \cup {NoInstance}]
    /\ watchers \cup ffmpegs \cup lost \cup unswept \cup ended \subseteq Instances
    /\ got \in [Instances -> SUBSET Sessions]
    /\ live \cup completed \subseteq Names

\* An ffmpeg is fed by the connection that started it and by no other, even by
\* connections whose ids outlive their own pipeline.
DataToOwnPipeline ==
    \A i \in Instances : \A s \in got[i] : i \in 1..Len(starts) /\ starts[i].by = s

\* A pipeline in the map finds its own output directory: no start or stop of
\* another connection removes or replaces it under the running ffmpeg.
DirectoryIsOwn ==
    \A id \in Ids : pipelines[id] # NoInstance
                       => dir[starts[pipelines[id]].name] = pipelines[id]

\* A connection can still stop instance i: it is in the map under an id that its
\* connection holds, or about to enter it.
Reclaimable(i) ==
    LET s == starts[i].by
    IN  \/ pc[s] = "insert" /\ mine[s] = i
        \/ /\ pc[s] \notin {"closed", "dead"}
           /\ name[s] = starts[i].name
           /\ pipelines[InternalId(s)] = i

\* Every way to leak a watcher: its entry was dropped from the map by a broken
\* pipe, its connection ended without stop_pipeline, or its connection went on
\* to publish another stream.
WatcherLeakHasCause ==
    \A i \in watchers :
        \/ Reclaimable(i)
        \/ i \in lost
        \/ pc[starts[i].by] \in {"closed", "dead"}
        \/ name[starts[i].by] # starts[i].name

\* A stream that is recorded as completed, for replay, is not live, and whatever
\* its connection went through before, nobody can feed an ffmpeg of it any more:
\* those that still run have come to the end of their input.
CompletedIsOver ==
    /\ live \cap completed = {}
    /\ \A i \in 1..Len(starts) : starts[i].name \in completed => ~StdinOpen(i)

RecordsInv == TypeOK /\ CompletedIsOver

\* stop_pipeline "ends the watcher" and "cleans up the output directory": of what a
\* connection has stopped to the end no watcher is left, ffmpeg's input is closed,
\* and the directory is there only if its removal failed, unless the stop found no
\* entry, because a broken pipe had taken it out of the map.
StopCleansUp ==
    \A i \in ended \ lost :
        /\ i \notin watchers
        /\ ~StdinOpen(i)
        /\ dir[starts[i].name] = i => i \in unswept

\* The part of it that "ends the watcher".
StopEndsWatcher == ended \cap watchers = {}

\* A callback that begins comes to an end, provided that no write to an ffmpeg
\* lasts for ever: nothing else that is awaited does, the lock of the map included.
CallbacksEnd ==
    (\A t \in Sessions : []<>(pc[t] # "writing")) =>
        \A s \in Sessions : pc[s] \notin {"idle", "closed", "dead"}
                                ~> pc[s] \in {"idle", "closed", "dead"}
=============================================================================

------------------------------- MODULE Runtime -------------------------------
(***************************************************************************)
(* The worker threads of tokio under the blocking calls of the server.     *)
(*                                                                         *)
(* A connection's task asks for the write lock of the pipeline map and,    *)
(* with it, writes to ffmpeg's stdin; monitor_ffmpeg_stderr reads          *)
(* ffmpeg's stderr; the stop runs "aws s3 ls".  All three are blocking     *)
(* calls of the standard library, made on a worker thread: until they      *)
(* return, the thread polls no other task.  An await gives the thread      *)
(* back.  The pipes are bounded, and ffmpeg stops at a full one.           *)
(*                                                                         *)
(* Sources: business_layer/streaming/ffmpeg_pipeline/pipeline_manager.rs,  *)
(* memory_hls_manager.rs; the threads, the lock and ffmpeg are external.   *)
(***************************************************************************)
EXTENDS Integers, Sequences, FiniteSets

CONSTANTS Streams,      \* the connections, each with a stream of its own
          WorkerCounts, \* the numbers of worker threads: the cores of the host
          PipeSize,     \* what a pipe holds
          Faults,       \* TRUE: ffmpeg or a connection's task can die
          None

ASSUME RuntimeAssumption ==
    /\ WorkerCounts \subseteq Nat \ {0}
    /\ PipeSize \in Nat \ {0}
    /\ Faults \in BOOLEAN
    /\ None \notin Streams
    /\ IsFiniteSet(Streams)

VARIABLES
    workers,  \* the number of worker threads
    at,       \* at[s]: where the connection's task is
    op,       \* op[s]: the call it is in: "start", "send" or "stop"
    monitor,  \* monitor[s]: monitor_ffmpeg_stderr
    ffmpeg,   \* ffmpeg[s]: the process
    entry,    \* the streams in the map, whose stdin is open
    stdin,    \* stdin[s]: what the pipe to ffmpeg holds
    stderr,   \* stderr[s]: what the pipe from ffmpeg holds
    lock,     \* the task that has the write lock
    waiters   \* the queue of the lock

tasks == <<workers, at, op, monitor>>
pipes == <<ffmpeg, entry, stdin, stderr>>
vars  == <<tasks, pipes, lock, waiters>>

\* A task that could go on but needs a thread, one that has a thread, and one
\* that an event has to wake.
Ready   == {"ready", "granted", "removed"}
OnThread == {"asking", "locked", "writing", "unlinked", "listing"}
Parked  == {"idle", "queued", "removing"}
Ended   == {"closed", "dead"}

Readers == {s \in Streams : monitor[s] = "reading"}
Callers == {s \in Streams : at[s] \in OnThread}

\* A thread is free: each one runs one task at most.
ThreadFree == Cardinality(Readers) + Cardinality(Callers) < workers

Init ==
    /\ workers \in WorkerCounts
    /\ at = [s \in Streams |-> "idle"]
    /\ op = [s \in Streams |-> "start"]
    /\ monitor = [s \in Streams |-> "none"]
    /\ ffmpeg = [s \in Streams |-> "none"]
    /\ entry = {}
    /\ stdin = [s \in Streams |-> 0]
    /\ stderr = [s \in Streams |-> 0]
    /\ lock = None
    /\ waiters = <<>>

Goto(s, label) == at' = [at EXCEPT ![s] = label]

-----------------------------------------------------------------------------
(* The connection's task.                                                   *)

\* The socket is readable: a publish first, then data or the end of the stream.
Receive(s) ==
    /\ at[s] = "idle"
    /\ Goto(s, "ready")
    /\ \/ op[s] = "start" /\ ffmpeg[s] = "none" /\ UNCHANGED op
       \/ /\ ffmpeg[s] # "none"
          /\ \E call \in {"send", "stop"} : op' = [op EXCEPT ![s] = call]
    /\ UNCHANGED <<workers, monitor, pipes, lock, waiters>>

\* A thread takes up the task where it stopped.
RunCaller(s) ==
    /\ at[s] \in Ready
    /\ ThreadFree
    /\ Goto(s, CASE at[s] = "ready"   -> "asking"
                 [] at[s] = "granted" -> "locked"
                 [] at[s] = "removed" -> "unlinked")
    /\ UNCHANGED <<workers, op, monitor, pipes, lock, waiters>>

\* pipelines.write().await: at once, or queue and give the thread back.
Ask(s) ==
    /\ at[s] = "asking"
    /\ \/ lock = None /\ Goto(s, "locked") /\ lock' = s /\ UNCHANGED waiters
       \/ /\ lock # None
          /\ Goto(s, "queued")
          /\ waiters' = Append(waiters, s)
          /\ UNCHANGED lock
    /\ UNCHANGED <<workers, op, monitor, pipes>>

\* Mutant of Unlock: the lock is free, and nobody is woken.
UnlockSilently(s, next) ==
    /\ lock' = None
    /\ Goto(s, next)
    /\ UNCHANGED waiters

\* The guard is dropped: the lock goes to the task that waited longest, which
\* needs a thread to use it.
Unlock(s, next) ==
    \/ /\ waiters = <<>>
       /\ lock' = None
       /\ Goto(s, next)
       /\ UNCHANGED waiters
    \/ /\ waiters # <<>>
       /\ lock' = Head(waiters)
       /\ waiters' = Tail(waiters)
       /\ at' = [at EXCEPT ![s] = next, ![Head(waiters)] = "granted"]

\* start_pipeline: insert the entry; ffmpeg was started before.  The monitor is
\* spawned, and the callback ends.
Insert(s) ==
    /\ at[s] = "locked"
    /\ op[s] = "start"
    /\ ffmpeg' = [ffmpeg EXCEPT ![s] = "running"]
    /\ entry' = entry \cup {s}
    /\ monitor' = [monitor EXCEPT ![s] = "spawned"]
    /\ Unlock(s, "idle")
    /\ UNCHANGED <<workers, op, stdin, stderr>>

\* send_data: nothing to do without an entry, else write_all.
Send(s) ==
    /\ at[s] = "locked"
    /\ op[s] = "send"
    /\ \/ s \notin entry /\ Unlock(s, "idle")
       \/ s \in entry /\ Goto(s, "writing") /\ UNCHANGED <<lock, waiters>>
    /\ UNCHANGED <<workers, op, monitor, pipes>>

\* write_all returns as soon as the pipe has room.
Write(s) ==
    /\ at[s] = "writing"
    /\ ffmpeg[s] = "running"
    /\ stdin[s] < PipeSize
    /\ stdin' = [stdin EXCEPT ![s] = @ + 1]
    /\ Unlock(s, "idle")
    /\ UNCHANGED <<workers, op, monitor, ffmpeg, entry, stderr>>

\* A broken pipe: the entry is removed.
WriteFails(s) ==
    /\ at[s] = "writing"
    /\ ffmpeg[s] = "ended"
    /\ entry' = entry \ {s}
    /\ Unlock(s, "idle")
    /\ UNCHANGED <<workers, op, monitor, ffmpeg, stdin, stderr>>

\* stop_pipeline: without an entry go on to the playlist, else remove the
\* directory, which gives the thread back and keeps the lock.
Stop(s) ==
    /\ at[s] = "locked"
    /\ op[s] = "stop"
    /\ \/ s \notin entry /\ Unlock(s, "listing")
       \/ s \in entry /\ Goto(s, "removing") /\ UNCHANGED <<lock, waiters>>
    /\ UNCHANGED <<workers, op, monitor, pipes>>

\* The blocking pool has removed the directory.
Removed(s) ==
    /\ at[s] = "removing"
    /\ Goto(s, "removed")
    /\ UNCHANGED <<workers, op, monitor, pipes, lock, waiters>>

\* Mutant of Close: the entry is put aside, not dropped.
CloseLater(s) ==
    /\ at[s] = "unlinked"
    /\ Unlock(s, "listing")
    /\ UNCHANGED <<workers, op, monitor, pipes>>

\* The entry is dropped, which closes ffmpeg's stdin; generate_vod_playlist
\* starts "aws s3 ls" on this thread.
Close(s) ==
    /\ at[s] = "unlinked"
    /\ entry' = entry \ {s}
    /\ Unlock(s, "listing")
    /\ UNCHANGED <<workers, op, monitor, ffmpeg, stdin, stderr>>

\* "aws s3 ls" has ended; the rest of the stop, and of the connection.
Listed(s) ==
    /\ at[s] = "listing"
    /\ Goto(s, "closed")
    /\ UNCHANGED <<workers, op, monitor, pipes, lock, waiters>>

\* The task dies between two callbacks, or in the calls of the API: nothing stops
\* its pipeline.
Die(s) ==
    /\ Faults
    /\ at[s] = "idle"
    /\ Goto(s, "dead")
    /\ UNCHANGED <<workers, op, monitor, pipes, lock, waiters>>

-----------------------------------------------------------------------------
(* monitor_ffmpeg_stderr: it keeps its thread from its first poll to the    *)
(* end of ffmpeg.                                                           *)

RunMonitor(s) ==
    /\ monitor[s] = "spawned"
    /\ ThreadFree
    /\ monitor' = [monitor EXCEPT ![s] = "reading"]
    /\ UNCHANGED <<workers, at, op, pipes, lock, waiters>>

\* Mutant of ReadReturns: a copy of the pipe's other end stays open.
ReadReturnsOnData(s) == stderr[s] > 0

\* stderr.read returns with something, or when ffmpeg has closed its end.
ReadReturns(s) == stderr[s] > 0 \/ ffmpeg[s] = "ended"

Read(s) ==
    /\ monitor[s] = "reading"
    /\ ReadReturns(s)
    /\ stderr[s] > 0
    /\ stderr' = [stderr EXCEPT ![s] = 0]
    /\ UNCHANGED <<tasks, ffmpeg, entry, stdin, lock, waiters>>

\* Ok(0): break.
ReadsEnd(s) ==
    /\ monitor[s] = "reading"
    /\ ReadReturns(s)
    /\ stderr[s] = 0
    /\ monitor' = [monitor EXCEPT ![s] = "ended"]
    /\ UNCHANGED <<workers, at, op, pipes, lock, waiters>>

-----------------------------------------------------------------------------
(* ffmpeg.                                                                  *)

\* It takes some input and may log a line, which needs room.
Decode(s) ==
    /\ ffmpeg[s] = "running"
    /\ stdin[s] > 0
    /\ stderr[s] < PipeSize
    /\ stdin' = [stdin EXCEPT ![s] = @ - 1]
    /\ stderr' \in {stderr, [stderr EXCEPT ![s] = @ + 1]}
    /\ UNCHANGED <<tasks, ffmpeg, entry, lock, waiters>>

\* The end of its input; the last lines of the log need room too.
Finish(s) ==
    /\ ffmpeg[s] = "running"
    /\ s \notin entry
    /\ stdin[s] = 0
    /\ stderr[s] < PipeSize
    /\ ffmpeg' = [ffmpeg EXCEPT ![s] = "ended"]
    /\ stderr' \in {stderr, [stderr EXCEPT ![s] = @ + 1]}
    /\ UNCHANGED <<tasks, entry, stdin, lock, waiters>>

FfmpegDies(s) ==
    /\ Faults
    /\ ffmpeg[s] = "running"
    /\ ffmpeg' = [ffmpeg EXCEPT ![s] = "ended"]
    /\ UNCHANGED <<tasks, entry, stdin, stderr, lock, waiters>>

-----------------------------------------------------------------------------

\* A step that a running task, the blocking pool or ffmpeg takes by itself.
CallerStep(s) ==
    Ask(s) \/ Insert(s) \/ Send(s) \/ Write(s) \/ WriteFails(s) \/ Stop(s) \/ Removed(s)
      \/ Close(s) \/ Listed(s)
MonitorStep(s) == Read(s) \/ ReadsEnd(s)
FfmpegStep(s) == Decode(s) \/ Finish(s)

\* All the connections are gone.
Over ==
    /\ \A s \in Streams : at[s] \in Ended /\ monitor[s] \in {"none", "ended"}
    /\ UNCHANGED vars

Next ==
    \/ \E s \in Streams :
          \/ Receive(s) \/ Die(s) \/ RunCaller(s) \/ RunMonitor(s)
          \/ CallerStep(s) \/ MonitorStep(s) \/ FfmpegStep(s) \/ FfmpegDies(s)
    \/ Over

Spec == Init /\ [][Next]_vars

\* A task that is ready gets a thread if threads become free again and again, as
\* tokio's queues are fair; what runs goes on, "aws s3 ls" ends, and ffmpeg works
\* while its pipes let it.
FairSpec ==
    /\ Spec
    /\ \A s \in Streams : SF_vars(RunCaller(s)) /\ SF_vars(RunMonitor(s))
    /\ \A s \in Streams : /\ WF_vars(CallerStep(s))
                          /\ WF_vars(MonitorStep(s))
                          /\ WF_vars(FfmpegStep(s))

-----------------------------------------------------------------------------
(* Properties.                                                              *)

TypeOK ==
    /\ workers \in WorkerCounts
    /\ at \in [Streams -> Ready \cup OnThread \cup Parked \cup Ended]
    /\ op \in [Streams -> {"start", "send", "stop"}]
    /\ monitor \in [Streams -> {"none", "spawned", "reading", "ended"}]
    /\ ffmpeg \in [Streams -> {"none", "running", "ended"}]
    /\ entry \subseteq Streams
    /\ stdin \in [Streams -> 0..PipeSize]
    /\ stderr \in [Streams -> 0..PipeSize]
    /\ lock \in Streams \cup {None}
    /\ waiters \in Seq(Streams)

\* The lock has one owner, the task that works with it or is woken for it, and a
\* queue only while it is taken.
LockIsExact ==
    /\ \A s \in Streams : at[s] \in {"granted", "locked", "writing", "removing", "removed",
                                     "unlinked"} <=> lock = s
    /\ \A s \in Streams : at[s] = "queued" <=> \E i \in 1..Len(waiters) : waiters[i] = s
    /\ \A i, l \in 1..Len(waiters) : waiters[i] = waiters[l] => i = l
    /\ waiters # <<>> => lock # None

\* A thread runs one task, and a monitor, an entry or a write belongs to a stream
\* that was started.
ThreadsInv ==
    /\ TypeOK
    /\ LockIsExact
    /\ Cardinality(Readers) + Cardinality(Callers) <= workers
    /\ \A s \in Streams :
          /\ ffmpeg[s] = "none" <=> monitor[s] = "none"
          /\ monitor[s] = "ended" => ffmpeg[s] = "ended"
          /\ s \in entry => ffmpeg[s] # "none"
          /\ at[s] \in {"writing", "removing", "removed", "unlinked"} => s \in entry

\* The guards of the steps that a running task, the blocking pool and ffmpeg take
\* by themselves: what does not hold here is a blocking call that waits.
CallerCanGo(s) ==
    \/ at[s] \in {"asking", "locked", "removing", "unlinked", "listing"}
    \/ at[s] = "writing" /\ (ffmpeg[s] = "ended" \/ (ffmpeg[s] = "running" /\ stdin[s] < PipeSize))
MonitorCanGo(s) == monitor[s] = "reading" /\ ReadReturns(s)
FfmpegCanGo(s) == ffmpeg[s] = "running" /\ stderr[s] < PipeSize /\ (stdin[s] > 0 \/ s \notin entry)

\* A task waits for a thread, and each thread is in a call that no step of the
\* program or of ffmpeg ends.
Frozen ==
    /\ \E s \in Streams : at[s] \in Ready \/ monitor[s] = "spawned"
    /\ ~ThreadFree
    /\ \A s \in Streams : ~CallerCanGo(s) /\ ~MonitorCanGo(s) /\ ~FfmpegCanGo(s)

Running == {s \in Streams : ffmpeg[s] = "running"}

\* The server freezes only with as many ffmpegs running as there are worker
\* threads: each blocked thread costs a running stream of its own, whether its
\* monitor waits for ffmpeg's log or its connection for room in the pipe, for a
\* write only blocks for good while the monitor of its stream has no thread.
FreezeHasCause == Frozen => workers <= Cardinality(Running)

CallsReturn ==
    \A s \in Streams : workers > Cardinality(Streams) /\ at[s] \notin {"idle"} \cup Ended
                           ~> at[s] \in {"idle"} \cup Ended

MonitorsReturn ==
    \A s \in Streams : workers > Cardinality(Streams) /\ at[s] = "closed"
                           ~> monitor[s] \in {"none", "ended"}

\* With more threads than streams every call ends, with the lock of the map held
\* over blocking writes, and whichever ffmpegs and connections die; and the
\* monitor of a stream that was stopped gives its thread back.
ThreadsComeBack == CallsReturn /\ MonitorsReturn
=============================================================================

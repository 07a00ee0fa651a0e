----------------------------- MODULE LLHlsManager -----------------------------
(***************************************************************************)
(* LLHlsManager and its LLHlsPlaylistGenerator for one stream              *)
(* (business_layer/streaming/ll_hls_manager.rs and ll_hls_playlist.rs).    *)
(*                                                                         *)
(* Feeders are tasks that hand over parts and segments; controllers start  *)
(* and stop the stream.  The map of streams is behind a tokio RwLock,      *)
(* which is fair: whoever asks for it queues behind those that asked       *)
(* before.  A feeder's call keeps its first read guard until it returns    *)
(* and takes a second one in update_playlist; set_init_segment, which does *)
(* not update the playlist, takes one.  The generator's own lock is        *)
(* never held over an await, so what is done under it is one action.       *)
(***************************************************************************)
EXTENDS Integers, Sequences, FiniteSets

CONSTANTS Feeders,      \* tasks that call process_segment_file and the like
          Controllers,  \* tasks that call start_stream and stop_stream
          Encoders,     \* how the streams' encoders name their files
          MaxSegments,  \* max_segments (10)
          MaxCalls,     \* bound: the calls in all
          None

\* The calls that an encoder leads to, besides set_init_segment: files of parts
\* and of segments with names that can be parsed, or parts that are announced by
\* add_part, or segments with other names, as those of the pipeline.
KindsOf == [parsed |-> {"part", "full"}, manual |-> {"manual_part", "full"},
            plain |-> {"simple"}]
Files == {"full", "simple"}
AllKinds == Files \cup {"part", "manual_part", "init"}

ASSUME LLHlsAssumption ==
    /\ Encoders \subseteq DOMAIN KindsOf
    /\ MaxSegments \in Nat \ {0}
    /\ MaxCalls \in Nat
    /\ Feeders \cap Controllers = {}
    /\ None \notin Feeders \cup Controllers
    /\ None \notin Nat

Tasks == Feeders \cup Controllers

VARIABLES
    pc,             \* pc[t]: the await the call of t is at
    call,           \* call[t]: what it was called with
    calls,          \* how many calls there were, which numbers them
    encoder,        \* the encoder of the stream
    encoded,        \* the parts that the encoder has made of its segment
    made,           \* the segments that the encoder has completed
    waiting,        \* the queue of the lock of streams
    guards,         \* guards[t]: the read guards that t owns
    writer,         \* the owner of the write guard
    running,        \* whether the map has the stream
    segments,       \* generator.segments
    media_sequence, \* generator.media_sequence
    init_segment,   \* whether generator.init_segment is set
    first_file,     \* history: the first segment that the generator was told of
    stamp,          \* history: the call that changed the generator last
    queued          \* history: the stamp of the last chunklist handed over

source    == <<calls, encoder, encoded, made>>
lock      == <<waiting, guards, writer>>
generator == <<running, segments, media_sequence, init_segment, first_file, stamp>>
vars      == <<pc, call, source, lock, generator, queued>>

Idle == [kind |-> "none", n |-> 0, index |-> 0]

\* start_stream has returned.
Init ==
    /\ pc = [t \in Tasks |-> "idle"]
    /\ call = [t \in Tasks |-> Idle]
    /\ calls = 0
    /\ encoder \in Encoders
    /\ encoded = 0
    /\ made = 0
    /\ waiting = <<>>
    /\ guards = [t \in Tasks |-> 0]
    /\ writer = None
    /\ running = TRUE
    /\ segments = <<>>
    /\ media_sequence = 0
    /\ init_segment = FALSE
    /\ first_file = None
    /\ stamp = 0
    /\ queued = 0

Goto(t, label) == pc' = [pc EXCEPT ![t] = label]

-----------------------------------------------------------------------------
(* The generator: each operator gives the new segments for the old ones.    *)

Segment(n) == [sequence |-> n, file |-> None, parts |-> <<>>]
IsComplete(segment) == segment.file # None
OnLast(segs, Change(_)) ==
    IF segs = <<>> THEN segs ELSE [segs EXCEPT ![Len(segs)] = Change(@)]

\* Mutant of AddPart: push_front.
AddPartInFront(segs, index) ==
    OnLast(segs, LAMBDA s : [s EXCEPT !.parts = <<index>> \o @])

\* add_part, on the last segment if there is one.
AddPart(segs, index) ==
    OnLast(segs, LAMBDA s : [s EXCEPT !.parts = Append(@, index)])

\* Mutant of CompleteSegment: front_mut.
CompleteFirst(segs, file) ==
    IF segs = <<>> THEN segs ELSE [segs EXCEPT ![1].file = file]

\* complete_segment, on the last segment if there is one.
CompleteSegment(segs, file) == OnLast(segs, LAMBDA s : [s EXCEPT !.file = file])

\* Mutant of StartSegment: media_sequence does not count what leaves the window.
StartUncounted(segs, first) ==
    LET pushed == Append(segs, Segment(first + Len(segs)))
    IN  [segs |-> IF Len(pushed) > MaxSegments + 1 THEN Tail(pushed) ELSE pushed,
         first |-> first]

\* start_segment: the window keeps one segment more than max_segments.
StartSegment(segs, first) ==
    LET pushed == Append(segs, Segment(first + Len(segs)))
    IN  IF Len(pushed) > MaxSegments + 1 THEN [segs |-> Tail(pushed), first |-> first + 1]
                                         ELSE [segs |-> pushed, first |-> first]

\* current_part_index
CurrentPartIndex ==
    IF segments = <<>> \/ segments[Len(segments)].parts = <<>>
    THEN 0 ELSE Len(segments[Len(segments)].parts) - 1

\* current_media_sequence, with its saturating_sub
CurrentMediaSequence ==
    media_sequence + IF segments = <<>> THEN 0 ELSE Len(segments) - 1

\* The part that the preload hint of a chunklist names, of the open segment.
PreloadHint ==
    LET last == segments[Len(segments)]
    IN  IF segments = <<>> \/ IsComplete(last) \/ last.parts = <<>>
        THEN None ELSE Len(last.parts)

\* The loop of to_media_playlist: of the first n segments those that are complete.
Completed(segs) ==
    LET among[n \in 0..Len(segs)] ==
            IF n = 0 THEN <<>>
            ELSE IF IsComplete(segs[n]) THEN Append(among[n - 1], segs[n]) ELSE among[n - 1]
    IN  among[Len(segs)]

\* to_media_playlist: the segments without the open one, under the same number.
MediaPlaylist == [first |-> media_sequence, segs |-> Completed(segments)]

\* What a call does under the generator's lock: a part of the open segment, by
\* the index in its name or by the next index; the open segment's file, which
\* opens the next; or, if the name cannot be parsed, a segment of its own.
Apply(c) ==
    LET full   == StartSegment(CompleteSegment(segments, c.index), media_sequence)
        simple == StartSegment(segments, media_sequence)
    IN  \/ /\ c.kind = "part"
           /\ segments' = AddPart(segments, c.index)
           /\ UNCHANGED media_sequence
        \/ /\ c.kind = "manual_part"
           /\ segments' = AddPart(segments, CurrentPartIndex + 1)
           /\ UNCHANGED media_sequence
        \/ /\ c.kind = "full"
           /\ segments' = full.segs
           /\ media_sequence' = full.first
        \/ /\ c.kind = "simple"
           /\ segments' = CompleteSegment(simple.segs, c.index)
           /\ media_sequence' = simple.first

-----------------------------------------------------------------------------
(* tokio's RwLock: a task that asks joins the queue, and the head of the     *)
(* queue gets its guard when the guards that exist allow it.                 *)

Ask(t) == waiting' = Append(waiting, t)
AtHead(t) == waiting # <<>> /\ Head(waiting) = t

AcquireRead(t) ==
    /\ AtHead(t)
    /\ writer = None
    /\ waiting' = Tail(waiting)
    /\ guards' = [guards EXCEPT ![t] = @ + 1]
    /\ UNCHANGED writer

AcquireWrite(t) ==
    /\ AtHead(t)
    /\ writer = None
    /\ \A u \in Tasks : guards[u] = 0
    /\ waiting' = Tail(waiting)
    /\ writer' = t
    /\ UNCHANGED guards

-----------------------------------------------------------------------------
(* A feeder's call: process_segment_file, add_part or complete_segment, then *)
(* update_playlist.                                                         *)

\* The encoder has made a part or a segment, or its init segment; the call asks
\* for streams.read().
Feed(t) ==
    /\ t \in Feeders
    /\ pc[t] = "idle"
    /\ calls < MaxCalls
    /\ calls' = calls + 1
    /\ \E kind \in KindsOf[encoder] \cup {"init"} :
         /\ call' = [call EXCEPT ![t] = [kind |-> kind, n |-> calls',
                                        index |-> IF kind \in Files THEN made ELSE encoded]]
         /\ encoded' = CASE kind = "init" -> encoded
                         [] kind \in Files -> 0
                         [] OTHER -> encoded + 1
         /\ made' = IF kind \in Files THEN made + 1 ELSE made
    /\ Ask(t)
    /\ Goto(t, "lookup")
    /\ UNCHANGED <<encoder, guards, writer, generator, queued>>

\* streams.get: without the stream the call returns.
Lookup(t) ==
    /\ pc[t] = "lookup"
    /\ AcquireRead(t)
    /\ Goto(t, IF ~running THEN "return" ELSE IF call[t].kind = "init" THEN "init" ELSE "apply")
    /\ UNCHANGED <<call, source, generator, queued>>

\* The file is the first one, or it is not; the call is the last one.
Told(c) ==
    /\ first_file' = IF first_file = None /\ c.kind \in Files THEN c.index ELSE first_file
    /\ stamp' = c.n

\* Mutant of Change: a part does not update the playlist.
ChangeQuietly(t) ==
    /\ pc[t] = "apply"
    /\ Apply(call[t])
    /\ Told(call[t])
    /\ \/ call[t].kind = "part" /\ Goto(t, "return") /\ UNCHANGED waiting
       \/ call[t].kind # "part" /\ Goto(t, "again") /\ Ask(t)
    /\ UNCHANGED <<call, source, guards, writer, running, init_segment, queued>>

\* generator.write(), the change, drop(generator); update_playlist asks for
\* streams.read() again.
Change(t) ==
    /\ pc[t] = "apply"
    /\ Apply(call[t])
    /\ Told(call[t])
    /\ Ask(t)
    /\ Goto(t, "again")
    /\ UNCHANGED <<call, source, guards, writer, running, init_segment, queued>>

\* set_init_segment: the chunklist has EXT-X-MAP from its next update on.
SetInit(t) ==
    /\ pc[t] = "init"
    /\ init_segment' = TRUE
    /\ Goto(t, "return")
    /\ UNCHANGED <<call, source, lock, running, segments, media_sequence, first_file,
                   stamp, queued>>

\* The second guard, generate_media_playlist, and drop(streams).
Generate(t) ==
    /\ pc[t] = "again"
    /\ AtHead(t)
    /\ writer = None
    /\ waiting' = Tail(waiting)
    /\ call' = [call EXCEPT ![t].n = stamp]
    /\ Goto(t, "upload")
    /\ UNCHANGED <<source, guards, writer, generator, queued>>

\* queue_segment(chunklist.m3u8).
Upload(t) ==
    /\ pc[t] = "upload"
    /\ queued' = call[t].n
    /\ Goto(t, "return")
    /\ UNCHANGED <<call, source, lock, generator>>

\* The call returns and drops its first guard.
Return(t) ==
    /\ pc[t] = "return"
    /\ guards' = [guards EXCEPT ![t] = @ - 1]
    /\ call' = [call EXCEPT ![t] = Idle]
    /\ Goto(t, "idle")
    /\ UNCHANGED <<source, waiting, writer, generator, queued>>

-----------------------------------------------------------------------------
(* A controller.                                                            *)

\* start_stream or stop_stream asks for streams.write().
Control(t) ==
    /\ t \in Controllers
    /\ pc[t] = "idle"
    /\ calls < MaxCalls
    /\ calls' = calls + 1
    /\ \E kind \in {"start", "stop"} :
         call' = [call EXCEPT ![t] = [kind |-> kind, n |-> calls', index |-> 0]]
    /\ Ask(t)
    /\ Goto(t, "write")
    /\ UNCHANGED <<encoder, encoded, made, guards, writer, generator, queued>>

\* streams.insert of a new generator, or streams.remove.
Update(t) ==
    /\ pc[t] = "write"
    /\ AcquireWrite(t)
    /\ running' = (call[t].kind = "start")
    /\ segments' = <<>>
    /\ media_sequence' = 0
    /\ init_segment' = FALSE
    /\ first_file' = None
    /\ stamp' = 0
    /\ Goto(t, "unlock")
    /\ UNCHANGED <<call, source, queued>>

\* The write guard is dropped.
Unlock(t) ==
    /\ pc[t] = "unlock"
    /\ writer' = None
    /\ call' = [call EXCEPT ![t] = Idle]
    /\ Goto(t, "idle")
    /\ UNCHANGED <<source, waiting, guards, generator, queued>>

Step(t) ==
    \/ Lookup(t)
    \/ Change(t)
    \/ SetInit(t)
    \/ Generate(t)
    \/ Upload(t)
    \/ Return(t)
    \/ Update(t)
    \/ Unlock(t)

\* All the calls of the instance have returned.
Over ==
    /\ calls = MaxCalls
    /\ \A t \in Tasks : pc[t] = "idle"
    /\ UNCHANGED vars

Next == (\E t \in Tasks : Feed(t) \/ Control(t) \/ Step(t)) \/ Over

Spec == Init /\ [][Next]_vars

\* tokio polls the tasks that can go on.
FairSpec == Spec /\ \A t \in Tasks : WF_vars(Step(t))

-----------------------------------------------------------------------------
(* Properties.                                                              *)

Labels == {"idle", "lookup", "init", "apply", "again", "upload", "return",
           "write", "unlock"}

\* The shape of the state; a task waits for the lock exactly when it is at one
\* of its awaits, and a write guard excludes all the read guards.
TypeOK ==
    /\ pc \in [Tasks -> Labels]
    /\ call \in [Tasks -> [kind : AllKinds \cup {"none", "start", "stop"}, n : Nat,
                           index : Nat]]
    /\ calls \in 0..MaxCalls
    /\ encoder \in Encoders
    /\ {encoded, made, media_sequence, stamp, queued} \subseteq Nat
    /\ waiting \in Seq(Tasks)
    /\ {waiting[i] : i \in 1..Len(waiting)}
          = {t \in Tasks : pc[t] \in {"lookup", "again", "write"}}
    /\ guards \in [Tasks -> Nat]
    /\ writer \in Controllers \cup {None}
    /\ \A t \in Tasks : writer = t <=> pc[t] = "unlock"
    /\ writer # None => \A t \in Tasks : guards[t] = 0
    /\ {running, init_segment} \subseteq BOOLEAN
    /\ first_file \in Nat \cup {None}
    /\ segments \in Seq([sequence : Nat, file : Nat \cup {None}, parts : Seq(Nat)])

\* The number each segment was given is the one that EXT-X-MEDIA-SEQUENCE gives
\* it in every chunklist, and the window is bounded, open segment included.
NumberedByWindow ==
    /\ Len(segments) <= MaxSegments + 1
    /\ \A i \in 1..Len(segments) : segments[i].sequence = media_sequence + i - 1
    /\ segments # <<>> => CurrentMediaSequence = segments[Len(segments)].sequence

\* Only the last segment of a chunklist may lack its EXTINF: parts without a
\* segment never stand between two segments.
OnlyLastIsOpen ==
    \A i \in 1..Len(segments) - 1 : IsComplete(segments[i])

\* to_media_playlist leaves out the open segment and numbers the rest alike.
SameNumbers ==
    \A i \in 1..Len(MediaPlaylist.segs) :
        MediaPlaylist.segs[i].sequence = MediaPlaylist.first + i - 1

ChunklistInv == TypeOK /\ NumberedByWindow /\ OnlyLastIsOpen /\ SameNumbers

\* No segment of the encoder is missing, twice or out of order in a chunklist,
\* but the first one that a generator is told of when its name can be parsed:
\* complete_segment finds no segment to complete, and what was to be the file of
\* segment 0 is in no chunklist.
FilesInOrder ==
    LET lost == IF encoder = "plain" THEN 0 ELSE 1
    IN  \A i \in 1..Len(segments) : IsComplete(segments[i]) =>
            segments[i].file = first_file + lost + segments[i].sequence

\* When no call of the stream's one feeder is under way the last chunklist that
\* was handed over is that of the last change, whatever was stopped in between.
LastIsLatest ==
    (\A t \in Feeders : pc[t] = "idle") /\ stamp # 0 => queued = stamp

\* "Index of the part in its segment": files of parts that carry their index get
\* 0, 1, 2 ... in a segment, even when the stream is replaced in between, and the
\* preload hint has the index that the encoder gives to its next part.
PartsNumbered ==
    /\ encoder = "parsed" =>
        \A i \in 1..Len(segments) : \A p \in 1..Len(segments[i].parts) :
            segments[i].parts[p] = p - 1
    /\ (\A t \in Feeders : pc[t] = "idle") /\ PreloadHint # None
         => PreloadHint = encoded

\* "Update the playlist and upload it": a call that found its stream goes on to
\* its end.
CallsEnd == \A t \in Feeders : pc[t] = "apply" ~> pc[t] = "idle"
=============================================================================

----------------------------- MODULE MemoryBuffer -----------------------------
(***************************************************************************)
(* MemoryBufferManager (data_layer/storage/memory_buffer_manager.rs): what *)
(* is kept in memory of each stream, with a limit on all the bytes and a   *)
(* limit on the segments of a stream.  Nothing on the live path calls it.  *)
(*                                                                         *)
(* Each operation holds the write lock of the map from its first to its    *)
(* last access: one operation is one action.  Data is given by its size,   *)
(* the name of a segment by its rank among the names as strings.           *)
(***************************************************************************)
EXTENDS Integers, Sequences, FiniteSets, FiniteSetsExt, Functions

CONSTANTS Streams,       \* names of streams
          Names,         \* names of segments, ranked as strings
          Sizes,         \* lengths of the data stored
          MaxBytes,      \* max_buffer_size
          MaxSegments,   \* max_segments_per_stream
          MaxCalls       \* bound: how many operations are called

ASSUME BufferAssumption ==
    /\ Names \subseteq Nat
    /\ Sizes \subseteq Nat
    /\ MaxBytes \in Nat
    /\ MaxSegments \in Nat \ {0}
    /\ MaxCalls \in Nat

VARIABLES
    in_order,     \* the names given to a stream never decrease
    buffers,      \* the streams that have a buffer
    segments,     \* segments[s]: the names in the buffer, with their sizes
    extra,        \* extra[s]: the sizes of "playlist" and "init", if there
    total_size,   \* total_size[s]
    last_updated, \* last_updated[s]: the call that updated the buffer last
    known,        \* history: known[s]: the names stored since create_stream
    rewritten,    \* history: rewritten[s]: the bytes replaced by add_segment
    calls         \* how many operations were called: the clock

records == <<segments, extra, total_size, known, rewritten>>
buffer_vars == <<in_order, buffers, records, last_updated, calls>>

BufferInit ==
    /\ in_order \in BOOLEAN
    /\ buffers = {}
    /\ segments = [s \in Streams |-> <<>>]
    /\ extra = [s \in Streams |-> <<>>]
    /\ total_size = [s \in Streams |-> 0]
    /\ last_updated = [s \in Streams |-> 0]
    /\ known = [s \in Streams |-> {}]
    /\ rewritten = [s \in Streams |-> 0]
    /\ calls = 0

\* The sum of the values of a function.
Total(f) == MapThenSumSet(LAMBDA x : f[x], DOMAIN f)

\* get_total_size
AllBytes == Total([s \in buffers |-> total_size[s]])

\* last_updated = now.
Touch(s) == last_updated' = [last_updated EXCEPT ![s] = calls']

\* f with f[x] = y.
With(f, x, y) == [z \in DOMAIN f \cup {x} |-> IF z = x THEN y ELSE f[z]]

\* Mutant of Kept: the names that sort first stay.
KeptFirst(f, keep) ==
    Restrict(f, {n \in DOMAIN f : Cardinality({m \in DOMAIN f : m < n}) < keep})

\* cleanup_old_segments: the names that sort last stay.
Kept(f, keep) ==
    Restrict(f, {n \in DOMAIN f : Cardinality({m \in DOMAIN f : m > n}) < keep})

\* Mutant of Freed: the size that was freed is not taken off.
FreedNothing(f, keep) == 0

\* What cleanup_old_segments takes off total_size.
Freed(f, keep) == Total(f) - Total(Kept(f, keep))

AtLeastOne(n) == IF n < 1 THEN 1 ELSE n

-----------------------------------------------------------------------------
(* The operations.                                                          *)

Called == calls < MaxCalls /\ calls' = calls + 1 /\ UNCHANGED in_order

\* create_stream: a buffer that was there is replaced.
CreateStream(s) ==
    /\ Called
    /\ buffers' = buffers \cup {s}
    /\ segments' = [segments EXCEPT ![s] = <<>>]
    /\ extra' = [extra EXCEPT ![s] = <<>>]
    /\ total_size' = [total_size EXCEPT ![s] = 0]
    /\ known' = [known EXCEPT ![s] = {}]
    /\ rewritten' = [rewritten EXCEPT ![s] = 0]
    /\ Touch(s)

\* The stream that the limit on the bytes costs half of its segments, if there is
\* one: that which was updated least recently.
Victim(size) ==
    {s \in buffers : /\ AllBytes + size > MaxBytes
                     /\ \A r \in buffers : last_updated[s] <= last_updated[r]}

\* cleanup_oldest_segments_static, if the data does not fit.
Shrunk(size) ==
    [s \in Streams |-> IF s \in Victim(size)
                       THEN Kept(segments[s], AtLeastOne(Cardinality(DOMAIN segments[s]) \div 2))
                       ELSE segments[s]]

ShrunkSize(size) ==
    [s \in Streams |-> IF s \in Victim(size)
                       THEN total_size[s] - Freed(segments[s], AtLeastOne(Cardinality(DOMAIN segments[s]) \div 2))
                       ELSE total_size[s]]

\* store_segment for a stream that has no buffer: an error, after the cleanup.
StoreNowhere(s, size) ==
    /\ Called
    /\ s \notin buffers
    /\ segments' = Shrunk(size)
    /\ total_size' = ShrunkSize(size)
    /\ UNCHANGED <<buffers, extra, last_updated, known, rewritten>>

\* store_segment: add_segment adds the size, whatever it replaces; then the
\* number of segments is brought back to the limit.
StoreSegment(s, name, size) ==
    LET before == Shrunk(size)[s]
        added  == With(before, name, size)
    IN  /\ Called
        /\ s \in buffers
        /\ in_order => \A n \in known[s] : n <= name
        /\ segments' = [Shrunk(size) EXCEPT ![s] = Kept(added, MaxSegments)]
        /\ total_size' = [ShrunkSize(size) EXCEPT ![s] = @ + size - Freed(added, MaxSegments)]
        /\ known' = [known EXCEPT ![s] = @ \cup {name}]
        /\ rewritten' = IF name \in DOMAIN before
                        THEN [rewritten EXCEPT ![s] = @ + before[name]] ELSE rewritten
        /\ Touch(s)
        /\ UNCHANGED <<buffers, extra>>

\* store_playlist, store_init_segment: the size of the old data is taken off.
StoreExtra(s, what, size) ==
    /\ Called
    /\ s \in buffers
    /\ extra' = [extra EXCEPT ![s] = With(@, what, size)]
    /\ total_size' = [total_size EXCEPT ![s] =
                        @ + size - IF what \in DOMAIN extra[s] THEN extra[s][what] ELSE 0]
    /\ Touch(s)
    /\ UNCHANGED <<buffers, segments, known, rewritten>>

\* remove_stream
RemoveStream(s) ==
    /\ Called
    /\ buffers' = buffers \ {s}
    /\ segments' = [segments EXCEPT ![s] = <<>>]
    /\ extra' = [extra EXCEPT ![s] = <<>>]
    /\ total_size' = [total_size EXCEPT ![s] = 0]
    /\ known' = [known EXCEPT ![s] = {}]
    /\ rewritten' = [rewritten EXCEPT ![s] = 0]
    /\ last_updated' = [last_updated EXCEPT ![s] = 0]

\* The bound is reached.
NoMoreCalls == calls = MaxCalls /\ UNCHANGED buffer_vars

BufferNext ==
    \/ \E s \in Streams :
          \/ CreateStream(s)
          \/ RemoveStream(s)
          \/ \E size \in Sizes :
                \/ StoreNowhere(s, size)
                \/ \E name \in Names : StoreSegment(s, name, size)
                \/ \E what \in {"playlist", "init"} : StoreExtra(s, what, size)
    \/ NoMoreCalls

BufferSpec == BufferInit /\ [][BufferNext]_buffer_vars

-----------------------------------------------------------------------------
(* Properties.                                                              *)

SomeSizes(Of) == UNION {[X -> Sizes] : X \in SUBSET Of}

BufferTypeOK ==
    /\ buffers \subseteq Streams
    /\ segments \in [Streams -> SomeSizes(Names)]
    /\ extra \in [Streams -> SomeSizes({"playlist", "init"})]
    /\ total_size \in [Streams -> Nat]
    /\ last_updated \in [Streams -> 0..calls]
    /\ \A s, r \in buffers : last_updated[s] = last_updated[r] => s = r

\* total_size, in unsigned arithmetic, is the bytes that are there and the bytes
\* that were overwritten under the name of a segment: it never underflows, it is
\* exact for a stream whose names are distinct, and nothing but a removal of the
\* stream brings the overwritten bytes back.
SizesAreExact ==
    \A s \in buffers : total_size[s] = Total(segments[s]) + Total(extra[s]) + rewritten[s]

BufferInv == BufferTypeOK /\ SizesAreExact

\* Names that are given in the order in which they sort: whatever the limits cost
\* a stream, it keeps the newest of its segments, the last one at least.
KeepsLatest ==
    in_order => \A s \in buffers :
        /\ Cardinality(DOMAIN segments[s]) <= MaxSegments
        /\ \A n \in known[s] \ DOMAIN segments[s] : \A m \in DOMAIN segments[s] : n < m
        /\ known[s] # {} => DOMAIN segments[s] # {}
=============================================================================

------------------------------ MODULE LLHlsProofs ------------------------------
(***************************************************************************)
(* Theorems about LLHlsManager for any number of feeders and controllers,  *)
(* any max_segments and any number of calls; what is said of the order of  *)
(* the files and of the chunklists is for one feeder.                      *)
(***************************************************************************)
EXTENDS LLHlsManager, SequenceTheorems, WellFoundedInduction, TLAPS

-----------------------------------------------------------------------------
(* The generator.                                                           *)

SegmentRec == [sequence : Nat, file : Nat \cup {None}, parts : Seq(Nat)]

\* A change of the last segment leaves the others as they are.
LEMMA OnLastIs ==
    ASSUME NEW segs \in Seq(SegmentRec), segs # <<>>, NEW last \in SegmentRec,
           NEW new, new = [segs EXCEPT ![Len(segs)] = last]
    PROVE  /\ new \in Seq(SegmentRec) /\ Len(new) = Len(segs) /\ new # <<>>
           /\ new[Len(segs)] = last
           /\ \A i \in 1..Len(segs) : i # Len(segs) => new[i] = segs[i]
<1>1. Len(segs) \in 1..Len(segs)
  OBVIOUS
<1>2. new \in Seq(SegmentRec) /\ Len(new) = Len(segs)
  BY <1>1, ExceptSeq
<1>3. \A i \in 1..Len(segs) : new[i] = IF i = Len(segs) THEN last ELSE segs[i]
  BY <1>1
<1>4. new # <<>>
  <2>1. Len(new) # 0
    BY <1>1, <1>2
  <2> QED  BY <2>1
<1>5. new[Len(segs)] = last
  BY <1>1, <1>3
<1> HIDE DEF SegmentRec
<1> QED  BY <1>2, <1>3, <1>4, <1>5

\* add_part gives the last segment one part more, and nothing else.
LEMMA AddPartIs ==
    ASSUME NEW segs \in Seq(SegmentRec), NEW index \in Nat, NEW new, new = AddPart(segs, index)
    PROVE  /\ new \in Seq(SegmentRec) /\ Len(new) = Len(segs)
           /\ \A i \in 1..Len(segs) : /\ new[i].sequence = segs[i].sequence
                                      /\ new[i].file = segs[i].file
                                      /\ i # Len(segs) => new[i].parts = segs[i].parts
           /\ segs # <<>> => new[Len(segs)].parts = Append(segs[Len(segs)].parts, index)
<1>1. CASE segs = <<>>
  BY <1>1 DEF AddPart, OnLast
<1>2. CASE segs # <<>>
  <2> DEFINE old == segs[Len(segs)]
             last == [old EXCEPT !.parts = Append(@, index)]
  <2>1. old \in SegmentRec
    BY <1>2
  <2> HIDE DEF old
  <2>2. /\ last \in SegmentRec /\ last.parts = Append(old.parts, index)
        /\ last.sequence = old.sequence /\ last.file = old.file
    <3> DEFINE longer == Append(old.parts, index)
    <3>1. longer \in Seq(Nat)
      BY <2>1 DEF SegmentRec
    <3>2. last = [old EXCEPT !.parts = longer]
      OBVIOUS
    <3> HIDE DEF longer, last
    <3>3. /\ last \in SegmentRec /\ last.parts = longer
          /\ last.sequence = old.sequence /\ last.file = old.file
      BY <2>1, <3>1, <3>2 DEF SegmentRec
    <3> QED  BY <3>3 DEF longer
  <2>3. new = [segs EXCEPT ![Len(segs)] = last]
    BY <1>2 DEF AddPart, OnLast, old
  <2> HIDE DEF last
  <2>4. /\ new \in Seq(SegmentRec) /\ Len(new) = Len(segs)
        /\ new[Len(segs)] = last
        /\ \A i \in 1..Len(segs) : i # Len(segs) => new[i] = segs[i]
    BY <1>2, <2>2, <2>3, OnLastIs
  <2> QED  BY <2>2, <2>4 DEF old
<1> QED  BY <1>1, <1>2

\* complete_segment gives the last segment its file, and nothing else.
LEMMA CompleteSegmentIs ==
    ASSUME NEW segs \in Seq(SegmentRec), NEW file \in Nat, NEW new, new = CompleteSegment(segs, file)
    PROVE  /\ new \in Seq(SegmentRec) /\ Len(new) = Len(segs)
           /\ \A i \in 1..Len(segs) : /\ new[i].sequence = segs[i].sequence
                                      /\ new[i].file = IF i = Len(segs) THEN file ELSE segs[i].file
                                      /\ new[i].parts = segs[i].parts
<1>1. CASE segs = <<>>
  BY <1>1 DEF CompleteSegment, OnLast
<1>2. CASE segs # <<>>
  <2> DEFINE old == segs[Len(segs)]
             last == [old EXCEPT !.file = file]
  <2>1. old \in SegmentRec
    BY <1>2
  <2> HIDE DEF old
  <2>2. /\ last \in SegmentRec /\ last.parts = old.parts
        /\ last.sequence = old.sequence /\ last.file = file
    BY <2>1 DEF SegmentRec
  <2>3. new = [segs EXCEPT ![Len(segs)] = last]
    BY <1>2 DEF CompleteSegment, OnLast, old
  <2> HIDE DEF last
  <2>4. /\ new \in Seq(SegmentRec) /\ Len(new) = Len(segs)
        /\ new[Len(segs)] = last
        /\ \A i \in 1..Len(segs) : i # Len(segs) => new[i] = segs[i]
    BY <1>2, <2>2, <2>3, OnLastIs
  <2> QED  BY <2>2, <2>4 DEF old
<1> QED  BY <1>1, <1>2

\* start_segment opens a segment behind the others; a full window loses its first.
LEMMA StartSegmentIs ==
    ASSUME NEW segs \in Seq(SegmentRec), NEW first \in Nat, Len(segs) <= MaxSegments + 1,
           NEW new, new = StartSegment(segs, first)
    PROVE  \E d \in {0, 1} :
              /\ new.first = first + d
              /\ new.segs \in Seq(SegmentRec) /\ Len(new.segs) = Len(segs) + 1 - d
              /\ Len(new.segs) <= MaxSegments + 1
              /\ new.segs # <<>>
              /\ \A i \in 1..(Len(segs) - d) : new.segs[i] = segs[i + d]
              /\ new.segs[Len(new.segs)] = Segment(first + Len(segs))
<1> DEFINE segment == Segment(first + Len(segs))
           pushed == Append(segs, segment)
<1>0. Len(segs) \in Nat /\ MaxSegments \in Nat \ {0}
  BY LLHlsAssumption
<1>1. segment \in SegmentRec
  <2>1. first + Len(segs) \in Nat
    BY <1>0
  <2> QED  BY <2>1 DEF Segment, SegmentRec
<1> HIDE DEF segment
<1>2. /\ pushed \in Seq(SegmentRec) /\ Len(pushed) = Len(segs) + 1 /\ pushed # <<>>
      /\ \A i \in 1..Len(segs) : pushed[i] = segs[i]
      /\ pushed[Len(segs) + 1] = segment
  BY <1>0, <1>1
<1>3. new = IF Len(pushed) > MaxSegments + 1 THEN [segs |-> Tail(pushed), first |-> first + 1]
                                             ELSE [segs |-> pushed, first |-> first]
  BY DEF StartSegment, segment
<1> HIDE DEF pushed
<1>4. CASE Len(pushed) > MaxSegments + 1
  <2>1. new.segs = Tail(pushed) /\ new.first = first + 1
    BY <1>3, <1>4
  <2>2. /\ Tail(pushed) \in Seq(SegmentRec) /\ Len(Tail(pushed)) = Len(segs)
        /\ \A i \in 1..Len(segs) : Tail(pushed)[i] = pushed[i + 1]
    BY <1>0, <1>2
  <2>3. \A i \in 1..(Len(segs) - 1) : i \in 1..Len(segs) /\ i + 1 \in 1..Len(segs)
    BY <1>0
  <2>4. Len(segs) > 0 /\ Len(segs) \in 1..Len(segs)
    BY <1>0, <1>2, <1>4
  <2>5. /\ \A i \in 1..(Len(segs) - 1) : Tail(pushed)[i] = segs[i + 1]
        /\ Tail(pushed)[Len(segs)] = segment
    BY <1>2, <2>2, <2>3, <2>4
  <2>6. Tail(pushed) # <<>>
    BY <2>2, <2>4
  <2> WITNESS 1 \in {0, 1}
  <2> QED  BY <1>0, <2>1, <2>2, <2>5, <2>6 DEF segment
<1>5. CASE ~ (Len(pushed) > MaxSegments + 1)
  <2>1. new.segs = pushed /\ new.first = first
    BY <1>3, <1>5
  <2>2. \A i \in 1..(Len(segs) - 0) : i \in 1..Len(segs) /\ i + 0 = i
    BY <1>0
  <2>3. Len(pushed) = Len(segs) + 1 - 0 /\ first + 0 = first /\ Len(pushed) <= MaxSegments + 1
    BY <1>0, <1>2, <1>5
  <2> WITNESS 0 \in {0, 1}
  <2> QED  BY <1>2, <2>1, <2>2, <2>3 DEF segment
<1> QED  BY <1>4, <1>5

-----------------------------------------------------------------------------
(* The invariant of the lock and of the window.                             *)

\* Where a task waits for the lock, and where it has its read guard.
Waits == {"lookup", "again", "write"}
Holds == {"init", "apply", "again", "upload", "return"}

CallRec == [kind : AllKinds \cup {"none", "start", "stop"}, n : Nat, index : Nat]

Shape ==
    /\ pc \in [Tasks -> Labels]
    /\ call \in [Tasks -> CallRec]
    /\ calls \in 0..MaxCalls
    /\ encoder \in Encoders
    /\ encoded \in Nat /\ made \in Nat /\ stamp \in Nat /\ queued \in Nat
    /\ running \in BOOLEAN /\ init_segment \in BOOLEAN
    /\ first_file \in Nat \cup {None}

\* The tasks that wait are in the queue, once.
QueueOK ==
    /\ waiting \in Seq(Tasks)
    /\ {waiting[i] : i \in 1..Len(waiting)} = {t \in Tasks : pc[t] \in Waits}
    /\ \A i, l \in 1..Len(waiting) : waiting[i] = waiting[l] => i = l

\* A call owns one read guard from its lookup to its return.
LockOK ==
    /\ guards \in [Tasks -> Nat]
    /\ \A t \in Tasks : guards[t] = IF pc[t] \in Holds THEN 1 ELSE 0
    /\ writer \in Controllers \cup {None}
    /\ \A t \in Tasks : writer = t <=> pc[t] = "unlock"
    /\ writer # None => \A t \in Tasks : guards[t] = 0

\* The calls are those that the encoder leads to, and only a running stream is fed.
CallsOK ==
    /\ \A t \in Feeders : pc[t] \notin {"write", "unlock"}
    /\ \A t \in Controllers : pc[t] \in {"idle", "write", "unlock"}
    /\ \A t \in Tasks :
          /\ pc[t] = "lookup" => call[t].kind \in KindsOf[encoder] \cup {"init"}
          /\ pc[t] = "apply" => call[t].kind \in KindsOf[encoder] /\ running

WindowOK ==
    /\ segments \in Seq(SegmentRec)
    /\ media_sequence \in Nat
    /\ Len(segments) <= MaxSegments + 1
    /\ \A i \in 1..Len(segments) : segments[i].sequence = media_sequence + i - 1
    /\ OnlyLastIsOpen
    /\ encoder = "plain" => \A i \in 1..Len(segments) : IsComplete(segments[i])
    /\ segments = <<>> => media_sequence = 0

ManagerInv == Shape /\ QueueOK /\ LockOK /\ CallsOK /\ WindowOK

LEMMA KindsAre ==
    ASSUME Shape
    PROVE  /\ encoder = "plain" => KindsOf[encoder] = {"simple"}
           /\ encoder # "plain" => KindsOf[encoder] \in {{"part", "full"}, {"manual_part", "full"}}
           /\ encoder = "parsed" => KindsOf[encoder] = {"part", "full"}
           /\ KindsOf[encoder] \subseteq AllKinds \ {"init"}
<1>1. encoder \in {"parsed", "manual", "plain"}
  BY LLHlsAssumption DEF Shape, KindsOf
<1>2. CASE encoder = "parsed"
  BY <1>2 DEF KindsOf, AllKinds, Files
<1>3. CASE encoder = "manual"
  BY <1>3 DEF KindsOf, AllKinds, Files
<1>4. CASE encoder = "plain"
  BY <1>4 DEF KindsOf, AllKinds, Files
<1> QED  BY <1>1, <1>2, <1>3, <1>4

-----------------------------------------------------------------------------
(* What a call does under the generator's lock.                             *)

\* A part changes the parts of the last segment.
LEMMA PartIs ==
    ASSUME Shape, WindowOK, NEW c \in [kind : AllKinds, n : Nat, index : Nat],
           c.kind \in {"part", "manual_part"}, Apply(c)
    PROVE  /\ segments' \in Seq(SegmentRec) /\ Len(segments') = Len(segments)
           /\ media_sequence' = media_sequence
           /\ \A i \in 1..Len(segments) :
                 /\ segments'[i].sequence = segments[i].sequence
                 /\ segments'[i].file = segments[i].file
                 /\ i # Len(segments) => segments'[i].parts = segments[i].parts
           /\ segments # <<>> => \E index \in Nat :
                 /\ segments'[Len(segments)].parts = Append(segments[Len(segments)].parts, index)
                 /\ c.kind = "part" => index = c.index
<1>1. PICK index \in Nat : /\ segments' = AddPart(segments, index)
                           /\ c.kind = "part" => index = c.index
  <2>1. CASE c.kind = "part"
    BY <2>1 DEF Apply
  <2>2. CASE c.kind = "manual_part"
    <3>1. CurrentPartIndex + 1 \in Nat
      <4>1. CASE segments = <<>> \/ segments[Len(segments)].parts = <<>>
        BY <4>1 DEF CurrentPartIndex
      <4>2. CASE segments # <<>> /\ segments[Len(segments)].parts # <<>>
        <5>1. segments[Len(segments)] \in SegmentRec
          BY <4>2 DEF WindowOK
        <5>2. segments[Len(segments)].parts \in Seq(Nat)
          BY <5>1 DEF SegmentRec
        <5>3. Len(segments[Len(segments)].parts) \in Nat
          BY <5>2
        <5> QED  BY <4>2, <5>3 DEF CurrentPartIndex
      <4> QED  BY <4>1, <4>2
    <3> QED  BY <2>2, <3>1 DEF Apply
  <2> QED  BY <2>1, <2>2
<1>2. media_sequence' = media_sequence
  BY DEF Apply
<1>3. /\ segments' \in Seq(SegmentRec) /\ Len(segments') = Len(segments)
      /\ \A i \in 1..Len(segments) :
            /\ segments'[i].sequence = segments[i].sequence
            /\ segments'[i].file = segments[i].file
            /\ i # Len(segments) => segments'[i].parts = segments[i].parts
      /\ segments # <<>> =>
            segments'[Len(segments)].parts = Append(segments[Len(segments)].parts, index)
  <2> segments \in Seq(SegmentRec)
    BY DEF WindowOK
  <2> QED  BY <1>1, AddPartIs
<1> QED  BY <1>1, <1>2, <1>3

\* A file completes the last segment and opens one, or is a segment of its own;
\* the window may lose its first segment.
LEMMA FileIs ==
    ASSUME Shape, WindowOK, NEW c \in [kind : AllKinds, n : Nat, index : Nat],
           c.kind \in Files, Apply(c)
    PROVE  \E d \in {0, 1} :
              /\ segments' \in Seq(SegmentRec)
              /\ Len(segments') = Len(segments) + 1 - d
              /\ Len(segments') <= MaxSegments + 1
              /\ segments' # <<>>
              /\ media_sequence' = media_sequence + d
              /\ \A i \in 1..(Len(segments) - d) :
                    /\ segments'[i].sequence = segments[i + d].sequence
                    /\ segments'[i].parts = segments[i + d].parts
                    /\ segments'[i].file = IF c.kind = "full" /\ i + d = Len(segments)
                                           THEN c.index ELSE segments[i + d].file
              /\ segments'[Len(segments')].sequence = media_sequence + Len(segments)
              /\ segments'[Len(segments')].parts = <<>>
              /\ segments'[Len(segments')].file = IF c.kind = "full" THEN None ELSE c.index
<1>0. /\ segments \in Seq(SegmentRec) /\ Len(segments) \in Nat /\ Len(segments) <= MaxSegments + 1
      /\ media_sequence \in Nat /\ MaxSegments \in Nat
  BY LLHlsAssumption DEF WindowOK
<1>1. CASE c.kind = "full"
  <2> DEFINE done == CompleteSegment(segments, c.index)
             new == StartSegment(done, media_sequence)
  <2>1. segments' = new.segs /\ media_sequence' = new.first
    BY <1>1 DEF Apply
  <2>2. /\ done \in Seq(SegmentRec) /\ Len(done) = Len(segments)
        /\ \A i \in 1..Len(segments) :
              /\ done[i].sequence = segments[i].sequence
              /\ done[i].file = IF i = Len(segments) THEN c.index ELSE segments[i].file
              /\ done[i].parts = segments[i].parts
    BY <1>0, CompleteSegmentIs
  <2> HIDE DEF done
  <2>3. PICK d \in {0, 1} :
           /\ new.first = media_sequence + d
           /\ new.segs \in Seq(SegmentRec) /\ Len(new.segs) = Len(done) + 1 - d
           /\ Len(new.segs) <= MaxSegments + 1
           /\ new.segs # <<>>
           /\ \A i \in 1..(Len(done) - d) : new.segs[i] = done[i + d]
           /\ new.segs[Len(new.segs)] = Segment(media_sequence + Len(done))
    BY <1>0, <2>2, StartSegmentIs
  <2> HIDE DEF new
  <2>4. \A i \in 1..(Len(segments) - d) : i + d \in 1..Len(segments)
    BY <1>0
  <2>5. \A i \in 1..(Len(segments) - d) :
           /\ segments'[i].sequence = segments[i + d].sequence
           /\ segments'[i].parts = segments[i + d].parts
           /\ segments'[i].file = IF c.kind = "full" /\ i + d = Len(segments)
                                  THEN c.index ELSE segments[i + d].file
    <3> SUFFICES ASSUME NEW i \in 1..(Len(segments) - d)
                 PROVE  /\ segments'[i].sequence = segments[i + d].sequence
                        /\ segments'[i].parts = segments[i + d].parts
                        /\ segments'[i].file = IF c.kind = "full" /\ i + d = Len(segments)
                                               THEN c.index ELSE segments[i + d].file
      OBVIOUS
    <3>1. segments'[i] = done[i + d]
      BY <2>1, <2>2, <2>3
    <3>2. /\ done[i + d].sequence = segments[i + d].sequence
          /\ done[i + d].file = IF i + d = Len(segments) THEN c.index ELSE segments[i + d].file
          /\ done[i + d].parts = segments[i + d].parts
      BY <2>2, <2>4
    <3> QED  BY <1>1, <3>1, <3>2
  <2>6. /\ segments'[Len(segments')].sequence = media_sequence + Len(segments)
        /\ segments'[Len(segments')].parts = <<>>
        /\ segments'[Len(segments')].file = None
    BY <2>1, <2>2, <2>3 DEF Segment
  <2> WITNESS d \in {0, 1}
  <2> QED  BY <1>1, <2>1, <2>2, <2>3, <2>5, <2>6
<1>2. CASE c.kind = "simple"
  <2> DEFINE new == StartSegment(segments, media_sequence)
             opened == new.segs
  <2>1. segments' = CompleteSegment(opened, c.index) /\ media_sequence' = new.first
    BY <1>2 DEF Apply
  <2>2. PICK d \in {0, 1} :
           /\ new.first = media_sequence + d
           /\ opened \in Seq(SegmentRec) /\ Len(opened) = Len(segments) + 1 - d
           /\ Len(opened) <= MaxSegments + 1
           /\ opened # <<>>
           /\ \A i \in 1..(Len(segments) - d) : opened[i] = segments[i + d]
           /\ opened[Len(opened)] = Segment(media_sequence + Len(segments))
    BY <1>0, StartSegmentIs
  <2> HIDE DEF new, opened
  <2>3. /\ segments' \in Seq(SegmentRec) /\ Len(segments') = Len(opened)
        /\ \A i \in 1..Len(opened) :
              /\ segments'[i].sequence = opened[i].sequence
              /\ segments'[i].file = IF i = Len(opened) THEN c.index ELSE opened[i].file
              /\ segments'[i].parts = opened[i].parts
    BY <2>1, <2>2, CompleteSegmentIs
  <2>4. \A i \in 1..(Len(segments) - d) : i \in 1..Len(opened) /\ i # Len(opened)
    BY <1>0, <2>2
  <2>5. \A i \in 1..(Len(segments) - d) :
           /\ segments'[i].sequence = segments[i + d].sequence
           /\ segments'[i].parts = segments[i + d].parts
           /\ segments'[i].file = IF c.kind = "full" /\ i + d = Len(segments)
                                  THEN c.index ELSE segments[i + d].file
    BY <1>2, <2>2, <2>3, <2>4
  <2>6. Len(opened) \in 1..Len(opened)
    BY <2>2
  <2>7. /\ segments'[Len(segments')].sequence = media_sequence + Len(segments)
        /\ segments'[Len(segments')].parts = <<>>
        /\ segments'[Len(segments')].file = c.index
    BY <2>2, <2>3, <2>6 DEF Segment
  <2>8. segments' # <<>>
    <3>1. Len(segments') # 0
      BY <2>3, <2>6
    <3> QED  BY <3>1
  <2> WITNESS d \in {0, 1}
  <2> QED  BY <1>2, <2>1, <2>2, <2>3, <2>5, <2>7, <2>8
<1> QED  BY <1>1, <1>2 DEF Files

\* The window stays right.
LEMMA ApplyWindow ==
    ASSUME Shape, WindowOK, NEW c \in [kind : AllKinds, n : Nat, index : Nat],
           c.kind \in KindsOf[encoder], Apply(c), UNCHANGED encoder
    PROVE  WindowOK'
<1>0. /\ segments \in Seq(SegmentRec) /\ Len(segments) \in Nat /\ media_sequence \in Nat
      /\ Len(segments) <= MaxSegments + 1 /\ MaxSegments \in Nat /\ None \notin Nat
      /\ \A i \in 1..Len(segments) : segments[i].sequence = media_sequence + i - 1
      /\ \A i \in 1..Len(segments) - 1 : segments[i].file # None
      /\ encoder = "plain" => \A i \in 1..Len(segments) : segments[i].file # None
      /\ segments = <<>> => media_sequence = 0
  BY LLHlsAssumption DEF WindowOK, OnlyLastIsOpen, IsComplete
<1>1. CASE c.kind \in {"part", "manual_part"}
  <2>1. /\ segments' \in Seq(SegmentRec) /\ Len(segments') = Len(segments)
        /\ media_sequence' = media_sequence
        /\ \A i \in 1..Len(segments) : /\ segments'[i].sequence = segments[i].sequence
                                       /\ segments'[i].file = segments[i].file
    BY <1>1, PartIs
  <2>2. \A i \in 1..Len(segments') : segments'[i].sequence = media_sequence' + i - 1
    BY <1>0, <2>1
  <2>3. OnlyLastIsOpen'
    <3>1. ASSUME NEW i \in 1..Len(segments') - 1 PROVE segments'[i].file # None
      <4>1. i \in 1..Len(segments) - 1 /\ i \in 1..Len(segments)
        BY <1>0, <2>1
      <4> QED  BY <1>0, <2>1, <4>1
    <3> QED  BY <3>1 DEF OnlyLastIsOpen, IsComplete
  <2>4. encoder # "plain"
    BY <1>1, KindsAre
  <2>5. segments' = <<>> => media_sequence' = 0
    BY <1>0, <2>1
  <2> QED  BY <1>0, <2>1, <2>2, <2>3, <2>4, <2>5 DEF WindowOK
<1>2. CASE c.kind \in Files
  <2>1. PICK d \in {0, 1} :
           /\ segments' \in Seq(SegmentRec)
           /\ Len(segments') = Len(segments) + 1 - d
           /\ Len(segments') <= MaxSegments + 1
           /\ segments' # <<>>
           /\ media_sequence' = media_sequence + d
           /\ \A i \in 1..(Len(segments) - d) :
                 /\ segments'[i].sequence = segments[i + d].sequence
                 /\ segments'[i].parts = segments[i + d].parts
                 /\ segments'[i].file = IF c.kind = "full" /\ i + d = Len(segments)
                                        THEN c.index ELSE segments[i + d].file
           /\ segments'[Len(segments')].sequence = media_sequence + Len(segments)
           /\ segments'[Len(segments')].parts = <<>>
           /\ segments'[Len(segments')].file = IF c.kind = "full" THEN None ELSE c.index
    BY <1>2, FileIs
  <2>2. ASSUME NEW i \in 1..Len(segments')
        PROVE  \/ i \in 1..(Len(segments) - d) /\ i + d \in 1..Len(segments)
               \/ i = Len(segments')
    BY <1>0, <2>1
  <2>3. ASSUME NEW i \in 1..Len(segments')
        PROVE  segments'[i].sequence = media_sequence' + i - 1
    <3>1. CASE i \in 1..(Len(segments) - d) /\ i + d \in 1..Len(segments)
      <4>1. segments'[i].sequence = segments[i + d].sequence
        BY <2>1, <3>1
      <4>2. segments[i + d].sequence = media_sequence + (i + d) - 1
        BY <1>0, <3>1
      <4> QED  BY <1>0, <2>1, <4>1, <4>2
    <3>2. CASE i = Len(segments')
      BY <1>0, <2>1, <3>2
    <3> QED  BY <2>2, <3>1, <3>2
  <2>4. c.kind = "simple" <=> encoder = "plain"
    BY <1>2, KindsAre DEF Files
  <2>5. ASSUME NEW i \in 1..(Len(segments) - d)
        PROVE  segments'[i].file # None
    <3>1. i + d \in 1..Len(segments) /\ c.index # None
      BY <1>0
    <3>2. CASE i + d = Len(segments) /\ c.kind = "full"
      BY <2>1, <3>1, <3>2
    <3>3. CASE i + d = Len(segments) /\ c.kind # "full"
      BY <1>0, <1>2, <2>1, <2>4, <3>1, <3>3 DEF Files
    <3>4. CASE i + d # Len(segments)
      <4>1. i + d \in 1..Len(segments) - 1
        BY <1>0, <3>1, <3>4
      <4> QED  BY <1>0, <2>1, <3>4, <4>1
    <3> QED  BY <3>2, <3>3, <3>4
  <2>6. OnlyLastIsOpen'
    <3>1. \A i \in 1..Len(segments') - 1 : i \in 1..(Len(segments) - d)
      BY <1>0, <2>1
    <3> QED  BY <2>5, <3>1 DEF OnlyLastIsOpen, IsComplete
  <2>7. encoder' = "plain" => \A i \in 1..Len(segments') : IsComplete(segments'[i])
    <3>1. encoder = "plain" => segments'[Len(segments')].file # None
      BY <1>0, <2>1, <2>4
    <3> QED  BY <2>2, <2>5, <3>1 DEF IsComplete
  <2>8. media_sequence' \in Nat
    BY <1>0, <2>1
  <2> QED  BY <2>1, <2>3, <2>6, <2>7, <2>8 DEF WindowOK
<1> QED  BY <1>1, <1>2, KindsAre DEF Files, AllKinds

-----------------------------------------------------------------------------
(* The queue of the lock.                                                   *)

\* A task joins the queue.
LEMMA Joins ==
    ASSUME Shape, QueueOK, NEW t \in Tasks, pc[t] \notin Waits, NEW l \in Waits,
           waiting' = Append(waiting, t), Goto(t, l)
    PROVE  QueueOK'
<1> DEFINE n == Len(waiting)
<1>1. /\ waiting \in Seq(Tasks) /\ n \in Nat
      /\ {waiting[i] : i \in 1..n} = {u \in Tasks : pc[u] \in Waits}
      /\ \A i, k \in 1..n : waiting[i] = waiting[k] => i = k
      /\ \A i \in 1..n : waiting[i] \in Tasks /\ waiting[i] # t
  BY DEF QueueOK
<1>2. /\ waiting' \in Seq(Tasks) /\ Len(waiting') = n + 1 /\ waiting'[n + 1] = t
      /\ \A i \in 1..n : waiting'[i] = waiting[i]
  BY <1>1
<1>3. \A u \in Tasks : pc'[u] = IF u = t THEN l ELSE pc[u]
  BY DEF Shape, Goto
<1> HIDE DEF n
<1>4. {waiting'[i] : i \in 1..Len(waiting')} = {waiting[i] : i \in 1..n} \cup {t}
  <2>1. \A i \in 1..(n + 1) : i \in 1..n \/ i = n + 1
    BY <1>1
  <2>2. \A i \in 1..n : i \in 1..(n + 1)
    BY <1>1
  <2>3. n + 1 \in 1..(n + 1)
    BY <1>1
  <2> QED  BY <1>2, <2>1, <2>2, <2>3
<1>5. {u \in Tasks : pc'[u] \in Waits} = {u \in Tasks : pc[u] \in Waits} \cup {t}
  BY <1>3
<1>6. \A i, k \in 1..Len(waiting') : waiting'[i] = waiting'[k] => i = k
  BY <1>1, <1>2
<1> QED  BY <1>1, <1>2, <1>4, <1>5, <1>6 DEF QueueOK

\* The task at the head leaves the queue.
LEMMA Leaves ==
    ASSUME Shape, QueueOK, NEW t \in Tasks, AtHead(t), NEW l \in Labels \ Waits,
           waiting' = Tail(waiting), Goto(t, l)
    PROVE  QueueOK' /\ pc[t] \in Waits
<1> DEFINE n == Len(waiting)
<1>1. /\ waiting \in Seq(Tasks) /\ n \in Nat /\ n # 0 /\ waiting[1] = t
      /\ {waiting[i] : i \in 1..n} = {u \in Tasks : pc[u] \in Waits}
      /\ \A i, k \in 1..n : waiting[i] = waiting[k] => i = k
  BY DEF QueueOK, AtHead
<1>2. /\ waiting' \in Seq(Tasks) /\ Len(waiting') = n - 1
      /\ \A i \in 1..(n - 1) : waiting'[i] = waiting[i + 1]
  BY <1>1
<1>3. \A u \in Tasks : pc'[u] = IF u = t THEN l ELSE pc[u]
  BY DEF Shape, Goto
<1>4. pc[t] \in Waits
  <2>1. 1 \in 1..n
    BY <1>1
  <2> QED  BY <1>1, <2>1
<1> HIDE DEF n
<1>5. {waiting'[i] : i \in 1..Len(waiting')} = {waiting[i] : i \in 1..n} \ {t}
  <2>1. ASSUME NEW i \in 1..(n - 1)
        PROVE  waiting'[i] \in {waiting[k] : k \in 1..n} \ {t}
    <3>1. i + 1 \in 1..n /\ 1 \in 1..n /\ i + 1 # 1
      BY <1>1
    <3> QED  BY <1>1, <1>2, <3>1
  <2>2. ASSUME NEW i \in 1..n, waiting[i] # t
        PROVE  waiting[i] \in {waiting'[k] : k \in 1..(n - 1)}
    <3>1. i - 1 \in 1..(n - 1) /\ (i - 1) + 1 = i
      BY <1>1, <2>2
    <3>2. waiting'[i - 1] = waiting[i]
      BY <1>2, <3>1
    <3> QED  BY <3>1, <3>2
  <2> QED  BY <1>2, <2>1, <2>2
<1>6. {u \in Tasks : pc'[u] \in Waits} = {u \in Tasks : pc[u] \in Waits} \ {t}
  BY <1>3
<1>7. ASSUME NEW i \in 1..Len(waiting'), NEW k \in 1..Len(waiting'), waiting'[i] = waiting'[k]
      PROVE  i = k
  <2>1. i + 1 \in 1..n /\ k + 1 \in 1..n /\ waiting[i + 1] = waiting[k + 1]
    BY <1>1, <1>2, <1>7
  <2> QED  BY <1>1, <2>1
<1> QED  BY <1>1, <1>2, <1>4, <1>5, <1>6, <1>7 DEF QueueOK

\* A task that neither joins nor leaves.
LEMMA Stays ==
    ASSUME Shape, QueueOK, NEW t \in Tasks, pc[t] \notin Waits, NEW l \in Labels \ Waits,
           UNCHANGED waiting, Goto(t, l)
    PROVE  QueueOK'
<1>1. \A u \in Tasks : pc'[u] = IF u = t THEN l ELSE pc[u]
  BY DEF Shape, Goto
<1>2. {u \in Tasks : pc'[u] \in Waits} = {u \in Tasks : pc[u] \in Waits}
  BY <1>1
<1> QED  BY <1>2 DEF QueueOK

-----------------------------------------------------------------------------
(* The invariant is inductive.                                              *)

\* The type of a state and of the lock.
LEMMA ManagerShape == ManagerInv => TypeOK
<1> SUFFICES ASSUME ManagerInv PROVE TypeOK
  OBVIOUS
<1>1. {encoded, made, media_sequence, stamp, queued} \subseteq Nat
      /\ {running, init_segment} \subseteq BOOLEAN
  BY DEF ManagerInv, Shape, WindowOK
<1>2. {waiting[i] : i \in 1..Len(waiting)} = {t \in Tasks : pc[t] \in {"lookup", "again", "write"}}
  BY DEF ManagerInv, QueueOK, Waits
<1> QED  BY <1>1, <1>2 DEF ManagerInv, Shape, CallRec, QueueOK, LockOK, WindowOK, SegmentRec, TypeOK

LEMMA ManagerInit == Init => ManagerInv
<1> SUFFICES ASSUME Init PROVE ManagerInv
  OBVIOUS
<1>1. Shape
  <2>1. Idle \in CallRec
    BY DEF Idle, CallRec
  <2>2. pc \in [Tasks -> Labels]
    BY DEF Init, Labels
  <2>3. call \in [Tasks -> CallRec]
    BY <2>1 DEF Init
  <2>4. running \in BOOLEAN /\ init_segment \in BOOLEAN
    BY DEF Init
  <2> QED  BY <2>2, <2>3, <2>4, LLHlsAssumption DEF Init, Shape
<1>2. QueueOK
  BY DEF Init, QueueOK, Waits
<1>3. LockOK
  <2>1. \A t \in Tasks : t # None
    BY LLHlsAssumption DEF Tasks
  <2> QED  BY <2>1 DEF Init, LockOK, Holds
<1>4. CallsOK
  BY DEF Init, CallsOK, Tasks
<1>5. WindowOK
  BY LLHlsAssumption DEF Init, WindowOK, OnlyLastIsOpen
<1> QED  BY <1>1, <1>2, <1>3, <1>4, <1>5 DEF ManagerInv

\* Steps that leave the generator alone.
LEMMA WindowFrame ==
    ASSUME WindowOK, UNCHANGED <<segments, media_sequence, encoder>>
    PROVE  WindowOK'
BY DEF WindowOK, OnlyLastIsOpen, IsComplete

\* Steps that leave the guards alone.
LEMMA GuardsFrame ==
    ASSUME Shape, LockOK, UNCHANGED <<guards, writer>>, NEW t \in Tasks, NEW l \in Labels \ {"unlock"},
           pc[t] # "unlock", pc[t] \in Holds <=> l \in Holds, Goto(t, l)
    PROVE  LockOK'
<1>1. \A u \in Tasks : pc'[u] = IF u = t THEN l ELSE pc[u]
  BY DEF Shape, Goto
<1>2. \A u \in Tasks : guards'[u] = IF pc'[u] \in Holds THEN 1 ELSE 0
  BY <1>1 DEF LockOK
<1>3. \A u \in Tasks : writer' = u <=> pc'[u] = "unlock"
  BY <1>1 DEF LockOK
<1> QED  BY <1>2, <1>3 DEF LockOK

\* Steps that leave the stream where it is: the task t goes on to l with its new
\* call.
LEMMA CallsFrame ==
    ASSUME Shape, CallsOK, UNCHANGED <<encoder, running>>, NEW t \in Tasks, NEW l \in Labels,
           Goto(t, l), \A u \in Tasks \ {t} : call'[u] = call[u],
           t \in Feeders => l \notin {"write", "unlock"},
           t \in Controllers => l \in {"idle", "write", "unlock"},
           l = "lookup" => call'[t].kind \in KindsOf[encoder] \cup {"init"},
           l = "apply" => call'[t].kind \in KindsOf[encoder] /\ running
    PROVE  CallsOK'
<1>1. \A u \in Tasks : pc'[u] = IF u = t THEN l ELSE pc[u]
  BY DEF Shape, Goto
<1> QED  BY <1>1 DEF CallsOK, Tasks

\* An action of a feeder or of a controller takes its task from where it is.
LEMMA WhoActs ==
    ASSUME Shape, CallsOK, NEW t \in Tasks
    PROVE  /\ pc[t] \in Waits \cup Holds => (t \in Feeders <=> pc[t] # "write")
           /\ pc[t] = "write" \/ pc[t] = "unlock" => t \in Controllers
           /\ t \in Feeders <=> t \notin Controllers
BY LLHlsAssumption DEF CallsOK, Tasks, Waits, Holds

LEMMA FeedStep ==
    ASSUME ManagerInv, NEW t \in Tasks, Feed(t) \/ Control(t)
    PROVE  ManagerInv'
<1>1. Shape /\ QueueOK /\ LockOK /\ CallsOK /\ WindowOK
  BY DEF ManagerInv
<1>2. PICK l \in {"lookup", "write"} :
         /\ pc[t] = "idle" /\ Goto(t, l) /\ waiting' = Append(waiting, t)
         /\ l = "lookup" <=> t \in Feeders
         /\ l = "write" <=> t \in Controllers
  BY LLHlsAssumption DEF Feed, Control, Ask
<1>3. /\ calls < MaxCalls /\ calls' = calls + 1
      /\ UNCHANGED <<encoder, guards, writer, running, segments, media_sequence, init_segment,
                     first_file, stamp, queued>>
  BY DEF Feed, Control, generator
<1>4. PICK c \in CallRec :
         /\ call' = [call EXCEPT ![t] = c]
         /\ t \in Feeders => c.kind \in KindsOf[encoder] \cup {"init"}
  <2>0. calls' \in Nat /\ made \in Nat /\ encoded \in Nat
    BY <1>1, <1>3 DEF Shape
  <2>1. CASE Feed(t)
    <3>1. PICK kind \in KindsOf[encoder] \cup {"init"} :
             call' = [call EXCEPT ![t] = [kind |-> kind, n |-> calls',
                                        index |-> IF kind \in Files THEN made ELSE encoded]]
      BY <2>1 DEF Feed
    <3>2. kind \in AllKinds
      BY <1>1, KindsAre DEF AllKinds
    <3> DEFINE c == [kind |-> kind, n |-> calls', index |-> IF kind \in Files THEN made ELSE encoded]
    <3>3. c \in CallRec /\ c.kind = kind
      BY <2>0, <3>2 DEF CallRec
    <3> QED  BY <3>1, <3>3
  <2>2. CASE Control(t)
    <3>1. PICK kind \in {"start", "stop"} :
             call' = [call EXCEPT ![t] = [kind |-> kind, n |-> calls', index |-> 0]]
      BY <2>2 DEF Control
    <3> DEFINE c == [kind |-> kind, n |-> calls', index |-> 0]
    <3>2. c \in CallRec
      BY <2>0 DEF CallRec
    <3>3. t \notin Feeders
      BY <2>2, LLHlsAssumption DEF Control
    <3> QED  BY <3>1, <3>2, <3>3
  <2> QED  BY <2>1, <2>2
<1>5. call'[t] = c /\ \A u \in Tasks \ {t} : call'[u] = call[u]
  BY <1>1, <1>4 DEF Shape
<1>6. Shape'
  <2>1. encoded' \in Nat /\ made' \in Nat
    <3>1. CASE Feed(t)
      BY <1>1, <3>1 DEF Feed, Shape
    <3>2. CASE Control(t)
      BY <1>1, <3>2 DEF Control, Shape
    <3> QED  BY <3>1, <3>2
  <2>2. pc' \in [Tasks -> Labels]
    BY <1>1, <1>2 DEF Shape, Goto, Labels
  <2>3. call' \in [Tasks -> CallRec]
    BY <1>1, <1>4 DEF Shape
  <2>4. calls' \in 0..MaxCalls
    BY <1>1, <1>3, LLHlsAssumption DEF Shape
  <2> QED  BY <1>1, <1>3, <2>1, <2>2, <2>3, <2>4 DEF Shape
<1>7. QueueOK'
  <2>1. pc[t] \notin Waits /\ l \in Waits
    BY <1>2 DEF Waits
  <2> QED  BY <1>1, <1>2, <2>1, Joins
<1>8. LockOK'
  <2>1. pc[t] \notin Holds /\ l \notin Holds /\ l \in Labels \ {"unlock"}
    BY <1>2 DEF Holds, Labels
  <2> QED  BY <1>1, <1>2, <1>3, <2>1, GuardsFrame
<1>9. CallsOK'
  <2>1. l \in Labels
    BY DEF Labels
  <2> QED  BY <1>1, <1>2, <1>3, <1>4, <1>5, <2>1, CallsFrame
<1>10. WindowOK'
  BY <1>1, <1>3, WindowFrame
<1> QED  BY <1>6, <1>7, <1>8, <1>9, <1>10 DEF ManagerInv

\* The first guard of a call, without a stream or with it.
LEMMA LookupStep ==
    ASSUME ManagerInv, NEW t \in Tasks, Lookup(t)
    PROVE  ManagerInv'
<1>1. Shape /\ QueueOK /\ LockOK /\ CallsOK /\ WindowOK
  BY DEF ManagerInv
<1>2. PICK l \in {"return", "init", "apply"} :
         /\ Goto(t, l)
         /\ l = "apply" => running /\ call[t].kind # "init"
  BY DEF Lookup
<1>3. /\ pc[t] = "lookup" /\ AtHead(t) /\ writer = None /\ waiting' = Tail(waiting)
      /\ guards' = [guards EXCEPT ![t] = @ + 1] /\ UNCHANGED writer
      /\ UNCHANGED <<call, calls, encoder, encoded, made, running, segments, media_sequence,
                     init_segment, first_file, stamp, queued>>
  BY DEF Lookup, AcquireRead, source, generator
<1>4. l \in Labels \ Waits /\ l \in Holds /\ l \notin {"unlock", "write"} /\ pc[t] \notin Holds
  BY <1>3 DEF Labels, Waits, Holds
<1>5. \A u \in Tasks : pc'[u] = IF u = t THEN l ELSE pc[u]
  BY <1>1, <1>2 DEF Shape, Goto
<1>6. Shape'
  <2>1. pc' \in [Tasks -> Labels]
    BY <1>1, <1>2, <1>4 DEF Shape, Goto
  <2> QED  BY <1>1, <1>3, <2>1 DEF Shape
<1>7. QueueOK'
  BY <1>1, <1>2, <1>3, <1>4, Leaves
<1>8. LockOK'
  <2>1. guards' \in [Tasks -> Nat]
    BY <1>1, <1>3 DEF LockOK
  <2>2. \A u \in Tasks : guards'[u] = IF pc'[u] \in Holds THEN 1 ELSE 0
    BY <1>1, <1>3, <1>4, <1>5 DEF LockOK
  <2>3. \A u \in Tasks : writer' = u <=> pc'[u] = "unlock"
    BY <1>1, <1>3, <1>4, <1>5 DEF LockOK
  <2> QED  BY <1>1, <1>3, <2>1, <2>2, <2>3 DEF LockOK
<1>9. CallsOK'
  <2>1. t \in Feeders /\ t \notin Controllers
    BY <1>1, <1>3, WhoActs DEF Waits
  <2>2. l = "apply" => call[t].kind \in KindsOf[encoder] /\ running
    BY <1>1, <1>2, <1>3 DEF CallsOK
  <2> QED  BY <1>1, <1>2, <1>3, <1>4, <2>1, <2>2, CallsFrame
<1>10. WindowOK'
  BY <1>1, <1>3, WindowFrame
<1> QED  BY <1>6, <1>7, <1>8, <1>9, <1>10 DEF ManagerInv

\* The change and the request for the second guard.
LEMMA ChangeStep ==
    ASSUME ManagerInv, NEW t \in Tasks, Change(t)
    PROVE  ManagerInv'
<1>1. Shape /\ QueueOK /\ LockOK /\ CallsOK /\ WindowOK
  BY DEF ManagerInv
<1>2. /\ pc[t] = "apply" /\ Goto(t, "again") /\ waiting' = Append(waiting, t)
      /\ Apply(call[t])
      /\ UNCHANGED <<call, calls, encoder, encoded, made, guards, writer, running, init_segment,
                     queued>>
  BY DEF Change, Ask, source
<1>3. /\ pc[t] \notin Waits /\ pc[t] \in Holds /\ "again" \in Waits /\ "again" \in Holds
      /\ "again" \in Labels \ {"unlock"}
  BY <1>2 DEF Waits, Holds, Labels
<1>4. call[t] \in [kind : AllKinds, n : Nat, index : Nat] /\ call[t].kind \in KindsOf[encoder]
  <2>1. call[t] \in CallRec /\ call[t].kind \in KindsOf[encoder] /\ call[t].kind \in AllKinds
    BY <1>1, <1>2, KindsAre DEF CallsOK, Shape
  <2> QED  BY <2>1 DEF CallRec
<1>5. Shape'
  <2>1. call[t].n \in Nat /\ call[t].index \in Nat
    BY <1>4
  <2>2. stamp' \in Nat /\ first_file' \in Nat \cup {None}
    BY <1>1, <2>1 DEF Change, Told, Shape
  <2>3. pc' \in [Tasks -> Labels]
    BY <1>1, <1>2, <1>3 DEF Shape, Goto
  <2> QED  BY <1>1, <1>2, <2>2, <2>3 DEF Shape
<1>6. QueueOK'
  BY <1>1, <1>2, <1>3, Joins
<1>7. LockOK'
  BY <1>1, <1>2, <1>3, GuardsFrame DEF Waits
<1>8. CallsOK'
  <2>1. t \in Feeders /\ t \notin Controllers
    BY <1>1, <1>2, <1>3, WhoActs
  <2> QED  BY <1>1, <1>2, <1>3, <2>1, CallsFrame
<1>9. WindowOK'
  BY <1>1, <1>2, <1>4, ApplyWindow
<1> QED  BY <1>5, <1>6, <1>7, <1>8, <1>9 DEF ManagerInv

\* The rest of a feeder's call.
LEMMA SetInitStep ==
    ASSUME ManagerInv, NEW t \in Tasks, SetInit(t) \/ Upload(t)
    PROVE  ManagerInv'
<1>1. Shape /\ QueueOK /\ LockOK /\ CallsOK /\ WindowOK
  BY DEF ManagerInv
<1>2. /\ pc[t] \in {"init", "upload"} /\ Goto(t, "return")
      /\ UNCHANGED <<call, calls, encoder, encoded, made, waiting, guards, writer, running,
                     segments, media_sequence, first_file, stamp>>
  BY DEF SetInit, Upload, source, lock, generator
<1>3. /\ pc[t] \notin Waits /\ pc[t] \in Holds /\ "return" \in Labels \ Waits /\ "return" \in Holds
      /\ pc[t] # "unlock" /\ "return" \in Labels \ {"unlock"}
  BY <1>2 DEF Waits, Holds, Labels
<1>4. Shape'
  <2>1. init_segment' \in BOOLEAN /\ queued' \in Nat
    <3>1. CASE SetInit(t)
      BY <1>1, <3>1 DEF SetInit, Shape
    <3>2. CASE Upload(t)
      <4>1. call[t].n \in Nat
        BY <1>1 DEF Shape, CallRec
      <4> QED  BY <1>1, <3>2, <4>1 DEF Upload, generator, Shape
    <3> QED  BY <3>1, <3>2
  <2>2. pc' \in [Tasks -> Labels]
    BY <1>1, <1>2, <1>3 DEF Shape, Goto
  <2> QED  BY <1>1, <1>2, <2>1, <2>2 DEF Shape
<1>5. QueueOK'
  BY <1>1, <1>2, <1>3, Stays
<1>6. LockOK'
  BY <1>1, <1>2, <1>3, GuardsFrame
<1>7. CallsOK'
  <2>1. t \in Feeders /\ t \notin Controllers
    BY <1>1, <1>2, <1>3, WhoActs
  <2> QED  BY <1>1, <1>2, <1>3, <2>1, CallsFrame
<1>8. WindowOK'
  BY <1>1, <1>2, WindowFrame
<1> QED  BY <1>4, <1>5, <1>6, <1>7, <1>8 DEF ManagerInv

LEMMA GenerateStep ==
    ASSUME ManagerInv, NEW t \in Tasks, Generate(t)
    PROVE  ManagerInv'
<1>1. Shape /\ QueueOK /\ LockOK /\ CallsOK /\ WindowOK
  BY DEF ManagerInv
<1>2. /\ pc[t] = "again" /\ AtHead(t) /\ waiting' = Tail(waiting) /\ Goto(t, "upload")
      /\ call' = [call EXCEPT ![t].n = stamp]
      /\ UNCHANGED <<calls, encoder, encoded, made, guards, writer, running, segments,
                     media_sequence, init_segment, first_file, stamp, queued>>
  BY DEF Generate, source, generator
<1>3. /\ pc[t] \in Holds /\ "upload" \in Labels \ Waits /\ "upload" \in Holds
      /\ "upload" \in Labels \ {"unlock"}
  BY <1>2 DEF Waits, Holds, Labels
<1>4. call' \in [Tasks -> CallRec] /\ \A u \in Tasks \ {t} : call'[u] = call[u]
  <2>1. stamp \in Nat /\ call[t] \in CallRec
    BY <1>1 DEF Shape
  <2>2. [call[t] EXCEPT !.n = stamp] \in CallRec
    BY <2>1 DEF CallRec
  <2>3. call' = [call EXCEPT ![t] = [call[t] EXCEPT !.n = stamp]]
    BY <1>2
  <2> QED  BY <1>1, <2>2, <2>3 DEF Shape
<1>5. Shape'
  <2>1. pc' \in [Tasks -> Labels]
    BY <1>1, <1>2, <1>3 DEF Shape, Goto
  <2> QED  BY <1>1, <1>2, <1>4, <2>1 DEF Shape
<1>6. QueueOK'
  BY <1>1, <1>2, <1>3, Leaves
<1>7. LockOK'
  BY <1>1, <1>2, <1>3, GuardsFrame
<1>8. CallsOK'
  <2>1. t \in Feeders /\ t \notin Controllers
    BY <1>1, <1>2, <1>3, WhoActs
  <2> QED  BY <1>1, <1>2, <1>3, <1>4, <2>1, CallsFrame
<1>9. WindowOK'
  BY <1>1, <1>2, WindowFrame
<1> QED  BY <1>5, <1>6, <1>7, <1>8, <1>9 DEF ManagerInv

LEMMA ReturnStep ==
    ASSUME ManagerInv, NEW t \in Tasks, Return(t)
    PROVE  ManagerInv'
<1>1. Shape /\ QueueOK /\ LockOK /\ CallsOK /\ WindowOK
  BY DEF ManagerInv
<1>2. /\ pc[t] = "return" /\ Goto(t, "idle")
      /\ guards' = [guards EXCEPT ![t] = @ - 1] /\ call' = [call EXCEPT ![t] = Idle]
      /\ UNCHANGED <<calls, encoder, encoded, made, waiting, writer, running, segments,
                     media_sequence, init_segment, first_file, stamp, queued>>
  BY DEF Return, source, generator
<1>3. /\ pc[t] \in Holds /\ pc[t] \notin Waits /\ "idle" \in Labels \ Waits /\ "idle" \notin Holds
  BY <1>2 DEF Waits, Holds, Labels
<1>4. \A u \in Tasks : pc'[u] = IF u = t THEN "idle" ELSE pc[u]
  BY <1>1, <1>2 DEF Shape, Goto
<1>5. call' \in [Tasks -> CallRec] /\ \A u \in Tasks \ {t} : call'[u] = call[u]
  <2>1. Idle \in CallRec
    BY DEF Idle, CallRec
  <2> QED  BY <1>1, <1>2, <2>1 DEF Shape
<1>6. Shape'
  <2>1. pc' \in [Tasks -> Labels]
    BY <1>1, <1>2, <1>3 DEF Shape, Goto
  <2> QED  BY <1>1, <1>2, <1>5, <2>1 DEF Shape
<1>7. QueueOK'
  BY <1>1, <1>2, <1>3, Stays
<1>8. LockOK'
  <2>1. guards[t] = 1 /\ writer = None
    BY <1>1, <1>3 DEF LockOK
  <2>2. guards' = [guards EXCEPT ![t] = 0]
    BY <1>2, <2>1
  <2>3. guards' \in [Tasks -> Nat] /\ \A u \in Tasks : guards'[u] = IF pc'[u] \in Holds THEN 1 ELSE 0
    BY <1>1, <1>3, <1>4, <2>2 DEF LockOK
  <2>4. \A u \in Tasks : writer' = u <=> pc'[u] = "unlock"
    BY <1>1, <1>2, <1>4 DEF LockOK
  <2> QED  BY <1>1, <1>2, <2>1, <2>3, <2>4 DEF LockOK
<1>9. CallsOK'
  <2>1. t \in Feeders /\ t \notin Controllers
    BY <1>1, <1>2, <1>3, WhoActs
  <2> QED  BY <1>1, <1>2, <1>3, <1>5, <2>1, CallsFrame
<1>10. WindowOK'
  BY <1>1, <1>2, WindowFrame
<1> QED  BY <1>6, <1>7, <1>8, <1>9, <1>10 DEF ManagerInv

\* start_stream and stop_stream: no call is under way with a guard.
LEMMA UpdateStep ==
    ASSUME ManagerInv, NEW t \in Tasks, Update(t)
    PROVE  ManagerInv' /\ \A u \in Tasks : pc[u] \notin Holds
<1>1. Shape /\ QueueOK /\ LockOK /\ CallsOK /\ WindowOK
  BY DEF ManagerInv
<1>2. /\ pc[t] = "write" /\ AtHead(t) /\ writer = None /\ \A u \in Tasks : guards[u] = 0
      /\ waiting' = Tail(waiting) /\ writer' = t /\ UNCHANGED guards
      /\ Goto(t, "unlock") /\ running' = (call[t].kind = "start")
      /\ segments' = <<>> /\ media_sequence' = 0 /\ init_segment' = FALSE
      /\ first_file' = None /\ stamp' = 0
      /\ UNCHANGED <<call, calls, encoder, encoded, made, queued>>
  BY DEF Update, AcquireWrite, source
<1>3. /\ "unlock" \in Labels \ Waits /\ "unlock" \notin Holds /\ pc[t] \notin Holds
      /\ pc[t] # "unlock" /\ "apply" \in Holds
  BY <1>2 DEF Waits, Holds, Labels
<1>4. \A u \in Tasks : pc'[u] = IF u = t THEN "unlock" ELSE pc[u]
  BY <1>1, <1>2 DEF Shape, Goto
<1>5. t \in Controllers /\ t \notin Feeders
  BY <1>1, <1>2, WhoActs
<1>6. \A u \in Tasks : pc[u] \notin Holds
  BY <1>1, <1>2 DEF LockOK
<1>7. Shape'
  <2>1. pc' \in [Tasks -> Labels]
    BY <1>1, <1>2, <1>3 DEF Shape, Goto
  <2>2. running' \in BOOLEAN /\ init_segment' \in BOOLEAN
    BY <1>2
  <2> QED  BY <1>1, <1>2, <2>1, <2>2 DEF Shape
<1>8. QueueOK'
  BY <1>1, <1>2, <1>3, Leaves
<1>9. LockOK'
  <2>1. \A u \in Tasks : guards'[u] = IF pc'[u] \in Holds THEN 1 ELSE 0
    BY <1>1, <1>2, <1>3, <1>4, <1>6 DEF LockOK
  <2>2. \A u \in Tasks : pc[u] # "unlock"
    BY <1>1, <1>2, LLHlsAssumption DEF LockOK, Tasks
  <2>3. \A u \in Tasks : writer' = u <=> pc'[u] = "unlock"
    BY <1>2, <1>4, <2>2
  <2> QED  BY <1>1, <1>2, <1>5, <2>1, <2>3 DEF LockOK
<1>10. CallsOK'
  <2>1. \A u \in Tasks : pc'[u] # "apply"
    BY <1>3, <1>4, <1>6
  <2> QED  BY <1>1, <1>2, <1>4, <1>5, <2>1 DEF CallsOK, Tasks
<1>11. WindowOK'
  <2>1. /\ segments' \in Seq(SegmentRec) /\ Len(segments') = 0 /\ media_sequence' \in Nat
        /\ Len(segments') <= MaxSegments + 1
    BY <1>2, LLHlsAssumption
  <2>2. \A i \in 1..Len(segments') : FALSE
    BY <2>1
  <2>3. \A i \in 1..Len(segments') - 1 : FALSE
    BY <2>1
  <2> QED  BY <1>2, <2>1, <2>2, <2>3 DEF WindowOK, OnlyLastIsOpen
<1> QED  BY <1>6, <1>7, <1>8, <1>9, <1>10, <1>11 DEF ManagerInv

LEMMA UnlockStep ==
    ASSUME ManagerInv, NEW t \in Tasks, Unlock(t)
    PROVE  ManagerInv'
<1>1. Shape /\ QueueOK /\ LockOK /\ CallsOK /\ WindowOK
  BY DEF ManagerInv
<1>2. /\ pc[t] = "unlock" /\ Goto(t, "idle") /\ writer' = None
      /\ call' = [call EXCEPT ![t] = Idle]
      /\ UNCHANGED <<calls, encoder, encoded, made, waiting, guards, running, segments,
                     media_sequence, init_segment, first_file, stamp, queued>>
  BY DEF Unlock, source, generator
<1>3. /\ pc[t] \notin Holds /\ pc[t] \notin Waits /\ "idle" \in Labels \ Waits /\ "idle" \notin Holds
  BY <1>2 DEF Waits, Holds, Labels
<1>4. \A u \in Tasks : pc'[u] = IF u = t THEN "idle" ELSE pc[u]
  BY <1>1, <1>2 DEF Shape, Goto
<1>5. call' \in [Tasks -> CallRec] /\ \A u \in Tasks \ {t} : call'[u] = call[u]
  <2>1. Idle \in CallRec
    BY DEF Idle, CallRec
  <2> QED  BY <1>1, <1>2, <2>1 DEF Shape
<1>6. t \in Controllers /\ t \notin Feeders
  BY <1>1, <1>2, WhoActs
<1>7. Shape'
  <2>1. pc' \in [Tasks -> Labels]
    BY <1>1, <1>2, <1>3 DEF Shape, Goto
  <2> QED  BY <1>1, <1>2, <1>5, <2>1 DEF Shape
<1>8. QueueOK'
  BY <1>1, <1>2, <1>3, Stays
<1>9. LockOK'
  <2>1. \A u \in Tasks : guards'[u] = IF pc'[u] \in Holds THEN 1 ELSE 0
    BY <1>1, <1>2, <1>3, <1>4 DEF LockOK
  <2>2. \A u \in Tasks : u # None /\ (pc[u] = "unlock" => u = t)
    BY <1>1, <1>2, LLHlsAssumption DEF LockOK, Tasks
  <2>3. \A u \in Tasks : writer' = u <=> pc'[u] = "unlock"
    BY <1>2, <1>4, <2>2
  <2> QED  BY <1>1, <1>2, <2>1, <2>3 DEF LockOK
<1>10. CallsOK'
  BY <1>1, <1>2, <1>3, <1>5, <1>6, CallsFrame
<1>11. WindowOK'
  BY <1>1, <1>2, WindowFrame
<1> QED  BY <1>7, <1>8, <1>9, <1>10, <1>11 DEF ManagerInv

LEMMA ManagerInductive == ManagerInv /\ [Next]_vars => ManagerInv'
<1> SUFFICES ASSUME ManagerInv, [Next]_vars PROVE ManagerInv'
  OBVIOUS
<1>1. CASE UNCHANGED vars
  <2>1. UNCHANGED <<pc, call, calls, encoder, encoded, made, waiting, guards, writer, running,
                    segments, media_sequence, init_segment, first_file, stamp, queued>>
    BY <1>1 DEF vars, source, lock, generator
  <2> QED  BY <2>1 DEF ManagerInv, Shape, QueueOK, LockOK, CallsOK, WindowOK, OnlyLastIsOpen, IsComplete
<1>2. ASSUME NEW t \in Tasks, Step(t) PROVE ManagerInv'
  BY <1>2, LookupStep, ChangeStep, SetInitStep, GenerateStep, ReturnStep, UpdateStep, UnlockStep
     DEF Step
<1>3. ASSUME NEW t \in Tasks, Feed(t) \/ Control(t) PROVE ManagerInv'
  BY <1>3, FeedStep
<1> QED  BY <1>1, <1>2, <1>3 DEF Next, Over

\* In every reachable state.
THEOREM ManagerIsRight == Spec => []ManagerInv
BY ManagerInit, ManagerInductive, PTL DEF Spec

-----------------------------------------------------------------------------
(* The chunklist.                                                           *)

\* A set that has 0 and, with a number, the next one has them all.
LEMMA NatSet ==
    ASSUME NEW T, 0 \in T, \A n \in Nat : n \in T => n + 1 \in T
    PROVE  Nat \subseteq T
<1> DEFINE Rest == Nat \ T
<1> SUFFICES ASSUME Rest # {} PROVE FALSE
  OBVIOUS
<1>1. Rest \subseteq Nat
  OBVIOUS
<1> HIDE DEF Rest
<1>2. OpToRel(<, Nat) = {rs \in Nat \X Nat : rs[1] < rs[2]}
  BY DEF OpToRel
<1>3. \E m \in Rest : \A n \in Rest : ~(<<n, m>> \in OpToRel(<, Nat))
  BY <1>1, NatLessThanWellFounded, WFMin
<1>4. PICK m \in Rest : \A n \in Rest : ~(n < m)
  BY <1>1, <1>2, <1>3
<1>5. m \in Nat /\ m \notin T /\ m # 0
  BY <1>4 DEF Rest
<1>6. m - 1 \in Nat /\ m - 1 < m /\ (m - 1) + 1 = m
  BY <1>5
<1>7. m - 1 \in T
  BY <1>4, <1>6 DEF Rest
<1> QED  BY <1>5, <1>6, <1>7

\* What the loop of to_media_playlist has after a segment, and g as all that it
\* has after each of the first k segments.
PushIfComplete(kept, segment) == IF IsComplete(segment) THEN Append(kept, segment) ELSE kept
IsAmong(segs, k, g) ==
    g = [n \in 0..k |-> IF n = 0 THEN <<>> ELSE PushIfComplete(g[n - 1], segs[n])]

\* The loop computes something after each segment.
LEMMA AmongExists ==
    ASSUME NEW segs, NEW k \in Nat
    PROVE  \E g : IsAmong(segs, k, g)
<1> DEFINE T == {n \in Nat : \E g : IsAmong(segs, n, g)}
<1>1. 0 \in T
  <2>1. IsAmong(segs, 0, [n \in 0..0 |-> <<>>])
    BY DEF IsAmong
  <2> QED  BY <2>1
<1>2. ASSUME NEW n \in Nat, n \in T PROVE n + 1 \in T
  <2>1. PICK g : IsAmong(segs, n, g)
    BY <1>2
  <2> DEFINE h == [i \in 0..(n + 1) |-> IF i = n + 1 THEN PushIfComplete(g[n], segs[n + 1])
                                        ELSE g[i]]
  <2>2. IsAmong(segs, n + 1, h)
    BY <2>1 DEF IsAmong
  <2> QED  BY <2>2
<1> HIDE DEF T
<1>3. k \in T
  BY <1>1, <1>2, NatSet
<1> QED  BY <1>3 DEF T

\* Of a window in which only the last segment may be open, the loop keeps the
\* segments in their places.
LEMMA CompletedIs ==
    ASSUME NEW segs \in Seq(SegmentRec), \A i \in 1..Len(segs) - 1 : IsComplete(segs[i])
    PROVE  /\ Completed(segs) \in Seq(SegmentRec)
           /\ Len(Completed(segs)) <= Len(segs)
           /\ \A i \in 1..Len(Completed(segs)) : Completed(segs)[i] = segs[i]
<1> DEFINE k == Len(segs)
           h == CHOOSE g : IsAmong(segs, k, g)
<1>0. k \in Nat /\ \A i \in 1..k : segs[i] \in SegmentRec
  OBVIOUS
<1>1. IsAmong(segs, k, h)
  BY <1>0, AmongExists
<1>2. Completed(segs) = h[k]
  BY Zenon DEF Completed, IsAmong, PushIfComplete
<1> HIDE DEF h
<1>3. /\ h[0] = <<>>
      /\ \A n \in 1..k : h[n] = PushIfComplete(h[n - 1], segs[n])
  <2> HIDE DEF k
  <2>1. h = [n \in 0..k |-> IF n = 0 THEN <<>> ELSE PushIfComplete(h[n - 1], segs[n])]
    BY <1>1 DEF IsAmong
  <2>2. h[0] = <<>>
    BY <1>0, <2>1
  <2>3. ASSUME NEW n \in 1..k PROVE h[n] = PushIfComplete(h[n - 1], segs[n])
    <3>1. n \in 0..k /\ n # 0
      BY <1>0
    <3> QED  BY <2>1, <3>1
  <2> QED  BY <2>2, <2>3
<1> DEFINE Prefix(n) == /\ h[n] \in Seq(SegmentRec) /\ Len(h[n]) = n
                        /\ \A i \in 1..n : h[n][i] = segs[i]
           T == {n \in Nat : n < k => Prefix(n)}
<1> HIDE DEF SegmentRec
<1>4. 0 \in T
  <2>1. <<>> \in Seq(SegmentRec) /\ Len(<<>>) = 0 /\ \A i \in 1..0 : FALSE
    OBVIOUS
  <2>2. Prefix(0)
    BY <1>3, <2>1
  <2> HIDE DEF Prefix
  <2> QED  BY <2>2
<1>5. ASSUME NEW n \in Nat, n \in T PROVE n + 1 \in T
  <2> SUFFICES ASSUME n + 1 < k PROVE Prefix(n + 1)
    OBVIOUS
  <2>1. Prefix(n) /\ n + 1 \in 1..k /\ n + 1 \in 1..k - 1
    BY <1>0, <1>5
  <2>2. (n + 1) - 1 = n /\ IsComplete(segs[n + 1])
    BY <2>1
  <2>3. h[n + 1] = PushIfComplete(h[(n + 1) - 1], segs[n + 1])
    BY <1>3, <2>1
  <2>4. h[n + 1] = Append(h[n], segs[n + 1]) /\ segs[n + 1] \in SegmentRec
    BY <1>0, <2>1, <2>2, <2>3 DEF PushIfComplete
  <2> QED  BY <2>1, <2>4
<1> HIDE DEF T
<1>6. \A n \in Nat : n < k => Prefix(n)
  BY <1>4, <1>5, NatSet DEF T
<1> HIDE DEF Prefix
<1>7. CASE k = 0
  <2>1. Completed(segs) = <<>> /\ Len(<<>>) = 0 /\ <<>> \in Seq(SegmentRec)
    BY <1>2, <1>3, <1>7
  <2> QED  BY <1>7, <2>1
<1>8. CASE k # 0
  <2>1. k - 1 \in Nat /\ k - 1 < k /\ k \in 1..k
    BY <1>0, <1>8
  <2>2. Prefix(k - 1)
    BY <1>6, <2>1
  <2>3. h[k] \in {h[k - 1], Append(h[k - 1], segs[k])}
    BY <1>3, <2>1 DEF PushIfComplete
  <2>4. segs[k] \in SegmentRec
    BY <1>0, <2>1
  <2> DEFINE r == h[k - 1]
  <2>5. r \in Seq(SegmentRec) /\ Len(r) = k - 1 /\ \A i \in 1..(k - 1) : r[i] = segs[i]
    BY <2>2 DEF Prefix
  <2> HIDE DEF r
  <2>6. CASE Completed(segs) = r
    BY <1>0, <2>1, <2>5, <2>6
  <2>7. CASE Completed(segs) = Append(r, segs[k])
    <3>1. /\ Append(r, segs[k]) \in Seq(SegmentRec) /\ Len(Append(r, segs[k])) = k
          /\ \A i \in 1..k : Append(r, segs[k])[i] = IF i = k THEN segs[k] ELSE r[i]
      BY <2>1, <2>4, <2>5
    <3>2. \A i \in 1..k : Append(r, segs[k])[i] = segs[i]
      BY <2>1, <2>5, <3>1
    <3> QED  BY <1>0, <2>7, <3>1, <3>2
  <2> QED  BY <1>2, <2>3, <2>6, <2>7 DEF r
<1> QED  BY <1>7, <1>8

\* The lock of the streams excludes what it should, and every chunklist numbers
\* its segments as the generator did, with none that is open but the last, and
\* none at all in to_media_playlist, however many tasks feed the stream and
\* restart it.
THEOREM ChunklistIsRight == Spec => []ChunklistInv
<1>1. ManagerInv => ChunklistInv
  <2> SUFFICES ASSUME ManagerInv PROVE ChunklistInv
    OBVIOUS
  <2>1. WindowOK /\ Len(segments) \in Nat
    BY DEF ManagerInv, WindowOK
  <2>2. segments # <<>> => CurrentMediaSequence = segments[Len(segments)].sequence
    BY <2>1 DEF WindowOK, CurrentMediaSequence
  <2>3. SameNumbers
    <3> DEFINE kept == Completed(segments)
    <3>1. /\ kept \in Seq(SegmentRec) /\ Len(kept) <= Len(segments)
          /\ \A i \in 1..Len(kept) : kept[i] = segments[i]
      BY <2>1, CompletedIs DEF WindowOK, OnlyLastIsOpen
    <3>2. MediaPlaylist.segs = kept /\ MediaPlaylist.first = media_sequence
      BY DEF MediaPlaylist
    <3> HIDE DEF kept
    <3>3. \A i \in 1..Len(kept) : kept[i].sequence = media_sequence + i - 1
      BY <2>1, <3>1 DEF WindowOK
    <3> QED  BY <3>2, <3>3 DEF SameNumbers
  <2> QED  BY <2>1, <2>2, <2>3, ManagerShape DEF WindowOK, NumberedByWindow, ChunklistInv
<1> QED  BY <1>1, ManagerIsRight, PTL

-----------------------------------------------------------------------------
(* One feeder: the order of the files, of the parts and of the chunklists.  *)

OneFeeder == \E f : Feeders = {f}

\* The call under way that the generator has not been told of.
FileWaits(t) == pc[t] \in {"lookup", "apply"} /\ call[t].kind \in Files
PartWaits(t) == pc[t] \in {"lookup", "apply"} /\ call[t].kind \in {"part", "manual_part"}

\* The file that the generator is told of next, and the parts it was told of.
NextFile(t) == IF FileWaits(t) THEN made - 1 ELSE made
PartsTold(t) == IF PartWaits(t) THEN encoded - 1 ELSE encoded

\* What the encoder has made goes into the call that hands it over.
HandedOver ==
    \A t \in Feeders :
        /\ FileWaits(t) => call[t].index = made - 1 /\ made > 0 /\ encoded = 0
        /\ PartWaits(t) => call[t].index = encoded - 1 /\ encoded > 0

\* The next file belongs behind the last segment.
FilesOK ==
    /\ ~running => first_file = None
    /\ first_file = None <=> segments = <<>>
    /\ FilesInOrder
    /\ first_file # None =>
          \A t \in Feeders : NextFile(t) = first_file + media_sequence + Len(segments)

\* The parts of the open segment are those that the encoder has made of it.
PartsOK ==
    /\ encoder = "parsed" =>
          \A i \in 1..Len(segments) : \A p \in 1..Len(segments[i].parts) :
              segments[i].parts[p] = p - 1
    /\ segments # <<>> /\ encoder # "plain" =>
          \A t \in Feeders :
              ~FileWaits(t) => Len(segments[Len(segments)].parts) = PartsTold(t)

\* Between a change and the upload of its chunklist the call is on its way.
StampOK ==
    \A t \in Feeders :
        /\ pc[t] = "upload" => call[t].n = stamp
        /\ pc[t] \notin {"again", "upload"} /\ stamp # 0 => queued = stamp

FeederInv == HandedOver /\ FilesOK /\ PartsOK /\ StampOK

LEMMA FilesInOrderIs ==
    FilesInOrder <=> \A i \in 1..Len(segments) : segments[i].file # None =>
                        segments[i].file = first_file + (IF encoder = "plain" THEN 0 ELSE 1)
                                              + segments[i].sequence
BY DEF FilesInOrder, IsComplete

LEMMA FeederInit == Init => FeederInv
<1> SUFFICES ASSUME Init PROVE FeederInv
  OBVIOUS
<1>1. HandedOver /\ StampOK
  BY DEF Init, HandedOver, StampOK, FileWaits, PartWaits, Tasks
<1>2. FilesOK
  BY DEF Init, FilesOK, FilesInOrder
<1>3. PartsOK
  BY DEF Init, PartsOK
<1> QED  BY <1>1, <1>2, <1>3 DEF FeederInv

\* Steps that neither make nor hand over a file or a part.
LEMMA FeederFrame ==
    ASSUME FeederInv,
           UNCHANGED <<encoder, encoded, made, running, segments, media_sequence, first_file>>,
           \A t \in Feeders : /\ FileWaits(t)' <=> FileWaits(t)
                              /\ PartWaits(t)' <=> PartWaits(t)
                              /\ call'[t].index = call[t].index
    PROVE  HandedOver' /\ FilesOK' /\ PartsOK'
<1>1. HandedOver'
  BY DEF FeederInv, HandedOver
<1>2. \A t \in Feeders : NextFile(t)' = NextFile(t) /\ PartsTold(t)' = PartsTold(t)
  BY DEF NextFile, PartsTold
<1>3. FilesOK'
  BY <1>2, FilesInOrderIs DEF FeederInv, FilesOK, FilesInOrder, IsComplete
<1>4. PartsOK'
  BY <1>2 DEF FeederInv, PartsOK
<1> QED  BY <1>1, <1>3, <1>4

\* The encoder makes something and hands it over.
LEMMA FeedFeeder ==
    ASSUME OneFeeder, ManagerInv, FeederInv, NEW t \in Tasks, Feed(t)
    PROVE  FeederInv'
<1>0. Feeders = {t} /\ t \in Feeders
  BY DEF OneFeeder, Feed
<1>1. PICK kind \in KindsOf[encoder] \cup {"init"} :
         /\ call' = [call EXCEPT ![t] = [kind |-> kind, n |-> calls',
                                         index |-> IF kind \in Files THEN made ELSE encoded]]
         /\ encoded' = CASE kind = "init" -> encoded
                         [] kind \in Files -> 0
                         [] OTHER -> encoded + 1
         /\ made' = IF kind \in Files THEN made + 1 ELSE made
  BY DEF Feed
<1>2. /\ pc[t] = "idle" /\ pc' = [pc EXCEPT ![t] = "lookup"]
      /\ UNCHANGED <<encoder, running, segments, media_sequence, init_segment, first_file, stamp,
                     queued>>
  BY DEF Feed, Goto, generator
<1>3. pc'[t] = "lookup" /\ call'[t].kind = kind
      /\ call'[t].index = IF kind \in Files THEN made ELSE encoded
  <2>1. pc'[t] = "lookup"
    BY <1>2 DEF ManagerInv, Shape
  <2>2. call'[t] = [kind |-> kind, n |-> calls', index |-> IF kind \in Files THEN made ELSE encoded]
    BY <1>1 DEF ManagerInv, Shape
  <2> QED  BY <2>1, <2>2
<1>4. made \in Nat /\ encoded \in Nat
  BY DEF ManagerInv, Shape
<1>5. kind \in Files \cup {"part", "manual_part", "init"} /\ Files \cap {"part", "manual_part", "init"} = {}
  BY KindsAre DEF ManagerInv, AllKinds, Files
<1>6. /\ ~FileWaits(t) /\ ~PartWaits(t)
      /\ FileWaits(t)' <=> kind \in Files
      /\ PartWaits(t)' <=> kind \in {"part", "manual_part"}
  BY <1>2, <1>3 DEF FileWaits, PartWaits
<1>7. HandedOver'
  BY <1>0, <1>1, <1>3, <1>4, <1>5, <1>6 DEF HandedOver
<1>8. NextFile(t)' = NextFile(t)
  BY <1>1, <1>4, <1>6 DEF NextFile
<1>9. ~FileWaits(t)' => PartsTold(t)' = PartsTold(t)
  BY <1>1, <1>4, <1>5, <1>6 DEF PartsTold
<1>10. FilesOK'
  BY <1>0, <1>2, <1>8, FilesInOrderIs DEF FeederInv, FilesOK, FilesInOrder, IsComplete
<1>11. PartsOK'
  BY <1>0, <1>2, <1>6, <1>9 DEF FeederInv, PartsOK
<1>12. StampOK'
  BY <1>0, <1>2, <1>3 DEF FeederInv, StampOK
<1> QED  BY <1>7, <1>10, <1>11, <1>12 DEF FeederInv

\* The generator is told of a part.
LEMMA PartFeeder ==
    ASSUME OneFeeder, ManagerInv, FeederInv, NEW t \in Feeders, t \in Tasks, Change(t), PartWaits(t)
    PROVE  HandedOver' /\ FilesOK' /\ PartsOK'
<1> DEFINE c == call[t]
<1>0. Feeders = {t} /\ c.kind \in KindsOf[encoder] /\ running
  BY DEF OneFeeder, Change, ManagerInv, CallsOK
<1>1. /\ pc[t] = "apply" /\ pc'[t] = "again" /\ Apply(c)
      /\ UNCHANGED <<call, encoder, encoded, made, running>>
  BY DEF Change, Goto, source, ManagerInv, Shape
<1>2. c.kind \in {"part", "manual_part"} /\ c.kind \notin Files
  BY DEF PartWaits, Files
<1>3. c \in [kind : AllKinds, n : Nat, index : Nat]
  <2>1. c \in CallRec /\ c.kind \in AllKinds
    BY <1>2 DEF ManagerInv, Shape, AllKinds
  <2> QED  BY <2>1 DEF CallRec
<1>4. first_file' = first_file
  BY <1>2 DEF Change, Told
<1>5. /\ segments' \in Seq(SegmentRec) /\ Len(segments') = Len(segments)
      /\ media_sequence' = media_sequence
      /\ \A i \in 1..Len(segments) :
            /\ segments'[i].sequence = segments[i].sequence
            /\ segments'[i].file = segments[i].file
            /\ i # Len(segments) => segments'[i].parts = segments[i].parts
      /\ segments # <<>> => \E index \in Nat :
            /\ segments'[Len(segments)].parts = Append(segments[Len(segments)].parts, index)
            /\ c.kind = "part" => index = c.index
  BY <1>1, <1>2, <1>3, PartIs DEF ManagerInv
<1>6. segments \in Seq(SegmentRec) /\ Len(segments) \in Nat /\ (segments' = <<>> <=> segments = <<>>)
  BY <1>5 DEF ManagerInv, WindowOK
<1>7. /\ ~FileWaits(t) /\ ~FileWaits(t)' /\ ~PartWaits(t)'
      /\ c.index = encoded - 1 /\ encoded > 0 /\ encoded \in Nat
  BY <1>1, <1>2 DEF FileWaits, PartWaits, FeederInv, HandedOver, ManagerInv, Shape
<1>8. HandedOver'
  BY <1>0, <1>7 DEF HandedOver
<1>9. FilesOK'
  <2>1. NextFile(t)' = NextFile(t)
    BY <1>1, <1>7 DEF NextFile
  <2>2. FilesInOrder'
    <3>1. \A i \in 1..Len(segments) : segments[i].file # None =>
             segments[i].file = first_file + (IF encoder = "plain" THEN 0 ELSE 1) + segments[i].sequence
      BY FilesInOrderIs DEF FeederInv, FilesOK
    <3>2. \A i \in 1..Len(segments') : segments'[i].file # None =>
             segments'[i].file = first_file + (IF encoder = "plain" THEN 0 ELSE 1) + segments'[i].sequence
      BY <1>5, <3>1
    <3> QED  BY <1>1, <1>4, <3>2 DEF FilesInOrder, IsComplete
  <2> QED  BY <1>0, <1>1, <1>4, <1>5, <1>6, <2>1, <2>2 DEF FeederInv, FilesOK
<1>10. PartsOK'
  <2>1. CASE segments = <<>>
    <3>1. \A i \in 1..Len(segments') : FALSE
      BY <1>5, <2>1
    <3> QED  BY <1>6, <2>1, <3>1 DEF PartsOK
  <2>2. CASE segments # <<>>
    <3> DEFINE last == segments[Len(segments)].parts
               new == segments'[Len(segments)].parts
    <3>1. Len(segments) \in 1..Len(segments) /\ segments[Len(segments)] \in SegmentRec
      BY <1>6, <2>2
    <3>2. last \in Seq(Nat) /\ Len(last) \in Nat
      BY <3>1 DEF SegmentRec
    <3>3. PICK index \in Nat : new = Append(last, index) /\ (c.kind = "part" => index = c.index)
      BY <1>5, <2>2
    <3>4. encoder # "plain" /\ (encoder = "parsed" => c.kind = "part")
      BY <1>0, <1>2, KindsAre DEF ManagerInv
    <3>5. Len(last) = encoded - 1
      BY <1>0, <1>7, <2>2, <3>4 DEF FeederInv, PartsOK, PartsTold
    <3> HIDE DEF last, new
    <3>6. /\ Len(new) = encoded /\ new[encoded] = index
          /\ \A p \in 1..Len(last) : new[p] = last[p]
      BY <1>7, <3>2, <3>3, <3>5
    <3>7. PartsTold(t)' = encoded
      BY <1>1, <1>7 DEF PartsTold
    <3>8. ASSUME encoder = "parsed", NEW i \in 1..Len(segments'), NEW p \in 1..Len(segments'[i].parts)
          PROVE  segments'[i].parts[p] = p - 1
      <4>1. i \in 1..Len(segments)
        BY <1>5
      <4>2. CASE i # Len(segments)
        <5>1. segments'[i].parts = segments[i].parts
          BY <1>5, <4>1, <4>2
        <5> QED  BY <3>8, <4>1, <5>1 DEF FeederInv, PartsOK
      <4>3. CASE i = Len(segments)
        <5>1. p \in 1..Len(new) /\ segments'[i].parts = new
          BY <3>8, <4>3 DEF new
        <5>2. CASE p = encoded
          BY <1>7, <3>3, <3>4, <3>6, <3>8, <5>1, <5>2
        <5>3. CASE p # encoded
          <6>1. p \in 1..Len(last)
            BY <1>7, <3>5, <3>6, <5>1, <5>3
          <6>2. last[p] = p - 1
            BY <3>1, <3>8, <6>1 DEF FeederInv, PartsOK, last
          <6> QED  BY <3>6, <5>1, <6>1, <6>2
        <5> QED  BY <5>2, <5>3
      <4> QED  BY <4>2, <4>3
    <3>9. segments'[Len(segments')].parts = new
      BY <1>5 DEF new
    <3> QED  BY <1>0, <1>1, <3>6, <3>7, <3>8, <3>9 DEF PartsOK
  <2> QED  BY <2>1, <2>2
<1> QED  BY <1>8, <1>9, <1>10

\* The generator is told of a file.
LEMMA FileFeeder ==
    ASSUME OneFeeder, ManagerInv, FeederInv, NEW t \in Feeders, t \in Tasks, Change(t), FileWaits(t)
    PROVE  HandedOver' /\ FilesOK' /\ PartsOK'
<1> DEFINE c == call[t]
<1>0. Feeders = {t} /\ c.kind \in KindsOf[encoder] /\ running
  BY DEF OneFeeder, Change, ManagerInv, CallsOK
<1>1. /\ pc[t] = "apply" /\ pc'[t] = "again" /\ Apply(c)
      /\ UNCHANGED <<call, encoder, encoded, made, running>>
  BY DEF Change, Goto, source, ManagerInv, Shape
<1>2. c.kind \in Files /\ (c.kind = "full" <=> encoder # "plain") /\ None \notin Nat
  BY <1>0, KindsAre, LLHlsAssumption DEF FileWaits, ManagerInv, Files
<1>3. c \in [kind : AllKinds, n : Nat, index : Nat]
  <2>1. c \in CallRec /\ c.kind \in AllKinds
    BY <1>2 DEF ManagerInv, Shape, AllKinds
  <2> QED  BY <2>1 DEF CallRec
<1>4. first_file' = IF first_file = None THEN c.index ELSE first_file
  BY <1>2 DEF Change, Told
<1>5. PICK d \in {0, 1} :
         /\ segments' \in Seq(SegmentRec)
         /\ Len(segments') = Len(segments) + 1 - d
         /\ Len(segments') <= MaxSegments + 1
         /\ segments' # <<>>
         /\ media_sequence' = media_sequence + d
         /\ \A i \in 1..(Len(segments) - d) :
               /\ segments'[i].sequence = segments[i + d].sequence
               /\ segments'[i].parts = segments[i + d].parts
               /\ segments'[i].file = IF c.kind = "full" /\ i + d = Len(segments)
                                      THEN c.index ELSE segments[i + d].file
         /\ segments'[Len(segments')].sequence = media_sequence + Len(segments)
         /\ segments'[Len(segments')].parts = <<>>
         /\ segments'[Len(segments')].file = IF c.kind = "full" THEN None ELSE c.index
  BY <1>1, <1>2, <1>3, FileIs DEF ManagerInv
<1>6. /\ segments \in Seq(SegmentRec) /\ Len(segments) \in Nat /\ media_sequence \in Nat
      /\ \A i \in 1..Len(segments) : segments[i].sequence = media_sequence + i - 1
      /\ segments = <<>> => media_sequence = 0 /\ Len(segments) = 0
      /\ made \in Nat /\ encoded \in Nat /\ first_file \in Nat \cup {None}
  BY DEF ManagerInv, WindowOK, Shape
<1>7. /\ c.index = made - 1 /\ made > 0 /\ encoded = 0 /\ c.index \in Nat
      /\ ~FileWaits(t)' /\ ~PartWaits(t)' /\ NextFile(t) = c.index /\ NextFile(t)' = made
      /\ PartsTold(t)' = 0
  BY <1>1, <1>6 DEF FileWaits, PartWaits, NextFile, PartsTold, FeederInv, HandedOver
<1>8. HandedOver'
  BY <1>0, <1>7 DEF HandedOver
<1>9. ASSUME NEW i \in 1..Len(segments')
      PROVE  \/ i \in 1..(Len(segments) - d) /\ i + d \in 1..Len(segments)
             \/ i = Len(segments')
  BY <1>5, <1>6
<1>10. first_file = None <=> segments = <<>>
  BY DEF FeederInv, FilesOK
<1> DEFINE lost == IF encoder = "plain" THEN 0 ELSE 1
<1>11. c.index = first_file' + media_sequence + Len(segments)
  <2>1. CASE first_file = None
    BY <1>4, <1>6, <1>7, <1>10, <2>1
  <2>2. CASE first_file # None
    BY <1>0, <1>4, <1>7, <2>2 DEF FeederInv, FilesOK
  <2> QED  BY <2>1, <2>2
<1>12. first_file' \in Nat
  BY <1>4, <1>6, <1>7
<1>13. FilesOK'
  <2>1. \A i \in 1..Len(segments) : segments[i].file # None =>
           segments[i].file = first_file' + lost + segments[i].sequence
    <3>1. CASE first_file = None
      BY <1>6, <1>10, <3>1
    <3>2. CASE first_file # None
      BY <1>4, <3>2, FilesInOrderIs DEF FeederInv, FilesOK
    <3> QED  BY <3>1, <3>2
  <2>2. ASSUME NEW i \in 1..Len(segments'), segments'[i].file # None
        PROVE  segments'[i].file = first_file' + lost + segments'[i].sequence
    <3>1. CASE i \in 1..(Len(segments) - d) /\ i + d \in 1..Len(segments)
      <4>1. CASE c.kind = "full" /\ i + d = Len(segments)
        <5>1. segments'[i].file = c.index /\ segments'[i].sequence = media_sequence + Len(segments) - 1
          BY <1>5, <1>6, <3>1, <4>1
        <5>2. lost = 1
          BY <1>2, <4>1
        <5> QED  BY <1>6, <1>11, <1>12, <5>1, <5>2
      <4>2. CASE ~ (c.kind = "full" /\ i + d = Len(segments))
        <5>1. /\ segments'[i].file = segments[i + d].file
              /\ segments'[i].sequence = segments[i + d].sequence
          BY <1>5, <3>1, <4>2
        <5> QED  BY <2>1, <2>2, <3>1, <5>1
      <4> QED  BY <4>1, <4>2
    <3>2. CASE i = Len(segments')
      <4>1. c.kind # "full" /\ segments'[i].file = c.index
            /\ segments'[i].sequence = media_sequence + Len(segments)
        BY <1>5, <2>2, <3>2
      <4>2. lost = 0
        BY <1>2, <4>1
      <4> QED  BY <1>6, <1>11, <1>12, <4>1, <4>2
    <3> QED  BY <1>9, <3>1, <3>2
  <2>3. FilesInOrder'
    BY <1>1, <2>2 DEF FilesInOrder, IsComplete
  <2>4. NextFile(t)' = first_file' + media_sequence' + Len(segments')
    <3>1. made = c.index + 1
      BY <1>6, <1>7
    <3>2. media_sequence' + Len(segments') = media_sequence + Len(segments) + 1
      BY <1>5, <1>6
    <3> QED  BY <1>5, <1>6, <1>7, <1>11, <1>12, <3>1, <3>2
  <2> QED  BY <1>0, <1>1, <1>2, <1>5, <1>12, <2>3, <2>4 DEF FilesOK
<1>14. PartsOK'
  <2>1. ASSUME encoder = "parsed", NEW i \in 1..Len(segments'), NEW p \in 1..Len(segments'[i].parts)
        PROVE  segments'[i].parts[p] = p - 1
    <3>1. CASE i \in 1..(Len(segments) - d) /\ i + d \in 1..Len(segments)
      <4>1. segments'[i].parts = segments[i + d].parts
        BY <1>5, <3>1
      <4> QED  BY <2>1, <3>1, <4>1 DEF FeederInv, PartsOK
    <3>2. CASE i = Len(segments')
      BY <1>5, <2>1, <3>2
    <3> QED  BY <1>9, <3>1, <3>2
  <2>2. Len(segments'[Len(segments')].parts) = 0
    BY <1>5
  <2> QED  BY <1>0, <1>1, <1>7, <2>1, <2>2 DEF PartsOK
<1> QED  BY <1>8, <1>13, <1>14

\* The steps of the feeder's call.
LEMMA CallFeeder ==
    ASSUME OneFeeder, ManagerInv, FeederInv, NEW t \in Feeders, t \in Tasks,
           Lookup(t) \/ Change(t) \/ SetInit(t) \/ Generate(t) \/ Upload(t) \/ Return(t)
    PROVE  FeederInv'
<1>0. Feeders = {t} /\ pc \in [Tasks -> Labels] /\ call \in [Tasks -> CallRec]
  BY DEF OneFeeder, ManagerInv, Shape
<1>1. CASE Lookup(t)
  <2>1. PICK l \in {"return", "init", "apply"} :
           /\ pc' = [pc EXCEPT ![t] = l]
           /\ l = "return" => ~running
           /\ l = "init" => call[t].kind = "init"
    BY <1>1 DEF Lookup, Goto
  <2>2. /\ pc[t] = "lookup" /\ pc'[t] = l
        /\ UNCHANGED <<call, encoder, encoded, made, running, segments, media_sequence, first_file,
                       stamp, queued>>
    BY <1>0, <1>1, <2>1 DEF Lookup, source, generator
  <2>3. StampOK'
    BY <1>0, <2>1, <2>2 DEF FeederInv, StampOK
  <2>4. CASE l # "return"
    <3>1. FileWaits(t)' <=> FileWaits(t)
      BY <2>1, <2>2, <2>4 DEF FileWaits, Files
    <3>2. PartWaits(t)' <=> PartWaits(t)
      BY <2>1, <2>2, <2>4 DEF PartWaits
    <3> QED  BY <1>0, <2>2, <2>3, <3>1, <3>2, FeederFrame DEF FeederInv
  <2>5. CASE l = "return"
    <3>1. first_file = None /\ segments = <<>>
      BY <2>1, <2>5 DEF FeederInv, FilesOK
    <3>2. ~FileWaits(t)' /\ ~PartWaits(t)'
      BY <2>2, <2>5 DEF FileWaits, PartWaits
    <3>3. HandedOver'
      BY <1>0, <3>2 DEF HandedOver
    <3>4. FilesOK'
      BY <2>2, <3>1 DEF FeederInv, FilesOK, FilesInOrder
    <3>5. PartsOK'
      BY <2>2, <3>1 DEF FeederInv, PartsOK
    <3> QED  BY <2>3, <3>3, <3>4, <3>5 DEF FeederInv
  <2> QED  BY <2>4, <2>5
<1>2. CASE Change(t)
  <2>1. pc[t] = "apply" /\ pc'[t] = "again"
    BY <1>0, <1>2 DEF Change, Goto
  <2>2. StampOK'
    BY <1>0, <2>1 DEF StampOK
  <2>3. FileWaits(t) \/ PartWaits(t)
    BY <2>1, KindsAre DEF ManagerInv, CallsOK, FileWaits, PartWaits, Files
  <2> QED  BY <1>2, <2>2, <2>3, FileFeeder, PartFeeder DEF FeederInv
<1>3. CASE SetInit(t)
  <2>1. /\ pc[t] = "init" /\ pc'[t] = "return"
        /\ UNCHANGED <<call, encoder, encoded, made, running, segments, media_sequence, first_file,
                       stamp, queued>>
    BY <1>0, <1>3 DEF SetInit, Goto, source
  <2>2. /\ FileWaits(t)' <=> FileWaits(t)
        /\ PartWaits(t)' <=> PartWaits(t)
    BY <2>1 DEF FileWaits, PartWaits
  <2>3. StampOK'
    BY <1>0, <2>1 DEF FeederInv, StampOK
  <2> QED  BY <1>0, <2>1, <2>2, <2>3, FeederFrame DEF FeederInv
<1>4. CASE Generate(t)
  <2>1. /\ pc[t] = "again" /\ pc'[t] = "upload"
        /\ call'[t].n = stamp /\ call'[t].index = call[t].index
        /\ UNCHANGED <<encoder, encoded, made, running, segments, media_sequence, first_file,
                       stamp, queued>>
    <3>1. call[t] \in CallRec /\ call' = [call EXCEPT ![t] = [call[t] EXCEPT !.n = stamp]]
      BY <1>0, <1>4 DEF Generate
    <3>2. call'[t] = [call[t] EXCEPT !.n = stamp]
      BY <1>0, <3>1
    <3>3. call'[t].n = stamp /\ call'[t].index = call[t].index
      BY <3>1, <3>2 DEF CallRec
    <3> QED  BY <1>0, <1>4, <3>3 DEF Generate, Goto, source, generator
  <2>2. /\ FileWaits(t)' <=> FileWaits(t)
        /\ PartWaits(t)' <=> PartWaits(t)
    BY <2>1 DEF FileWaits, PartWaits
  <2>3. StampOK'
    BY <1>0, <2>1 DEF FeederInv, StampOK
  <2> QED  BY <1>0, <2>1, <2>2, <2>3, FeederFrame DEF FeederInv
<1>5. CASE Upload(t)
  <2>1. /\ pc[t] = "upload" /\ pc'[t] = "return" /\ queued' = call[t].n
        /\ UNCHANGED <<call, encoder, encoded, made, running, segments, media_sequence, first_file,
                       stamp>>
    BY <1>0, <1>5 DEF Upload, Goto, source, generator
  <2>2. /\ FileWaits(t)' <=> FileWaits(t)
        /\ PartWaits(t)' <=> PartWaits(t)
    BY <2>1 DEF FileWaits, PartWaits
  <2>3. StampOK'
    BY <1>0, <2>1 DEF FeederInv, StampOK
  <2> QED  BY <1>0, <2>1, <2>2, <2>3, FeederFrame DEF FeederInv
<1>6. CASE Return(t)
  <2>1. /\ pc[t] = "return" /\ pc'[t] = "idle"
        /\ UNCHANGED <<encoder, encoded, made, running, segments, media_sequence, first_file,
                       stamp, queued>>
    BY <1>0, <1>6 DEF Return, Goto, source, generator
  <2>2. ~FileWaits(t) /\ ~FileWaits(t)' /\ ~PartWaits(t) /\ ~PartWaits(t)'
    BY <2>1 DEF FileWaits, PartWaits
  <2>3. StampOK'
    BY <1>0, <2>1 DEF FeederInv, StampOK
  <2>4. HandedOver'
    BY <1>0, <2>2 DEF HandedOver
  <2>5. NextFile(t)' = NextFile(t) /\ PartsTold(t)' = PartsTold(t)
    BY <2>1, <2>2 DEF NextFile, PartsTold
  <2>6. FilesOK'
    BY <1>0, <2>1, <2>5 DEF FeederInv, FilesOK, FilesInOrder, IsComplete
  <2>7. PartsOK'
    BY <1>0, <2>1, <2>2, <2>5 DEF FeederInv, PartsOK
  <2> QED  BY <2>3, <2>4, <2>6, <2>7 DEF FeederInv
<1> QED  BY <1>1, <1>2, <1>3, <1>4, <1>5, <1>6

\* The steps of a controller: a restart finds no call under way.
LEMMA ControlFeeder ==
    ASSUME OneFeeder, ManagerInv, FeederInv, NEW t \in Controllers, t \in Tasks,
           Control(t) \/ Update(t) \/ Unlock(t)
    PROVE  FeederInv'
<1>0. /\ \A f \in Feeders : pc'[f] = pc[f] /\ call'[f] = call[f]
      /\ UNCHANGED <<encoder, encoded, made, queued>>
  <2>1. \A f \in Feeders : f \in Tasks /\ f # t
    BY LLHlsAssumption DEF Tasks
  <2>2. PICK l \in Labels : pc' = [pc EXCEPT ![t] = l]
    BY DEF Control, Update, Unlock, Goto, Labels
  <2>3. \A f \in Feeders : pc'[f] = pc[f]
    BY <2>1, <2>2 DEF ManagerInv, Shape
  <2>4. \A f \in Feeders : call'[f] = call[f]
    BY <2>1 DEF Control, Update, Unlock, ManagerInv, Shape
  <2> QED  BY <2>3, <2>4 DEF Control, Update, Unlock, source, generator
<1>1. \A f \in Feeders : /\ FileWaits(f)' <=> FileWaits(f)
                         /\ PartWaits(f)' <=> PartWaits(f)
  BY <1>0 DEF FileWaits, PartWaits
<1>2. CASE Control(t) \/ Unlock(t)
  <2>1. UNCHANGED <<running, segments, media_sequence, first_file, stamp>>
    BY <1>2 DEF Control, Unlock, generator
  <2>2. StampOK'
    BY <1>0, <2>1 DEF FeederInv, StampOK
  <2> QED  BY <1>0, <1>1, <2>1, <2>2, FeederFrame DEF FeederInv
<1>3. CASE Update(t)
  <2>1. segments' = <<>> /\ media_sequence' = 0 /\ first_file' = None /\ stamp' = 0
    BY <1>3 DEF Update
  <2>2. HandedOver'
    BY <1>0, <1>1 DEF FeederInv, HandedOver
  <2>3. FilesOK'
    BY <2>1 DEF FilesOK, FilesInOrder
  <2>4. PartsOK'
    BY <2>1 DEF PartsOK
  <2>5. StampOK'
    <3>1. \A f \in Feeders : pc[f] \notin Holds
      BY <1>3, UpdateStep DEF Tasks
    <3> QED  BY <1>0, <2>1, <3>1 DEF StampOK, Holds
  <2> QED  BY <2>2, <2>3, <2>4, <2>5 DEF FeederInv
<1> QED  BY <1>2, <1>3

LEMMA FeederInductive ==
    ASSUME OneFeeder
    PROVE  ManagerInv /\ FeederInv /\ [Next]_vars => FeederInv'
<1> SUFFICES ASSUME ManagerInv, FeederInv, [Next]_vars PROVE FeederInv'
  OBVIOUS
<1>1. CASE UNCHANGED vars
  <2>1. UNCHANGED <<pc, call, encoder, encoded, made, running, segments, media_sequence, first_file,
                    stamp, queued>>
    BY <1>1 DEF vars, source, generator
  <2>2. \A f \in Feeders : /\ FileWaits(f)' <=> FileWaits(f)
                           /\ PartWaits(f)' <=> PartWaits(f)
    BY <2>1 DEF FileWaits, PartWaits
  <2>3. StampOK'
    BY <2>1 DEF FeederInv, StampOK
  <2> QED  BY <2>1, <2>2, <2>3, FeederFrame DEF FeederInv
<1>2. ASSUME NEW t \in Tasks, Feed(t) PROVE FeederInv'
  BY <1>2, FeedFeeder
<1>3. ASSUME NEW t \in Tasks, Control(t) PROVE FeederInv'
  BY <1>3, ControlFeeder DEF Control
<1>4. ASSUME NEW t \in Tasks, Step(t) PROVE FeederInv'
  <2>1. CASE Update(t) \/ Unlock(t)
    <3>1. pc[t] = "write" \/ pc[t] = "unlock"
      BY <2>1 DEF Update, Unlock
    <3>2. t \in Controllers
      BY <3>1, WhoActs DEF ManagerInv
    <3> QED  BY <2>1, <3>2, ControlFeeder
  <2>2. CASE Lookup(t) \/ Change(t) \/ SetInit(t) \/ Generate(t) \/ Upload(t) \/ Return(t)
    <3>1. pc[t] \in {"lookup", "apply", "init", "again", "upload", "return"}
      BY <2>2 DEF Lookup, Change, SetInit, Generate, Upload, Return
    <3>2. t \in Feeders
      BY <3>1, WhoActs DEF ManagerInv, Waits, Holds
    <3> QED  BY <2>2, <3>2, CallFeeder
  <2> QED  BY <1>4, <2>1, <2>2 DEF Step
<1> QED  BY <1>1, <1>2, <1>3, <1>4 DEF Next, Over

THEOREM FeederIsRight ==
    ASSUME OneFeeder
    PROVE  Spec => []FeederInv
<1>1. ManagerInv /\ FeederInv /\ [Next]_vars => FeederInv'
  BY FeederInductive
<1> QED  BY <1>1, FeederInit, ManagerIsRight, PTL DEF Spec

\* The files of one encoder are in the chunklist in the order in which it made
\* them, none missing or twice, but the first one whose name can be parsed.
THEOREM FilesAreInOrder ==
    ASSUME OneFeeder
    PROVE  Spec => []FilesInOrder
<1>1. FeederInv => FilesInOrder
  BY DEF FeederInv, FilesOK
<1> QED  BY <1>1, FeederIsRight, PTL

\* The parts of a segment are numbered from 0, and the preload hint names the next.
THEOREM PartsAreNumbered ==
    ASSUME OneFeeder
    PROVE  Spec => []PartsNumbered
<1>1. ManagerInv /\ FeederInv => PartsNumbered
  <2> SUFFICES ASSUME ManagerInv, FeederInv, \A t \in Feeders : pc[t] = "idle", PreloadHint # None
               PROVE  PreloadHint = encoded
    BY DEF PartsNumbered, FeederInv, PartsOK
  <2>1. PICK f : Feeders = {f}
    BY DEF OneFeeder
  <2>2. segments # <<>> /\ segments[Len(segments)].file = None
        /\ PreloadHint = Len(segments[Len(segments)].parts)
    BY DEF PreloadHint, IsComplete
  <2>3. encoder # "plain"
    <3>1. Len(segments) \in 1..Len(segments)
      BY <2>2 DEF ManagerInv, WindowOK
    <3> QED  BY <2>2, <3>1 DEF ManagerInv, WindowOK, IsComplete
  <2>4. ~FileWaits(f) /\ PartsTold(f) = encoded
    BY <2>1 DEF FileWaits, PartWaits, PartsTold
  <2> QED  BY <2>1, <2>2, <2>3, <2>4 DEF FeederInv, PartsOK
<1> QED  BY <1>1, ManagerIsRight, FeederIsRight, PTL

\* When its feeder is idle the last chunklist that a stream has handed over is
\* that of the last change.
THEOREM LastChunklistIsLatest ==
    ASSUME OneFeeder
    PROVE  Spec => []LastIsLatest
<1>1. FeederInv => LastIsLatest
  BY DEF OneFeeder, FeederInv, StampOK, LastIsLatest
<1> QED  BY <1>1, FeederIsRight, PTL
================================================================================

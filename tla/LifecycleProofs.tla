--------------------------- MODULE LifecycleProofs ---------------------------
(***************************************************************************)
(* Theorems about StreamLifecycle for every set of connections and any     *)
(* number of publishes, with all the faults: types, and the properties of  *)
(* streams whose ids differ.                                               *)
(***************************************************************************)
EXTENDS StreamLifecycle, FiniteSetTheorems, TLAPS

\* What the properties about whose data and whose directory rest on: the API
\* returns each stream id once, and the ids of two streams do not collide.
DistinctStreams ==
    /\ FreshNames
    /\ \A m, n \in Names : IdOf[m] = IdOf[n] => m = n

-----------------------------------------------------------------------------
(* The inductive invariants.                                                *)

\* The awaits at which a connection may have no stream id.
Nameless == {"idle", "auth", "stopapi", "closed", "dead"}
NameIsSet == \A s \in Sessions : pc[s] \notin Nameless => name[s] \in Names

\* The publishes that have not come to their spawn; each start was one of them.
Pending == {s \in Sessions : pc[s] \in {"auth", "cleardir", "spawn"}}
StartsAreCounted ==
    /\ IsFiniteSet(Pending)
    /\ Len(starts) + Cardinality(Pending) <= requests

\* The entry a connection writes to stays in the map while the write lasts, and the
\* one it has removed stays in its hands.
HolderHasInstance ==
    \A s \in Sessions : /\ pc[s] = "writing" => pipelines[InternalId(s)] # NoInstance
                        /\ pc[s] = "cleandir" => mine[s] # NoInstance

TypeInv == TypeOK /\ NameIsSet /\ StartsAreCounted /\ HolderHasInstance

Started == 1..Len(starts)

\* No stream id is given twice, so that a start is known by its name.
NamesAreFresh ==
    /\ \A s \in Sessions : name[s] # None => name[s] \in used
    /\ \A s, t \in Sessions : name[s] # None /\ name[s] = name[t] => s = t
    /\ \A i \in Started : starts[i].name \in used
    /\ \A i, j \in Started : starts[i].name = starts[j].name => i = j
    /\ \A i \in Started : \A s \in Sessions :
           starts[i].name = name[s]
               => starts[i].by = s /\ pc[s] \notin {"cleardir", "spawn"}

\* The map holds instance i, under the id of its name.
InMap(i) == pipelines[IdOf[starts[i].name]] = i

\* Instance i is in the hands of its connection, at this await.
Held(i, label) == pc[starts[i].by] = label /\ mine[starts[i].by] = i

\* What the map holds, and what callbacks hold, are instances of that name.
EntriesAreOwn ==
    /\ \A id \in Ids : pipelines[id] # NoInstance
                           => pipelines[id] \in Started /\ IdOf[starts[pipelines[id]].name] = id
    /\ \A s \in Sessions : pc[s] \in {"insert", "cleandir"}
                               => /\ mine[s] \in Started
                                  /\ starts[mine[s]] = [by |-> s, name |-> name[s]]
    /\ \A s \in Sessions : pc[s] = "cleandir" => pipelines[InternalId(s)] = NoInstance

OwnInv == NamesAreFresh /\ EntriesAreOwn /\ DataToOwnPipeline

\* The directory of an instance that is in the map, or about to enter it.
DirectoriesAreOwn ==
    \A i \in Started : InMap(i) \/ Held(i, "insert") => dir[starts[i].name] = i

\* The watcher of instance i is not left, and its directory only if its removal failed.
Gone(i) == i \notin watchers /\ (dir[starts[i].name] = i => i \in unswept)

\* Where an instance can be that the map does not hold.
Accounted ==
    /\ watchers \subseteq Started
    /\ \A i \in Started :
         \/ i \in lost
         \/ InMap(i)
         \/ Held(i, "insert")
         \/ Held(i, "cleandir") /\ i \notin watchers
         \/ Gone(i)

\* After its stop nothing is left of an instance.
StoppedAreGone ==
    /\ ended \subseteq Started
    /\ \A i \in ended : i \in lost \/ Gone(i)
    /\ \A s \in Sessions : pc[s] \in {"vod", "complete"}
           => \A i \in Started : starts[i] = [by |-> s, name |-> name[s]]
                                     => i \in lost \/ Gone(i)

CleanInv == DirectoriesAreOwn /\ Accounted /\ StoppedAreGone

\* Nobody holds the stdin of instance i.
Out(i) == ~InMap(i) /\ ~Held(i, "insert") /\ ~Held(i, "cleandir")

\* The stdin of what was stopped is held by nobody.
StoppedAreOut ==
    /\ ended \subseteq Started
    /\ \A i \in ended : Out(i)
    /\ \A s \in Sessions : pc[s] \in {"vod", "complete"}
           => \A i \in Started : starts[i].name = name[s] => Out(i)

\* A stream is recorded as completed once, at its end.
RecordedOnce ==
    /\ completed \subseteq used
    /\ \A s \in Sessions : pc[s] \in {"cleardir", "spawn", "insert", "metadata"}
           => name[s] \notin completed

\* Nor is the stdin of a completed stream, which is not live.
CompletedAreOut ==
    /\ live \cap completed = {}
    /\ \A i \in Started : starts[i].name \in completed => Out(i)

OverInv == StoppedAreOut /\ RecordedOnce /\ CompletedAreOut

-----------------------------------------------------------------------------
(* Types and the count of starts.                                           *)

\* Where a callback goes is an await; no other connection moves.
LEMMA GotoMoves ==
    ASSUME TypeOK, NEW s \in Sessions, NEW label, Goto(s, label)
    PROVE  /\ pc' = [pc EXCEPT ![s] = label]
           /\ pc'[s] = label
           /\ \A t \in Sessions \ {s} : pc'[t] = pc[t]
BY DEF TypeOK, Goto

\* A connection leaves the pending ones.
LEMMA PendingShrinks ==
    ASSUME TypeOK, IsFiniteSet(Pending), NEW s \in Sessions, NEW label, Goto(s, label),
           s \in Pending, label \notin {"auth", "cleardir", "spawn"}
    PROVE  /\ IsFiniteSet(Pending')
           /\ Cardinality(Pending') = Cardinality(Pending) - 1
           /\ Cardinality(Pending) \in Nat
<1>1. Pending' = Pending \ {s}
  BY GotoMoves DEF Pending
<1> QED  BY <1>1, FS_RemoveElement, FS_CardinalityType

\* A connection joins the pending ones.
LEMMA PendingGrows ==
    ASSUME TypeOK, IsFiniteSet(Pending), NEW s \in Sessions, Goto(s, "auth"),
           s \notin Pending
    PROVE  /\ IsFiniteSet(Pending')
           /\ Cardinality(Pending') = Cardinality(Pending) + 1
           /\ Cardinality(Pending) \in Nat
<1>1. Pending' = Pending \cup {s}
  BY GotoMoves DEF Pending
<1> QED  BY <1>1, FS_AddElement, FS_CardinalityType

\* A connection that moves otherwise leaves the pending ones as they are.
LEMMA PendingStays ==
    ASSUME TypeOK, NEW s \in Sessions, NEW label, Goto(s, label),
           s \in Pending <=> label \in {"auth", "cleardir", "spawn"}
    PROVE  Pending' = Pending
BY GotoMoves DEF Pending

\* The initial state has the right shape.
LEMMA InitType == Init => TypeInv
<1> SUFFICES ASSUME Init PROVE TypeInv
  OBVIOUS
<1>1. TypeOK
  BY LifecycleAssumption DEF Init, TypeOK, Instances, NoInstance
<1>2. Pending = {}
  BY DEF Init, Pending
<1>3. StartsAreCounted
  BY <1>2, FS_EmptySet DEF Init, StartsAreCounted
<1> QED  BY <1>1, <1>3 DEF Init, TypeInv, NameIsSet, Nameless, HolderHasInstance

\* The steps between awaits that touch nothing but the connection's own task.
Quiet(s) == Publish(s) \/ OnData(s) \/ Unpublish(s) \/ Close(s) \/ CallStopApi(s)
                \/ GenerateVod(s)

\* No connection takes the lock, and no entry leaves the map.
LEMMA HoldersStay ==
    ASSUME HolderHasInstance, UNCHANGED pipelines,
           \A t \in Sessions : /\ pc'[t] = "writing" => pc[t] = "writing" /\ name'[t] = name[t]
                               /\ pc'[t] = "cleandir" => pc[t] = "cleandir" /\ mine'[t] = mine[t]
    PROVE  HolderHasInstance'
BY DEF HolderHasInstance, InternalId

LEMMA QuietType ==
    ASSUME TypeInv, NEW s \in Sessions, Quiet(s)
    PROVE  TypeInv'
<1>0. TypeOK /\ IsFiniteSet(Pending) /\ MaxStarts \in Nat
  BY LifecycleAssumption DEF TypeInv, StartsAreCounted
<1>1. CASE Publish(s)
  <2>1. TypeOK'
    BY <1>0, <1>1 DEF TypeOK, Publish, Goto, world
  <2>2. s \notin Pending /\ Goto(s, "auth")
    BY <1>1 DEF Publish, Pending
  <2>3. StartsAreCounted'
    BY <1>0, <1>1, <2>2, PendingGrows DEF TypeInv, TypeOK, StartsAreCounted, Publish, world
  <2>4. NameIsSet'
    BY <1>0, <1>1, <2>2, GotoMoves DEF TypeInv, NameIsSet, Nameless, Publish
  <2>5. HolderHasInstance'
    BY <1>0, <1>1, <2>2, GotoMoves, HoldersStay DEF TypeInv, Publish, world
  <2> QED  BY <2>1, <2>3, <2>4, <2>5 DEF TypeInv
<1>2. CASE OnData(s) \/ Unpublish(s) \/ Close(s) \/ CallStopApi(s) \/ GenerateVod(s)
  <2>1. PICK label \in {"send", "stopapi", "closed", "idle", "stop", "dead",
                       "complete"} :
            /\ Goto(s, label)
            /\ label \in {"send", "stop", "complete"} => name[s] # None
    <3>1. pc[s] = "vod" => name[s] # None
      BY LifecycleAssumption DEF TypeInv, NameIsSet, Nameless
    <3>2. CASE OnData(s) \/ Unpublish(s)
      BY <3>2 DEF OnData, Unpublish
    <3>3. CASE Close(s)
      BY <3>3 DEF Close
    <3>4. CASE CallStopApi(s)
      BY <3>4 DEF CallStopApi
    <3>5. CASE GenerateVod(s)
      BY <3>1, <3>5 DEF GenerateVod
    <3> QED  BY <1>2, <3>2, <3>3, <3>4, <3>5
  <2>2. /\ UNCHANGED <<stream_key, name, mine, requests, used, world>>
        /\ pc[s] \notin {"auth", "cleardir", "spawn", "cleandir", "writing"}
    BY <1>2 DEF OnData, Unpublish, Close, CallStopApi, GenerateVod
  <2>3. TypeOK'
    BY <1>0, <2>1, <2>2 DEF TypeOK, Goto, world
  <2>4. Pending' = Pending
    BY <1>0, <2>1, <2>2, PendingStays DEF Pending
  <2>5. StartsAreCounted'
    BY <2>2, <2>4 DEF TypeInv, StartsAreCounted, world
  <2>6. NameIsSet'
    BY <1>0, <2>1, <2>2, GotoMoves DEF TypeInv, TypeOK, NameIsSet, Nameless
  <2>7. HolderHasInstance'
    BY <1>0, <2>1, <2>2, GotoMoves, HoldersStay DEF TypeInv, world
  <2> QED  BY <2>3, <2>5, <2>6, <2>7 DEF TypeInv
<1> QED  BY <1>1, <1>2 DEF Quiet

\* Before a start the connection is pending, which leaves room for one instance.
LEMMA RoomToStart ==
    ASSUME TypeInv, NEW s \in Sessions, pc[s] = "spawn"
    PROVE  Len(starts) + 1 \in Instances /\ Len(starts) + Cardinality(Pending) <= requests
<1>1. s \in Pending /\ IsFiniteSet(Pending) /\ Len(starts) \in Nat
  BY DEF TypeInv, TypeOK, StartsAreCounted, Pending
<1>2. Cardinality(Pending) \in Nat /\ Cardinality(Pending) # 0
  BY <1>1, FS_EmptySet, FS_CardinalityType
<1> QED  BY <1>1, <1>2, LifecycleAssumption DEF TypeInv, TypeOK, StartsAreCounted, Instances

LEMMA SpawnType ==
    ASSUME TypeInv, NEW s \in Sessions, Spawn(s)
    PROVE  TypeInv'
<1> DEFINE i == Len(starts) + 1
<1>0. /\ TypeOK /\ IsFiniteSet(Pending) /\ pc[s] = "spawn" /\ s \in Pending
      /\ name[s] \in Names
  BY DEF TypeInv, StartsAreCounted, NameIsSet, Nameless, Spawn, Pending
<1>1. i \in Instances /\ Len(starts) \in Nat
  BY <1>0, RoomToStart DEF TypeOK
<1>2. PICK label \in {"insert", "idle"} : Goto(s, label)
  BY DEF Spawn
<1>3. /\ IsFiniteSet(Pending')
      /\ Cardinality(Pending') = Cardinality(Pending) - 1
      /\ Cardinality(Pending) \in Nat
  BY <1>0, <1>2, PendingShrinks
<1>4. \/ /\ starts' = Append(starts, [by |-> s, name |-> name[s]])
         /\ dir' = [dir EXCEPT ![name[s]] = i]
      \/ starts' = starts /\ dir' = dir
  BY DEF Spawn
<1>5. starts' \in Seq([by : Sessions, name : Names]) /\ Len(starts') <= Len(starts) + 1
  <2>1. [by |-> s, name |-> name[s]] \in [by : Sessions, name : Names]
    BY <1>0
  <2>2. starts \in Seq([by : Sessions, name : Names])
    BY <1>0 DEF TypeOK
  <2>3. CASE starts' = Append(starts, [by |-> s, name |-> name[s]])
    <3> DEFINE x == [by |-> s, name |-> name[s]]
               T == [by : Sessions, name : Names]
    <3> HIDE DEF x, T
    <3>1. starts \in Seq(T) /\ x \in T
      BY <2>1, <2>2 DEF x, T
    <3>2. Append(starts, x) \in Seq(T) /\ Len(Append(starts, x)) = Len(starts) + 1
      BY <3>1
    <3> QED  BY <1>1, <2>3, <3>2 DEF x, T
  <2>4. CASE starts' = starts
    BY <1>1, <2>2, <2>4
  <2> QED  BY <1>4, <2>3, <2>4
<1>6. StartsAreCounted'
  BY <1>0, <1>1, <1>3, <1>5 DEF TypeInv, TypeOK, StartsAreCounted, Spawn
<1>7. NameIsSet'
  BY <1>0, <1>2, GotoMoves DEF TypeInv, NameIsSet, Nameless, Spawn
<1>8. /\ dir' \in [Names -> Instances \cup {NoInstance}]
      /\ mine' \in [Sessions -> Instances \cup {NoInstance}]
      /\ watchers' \cup ffmpegs' \cup lost' \cup unswept' \cup ended' \subseteq Instances
  BY <1>0, <1>1, <1>4 DEF TypeOK, Spawn
<1>9. pc' \in [Sessions -> {"idle", "auth", "cleardir", "spawn", "insert", "metadata",
                            "send", "writing", "stopapi", "stop", "cleandir", "vod", "complete",
                            "closed", "dead"}]
      /\ \A t \in Sessions : lock' = t <=> pc'[t] \in {"cleandir", "writing"}
  BY <1>0, <1>2 DEF TypeOK, Goto, Spawn
<1>10. TypeOK'
  BY <1>0, <1>5, <1>8, <1>9 DEF TypeOK, Spawn
<1>11. HolderHasInstance'
  <2>1. \A t \in Sessions : pc'[t] \in {"writing", "cleandir"}
            => pc'[t] = pc[t] /\ mine'[t] = mine[t] /\ name'[t] = name[t]
    BY <1>0, <1>2 DEF TypeOK, Spawn, Goto
  <2>2. UNCHANGED pipelines
    BY DEF Spawn
  <2> QED  BY <2>1, <2>2, HoldersStay DEF TypeInv
<1> QED  BY <1>6, <1>7, <1>10, <1>11 DEF TypeInv

\* The steps that need the map.
LEMMA LockType ==
    ASSUME TypeInv, NEW s \in Sessions, LockStep(s)
    PROVE  TypeInv'
<1>0. TypeOK /\ IsFiniteSet(Pending)
  BY DEF TypeInv, StartsAreCounted
<1>1. name[s] \in Names
  BY DEF LockStep, InsertPipeline, SendData, StopPipeline, TypeInv, NameIsSet, Nameless
<1>2. InternalId(s) \in Ids /\ pipelines[InternalId(s)] \in Instances \cup {NoInstance}
  BY <1>0, <1>1, LifecycleAssumption DEF TypeOK, InternalId
<1>3. /\ lock = None /\ \A t \in Sessions : pc[t] \notin {"cleandir", "writing"}
      /\ s \notin Pending
      /\ UNCHANGED <<name, requests, starts>>
  BY <1>0, LifecycleAssumption
  DEF LockStep, InsertPipeline, StopPipeline, SendData, TypeOK, Pending
<1>4. PICK label \in {"metadata", "idle", "writing", "vod", "cleandir"} :
          /\ pc' = [pc EXCEPT ![s] = label]
          /\ lock' = IF label \in {"cleandir", "writing"} THEN s ELSE None
          /\ label = "writing" => /\ pipelines' = pipelines
                                  /\ pipelines[InternalId(s)] # NoInstance
          /\ label = "cleandir" => mine'[s] # NoInstance
  <2>1. CASE SendData(s)
    BY <1>3, <2>1 DEF SendData, Goto
  <2>2. CASE InsertPipeline(s)
    BY <1>3, <2>2 DEF InsertPipeline, Goto
  <2>3. CASE StopPipeline(s)
    BY <1>0, <1>3, <2>3 DEF StopPipeline, Goto, TypeOK
  <2> QED  BY <2>1, <2>2, <2>3 DEF LockStep
<1>5. Pending' = Pending /\ NameIsSet'
  BY <1>0, <1>1, <1>3, <1>4 DEF TypeInv, TypeOK, Pending, NameIsSet
<1>6. StartsAreCounted'
  BY <1>3, <1>5 DEF TypeInv, StartsAreCounted
<1>7. /\ pc' \in [Sessions -> {"idle", "auth", "cleardir", "spawn", "insert", "metadata",
                               "send", "writing", "stopapi", "stop", "cleandir", "vod",
                               "complete", "closed", "dead"}]
      /\ \A t \in Sessions : lock' = t <=> pc'[t] \in {"cleandir", "writing"}
      /\ lock' \in Sessions \cup {None}
  BY <1>0, <1>3, <1>4, LifecycleAssumption DEF TypeOK
<1>8. HolderHasInstance'
  <2>1. \A t \in Sessions : pc'[t] \in {"writing", "cleandir"} => t = s
    BY <1>0, <1>3, <1>4 DEF TypeOK
  <2>2. pc'[s] = "writing" => pipelines' = pipelines /\ pipelines[InternalId(s)] # NoInstance
    BY <1>0, <1>4 DEF TypeOK
  <2>3. pc'[s] = "cleandir" => mine'[s] # NoInstance
    BY <1>0, <1>4 DEF TypeOK
  <2> QED  BY <1>3, <2>3, <2>1, <2>2 DEF HolderHasInstance, InternalId
<1>9. CASE InsertPipeline(s)
  <2>1. TypeOK'
    BY <1>0, <1>2, <1>7, <1>9 DEF TypeOK, InsertPipeline
  <2> QED  BY <1>5, <1>6, <1>8, <2>1 DEF TypeInv
<1>10. CASE StopPipeline(s)
  <2>1. TypeOK'
    BY <1>0, <1>2, <1>7, <1>10 DEF TypeOK, StopPipeline
  <2> QED  BY <1>5, <1>6, <1>8, <2>1 DEF TypeInv
<1>11. CASE SendData(s)
  <2>1. TypeOK'
    BY <1>0, <1>2, <1>7, <1>11 DEF TypeOK, SendData
  <2> QED  BY <1>5, <1>6, <1>8, <2>1 DEF TypeInv
<1> QED  BY <1>9, <1>10, <1>11 DEF LockStep

\* A write comes to its end.
LEMMA WriteType ==
    ASSUME TypeInv, NEW s \in Sessions, WriteReturns(s) \/ WriteFails(s)
    PROVE  TypeInv'
<1>0. TypeOK /\ pc[s] = "writing" /\ lock = s /\ name[s] \in Names
  BY DEF TypeInv, TypeOK, NameIsSet, Nameless, WriteReturns, WriteFails
<1>1. /\ pipelines[InternalId(s)] \in Instances
      /\ \A t \in Sessions \ {s} : pc[t] \notin {"cleandir", "writing"}
  <2>1. pipelines[InternalId(s)] # NoInstance
    BY <1>0 DEF TypeInv, HolderHasInstance
  <2>2. IdOf[name[s]] \in Ids
    BY <1>0, LifecycleAssumption
  <2>3. pipelines[InternalId(s)] \in Instances
    BY <1>0, <2>1, <2>2 DEF TypeOK, InternalId
  <2>4. \A t \in Sessions \ {s} : pc[t] \notin {"cleandir", "writing"}
    BY <1>0 DEF TypeOK
  <2> QED  BY <2>3, <2>4
<1>2. Goto(s, "idle") /\ lock' = None /\ UNCHANGED <<name, requests, starts>>
  BY DEF WriteReturns, WriteFails
<1>3. Pending' = Pending
  BY <1>0, <1>2, PendingStays DEF Pending
<1>4. StartsAreCounted' /\ NameIsSet'
  BY <1>0, <1>2, <1>3, GotoMoves DEF TypeInv, StartsAreCounted, NameIsSet, Nameless
<1>5. HolderHasInstance'
  BY <1>0, <1>1, <1>2, GotoMoves DEF HolderHasInstance
<1>6. TypeOK'
  <2>1. CASE WriteReturns(s)
    BY <1>0, <1>1, <2>1, LifecycleAssumption DEF TypeOK, WriteReturns, Goto
  <2>2. CASE WriteFails(s)
    BY <1>0, <1>1, <2>2, LifecycleAssumption DEF TypeOK, WriteFails, Goto
  <2> QED  BY <2>1, <2>2
<1> QED  BY <1>4, <1>5, <1>6 DEF TypeInv

\* The other steps of a callback.
LEMMA FreeType ==
    ASSUME TypeInv, NEW s \in Sessions, Authenticate(s) \/ ClearDirectory(s)
               \/ RecordMetadata(s) \/ CleanDirectory(s) \/ MarkCompleted(s)
    PROVE  TypeInv'
<1>0. TypeOK /\ NameIsSet /\ IsFiniteSet(Pending)
  BY DEF TypeInv, StartsAreCounted
<1>9. HolderHasInstance'
  <2>1. /\ UNCHANGED pipelines
        /\ \A t \in Sessions :
               /\ pc'[t] = "writing" => pc[t] = "writing" /\ name'[t] = name[t]
               /\ pc'[t] = "cleandir" => pc[t] = "cleandir" /\ mine'[t] = mine[t]
    BY <1>0 DEF TypeOK, Authenticate, ClearDirectory, RecordMetadata, CleanDirectory,
                MarkCompleted, Goto, world
  <2> QED  BY <2>1, HoldersStay DEF TypeInv
<1>1. CASE Authenticate(s)
  <2>1. s \in Pending /\ pc[s] = "auth" /\ UNCHANGED <<starts, requests>>
    BY <1>1 DEF Authenticate, Pending, world
  <2>2. CASE Goto(s, "dead") /\ UNCHANGED <<name, used>>
    <3>1. StartsAreCounted'
      BY <1>0, <2>1, <2>2, PendingShrinks DEF TypeInv, TypeOK, StartsAreCounted
    <3>2. TypeOK' /\ NameIsSet'
      BY <1>0, <1>1, <2>1, <2>2 DEF TypeOK, NameIsSet, Nameless, Authenticate, Goto, world
    <3> QED  BY <1>9, <3>1, <3>2 DEF TypeInv
  <2>3. CASE /\ Goto(s, "cleardir")
             /\ \E n \in Names : /\ used' = used \cup {n}
                                 /\ name' = [name EXCEPT ![s] = n]
    <3>1. StartsAreCounted'
      BY <1>0, <2>1, <2>3, PendingStays DEF TypeInv, StartsAreCounted
    <3>2. TypeOK' /\ NameIsSet'
      BY <1>0, <1>1, <2>1, <2>3 DEF TypeOK, NameIsSet, Nameless, Authenticate, Goto, world
    <3> QED  BY <1>9, <3>1, <3>2 DEF TypeInv
  <2> QED  BY <1>1, <2>2, <2>3 DEF Authenticate
<1>2. CASE ClearDirectory(s) \/ RecordMetadata(s) \/ CleanDirectory(s) \/ MarkCompleted(s)
  <2>1. name[s] \in Names
    BY <1>0, <1>2
    DEF NameIsSet, Nameless, ClearDirectory, RecordMetadata, CleanDirectory, MarkCompleted
  <2>2. PICK label \in {"spawn", "send", "vod", "idle"} :
            /\ Goto(s, label)
            /\ label = "spawn" <=> pc[s] = "cleardir"
            /\ pc[s] \notin {"auth", "spawn"}
    BY <1>2 DEF ClearDirectory, RecordMetadata, CleanDirectory, MarkCompleted
  <2>3. UNCHANGED <<stream_key, name, mine, requests, used, starts, pipelines, watchers,
                    got, lost>>
    BY <1>2 DEF ClearDirectory, RecordMetadata, CleanDirectory, MarkCompleted
  <2>4. Pending' = Pending
    BY <1>0, <2>2, PendingStays DEF Pending
  <2>5. StartsAreCounted'
    BY <2>3, <2>4 DEF TypeInv, StartsAreCounted
  <2>6. NameIsSet'
    BY <1>0, <2>1, <2>2, <2>3, GotoMoves DEF NameIsSet
  <2>7. CASE ClearDirectory(s)
    <3>1. TypeOK'
      BY <1>0, <2>7 DEF TypeOK, ClearDirectory, Goto
    <3> QED  BY <1>9, <2>5, <2>6, <3>1 DEF TypeInv
  <2>8. CASE RecordMetadata(s)
    <3>1. TypeOK'
      BY <1>0, <2>1, <2>8 DEF TypeOK, RecordMetadata, Goto
    <3> QED  BY <1>9, <2>5, <2>6, <3>1 DEF TypeInv
  <2>9. CASE CleanDirectory(s)
    <3>1. TypeOK'
        <4>1. mine[s] \in Instances
        BY <1>0, <2>9 DEF TypeInv, HolderHasInstance, TypeOK, CleanDirectory
      <4> QED  BY <1>0, <2>9, <4>1, LifecycleAssumption DEF TypeOK, CleanDirectory, Goto
    <3> QED  BY <1>9, <2>5, <2>6, <3>1 DEF TypeInv
  <2>10. CASE MarkCompleted(s)
    <3>1. 1..Len(starts) \subseteq Instances
      <4>1. Cardinality(Pending) \in Nat /\ Len(starts) \in Nat
        BY <1>0, FS_CardinalityType DEF TypeOK
      <4> QED  BY <1>0, <4>1, LifecycleAssumption DEF TypeInv, TypeOK, StartsAreCounted, Instances
    <3>2. TypeOK'
      BY <1>0, <2>1, <2>10, <3>1 DEF TypeOK, MarkCompleted, Goto
    <3> QED  BY <1>9, <2>5, <2>6, <3>2 DEF TypeInv
  <2> QED  BY <1>2, <2>7, <2>8, <2>9, <2>10
<1> QED  BY <1>1, <1>2

LEMMA TypeStep == TypeInv /\ [Next]_vars => TypeInv'
<1> SUFFICES ASSUME TypeInv, [Next]_vars PROVE TypeInv'
  OBVIOUS
<1>1. ASSUME NEW s \in Sessions, Quiet(s) \/ Spawn(s) PROVE TypeInv'
  BY <1>1, QuietType, SpawnType
<1>2. ASSUME NEW s \in Sessions, LockStep(s) \/ WriteReturns(s) \/ WriteFails(s) PROVE TypeInv'
  BY <1>2, LockType, WriteType
<1>3. ASSUME NEW s \in Sessions, Authenticate(s) \/ ClearDirectory(s) \/ RecordMetadata(s)
                 \/ CleanDirectory(s) \/ MarkCompleted(s)
      PROVE TypeInv'
  BY <1>3, FreeType
<1>4. ASSUME NEW i \in Instances, FfmpegExits(i) PROVE TypeInv'
  BY <1>4 DEF FfmpegExits, session, TypeInv, TypeOK, NameIsSet, StartsAreCounted, Pending,
              HolderHasInstance, InternalId
<1>5. CASE UNCHANGED vars
  BY <1>5 DEF vars, session, world, TypeInv, TypeOK, NameIsSet, StartsAreCounted, Pending,
              HolderHasInstance, InternalId
<1> QED  BY <1>1, <1>2, <1>3, <1>4, <1>5 DEF Next, FreeStep, Quiet, Over

LEMMA TypeInductive == Spec => []TypeInv
<1> QED  BY InitType, TypeStep, PTL DEF Spec

\* The shape of the state is kept by every step, with all the faults, and the
\* lock of the map is held exactly while a stop removes a directory or a write
\* to an ffmpeg lasts, by the connection whose callback that is.
THEOREM TypeCorrect == Spec => []TypeOK
<1>1. TypeInv => TypeOK
  BY DEF TypeInv
<1> QED  BY <1>1, TypeInductive, PTL

-----------------------------------------------------------------------------
(* Whose instance, whose data.                                              *)

\* What Spawn does to starts.
LEMMA SpawnAppends ==
    ASSUME TypeInv, NEW s \in Sessions, Spawn(s), starts' # starts
    PROVE  /\ Len(starts) \in Nat /\ Len(starts') = Len(starts) + 1
           /\ starts'[Len(starts) + 1] = [by |-> s, name |-> name[s]]
           /\ \A i \in Started : starts'[i] = starts[i]
           /\ dir' = [dir EXCEPT ![name[s]] = Len(starts) + 1]
           /\ starts' = Append(starts, [by |-> s, name |-> name[s]])
<1> DEFINE x == [by |-> s, name |-> name[s]]
           T == [by : Sessions, name : Names]
<1>1. starts' = Append(starts, x) /\ dir' = [dir EXCEPT ![name[s]] = Len(starts) + 1]
  BY DEF Spawn
<1>2. starts \in Seq(T) /\ x \in T
  BY DEF TypeInv, TypeOK, NameIsSet, Nameless, Spawn
<1> HIDE DEF x, T
<1>3. /\ Len(starts) \in Nat /\ Len(Append(starts, x)) = Len(starts) + 1
      /\ Append(starts, x)[Len(starts) + 1] = x
      /\ \A i \in 1..Len(starts) : Append(starts, x)[i] = starts[i]
  BY <1>2
<1> QED  BY <1>1, <1>3 DEF x, Started

\* A start is never forgotten or changed.
LEMMA StartsStay ==
    ASSUME TypeInv, [Next]_vars
    PROVE  /\ Started \subseteq Started'
           /\ \A i \in Started : starts'[i] = starts[i] /\ starts[i].name \in Names
                                 /\ starts[i].by \in Sessions
<1>1. \A i \in Started : starts[i] \in [by : Sessions, name : Names]
  <2> DEFINE T == [by : Sessions, name : Names]
  <2> HIDE DEF T
  <2>1. starts \in Seq(T)
    BY DEF TypeInv, TypeOK, T
  <2>2. \A i \in Started : starts[i] \in T
    BY <2>1 DEF Started
  <2> QED  BY <2>2 DEF T
<1>2. starts' = starts \/ \E s \in Sessions : Spawn(s) /\ starts' # starts
  BY DEF Next, FreeStep, LockStep, Publish, OnData, Unpublish, Close, InsertPipeline,
         SendData, WriteReturns, WriteFails, StopPipeline, Authenticate, ClearDirectory, RecordMetadata,
         CallStopApi, CleanDirectory, GenerateVod, MarkCompleted, FfmpegExits, Over, vars, world
<1>3. ASSUME NEW s \in Sessions, Spawn(s), starts' # starts
      PROVE  Started \subseteq Started' /\ \A i \in Started : starts'[i] = starts[i]
  <2>1. Len(starts) \in Nat /\ Len(starts') = Len(starts) + 1
    BY <1>3, SpawnAppends
  <2>2. \A i \in Started : starts'[i] = starts[i]
    BY <1>3, SpawnAppends
  <2> QED  BY <2>1, <2>2 DEF Started
<1> QED  BY <1>1, <1>2, <1>3 DEF Started

\* The steps that neither name a stream nor start it.
Later(s) == LockStep(s) \/ WriteReturns(s) \/ WriteFails(s) \/ Quiet(s)
                \/ ClearDirectory(s) \/ RecordMetadata(s) \/ CleanDirectory(s)
                \/ MarkCompleted(s)

LEMMA LaterMoves ==
    ASSUME TypeOK, NEW s \in Sessions, Later(s)
    PROVE  /\ UNCHANGED <<name, used, starts>>
           /\ \A t \in Sessions \ {s} : pc'[t] = pc[t] /\ mine'[t] = mine[t]
           /\ pc'[s] \in {"cleardir", "spawn"} => pc[s] = "cleardir"
           /\ pc'[s] # "insert"
           /\ pc'[s] = "cleandir" => StopPipeline(s)
<1>1. CASE InsertPipeline(s)
  BY <1>1 DEF TypeOK, InsertPipeline, Goto
<1>2. CASE SendData(s) \/ WriteReturns(s) \/ WriteFails(s)
  BY <1>2 DEF TypeOK, SendData, WriteReturns, WriteFails, Goto
<1>3. CASE StopPipeline(s)
  BY <1>3 DEF TypeOK, StopPipeline, Goto
<1>4. CASE Quiet(s)
  BY <1>4 DEF TypeOK, Quiet, Publish, OnData, Unpublish, Close, GenerateVod, CallStopApi, Goto, world
<1>5. CASE ClearDirectory(s) \/ RecordMetadata(s) \/ CleanDirectory(s) \/ MarkCompleted(s)
  BY <1>5 DEF TypeOK, ClearDirectory, RecordMetadata, CleanDirectory, MarkCompleted, Goto
<1> QED  BY <1>1, <1>2, <1>3, <1>4, <1>5 DEF Later, LockStep

\* A step is one of these.
LEMMA StepsAre ==
    ASSUME [Next]_vars
    PROVE  \/ \E s \in Sessions : Authenticate(s) \/ Spawn(s) \/ Later(s)
           \/ \E i \in Instances : FfmpegExits(i)
           \/ UNCHANGED vars
BY DEF Next, FreeStep, Later, Quiet, Over

LEMMA NamesStep ==
    ASSUME DistinctStreams, TypeInv, NamesAreFresh, [Next]_vars
    PROVE  NamesAreFresh'
<1>0. TypeOK
  BY DEF TypeInv
<1>1. ASSUME NEW s \in Sessions, Authenticate(s) PROVE NamesAreFresh'
  <2>1. UNCHANGED starts /\ pc[s] = "auth" /\ \A t \in Sessions \ {s} : pc'[t] = pc[t]
    BY <1>0, <1>1, GotoMoves DEF Authenticate, world
  <2>2. CASE Goto(s, "dead") /\ UNCHANGED <<name, used>>
    BY <1>0, <2>1, <2>2, GotoMoves DEF NamesAreFresh, Started
  <2>3. ASSUME NEW n \in Names, used = {m \in Names : m < n}, used' = used \cup {n},
               name' = [name EXCEPT ![s] = n]
        PROVE  NamesAreFresh'
    <3>1. n \notin used
      BY <2>3, LifecycleAssumption
    <3>2. name'[s] = n /\ \A t \in Sessions \ {s} : name'[t] = name[t]
      BY <1>0, <2>3 DEF TypeOK
    <3> QED  BY <2>1, <2>3, <3>1, <3>2 DEF NamesAreFresh, Started
  <2> QED  BY <1>1, <2>2, <2>3 DEF Authenticate, DistinctStreams
<1>2. ASSUME NEW s \in Sessions, Spawn(s) PROVE NamesAreFresh'
  <2>1. /\ UNCHANGED <<name, used>> /\ pc[s] = "spawn" /\ name[s] \in Names
        /\ pc'[s] \in {"insert", "idle"} /\ \A t \in Sessions \ {s} : pc'[t] = pc[t]
    BY <1>0, <1>2, GotoMoves DEF Spawn, TypeInv, NameIsSet, Nameless
  <2>2. CASE starts' = starts
    BY <2>1, <2>2 DEF NamesAreFresh, Started
  <2>3. CASE starts' # starts
    <3> DEFINE k == Len(starts) + 1
    <3>1. /\ starts'[k].by = s /\ starts'[k].name = name[s]
          /\ \A i \in Started : starts'[i] = starts[i]
          /\ Started' = Started \cup {k}
      <4>1. Len(starts) \in Nat /\ Len(starts') = k
        BY <1>2, <2>3, SpawnAppends
      <4>2. Started' = Started \cup {k}
        BY <4>1 DEF Started
      <4>3. starts'[k] = [by |-> s, name |-> name[s]] /\ \A i \in Started : starts'[i] = starts[i]
        BY <1>2, <2>3, SpawnAppends
      <4> QED  BY <4>2, <4>3
    <3>2. \A i \in Started : starts[i].name # name[s]
      BY <2>1 DEF NamesAreFresh
    <3>3. \A t \in Sessions : name[t] = name[s] => t = s
      BY <2>1, LifecycleAssumption DEF NamesAreFresh
    <3>4. name[s] \in used
      BY <2>1, LifecycleAssumption DEF NamesAreFresh
    <3> HIDE DEF k
    <3>5. /\ \A t \in Sessions : name'[t] # None => name'[t] \in used'
          /\ \A t, u \in Sessions : name'[t] # None /\ name'[t] = name'[u] => t = u
      BY <2>1 DEF NamesAreFresh
    <3>6. \A i \in Started' : starts'[i].name \in used'
      BY <2>1, <3>1, <3>4 DEF NamesAreFresh
    <3>7. \A i, j \in Started' : starts'[i].name = starts'[j].name => i = j
      BY <3>1, <3>2 DEF NamesAreFresh
    <3>8. \A i \in Started' : \A t \in Sessions : starts'[i].name = name'[t]
              => starts'[i].by = t /\ pc'[t] \notin {"cleardir", "spawn"}
      BY <2>1, <3>1, <3>2, <3>3 DEF NamesAreFresh
    <3> QED  BY <3>5, <3>6, <3>7, <3>8 DEF NamesAreFresh
  <2> QED  BY <2>2, <2>3
<1>3. ASSUME NEW s \in Sessions, Later(s) PROVE NamesAreFresh'
  BY <1>0, <1>3, LaterMoves DEF NamesAreFresh, Started
<1>4. CASE (\E i \in Instances : FfmpegExits(i)) \/ UNCHANGED vars
  BY <1>4 DEF FfmpegExits, session, vars, world, NamesAreFresh, Started
<1> QED  BY <1>1, <1>2, <1>3, <1>4, StepsAre

\* A start is a pair of a connection and a name.
LEMMA StartIsPair ==
    ASSUME TypeInv, NEW i \in Started, NEW s, NEW n,
           starts[i].by = s, starts[i].name = n
    PROVE  starts[i] = [by |-> s, name |-> n]
<1> DEFINE T == [by : Sessions, name : Names]
<1> HIDE DEF T
<1>1. starts \in Seq(T)
  BY DEF TypeInv, TypeOK, T
<1>2. starts[i] \in T
  BY <1>1 DEF Started
<1> QED  BY <1>2 DEF T

\* What the map holds under a connection's id, that connection has started.
LEMMA OwnEntry ==
    ASSUME DistinctStreams, TypeInv, NamesAreFresh, EntriesAreOwn,
           NEW s \in Sessions, name[s] \in Names, pipelines[InternalId(s)] # NoInstance
    PROVE  /\ pipelines[InternalId(s)] \in Started
           /\ starts[pipelines[InternalId(s)]] = [by |-> s, name |-> name[s]]
<1> DEFINE i == pipelines[InternalId(s)]
<1>1. InternalId(s) \in Ids
  BY LifecycleAssumption DEF InternalId
<1>2. i \in Started /\ IdOf[starts[i].name] = IdOf[name[s]]
  BY <1>1 DEF EntriesAreOwn, InternalId
<1>3. starts[i].name \in Names
  <2> DEFINE T == [by : Sessions, name : Names]
  <2> HIDE DEF T
  <2>1. starts \in Seq(T)
    BY DEF TypeInv, TypeOK, T
  <2>2. starts[i] \in T
    BY <1>2, <2>1 DEF Started
  <2> QED  BY <2>2 DEF T
<1>4. starts[i].name = name[s]
  BY <1>2, <1>3 DEF DistinctStreams
<1>5. starts[i].by = s
  BY <1>2, <1>4 DEF NamesAreFresh
<1> QED  BY <1>2, <1>4, <1>5, StartIsPair

\* The parts of EntriesAreOwn after a step that adds no entry to the map, and
\* brings no callback to hold an instance.
LEMMA EntriesFrame ==
    ASSUME TypeInv, EntriesAreOwn, [Next]_vars,
           \A id \in Ids : pipelines'[id] = pipelines[id] \/ pipelines'[id] = NoInstance,
           \A t \in Sessions : pc'[t] \in {"insert", "cleandir"}
               => pc'[t] = pc[t] /\ mine'[t] = mine[t] /\ name'[t] = name[t]
    PROVE  EntriesAreOwn'
<1>1. \A id \in Ids : pipelines'[id] # NoInstance
          => pipelines'[id] \in Started' /\ IdOf[starts'[pipelines'[id]].name] = id
  BY StartsStay DEF EntriesAreOwn
<1>2. \A t \in Sessions : pc'[t] \in {"insert", "cleandir"}
          => mine'[t] \in Started' /\ starts'[mine'[t]] = [by |-> t, name |-> name'[t]]
  BY StartsStay DEF EntriesAreOwn
<1>3. \A t \in Sessions : pc'[t] = "cleandir" => pipelines'[IdOf[name'[t]]] = NoInstance
  <2> SUFFICES ASSUME NEW t \in Sessions, pc'[t] = "cleandir"
               PROVE  pipelines'[IdOf[name'[t]]] = NoInstance
    OBVIOUS
  <2>1. pc[t] = "cleandir" /\ name'[t] = name[t] /\ IdOf[name[t]] \in Ids
    BY LifecycleAssumption DEF TypeInv, NameIsSet, Nameless
  <2> QED  BY <2>1 DEF EntriesAreOwn, InternalId
<1> QED  BY <1>1, <1>2, <1>3 DEF EntriesAreOwn, InternalId

LEMMA EntriesStep ==
    ASSUME DistinctStreams, TypeInv, NamesAreFresh, EntriesAreOwn, [Next]_vars
    PROVE  EntriesAreOwn'
<1>0. TypeOK
  BY DEF TypeInv
<1>1. ASSUME NEW s \in Sessions, Authenticate(s) PROVE EntriesAreOwn'
  <2>1. /\ UNCHANGED <<pipelines, mine>> /\ pc'[s] \in {"cleardir", "dead"}
        /\ \A t \in Sessions \ {s} : pc'[t] = pc[t] /\ name'[t] = name[t]
    BY <1>0, <1>1 DEF TypeOK, Authenticate, Goto, world
  <2> QED  BY <2>1, EntriesFrame
<1>2. ASSUME NEW s \in Sessions, Spawn(s) PROVE EntriesAreOwn'
  <2>1. /\ UNCHANGED <<pipelines, name>>
        /\ \A t \in Sessions \ {s} : pc'[t] = pc[t] /\ mine'[t] = mine[t]
    BY <1>0, <1>2 DEF TypeOK, Spawn, Goto
  <2>2. CASE pc'[s] # "insert"
    <3>1. pc'[s] = "idle"
      BY <1>0, <1>2, <2>2 DEF TypeOK, Spawn, Goto
    <3> QED  BY <2>1, <3>1, EntriesFrame
  <2>3. CASE pc'[s] = "insert"
    <3>1. /\ mine'[s] = Len(starts) + 1
          /\ starts' = Append(starts, [by |-> s, name |-> name[s]])
      BY <1>0, <1>2, <2>3 DEF TypeOK, Spawn, Goto
    <3>2. /\ Len(starts) \in Nat
          /\ Len(Append(starts, [by |-> s, name |-> name[s]])) = Len(starts) + 1
      BY <1>0 DEF TypeOK
    <3>3. Len(starts') = Len(starts) + 1 /\ starts' # starts
      BY <3>1, <3>2
    <3>4. mine'[s] \in Started' /\ starts'[mine'[s]] = [by |-> s, name |-> name'[s]]
      <4>1. starts'[Len(starts) + 1] = [by |-> s, name |-> name[s]]
        BY <1>2, <3>3, SpawnAppends
      <4> QED  BY <2>1, <3>1, <3>2, <3>3, <4>1 DEF Started
    <3>5. \A id \in Ids : pipelines'[id] # NoInstance
              => pipelines'[id] \in Started' /\ IdOf[starts'[pipelines'[id]].name] = id
      BY <2>1, StartsStay DEF EntriesAreOwn
    <3>6. \A t \in Sessions : pc'[t] \in {"insert", "cleandir"}
              => mine'[t] \in Started' /\ starts'[mine'[t]] = [by |-> t, name |-> name'[t]]
      BY <2>1, <3>4, StartsStay DEF EntriesAreOwn
    <3>7. \A t \in Sessions : pc'[t] = "cleandir" => pipelines'[IdOf[name'[t]]] = NoInstance
      BY <2>1, <2>3 DEF EntriesAreOwn, InternalId
    <3> QED  BY <3>5, <3>6, <3>7 DEF EntriesAreOwn, InternalId
  <2> QED  BY <2>2, <2>3
<1>3. ASSUME NEW s \in Sessions, InsertPipeline(s) PROVE EntriesAreOwn'
  <2>1. /\ pc[s] = "insert" /\ mine[s] \in Started
        /\ starts[mine[s]].name = name[s] /\ InternalId(s) \in Ids
    <3>1. pc[s] = "insert" /\ name[s] \in Names /\ InternalId(s) \in Ids
      BY <1>3, LifecycleAssumption DEF InsertPipeline, InternalId, TypeInv, NameIsSet, Nameless
    <3>2. mine[s] \in Started /\ starts[mine[s]] = [by |-> s, name |-> name[s]]
      BY <3>1 DEF EntriesAreOwn
    <3> QED  BY <3>1, <3>2
  <2>2. /\ pipelines' = [pipelines EXCEPT ![IdOf[name[s]]] = mine[s]]
        /\ UNCHANGED <<name, mine, starts>>
        /\ \A t \in Sessions : pc'[t] = IF t = s THEN "metadata" ELSE pc[t]
        /\ \A t \in Sessions : pc[t] # "cleandir"
    BY <1>0, <1>3, LifecycleAssumption DEF InsertPipeline, InternalId, TypeOK, Goto
  <2>3. \A id \in Ids : pipelines'[id] # NoInstance
            => pipelines'[id] \in Started /\ IdOf[starts[pipelines'[id]].name] = id
    BY <1>0, <2>1, <2>2 DEF EntriesAreOwn, InternalId, TypeOK
  <2> QED  BY <2>2, <2>3 DEF EntriesAreOwn, InternalId, Started
<1>4. ASSUME NEW s \in Sessions, SendData(s) \/ WriteReturns(s) \/ WriteFails(s)
      PROVE  EntriesAreOwn'
  <2>1. /\ \A id \in Ids : pipelines'[id] = pipelines[id] \/ pipelines'[id] = NoInstance
        /\ UNCHANGED <<mine, name>>
        /\ \A t \in Sessions : pc'[t] = pc[t] \/ pc'[t] \in {"idle", "writing"}
    BY <1>0, <1>4 DEF TypeOK, SendData, WriteReturns, WriteFails, Goto
  <2> QED  BY <2>1, EntriesFrame
<1>5. ASSUME NEW s \in Sessions, StopPipeline(s) PROVE EntriesAreOwn'
  <2> DEFINE i == pipelines[InternalId(s)]
  <2>1. name[s] \in Names /\ InternalId(s) \in Ids
    BY <1>5, LifecycleAssumption DEF InternalId, TypeInv, NameIsSet, Nameless, StopPipeline
  <2>2. /\ pipelines' = [pipelines EXCEPT ![InternalId(s)] = NoInstance]
        /\ mine'[s] = i /\ UNCHANGED <<name, starts>>
        /\ \A t \in Sessions \ {s} : pc'[t] = pc[t] /\ mine'[t] = mine[t]
        /\ (pc'[s] = "cleandir" /\ i # NoInstance) \/ pc'[s] = "vod"
    BY <1>0, <1>5 DEF StopPipeline, TypeOK, Goto
  <2>3. CASE pc'[s] = "vod"
    <3>1. \A id \in Ids : pipelines'[id] = pipelines[id] \/ pipelines'[id] = NoInstance
      BY <1>0, <2>2 DEF TypeOK
    <3> QED  BY <2>2, <2>3, <3>1, EntriesFrame
  <2>4. CASE pc'[s] = "cleandir" /\ i # NoInstance
    <3>1. i \in Started /\ starts[i] = [by |-> s, name |-> name[s]]
      BY <2>1, <2>4, OwnEntry
    <3>2. \A id \in Ids : pipelines'[id] # NoInstance => pipelines'[id] = pipelines[id]
      BY <1>0, <2>2 DEF TypeOK
    <3>3. pipelines'[IdOf[name[s]]] = NoInstance
      BY <1>0, <2>1, <2>2 DEF TypeOK, InternalId
    <3>4. \A t \in Sessions : pc'[t] \in {"insert", "cleandir"}
              => mine'[t] \in Started /\ starts[mine'[t]] = [by |-> t, name |-> name[t]]
      BY <2>2, <3>1 DEF EntriesAreOwn
    <3>5. \A t \in Sessions : pc'[t] = "cleandir" => t = s
      BY <1>0, <1>5, <2>2, LifecycleAssumption DEF TypeOK, StopPipeline
    <3> QED  BY <2>2, <3>2, <3>3, <3>4, <3>5 DEF EntriesAreOwn, InternalId, Started
  <2> QED  BY <2>2, <2>3, <2>4
<1>6. ASSUME NEW s \in Sessions, Quiet(s) \/ ClearDirectory(s) \/ RecordMetadata(s)
                 \/ CleanDirectory(s) \/ MarkCompleted(s)
      PROVE EntriesAreOwn'
  <2>1. /\ UNCHANGED <<pipelines, mine, name>>
        /\ \A t \in Sessions : pc'[t] = pc[t] \/ pc'[t] \notin {"insert", "cleandir"}
    <3>1. CASE Quiet(s)
      BY <1>0, <3>1
      DEF TypeOK, Quiet, Publish, OnData, Unpublish, Close, GenerateVod, CallStopApi, Goto, world
    <3>2. CASE ClearDirectory(s) \/ RecordMetadata(s) \/ CleanDirectory(s) \/ MarkCompleted(s)
      BY <1>0, <3>2 DEF TypeOK, ClearDirectory, RecordMetadata, CleanDirectory, MarkCompleted, Goto
    <3> QED  BY <1>6, <3>1, <3>2
  <2> QED  BY <2>1, EntriesFrame
<1>7. CASE (\E i \in Instances : FfmpegExits(i)) \/ UNCHANGED vars
  <2>1. UNCHANGED <<pipelines, mine, name, pc>>
    BY <1>7 DEF FfmpegExits, session, vars, world
  <2> QED  BY <2>1, EntriesFrame
<1> QED  BY <1>1, <1>2, <1>3, <1>4, <1>5, <1>6, <1>7, StepsAre DEF Later, LockStep

\* An ffmpeg is given data by its own connection.
LEMMA DataStep ==
    ASSUME DistinctStreams, TypeInv, OwnInv, [Next]_vars
    PROVE  DataToOwnPipeline'
<1>0. TypeOK /\ DataToOwnPipeline /\ NamesAreFresh /\ EntriesAreOwn
  BY DEF TypeInv, OwnInv
<1>1. CASE got' = got
  BY <1>0, <1>1, StartsStay DEF DataToOwnPipeline, Started
<1>2. ASSUME NEW s \in Sessions, SendData(s), got' # got
      PROVE  DataToOwnPipeline'
  <2> DEFINE i == pipelines[InternalId(s)]
  <2>1. name[s] \in Names
    BY <1>2 DEF SendData, TypeInv, NameIsSet, Nameless
  <2>2. got' = [got EXCEPT ![i] = @ \cup {s}] /\ i # NoInstance
    BY <1>2 DEF SendData
  <2>3. i # NoInstance /\ i \in Instances
    BY <1>0, <2>1, <2>2, LifecycleAssumption DEF TypeOK, InternalId
  <2>4. i \in Started /\ starts[i].by = s
    <3>1. i \in Started /\ starts[i] = [by |-> s, name |-> name[s]]
      BY <1>0, <2>1, <2>3, OwnEntry
    <3> QED  BY <3>1
  <2>5. \A k \in Instances : got'[k] = IF k = i THEN got[k] \cup {s} ELSE got[k]
    BY <1>0, <2>2 DEF TypeOK
  <2>6. ASSUME NEW k \in Instances, NEW t \in got'[k]
        PROVE  k \in Started /\ starts[k].by = t
    <3>1. CASE t \in got[k]
      BY <1>0, <3>1 DEF DataToOwnPipeline, Started
    <3>2. CASE k = i /\ t = s
      BY <2>4, <3>2
    <3> QED  BY <2>5, <2>6, <3>1, <3>2
  <2>7. \A k \in Instances : \A t \in got'[k] : k \in Started' /\ starts'[k].by = t
    BY <2>6, StartsStay
  <2> QED  BY <2>7 DEF DataToOwnPipeline, Started
<1>3. got' = got \/ \E s \in Sessions : SendData(s)
  BY DEF Next, FreeStep, LockStep, Publish, OnData, Unpublish, Close, InsertPipeline,
         StopPipeline, WriteReturns, WriteFails, Authenticate, Spawn, ClearDirectory, RecordMetadata, CallStopApi, CleanDirectory,
         GenerateVod, MarkCompleted, FfmpegExits, Over, vars, world
<1> QED  BY <1>1, <1>2, <1>3

LEMMA OwnInit == Init => OwnInv
BY DEF Init, OwnInv, NamesAreFresh, EntriesAreOwn, DataToOwnPipeline, Started, NoInstance

LEMMA OwnInductive == ASSUME DistinctStreams PROVE Spec => [](TypeInv /\ OwnInv)
<1>1. TypeInv /\ OwnInv /\ [Next]_vars => OwnInv'
  BY NamesStep, EntriesStep, DataStep DEF OwnInv
<1> QED  BY <1>1, OwnInit, TypeInductive, PTL DEF Spec

\* For any number of connections, with all the faults: no ffmpeg is ever given the
\* data of a connection that did not start it, by send_data of handlers whose
\* ids outlive their pipelines, if stream ids are fresh and their hashes differ.
THEOREM DataStaysApart == ASSUME DistinctStreams PROVE Spec => []DataToOwnPipeline
<1>1. OwnInv => DataToOwnPipeline
  BY DEF OwnInv
<1> QED  BY <1>1, OwnInductive, PTL

-----------------------------------------------------------------------------
(* Directories and watchers.                                                *)

\* Who enters and leaves the awaits at which a callback holds an instance, and
\* those at which its pipeline is stopped.
Moved(t) ==
    /\ pc'[t] = "insert"
        => Spawn(t) \/ (pc[t] = "insert" /\ mine'[t] = mine[t])
    /\ pc[t] = "insert"
        => InsertPipeline(t) \/ (pc'[t] = "insert" /\ mine'[t] = mine[t])
    /\ pc'[t] = "cleandir"
        => StopPipeline(t) \/ (pc[t] = "cleandir" /\ mine'[t] = mine[t])
    /\ pc[t] = "cleandir"
        => CleanDirectory(t) \/ (pc'[t] = "cleandir" /\ mine'[t] = mine[t])
    /\ pc'[t] \in {"vod", "complete"}
        => \/ StopPipeline(t) \/ CleanDirectory(t)
           \/ pc[t] \in {"vod", "complete"} /\ name'[t] = name[t]

LEMMA CallbackMoves ==
    ASSUME TypeInv, [Next]_vars, NEW t \in Sessions
    PROVE  Moved(t)
<1>0. TypeOK
  BY DEF TypeInv
<1>1. ASSUME NEW s \in Sessions, Authenticate(s) PROVE Moved(t)
  BY <1>0, <1>1 DEF Moved, TypeOK, Authenticate, Goto, world
<1>2. ASSUME NEW s \in Sessions, Spawn(s) PROVE Moved(t)
  BY <1>0, <1>2 DEF Moved, TypeOK, Spawn, Goto
<1>3. ASSUME NEW s \in Sessions, InsertPipeline(s) PROVE Moved(t)
  BY <1>0, <1>3 DEF Moved, TypeOK, InsertPipeline, Goto
<1>4. ASSUME NEW s \in Sessions, SendData(s) \/ WriteReturns(s) \/ WriteFails(s)
      PROVE  Moved(t)
  BY <1>0, <1>4 DEF Moved, TypeOK, SendData, WriteReturns, WriteFails, Goto
<1>5. ASSUME NEW s \in Sessions, StopPipeline(s) PROVE Moved(t)
  BY <1>0, <1>5 DEF Moved, TypeOK, StopPipeline, Goto
<1>6. ASSUME NEW s \in Sessions, Quiet(s) PROVE Moved(t)
  BY <1>0, <1>6
  DEF Moved, TypeOK, Quiet, Publish, OnData, Unpublish, Close, GenerateVod, CallStopApi, Goto, world
<1>7. ASSUME NEW s \in Sessions, ClearDirectory(s) \/ RecordMetadata(s) \/ MarkCompleted(s)
      PROVE  Moved(t)
  BY <1>0, <1>7 DEF Moved, TypeOK, ClearDirectory, RecordMetadata, MarkCompleted, Goto
<1>8. ASSUME NEW s \in Sessions, CleanDirectory(s) PROVE Moved(t)
  BY <1>0, <1>8 DEF Moved, TypeOK, CleanDirectory, Goto
<1>9. CASE (\E i \in Instances : FfmpegExits(i)) \/ UNCHANGED vars
  BY <1>9 DEF Moved, FfmpegExits, session, vars, world
<1>10. ASSUME NEW s \in Sessions, Later(s) PROVE Moved(t)
  BY <1>3, <1>4, <1>5, <1>6, <1>7, <1>8, <1>10 DEF Later, LockStep
<1> QED  BY <1>1, <1>2, <1>9, <1>10, StepsAre

\* Who changes the map, and the histories only grow.
LEMMA MapMoves ==
    ASSUME [Next]_vars
    PROVE  /\ lost \subseteq lost' /\ unswept \subseteq unswept'
           /\ \/ pipelines' = pipelines
              \/ \E s \in Sessions : InsertPipeline(s) \/ WriteFails(s) \/ StopPipeline(s)
BY DEF Next, FreeStep, LockStep, Publish, OnData, Unpublish, Close, InsertPipeline,
       SendData, WriteReturns, WriteFails, StopPipeline, Authenticate, Spawn, ClearDirectory, RecordMetadata,
       CallStopApi, CleanDirectory, GenerateVod, MarkCompleted, FfmpegExits, Over, vars, world

\* Who changes the directories and the watchers.
LEMMA DirectoryMoves ==
    ASSUME [Next]_vars
    PROVE  /\ \/ dir' = dir
              \/ \E s \in Sessions : ClearDirectory(s) \/ Spawn(s) \/ CleanDirectory(s)
           /\ watchers' \subseteq watchers \/ \E s \in Sessions : Spawn(s)
           /\ ended' = ended \/ \E s \in Sessions : MarkCompleted(s)
<1>1. ASSUME NEW s \in Sessions, LockStep(s) \/ WriteReturns(s) \/ WriteFails(s) \/ Quiet(s)
      PROVE  dir' = dir /\ watchers' \subseteq watchers /\ ended' = ended
  BY <1>1 DEF LockStep, InsertPipeline, SendData, WriteReturns, WriteFails, StopPipeline,
              Quiet, Publish, OnData, Unpublish, Close, CallStopApi, GenerateVod, world
<1>2. ASSUME NEW s \in Sessions, Authenticate(s) \/ RecordMetadata(s) \/ MarkCompleted(s)
      PROVE  dir' = dir /\ watchers' = watchers /\ (ended' = ended \/ MarkCompleted(s))
  BY <1>2 DEF Authenticate, RecordMetadata, MarkCompleted, world
<1>3. ASSUME NEW s \in Sessions, ClearDirectory(s) \/ CleanDirectory(s)
      PROVE  watchers' = watchers /\ ended' = ended
  BY <1>3 DEF ClearDirectory, CleanDirectory
<1>4. ASSUME NEW s \in Sessions, Spawn(s) PROVE ended' = ended
  BY <1>4 DEF Spawn
<1>5. CASE (\E i \in Instances : FfmpegExits(i)) \/ UNCHANGED vars
  BY <1>5 DEF FfmpegExits, vars, world
<1> QED  BY <1>1, <1>2, <1>3, <1>4, <1>5, StepsAre DEF Later

\* A new start takes a directory and, if all goes well, a watcher.
LEMMA SpawnMakes ==
    ASSUME TypeInv, NEW s \in Sessions, Spawn(s)
    PROVE  \/ /\ UNCHANGED <<starts, dir, watchers, ffmpegs, lost, mine>>
              /\ pc'[s] = "idle"
           \/ /\ starts' # starts
              /\ \/ /\ watchers' = watchers \cup {Len(starts) + 1}
                    /\ ffmpegs' = ffmpegs \cup {Len(starts) + 1}
                    /\ mine'[s] = Len(starts) + 1 /\ pc'[s] = "insert"
                 \/ /\ watchers' = watchers /\ ffmpegs' = ffmpegs
                    /\ lost' = lost \cup {Len(starts) + 1} /\ pc'[s] = "idle"
<1>0. (pc'[s] = "insert" /\ Goto(s, "insert")) \/ (pc'[s] = "idle" /\ Goto(s, "idle"))
  BY DEF TypeInv, TypeOK, Spawn, Goto
<1>1. CASE starts' = Append(starts, [by |-> s, name |-> name[s]])
  <2>1. Len(Append(starts, [by |-> s, name |-> name[s]])) = Len(starts) + 1 /\ Len(starts) \in Nat
    BY DEF TypeInv, TypeOK
  <2>2. starts' # starts
    BY <1>1, <2>1
  <2> QED  BY <2>2 DEF TypeInv, TypeOK, Spawn, Goto
<1>2. CASE /\ Goto(s, "idle")
           /\ UNCHANGED <<dir, starts, ffmpegs, watchers, mine, lost>>
  BY <1>2 DEF TypeInv, TypeOK, Goto
<1> QED  BY <1>1, <1>2 DEF Spawn

\* What is gone stays gone: numbers of instances are not used again.
LEMMA GoneStays ==
    ASSUME TypeInv, [Next]_vars, NEW i \in Started, Gone(i)
    PROVE  Gone(i)'
<1>0. /\ TypeOK /\ i # NoInstance /\ i # Len(starts) + 1
      /\ starts'[i] = starts[i] /\ starts[i].name \in Names
  BY StartsStay DEF TypeInv, TypeOK, Started, NoInstance
<1>1. i \notin watchers'
  BY <1>0, DirectoryMoves, SpawnMakes DEF Gone
<1>2. dir'[starts[i].name] = i => i \in unswept'
  <2>0. dir'[starts[i].name] = i => dir[starts[i].name] = i
    <3>1. ASSUME NEW s \in Sessions, ClearDirectory(s), dir'[starts[i].name] = i
          PROVE  dir[starts[i].name] = i
      BY <1>0, <3>1 DEF ClearDirectory, TypeOK
    <3>2. ASSUME NEW s \in Sessions, CleanDirectory(s), dir'[starts[i].name] = i
          PROVE  dir[starts[i].name] = i
      BY <1>0, <3>2 DEF CleanDirectory, TypeOK
    <3>3. ASSUME NEW s \in Sessions, Spawn(s), dir'[starts[i].name] = i
          PROVE  dir[starts[i].name] = i
      BY <1>0, <3>3 DEF Spawn, TypeOK
    <3> QED  BY <3>1, <3>2, <3>3, DirectoryMoves
  <2> QED  BY <2>0, MapMoves DEF Gone
<1> QED  BY <1>0, <1>1, <1>2 DEF Gone

\* A new instance is the last one of starts.
LEMMA NewStart ==
    ASSUME TypeInv, [Next]_vars, NEW i \in Started', i \notin Started
    PROVE  \E s \in Sessions : /\ Spawn(s) /\ starts' # starts
                               /\ i = Len(starts) + 1
                               /\ starts'[i].by = s /\ starts'[i].name = name[s]
<1>1. starts' # starts
  BY DEF Started
<1>2. PICK s \in Sessions : Spawn(s)
  BY <1>1 DEF Next, FreeStep, LockStep, Publish, OnData, Unpublish, Close, InsertPipeline,
              SendData, WriteReturns, WriteFails, StopPipeline, Authenticate, ClearDirectory, RecordMetadata,
              CallStopApi, CleanDirectory, GenerateVod, MarkCompleted, FfmpegExits, Over, vars, world
<1>3. /\ Len(starts) \in Nat /\ Len(starts') = Len(starts) + 1
      /\ starts'[Len(starts) + 1] = [by |-> s, name |-> name[s]]
  BY <1>1, <1>2, SpawnAppends
<1>4. i = Len(starts) + 1
  BY <1>3 DEF Started
<1> QED  BY <1>1, <1>2, <1>3, <1>4

\* What the map drops is lost or stopped, what it takes was about to enter.
LEMMA InMapMoves ==
    ASSUME DistinctStreams, TypeInv, OwnInv, [Next]_vars, NEW i \in Started
    PROVE  /\ InMap(i)' => InMap(i) \/ Held(i, "insert")
           /\ InMap(i) => \/ InMap(i)' \/ i \in lost'
                          \/ Held(i, "cleandir")' /\ i \notin watchers'
<1> DEFINE id == IdOf[starts[i].name]
<1>0. /\ TypeOK /\ NamesAreFresh /\ EntriesAreOwn
      /\ starts'[i] = starts[i] /\ id \in Ids /\ i # NoInstance
  <2>1. starts'[i] = starts[i] /\ starts[i].name \in Names
    BY StartsStay
  <2>2. i # NoInstance
    BY DEF Started, NoInstance
  <2> QED  BY <2>1, <2>2, LifecycleAssumption DEF TypeInv, OwnInv
<1> DEFINE Goal == /\ pipelines'[id] = i => pipelines[id] = i \/ Held(i, "insert")
                   /\ pipelines[id] = i => \/ pipelines'[id] = i \/ i \in lost'
                                           \/ Held(i, "cleandir")' /\ i \notin watchers'
<1>1. ASSUME pipelines' = pipelines PROVE Goal
  BY <1>1
<1>2. ASSUME NEW s \in Sessions, InsertPipeline(s) PROVE Goal
  <2>1. pc[s] = "insert" /\ pipelines' = [pipelines EXCEPT ![InternalId(s)] = mine[s]]
    BY <1>2 DEF InsertPipeline
  <2>2. starts[mine[s]] = [by |-> s, name |-> name[s]]
    BY <2>1 DEF OwnInv, EntriesAreOwn
  <2>3. mine[s] = i => Held(i, "insert")
    BY <2>1, <2>2 DEF Held
  <2>4. pipelines'[id] = IF id = InternalId(s) THEN mine[s] ELSE pipelines[id]
    BY <1>0, <2>1 DEF TypeOK
  <2>5. lost' = lost \cup ({pipelines[InternalId(s)]} \ {NoInstance})
    BY <1>2 DEF InsertPipeline
  <2> QED  BY <1>0, <2>3, <2>4, <2>5
<1>3. ASSUME NEW s \in Sessions, WriteFails(s) PROVE Goal
  <2>1. /\ pipelines' = [pipelines EXCEPT ![InternalId(s)] = NoInstance]
        /\ lost' = lost \cup {pipelines[InternalId(s)]}
    BY <1>3 DEF WriteFails
  <2> QED  BY <1>0, <2>1 DEF TypeOK
<1>4. ASSUME NEW s \in Sessions, StopPipeline(s) PROVE Goal
  <2>1. /\ pipelines' = [pipelines EXCEPT ![InternalId(s)] = NoInstance]
        /\ watchers' = watchers \ {pipelines[InternalId(s)]}
        /\ mine'[s] = pipelines[InternalId(s)]
        /\ pipelines[InternalId(s)] # NoInstance => pc'[s] = "cleandir"
    BY <1>0, <1>4 DEF StopPipeline, Goto, TypeOK
  <2>2. name[s] \in Names
    BY <1>4 DEF StopPipeline, TypeInv, NameIsSet, Nameless
  <2>3. CASE id = InternalId(s) /\ pipelines[id] = i
    <3>1. starts[i] = [by |-> s, name |-> name[s]]
      BY <1>0, <2>2, <2>3, OwnEntry
    <3>2. Held(i, "cleandir")' /\ i \notin watchers'
      BY <1>0, <2>1, <2>3, <3>1 DEF Held
    <3> QED  BY <1>0, <2>1, <2>3, <3>2 DEF TypeOK
  <2>4. CASE ~(id = InternalId(s) /\ pipelines[id] = i)
    BY <1>0, <2>1, <2>4 DEF TypeOK
  <2> QED  BY <2>3, <2>4
<1>5. Goal
  BY <1>1, <1>2, <1>3, <1>4, MapMoves
<1> QED  BY <1>0, <1>5 DEF InMap

\* Steps of other callbacks leave the directory of what is in the map, or about
\* to enter it.
LEMMA DirectoriesStep ==
    ASSUME DistinctStreams, TypeInv, OwnInv, DirectoriesAreOwn, [Next]_vars
    PROVE  DirectoriesAreOwn'
<1>0. TypeOK /\ NamesAreFresh /\ EntriesAreOwn
  BY DEF TypeInv, OwnInv
<1>1. ASSUME NEW i \in Started, InMap(i)' \/ Held(i, "insert")'
      PROVE  dir'[starts'[i].name] = i
  <2>0. starts'[i] = starts[i] /\ starts[i].name \in Names /\ starts[i].by \in Sessions
    BY StartsStay
  <2>1. InMap(i) \/ Held(i, "insert")
    <3>1. CASE Held(i, "insert")'
      <4>1. Spawn(starts[i].by)
              => mine'[starts[i].by] = Len(starts) + 1 \/ pc'[starts[i].by] # "insert"
        BY <2>0, SpawnMakes
      <4>2. i # Len(starts) + 1
        BY <1>0 DEF TypeOK, Started
      <4> QED  BY <2>0, <3>1, <4>1, <4>2, CallbackMoves DEF Held, Moved
    <3>2. CASE InMap(i)'
      BY <3>2, InMapMoves
    <3> QED  BY <1>1, <3>1, <3>2
  <2>2. dir[starts[i].name] = i
    BY <2>1 DEF DirectoriesAreOwn
  <2>3. ASSUME NEW s \in Sessions, ClearDirectory(s) \/ Spawn(s)
        PROVE  dir'[starts[i].name] = dir[starts[i].name]
    <3>1. starts[i].name # name[s]
      BY <1>0, <2>3 DEF NamesAreFresh, ClearDirectory, Spawn
    <3> QED  BY <1>0, <2>0, <2>3, <3>1 DEF ClearDirectory, Spawn, TypeOK
  <2>4. ASSUME NEW s \in Sessions, CleanDirectory(s)
        PROVE  dir'[starts[i].name] = dir[starts[i].name]
    <3>1. /\ pc[s] = "cleandir"
          /\ dir' = dir \/ dir' = [dir EXCEPT ![starts[mine[s]].name] = NoInstance]
      BY <2>4 DEF CleanDirectory
    <3>2. /\ mine[s] \in Started /\ starts[mine[s]] = [by |-> s, name |-> name[s]]
          /\ pipelines[IdOf[name[s]]] = NoInstance
      BY <1>0, <3>1 DEF EntriesAreOwn, InternalId
    <3>3. i # mine[s]
      <4>1. i # NoInstance
        BY DEF Started, NoInstance
      <4> QED  BY <2>1, <3>1, <3>2, <4>1 DEF InMap, Held
    <3>4. starts[i].name # starts[mine[s]].name
      BY <1>0, <3>2, <3>3 DEF NamesAreFresh
    <3> QED  BY <1>0, <2>0, <3>1, <3>4 DEF TypeOK
  <2> QED  BY <2>0, <2>2, <2>3, <2>4, DirectoryMoves
<1>2. ASSUME NEW i \in Started', i \notin Started PROVE dir'[starts'[i].name] = i
  <2>1. PICK s \in Sessions : /\ Spawn(s) /\ starts' # starts
                              /\ i = Len(starts) + 1 /\ starts'[i].name = name[s]
    BY <1>2, NewStart
  <2>2. dir' = [dir EXCEPT ![name[s]] = i] /\ name[s] \in Names
    BY <2>1, SpawnAppends DEF Spawn, TypeInv, NameIsSet, Nameless
  <2> QED  BY <1>0, <2>1, <2>2 DEF TypeOK
<1> QED  BY <1>1, <1>2 DEF DirectoriesAreOwn

\* No instance is forgotten.
LEMMA AccountedStep ==
    ASSUME DistinctStreams, TypeInv, OwnInv, Accounted, [Next]_vars
    PROVE  Accounted'
<1>0. TypeOK /\ NamesAreFresh /\ EntriesAreOwn
  BY DEF TypeInv, OwnInv
<1> DEFINE There(i) == \/ i \in lost
                       \/ InMap(i)
                       \/ Held(i, "insert")
                       \/ Held(i, "cleandir") /\ i \notin watchers
                       \/ Gone(i)
<1>1. watchers' \subseteq Started'
  <2>1. watchers \subseteq Started'
    BY StartsStay DEF Accounted
  <2>2. ASSUME NEW s \in Sessions, Spawn(s) PROVE watchers' \subseteq Started'
    <3>1. CASE watchers' = watchers
      BY <2>1, <3>1
    <3>2. CASE starts' # starts /\ watchers' = watchers \cup {Len(starts) + 1}
      <4>1. Len(starts) \in Nat /\ Len(starts') = Len(starts) + 1
        BY <2>2, <3>2, SpawnAppends
      <4>2. Len(starts) + 1 \in Started'
        BY <4>1 DEF Started
      <4> QED  BY <2>1, <3>2, <4>2
    <3> QED  BY <2>2, <3>1, <3>2, SpawnMakes
  <2> QED  BY <2>1, <2>2, DirectoryMoves
<1>2. ASSUME NEW i \in Started PROVE There(i)'
  <2>0. /\ starts'[i] = starts[i] /\ starts[i].by \in Sessions /\ i # Len(starts) + 1
        /\ i # NoInstance /\ starts[i].name \in Names
    BY <1>0, StartsStay DEF TypeOK, Started, NoInstance
  <2>1. CASE i \in lost
    BY <2>1, MapMoves
  <2>2. CASE InMap(i)
    BY <2>2, InMapMoves
  <2>3. CASE Held(i, "insert")
    <3> DEFINE s == starts[i].by
    <3>1. CASE InsertPipeline(s)
      <4>1. pipelines' = [pipelines EXCEPT ![InternalId(s)] = i] /\ starts[i].name = name[s]
        <5>1. pc[s] = "insert" /\ mine[s] = i
          BY <2>3 DEF Held
        <5>2. starts[i] = [by |-> s, name |-> name[s]]
          BY <1>0, <2>0, <5>1 DEF EntriesAreOwn
        <5>3. starts[i].name = name[s]
          BY <2>0, <5>2
        <5> QED  BY <3>1, <5>1, <5>3 DEF InsertPipeline
      <4> QED  BY <1>0, <2>0, <4>1, LifecycleAssumption DEF InMap, InternalId, TypeOK
    <3>2. CASE pc'[s] = "insert" /\ mine'[s] = mine[s]
      BY <2>0, <2>3, <3>2 DEF Held
    <3> QED  BY <2>0, <2>3, <3>1, <3>2, CallbackMoves DEF Held, Moved
  <2>4. CASE Held(i, "cleandir") /\ i \notin watchers
    <3> DEFINE s == starts[i].by
    <3>1. i \notin watchers'
      BY <2>0, <2>4, DirectoryMoves, SpawnMakes
    <3>2. CASE CleanDirectory(s)
      <4>1. \/ dir' = [dir EXCEPT ![starts[i].name] = NoInstance]
            \/ i \in unswept'
        BY <2>4, <3>2 DEF CleanDirectory, Held
      <4> QED  BY <1>0, <2>0, <3>1, <4>1 DEF Gone, TypeOK
    <3>3. CASE pc'[s] = "cleandir" /\ mine'[s] = mine[s]
      BY <2>0, <2>4, <3>1, <3>3 DEF Held
    <3> QED  BY <2>0, <2>4, <3>2, <3>3, CallbackMoves DEF Held, Moved
  <2>5. CASE Gone(i)
    BY <2>5, GoneStays
  <2> QED  BY <2>1, <2>2, <2>3, <2>4, <2>5 DEF Accounted
<1>3. ASSUME NEW i \in Started', i \notin Started PROVE There(i)'
  <2>1. PICK s \in Sessions : /\ Spawn(s) /\ starts' # starts
                              /\ i = Len(starts) + 1 /\ starts'[i].by = s
    BY <1>3, NewStart
  <2> QED  BY <2>1, SpawnMakes DEF Held
<1> QED  BY <1>1, <1>2, <1>3 DEF Accounted

\* What was stopped to its end stays gone.
LEMMA StoppedStep ==
    ASSUME DistinctStreams, TypeInv, OwnInv, CleanInv, [Next]_vars
    PROVE  StoppedAreGone'
<1>0. TypeOK /\ NamesAreFresh /\ EntriesAreOwn /\ Accounted /\ StoppedAreGone
  BY DEF TypeInv, OwnInv, CleanInv
<1> DEFINE Past(i) == i \in lost \/ Gone(i)
<1>1. ASSUME NEW i \in Started, Past(i) PROVE Past(i)'
  BY <1>1, GoneStays, MapMoves
<1>2. ended' \subseteq Started' /\ \A i \in ended' : Past(i)'
  <2>1. CASE ended' = ended
    BY <1>0, <1>1, <2>1, StartsStay DEF StoppedAreGone
  <2>2. ASSUME NEW s \in Sessions, MarkCompleted(s)
        PROVE  ended' \subseteq Started' /\ \A i \in ended' : Past(i)'
    <3>1. /\ pc[s] = "complete"
          /\ ended' = ended \cup {i \in Started : starts[i] = [by |-> s, name |-> name[s]]}
      BY <2>2 DEF MarkCompleted, Started
    <3>2. ended' \subseteq Started /\ \A i \in ended' : Past(i)
      BY <1>0, <3>1 DEF StoppedAreGone
    <3> QED  BY <1>1, <3>2, StartsStay
  <2> QED  BY <2>1, <2>2, DirectoryMoves
<1>3. ASSUME NEW s \in Sessions, pc'[s] \in {"vod", "complete"},
             NEW i \in Started', starts'[i] = [by |-> s, name |-> name'[s]]
      PROVE  Past(i)'
  <2>1. i \in Started /\ starts[i] = [by |-> s, name |-> name'[s]]
    <3>1. CASE i \notin Started
      <4>1. PICK t \in Sessions : Spawn(t) /\ starts'[i].by = t
        BY <3>1, NewStart
      <4>2. pc'[t] \notin {"vod", "complete"}
        BY <1>0, <4>1 DEF Spawn, Goto, TypeOK
      <4> QED  BY <1>3, <4>1, <4>2
    <3>2. CASE i \in Started
      BY <1>3, <3>2, StartsStay
    <3> QED  BY <3>1, <3>2
  <2>2. starts[i].by = s /\ starts[i].name = name'[s] /\ i # NoInstance
    <3>1. i # NoInstance
      BY <2>1 DEF Started, NoInstance
    <3> QED  BY <2>1, <3>1
  <2>3. CASE pc[s] \in {"vod", "complete"} /\ name'[s] = name[s]
    BY <1>0, <1>1, <2>1, <2>3 DEF StoppedAreGone
  <2>4. CASE StopPipeline(s)
    <3>1. /\ name'[s] = name[s] /\ pc[s] = "stop" /\ name[s] \in Names
          /\ pipelines[InternalId(s)] = NoInstance
      BY <1>0, <1>3, <2>4 DEF StopPipeline, Goto, TypeOK, TypeInv, NameIsSet, Nameless
    <3>2. ~ InMap(i) /\ ~ Held(i, "insert") /\ ~ Held(i, "cleandir")
      BY <2>2, <3>1 DEF InMap, Held, InternalId
    <3>3. Past(i)
      BY <1>0, <2>1, <3>2 DEF Accounted
    <3> QED  BY <1>1, <2>1, <3>3
  <2>5. CASE CleanDirectory(s)
    <3>1. /\ name'[s] = name[s] /\ pc[s] = "cleandir" /\ watchers' = watchers /\ lost' = lost
          /\ \/ dir' = [dir EXCEPT ![starts[mine[s]].name] = NoInstance]
             \/ mine[s] \in unswept'
      BY <2>5 DEF CleanDirectory
    <3>2. /\ mine[s] \in Started /\ starts[mine[s]] = [by |-> s, name |-> name[s]]
          /\ pipelines[IdOf[name[s]]] = NoInstance
      BY <1>0, <3>1 DEF EntriesAreOwn, InternalId
    <3>3. i = mine[s]
      BY <1>0, <2>1, <2>2, <3>1, <3>2 DEF NamesAreFresh
    <3>4. i \in lost \/ i \notin watchers
      BY <1>0, <2>1, <2>2, <3>1, <3>2 DEF Accounted, InMap, Held, Gone
    <3>5. dir'[starts[i].name] = i => i \in unswept'
      <4>1. starts[i].name \in Names
        BY <2>1, StartsStay
      <4> QED  BY <1>0, <2>2, <3>1, <3>3, <4>1 DEF TypeOK
    <3> QED  BY <2>1, <3>1, <3>4, <3>5, StartsStay DEF Gone
  <2> QED  BY <1>3, <2>3, <2>4, <2>5, CallbackMoves DEF Moved
<1> QED  BY <1>2, <1>3 DEF StoppedAreGone

LEMMA CleanInit == Init => CleanInv
<1> SUFFICES ASSUME Init PROVE CleanInv
  OBVIOUS
<1>1. Started = {}
  BY DEF Init, Started
<1> QED  BY <1>1 DEF Init, CleanInv, DirectoriesAreOwn, Accounted, StoppedAreGone

LEMMA CleanInductive == ASSUME DistinctStreams PROVE Spec => [](TypeInv /\ OwnInv /\ CleanInv)
<1>1. TypeInv /\ OwnInv /\ CleanInv /\ [Next]_vars => CleanInv'
  BY DirectoriesStep, AccountedStep, StoppedStep DEF CleanInv
<1> QED  BY <1>1, CleanInit, OwnInductive, PTL DEF Spec

\* A pipeline in the map keeps its output directory, although starts remove and
\* create directories outside of the map's lock.
THEOREM DirectoriesStayApart == ASSUME DistinctStreams PROVE Spec => []DirectoryIsOwn
<1>1. TypeInv /\ OwnInv /\ CleanInv => DirectoryIsOwn
  BY DEF OwnInv, EntriesAreOwn, CleanInv, DirectoriesAreOwn, InMap, DirectoryIsOwn
<1> QED  BY <1>1, CleanInductive, PTL

\* The causes of a leaked watcher are complete: nothing else makes stop_pipeline
\* miss one.
THEOREM WatcherLeaksAreKnown == ASSUME DistinctStreams PROVE Spec => []WatcherLeakHasCause
<1>1. TypeInv /\ OwnInv /\ CleanInv => WatcherLeakHasCause
  <2> SUFFICES ASSUME TypeInv, Accounted, NEW i \in watchers
               PROVE  \/ Reclaimable(i)
                      \/ i \in lost
                      \/ pc[starts[i].by] \in {"closed", "dead"}
                      \/ name[starts[i].by] # starts[i].name
    BY DEF CleanInv, WatcherLeakHasCause
  <2> QED  BY DEF Accounted, InMap, Held, Gone, Reclaimable, InternalId
<1> QED  BY <1>1, CleanInductive, PTL

-----------------------------------------------------------------------------
(* Records, and who can feed an ffmpeg.                                     *)

\* What nobody holds stays so: numbers of instances are not used again.
LEMMA OutStays ==
    ASSUME DistinctStreams, TypeInv, OwnInv, [Next]_vars, NEW i \in Started, Out(i)
    PROVE  Out(i)'
<1>0. /\ TypeOK /\ NamesAreFresh /\ EntriesAreOwn /\ i # NoInstance /\ i # Len(starts) + 1
      /\ starts'[i] = starts[i] /\ starts[i].by \in Sessions
  BY StartsStay DEF TypeInv, OwnInv, TypeOK, Started, NoInstance
<1> DEFINE s == starts[i].by
<1>1. ~ InMap(i)'
  BY InMapMoves DEF Out
<1>2. ~ (pc'[s] = "insert" /\ mine'[s] = i)
  <2>1. Spawn(s) => mine'[s] = Len(starts) + 1 \/ pc'[s] # "insert"
    BY <1>0, SpawnMakes
  <2> QED  BY <1>0, <2>1, CallbackMoves DEF Moved, Out, Held
<1>3. ~ (pc'[s] = "cleandir" /\ mine'[s] = i)
  <2>1. ASSUME StopPipeline(s), mine'[s] = i PROVE FALSE
    <3>1. pipelines[InternalId(s)] = i /\ name[s] \in Names
      BY <1>0, <2>1 DEF StopPipeline, TypeOK, TypeInv, NameIsSet, Nameless
    <3>2. starts[i] = [by |-> s, name |-> name[s]]
      BY <1>0, <3>1, OwnEntry
    <3>3. starts[i].name = name[s]
      BY <3>2
    <3> QED  BY <3>1, <3>3 DEF Out, InMap, InternalId
  <2> QED  BY <1>0, <2>1, CallbackMoves DEF Moved, Out, Held
<1> QED  BY <1>0, <1>1, <1>2, <1>3 DEF Out, Held

\* Nobody holds the stdin of an instance that is out.
LEMMA OutIsClosed ==
    ASSUME EntriesAreOwn, NEW i \in Started, Out(i)
    PROVE  ~ StdinOpen(i)
<1>0. i # NoInstance
  BY DEF Started, NoInstance
<1>1. ASSUME NEW id \in Ids, pipelines[id] = i PROVE FALSE
  BY <1>0, <1>1 DEF EntriesAreOwn, Out, InMap
<1>2. ASSUME NEW s \in Sessions, pc[s] \in {"insert", "cleandir"}, mine[s] = i PROVE FALSE
  <2>1. starts[i] = [by |-> s, name |-> name[s]]
    BY <1>2 DEF EntriesAreOwn
  <2>2. starts[i].by = s
    BY <2>1
  <2> QED  BY <1>2, <2>2 DEF Out, Held
<1> QED  BY <1>1, <1>2 DEF StdinOpen

\* A stop leaves its instance out of everybody's hands.
LEMMA StoppedOutStep ==
    ASSUME DistinctStreams, TypeInv, OwnInv, StoppedAreOut, [Next]_vars
    PROVE  StoppedAreOut'
<1>0. TypeOK /\ NamesAreFresh /\ EntriesAreOwn
  BY DEF TypeInv, OwnInv
<1>1. ended' \subseteq Started' /\ \A i \in ended' : Out(i)'
  <2>1. CASE ended' = ended
    BY <2>1, OutStays, StartsStay DEF StoppedAreOut
  <2>2. ASSUME NEW s \in Sessions, MarkCompleted(s)
        PROVE  ended' \subseteq Started' /\ \A i \in ended' : Out(i)'
    <3>1. /\ pc[s] = "complete"
          /\ ended' = ended \cup {i \in Started : starts[i] = [by |-> s, name |-> name[s]]}
      BY <2>2 DEF MarkCompleted, Started
    <3>2. ended' \subseteq Started /\ \A i \in ended' : Out(i)
      BY <3>1 DEF StoppedAreOut
    <3> QED  BY <3>2, OutStays, StartsStay
  <2> QED  BY <2>1, <2>2, DirectoryMoves
<1>2. ASSUME NEW s \in Sessions, pc'[s] \in {"vod", "complete"},
             NEW i \in Started', starts'[i].name = name'[s]
      PROVE  Out(i)'
  <2>1. i \in Started /\ starts[i].name = name'[s]
    <3>1. CASE i \notin Started
      <4>1. PICK t \in Sessions : Spawn(t) /\ starts'[i].by = t /\ starts'[i].name = name[t]
        BY <3>1, NewStart
      <4>2. pc'[t] \notin {"vod", "complete"} /\ name' = name /\ name[t] \in Names
        BY <1>0, <4>1 DEF Spawn, Goto, TypeOK, TypeInv, NameIsSet, Nameless
      <4>3. t = s
        BY <1>0, <1>2, <4>1, <4>2, LifecycleAssumption DEF NamesAreFresh
      <4> QED  BY <1>2, <4>2, <4>3
    <3>2. CASE i \in Started
      BY <1>2, <3>2, StartsStay
    <3> QED  BY <3>1, <3>2
  <2>2. i # NoInstance /\ starts'[i] = starts[i]
    BY <2>1, StartsStay DEF Started, NoInstance
  <2>3. CASE pc[s] \in {"vod", "complete"} /\ name'[s] = name[s]
    BY <2>1, <2>3, OutStays DEF StoppedAreOut
  <2>4. CASE StopPipeline(s)
    <3>1. /\ name'[s] = name[s] /\ pc[s] = "stop"
          /\ pipelines[InternalId(s)] = NoInstance
      BY <1>0, <1>2, <2>4 DEF StopPipeline, Goto, TypeOK
    <3>2. starts[i].by = s
      BY <1>0, <2>1, <3>1 DEF NamesAreFresh
    <3>3. Out(i)
      BY <2>1, <2>2, <3>1, <3>2 DEF Out, InMap, Held, InternalId
    <3> QED  BY <2>1, <3>3, OutStays
  <2>5. CASE CleanDirectory(s)
    <3>1. name'[s] = name[s] /\ pc[s] = "cleandir" /\ pipelines' = pipelines
      BY <2>5 DEF CleanDirectory
    <3>2. starts[i].by = s /\ pipelines[IdOf[name[s]]] = NoInstance
      BY <1>0, <2>1, <3>1 DEF NamesAreFresh, EntriesAreOwn, InternalId
    <3> QED  BY <1>2, <2>1, <2>2, <3>1, <3>2 DEF Out, InMap, Held
  <2> QED  BY <1>2, <2>3, <2>4, <2>5, CallbackMoves DEF Moved
<1> QED  BY <1>1, <1>2 DEF StoppedAreOut

\* Who changes the records.
LEMMA RecordMoves ==
    ASSUME [Next]_vars
    PROVE  /\ \/ live' = live /\ completed' = completed
              \/ \E s \in Sessions : RecordMetadata(s) \/ MarkCompleted(s)
           /\ used \subseteq used'
<1>1. ASSUME NEW s \in Sessions, LockStep(s) \/ WriteReturns(s) \/ WriteFails(s) \/ Quiet(s)
      PROVE  live' = live /\ completed' = completed /\ used' = used
  BY <1>1 DEF LockStep, InsertPipeline, SendData, WriteReturns, WriteFails, StopPipeline,
              Quiet, Publish, OnData, Unpublish, Close, CallStopApi, GenerateVod, world
<1>2. ASSUME NEW s \in Sessions, RecordMetadata(s) \/ MarkCompleted(s)
      PROVE  used' = used
  BY <1>2 DEF RecordMetadata, MarkCompleted
<1>3. ASSUME NEW s \in Sessions,
             ClearDirectory(s) \/ CleanDirectory(s) \/ Authenticate(s) \/ Spawn(s)
      PROVE  live' = live /\ completed' = completed /\ used \subseteq used'
  BY <1>3 DEF ClearDirectory, CleanDirectory, Authenticate, Spawn, world
<1>4. CASE (\E i \in Instances : FfmpegExits(i)) \/ UNCHANGED vars
  BY <1>4 DEF FfmpegExits, vars, world, session
<1> QED  BY <1>1, <1>2, <1>3, <1>4, StepsAre DEF Later

\* A completed stream stays one that nobody can feed, if no stream becomes completed.
LEMMA CompletedStay ==
    ASSUME DistinctStreams, TypeInv, OwnInv, OverInv, [Next]_vars, completed' = completed
    PROVE  \A i \in Started' : starts'[i].name \in completed' => Out(i)'
<1> SUFFICES ASSUME NEW i \in Started', starts'[i].name \in completed PROVE Out(i)'
  OBVIOUS
<1>1. CASE i \in Started
  <2>1. Out(i)
    BY <1>1, StartsStay DEF OverInv, CompletedAreOut
  <2> QED  BY <1>1, <2>1, OutStays
<1>2. CASE i \notin Started
  <2>1. PICK s \in Sessions : Spawn(s) /\ starts'[i].name = name[s]
    BY <1>2, NewStart
  <2>2. pc[s] = "spawn"
    BY <2>1 DEF Spawn
  <2> QED  BY <2>1, <2>2 DEF OverInv, RecordedOnce
<1> QED  BY <1>1, <1>2

\* Which streams can still become completed.
LEMMA RecordedStep ==
    ASSUME DistinctStreams, TypeInv, OwnInv, OverInv, [Next]_vars
    PROVE  RecordedOnce' /\ CompletedAreOut'
<1>0. TypeOK /\ NamesAreFresh /\ RecordedOnce /\ CompletedAreOut /\ StoppedAreOut
  BY DEF TypeInv, OwnInv, OverInv
<1>1. ASSUME NEW s \in Sessions, MarkCompleted(s) PROVE RecordedOnce' /\ CompletedAreOut'
  <2>1. /\ pc[s] = "complete" /\ name[s] \in Names /\ name[s] # None
        /\ live' = live \ {name[s]} /\ completed' \subseteq completed \cup {name[s]}
        /\ UNCHANGED <<name, used, starts>>
        /\ \A t \in Sessions : pc'[t] = pc[t] \/ pc'[t] = "idle"
    BY <1>0, <1>1, LifecycleAssumption
    DEF MarkCompleted, Goto, TypeOK, TypeInv, NameIsSet, Nameless
  <2>2. \A t \in Sessions : pc[t] \in {"cleardir", "spawn", "insert", "metadata"}
            => name[t] # name[s]
    BY <1>0, <2>1 DEF NamesAreFresh
  <2>3. RecordedOnce'
    BY <1>0, <2>1, <2>2 DEF RecordedOnce, NamesAreFresh
  <2>4. \A i \in Started : starts[i].name \in completed' => Out(i)
    BY <1>0, <2>1 DEF StoppedAreOut, CompletedAreOut
  <2>5. CompletedAreOut'
    BY <1>0, <2>1, <2>4, OutStays DEF CompletedAreOut, Started
  <2> QED  BY <2>3, <2>5
<1>2. ASSUME NEW s \in Sessions, RecordMetadata(s) PROVE RecordedOnce' /\ CompletedAreOut'
  <2>1. /\ pc[s] = "metadata" /\ live' = live \cup {name[s]}
        /\ UNCHANGED <<name, used, completed>>
        /\ \A t \in Sessions : pc'[t] = pc[t] \/ pc'[t] = "send"
    BY <1>0, <1>2 DEF RecordMetadata, Goto, TypeOK
  <2> QED  BY <1>0, <2>1, CompletedStay DEF RecordedOnce, CompletedAreOut
<1>3. ASSUME live' = live, completed' = completed PROVE RecordedOnce' /\ CompletedAreOut'
  <2>1. completed' \subseteq used'
    BY <1>0, <1>3, RecordMoves DEF RecordedOnce
  <2>2. ASSUME NEW t \in Sessions, pc'[t] \in {"cleardir", "spawn", "insert", "metadata"}
        PROVE  name'[t] \notin completed
    <3>1. ASSUME NEW s \in Sessions, Authenticate(s) PROVE name'[t] \notin completed
      <4>1. CASE t = s
        <5>1. PICK n \in Names : used = {m \in Names : m < n} /\ name'[t] = n
          BY <1>0, <2>2, <3>1, <4>1 DEF Authenticate, Goto, TypeOK, DistinctStreams
        <5>2. n \notin used
          BY <5>1, LifecycleAssumption
        <5> QED  BY <1>0, <5>1, <5>2 DEF RecordedOnce
      <4>2. CASE t # s
        BY <1>0, <2>2, <3>1, <4>2 DEF Authenticate, Goto, TypeOK, RecordedOnce
      <4> QED  BY <4>1, <4>2
    <3>2. ASSUME name' = name, pc[t] \in {"cleardir", "spawn", "insert", "metadata"}
          PROVE  name'[t] \notin completed
      BY <1>0, <3>2 DEF RecordedOnce
    <3>3. ASSUME NEW s \in Sessions, Spawn(s) PROVE name'[t] \notin completed
      BY <1>0, <2>2, <3>2, <3>3 DEF Spawn, Goto, TypeOK
    <3>4. ASSUME NEW s \in Sessions, Quiet(s) PROVE name'[t] \notin completed
      BY <1>0, <2>2, <3>2, <3>4
      DEF Quiet, Publish, OnData, Unpublish, Close, CallStopApi, GenerateVod, Goto, TypeOK
    <3>5. ASSUME NEW s \in Sessions, LockStep(s) \/ WriteReturns(s) \/ WriteFails(s)
          PROVE  name'[t] \notin completed
      BY <1>0, <2>2, <3>2, <3>5
      DEF LockStep, InsertPipeline, SendData, StopPipeline, WriteReturns, WriteFails, Goto, TypeOK
    <3>6. ASSUME NEW s \in Sessions, ClearDirectory(s) \/ RecordMetadata(s) \/ CleanDirectory(s)
                     \/ MarkCompleted(s)
          PROVE  name'[t] \notin completed
      BY <1>0, <2>2, <3>2, <3>6
      DEF ClearDirectory, RecordMetadata, CleanDirectory, MarkCompleted, Goto, TypeOK
    <3>7. CASE (\E i \in Instances : FfmpegExits(i)) \/ UNCHANGED vars
      BY <2>2, <3>2, <3>7 DEF FfmpegExits, vars, session
    <3>8. ASSUME NEW s \in Sessions, Later(s) PROVE name'[t] \notin completed
      BY <3>4, <3>5, <3>6, <3>8 DEF Later
    <3> QED  BY <3>1, <3>3, <3>7, <3>8, StepsAre
  <2> QED  BY <1>0, <1>3, <2>1, <2>2, CompletedStay DEF RecordedOnce, CompletedAreOut
<1> QED  BY <1>1, <1>2, <1>3, RecordMoves

LEMMA OverInit == Init => OverInv
BY DEF Init, OverInv, StoppedAreOut, RecordedOnce, CompletedAreOut, Started

LEMMA OverInductive == ASSUME DistinctStreams PROVE Spec => [](TypeInv /\ OwnInv /\ OverInv)
<1>1. TypeInv /\ OwnInv /\ OverInv /\ [Next]_vars => OverInv'
  BY StoppedOutStep, RecordedStep DEF OverInv
<1> QED  BY <1>1, OverInit, OwnInductive, PTL DEF Spec

\* What a connection has stopped to the end leaves no watcher and an ffmpeg whose
\* input is closed, unless its entry was lost before; a directory it leaves only if
\* remove_dir_all failed.
THEOREM StopsCleanUp == ASSUME DistinctStreams PROVE Spec => []StopCleansUp
<1>1. TypeInv /\ OwnInv /\ CleanInv /\ OverInv => StopCleansUp
  <2> SUFFICES ASSUME EntriesAreOwn, StoppedAreGone, StoppedAreOut, NEW i \in ended \ lost
               PROVE  /\ i \notin watchers
                      /\ ~StdinOpen(i)
                      /\ dir[starts[i].name] = i => i \in unswept
    BY DEF OwnInv, CleanInv, OverInv, StopCleansUp
  <2> QED  BY OutIsClosed DEF StoppedAreGone, StoppedAreOut, Gone
<1> QED  BY <1>1, CleanInductive, OverInductive, PTL

\* A stream that is recorded as completed is not live, and nobody can feed an ffmpeg
\* of it any more, whichever way its connection came there.
THEOREM RecordsAreTrue == ASSUME DistinctStreams PROVE Spec => []RecordsInv
<1>1. TypeInv /\ OwnInv /\ OverInv => RecordsInv
  BY OutIsClosed DEF TypeInv, OwnInv, OverInv, CompletedAreOut, CompletedIsOver, RecordsInv, Started
<1> QED  BY <1>1, OverInductive, PTL
=============================================================================

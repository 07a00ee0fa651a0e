------------------------ MODULE MemoryUploaderProofs ------------------------
(***************************************************************************)
(* Theorems about MemoryUploader for every set of segments, keys and       *)
(* priorities, any number of permits and any max_retries.                  *)
(***************************************************************************)
EXTENDS MemoryUploader, FiniteSetTheorems, SequenceTheorems, TLAPS

-----------------------------------------------------------------------------
(* The inductive invariant.                                                 *)

\* Each segment that came has its place in the order of arrival, and only one.
ArrivedOnce ==
    /\ \A a \in 1..Len(arrived) : stage[arrived[a]] # "idle"
    /\ \A j \in Jobs : stage[j] # "idle" => \E a \in 1..Len(arrived) : arrived[a] = j
    /\ \A a, b \in 1..Len(arrived) : arrived[a] = arrived[b] => a = b

\* An upload under way is recorded, or hidden by a verdict of the same key.
UploadsAreRecorded ==
    \A j \in Busy : \/ stage[j] = "taken"
                    \/ uploads[KeyOf[j]] = "Uploading"
                    \/ \E i \in Jobs : KeyOf[i] = KeyOf[j] /\ stage[i] \in Settled

AnsweredHasLanded == \A j \in Jobs : stage[j] \in {"put", "stored"} => j \in landed

\* Attempts are counted from the first one on.
NotTried == \A j \in Jobs : stage[j] \in {"idle", "queued", "taken"} => retry_count[j] = 0

PermitInv == IsFiniteSet(Busy) /\ PermitAccounting
OrderInv == ArrivedOnce /\ QueueInOrder
EntryInv == UploadingHasOwner /\ UploadsAreRecorded /\ AnsweredHasLanded /\ NotTried
MemoryInv == TypeOK /\ PermitInv /\ OrderInv /\ EntryInv

-----------------------------------------------------------------------------
(* The queue.                                                               *)

\* A set of positions has a first one.
LEMMA FirstOf ==
    ASSUME NEW I \in SUBSET Nat, I # {}
    PROVE  Min(I) \in I /\ \A i \in I : Min(I) <= i
<1>1. PICK x \in I : \A y \in I : ~ (<<y, x>> \in OpToRel(<, Nat))
  BY NatLessThanWellFounded, WFMin
<1>2. \A y \in I : x <= y
  <2> SUFFICES ASSUME NEW y \in I, y < x PROVE FALSE
    OBVIOUS
  <2>1. <<y, x>> \in Nat \X Nat /\ <<y, x>>[1] < <<y, x>>[2]
    OBVIOUS
  <2>2. <<y, x>> \in OpToRel(<, Nat)
    BY <2>1 DEF OpToRel
  <2> QED  BY <1>1, <2>2
<1> QED  BY <1>2 DEF Min

\* Where InsertByPriority puts a segment: behind those that are not of a lower
\* priority, up to the first that is.
LEMMA InsertionPoint ==
    ASSUME NEW q \in Seq(Jobs), NEW j \in Jobs
    PROVE  \E l \in 1..(Len(q) + 1) :
              /\ InsertByPriority(q, j) \in Seq(Jobs)
              /\ Len(InsertByPriority(q, j)) = Len(q) + 1
              /\ \A i \in 1..(Len(q) + 1) :
                    InsertByPriority(q, j)[i] = IF i < l THEN q[i]
                                                ELSE IF i = l THEN j ELSE q[i - 1]
              /\ \A i \in 1..(l - 1) : Priority[q[i]] >= Priority[j]
              /\ l <= Len(q) => Priority[q[l]] < Priority[j]
<1> DEFINE I == {i \in 1..Len(q) : Priority[q[i]] < Priority[j]}
<1>0. /\ Len(q) \in Nat /\ \A i \in 1..Len(q) : q[i] \in Jobs
      /\ Priority[j] \in Nat /\ \A i \in 1..Len(q) : Priority[q[i]] \in Nat
  BY MemoryAssumption
<1>1. CASE I = {}
  <2>1. InsertByPriority(q, j) = Append(q, j)
    BY <1>1 DEF InsertByPriority, SelectInSeq
  <2>2. /\ Append(q, j) \in Seq(Jobs) /\ Len(Append(q, j)) = Len(q) + 1
        /\ \A i \in 1..(Len(q) + 1) : Append(q, j)[i] = IF i < Len(q) + 1 THEN q[i] ELSE j
    BY <1>0
  <2>3. \A i \in 1..Len(q) : Priority[q[i]] >= Priority[j]
    BY <1>0, <1>1
  <2> WITNESS Len(q) + 1 \in 1..(Len(q) + 1)
  <2> QED  BY <1>0, <2>1, <2>2, <2>3
<1>2. CASE I # {}
  <2> DEFINE l == Min(I)
  <2>1. l \in I /\ \A i \in I : l <= i
    <3>1. I \in SUBSET Nat
      BY <1>0
    <3> HIDE DEF I
    <3> QED  BY <1>2, <3>1, FirstOf
  <2>2. l \in 1..Len(q) /\ Priority[q[l]] < Priority[j]
    BY <2>1
  <2>3. \A i \in 1..(l - 1) : Priority[q[i]] >= Priority[j]
    <3> SUFFICES ASSUME NEW i \in 1..(l - 1), Priority[q[i]] < Priority[j] PROVE FALSE
      BY <1>0, <2>2
    <3>1. i \in 1..Len(q) /\ i < l
      BY <1>0, <2>2
    <3>2. i \in I
      BY <3>1
    <3> HIDE DEF I, l
    <3> QED  BY <1>0, <2>1, <2>2, <3>1, <3>2
  <2>4. InsertByPriority(q, j) = SubSeq(q, 1, l - 1) \o <<j>> \o SubSeq(q, l, Len(q))
    <3>1. SelectInSeq(q, LAMBDA s : Priority[s] < Priority[j]) = l
      BY <1>2 DEF SelectInSeq
    <3>2. l # 0
      BY <1>0, <2>2
    <3> HIDE DEF l
    <3> QED  BY <3>1, <3>2 DEF InsertByPriority, InsertAt
  <2> HIDE DEF l
  <2> DEFINE front == SubSeq(q, 1, l - 1)
             back == SubSeq(q, l, Len(q))
  <2>5. /\ front \in Seq(Jobs) /\ Len(front) = l - 1
        /\ \A i \in 1..(l - 1) : front[i] = q[i]
    BY <1>0, <2>2, SubSeqProperties
  <2>6. /\ back \in Seq(Jobs) /\ Len(back) = Len(q) - l + 1
        /\ \A i \in 1..(Len(q) - l + 1) : back[i] = q[l + i - 1]
    BY <1>0, <2>2, SubSeqProperties
  <2> HIDE DEF front, back
  <2> DEFINE left == front \o <<j>>
  <2>7. /\ left \in Seq(Jobs) /\ Len(left) = l
        /\ \A i \in 1..l : left[i] = IF i < l THEN q[i] ELSE j
    <3>1. <<j>> \in Seq(Jobs) /\ Len(<<j>>) = 1 /\ <<j>>[1] = j
      OBVIOUS
    <3>2. /\ left \in Seq(Jobs) /\ Len(left) = l - 1 + 1
          /\ \A i \in 1..(l - 1 + 1) : left[i] = IF i <= l - 1 THEN front[i] ELSE <<j>>[i - (l - 1)]
      BY <2>5, <3>1, ConcatProperties
    <3> HIDE DEF left
    <3> QED  BY <1>0, <2>2, <2>5, <3>1, <3>2
  <2> HIDE DEF left
  <2> DEFINE whole == left \o back
  <2>8. /\ whole \in Seq(Jobs)
        /\ Len(whole) = Len(q) + 1
        /\ \A i \in 1..(Len(q) + 1) : whole[i] = IF i <= l THEN left[i] ELSE back[i - l]
    <3>1. Len(left) + Len(back) = Len(q) + 1
      BY <1>0, <2>2, <2>6, <2>7
    <3>2. /\ whole \in Seq(Jobs) /\ Len(whole) = Len(left) + Len(back)
          /\ \A i \in 1..(Len(left) + Len(back)) :
                whole[i] = IF i <= Len(left) THEN left[i] ELSE back[i - Len(left)]
      BY <2>6, <2>7, ConcatProperties
    <3> HIDE DEF whole
    <3> QED  BY <2>7, <3>1, <3>2
  <2>9. InsertByPriority(q, j) = whole
    BY <2>4 DEF left, front, back
  <2> HIDE DEF whole
  <2>10. \A i \in 1..(Len(q) + 1) : whole[i]
            = IF i < l THEN q[i] ELSE IF i = l THEN j ELSE q[i - 1]
    <3> SUFFICES ASSUME NEW i \in 1..(Len(q) + 1)
                 PROVE  whole[i] = IF i < l THEN q[i] ELSE IF i = l THEN j ELSE q[i - 1]
      OBVIOUS
    <3>1. CASE i <= l
      BY <1>0, <2>2, <2>7, <2>8, <3>1
    <3>2. CASE i > l
      <4>1. i - l \in 1..(Len(q) - l + 1) /\ l + (i - l) - 1 = i - 1
        BY <1>0, <2>2, <3>2
      <4>2. whole[i] = back[i - l] /\ back[i - l] = q[i - 1]
        BY <1>0, <2>2, <2>6, <2>8, <3>2, <4>1
      <4> QED  BY <1>0, <2>2, <3>2, <4>2
    <3> QED  BY <1>0, <2>2, <3>1, <3>2
  <2> l \in 1..(Len(q) + 1)
    BY <1>0, <2>2
  <2> WITNESS l \in 1..(Len(q) + 1)
  <2> QED  BY <2>2, <2>3, <2>8, <2>9, <2>10
<1> QED  BY <1>1, <1>2

\* The order of the queue without the local definitions of QueueInOrder.
Before(s, j, k) == \E a, b \in 1..Len(s) : s[a] = j /\ s[b] = k /\ a < b
Ordered(s, j, k) == Priority[j] > Priority[k] \/ (Priority[j] = Priority[k] /\ Before(s, j, k))

LEMMA QueueInOrderIs ==
    QueueInOrder
       <=> /\ ToSet(upload_queue) = {j \in Jobs : stage[j] = "queued"}
           /\ \A a, b \in 1..Len(upload_queue) :
                 a < b => Ordered(arrived, upload_queue[a], upload_queue[b])
BY DEF QueueInOrder, Ordered, Before

\* A segment is in the queue once.
LEMMA QueuedOnce ==
    ASSUME TypeOK, OrderInv
    PROVE  \A a, b \in 1..Len(upload_queue) : a < b => upload_queue[a] # upload_queue[b]
<1> SUFFICES ASSUME NEW a \in 1..Len(upload_queue), NEW b \in 1..Len(upload_queue), a < b,
                    upload_queue[a] = upload_queue[b]
             PROVE  FALSE
  OBVIOUS
<1> DEFINE j == upload_queue[a]
<1>1. Ordered(arrived, j, j) /\ j \in Jobs
  BY QueueInOrderIs DEF OrderInv, TypeOK
<1>2. Priority[j] \in Nat
  BY <1>1, MemoryAssumption
<1>3. Before(arrived, j, j)
  BY <1>1, <1>2 DEF Ordered
<1>4. PICK c, d \in 1..Len(arrived) : arrived[c] = j /\ arrived[d] = j /\ c < d
  BY <1>3 DEF Before
<1>5. c = d
  BY <1>4 DEF OrderInv, ArrivedOnce
<1> QED  BY <1>4, <1>5

\* queue_segment keeps the order.
LEMMA InsertOrder ==
    ASSUME TypeOK, OrderInv, NEW j \in Jobs, Insert(j)
    PROVE  OrderInv'
<1> DEFINE q == upload_queue
           n == Len(arrived)
<1>0. /\ q \in Seq(Jobs) /\ arrived \in Seq(Jobs) /\ n \in Nat /\ Len(q) \in Nat
      /\ stage[j] = "idle" /\ stage' = [stage EXCEPT ![j] = "queued"]
      /\ arrived' = Append(arrived, j) /\ upload_queue' = InsertByPriority(q, j)
      /\ \A i \in Jobs : stage'[i] = IF i = j THEN "queued" ELSE stage[i]
  BY DEF TypeOK, Insert, Goto
<1>1. /\ Len(arrived') = n + 1 /\ arrived'[n + 1] = j
      /\ \A a \in 1..n : arrived'[a] = arrived[a] /\ arrived[a] \in Jobs
  BY <1>0
<1>2. \A a \in 1..n : arrived[a] # j
  BY <1>0 DEF OrderInv, ArrivedOnce
<1>3. ArrivedOnce'
  <2>1. \A a \in 1..Len(arrived') : stage'[arrived'[a]] # "idle"
    BY <1>0, <1>1 DEF OrderInv, ArrivedOnce
  <2>2. ASSUME NEW i \in Jobs, stage'[i] # "idle"
        PROVE  \E a \in 1..Len(arrived') : arrived'[a] = i
    <3>1. CASE i = j
      BY <1>0, <1>1, <3>1
    <3>2. CASE i # j
      <4>1. PICK a \in 1..n : arrived[a] = i
        BY <1>0, <2>2, <3>2 DEF OrderInv, ArrivedOnce
      <4> QED  BY <1>0, <1>1, <4>1
    <3> QED  BY <3>1, <3>2
  <2>3. \A a, b \in 1..Len(arrived') : arrived'[a] = arrived'[b] => a = b
    BY <1>0, <1>1, <1>2 DEF OrderInv, ArrivedOnce
  <2> QED  BY <2>1, <2>2, <2>3 DEF ArrivedOnce
<1>4. PICK l \in 1..(Len(q) + 1) :
         /\ InsertByPriority(q, j) \in Seq(Jobs)
         /\ Len(InsertByPriority(q, j)) = Len(q) + 1
         /\ \A i \in 1..(Len(q) + 1) :
               InsertByPriority(q, j)[i] = IF i < l THEN q[i]
                                           ELSE IF i = l THEN j ELSE q[i - 1]
         /\ \A i \in 1..(l - 1) : Priority[q[i]] >= Priority[j]
         /\ l <= Len(q) => Priority[q[l]] < Priority[j]
  BY <1>0, InsertionPoint
<1> DEFINE r == upload_queue'
<1>5. /\ Len(r) = Len(q) + 1
      /\ \A i \in 1..(Len(q) + 1) : r[i] = IF i < l THEN q[i] ELSE IF i = l THEN j ELSE q[i - 1]
  BY <1>0, <1>4
<1>6. /\ ToSet(q) = {i \in Jobs : stage[i] = "queued"}
      /\ \A a, b \in 1..Len(q) : a < b => Ordered(arrived, q[a], q[b])
  BY QueueInOrderIs DEF OrderInv
<1>7. ToSet(r) = {i \in Jobs : stage'[i] = "queued"}
  <2>1. DOMAIN q = 1..Len(q) /\ DOMAIN r = 1..(Len(q) + 1)
    BY <1>0, <1>4
  <2>2. ASSUME NEW x \in ToSet(r) PROVE x = j \/ x \in ToSet(q)
    <3>1. PICK i \in 1..(Len(q) + 1) : r[i] = x
      BY <2>1, <2>2 DEF ToSet
    <3>2. CASE i < l
      <4>1. i \in 1..Len(q) /\ q[i] = x
        BY <1>0, <1>5, <3>1, <3>2
      <4> QED  BY <2>1, <4>1 DEF ToSet
    <3>3. CASE i = l
      BY <1>5, <3>1, <3>3
    <3>4. CASE i > l
      <4>1. i - 1 \in 1..Len(q) /\ q[i - 1] = x
        BY <1>0, <1>5, <3>1, <3>4
      <4> QED  BY <2>1, <4>1 DEF ToSet
    <3> QED  BY <1>0, <3>2, <3>3, <3>4
  <2>3. j \in ToSet(r)
    BY <1>0, <1>5, <2>1 DEF ToSet
  <2>4. ASSUME NEW x \in ToSet(q) PROVE x \in ToSet(r)
    <3>1. PICK i \in 1..Len(q) : q[i] = x
      BY <2>1, <2>4 DEF ToSet
    <3>2. CASE i < l
      BY <1>0, <1>5, <2>1, <3>1, <3>2 DEF ToSet
    <3>3. CASE i >= l
      <4>1. i + 1 \in 1..(Len(q) + 1) /\ i + 1 > l /\ (i + 1) - 1 = i
        BY <1>0, <3>3
      <4>2. r[i + 1] = x
        BY <1>5, <3>1, <4>1
      <4> QED  BY <2>1, <4>1, <4>2 DEF ToSet
    <3> QED  BY <1>0, <3>2, <3>3
  <2> HIDE DEF q, r
  <2> QED  BY <1>0, <1>6, <2>2, <2>3, <2>4
<1>8. ASSUME NEW a \in 1..Len(r), NEW b \in 1..Len(r), a < b
      PROVE  Ordered(arrived', r[a], r[b])
  <2>1. ASSUME NEW x \in Jobs, NEW y \in Jobs, Ordered(arrived, x, y) PROVE Ordered(arrived', x, y)
    <3>1. Before(arrived, x, y) => Before(arrived', x, y)
      <4> SUFFICES ASSUME NEW c \in 1..n, NEW d \in 1..n, arrived[c] = x, arrived[d] = y, c < d
                   PROVE  Before(arrived', x, y)
        BY DEF Before
      <4>1. c \in 1..Len(arrived') /\ d \in 1..Len(arrived') /\ arrived'[c] = x /\ arrived'[d] = y
        BY <1>0, <1>1
      <4> QED  BY <4>1 DEF Before
    <3> QED  BY <2>1, <3>1 DEF Ordered
  <2>2. \A i \in 1..Len(q) : q[i] \in Jobs /\ Priority[q[i]] \in Nat
    BY <1>0, MemoryAssumption
  <2>3. \A i \in 1..Len(q) : i >= l => Priority[j] > Priority[q[i]]
    <3> SUFFICES ASSUME NEW i \in 1..Len(q), i >= l PROVE Priority[j] > Priority[q[i]]
      OBVIOUS
    <3>1. l \in 1..Len(q) /\ Priority[q[l]] < Priority[j]
      BY <1>0, <1>4
    <3>2. i = l \/ Ordered(arrived, q[l], q[i])
      BY <1>0, <1>6, <3>1
    <3> QED  BY <2>2, <3>1, <3>2, MemoryAssumption DEF Ordered
  <2>4. ASSUME NEW i \in 1..(l - 1) PROVE Ordered(arrived', q[i], j)
    <3>1. i \in 1..Len(q) /\ q[i] \in ToSet(q) /\ Priority[q[i]] >= Priority[j]
      BY <1>0, <1>4 DEF ToSet
    <3>2. q[i] \in Jobs /\ stage[q[i]] # "idle"
      BY <1>6, <3>1
    <3>3. PICK c \in 1..n : arrived[c] = q[i]
      BY <3>2 DEF OrderInv, ArrivedOnce
    <3>4. Before(arrived', q[i], j)
      <4>1. c \in 1..Len(arrived') /\ n + 1 \in 1..Len(arrived') /\ c < n + 1
            /\ arrived'[c] = q[i] /\ arrived'[n + 1] = j
        BY <1>0, <1>1, <3>3
      <4> QED  BY <4>1 DEF Before
    <3> QED  BY <2>2, <3>1, <3>4, MemoryAssumption DEF Ordered
  <2>5. CASE b < l
    <3>1. a \in 1..Len(q) /\ b \in 1..Len(q) /\ r[a] = q[a] /\ r[b] = q[b]
      BY <1>0, <1>5, <1>8, <2>5
    <3> QED  BY <1>6, <1>8, <2>1, <2>2, <3>1
  <2>6. CASE b = l
    <3>1. a \in 1..(l - 1) /\ r[a] = q[a] /\ r[b] = j
      BY <1>0, <1>5, <1>8, <2>6
    <3> QED  BY <2>4, <3>1
  <2>7. CASE b > l /\ a = l
    <3>1. r[a] = j /\ b - 1 \in 1..Len(q) /\ b - 1 >= l /\ r[b] = q[b - 1]
      BY <1>0, <1>5, <2>7
    <3>2. Priority[r[a]] > Priority[r[b]]
      BY <2>3, <3>1
    <3> QED  BY <3>2 DEF Ordered
  <2>8. CASE b > l /\ a < l
    <3>1. /\ a \in 1..Len(q) /\ b - 1 \in 1..Len(q) /\ a < b - 1
          /\ r[a] = q[a] /\ r[b] = q[b - 1]
      BY <1>0, <1>5, <1>8, <2>8
    <3> QED  BY <1>6, <2>1, <2>2, <3>1
  <2>9. CASE b > l /\ a > l
    <3>1. /\ a - 1 \in 1..Len(q) /\ b - 1 \in 1..Len(q) /\ a - 1 < b - 1
          /\ r[a] = q[a - 1] /\ r[b] = q[b - 1]
      BY <1>0, <1>5, <1>8, <2>9
    <3> QED  BY <1>6, <2>1, <2>2, <3>1
  <2> QED  BY <1>0, <1>5, <2>5, <2>6, <2>7, <2>8, <2>9
<1>9. QueueInOrder'
  BY <1>7, <1>8, QueueInOrderIs DEF Ordered, Before, QueueInOrder
<1> QED  BY <1>3, <1>9 DEF OrderInv

\* The queue without its front.
LEMMA PopOrder ==
    ASSUME TypeOK, OrderInv, upload_queue # <<>>,
           stage' = [stage EXCEPT ![Head(upload_queue)] = "taken"],
           upload_queue' = Tail(upload_queue), UNCHANGED arrived
    PROVE  /\ OrderInv'
           /\ Head(upload_queue) \in Jobs /\ stage[Head(upload_queue)] = "queued"
           /\ upload_queue' \in Seq(Jobs)
<1> DEFINE q == upload_queue
           h == Head(q)
<1>0. /\ q \in Seq(Jobs) /\ Len(q) \in Nat /\ Len(q) # 0 /\ h = q[1] /\ h \in Jobs
      /\ Tail(q) \in Seq(Jobs) /\ Len(Tail(q)) = Len(q) - 1
      /\ \A i \in 1..(Len(q) - 1) : Tail(q)[i] = q[i + 1]
  BY DEF TypeOK
<1>1. /\ ToSet(q) = {i \in Jobs : stage[i] = "queued"}
      /\ \A a, b \in 1..Len(q) : a < b => Ordered(arrived, q[a], q[b])
  BY QueueInOrderIs DEF OrderInv
<1>2. h \in ToSet(q) /\ stage[h] = "queued"
  <2>1. h \in ToSet(q)
    BY <1>0 DEF ToSet
  <2> QED  BY <1>1, <2>1
<1>3. \A i \in Jobs : stage'[i] = IF i = h THEN "taken" ELSE stage[i]
  BY <1>0 DEF TypeOK
<1>4. ArrivedOnce'
  <2>1. \A a \in 1..Len(arrived) : arrived[a] \in Jobs
    BY DEF TypeOK
  <2>2. \A i \in Jobs : stage'[i] = "idle" <=> stage[i] = "idle"
    BY <1>2, <1>3
  <2> QED  BY <2>1, <2>2 DEF OrderInv, ArrivedOnce
<1>5. ToSet(Tail(q)) = {i \in Jobs : stage'[i] = "queued"}
  <2>1. DOMAIN q = 1..Len(q) /\ DOMAIN Tail(q) = 1..(Len(q) - 1)
    BY <1>0
  <2>2. ASSUME NEW x \in ToSet(Tail(q)) PROVE x \in ToSet(q) /\ x # h
    <3>1. PICK i \in 1..(Len(q) - 1) : Tail(q)[i] = x
      BY <2>1, <2>2 DEF ToSet
    <3>2. q[i + 1] = x /\ i + 1 \in 1..Len(q) /\ 1 \in 1..Len(q) /\ 1 < i + 1
      BY <1>0, <3>1
    <3>3. q[1] # q[i + 1]
      BY <3>2, QueuedOnce
    <3> QED  BY <1>0, <2>1, <3>2, <3>3 DEF ToSet
  <2>3. ASSUME NEW x \in ToSet(q), x # h PROVE x \in ToSet(Tail(q))
    <3>1. PICK i \in 1..Len(q) : q[i] = x
      BY <2>1, <2>3 DEF ToSet
    <3>2. i - 1 \in 1..(Len(q) - 1) /\ (i - 1) + 1 = i
      BY <1>0, <2>3, <3>1
    <3>3. Tail(q)[i - 1] = x
      BY <1>0, <3>1, <3>2
    <3> QED  BY <2>1, <3>2, <3>3 DEF ToSet
  <2> HIDE DEF q, h
  <2> QED  BY <1>1, <1>3, <2>2, <2>3
<1>6. ASSUME NEW a \in 1..Len(Tail(q)), NEW b \in 1..Len(Tail(q)), a < b
      PROVE  Ordered(arrived, Tail(q)[a], Tail(q)[b])
  <2>1. /\ a + 1 \in 1..Len(q) /\ b + 1 \in 1..Len(q) /\ a + 1 < b + 1
        /\ Tail(q)[a] = q[a + 1] /\ Tail(q)[b] = q[b + 1]
    BY <1>0, <1>6
  <2> QED  BY <1>1, <2>1
<1>7. QueueInOrder'
  BY <1>5, <1>6 DEF QueueInOrder, Ordered, Before
<1> QED  BY <1>0, <1>2, <1>4, <1>7 DEF OrderInv

\* Steps that neither insert a segment nor take one.
LEMMA OrderFrame ==
    ASSUME TypeOK, OrderInv, UNCHANGED <<upload_queue, arrived>>,
           \A i \in Jobs : stage'[i] # stage[i]
               => {stage[i], stage'[i]} \cap {"idle", "queued"} = {}
    PROVE  OrderInv'
<1>1. \A i \in Jobs : /\ stage'[i] = "idle" <=> stage[i] = "idle"
                      /\ stage'[i] = "queued" <=> stage[i] = "queued"
  OBVIOUS
<1>2. \A a \in 1..Len(arrived) : arrived[a] \in Jobs
  BY DEF TypeOK
<1>3. ArrivedOnce'
  BY <1>1, <1>2 DEF OrderInv, ArrivedOnce
<1>4. {j \in Jobs : stage'[j] = "queued"} = {j \in Jobs : stage[j] = "queued"}
  BY <1>1
<1>5. QueueInOrder'
  BY <1>4 DEF OrderInv, QueueInOrder
<1> QED  BY <1>3, <1>5 DEF OrderInv

-----------------------------------------------------------------------------
(* The steps.                                                               *)

\* What a worker's step does to its segment, and to the count of workers.
LEMMA UploadMoves ==
    ASSUME TypeOK, NEW j \in Jobs, Upload(j)
    PROVE  /\ stage[j] \in Taken /\ stage'[j] # "taken"
           /\ \A i \in Jobs \ {j} : stage'[i] = stage[i]
           /\ UNCHANGED <<upload_queue, to_spawn, arrived, fresh, picking, permits, gave_up,
                          shutdown>>
           /\ \/ stage'[j] \in Taken /\ leaving' = leaving
              \/ stage'[j] \in Settled /\ leaving' = leaving + 1
<1>1. CASE MarkUploading(j) \/ Put(j) \/ PutSucceeds(j) \/ Retry(j)
  BY <1>1 DEF TypeOK, Taken, MarkUploading, Put, PutSucceeds, Retry, Goto, workers, calls
<1>2. CASE PutFails(j)
  BY <1>2 DEF TypeOK, Taken, PutFails, Goto, workers, calls
<1>3. CASE MarkCompleted(j) \/ MarkFailed(j)
  BY <1>3 DEF TypeOK, Taken, Settled, MarkCompleted, MarkFailed, Goto, calls
<1> QED  BY <1>1, <1>2, <1>3 DEF Upload

\* A worker's step keeps the types.
LEMMA UploadType ==
    ASSUME TypeOK, NotTried, NEW j \in Jobs, Upload(j)
    PROVE  TypeOK'
<1>0. /\ KeyOf[j] \in Keys /\ MaxRetries \in Nat /\ retry_count[j] \in 0..MaxRetries + 1
      /\ leaving \in Nat
  BY MemoryAssumption DEF TypeOK
<1>1. CASE MarkUploading(j)
  <2>1. retry_count[j] <= MaxRetries
    BY <1>0, <1>1 DEF MarkUploading, NotTried
  <2> QED  BY <1>0, <1>1, <2>1 DEF TypeOK, Taken, Settled, MarkUploading, Goto, calls, workers, bucket
<1>2. CASE Put(j) \/ PutSucceeds(j)
  BY <1>0, <1>2 DEF TypeOK, Taken, Settled, Put, PutSucceeds, Goto, calls, workers, bucket
<1>3. CASE PutFails(j)
  <2>1. retry_count[j] <= MaxRetries
    BY <1>3 DEF TypeOK, PutFails
  <2>2. /\ stage' \in [Jobs -> Taken \cup Settled \cup {"idle", "queued"}]
        /\ stage'[j] = "backoff" => retry_count[j] + 1 <= MaxRetries
        /\ stage'[j] \in {"backoff", "exhausted"}
        /\ \A i \in Jobs \ {j} : stage'[i] = stage[i]
    BY <1>0, <1>3 DEF TypeOK, PutFails, Goto, Taken
  <2>3. /\ retry_count' \in [Jobs -> 0..MaxRetries + 1]
        /\ retry_count'[j] = retry_count[j] + 1
        /\ \A i \in Jobs \ {j} : retry_count'[i] = retry_count[i]
    BY <1>0, <1>3, <2>1 DEF TypeOK, PutFails
  <2>4. \A i \in Jobs : stage'[i] \in {"uploading", "put", "backoff"} => retry_count'[i] <= MaxRetries
    BY <2>2, <2>3 DEF TypeOK
  <2> QED  BY <1>3, <2>2, <2>3, <2>4 DEF TypeOK, PutFails, calls, workers, bucket
<1>4. CASE Retry(j)
  BY <1>0, <1>4 DEF TypeOK, Taken, Settled, Retry, Goto, calls, workers, bucket
<1>5. CASE MarkCompleted(j) \/ MarkFailed(j)
  <2>1. PICK v \in {"Completed", "Failed"} : uploads' = [uploads EXCEPT ![KeyOf[j]] = v]
    BY <1>5 DEF MarkCompleted, MarkFailed
  <2>2. uploads' \in [Keys -> {None, "Uploading", "Completed", "Failed"}]
    BY <1>0, <2>1 DEF TypeOK
  <2>3. PICK s \in Settled : stage' = [stage EXCEPT ![j] = s]
    BY <1>5 DEF MarkCompleted, MarkFailed, Goto, Settled
  <2>4. stage' \in [Jobs -> Taken \cup Settled \cup {"idle", "queued"}]
    BY <2>3 DEF TypeOK
  <2>5. \A i \in Jobs : stage'[i] \in {"uploading", "put", "backoff"} => retry_count[i] <= MaxRetries
    BY <2>3 DEF TypeOK, Settled
  <2>6. leaving' \in Nat
    BY <1>0, <1>5 DEF MarkCompleted, MarkFailed
  <2>7. UNCHANGED <<upload_queue, to_spawn, arrived, fresh, picking, permits, gave_up,
                    retry_count, object, landed, shutdown>>
    BY <1>5 DEF MarkCompleted, MarkFailed, calls, bucket
  <2> QED  BY <2>2, <2>4, <2>5, <2>6, <2>7 DEF TypeOK
<1> QED  BY <1>1, <1>2, <1>3, <1>4, <1>5 DEF Upload

\* A worker's step keeps the record of the uploads right.
LEMMA UploadEntry ==
    ASSUME TypeOK, EntryInv, NEW j \in Jobs, Upload(j)
    PROVE  EntryInv'
<1>0. /\ KeyOf \in [Jobs -> Keys] /\ KeyOf[j] \in Keys
      /\ None \notin {"Uploading", "Completed", "Failed"}
      /\ stage \in [Jobs -> Taken \cup Settled \cup {"idle", "queued"}]
      /\ uploads \in [Keys -> {None, "Uploading", "Completed", "Failed"}]
      /\ retry_count \in [Jobs -> 0..MaxRetries + 1]
  BY MemoryAssumption DEF TypeOK
<1>1. /\ \A k \in Keys : uploads[k] = "Uploading" =>
            \E i \in Jobs : KeyOf[i] = k /\ stage[i] \in Taken \ {"taken"}
      /\ \A i \in Jobs : stage[i] \in Taken =>
            \/ stage[i] = "taken"
            \/ uploads[KeyOf[i]] = "Uploading"
            \/ \E h \in Jobs : KeyOf[h] = KeyOf[i] /\ stage[h] \in Settled
  BY DEF EntryInv, UploadingHasOwner, UploadsAreRecorded, ActiveKeys, Busy
<1>2. /\ stage[j] \in Taken
      /\ \A i \in Jobs \ {j} : stage'[i] = stage[i]
      /\ stage'[j] \in (Taken \ {"taken"}) \cup Settled
  BY UploadMoves
<1>3. \/ stage'[j] \in Taken /\ UNCHANGED uploads /\ stage[j] # "taken"
      \/ stage'[j] \in Taken /\ uploads' = [uploads EXCEPT ![KeyOf[j]] = "Uploading"]
      \/ stage'[j] \in Settled /\ \E v \in {"Completed", "Failed"} :
                                     uploads' = [uploads EXCEPT ![KeyOf[j]] = v]
  BY <1>0 DEF Upload, MarkUploading, Put, PutSucceeds, PutFails, Retry, MarkCompleted, MarkFailed,
              Goto, Taken, Settled
<1>4. Taken \cap Settled = {} /\ "taken" \in Taken
  BY DEF Taken, Settled
<1>5. UploadingHasOwner'
  <2> SUFFICES ASSUME NEW k \in Keys, uploads'[k] = "Uploading"
               PROVE  \E i \in Jobs : KeyOf[i] = k /\ stage'[i] \in Taken \ {"taken"}
    BY DEF UploadingHasOwner, ActiveKeys
  <2>1. CASE k = KeyOf[j] /\ stage'[j] \in Taken
    BY <1>2, <1>4, <2>1
  <2>2. CASE k = KeyOf[j] /\ stage'[j] \in Settled
    BY <1>0, <1>3, <1>4, <2>2
  <2>3. CASE k # KeyOf[j]
    <3>1. uploads[k] = "Uploading"
      BY <1>0, <1>3, <2>3
    <3>2. PICK i \in Jobs : KeyOf[i] = k /\ stage[i] \in Taken \ {"taken"}
      BY <1>1, <3>1
    <3> QED  BY <1>2, <2>3, <3>2
  <2> QED  BY <1>2, <2>1, <2>2, <2>3
<1>6. UploadsAreRecorded'
  <2> SUFFICES ASSUME NEW i \in Jobs, stage'[i] \in Taken, stage'[i] # "taken",
                      uploads'[KeyOf[i]] # "Uploading"
               PROVE  \E h \in Jobs : KeyOf[h] = KeyOf[i] /\ stage'[h] \in Settled
    BY DEF UploadsAreRecorded, Busy
  <2>1. stage[i] \in Taken /\ KeyOf[i] \in Keys
    BY <1>0, <1>2
  <2>2. CASE uploads[KeyOf[i]] = "Uploading"
    <3>1. stage'[j] \in Settled /\ KeyOf[j] = KeyOf[i]
      BY <1>0, <1>3, <2>1, <2>2
    <3> QED  BY <3>1
  <2>3. CASE uploads[KeyOf[i]] # "Uploading"
    <3>1. stage[i] # "taken"
      BY <1>0, <1>2, <1>3, <1>4, <2>1
    <3>2. PICK h \in Jobs : KeyOf[h] = KeyOf[i] /\ stage[h] \in Settled
      BY <1>1, <2>1, <2>3, <3>1
    <3> QED  BY <1>2, <1>4, <3>2
  <2> QED  BY <2>2, <2>3
<1>7. AnsweredHasLanded'
  <2>1. \A i \in Jobs : stage[i] \in {"put", "stored"} => i \in landed
    BY DEF EntryInv, AnsweredHasLanded
  <2>2. landed \subseteq landed' /\ (stage'[j] \in {"put", "stored"} => j \in landed')
    BY <1>0, <2>1 DEF Upload, MarkUploading, Put, PutSucceeds, PutFails, Retry, MarkCompleted,
                      MarkFailed, Goto, bucket
  <2> QED  BY <1>2, <2>1, <2>2 DEF AnsweredHasLanded
<1>8. NotTried'
  <2>1. stage'[j] \notin {"idle", "queued", "taken"}
    BY <1>2 DEF Taken, Settled
  <2>2. \A i \in Jobs \ {j} : retry_count'[i] = retry_count[i]
    BY <1>0 DEF Upload, MarkUploading, Put, PutSucceeds, PutFails, Retry, MarkCompleted, MarkFailed
  <2> QED  BY <1>2, <2>1, <2>2 DEF EntryInv, NotTried
<1> QED  BY <1>5, <1>6, <1>7, <1>8 DEF EntryInv

\* So does a step that takes no segment further than to a worker.
LEMMA EntryFrame ==
    ASSUME TypeOK, EntryInv, UNCHANGED <<uploads, landed, retry_count>>,
           \A i \in Jobs : \/ stage'[i] = stage[i]
                           \/ stage[i] = "idle" /\ stage'[i] = "queued"
                           \/ stage[i] = "queued" /\ stage'[i] = "taken"
    PROVE  EntryInv'
<1>1. \A i \in Jobs :
         /\ stage[i] \in Taken \ {"taken"} => stage'[i] = stage[i]
         /\ stage[i] \in Settled => stage'[i] = stage[i]
         /\ stage'[i] \in Taken => stage'[i] = "taken" \/ stage'[i] = stage[i]
  BY DEF Taken, Settled
<1>2. UploadingHasOwner'
  BY <1>1 DEF EntryInv, UploadingHasOwner, ActiveKeys
<1>3. UploadsAreRecorded'
  <2> SUFFICES ASSUME NEW i \in Jobs, stage'[i] \in Taken, stage'[i] # "taken",
                      uploads[KeyOf[i]] # "Uploading"
               PROVE  \E h \in Jobs : KeyOf[h] = KeyOf[i] /\ stage'[h] \in Settled
    BY DEF UploadsAreRecorded, Busy
  <2>1. PICK h \in Jobs : KeyOf[h] = KeyOf[i] /\ stage[h] \in Settled
    BY <1>1 DEF EntryInv, UploadsAreRecorded, Busy
  <2> QED  BY <1>1, <2>1
<1>4. AnsweredHasLanded'
  BY DEF EntryInv, AnsweredHasLanded
<1>5. NotTried'
  BY DEF EntryInv, NotTried
<1> QED  BY <1>2, <1>3, <1>4, <1>5 DEF EntryInv

-----------------------------------------------------------------------------
(* The permits.                                                             *)

\* How a step of one segment changes the number of busy workers.
LEMMA BusyChange ==
    ASSUME TypeOK, IsFiniteSet(Busy), NEW j \in Jobs, \A i \in Jobs \ {j} : stage'[i] = stage[i]
    PROVE  /\ IsFiniteSet(Busy)' /\ Cardinality(Busy) \in Nat /\ Cardinality(Busy)' \in Nat
           /\ (stage[j] \in Taken <=> stage'[j] \in Taken)
                 => Cardinality(Busy)' = Cardinality(Busy)
           /\ stage[j] \notin Taken /\ stage'[j] \in Taken
                 => Cardinality(Busy)' = Cardinality(Busy) + 1
           /\ stage[j] \in Taken /\ stage'[j] \notin Taken
                 => Cardinality(Busy)' = Cardinality(Busy) - 1
<1>1. CASE stage[j] \in Taken <=> stage'[j] \in Taken
  <2>1. Busy' = Busy
    BY <1>1 DEF Busy
  <2> QED  BY <1>1, <2>1, FS_CardinalityType
<1>2. CASE stage[j] \notin Taken /\ stage'[j] \in Taken
  <2>1. Busy' = Busy \cup {j} /\ j \notin Busy
    BY <1>2 DEF Busy
  <2>2. IsFiniteSet(Busy \cup {j}) /\ Cardinality(Busy \cup {j}) = Cardinality(Busy) + 1
    BY <2>1, FS_AddElement
  <2> QED  BY <1>2, <2>1, <2>2, FS_CardinalityType
<1>3. CASE stage[j] \in Taken /\ stage'[j] \notin Taken
  <2>1. Busy' = Busy \ {j} /\ j \in Busy
    BY <1>3 DEF Busy
  <2>2. IsFiniteSet(Busy \ {j}) /\ Cardinality(Busy \ {j}) = Cardinality(Busy) - 1
    BY <2>1, FS_RemoveElement
  <2> QED  BY <1>3, <2>1, <2>2, FS_CardinalityType
<1> QED  BY <1>1, <1>2, <1>3

-----------------------------------------------------------------------------
(* The invariant is inductive.                                              *)

LEMMA MemoryInit == Init => MemoryInv
<1> SUFFICES ASSUME Init PROVE MemoryInv
  OBVIOUS
<1>1. TypeOK
  BY MemoryAssumption DEF Init, TypeOK
<1>2. Busy = {}
  BY DEF Init, Busy, Taken
<1>3. PermitInv
  <2>1. IsFiniteSet(Busy) /\ Cardinality(Busy) = 0
    BY <1>2, FS_EmptySet
  <2> QED  BY <2>1, MemoryAssumption DEF PermitInv, PermitAccounting, Init
<1>4. ArrivedOnce
  BY DEF Init, ArrivedOnce
<1>5. QueueInOrder
  BY DEF Init, QueueInOrder, ToSet
<1>6. EntryInv
  BY <1>2, MemoryAssumption
     DEF Init, EntryInv, UploadingHasOwner, UploadsAreRecorded, AnsweredHasLanded, NotTried, ActiveKeys
<1> QED  BY <1>1, <1>3, <1>4, <1>5, <1>6 DEF MemoryInv, OrderInv

\* queue_segment inserts.
LEMMA InsertStep ==
    ASSUME MemoryInv, NEW j \in Jobs, Insert(j)
    PROVE  MemoryInv'
<1>1. TypeOK /\ PermitInv /\ OrderInv /\ EntryInv
  BY DEF MemoryInv
<1>2. /\ stage[j] = "idle" /\ stage'[j] = "queued" /\ \A i \in Jobs \ {j} : stage'[i] = stage[i]
      /\ UNCHANGED <<fresh, picking, leaving, permits, gave_up, retry_count, uploads, object,
                     landed, shutdown>>
  BY <1>1 DEF Insert, Goto, TypeOK, workers, bucket
<1>3. upload_queue' \in Seq(Jobs) /\ Len(upload_queue') \in Nat
  BY <1>1, InsertionPoint DEF Insert, TypeOK
<1>4. TypeOK'
  <2>1. /\ stage' \in [Jobs -> Taken \cup Settled \cup {"idle", "queued"}]
        /\ to_spawn' \in Nat
        /\ arrived' \in Seq(Jobs)
    BY <1>1, <1>3 DEF Insert, Goto, TypeOK
  <2>2. \A i \in Jobs : stage'[i] \in {"uploading", "put", "backoff"} => retry_count[i] <= MaxRetries
    BY <1>1, <1>2 DEF TypeOK
  <2> QED  BY <1>1, <1>2, <1>3, <2>1, <2>2 DEF TypeOK
<1>5. PermitInv'
  <2>1. stage[j] \notin Taken /\ stage'[j] \notin Taken
    BY <1>2 DEF Taken
  <2> QED  BY <1>1, <1>2, <2>1, BusyChange DEF PermitInv, PermitAccounting
<1>6. OrderInv'
  BY <1>1, InsertOrder
<1>7. EntryInv'
  BY <1>1, <1>2, EntryFrame
<1> QED  BY <1>4, <1>5, <1>6, <1>7 DEF MemoryInv

\* A part of a sum is no greater than the sum.
LEMMA PartOfSum ==
    ASSUME NEW p \in Nat, NEW k \in Nat, NEW l \in Nat, NEW n \in Nat, NEW w \in Nat,
           p + k + l + n = w
    PROVE  p <= w
OBVIOUS

\* Steps that only move workers about.
LEMMA WorkersFrame ==
    ASSUME MemoryInv, UNCHANGED <<stage, upload_queue, arrived, retry_count, uploads, object, landed>>,
           {to_spawn, fresh, picking, leaving, gave_up}' \subseteq Nat,
           permits' \in Nat, permits' + picking' + leaving' = permits + picking + leaving,
           shutdown' \in {"running", "polling", "returned"}
    PROVE  MemoryInv'
<1>1. TypeOK /\ PermitInv /\ OrderInv /\ EntryInv
  BY DEF MemoryInv
<1>2. Busy' = Busy /\ Cardinality(Busy) \in Nat
  BY <1>1, FS_CardinalityType DEF Busy, PermitInv
<1>3. /\ permits + picking + leaving + Cardinality(Busy) = Workers
      /\ Workers \in Nat /\ picking' \in Nat /\ leaving' \in Nat
      /\ permits \in Nat /\ picking \in Nat /\ leaving \in Nat
  BY <1>1, MemoryAssumption DEF PermitInv, PermitAccounting, TypeOK
<1>4. permits' + picking' + leaving' + Cardinality(Busy) = Workers /\ permits' \in 0..Workers
  <2> DEFINE n == Cardinality(Busy)
  <2>1. n \in Nat /\ permits + picking + leaving + n = Workers
    BY <1>2, <1>3
  <2>2. permits' + picking' + leaving' = permits + picking + leaving
    OBVIOUS
  <2> HIDE DEF n
  <2>3. permits' + picking' + leaving' + n = Workers
    BY <2>1, <2>2
  <2>4. permits' <= Workers
    BY <1>3, <2>1, <2>3, PartOfSum
  <2> QED  BY <1>3, <2>3, <2>4 DEF n
<1>5. TypeOK'
  BY <1>1, <1>4 DEF TypeOK
<1>6. PermitInv'
  BY <1>1, <1>2, <1>4 DEF PermitInv, PermitAccounting
<1>7. OrderInv'
  BY <1>1, OrderFrame
<1>8. EntryInv'
  BY <1>1, EntryFrame
<1> QED  BY <1>5, <1>6, <1>7, <1>8 DEF MemoryInv

\* A worker takes the front of the queue.
LEMMA PopStep ==
    ASSUME MemoryInv, PopFront, upload_queue # <<>>
    PROVE  MemoryInv'
<1> DEFINE h == Head(upload_queue)
<1>1. TypeOK /\ PermitInv /\ OrderInv /\ EntryInv
  BY DEF MemoryInv
<1>2. /\ picking > 0 /\ picking' = picking - 1
      /\ stage' = [stage EXCEPT ![h] = "taken"] /\ upload_queue' = Tail(upload_queue)
      /\ UNCHANGED <<to_spawn, arrived, fresh, leaving, permits, gave_up, retry_count, uploads,
                     object, landed, shutdown>>
  BY DEF PopFront, Goto, calls, bucket
<1>3. OrderInv' /\ h \in Jobs /\ stage[h] = "queued" /\ upload_queue' \in Seq(Jobs)
  BY <1>1, <1>2, PopOrder
<1> HIDE DEF h
<1>4. stage'[h] = "taken" /\ \A i \in Jobs \ {h} : stage'[i] = stage[i]
  BY <1>1, <1>2, <1>3 DEF TypeOK
<1>5. TypeOK'
  <2>1. stage' \in [Jobs -> Taken \cup Settled \cup {"idle", "queued"}]
    BY <1>1, <1>2, <1>3 DEF TypeOK, Taken
  <2>2. \A i \in Jobs : stage'[i] \in {"uploading", "put", "backoff"} => retry_count[i] <= MaxRetries
    BY <1>1, <1>4 DEF TypeOK
  <2>3. picking' \in Nat
    BY <1>1, <1>2 DEF TypeOK
  <2> QED  BY <1>1, <1>2, <1>3, <2>1, <2>2, <2>3 DEF TypeOK
<1>6. PermitInv'
  <2>1. stage[h] \notin Taken /\ stage'[h] \in Taken
    BY <1>3, <1>4 DEF Taken
  <2>2. /\ IsFiniteSet(Busy)' /\ Cardinality(Busy) \in Nat
        /\ Cardinality(Busy)' = Cardinality(Busy) + 1
    BY <1>1, <1>3, <1>4, <2>1, BusyChange DEF PermitInv
  <2>3. permits \in Nat /\ picking \in Nat /\ leaving \in Nat
    BY <1>1 DEF TypeOK
  <2> QED  BY <1>1, <1>2, <2>2, <2>3 DEF PermitInv, PermitAccounting
<1>7. EntryInv'
  BY <1>1, <1>2, <1>3, <1>4, EntryFrame
<1> QED  BY <1>3, <1>5, <1>6, <1>7 DEF MemoryInv

\* A worker that has a segment.
LEMMA UploadStep ==
    ASSUME MemoryInv, NEW j \in Jobs, Upload(j)
    PROVE  MemoryInv'
<1>1. TypeOK /\ PermitInv /\ OrderInv /\ EntryInv
  BY DEF MemoryInv
<1>2. /\ stage[j] \in Taken /\ stage'[j] # "taken"
      /\ \A i \in Jobs \ {j} : stage'[i] = stage[i]
      /\ UNCHANGED <<upload_queue, arrived, picking, permits>>
      /\ \/ stage'[j] \in Taken /\ leaving' = leaving
         \/ stage'[j] \in Settled /\ leaving' = leaving + 1
  BY <1>1, UploadMoves
<1>3. TypeOK'
  BY <1>1, UploadType DEF EntryInv
<1>4. EntryInv'
  BY <1>1, UploadEntry
<1>5. OrderInv'
  <2>1. \A i \in Jobs : stage'[i] # stage[i] => {stage[i], stage'[i]} \cap {"idle", "queued"} = {}
    BY <1>2 DEF Taken, Settled
  <2> QED  BY <1>1, <1>2, <2>1, OrderFrame
<1>6. PermitInv'
  <2>1. IsFiniteSet(Busy)' /\ Cardinality(Busy) \in Nat
    BY <1>1, <1>2, BusyChange DEF PermitInv
  <2>2. CASE stage'[j] \in Taken /\ leaving' = leaving
    <3>1. Cardinality(Busy)' = Cardinality(Busy)
      BY <1>1, <1>2, <2>2, BusyChange DEF PermitInv
    <3> QED  BY <1>1, <1>2, <2>1, <2>2, <3>1 DEF PermitInv, PermitAccounting
  <2>3. CASE stage'[j] \in Settled /\ leaving' = leaving + 1
    <3>1. stage'[j] \notin Taken
      BY <2>3 DEF Taken, Settled
    <3>2. Cardinality(Busy)' = Cardinality(Busy) - 1
      BY <1>1, <1>2, <3>1, BusyChange DEF PermitInv
    <3>3. permits \in Nat /\ picking \in Nat /\ leaving \in Nat
      BY <1>1 DEF TypeOK
    <3> QED  BY <1>1, <1>2, <2>1, <2>3, <3>2, <3>3 DEF PermitInv, PermitAccounting
  <2> QED  BY <1>2, <2>2, <2>3
<1> QED  BY <1>3, <1>4, <1>5, <1>6 DEF MemoryInv

LEMMA MemoryInductive == MemoryInv /\ [Next]_vars => MemoryInv'
<1> SUFFICES ASSUME MemoryInv, [Next]_vars PROVE MemoryInv'
  OBVIOUS
<1>0. /\ fresh \in Nat /\ picking \in Nat /\ leaving \in Nat /\ gave_up \in Nat
      /\ permits \in Nat /\ to_spawn \in Nat
      /\ shutdown \in {"running", "polling", "returned"}
  BY MemoryAssumption DEF MemoryInv, TypeOK
<1>1. ASSUME NEW j \in Jobs, Insert(j) PROVE MemoryInv'
  BY <1>1, InsertStep
<1>2. CASE SpawnWorker
  BY <1>0, <1>2, WorkersFrame DEF SpawnWorker, bucket
<1>3. ASSUME NEW j \in Jobs, Upload(j) PROVE MemoryInv'
  BY <1>3, UploadStep
<1>4. CASE TryAcquire
  BY <1>0, <1>4, WorkersFrame DEF TryAcquire, calls, bucket
<1>5. CASE PopFront
  <2>1. CASE upload_queue # <<>>
    BY <1>5, <2>1, PopStep
  <2>2. CASE upload_queue = <<>>
    BY <1>0, <1>5, <2>2, WorkersFrame DEF PopFront, calls, bucket
  <2> QED  BY <2>1, <2>2
<1>6. CASE DropPermit
  BY <1>0, <1>6, WorkersFrame DEF DropPermit, calls, bucket
<1>7. CASE CallShutdown \/ ShutdownReturns
  BY <1>0, <1>7, WorkersFrame DEF CallShutdown, ShutdownReturns, calls, workers, bucket
<1>8. CASE Quiescent \/ UNCHANGED vars
  BY <1>0, <1>8, WorkersFrame DEF Quiescent, vars, calls, workers, bucket
<1> QED  BY <1>1, <1>2, <1>3, <1>4, <1>5, <1>6, <1>7, <1>8 DEF Next, Task

\* In every reachable state.
THEOREM MemoryIsRight == Spec => []MemoryInv
BY MemoryInit, MemoryInductive, PTL DEF Spec

\* The queue holds every segment that waits, once and in the order of the
\* priorities and of arrival; no permit is lost or made up; and a key reads
\* Uploading only while a worker has a segment of it.
THEOREM QueueIsRight == Spec => []QueueInv
<1>1. MemoryInv => QueueInv
  BY DEF MemoryInv, PermitInv, OrderInv, EntryInv, QueueInv
<1> QED  BY <1>1, MemoryIsRight, PTL

-----------------------------------------------------------------------------
(* Segments that wait.                                                      *)

\* A step that takes nothing from the queue and loses no worker unseen.
LEMMA LookersFrame ==
    ASSUME StrandedHasCause, UNCHANGED upload_queue, Lookers' + gave_up' = Lookers + gave_up
    PROVE  StrandedHasCause'
BY DEF StrandedHasCause

\* A segment is left in the queue without a worker to come only because some
\* worker found no permit and gave up: queue_segment spawns enough workers for
\* all the entries there are, a worker takes one entry, and one that finds the
\* queue empty was not needed.
THEOREM StrandedOnlyByGivingUp == Spec => []StrandedHasCause
<1>1. Init => StrandedHasCause
  <2>1. Len(<<>>) = 0
    OBVIOUS
  <2> QED  BY <2>1 DEF Init, StrandedHasCause, Lookers
<1>2. MemoryInv /\ StrandedHasCause /\ [Next]_vars => StrandedHasCause'
  <2> SUFFICES ASSUME MemoryInv, StrandedHasCause, [Next]_vars PROVE StrandedHasCause'
    OBVIOUS
  <2>0. /\ TypeOK /\ upload_queue \in Seq(Jobs) /\ Len(upload_queue) \in Nat
        /\ to_spawn \in Nat /\ fresh \in Nat /\ picking \in Nat /\ gave_up \in Nat
    BY DEF MemoryInv, TypeOK
  <2>1. ASSUME NEW j \in Jobs, Insert(j) PROVE StrandedHasCause'
    <3>1. Len(upload_queue') \in Nat
      BY <2>0, <2>1, InsertionPoint DEF Insert
    <3>2. to_spawn' = to_spawn + Len(upload_queue') /\ UNCHANGED <<fresh, picking, gave_up>>
      BY <2>1 DEF Insert, workers
    <3> QED  BY <2>0, <3>1, <3>2 DEF StrandedHasCause, Lookers
  <2>2. CASE SpawnWorker
    <3>1. UNCHANGED upload_queue /\ Lookers' + gave_up' = Lookers + gave_up
      BY <2>0, <2>2 DEF SpawnWorker, Lookers
    <3> QED  BY <3>1, LookersFrame
  <2>3. CASE TryAcquire
    <3>1. UNCHANGED upload_queue /\ Lookers' + gave_up' = Lookers + gave_up
      BY <2>0, <2>3 DEF TryAcquire, Lookers, calls
    <3> QED  BY <3>1, LookersFrame
  <2>4. CASE PopFront
    <3>1. picking' = picking - 1 /\ UNCHANGED <<to_spawn, fresh, gave_up>>
          /\ picking > 0
      BY <2>4 DEF PopFront, calls
    <3>2. CASE upload_queue # <<>>
      <4>1. upload_queue' = Tail(upload_queue)
        BY <2>4, <3>2 DEF PopFront
      <4>2. Len(upload_queue') = Len(upload_queue) - 1
        BY <2>0, <3>2, <4>1
      <4> QED  BY <2>0, <3>1, <4>2 DEF StrandedHasCause, Lookers
    <3>3. CASE upload_queue = <<>>
      <4>1. Len(upload_queue') = 0
        BY <2>4, <3>3 DEF PopFront
      <4> QED  BY <2>0, <3>1, <4>1 DEF StrandedHasCause, Lookers
    <3> QED  BY <3>2, <3>3
  <2>5. ASSUME NEW j \in Jobs, Upload(j) PROVE StrandedHasCause'
    <3>1. UNCHANGED <<upload_queue, to_spawn, fresh, picking, gave_up>>
      BY <2>0, <2>5, UploadMoves DEF MemoryInv
    <3> QED  BY <3>1 DEF StrandedHasCause, Lookers
  <2>6. CASE DropPermit \/ CallShutdown \/ ShutdownReturns \/ Quiescent \/ UNCHANGED vars
    <3>1. UNCHANGED <<upload_queue, to_spawn, fresh, picking, gave_up>>
      BY <2>6 DEF DropPermit, CallShutdown, ShutdownReturns, Quiescent, vars, calls, workers
    <3> QED  BY <3>1 DEF StrandedHasCause, Lookers
  <2> QED  BY <2>1, <2>2, <2>3, <2>4, <2>5, <2>6 DEF Next, Task
<1> QED  BY <1>1, <1>2, MemoryIsRight, PTL DEF Spec

-----------------------------------------------------------------------------
(* Shutdown.                                                                *)

\* shutdown returns with no upload under way but those that another upload of
\* the same key hides, and those that no worker has recorded yet.
THEOREM ShutdownIsHonest == Spec => ShutdownMissesOnlyHidden
<1>1. MemoryInv /\ [Next]_vars =>
         [shutdown = "polling" /\ shutdown' = "returned"
            => \A j \in Busy :
                  \/ stage[j] = "taken"
                  \/ \E i \in Jobs : KeyOf[i] = KeyOf[j] /\ stage[i] \in Settled]_vars
  <2> SUFFICES ASSUME MemoryInv, Next, shutdown = "polling", shutdown' = "returned",
                      NEW j \in Busy
               PROVE  \/ stage[j] = "taken"
                      \/ \E i \in Jobs : KeyOf[i] = KeyOf[j] /\ stage[i] \in Settled
    OBVIOUS
  <2>1. ASSUME NEW i \in Jobs, Upload(i) PROVE shutdown' = shutdown
    BY <2>1, UploadMoves DEF MemoryInv
  <2>2. ShutdownReturns
    BY <2>1 DEF Next, Task, Insert, SpawnWorker, TryAcquire, PopFront, DropPermit, CallShutdown,
                Quiescent, vars
  <2>3. j \in Jobs /\ KeyOf[j] \in Keys
    BY MemoryAssumption DEF Busy
  <2>4. uploads[KeyOf[j]] # "Uploading"
    BY <2>2, <2>3 DEF ShutdownReturns, ActiveKeys
  <2> QED  BY <2>4 DEF MemoryInv, EntryInv, UploadsAreRecorded
<1> QED  BY <1>1, MemoryIsRight, PTL DEF Spec, ShutdownMissesOnlyHidden

-----------------------------------------------------------------------------
(* The refinement.                                                          *)

\* What the service sees of a step that moves one segment.
LEMMA StatusMoves ==
    ASSUME TypeOK, NEW j \in Jobs, \A i \in Jobs \ {j} : stage'[i] = stage[i]
    PROVE  [i \in Jobs |-> StatusOf(stage'[i])]
              = [[i \in Jobs |-> StatusOf(stage[i])] EXCEPT ![j] = StatusOf(stage'[j])]
OBVIOUS

\* The verdicts that the stages stand for.
LEMMA StatusIs ==
    /\ StatusOf("idle") = "idle" /\ StatusOf("queued") = "accepted"
    /\ StatusOf("done") = "succeeded" /\ StatusOf("failed") = "failed"
    /\ \A s \in Taken : StatusOf(s) = "accepted"
BY DEF StatusOf, Taken

\* MemoryS3Uploader keeps the promises of the upload service: each segment that
\* is accepted has at most one verdict, and Completed only if its own bytes
\* reached its own key.
THEOREM MemoryRefinement == Spec => ImplementsSafety
<1>1. Init => Service!ServiceInit
  BY StatusIs DEF Init, Service!ServiceInit
<1>2. MemoryInv /\ [Next]_vars => [Service!ServiceNext]_(Service!vars)
  <2> SUFFICES ASSUME MemoryInv, [Next]_vars
               PROVE  Service!ServiceNext \/ UNCHANGED Service!vars
    OBVIOUS
  <2>0. TypeOK
    BY DEF MemoryInv
  <2>1. ASSUME NEW j \in Jobs, Insert(j) PROVE Service!Accept(j)
    <3>1. /\ stage[j] = "idle" /\ stage'[j] = "queued"
          /\ \A i \in Jobs \ {j} : stage'[i] = stage[i]
          /\ object' = object /\ landed' = landed
      BY <2>0, <2>1 DEF Insert, Goto, TypeOK, bucket
    <3> QED  BY <2>0, <3>1, StatusIs, StatusMoves DEF Service!Accept
  <2>2. ASSUME NEW j \in Jobs, Put(j) PROVE Service!Put(j)
    <3>1. /\ stage[j] = "uploading" /\ stage'[j] = "put"
          /\ \A i \in Jobs \ {j} : stage'[i] = stage[i]
          /\ object' = [object EXCEPT ![KeyOf[j]] = j] /\ landed' = landed \cup {j}
      BY <2>0, <2>2 DEF Put, Goto, TypeOK
    <3>2. "uploading" \in Taken /\ "put" \in Taken
      BY DEF Taken
    <3>3. [i \in Jobs |-> StatusOf(stage'[i])] = [i \in Jobs |-> StatusOf(stage[i])]
      BY <3>1, <3>2, StatusIs
    <3> QED  BY <3>1, <3>2, <3>3, StatusIs DEF Service!Put
  <2>3. ASSUME NEW j \in Jobs, MarkCompleted(j) PROVE Service!Succeed(j)
    <3>1. /\ stage[j] = "stored" /\ stage'[j] = "done"
          /\ \A i \in Jobs \ {j} : stage'[i] = stage[i]
          /\ object' = object /\ landed' = landed
      BY <2>0, <2>3 DEF MarkCompleted, Goto, TypeOK, bucket
    <3>2. "stored" \in Taken /\ j \in landed
      BY <3>1 DEF Taken, MemoryInv, EntryInv, AnsweredHasLanded
    <3> QED  BY <2>0, <3>1, <3>2, StatusIs, StatusMoves DEF Service!Succeed
  <2>4. ASSUME NEW j \in Jobs, MarkFailed(j) PROVE Service!Fail(j)
    <3>1. /\ stage[j] = "exhausted" /\ stage'[j] = "failed"
          /\ \A i \in Jobs \ {j} : stage'[i] = stage[i]
          /\ object' = object /\ landed' = landed
      BY <2>0, <2>4 DEF MarkFailed, Goto, TypeOK, bucket
    <3>2. "exhausted" \in Taken
      BY DEF Taken
    <3> QED  BY <2>0, <3>1, <3>2, StatusIs, StatusMoves DEF Service!Fail
  <2>5. ASSUME UNCHANGED <<object, landed>>,
               \A i \in Jobs : StatusOf(stage'[i]) = StatusOf(stage[i])
        PROVE  UNCHANGED Service!vars
    BY <2>5 DEF Service!vars
  <2>6. ASSUME NEW j \in Jobs, MarkUploading(j) \/ PutSucceeds(j) \/ PutFails(j) \/ Retry(j)
        PROVE  UNCHANGED Service!vars
    <3>1. /\ stage[j] \in Taken /\ stage'[j] \in Taken
          /\ \A i \in Jobs \ {j} : stage'[i] = stage[i]
          /\ UNCHANGED <<object, landed>>
      BY <2>0, <2>6
         DEF MarkUploading, PutSucceeds, PutFails, Retry, Goto, TypeOK, Taken, bucket
    <3>2. \A i \in Jobs : StatusOf(stage'[i]) = StatusOf(stage[i])
      BY <3>1, StatusIs
    <3> QED  BY <2>5, <3>1, <3>2
  <2>7. CASE PopFront
    <3>1. CASE upload_queue # <<>>
      <4> DEFINE h == Head(upload_queue)
      <4>1. h \in Jobs /\ stage[h] = "queued" /\ stage' = [stage EXCEPT ![h] = "taken"]
        BY <2>0, <2>7, <3>1, PopOrder DEF PopFront, Goto, MemoryInv, calls
      <4> HIDE DEF h
      <4>2. stage'[h] = "taken" /\ "taken" \in Taken /\ \A i \in Jobs \ {h} : stage'[i] = stage[i]
        BY <2>0, <4>1 DEF TypeOK, Taken
      <4>3. \A i \in Jobs : StatusOf(stage'[i]) = StatusOf(stage[i])
        BY <4>1, <4>2, StatusIs
      <4> QED  BY <2>5, <2>7, <4>3 DEF PopFront, bucket
    <3>2. CASE upload_queue = <<>>
      BY <2>5, <2>7, <3>2 DEF PopFront, bucket
    <3> QED  BY <3>1, <3>2
  <2>8. CASE \/ SpawnWorker \/ TryAcquire \/ DropPermit \/ CallShutdown \/ ShutdownReturns \/ Quiescent
             \/ UNCHANGED vars
    <3>1. UNCHANGED <<stage, object, landed>>
      BY <2>8 DEF SpawnWorker, TryAcquire, DropPermit, CallShutdown, ShutdownReturns, Quiescent,
                  vars, bucket
    <3> QED  BY <2>5, <3>1
  <2> QED  BY <2>1, <2>2, <2>3, <2>4, <2>6, <2>7, <2>8
           DEF Next, Task, Upload, Service!ServiceNext
<1> QED  BY <1>1, <1>2, MemoryIsRight, PTL DEF Spec, ImplementsSafety, Service!ServiceSafety
=============================================================================

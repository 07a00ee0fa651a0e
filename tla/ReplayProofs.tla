---------------------------- MODULE ReplayProofs ----------------------------
(***************************************************************************)
(* The VOD playlist of Replay, for every number of files and every         *)
(* interleaving of the stop with the uploads.                              *)
(***************************************************************************)
EXTENDS Replay, TLAPS

\* What makes ReplayInv and VodHasSettled inductive: what has landed is stored
\* for good, so that a verdict, a listing and a settled set are backed by it
\* from then on, whatever lands later.
LandedIsStored == \A j \in landed : object[j] # None
SettledHasLanded == \A j \in Jobs : status[j] = "succeeded" => j \in landed
ListingIsStored == \A f \in listing : object[f] # None

VodInv ==
    /\ TypeOK
    /\ LandedIsStored
    /\ SettledHasLanded
    /\ ListingIsStored
    /\ settled \subseteq listing

\* The three jobs are told apart from None.
LEMMA JobsAreNotNone == None \notin Jobs /\ Vod \in Jobs /\ Master \in Jobs
BY ReplayAssumption DEF Jobs, Files

\* The acceptance of a job keeps what holds of the uploads.
LEMMA AcceptKeeps ==
    ASSUME VodInv, NEW j \in Jobs, Uploads!Accept(j)
    PROVE  /\ status' \in [Jobs -> {"idle", "accepted", "succeeded", "failed"}]
           /\ UNCHANGED <<object, landed>>
           /\ LandedIsStored'
           /\ SettledHasLanded'
BY DEF VodInv, TypeOK, Uploads!Accept, LandedIsStored, SettledHasLanded

\* A step of an upload stores what lands, and takes nothing away.
LEMMA UploadKeeps ==
    ASSUME VodInv, NEW j \in Jobs,
           Uploads!Put(j) \/ Uploads!Succeed(j) \/ Uploads!Fail(j)
    PROVE  /\ status' \in [Jobs -> {"idle", "accepted", "succeeded", "failed"}]
           /\ object' \in [Jobs -> Jobs \cup {None}]
           /\ landed' \subseteq Jobs
           /\ LandedIsStored'
           /\ SettledHasLanded'
           /\ \A i \in Jobs : object[i] # None => object'[i] # None
<1>0. TypeOK /\ LandedIsStored /\ SettledHasLanded
  BY DEF VodInv
<1>1. CASE Uploads!Put(j)
  <2>1. /\ object' = [object EXCEPT ![j] = j]
        /\ landed' = landed \cup {j}
        /\ status' = status
    BY <1>1 DEF Uploads!Put
  <2>2. \A i \in Jobs : object[i] # None => object'[i] # None
    BY <1>0, <2>1, JobsAreNotNone DEF TypeOK
  <2>3. LandedIsStored'
    BY <1>0, <2>1, <2>2, JobsAreNotNone DEF TypeOK, LandedIsStored
  <2>4. SettledHasLanded'
    BY <1>0, <2>1 DEF SettledHasLanded
  <2> QED  BY <1>0, <2>1, <2>2, <2>3, <2>4 DEF TypeOK
<1>2. CASE Uploads!Succeed(j)
  <2>1. j \in landed /\ status' = [status EXCEPT ![j] = "succeeded"]
        /\ UNCHANGED <<object, landed>>
    BY <1>2 DEF Uploads!Succeed
  <2>2. SettledHasLanded'
    BY <1>0, <2>1 DEF TypeOK, SettledHasLanded
  <2> QED  BY <1>0, <2>1, <2>2 DEF TypeOK, LandedIsStored
<1>3. CASE Uploads!Fail(j)
  <2>1. status' = [status EXCEPT ![j] = "failed"] /\ UNCHANGED <<object, landed>>
    BY <1>3 DEF Uploads!Fail
  <2>2. SettledHasLanded'
    BY <1>0, <2>1 DEF TypeOK, SettledHasLanded
  <2> QED  BY <1>0, <2>1, <2>2 DEF TypeOK, LandedIsStored
<1> QED  BY <1>1, <1>2, <1>3

\* The initial state.
LEMMA VodInit == Init => VodInv
<1> SUFFICES ASSUME Init PROVE VodInv
  OBVIOUS
<1>1. /\ pc = "live" /\ produced = 0 /\ handed = 0
      /\ listing = {} /\ settled = {} /\ completed = FALSE
      /\ status = [j \in Jobs |-> "idle"]
      /\ object = [j \in Jobs |-> None]
      /\ landed = {}
  BY DEF Init, Uploads!ServiceInit
<1>2. TypeOK
  <2>1. 0 \in 0..FileLimit /\ 0 \in 0..0
    BY ReplayAssumption
  <2>2. /\ status \in [Jobs -> {"idle", "accepted", "succeeded", "failed"}]
        /\ object \in [Jobs -> Jobs \cup {None}]
    BY <1>1
  <2>3. listing \cup settled \subseteq Files /\ landed \subseteq Jobs
    BY <1>1
  <2> QED  BY <1>1, <2>1, <2>2, <2>3 DEF TypeOK
<1>3. LandedIsStored /\ SettledHasLanded /\ ListingIsStored
  BY <1>1 DEF LandedIsStored, SettledHasLanded, ListingIsStored
<1> QED  BY <1>1, <1>2, <1>3 DEF VodInv

\* Every step keeps the invariant.
LEMMA VodStep == VodInv /\ [Next]_vars => VodInv'
<1> SUFFICES ASSUME VodInv, [Next]_vars PROVE VodInv'
  OBVIOUS
<1>0. /\ TypeOK /\ LandedIsStored /\ SettledHasLanded /\ ListingIsStored
      /\ settled \subseteq listing
  BY DEF VodInv
<1>1. CASE Produce
  <2>1. TypeOK'
    BY <1>0, <1>1, ReplayAssumption DEF Produce, TypeOK, uploads
  <2> QED
    BY <1>0, <1>1, <2>1 DEF Produce, uploads, VodInv, LandedIsStored, SettledHasLanded,
                            ListingIsStored
<1>2. CASE HandOver
  <2>1. handed + 1 \in Jobs /\ handed' \in 0..produced
    BY <1>0, <1>2, ReplayAssumption DEF HandOver, TypeOK, Jobs, Files
  <2>2. /\ status' \in [Jobs -> {"idle", "accepted", "succeeded", "failed"}]
        /\ UNCHANGED <<object, landed>>
        /\ LandedIsStored' /\ SettledHasLanded'
    BY <1>2, <2>1, AcceptKeeps DEF HandOver
  <2>3. TypeOK'
    BY <1>0, <1>2, <2>1, <2>2 DEF HandOver, TypeOK
  <2> QED  BY <1>0, <1>2, <2>2, <2>3 DEF HandOver, VodInv, ListingIsStored
<1>3. CASE StopPipeline
  <2>1. TypeOK'
    BY <1>0, <1>3 DEF StopPipeline, TypeOK, uploads
  <2> QED
    BY <1>0, <1>3, <2>1 DEF StopPipeline, uploads, VodInv, LandedIsStored,
                            SettledHasLanded, ListingIsStored
<1>4. CASE GenerateVod
  <2>1. CASE listing' = Stored /\ settled' = {f \in Files : status[f] = "succeeded"}
             /\ Uploads!Accept(Vod)
    <3>1. /\ status' \in [Jobs -> {"idle", "accepted", "succeeded", "failed"}]
          /\ UNCHANGED <<object, landed>>
          /\ LandedIsStored' /\ SettledHasLanded'
      BY <2>1, JobsAreNotNone, AcceptKeeps
    <3>2. ListingIsStored'
      BY <2>1, <3>1 DEF Stored, ListingIsStored
    <3>3. settled' \subseteq listing'
      BY <1>0, <2>1 DEF Stored, LandedIsStored, SettledHasLanded, Jobs
    <3>4. TypeOK'
      BY <1>0, <1>4, <2>1, <3>1 DEF GenerateVod, TypeOK, Stored
    <3> QED  BY <3>1, <3>2, <3>3, <3>4 DEF VodInv
  <2>2. CASE UNCHANGED <<listing, settled, uploads>>
    <3>1. TypeOK'
      BY <1>0, <1>4, <2>2 DEF GenerateVod, TypeOK, uploads
    <3> QED
      BY <1>0, <2>2, <3>1 DEF uploads, VodInv, LandedIsStored, SettledHasLanded,
                              ListingIsStored
  <2> QED  BY <1>4, <2>1, <2>2 DEF GenerateVod
<1>5. CASE GenerateMaster
  <2>1. /\ status' \in [Jobs -> {"idle", "accepted", "succeeded", "failed"}]
        /\ UNCHANGED <<object, landed>>
        /\ LandedIsStored' /\ SettledHasLanded'
    BY <1>5, JobsAreNotNone, AcceptKeeps DEF GenerateMaster
  <2>2. TypeOK'
    BY <1>0, <1>5, <2>1 DEF GenerateMaster, TypeOK
  <2> QED  BY <1>0, <1>5, <2>1, <2>2 DEF GenerateMaster, VodInv, ListingIsStored
<1>6. CASE MarkCompleted
  <2>1. TypeOK'
    BY <1>0, <1>6 DEF MarkCompleted, TypeOK, uploads
  <2> QED
    BY <1>0, <1>6, <2>1 DEF MarkCompleted, uploads, VodInv, LandedIsStored,
                            SettledHasLanded, ListingIsStored
<1>7. ASSUME NEW j \in Jobs, UploadStep(j) PROVE VodInv'
  <2>1. /\ status' \in [Jobs -> {"idle", "accepted", "succeeded", "failed"}]
        /\ object' \in [Jobs -> Jobs \cup {None}]
        /\ landed' \subseteq Jobs
        /\ LandedIsStored' /\ SettledHasLanded'
        /\ \A i \in Jobs : object[i] # None => object'[i] # None
    BY <1>7, UploadKeeps DEF UploadStep
  <2>2. TypeOK'
    BY <1>0, <1>7, <2>1 DEF UploadStep, TypeOK
  <2>3. ListingIsStored'
    BY <1>0, <1>7, <2>1 DEF UploadStep, ListingIsStored, TypeOK, Jobs
  <2> QED  BY <1>0, <1>7, <2>1, <2>2, <2>3 DEF UploadStep, VodInv
<1>8. CASE UNCHANGED vars
  BY <1>0, <1>8 DEF vars, uploads, VodInv, TypeOK, LandedIsStored, SettledHasLanded,
                    ListingIsStored
<1> QED
  BY <1>1, <1>2, <1>3, <1>4, <1>5, <1>6, <1>7, <1>8 DEF Next, StopPath, Over

\* The invariant holds of every behaviour.
LEMMA VodInductive == Spec => []VodInv
BY VodInit, VodStep, PTL DEF Spec

\* The VOD playlist names only files that the bucket holds, for any number of
\* files, whatever the uploads that were under way at the stop come to.
THEOREM VodIsPlayable == Spec => []ReplayInv
<1>1. VodInv => ReplayInv
  BY DEF VodInv, ReplayInv, VodNamesStored, ListingIsStored
<1> QED  BY VodInductive, <1>1, PTL

\* And it misses nothing that was reported done before the bucket was listed.
THEOREM VodIsComplete == Spec => []VodHasSettled
<1>1. VodInv => VodHasSettled
  BY DEF VodInv, VodHasSettled
<1> QED  BY VodInductive, <1>1, PTL
=============================================================================

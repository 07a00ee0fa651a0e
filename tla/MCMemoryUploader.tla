--------------------------- MODULE MCMemoryUploader ---------------------------
(* A small instance of MemoryUploader for TLC: a segment and two versions  *)
(* of the playlist, which are alike but for their bytes.                   *)
EXTENDS MemoryUploader

CONSTANTS seg, list1, list2

MCJobs == {seg, list1, list2}
MCKeys == {"seg", "list"}
MCKeyOf == [j \in MCJobs |-> IF j = seg THEN "seg" ELSE "list"]
MCPriority == [j \in MCJobs |-> IF j = seg THEN 100 ELSE 255]

MCSymmetry == Permutations({list1, list2})
=============================================================================

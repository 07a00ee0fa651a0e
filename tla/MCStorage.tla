------------------------------ MODULE MCStorage ------------------------------
(***************************************************************************)
(* Small instances of the parts of the storage layer that the live path    *)
(* does not call: one of the three uploaders, or the memory buffers.       *)
(***************************************************************************)
EXTENDS HttpUploaders, MemoryBuffer

VARIABLE side   \* which of the two runs

\* Two calls under one key and one under another.
MCJobs == 1..3
MCKeys == {"seg", "list"}
MCKeyOf == <<"seg", "list", "list">>

MCInit ==
    /\ side \in {"uploader", "buffer"}
    /\ Init
    /\ BufferInit
    /\ side = "uploader" => in_order
    /\ side = "buffer" => kind = "file"

UploaderRuns == side = "uploader" /\ Next /\ UNCHANGED <<side, buffer_vars>>
BufferRuns == side = "buffer" /\ BufferNext /\ UNCHANGED <<side, vars>>

MCNext == UploaderRuns \/ BufferRuns

MCSpec ==
    /\ MCInit
    /\ [][MCNext]_<<side, vars, buffer_vars>>
    /\ WF_vars(side = "uploader" /\ (\E j \in Jobs : Step(j)) /\ UNCHANGED <<side, buffer_vars>>)
=============================================================================

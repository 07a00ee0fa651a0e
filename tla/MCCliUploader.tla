---------------------------- MODULE MCCliUploader ----------------------------
(* A small instance of CliUploader for TLC.                                *)
EXTENDS CliUploader

\* A segment and two versions of the playlist under one key, in the order in
\* which the file watcher queues them: more jobs than permits.
MCJobs == 1..3
MCKeys == {"seg", "list"}
MCKeyOf == <<"seg", "list", "list">>
MCTempNames == {"t1", "t2"}
=============================================================================

---------------------------- MODULE MCFileWatcher ----------------------------
(* Small instances of FileWatcher for TLC.  SegmentLimit exceeds           *)
(* MaxSegments, so that the window slides, and ProcessedLimit where the    *)
(* clearing of processed_segments is the point.                            *)
EXTENDS FileWatcher
=============================================================================

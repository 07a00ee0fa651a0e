-------------------------- MODULE MCStreamLifecycle --------------------------
(* Small instances of StreamLifecycle for TLC.                             *)
EXTENDS StreamLifecycle, TLC

\* The hash keeps the ids of the instance's streams apart.
MCIds == Names
MCIdOf == [n \in Names |-> n]

\* Connections are interchangeable.
MCSymmetry == Permutations(Sessions)
=============================================================================

------------------------------ MODULE MCRuntime ------------------------------
(* A small instance of Runtime for TLC.                                    *)
EXTENDS Runtime
=============================================================================

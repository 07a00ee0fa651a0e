---------------------------- MODULE MCLLHlsManager ----------------------------
(* Small instances of LLHlsManager for TLC.                                *)
EXTENDS LLHlsManager
=============================================================================

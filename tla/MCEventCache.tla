------------------------------ MODULE MCEventCache ------------------------------
(***************************************************************************)
(* A small instance of EventCache for TLC: all its definitions are the     *)
(* module's own.                                                           *)
(***************************************************************************)
EXTENDS EventCache
================================================================================

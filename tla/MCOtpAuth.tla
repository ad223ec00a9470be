------------------------------- MODULE MCOtpAuth -------------------------------
(***************************************************************************)
(* Small instances of OtpAuth for TLC.                                     *)
(***************************************************************************)
EXTENDS OtpAuth, TLC

Symmetry == Permutations(Codes) \cup Permutations(RegisterRequests)
                \cup Permutations(VerifyRequests) \cup Permutations(ResendRequests)
================================================================================

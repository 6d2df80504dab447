----------------------------- MODULE MCObjects -----------------------------
(***************************************************************************)
(* Instances of Objects for TLC.                                           *)
(***************************************************************************)
EXTENDS Objects

=============================================================================

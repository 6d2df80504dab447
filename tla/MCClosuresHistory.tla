------------------------- MODULE MCClosuresHistory -------------------------
(***************************************************************************)
(* Instance of ClosuresHistory for TLC.                                    *)
(***************************************************************************)
EXTENDS ClosuresHistory

=============================================================================

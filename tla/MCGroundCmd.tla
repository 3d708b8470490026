----------------------------- MODULE MCGroundCmd -----------------------------
(***************************************************************************)
(* GroundCmd on a small instance: its constants are numbers.               *)
(***************************************************************************)
EXTENDS GroundCmdProperties

=============================================================================

-------------------------- MODULE MCControlChannel --------------------------
(***************************************************************************)
(* Small instances of ControlChannel: a command of three bytes and an      *)
(* event of four, taken at once or in pieces.                              *)
(***************************************************************************)
EXTENDS ControlChannel
=============================================================================

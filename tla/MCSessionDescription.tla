------------------------ MODULE MCSessionDescription ------------------------
(***************************************************************************)
(* A small instance of SessionDescription for TLC.                         *)
(***************************************************************************)
EXTENDS SessionDescription
=============================================================================

------------------------------ MODULE MCPolling ------------------------------
(***************************************************************************)
(* A small instance of Polling for TLC.                                    *)
(***************************************************************************)
EXTENDS Polling
=============================================================================

------------------------- MODULE MCConnectionManager -------------------------
(***************************************************************************)
(* Small instances of ConnectionManager: the configurations name the       *)
(* generations and give the bounds.                                        *)
(***************************************************************************)
EXTENDS ConnectionManager
=============================================================================

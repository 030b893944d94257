-------------------------- MODULE MCServerProcess --------------------------
(***************************************************************************)
(* Two replicas of one database.                                           *)
(***************************************************************************)
EXTENDS ServerProcess

CONSTANTS r1, r2
=============================================================================

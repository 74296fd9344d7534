--------------------------- MODULE MCStatusRefresh ---------------------------
(***************************************************************************)
(* A small instance of StatusRefresh: one refresh against every other      *)
(* writer of the status.                                                   *)
(***************************************************************************)
EXTENDS StatusRefresh

CONSTANT r1
=============================================================================

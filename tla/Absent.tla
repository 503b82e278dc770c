-------------------------------- MODULE Absent --------------------------------
(***************************************************************************)
(* What a nullable column, a missing Redis key or a variable not yet set   *)
(* holds.  The modules share it, so that those that are explored or proved *)
(* together can be extended together.                                      *)
(***************************************************************************)
CONSTANT None
===============================================================================

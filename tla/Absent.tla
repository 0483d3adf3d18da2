------------------------------- MODULE Absent -------------------------------
(***************************************************************************)
(* The value of what is not there: undefined and null in the client.       *)
(***************************************************************************)

CONSTANT None
=============================================================================

------------------------------- MODULE Absent -------------------------------
(***************************************************************************)
(* What null, undefined and a parameter left out of a request are in the   *)
(* modules of the web application.                                         *)
(***************************************************************************)
CONSTANT none
=============================================================================

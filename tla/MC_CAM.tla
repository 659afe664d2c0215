------------------------------- MODULE MC_CAM -------------------------------
(***************************************************************************)
(* Instances of the camera controller for TLC.                             *)
(***************************************************************************)
EXTENDS D5M_CONTROLLER_LINKER

(* No pixel has this number. *)
MCNoColor == -1
=============================================================================

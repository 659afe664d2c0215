------------------------------ MODULE MC_SYSTEM ------------------------------
(***************************************************************************)
(* An instance of the whole system for TLC.                                *)
(***************************************************************************)
EXTENDS System

(* No pixel has this number. *)
MCNoColor == -1

(* Exit Sleep and one parameter, 0x2C, stand for LCD_configure's words.    *)
MCCommands == {17}
MCDataWords == {44}
=============================================================================

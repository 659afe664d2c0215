------------------------------- MODULE MC_LCD -------------------------------
(***************************************************************************)
(* Instances of LCD_controller for TLC.                                    *)
(***************************************************************************)
EXTENDS LCD_controller

(* Two frame buffers that do not overlap, the first at 0 as in the program *)
MCStartAddresses == {0, 64}
MCOneAddress == {16}

(* Exit Sleep (0x11) stands for the commands; a parameter may have any     *)
(* value, 0x2C, the code of the display command, among them.               *)
MCCommands == {17}
MCDataWords == {5, 44}
MCNoWords == {}
=============================================================================

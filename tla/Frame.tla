-------------------------------- MODULE Frame --------------------------------
(***************************************************************************)
(* What the DMA master, the LT24 interface and the software have in        *)
(* common: the image format, pixels of one 32-bit word each, and the       *)
(* command that opens a frame on the panel.                                *)
(***************************************************************************)
EXTENDS Integers

CONSTANT IMG_WORD_LEN  (* pixels in a frame (320*240)                      *)

ASSUME FrameAssumption == IMG_WORD_LEN \in Nat \ {0}

BUFFER_LENGTH == 4 * IMG_WORD_LEN  (* bytes of a frame *)

CMD_DISPLAY == 44  (* x"2C", the panel's Memory Write command *)
=============================================================================

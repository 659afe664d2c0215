------------------------------- MODULE SD_utils -------------------------------
(***************************************************************************)
(* The functions that fill the frame with a test picture (SD_utils.c), a   *)
(* call a step.  Nothing else accesses the memory meanwhile: main calls    *)
(* them, in the lab that comes before the camera, ahead of LCD_display.    *)
(***************************************************************************)
EXTENDS Frame

CONSTANTS
  HPS_0_BRIDGES_BASE,  (* the base of the memory (0)                       *)
  RED, GREEN, BLUE,    (* the colors of SD_fill_rows_RGB                   *)
  Colors,              (* the colors the program fills with                *)
  Image,               (* the words of an image file                       *)
  Blank                (* what a word holds before                         *)

VARIABLES
  sdram,    (* the words of the frame, by address                          *)
  filled    (* what the last call was to fill the frame with, or Blank     *)

vars == <<sdram, filled>>

REG_START_ADDRESS == HPS_0_BRIDGES_BASE
END_ADDRESS == REG_START_ADDRESS + BUFFER_LENGTH - 4

Addresses == {REG_START_ADDRESS + 4 * i : i \in 0..(IMG_WORD_LEN - 1)}

Init ==
  /\ sdram = [a \in Addresses |-> Blank]
  /\ filled = Blank

-----------------------------------------------------------------------------
(* The offsets the loop of SD_fill_range goes through.  The end is checked *)
(* against the last address, inclusive, and not reached by the loop.       *)
Offsets(start_addr, end_addr) ==
  IF end_addr > END_ADDRESS THEN {}
  ELSE {addr \in start_addr..(end_addr - 1) : (addr - start_addr) % 4 = 0}

(* IOWR_32DIRECT adds the base to an offset that is already an address. *)
Filled(memory, start_addr, end_addr, color) ==
  [a \in Addresses |->
     IF a - HPS_0_BRIDGES_BASE \in Offsets(start_addr, end_addr) THEN color
     ELSE memory[a]]

SD_fill_range(start_addr, end_addr, color) ==
  /\ sdram' = Filled(sdram, start_addr, end_addr, color)
  /\ filled' = Blank

SD_fill_color(color) ==
  /\ sdram' = Filled(sdram, REG_START_ADDRESS, END_ADDRESS, color)
  /\ filled' = color

SD_fill_rows_RGB ==
  LET third == BUFFER_LENGTH \div 3
      red   == Filled(sdram, REG_START_ADDRESS, REG_START_ADDRESS + third - 1, RED)
      green == Filled(red, REG_START_ADDRESS + third,
                      REG_START_ADDRESS + (2 * BUFFER_LENGTH) \div 3 - 1, GREEN)
  IN  /\ sdram' = Filled(green, REG_START_ADDRESS + (2 * BUFFER_LENGTH) \div 3,
                         END_ADDRESS, BLUE)
      /\ filled' = Blank

(* fread stops where the file ends.  (Without a file the program exits.) *)
SD_import_image(words) ==
  /\ sdram' = [a \in Addresses |->
                 IF a < REG_START_ADDRESS + 4 * words THEN Image ELSE sdram[a]]
  /\ filled' = IF words = IMG_WORD_LEN THEN Image ELSE Blank

Next ==
  \/ \E start_addr \in Addresses, end_addr \in Addresses \union {END_ADDRESS + 4},
        color \in Colors :
       SD_fill_range(start_addr, end_addr, color)
  \/ \E color \in Colors : SD_fill_color(color)
  \/ SD_fill_rows_RGB
  \/ \E words \in 0..IMG_WORD_LEN : SD_import_image(words)

Spec == Init /\ [][Next]_vars

-----------------------------------------------------------------------------
(* Property.                                                               *)

(* After SD_fill_color every word the LCD will show has the color          *)
(* (SD_utils.h:45, "Fills SDRAM with specified color").                    *)
FrameIsFilled ==
  filled # Blank => \A a \in Addresses : sdram[a] = filled
=============================================================================

------------------------------- MODULE D5M_CTRL -------------------------------
(***************************************************************************)
(* The camera interface (D5M_CTRL.vhd), clocked by the camera's pixel      *)
(* clock: it takes two columns of four, pairs the pixels of a line with    *)
(* those of the line before through the Bayer FIFO, and hands each color,  *)
(* made of a cell of two by two pixels, to the Buffer FIFO.                *)
(*                                                                         *)
(* Every process is one operator that gives its registers at a clock edge. *)
(* Outside the state BUSY all but the state are held in asynchronous       *)
(* reset, so an edge that leaves BUSY resets them too.  valid_row is '1'   *)
(* at power-up and in reset and is assigned nowhere else; it is left out.  *)
(* A color keeps its four pixels apart instead of adding up the greens.    *)
(***************************************************************************)
EXTENDS Integers, Sequences

CONSTANTS
  BAYER_LINE,  (* fill of the Bayer FIFO that ends a line of pixels to     *)
               (* keep (640)                                               *)
  ROW_END,     (* last value of downsampling_row_counter (x"9FF")          *)
  NoColor      (* a pixel that is none                                     *)

ASSUME CtrlAssumption ==
  /\ BAYER_LINE \in Nat \ {0}
  /\ ROW_END \in Nat
  /\ NoColor \in Int

VARIABLES
  ctrl_state,
  data_bridge, row_counter, col_counter, pixel_valid,
  bayer,  (* the Bayer FIFO, oldest first *)
  push_state, color_ready, output_color, buffer_write

ctrlVars == <<ctrl_state, data_bridge, row_counter, col_counter, pixel_valid,
              bayer, push_state, color_ready, output_color, buffer_write>>

Blank == [b |-> NoColor, g1 |-> NoColor, g2 |-> NoColor, r |-> NoColor]

CtrlTypeOK ==
  /\ ctrl_state \in {"IDLE", "BUSY"}
  /\ data_bridge \in Int
  /\ row_counter \in 0..ROW_END /\ col_counter \in 0..3
  /\ pixel_valid \in BOOLEAN
  /\ bayer \in Seq(Int)
  /\ push_state \in BOOLEAN /\ color_ready \in BOOLEAN
  /\ output_color \in [b : Int, g1 : Int, g2 : Int, r : Int]
  /\ buffer_write \in BOOLEAN

CtrlInit ==
  /\ ctrl_state = "IDLE"
  /\ data_bridge = NoColor
  /\ row_counter = 0 /\ col_counter = 0
  /\ pixel_valid = FALSE
  /\ bayer = <<>>
  /\ push_state = TRUE /\ color_ready = FALSE
  /\ output_color = Blank
  /\ buffer_write = FALSE

(* The asynchronous reset of everything but the state and data_bridge. *)
CtrlClear ==
  /\ row_counter' = 0 /\ col_counter' = 0
  /\ pixel_valid' = FALSE
  /\ bayer' = <<>>
  /\ push_state' = TRUE /\ color_ready' = FALSE
  /\ output_color' = Blank
  /\ buffer_write' = FALSE

CtrlReset == ctrl_state' = "IDLE" /\ UNCHANGED data_bridge /\ CtrlClear

usedw == Len(bayer)

bayer_fifo_push == push_state /\ pixel_valid
bayer_fifo_pop  == ~push_state /\ pixel_valid

-----------------------------------------------------------------------------
(* The state machine: a stop wins over a start. *)
Control(start_i, stop_i) ==
  ctrl_state' = IF stop_i THEN "IDLE"
                ELSE IF start_i THEN "BUSY" ELSE ctrl_state

(* Mutant of DownSampling: the columns are not skipped. *)
AllColumns(active) ==
  /\ row_counter' = IF ~active THEN row_counter
                    ELSE IF row_counter = ROW_END THEN 0 ELSE row_counter + 1
  /\ col_counter' = IF active THEN (col_counter + 1) % 4 ELSE col_counter
  /\ pixel_valid' = active

(* Mutant of DownSampling: the row counter does not start again. *)
RowNotWrapped(active) ==
  /\ row_counter' = IF active THEN row_counter + 1 ELSE row_counter
  /\ col_counter' = IF active THEN (col_counter + 1) % 4 ELSE col_counter
  /\ pixel_valid' = (active /\ col_counter < 2 /\ row_counter < ROW_END)

(* Two columns of four are valid; the pixel after ROW_END - 1 is not. *)
DownSampling(active) ==
  /\ row_counter' = IF ~active THEN row_counter
                    ELSE IF row_counter = ROW_END THEN 0 ELSE row_counter + 1
  /\ col_counter' = IF active THEN (col_counter + 1) % 4 ELSE col_counter
  /\ pixel_valid' = (active /\ col_counter < 2 /\ row_counter < ROW_END)

(* Mutant of BayerFIFO: the switch comes with the pixel after the row. *)
LateSwitch ==
  /\ bayer' = CASE bayer_fifo_push -> Append(bayer, data_bridge)
                [] bayer_fifo_pop /\ bayer # <<>> -> Tail(bayer)
                [] OTHER -> bayer
  /\ push_state' = CASE usedw = BAYER_LINE + 1 -> FALSE
                     [] usedw = 0 -> TRUE
                     [] OTHER -> push_state

(* The Bayer FIFO fills with one line and empties with the next. *)
BayerFIFO ==
  /\ bayer' = CASE bayer_fifo_push -> Append(bayer, data_bridge)
                [] bayer_fifo_pop /\ bayer # <<>> -> Tail(bayer)
                [] OTHER -> bayer
  /\ push_state' = CASE usedw = BAYER_LINE -> FALSE
                     [] usedw = 0 -> TRUE
                     [] OTHER -> push_state

(* The first pixel of a pair brings blue and the green above it, the       *)
(* second the other green and the red above it.                            *)
Debayering ==
  LET first == usedw % 2 = 0
      q == IF bayer = <<>> THEN NoColor ELSE Head(bayer)
  IN  /\ output_color' =
           IF ~bayer_fifo_pop THEN output_color
           ELSE IF first
                THEN [output_color EXCEPT !.b = data_bridge, !.g1 = q]
                ELSE [output_color EXCEPT !.g2 = data_bridge, !.r = q]
      /\ color_ready' = (bayer_fifo_pop /\ ~first /\ ~color_ready)

(* One edge of the pixel clock. *)
CtrlTick(fval, lval, d, start_i, stop_i) ==
  /\ Control(start_i, stop_i)
  /\ data_bridge' = IF ctrl_state = "BUSY" THEN d ELSE data_bridge
  /\ IF ctrl_state = "BUSY" /\ ctrl_state' = "BUSY"
     THEN /\ DownSampling(fval /\ lval)
          /\ BayerFIFO
          /\ Debayering
          /\ buffer_write' = color_ready
     ELSE CtrlClear
=============================================================================

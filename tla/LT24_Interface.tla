--------------------------- MODULE LT24_Interface ---------------------------
(***************************************************************************)
(* The 8080-I bus interface to the ILI9341 panel driver                    *)
(* (LT24_Interface.vhd).  One operator per FSM state gives what a clock    *)
(* edge does in that state; the write cycles are counted by cnt_cycles as  *)
(* in the code.  LT24_RDX is constantly high and left out.                 *)
(***************************************************************************)
EXTENDS Frame

CONSTANT HiZ  (* the data bus when the interface does not drive it         *)

VARIABLES
  lt_state, cnt_cycles, cnt,
  pins,             (* CSX, DCX, WRX, D and Res_n                          *)
  LT24_LCD_ON, cmd_data_ready, display_finished, start_out, FIFO_rdreq

lt24Vars == <<lt_state, cnt_cycles, cnt, pins, LT24_LCD_ON, cmd_data_ready,
              display_finished, start_out, FIFO_rdreq>>

LT24_STATES == {"INIT", "WRITE_CMD", "WRITE_DATA", "DISPLAY", "WAIT_TRANSFER",
                "CHECK_FIFO", "CHECK_TRANSFER"}

(* What the data bus of the panel can carry. *)
Bus == Nat \union {HiZ}

PinType == [CSX : 0..1, DCX : 0..1, WRX : 0..1, D : Bus, Res_n : 0..1]

(* cnt_cycles and cnt have the ranges of their VHDL declarations. *)
LT24TypeOK ==
  /\ lt_state \in LT24_STATES
  /\ cnt_cycles \in 0..5 /\ cnt \in 0..IMG_WORD_LEN
  /\ pins \in PinType /\ LT24_LCD_ON \in Nat
  /\ cmd_data_ready \in BOOLEAN /\ display_finished \in BOOLEAN
  /\ start_out \in BOOLEAN /\ FIFO_rdreq \in BOOLEAN

Pins(csx, dcx, wrx, d, res_n) ==
  [CSX |-> csx, DCX |-> dcx, WRX |-> wrx, D |-> d, Res_n |-> res_n]

(* The pins between two write cycles, and while the panel is in reset. *)
BusIdle  == Pins(1, 1, 1, HiZ, 1)
BusReset == Pins(1, 1, 1, HiZ, 0)

LT24Init ==
  /\ lt_state = "INIT"
  /\ cnt_cycles = 0
  /\ cnt = 0
  /\ pins = BusReset
  /\ LT24_LCD_ON = 0
  /\ cmd_data_ready = FALSE
  /\ display_finished = FALSE
  /\ start_out = FALSE
  /\ FIFO_rdreq = FALSE

(* The reset branch assigns neither LT24_LCD_ON, start_out nor FIFO_rdreq. *)
LT24Reset ==
  /\ lt_state' = "INIT"
  /\ cnt_cycles' = 0
  /\ cnt' = 0
  /\ pins' = BusReset
  /\ cmd_data_ready' = FALSE
  /\ display_finished' = FALSE
  /\ UNCHANGED <<LT24_LCD_ON, start_out, FIFO_rdreq>>

-----------------------------------------------------------------------------
(* Mutant of Strobe: the panel is deselected at the rising edge of WRX. *)
StrobeDeselect == [pins EXCEPT !.WRX = 1, !.CSX = 1]

(* The pins at the first edge of a write cycle, and at its second edge,    *)
(* where the rising WRX makes the panel latch D.                           *)
Drive(dcx, d) == Pins(0, dcx, 0, d, pins.Res_n)
Strobe        == [pins EXCEPT !.WRX = 1]
Release       == Pins(1, 1, pins.WRX, HiZ, pins.Res_n)

LtINIT(cmd_or_data) ==
  /\ lt_state = "INIT"
  /\ lt_state' = CASE cmd_or_data = 1 -> "WRITE_CMD"
                   [] cmd_or_data = 2 -> "WRITE_DATA"
                   [] OTHER           -> "INIT"
  /\ cnt' = 0
  /\ cnt_cycles' = 0
  /\ pins' = BusIdle
  /\ cmd_data_ready' = FALSE
  /\ display_finished' = FALSE
  /\ FIFO_rdreq' = FALSE
  /\ start_out' = FALSE

(* The display command is told by its low byte.                            *)
(* A display command holds back cmd_data_ready until the last cycle, when  *)
(* it hands over to WAIT_TRANSFER; any other command raises it early.      *)
LtWRITE_CMD(cmd_data) ==
  LET display == cmd_data % 256 = CMD_DISPLAY
  IN  /\ lt_state = "WRITE_CMD"
      /\ CASE cnt_cycles = 0 ->
              /\ pins' = Drive(0, cmd_data)
              /\ cnt_cycles' = 1
              /\ start_out' = FALSE
              /\ UNCHANGED <<lt_state, cmd_data_ready>>
           [] cnt_cycles = 1 ->
              /\ pins' = Strobe
              /\ cnt_cycles' = 2
              /\ start_out' = FALSE
              /\ cmd_data_ready' = (cmd_data_ready \/ ~display)
              /\ UNCHANGED lt_state
           [] cnt_cycles = 2 ->
              /\ pins' = Release
              /\ cnt_cycles' = 3
              /\ start_out' = display
              /\ UNCHANGED <<lt_state, cmd_data_ready>>
           [] OTHER ->
              /\ cnt_cycles' = 0
              /\ start_out' = FALSE
              /\ cmd_data_ready' = display
              /\ lt_state' = IF display THEN "WAIT_TRANSFER" ELSE "INIT"
              /\ UNCHANGED pins
      /\ UNCHANGED <<cnt, display_finished, FIFO_rdreq>>

LtWRITE_DATA(cmd_data) ==
  /\ lt_state = "WRITE_DATA"
  /\ cnt_cycles' = IF cnt_cycles < 3 THEN cnt_cycles + 1 ELSE 0
  /\ pins' = CASE cnt_cycles = 0 -> Drive(1, cmd_data)
               [] cnt_cycles = 1 -> Strobe
               [] cnt_cycles = 2 -> Release
               [] OTHER          -> pins
  /\ cmd_data_ready' = (cnt_cycles = 1 \/ (cnt_cycles < 3 /\ cmd_data_ready))
  /\ lt_state' = IF cnt_cycles < 3 THEN "WRITE_DATA" ELSE "INIT"
  /\ start_out' = FALSE
  /\ UNCHANGED <<cnt, display_finished, FIFO_rdreq>>

LtWAIT_TRANSFER(transfer_start) ==
  /\ lt_state = "WAIT_TRANSFER"
  /\ lt_state' = IF transfer_start THEN "CHECK_FIFO" ELSE "WAIT_TRANSFER"
  /\ start_out' = FALSE
  /\ UNCHANGED <<cnt, cnt_cycles, pins, cmd_data_ready, display_finished,
                 FIFO_rdreq>>

LtCHECK_FIFO(empty) ==
  /\ lt_state = "CHECK_FIFO"
  /\ IF empty THEN UNCHANGED <<lt_state, FIFO_rdreq>>
     ELSE lt_state' = "DISPLAY" /\ FIFO_rdreq' = TRUE
  /\ cmd_data_ready' = FALSE
  /\ start_out' = FALSE
  /\ UNCHANGED <<cnt, cnt_cycles, pins, display_finished>>

(* Mutant of LtDISPLAY: cnt_cycles is not reset at the end of a pixel. *)
CyclesKept(q) ==
  /\ lt_state = "DISPLAY"
  /\ cnt_cycles' = cnt_cycles + 1
  /\ FIFO_rdreq' = (cnt_cycles # 0 /\ FIFO_rdreq)
  /\ pins' = CASE cnt_cycles = 1 -> Drive(1, q)
               [] cnt_cycles = 2 -> Strobe
               [] cnt_cycles = 3 -> Release
               [] OTHER          -> pins
  /\ lt_state' = IF cnt_cycles < 4 THEN "DISPLAY" ELSE "CHECK_TRANSFER"
  /\ start_out' = FALSE
  /\ UNCHANGED <<cnt, cmd_data_ready, display_finished>>

LtDISPLAY(q) ==
  /\ lt_state = "DISPLAY"
  /\ cnt_cycles' = IF cnt_cycles < 4 THEN cnt_cycles + 1 ELSE 0
  /\ FIFO_rdreq' = (cnt_cycles # 0 /\ FIFO_rdreq)
  /\ pins' = CASE cnt_cycles = 1 -> Drive(1, q)
               [] cnt_cycles = 2 -> Strobe
               [] cnt_cycles = 3 -> Release
               [] OTHER          -> pins
  /\ lt_state' = IF cnt_cycles < 4 THEN "DISPLAY" ELSE "CHECK_TRANSFER"
  /\ start_out' = FALSE
  /\ UNCHANGED <<cnt, cmd_data_ready, display_finished>>

(* Mutant of LtCHECK_TRANSFER: the next pixel is read without a look at    *)
(* the empty flag.                                                         *)
EmptyIgnored(empty) ==
  /\ lt_state = "CHECK_TRANSFER"
  /\ cnt' = cnt + 1
  /\ IF cnt = IMG_WORD_LEN - 1
     THEN /\ lt_state' = "INIT"
          /\ cmd_data_ready' = TRUE
          /\ display_finished' = TRUE
          /\ UNCHANGED FIFO_rdreq
     ELSE /\ lt_state' = "DISPLAY"
          /\ FIFO_rdreq' = TRUE
          /\ UNCHANGED <<cmd_data_ready, display_finished>>
  /\ start_out' = FALSE
  /\ UNCHANGED <<cnt_cycles, pins>>

LtCHECK_TRANSFER(empty) ==
  /\ lt_state = "CHECK_TRANSFER"
  /\ cnt' = cnt + 1
  /\ IF cnt = IMG_WORD_LEN - 1
     THEN /\ lt_state' = "INIT"
          /\ cmd_data_ready' = TRUE
          /\ display_finished' = TRUE
          /\ UNCHANGED FIFO_rdreq
     ELSE /\ lt_state' = IF empty THEN "CHECK_FIFO" ELSE "DISPLAY"
          /\ FIFO_rdreq' = (FIFO_rdreq \/ ~empty)
          /\ UNCHANGED <<cmd_data_ready, display_finished>>
  /\ start_out' = FALSE
  /\ UNCHANGED <<cnt_cycles, pins>>

(* One clock edge with the inputs sampled at it. *)
LT24Tick(cmd_or_data, cmd_data, cmd_LCD_ON, empty, q, transfer_start) ==
  /\ LT24_LCD_ON' = cmd_LCD_ON
  /\ \/ LtINIT(cmd_or_data)
     \/ LtWRITE_CMD(cmd_data)
     \/ LtWRITE_DATA(cmd_data)
     \/ LtWAIT_TRANSFER(transfer_start)
     \/ LtCHECK_FIFO(empty)
     \/ LtDISPLAY(q)
     \/ LtCHECK_TRANSFER(empty)
=============================================================================

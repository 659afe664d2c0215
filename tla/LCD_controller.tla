--------------------------- MODULE LCD_controller ---------------------------
(***************************************************************************)
(* The LCD controller (LCD_controller.vhd): slave, DMA master, LT24        *)
(* interface and FIFO wired together and clocked by one clock, with the    *)
(* program on one side and the SDRAM and the panel on the others.          *)
(*                                                                         *)
(* A step is a clock cycle.  In it every component makes the step its      *)
(* process makes at the rising edge, from the values its inputs have       *)
(* before the edge; the program, the SDRAM's waitrequest and its           *)
(* readdatavalid are free within their protocols.  The word at address a   *)
(* of the SDRAM is a itself, so that every pixel tells where it is from.   *)
(***************************************************************************)
EXTENDS FIFO, Master_Interface_DMA, LT24_Interface, LT24_utils

CONSTANTS
  AnyReset,   (* whether a reset may hit a transfer in progress            *)
  MaxResets,  (* bound on the resets of a behaviour                        *)
  MaxPending  (* bound on the words issued and not yet received            *)

ASSUME BoundAssumption ==
  AnyReset \in BOOLEAN /\ MaxResets \in Nat /\ MaxPending \in Nat

VARIABLES
  mem_left, mem_addr,             (* the burst the SDRAM is answering:     *)
                                  (* words left, address of the next       *)
  pending, panel, frame, shown,   (* as in PanelStream                     *)
  resets                          (* resets so far                         *)

memVars    == <<mem_left, mem_addr>>
streamVars == <<pending, panel, frame, shown>>
vars == <<fifoVars, dmaVars, lt24Vars, slaveVars, progVars, memVars,
          streamVars, resets>>

PanelOff == [command |-> 0, parameter |-> 0, flip |-> FALSE]

Init ==
  /\ FifoInit
  /\ DmaInit
  /\ LT24Init
  /\ SlaveInit
  /\ ProgramInit
  /\ mem_left = 0
  /\ mem_addr = 0
  /\ pending = <<>>
  /\ panel = PanelOff
  /\ frame = 0
  /\ shown = <<>>
  /\ resets = 0

-----------------------------------------------------------------------------
(* The SDRAM behind the Avalon interconnect: it accepts a read when it     *)
(* does not assert waitrequest, and answers with the words of the burst in *)
(* order, each after any number of cycles.                                 *)

MemoryTick(waitrequest, readdatavalid) ==
  LET accepted == am_read(FIFO_almost_full) /\ ~waitrequest
      left == IF readdatavalid THEN mem_left - 1 ELSE mem_left
  IN  /\ mem_left' = IF accepted THEN left + burst_tot ELSE left
      /\ mem_addr' = IF accepted THEN current_address
                     ELSE IF readdatavalid THEN mem_addr + 4 ELSE mem_addr

(* The panel latches D on the rising edge of WRX while it is selected.     *)
(* Data after the Memory Write command are pixels.                         *)

Latches == pins.CSX = 0 /\ pins.WRX = 0 /\ pins'.WRX = 1

LatchesPixel == Latches /\ pins.DCX = 1 /\ panel.command = CMD_DISPLAY

LatchesWord == Latches /\ ~LatchesPixel

Received(p) == IF p = <<>> THEN p ELSE Tail(p)

Kind(acc) == IF acc.data = TYPE_CMD THEN "command" ELSE "parameter"

(* A word is issued by the write of RegCmdOrData. *)
Issues(acc) == Writes(acc, "CmdOrData")

StreamTick(acc) ==
  LET left == IF LatchesWord THEN Received(pending) ELSE pending
  IN  /\ Issues(acc) => Len(pending) < MaxPending
      /\ pending' = IF Issues(acc)
                    THEN Append(left, [kind |-> Kind(acc), word |-> word])
                    ELSE left
      /\ panel' = IF ~LatchesWord THEN panel
                  ELSE [command   |-> IF pins.DCX = 0 THEN pins.D ELSE panel.command,
                        parameter |-> IF pins.DCX = 0 THEN panel.parameter ELSE pins.D,
                        flip      |-> ~panel.flip]
      /\ shown' = IF LatchesPixel THEN Append(shown, pins.D)
                  ELSE IF LatchesWord /\ pins.DCX = 0 THEN <<>> ELSE shown
      /\ frame' = IF Issues(acc) /\ Kind(acc) = "command" /\ word = CMD_DISPLAY
                  THEN reg["StartAddress"] ELSE frame

-----------------------------------------------------------------------------

(* The DMA has latched the address of a frame that is not yet shown. *)
Transferring ==
  lt_state \in {"WAIT_TRANSFER", "CHECK_FIFO", "DISPLAY", "CHECK_TRANSFER"}

(* A display is under way, from its command on. *)
Displaying ==
  Transferring \/ (lt_state = "WRITE_CMD" /\ out["CmdData"] = CMD_DISPLAY)

(* One clock cycle with the access of the program and the two signals of   *)
(* the SDRAM.  The DMA clears the FIFO asynchronously while it is IDLE.    *)
Cycle(acc, waitrequest, readdatavalid) ==
  /\ readdatavalid => mem_left > 0
  /\ ProgramTick(acc, Displaying, Transferring)
  /\ SlaveTick(acc, cmd_data_ready)
  /\ DmaTick(start_out, out["StartAddress"], out["BurstTot"], waitrequest,
             readdatavalid, FIFO_almost_full, display_finished)
  /\ LT24Tick(out["CmdOrData"], out["CmdData"], out["LCDON"], FIFO_empty,
              FIFO_q, transfer_start)
  /\ IF dma_state' = "IDLE" THEN FifoClear
     ELSE FifoClock(FIFO_rdreq, FIFO_wrreq(readdatavalid), mem_addr)
  /\ MemoryTick(waitrequest, readdatavalid)
  /\ StreamTick(acc)
  /\ UNCHANGED resets

Tick ==
  \E acc \in Accesses, waitrequest, readdatavalid \in BOOLEAN :
    Cycle(acc, waitrequest, readdatavalid)

(* The DMA has no transfer in progress and none is being started. *)
DmaQuiet == dma_state \in {"INIT", "IDLE"} /\ ~start_out

(* The reset of the board: processor, interconnect, controller and panel.  *)
Reset ==
  /\ resets < MaxResets
  /\ AnyReset \/ DmaQuiet
  /\ FifoClear
  /\ DmaReset
  /\ LT24Reset
  /\ SlaveReset
  /\ ProgramReset
  /\ mem_left' = 0
  /\ mem_addr' = 0
  /\ pending' = <<>>
  /\ panel' = PanelOff
  /\ frame' = 0
  /\ shown' = <<>>
  /\ resets' = resets + 1

Next == Tick \/ Reset

Spec == Init /\ [][Next]_vars

(* Fairness: the clock runs, the SDRAM neither refuses a read nor          *)
(* withholds a word forever.                                               *)
Accepts ==
  mem_left = 0 /\ (\E acc \in Accesses : Cycle(acc, FALSE, FALSE)) /\ mem_left' > 0
Answers ==
  mem_left > 0 /\ \E acc \in Accesses, waitrequest \in BOOLEAN : Cycle(acc, waitrequest, TRUE)
Fairness == WF_vars(Tick) /\ WF_vars(Accepts) /\ WF_vars(Answers)

FairSpec == Spec /\ Fairness

-----------------------------------------------------------------------------
(* Properties.                                                             *)

Issued == [kind : {"command", "parameter"}, word : Words \union {0}]

Panel == [command : Bus, parameter : Bus, flip : BOOLEAN]

(* The types of the variables. *)
TypeOK ==
  /\ FifoTypeOK
  /\ DmaTypeOK
  /\ LT24TypeOK
  /\ SlaveTypeOK
  /\ ProgramTypeOK
  /\ mem_left \in Nat /\ mem_addr \in Nat
  /\ pending \in Seq(Issued) /\ shown \in Seq(Bus) /\ frame \in Nat
  /\ panel \in Panel
  /\ resets \in 0..MaxResets

(* The words of a burst under way always have room in the FIFO: the DMA    *)
(* checks almost_full once, before it asks, and has no way to stop the     *)
(* SDRAM afterwards.  (READ_REQUEST, FIFO_almost_full.)                    *)
ReservedSpace == Len(fifo) + mem_left <= lpm_numwords

(* A read request reaches the FIFO one cycle after the empty flag was      *)
(* looked at; the word is still there.  (CHECK_FIFO, CHECK_TRANSFER.)      *)
NoUnderflow == FIFO_rdreq => fifo # <<>>

(* Both one-cycle pulses between the two FSMs find the receiver in the     *)
(* state that listens: start_out the DMA in IDLE, display_finished the DMA *)
(* in WAIT_DISPLAY.  A pulse that is not heard is lost.                    *)
PulsesHeard ==
  /\ start_out => dma_state = "IDLE"
  /\ display_finished => dma_state = "WAIT_DISPLAY"

(* Every burst the DMA asks for lies inside the frame that was configured  *)
(* when the display command was issued.  (IDLE, VERIFY_ADDRESS.)           *)
ReadsStayInFrame ==
  am_read(FIFO_almost_full) =>
    /\ frame <= current_address
    /\ current_address + 4 * burst_tot <= frame + BUFFER_LENGTH

(* A read the SDRAM has not accepted is held unchanged, although it        *)
(* depends on almost_full and on a register the program can write: an      *)
(* Avalon master may not withdraw or change a waiting request.             *)
RequestHeld ==
  [][am_read(FIFO_almost_full) /\ dma_state' = "READ_REQUEST" =>
       /\ ~(FIFO_almost_full)'
       /\ UNCHANGED <<current_address, burst_tot>>]_vars

(* Across the rising edge of WRX, which makes the panel latch, the data    *)
(* and DCX do not change, the panel is selected, powered and out of reset. *)
WriteCycle ==
  [][pins.WRX = 0 /\ resets' = resets =>
       /\ pins'.D = pins.D /\ pins'.DCX = pins.DCX
       /\ pins.CSX = 0 /\ pins'.CSX = 0
       /\ pins.Res_n = 1 /\ LT24_LCD_ON = 1]_vars

(* When the DMA goes back to IDLE and clears the FIFO, every word that was *)
(* read from the SDRAM has been sent to the panel.                         *)
NothingDiscarded ==
  [][dma_state' = "IDLE" => fifo = <<>> /\ mem_left = 0]_vars

(* The controller implements the stream: every word exactly once, every    *)
(* pixel of the frame in order.                                            *)
Stream == INSTANCE PanelStream
StreamSpec == Stream!StreamSpec

(* Every word the program issues reaches the panel. *)
EveryWordArrives == pending # <<>> ~> pending = <<>>

(* Once the panel has the display command, it gets a whole frame and the   *)
(* controller is ready for the next one, unless the board is reset.        *)
DisplayCompletes ==
  panel.command = CMD_DISPLAY /\ Len(shown) < IMG_WORD_LEN
    ~> \/ Len(shown) = IMG_WORD_LEN /\ lt_state = "INIT" /\ dma_state = "IDLE"
       \/ panel = PanelOff
=============================================================================

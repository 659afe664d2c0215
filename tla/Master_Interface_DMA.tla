------------------------ MODULE Master_Interface_DMA ------------------------
(***************************************************************************)
(* The DMA master of the LCD controller (Master_Interface_DMA.vhd): it     *)
(* reads a frame from the SDRAM in bursts and writes the words to the      *)
(* pixel FIFO.                                                             *)
(*                                                                         *)
(* One operator per FSM state gives what a clock edge does in that state,  *)
(* the next-state process and the register process together.  The process  *)
(* state_logic assigns transfer_start in two states only, so the synthesis *)
(* keeps it in a latch: transfer_latch is what the latch holds and         *)
(* transfer_start what it puts out in the current cycle.  Addresses are    *)
(* VHDL integers; the SDRAM lies below 2^31, where they do not wrap.       *)
(***************************************************************************)
EXTENDS Frame

CONSTANT WORD_LENGTH (* how far end_address is from the frame's end (32)   *)

ASSUME WordAssumption == WORD_LENGTH \in Nat

VARIABLES
  dma_state, burst_cnt, burst_tot, current_address, end_address,
  transfer_latch

dmaVars == <<dma_state, burst_cnt, burst_tot, current_address, end_address,
             transfer_latch>>

MASTER_DMA_STATES == {"INIT", "IDLE", "READ_REQUEST", "READ_DATA",
                      "VERIFY_ADDRESS", "WAIT_DISPLAY"}

DmaTypeOK ==
  /\ dma_state \in MASTER_DMA_STATES
  /\ burst_cnt \in Nat /\ burst_tot \in Nat
  /\ current_address \in Nat /\ end_address \in Int
  /\ transfer_latch \in BOOLEAN

DmaInit ==
  /\ dma_state = "INIT"
  /\ burst_cnt = 0
  /\ burst_tot = 0
  /\ current_address = 0
  /\ end_address = 0
  /\ transfer_latch = FALSE

-----------------------------------------------------------------------------
(* Combinational outputs. *)

am_read(almost_full) == dma_state = "READ_REQUEST" /\ ~almost_full

FIFO_wrreq(readdatavalid) == dma_state = "READ_DATA" /\ readdatavalid

transfer_start ==
  \/ dma_state = "READ_DATA" /\ burst_cnt = burst_tot
  \/ dma_state # "INIT" /\ transfer_latch

(***************************************************************************)
(* Reset.  The register process is the only place that assigns state, and  *)
(* only in its clocked branch, so the reset leaves state as it was.        *)
(* burst_tot is not reset either, and the latch keeps what transfer_start  *)
(* was when the reset came.                                                *)
(***************************************************************************)
DmaReset ==
  /\ burst_cnt' = 0
  /\ current_address' = 0
  /\ end_address' = 0
  /\ transfer_latch' = transfer_start
  /\ UNCHANGED <<dma_state, burst_tot>>

-----------------------------------------------------------------------------
(* The states of the FSM. *)

DmaINIT ==
  /\ dma_state = "INIT"
  /\ dma_state' = "IDLE"
  /\ burst_cnt' = 0
  /\ current_address' = 0
  /\ UNCHANGED end_address

(* Mutant of DmaIDLE: end_address is the address after the last burst. *)
EndPastFrame(start_in, start_address_in) ==
  /\ dma_state = "IDLE"
  /\ IF start_in
     THEN /\ dma_state' = "READ_REQUEST"
          /\ current_address' = start_address_in
          /\ end_address' = start_address_in + BUFFER_LENGTH
     ELSE UNCHANGED <<dma_state, current_address, end_address>>
  /\ UNCHANGED burst_cnt

DmaIDLE(start_in, start_address_in) ==
  /\ dma_state = "IDLE"
  /\ IF start_in
     THEN /\ dma_state' = "READ_REQUEST"
          /\ current_address' = start_address_in
          /\ end_address' = start_address_in + BUFFER_LENGTH - WORD_LENGTH
     ELSE UNCHANGED <<dma_state, current_address, end_address>>
  /\ UNCHANGED burst_cnt

(* Mutant of DmaREAD_REQUEST: the address moves on while the request waits. *)
AdvanceEarly(waitrequest, almost_full) ==
  /\ dma_state = "READ_REQUEST"
  /\ dma_state' = IF waitrequest \/ almost_full THEN "READ_REQUEST"
                  ELSE "READ_DATA"
  /\ burst_cnt' = IF almost_full THEN burst_cnt ELSE 0
  /\ current_address' = current_address + 4 * burst_tot
  /\ UNCHANGED end_address

DmaREAD_REQUEST(waitrequest, almost_full) ==
  /\ dma_state = "READ_REQUEST"
  /\ dma_state' = IF waitrequest \/ almost_full THEN "READ_REQUEST"
                  ELSE "READ_DATA"
  /\ burst_cnt' = IF almost_full THEN burst_cnt ELSE 0
  /\ UNCHANGED <<current_address, end_address>>

(* Nothing assigns next_state when burst_cnt > burst_tot: it keeps the     *)
(* READ_DATA it had while the count was below the total.                   *)
DmaREAD_DATA(readdatavalid) ==
  /\ dma_state = "READ_DATA"
  /\ dma_state' = IF burst_cnt = burst_tot THEN "VERIFY_ADDRESS" ELSE "READ_DATA"
  /\ burst_cnt' = IF readdatavalid THEN burst_cnt + 1 ELSE burst_cnt
  /\ UNCHANGED <<current_address, end_address>>

(* Mutants of DmaVERIFY_ADDRESS: the end is seen one burst late; after the *)
(* last burst the DMA does not wait for the display to finish.             *)
VerifyLate ==
  /\ dma_state = "VERIFY_ADDRESS"
  /\ dma_state' = IF current_address > end_address THEN "WAIT_DISPLAY"
                  ELSE "READ_REQUEST"
  /\ burst_cnt' = 0
  /\ current_address' = current_address + 4 * burst_tot
  /\ UNCHANGED end_address

NoWaitDisplay ==
  /\ dma_state = "VERIFY_ADDRESS"
  /\ dma_state' = IF current_address = end_address THEN "INIT"
                  ELSE "READ_REQUEST"
  /\ burst_cnt' = 0
  /\ current_address' = current_address + 4 * burst_tot
  /\ UNCHANGED end_address

DmaVERIFY_ADDRESS ==
  /\ dma_state = "VERIFY_ADDRESS"
  /\ dma_state' = IF current_address = end_address THEN "WAIT_DISPLAY"
                  ELSE "READ_REQUEST"
  /\ burst_cnt' = 0
  /\ current_address' = current_address + 4 * burst_tot
  /\ UNCHANGED end_address

DmaWAIT_DISPLAY(display_finished) ==
  /\ dma_state = "WAIT_DISPLAY"
  /\ dma_state' = IF display_finished THEN "INIT" ELSE "WAIT_DISPLAY"
  /\ UNCHANGED <<burst_cnt, current_address, end_address>>

(* One clock edge with the inputs sampled at it. *)
DmaTick(start_in, address_in, burst_in, waitrequest, valid, full, finished) ==
  /\ burst_tot' = burst_in
  /\ transfer_latch' = transfer_start
  /\ \/ DmaINIT
     \/ DmaIDLE(start_in, address_in)
     \/ DmaREAD_REQUEST(waitrequest, full)
     \/ DmaREAD_DATA(valid)
     \/ DmaVERIFY_ADDRESS
     \/ DmaWAIT_DISPLAY(finished)
=============================================================================

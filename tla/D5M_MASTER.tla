------------------------------ MODULE D5M_MASTER ------------------------------
(***************************************************************************)
(* The Avalon master of the camera controller (AVALON_MASTER.vhd): takes   *)
(* colors from the Buffer FIFO and writes them to consecutive words of the *)
(* memory, reports a frame when its length is used up, and goes on with    *)
(* the next from the address configured by then.                           *)
(*                                                                         *)
(* All outputs are registers: what the master does about the waitrequest   *)
(* of a cycle, and about the word it took, shows a cycle later.            *)
(***************************************************************************)
EXTENDS Integers

VARIABLES
  mas_state,
  startAddr_bridge,   (* address of the next color                         *)
  datalength_bridge,  (* bytes of the frame left                           *)
  avm_write, avm_address, avm_writedata,  (* the bus                       *)
  RREQ,               (* read request to the Buffer FIFO                   *)
  frame_sent_o        (* pulse: a frame is complete                        *)

masterVars == <<mas_state, startAddr_bridge, datalength_bridge, avm_write,
                avm_address, avm_writedata, RREQ, frame_sent_o>>

Mas_State == {"IDLE", "WAITING_DATA", "WAITING_WRITE"}

MasterTypeOK(Colors) ==
  /\ mas_state \in Mas_State
  /\ startAddr_bridge \in Nat
  /\ datalength_bridge \in Nat
  /\ avm_write \in BOOLEAN /\ avm_address \in Nat /\ avm_writedata \in Colors
  /\ RREQ \in BOOLEAN /\ frame_sent_o \in BOOLEAN

MasterInit(length, color) ==
  /\ mas_state = "IDLE"
  /\ startAddr_bridge = 0
  /\ datalength_bridge = length
  /\ avm_write = FALSE /\ avm_address = 0 /\ avm_writedata = color
  /\ RREQ = FALSE /\ frame_sent_o = FALSE

(* Address and data on the bus are not reset. *)
MasterReset(length) ==
  /\ mas_state' = "IDLE"
  /\ startAddr_bridge' = 0
  /\ datalength_bridge' = length
  /\ avm_write' = FALSE /\ UNCHANGED <<avm_address, avm_writedata>>
  /\ RREQ' = FALSE /\ frame_sent_o' = FALSE

(* Puts the oldest color on the bus. *)
Present(data) ==
  /\ avm_write' = TRUE
  /\ avm_address' = startAddr_bridge
  /\ avm_writedata' = data

(* Takes the bus back. *)
Withdraw ==
  /\ avm_write' = FALSE
  /\ UNCHANGED <<avm_address, avm_writedata>>

-----------------------------------------------------------------------------
(* Address and length are latched in the first cycle after a reset. *)
MasterIDLE(address, length) ==
  /\ mas_state = "IDLE"
  /\ IF length > 0
     THEN /\ mas_state' = "WAITING_DATA"
          /\ startAddr_bridge' = address
          /\ datalength_bridge' = length
     ELSE UNCHANGED <<mas_state, startAddr_bridge, datalength_bridge>>
  /\ UNCHANGED <<avm_write, avm_address, avm_writedata, RREQ, frame_sent_o>>

MasterWAITING_DATA(length, empty, data) ==
  /\ mas_state = "WAITING_DATA"
  /\ frame_sent_o' = FALSE
  /\ IF length = 0
     THEN mas_state' = "IDLE" /\ UNCHANGED <<avm_write, avm_address, avm_writedata>>
     ELSE IF ~empty
     THEN mas_state' = "WAITING_WRITE" /\ Present(data)
     ELSE UNCHANGED <<mas_state, avm_write, avm_address, avm_writedata>>
  /\ UNCHANGED <<startAddr_bridge, datalength_bridge, RREQ>>

(* Mutant of Transfer: the read request is not taken back. *)
RequestStays(waitrequest) ==
  IF waitrequest
  THEN UNCHANGED <<RREQ, startAddr_bridge, datalength_bridge>>
  ELSE /\ RREQ' = TRUE
       /\ startAddr_bridge' = startAddr_bridge + 4
       /\ datalength_bridge' = datalength_bridge - 4

(* The color on the bus was accepted, or is still waiting. *)
Transfer(waitrequest) ==
  IF waitrequest
  THEN RREQ' = FALSE /\ UNCHANGED <<startAddr_bridge, datalength_bridge>>
  ELSE /\ RREQ' = TRUE
       /\ startAddr_bridge' = startAddr_bridge + 4
       /\ datalength_bridge' = datalength_bridge - 4

MasterWAITING_WRITE(empty, data, waitrequest) ==
  /\ mas_state = "WAITING_WRITE"
  /\ datalength_bridge # 0
  /\ frame_sent_o' = FALSE
  /\ IF empty
     THEN /\ mas_state' = "WAITING_DATA"
          /\ Withdraw
          /\ RREQ' = FALSE
          /\ UNCHANGED <<startAddr_bridge, datalength_bridge>>
     ELSE /\ Present(data)
          /\ Transfer(waitrequest)
          /\ UNCHANGED mas_state

(* Mutant of FrameEnd: only the length is loaded. *)
AddressKept(address, length) ==
  /\ UNCHANGED startAddr_bridge
  /\ datalength_bridge' = length
  /\ frame_sent_o' = TRUE

(* The frame is complete: the next one starts at the configured address.   *)
FrameEnd(address, length) ==
  /\ startAddr_bridge' = address
  /\ datalength_bridge' = length
  /\ frame_sent_o' = TRUE

MasterFrameEnd(address, length) ==
  /\ mas_state = "WAITING_WRITE"
  /\ datalength_bridge = 0
  /\ mas_state' = "WAITING_DATA"
  /\ FrameEnd(address, length)
  /\ Withdraw
  /\ RREQ' = FALSE

(* One clock edge. *)
MasterTick(address, length, empty, data, waitrequest) ==
  \/ MasterIDLE(address, length)
  \/ MasterWAITING_DATA(length, empty, data)
  \/ MasterWAITING_WRITE(empty, data, waitrequest)
  \/ MasterFrameEnd(address, length)
=============================================================================

------------------------------ MODULE D5M_SLAVE ------------------------------
(***************************************************************************)
(* The register slave of the camera controller (AVALON_SLAVE.vhd): what    *)
(* the program writes and reads, and the memory of the pulse with which    *)
(* the master reports a frame.                                             *)
(***************************************************************************)
EXTENDS Integers, Avalon

CONSTANT FRAME_COLORS  (* colors of a frame (320 * 240)                    *)

ASSUME FrameAssumption == FRAME_COLORS \in Nat \ {0}

(* The bytes of a frame: both the reset value of iCamLength and what       *)
(* camera_init writes to it.                                               *)
DATA_LENGTH == 4 * FRAME_COLORS

VARIABLES
  cam,            (* the registers iCam...                                 *)
  iFrameSent,     (* 1 from the end of a frame until it is acknowledged    *)
  FrameSent_rst,  (* a read of FrameSent is to clear iFrameSent            *)
  readdata

camSlaveVars == <<cam, iFrameSent, FrameSent_rst, readdata>>

CamRegisters == {"CamAddr", "CamLength", "CamStart", "CamStop"}

CamSlaveTypeOK ==
  /\ cam \in [CamRegisters -> Nat]
  /\ cam["CamStart"] < 256 /\ cam["CamStop"] < 256
  /\ iFrameSent \in {0, 1}
  /\ FrameSent_rst \in BOOLEAN
  /\ readdata \in Nat

CamDefaults == [r \in CamRegisters |-> IF r = "CamLength" THEN DATA_LENGTH ELSE 0]

CamSlaveInit ==
  /\ cam = CamDefaults
  /\ iFrameSent = 0
  /\ FrameSent_rst = FALSE
  /\ readdata = 0

(* The read data register is not reset. *)
CamSlaveReset ==
  /\ cam' = CamDefaults
  /\ iFrameSent' = 0
  /\ FrameSent_rst' = FALSE
  /\ UNCHANGED readdata

start_o == cam["CamStart"] % 2 = 1
stop_o  == cam["CamStop"] % 2 = 1

(* Mutant of FrameSentReceiver: an acknowledgement wins over a pulse. *)
AcknowledgementWins(frame_sent_i) ==
  iFrameSent' = IF FrameSent_rst THEN 0
                ELSE IF frame_sent_i THEN 1 ELSE iFrameSent

(* A pulse wins over an acknowledgement. *)
FrameSentReceiver(frame_sent_i) ==
  iFrameSent' = IF frame_sent_i THEN 1
                ELSE IF FrameSent_rst THEN 0 ELSE iFrameSent

CamWrite(acc) ==
  cam' = IF acc.op # "write" THEN cam
         ELSE [cam EXCEPT ![acc.name] =
                 IF acc.name \in {"CamStart", "CamStop"}
                 THEN acc.data % 256 ELSE acc.data]

ReadData(acc) ==
  readdata' = IF acc.op # "read" THEN 0
              ELSE IF acc.name = "FrameSent" THEN iFrameSent
              ELSE cam[acc.name]

(* Mutant of Acknowledge: reading does not acknowledge. *)
NeverAcknowledge(acc) == FrameSent_rst' = FALSE

(* A read of another register leaves FrameSent_rst as it is; only a cycle  *)
(* without a read clears it.                                               *)
Acknowledge(acc) ==
  FrameSent_rst' = (acc.op = "read" /\ (acc.name = "FrameSent" \/ FrameSent_rst))

(* One clock edge. *)
CamSlaveTick(acc, frame_sent_i) ==
  /\ FrameSentReceiver(frame_sent_i)
  /\ CamWrite(acc)
  /\ ReadData(acc)
  /\ Acknowledge(acc)
=============================================================================

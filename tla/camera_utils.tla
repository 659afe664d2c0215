---------------------------- MODULE camera_utils ----------------------------
(***************************************************************************)
(* The program on the Nios II as the camera controller sees it: the        *)
(* functions of camera_utils.c, cut at their register accesses, one access *)
(* at most in a clock cycle and any number of cycles between two of them.  *)
(*                                                                         *)
(* main calls camera_init and then camera_capture once.  The model lets    *)
(* the program capture MaxCaptures times.  Of the writes to the sensor     *)
(* over I2C only the trigger is modelled; the others come before and       *)
(* configure it: 640 columns and 480 rows after binning, a pixel clock of  *)
(* half the frequency (camera_utils.c:96-100).  SENSOR_COLUMNS and         *)
(* SENSOR_ROWS stand for what they configure.                              *)
(***************************************************************************)
EXTENDS D5M_SLAVE

CONSTANTS
  CAM_BASE,    (* the address camera_init configures                       *)
  MaxCaptures, (* bound on the captures of a behaviour                     *)
  PollRace     (* whether the pulse that reports a frame may coincide with *)
               (* the two cycles in which the program polls for it         *)

ASSUME CaptureAssumption ==
  CAM_BASE \in Nat /\ MaxCaptures \in Nat /\ PollRace \in BOOLEAN

VARIABLES
  pc,   (* the register access the program makes next, or "ready"          *)
  shot  (* captures so far                                                 *)

progVars == <<pc, shot>>

CapturePoints ==
  {"address", "length", "ready", "stop0", "start1", "poll", "hold", "start0", "stop1"}

ProgramTypeOK == pc \in CapturePoints /\ shot \in 0..MaxCaptures

ProgramInit  == pc = "address" /\ shot = 0
ProgramReset == pc' = "address" /\ shot' = 0

(* The next register access of a function: from one point to another. *)
CamAccess(from, acc, a, to) ==
  /\ pc = from
  /\ acc = a
  /\ pc' = to
  /\ UNCHANGED shot

camera_init(acc) ==
  \/ CamAccess("address", acc, Write("CamAddr", CAM_BASE), "length")
  \/ CamAccess("length", acc, Write("CamLength", DATA_LENGTH), "ready")

(* The call of camera_capture: the trigger, over I2C. *)
Trigger(acc) ==
  /\ pc = "ready" /\ shot < MaxCaptures
  /\ acc = NoAccess
  /\ pc' = "stop0"
  /\ shot' = shot + 1

(* Mutant of Poll: the program does not look at the value. *)
PollOnce(acc, pulse) ==
  \/ CamAccess("poll", acc, Read("FrameSent"), "hold")
  \/ CamAccess("hold", acc, Read("FrameSent"), "start0")

(* A poll reads FrameSent.  The read takes two cycles, as the slave is     *)
(* declared in camera_controller_hw.tcl; what it returns is the value of   *)
(* the first.  pulse: the master reports a frame in one of the two.        *)
Poll(acc, pulse) ==
  \/ /\ PollRace \/ ~pulse
     /\ CamAccess("poll", acc, Read("FrameSent"), "hold")
  \/ CamAccess("hold", acc, Read("FrameSent"),
               IF readdata = 0 THEN "poll" ELSE "start0")

camera_capture(acc, pulse) ==
  \/ Trigger(acc)
  \/ CamAccess("stop0", acc, Write("CamStop", 0), "start1")
  \/ CamAccess("start1", acc, Write("CamStart", 1), "poll")
  \/ Poll(acc, pulse)
  \/ CamAccess("start0", acc, Write("CamStart", 0), "stop1")
  \/ CamAccess("stop1", acc, Write("CamStop", 1), "ready")

(* Other code runs; a read that has begun is finished first. *)
Elsewhere(acc) ==
  /\ pc # "hold"
  /\ acc = NoAccess
  /\ UNCHANGED progVars

(* One clock cycle of the program. *)
CaptureTick(acc, pulse) ==
  \/ camera_init(acc)
  \/ camera_capture(acc, pulse)
  \/ Elsewhere(acc)

(* The accesses a cycle can make. *)
CamAccesses ==
  {NoAccess, Read("FrameSent"),
   Write("CamAddr", CAM_BASE), Write("CamLength", DATA_LENGTH)}
  \union {Write(r, d) : r \in {"CamStart", "CamStop"}, d \in {0, 1}}
=============================================================================

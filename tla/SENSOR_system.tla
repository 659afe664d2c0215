---------------------------- MODULE SENSOR_system ----------------------------
(***************************************************************************)
(* The sensor emulator with the driver that configures it, on one clock.   *)
(***************************************************************************)
EXTENDS generator_driver

vars == <<generatorVars, driverVars>>

Init == GeneratorInit /\ DriverInit

(* One clock cycle in which the program makes access acc. *)
Cycle(acc) == DriverTick(acc) /\ GeneratorTick(acc)

Accesses ==
  {NoAccess, Read("status"),
   Write("command", COMMAND_START), Write("command", COMMAND_STOP),
   Write(Register, values[Register])}

Tick == \E acc \in Accesses : Cycle(acc)

(* The reset of the board. *)
Reset == GeneratorReset /\ DriverReset

Next == Tick \/ Reset
Spec == Init /\ [][Next]_vars
FairSpec == Spec /\ WF_vars(Tick)

-----------------------------------------------------------------------------
(* The types of the variables. *)
TypeOK == GeneratorTypeOK /\ DriverTypeOK

(* cmos_sensor_output_generator_configure returns true just if all its     *)
(* values are within bounds, and then the registers hold them until the    *)
(* next call of init or configure, while frames are sent too: no write is  *)
(* lost to a generator that has not stopped yet.                           *)
ConfigureResult ==
  at = "ready" =>
    /\ call = "configure" =>
         (success <=> \A r \in ConfigRegisters : Valid(r, values[r]))
    /\ success => config = values

(* Every start and stop is obeyed: the generator sends frames, or is about *)
(* to, just if the last call was start.  A start while it is stopping and  *)
(* a stop while it is starting would be dropped (MM_WRITE).                *)
CommandsObeyed ==
  (call = "start" /\ at = "ready") <=>
    (reg_start \/ (reg_state # "IDLE" /\ ~reg_stop))

(* The signals are those of the frames configured. *)
TimeOf ==
  LET c == config
      lines == (height - 1) * (c["frame_width"] + c["line_line_blank"])
      all == c["frame_line_blank"]
               + c["frame_height"] * (c["frame_width"] + c["line_line_blank"])
               - c["line_line_blank"]
  IN  CASE reg_state = "IDLE" -> 0
        [] reg_state = "FRAME_LINE_BLANK" -> count
        [] reg_state = "VALID" -> c["frame_line_blank"] + lines + count
        [] reg_state = "LINE_LINE_BLANK" ->
             c["frame_line_blank"] + lines + c["frame_width"] + count
        [] reg_state = "LINE_FRAME_BLANK" -> all + count
        [] reg_state = "FRAME_FRAME_BLANK" -> all + c["line_frame_blank"] + count

LegalGeometries ==
  {g \in [ConfigRegisters -> 0..Largest] : \A r \in ConfigRegisters : Valid(r, g[r])}

Video == INSTANCE VideoTiming WITH
  clocks <- TimeOf, geometry <- config,
  Geometries <- LegalGeometries, Default <- Minimum
VideoSpec == Video!VideoSpec

(* A frame that has begun ends, whatever its geometry: all counters meet   *)
(* their configured value.                                                 *)
FrameCompletes == frame_valid ~> ~frame_valid
=============================================================================

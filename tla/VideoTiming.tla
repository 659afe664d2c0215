----------------------------- MODULE VideoTiming -----------------------------
(***************************************************************************)
(* What the sensor emulator promises: from its start on the clocks are     *)
(* counted through a frame, and the signals are a function of the count    *)
(* and of the geometry, which holds still until the emulator is stopped.   *)
(*                                                                         *)
(* A frame is the blank before the first line, the lines with a blank      *)
(* between two, the blank after the last line and the blank between two    *)
(* frames.  A pixel is its number in the frame.                            *)
(***************************************************************************)
EXTENDS Integers

CONSTANTS
  PIX_DEPTH,
  Geometries,  (* the geometries that may be configured                    *)
  Default      (* the one after a reset                                    *)

VARIABLES
  clocks,    (* clocks since the frame began, 0: stopped                   *)
  geometry,
  frame_valid, line_valid, data

videoVars == <<clocks, geometry, frame_valid, line_valid, data>>

Pitch(g) == g.frame_width + g.line_line_blank

(* From the first pixel to the last. *)
Lines(g) == g.frame_height * Pitch(g) - g.line_line_blank

ValidClocks(g) == g.frame_line_blank + Lines(g) + g.line_frame_blank

Period(g) == ValidClocks(g) + g.frame_frame_blank

(* Clocks since the first pixel. *)
Offset(g, t) == t - 1 - g.frame_line_blank

OnLine(g, t) ==
  Offset(g, t) \in 0..(Lines(g) - 1) /\ Offset(g, t) % Pitch(g) < g.frame_width

Signals(g, t, fv, lv, d) ==
  /\ fv = (t \in 1..ValidClocks(g))
  /\ lv = OnLine(g, t)
  /\ d = IF OnLine(g, t)
         THEN ((Offset(g, t) \div Pitch(g)) * g.frame_width
                + (Offset(g, t) % Pitch(g))) % 2^PIX_DEPTH
         ELSE 0

VideoInit ==
  /\ clocks = 0
  /\ geometry = Default
  /\ Signals(geometry, 0, frame_valid, line_valid, data)

Configure == clocks = 0 /\ clocks' = 0 /\ geometry' \in Geometries

Start == clocks = 0 /\ clocks' = 1 /\ UNCHANGED geometry

Advance ==
  /\ clocks > 0
  /\ clocks' = IF clocks = Period(geometry) THEN 1 ELSE clocks + 1
  /\ UNCHANGED geometry

Stop == clocks > 0 /\ clocks' = 0 /\ UNCHANGED geometry

(* A reset of the board. *)
Restart == clocks' = 0 /\ geometry' = Default

VideoNext ==
  /\ Configure \/ Start \/ Advance \/ Stop \/ Restart
  /\ Signals(geometry', clocks', frame_valid', line_valid', data')

VideoSpec == VideoInit /\ [][VideoNext]_videoVars
=============================================================================

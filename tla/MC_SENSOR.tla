------------------------------ MODULE MC_SENSOR ------------------------------
(***************************************************************************)
(* Model checking of the sensor emulator: geometries at the bounds and one *)
(* beyond each.                                                            *)
(***************************************************************************)
EXTENDS SENSOR_system

MCGeometry(w, h, ff, fl, ll, lf) ==
  [frame_width |-> w, frame_height |-> h, frame_frame_blank |-> ff,
   frame_line_blank |-> fl, line_line_blank |-> ll, line_frame_blank |-> lf]

MCArguments ==
  {MCGeometry(3, 3, 1, 0, 1, 0), MCGeometry(2, 3, 2, 2, 3, 1),
   MCGeometry(4, 2, 3, 1, 2, 3), MCGeometry(3, 0, 1, 3, 0, 2)}
=============================================================================

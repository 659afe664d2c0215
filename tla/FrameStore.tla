------------------------------ MODULE FrameStore ------------------------------
(***************************************************************************)
(* What the camera controller promises to the program, without clocks,     *)
(* pixels, FIFOs or buses: after a capture has begun, the words of its     *)
(* frame get their colors one after the other, from the first word to the  *)
(* last and each exactly once, and camera_capture returns only when the    *)
(* frame is complete.                                                      *)
(***************************************************************************)
EXTENDS Integers

CONSTANTS
  FRAME_COLORS,  (* colors of a frame                                      *)
  MaxCaptures,   (* bound on the captures of a behaviour                   *)
  Blank,         (* what a word holds before it is first written           *)
  Word(_, _)     (* the color the k-th word holds after a capture          *)

VARIABLES
  memory,    (* the words of the frame                                     *)
  shot,      (* captures begun                                             *)
  capturing  (* the last of them has not returned                          *)

storeVars == <<memory, shot, capturing>>

Words == 0..(FRAME_COLORS - 1)

StoreInit ==
  /\ memory = [k \in Words |-> Blank]
  /\ shot = 0
  /\ capturing = FALSE

(* The words that hold the color of the last capture. *)
Filled == {k \in Words : memory[k] = Word(shot, k)}

Begin ==
  /\ ~capturing /\ shot < MaxCaptures
  /\ shot' = shot + 1
  /\ capturing' = TRUE
  /\ UNCHANGED memory

(* The next color arrives. *)
Store ==
  /\ capturing
  /\ \E k \in Words :
       /\ Filled = 0..(k - 1)
       /\ memory' = [memory EXCEPT ![k] = Word(shot, k)]
  /\ UNCHANGED <<shot, capturing>>

Return ==
  /\ capturing /\ Filled = Words
  /\ capturing' = FALSE
  /\ UNCHANGED <<memory, shot>>

(* A reset of the board. *)
Restart ==
  /\ memory' = [k \in Words |-> Blank]
  /\ shot' = 0
  /\ capturing' = FALSE

StoreNext == Begin \/ Store \/ Return \/ Restart

StoreSpec == StoreInit /\ [][StoreNext]_storeVars
=============================================================================

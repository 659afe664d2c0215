----------------------------- MODULE PanelStream -----------------------------
(***************************************************************************)
(* What the LCD controller promises to the program and to the panel,       *)
(* without registers, FSMs, FIFO or clock.                                 *)
(*                                                                         *)
(* The program hands over one command or parameter word at a time; the     *)
(* panel receives it exactly once.  After the display command the panel    *)
(* receives the pixels of the frame, in order, each exactly once, all from *)
(* the buffer whose address was configured when the command was issued.    *)
(***************************************************************************)
EXTENDS Frame, Sequences

CONSTANTS
  Words,          (* command and parameter words                           *)
  StartAddresses  (* addresses frames are displayed from                   *)

VARIABLES
  pending,  (* the word handed over and not yet received: <<>> or one      *)
  panel,    (* the panel: last command, last parameter, and a bit that     *)
            (* every command or parameter received flips                   *)
  frame,    (* the address of the frame of the last display command        *)
  shown     (* the pixels received since the last command                  *)

streamVars == <<pending, panel, frame, shown>>

PanelOff == [command |-> 0, parameter |-> 0, flip |-> FALSE]

Kinds == {"command", "parameter"}

StreamInit ==
  /\ pending = <<>>
  /\ panel = PanelOff
  /\ frame = 0
  /\ shown = <<>>

(* The program hands over a word; a is the address now configured. *)
Issue(kind, w, a) ==
  /\ pending = <<>>
  /\ pending' = <<[kind |-> kind, word |-> w]>>
  /\ frame' = IF kind = "command" /\ w = CMD_DISPLAY THEN a ELSE frame
  /\ UNCHANGED <<panel, shown>>

(* The panel receives it. *)
Deliver ==
  /\ pending # <<>>
  /\ LET p == Head(pending)
         opens == p.kind = "command"
     IN  /\ panel' = [command   |-> IF opens THEN p.word ELSE panel.command,
                      parameter |-> IF opens THEN panel.parameter ELSE p.word,
                      flip      |-> ~panel.flip]
         /\ shown' = IF opens THEN <<>> ELSE shown
  /\ pending' = <<>>
  /\ UNCHANGED frame

(* The panel receives the next pixel of the frame. *)
Pixel ==
  /\ panel.command = CMD_DISPLAY
  /\ Len(shown) < IMG_WORD_LEN
  /\ shown' = Append(shown, frame + 4 * Len(shown))
  /\ UNCHANGED <<pending, panel, frame>>

(* A reset of the board. *)
Restart ==
  /\ pending' = <<>>
  /\ panel' = PanelOff
  /\ frame' = 0
  /\ shown' = <<>>

StreamNext ==
  \/ \E kind \in Kinds, w \in Words, a \in StartAddresses : Issue(kind, w, a)
  \/ Deliver
  \/ Pixel
  \/ Restart

StreamSpec == StreamInit /\ [][StreamNext]_streamVars
=============================================================================

-------------------------------- MODULE FIFO --------------------------------
(***************************************************************************)
(* The pixel FIFO between the DMA master and the LT24 interface            *)
(* (FIFO_entity.vhd around the vendor's scfifo, configured in FIFO.vhd).   *)
(*                                                                         *)
(* The scfifo itself is a vendor primitive: what is modelled is its        *)
(* documented behaviour under the generics of FIFO.vhd, show-ahead off,    *)
(* overflow and underflow checking on.                                     *)
(***************************************************************************)
EXTENDS Integers, Sequences

CONSTANTS
  lpm_numwords,      (* words the FIFO holds (256 in FIFO.vhd)             *)
  almost_full_value, (* fill level that raises almost_full (224)           *)
  NoPixel            (* what q holds before the first read and after aclr  *)

ASSUME FIFOAssumption ==
  /\ lpm_numwords \in Nat \ {0}
  /\ almost_full_value \in 1..lpm_numwords
  /\ NoPixel \in Nat

VARIABLES
  fifo,       (* the stored words, oldest first                            *)
  FIFO_q,     (* the output register                                       *)
  FIFO_empty  (* the empty flag                                            *)

fifoVars == <<fifo, FIFO_q, FIFO_empty>>

FifoTypeOK ==
  /\ fifo \in Seq(Nat)
  /\ FIFO_q \in Nat
  /\ FIFO_empty \in BOOLEAN

FifoInit ==
  /\ fifo = <<>>
  /\ FIFO_q = NoPixel
  /\ FIFO_empty = TRUE

(* Mutant of FIFO_almost_full: raised one word too late. *)
almost_full_late == Len(fifo) > almost_full_value

(* The almost_full flag the DMA looks at before it asks for a burst. *)
FIFO_almost_full == Len(fifo) >= almost_full_value

(* Asynchronous clear: FIFO_reset in FIFO_entity.vhd. *)
FifoClear ==
  /\ fifo' = <<>>
  /\ FIFO_q' = NoPixel
  /\ FIFO_empty' = TRUE

(***************************************************************************)
(* One clock edge with the requests sampled at it.  A write to a full FIFO *)
(* is dropped and a read of an empty one is ignored.  A word written to an *)
(* empty FIFO lowers the empty flag one edge later than it is stored.      *)
(***************************************************************************)
FifoClock(rdreq, wrreq, data) ==
  LET popped == IF rdreq /\ fifo # <<>> THEN Tail(fifo) ELSE fifo
  IN  /\ fifo' = IF wrreq /\ Len(fifo) < lpm_numwords
                 THEN Append(popped, data) ELSE popped
      /\ FIFO_q' = IF rdreq /\ fifo # <<>> THEN Head(fifo) ELSE FIFO_q
      /\ FIFO_empty' = (popped = <<>>)
=============================================================================

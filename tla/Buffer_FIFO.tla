----------------------------- MODULE Buffer_FIFO -----------------------------
(***************************************************************************)
(* The FIFO between the clock of the camera's pixels and the clock of the  *)
(* system (the vendor's dcfifo, configured in Buffer_FIFO.vhd): show-ahead *)
(* on, overflow and underflow checking on.  A word written with one clock  *)
(* becomes visible on the other side some cycles later, when the write     *)
(* pointer has crossed the synchronisers.                                  *)
(***************************************************************************)
EXTENDS Integers, Sequences

CONSTANT buffer_numwords  (* words the FIFO holds (512)                    *)

ASSUME BufferAssumption == buffer_numwords \in Nat \ {0}

VARIABLES
  arriving,  (* words written and not yet visible to the reader            *)
  waiting    (* words the reader sees, oldest first                        *)

bufferVars == <<arriving, waiting>>

BufferInit == arriving = <<>> /\ waiting = <<>>

(* Asynchronous clear of both sides. *)
BufferClear == arriving' = <<>> /\ waiting' = <<>>

rdempty == waiting = <<>>

(* The word at the output q; show-ahead presents it before it is read. *)
buffer_q == waiting[1]

BufferFull == Len(arriving) + Len(waiting) >= buffer_numwords

(* An edge of wrclk.  A write to a full FIFO is dropped. *)
WrClock(wrreq, d) ==
  arriving' = IF wrreq /\ ~BufferFull THEN Append(arriving, d) ELSE arriving

(* An edge of rdclk, at which n words become visible. *)
RdClock(rdreq, n) ==
  /\ n <= Len(arriving)
  /\ waiting' = (IF rdreq /\ ~rdempty THEN Tail(waiting) ELSE waiting)
                \o SubSeq(arriving, 1, n)
  /\ arriving' = SubSeq(arriving, n + 1, Len(arriving))
=============================================================================

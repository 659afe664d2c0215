-------------------------------- MODULE Avalon --------------------------------
(***************************************************************************)
(* What the processor puts on the slave port of a controller in one cycle: *)
(* nothing, the read of a register or a write to one.  Registers are named *)
(* as in the VHDL, not addressed.  The slaves are declared with no wait    *)
(* for a write and one wait cycle for a read: a read is on the port for    *)
(* two cycles.                                                             *)
(***************************************************************************)
NoAccess    == [op |-> "none",  name |-> "none", data |-> 0]
Read(r)     == [op |-> "read",  name |-> r,      data |-> 0]
Write(r, d) == [op |-> "write", name |-> r,      data |-> d]

Writes(acc, r) == acc.op = "write" /\ acc.name = r
=============================================================================

------------------------------ MODULE I2C_proofs ------------------------------
(***************************************************************************)
(* Proofs about the I2C master and the driver that polls it, for every     *)
(* device, divisor, set of calls and number of bytes.                      *)
(***************************************************************************)
EXTENDS MC_I2C, SequenceTheorems, TLAPS

-----------------------------------------------------------------------------
(* What the program sends. *)

Controls == {STA + WR, WR, STP + WR, RD, STP + RD + ACK}

Commandments == [data : Int, control : Controls]

LEMMA ControlBits ==
  /\ \A v \in Controls : ~HasBit(v, IEN)
  /\ HasBit(STA + WR, WR)
  /\ ~HasBit(STP, WR) /\ ~HasBit(STP, RD) /\ ~HasBit(STP, IEN)
  /\ \A set \in BOOLEAN : ~HasBit(Flag(set, IEN), WR) /\ ~HasBit(Flag(set, IEN), RD)
  BY DEF Controls, HasBit, Flag, STA, WR, STP, RD, ACK, IEN

LEMMA Joined ==
  ASSUME NEW S, NEW s \in Seq(S), NEW t \in Seq(S), Len(s) >= 2
  PROVE  /\ s \o t \in Seq(S)
         /\ Len(s \o t) = Len(s) + Len(t) /\ Len(s) \in Nat /\ Len(t) \in Nat
         /\ (s \o t)[1] = s[1]
  <1>1. Len(s) \in Nat /\ Len(t) \in Nat
    BY LenProperties
  <1>2. 1 \in 1..(Len(s) + Len(t)) /\ 1 <= Len(s)
    BY <1>1
  <1>3. QED
    BY <1>1, <1>2, ConcatProperties

LEMMA Ordered ==
  ASSUME NEW d \in Int, NEW k \in Controls
  PROVE  Order(d, k) \in Commandments
  BY DEF Order, Commandments

(* A call of a transfer has a script, the first word of which is a START   *)
(* and the address of the device.                                          *)
LEMMA Scripts ==
  ASSUME NEW c \in Calls, c.op # "configure"
  PROVE  /\ c.op \in {"write", "read"}
         /\ Script(c) \in Seq(Commandments)
         /\ Len(Script(c)) \in Nat /\ Len(Script(c)) >= 2
         /\ Script(c)[1].control = STA + WR
  <1>1. c.op \in {"write", "read"} /\ Size \in Nat \ {0} /\ Device \in Int
    BY DriverAssumption
  <1>2. c.index \in Int /\ \A i \in 1..Size : c.values[i] \in Int
    <2>1. c \in [op : {"write", "read"}, index : 0..255, values : [1..Size -> 0..255]]
      BY DriverAssumption
    <2>2. c.index \in 0..255
      BY <2>1
    <2>3. c.index \in Int
      BY <2>2
    <2>4. c.values \in [1..Size -> 0..255]
      BY <2>1
    <2>5. \A i \in 1..Size : c.values[i] \in 0..255
      BY <2>4
    <2>6. \A i \in 1..Size : c.values[i] \in Int
      BY <2>5
    <2>7. QED
      BY <2>3, <2>6
  <1>3. /\ STA + WR \in Controls /\ WR \in Controls /\ STP + WR \in Controls
        /\ RD \in Controls /\ STP + RD + ACK \in Controls
    BY DEF Controls
  <1>4. \A k \in Controls :
          /\ Order(Device, k) \in Commandments /\ Order(c.index, k) \in Commandments
          /\ Order(Device + 1, k) \in Commandments /\ Order(0, k) \in Commandments
          /\ \A i \in 1..Size : Order(c.values[i], k) \in Commandments
    <2>1. \A k \in Controls : \A d \in Int : Order(d, k) \in Commandments
      BY Ordered
    <2>2. Device + 1 \in Int /\ 0 \in Int
      BY <1>1
    <2>3. \A i \in 1..Size : \A k \in Controls : Order(c.values[i], k) \in Commandments
      BY <1>2, <2>1
    <2>4. \A k \in Controls : Order(c.index, k) \in Commandments
      BY <1>2, <2>1
    <2>5. \A k \in Controls : Order(Device, k) \in Commandments
      BY <1>1, <2>1
    <2>6. \A k \in Controls : Order(Device + 1, k) \in Commandments
      BY <2>1, <2>2
    <2>7. QED
      BY <2>1, <2>2, <2>3, <2>4, <2>5, <2>6
  <1>5. /\ Header(c) \in Seq(Commandments) /\ Len(Header(c)) = 2
        /\ Header(c)[1].control = STA + WR
    <2>1. Order(Device, STA + WR) \in Commandments /\ Order(c.index, WR) \in Commandments
      BY <1>4, <1>3
    <2>2. Order(Device, STA + WR).control = STA + WR
      BY DEF Order
    <2>3. QED
      BY <2>1, <2>2 DEF Header
  <1>6. WriteLoop(c) \in Seq(Commandments)
    <2>1. \A i \in 1..Size :
            Order(c.values[i], IF i < Size THEN WR ELSE STP + WR) \in Commandments
      BY <1>4, <1>3
    <2>2. WriteLoop(c) \in [1..Size -> Commandments]
      BY <2>1 DEF WriteLoop
    <2>3. QED
      BY <1>1, <2>2
  <1>7. ReadLoop \in Seq(Commandments)
    <2>1. \A i \in 1..Size :
            Order(0, IF i < Size THEN RD ELSE STP + RD + ACK) \in Commandments
      BY <1>4, <1>3
    <2>2. ReadLoop \in [1..Size -> Commandments]
      BY <2>1 DEF ReadLoop
    <2>3. QED
      BY <1>1, <2>2
  <1>8. <<Order(Device + 1, STA + WR)>> \in Seq(Commandments)
    BY <1>4, <1>3
  <1>9. Header(c) \in Seq(Commandments) /\ Len(Header(c)) >= 2
    BY <1>5
  <1>10. CASE c.op = "write"
    <2> DEFINE script == Header(c) \o WriteLoop(c)
    <2>1. Script(c) = script
      BY <1>10 DEF Script
    <2>2. script \in Seq(Commandments)
      BY <1>6, <1>9, Joined
    <2>3. Len(script) = Len(Header(c)) + Len(WriteLoop(c)) /\ Len(WriteLoop(c)) \in Nat
      BY <1>6, <1>9, Joined
    <2>4. script[1] = Header(c)[1]
      BY <1>6, <1>9, Joined
    <2> HIDE DEF script
    <2>5. QED
      BY <1>5, <1>10, <2>1, <2>2, <2>3, <2>4
  <1>11. CASE c.op # "write"
    <2> DEFINE h == Header(c) \o <<Order(Device + 1, STA + WR)>>
               script == h \o ReadLoop
    <2>1. Script(c) = script
      BY <1>11 DEF Script
    <2>2. h \in Seq(Commandments)
      BY <1>8, <1>9, Joined
    <2>3. Len(h) = Len(Header(c)) + Len(<<Order(Device + 1, STA + WR)>>)
      BY <1>8, <1>9, Joined
    <2>4. h[1] = Header(c)[1]
      BY <1>8, <1>9, Joined
    <2>5. Len(h) = 3
      BY <1>5, <2>3
    <2> HIDE DEF h
    <2>6. Len(h) >= 2
      BY <2>5
    <2>7. script \in Seq(Commandments)
      BY <1>7, <2>2, <2>6, Joined
    <2>8. Len(script) = Len(h) + Len(ReadLoop) /\ Len(ReadLoop) \in Nat
      BY <1>7, <2>2, <2>6, Joined
    <2>9. script[1] = h[1]
      BY <1>7, <2>2, <2>6, Joined
    <2> HIDE DEF script
    <2>10. QED
      BY <1>1, <1>5, <1>11, <2>1, <2>4, <2>5, <2>7, <2>8, <2>9
  <1>12. QED
    BY <1>10, <1>11

-----------------------------------------------------------------------------
(* Types of what decides the order of things. *)

States == Paced \union Unpaced

CommandType == [write : BOOLEAN, read : BOOLEAN, start : BOOLEAN, stop : BOOLEAN]

ControlTypeOK ==
  /\ p_state \in States
  /\ i_ack_out \in Bit /\ ack_out \in Bit /\ sda_in \in Bit
  /\ busy \in BOOLEAN /\ cmd_done \in BOOLEAN
  /\ cmd \in CommandType
  /\ i_cmd_done_ack \in BOOLEAN
  /\ i_int_en_reg \in BOOLEAN /\ i_int_pe_reg \in BOOLEAN /\ irq \in BOOLEAN
  /\ at \in Points
  /\ call \in Calls \union {NoCall}
  /\ step \in Nat \ {0}

(* The states in which the core works on a byte. *)
Working == States \ {"Reset", "Idle", "Done", "DoneAck"}

LEMMA Successors ==
  /\ Successor["Reset"] = "Idle" /\ Successor["Done"] = "DoneAck"
  /\ \A s \in Working \ {"Start_D", "Rd_E", "Wr_D", "WrAck_D", "RdAck_E"} :
       Successor[s] \in Working \union {"Done"}
  BY DEF Successor, AfterTheLast, Working, States, Paced, Unpaced

(* How the core goes from state to state. *)
LEMMA CoreMoves ==
  ASSUME ControlTypeOK,
         CoreTick(scl_in, sda_in, sclk, cmd, i_data_in, i_ack_reg, i_cmd_done_ack)
  PROVE  /\ p_state = "Reset" => p_state' = "Idle"
         /\ p_state = "Idle" => IF TIP THEN p_state' \in Working ELSE p_state' = "Idle"
         /\ p_state \in Working => p_state' \in Working \union {"Done"}
         /\ p_state = "Done" => p_state' = "DoneAck"
         /\ p_state = "DoneAck" => p_state' = IF i_cmd_done_ack THEN "Idle" ELSE "DoneAck"
         /\ cmd_done' <=> p_state \in {"Done", "DoneAck"}
         /\ p_state' \in States
  <1>1. p_state' = IF sclk \/ p_state \in Unpaced THEN n_state(cmd, i_cmd_done_ack)
                   ELSE p_state
    BY DEF CoreTick
  <1>2. cmd_done' <=> p_state \in {"Done", "DoneAck"}
    BY DEF CoreTick, i_cmd_done
  <1>3. Working \subseteq States /\ {"Idle", "Done", "DoneAck"} \subseteq States
    BY DEF Working, States, Unpaced
  <1>4. CASE p_state \in {"Reset", "Done"}
    BY <1>1, <1>2, <1>3, <1>4, Successors DEF n_state, Unpaced, Working
  <1>5. CASE p_state = "Idle"
    <2>1. p_state' = IF (cmd.read \/ cmd.write) /\ cmd.start THEN "Start_A"
                     ELSE Body(cmd, "Idle")
      BY <1>1, <1>5 DEF n_state, Unpaced
    <2>2. {"Start_A", "Wr_A", "Rd_A"} \subseteq Working
      BY DEF Working, States, Paced
    <2>3. QED
      BY <1>2, <1>3, <1>5, <2>1, <2>2 DEF Body, TIP, Working
  <1>6. CASE p_state = "DoneAck"
    BY <1>1, <1>2, <1>3, <1>6 DEF n_state, Unpaced, Working
  <1>7. CASE p_state \in Working
    <2>1. {"Start_D", "Wr_A", "Rd_A", "WrAck_A", "Rd_F", "RdAck_A", "Wr_E", "Stop_A"}
            \subseteq Working
      BY DEF Working, States, Paced, Unpaced
    <2>2. n_state(cmd, i_cmd_done_ack) \in Working \union {"Done"}
      BY <1>7, <2>1, Successors DEF n_state, Body, AfterByte, Working
    <2>3. QED
      BY <1>1, <1>2, <1>3, <1>7, <2>2 DEF Working
  <1>8. QED
    BY <1>4, <1>5, <1>6, <1>7 DEF ControlTypeOK, Working

-----------------------------------------------------------------------------
(* How the program goes from point to point, and what it writes. *)

Goes1(from, to) == at = from /\ at' = to /\ UNCHANGED <<call, step>>

Moved ==
  \/ /\ at = "ready" /\ call' \in Calls /\ step' = 1
     /\ at' = IF call'.op = "configure" THEN "clear" ELSE "before"
  \/ /\ at \in {"status2", "get2"} /\ at' = "before"
     /\ step # Len(Script(call)) /\ step' = step + 1 /\ call' = call
  \/ Goes1("status2", "ready") \/ Goes1("get2", "ready")
  \/ Goes1("init", "ready") \/ Goes1("clear", "configure") \/ Goes1("configure", "ready")
  \/ Goes1("before", "before2") \/ Goes1("before2", "before")
  \/ Goes1("before2", IF Sends THEN "data" ELSE "control")
  \/ Goes1("data", "control") \/ Goes1("control", "after") \/ Goes1("after", "after2")
  \/ HasBit(readdata, TIP_BIT) /\ Goes1("after2", "after")
  \/ ~HasBit(readdata, TIP_BIT) /\ Goes1("after2", IF Sends THEN "status" ELSE "get")
  \/ Goes1("status", "status2") \/ Goes1("status2", "abort")
  \/ Goes1("get", "get2") \/ Goes1("abort", "ready")

LEMMA DriverMoves ==
  ASSUME NEW acc, DriverTick(acc)
  PROVE  \/ acc = Access /\ Moved
         \/ acc = NoAccess /\ ~Reading /\ UNCHANGED <<at, call, step>>
  <1>1. Advance /\ at \in {"status2", "get2"} => Moved
    BY DEF Advance, IsLast, Moved, Goes1
  <1>2. i2c_init \/ i2c_configure \/ GetData \/ Abort => Moved
    BY <1>1 DEF i2c_init, i2c_configure, GetData, Abort, Goes, Goes1, Moved
  <1>3. Begin => Moved
    BY DEF Begin, Moved
  <1>4. Commands => Moved
    BY DEF Commands, wait_end_of_transfer, Goes, Goes1, Moved
  <1>5. CheckStatus => Moved
    BY <1>1 DEF CheckStatus, Goes, Goes1, Moved
  <1>6. QED
    BY <1>2, <1>3, <1>4, <1>5 DEF DriverTick, driverVars

LEMMA AccessAt ==
  /\ at = "control" => Access = Write("CR", Current.control)
  /\ at \in {"abort", "clear"} => Access = Write("CR", STP)
  /\ at = "configure" => Access = Write("CR", Flag(call.irq, IEN))
  /\ at = "data" => Access = Write("DR", Current.data)
  /\ at \in {"after", "after2", "before", "before2", "status", "status2"} =>
       Access = Read("SR")
  /\ at \notin {"control", "abort", "clear", "configure"} => ~Writes(Access, "CR")
  <1>1. /\ at = "init" => Access = Write("CD", Divisor)
        /\ at = "ready" => Access = NoAccess
        /\ at = "data" => Access = Write("DR", Current.data)
        /\ at = "control" => Access = Write("CR", Current.control)
        /\ at \in {"get", "get2"} => Access = Read("DR")
        /\ at \in {"abort", "clear"} => Access = Write("CR", STP)
        /\ at = "configure" => Access = Write("CR", Flag(call.irq, IEN))
        /\ at \notin {"init", "ready", "data", "control", "get", "get2", "abort",
                      "clear", "configure"} => Access = Read("SR")
    BY DEF Access
  <1>2. /\ \A d : ~Writes(Write("CD", d), "CR") /\ ~Writes(Write("DR", d), "CR")
        /\ \A r : ~Writes(Read(r), "CR")
        /\ ~Writes(NoAccess, "CR")
    BY DEF Writes, Write, Read, NoAccess
  <1>3. QED
    BY <1>1, <1>2

(* What the interface does with the command bits and the interrupt. *)
LEMMA InterfaceMoves ==
  ASSUME ControlTypeOK, NEW acc, InterfaceTick(acc, data_out, ack_out, busy, cmd_done)
  PROVE  /\ TIP /\ cmd_done => ~TIP' /\ i_cmd_done_ack'
         /\ TIP /\ ~cmd_done => TIP' /\ ~i_cmd_done_ack'
         /\ ~TIP => ~i_cmd_done_ack'
         /\ ~TIP /\ ~Writes(acc, "CR") => ~TIP' /\ (i_int_pe_reg' => i_int_pe_reg)
         /\ TIP \/ ~Writes(acc, "CR") => (i_int_en_reg' <=> i_int_en_reg)
         /\ irq' <=> i_int_pe_reg /\ i_int_en_reg
  <1>1. /\ NoCommand.read = FALSE /\ NoCommand.write = FALSE
        /\ irq' = (i_int_pe_reg /\ i_int_en_reg)
    BY DEF NoCommand, InterfaceTick
  <1>2. CASE TIP
    <2>1. /\ cmd' = IF cmd_done THEN NoCommand ELSE cmd
          /\ i_cmd_done_ack' = cmd_done /\ i_int_en_reg' = i_int_en_reg
      BY <1>2 DEF InterfaceTick, EndCommand
    <2>2. TIP' <=> cmd'.read \/ cmd'.write
      BY DEF TIP
    <2>3. QED
      BY <1>1, <1>2, <2>1, <2>2 DEF TIP, ControlTypeOK
  <1>3. CASE ~TIP
    <2>1. /\ i_cmd_done_ack' = FALSE
          /\ i_int_pe_reg' = (i_int_pe_reg /\ acc.name # "DR")
          /\ ~Writes(acc, "CR") => cmd' = cmd /\ i_int_en_reg' = i_int_en_reg
      BY <1>3 DEF InterfaceTick, WriteRegister
    <2>2. TIP' <=> cmd'.read \/ cmd'.write
      BY DEF TIP
    <2>3. QED
      BY <1>1, <1>3, <2>1, <2>2 DEF TIP, ControlTypeOK
  <1>4. QED
    BY <1>2, <1>3

LEMMA StatusBit ==
  ASSUME ControlTypeOK
  PROVE  HasBit(StatusRegister(ack_out, busy), TIP_BIT) <=> TIP
  BY DEF ControlTypeOK, Bit, StatusRegister, HasBit, Flag, LAR_BIT, BSY_BIT, IPE_BIT, TIP_BIT

LEMMA ControlTypeInit == Init => ControlTypeOK
  <1> SUFFICES ASSUME Init PROVE ControlTypeOK
    OBVIOUS
  <1>1. p_state \in States /\ at \in Points
    BY DEF Init, CoreInit, DriverInit, States, Unpaced, Points
  <1>2. cmd \in CommandType
    BY DEF Init, InterfaceInit, NoCommand, CommandType
  <1>3. /\ i_ack_out \in Bit /\ ack_out \in Bit /\ sda_in \in Bit
        /\ busy \in BOOLEAN /\ cmd_done \in BOOLEAN
    BY DEF Init, CoreInit, Bit
  <1>4. /\ i_cmd_done_ack \in BOOLEAN
        /\ i_int_en_reg \in BOOLEAN /\ i_int_pe_reg \in BOOLEAN /\ irq \in BOOLEAN
    BY DEF Init, InterfaceInit
  <1>5. call \in Calls \union {NoCall} /\ step \in Nat \ {0}
    BY DEF Init, DriverInit
  <1>6. QED
    BY <1>1, <1>2, <1>3, <1>4, <1>5 DEF ControlTypeOK

LEMMA ControlTypeReset == Reset => ControlTypeOK'
  <1> SUFFICES ASSUME Reset PROVE ControlTypeOK'
    OBVIOUS
  <1>1. p_state' \in States /\ at' \in Points
    BY DEF Reset, CoreReset, DriverReset, States, Unpaced, Points
  <1>2. cmd' \in CommandType
    BY DEF Reset, InterfaceReset, NoCommand, CommandType
  <1>3. /\ i_ack_out' \in Bit /\ ack_out' \in Bit /\ sda_in' \in Bit
        /\ busy' \in BOOLEAN /\ cmd_done' \in BOOLEAN
    BY DEF Reset, CoreReset, Bit
  <1>4. /\ i_cmd_done_ack' \in BOOLEAN
        /\ i_int_en_reg' \in BOOLEAN /\ i_int_pe_reg' \in BOOLEAN /\ irq' \in BOOLEAN
    BY DEF Reset, InterfaceReset
  <1>5. call' \in Calls \union {NoCall} /\ step' \in Nat \ {0}
    BY DEF Reset, DriverReset
  <1>6. QED
    BY <1>1, <1>2, <1>3, <1>4, <1>5 DEF ControlTypeOK

LEMMA ControlTypeCycle ==
  ASSUME ControlTypeOK, NEW acc, CycleWith(acc)
  PROVE  ControlTypeOK'
  <1>1. /\ DriverTick(acc)
        /\ CoreTick(scl_in, sda_in, sclk, cmd, i_data_in, i_ack_reg, i_cmd_done_ack)
        /\ InterfaceTick(acc, data_out, ack_out, busy, cmd_done)
        /\ sda_in' = sda
    BY DEF CycleWith
  <1>2. p_state' \in States
    BY <1>1, CoreMoves
  <1>3. i_ack_out' \in Bit /\ ack_out' \in Bit /\ sda_in' \in Bit
    BY <1>1 DEF CoreTick, ControlTypeOK, sda, Bit
  <1>4. busy' \in BOOLEAN /\ cmd_done' \in BOOLEAN
    BY <1>1 DEF CoreTick, i_busy, i_cmd_done
  <1>5. cmd' \in CommandType
    <2>1. NoCommand \in CommandType
      BY DEF NoCommand, CommandType
    <2>2. \A v : Command(v) \in CommandType
      BY DEF Command, CommandType, HasBit
    <2>3. cmd' \in {cmd, NoCommand, Command(acc.data)}
      BY <1>1 DEF InterfaceTick, EndCommand, WriteRegister
    <2>4. QED
      BY <2>1, <2>2, <2>3 DEF ControlTypeOK
  <1>6. /\ i_cmd_done_ack' \in BOOLEAN
        /\ i_int_en_reg' \in BOOLEAN /\ i_int_pe_reg' \in BOOLEAN /\ irq' \in BOOLEAN
    BY <1>1 DEF InterfaceTick, EndCommand, WriteRegister, HasBit, ControlTypeOK
  <1>7. Moved => /\ at' \in Points /\ call' \in Calls \union {NoCall} /\ step' \in Nat \ {0}
    BY DEF Moved, Goes1, Points, ControlTypeOK
  <1>8. at' \in Points /\ call' \in Calls \union {NoCall} /\ step' \in Nat \ {0}
    BY <1>1, <1>7, DriverMoves DEF ControlTypeOK
  <1>9. QED
    BY <1>2, <1>3, <1>4, <1>5, <1>6, <1>8 DEF ControlTypeOK

-----------------------------------------------------------------------------
(* The handshake.  A transfer ends in three cycles: the core is done, the  *)
(* interface takes the command back, the core goes to Idle.  In the first  *)
(* cycle in which the status shows the end, cmd_done still stands, and a   *)
(* command written then would be taken back at once; the poll that sees it *)
(* takes two cycles.                                                       *)

Quiet == p_state = "Idle" /\ ~TIP /\ ~cmd_done /\ ~i_cmd_done_ack

Over == ~TIP /\ p_state = "Idle" /\ ~i_cmd_done_ack

Handshake ==
  \/ Over
  \/ ~TIP /\ p_state = "DoneAck" /\ cmd_done /\ i_cmd_done_ack
  \/ /\ TIP /\ p_state \in Working \union {"Idle", "Done"}
     /\ ~cmd_done /\ ~i_cmd_done_ack
  \/ TIP /\ p_state = "DoneAck" /\ cmd_done /\ ~i_cmd_done_ack

HandshakeInv ==
  /\ at = "init" => /\ p_state \in {"Reset", "Idle"}
                    /\ ~TIP /\ ~cmd_done /\ ~i_cmd_done_ack
  /\ at \in {"after", "after2"} => Handshake
  /\ at = "after2" /\ ~HasBit(readdata, TIP_BIT) => Over
  /\ at \notin {"init", "after", "after2"} => Quiet

LEMMA HandshakeMoves ==
  ASSUME ControlTypeOK, NEW acc, Handshake, ~Writes(acc, "CR"),
         CoreTick(scl_in, sda_in, sclk, cmd, i_data_in, i_ack_reg, i_cmd_done_ack),
         InterfaceTick(acc, data_out, ack_out, busy, cmd_done)
  PROVE  /\ Handshake'
         /\ ~TIP => Over'
         /\ Over => Quiet'
         /\ Quiet => Quiet'
  <1>1. /\ "Idle" \notin Working /\ "Done" \notin Working /\ "DoneAck" \notin Working
    BY DEF Working
  <1>2. /\ TIP /\ cmd_done => ~TIP' /\ i_cmd_done_ack'
        /\ TIP /\ ~cmd_done => TIP' /\ ~i_cmd_done_ack'
        /\ ~TIP => ~i_cmd_done_ack' /\ ~TIP'
    BY InterfaceMoves
  <1>3. CASE Over
    BY <1>1, <1>2, <1>3, CoreMoves DEF Handshake, Over, Quiet
  <1>4. CASE ~TIP /\ p_state = "DoneAck" /\ cmd_done /\ i_cmd_done_ack
    BY <1>1, <1>2, <1>4, CoreMoves DEF Handshake, Over, Quiet
  <1>5. CASE /\ TIP /\ p_state \in Working \union {"Idle", "Done"}
             /\ ~cmd_done /\ ~i_cmd_done_ack
    BY <1>1, <1>2, <1>5, CoreMoves DEF Handshake, Over, Quiet
  <1>6. CASE TIP /\ p_state = "DoneAck" /\ cmd_done /\ ~i_cmd_done_ack
    BY <1>1, <1>2, <1>6, CoreMoves DEF Handshake, Over, Quiet
  <1>7. QED
    BY <1>3, <1>4, <1>5, <1>6 DEF Handshake

(* A write of the control register when all is quiet. *)
LEMMA CommandMoves ==
  ASSUME ControlTypeOK, NEW word, Quiet,
         CoreTick(scl_in, sda_in, sclk, cmd, i_data_in, i_ack_reg, i_cmd_done_ack),
         InterfaceTick(Write("CR", word), data_out, ack_out, busy, cmd_done)
  PROVE  /\ Handshake'
         /\ ~HasBit(word, WR) /\ ~HasBit(word, RD) => Quiet'
         /\ i_int_en_reg' <=> HasBit(word, IEN)
  <1>1. /\ cmd' = Command(word) /\ i_int_en_reg' = HasBit(word, IEN)
        /\ i_cmd_done_ack' = FALSE
    BY DEF InterfaceTick, WriteRegister, Writes, Write, Quiet
  <1>2. TIP' <=> HasBit(word, WR) \/ HasBit(word, RD)
    <2>1. Command(word).read = HasBit(word, RD) /\ Command(word).write = HasBit(word, WR)
      BY DEF Command
    <2>2. TIP' <=> cmd'.read \/ cmd'.write
      BY DEF TIP
    <2>3. QED
      BY <1>1, <2>1, <2>2
  <1>3. p_state' = "Idle" /\ ~cmd_done'
    BY CoreMoves DEF Quiet
  <1>4. ~i_cmd_done_ack' /\ (i_int_en_reg' <=> HasBit(word, IEN))
    BY <1>1
  <1>5. QED
    BY <1>2, <1>3, <1>4 DEF Handshake, Over, Quiet

LEMMA HandshakeCycle ==
  ASSUME ControlTypeOK, HandshakeInv, NEW acc, CycleWith(acc)
  PROVE  HandshakeInv'
  <1>1. /\ DriverTick(acc)
        /\ CoreTick(scl_in, sda_in, sclk, cmd, i_data_in, i_ack_reg, i_cmd_done_ack)
        /\ InterfaceTick(acc, data_out, ack_out, busy, cmd_done)
    BY DEF CycleWith
  <1>2. /\ \/ acc = Access /\ Moved
           \/ acc = NoAccess /\ ~Reading /\ UNCHANGED <<at, call, step>>
        /\ ~Writes(NoAccess, "CR")
    BY <1>1, DriverMoves DEF Writes, NoAccess
  <1>3. CASE at = "init"
    <2>1. ~Writes(acc, "CR")
      BY <1>2, <1>3, AccessAt
    <2>2. p_state' = "Idle" /\ ~cmd_done' /\ ~TIP' /\ ~i_cmd_done_ack'
      BY <1>1, <1>3, <2>1, CoreMoves, InterfaceMoves DEF HandshakeInv
    <2>3. at' \in {"init", "ready"}
      BY <1>2, <1>3 DEF Moved, Goes1
    <2>4. QED
      BY <2>2, <2>3 DEF HandshakeInv, Quiet
  <1>4. CASE at \in {"after", "after2"}
    <2>1. ~Writes(acc, "CR") /\ (at = "after2" => acc = Access)
      BY <1>2, <1>4, AccessAt DEF Reading
    <2>2. /\ Handshake' /\ (~TIP => Over') /\ (Over => Quiet')
      BY <1>1, <1>4, <2>1, HandshakeMoves DEF HandshakeInv
    <2>3. CASE at = "after"
      <3>1. at' = "after" \/ (at' = "after2" /\ acc = Read("SR"))
        BY <1>2, <2>3, AccessAt DEF Moved, Goes1
      <3>2. CASE at' = "after"
        BY <2>2, <3>2 DEF HandshakeInv
      <3>3. CASE at' = "after2" /\ acc = Read("SR")
        <4>1. readdata' = StatusRegister(ack_out, busy)
          BY <1>1, <3>3 DEF InterfaceTick, ReadRegister, Read
        <4>2. HasBit(readdata', TIP_BIT) <=> TIP
          BY <4>1, StatusBit
        <4>3. QED
          BY <2>2, <3>3, <4>2 DEF HandshakeInv
      <3>4. QED
        BY <3>1, <3>2, <3>3
    <2>4. CASE at = "after2"
      <3>1. \/ at' = "after"
            \/ ~HasBit(readdata, TIP_BIT) /\ at' \in {"status", "get"}
        BY <1>2, <2>1, <2>4 DEF Moved, Goes1, Reading
      <3>2. CASE at' = "after"
        BY <2>2, <3>2 DEF HandshakeInv
      <3>3. CASE ~HasBit(readdata, TIP_BIT) /\ at' \in {"status", "get"}
        BY <2>2, <2>4, <3>3 DEF HandshakeInv
      <3>4. QED
        BY <3>1, <3>2, <3>3
    <2>5. QED
      BY <1>4, <2>3, <2>4
  <1>5. CASE at \in {"ready", "before", "before2", "data", "status", "status2", "get", "get2"}
    <2>1. ~Writes(acc, "CR")
      BY <1>2, <1>5, AccessAt
    <2>2. Quiet'
      BY <1>1, <1>5, <2>1, HandshakeMoves DEF HandshakeInv, Handshake, Quiet, Over
    <2>3. at' \notin {"init", "after", "after2", "configure"}
      BY <1>2, <1>5 DEF Moved, Goes1
    <2>4. QED
      BY <2>2, <2>3 DEF HandshakeInv
  <1>6. CASE at \in {"control", "abort", "clear", "configure"}
    <2>1. Quiet
      BY <1>6 DEF HandshakeInv
    <2>2. CASE acc = NoAccess /\ UNCHANGED <<at, call>>
      <3>1. Quiet'
        BY <1>1, <1>2, <2>1, <2>2, HandshakeMoves DEF Handshake, Quiet, Over
      <3>2. QED
        BY <1>6, <2>2, <3>1 DEF HandshakeInv
    <2>3. CASE acc = Access /\ Moved
      <3>1. PICK word : /\ Access = Write("CR", word)
                        /\ at # "control" => ~HasBit(word, WR) /\ ~HasBit(word, RD)
        <4>1. CASE at = "control"
          BY <4>1, AccessAt
        <4>2. CASE at \in {"abort", "clear"}
          BY <4>2, AccessAt, ControlBits
        <4>3. CASE at = "configure"
          <5>1. ~HasBit(Flag(call.irq, IEN), WR) /\ ~HasBit(Flag(call.irq, IEN), RD)
            BY DEF Flag, IEN, HasBit, WR, RD
          <5>2. QED
            BY <4>3, <5>1, AccessAt
        <4>4. QED
          BY <1>6, <4>1, <4>2, <4>3
      <3>2. Handshake' /\ (at # "control" => Quiet')
        BY <1>1, <2>1, <2>3, <3>1, CommandMoves
      <3>3. \/ at = "control" /\ at' = "after"
            \/ at # "control" /\ at' = "ready"
            \/ at = "clear" /\ at' = "configure"
        BY <1>6, <2>3 DEF Moved, Goes1
      <3>4. QED
        BY <3>2, <3>3 DEF HandshakeInv
    <2>4. QED
      BY <1>2, <2>2, <2>3
  <1>7. QED
    BY <1>3, <1>4, <1>5, <1>6 DEF ControlTypeOK, Points

LEMMA HandshakeStep ==
  ControlTypeOK /\ HandshakeInv /\ [Next]_vars => ControlTypeOK' /\ HandshakeInv'
  <1> SUFFICES ASSUME ControlTypeOK, HandshakeInv, [Next]_vars
               PROVE  ControlTypeOK' /\ HandshakeInv'
    OBVIOUS
  <1>1. CASE Cycle
    BY <1>1, ControlTypeCycle, HandshakeCycle DEF Cycle
  <1>2. CASE Reset
    <2>1. /\ at' = "init" /\ p_state' = "Reset"
          /\ ~TIP' /\ ~cmd_done' /\ ~i_cmd_done_ack'
      BY <1>2 DEF Reset, DriverReset, CoreReset, InterfaceReset, NoCommand, TIP
    <2>2. QED
      BY <1>2, <2>1, ControlTypeReset DEF HandshakeInv
  <1>3. CASE UNCHANGED vars
    <2>1. UNCHANGED <<coreVars, interfaceVars, driverVars, sda_in>>
      BY <1>3 DEF vars
    <2>2. ControlTypeOK'
      BY <2>1 DEF coreVars, interfaceVars, driverVars, ControlTypeOK
    <2>3. HandshakeInv'
      BY <2>1
      DEF coreVars, interfaceVars, driverVars, HandshakeInv, Handshake, Quiet, Over, TIP
    <2>4. QED
      BY <2>2, <2>3
  <1>4. QED
    BY <1>1, <1>2, <1>3 DEF Next

LEMMA HandshakeInit == Init => ControlTypeOK /\ HandshakeInv
  <1> SUFFICES ASSUME Init PROVE ControlTypeOK /\ HandshakeInv
    OBVIOUS
  <1>1. /\ at = "init" /\ p_state = "Reset"
        /\ ~TIP /\ ~cmd_done /\ ~i_cmd_done_ack
    BY DEF Init, DriverInit, CoreInit, InterfaceInit, NoCommand, TIP
  <1>2. QED
    BY <1>1, ControlTypeInit DEF HandshakeInv

(* While the core works on a byte its command stands, and the program      *)
(* writes the next one when core and interface have both come to rest.     *)
THEOREM CommandsStand == Spec => []CommandStands
  <1>1. ControlTypeOK /\ HandshakeInv => CommandStands
    <2> SUFFICES ASSUME ControlTypeOK, HandshakeInv PROVE CommandStands
      OBVIOUS
    <2>1. p_state \notin {"Reset", "Idle", "DoneAck"} => TIP
      BY DEF HandshakeInv, Handshake, Quiet, Over
    <2>2. QED
      BY <2>1 DEF CommandStands, HandshakeInv, Quiet
  <1>2. QED
    BY <1>1, HandshakeInit, HandshakeStep, PTL DEF Spec

-----------------------------------------------------------------------------
(* Interrupts.  Every command word of a transfer clears the enable, and    *)
(* the first one comes after a write of the data register, which clears    *)
(* what an earlier transfer left pending.                                  *)

Polling == {"after", "after2", "status", "status2", "get", "get2"}

Sending == {"before", "before2", "data", "control"}

InterruptInv ==
  /\ at \in Sending \union Polling =>
       call \in Calls /\ call.op # "configure" /\ step \in 1..Len(Script(call))
  /\ at \in Polling => ~i_int_en_reg /\ ~irq
  /\ at \in Sending /\ step > 1 => ~i_int_en_reg
  /\ at = "control" /\ step = 1 => ~i_int_pe_reg

(* The script of the call the program is in. *)
LEMMA CurrentWord ==
  ASSUME call \in Calls, call.op # "configure", step \in 1..Len(Script(call))
  PROVE  /\ ~HasBit(Current.control, IEN)
         /\ step = 1 => Sends
  <1>1. /\ Script(call) \in Seq(Commandments)
        /\ Script(call)[1].control = STA + WR
    BY Scripts
  <1>2. Current \in Commandments
    BY <1>1, ElementOfSeq DEF Current
  <1>3. Current.control \in Controls
    BY <1>2 DEF Commandments
  <1>4. step = 1 => Current.control = STA + WR
    BY <1>1 DEF Current
  <1>5. QED
    BY <1>3, <1>4, ControlBits DEF Sends

LEMMA InterruptCycle ==
  ASSUME ControlTypeOK, HandshakeInv, InterruptInv, NEW acc, CycleWith(acc)
  PROVE  InterruptInv'
  <1>1. /\ CoreTick(scl_in, sda_in, sclk, cmd, i_data_in, i_ack_reg, i_cmd_done_ack)
        /\ InterfaceTick(acc, data_out, ack_out, busy, cmd_done)
        /\ \/ acc = Access /\ Moved
           \/ acc = NoAccess /\ ~Reading /\ UNCHANGED <<at, call, step>>
    BY DriverMoves DEF CycleWith
  <1>2. ~Writes(NoAccess, "CR")
    BY DEF Writes, NoAccess
  <1>3. CASE at \in {"init", "clear", "configure", "abort"}
    <2>1. at' \in {"init", "clear", "configure", "abort", "ready"}
      BY <1>1, <1>3 DEF Moved, Goes1
    <2>2. QED
      BY <2>1 DEF InterruptInv, Sending, Polling
  <1>4. CASE at = "ready"
    <2>1. \/ at' \in {"ready", "clear"}
          \/ at' = "before" /\ call' \in Calls /\ call'.op # "configure" /\ step' = 1
      BY <1>1, <1>4 DEF Moved, Goes1
    <2>2. at' = "before" => step' \in 1..Len(Script(call'))
      BY <2>1, Scripts
    <2>3. QED
      BY <2>1, <2>2 DEF InterruptInv, Sending, Polling
  <1>5. CASE at \in {"before", "before2", "data"}
    <2>1. /\ ~Writes(acc, "CR") /\ Quiet
          /\ call \in Calls /\ call.op # "configure" /\ step \in 1..Len(Script(call))
      BY <1>1, <1>2, <1>5, AccessAt DEF HandshakeInv, InterruptInv, Sending
    <2>2. i_int_en_reg' <=> i_int_en_reg
      BY <1>1, <2>1, InterfaceMoves
    <2>3. UNCHANGED <<call, step>> /\ at' \in Sending
      BY <1>1, <1>5 DEF Moved, Goes1, Sending
    <2>4. at' = "control" /\ step' = 1 => ~i_int_pe_reg'
      <3> SUFFICES ASSUME at' = "control", step = 1 PROVE ~i_int_pe_reg'
        BY <2>3
      <3>1. Sends
        BY <2>1, CurrentWord
      <3>2. at = "data" /\ acc = Write("DR", Current.data)
        BY <1>1, <1>5, <3>1, AccessAt DEF Moved, Goes1
      <3>3. i_int_pe_reg' = (i_int_pe_reg /\ acc.name # "DR")
        BY <1>1, <2>1 DEF InterfaceTick, WriteRegister, Quiet
      <3>4. acc.name = "DR"
        BY <3>2 DEF Write
      <3>5. QED
        BY <3>3, <3>4
    <2>5. at' \notin Polling
      BY <2>3 DEF Sending, Polling
    <2>6. step' > 1 => ~i_int_en_reg'
      BY <1>5, <2>2, <2>3 DEF InterruptInv, Sending
    <2>7. QED
      BY <2>1, <2>3, <2>4, <2>5, <2>6 DEF InterruptInv
  <1>6. CASE at = "control"
    <2>1. /\ Quiet
          /\ call \in Calls /\ call.op # "configure" /\ step \in 1..Len(Script(call))
          /\ step \in Nat \ {0}
          /\ step > 1 => ~i_int_en_reg
          /\ step = 1 => ~i_int_pe_reg
      BY <1>6 DEF HandshakeInv, InterruptInv, Sending, ControlTypeOK
    <2>2. UNCHANGED <<call, step>> /\ at' \in {"control", "after"}
      BY <1>1, <1>6 DEF Moved, Goes1
    <2>3. CASE acc = NoAccess /\ at' = "control"
      <3>1. /\ ~TIP' /\ (i_int_pe_reg' => i_int_pe_reg)
            /\ (i_int_en_reg' <=> i_int_en_reg)
        BY <1>1, <1>2, <2>1, <2>3, InterfaceMoves DEF Quiet
      <3>2. QED
        BY <2>1, <2>2, <2>3, <3>1 DEF InterruptInv, Sending, Polling
    <2>4. CASE acc = Access /\ at' = "after"
      <3>1. acc = Write("CR", Current.control)
        BY <1>6, <2>4, AccessAt
      <3>2. i_int_en_reg' <=> HasBit(Current.control, IEN)
        BY <1>1, <2>1, <3>1, CommandMoves
      <3>3. ~i_int_en_reg'
        BY <2>1, <3>2, CurrentWord
      <3>4. ~irq'
        <4>1. irq' <=> i_int_pe_reg /\ i_int_en_reg
          BY <1>1, InterfaceMoves
        <4>2. step = 1 \/ step > 1
          BY <2>1
        <4>3. QED
          BY <2>1, <4>1, <4>2
      <3>5. QED
        BY <2>1, <2>2, <2>4, <3>3, <3>4 DEF InterruptInv, Sending, Polling
    <2>5. QED
      BY <1>1, <1>6, <2>3, <2>4 DEF Moved, Goes1
  <1>7. CASE at \in Polling
    <2>1. /\ ~Writes(acc, "CR")
          /\ call \in Calls /\ call.op # "configure" /\ step \in 1..Len(Script(call))
          /\ ~i_int_en_reg
      BY <1>1, <1>2, <1>7, AccessAt DEF InterruptInv, Polling
    <2>2. ~i_int_en_reg' /\ ~irq'
      BY <1>1, <2>1, InterfaceMoves
    <2>3. \/ at' \in Polling \union {"ready", "abort"} /\ UNCHANGED <<call, step>>
          \/ /\ at' = "before" /\ step # Len(Script(call)) /\ step' = step + 1
             /\ call' = call
      BY <1>1, <1>7 DEF Moved, Goes1, Polling
    <2>4. at' = "before" => step' \in 1..Len(Script(call'))
      <3>1. Len(Script(call)) \in Nat
        BY <2>1, Scripts
      <3>2. "before" \notin Polling
        BY DEF Polling
      <3>3. QED
        BY <2>1, <2>3, <3>1, <3>2
    <2>5. QED
      BY <2>1, <2>2, <2>3, <2>4 DEF InterruptInv, Sending, Polling
  <1>8. QED
    BY <1>3, <1>4, <1>5, <1>6, <1>7 DEF ControlTypeOK, Points, Polling

LEMMA InterruptStep ==
  ControlTypeOK /\ HandshakeInv /\ InterruptInv /\ [Next]_vars => InterruptInv'
  <1> SUFFICES ASSUME ControlTypeOK, HandshakeInv, InterruptInv, [Next]_vars
               PROVE  InterruptInv'
    OBVIOUS
  <1>1. CASE Cycle
    BY <1>1, InterruptCycle DEF Cycle
  <1>2. CASE Reset
    BY <1>2 DEF Reset, DriverReset, InterruptInv, Sending, Polling
  <1>3. CASE UNCHANGED vars
    BY <1>3
    DEF vars, interfaceVars, driverVars, InterruptInv, Sending, Polling
  <1>4. QED
    BY <1>1, <1>2, <1>3 DEF Next

(* No interrupt reaches the processor while the driver polls for the end   *)
(* of a transfer, whatever i2c_configure was called with before.           *)
THEOREM PollingStaysQuiet == Spec => []PollingIsQuiet
  <1>1. Init => InterruptInv
    BY DEF Init, DriverInit, InterruptInv, Sending, Polling
  <1>2. InterruptInv => PollingIsQuiet
    BY DEF InterruptInv, PollingIsQuiet, Polling
  <1>3. QED
    BY <1>1, <1>2, HandshakeInit, HandshakeStep, InterruptStep, PTL DEF Spec

-----------------------------------------------------------------------------
(* The lines.  The outputs of the core are those of the state before.  The *)
(* invariant says what each state may find on them, so that SDA stands     *)
(* still under a high SCL; the last state of a transfer must last two      *)
(* cycles, or the lines would not have followed when the core begins to    *)
(* repeat what it sees on them: the base clock must not run at full speed. *)

(* What the device leaves of a line the core lets go. *)
Held == IF device.sda = 1 THEN 1 ELSE 0

Fields == {"mode", "first", "count", "byte", "ack", "sda"}

Shape == device = [f \in Fields |-> device[f]]

ClockInv ==
  /\ i_clkdiv_reg \in Nat /\ i_clkdiv_reg >= 1 /\ clk_ctr \in Nat
  /\ sclk => clk_ctr = 0

(* The lines rest: SCL does not move, and under a high SCL neither does    *)
(* SDA, which is only low if the device pulls it down.                     *)
Rests == scl_in = scl_out /\ (scl_out = 1 => sda_in = sda /\ sda = Held)

Levels ==
  /\ p_state \in {"Reset", "Idle", "Done", "DoneAck", "Start_A"} => Rests
  /\ p_state = "Reset" => scl_out = 1
  /\ p_state \in {"Rd_B", "RdAck_B"} /\ scl_out = 1 => sda_out = 1
  /\ p_state \in {"Start_B", "Rd_C", "Rd_D", "RdAck_C", "RdAck_D"} => sda_out = 1
  /\ (p_state = "Wr_B" /\ scl_out = 1) \/ p_state = "Wr_C" => sda_out = BitOf(i_data_in, i_ctr)
  /\ (p_state = "WrAck_B" /\ scl_out = 1) \/ p_state = "WrAck_C" => sda_out = i_ack_reg
  /\ p_state = "Stop_B" /\ scl_out = 1 => sda_out = 0
  /\ p_state = "Stop_C" /\ sclk => scl_out = 1 /\ sda_out = 1
  /\ p_state \in {"RdAck_E", "WrAck_D"} /\ sclk => scl_out = 0
  /\ p_state \in {"Start_A", "Start_B", "Start_C"} => cmd.start
  /\ p_state \in {"Stop_A", "Stop_B", "Stop_C"} => cmd.stop

LineInv == Shape /\ ClockInv /\ scl_out \in Bit /\ Levels

(* What each state puts on the lines. *)
LEMMA LineOutputs ==
  ASSUME CoreTick(scl_in, sda_in, sclk, cmd, i_data_in, i_ack_reg, i_cmd_done_ack)
  PROVE  /\ p_state \in {"Idle", "Done", "DoneAck"} => scl_out' = scl_in /\ sda_out' = sda_in
         /\ p_state = "Start_A" => scl_out' = scl_in /\ sda_out' = 1
         /\ p_state \in ClockLow => scl_out' = 0
         /\ p_state \in {"Reset", "Start_B", "Rd_B", "Rd_C", "Rd_D", "RdAck_B", "RdAck_C",
                         "RdAck_D", "Stop_C"} => scl_out' = 1 /\ sda_out' = 1
         /\ p_state \in {"Start_C", "Stop_B"} => scl_out' = 1 /\ sda_out' = 0
         /\ p_state \in {"Wr_B", "Wr_C"} =>
              scl_out' = 1 /\ sda_out' = BitOf(i_data_in, i_ctr)
         /\ p_state \in {"WrAck_B", "WrAck_C"} => scl_out' = 1 /\ sda_out' = i_ack_reg
  <1>1. scl_out' = CASE p_state \in {"Idle", "Done", "DoneAck", "Start_A"} -> scl_in
                     [] p_state \in ClockLow -> 0
                     [] OTHER -> 1
    BY DEF CoreTick, i_scl_out
  <1>2. sda_out' = CASE p_state \in {"Idle", "Done", "DoneAck"} -> sda_in
                     [] p_state \in {"Start_C", "Start_D", "Stop_A", "Stop_B"} -> 0
                     [] p_state \in {"Wr_A", "Wr_B", "Wr_C", "Wr_D", "Wr_E"} ->
                          BitOf(i_data_in, i_ctr)
                     [] p_state \in {"WrAck_A", "WrAck_B", "WrAck_C", "WrAck_D"} -> i_ack_reg
                     [] OTHER -> 1
    BY DEF CoreTick, i_sda_out
  <1>3. QED
    BY <1>1, <1>2 DEF ClockLow

(* The states a transfer goes through. *)
LEMMA Follows ==
  ASSUME CoreTick(scl_in, sda_in, sclk, cmd, i_data_in, i_ack_reg, i_cmd_done_ack),
         p_state \in Working
  PROVE  /\ p_state' # p_state => sclk \/ p_state \in Unpaced
         /\ p_state = "Rd_F" => p_state' = "Rd_A"
         /\ p_state = "Wr_E" => p_state' = "Wr_A"
         /\ p_state = "Start_A" => p_state' \in {"Start_A", "Start_B"}
         /\ p_state = "Start_B" => p_state' \in {"Start_B", "Start_C"}
         /\ p_state = "Start_C" => p_state' \in {"Start_C", "Start_D"}
         /\ p_state = "Start_D" => p_state' \in {"Start_D", "Wr_A", "Rd_A"}
         /\ p_state = "Stop_A" => p_state' \in {"Stop_A", "Stop_B"}
         /\ p_state = "Stop_B" => p_state' \in {"Stop_B", "Stop_C"}
         /\ p_state = "Stop_C" => p_state' \in {"Stop_C", "Done"}
         /\ p_state = "Rd_A" => p_state' \in {"Rd_A", "Rd_B"}
         /\ p_state = "Rd_B" => p_state' \in {"Rd_B", "Rd_C"}
         /\ p_state = "Rd_C" => p_state' = "Rd_D"
         /\ p_state = "Rd_D" => p_state' \in {"Rd_D", "Rd_E"}
         /\ p_state = "Rd_E" => p_state' \in {"Rd_E", "Rd_F", "WrAck_A"}
         /\ p_state = "WrAck_A" => p_state' \in {"WrAck_A", "WrAck_B"}
         /\ p_state = "WrAck_B" => p_state' \in {"WrAck_B", "WrAck_C"}
         /\ p_state = "WrAck_C" => p_state' \in {"WrAck_C", "WrAck_D"}
         /\ p_state = "Wr_A" => p_state' \in {"Wr_A", "Wr_B"}
         /\ p_state = "Wr_B" => p_state' \in {"Wr_B", "Wr_C"}
         /\ p_state = "Wr_C" => p_state' \in {"Wr_C", "Wr_D"}
         /\ p_state = "Wr_D" => p_state' \in {"Wr_D", "Wr_E", "RdAck_A"}
         /\ p_state = "RdAck_A" => p_state' \in {"RdAck_A", "RdAck_B"}
         /\ p_state = "RdAck_B" => p_state' \in {"RdAck_B", "RdAck_C"}
         /\ p_state = "RdAck_C" => p_state' = "RdAck_D"
         /\ p_state = "RdAck_D" => p_state' \in {"RdAck_D", "RdAck_E"}
         /\ p_state \in {"RdAck_E", "WrAck_D"} => p_state' \in {p_state, "Stop_A", "Done"}
         /\ p_state \in {"RdAck_E", "WrAck_D"} /\ p_state' = "Stop_A" => cmd.stop
  <1>1. p_state' = IF sclk \/ p_state \in Unpaced THEN n_state(cmd, i_cmd_done_ack)
                   ELSE p_state
    BY DEF CoreTick
  <1>2. n_state(cmd, i_cmd_done_ack) =
          CASE p_state = "Idle" ->
                 IF (cmd.read \/ cmd.write) /\ cmd.start THEN "Start_A" ELSE Body(cmd, "Idle")
            [] p_state = "Start_D" -> Body(cmd, "Start_D")
            [] p_state = "Rd_E" -> IF i_ctr = 7 THEN "WrAck_A" ELSE "Rd_F"
            [] p_state = "Wr_D" -> IF i_ctr = 7 THEN "RdAck_A" ELSE "Wr_E"
            [] p_state \in {"WrAck_D", "RdAck_E"} -> AfterByte(cmd)
            [] p_state = "DoneAck" -> IF i_cmd_done_ack THEN "Idle" ELSE "DoneAck"
            [] OTHER -> Successor[p_state]
    BY DEF n_state
  <1>3. /\ Successor["Start_A"] = "Start_B" /\ Successor["Start_B"] = "Start_C"
        /\ Successor["Start_C"] = "Start_D"
        /\ Successor["Stop_A"] = "Stop_B" /\ Successor["Stop_B"] = "Stop_C"
        /\ Successor["Stop_C"] = "Done"
        /\ Successor["Rd_A"] = "Rd_B" /\ Successor["Rd_B"] = "Rd_C"
        /\ Successor["Rd_C"] = "Rd_D" /\ Successor["Rd_D"] = "Rd_E"
        /\ Successor["Rd_F"] = "Rd_A" /\ Successor["Wr_E"] = "Wr_A"
    BY DEF Successor
  <1>4. /\ Successor["WrAck_A"] = "WrAck_B" /\ Successor["WrAck_B"] = "WrAck_C"
        /\ Successor["WrAck_C"] = "WrAck_D"
        /\ Successor["Wr_A"] = "Wr_B" /\ Successor["Wr_B"] = "Wr_C"
        /\ Successor["Wr_C"] = "Wr_D"
        /\ Successor["RdAck_A"] = "RdAck_B" /\ Successor["RdAck_B"] = "RdAck_C"
        /\ Successor["RdAck_C"] = "RdAck_D" /\ Successor["RdAck_D"] = "RdAck_E"
    BY DEF Successor
  <1>5. p_state \in Unpaced => p_state \in {"Rd_C", "Rd_F", "RdAck_C", "Wr_E"}
    BY DEF Working, Unpaced
  <1>6. CASE p_state \in {"Start_D", "Rd_E", "Wr_D", "WrAck_D", "RdAck_E"}
    BY <1>1, <1>2, <1>5, <1>6 DEF Body, AfterByte
  <1>7. CASE p_state \in {"Start_A", "Start_B", "Start_C", "Stop_A", "Stop_B", "Stop_C",
                          "Rd_A", "Rd_B", "Rd_C", "Rd_D", "Rd_F", "Wr_E"}
    BY <1>1, <1>2, <1>3, <1>5, <1>7 DEF Unpaced
  <1>8. CASE p_state \in {"WrAck_A", "WrAck_B", "WrAck_C", "Wr_A", "Wr_B", "Wr_C",
                          "RdAck_A", "RdAck_B", "RdAck_C", "RdAck_D"}
    BY <1>1, <1>2, <1>4, <1>5, <1>8 DEF Unpaced
  <1>9. QED
    BY <1>6, <1>7, <1>8 DEF Working, States, Paced, Unpaced

(* The device moves SDA under a low SCL only. *)
LEMMA DeviceHolds ==
  ASSUME Shape, scl_out \in Bit, NEW log, DeviceTick(log)
  PROVE  Shape' /\ (scl_out = 1 => device'.sda = device.sda)
  <1>1. CASE SeesCondition(log)
    BY <1>1 DEF SeesCondition, Shape, Fields
  <1>2. CASE TakesBit(log)
    BY <1>2 DEF TakesBit, Shape, Fields
  <1>3. CASE scl_out = 0 /\ ChangesLine(log)
    <2>1. \A b, i : Drives(b, i) => Shape'
      BY DEF Drives, Shape, Fields
    <2>2. NextByte => Shape'
      BY <2>1 DEF NextByte, Shape, Fields
    <2>3. \A a \in Bit : device' = [device EXCEPT !.ack = a, !.sda = a, !.count = 9] => Shape'
      BY DEF Shape, Fields
    <2>4. device' = [device EXCEPT !.sda = 1, !.count = 9] => Shape'
      BY DEF Shape, Fields
    <2>5. Shape'
      BY <1>3, <2>1, <2>2, <2>3, <2>4 DEF ChangesLine
    <2>6. QED
      BY <1>3, <2>5
  <1>4. CASE UNCHANGED device
    BY <1>4 DEF Shape
  <1>5. \/ SeesCondition(log) \/ TakesBit(log) \/ UNCHANGED device
        \/ scl_out = 0 /\ ChangesLine(log)
    BY DEF DeviceTick, Ignores, scl
  <1>6. QED
    BY <1>1, <1>2, <1>3, <1>4, <1>5

(* A divisor is written in i2c_init only. *)
LEMMA DivisorAt == at # "init" => ~Writes(Access, "CD")
  <1>1. /\ at = "ready" => Access = NoAccess
        /\ at = "data" => Access = Write("DR", Current.data)
        /\ at = "control" => Access = Write("CR", Current.control)
        /\ at \in {"get", "get2"} => Access = Read("DR")
        /\ at \in {"abort", "clear"} => Access = Write("CR", STP)
        /\ at = "configure" => Access = Write("CR", Flag(call.irq, IEN))
        /\ at \notin {"init", "ready", "data", "control", "get", "get2", "abort",
                      "clear", "configure"} => Access = Read("SR")
    BY DEF Access
  <1>2. /\ \A d : ~Writes(Write("CR", d), "CD") /\ ~Writes(Write("DR", d), "CD")
        /\ \A r : ~Writes(Read(r), "CD")
        /\ ~Writes(NoAccess, "CD")
    BY DEF Writes, Write, Read, NoAccess
  <1>3. QED
    BY <1>1, <1>2

(* The base clock pauses after a pulse, and the command and what it sends  *)
(* stand while the core works.                                             *)
LEMMA ClockCycle ==
  ASSUME Divisor >= 1, ControlTypeOK, HandshakeInv, ClockInv, NEW acc, CycleWith(acc)
  PROVE  /\ ClockInv'
         /\ sclk => ~sclk'
         /\ TIP /\ ~cmd_done => UNCHANGED <<cmd, i_data_in, i_ack_reg>>
  <1>1. /\ DriverTick(acc) /\ ClkgenTick(i_clkdiv_reg)
        /\ InterfaceTick(acc, data_out, ack_out, busy, cmd_done)
    BY DEF CycleWith
  <1>2. /\ TIP /\ ~cmd_done => UNCHANGED <<cmd, i_data_in, i_ack_reg>>
        /\ i_clkdiv_reg' = IF ~TIP /\ Writes(acc, "CD") THEN acc.data ELSE i_clkdiv_reg
    BY <1>1 DEF InterfaceTick, EndCommand, WriteRegister
  <1>3. Writes(acc, "CD") => acc = Write("CD", Divisor)
    <2>1. ~Writes(NoAccess, "CD") /\ (at = "init" => Access = Write("CD", Divisor))
      BY DEF Writes, NoAccess, Access
    <2>2. QED
      BY <1>1, <2>1, DriverMoves, DivisorAt
  <1>4. i_clkdiv_reg' \in Nat /\ i_clkdiv_reg' >= 1
    <2>1. Divisor \in 0..255
      BY DriverAssumption
    <2>2. Write("CD", Divisor).data = Divisor
      BY DEF Write
    <2>3. QED
      BY <1>2, <1>3, <2>1, <2>2 DEF ClockInv
  <1>5. /\ sclk' = (clk_ctr >= i_clkdiv_reg)
        /\ clk_ctr' = IF clk_ctr >= i_clkdiv_reg THEN 0 ELSE clk_ctr + 1
    BY <1>1 DEF ClkgenTick
  <1>6. sclk' <=> clk_ctr >= i_clkdiv_reg
    BY <1>5
  <1>7. QED
    BY <1>2, <1>4, <1>5, <1>6 DEF ClockInv

(* What all cases of a cycle start from. *)
LEMMA LineMoves ==
  ASSUME Divisor >= 1, ControlTypeOK, HandshakeInv, LineInv, NEW acc, CycleWith(acc)
  PROVE  /\ Shape' /\ ClockInv' /\ scl_out' \in Bit
         /\ scl_in' = scl_out /\ sda_in' = sda
         /\ scl_out = 1 => Held' = Held
         /\ sclk => ~sclk'
         /\ p_state \in Working \/ (p_state = "Idle" /\ TIP) =>
              UNCHANGED <<cmd, i_data_in, i_ack_reg>>
         /\ p_state \in {"Wr_B", "Wr_C"} => i_ctr' = i_ctr
  <1>1. /\ CoreTick(scl_in, sda_in, sclk, cmd, i_data_in, i_ack_reg, i_cmd_done_ack)
        /\ scl_in' = scl_out /\ sda_in' = sda
        /\ \E log : DeviceTick(log)
    BY DEF CycleWith, scl
  <1>2. Shape' /\ (scl_out = 1 => device'.sda = device.sda)
    BY <1>1, DeviceHolds DEF LineInv
  <1>3. /\ ClockInv' /\ (sclk => ~sclk')
        /\ TIP /\ ~cmd_done => UNCHANGED <<cmd, i_data_in, i_ack_reg>>
    BY ClockCycle DEF LineInv
  <1>4. scl_out' \in Bit
    <2>1. scl_out' \in {scl_in, 0, 1}
      BY <1>1 DEF CoreTick, i_scl_out
    <2>2. p_state \in {"Idle", "Done", "DoneAck", "Start_A"} => scl_in \in Bit
      BY DEF LineInv, Levels, Rests
    <2>3. p_state \notin {"Idle", "Done", "DoneAck", "Start_A"} => scl_out' \in {0, 1}
      BY <1>1 DEF CoreTick, i_scl_out
    <2>4. QED
      BY <2>1, <2>2, <2>3 DEF Bit
  <1>5. p_state \in Working \/ (p_state = "Idle" /\ TIP) => TIP /\ ~cmd_done
    BY DEF HandshakeInv, Handshake, Quiet, Over, Working
  <1>6. p_state \in {"Wr_B", "Wr_C"} => i_ctr' = i_ctr
    BY <1>1 DEF CoreTick, NextBit
  <1>7. scl_out = 1 => Held' = Held
    BY <1>2 DEF Held
  <1>8. QED
    BY <1>1, <1>2, <1>3, <1>4, <1>5, <1>6, <1>7

(* SDA moves under a high SCL. *)
Condition ==
  scl_out = 1 /\ scl_out' = 1 /\ sda # sda' =>
    IF sda' = 0 THEN p_state = "Start_C" /\ cmd.start ELSE p_state = "Stop_C" /\ cmd.stop

LEMMA LineCycle ==
  ASSUME Divisor >= 1, ControlTypeOK, HandshakeInv, LineInv, NEW acc, CycleWith(acc)
  PROVE  LineInv' /\ Condition
  <1>1. CoreTick(scl_in, sda_in, sclk, cmd, i_data_in, i_ack_reg, i_cmd_done_ack)
    BY DEF CycleWith
  <1>2. /\ Shape' /\ ClockInv' /\ scl_out' \in Bit
        /\ scl_in' = scl_out /\ sda_in' = sda
        /\ scl_out = 1 => Held' = Held
        /\ sclk => ~sclk'
        /\ p_state \in Working \/ (p_state = "Idle" /\ TIP) =>
             UNCHANGED <<cmd, i_data_in, i_ack_reg>>
        /\ p_state \in {"Wr_B", "Wr_C"} => i_ctr' = i_ctr
    BY LineMoves
  <1>3. /\ sda = IF sda_out = 1 THEN Held ELSE 0
        /\ sda' = IF sda_out' = 1 THEN Held' ELSE 0
        /\ Held \in {0, 1} /\ Held' \in {0, 1}
    BY DEF sda, Held
  <1>4. Levels /\ scl_out \in {0, 1} /\ scl_out' \in {0, 1}
    BY <1>2 DEF LineInv, Bit
  <1>5. SUFFICES Levels' /\ Condition
    BY <1>2 DEF LineInv
  <1>6. CASE p_state \in {"Reset", "Idle", "Done", "DoneAck"}
    <2>1. /\ scl_out' = scl_out
          /\ scl_out = 1 => sda_out' = 1 \/ Held = 0
          /\ scl_out = 1 => sda = Held
      BY <1>1, <1>3, <1>4, <1>6, LineOutputs DEF Levels, Rests
    <2>2. Rests' /\ Condition
      BY <1>2, <1>3, <2>1 DEF Rests, Condition
    <2>3. p_state' \in {"Idle", "Done", "DoneAck", "Start_A", "Wr_A", "Rd_A"}
      <3>1. CASE p_state = "Idle"
        BY <1>1, <3>1 DEF CoreTick, n_state, Body, Unpaced
      <3>2. CASE p_state # "Idle"
        BY <1>1, <1>6, <3>2, CoreMoves
      <3>3. QED
        BY <3>1, <3>2
    <2>4. p_state' = "Start_A" => cmd'.start
      <3> SUFFICES ASSUME p_state' = "Start_A" PROVE cmd'.start
        OBVIOUS
      <3>1. p_state = "Idle" /\ TIP
        BY <1>1, <1>6, CoreMoves
      <3>2. cmd.start
        BY <1>1, <3>1 DEF CoreTick, n_state, Body, Unpaced
      <3>3. QED
        BY <1>2, <3>1, <3>2
    <2>5. QED
      BY <2>2, <2>3, <2>4 DEF Levels
  <1>7. CASE p_state \in {"Start_A", "Start_B", "Start_C", "Start_D"}
    <2>1. /\ p_state \in Working /\ p_state \notin Unpaced
      BY <1>7 DEF Working, States, Paced, Unpaced
    <2>2. cmd' = cmd
      BY <1>2, <2>1
    <2>3. CASE p_state = "Start_A"
      <3>1. Rests' /\ Condition /\ sda_out' = 1 /\ cmd.start
        BY <1>1, <1>2, <1>3, <1>4, <2>3, LineOutputs DEF Levels, Rests, Condition
      <3>2. p_state' \in {"Start_A", "Start_B"}
        BY <1>1, <2>1, <2>3, Follows
      <3>3. QED
        BY <2>2, <3>1, <3>2 DEF Levels
    <2>4. CASE p_state = "Start_B"
      <3>1. Condition /\ sda_out' = 1 /\ cmd.start
        BY <1>1, <1>2, <1>3, <1>4, <2>4, LineOutputs DEF Levels, Condition
      <3>2. p_state' \in {"Start_B", "Start_C"}
        BY <1>1, <2>1, <2>4, Follows
      <3>3. QED
        BY <2>2, <3>1, <3>2 DEF Levels
    <2>5. CASE p_state = "Start_C"
      <3>1. Condition /\ cmd.start
        BY <1>1, <1>2, <1>3, <1>4, <2>5, LineOutputs DEF Levels, Condition
      <3>2. p_state' \in {"Start_C", "Start_D"}
        BY <1>1, <2>1, <2>5, Follows
      <3>3. QED
        BY <2>2, <3>1, <3>2 DEF Levels
    <2>6. CASE p_state = "Start_D"
      <3>1. Condition
        BY <1>1, <2>6, LineOutputs DEF Condition, ClockLow
      <3>2. p_state' \in {"Start_D", "Wr_A", "Rd_A"}
        BY <1>1, <2>1, <2>6, Follows
      <3>3. QED
        BY <3>1, <3>2 DEF Levels
    <2>7. QED
      BY <1>7, <2>3, <2>4, <2>5, <2>6
  <1>8. CASE p_state \in {"Stop_A", "Stop_B", "Stop_C"}
    <2>1. p_state \in Working /\ p_state \notin Unpaced
      BY <1>8 DEF Working, States, Paced, Unpaced
    <2>2. cmd' = cmd /\ cmd.stop
      BY <1>2, <1>4, <1>8, <2>1 DEF Levels
    <2>3. CASE p_state = "Stop_A"
      <3>1. Condition /\ scl_out' = 0
        BY <1>1, <2>3, LineOutputs DEF Condition, ClockLow
      <3>2. p_state' \in {"Stop_A", "Stop_B"}
        BY <1>1, <2>1, <2>3, Follows
      <3>3. QED
        BY <2>2, <3>1, <3>2 DEF Levels
    <2>4. CASE p_state = "Stop_B"
      <3>1. Condition /\ sda_out' = 0
        BY <1>1, <1>3, <1>4, <2>4, LineOutputs DEF Levels, Condition
      <3>2. p_state' \in {"Stop_B", "Stop_C"} /\ (p_state' # p_state => sclk)
        BY <1>1, <2>1, <2>4, Follows
      <3>3. QED
        BY <1>2, <2>2, <2>4, <3>1, <3>2 DEF Levels
    <2>5. CASE p_state = "Stop_C"
      <3>1. scl_out' = 1 /\ sda_out' = 1 /\ sda' = Held'
        BY <1>1, <1>3, <2>5, LineOutputs
      <3>2. Condition
        BY <1>2, <1>3, <2>2, <2>5, <3>1 DEF Condition
      <3>3. p_state' \in {"Stop_C", "Done"} /\ (p_state' # p_state => sclk)
        BY <1>1, <2>1, <2>5, Follows
      <3>4. p_state' = "Done" => Rests'
        BY <1>2, <1>3, <1>4, <2>5, <3>1, <3>3 DEF Levels, Rests
      <3>5. QED
        BY <2>2, <3>1, <3>2, <3>3, <3>4 DEF Levels
    <2>6. QED
      BY <1>8, <2>3, <2>4, <2>5
  <1>9. CASE p_state \in {"Rd_A", "Rd_B", "Rd_C", "Rd_D", "Rd_E", "Rd_F"}
    <2>1. p_state \in Working
      BY <1>9 DEF Working, States, Paced, Unpaced
    <2>2. CASE p_state \in {"Rd_B", "Rd_C", "Rd_D"}
      <3>1. Condition /\ sda_out' = 1
        BY <1>1, <1>2, <1>3, <1>4, <2>2, LineOutputs DEF Levels, Condition
      <3>2. p_state' \in {"Rd_B", "Rd_C", "Rd_D", "Rd_E"}
        BY <1>1, <2>1, <2>2, Follows
      <3>3. QED
        BY <3>1, <3>2 DEF Levels
    <2>3. CASE p_state \in {"Rd_A", "Rd_E", "Rd_F"}
      <3>1. Condition /\ scl_out' = 0
        BY <1>1, <2>3, LineOutputs DEF Condition, ClockLow
      <3>2. p_state' \in {"Rd_A", "Rd_B", "Rd_E", "Rd_F", "WrAck_A"}
        BY <1>1, <2>1, <2>3, Follows DEF Unpaced
      <3>3. QED
        BY <3>1, <3>2 DEF Levels
    <2>4. QED
      BY <1>9, <2>2, <2>3
  <1>10. CASE p_state \in {"Wr_A", "Wr_B", "Wr_C", "Wr_D", "Wr_E"}
    <2>1. p_state \in Working
      BY <1>10 DEF Working, States, Paced, Unpaced
    <2>2. CASE p_state \in {"Wr_B", "Wr_C"}
      <3> DEFINE bit == BitOf(i_data_in, i_ctr)
      <3>1. bit' = bit
        BY <1>2, <2>1, <2>2
      <3>2. scl_out' = 1 /\ sda_out' = bit /\ (scl_out = 1 \/ p_state = "Wr_C" => sda_out = bit)
        BY <1>1, <1>4, <2>2, LineOutputs DEF Levels
      <3> HIDE DEF bit
      <3>3. Condition
        BY <1>2, <1>3, <3>2 DEF Condition
      <3>4. p_state' \in {"Wr_B", "Wr_C", "Wr_D"}
        BY <1>1, <2>1, <2>2, Follows
      <3>5. sda_out' = BitOf(i_data_in, i_ctr)'
        BY <3>1, <3>2 DEF bit
      <3>6. QED
        BY <3>3, <3>4, <3>5 DEF Levels
    <2>3. CASE p_state \in {"Wr_A", "Wr_D", "Wr_E"}
      <3>1. Condition /\ scl_out' = 0
        BY <1>1, <2>3, LineOutputs DEF Condition, ClockLow
      <3>2. p_state' \in {"Wr_A", "Wr_B", "Wr_D", "Wr_E", "RdAck_A"}
        BY <1>1, <2>1, <2>3, Follows DEF Unpaced
      <3>3. QED
        BY <3>1, <3>2 DEF Levels
    <2>4. QED
      BY <1>10, <2>2, <2>3
  <1>11. CASE p_state \in {"WrAck_A", "WrAck_B", "WrAck_C", "WrAck_D"}
    <2>1. p_state \in Working /\ p_state \notin Unpaced
      BY <1>11 DEF Working, States, Paced, Unpaced
    <2>2. i_ack_reg' = i_ack_reg /\ cmd' = cmd
      BY <1>2, <2>1
    <2>3. CASE p_state \in {"WrAck_B", "WrAck_C"}
      <3>1. Condition /\ sda_out' = i_ack_reg
        BY <1>1, <1>2, <1>3, <1>4, <2>3, LineOutputs DEF Levels, Condition
      <3>2. /\ p_state' \in {"WrAck_B", "WrAck_C", "WrAck_D"}
            /\ p_state' # p_state => sclk
        BY <1>1, <2>1, <2>3, Follows
      <3>3. QED
        BY <1>2, <2>2, <2>3, <3>1, <3>2 DEF Levels
    <2>4. CASE p_state = "WrAck_A"
      <3>1. Condition /\ scl_out' = 0
        BY <1>1, <2>4, LineOutputs DEF Condition, ClockLow
      <3>2. p_state' \in {"WrAck_A", "WrAck_B"}
        BY <1>1, <2>1, <2>4, Follows
      <3>3. QED
        BY <3>1, <3>2 DEF Levels
    <2>5. CASE p_state = "WrAck_D"
      <3>1. Condition /\ scl_out' = 0
        BY <1>1, <2>5, LineOutputs DEF Condition, ClockLow
      <3>2. /\ p_state' \in {"WrAck_D", "Stop_A", "Done"}
            /\ p_state' # p_state => sclk
            /\ p_state' = "Stop_A" => cmd.stop
        BY <1>1, <2>1, <2>5, Follows
      <3>3. p_state' = "Done" => Rests'
        BY <1>2, <1>4, <2>5, <3>1, <3>2 DEF Levels, Rests
      <3>4. QED
        BY <2>2, <3>1, <3>2, <3>3 DEF Levels
    <2>6. QED
      BY <1>11, <2>3, <2>4, <2>5
  <1>12. CASE p_state \in {"RdAck_A", "RdAck_B", "RdAck_C", "RdAck_D", "RdAck_E"}
    <2>1. p_state \in Working
      BY <1>12 DEF Working, States, Paced, Unpaced
    <2>2. cmd' = cmd
      BY <1>2, <2>1
    <2>3. CASE p_state \in {"RdAck_B", "RdAck_C", "RdAck_D"}
      <3>1. Condition /\ sda_out' = 1
        BY <1>1, <1>2, <1>3, <1>4, <2>3, LineOutputs DEF Levels, Condition
      <3>2. /\ p_state' \in {"RdAck_B", "RdAck_C", "RdAck_D", "RdAck_E"}
            /\ p_state' = "RdAck_E" => sclk
        BY <1>1, <2>1, <2>3, Follows DEF Unpaced
      <3>3. QED
        BY <1>2, <3>1, <3>2 DEF Levels
    <2>4. CASE p_state = "RdAck_A"
      <3>1. Condition /\ scl_out' = 0
        BY <1>1, <2>4, LineOutputs DEF Condition, ClockLow
      <3>2. p_state' \in {"RdAck_A", "RdAck_B"}
        BY <1>1, <2>1, <2>4, Follows
      <3>3. QED
        BY <3>1, <3>2 DEF Levels
    <2>5. CASE p_state = "RdAck_E"
      <3>1. Condition /\ scl_out' = 0
        BY <1>1, <2>5, LineOutputs DEF Condition, ClockLow
      <3>2. /\ p_state' \in {"RdAck_E", "Stop_A", "Done"}
            /\ p_state' # p_state => sclk
            /\ p_state' = "Stop_A" => cmd.stop
        BY <1>1, <2>1, <2>5, Follows DEF Unpaced
      <3>3. p_state' = "Done" => Rests'
        BY <1>2, <1>4, <2>5, <3>1, <3>2 DEF Levels, Rests
      <3>4. QED
        BY <2>2, <3>1, <3>2, <3>3 DEF Levels
    <2>6. QED
      BY <1>12, <2>3, <2>4, <2>5
  <1>13. QED
    BY <1>6, <1>7, <1>8, <1>9, <1>10, <1>11, <1>12 DEF ControlTypeOK, States, Paced, Unpaced

LEMMA LineStep ==
  ASSUME Divisor >= 1, ResetDivisor >= 1
  PROVE  ControlTypeOK /\ HandshakeInv /\ LineInv /\ [Next]_vars =>
           LineInv' /\ [Condition \/ Reset]_vars
  <1> SUFFICES ASSUME ControlTypeOK, HandshakeInv, LineInv, [Next]_vars
               PROVE  LineInv' /\ [Condition \/ Reset]_vars
    OBVIOUS
  <1>1. CASE Cycle
    BY <1>1, LineCycle DEF Cycle
  <1>2. CASE Reset
    <2>1. /\ device' = Silent /\ scl_in' = 1 /\ sda_in' = 1 /\ scl_out' = 1 /\ sda_out' = 1
          /\ p_state' = "Reset" /\ clk_ctr' = 0 /\ i_clkdiv_reg' = ResetDivisor
      BY <1>2 DEF Reset, CoreReset, ClkgenReset, InterfaceReset
    <2>2. Shape' /\ device'.sda = 1
      BY <2>1 DEF Shape, Fields, Silent
    <2>3. ClockInv'
      BY <2>1, DivisorAssumption DEF ClockInv
    <2>4. Rests'
      BY <2>1, <2>2 DEF Rests, sda, Held
    <2>5. LineInv'
      BY <2>1, <2>2, <2>3, <2>4 DEF LineInv, Levels, Bit
    <2>6. QED
      BY <1>2, <2>5
  <1>3. CASE UNCHANGED vars
    <2>1. UNCHANGED <<clkgenVars, coreVars, interfaceVars, scl_in, sda_in, device>>
      BY <1>3 DEF vars
    <2>2. Shape' /\ ClockInv' /\ sda' = sda /\ Held' = Held
      BY <2>1 DEF LineInv, Shape, ClockInv, sda, Held, clkgenVars, coreVars, interfaceVars
    <2>3. LineInv'
      BY <2>1, <2>2
      DEF LineInv, Levels, Rests, clkgenVars, coreVars, interfaceVars
    <2>4. QED
      BY <1>3, <2>3
  <1>4. QED
    BY <1>1, <1>2, <1>3 DEF Next

LEMMA LineInit ==
  ASSUME ResetDivisor >= 1
  PROVE  Init => LineInv
  <1> SUFFICES ASSUME Init PROVE LineInv
    OBVIOUS
  <1>1. /\ device = Silent /\ scl_in = 1 /\ sda_in = 1 /\ scl_out = 1 /\ sda_out = 1
        /\ p_state = "Reset" /\ clk_ctr = 0 /\ i_clkdiv_reg = ResetDivisor
    BY DEF Init, CoreInit, ClkgenInit, InterfaceInit
  <1>2. Shape /\ device.sda = 1
    BY <1>1 DEF Shape, Fields, Silent
  <1>3. ClockInv
    BY <1>1, DivisorAssumption DEF ClockInv
  <1>4. Rests
    BY <1>1, <1>2 DEF Rests, sda, Held
  <1>5. QED
    BY <1>1, <1>2, <1>3, <1>4 DEF LineInv, Levels, Bit

(* If the base clock does not run at full speed (i2c_init sets 125), SDA   *)
(* moves under a high SCL in the START or STOP of a command that asks for  *)
(* it and nowhere else: no bit of a byte is taken for a condition.         *)
THEOREM BitsAreNoConditions ==
  ASSUME Divisor >= 1, ResetDivisor >= 1
  PROVE  Spec => BusConditions
  <1>1. [Condition \/ Reset]_vars =>
          [scl = 1 /\ scl' = 1 /\ sda # sda' /\ ~Reset =>
             IF sda' = 0 THEN p_state = "Start_C" /\ cmd.start
             ELSE p_state = "Stop_C" /\ cmd.stop]_vars
    BY DEF Condition, scl
  <1>2. QED
    BY <1>1, HandshakeInit, HandshakeStep, LineInit, LineStep, PTL DEF Spec, BusConditions
=============================================================================

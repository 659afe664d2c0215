-------------------------- MODULE I2C_transfer_proofs --------------------------
(***************************************************************************)
(* What a transfer of the I2C master puts on the bus and what the program  *)
(* reads of it, for every device, divisor, set of calls and number of      *)
(* bytes.                                                                  *)
(*                                                                         *)
(* The invariant follows a command bit by bit.  Each state of the core     *)
(* says where SCL is, as the core drives it and as the device sees it one  *)
(* cycle later, how many bits the device has taken or given, and what the  *)
(* bus has seen of the call: what came before the command (Prior), the     *)
(* START it asks for (Opened), the byte (Logged) and the STOP (Closed).    *)
(* Between two commands the driver's point says the same.                  *)
(***************************************************************************)
EXTENDS I2C_proofs

(* The first k bits of a byte. *)
TopOf(b, k) == b \div 2^(8 - k)

Starts == HasBit(Current.control, STA)
Stops == HasBit(Current.control, STP)

-----------------------------------------------------------------------------
(* What the bus has seen of the call: before the command, since its START, *)
(* and with the byte and the STOP.                                         *)
Prior ==
  CASE step = 1 -> <<>>
    [] step = 2 -> <<START, Device>>
    [] step = 3 -> <<START, Device, call.index>>
    [] OTHER -> IF call.op = "write"
                THEN <<START, Device, call.index>> \o SubSeq(call.values, 1, step - 3)
                ELSE <<START, Device, call.index, START, Device + 1>> \o value

Opened == IF Starts THEN Append(Prior, START) ELSE Prior

Payload == IF Sends THEN Current.data ELSE i_dout

Logged == Append(Opened, Payload)

Closed == IF Stops THEN Append(Logged, STOP) ELSE Logged

-----------------------------------------------------------------------------
(* The device. *)
Off == device.mode = "off" /\ device.sda = 1

Waiting ==
  device.mode = "receive" /\ ~device.first /\ device.count = 0 /\ device.byte = 0 /\ device.sda = 1

(* It does not move SDA, whatever SCL does. *)
Loose ==
  /\ device.sda = 1
  /\ \/ device.mode = "off"
     \/ device.mode = "receive" /\ device.count \in 0..1 /\ device.byte \in 0..1

Receiving(k) ==
  /\ device.mode = "receive" /\ (device.first <=> Starts)
  /\ device.count = k /\ device.byte = TopOf(Current.data, k) /\ device.sda = 1

Acknowledging ==
  /\ device.mode = "receive" /\ (device.first <=> Starts)
  /\ device.count = 9 /\ device.byte = Current.data /\ device.sda = device.ack

Offering(k) ==
  device.mode = "send" /\ device.count = k /\ device.sda = BitOf(device.byte, k - 1)

Released ==
  device.mode = "send" /\ device.count = 9 /\ device.sda = 1 /\ device.byte = i_dout

Agree(k) == TopOf(i_dout, k) = TopOf(device.byte, k)

(* After the acknowledgement of a byte it was sent. *)
Answered ==
  IF device.ack = 1 THEN Off
  ELSE IF Starts /\ Current.data % 2 = 1 THEN Offering(1) ELSE Waiting

-----------------------------------------------------------------------------
(* SCL. *)
Low == scl_in = 0 /\ scl_out = 0
High == scl_in = 1 /\ scl_out = 1

ClockStages ==
  /\ p_state \in {"Wr_A", "Wr_E", "RdAck_A", "Rd_A", "Rd_F", "WrAck_A", "Stop_A"} => Low
  /\ p_state \in {"Wr_B", "RdAck_B", "Rd_B", "WrAck_B", "Stop_B", "Start_B"} =>
       (scl_in = 1 => scl_out = 1) /\ (sclk => scl_out = 1)
  /\ p_state \in {"Wr_C", "RdAck_C", "Rd_C", "WrAck_C", "Stop_C", "Start_C", "Rd_D", "RdAck_D"} =>
       High
  /\ p_state \in {"Wr_D", "Rd_E", "RdAck_E", "WrAck_D", "Start_D"} =>
       (scl_in = 0 => scl_out = 0) /\ (sclk => scl_out = 0)

(* SDA under a high SCL. *)
DataStages ==
  /\ p_state \notin {"Start_C", "Stop_C"} /\ High => sda_in = sda
  /\ p_state = "Start_C" => (sclk => sda_out = 0) /\ (sda_in = 0 => sda_out = 0)
  /\ p_state = "Stop_C" => (sda_in = 1 => sda_out = 1)

(* The registers behind the receiver. *)
Outputs ==
  /\ p_state # "RdAck_D" => ack_out = i_ack_out
  /\ p_state # "Rd_D" => data_out = i_dout

-----------------------------------------------------------------------------
(* The command. *)
Ready ==
  /\ seen = Prior
  /\ IF Starts THEN Off \/ Waiting
     ELSE Low /\ (IF Sends THEN Waiting ELSE Offering(1))

After ==
  /\ seen = Closed
  /\ IF Stops THEN High /\ Off
     ELSE Low /\ (IF Sends THEN Answered ELSE Offering(1))
  /\ Sends => i_ack_out = device.ack

StartStages ==
  /\ p_state \in {"Start_A", "Start_B", "Start_C", "Start_D"} => Starts /\ i_ctr = 0
  /\ p_state = "Start_A" => (Off \/ Waiting) /\ seen = Prior
  /\ p_state = "Start_B" => Loose /\ (scl_in = 0 => Off \/ Waiting) /\ seen = Prior
  /\ p_state = "Start_C" => IF sda_in = 1 THEN Loose /\ seen = Prior
                            ELSE Receiving(0) /\ seen = Opened
  /\ p_state = "Start_D" => Receiving(0) /\ seen = Opened

WriteStages ==
  /\ p_state \in {"Wr_A", "Wr_B", "Wr_C", "Wr_D", "Wr_E",
                  "RdAck_A", "RdAck_B", "RdAck_C", "RdAck_D", "RdAck_E"} => Sends
  /\ p_state = "Wr_A" => Receiving(i_ctr) /\ seen = Opened
  /\ p_state = "Wr_B" => Receiving(IF scl_in = 1 THEN i_ctr + 1 ELSE i_ctr) /\ seen = Opened
  /\ p_state = "Wr_C" => Receiving(i_ctr + 1) /\ seen = Opened
  /\ p_state = "Wr_D" => IF scl_in = 1 \/ i_ctr < 7 THEN Receiving(i_ctr + 1) /\ seen = Opened
                         ELSE Acknowledging /\ seen = Logged
  /\ p_state = "Wr_E" => i_ctr < 7 /\ Receiving(i_ctr + 1) /\ seen = Opened
  /\ p_state \in {"RdAck_A", "RdAck_B", "RdAck_C", "RdAck_D"} => Acknowledging /\ seen = Logged
  /\ p_state = "RdAck_C" => sda_in = device.ack
  /\ p_state = "RdAck_D" => i_ack_out = device.ack
  /\ p_state = "RdAck_E" => /\ i_ack_out = device.ack /\ seen = Logged
                            /\ IF scl_in = 1 THEN Acknowledging ELSE Answered

ReadStages ==
  /\ p_state \in {"Rd_A", "Rd_B", "Rd_C", "Rd_D", "Rd_E", "Rd_F",
                  "WrAck_A", "WrAck_B", "WrAck_C", "WrAck_D"} => ~Sends
  /\ p_state \in {"Rd_A", "Rd_B", "Rd_C"} => Offering(i_ctr + 1) /\ Agree(i_ctr) /\ seen = Opened
  /\ p_state = "Rd_C" => sda_in = device.sda
  /\ p_state = "Rd_D" => Offering(i_ctr + 1) /\ Agree(i_ctr + 1) /\ seen = Opened
  /\ p_state = "Rd_E" =>
       /\ Agree(i_ctr + 1) /\ seen = Opened
       /\ IF scl_in = 1 THEN Offering(i_ctr + 1)
          ELSE IF i_ctr < 7 THEN Offering(i_ctr + 2) ELSE Released
  /\ p_state = "Rd_F" => i_ctr < 7 /\ Offering(i_ctr + 2) /\ Agree(i_ctr + 1) /\ seen = Opened
  /\ p_state = "WrAck_A" => Released /\ seen = Opened
  /\ p_state = "WrAck_B" => /\ Released
                            /\ IF scl_in = 1 THEN device.ack = i_ack_reg /\ seen = Logged
                               ELSE seen = Opened
  /\ p_state = "WrAck_C" => Released /\ device.ack = i_ack_reg /\ seen = Logged
  /\ p_state = "WrAck_D" =>
       /\ seen = Logged
       /\ IF scl_in = 1 THEN Released /\ device.ack = i_ack_reg
          ELSE IF i_ack_reg = 1 THEN Off ELSE Offering(1)

StopStages ==
  /\ p_state \in {"Stop_A", "Stop_B", "Stop_C"} => Stops /\ (Sends => i_ack_out = device.ack)
  /\ p_state = "Stop_A" => (Off \/ Waiting) /\ seen = Logged
  /\ p_state = "Stop_B" => Loose /\ (scl_in = 0 => Off \/ Waiting) /\ seen = Logged
  /\ p_state = "Stop_C" => IF sda_in = 1 THEN Off /\ seen = Closed
                           ELSE Loose /\ seen = Logged

InCommand ==
  /\ p_state = "Idle" /\ TIP => Ready
  /\ StartStages /\ WriteStages /\ ReadStages /\ StopStages
  /\ p_state \in {"Done", "DoneAck"} \/ (p_state = "Idle" /\ ~TIP) => After

(* The driver. *)
CommandInv ==
  /\ at \in Sending \union Polling =>
       /\ Len(value) = IF step <= 3 \/ call.op = "write" THEN 0 ELSE step - 4
       /\ result = "none"
  /\ at = "control" /\ Sends => i_data_in = Current.data
  /\ at \in {"after", "after2"} =>
       /\ Sends => i_data_in = Current.data
       /\ i_ack_reg = Current.control % 2
       /\ TIP => cmd = Command(Current.control)
  /\ at \in {"data", "status", "status2"} => Sends
  /\ at \in {"get", "get2"} => ~Sends
  /\ at \in {"init", "clear", "configure", "abort"} => result = "none"

TransferInv ==
  /\ at \in Sending => Ready
  /\ at \in {"after", "after2"} => InCommand
  /\ at \in {"status", "status2", "get", "get2"} => After
  /\ at = "status2" => HasBit(readdata, LAR_BIT) <=> device.ack = 1
  /\ at = "get2" => readdata = i_dout
  /\ at \notin Sending \union Polling => (Off \/ Waiting) /\ Len(seen) <= Size + 6
  /\ at = "ready" /\ result = "SUCCESS" => seen = Transaction /\ High

BitInv ==
  /\ ClockStages /\ DataStages /\ Outputs /\ CommandInv /\ TransferInv

-----------------------------------------------------------------------------
(* Bytes, bit by bit from the most significant.                            *)

LEMMA Bits ==
  ASSUME NEW b \in Byte
  PROVE  /\ TopOf(b, 0) = 0 /\ TopOf(b, 8) = b
         /\ \A i \in 0..7 : /\ TopOf(b, i) \in Nat /\ BitOf(b, i) \in Bit
                            /\ TopOf(b, i + 1) = 2 * TopOf(b, i) + BitOf(b, i)
         /\ BitOf(b, 7) = b % 2
  <1>1. /\ 2^(8 - 0) = 256 /\ 2^(8 - 8) = 1 /\ 2^(7 - 7) = 1
        /\ b \in Nat /\ b < 256
    BY DEF Byte
  <1>2. TopOf(b, 0) = 0 /\ TopOf(b, 8) = b /\ BitOf(b, 7) = b % 2
    BY <1>1 DEF TopOf, BitOf
  <1>3. ASSUME NEW i \in 0..7
        PROVE  /\ TopOf(b, i) \in Nat /\ BitOf(b, i) \in Bit
               /\ TopOf(b, i + 1) = 2 * TopOf(b, i) + BitOf(b, i)
    <2> DEFINE p == 2^(7 - i)
    <2>1. /\ 8 - (i + 1) = 7 - i
          /\ <<p, 2^(8 - i)>> \in {<<128, 256>>, <<64, 128>>, <<32, 64>>, <<16, 32>>, <<8, 16>>,
                                  <<4, 8>>, <<2, 4>>, <<1, 2>>}
      <3>1. CASE i = 0
        BY <3>1
      <3>2. CASE i = 1
        BY <3>2
      <3>3. CASE i = 2
        BY <3>3
      <3>4. CASE i = 3
        BY <3>4
      <3>5. CASE i = 4
        BY <3>5
      <3>6. CASE i = 5
        BY <3>6
      <3>7. CASE i = 6
        BY <3>7
      <3>8. CASE i = 7
        BY <3>8
      <3>9. QED
        BY <3>1, <3>2, <3>3, <3>4, <3>5, <3>6, <3>7, <3>8
    <2>2. BitOf(b, i) = (b \div p) % 2 /\ TopOf(b, i + 1) = b \div p
      BY <2>1 DEF BitOf, TopOf
    <2>3. TopOf(b, i) = b \div 2^(8 - i)
      BY DEF TopOf
    <2> HIDE DEF p
    <2>4. TopOf(b, i) \in Nat
      BY <1>1, <2>1, <2>3
    <2>5. BitOf(b, i) \in Bit /\ TopOf(b, i + 1) = 2 * TopOf(b, i) + BitOf(b, i)
      BY <1>1, <2>1, <2>2, <2>3 DEF Bit
    <2>6. QED
      BY <2>4, <2>5
  <1>4. QED
    BY <1>2, <1>3

LEMMA SettingABit ==
  ASSUME NEW b \in Byte, NEW i \in 0..7, NEW v \in Bit
  PROVE  /\ WithBit(b, i, v) \in Byte
         /\ TopOf(WithBit(b, i, v), i + 1) = 2 * TopOf(b, i) + v
  <1> DEFINE p == 2^(7 - i)
             q == BitOf(b, i)
             w == b + (v - q) * p
  <1>1. /\ 8 - (i + 1) = 7 - i
        /\ p \in {128, 64, 32, 16, 8, 4, 2, 1}
    <2>1. CASE i = 0
      BY <2>1
    <2>2. CASE i = 1
      BY <2>2
    <2>3. CASE i = 2
      BY <2>3
    <2>4. CASE i = 3
      BY <2>4
    <2>5. CASE i = 4
      BY <2>5
    <2>6. CASE i = 5
      BY <2>6
    <2>7. CASE i = 6
      BY <2>7
    <2>8. CASE i = 7
      BY <2>8
    <2>9. QED
      BY <2>1, <2>2, <2>3, <2>4, <2>5, <2>6, <2>7, <2>8
  <1>2. /\ q \in {0, 1} /\ v \in {0, 1} /\ b \in Nat /\ b < 256
        /\ 2 * TopOf(b, i) + q = TopOf(b, i + 1)
    <2>1. BitOf(b, i) \in Bit /\ TopOf(b, i + 1) = 2 * TopOf(b, i) + BitOf(b, i)
      BY Bits
    <2>2. QED
      BY <2>1 DEF Bit, Byte
  <1>3. /\ WithBit(b, i, v) = w /\ q = (b \div p) % 2 /\ TopOf(b, i + 1) = b \div p
        /\ TopOf(w, i + 1) = w \div p
    BY <1>1 DEF WithBit, BitOf, TopOf
  <1>4. TopOf(b, i) \in Nat
    BY Bits
  <1> HIDE DEF p, q
  <1>5. w \in Nat /\ w < 256 /\ w \div p = (b \div p) + v - q
    <2>1. CASE v = q
      BY <1>1, <1>2, <2>1
    <2>2. CASE v = 1 /\ q = 0
      BY <1>1, <1>2, <1>3, <2>2
    <2>3. CASE v = 0 /\ q = 1
      BY <1>1, <1>2, <1>3, <2>3
    <2>4. QED
      BY <1>2, <2>1, <2>2, <2>3
  <1> HIDE DEF w
  <1>6. QED
    BY <1>2, <1>3, <1>4, <1>5 DEF Byte

-----------------------------------------------------------------------------
(* The scripts, command by command.                                        *)

LEMMA SizeOfByte == Size \in Nat /\ Size >= 1 /\ Device \in 0..254 /\ Device % 2 = 0
  BY DriverAssumption

LEMMA TransferCall ==
  ASSUME NEW c \in Calls, c.op # "configure"
  PROVE  /\ c.op \in {"write", "read"} /\ c.index \in 0..255
         /\ c.values \in [1..Size -> 0..255]
  <1>1. c \in [op : {"write", "read"}, index : 0..255, values : [1..Size -> 0..255]]
    BY DriverAssumption
  <1>2. QED
    BY <1>1

LEMMA Concatenation ==
  ASSUME NEW S, NEW s \in Seq(S), NEW t \in Seq(S), NEW c, c = s \o t
  PROVE  /\ c \in Seq(S) /\ Len(c) = Len(s) + Len(t)
         /\ \A i \in 1..(Len(s) + Len(t)) :
              c[i] = IF i <= Len(s) THEN s[i] ELSE t[i - Len(s)]
  BY ConcatProperties

LEMMA HeaderOf ==
  ASSUME NEW c \in Calls, c.op # "configure"
  PROVE  /\ Header(c) \in Seq([data : Int, control : Int])
         /\ Len(Header(c)) = 2
         /\ Header(c)[1] = Order(Device, STA + WR) /\ Header(c)[2] = Order(c.index, WR)
  <1>1. Order(Device, STA + WR) \in [data : Int, control : Int]
    BY SizeOfByte DEF Order, STA, WR
  <1>2. Order(c.index, WR) \in [data : Int, control : Int]
    <2>1. c.index \in 0..255
      BY TransferCall
    <2>2. c.index \in Int
      BY <2>1
    <2>3. QED
      BY <2>2 DEF Order, WR
  <1>3. QED
    BY <1>1, <1>2 DEF Header

LEMMA WriteScript ==
  ASSUME NEW c \in Calls, c.op = "write"
  PROVE  /\ Len(Script(c)) = 2 + Size
         /\ Script(c)[1] = Order(Device, STA + WR) /\ Script(c)[2] = Order(c.index, WR)
         /\ \A k \in 3..(2 + Size) :
              Script(c)[k] = Order(c.values[k - 2], IF k < 2 + Size THEN WR ELSE STP + WR)
  <1> DEFINE S == [data : Int, control : Int]
             h == Header(c)
             w == WriteLoop(c)
  <1>1. Script(c) = h \o w
    BY DEF Script
  <1>2. /\ h \in Seq(S) /\ Len(h) = 2
        /\ h[1] = Order(Device, STA + WR) /\ h[2] = Order(c.index, WR)
    BY HeaderOf
  <1>3. /\ w = [i \in 1..Size |-> Order(c.values[i], IF i < Size THEN WR ELSE STP + WR)]
        /\ \A i \in 1..Size : Order(c.values[i], IF i < Size THEN WR ELSE STP + WR) \in S
    <2>1. \A i \in 1..Size : c.values[i] \in 0..255
      BY TransferCall
    <2>2. QED
      BY <2>1 DEF WriteLoop, Order, WR, STP
  <1> HIDE DEF h, w, S
  <1>4. w \in Seq(S) /\ Len(w) = Size
    <2>1. w \in [1..Size -> S]
      BY <1>3
    <2>2. QED
      BY <2>1, SizeOfByte
  <1>5. /\ Len(h \o w) = 2 + Size
        /\ \A i \in 1..(2 + Size) : (h \o w)[i] = IF i <= 2 THEN h[i] ELSE w[i - 2]
    <2> DEFINE c1 == h \o w
    <2> HIDE DEF c1
    <2>1. h \in Seq(S) /\ w \in Seq(S) /\ c1 = h \o w
      BY <1>2, <1>4 DEF c1
    <2>2. /\ c1 \in Seq(S) /\ Len(c1) = Len(h) + Len(w)
          /\ \A i \in 1..(Len(h) + Len(w)) :
               c1[i] = IF i <= Len(h) THEN h[i] ELSE w[i - Len(h)]
      BY <2>1, Concatenation
    <2>3. Len(c1) = 2 + Size /\ \A i \in 1..(2 + Size) : c1[i] = IF i <= 2 THEN h[i] ELSE w[i - 2]
      BY <1>2, <1>4, <2>2
    <2>4. QED
      BY <2>1, <2>3
  <1>6. (h \o w)[1] = h[1] /\ (h \o w)[2] = h[2]
    BY <1>5, SizeOfByte
  <1>7. ASSUME NEW k \in 3..(2 + Size)
        PROVE  (h \o w)[k] = Order(c.values[k - 2], IF k < 2 + Size THEN WR ELSE STP + WR)
    <2>1. k - 2 \in 1..Size /\ (k - 2 < Size <=> k < 2 + Size) /\ ~(k <= 2) /\ k \in 1..(2 + Size)
      BY SizeOfByte
    <2>2. (h \o w)[k] = w[k - 2]
      BY <1>5, <2>1
    <2>3. w[k - 2] = Order(c.values[k - 2], IF k - 2 < Size THEN WR ELSE STP + WR)
      BY <1>3, <2>1
    <2>4. QED
      BY <2>1, <2>2, <2>3
  <1>8. QED
    BY <1>1, <1>2, <1>5, <1>6, <1>7

LEMMA ReadScript ==
  ASSUME NEW c \in Calls, c.op = "read"
  PROVE  /\ Len(Script(c)) = 3 + Size
         /\ Script(c)[1] = Order(Device, STA + WR) /\ Script(c)[2] = Order(c.index, WR)
         /\ Script(c)[3] = Order(Device + 1, STA + WR)
         /\ \A k \in 4..(3 + Size) :
              Script(c)[k] = Order(0, IF k < 3 + Size THEN RD ELSE STP + RD + ACK)
  <1> DEFINE S == [data : Int, control : Int]
             h == Header(c)
             a == <<Order(Device + 1, STA + WR)>>
             r == ReadLoop
             g == h \o a
  <1>1. Script(c) = g \o r
    BY DEF Script, g
  <1>2. /\ h \in Seq(S) /\ Len(h) = 2
        /\ h[1] = Order(Device, STA + WR) /\ h[2] = Order(c.index, WR)
    BY HeaderOf
  <1>3. a \in Seq(S) /\ Len(a) = 1 /\ a[1] = Order(Device + 1, STA + WR)
    <2>1. Order(Device + 1, STA + WR) \in S
      BY SizeOfByte DEF Order, STA, WR
    <2>2. QED
      BY <2>1
  <1>4. /\ r = [i \in 1..Size |-> Order(0, IF i < Size THEN RD ELSE STP + RD + ACK)]
        /\ \A i \in 1..Size : Order(0, IF i < Size THEN RD ELSE STP + RD + ACK) \in S
    BY DEF ReadLoop, Order, RD, STP, ACK
  <1> HIDE DEF h, a, r, S
  <1>5. r \in Seq(S) /\ Len(r) = Size
    <2>1. r \in [1..Size -> S]
      BY <1>4
    <2>2. QED
      BY <2>1, SizeOfByte
  <1> HIDE DEF g
  <1>6. /\ g \in Seq(S) /\ Len(g) = 3
        /\ g[1] = h[1] /\ g[2] = h[2] /\ g[3] = a[1]
    <2>1. h \in Seq(S) /\ a \in Seq(S) /\ g = h \o a
      BY <1>2, <1>3 DEF g
    <2>2. /\ g \in Seq(S) /\ Len(g) = Len(h) + Len(a)
          /\ \A i \in 1..(Len(h) + Len(a)) :
               g[i] = IF i <= Len(h) THEN h[i] ELSE a[i - Len(h)]
      BY <2>1, Concatenation
    <2>3. Len(g) = 3 /\ \A i \in 1..3 : g[i] = IF i <= 2 THEN h[i] ELSE a[i - 2]
      BY <1>2, <1>3, <2>2
    <2>4. g[1] = h[1] /\ g[2] = h[2]
      BY <2>3
    <2>5. g[3] = a[3 - 2]
      BY <2>3
    <2>6. g \in Seq(S) /\ Len(g) = 3
      BY <2>2, <2>3
    <2>7. g[3] = a[1]
      <3>1. 3 - 2 = 1
        OBVIOUS
      <3>2. QED
        BY <2>5, <3>1, Zenon
    <2>8. QED
      BY <2>4, <2>6, <2>7
  <1>7. /\ Len(g \o r) = 3 + Size
        /\ \A i \in 1..(3 + Size) : (g \o r)[i] = IF i <= 3 THEN g[i] ELSE r[i - 3]
    <2> DEFINE c1 == g \o r
    <2> HIDE DEF c1
    <2>1. g \in Seq(S) /\ r \in Seq(S) /\ c1 = g \o r
      BY <1>5, <1>6 DEF c1
    <2>2. /\ c1 \in Seq(S) /\ Len(c1) = Len(g) + Len(r)
          /\ \A i \in 1..(Len(g) + Len(r)) :
               c1[i] = IF i <= Len(g) THEN g[i] ELSE r[i - Len(g)]
      BY <2>1, Concatenation
    <2>3. Len(c1) = 3 + Size /\ \A i \in 1..(3 + Size) : c1[i] = IF i <= 3 THEN g[i] ELSE r[i - 3]
      BY <1>5, <1>6, <2>2
    <2>4. QED
      BY <2>1, <2>3
  <1>8. (g \o r)[1] = g[1] /\ (g \o r)[2] = g[2] /\ (g \o r)[3] = g[3]
    BY <1>7, SizeOfByte
  <1>9. ASSUME NEW k \in 4..(3 + Size)
        PROVE  (g \o r)[k] = Order(0, IF k < 3 + Size THEN RD ELSE STP + RD + ACK)
    <2>1. k - 3 \in 1..Size /\ (k - 3 < Size <=> k < 3 + Size) /\ ~(k <= 3) /\ k \in 1..(3 + Size)
      BY SizeOfByte
    <2>2. (g \o r)[k] = r[k - 3]
      BY <1>7, <2>1
    <2>3. r[k - 3] = Order(0, IF k - 3 < Size THEN RD ELSE STP + RD + ACK)
      BY <1>4, <2>1
    <2>4. QED
      BY <2>1, <2>2, <2>3
  <1>10. QED
    BY <1>1, <1>2, <1>3, <1>6, <1>7, <1>8, <1>9

LEMMA WordBits ==
  /\ HasBit(STA + WR, STA) /\ HasBit(STA + WR, WR) /\ ~HasBit(STA + WR, RD)
  /\ ~HasBit(STA + WR, STP) /\ (STA + WR) % 2 = 0
  /\ ~HasBit(WR, STA) /\ HasBit(WR, WR) /\ ~HasBit(WR, RD) /\ ~HasBit(WR, STP) /\ WR % 2 = 0
  /\ ~HasBit(STP + WR, STA) /\ HasBit(STP + WR, WR) /\ ~HasBit(STP + WR, RD)
  /\ HasBit(STP + WR, STP) /\ (STP + WR) % 2 = 0
  /\ ~HasBit(RD, STA) /\ ~HasBit(RD, WR) /\ HasBit(RD, RD) /\ ~HasBit(RD, STP) /\ RD % 2 = 0
  /\ ~HasBit(STP + RD + ACK, STA) /\ ~HasBit(STP + RD + ACK, WR)
  /\ HasBit(STP + RD + ACK, RD) /\ HasBit(STP + RD + ACK, STP) /\ (STP + RD + ACK) % 2 = 1
  BY DEF HasBit, STA, WR, STP, RD, ACK

(* A command of a transfer. *)
InScript == call \in Calls /\ call.op # "configure" /\ step \in 1..Len(Script(call))

LEMMA CommandOf ==
  ASSUME InScript
  PROVE  /\ call.op \in {"write", "read"} /\ step \in Nat /\ step >= 1
         /\ Len(Script(call)) = IF call.op = "write" THEN 2 + Size ELSE 3 + Size
         /\ step <= Len(Script(call))
         /\ Starts <=> step = 1 \/ (call.op = "read" /\ step = 3)
         /\ Sends <=> call.op = "write" \/ step <= 3
         /\ Stops <=> step = Len(Script(call))
         /\ HasBit(Current.control, RD) <=> ~Sends
         /\ Current.control % 2 = IF ~Sends /\ Stops THEN 1 ELSE 0
         /\ Current.data \in 0..255
         /\ step = 1 => Current.data = Device
         /\ step = 2 => Current.data = call.index
         /\ step = 3 /\ call.op = "read" => Current.data = Device + 1
         /\ step >= 3 /\ call.op = "write" => Current.data = call.values[step - 2]
  <1> USE DEF InScript
  <1>1. /\ \A d, k : Order(d, k).data = d /\ Order(d, k).control = k
        /\ call.op \in {"write", "read"} /\ call.index \in 0..255
        /\ call.values \in [1..Size -> 0..255]
        /\ Device \in 0..254 /\ Size \in Nat /\ Size >= 1
    BY TransferCall, SizeOfByte DEF Order
  <1>2. CASE call.op = "write"
    <2>1. /\ Len(Script(call)) = 2 + Size
          /\ Script(call)[1] = Order(Device, STA + WR)
          /\ Script(call)[2] = Order(call.index, WR)
          /\ \A k \in 3..(2 + Size) :
               Script(call)[k] = Order(call.values[k - 2], IF k < 2 + Size THEN WR ELSE STP + WR)
      BY <1>2, WriteScript
    <2>2. step \in Nat /\ step >= 1 /\ step <= 2 + Size
      BY <1>1, <2>1
    <2>3. CASE step = 1
      <3>1. Current.data = Device /\ Current.control = STA + WR
        BY <1>1, <2>1, <2>3 DEF Current
      <3>2. QED
        BY <1>1, <1>2, <2>1, <2>2, <2>3, <3>1, WordBits DEF Starts, Sends, Stops
    <2>4. CASE step = 2
      <3>1. Current.data = call.index /\ Current.control = WR
        BY <1>1, <2>1, <2>4 DEF Current
      <3>2. QED
        BY <1>1, <1>2, <2>1, <2>2, <2>4, <3>1, WordBits DEF Starts, Sends, Stops
    <2>5. CASE step >= 3
      <3>1. /\ Current.data = call.values[step - 2]
            /\ Current.control = IF step < 2 + Size THEN WR ELSE STP + WR
        BY <1>1, <2>1, <2>2, <2>5 DEF Current
      <3>2. Current.data \in 0..255
        <4>1. step - 2 \in 1..Size
          BY <1>1, <2>2, <2>5
        <4>2. \A i \in 1..Size : call.values[i] \in 0..255
          BY TransferCall
        <4>3. call.values[step - 2] \in 0..255
          BY <4>1, <4>2
        <4>4. QED
          BY <3>1, <4>3
      <3>3. CASE step < 2 + Size
        <4>1. Current.control = WR
          BY <3>1, <3>3
        <4>2. QED
          BY <1>1, <1>2, <2>1, <2>2, <2>5, <3>1, <3>2, <3>3, <4>1, WordBits
          DEF Starts, Sends, Stops
      <3>4. CASE step = 2 + Size
        <4>1. Current.control = STP + WR
          BY <1>1, <3>1, <3>4
        <4>2. QED
          BY <1>1, <1>2, <2>1, <2>2, <2>5, <3>1, <3>2, <3>4, <4>1, WordBits
          DEF Starts, Sends, Stops
      <3>5. QED
        BY <1>1, <2>2, <3>3, <3>4
    <2>6. QED
      BY <2>2, <2>3, <2>4, <2>5
  <1>3. CASE call.op = "read"
    <2>1. /\ Len(Script(call)) = 3 + Size
          /\ Script(call)[1] = Order(Device, STA + WR)
          /\ Script(call)[2] = Order(call.index, WR)
          /\ Script(call)[3] = Order(Device + 1, STA + WR)
          /\ \A k \in 4..(3 + Size) :
               Script(call)[k] = Order(0, IF k < 3 + Size THEN RD ELSE STP + RD + ACK)
      BY <1>3, ReadScript
    <2>2. step \in Nat /\ step >= 1 /\ step <= 3 + Size
      BY <1>1, <2>1
    <2>3. CASE step = 1
      <3>1. Current.data = Device /\ Current.control = STA + WR
        BY <1>1, <2>1, <2>3 DEF Current
      <3>2. QED
        BY <1>1, <1>3, <2>1, <2>2, <2>3, <3>1, WordBits DEF Starts, Sends, Stops
    <2>4. CASE step = 2
      <3>1. Current.data = call.index /\ Current.control = WR
        BY <1>1, <2>1, <2>4 DEF Current
      <3>2. QED
        BY <1>1, <1>3, <2>1, <2>2, <2>4, <3>1, WordBits DEF Starts, Sends, Stops
    <2>5. CASE step = 3
      <3>1. Current.data = Device + 1 /\ Current.control = STA + WR
        BY <1>1, <2>1, <2>5 DEF Current
      <3>2. Device + 1 \in 0..255 /\ 3 # 3 + Size
        BY <1>1
      <3>3. Starts /\ Sends /\ ~Stops /\ ~HasBit(Current.control, RD) /\ Current.control % 2 = 0
        BY <3>1, WordBits DEF Starts, Sends, Stops
      <3>4. QED
        BY <1>3, <2>1, <2>2, <2>5, <3>1, <3>2, <3>3
    <2>6. CASE step >= 4
      <3>1. /\ Current.data = 0
            /\ Current.control = IF step < 3 + Size THEN RD ELSE STP + RD + ACK
        BY <1>1, <2>1, <2>2, <2>6 DEF Current
      <3>2. CASE step < 3 + Size
        <4>1. Current.control = RD
          BY <3>1, <3>2
        <4>2. QED
          BY <1>1, <1>3, <2>1, <2>2, <2>6, <3>1, <3>2, <4>1, WordBits
          DEF Starts, Sends, Stops
      <3>3. CASE step = 3 + Size
        <4>1. Current.control = STP + RD + ACK
          BY <1>1, <3>1, <3>3
        <4>2. QED
          BY <1>1, <1>3, <2>1, <2>2, <2>6, <3>1, <3>3, <4>1, WordBits
          DEF Starts, Sends, Stops
      <3>4. QED
        BY <1>1, <2>2, <3>2, <3>3
    <2>7. QED
      BY <2>2, <2>3, <2>4, <2>5, <2>6
  <1>4. QED
    BY <1>1, <1>2, <1>3

-----------------------------------------------------------------------------
(* What the bus has seen, from command to command.                         *)

LEMMA Extended ==
  ASSUME NEW s \in Seq(Int), NEW e \in Int, NEW u \in Seq(Int),
         Len(u) = Len(s) + 1, \A i \in 1..Len(s) : u[i] = s[i], u[Len(s) + 1] = e
  PROVE  Append(s, e) = u
  <1> DEFINE t == Append(s, e)
  <1>1. /\ t \in Seq(Int) /\ Len(t) = Len(s) + 1
        /\ \A i \in 1..Len(s) : t[i] = s[i]
        /\ t[Len(s) + 1] = e
    BY AppendProperties
  <1> HIDE DEF t
  <1>2. Len(s) \in Nat
    OBVIOUS
  <1>3. ASSUME NEW i \in 1..Len(t) PROVE t[i] = u[i]
    <2>1. i \in 1..Len(s) \/ i = Len(s) + 1
      BY <1>1, <1>2
    <2>2. QED
      BY <1>1, <2>1
  <1>4. t = u
    BY <1>1, <1>3, SeqEqual
  <1>5. QED
    BY <1>4 DEF t

LEMMA Tuples ==
  ASSUME NEW a \in Int, NEW b \in Int, NEW c \in Int, NEW d \in Int, NEW e \in Int
  PROVE  /\ Append(<<>>, a) = <<a>> /\ Append(<<a>>, b) = <<a, b>>
         /\ Append(<<a, b>>, c) = <<a, b, c>>
         /\ Append(<<a, b, c>>, d) = <<a, b, c, d>>
         /\ Append(<<a, b, c, d>>, e) = <<a, b, c, d, e>>
  <1>1. Append(<<>>, a) = <<a>>
    OBVIOUS
  <1>2. Append(<<a>>, b) = <<a, b>>
    <2> DEFINE s == <<a>>
               u == <<a, b>>
    <2>1. /\ s \in Seq(Int) /\ u \in Seq(Int) /\ Len(s) = 1 /\ Len(u) = 2
          /\ u[1] = s[1] /\ u[2] = b
      OBVIOUS
    <2> HIDE DEF s, u
    <2>2. \A i \in 1..Len(s) : u[i] = s[i]
      BY <2>1
    <2>3. Len(u) = Len(s) + 1 /\ u[Len(s) + 1] = b
      BY <2>1
    <2>4. Append(s, b) = u
      BY <2>1, <2>2, <2>3, Extended
    <2>5. QED
      BY <2>4 DEF s, u
  <1>3. Append(<<a, b>>, c) = <<a, b, c>>
    <2> DEFINE s == <<a, b>>
               u == <<a, b, c>>
    <2>1. /\ s \in Seq(Int) /\ u \in Seq(Int) /\ Len(s) = 2 /\ Len(u) = 3
          /\ u[1] = s[1] /\ u[2] = s[2] /\ u[3] = c
      OBVIOUS
    <2> HIDE DEF s, u
    <2>2. \A i \in 1..Len(s) : u[i] = s[i]
      BY <2>1
    <2>3. Len(u) = Len(s) + 1 /\ u[Len(s) + 1] = c
      BY <2>1
    <2>4. Append(s, c) = u
      BY <2>1, <2>2, <2>3, Extended
    <2>5. QED
      BY <2>4 DEF s, u
  <1>4. Append(<<a, b, c>>, d) = <<a, b, c, d>>
    <2> DEFINE s == <<a, b, c>>
               u == <<a, b, c, d>>
    <2>1. /\ s \in Seq(Int) /\ u \in Seq(Int) /\ Len(s) = 3 /\ Len(u) = 4
          /\ u[1] = s[1] /\ u[2] = s[2] /\ u[3] = s[3] /\ u[4] = d
      OBVIOUS
    <2> HIDE DEF s, u
    <2>2. \A i \in 1..Len(s) : u[i] = s[i]
      BY <2>1
    <2>3. Len(u) = Len(s) + 1 /\ u[Len(s) + 1] = d
      BY <2>1
    <2>4. Append(s, d) = u
      BY <2>1, <2>2, <2>3, Extended
    <2>5. QED
      BY <2>4 DEF s, u
  <1>5. Append(<<a, b, c, d>>, e) = <<a, b, c, d, e>>
    <2> DEFINE s == <<a, b, c, d>>
               u == <<a, b, c, d, e>>
    <2>1. /\ s \in Seq(Int) /\ u \in Seq(Int) /\ Len(s) = 4 /\ Len(u) = 5
          /\ u[1] = s[1] /\ u[2] = s[2] /\ u[3] = s[3] /\ u[4] = s[4] /\ u[5] = e
      OBVIOUS
    <2> HIDE DEF s, u
    <2>2. \A i \in 1..Len(s) : u[i] = s[i]
      BY <2>1
    <2>3. Len(u) = Len(s) + 1 /\ u[Len(s) + 1] = e
      BY <2>1
    <2>4. Append(s, e) = u
      BY <2>1, <2>2, <2>3, Extended
    <2>5. QED
      BY <2>4 DEF s, u
  <1>6. QED
    BY <1>1, <1>2, <1>3, <1>4, <1>5

LEMMA BytesAreInts ==
  ASSUME NEW n \in Nat, NEW v \in [1..n -> 0..255]
  PROVE  v \in [1..n -> Int] /\ \A i \in 1..n : v[i] \in Int
  <1>1. \A x \in 0..255 : x \in Int
    OBVIOUS
  <1>2. \A i \in 1..n : v[i] \in 0..255
    OBVIOUS
  <1>3. \A i \in 1..n : v[i] \in Int
    BY <1>1, <1>2, Zenon
  <1>4. QED
    BY <1>3

LEMMA AppendConcat ==
  ASSUME NEW s \in Seq(Int), NEW t \in Seq(Int), NEW e \in Int
  PROVE  /\ Append(s \o t, e) = s \o Append(t, e)
         /\ Append(s \o t, e) = (s \o t) \o <<e>>
         /\ s \o t \in Seq(Int) /\ Len(s \o t) = Len(s) + Len(t)
  <1>1. s \o t \in Seq(Int) /\ Len(s \o t) = Len(s) + Len(t)
    BY ConcatProperties
  <1>2. Append(s \o t, e) = (s \o t) \o <<e>>
    BY <1>1, AppendIsConcat
  <1>3. Append(t, e) = t \o <<e>>
    BY AppendIsConcat
  <1>4. (s \o t) \o <<e>> = s \o (t \o <<e>>)
    <2>1. <<e>> \in Seq(Int)
      OBVIOUS
    <2>2. QED
      BY <2>1, ConcatAssociative
  <1>5. QED
    BY <1>1, <1>2, <1>3, <1>4

LEMMA ValuesSent ==
  ASSUME NEW v \in [1..Size -> 0..255]
  PROVE  /\ v \in Seq(Int) /\ Len(v) = Size
         /\ SubSeq(v, 1, 0) = <<>> /\ SubSeq(v, 1, Size) = v
         /\ \A m \in 0..(Size - 1) :
              /\ SubSeq(v, 1, m) \in Seq(Int) /\ Len(SubSeq(v, 1, m)) = m
              /\ SubSeq(v, 1, m + 1) = Append(SubSeq(v, 1, m), v[m + 1])
  <1>1. v \in Seq(Int) /\ Len(v) = Size /\ Size \in Nat
    <2>1. v \in [1..Size -> Int]
      BY BytesAreInts, SizeOfByte
    <2>2. QED
      BY <2>1, SizeOfByte
  <1>2. SubSeq(v, 1, 0) = <<>>
    BY SubSeqEmpty
  <1>3. SubSeq(v, 1, Size) = v
    BY <1>1, SubSeqFull
  <1>4. ASSUME NEW m \in 0..(Size - 1)
        PROVE  /\ SubSeq(v, 1, m) \in Seq(Int) /\ Len(SubSeq(v, 1, m)) = m
               /\ SubSeq(v, 1, m + 1) = Append(SubSeq(v, 1, m), v[m + 1])
    <2>1. /\ m \in Int /\ m + 1 \in 1..Len(v) /\ 1 \in 1..Len(v) /\ m + 1 \in 1..Size
          /\ 1..m \subseteq 1..Size
      BY <1>1
    <2>8. \A i \in 1..Size : v[i] \in Int
      BY BytesAreInts, SizeOfByte
    <2>9. \A i \in 1..m : v[i] \in Int
      BY <2>1, <2>8, Zenon
    <2>2. SubSeq(v, 1, m) \in Seq(Int) /\ Len(SubSeq(v, 1, m)) = m
      <3>1. /\ SubSeq(v, 1, m) \in Seq(Int)
            /\ Len(SubSeq(v, 1, m)) = IF 1 <= m THEN m - 1 + 1 ELSE 0
        BY <2>1, <2>9, SubSeqProperties
      <3>2. QED
        BY <3>1
    <2>3. SubSeq(v, 1, m + 1) = SubSeq(v, 1, (m + 1) - 1) \o <<v[m + 1]>>
      BY <1>1, <2>1, SubSeqRecursiveSecond
    <2>4. v[m + 1] \in Int
      BY <2>1, <2>8, Zenon
    <2>5. Append(SubSeq(v, 1, m), v[m + 1]) = SubSeq(v, 1, m) \o <<v[m + 1]>>
      BY <2>2, <2>4, AppendIsConcat
    <2>6. (m + 1) - 1 = m
      OBVIOUS
    <2>7. QED
      BY <2>2, <2>3, <2>5, <2>6
  <1>5. QED
    BY <1>1, <1>2, <1>3, <1>4

LEMMA Codes == START \in Int /\ STOP \in Int /\ Device \in Int /\ Device + 1 \in Int
  BY SizeOfByte DEF START, STOP

(* The bytes read so far. *)
ReadSoFar ==
  /\ value \in Seq(Int)
  /\ Len(value) = IF step <= 3 \/ call.op = "write" THEN 0 ELSE step - 4

WriteHeader == <<START, Device, call.index>>
ReadHeader == <<START, Device, call.index, START, Device + 1>>

LEMMA Headers ==
  ASSUME InScript
  PROVE  /\ WriteHeader \in Seq(Int) /\ Len(WriteHeader) = 3
         /\ ReadHeader \in Seq(Int) /\ Len(ReadHeader) = 5
  <1>1. call.index \in Int
    <2>1. call.index \in 0..255
      BY TransferCall DEF InScript
    <2>2. QED
      BY <2>1
  <1>2. QED
    BY <1>1, Codes DEF WriteHeader, ReadHeader

LEMMA PriorOf ==
  ASSUME InScript, ReadSoFar
  PROVE  /\ step = 1 => Prior = <<>>
         /\ step = 2 => Prior = <<START, Device>>
         /\ step = 3 => Prior = WriteHeader
         /\ step >= 3 /\ call.op = "write" =>
              Prior = WriteHeader \o SubSeq(call.values, 1, step - 3)
         /\ step >= 4 /\ call.op = "read" => Prior = ReadHeader \o value
  <1>1. /\ call.values \in [1..Size -> 0..255] /\ call.op \in {"write", "read"}
        /\ step \in Nat /\ step >= 1
    BY TransferCall, CommandOf DEF InScript
  <1>2. /\ step = 1 => Prior = <<>>
        /\ step = 2 => Prior = <<START, Device>>
        /\ step = 3 => Prior = WriteHeader
        /\ step >= 4 /\ call.op = "write" =>
              Prior = WriteHeader \o SubSeq(call.values, 1, step - 3)
        /\ step >= 4 /\ call.op = "read" => Prior = ReadHeader \o value
    BY <1>1 DEF Prior, WriteHeader, ReadHeader
  <1>3. WriteHeader = WriteHeader \o <<>>
    BY Headers, ConcatEmptySeq
  <1>4. SubSeq(call.values, 1, 0) = <<>>
    BY <1>1, ValuesSent
  <1>5. step = 3 => step - 3 = 0
    BY <1>1
  <1>6. step = 3 => Prior = WriteHeader \o SubSeq(call.values, 1, step - 3)
    BY <1>2, <1>3, <1>4, <1>5
  <1>7. step >= 3 => step = 3 \/ step >= 4
    BY <1>1
  <1>8. QED
    BY <1>2, <1>6, <1>7

(* The log grows by what a command puts on the bus. *)
LEMMA LogOf ==
  ASSUME InScript, ReadSoFar, i_dout \in Int
  PROVE  /\ step = 1 => Logged = <<START, Device>>
         /\ step = 2 => Logged = WriteHeader
         /\ step >= 3 /\ call.op = "write" =>
              /\ Logged = WriteHeader \o SubSeq(call.values, 1, step - 2)
              /\ Logged \in Seq(Int) /\ Len(Logged) = step + 1
         /\ step = 3 /\ call.op = "read" => Logged = ReadHeader
         /\ step >= 4 /\ call.op = "read" =>
              /\ Logged = ReadHeader \o Append(value, i_dout)
              /\ Append(value, i_dout) \in Seq(Int)
              /\ Logged \in Seq(Int) /\ Len(Logged) = step + 2
  <1>1. /\ call.op \in {"write", "read"} /\ step \in Nat /\ step >= 1
        /\ Starts <=> step = 1 \/ (call.op = "read" /\ step = 3)
        /\ Sends <=> call.op = "write" \/ step <= 3
        /\ step = 1 => Current.data = Device
        /\ step = 2 => Current.data = call.index
        /\ step = 3 /\ call.op = "read" => Current.data = Device + 1
        /\ step >= 3 /\ call.op = "write" => Current.data = call.values[step - 2]
        /\ Len(Script(call)) = IF call.op = "write" THEN 2 + Size ELSE 3 + Size
        /\ step <= Len(Script(call))
    BY CommandOf
  <1>2. Logged = Append(IF Starts THEN Append(Prior, START) ELSE Prior,
                        IF Sends THEN Current.data ELSE i_dout)
    BY DEF Logged, Opened, Payload
  <1>11. call.index \in Int
    <2>1. call.index \in 0..255
      BY TransferCall DEF InScript
    <2>2. QED
      BY <2>1
  <1>12. /\ Append(<<>>, START) = <<START>>
         /\ Append(<<START>>, Device) = <<START, Device>>
         /\ Append(<<START, Device>>, call.index) = WriteHeader
         /\ Append(WriteHeader, START) = <<START, Device, call.index, START>>
         /\ Append(<<START, Device, call.index, START>>, Device + 1) = ReadHeader
    <2> DEFINE d == Device + 1
    <2>1. START \in Int /\ Device \in Int /\ d \in Int
      BY Codes
    <2> HIDE DEF d
    <2>2. /\ Append(<<>>, START) = <<START>>
          /\ Append(<<START>>, Device) = <<START, Device>>
          /\ Append(<<START, Device>>, call.index) = <<START, Device, call.index>>
          /\ Append(<<START, Device, call.index>>, START) = <<START, Device, call.index, START>>
          /\ Append(<<START, Device, call.index, START>>, d) =
               <<START, Device, call.index, START, d>>
      BY <1>11, <2>1, Tuples
    <2>3. QED
      BY <2>2 DEF d, WriteHeader, ReadHeader
  <1>3. CASE step = 1
    <2>1. Starts /\ Sends /\ Current.data = Device /\ Prior = <<>>
      BY <1>1, <1>3, PriorOf
    <2>2. Logged = Append(Append(<<>>, START), Device)
      BY <1>2, <2>1
    <2>3. Logged = <<START, Device>>
      BY <1>12, <2>2
    <2>4. QED
      BY <1>3, <2>3
  <1>4. CASE step = 2
    <2>1. ~Starts /\ Sends /\ Current.data = call.index /\ Prior = <<START, Device>>
      BY <1>1, <1>4, PriorOf
    <2>2. Logged = Append(<<START, Device>>, call.index)
      BY <1>2, <2>1
    <2>3. Logged = WriteHeader
      BY <1>12, <2>2
    <2>4. QED
      BY <1>4, <2>3
  <1>5. CASE step >= 3 /\ call.op = "write"
    <2> DEFINE v == call.values
               m == step - 3
    <2>1. /\ v \in [1..Size -> 0..255] /\ m \in 0..(Size - 1) /\ m + 1 = step - 2
          /\ m + 1 \in 1..Size
      <3>1. v \in [1..Size -> 0..255]
        BY <1>5, TransferCall DEF InScript
      <3>2. step <= 2 + Size
        BY <1>1, <1>5
      <3>3. m \in 0..(Size - 1) /\ m + 1 = step - 2 /\ m + 1 \in 1..Size
        BY <1>1, <1>5, <3>2, SizeOfByte
      <3>4. QED
        BY <3>1, <3>3
    <2>2. /\ ~Starts /\ Sends /\ Current.data = v[m + 1]
          /\ Prior = WriteHeader \o SubSeq(v, 1, m)
      <3>1. ~Starts /\ Sends /\ Current.data = v[step - 2]
        BY <1>1, <1>5
      <3>2. Prior = WriteHeader \o SubSeq(v, 1, m)
        BY <1>5, PriorOf
      <3>3. QED
        BY <2>1, <3>1, <3>2
    <2> HIDE DEF v, m
    <2>3. /\ SubSeq(v, 1, m) \in Seq(Int) /\ Len(SubSeq(v, 1, m)) = m
          /\ SubSeq(v, 1, m + 1) = Append(SubSeq(v, 1, m), v[m + 1])
      BY <2>1, ValuesSent
    <2>4. v[m + 1] \in Int
      <3>1. \A i \in 1..Size : v[i] \in Int
        BY <2>1, BytesAreInts, SizeOfByte
      <3>2. QED
        BY <2>1, <3>1, Zenon
    <2>5. /\ Logged = Append(WriteHeader \o SubSeq(v, 1, m), v[m + 1])
          /\ WriteHeader \in Seq(Int) /\ Len(WriteHeader) = 3
      BY <1>2, <2>2, Headers
    <2> DEFINE p == SubSeq(v, 1, m)
               e == v[m + 1]
               w == WriteHeader \o p
    <2>6. Logged = WriteHeader \o SubSeq(v, 1, m + 1)
      <3>1. p \in Seq(Int) /\ e \in Int /\ Logged = Append(WriteHeader \o p, e)
            /\ SubSeq(v, 1, m + 1) = Append(p, e)
        BY <2>3, <2>4, <2>5
      <3> HIDE DEF p, e
      <3>2. Append(WriteHeader \o p, e) = WriteHeader \o Append(p, e)
        BY <2>5, <3>1, AppendConcat
      <3>3. QED
        BY <3>1, <3>2
    <2>7. Logged \in Seq(Int) /\ Len(Logged) = (3 + m) + 1
      <3>1. p \in Seq(Int) /\ e \in Int /\ Len(p) = m /\ Logged = Append(w, e)
        BY <2>3, <2>4, <2>5
      <3> HIDE DEF p, e
      <3>2. w \in Seq(Int) /\ Len(w) = 3 + m
        BY <2>5, <3>1, AppendConcat
      <3> HIDE DEF w
      <3>3. Append(w, e) \in Seq(Int) /\ Len(Append(w, e)) = Len(w) + 1
        BY <3>1, <3>2, AppendProperties
      <3>4. QED
        BY <3>1, <3>2, <3>3
    <2>8. (3 + m) + 1 = step + 1
      BY <1>1 DEF m
    <2>9. Logged = WriteHeader \o SubSeq(call.values, 1, step - 2)
      BY <2>1, <2>6 DEF v
    <2>10. QED
      BY <1>1, <1>5, <2>7, <2>8, <2>9
  <1>6. CASE step = 3 /\ call.op = "read"
    <2>1. Starts /\ Sends /\ Current.data = Device + 1 /\ Prior = WriteHeader
      BY <1>1, <1>6, PriorOf
    <2>2. Logged = Append(Append(WriteHeader, START), Device + 1)
      BY <1>2, <2>1
    <2>3. Logged = ReadHeader
      BY <1>12, <2>2
    <2>4. QED
      BY <1>1, <1>6, <2>3
  <1>7. CASE step >= 4 /\ call.op = "read"
    <2>1. Logged = Append(ReadHeader \o value, i_dout)
      BY <1>1, <1>2, <1>7, PriorOf
    <2>2. value \in Seq(Int) /\ Len(value) = step - 4
      BY <1>1, <1>7 DEF ReadSoFar
    <2>3. ReadHeader \in Seq(Int) /\ Len(ReadHeader) = 5
      BY Headers
    <2>4. /\ Logged = ReadHeader \o Append(value, i_dout)
          /\ ReadHeader \o value \in Seq(Int)
          /\ Len(ReadHeader \o value) = Len(ReadHeader) + Len(value)
      BY <2>1, <2>2, <2>3, AppendConcat
    <2>5. Append(value, i_dout) \in Seq(Int)
      BY <2>2, AppendProperties
    <2>6. Logged \in Seq(Int) /\ Len(Logged) = step + 2
      <3> DEFINE w == ReadHeader \o value
      <3>1. w \in Seq(Int) /\ Logged = Append(w, i_dout) /\ Len(w) = 5 + (step - 4)
        BY <2>1, <2>2, <2>3, <2>4
      <3> HIDE DEF w
      <3>2. Append(w, i_dout) \in Seq(Int) /\ Len(Append(w, i_dout)) = Len(w) + 1
        BY <3>1, AppendProperties
      <3>3. QED
        BY <1>1, <3>1, <3>2
    <2>7. QED
      BY <1>1, <1>7, <2>4, <2>5, <2>6
  <1>8. step >= 3 => step = 3 \/ step >= 4
    BY <1>1
  <1>9. step = 1 \/ step = 2 \/ step >= 3
    BY <1>1
  <1>10. QED
    BY <1>1, <1>3, <1>4, <1>5, <1>6, <1>7, <1>8, <1>9

LEMMA ClosedOf ==
  ASSUME InScript
  PROVE  /\ step # Len(Script(call)) => ~Stops /\ Closed = Logged
         /\ step = Len(Script(call)) => Stops /\ Closed = Append(Logged, STOP)
  <1>1. Stops <=> step = Len(Script(call))
    BY CommandOf
  <1>2. Closed = IF Stops THEN Append(Logged, STOP) ELSE Logged
    BY DEF Closed
  <1>3. QED
    BY <1>1, <1>2

(* After a command that is not the last the log is what the next one finds. *)
LEMMA NextCommand ==
  ASSUME InScript, ReadSoFar, i_dout \in Int, step # Len(Script(call)),
         step' = step + 1, call' = call, value' = IF Sends THEN value ELSE Append(value, i_dout)
  PROVE  Prior' = Closed /\ ReadSoFar'
  <1>1. /\ call.op \in {"write", "read"} /\ step \in Nat /\ step >= 1
        /\ Sends <=> call.op = "write" \/ step <= 3
        /\ Closed = Logged
    BY CommandOf, ClosedOf
  <1>2. Prior' = CASE step' = 1 -> <<>>
                   [] step' = 2 -> <<START, Device>>
                   [] step' = 3 -> WriteHeader
                   [] OTHER -> IF call.op = "write"
                               THEN WriteHeader \o SubSeq(call.values, 1, step' - 3)
                               ELSE ReadHeader \o value'
    BY DEF Prior, WriteHeader, ReadHeader
  <1>3. value \in Seq(Int) /\ Len(value) = IF step <= 3 \/ call.op = "write" THEN 0 ELSE step - 4
    BY DEF ReadSoFar
  <1>4. CASE step = 1
    <2>1. step' = 2 /\ value' = value
      BY <1>1, <1>4
    <2>2. Prior' = <<START, Device>>
      BY <1>2, <2>1
    <2>3. Logged = <<START, Device>>
      BY <1>4, LogOf
    <2>4. ReadSoFar'
      BY <1>3, <1>4, <2>1 DEF ReadSoFar
    <2>5. QED
      BY <1>1, <2>2, <2>3, <2>4
  <1>5. CASE step = 2
    <2>1. step' = 3 /\ value' = value
      BY <1>1, <1>5
    <2>2. Prior' = WriteHeader
      BY <1>2, <2>1
    <2>3. Logged = WriteHeader
      BY <1>5, LogOf
    <2>4. ReadSoFar'
      BY <1>3, <1>5, <2>1 DEF ReadSoFar
    <2>5. QED
      BY <1>1, <2>2, <2>3, <2>4
  <1>6. CASE step >= 3 /\ call.op = "write"
    <2>1. /\ step' # 1 /\ step' # 2 /\ step' # 3 /\ step' - 3 = step - 2 /\ value' = value
      BY <1>1, <1>6
    <2>2. Prior' = WriteHeader \o SubSeq(call.values, 1, step' - 3)
      BY <1>2, <1>6, <2>1
    <2>3. Logged = WriteHeader \o SubSeq(call.values, 1, step - 2)
      BY <1>6, LogOf
    <2>4. Prior' = Logged
      BY <2>1, <2>2, <2>3
    <2>5. ReadSoFar'
      BY <1>3, <1>6, <2>1 DEF ReadSoFar
    <2>6. QED
      BY <1>1, <2>4, <2>5
  <1>7. CASE step = 3 /\ call.op = "read"
    <2>1. step' = 4 /\ value' = value /\ call.op # "write"
      BY <1>1, <1>7
    <2>2. Prior' = ReadHeader \o value
      BY <1>2, <2>1
    <2>3. Logged = ReadHeader
      BY <1>7, LogOf
    <2>4. Len(value) = 0
      BY <1>3, <1>7
    <2>5. value = <<>>
      BY <1>3, <2>4, EmptySeq
    <2>6. ReadHeader \in Seq(Int)
      BY Headers
    <2>7. Prior' = ReadHeader
      BY <2>2, <2>5, <2>6, ConcatEmptySeq
    <2>8. ReadSoFar'
      BY <1>3, <1>7, <2>1, <2>4 DEF ReadSoFar
    <2>9. QED
      BY <1>1, <2>3, <2>7, <2>8
  <1>8. CASE step >= 4 /\ call.op = "read"
    <2>1. /\ step' # 1 /\ step' # 2 /\ step' # 3 /\ ~(step' <= 3) /\ step' - 4 = step - 4 + 1
          /\ value' = Append(value, i_dout) /\ call.op # "write"
      BY <1>1, <1>8
    <2>2. Prior' = ReadHeader \o Append(value, i_dout)
      BY <1>2, <2>1
    <2>3. Logged = ReadHeader \o Append(value, i_dout)
      BY <1>8, LogOf
    <2>4. Len(value) = step - 4
      BY <1>1, <1>3, <1>8
    <2>5. Append(value, i_dout) \in Seq(Int) /\ Len(Append(value, i_dout)) = Len(value) + 1
      BY <1>3, AppendProperties
    <2>6. ReadSoFar'
      BY <2>1, <2>4, <2>5 DEF ReadSoFar
    <2>7. QED
      BY <1>1, <2>2, <2>3, <2>6
  <1>9. step = 1 \/ step = 2 \/ step = 3 \/ step >= 4
    BY <1>1
  <1>10. step = 3 => step >= 3
    BY <1>1
  <1>11. step >= 4 => step >= 3
    BY <1>1
  <1>12. QED
    BY <1>1, <1>4, <1>5, <1>6, <1>7, <1>8, <1>9, <1>10, <1>11

(* After the last one it is the transaction. *)
LEMMA LastCommand ==
  ASSUME InScript, ReadSoFar, i_dout \in Int, step = Len(Script(call)),
         call' = call, value' = IF Sends THEN value ELSE Append(value, i_dout)
  PROVE  Transaction' = Closed
  <1>1. /\ call.op \in {"write", "read"} /\ step \in Nat /\ step >= 1
        /\ Sends <=> call.op = "write" \/ step <= 3
        /\ step = IF call.op = "write" THEN 2 + Size ELSE 3 + Size
        /\ Closed = Append(Logged, STOP) /\ Size \in Nat /\ Size >= 1
    BY CommandOf, ClosedOf, SizeOfByte
  <1>2. Transaction' = IF call.op = "write" THEN WriteHeader \o call.values \o <<STOP>>
                       ELSE ReadHeader \o value' \o <<STOP>>
    BY DEF Transaction, WriteHeader, ReadHeader
  <1>3. CASE call.op = "write"
    <2>1. step >= 3 /\ step - 2 = Size
      BY <1>1, <1>3
    <2>2. Logged = WriteHeader \o SubSeq(call.values, 1, step - 2) /\ Logged \in Seq(Int)
      BY <1>3, <2>1, LogOf
    <2>3. SubSeq(call.values, 1, Size) = call.values
      <3>1. call.values \in [1..Size -> 0..255]
        BY <1>3, TransferCall DEF InScript
      <3>2. QED
        BY <3>1, ValuesSent
    <2>4. Logged = WriteHeader \o call.values
      BY <2>1, <2>2, <2>3
    <2>5. Append(Logged, STOP) = Logged \o <<STOP>>
      BY <2>2, Codes, AppendIsConcat
    <2>6. QED
      BY <1>1, <1>2, <1>3, <2>4, <2>5
  <1>4. CASE call.op = "read"
    <2>1. step >= 4 /\ call.op # "write" /\ ~Sends
      BY <1>1, <1>4
    <2>2. Logged = ReadHeader \o Append(value, i_dout) /\ Logged \in Seq(Int)
      BY <1>4, <2>1, LogOf
    <2>3. Append(Logged, STOP) = Logged \o <<STOP>>
      BY <2>2, Codes, AppendIsConcat
    <2>4. QED
      BY <1>1, <1>2, <2>1, <2>2, <2>3
  <1>5. QED
    BY <1>1, <1>3, <1>4

(* What is seen of a call is never longer than a read. *)
LEMMA LogBound ==
  ASSUME InScript, ReadSoFar, i_dout \in Int
  PROVE  /\ Len(Prior) <= Size + 6 /\ Len(Opened) <= Size + 6
         /\ Len(Logged) <= Size + 6 /\ Len(Closed) <= Size + 6
  <1>1. /\ call.op \in {"write", "read"} /\ step \in Nat /\ step >= 1
        /\ Starts <=> step = 1 \/ (call.op = "read" /\ step = 3)
        /\ Sends <=> call.op = "write" \/ step <= 3
        /\ Current.data \in 0..255
        /\ step <= IF call.op = "write" THEN 2 + Size ELSE 3 + Size
        /\ Size \in Nat /\ Size >= 1
    BY CommandOf, SizeOfByte
  <1>2. /\ Opened = IF Starts THEN Append(Prior, START) ELSE Prior
        /\ Logged = Append(Opened, Payload)
        /\ Closed = Logged \/ Closed = Append(Logged, STOP)
    BY DEF Opened, Logged, Closed
  <1>3. /\ Prior \in Seq(Int)
        /\ Len(Prior) + (IF Starts THEN 1 ELSE 0) <= Size + 4
    <2>1. CASE step = 1
      <3>1. Prior = <<>>
        BY <2>1, PriorOf
      <3>2. Len(Prior) = 0 /\ Prior \in Seq(Int)
        BY <3>1
      <3>3. QED
        BY <1>1, <3>2
    <2>2. CASE step = 2
      <3>1. Prior = <<START, Device>>
        BY <2>2, PriorOf
      <3>2. Len(Prior) = 2 /\ Prior \in Seq(Int)
        BY <3>1, Codes
      <3>3. QED
        BY <1>1, <3>2
    <2>3. CASE step >= 3 /\ call.op = "write"
      <3> DEFINE t == SubSeq(call.values, 1, step - 3)
      <3>1. Prior = WriteHeader \o t
        BY <2>3, PriorOf
      <3>2. step - 3 \in 0..(Size - 1)
        BY <1>1, <2>3
      <3>3. t \in Seq(Int) /\ Len(t) = step - 3
        <4>1. call.values \in [1..Size -> 0..255]
          BY <2>3, TransferCall DEF InScript
        <4>2. QED
          BY <3>2, <4>1, ValuesSent
      <3>4. WriteHeader \in Seq(Int) /\ Len(WriteHeader) = 3
        BY Headers
      <3> HIDE DEF t
      <3>5. Prior \in Seq(Int) /\ Len(Prior) = 3 + Len(t)
        <4>1. WriteHeader \o t \in Seq(Int) /\ Len(WriteHeader \o t) = Len(WriteHeader) + Len(t)
          BY <3>3, <3>4, Codes, AppendConcat
        <4>2. QED
          BY <3>1, <3>4, <4>1
      <3>6. QED
        BY <1>1, <2>3, <3>2, <3>3, <3>5
    <2>4. CASE step = 3 /\ call.op = "read"
      <3>1. Prior = WriteHeader
        BY <2>4, PriorOf
      <3>2. Len(Prior) = 3 /\ Prior \in Seq(Int)
        BY <3>1, Headers
      <3>3. QED
        BY <1>1, <3>2
    <2>5. CASE step >= 4 /\ call.op = "read"
      <3>1. Prior = ReadHeader \o value
        BY <2>5, PriorOf
      <3>2. value \in Seq(Int) /\ Len(value) = step - 4
        BY <1>1, <2>5 DEF ReadSoFar
      <3>3. ReadHeader \in Seq(Int) /\ Len(ReadHeader) = 5
        BY Headers
      <3>4. Prior \in Seq(Int) /\ Len(Prior) = 5 + Len(value)
        <4>1. /\ ReadHeader \o value \in Seq(Int)
              /\ Len(ReadHeader \o value) = Len(ReadHeader) + Len(value)
          BY <3>2, <3>3, Codes, AppendConcat
        <4>2. QED
          BY <3>1, <3>3, <4>1
      <3>5. QED
        BY <1>1, <2>5, <3>2, <3>4
    <2>6. step = 1 \/ step = 2 \/ step = 3 \/ step >= 4
      BY <1>1
    <2>7. (step = 3 => step >= 3) /\ (step >= 4 => step >= 3)
      BY <1>1
    <2>8. QED
      BY <1>1, <2>1, <2>2, <2>3, <2>4, <2>5, <2>6, <2>7
  <1>4. Payload \in Int
    <2>1. Current.data \in Int
      BY <1>1
    <2>2. QED
      BY <2>1 DEF Payload
  <1>5. Append(Prior, START) \in Seq(Int) /\ Len(Append(Prior, START)) = Len(Prior) + 1
    BY <1>3, Codes, AppendProperties
  <1>6. Opened \in Seq(Int) /\ Len(Prior) <= Len(Opened) /\ Len(Opened) <= Size + 4
    <2>1. CASE Starts
      BY <1>1, <1>2, <1>3, <1>5, <2>1, LenProperties
    <2>2. CASE ~Starts
      BY <1>1, <1>2, <1>3, <2>2, LenProperties
    <2>3. QED
      BY <2>1, <2>2
  <1>7. Logged \in Seq(Int) /\ Len(Logged) = Len(Opened) + 1
    BY <1>2, <1>4, <1>6, AppendProperties
  <1>8. Append(Logged, STOP) \in Seq(Int) /\ Len(Append(Logged, STOP)) = Len(Logged) + 1
    BY <1>7, Codes, AppendProperties
  <1>9. Len(Closed) <= Len(Logged) + 1
    <2>1. Len(Logged) \in Nat
      BY <1>7, LenProperties
    <2>2. QED
      BY <1>2, <1>8, <2>1
  <1>10. Len(Prior) \in Nat /\ Len(Opened) \in Nat /\ Len(Logged) \in Nat /\ Len(Closed) \in Nat
    <2>1. Closed \in Seq(Int)
      BY <1>2, <1>7, <1>8
    <2>2. QED
      BY <1>3, <1>6, <1>7, <2>1, LenProperties
  <1>11. QED
    BY <1>1, <1>6, <1>7, <1>9, <1>10

-----------------------------------------------------------------------------
(* What the device does, by what SCL and SDA do.                           *)

(* The device goes by the lines only. *)
LEMMA Ticks ==
  ASSUME NEW log, DeviceTick(log), scl_in \in Bit, scl_out \in Bit
  PROVE  /\ scl_in = 1 /\ scl_out = 1 /\ sda_in # sda => SeesCondition(log)
         /\ scl_in = 0 /\ scl_out = 1 =>
              \/ TakesBit(log)
              \/ /\ ~(device.mode = "receive" /\ device.count < 8)
                 /\ ~(device.mode = "send" /\ device.count = 9)
                 /\ device' = device /\ seen' = log
         /\ scl_in = 1 /\ scl_out = 0 =>
              \/ device.mode # "off" /\ ChangesLine(log)
              \/ /\ ~(device.mode = "receive" /\ device.count >= 8)
                 /\ device.mode # "send"
                 /\ device' = device /\ seen' = log
         /\ scl_in = scl_out /\ (scl_out = 1 => sda_in = sda) => device' = device /\ seen' = log
  <1>1. ASSUME scl_in = 1, scl_out = 1, sda_in # sda PROVE SeesCondition(log)
    <2>1. scl_in # 0 /\ scl_out # 0
      BY <1>1
    <2>2. QED
      BY <1>1, <2>1, Zenon DEF DeviceTick, scl
  <1>2. ASSUME scl_in = 0, scl_out = 1
        PROVE  \/ TakesBit(log)
               \/ /\ ~(device.mode = "receive" /\ device.count < 8)
                  /\ ~(device.mode = "send" /\ device.count = 9)
                  /\ device' = device /\ seen' = log
    <2>1. scl_in # 1
      BY <1>2
    <2>2. QED
      BY <1>2, <2>1, Zenon DEF DeviceTick, Ignores, scl
  <1>3. ASSUME scl_in = 1, scl_out = 0
        PROVE  \/ device.mode # "off" /\ ChangesLine(log)
               \/ /\ ~(device.mode = "receive" /\ device.count >= 8)
                  /\ device.mode # "send"
                  /\ device' = device /\ seen' = log
    <2>1. scl_in # 0 /\ scl_out # 1
      BY <1>3
    <2>2. QED
      BY <1>3, <2>1, Zenon DEF DeviceTick, Ignores, scl
  <1>4. ASSUME scl_in = scl_out, scl_out = 1 => sda_in = sda
        PROVE  device' = device /\ seen' = log
    <2>1. /\ ~(scl_in = 1 /\ scl_out = 1 /\ sda_in # sda)
          /\ ~(scl_in = 0 /\ scl_out = 1) /\ ~(scl_in = 1 /\ scl_out = 0)
      BY <1>4
    <2>2. QED
      BY <2>1, Zenon DEF DeviceTick, scl
  <1>5. QED
    BY <1>1, <1>2, <1>3, <1>4

(* SDA moves under a high SCL. *)
LEMMA Conditions ==
  ASSUME Shape, NEW log, DeviceTick(log), scl_in = 1, scl_out = 1, sda_in # sda
  PROVE  /\ sda = 0 => /\ device'.mode = "receive" /\ device'.first = TRUE /\ device'.count = 0
                       /\ device'.byte = 0
                       /\ device'.ack = device.ack /\ device'.sda = device.sda
                       /\ seen' = Append(log, START)
         /\ sda # 0 => /\ device'.mode = "off"
                       /\ device'.first = device.first /\ device'.count = device.count
                       /\ device'.byte = device.byte
                       /\ device'.ack = device.ack /\ device'.sda = device.sda
                       /\ seen' = Append(log, STOP)
  <1>1. SeesCondition(log)
    BY Ticks DEF Bit
  <1>2. QED
    BY <1>1 DEF SeesCondition, Shape, Fields

(* SCL rises. *)
LEMMA Rising ==
  ASSUME Shape, NEW log, DeviceTick(log), scl_in = 0, scl_out = 1
  PROVE  /\ device.mode = "receive" /\ device.count \in 0..7 =>
              /\ device'.byte = 2 * device.byte + sda /\ device'.count = device.count + 1
              /\ device'.mode = device.mode /\ device'.first = device.first
              /\ device'.ack = device.ack /\ device'.sda = device.sda
              /\ seen' = log
         /\ device.mode = "send" /\ device.count = 9 =>
              /\ device'.ack = sda
              /\ device'.mode = device.mode /\ device'.first = device.first
              /\ device'.byte = device.byte /\ device'.count = device.count
              /\ device'.sda = device.sda
              /\ seen' = Append(log, device.byte)
         /\ \/ device.mode = "off"
            \/ device.mode = "receive" /\ device.count \in 8..9
            \/ device.mode = "send" /\ device.count \in 1..8
            => device' = device /\ seen' = log
  <1>1. \/ TakesBit(log)
        \/ /\ ~(device.mode = "receive" /\ device.count < 8)
           /\ ~(device.mode = "send" /\ device.count = 9)
           /\ device' = device /\ seen' = log
    BY Ticks DEF Bit
  <1>2. CASE /\ device.mode = "receive" /\ device.count < 8
             /\ device' = [device EXCEPT !.byte = 2 * @ + sda, !.count = @ + 1]
             /\ seen' = log
    BY <1>2 DEF Shape, Fields
  <1>5. CASE /\ device.mode = "send" /\ device.count = 9
             /\ device' = [device EXCEPT !.ack = sda]
             /\ seen' = Append(log, device.byte)
    BY <1>5 DEF Shape, Fields
  <1>3. CASE /\ ~(device.mode = "receive" /\ device.count < 8)
             /\ ~(device.mode = "send" /\ device.count = 9)
             /\ device' = device /\ seen' = log
    BY <1>3
  <1>4. QED
    BY <1>1, <1>2, <1>3, <1>5 DEF TakesBit

LEMMA Driven ==
  ASSUME Shape, NEW b, NEW i, Drives(b, i)
  PROVE  /\ device'.mode = "send" /\ device'.first = FALSE /\ device'.byte = b
         /\ device'.count = i + 1 /\ device'.sda = BitOf(b, i) /\ device'.ack = device.ack
  BY DEF Drives, Shape, Fields

(* SCL falls. *)
LEMMA Falling ==
  ASSUME Shape, NEW log, DeviceTick(log), scl_in = 1, scl_out = 0
  PROVE  /\ device.mode = "off" \/ (device.mode = "receive" /\ device.count \in 0..7) =>
              device' = device /\ seen' = log
         /\ device.mode = "receive" /\ device.count = 8 =>
              /\ device'.ack \in Bit /\ device'.sda = device'.ack /\ device'.count = 9
              /\ device'.mode = device.mode /\ device'.first = device.first
              /\ device'.byte = device.byte
              /\ seen' = Append(log, device.byte)
         /\ device.mode = "send" /\ device.count \in 1..7 =>
              /\ device'.mode = "send" /\ device'.first = FALSE /\ device'.byte = device.byte
              /\ device'.count = device.count + 1 /\ device'.sda = BitOf(device.byte, device.count)
              /\ device'.ack = device.ack
              /\ seen' = log
         /\ device.mode = "send" /\ device.count = 8 =>
              /\ device'.sda = 1 /\ device'.count = 9
              /\ device'.mode = device.mode /\ device'.first = device.first
              /\ device'.byte = device.byte /\ device'.ack = device.ack
              /\ seen' = log
         /\ device.mode \in {"receive", "send"} /\ device.count = 9 => NextByte /\ seen' = log
  <1>1. \/ device.mode # "off" /\ ChangesLine(log)
        \/ /\ ~(device.mode = "receive" /\ device.count >= 8)
           /\ device.mode # "send"
           /\ device' = device /\ seen' = log
    BY Ticks DEF Bit
  <1>2. CASE /\ ~(device.mode = "receive" /\ device.count >= 8)
             /\ device.mode # "send"
             /\ device' = device /\ seen' = log
    BY <1>2
  <1>3. CASE device.mode # "off" /\ ChangesLine(log)
    <2>1. CASE /\ device.mode = "receive" /\ device.count = 8
               /\ \E ack \in Bit :
                    device' = [device EXCEPT !.ack = ack, !.sda = ack, !.count = 9]
               /\ seen' = Append(log, device.byte)
      BY <2>1 DEF Shape, Fields
    <2>2. CASE device.count = 9 /\ NextByte /\ seen' = log
      BY <1>3, <2>2
    <2>3. CASE /\ device.mode = "send" /\ device.count \in 1..7
               /\ Drives(device.byte, device.count) /\ seen' = log
      <3>1. /\ device'.mode = "send" /\ device'.first = FALSE /\ device'.byte = device.byte
            /\ device'.count = device.count + 1
            /\ device'.sda = BitOf(device.byte, device.count) /\ device'.ack = device.ack
        BY <2>3, Driven
      <3>2. QED
        BY <2>3, <3>1
    <2>4. CASE /\ device.mode = "send" /\ device.count = 8
               /\ device' = [device EXCEPT !.sda = 1, !.count = 9] /\ seen' = log
      BY <2>4 DEF Shape, Fields
    <2>5. CASE /\ device.mode = "send" /\ device.count \in 1..8
               /\ IF device.count < 8 THEN Drives(device.byte, device.count)
                  ELSE device' = [device EXCEPT !.sda = 1, !.count = 9]
               /\ seen' = log
      <3>1. (device.count < 8 /\ device.count \in 1..7) \/ (~(device.count < 8) /\ device.count = 8)
        BY <2>5
      <3>2. QED
        BY <2>3, <2>4, <2>5, <3>1
    <2>6. QED
      BY <1>3, <2>1, <2>2, <2>5, Zenon DEF ChangesLine
  <1>4. QED
    BY <1>1, <1>2, <1>3

(* The device after the acknowledgement. *)
LEMMA NextBytes ==
  ASSUME Shape, NextByte
  PROVE  /\ device.ack = 1 =>
              /\ device'.mode = "off"
              /\ device'.first = device.first /\ device'.count = device.count
              /\ device'.byte = device.byte
              /\ device'.ack = device.ack /\ device'.sda = device.sda
         /\ device.ack = 0 /\ (device.mode = "send" \/ (device.first /\ device.byte % 2 = 1)) =>
              /\ device'.mode = "send" /\ device'.first = FALSE /\ device'.count = 1
              /\ device'.byte \in DeviceBytes
              /\ device'.sda = BitOf(device'.byte, 0) /\ device'.ack = device.ack
         /\ /\ device.ack = 0 /\ device.mode = "receive"
            /\ ~(device.first /\ device.byte % 2 = 1)
            => /\ device'.mode = "receive" /\ device'.first = FALSE /\ device'.count = 0
               /\ device'.byte = 0 /\ device'.sda = 1 /\ device'.ack = device.ack
  <1>1. CASE device.ack = 1 /\ device' = [device EXCEPT !.mode = "off"]
    BY <1>1 DEF Shape, Fields
  <1>2. CASE /\ device.ack = 0
             /\ device.mode = "send" \/ (device.first /\ device.byte % 2 = 1)
             /\ \E b \in DeviceBytes : Drives(b, 0)
    <2>1. PICK b \in DeviceBytes : Drives(b, 0)
      BY <1>2
    <2>2. /\ device'.mode = "send" /\ device'.first = FALSE /\ device'.count = 1
          /\ device'.byte \in DeviceBytes
          /\ device'.sda = BitOf(device'.byte, 0) /\ device'.ack = device.ack
      <3>1. /\ device'.mode = "send" /\ device'.first = FALSE /\ device'.byte = b
            /\ device'.count = 0 + 1 /\ device'.sda = BitOf(b, 0) /\ device'.ack = device.ack
        BY <2>1, Driven
      <3>2. 0 + 1 = 1
        OBVIOUS
      <3>3. QED
        BY <2>1, <3>1, <3>2, Zenon
    <2>3. device.ack # 1
      BY <1>2
    <2>4. QED
      BY <1>2, <2>2, <2>3, Zenon
  <1>3. CASE /\ device.ack = 0
             /\ device.mode = "receive" /\ ~(device.first /\ device.byte % 2 = 1)
             /\ device' = [device EXCEPT !.first = FALSE, !.count = 0, !.byte = 0, !.sda = 1]
    <2>1. /\ device'.mode = "receive" /\ device'.first = FALSE /\ device'.count = 0
          /\ device'.byte = 0 /\ device'.sda = 1 /\ device'.ack = device.ack
      BY <1>3 DEF Shape, Fields
    <2>2. device.mode # "send" /\ device.ack # 1
      BY <1>3
    <2>3. QED
      BY <1>3, <2>1, <2>2, Zenon
  <1>4. QED
    BY <1>1, <1>2, <1>3 DEF NextByte

-----------------------------------------------------------------------------
(* Types. *)

DeviceInv ==
  /\ device.mode \in {"off", "receive", "send"} /\ device.first \in BOOLEAN
  /\ device.count \in 0..9 /\ device.byte \in Byte
  /\ device.ack \in Bit /\ device.sda \in Bit
  /\ device.mode = "receive" /\ device.count < 8 => device.byte < 2^device.count

TypeInv ==
  /\ ClkgenTypeOK /\ CoreTypeOK /\ InterfaceTypeOK
  /\ step \in 1..3 + Size
  /\ value \in Seq(Byte) /\ Len(value) <= Size
  /\ result \in {"none", "SUCCESS", "ENODEV", "EBADACK"} /\ calls \in 0..MaxCalls
  /\ scl_in \in Bit /\ sda_in \in Bit
  /\ DeviceInv

(* What the program does to the registers of its loop. *)
Loops ==
  \/ UNCHANGED <<call, step, value, result, calls>>
  \/ Begin
  \/ Abort
  \/ at = "status2" /\ ~HasBit(readdata, LAR_BIT) /\ Advance /\ UNCHANGED value
  \/ at = "get2" /\ value' = Append(value, readdata) /\ Advance

LEMMA DriverLoops ==
  ASSUME NEW acc, DriverTick(acc)
  PROVE  Loops
  <1>1. i2c_init \/ i2c_configure \/ Commands => Loops
    BY DEF i2c_init, i2c_configure, Commands, wait_end_of_transfer, Goes, Loops
  <1>2. CheckStatus \/ GetData => Loops
    BY DEF CheckStatus, GetData, Goes, Loops
  <1>3. Begin \/ Abort => Loops
    BY DEF Loops
  <1>4. UNCHANGED driverVars => Loops
    BY DEF driverVars, Loops
  <1>5. QED
    BY <1>1, <1>2, <1>3, <1>4 DEF DriverTick

LEMMA Doubles == \A n \in 0..7 : 2^(n + 1) = 2 * 2^n /\ 2^n <= 128 /\ 2^n \in Nat
  <1> SUFFICES ASSUME NEW n \in 0..7
               PROVE  2^(n + 1) = 2 * 2^n /\ 2^n <= 128 /\ 2^n \in Nat
    OBVIOUS
  <1>1. CASE n = 0
    BY <1>1
  <1>2. CASE n = 1
    BY <1>2
  <1>3. CASE n = 2
    BY <1>3
  <1>4. CASE n = 3
    BY <1>4
  <1>5. CASE n = 4
    BY <1>5
  <1>6. CASE n = 5
    BY <1>6
  <1>7. CASE n = 6
    BY <1>7
  <1>8. CASE n = 7
    BY <1>8
  <1>9. QED
    BY <1>1, <1>2, <1>3, <1>4, <1>5, <1>6, <1>7, <1>8

LEMMA DeviceTypes ==
  ASSUME Shape, DeviceInv, scl_in \in Bit, sda_in \in Bit, scl_out \in Bit,
         NEW log, DeviceTick(log)
  PROVE  DeviceInv'
  <1>1. sda \in Bit
    BY DEF sda, Bit
  <1>2. CASE device' = device
    BY <1>2 DEF DeviceInv
  <1>3. CASE scl_in = 1 /\ scl_out = 1 /\ sda_in # sda
    <2>1. sda = 0 => DeviceInv'
      <3>1. 2^0 = 1 /\ 0 \in Byte
        BY DEF Byte
      <3>2. ASSUME sda = 0
            PROVE  /\ device'.mode = "receive" /\ device'.first = TRUE /\ device'.count = 0
                   /\ device'.byte = 0
                   /\ device'.ack = device.ack /\ device'.sda = device.sda
        BY <1>3, <3>2, Conditions
      <3>3. ASSUME sda = 0
            PROVE  device'.count \in 0..9 /\ device'.byte < 2^device'.count
        <4>1. device'.count = 0 /\ device'.byte = 0
          BY <3>2, <3>3
        <4>2. QED
          BY <3>1, <4>1
      <3>4. QED
        BY <3>1, <3>2, <3>3 DEF DeviceInv
    <2>2. sda # 0 => DeviceInv'
      BY <1>3, Conditions DEF DeviceInv
    <2>3. QED
      BY <2>1, <2>2
  <1>4. CASE scl_in = 0 /\ scl_out = 1
    <2>1. CASE device.mode = "receive" /\ device.count \in 0..7
      <3>1. /\ device'.byte = 2 * device.byte + sda /\ device'.count = device.count + 1
            /\ device'.mode = device.mode /\ device'.first = device.first
            /\ device'.ack = device.ack /\ device'.sda = device.sda
        BY <1>4, <2>1, Rising
      <3> DEFINE p == 2^device.count
                 q == 2^device'.count
      <3>2. q = 2 * p /\ p <= 128 /\ p \in Nat
        BY <2>1, <3>1, Doubles
      <3>3. device.byte < p /\ device.byte \in Nat
        BY <2>1 DEF DeviceInv, Byte
      <3> HIDE DEF p, q
      <3>4. device'.byte < q /\ device'.byte \in Byte
        BY <1>1, <3>1, <3>2, <3>3 DEF Bit, Byte
      <3>5. device'.count \in 0..9
        BY <2>1, <3>1
      <3>6. device'.byte < 2^device'.count
        BY <3>4 DEF q
      <3>7. QED
        BY <3>1, <3>4, <3>5, <3>6 DEF DeviceInv
    <2>2. CASE device.mode = "send" /\ device.count = 9
      BY <1>1, <1>4, <2>2, Rising DEF DeviceInv
    <2>3. CASE \/ device.mode = "off"
               \/ device.mode = "receive" /\ device.count \in 8..9
               \/ device.mode = "send" /\ device.count \in 1..8
      BY <1>2, <1>4, <2>3, Rising
    <2>4. CASE device.mode = "send" /\ device.count = 0
      <3>1. device' = device
        BY <1>4, <2>4, Ticks DEF TakesBit
      <3>2. QED
        BY <1>2, <3>1
    <2>5. QED
      BY <2>1, <2>2, <2>3, <2>4 DEF DeviceInv
  <1>5. CASE scl_in = 1 /\ scl_out = 0
    <2>1. CASE device.mode = "off" \/ (device.mode = "receive" /\ device.count \in 0..7)
      BY <1>2, <1>5, <2>1, Falling
    <2>2. CASE device.mode = "receive" /\ device.count = 8
      BY <1>5, <2>2, Falling DEF DeviceInv
    <2>3. CASE device.mode = "send" /\ device.count \in 1..7
      <3>1. BitOf(device.byte, device.count) \in Bit
        BY <2>3, Bits DEF DeviceInv
      <3>2. /\ device'.mode = "send" /\ device'.first = FALSE /\ device'.byte = device.byte
            /\ device'.count = device.count + 1 /\ device'.ack = device.ack
            /\ device'.sda \in Bit
        BY <1>5, <2>3, <3>1, Falling
      <3>3. device'.count \in 0..9
        BY <2>3, <3>2
      <3>4. QED
        BY <3>2, <3>3 DEF DeviceInv
    <2>4. CASE device.mode = "send" /\ device.count = 8
      BY <1>5, <2>4, Falling DEF DeviceInv, Bit
    <2>5. CASE device.mode \in {"receive", "send"} /\ device.count = 9
      <3>1. NextByte
        BY <1>5, <2>5, Falling
      <3>2. CASE device.ack = 1
        BY <3>1, <3>2, NextBytes DEF DeviceInv
      <3>3. CASE device.ack = 0 /\ (device.mode = "send" \/ (device.first /\ device.byte % 2 = 1))
        <4>1. /\ device'.mode = "send" /\ device'.first = FALSE /\ device'.count = 1
              /\ device'.byte \in DeviceBytes
              /\ device'.sda = BitOf(device'.byte, 0) /\ device'.ack = device.ack
          BY <3>1, <3>3, NextBytes
        <4>2. device'.byte \in Byte
          BY <4>1, DeviceAssumption DEF Byte
        <4>3. device'.sda \in Bit
          BY <4>1, <4>2, Bits
        <4>4. device'.ack \in Bit /\ device'.count \in 0..9
          BY <4>1 DEF DeviceInv
        <4>5. device'.mode \in {"off", "receive", "send"} /\ device'.first \in BOOLEAN
          BY <4>1
        <4>6. device'.mode # "receive"
          BY <4>1
        <4>7. QED
          BY <4>2, <4>3, <4>4, <4>5, <4>6 DEF DeviceInv
      <3>4. CASE /\ device.ack = 0 /\ device.mode = "receive"
                 /\ ~(device.first /\ device.byte % 2 = 1)
        <4>1. 2^0 = 1 /\ 0 \in Byte /\ 1 \in Bit
          BY DEF Byte, Bit
        <4>2. /\ device'.mode = "receive" /\ device'.first = FALSE /\ device'.count = 0
              /\ device'.byte = 0 /\ device'.sda = 1 /\ device'.ack = device.ack
          BY <3>1, <3>4, NextBytes
        <4>3. device'.ack \in Bit /\ device'.count \in 0..9 /\ device'.byte < 2^device'.count
          BY <4>1, <4>2 DEF DeviceInv
        <4>4. device'.mode \in {"off", "receive", "send"} /\ device'.first \in BOOLEAN
          BY <4>2
        <4>5. device'.byte \in Byte /\ device'.sda \in Bit
          BY <4>1, <4>2
        <4>6. QED
          BY <4>3, <4>4, <4>5 DEF DeviceInv
      <3>5. QED
        BY <2>5, <3>2, <3>3, <3>4 DEF DeviceInv, Bit
    <2>6. CASE device.mode = "send" /\ device.count = 0
      <3>1. device.mode # "off" /\ ChangesLine(log) => FALSE
        BY <2>6 DEF ChangesLine
      <3>2. FALSE
        BY <1>5, <2>6, <3>1, Ticks DEF Bit
      <3>3. QED
        BY <3>2
    <2>7. QED
      BY <2>1, <2>2, <2>3, <2>4, <2>5, <2>6 DEF DeviceInv
  <1>6. CASE scl_in = scl_out /\ (scl_out = 1 => sda_in = sda)
    BY <1>2, <1>6, Ticks
  <1>7. QED
    BY <1>3, <1>4, <1>5, <1>6 DEF Bit

LEMMA CoreTypes ==
  ASSUME TypeInv, scl_out' \in Bit, p_state' \in States,
         CoreTick(scl_in, sda_in, sclk, cmd, i_data_in, i_ack_reg, i_cmd_done_ack)
  PROVE  CoreTypeOK'
  <1> USE DEF TypeInv, CoreTypeOK
  <1>1. i_ctr' \in 0..7
    <2>1. i_ctr' = CASE p_state = "Idle" -> 0
                     [] NextBit -> (i_ctr + 1) % 8
                     [] OTHER -> i_ctr
      BY DEF CoreTick
    <2>2. i_ctr \in 0..7 /\ ~(p_state = "Idle" /\ NextBit)
      BY DEF NextBit
    <2>3. QED
      BY <2>1, <2>2
  <1>2. i_dout' \in Byte
    <2>1. i_ctr \in 0..7 /\ i_dout \in Byte /\ sda_in \in Bit
      OBVIOUS
    <2>2. i_dout' = IF p_state = "Rd_C" THEN WithBit(i_dout, i_ctr, sda_in) ELSE i_dout
      BY DEF CoreTick
    <2>3. WithBit(i_dout, i_ctr, sda_in) \in Byte
      BY <2>1, SettingABit
    <2>4. QED
      BY <2>1, <2>2, <2>3
  <1>3. i_ack_out' \in Bit /\ data_out' \in Byte /\ ack_out' \in Bit
    BY DEF CoreTick
  <1>4. sda_out' \in Bit
    <2>1. i_data_in \in Byte /\ i_ctr \in 0..7 /\ i_ack_reg \in Bit /\ sda_in \in Bit
      BY DEF InterfaceTypeOK, Byte, Bit
    <2>2. BitOf(i_data_in, i_ctr) \in Bit
      BY <2>1, Bits
    <2>3. sda_out' \in {sda_in, 0, BitOf(i_data_in, i_ctr), i_ack_reg, 1}
      BY DEF CoreTick, i_sda_out
    <2>4. QED
      BY <2>1, <2>2, <2>3 DEF Bit
  <1>5. busy' \in BOOLEAN /\ cmd_done' \in BOOLEAN
    BY DEF CoreTick, i_busy, i_cmd_done
  <1>6. QED
    BY <1>1, <1>2, <1>3, <1>4, <1>5 DEF States

(* The data of an access the program makes. *)
LEMMA AccessData ==
  ASSUME InterruptInv, NEW acc, DriverTick(acc)
  PROVE  /\ Writes(acc, "DR") => acc.data \in 0..255
         /\ Writes(acc, "CD") => acc.data \in 0..255
         /\ Writes(acc, "CR") => acc.data % 2 \in {0, 1}
         /\ acc # Read("CR")
  <1>1. acc = Access \/ acc = NoAccess
    BY DEF DriverTick
  <1>2. /\ at = "init" => Access = Write("CD", Divisor)
        /\ at = "ready" => Access = NoAccess
        /\ at = "data" => Access = Write("DR", Current.data)
        /\ at = "control" => Access = Write("CR", Current.control)
        /\ at \in {"get", "get2"} => Access = Read("DR")
        /\ at \in {"abort", "clear"} => Access = Write("CR", STP)
        /\ at = "configure" => Access = Write("CR", Flag(call.irq, IEN))
        /\ at \notin {"init", "ready", "data", "control", "get", "get2", "abort",
                      "clear", "configure"} => Access = Read("SR")
    BY DEF Access
  <1>3. /\ \A r, n : ~Writes(Read(r), n)
        /\ \A n : ~Writes(NoAccess, n)
        /\ \A r, n, d : Writes(Write(r, d), n) => r = n
        /\ \A r, d : Write(r, d).data = d
        /\ \A r, d : Write(r, d) # Read("CR")
        /\ NoAccess # Read("CR") /\ Read("SR") # Read("CR") /\ Read("DR") # Read("CR")
    BY DEF Writes, Read, Write, NoAccess
  <1>4. CASE acc = NoAccess
    BY <1>3, <1>4
  <1>5. CASE acc = Access
    <2>1. CASE at = "init"
      <3>1. acc = Write("CD", Divisor) /\ Divisor \in 0..255
        BY <1>2, <1>5, <2>1, DriverAssumption
      <3>2. QED
        BY <1>3, <3>1
    <2>2. CASE at = "data"
      <3>1. acc = Write("DR", Current.data) /\ InScript
        BY <1>2, <1>5, <2>2 DEF InterruptInv, Sending, InScript
      <3>2. Current.data \in 0..255
        BY <3>1, CommandOf
      <3>3. QED
        BY <1>3, <3>1, <3>2
    <2>3. CASE at = "control"
      <3>1. acc = Write("CR", Current.control) /\ InScript
        BY <1>2, <1>5, <2>3 DEF InterruptInv, Sending, InScript
      <3>2. Current.control % 2 = IF ~Sends /\ Stops THEN 1 ELSE 0
        BY <3>1, CommandOf
      <3>3. QED
        BY <1>3, <3>1, <3>2
    <2>4. CASE at \in {"abort", "clear"}
      <3>1. acc = Write("CR", STP) /\ STP % 2 = 0
        BY <1>2, <1>5, <2>4 DEF STP
      <3>2. QED
        BY <1>3, <3>1
    <2>5. CASE at = "configure"
      <3>1. acc = Write("CR", Flag(call.irq, IEN)) /\ Flag(call.irq, IEN) % 2 = 0
        BY <1>2, <1>5, <2>5 DEF Flag, IEN
      <3>2. QED
        BY <1>3, <3>1
    <2>6. CASE at \notin {"init", "data", "control", "abort", "clear", "configure"}
      <3>1. acc = NoAccess \/ acc = Read("DR") \/ acc = Read("SR")
        BY <1>2, <1>5, <2>6
      <3>2. QED
        BY <1>3, <3>1
    <2>7. QED
      BY <2>1, <2>2, <2>3, <2>4, <2>5, <2>6
  <1>6. QED
    BY <1>1, <1>4, <1>5

LEMMA InterfaceTypes ==
  ASSUME TypeInv, ControlTypeOK, ControlTypeOK', InterruptInv,
         NEW acc, DriverTick(acc), InterfaceTick(acc, data_out, ack_out, busy, cmd_done)
  PROVE  InterfaceTypeOK'
  <1> USE DEF TypeInv, InterfaceTypeOK
  <1>1. /\ Writes(acc, "DR") => acc.data \in 0..255
        /\ Writes(acc, "CD") => acc.data \in 0..255
        /\ Writes(acc, "CR") => acc.data % 2 \in {0, 1}
        /\ acc # Read("CR")
    BY AccessData
  <1>2. /\ i_data_in' = i_data_in \/ (Writes(acc, "DR") /\ i_data_in' = acc.data)
        /\ i_clkdiv_reg' = i_clkdiv_reg \/ (Writes(acc, "CD") /\ i_clkdiv_reg' = acc.data)
        /\ i_ack_reg' = i_ack_reg \/ (Writes(acc, "CR") /\ i_ack_reg' = acc.data % 2)
    BY DEF InterfaceTick, EndCommand, WriteRegister
  <1>3. i_data_in' \in 0..255 /\ i_clkdiv_reg' \in 0..255 /\ i_ack_reg' \in {0, 1}
    <2>1. i_data_in \in 0..255 /\ i_clkdiv_reg \in 0..255 /\ i_ack_reg \in {0, 1}
      OBVIOUS
    <2>2. QED
      BY <1>1, <1>2, <2>1, Zenon
  <1>4. readdata' \in 0..255
    <2>1. StatusRegister(ack_out, busy) \in 0..15
      BY DEF StatusRegister, LAR_BIT, BSY_BIT, IPE_BIT, TIP_BIT, Flag, CoreTypeOK, Bit
    <2>2. readdata' = CASE acc = Read("DR") -> data_out
                [] acc = Read("CR") -> ControlRegister
                [] acc = Read("SR") -> StatusRegister(ack_out, busy)
                [] acc = Read("CD") -> i_clkdiv_reg
                [] OTHER -> readdata
      BY DEF InterfaceTick, ReadRegister
    <2>3. readdata' \in {data_out, StatusRegister(ack_out, busy), i_clkdiv_reg, readdata}
      BY <1>1, <2>2
    <2>4. data_out \in 0..255
      BY DEF CoreTypeOK, Byte
    <2>5. QED
      BY <2>1, <2>3, <2>4
  <1>5. QED
    BY <1>3, <1>4 DEF ControlTypeOK, CommandType

LEMMA ValueTypes ==
  ASSUME TypeInv, ControlTypeOK, InterruptInv, CommandInv, NEW acc, DriverTick(acc)
  PROVE  /\ step' \in 1..3 + Size
         /\ value' \in Seq(Byte) /\ Len(value') <= Size
         /\ result' \in {"none", "SUCCESS", "ENODEV", "EBADACK"} /\ calls' \in 0..MaxCalls
  <1> USE DEF TypeInv
  <1>1. Size \in Nat /\ Size >= 1 /\ MaxCalls \in Nat
    BY SizeOfByte, DriverAssumption
  <1>2. CASE UNCHANGED <<call, step, value, result, calls>>
    BY <1>2
  <1>3. CASE Begin
    <2>1. step' = 1 /\ value' = <<>> /\ result' = "none" /\ calls' = calls + 1 /\ calls < MaxCalls
      BY <1>3 DEF Begin
    <2>2. value' \in Seq(Byte) /\ Len(value') = 0
      BY <2>1
    <2>3. QED
      BY <1>1, <2>1, <2>2
  <1>4. CASE Abort
    BY <1>4 DEF Abort
  <1>5. ASSUME Advance, at \in {"status2", "get2"}
        PROVE  /\ step' \in 1..3 + Size /\ step \in 1..Len(Script(call)) /\ InScript
               /\ result' \in {"none", "SUCCESS", "ENODEV", "EBADACK"} /\ calls' \in 0..MaxCalls
    <2>1. InScript
      BY <1>5 DEF InterruptInv, InScript, Polling
    <2>2. Len(Script(call)) \in Nat /\ Len(Script(call)) <= 3 + Size
      BY <1>1, <2>1, CommandOf
    <2>3. step' = step \/ (step # Len(Script(call)) /\ step' = step + 1)
      BY <1>5 DEF Advance, IsLast
    <2>4. step' \in 1..3 + Size
      BY <1>1, <2>1, <2>2, <2>3 DEF InScript
    <2>5. QED
      BY <1>5, <2>1, <2>4 DEF Advance, InScript
  <1>6. CASE at = "status2" /\ Advance /\ UNCHANGED value
    BY <1>5, <1>6
  <1>7. CASE at = "get2" /\ value' = Append(value, readdata) /\ Advance
    <2>1. InScript
      BY <1>5, <1>7
    <2>2. /\ ~Sends
          /\ Len(value) = IF step <= 3 \/ call.op = "write" THEN 0 ELSE step - 4
      BY <1>7 DEF CommandInv, Polling
    <2>3. /\ step \in Nat /\ step >= 1
          /\ Sends <=> call.op = "write" \/ step <= 3
          /\ step <= IF call.op = "write" THEN 2 + Size ELSE 3 + Size
      BY <2>1, CommandOf
    <2>4. Len(value) + 1 <= Size
      BY <1>1, <2>2, <2>3
    <2>5. readdata \in Byte
      BY DEF InterfaceTypeOK, Byte
    <2>6. value' \in Seq(Byte) /\ Len(value') = Len(value) + 1
      BY <1>7, <2>5, AppendProperties
    <2>7. QED
      BY <1>5, <1>7, <2>4, <2>6
  <1>8. QED
    BY <1>2, <1>3, <1>4, <1>6, <1>7, DriverLoops DEF Loops

LEMMA TypeCycle ==
  ASSUME Divisor >= 1, ControlTypeOK, HandshakeInv, InterruptInv, LineInv, TypeInv, CommandInv,
         NEW acc, CycleWith(acc)
  PROVE  TypeInv'
  <1>1. /\ CoreTick(scl_in, sda_in, sclk, cmd, i_data_in, i_ack_reg, i_cmd_done_ack)
        /\ InterfaceTick(acc, data_out, ack_out, busy, cmd_done)
        /\ ClkgenTick(i_clkdiv_reg) /\ DriverTick(acc)
        /\ \E log : DeviceTick(log)
    BY DEF CycleWith
  <1>2. ControlTypeOK' /\ scl_out' \in Bit /\ scl_in' = scl_out /\ sda_in' = sda
    BY ControlTypeCycle, LineMoves
  <1>3. CoreTypeOK'
    BY <1>1, <1>2, CoreTypes DEF ControlTypeOK
  <1>4. InterfaceTypeOK'
    BY <1>1, <1>2, InterfaceTypes
  <1>5. ClkgenTypeOK'
    <2>1. i_clkdiv_reg \in 0..255 /\ clk_ctr \in 0..255
      BY DEF TypeInv, InterfaceTypeOK, ClkgenTypeOK
    <2>2. clk_ctr' = IF clk_ctr >= i_clkdiv_reg THEN 0 ELSE clk_ctr + 1
      BY <1>1 DEF ClkgenTick
    <2>3. sclk' = (clk_ctr >= i_clkdiv_reg)
      BY <1>1 DEF ClkgenTick
    <2>4. clk_ctr' \in 0..255
      BY <2>1, <2>2
    <2>5. sclk' \in BOOLEAN
      BY <2>3
    <2>6. QED
      BY <2>4, <2>5 DEF ClkgenTypeOK
  <1>6. scl_in' \in Bit /\ sda_in' \in Bit
    BY <1>2 DEF LineInv, sda, Bit
  <1>7. DeviceInv'
    BY <1>1, DeviceTypes DEF LineInv, TypeInv
  <1>8. /\ step' \in 1..3 + Size
        /\ value' \in Seq(Byte) /\ Len(value') <= Size
        /\ result' \in {"none", "SUCCESS", "ENODEV", "EBADACK"} /\ calls' \in 0..MaxCalls
    BY <1>1, ValueTypes
  <1>9. QED
    BY <1>3, <1>4, <1>5, <1>6, <1>7, <1>8 DEF TypeInv

(* The type invariant of the run. *)
LEMMA TypesOfRun ==
  ASSUME ControlTypeOK, Shape, TypeInv, Len(seen) <= Size + 6
  PROVE  TypeOK
  <1>1. DriverTypeOK
    <2>1. \A i \in DOMAIN value : value[i] \in 0..255
      <3>1. value \in Seq(Byte) /\ DOMAIN value = 1..Len(value)
        BY DEF TypeInv
      <3>2. \A i \in 1..Len(value) : value[i] \in Byte
        BY <3>1, ElementOfSeq
      <3>3. QED
        BY <3>1, <3>2 DEF Byte
    <2>2. QED
      BY <2>1 DEF TypeInv, ControlTypeOK, DriverTypeOK
  <1>2. device \in [mode : {"off", "receive", "send"}, first : BOOLEAN, count : 0..9,
                    byte : Byte, ack : Bit, sda : Bit]
    BY DEF Shape, Fields, TypeInv, DeviceInv
  <1>3. QED
    BY <1>1, <1>2 DEF TypeOK, TypeInv

-----------------------------------------------------------------------------
(* A cycle of the core at work. *)

Known == ControlTypeOK /\ HandshakeInv /\ InterruptInv /\ LineInv /\ TypeInv

LEMMA WorkIsPolled ==
  ASSUME ControlTypeOK, HandshakeInv
  PROVE  /\ p_state \in Working \union {"Done"} \/ TIP => at \in {"after", "after2"}
         /\ p_state \in Working => TIP /\ ~cmd_done /\ ~i_cmd_done_ack
  <1>1. "Idle" \notin Working /\ "Reset" \notin Working /\ "DoneAck" \notin Working
        /\ "Done" \notin Working
    BY DEF Working
  <1>2. QED
    BY <1>1 DEF HandshakeInv, Handshake, Quiet, Over

LEMMA CommandBits ==
  ASSUME InScript, cmd = Command(Current.control)
  PROVE  /\ cmd.write <=> Sends
         /\ cmd.read <=> ~Sends
         /\ cmd.start <=> Starts
         /\ cmd.stop <=> Stops
  <1>1. HasBit(Current.control, RD) <=> ~Sends
    BY CommandOf
  <1>2. QED
    BY <1>1 DEF Command, Sends, Starts, Stops

LEMMA StandsStill ==
  ASSUME call' = call, step' = step, value' = value
  PROVE  /\ Current' = Current
         /\ Starts' <=> Starts
         /\ Sends' <=> Sends
         /\ Stops' <=> Stops
         /\ Prior' = Prior /\ Opened' = Opened
         /\ Sends \/ i_dout' = i_dout => Payload' = Payload /\ Logged' = Logged /\ Closed' = Closed
  <1>1. Current' = Current
    BY DEF Current
  <1>2. /\ Starts' <=> Starts
        /\ Sends' <=> Sends
        /\ Stops' <=> Stops
    BY <1>1 DEF Starts, Sends, Stops
  <1>3. Prior' = Prior
    BY DEF Prior
  <1>4. Opened' = Opened
    BY <1>2, <1>3 DEF Opened
  <1>5. ASSUME Sends \/ i_dout' = i_dout
        PROVE  Payload' = Payload /\ Logged' = Logged /\ Closed' = Closed
    <2>1. Payload' = Payload
      BY <1>1, <1>2, <1>5 DEF Payload
    <2>2. Logged' = Logged
      BY <1>4, <2>1 DEF Logged
    <2>3. Closed' = Closed
      BY <1>2, <2>2 DEF Closed
    <2>4. QED
      BY <2>1, <2>2, <2>3
  <1>6. QED
    BY <1>1, <1>2, <1>3, <1>4, <1>5

LEMMA AtWork ==
  ASSUME Known, CommandInv, TransferInv, NEW acc, CycleWith(acc), at \in {"after", "after2"}
  PROVE  /\ InScript /\ InCommand /\ DeviceTick(seen)
         /\ call' = call /\ step' = step /\ value' = value /\ result' = result
         /\ TIP => /\ cmd = Command(Current.control)
                   /\ at' \in {"after", "after2"}
         /\ Sends => i_data_in = Current.data
         /\ i_ack_reg = Current.control % 2
  <1>1. InScript /\ InCommand
    BY DEF Known, InterruptInv, InScript, Polling, TransferInv
  <1>2. DriverTick(acc) /\ DeviceTick(seen)
    BY DEF CycleWith
  <1>3. call' = call /\ step' = step /\ value' = value /\ result' = result
    <2>1. ~Begin /\ ~Abort
      BY DEF Begin, Abort
    <2>2. Loops
      BY <1>2, DriverLoops
    <2>3. QED
      BY <2>1, <2>2 DEF Loops
  <1>4. TIP => at' \in {"after", "after2"}
    <2> SUFFICES ASSUME TIP PROVE at' \in {"after", "after2"}
      OBVIOUS
    <2>1. at = "after2" => HasBit(readdata, TIP_BIT)
      BY DEF Known, HandshakeInv, Over
    <2>2. Moved \/ UNCHANGED <<at, call, step>>
      BY <1>2, DriverMoves
    <2>3. QED
      BY <2>1, <2>2 DEF Moved, Goes1
  <1>5. QED
    BY <1>1, <1>2, <1>3, <1>4 DEF CommandInv

(* What a cycle of the core at work starts from. *)
LEMMA WorkMoves ==
  ASSUME Divisor >= 1, Known, BitInv, NEW acc, CycleWith(acc), p_state \in Working
  PROVE  /\ InScript /\ InCommand /\ DeviceTick(seen) /\ Shape
         /\ CoreTick(scl_in, sda_in, sclk, cmd, i_data_in, i_ack_reg, i_cmd_done_ack)
         /\ call' = call /\ step' = step /\ value' = value
         /\ scl_in' = scl_out /\ sda_in' = sda
         /\ scl_in \in Bit /\ scl_out \in Bit /\ sda_in \in Bit /\ sda \in Bit /\ device.ack \in Bit
         /\ sda = IF sda_out = 1 /\ device.sda = 1 THEN 1 ELSE 0
         /\ sclk => ~sclk'
         /\ TIP /\ TIP'
         /\ cmd.write <=> Sends
         /\ cmd.read <=> ~Sends
         /\ cmd.start <=> Starts
         /\ cmd.stop <=> Stops
         /\ i_ack_reg = Current.control % 2 /\ i_ack_reg' = i_ack_reg
         /\ Sends => i_data_in = Current.data
         /\ i_ctr \in 0..7 /\ i_dout \in Byte /\ device.byte \in Byte /\ Current.data \in Byte
  <1>1. at \in {"after", "after2"} /\ TIP /\ ~cmd_done
    BY WorkIsPolled DEF Known
  <1>2. /\ InScript /\ InCommand /\ DeviceTick(seen)
        /\ call' = call /\ step' = step /\ value' = value
        /\ cmd = Command(Current.control)
        /\ Sends => i_data_in = Current.data
        /\ i_ack_reg = Current.control % 2
    BY <1>1, AtWork DEF BitInv
  <1>3. /\ scl_in' = scl_out /\ sda_in' = sda
        /\ sclk => ~sclk'
        /\ i_ack_reg' = i_ack_reg /\ cmd' = cmd
    BY LineMoves DEF Known
  <1>4. TIP'
    BY <1>1, <1>3 DEF TIP
  <1>5. /\ cmd.write <=> Sends
        /\ cmd.read <=> ~Sends
        /\ cmd.start <=> Starts
        /\ cmd.stop <=> Stops
    BY <1>2, CommandBits
  <1>6. /\ scl_in \in Bit /\ scl_out \in Bit /\ sda_in \in Bit /\ device.ack \in Bit
        /\ i_ctr \in 0..7 /\ i_dout \in Byte /\ device.byte \in Byte /\ Shape
    BY DEF Known, LineInv, TypeInv, CoreTypeOK, DeviceInv
  <1>7. sda = IF sda_out = 1 /\ device.sda = 1 THEN 1 ELSE 0
    BY DEF sda
  <1>8. Current.data \in Byte
    BY <1>2, CommandOf DEF Byte
  <1>9. sda \in Bit
    BY <1>7 DEF Bit
  <1>10. CoreTick(scl_in, sda_in, sclk, cmd, i_data_in, i_ack_reg, i_cmd_done_ack)
    BY DEF CycleWith
  <1>11. QED
    BY <1>1, <1>2, <1>3, <1>4, <1>5, <1>6, <1>7, <1>8, <1>9, <1>10

(* The core begins to work on a command. *)
LEMMA WorkBegins ==
  ASSUME Divisor >= 1, Known, BitInv, NEW acc, CycleWith(acc), p_state = "Idle", TIP
  PROVE  /\ InScript /\ Ready
         /\ call' = call /\ step' = step /\ value' = value
         /\ p_state' = IF Starts THEN "Start_A" ELSE IF Sends THEN "Wr_A" ELSE "Rd_A"
         /\ i_ctr' = 0
         /\ device' = device /\ seen' = seen
         /\ scl_in' = scl_in /\ scl_out' = scl_in
         /\ at' \in {"after", "after2"}
  <1>1. at \in {"after", "after2"}
    BY WorkIsPolled DEF Known
  <1>2. /\ InScript /\ InCommand /\ DeviceTick(seen)
        /\ call' = call /\ step' = step /\ value' = value
        /\ cmd = Command(Current.control) /\ at' \in {"after", "after2"}
    BY <1>1, AtWork DEF BitInv
  <1>3. Ready
    BY <1>2 DEF InCommand
  <1>4. /\ cmd.write <=> Sends
        /\ cmd.read <=> ~Sends
        /\ cmd.start <=> Starts
    BY <1>2, CommandBits
  <1>5. CoreTick(scl_in, sda_in, sclk, cmd, i_data_in, i_ack_reg, i_cmd_done_ack)
    BY DEF CycleWith
  <1>6. p_state' = IF (cmd.read \/ cmd.write) /\ cmd.start THEN "Start_A" ELSE Body(cmd, "Idle")
    BY <1>5 DEF CoreTick, n_state, Unpaced
  <1>7. p_state' = IF Starts THEN "Start_A" ELSE IF Sends THEN "Wr_A" ELSE "Rd_A"
    BY <1>4, <1>6 DEF Body
  <1>8. i_ctr' = 0
    <2>1. i_ctr' = CASE p_state = "Idle" -> 0
                     [] NextBit -> (i_ctr + 1) % 8
                     [] OTHER -> i_ctr
      BY <1>5 DEF CoreTick
    <2>2. ~NextBit
      BY DEF NextBit
    <2>3. QED
      BY <2>1, <2>2
  <1>9. Rests /\ scl_in \in Bit
    BY DEF Known, LineInv, Levels, TypeInv
  <1>10. device' = device /\ seen' = seen
    BY <1>2, <1>9, Ticks DEF Rests
  <1>11. scl_out' = scl_in /\ scl_in' = scl_in
    BY <1>5, <1>9, LineMoves, LineOutputs DEF Rests, Known
  <1>12. QED
    BY <1>2, <1>3, <1>7, <1>8, <1>10, <1>11

LEMMA ClockCycleStages ==
  ASSUME Divisor >= 1, Known, BitInv, NEW acc, CycleWith(acc)
  PROVE  ClockStages'
  <1>1. /\ CoreTick(scl_in, sda_in, sclk, cmd, i_data_in, i_ack_reg, i_cmd_done_ack)
        /\ scl_in' = scl_out
        /\ sclk => ~sclk'
    BY LineMoves DEF CycleWith, Known
  <1>2. /\ p_state \in ClockLow => scl_out' = 0
        /\ p_state \in {"Wr_B", "RdAck_B", "Rd_B", "WrAck_B", "Stop_B", "Start_B"} => scl_out' = 1
        /\ p_state \in {"Wr_C", "RdAck_C", "Rd_C", "WrAck_C", "Stop_C", "Start_C", "Rd_D",
                        "RdAck_D"} => scl_out' = 1
        /\ p_state = "Start_A" => scl_out' = scl_in
    BY <1>1, LineOutputs
  <1>3. ClockStages
    BY DEF BitInv
  <1>4. CASE p_state \in {"Reset", "Done", "DoneAck"} \/ (p_state = "Idle" /\ ~TIP)
    <2>1. p_state' \in {"Idle", "DoneAck"}
      BY <1>1, <1>4, CoreMoves DEF Known
    <2>2. QED
      BY <2>1 DEF ClockStages
  <1>5. CASE p_state = "Idle" /\ TIP
    <2>1. /\ Ready /\ scl_in' = scl_in /\ scl_out' = scl_in
          /\ p_state' = IF Starts THEN "Start_A" ELSE IF Sends THEN "Wr_A" ELSE "Rd_A"
      BY <1>5, WorkBegins
    <2>2. CASE Starts
      BY <2>1, <2>2 DEF ClockStages
    <2>3. CASE ~Starts
      BY <2>1, <2>3 DEF ClockStages, Ready, Low
    <2>4. QED
      BY <2>2, <2>3
  <1>6. CASE p_state \in {"Wr_A", "RdAck_A", "Rd_A", "WrAck_A", "Stop_A"}
    <2>1. p_state \in Working /\ p_state \in ClockLow /\ p_state \notin Unpaced
      BY <1>6 DEF Working, States, Paced, Unpaced, ClockLow
    <2>2. scl_in' = 0 /\ scl_out' = 0
      BY <1>1, <1>2, <1>3, <1>6, <2>1 DEF ClockStages, Low
    <2>3. \/ p_state' = p_state
          \/ p_state' \in {"Wr_B", "RdAck_B", "Rd_B", "WrAck_B", "Stop_B"} /\ ~sclk'
      BY <1>1, <1>6, <2>1, Follows
    <2>4. QED
      BY <1>6, <2>2, <2>3 DEF ClockStages, Low
  <1>7. CASE p_state \in {"Wr_E", "Rd_F"}
    <2>1. p_state \in Working /\ p_state \in ClockLow
      BY <1>7 DEF Working, States, Paced, Unpaced, ClockLow
    <2>2. scl_in' = 0 /\ scl_out' = 0
      BY <1>1, <1>2, <1>3, <1>7, <2>1 DEF ClockStages, Low
    <2>3. p_state' \in {"Wr_A", "Rd_A"}
      BY <1>1, <1>7, <2>1, Follows
    <2>4. QED
      BY <2>2, <2>3 DEF ClockStages, Low
  <1>8. CASE p_state = "Start_A"
    <2>1. p_state \in Working /\ p_state \notin Unpaced /\ scl_in = scl_out
      BY <1>8 DEF Working, States, Paced, Unpaced, Known, LineInv, Levels, Rests
    <2>2. p_state' = "Start_A" \/ (p_state' = "Start_B" /\ ~sclk')
      BY <1>1, <1>8, <2>1, Follows
    <2>3. QED
      BY <1>1, <1>2, <1>8, <2>1, <2>2 DEF ClockStages
  <1>9. CASE p_state \in {"Wr_B", "RdAck_B", "Rd_B", "WrAck_B", "Stop_B", "Start_B"}
    <2>1. p_state \in Working /\ p_state \notin Unpaced
      BY <1>9 DEF Working, States, Paced, Unpaced
    <2>2. scl_out' = 1
      BY <1>2, <1>9
    <2>3. \/ p_state' = p_state
          \/ /\ p_state' \in {"Wr_C", "RdAck_C", "Rd_C", "WrAck_C", "Stop_C", "Start_C"}
             /\ sclk
      BY <1>1, <1>9, <2>1, Follows
    <2>4. sclk => scl_in' = 1
      BY <1>1, <1>3, <1>9 DEF ClockStages
    <2>5. QED
      BY <1>9, <2>2, <2>3, <2>4 DEF ClockStages, High
  <1>10. CASE p_state \in {"Wr_C", "RdAck_C", "Rd_C", "WrAck_C", "Stop_C", "Start_C", "Rd_D",
                           "RdAck_D"}
    <2>1. p_state \in Working
      BY <1>10 DEF Working, States, Paced, Unpaced
    <2>2. scl_out' = 1 /\ scl_in' = 1
      BY <1>1, <1>2, <1>3, <1>10 DEF ClockStages, High
    <2>3. \/ p_state' = p_state
          \/ p_state' \in {"Rd_D", "RdAck_D", "Done"}
          \/ p_state' \in {"Wr_D", "Rd_E", "RdAck_E", "WrAck_D", "Start_D"} /\ ~sclk'
      BY <1>1, <1>10, <2>1, Follows DEF Unpaced
    <2>4. QED
      BY <1>10, <2>2, <2>3 DEF ClockStages, High
  <1>11. CASE p_state \in {"Wr_D", "Rd_E", "RdAck_E", "WrAck_D", "Start_D"}
    <2>1. p_state \in Working /\ p_state \notin Unpaced /\ p_state \in ClockLow
      BY <1>11 DEF Working, States, Paced, Unpaced, ClockLow
    <2>2. scl_out' = 0
      BY <1>2, <2>1
    <2>3. \/ p_state' = p_state
          \/ p_state' \in {"Wr_A", "Wr_E", "RdAck_A", "Rd_A", "Rd_F", "WrAck_A", "Stop_A"} /\ sclk
          \/ p_state' = "Done"
      BY <1>1, <1>11, <2>1, Follows
    <2>4. sclk => scl_in' = 0
      BY <1>1, <1>3, <1>11 DEF ClockStages
    <2>5. QED
      BY <1>11, <2>2, <2>3, <2>4 DEF ClockStages, Low
  <1>12. p_state \in States
    BY DEF Known, ControlTypeOK
  <1>13. QED
    BY <1>4, <1>5, <1>6, <1>7, <1>8, <1>9, <1>10, <1>11, <1>12 DEF States, Paced, Unpaced

LEMMA OutputCycle ==
  ASSUME Divisor >= 1, Known, BitInv, NEW acc, CycleWith(acc)
  PROVE  Outputs'
  <1>1. CoreTick(scl_in, sda_in, sclk, cmd, i_data_in, i_ack_reg, i_cmd_done_ack)
    BY DEF CycleWith
  <1>2. /\ ack_out' = i_ack_out /\ data_out' = i_dout
        /\ p_state # "RdAck_C" => i_ack_out' = i_ack_out
        /\ p_state # "Rd_C" => i_dout' = i_dout
    BY <1>1 DEF CoreTick, LoadsAck
  <1>3. /\ p_state = "RdAck_C" => p_state' = "RdAck_D"
        /\ p_state = "Rd_C" => p_state' = "Rd_D"
    BY <1>1, Follows DEF Working, States, Unpaced
  <1>4. QED
    BY <1>2, <1>3 DEF Outputs

LEMMA DataCycle ==
  ASSUME Divisor >= 1, Known, BitInv, NEW acc, CycleWith(acc)
  PROVE  DataStages'
  <1>1. /\ CoreTick(scl_in, sda_in, sclk, cmd, i_data_in, i_ack_reg, i_cmd_done_ack)
        /\ scl_in' = scl_out /\ sda_in' = sda
        /\ sclk => ~sclk'
    BY LineMoves DEF CycleWith, Known
  <1>2. Condition /\ LineInv'
    BY LineCycle DEF Known
  <1>3. /\ sda = IF sda_out = 1 THEN Held ELSE 0
        /\ sda' = IF sda_out' = 1 THEN Held' ELSE 0
        /\ Held \in {0, 1} /\ Held' \in {0, 1}
    BY DEF sda, Held
  <1>4. DataStages /\ ClockStages
    BY DEF BitInv
  <1>5. CASE p_state \notin {"Start_C", "Stop_C", "Start_B", "Stop_B"}
    <2>1. p_state' \notin {"Start_C", "Stop_C"}
      <3>1. CASE p_state \in Working
        <4>1. p_state \in {"Start_A", "Start_D", "Stop_A",
                "Rd_A", "Rd_B", "Rd_D", "Rd_E", "RdAck_A", "RdAck_B", "RdAck_D", "RdAck_E",
                "Wr_A", "Wr_B", "Wr_C", "Wr_D", "WrAck_A", "WrAck_B", "WrAck_C", "WrAck_D",
                "Rd_C", "Rd_F", "RdAck_C", "Wr_E"}
          BY <1>5, <3>1 DEF Working, States, Paced, Unpaced
        <4>2. QED
          BY <1>1, <3>1, <4>1, Follows
      <3>2. CASE p_state = "Idle" /\ TIP
        <4>1. p_state' \in {"Start_A", "Wr_A", "Rd_A"}
          BY <3>2, WorkBegins
        <4>2. QED
          BY <4>1
      <3>3. CASE p_state \in {"Reset", "Done", "DoneAck"} \/ (p_state = "Idle" /\ ~TIP)
        <4>1. p_state' \in {"Idle", "DoneAck"}
          BY <1>1, <3>3, CoreMoves DEF Known
        <4>2. QED
          BY <4>1
      <3>4. p_state \in States
        BY DEF Known, ControlTypeOK
      <3>5. QED
        BY <3>1, <3>2, <3>3, <3>4 DEF Working
    <2>2. High' => sda' = sda
      BY <1>1, <1>2, <1>3, <1>5 DEF High, Condition
    <2>3. QED
      BY <1>1, <2>1, <2>2 DEF DataStages
  <1>6. CASE p_state \in {"Start_B", "Start_C"}
    <2>1. p_state \in Working /\ p_state \notin Unpaced /\ InCommand
      <3>1. p_state \in Working /\ p_state \notin Unpaced
        BY <1>6 DEF Working, States, Paced, Unpaced
      <3>2. QED
        BY <3>1, WorkMoves
    <2>2. CASE p_state = "Start_B"
      <3>1. \/ p_state' = "Start_B"
            \/ p_state' = "Start_C" /\ ~sclk'
        BY <1>1, <2>1, <2>2, Follows
      <3>2. sda = 1
        BY <1>3, <2>1, <2>2 DEF InCommand, StartStages, Loose, Held, Known, LineInv, Levels
      <3>3. High' => sda' = sda
        BY <1>1, <1>2, <1>3, <2>2 DEF High, Condition
      <3>4. QED
        BY <1>1, <3>1, <3>2, <3>3 DEF DataStages
    <2>3. CASE p_state = "Start_C"
      <3>1. sda_out' = 0
        BY <1>1, <2>3, LineOutputs
      <3>2. \/ p_state' = "Start_C"
            \/ p_state' = "Start_D" /\ sclk
        BY <1>1, <2>1, <2>3, Follows
      <3>3. sclk => sda_in' = 0 /\ sda' = 0
        BY <1>1, <1>3, <1>4, <2>3, <3>1 DEF DataStages
      <3>4. QED
        BY <3>1, <3>2, <3>3 DEF DataStages
    <2>4. QED
      BY <1>6, <2>2, <2>3
  <1>7. CASE p_state \in {"Stop_B", "Stop_C"}
    <2>1. p_state \in Working /\ p_state \notin Unpaced
      BY <1>7 DEF Working, States, Paced, Unpaced
    <2>2. CASE p_state = "Stop_B"
      <3>1. \/ p_state' = "Stop_B"
            \/ p_state' = "Stop_C" /\ sclk
        BY <1>1, <2>1, <2>2, Follows
      <3>2. sclk => sda_in' = 0
        BY <1>1, <1>3, <1>4, <2>2 DEF ClockStages, Known, LineInv, Levels
      <3>3. High' => sda' = sda
        BY <1>1, <1>2, <1>3, <2>2 DEF High, Condition
      <3>4. QED
        BY <1>1, <3>1, <3>2, <3>3 DEF DataStages
    <2>3. CASE p_state = "Stop_C"
      <3>1. sda_out' = 1
        BY <1>1, <2>3, LineOutputs
      <3>2. \/ p_state' = "Stop_C"
            \/ p_state' = "Done" /\ (High' => sda_in' = sda')
        <4>1. p_state' = "Stop_C" \/ p_state' = "Done"
          BY <1>1, <2>1, <2>3, Follows
        <4>2. p_state' = "Done" => Rests'
          BY <1>2 DEF LineInv, Levels
        <4>3. QED
          BY <4>1, <4>2 DEF Rests, High
      <3>3. QED
        BY <3>1, <3>2 DEF DataStages
    <2>4. QED
      BY <1>7, <2>2, <2>3
  <1>8. QED
    BY <1>5, <1>6, <1>7

-----------------------------------------------------------------------------
(* The stages of a command, one after the other. *)

StartStates == {"Start_A", "Start_B", "Start_C", "Start_D"}
WriteStates == {"Wr_A", "Wr_B", "Wr_C", "Wr_D", "Wr_E",
                "RdAck_A", "RdAck_B", "RdAck_C", "RdAck_D", "RdAck_E"}
ReadStates == {"Rd_A", "Rd_B", "Rd_C", "Rd_D", "Rd_E", "Rd_F",
               "WrAck_A", "WrAck_B", "WrAck_C", "WrAck_D"}
StopStates == {"Stop_A", "Stop_B", "Stop_C"}

LEMMA OneStage ==
  /\ p_state \in StartStates /\ StartStages => InCommand
  /\ p_state \in WriteStates /\ WriteStages => InCommand
  /\ p_state \in ReadStates /\ ReadStages => InCommand
  /\ p_state \in StopStates /\ StopStages => InCommand
  /\ (p_state \in {"Done", "DoneAck"} \/ (p_state = "Idle" /\ ~TIP)) /\ After => InCommand
  <1>1. p_state \in StartStates => WriteStages /\ ReadStages /\ StopStages
    BY DEF StartStates, WriteStages, ReadStages, StopStages
  <1>2. p_state \in WriteStates => StartStages /\ ReadStages /\ StopStages
    BY DEF WriteStates, StartStages, ReadStages, StopStages
  <1>3. p_state \in ReadStates => StartStages /\ WriteStages /\ StopStages
    BY DEF ReadStates, StartStages, WriteStages, StopStages
  <1>4. p_state \in StopStates => StartStages /\ WriteStages /\ ReadStages
    BY DEF StopStates, StartStages, WriteStages, ReadStages
  <1>5. p_state \in {"Idle", "Done", "DoneAck"} =>
          StartStages /\ WriteStages /\ ReadStages /\ StopStages
    BY DEF StartStages, WriteStages, ReadStages, StopStages
  <1>6. p_state \in StartStates \union WriteStates \union ReadStates \union StopStates =>
          p_state \notin {"Idle", "Done", "DoneAck"}
    BY DEF StartStates, WriteStates, ReadStates, StopStates
  <1>7. QED
    BY <1>1, <1>2, <1>3, <1>4, <1>5, <1>6 DEF InCommand

LEMMA NextStage ==
  /\ p_state' \in StartStates /\ StartStages' => InCommand'
  /\ p_state' \in WriteStates /\ WriteStages' => InCommand'
  /\ p_state' \in ReadStates /\ ReadStages' => InCommand'
  /\ p_state' \in StopStates /\ StopStages' => InCommand'
  /\ (p_state' \in {"Done", "DoneAck"} \/ (p_state' = "Idle" /\ ~TIP')) /\ After' => InCommand'
  <1>1. (/\ p_state \in StartStates /\ StartStages => InCommand
         /\ p_state \in WriteStates /\ WriteStages => InCommand
         /\ p_state \in ReadStates /\ ReadStages => InCommand
         /\ p_state \in StopStates /\ StopStages => InCommand
         /\ (p_state \in {"Done", "DoneAck"} \/ (p_state = "Idle" /\ ~TIP)) /\ After
              => InCommand)'
    BY OneStage, PTL
  <1>2. QED
    BY <1>1 DEF StartStates, WriteStates, ReadStates, StopStates

(* The device under a clock that begins to rise, before or after the byte. *)
LEMMA LooseCycle ==
  ASSUME Shape, DeviceTick(seen), scl_in \in Bit, scl_out \in Bit, sda \in Bit,
         Loose, scl_in = 0 => Off \/ Waiting, scl_in = 1 => scl_out = 1,
         scl_in = 1 => sda_in = sda
  PROVE  /\ Loose' /\ seen' = seen /\ device'.ack = device.ack
         /\ scl_out = 0 => (Off \/ Waiting)'
  <1>1. CASE scl_in = scl_out
    <2>1. device' = device /\ seen' = seen
      BY <1>1, Ticks
    <2>2. QED
      BY <1>1, <2>1 DEF Loose, Off, Waiting
  <1>2. CASE scl_in = 0 /\ scl_out = 1
    <2>1. CASE Off
      <3>1. device' = device /\ seen' = seen
        BY <1>2, <2>1, Rising DEF Off
      <3>2. QED
        BY <1>2, <3>1 DEF Loose
    <2>2. CASE Waiting
      <3>1. /\ device'.byte = 2 * device.byte + sda /\ device'.count = device.count + 1
            /\ device'.mode = device.mode /\ device'.sda = device.sda
            /\ device'.ack = device.ack /\ seen' = seen
        BY <1>2, <2>2, Rising DEF Waiting
      <3>2. /\ device'.byte \in 0..1 /\ device'.count \in 0..1
            /\ device'.mode = "receive" /\ device'.sda = 1
        BY <2>2, <3>1 DEF Waiting, Bit
      <3>3. QED
        BY <1>2, <3>1, <3>2 DEF Loose
    <2>3. QED
      BY <1>2, <2>1, <2>2
  <1>3. QED
    BY <1>1, <1>2 DEF Bit

LEMMA StartCycle ==
  ASSUME Divisor >= 1, Known, BitInv, NEW acc, CycleWith(acc), p_state \in StartStates
  PROVE  InCommand'
  <1>1. p_state \in Working /\ p_state \notin Unpaced
    BY DEF StartStates, Working, States, Paced, Unpaced
  <1>2. /\ InScript /\ InCommand /\ DeviceTick(seen) /\ Shape
        /\ CoreTick(scl_in, sda_in, sclk, cmd, i_data_in, i_ack_reg, i_cmd_done_ack)
        /\ call' = call /\ step' = step /\ value' = value
        /\ scl_in' = scl_out /\ sda_in' = sda
        /\ scl_in \in Bit /\ scl_out \in Bit /\ sda_in \in Bit /\ sda \in Bit
        /\ sda = IF sda_out = 1 /\ device.sda = 1 THEN 1 ELSE 0
        /\ sclk => ~sclk'
        /\ cmd.write <=> Sends
        /\ Current.data \in Byte
    BY <1>1, WorkMoves
  <1>3. /\ Current' = Current
        /\ Starts' <=> Starts
        /\ Sends' <=> Sends
        /\ Prior' = Prior /\ Opened' = Opened
    BY <1>2, StandsStill
  <1>4. Starts /\ i_ctr = 0 /\ Sends /\ Opened = Append(Prior, START)
    <2>1. Starts /\ i_ctr = 0
      BY <1>2 DEF InCommand, StartStages, StartStates
    <2>2. Sends
      BY <1>2, <2>1, CommandOf
    <2>3. QED
      BY <2>1, <2>2 DEF Opened
  <1>5. i_ctr' = 0
    BY <1>2, <1>4 DEF CoreTick, NextBit, StartStates
  <1>6. TopOf(Current.data, 0) = 0
    BY <1>2, Bits
  <1>7. ClockStages /\ DataStages
    BY DEF BitInv
  <1>8. CASE p_state = "Start_A"
    <2>1. (Off \/ Waiting) /\ seen = Prior /\ Rests
      BY <1>2, <1>8 DEF InCommand, StartStages, Known, LineInv, Levels
    <2>2. device' = device /\ seen' = seen
      BY <1>2, <2>1, Ticks DEF Rests
    <2>3. (Off \/ Waiting)' /\ seen' = Prior'
      BY <1>3, <2>1, <2>2 DEF Off, Waiting
    <2>4. Loose'
      BY <2>3 DEF Off, Waiting, Loose
    <2>5. p_state' \in {"Start_A", "Start_B"}
      BY <1>1, <1>2, <1>8, Follows
    <2>6. StartStages'
      BY <1>3, <1>4, <1>5, <2>3, <2>4, <2>5 DEF StartStages
    <2>7. QED
      BY <2>5, <2>6, NextStage DEF StartStates
  <1>9. CASE p_state = "Start_B"
    <2>1. Loose /\ (scl_in = 0 => Off \/ Waiting) /\ seen = Prior
      BY <1>2, <1>9 DEF InCommand, StartStages
    <2>2. (scl_in = 1 => scl_out = 1) /\ (scl_in = 1 => sda_in = sda)
      BY <1>7, <1>9 DEF ClockStages, DataStages, High
    <2>3. Loose' /\ seen' = Prior' /\ (scl_in' = 0 => (Off \/ Waiting)')
      BY <1>2, <1>3, <2>1, <2>2, LooseCycle
    <2>4. sda_in' = 1
      BY <1>2, <1>9, <2>1 DEF Loose, Known, LineInv, Levels
    <2>5. p_state' \in {"Start_B", "Start_C"}
      BY <1>1, <1>2, <1>9, Follows
    <2>6. StartStages'
      BY <1>3, <1>4, <1>5, <2>3, <2>4, <2>5 DEF StartStages
    <2>7. QED
      BY <2>5, <2>6, NextStage DEF StartStates
  <1>10. CASE p_state = "Start_C"
    <2>1. scl_in = 1 /\ scl_out = 1
      BY <1>7, <1>10 DEF ClockStages, High
    <2>2. IF sda_in = 1 THEN Loose /\ seen = Prior ELSE Receiving(0) /\ seen = Opened
      BY <1>2, <1>10 DEF InCommand, StartStages
    <2>3. /\ sclk => sda = 0
          /\ sda_in = 0 => sda = 0
      BY <1>2, <1>7, <1>10 DEF DataStages
    <2>4. CASE sda = 1
      <3>1. sda_in = 1
        BY <1>2, <2>3, <2>4 DEF Bit
      <3>2. device' = device /\ seen' = seen
        BY <1>2, <2>1, <2>4, <3>1, Ticks
      <3>3. Loose' /\ seen' = Prior' /\ sda_in' = 1
        BY <1>2, <1>3, <2>2, <2>4, <3>1, <3>2 DEF Loose
      <3>4. p_state' = "Start_C"
        BY <1>1, <1>2, <1>10, <2>3, <2>4, Follows
      <3>5. StartStages'
        BY <1>3, <1>4, <1>5, <3>3, <3>4 DEF StartStages
      <3>6. QED
        BY <3>4, <3>5, NextStage DEF StartStates
    <2>5. CASE sda = 0
      <3>1. Receiving(0)' /\ seen' = Opened' /\ sda_in' = 0
        <4>1. CASE sda_in = 1
          <5>1. /\ device'.mode = "receive" /\ device'.first = TRUE /\ device'.count = 0
                /\ device'.byte = 0 /\ device'.sda = device.sda
                /\ seen' = Append(seen, START)
            <6>1. sda_in # sda /\ Shape /\ DeviceTick(seen)
              BY <1>2, <2>5, <4>1
            <6>2. QED
              BY <2>1, <2>5, <6>1, Conditions
          <5>2. device.sda = 1 /\ seen = Prior
            BY <2>2, <4>1 DEF Loose
          <5>3. QED
            BY <1>2, <1>3, <1>4, <1>6, <2>5, <5>1, <5>2 DEF Receiving
        <4>2. CASE sda_in = 0
          <5>1. device' = device /\ seen' = seen
            BY <1>2, <2>1, <2>5, <4>2, Ticks
          <5>2. QED
            BY <1>2, <1>3, <2>2, <2>5, <4>2, <5>1 DEF Receiving
        <4>3. QED
          BY <1>2, <4>1, <4>2 DEF Bit
      <3>2. p_state' \in {"Start_C", "Start_D"}
        BY <1>1, <1>2, <1>10, Follows
      <3>3. StartStages'
        BY <1>3, <1>4, <1>5, <3>1, <3>2 DEF StartStages
      <3>4. QED
        BY <3>2, <3>3, NextStage DEF StartStates
    <2>6. QED
      BY <1>2, <2>4, <2>5 DEF Bit
  <1>11. CASE p_state = "Start_D"
    <2>1. Receiving(0) /\ seen = Opened
      BY <1>2, <1>11 DEF InCommand, StartStages
    <2>2. scl_in = 0 => scl_out = 0
      BY <1>7, <1>11 DEF ClockStages
    <2>3. scl_in = 1 /\ scl_out = 1 => sda_in = sda
      BY <1>7, <1>11 DEF DataStages, High
    <2>4. device' = device /\ seen' = seen
      <3>1. CASE scl_in = scl_out
        BY <1>2, <2>3, <3>1, Ticks
      <3>2. CASE scl_in = 1 /\ scl_out = 0
        BY <1>2, <2>1, <3>2, Falling DEF Receiving
      <3>3. QED
        BY <1>2, <2>2, <3>1, <3>2 DEF Bit
    <2>5. Receiving(0)' /\ seen' = Opened'
      BY <1>3, <2>1, <2>4 DEF Receiving
    <2>6. p_state' \in {"Start_D", "Wr_A"}
      BY <1>1, <1>2, <1>4, <1>11 DEF CoreTick, n_state, Body
    <2>7. CASE p_state' = "Start_D"
      <3>1. StartStages'
        BY <1>3, <1>4, <1>5, <2>5, <2>7 DEF StartStages
      <3>2. QED
        BY <2>7, <3>1, NextStage DEF StartStates
    <2>8. CASE p_state' = "Wr_A"
      <3>1. Receiving(i_ctr)'
        BY <1>5, <2>5 DEF Receiving
      <3>2. WriteStages'
        BY <1>3, <1>4, <2>5, <2>8, <3>1 DEF WriteStages
      <3>3. QED
        BY <2>8, <3>2, NextStage DEF WriteStates
    <2>9. QED
      BY <2>6, <2>7, <2>8
  <1>12. QED
    BY <1>8, <1>9, <1>10, <1>11 DEF StartStates

(* The bits of a byte sent. *)
LEMMA WriteCycle ==
  ASSUME Divisor >= 1, Known, BitInv, NEW acc, CycleWith(acc),
         p_state \in {"Wr_A", "Wr_B", "Wr_C", "Wr_D", "Wr_E"}
  PROVE  InCommand'
  <1>1. p_state \in Working
    BY DEF Working, States, Paced, Unpaced
  <1>2. /\ InScript /\ InCommand /\ DeviceTick(seen) /\ Shape
        /\ CoreTick(scl_in, sda_in, sclk, cmd, i_data_in, i_ack_reg, i_cmd_done_ack)
        /\ call' = call /\ step' = step /\ value' = value
        /\ scl_in' = scl_out /\ sda_in' = sda
        /\ scl_in \in Bit /\ scl_out \in Bit /\ sda_in \in Bit /\ sda \in Bit
        /\ sda = IF sda_out = 1 /\ device.sda = 1 THEN 1 ELSE 0
        /\ sclk => ~sclk'
        /\ Sends => i_data_in = Current.data
        /\ i_ctr \in 0..7 /\ Current.data \in Byte
    BY <1>1, WorkMoves
  <1>3. Sends
    BY <1>2 DEF InCommand, WriteStages
  <1>4. /\ Current' = Current
        /\ Starts' <=> Starts
        /\ Sends' <=> Sends
        /\ Opened' = Opened /\ Logged' = Logged
    BY <1>2, <1>3, StandsStill
  <1>5. ClockStages /\ DataStages
    BY DEF BitInv
  <1>6. i_ctr' = IF p_state = "Wr_E" THEN (i_ctr + 1) % 8 ELSE i_ctr
    BY <1>2 DEF CoreTick, NextBit
  <1>7. /\ TopOf(Current.data, 8) = Current.data
        /\ \A i \in 0..7 : TopOf(Current.data, i + 1) =
                             2 * TopOf(Current.data, i) + BitOf(Current.data, i)
    BY <1>2, Bits
  <1>8. CASE p_state = "Wr_A"
    <2>1. Receiving(i_ctr) /\ seen = Opened /\ Low
      BY <1>2, <1>5, <1>8 DEF InCommand, WriteStages, ClockStages
    <2>2. device' = device /\ seen' = seen /\ scl_in' = 0
      BY <1>2, <2>1, Ticks DEF Low
    <2>3. Receiving(i_ctr)' /\ seen' = Opened'
      BY <1>4, <1>6, <1>8, <2>1, <2>2 DEF Receiving
    <2>4. p_state' \in {"Wr_A", "Wr_B"}
      BY <1>1, <1>2, <1>8, Follows
    <2>5. CASE p_state' = "Wr_A"
      <3>1. WriteStages'
        BY <1>3, <1>4, <2>3, <2>5 DEF WriteStages
      <3>2. QED
        BY <2>5, <3>1, NextStage DEF WriteStates
    <2>6. CASE p_state' = "Wr_B"
      <3>1. Receiving(IF scl_in = 1 THEN i_ctr + 1 ELSE i_ctr)'
        BY <2>2, <2>3 DEF Receiving
      <3>2. WriteStages'
        BY <1>3, <1>4, <2>3, <2>6, <3>1 DEF WriteStages
      <3>3. QED
        BY <2>6, <3>2, NextStage DEF WriteStates
    <2>7. QED
      BY <2>4, <2>5, <2>6
  <1>9. CASE p_state = "Wr_B"
    <2>1. Receiving(IF scl_in = 1 THEN i_ctr + 1 ELSE i_ctr) /\ seen = Opened
      BY <1>2, <1>9 DEF InCommand, WriteStages
    <2>2. (scl_in = 1 => scl_out = 1) /\ (scl_in = 1 => sda_in = sda) /\ (sclk => scl_out = 1)
      BY <1>5, <1>9 DEF ClockStages, DataStages, High
    <2>3. Receiving(IF scl_in = 1 THEN i_ctr + 1 ELSE i_ctr)' /\ seen' = Opened'
      <3>1. CASE scl_in = scl_out
        <4>1. device' = device /\ seen' = seen /\ scl_in' = scl_in
          BY <1>2, <2>2, <3>1, Ticks
        <4>2. QED
          BY <1>4, <1>6, <1>9, <2>1, <4>1 DEF Receiving
      <3>2. CASE scl_in = 0 /\ scl_out = 1
        <4>1. Receiving(i_ctr)
          BY <2>1, <3>2
        <4>2. sda = BitOf(Current.data, i_ctr)
          <5>1. sda_out = BitOf(i_data_in, i_ctr)
            BY <1>9, <3>2 DEF Known, LineInv, Levels
          <5>2. sda_out = BitOf(Current.data, i_ctr)
            BY <1>2, <1>3, <5>1
          <5>3. BitOf(Current.data, i_ctr) \in {0, 1}
            BY <1>2, Bits DEF Bit
          <5>4. QED
            BY <1>2, <4>1, <5>2, <5>3 DEF Receiving
        <4>3. /\ device'.byte = 2 * device.byte + sda /\ device'.count = device.count + 1
              /\ device'.mode = device.mode /\ device'.first = device.first
              /\ device'.sda = device.sda /\ seen' = seen
          BY <1>2, <3>2, <4>1, Rising DEF Receiving
        <4>4. device'.byte = TopOf(Current.data, i_ctr + 1)
          BY <1>2, <1>7, <4>1, <4>2, <4>3 DEF Receiving
        <4>5. Receiving(i_ctr + 1)'
          BY <1>4, <1>6, <1>9, <4>1, <4>3, <4>4 DEF Receiving
        <4>6. scl_in' = 1
          BY <1>2, <3>2
        <4>7. QED
          BY <1>4, <2>1, <4>3, <4>5, <4>6 DEF Receiving
      <3>3. QED
        BY <1>2, <2>2, <3>1, <3>2 DEF Bit
    <2>4. p_state' = "Wr_B" \/ (p_state' = "Wr_C" /\ scl_in' = 1)
      BY <1>1, <1>2, <1>9, <2>2, Follows DEF Unpaced
    <2>5. CASE p_state' = "Wr_B"
      <3>1. WriteStages'
        BY <1>3, <1>4, <2>3, <2>5 DEF WriteStages
      <3>2. QED
        BY <2>5, <3>1, NextStage DEF WriteStates
    <2>6. CASE p_state' = "Wr_C" /\ scl_in' = 1
      <3>1. Receiving(i_ctr + 1)'
        BY <2>3, <2>6 DEF Receiving
      <3>2. WriteStages'
        BY <1>3, <1>4, <2>3, <2>6, <3>1 DEF WriteStages
      <3>3. QED
        BY <2>6, <3>2, NextStage DEF WriteStates
    <2>7. QED
      BY <2>4, <2>5, <2>6
  <1>10. CASE p_state = "Wr_C"
    <2>1. Receiving(i_ctr + 1) /\ seen = Opened /\ High /\ sda_in = sda
      BY <1>2, <1>5, <1>10 DEF InCommand, WriteStages, ClockStages, DataStages
    <2>2. device' = device /\ seen' = seen /\ scl_in' = 1
      BY <1>2, <2>1, Ticks DEF High
    <2>3. Receiving(i_ctr + 1)' /\ seen' = Opened'
      BY <1>4, <1>6, <1>10, <2>1, <2>2 DEF Receiving
    <2>4. p_state' \in {"Wr_C", "Wr_D"}
      BY <1>1, <1>2, <1>10, Follows
    <2>5. WriteStages'
      BY <1>3, <1>4, <2>2, <2>3, <2>4 DEF WriteStages
    <2>6. QED
      BY <2>4, <2>5, NextStage DEF WriteStates
  <1>11. CASE p_state = "Wr_D"
    <2>1. IF scl_in = 1 \/ i_ctr < 7 THEN Receiving(i_ctr + 1) /\ seen = Opened
          ELSE Acknowledging /\ seen = Logged
      BY <1>2, <1>11 DEF InCommand, WriteStages
    <2>2. /\ scl_in = 0 => scl_out = 0
          /\ scl_in = 1 /\ scl_out = 1 => sda_in = sda
          /\ sclk => scl_out = 0
      BY <1>5, <1>11 DEF ClockStages, DataStages, High
    <2>3. i_ctr' = i_ctr
      BY <1>6, <1>11
    <2>4. IF scl_in' = 1 \/ i_ctr < 7 THEN Receiving(i_ctr + 1)' /\ seen' = Opened'
          ELSE Acknowledging' /\ seen' = Logged'
      <3>1. CASE scl_in = scl_out
        <4>1. device' = device /\ seen' = seen /\ scl_in' = scl_in
          BY <1>2, <2>2, <3>1, Ticks
        <4>2. QED
          BY <1>4, <2>1, <2>3, <4>1 DEF Receiving, Acknowledging
      <3>2. CASE scl_in = 1 /\ scl_out = 0
        <4>1. Receiving(i_ctr + 1) /\ seen = Opened
          BY <2>1, <3>2
        <4>2. CASE i_ctr < 7
          <5>1. device' = device /\ seen' = seen
            BY <1>2, <3>2, <4>1, <4>2, Falling DEF Receiving
          <5>2. Receiving(i_ctr + 1)' /\ seen' = Opened'
            BY <1>4, <2>3, <4>1, <5>1 DEF Receiving
          <5>3. QED
            BY <4>2, <5>2
        <4>3. CASE i_ctr = 7
          <5>1. device.count = 8 /\ device.byte = Current.data /\ device.mode = "receive"
            <6>1. i_ctr + 1 = 8
              BY <4>3
            <6>2. QED
              BY <1>7, <4>1, <6>1 DEF Receiving
          <5>2. /\ device'.sda = device'.ack /\ device'.count = 9
                /\ device'.mode = device.mode /\ device'.first = device.first
                /\ device'.byte = device.byte
                /\ seen' = Append(seen, device.byte)
            BY <1>2, <3>2, <5>1, Falling
          <5>3. Acknowledging'
            BY <1>4, <4>1, <5>1, <5>2 DEF Receiving, Acknowledging
          <5>4. seen' = Logged'
            BY <1>3, <1>4, <4>1, <5>1, <5>2 DEF Logged, Payload
          <5>5. scl_in' # 1
            BY <1>2, <3>2
          <5>6. QED
            BY <4>3, <5>3, <5>4, <5>5
        <4>4. QED
          BY <1>2, <4>2, <4>3
      <3>3. QED
        BY <1>2, <2>2, <3>1, <3>2 DEF Bit
    <2>5. \/ p_state' = "Wr_D"
          \/ p_state' = "Wr_E" /\ scl_in' # 1 /\ i_ctr < 7
          \/ p_state' = "RdAck_A" /\ scl_in' # 1 /\ ~(i_ctr < 7)
      <3>1. p_state' = IF sclk THEN IF i_ctr = 7 THEN "RdAck_A" ELSE "Wr_E" ELSE "Wr_D"
        BY <1>2, <1>11 DEF CoreTick, n_state, Unpaced
      <3>2. i_ctr = 7 \/ i_ctr < 7
        BY <1>2
      <3>3. QED
        BY <1>2, <2>2, <3>1, <3>2
    <2>6. CASE p_state' = "Wr_D"
      <3>1. IF scl_in' = 1 \/ i_ctr' < 7 THEN Receiving(i_ctr + 1)' /\ seen' = Opened'
            ELSE Acknowledging' /\ seen' = Logged'
        BY <2>3, <2>4
      <3>2. WriteStages'
        BY <1>3, <1>4, <2>6, <3>1 DEF WriteStages
      <3>3. QED
        BY <2>6, <3>2, NextStage DEF WriteStates
    <2>7. CASE p_state' = "Wr_E" /\ scl_in' # 1 /\ i_ctr < 7
      <3>1. Receiving(i_ctr + 1)' /\ seen' = Opened' /\ i_ctr' < 7
        BY <2>3, <2>4, <2>7
      <3>2. WriteStages'
        BY <1>3, <1>4, <2>7, <3>1 DEF WriteStages
      <3>3. QED
        BY <2>7, <3>2, NextStage DEF WriteStates
    <2>8. CASE p_state' = "RdAck_A" /\ scl_in' # 1 /\ ~(i_ctr < 7)
      <3>1. Acknowledging' /\ seen' = Logged'
        BY <2>4, <2>8
      <3>2. WriteStages'
        BY <1>3, <1>4, <2>8, <3>1 DEF WriteStages
      <3>3. QED
        BY <2>8, <3>2, NextStage DEF WriteStates
    <2>9. QED
      BY <2>5, <2>6, <2>7, <2>8
  <1>12. CASE p_state = "Wr_E"
    <2>1. i_ctr < 7 /\ Receiving(i_ctr + 1) /\ seen = Opened /\ Low
      BY <1>2, <1>5, <1>12 DEF InCommand, WriteStages, ClockStages
    <2>2. device' = device /\ seen' = seen
      BY <1>2, <2>1, Ticks DEF Low
    <2>3. i_ctr' = i_ctr + 1
      BY <1>2, <1>6, <1>12, <2>1
    <2>4. Receiving(i_ctr)' /\ seen' = Opened'
      BY <1>4, <2>1, <2>2, <2>3 DEF Receiving
    <2>5. p_state' = "Wr_A"
      BY <1>1, <1>2, <1>12, Follows
    <2>6. WriteStages'
      BY <1>3, <1>4, <2>4, <2>5 DEF WriteStages
    <2>7. QED
      BY <2>5, <2>6, NextStage DEF WriteStates
  <1>13. QED
    BY <1>8, <1>9, <1>10, <1>11, <1>12

(* The acknowledgement of a byte sent. *)
LEMMA AcknowledgeCycle ==
  ASSUME Divisor >= 1, Known, BitInv, NEW acc, CycleWith(acc),
         p_state \in {"RdAck_A", "RdAck_B", "RdAck_C", "RdAck_D", "RdAck_E"}
  PROVE  InCommand'
  <1>1. p_state \in Working
    BY DEF Working, States, Paced, Unpaced
  <1>2. /\ InScript /\ InCommand /\ DeviceTick(seen) /\ Shape
        /\ CoreTick(scl_in, sda_in, sclk, cmd, i_data_in, i_ack_reg, i_cmd_done_ack)
        /\ call' = call /\ step' = step /\ value' = value
        /\ scl_in' = scl_out /\ sda_in' = sda
        /\ scl_in \in Bit /\ scl_out \in Bit /\ sda_in \in Bit /\ sda \in Bit /\ device.ack \in Bit
        /\ sda = IF sda_out = 1 /\ device.sda = 1 THEN 1 ELSE 0
        /\ cmd.stop <=> Stops
    BY <1>1, WorkMoves
  <1>3. Sends
    BY <1>2 DEF InCommand, WriteStages
  <1>4. /\ Current' = Current
        /\ Starts' <=> Starts
        /\ Sends' <=> Sends
        /\ Stops' <=> Stops
        /\ Logged' = Logged /\ Closed' = Closed
    BY <1>2, <1>3, StandsStill
  <1>5. ClockStages /\ DataStages
    BY DEF BitInv
  <1>6. seen = Logged
    BY <1>2 DEF InCommand, WriteStages
  <1>7. i_ack_out' = IF p_state = "RdAck_C" THEN sda_in ELSE i_ack_out
    BY <1>2 DEF CoreTick, LoadsAck
  <1>8. CASE p_state = "RdAck_A"
    <2>1. Acknowledging /\ Low
      BY <1>2, <1>5, <1>8 DEF InCommand, WriteStages, ClockStages
    <2>2. device' = device /\ seen' = seen
      BY <1>2, <2>1, Ticks DEF Low
    <2>3. Acknowledging' /\ seen' = Logged'
      BY <1>4, <1>6, <2>1, <2>2 DEF Acknowledging
    <2>4. p_state' \in {"RdAck_A", "RdAck_B"}
      BY <1>1, <1>2, <1>8, Follows
    <2>5. WriteStages'
      BY <1>3, <1>4, <2>3, <2>4 DEF WriteStages
    <2>6. QED
      BY <2>4, <2>5, NextStage DEF WriteStates
  <1>9. CASE p_state = "RdAck_B"
    <2>1. Acknowledging
      BY <1>2, <1>9 DEF InCommand, WriteStages
    <2>2. (scl_in = 1 => scl_out = 1) /\ (scl_in = 1 => sda_in = sda) /\ (sclk => scl_out = 1)
      BY <1>5, <1>9 DEF ClockStages, DataStages, High
    <2>3. device' = device /\ seen' = seen
      <3>1. CASE scl_in = scl_out
        BY <1>2, <2>2, <3>1, Ticks
      <3>2. CASE scl_in = 0 /\ scl_out = 1
        BY <1>2, <2>1, <3>2, Rising DEF Acknowledging
      <3>3. QED
        BY <1>2, <2>2, <3>1, <3>2 DEF Bit
    <2>4. Acknowledging' /\ seen' = Logged'
      BY <1>4, <1>6, <2>1, <2>3 DEF Acknowledging
    <2>5. p_state' = "RdAck_B" \/ (p_state' = "RdAck_C" /\ sclk)
      BY <1>1, <1>2, <1>9, Follows DEF Unpaced
    <2>6. sclk => sda_in' = device'.ack
      <3> SUFFICES ASSUME sclk PROVE sda_in' = device'.ack
        OBVIOUS
      <3>1. sda_out = 1
        BY <1>9, <2>2 DEF Known, LineInv, Levels
      <3>2. sda = device.ack
        BY <1>2, <2>1, <3>1 DEF Acknowledging, Bit
      <3>3. QED
        BY <1>2, <2>3, <3>2
    <2>7. WriteStages'
      BY <1>3, <1>4, <2>4, <2>5, <2>6 DEF WriteStages
    <2>8. QED
      BY <2>5, <2>7, NextStage DEF WriteStates
  <1>10. CASE p_state \in {"RdAck_C", "RdAck_D"}
    <2>1. Acknowledging /\ High /\ sda_in = sda
      BY <1>2, <1>5, <1>10 DEF InCommand, WriteStages, ClockStages, DataStages
    <2>2. device' = device /\ seen' = seen /\ scl_in' = 1
      BY <1>2, <2>1, Ticks DEF High
    <2>3. Acknowledging' /\ seen' = Logged'
      BY <1>4, <1>6, <2>1, <2>2 DEF Acknowledging
    <2>4. i_ack_out' = device'.ack
      BY <1>2, <1>7, <1>10, <2>2 DEF InCommand, WriteStages
    <2>5. p_state' \in {"RdAck_D", "RdAck_E"}
      BY <1>1, <1>2, <1>10, Follows
    <2>6. WriteStages'
      BY <1>3, <1>4, <2>2, <2>3, <2>4, <2>5 DEF WriteStages
    <2>7. QED
      BY <2>5, <2>6, NextStage DEF WriteStates
  <1>11. CASE p_state = "RdAck_E"
    <2>1. /\ i_ack_out = device.ack
          /\ IF scl_in = 1 THEN Acknowledging ELSE Answered
      BY <1>2, <1>11 DEF InCommand, WriteStages
    <2>2. /\ scl_in = 0 => scl_out = 0
          /\ scl_in = 1 /\ scl_out = 1 => sda_in = sda
          /\ sclk => scl_out = 0
      BY <1>5, <1>11 DEF ClockStages, DataStages, High
    <2>3. /\ seen' = Logged' /\ device'.ack = device.ack
          /\ IF scl_in' = 1 THEN Acknowledging' ELSE Answered'
      <3>1. CASE scl_in = scl_out
        <4>1. device' = device /\ seen' = seen /\ scl_in' = scl_in
          BY <1>2, <2>2, <3>1, Ticks
        <4>2. Acknowledging => Acknowledging'
          BY <1>4, <4>1 DEF Acknowledging
        <4>3. Answered => Answered'
          BY <1>4, <4>1 DEF Answered, Off, Offering, Waiting
        <4>4. QED
          BY <1>4, <1>6, <2>1, <4>1, <4>2, <4>3
      <3>2. CASE scl_in = 1 /\ scl_out = 0
        <4>1. Acknowledging
          BY <2>1, <3>2
        <4>2. NextByte /\ seen' = seen
          BY <1>2, <3>2, <4>1, Falling DEF Acknowledging
        <4>3. CASE device.ack = 1
          <5>1. /\ device'.mode = "off" /\ device'.ack = device.ack /\ device'.sda = device.sda
            BY <1>2, <4>2, <4>3, NextBytes
          <5>2. Answered'
            BY <4>1, <4>3, <5>1 DEF Acknowledging, Answered, Off
          <5>3. QED
            BY <1>2, <1>4, <1>6, <3>2, <4>2, <5>1, <5>2
        <4>4. CASE device.ack = 0 /\ Starts /\ Current.data % 2 = 1
          <5>1. device.first /\ device.byte % 2 = 1
            BY <4>1, <4>4 DEF Acknowledging
          <5>2. /\ device'.mode = "send" /\ device'.count = 1
                /\ device'.sda = BitOf(device'.byte, 0) /\ device'.ack = device.ack
            BY <1>2, <4>2, <4>4, <5>1, NextBytes
          <5>3. Offering(1)'
            BY <5>2 DEF Offering
          <5>4. Answered'
            BY <1>4, <4>4, <5>2, <5>3 DEF Answered
          <5>5. QED
            BY <1>2, <1>4, <1>6, <3>2, <4>2, <5>2, <5>4
        <4>5. CASE device.ack = 0 /\ ~(Starts /\ Current.data % 2 = 1)
          <5>1. device.mode = "receive" /\ ~(device.first /\ device.byte % 2 = 1)
            BY <4>1, <4>5 DEF Acknowledging
          <5>2. /\ device'.mode = "receive" /\ device'.first = FALSE /\ device'.count = 0
                /\ device'.byte = 0 /\ device'.sda = 1 /\ device'.ack = device.ack
            BY <1>2, <4>2, <4>5, <5>1, NextBytes
          <5>3. Answered'
            BY <1>4, <4>5, <5>2 DEF Answered, Waiting
          <5>4. QED
            BY <1>2, <1>4, <1>6, <3>2, <4>2, <5>2, <5>3
        <4>6. QED
          BY <1>2, <4>3, <4>4, <4>5 DEF Bit
      <3>3. QED
        BY <1>2, <2>2, <3>1, <3>2 DEF Bit
    <2>4. i_ack_out' = device'.ack
      BY <1>7, <1>11, <2>1, <2>3
    <2>5. \/ p_state' = "RdAck_E"
          \/ p_state' = "Stop_A" /\ Stops /\ scl_in' = 0
          \/ p_state' = "Done" /\ ~Stops /\ scl_in' = 0
      <3>1. p_state' = IF sclk THEN IF cmd.stop THEN "Stop_A" ELSE "Done" ELSE "RdAck_E"
        BY <1>2, <1>11 DEF CoreTick, n_state, AfterByte, Unpaced
      <3>2. QED
        BY <1>2, <2>2, <3>1
    <2>6. CASE p_state' = "RdAck_E"
      <3>1. WriteStages'
        BY <1>3, <1>4, <2>3, <2>4, <2>6 DEF WriteStages
      <3>2. QED
        BY <2>6, <3>1, NextStage DEF WriteStates
    <2>7. CASE p_state' = "Stop_A" /\ Stops /\ scl_in' = 0
      <3>1. ~Starts
        BY <1>2, <2>7, CommandOf, SizeOfByte
      <3>2. (Off \/ Waiting)'
        BY <1>4, <2>3, <2>7, <3>1 DEF Answered
      <3>3. StopStages'
        BY <1>4, <2>3, <2>4, <2>7, <3>2 DEF StopStages
      <3>4. QED
        BY <2>7, <3>3, NextStage DEF StopStates
    <2>8. CASE p_state' = "Done" /\ ~Stops /\ scl_in' = 0
      <3>1. scl_out' = 0
        BY <1>2, <1>11, LineOutputs DEF ClockLow
      <3>2. Closed = Logged
        BY <2>8 DEF Closed
      <3>3. Answered' /\ seen' = Closed' /\ Low'
        BY <1>4, <2>3, <2>8, <3>1, <3>2 DEF Low
      <3>4. After'
        BY <1>3, <1>4, <2>4, <2>8, <3>3 DEF After
      <3>5. QED
        BY <2>8, <3>4, NextStage
    <2>9. QED
      BY <2>5, <2>6, <2>7, <2>8
  <1>12. QED
    BY <1>8, <1>9, <1>10, <1>11

(* The bits of a byte read. *)
LEMMA ReadCycle ==
  ASSUME Divisor >= 1, Known, BitInv, NEW acc, CycleWith(acc),
         p_state \in {"Rd_A", "Rd_B", "Rd_C", "Rd_D", "Rd_E", "Rd_F"}
  PROVE  InCommand'
  <1>1. p_state \in Working
    BY DEF Working, States, Paced, Unpaced
  <1>2. /\ InScript /\ InCommand /\ DeviceTick(seen) /\ Shape
        /\ CoreTick(scl_in, sda_in, sclk, cmd, i_data_in, i_ack_reg, i_cmd_done_ack)
        /\ call' = call /\ step' = step /\ value' = value
        /\ scl_in' = scl_out /\ sda_in' = sda
        /\ scl_in \in Bit /\ scl_out \in Bit /\ sda_in \in Bit /\ sda \in Bit
        /\ sda = IF sda_out = 1 /\ device.sda = 1 THEN 1 ELSE 0
        /\ i_ctr \in 0..7 /\ i_dout \in Byte /\ device.byte \in Byte
    BY <1>1, WorkMoves
  <1>3. ~Sends /\ seen = Opened
    BY <1>2 DEF InCommand, ReadStages
  <1>4. /\ Sends' <=> Sends
        /\ Opened' = Opened
    BY <1>2, StandsStill
  <1>5. ClockStages /\ DataStages
    BY DEF BitInv
  <1>6. /\ i_ctr' = IF p_state = "Rd_F" THEN (i_ctr + 1) % 8 ELSE i_ctr
        /\ i_dout' = IF p_state = "Rd_C" THEN WithBit(i_dout, i_ctr, sda_in) ELSE i_dout
    BY <1>2 DEF CoreTick, NextBit
  <1>7. device.sda \in Bit
    BY DEF Known, TypeInv, DeviceInv
  <1>8. CASE p_state = "Rd_A"
    <2>1. Offering(i_ctr + 1) /\ Agree(i_ctr) /\ Low
      BY <1>2, <1>5, <1>8 DEF InCommand, ReadStages, ClockStages
    <2>2. device' = device /\ seen' = seen
      BY <1>2, <2>1, Ticks DEF Low
    <2>3. Offering(i_ctr + 1)' /\ Agree(i_ctr)' /\ seen' = Opened'
      BY <1>3, <1>4, <1>6, <1>8, <2>1, <2>2 DEF Offering, Agree
    <2>4. p_state' \in {"Rd_A", "Rd_B"}
      BY <1>1, <1>2, <1>8, Follows
    <2>5. ReadStages'
      BY <1>3, <1>4, <2>3, <2>4 DEF ReadStages
    <2>6. QED
      BY <2>4, <2>5, NextStage DEF ReadStates
  <1>9. CASE p_state = "Rd_B"
    <2>1. Offering(i_ctr + 1) /\ Agree(i_ctr)
      BY <1>2, <1>9 DEF InCommand, ReadStages
    <2>2. (scl_in = 1 => scl_out = 1) /\ (scl_in = 1 => sda_in = sda) /\ (sclk => scl_out = 1)
      BY <1>5, <1>9 DEF ClockStages, DataStages, High
    <2>3. device' = device /\ seen' = seen
      <3>1. CASE scl_in = scl_out
        BY <1>2, <2>2, <3>1, Ticks
      <3>2. CASE scl_in = 0 /\ scl_out = 1
        BY <1>2, <2>1, <3>2, Rising DEF Offering
      <3>3. QED
        BY <1>2, <2>2, <3>1, <3>2 DEF Bit
    <2>4. Offering(i_ctr + 1)' /\ Agree(i_ctr)' /\ seen' = Opened'
      BY <1>3, <1>4, <1>6, <1>9, <2>1, <2>3 DEF Offering, Agree
    <2>5. p_state' = "Rd_B" \/ (p_state' = "Rd_C" /\ sclk)
      BY <1>1, <1>2, <1>9, Follows DEF Unpaced
    <2>6. sclk => sda_in' = device'.sda
      <3> SUFFICES ASSUME sclk PROVE sda_in' = device'.sda
        OBVIOUS
      <3>1. sda_out = 1
        BY <1>9, <2>2 DEF Known, LineInv, Levels
      <3>2. sda = device.sda
        BY <1>2, <1>7, <3>1 DEF Bit
      <3>3. QED
        BY <1>2, <2>3, <3>2
    <2>7. ReadStages'
      BY <1>3, <1>4, <2>4, <2>5, <2>6 DEF ReadStages
    <2>8. QED
      BY <2>5, <2>7, NextStage DEF ReadStates
  <1>10. CASE p_state = "Rd_C"
    <2>1. Offering(i_ctr + 1) /\ Agree(i_ctr) /\ High /\ sda_in = sda /\ sda_in = device.sda
      BY <1>2, <1>5, <1>10 DEF InCommand, ReadStages, ClockStages, DataStages
    <2>2. device' = device /\ seen' = seen
      BY <1>2, <2>1, Ticks DEF High
    <2>3. sda_in = BitOf(device.byte, i_ctr)
      <3>1. (i_ctr + 1) - 1 = i_ctr
        BY <1>2
      <3>2. device.sda = BitOf(device.byte, (i_ctr + 1) - 1)
        BY <2>1, Zenon DEF Offering
      <3>3. QED
        BY <2>1, <3>1, <3>2, Zenon
    <2>4. Agree(i_ctr + 1)'
      <3>1. TopOf(i_dout', i_ctr + 1) = 2 * TopOf(i_dout, i_ctr) + sda_in
        BY <1>2, <1>6, <1>10, SettingABit
      <3>2. TopOf(device.byte, i_ctr + 1) = 2 * TopOf(device.byte, i_ctr) + BitOf(device.byte, i_ctr)
        BY <1>2, Bits
      <3>3. i_ctr' = i_ctr
        BY <1>6, <1>10
      <3>4. QED
        BY <2>1, <2>2, <2>3, <3>1, <3>2, <3>3 DEF Agree
    <2>5. Offering(i_ctr + 1)' /\ seen' = Opened'
      BY <1>3, <1>4, <1>6, <1>10, <2>1, <2>2 DEF Offering
    <2>6. p_state' = "Rd_D"
      BY <1>1, <1>2, <1>10, Follows
    <2>7. ReadStages'
      BY <1>3, <1>4, <2>4, <2>5, <2>6 DEF ReadStages
    <2>8. QED
      BY <2>6, <2>7, NextStage DEF ReadStates
  <1>11. CASE p_state = "Rd_D"
    <2>1. Offering(i_ctr + 1) /\ Agree(i_ctr + 1) /\ High /\ sda_in = sda
      BY <1>2, <1>5, <1>11 DEF InCommand, ReadStages, ClockStages, DataStages
    <2>2. device' = device /\ seen' = seen /\ scl_in' = 1
      BY <1>2, <2>1, Ticks DEF High
    <2>3. Offering(i_ctr + 1)' /\ Agree(i_ctr + 1)' /\ seen' = Opened'
      BY <1>3, <1>4, <1>6, <1>11, <2>1, <2>2 DEF Offering, Agree
    <2>4. p_state' \in {"Rd_D", "Rd_E"}
      BY <1>1, <1>2, <1>11, Follows
    <2>5. ReadStages'
      BY <1>3, <1>4, <2>2, <2>3, <2>4 DEF ReadStages
    <2>6. QED
      BY <2>4, <2>5, NextStage DEF ReadStates
  <1>12. CASE p_state = "Rd_E"
    <2>1. /\ Agree(i_ctr + 1)
          /\ IF scl_in = 1 THEN Offering(i_ctr + 1)
             ELSE IF i_ctr < 7 THEN Offering(i_ctr + 2) ELSE Released
      BY <1>2, <1>12 DEF InCommand, ReadStages
    <2>2. /\ scl_in = 0 => scl_out = 0
          /\ scl_in = 1 /\ scl_out = 1 => sda_in = sda
          /\ sclk => scl_out = 0
      BY <1>5, <1>12 DEF ClockStages, DataStages, High
    <2>3. i_ctr' = i_ctr /\ i_dout' = i_dout
      BY <1>6, <1>12
    <2>4. /\ Agree(i_ctr + 1)' /\ seen' = Opened'
          /\ IF scl_in' = 1 THEN Offering(i_ctr + 1)'
             ELSE IF i_ctr < 7 THEN Offering(i_ctr + 2)' ELSE Released'
      <3>1. CASE scl_in = scl_out
        <4>1. device' = device /\ seen' = seen /\ scl_in' = scl_in
          BY <1>2, <2>2, <3>1, Ticks
        <4>2. Agree(i_ctr + 1)' /\ seen' = Opened'
          BY <1>3, <1>4, <2>1, <2>3, <4>1 DEF Agree
        <4>3. /\ Offering(i_ctr + 1) => Offering(i_ctr + 1)'
              /\ Offering(i_ctr + 2) => Offering(i_ctr + 2)'
              /\ Released => Released'
          BY <2>3, <4>1 DEF Offering, Released
        <4>4. QED
          BY <2>1, <4>1, <4>2, <4>3
      <3>2. CASE scl_in = 1 /\ scl_out = 0
        <4>1. Offering(i_ctr + 1) /\ scl_in' # 1
          BY <1>2, <2>1, <3>2
        <4>2. CASE i_ctr < 7
          <5>1. device.mode = "send" /\ device.count \in 1..7 /\ device.count = i_ctr + 1
            BY <1>2, <4>1, <4>2 DEF Offering
          <5>2. /\ device'.mode = "send" /\ device'.byte = device.byte
                /\ device'.count = device.count + 1
                /\ device'.sda = BitOf(device.byte, device.count)
                /\ seen' = seen
            BY <1>2, <3>2, <5>1, Falling
          <5>3. Agree(i_ctr + 1)' /\ seen' = Opened'
            BY <1>3, <1>4, <2>1, <2>3, <5>2 DEF Agree
          <5>4. Offering(i_ctr + 2)'
            <6>1. i_ctr + 2 - 1 = i_ctr + 1 /\ i_ctr + 1 + 1 = i_ctr + 2
              BY <1>2
            <6>2. QED
              BY <2>3, <5>1, <5>2, <6>1 DEF Offering
          <5>5. QED
            BY <4>1, <4>2, <5>3, <5>4
        <4>3. CASE i_ctr = 7
          <5>1. device.mode = "send" /\ device.count = 8
            BY <4>1, <4>3 DEF Offering
          <5>2. /\ device'.sda = 1 /\ device'.count = 9
                /\ device'.mode = device.mode /\ device'.byte = device.byte
                /\ seen' = seen
            BY <1>2, <3>2, <5>1, Falling
          <5>3. Agree(i_ctr + 1)' /\ seen' = Opened'
            BY <1>3, <1>4, <2>1, <2>3, <5>2 DEF Agree
          <5>4. device.byte = i_dout
            <6>1. TopOf(i_dout, 8) = TopOf(device.byte, 8)
              <7>1. i_ctr + 1 = 8
                BY <4>3
              <7>2. QED
                BY <2>1, <7>1 DEF Agree
            <6>2. QED
              BY <1>2, <6>1, Bits
          <5>5. Released'
            BY <2>3, <5>1, <5>2, <5>4 DEF Released
          <5>6. QED
            BY <4>1, <4>3, <5>3, <5>5
        <4>4. QED
          BY <1>2, <4>2, <4>3
      <3>3. QED
        BY <1>2, <2>2, <3>1, <3>2 DEF Bit
    <2>5. \/ p_state' = "Rd_E"
          \/ p_state' = "Rd_F" /\ scl_in' # 1 /\ i_ctr < 7
          \/ p_state' = "WrAck_A" /\ scl_in' # 1 /\ ~(i_ctr < 7)
      <3>1. p_state' = IF sclk THEN IF i_ctr = 7 THEN "WrAck_A" ELSE "Rd_F" ELSE "Rd_E"
        BY <1>2, <1>12 DEF CoreTick, n_state, Unpaced
      <3>2. i_ctr = 7 \/ i_ctr < 7
        BY <1>2
      <3>3. QED
        BY <1>2, <2>2, <3>1, <3>2
    <2>6. CASE p_state' = "Rd_E"
      <3>1. IF scl_in' = 1 THEN Offering(i_ctr + 1)'
            ELSE IF i_ctr' < 7 THEN Offering(i_ctr + 2)' ELSE Released'
        BY <2>3, <2>4
      <3>2. ReadStages'
        BY <1>3, <1>4, <2>4, <2>6, <3>1 DEF ReadStages
      <3>3. QED
        BY <2>6, <3>2, NextStage DEF ReadStates
    <2>7. CASE p_state' = "Rd_F" /\ scl_in' # 1 /\ i_ctr < 7
      <3>1. Offering(i_ctr + 2)' /\ i_ctr' < 7
        BY <2>3, <2>4, <2>7
      <3>2. ReadStages'
        BY <1>3, <1>4, <2>4, <2>7, <3>1 DEF ReadStages
      <3>3. QED
        BY <2>7, <3>2, NextStage DEF ReadStates
    <2>8. CASE p_state' = "WrAck_A" /\ scl_in' # 1 /\ ~(i_ctr < 7)
      <3>1. Released'
        BY <2>4, <2>8
      <3>2. ReadStages'
        BY <1>3, <1>4, <2>4, <2>8, <3>1 DEF ReadStages
      <3>3. QED
        BY <2>8, <3>2, NextStage DEF ReadStates
    <2>9. QED
      BY <2>5, <2>6, <2>7, <2>8
  <1>13. CASE p_state = "Rd_F"
    <2>1. i_ctr < 7 /\ Offering(i_ctr + 2) /\ Agree(i_ctr + 1) /\ Low
      BY <1>2, <1>5, <1>13 DEF InCommand, ReadStages, ClockStages
    <2>2. device' = device /\ seen' = seen
      BY <1>2, <2>1, Ticks DEF Low
    <2>3. i_ctr' = i_ctr + 1 /\ i_dout' = i_dout
      BY <1>2, <1>6, <1>13, <2>1
    <2>4. Agree(i_ctr)' /\ seen' = Opened'
      BY <1>3, <1>4, <2>1, <2>2, <2>3 DEF Agree
    <2>5. Offering(i_ctr + 1)'
      <3>1. i_ctr' + 1 = i_ctr + 2
        BY <1>2, <2>3
      <3>2. QED
        BY <2>1, <2>2, <3>1 DEF Offering
    <2>6. p_state' = "Rd_A"
      BY <1>1, <1>2, <1>13, Follows
    <2>7. ReadStages'
      BY <1>3, <1>4, <2>4, <2>5, <2>6 DEF ReadStages
    <2>8. QED
      BY <2>6, <2>7, NextStage DEF ReadStates
  <1>14. QED
    BY <1>8, <1>9, <1>10, <1>11, <1>12, <1>13

(* The acknowledgement of a byte read. *)
LEMMA RefusalCycle ==
  ASSUME Divisor >= 1, Known, BitInv, NEW acc, CycleWith(acc),
         p_state \in {"WrAck_A", "WrAck_B", "WrAck_C", "WrAck_D"}
  PROVE  InCommand'
  <1>1. p_state \in Working /\ p_state \notin Unpaced
    BY DEF Working, States, Paced, Unpaced
  <1>2. /\ InScript /\ InCommand /\ DeviceTick(seen) /\ Shape
        /\ CoreTick(scl_in, sda_in, sclk, cmd, i_data_in, i_ack_reg, i_cmd_done_ack)
        /\ call' = call /\ step' = step /\ value' = value
        /\ scl_in' = scl_out /\ sda_in' = sda
        /\ scl_in \in Bit /\ scl_out \in Bit /\ sda_in \in Bit /\ sda \in Bit /\ device.ack \in Bit
        /\ sda = IF sda_out = 1 /\ device.sda = 1 THEN 1 ELSE 0
        /\ cmd.stop <=> Stops
        /\ i_ack_reg = Current.control % 2 /\ i_ack_reg' = i_ack_reg
    BY <1>1, WorkMoves
  <1>3. ~Sends
    BY <1>2 DEF InCommand, ReadStages
  <1>4. i_dout' = i_dout
    BY <1>2 DEF CoreTick
  <1>5. /\ Sends' <=> Sends
        /\ Stops' <=> Stops
        /\ Opened' = Opened /\ Logged' = Logged /\ Closed' = Closed
    BY <1>2, <1>4, StandsStill
  <1>6. ClockStages /\ DataStages
    BY DEF BitInv
  <1>7. i_ack_reg = IF Stops THEN 1 ELSE 0
    BY <1>2, <1>3, CommandOf
  <1>8. CASE p_state = "WrAck_A"
    <2>1. Released /\ seen = Opened /\ Low
      BY <1>2, <1>6, <1>8 DEF InCommand, ReadStages, ClockStages
    <2>2. device' = device /\ seen' = seen /\ scl_in' = 0
      BY <1>2, <2>1, Ticks DEF Low
    <2>3. Released' /\ seen' = Opened'
      BY <1>4, <1>5, <2>1, <2>2 DEF Released
    <2>4. p_state' \in {"WrAck_A", "WrAck_B"}
      BY <1>1, <1>2, <1>8, Follows
    <2>5. ReadStages'
      BY <1>3, <1>5, <2>2, <2>3, <2>4 DEF ReadStages
    <2>6. QED
      BY <2>4, <2>5, NextStage DEF ReadStates
  <1>9. CASE p_state = "WrAck_B"
    <2>1. /\ Released
          /\ IF scl_in = 1 THEN device.ack = i_ack_reg /\ seen = Logged ELSE seen = Opened
      BY <1>2, <1>9 DEF InCommand, ReadStages
    <2>2. (scl_in = 1 => scl_out = 1) /\ (scl_in = 1 => sda_in = sda) /\ (sclk => scl_out = 1)
      BY <1>6, <1>9 DEF ClockStages, DataStages, High
    <2>3. /\ Released'
          /\ IF scl_in' = 1 THEN device'.ack = i_ack_reg' /\ seen' = Logged' ELSE seen' = Opened'
      <3>1. CASE scl_in = scl_out
        <4>1. device' = device /\ seen' = seen /\ scl_in' = scl_in
          BY <1>2, <2>2, <3>1, Ticks
        <4>2. QED
          BY <1>2, <1>4, <1>5, <2>1, <4>1 DEF Released
      <3>2. CASE scl_in = 0 /\ scl_out = 1
        <4>1. seen = Opened /\ scl_in' = 1
          BY <1>2, <2>1, <3>2
        <4>2. /\ device'.ack = sda
              /\ device'.mode = device.mode /\ device'.byte = device.byte
              /\ device'.count = device.count /\ device'.sda = device.sda
              /\ seen' = Append(seen, device.byte)
          BY <1>2, <2>1, <3>2, Rising DEF Released
        <4>3. sda = i_ack_reg
          <5>1. sda_out = i_ack_reg
            BY <1>9, <3>2 DEF Known, LineInv, Levels
          <5>2. QED
            BY <1>2, <1>7, <2>1, <5>1 DEF Released
        <4>4. Released'
          BY <1>4, <2>1, <4>2 DEF Released
        <4>5. seen' = Logged
          BY <1>3, <2>1, <4>1, <4>2 DEF Released, Logged, Payload
        <4>6. QED
          BY <1>2, <1>5, <4>1, <4>2, <4>3, <4>4, <4>5
      <3>3. QED
        BY <1>2, <2>2, <3>1, <3>2 DEF Bit
    <2>4. p_state' = "WrAck_B" \/ (p_state' = "WrAck_C" /\ scl_in' = 1)
      BY <1>1, <1>2, <1>9, <2>2, Follows
    <2>5. ReadStages'
      BY <1>3, <1>5, <2>3, <2>4 DEF ReadStages
    <2>6. QED
      BY <2>4, <2>5, NextStage DEF ReadStates
  <1>10. CASE p_state = "WrAck_C"
    <2>1. Released /\ device.ack = i_ack_reg /\ seen = Logged /\ High /\ sda_in = sda
      BY <1>2, <1>6, <1>10 DEF InCommand, ReadStages, ClockStages, DataStages
    <2>2. device' = device /\ seen' = seen /\ scl_in' = 1
      BY <1>2, <2>1, Ticks DEF High
    <2>3. Released' /\ device'.ack = i_ack_reg' /\ seen' = Logged'
      BY <1>2, <1>4, <1>5, <2>1, <2>2 DEF Released
    <2>4. p_state' \in {"WrAck_C", "WrAck_D"}
      BY <1>1, <1>2, <1>10, Follows
    <2>5. ReadStages'
      BY <1>3, <1>5, <2>2, <2>3, <2>4 DEF ReadStages
    <2>6. QED
      BY <2>4, <2>5, NextStage DEF ReadStates
  <1>11. CASE p_state = "WrAck_D"
    <2>1. /\ seen = Logged
          /\ IF scl_in = 1 THEN Released /\ device.ack = i_ack_reg
             ELSE IF i_ack_reg = 1 THEN Off ELSE Offering(1)
      BY <1>2, <1>11 DEF InCommand, ReadStages
    <2>2. /\ scl_in = 0 => scl_out = 0
          /\ scl_in = 1 /\ scl_out = 1 => sda_in = sda
          /\ sclk => scl_out = 0
      BY <1>6, <1>11 DEF ClockStages, DataStages, High
    <2>3. /\ seen' = Logged'
          /\ IF scl_in' = 1 THEN Released' /\ device'.ack = i_ack_reg'
             ELSE IF i_ack_reg' = 1 THEN Off' ELSE Offering(1)'
      <3>1. CASE scl_in = scl_out
        <4>1. device' = device /\ seen' = seen /\ scl_in' = scl_in
          BY <1>2, <2>2, <3>1, Ticks
        <4>2. (Released => Released') /\ (Off => Off') /\ (Offering(1) => Offering(1)')
          BY <1>4, <4>1 DEF Released, Off, Offering
        <4>3. QED
          BY <1>2, <1>5, <2>1, <4>1, <4>2
      <3>2. CASE scl_in = 1 /\ scl_out = 0
        <4>1. Released /\ device.ack = i_ack_reg /\ scl_in' # 1
          BY <1>2, <2>1, <3>2
        <4>2. NextByte /\ seen' = seen
          BY <1>2, <3>2, <4>1, Falling DEF Released
        <4>3. CASE device.ack = 1
          <5>1. device'.mode = "off" /\ device'.sda = device.sda
            BY <1>2, <4>2, <4>3, NextBytes
          <5>2. Off'
            BY <4>1, <5>1 DEF Released, Off
          <5>3. QED
            BY <1>2, <1>5, <2>1, <4>1, <4>2, <4>3, <5>2
        <4>4. CASE device.ack = 0
          <5>1. device.mode = "send"
            BY <4>1 DEF Released
          <5>2. /\ device'.mode = "send" /\ device'.count = 1
                /\ device'.sda = BitOf(device'.byte, 0)
            BY <1>2, <4>2, <4>4, <5>1, NextBytes
          <5>3. Offering(1)'
            BY <5>2 DEF Offering
          <5>4. QED
            BY <1>2, <1>5, <2>1, <4>1, <4>2, <4>4, <5>3
        <4>5. QED
          BY <1>2, <4>3, <4>4 DEF Bit
      <3>3. QED
        BY <1>2, <2>2, <3>1, <3>2 DEF Bit
    <2>4. \/ p_state' = "WrAck_D"
          \/ p_state' = "Stop_A" /\ Stops /\ scl_in' = 0
          \/ p_state' = "Done" /\ ~Stops /\ scl_in' = 0
      <3>1. p_state' = IF sclk THEN IF cmd.stop THEN "Stop_A" ELSE "Done" ELSE "WrAck_D"
        BY <1>1, <1>2, <1>11 DEF CoreTick, n_state, AfterByte
      <3>2. QED
        BY <1>2, <2>2, <3>1
    <2>5. CASE p_state' = "WrAck_D"
      <3>1. ReadStages'
        BY <1>3, <1>5, <2>3, <2>5 DEF ReadStages
      <3>2. QED
        BY <2>5, <3>1, NextStage DEF ReadStates
    <2>6. CASE p_state' = "Stop_A" /\ Stops /\ scl_in' = 0
      <3>1. Off'
        BY <1>2, <1>7, <2>3, <2>6
      <3>2. StopStages'
        BY <1>3, <1>5, <2>3, <2>6, <3>1 DEF StopStages
      <3>3. QED
        BY <2>6, <3>2, NextStage DEF StopStates
    <2>7. CASE p_state' = "Done" /\ ~Stops /\ scl_in' = 0
      <3>1. scl_out' = 0
        BY <1>2, <1>11, LineOutputs DEF ClockLow
      <3>2. Closed = Logged
        BY <2>7 DEF Closed
      <3>3. Offering(1)' /\ seen' = Closed' /\ Low'
        BY <1>2, <1>5, <1>7, <2>3, <2>7, <3>1, <3>2 DEF Low
      <3>4. After'
        BY <1>3, <1>5, <2>7, <3>3 DEF After
      <3>5. QED
        BY <2>7, <3>4, NextStage
    <2>8. QED
      BY <2>4, <2>5, <2>6, <2>7
  <1>12. QED
    BY <1>8, <1>9, <1>10, <1>11

(* The STOP. *)
LEMMA StopCycle ==
  ASSUME Divisor >= 1, Known, BitInv, NEW acc, CycleWith(acc), p_state \in StopStates
  PROVE  InCommand'
  <1>1. p_state \in Working /\ p_state \notin Unpaced
    BY DEF StopStates, Working, States, Paced, Unpaced
  <1>2. /\ InScript /\ InCommand /\ DeviceTick(seen) /\ Shape
        /\ CoreTick(scl_in, sda_in, sclk, cmd, i_data_in, i_ack_reg, i_cmd_done_ack)
        /\ call' = call /\ step' = step /\ value' = value
        /\ scl_in' = scl_out /\ sda_in' = sda
        /\ scl_in \in Bit /\ scl_out \in Bit /\ sda_in \in Bit /\ sda \in Bit
        /\ sda = IF sda_out = 1 /\ device.sda = 1 THEN 1 ELSE 0
    BY <1>1, WorkMoves
  <1>3. i_dout' = i_dout /\ i_ack_out' = i_ack_out
    BY <1>2 DEF CoreTick, LoadsAck, StopStates
  <1>4. /\ Sends' <=> Sends
        /\ Stops' <=> Stops
        /\ Logged' = Logged /\ Closed' = Closed
    BY <1>2, <1>3, StandsStill
  <1>5. Stops /\ (Sends => i_ack_out = device.ack)
    BY <1>2 DEF InCommand, StopStages, StopStates
  <1>6. ClockStages /\ DataStages /\ Closed = Append(Logged, STOP)
    BY <1>5 DEF BitInv, Closed
  <1>7. CASE p_state = "Stop_A"
    <2>1. (Off \/ Waiting) /\ seen = Logged /\ Low
      BY <1>2, <1>6, <1>7 DEF InCommand, StopStages, ClockStages
    <2>2. device' = device /\ seen' = seen
      BY <1>2, <2>1, Ticks DEF Low
    <2>3. (Off \/ Waiting)' /\ seen' = Logged' /\ (Sends' => i_ack_out' = device'.ack)
      BY <1>3, <1>4, <1>5, <2>1, <2>2 DEF Off, Waiting
    <2>4. Loose'
      BY <2>3 DEF Off, Waiting, Loose
    <2>5. p_state' \in {"Stop_A", "Stop_B"}
      BY <1>1, <1>2, <1>7, Follows
    <2>6. StopStages'
      BY <1>4, <1>5, <2>3, <2>4, <2>5 DEF StopStages
    <2>7. QED
      BY <2>5, <2>6, NextStage DEF StopStates
  <1>8. CASE p_state = "Stop_B"
    <2>1. Loose /\ (scl_in = 0 => Off \/ Waiting) /\ seen = Logged
      BY <1>2, <1>8 DEF InCommand, StopStages
    <2>2. (scl_in = 1 => scl_out = 1) /\ (scl_in = 1 => sda_in = sda) /\ (sclk => scl_out = 1)
      BY <1>6, <1>8 DEF ClockStages, DataStages, High
    <2>3. /\ Loose' /\ seen' = Logged' /\ (scl_in' = 0 => (Off \/ Waiting)')
          /\ Sends' => i_ack_out' = device'.ack
      BY <1>2, <1>3, <1>4, <1>5, <2>1, <2>2, LooseCycle
    <2>4. sclk => sda_in' = 0
      BY <1>2, <1>8, <2>2 DEF Known, LineInv, Levels
    <2>5. p_state' = "Stop_B" \/ (p_state' = "Stop_C" /\ sclk)
      BY <1>1, <1>2, <1>8, Follows
    <2>6. StopStages'
      BY <1>4, <1>5, <2>3, <2>4, <2>5 DEF StopStages
    <2>7. QED
      BY <2>5, <2>6, NextStage DEF StopStates
  <1>9. CASE p_state = "Stop_C"
    <2>1. /\ scl_in = 1 /\ scl_out = 1
          /\ sda_in = 1 => sda_out = 1
          /\ IF sda_in = 1 THEN Off /\ seen = Closed ELSE Loose /\ seen = Logged
      BY <1>2, <1>6, <1>9 DEF InCommand, StopStages, ClockStages, DataStages, High
    <2>2. device.sda = 1
      BY <2>1 DEF Off, Loose
    <2>3. /\ IF sda = 1 THEN Off' /\ seen' = Closed' ELSE Loose' /\ seen' = Logged'
          /\ device'.ack = device.ack
      <3>1. CASE sda_in = sda
        <4>1. device' = device /\ seen' = seen
          BY <1>2, <2>1, <3>1, Ticks
        <4>2. QED
          BY <1>4, <2>1, <3>1, <4>1 DEF Off, Loose
      <3>2. CASE sda_in = 0 /\ sda = 1
        <4>1. /\ device'.mode = "off" /\ device'.sda = device.sda
              /\ device'.ack = device.ack /\ seen' = Append(seen, STOP)
          <5>1. sda_in # sda /\ sda # 0
            BY <3>2
          <5>2. QED
            BY <1>2, <2>1, <5>1, Conditions
        <4>2. Off' /\ seen' = Closed'
          BY <1>4, <1>6, <2>1, <2>2, <3>2, <4>1 DEF Off
        <4>3. QED
          BY <3>2, <4>1, <4>2
      <3>3. CASE sda_in = 1 /\ sda = 0
        BY <1>2, <2>1, <2>2, <3>3
      <3>4. QED
        BY <1>2, <3>1, <3>2, <3>3 DEF Bit
    <2>4. Sends' => i_ack_out' = device'.ack
      BY <1>3, <1>4, <1>5, <2>3
    <2>5. p_state' = "Stop_C" \/ (p_state' = "Done" /\ sclk)
      BY <1>1, <1>2, <1>9, Follows
    <2>6. CASE p_state' = "Stop_C"
      <3>1. StopStages'
        BY <1>2, <1>4, <1>5, <2>3, <2>4, <2>6 DEF StopStages
      <3>2. QED
        BY <2>6, <3>1, NextStage DEF StopStates
    <2>7. CASE p_state' = "Done" /\ sclk
      <3>1. sda_out = 1
        BY <1>9, <2>7 DEF Known, LineInv, Levels
      <3>2. sda = 1
        BY <1>2, <2>2, <3>1
      <3>3. scl_out' = 1
        BY <1>2, <1>9, LineOutputs
      <3>4. High' /\ Off' /\ seen' = Closed'
        BY <1>2, <2>1, <2>3, <3>2, <3>3 DEF High
      <3>5. After'
        BY <1>4, <1>5, <2>4, <3>4 DEF After
      <3>6. QED
        BY <2>7, <3>5, NextStage
    <2>8. QED
      BY <2>5, <2>6, <2>7
  <1>10. QED
    BY <1>7, <1>8, <1>9 DEF StopStates

(* The command begins. *)
LEMMA BeginCycle ==
  ASSUME Divisor >= 1, Known, BitInv, NEW acc, CycleWith(acc), p_state = "Idle", TIP
  PROVE  InCommand'
  <1>1. /\ InScript /\ Ready
        /\ call' = call /\ step' = step /\ value' = value
        /\ p_state' = IF Starts THEN "Start_A" ELSE IF Sends THEN "Wr_A" ELSE "Rd_A"
        /\ i_ctr' = 0
        /\ device' = device /\ seen' = seen
    BY WorkBegins
  <1>2. CoreTick(scl_in, sda_in, sclk, cmd, i_data_in, i_ack_reg, i_cmd_done_ack)
    BY DEF CycleWith
  <1>3. i_dout' = i_dout
    BY <1>2 DEF CoreTick
  <1>4. /\ Current' = Current
        /\ Starts' <=> Starts
        /\ Sends' <=> Sends
        /\ Prior' = Prior /\ Opened' = Opened
    BY <1>1, StandsStill
  <1>5. CASE Starts
    <2>1. p_state' = "Start_A" /\ (Off \/ Waiting)' /\ seen' = Prior'
      BY <1>1, <1>4, <1>5 DEF Ready, Off, Waiting
    <2>2. StartStages'
      BY <1>1, <1>4, <1>5, <2>1 DEF StartStages
    <2>3. QED
      BY <2>1, <2>2, NextStage DEF StartStates
  <1>6. CASE ~Starts /\ Sends
    <2>1. p_state' = "Wr_A" /\ Waiting /\ seen = Prior
      BY <1>1, <1>6 DEF Ready
    <2>2. TopOf(Current.data, 0) = 0
      <3>1. Current.data \in Byte
        BY <1>1, CommandOf DEF Byte
      <3>2. QED
        BY <3>1, Bits
    <2>3. Receiving(i_ctr)'
      BY <1>1, <1>4, <1>6, <2>1, <2>2 DEF Waiting, Receiving
    <2>4. seen' = Opened'
      BY <1>1, <1>4, <1>6, <2>1 DEF Opened
    <2>5. WriteStages'
      BY <1>4, <1>6, <2>1, <2>3, <2>4 DEF WriteStages
    <2>6. QED
      BY <2>1, <2>5, NextStage DEF WriteStates
  <1>7. CASE ~Starts /\ ~Sends
    <2>1. p_state' = "Rd_A" /\ Offering(1) /\ seen = Prior
      BY <1>1, <1>7 DEF Ready
    <2>2. TopOf(i_dout, 0) = 0 /\ TopOf(device.byte, 0) = 0
      <3>1. i_dout \in Byte /\ device.byte \in Byte
        BY DEF Known, TypeInv, CoreTypeOK, DeviceInv
      <3>2. QED
        BY <3>1, Bits
    <2>3. Offering(i_ctr + 1)'
      <3>1. i_ctr' + 1 = 1
        BY <1>1
      <3>2. QED
        BY <1>1, <2>1, <3>1 DEF Offering
    <2>4. Agree(i_ctr)'
      BY <1>1, <1>3, <2>2 DEF Agree
    <2>5. seen' = Opened'
      BY <1>1, <1>4, <1>7, <2>1 DEF Opened
    <2>6. ReadStages'
      BY <1>4, <1>7, <2>1, <2>3, <2>4, <2>5 DEF ReadStages
    <2>7. QED
      BY <2>1, <2>6, NextStage DEF ReadStates
  <1>8. QED
    BY <1>5, <1>6, <1>7

(* The core at rest leaves the bus as it is. *)
LEMMA Steady ==
  ASSUME Divisor >= 1, Known, NEW acc, CycleWith(acc),
         p_state \in {"Reset", "Idle", "Done", "DoneAck"}
  PROVE  /\ device' = device
         /\ seen' = IF at = "ready" /\ calls' # calls THEN <<>> ELSE seen
         /\ scl_in' = scl_in /\ scl_out' = scl_in /\ scl_out = scl_in
         /\ i_dout' = i_dout /\ i_ack_out' = i_ack_out
  <1> DEFINE log == IF at = "ready" /\ calls' # calls THEN <<>> ELSE seen
  <1>1. /\ CoreTick(scl_in, sda_in, sclk, cmd, i_data_in, i_ack_reg, i_cmd_done_ack)
        /\ DeviceTick(log)
    BY DEF CycleWith
  <1>2. Rests /\ scl_in \in Bit /\ scl_out \in Bit /\ (p_state = "Reset" => scl_out = 1)
    BY DEF Known, LineInv, Levels, TypeInv
  <1> HIDE DEF log
  <1>3. device' = device /\ seen' = log
    BY <1>1, <1>2, Ticks DEF Rests
  <1>4. scl_in' = scl_out
    BY LineMoves DEF Known
  <1>5. scl_out' = scl_in
    BY <1>1, <1>2, LineOutputs DEF Rests
  <1>6. i_dout' = i_dout /\ i_ack_out' = i_ack_out
    BY <1>1 DEF CoreTick, LoadsAck
  <1>7. QED
    BY <1>2, <1>3, <1>4, <1>5, <1>6 DEF Rests, log

(* The command is over, the program has not seen it yet. *)
LEMMA EndCycle ==
  ASSUME Divisor >= 1, Known, BitInv, NEW acc, CycleWith(acc), at \in {"after", "after2"},
         p_state \in {"Done", "DoneAck"} \/ (p_state = "Idle" /\ ~TIP)
  PROVE  InCommand' /\ (~TIP /\ p_state = "Idle" => After')
  <1>1. /\ InScript /\ InCommand
        /\ call' = call /\ step' = step /\ value' = value
    BY AtWork DEF BitInv
  <1>2. After
    BY <1>1 DEF InCommand
  <1>3. /\ device' = device /\ seen' = seen
        /\ scl_in' = scl_in /\ scl_out' = scl_in /\ scl_out = scl_in
        /\ i_dout' = i_dout /\ i_ack_out' = i_ack_out
    BY Steady
  <1>4. /\ Current' = Current
        /\ Starts' <=> Starts
        /\ Sends' <=> Sends
        /\ Stops' <=> Stops
        /\ Closed' = Closed
    BY <1>1, <1>3, StandsStill
  <1>5. After'
    <2>1. (High => High') /\ (Low => Low')
      BY <1>3 DEF High, Low
    <2>2. (Off => Off') /\ (Waiting => Waiting') /\ (Offering(1) => Offering(1)')
      BY <1>3 DEF Off, Waiting, Offering
    <2>3. Answered => Answered'
      BY <1>3, <1>4, <2>2 DEF Answered
    <2>4. QED
      BY <1>2, <1>3, <1>4, <2>1, <2>2, <2>3 DEF After
  <1>6. p_state' = "DoneAck" \/ (p_state' = "Idle" /\ ~TIP')
    <2>1. /\ CoreTick(scl_in, sda_in, sclk, cmd, i_data_in, i_ack_reg, i_cmd_done_ack)
          /\ InterfaceTick(acc, data_out, ack_out, busy, cmd_done)
      BY DEF CycleWith
    <2>2. ~Writes(acc, "CR")
      <3>1. acc = Access \/ acc = NoAccess
        BY DEF CycleWith, DriverTick
      <3>2. ~Writes(NoAccess, "CR") /\ ~Writes(Access, "CR")
        BY AccessAt DEF Writes, NoAccess
      <3>3. QED
        BY <3>1, <3>2
    <2>3. /\ p_state = "Done" => p_state' = "DoneAck"
          /\ p_state = "DoneAck" => p_state' = IF i_cmd_done_ack THEN "Idle" ELSE "DoneAck"
          /\ p_state = "Idle" /\ ~TIP => p_state' = "Idle"
          /\ ~TIP => ~TIP'
      BY <2>1, <2>2, CoreMoves, InterfaceMoves DEF Known
    <2>4. p_state = "DoneAck" /\ i_cmd_done_ack => ~TIP
      BY DEF Known, HandshakeInv, Handshake, Over, Working
    <2>5. QED
      BY <2>3, <2>4
  <1>7. QED
    BY <1>5, <1>6, NextStage

(* A cycle between the command and the end of it. *)
LEMMA CommandCycle ==
  ASSUME Divisor >= 1, Known, BitInv, NEW acc, CycleWith(acc), at \in {"after", "after2"}
  PROVE  InCommand'
  <1>1. p_state # "Reset"
    BY DEF Known, HandshakeInv, Handshake, Over, Working
  <1>2. p_state \in States
    BY DEF Known, ControlTypeOK
  <1>3. CASE p_state \in StartStates
    BY <1>3, StartCycle
  <1>4. CASE p_state \in {"Wr_A", "Wr_B", "Wr_C", "Wr_D", "Wr_E"}
    BY <1>4, WriteCycle
  <1>5. CASE p_state \in {"RdAck_A", "RdAck_B", "RdAck_C", "RdAck_D", "RdAck_E"}
    BY <1>5, AcknowledgeCycle
  <1>6. CASE p_state \in {"Rd_A", "Rd_B", "Rd_C", "Rd_D", "Rd_E", "Rd_F"}
    BY <1>6, ReadCycle
  <1>7. CASE p_state \in {"WrAck_A", "WrAck_B", "WrAck_C", "WrAck_D"}
    BY <1>7, RefusalCycle
  <1>8. CASE p_state \in StopStates
    BY <1>8, StopCycle
  <1>9. CASE p_state = "Idle" /\ TIP
    BY <1>9, BeginCycle
  <1>10. CASE p_state \in {"Done", "DoneAck"} \/ (p_state = "Idle" /\ ~TIP)
    BY <1>10, EndCycle
  <1>11. QED
    BY <1>1, <1>2, <1>3, <1>4, <1>5, <1>6, <1>7, <1>8, <1>9, <1>10
    DEF States, Paced, Unpaced, StartStates, StopStates

-----------------------------------------------------------------------------
(* Between the commands. *)

(* What a command is, by its place in the script. *)
Kinds ==
  /\ call.op \in {"write", "read"} /\ step \in Nat /\ step >= 1
  /\ Starts <=> step = 1 \/ (call.op = "read" /\ step = 3)
  /\ Sends <=> call.op = "write" \/ step <= 3
  /\ step = 1 => Prior = <<>>

LEMMA KindsOf == InScript => Kinds
  <1> SUFFICES ASSUME InScript PROVE Kinds
    OBVIOUS
  <1>1. /\ call.op \in {"write", "read"} /\ step \in Nat /\ step >= 1
        /\ Starts <=> step = 1 \/ (call.op = "read" /\ step = 3)
        /\ Sends <=> call.op = "write" \/ step <= 3
    BY CommandOf
  <1>2. step = 1 => Prior = <<>>
    BY DEF Prior
  <1>3. QED
    BY <1>1, <1>2 DEF Kinds

LEMMA NextKinds == InScript' => Kinds'
  BY KindsOf, PTL

(* The lines, the device and the registers of the core stand still. *)
Still ==
  /\ device' = device /\ seen' = seen
  /\ scl_in' = scl_in /\ scl_out' = scl_in /\ scl_out = scl_in
  /\ i_dout' = i_dout /\ i_ack_out' = i_ack_out

LEMMA StillDevice ==
  ASSUME Still
  PROVE  /\ (Off => Off') /\ (Waiting => Waiting') /\ (Offering(1) => Offering(1)')
         /\ (High => High') /\ (Low => Low')
  BY DEF Still, Off, Waiting, Offering, High, Low

LEMMA StillCommand ==
  ASSUME Still, call' = call, step' = step, value' = value
  PROVE  /\ Ready => Ready'
         /\ After => After'
  <1>1. /\ (Off => Off') /\ (Waiting => Waiting') /\ (Offering(1) => Offering(1)')
        /\ (High => High') /\ (Low => Low')
    BY StillDevice
  <1>2. /\ Current' = Current
        /\ Starts' <=> Starts
        /\ Sends' <=> Sends
        /\ Stops' <=> Stops
        /\ Prior' = Prior /\ Closed' = Closed
    BY StandsStill DEF Still
  <1>3. Answered => Answered'
    BY <1>1, <1>2 DEF Still, Answered
  <1>4. Ready => Ready'
    BY <1>1, <1>2 DEF Still, Ready
  <1>5. After => After'
    BY <1>1, <1>2, <1>3 DEF Still, After
  <1>6. QED
    BY <1>4, <1>5

(* The answer to a command decides what the program does. *)
LEMMA Decides ==
  ASSUME NEW acc, DriverTick(acc), at \in {"status2", "get2"}
  PROVE  \/ at = "status2" /\ ~HasBit(readdata, LAR_BIT) /\ Advance /\ value' = value
         \/ /\ at = "status2" /\ HasBit(readdata, LAR_BIT) /\ at' = "abort"
            /\ call' = call /\ step' = step /\ value' = value
            /\ result' = result /\ calls' = calls
         \/ at = "get2" /\ Advance /\ value' = Append(value, readdata)
  <1>1. Reading
    BY DEF Reading
  <1>2. ~i2c_init /\ ~Begin /\ ~i2c_configure /\ ~Abort
    BY DEF i2c_init, Begin, i2c_configure, Abort, Goes
  <1>3. ~Commands
    BY DEF Commands, wait_end_of_transfer, Goes
  <1>4. CheckStatus \/ GetData
    BY <1>1, <1>2, <1>3 DEF DriverTick
  <1>5. CASE CheckStatus
    BY <1>5 DEF CheckStatus, Goes
  <1>6. CASE GetData
    BY <1>6 DEF GetData, Goes
  <1>7. QED
    BY <1>4, <1>5, <1>6

(* Elsewhere it keeps its registers, but for a call that begins or ends. *)
LEMMA Proceeds ==
  ASSUME NEW acc, DriverTick(acc), at \notin {"status2", "get2"}
  PROVE  /\ at \notin {"ready", "abort"} =>
              /\ call' = call /\ step' = step /\ value' = value
              /\ result' = result /\ calls' = calls
         /\ at = "init" => at' \in {"init", "ready"}
         /\ at = "clear" => at' \in {"clear", "configure"}
         /\ at = "configure" => at' \in {"configure", "ready"}
         /\ at = "before" => at' \in {"before", "before2"}
         /\ at = "before2" => at' \in {"before", IF Sends THEN "data" ELSE "control"}
         /\ at = "data" => (acc = NoAccess /\ at' = "data") \/ (acc = Access /\ at' = "control")
         /\ at = "control" => (acc = NoAccess /\ at' = "control") \/ (acc = Access /\ at' = "after")
         /\ at = "after" => at' \in {"after", "after2"}
         /\ at = "after2" =>
              \/ at' = "after"
              \/ ~HasBit(readdata, TIP_BIT) /\ at' = (IF Sends THEN "status" ELSE "get")
         /\ at = "status" => (acc = NoAccess /\ at' = "status") \/ (acc = Access /\ at' = "status2")
         /\ at = "get" => (acc = NoAccess /\ at' = "get") \/ (acc = Access /\ at' = "get2")
         /\ at = "abort" =>
              \/ at' = "abort" /\ UNCHANGED <<call, step, value, result, calls>>
              \/ at' = "ready" /\ result' \in {"ENODEV", "EBADACK"} /\ calls' = calls
         /\ at = "ready" =>
              \/ at' = "ready" /\ UNCHANGED <<call, step, value, result, calls>>
              \/ /\ at' \in {"before", "clear"} /\ step' = 1 /\ value' = <<>>
                 /\ result' = "none" /\ calls' = calls + 1
  <1>1. \/ acc = Access /\ Moved
        \/ acc = NoAccess /\ ~Reading /\ UNCHANGED <<at, call, step>>
    BY DriverMoves
  <1>2. Loops
    BY DriverLoops
  <1>3. /\ at # "ready" => ~Begin
        /\ at # "abort" => ~Abort
    BY DEF Begin, Abort
  <1>4. at \notin {"ready", "abort"} =>
          call' = call /\ step' = step /\ value' = value /\ result' = result /\ calls' = calls
    BY <1>2, <1>3 DEF Loops
  <1>5. /\ at = "init" => at' \in {"init", "ready"}
        /\ at = "clear" => at' \in {"clear", "configure"}
        /\ at = "configure" => at' \in {"configure", "ready"}
        /\ at = "before" => at' \in {"before", "before2"}
        /\ at = "after" => at' \in {"after", "after2"}
    BY <1>1 DEF Moved, Goes1
  <1>6. /\ at = "before2" => at' \in {"before", IF Sends THEN "data" ELSE "control"}
        /\ at = "after2" =>
              \/ at' = "after"
              \/ ~HasBit(readdata, TIP_BIT) /\ at' = (IF Sends THEN "status" ELSE "get")
    BY <1>1 DEF Moved, Goes1, Reading
  <1>7. /\ at = "data" => (acc = NoAccess /\ at' = "data") \/ (acc = Access /\ at' = "control")
        /\ at = "control" => (acc = NoAccess /\ at' = "control") \/ (acc = Access /\ at' = "after")
        /\ at = "status" => (acc = NoAccess /\ at' = "status") \/ (acc = Access /\ at' = "status2")
        /\ at = "get" => (acc = NoAccess /\ at' = "get") \/ (acc = Access /\ at' = "get2")
    BY <1>1 DEF Moved, Goes1
  <1>8. at = "abort" \/ at = "ready" =>
          \/ UNCHANGED driverVars
          \/ at = "abort" /\ Abort
          \/ at = "ready" /\ Begin
    <2>1. at = "abort" \/ at = "ready" =>
            ~i2c_init /\ ~i2c_configure /\ ~Commands /\ ~CheckStatus /\ ~GetData
      BY DEF i2c_init, i2c_configure, Commands, wait_end_of_transfer, CheckStatus, GetData, Goes
    <2>2. QED
      BY <1>3, <2>1 DEF DriverTick
  <1>9. at = "abort" =>
              \/ at' = "abort" /\ UNCHANGED <<call, step, value, result, calls>>
              \/ at' = "ready" /\ result' \in {"ENODEV", "EBADACK"} /\ calls' = calls
    BY <1>8 DEF Abort, driverVars
  <1>10. at = "ready" =>
              \/ at' = "ready" /\ UNCHANGED <<call, step, value, result, calls>>
              \/ /\ at' \in {"before", "clear"} /\ step' = 1 /\ value' = <<>>
                 /\ result' = "none" /\ calls' = calls + 1
    BY <1>8 DEF Begin, driverVars
  <1>11. QED
    BY <1>4, <1>5, <1>6, <1>7, <1>9, <1>10

(* What the program writes into the interface when nothing is in progress. *)
LEMMA Programs ==
  ASSUME ControlTypeOK, HandshakeInv, NEW acc, CycleWith(acc), at \notin {"after", "after2"}
  PROVE  /\ at = "data" /\ acc = Access => i_data_in' = Current.data
         /\ at = "control" /\ acc = Access =>
              /\ i_data_in' = i_data_in /\ i_ack_reg' = Current.control % 2
              /\ cmd' = Command(Current.control)
         /\ acc = NoAccess => i_data_in' = i_data_in
  <1>1. InterfaceTick(acc, data_out, ack_out, busy, cmd_done) /\ ~TIP
    BY DEF CycleWith, HandshakeInv, Quiet
  <1>2. /\ i_data_in' = IF Writes(acc, "DR") THEN acc.data ELSE i_data_in
        /\ i_ack_reg' = IF Writes(acc, "CR") THEN acc.data % 2 ELSE i_ack_reg
        /\ cmd' = IF Writes(acc, "CR") THEN Command(acc.data) ELSE cmd
    BY <1>1 DEF InterfaceTick, WriteRegister
  <1>3. /\ \A d : /\ Writes(Write("DR", d), "DR") /\ Write("DR", d).data = d
                  /\ Writes(Write("CR", d), "CR") /\ Write("CR", d).data = d
                  /\ ~Writes(Write("CR", d), "DR")
        /\ ~Writes(NoAccess, "DR")
    BY DEF Writes, Write, NoAccess
  <1>4. /\ at = "data" => Access = Write("DR", Current.data)
        /\ at = "control" => Access = Write("CR", Current.control)
    BY AccessAt
  <1>5. QED
    BY <1>2, <1>3, <1>4

(* While a command is in progress the interface keeps what it was given. *)
LEMMA Keeps ==
  ASSUME ControlTypeOK, HandshakeInv, NEW acc, CycleWith(acc), at \in {"after", "after2"}
  PROVE  /\ i_data_in' = i_data_in /\ i_ack_reg' = i_ack_reg
         /\ TIP' => TIP /\ cmd' = cmd
  <1>1. InterfaceTick(acc, data_out, ack_out, busy, cmd_done) /\ DriverTick(acc)
    BY DEF CycleWith
  <1>2. ~Writes(acc, "CR") /\ ~Writes(acc, "DR")
    <2>1. acc = Access \/ acc = NoAccess
      BY <1>1 DEF DriverTick
    <2>2. Access = Read("SR")
      BY AccessAt
    <2>3. QED
      BY <2>1, <2>2 DEF Writes, Read, NoAccess
  <1>3. i_data_in' = i_data_in /\ i_ack_reg' = i_ack_reg
    BY <1>1, <1>2 DEF InterfaceTick, EndCommand, WriteRegister
  <1>4. CASE TIP
    <2>1. TIP' => ~cmd_done
      BY <1>1, <1>4, InterfaceMoves
    <2>2. cmd' = IF cmd_done THEN NoCommand ELSE cmd
      BY <1>1, <1>4 DEF InterfaceTick, EndCommand
    <2>3. QED
      BY <1>3, <1>4, <2>1, <2>2
  <1>5. CASE ~TIP
    BY <1>1, <1>2, <1>3, <1>5, InterfaceMoves
  <1>6. QED
    BY <1>4, <1>5

LEMMA Counted ==
  ASSUME TypeInv, CommandInv, at \in Sending \union Polling
  PROVE  ReadSoFar /\ i_dout \in Int
  <1>1. value \in Seq(Byte) /\ i_dout \in Byte
    BY DEF TypeInv, CoreTypeOK
  <1>2. \A b \in Byte : b \in Int
    BY DEF Byte
  <1>3. value \in Seq(Int)
    <2>1. Len(value) \in Nat /\ value \in [1..Len(value) -> Byte]
      BY <1>1, LenProperties
    <2>2. value \in [1..Len(value) -> Int]
      BY <1>2, <2>1
    <2>3. QED
      BY <2>1, <2>2
  <1>4. QED
    BY <1>1, <1>2, <1>3 DEF CommandInv, ReadSoFar

(* Outside of a command all stands still. *)
LEMMA Standing ==
  ASSUME Divisor >= 1, Known, NEW acc, CycleWith(acc), at \notin {"after", "after2"}
  PROVE  /\ device' = device
         /\ seen' = IF at = "ready" /\ calls' # calls THEN <<>> ELSE seen
         /\ at # "ready" \/ calls' = calls => Still
         /\ at # "init" => p_state = "Idle" /\ ~TIP /\ p_state' = "Idle"
  <1>1. p_state \in {"Reset", "Idle"} /\ (at # "init" => p_state = "Idle" /\ ~TIP)
    BY DEF Known, HandshakeInv, Quiet
  <1>2. /\ device' = device
        /\ seen' = IF at = "ready" /\ calls' # calls THEN <<>> ELSE seen
        /\ scl_in' = scl_in /\ scl_out' = scl_in /\ scl_out = scl_in
        /\ i_dout' = i_dout /\ i_ack_out' = i_ack_out
    BY <1>1, Steady
  <1>3. CoreTick(scl_in, sda_in, sclk, cmd, i_data_in, i_ack_reg, i_cmd_done_ack)
    BY DEF CycleWith
  <1>4. at # "init" => p_state' = "Idle"
    BY <1>1, <1>3, CoreMoves DEF Known
  <1>5. QED
    BY <1>1, <1>2, <1>4 DEF Still

(* The program goes on to the next command or returns. *)
LEMMA Advances ==
  ASSUME Divisor >= 1, Known, BitInv, NEW acc, CycleWith(acc), at \in {"status2", "get2"},
         Advance, value' = IF Sends THEN value ELSE Append(value, i_dout),
         Sends => device.ack = 0, InterruptInv'
  PROVE  \/ /\ at' = "before" /\ result' = "none"
            /\ Ready' /\ ReadSoFar'
         \/ /\ at' = "ready" /\ seen' = Transaction' /\ High' /\ Off'
            /\ Len(seen') <= Size + 6
  <1>1. Still
    BY Standing
  <1>2. /\ After /\ InScript /\ ReadSoFar /\ i_dout \in Int /\ result = "none"
    <2>1. at \in Sending \union Polling
      BY DEF Polling
    <2>2. InScript
      BY <2>1 DEF Known, InterruptInv, InScript
    <2>3. ReadSoFar /\ i_dout \in Int
      BY <2>1, Counted DEF Known, BitInv
    <2>4. After
      BY DEF BitInv, TransferInv
    <2>5. result = "none"
      BY <2>1 DEF BitInv, CommandInv
    <2>6. QED
      BY <2>2, <2>3, <2>4, <2>5
  <1>3. /\ (Off => Off') /\ (Waiting => Waiting') /\ (Offering(1) => Offering(1)')
        /\ (High => High') /\ (Low => Low')
    BY <1>1, StillDevice
  <1>4. seen' = Closed
    BY <1>1, <1>2 DEF Still, After
  <1>5. Stops <=> step = Len(Script(call))
    BY <1>2, CommandOf
  <1>6. CASE IsLast
    <2>1. step = Len(Script(call)) /\ at' = "ready" /\ call' = call
      BY <1>6 DEF IsLast, Advance
    <2>2. Transaction' = Closed
      BY <1>2, <2>1, LastCommand
    <2>3. High' /\ Off'
      BY <1>2, <1>3, <1>5, <2>1 DEF After
    <2>4. Len(Closed) <= Size + 6
      BY <1>2, LogBound
    <2>5. QED
      BY <1>4, <2>1, <2>2, <2>3, <2>4
  <1>7. CASE ~IsLast
    <2>1. /\ step # Len(Script(call)) /\ at' = "before" /\ call' = call /\ step' = step + 1
          /\ result' = "none"
      BY <1>2, <1>7 DEF IsLast, Advance
    <2>2. Prior' = Closed /\ ReadSoFar'
      BY <1>2, <2>1, NextCommand
    <2>3. Low /\ (IF Sends THEN Answered ELSE Offering(1))
      BY <1>2, <1>5, <2>1 DEF After
    <2>4. InScript'
      <3>1. at' \in Sending \union Polling
        BY <2>1 DEF Sending
      <3>2. QED
        BY <3>1 DEF InterruptInv, InScript
    <2>5. Kinds /\ Kinds'
      BY <1>2, <2>4, KindsOf, NextKinds
    <2>6. /\ step' = 1 \/ (call'.op = "read" /\ step' = 3) <=> Starts'
          /\ call'.op = "write" \/ step' <= 3 <=> Sends'
          /\ step' # 1
      <3>1. step' # 1
        BY <2>1, <2>5 DEF Kinds
      <3>2. QED
        BY <2>5, <3>1 DEF Kinds
    <2>7. IF Starts' THEN Off' \/ Waiting' ELSE IF Sends' THEN Waiting' ELSE Offering(1)'
      <3>1. CASE ~Sends
        <4>1. ~Starts' /\ ~Sends'
          BY <2>1, <2>5, <2>6, <3>1 DEF Kinds
        <4>2. QED
          BY <1>3, <2>3, <3>1, <4>1
      <3>2. CASE Sends /\ ~(Starts /\ Current.data % 2 = 1)
        <4>1. Waiting
          BY <2>3, <3>2 DEF Answered
        <4>2. Starts' \/ Sends'
          <5>1. CASE step >= 3 /\ call.op = "read"
            <6>1. step = 3
              BY <2>5, <3>2, <5>1 DEF Kinds
            <6>2. Starts
              BY <2>5, <5>1, <6>1 DEF Kinds
            <6>3. Current.data = Device + 1
              BY <1>2, <5>1, <6>1, CommandOf
            <6>4. (Device + 1) % 2 = 1
              BY SizeOfByte
            <6>5. QED
              BY <3>2, <6>2, <6>3, <6>4
          <5>2. CASE call.op = "write" \/ step < 3
            BY <2>1, <2>5, <2>6, <5>2 DEF Kinds
          <5>3. QED
            BY <2>5, <5>1, <5>2 DEF Kinds
        <4>3. QED
          BY <1>3, <4>1, <4>2
      <3>3. CASE Sends /\ Starts /\ Current.data % 2 = 1
        <4>1. Offering(1)
          BY <2>3, <3>3 DEF Answered
        <4>2. step # 1
          <5>1. step = 1 => Current.data = Device
            BY <1>2, CommandOf
          <5>2. Device % 2 # 1
            BY SizeOfByte
          <5>3. QED
            BY <3>3, <5>1, <5>2
        <4>3. call.op = "read" /\ step = 3
          BY <2>5, <3>3, <4>2 DEF Kinds
        <4>4. ~Starts' /\ ~Sends'
          BY <2>1, <2>6, <4>3
        <4>5. QED
          BY <1>3, <4>1, <4>4
      <3>4. QED
        BY <3>1, <3>2, <3>3
    <2>8. Ready'
      BY <1>3, <1>4, <2>2, <2>3, <2>7 DEF Ready
    <2>9. QED
      BY <2>1, <2>2, <2>8
  <1>8. QED
    BY <1>6, <1>7

(* The answer to a command: the call is given up, goes on or is done. *)
LEMMA Answers ==
  ASSUME Divisor >= 1, Known, BitInv, NEW acc, CycleWith(acc), at \in {"status2", "get2"},
         InterruptInv'
  PROVE  \/ /\ at' = "abort" /\ result' = "none" /\ Off' /\ Len(seen') <= Size + 6
         \/ /\ at' = "before" /\ result' = "none"
            /\ Ready' /\ ReadSoFar'
         \/ /\ at' = "ready" /\ seen' = Transaction' /\ High' /\ Off'
            /\ Len(seen') <= Size + 6
  <1>1. DriverTick(acc) /\ CommandInv /\ TransferInv
    BY DEF CycleWith, BitInv
  <1>2. /\ at \in Sending \union Polling /\ InScript /\ device.ack \in Bit
    <2>1. at \in Sending \union Polling
      BY DEF Polling
    <2>2. QED
      BY <2>1 DEF Known, InterruptInv, InScript, TypeInv, DeviceInv
  <1>3. /\ at = "status2" => Sends /\ (HasBit(readdata, LAR_BIT) <=> device.ack = 1)
        /\ at = "get2" => ~Sends /\ readdata = i_dout
        /\ After /\ result = "none"
    BY <1>1, <1>2 DEF CommandInv, TransferInv
  <1>4. CASE at = "status2" /\ HasBit(readdata, LAR_BIT) /\ at' = "abort" /\ result' = result
    <2>1. Off
      BY <1>3, <1>4 DEF After, Answered
    <2>2. Still
      BY <1>4, Standing
    <2>3. Len(Closed) <= Size + 6
      BY <1>1, <1>2, Counted, LogBound DEF Known
    <2>4. seen' = Closed
      BY <1>3, <2>2 DEF Still, After
    <2>5. QED
      BY <1>3, <1>4, <2>1, <2>2, <2>3, <2>4, StillDevice
  <1>5. CASE at = "status2" /\ ~HasBit(readdata, LAR_BIT) /\ Advance /\ value' = value
    <2>1. Sends /\ device.ack = 0
      BY <1>2, <1>3, <1>5 DEF Bit
    <2>2. value' = IF Sends THEN value ELSE Append(value, i_dout)
      BY <1>5, <2>1
    <2>3. QED
      BY <1>5, <2>1, <2>2, Advances
  <1>6. CASE at = "get2" /\ Advance /\ value' = Append(value, readdata)
    <2>1. ~Sends /\ value' = IF Sends THEN value ELSE Append(value, i_dout)
      BY <1>3, <1>6
    <2>2. QED
      BY <1>6, <2>1, Advances
  <1>7. QED
    BY <1>1, <1>4, <1>5, <1>6, Decides

LEMMA CommandInvCycle ==
  ASSUME Divisor >= 1, Known, BitInv, NEW acc, CycleWith(acc), InterruptInv'
  PROVE  CommandInv'
  <1>1. DriverTick(acc) /\ CommandInv /\ ControlTypeOK /\ HandshakeInv
    BY DEF CycleWith, BitInv, Known
  <1>2. CASE at \in {"status2", "get2"}
    <2>1. \/ at' \in {"abort", "ready"} /\ (at' = "abort" => result' = "none")
          \/ at' = "before" /\ result' = "none" /\ ReadSoFar'
      BY <1>2, Answers
    <2>2. CASE at' \in {"abort", "ready"} /\ (at' = "abort" => result' = "none")
      BY <2>2 DEF CommandInv, Sending, Polling
    <2>3. CASE at' = "before" /\ result' = "none" /\ ReadSoFar'
      BY <2>3 DEF CommandInv, ReadSoFar
    <2>4. QED
      BY <2>1, <2>2, <2>3
  <1>3. CASE at = "ready"
    <2>1. \/ at' = "ready"
          \/ at' \in {"before", "clear"} /\ step' = 1 /\ value' = <<>> /\ result' = "none"
      BY <1>1, <1>3, Proceeds
    <2>2. Len(<<>>) = 0
      OBVIOUS
    <2>3. QED
      BY <2>1, <2>2 DEF CommandInv, Sending, Polling
  <1>4. CASE at \in {"abort", "init", "clear", "configure"}
    <2>1. result = "none"
      BY <1>1, <1>4 DEF CommandInv
    <2>2. at' = "ready" \/ (at' \in {"abort", "init", "clear", "configure"} /\ result' = "none")
      BY <1>1, <1>4, <2>1, Proceeds
    <2>3. QED
      BY <2>2 DEF CommandInv, Sending, Polling
  <1>5. ASSUME at \in (Sending \union Polling) \ {"status2", "get2"}
        PROVE  /\ Len(value') = IF step' <= 3 \/ call'.op = "write" THEN 0 ELSE step' - 4
               /\ result' = "none"
               /\ Current' = Current
               /\ Sends' <=> Sends
    <2>1. at \notin {"status2", "get2", "ready", "abort"}
      BY <1>5 DEF Sending, Polling
    <2>2. call' = call /\ step' = step /\ value' = value /\ result' = result
      BY <1>1, <2>1, Proceeds
    <2>3. QED
      BY <1>1, <1>5, <2>2, StandsStill DEF CommandInv
  <1>6. CASE at \in Sending
    <2>1. /\ Len(value') = IF step' <= 3 \/ call'.op = "write" THEN 0 ELSE step' - 4
          /\ result' = "none"
          /\ Current' = Current
          /\ Sends' <=> Sends
      BY <1>5, <1>6 DEF Sending
    <2>2. /\ at = "data" /\ acc = Access => i_data_in' = Current.data
          /\ at = "control" /\ acc = Access =>
               /\ i_data_in' = i_data_in /\ i_ack_reg' = Current.control % 2
               /\ cmd' = Command(Current.control)
          /\ acc = NoAccess => i_data_in' = i_data_in
      BY <1>1, <1>6, Programs DEF Sending
    <2>3. \/ at' \in {"before", "before2"}
          \/ at' = "data" /\ Sends
          \/ at' = "control" /\ (Sends => i_data_in' = Current.data)
          \/ at' = "after" /\ (Sends => i_data_in' = Current.data)
             /\ i_ack_reg' = Current.control % 2 /\ cmd' = Command(Current.control)
      <3>1. CASE at \in {"before", "before2"}
        <4>1. \/ at' \in {"before", "before2"}
              \/ at' = (IF Sends THEN "data" ELSE "control")
          BY <1>1, <3>1, Proceeds
        <4>2. QED
          BY <4>1
      <3>2. CASE at = "data"
        <4>1. (acc = NoAccess /\ at' = "data") \/ (acc = Access /\ at' = "control")
          BY <1>1, <3>2, Proceeds
        <4>2. Sends
          BY <1>1, <3>2 DEF CommandInv
        <4>3. QED
          BY <2>2, <3>2, <4>1, <4>2
      <3>3. CASE at = "control"
        <4>1. (acc = NoAccess /\ at' = "control") \/ (acc = Access /\ at' = "after")
          BY <1>1, <3>3, Proceeds
        <4>2. Sends => i_data_in = Current.data
          BY <1>1, <3>3 DEF CommandInv
        <4>3. QED
          BY <2>2, <3>3, <4>1, <4>2
      <3>4. QED
        BY <1>6, <3>1, <3>2, <3>3 DEF Sending
    <2>4. QED
      BY <2>1, <2>3 DEF CommandInv
  <1>7. CASE at \in {"after", "after2"}
    <2>1. /\ Len(value') = IF step' <= 3 \/ call'.op = "write" THEN 0 ELSE step' - 4
          /\ result' = "none"
          /\ Current' = Current
          /\ Sends' <=> Sends
      BY <1>5, <1>7 DEF Polling
    <2>2. /\ i_data_in' = i_data_in /\ i_ack_reg' = i_ack_reg
          /\ TIP' => TIP /\ cmd' = cmd
      BY <1>1, <1>7, Keeps
    <2>3. /\ Sends => i_data_in = Current.data
          /\ i_ack_reg = Current.control % 2
          /\ TIP => cmd = Command(Current.control)
      BY <1>1, <1>7 DEF CommandInv
    <2>4. at' \in {"after", "after2"} \/ at' = (IF Sends THEN "status" ELSE "get")
      BY <1>1, <1>7, Proceeds
    <2>5. CASE at' \in {"after", "after2"}
      BY <2>1, <2>2, <2>3, <2>5 DEF CommandInv
    <2>6. CASE at' = (IF Sends THEN "status" ELSE "get")
      BY <2>1, <2>6 DEF CommandInv
    <2>7. QED
      BY <2>4, <2>5, <2>6
  <1>8. CASE at \in {"status", "get"}
    <2>1. /\ Len(value') = IF step' <= 3 \/ call'.op = "write" THEN 0 ELSE step' - 4
          /\ result' = "none"
          /\ Sends' <=> Sends
      BY <1>5, <1>8 DEF Polling
    <2>2. /\ at = "status" => Sends
          /\ at = "get" => ~Sends
      BY <1>1 DEF CommandInv
    <2>3. (Sends /\ at' \in {"status", "status2"}) \/ (~Sends /\ at' \in {"get", "get2"})
      BY <1>1, <1>8, <2>2, Proceeds
    <2>4. QED
      BY <2>1, <2>3 DEF CommandInv
  <1>9. QED
    BY <1>1, <1>2, <1>3, <1>4, <1>6, <1>7, <1>8 DEF ControlTypeOK, Points, Sending

(* A command that has just been given is ready to begin. *)
LEMMA Given == p_state = "Idle" /\ TIP /\ Ready => InCommand
  BY DEF StartStages, WriteStages, ReadStages, StopStages, InCommand

LEMMA NextGiven == p_state' = "Idle" /\ TIP' /\ Ready' => InCommand'
  <1>1. (p_state = "Idle" /\ TIP /\ Ready => InCommand)'
    BY Given, PTL
  <1>2. QED
    BY <1>1

(* A call begins with the START. *)
LEMMA FirstCommand ==
  ASSUME InScript', step' = 1, seen' = <<>>, Off' \/ Waiting'
  PROVE  Ready'
  <1>1. Kinds'
    BY NextKinds
  <1>2. Starts' /\ Prior' = <<>>
    BY <1>1 DEF Kinds
  <1>3. QED
    BY <1>2 DEF Ready

(* What the program reads of the command that is over. *)
LEMMA ReadsAnswer ==
  ASSUME Known, Outputs, NEW acc, CycleWith(acc), at \in {"status", "get"}, acc = Access
  PROVE  /\ at = "status" => (HasBit(readdata', LAR_BIT) <=> i_ack_out = 1)
         /\ at = "get" => readdata' = i_dout
  <1>1. p_state = "Idle" /\ ack_out \in Bit /\ busy \in BOOLEAN
    BY DEF Known, HandshakeInv, Quiet, ControlTypeOK
  <1>2. ack_out = i_ack_out /\ data_out = i_dout
    BY <1>1 DEF Outputs
  <1>3. readdata' = CASE acc = Read("DR") -> data_out
                      [] acc = Read("CR") -> ControlRegister
                      [] acc = Read("SR") -> StatusRegister(ack_out, busy)
                      [] acc = Read("CD") -> i_clkdiv_reg
                      [] OTHER -> readdata
    BY DEF CycleWith, InterfaceTick, ReadRegister
  <1>4. /\ Read("DR") # Read("CR") /\ Read("DR") # Read("SR") /\ Read("DR") # Read("CD")
        /\ Read("SR") # Read("CR") /\ Read("SR") # Read("CD")
    BY DEF Read
  <1>5. ASSUME at = "status"
        PROVE  HasBit(readdata', LAR_BIT) <=> i_ack_out = 1
    <2>1. acc = Read("SR")
      BY <1>5, AccessAt
    <2>2. readdata' = StatusRegister(ack_out, busy)
      BY <1>3, <1>4, <2>1
    <2>3. HasBit(StatusRegister(ack_out, busy), LAR_BIT) <=> ack_out = 1
      BY <1>1 DEF Bit, StatusRegister, HasBit, Flag, LAR_BIT, BSY_BIT, IPE_BIT, TIP_BIT
    <2>4. QED
      BY <1>2, <2>2, <2>3
  <1>6. ASSUME at = "get"
        PROVE  readdata' = i_dout
    <2>1. acc = Read("DR")
      BY <1>6 DEF Access
    <2>2. QED
      BY <1>2, <1>3, <1>4, <2>1
  <1>7. QED
    BY <1>5, <1>6

LEMMA TransferCycle ==
  ASSUME Divisor >= 1, Known, BitInv, NEW acc, CycleWith(acc), InterruptInv'
  PROVE  TransferInv'
  <1>1. DriverTick(acc) /\ CommandInv /\ TransferInv /\ ControlTypeOK /\ HandshakeInv
    BY DEF CycleWith, BitInv, Known
  <1>2. CASE at \in {"status2", "get2"}
    <2>1. \/ at' = "abort" /\ Off' /\ Len(seen') <= Size + 6
          \/ at' = "before" /\ Ready'
          \/ at' = "ready" /\ seen' = Transaction' /\ High' /\ Off' /\ Len(seen') <= Size + 6
      BY <1>2, Answers
    <2>2. QED
      BY <2>1 DEF TransferInv, Sending, Polling
  <1>3. CASE at = "ready" /\ calls' # calls
    <2>1. at' \in {"before", "clear"} /\ step' = 1 /\ result' = "none"
      BY <1>1, <1>3, Proceeds
    <2>2. device' = device /\ seen' = <<>>
      BY <1>3, Standing
    <2>3. Off' \/ Waiting'
      <3>1. Off \/ Waiting
        BY <1>1, <1>3 DEF TransferInv, Sending, Polling
      <3>2. QED
        BY <2>2, <3>1 DEF Off, Waiting
    <2>4. Len(seen') <= Size + 6
      <3>1. Len(<<>>) = 0
        OBVIOUS
      <3>2. QED
        BY <2>2, <3>1, SizeOfByte
    <2>5. CASE at' = "before"
      <3>1. InScript'
        BY <2>5 DEF InterruptInv, InScript, Sending
      <3>2. Ready'
        BY <2>1, <2>2, <2>3, <3>1, FirstCommand
      <3>3. QED
        BY <2>5, <3>2 DEF TransferInv, Sending, Polling
    <2>6. CASE at' = "clear"
      BY <2>3, <2>4, <2>6 DEF TransferInv, Sending, Polling
    <2>7. QED
      BY <2>1, <2>5, <2>6
  <1>4. CASE at = "ready" /\ calls' = calls
    <2>1. at' = "ready" /\ UNCHANGED <<call, step, value, result, calls>>
      <3>1. calls + 1 # calls
        BY DEF Known, TypeInv
      <3>2. QED
        BY <1>1, <1>4, <3>1, Proceeds
    <2>2. Still
      BY <1>4, Standing
    <2>3. (Off \/ Waiting) /\ Len(seen) <= Size + 6
          /\ (result = "SUCCESS" => seen = Transaction /\ High)
      BY <1>1, <1>4 DEF TransferInv, Sending, Polling
    <2>4. Transaction' = Transaction
      BY <2>1 DEF Transaction
    <2>5. QED
      BY <2>1, <2>2, <2>3, <2>4, StillDevice DEF Still, TransferInv, Sending, Polling
  <1>5. CASE at \in {"init", "clear", "configure", "abort"}
    <2>1. /\ at' \in {"init", "clear", "configure", "abort", "ready"}
          /\ at' = "ready" => result' # "SUCCESS"
      <3>1. result = "none"
        BY <1>1, <1>5 DEF CommandInv
      <3>2. QED
        BY <1>1, <1>5, <3>1, Proceeds
    <2>2. Still
      BY <1>5, Standing
    <2>3. (Off \/ Waiting) /\ Len(seen) <= Size + 6
      BY <1>1, <1>5 DEF TransferInv, Sending, Polling
    <2>4. QED
      BY <2>1, <2>2, <2>3, StillDevice DEF Still, TransferInv, Sending, Polling
  <1>6. ASSUME at \in Sending \union {"status", "get"}
        PROVE  Still /\ p_state' = "Idle" /\ (Ready => Ready') /\ (After => After')
    <2>1. at \notin {"status2", "get2", "ready", "abort", "after", "after2", "init"}
      BY <1>6 DEF Sending
    <2>2. call' = call /\ step' = step /\ value' = value
      BY <1>1, <2>1, Proceeds
    <2>3. Still /\ p_state' = "Idle"
      BY <2>1, Standing
    <2>4. QED
      BY <2>2, <2>3, StillCommand
  <1>7. CASE at \in Sending
    <2>1. Ready' /\ p_state' = "Idle"
      BY <1>1, <1>6, <1>7 DEF TransferInv
    <2>2. at' \in Sending \/ (at = "control" /\ acc = Access /\ at' = "after")
      BY <1>1, <1>7, Proceeds DEF Sending
    <2>3. CASE at' \in Sending
      BY <2>1, <2>3 DEF TransferInv, Sending, Polling
    <2>4. CASE at = "control" /\ acc = Access /\ at' = "after"
      <3>1. cmd' = Command(Current.control)
        BY <1>1, <2>4, Programs
      <3>2. InScript
        BY <2>4 DEF Known, InterruptInv, InScript, Sending
      <3>3. HasBit(Current.control, RD) <=> ~Sends
        BY <3>2, CommandOf
      <3>4. cmd'.read \/ cmd'.write
        BY <3>1, <3>3 DEF Command, Sends
      <3>5. TIP'
        BY <3>4 DEF TIP
      <3>6. InCommand'
        BY <2>1, <3>5, NextGiven
      <3>7. QED
        BY <2>4, <3>6 DEF TransferInv, Sending, Polling
    <2>5. QED
      BY <2>2, <2>3, <2>4
  <1>8. CASE at \in {"after", "after2"}
    <2>1. InCommand'
      BY <1>8, CommandCycle
    <2>2. CASE at' \in {"after", "after2"}
      BY <2>1, <2>2 DEF TransferInv, Sending, Polling
    <2>3. CASE at' \notin {"after", "after2"}
      <3>1. at = "after2" /\ ~HasBit(readdata, TIP_BIT) /\ at' \in {"status", "get"}
        BY <1>1, <1>8, <2>3, Proceeds
      <3>2. ~TIP /\ p_state = "Idle"
        BY <1>1, <3>1 DEF HandshakeInv, Over
      <3>3. After'
        BY <1>8, <3>2, EndCycle
      <3>4. QED
        BY <3>1, <3>3 DEF TransferInv, Sending, Polling
    <2>4. QED
      BY <2>2, <2>3
  <1>9. CASE at \in {"status", "get"}
    <2>1. After /\ After' /\ Still
      BY <1>1, <1>6, <1>9 DEF TransferInv
    <2>2. CASE acc = NoAccess /\ at' = at
      BY <1>9, <2>1, <2>2 DEF TransferInv, Sending, Polling
    <2>3. CASE acc = Access /\ at = "status" /\ at' = "status2"
      <3>1. Sends /\ i_ack_out = device.ack
        BY <1>1, <2>1, <2>3 DEF CommandInv, After
      <3>2. HasBit(readdata', LAR_BIT) <=> i_ack_out = 1
        BY <2>3, ReadsAnswer DEF BitInv
      <3>3. HasBit(readdata, LAR_BIT)' <=> device'.ack = 1
        BY <2>1, <3>1, <3>2 DEF Still, HasBit, LAR_BIT
      <3>4. QED
        BY <2>1, <2>3, <3>3 DEF TransferInv, Sending, Polling
    <2>4. CASE acc = Access /\ at = "get" /\ at' = "get2"
      <3>1. readdata' = i_dout /\ i_dout' = i_dout
        BY <2>1, <2>4, ReadsAnswer DEF BitInv, Still
      <3>2. QED
        BY <2>1, <2>4, <3>1 DEF TransferInv, Sending, Polling
    <2>5. QED
      BY <1>1, <1>9, <2>2, <2>3, <2>4, Proceeds
  <1>10. QED
    BY <1>1, <1>2, <1>3, <1>4, <1>5, <1>7, <1>8, <1>9 DEF ControlTypeOK, Points, Sending

-----------------------------------------------------------------------------
(* The invariant of a run. *)

RunInv == Known /\ BitInv

LEMMA RunCycle ==
  ASSUME Divisor >= 1, RunInv, NEW acc, CycleWith(acc)
  PROVE  RunInv'
  <1>1. Known /\ BitInv
    BY DEF RunInv
  <1>2. ControlTypeOK' /\ HandshakeInv' /\ InterruptInv' /\ LineInv' /\ TypeInv'
    BY <1>1, ControlTypeCycle, HandshakeCycle, InterruptCycle, LineCycle, TypeCycle
    DEF Known, BitInv
  <1>3. ClockStages' /\ DataStages' /\ Outputs'
    BY <1>1, ClockCycleStages, DataCycle, OutputCycle
  <1>4. CommandInv' /\ TransferInv'
    BY <1>1, <1>2, CommandInvCycle, TransferCycle
  <1>5. QED
    BY <1>2, <1>3, <1>4 DEF RunInv, Known, BitInv

(* At rest. *)
LEMMA AtStart ==
  ASSUME p_state = "Reset", at = "init", result = "none", device = Silent, seen = <<>>,
         scl_out = 1, sda_out = 1, scl_in = 1, sda_in = 1,
         ack_out = i_ack_out, data_out = i_dout
  PROVE  BitInv
  <1>1. device.sda = 1 /\ device.mode = "off"
    BY DEF Silent
  <1>2. Off
    BY <1>1 DEF Off
  <1>3. Len(seen) <= Size + 6
    <2>1. Len(<<>>) = 0
      OBVIOUS
    <2>2. QED
      BY <2>1, SizeOfByte
  <1>4. TransferInv
    BY <1>2, <1>3 DEF TransferInv, Sending, Polling
  <1>5. CommandInv
    BY DEF CommandInv, Sending, Polling
  <1>6. ClockStages
    BY DEF ClockStages, High, Low
  <1>7. DataStages
    BY <1>1 DEF DataStages, sda
  <1>8. Outputs
    BY DEF Outputs
  <1>9. QED
    BY <1>4, <1>5, <1>6, <1>7, <1>8 DEF BitInv

LEMMA NextAtStart ==
  (/\ p_state = "Reset" /\ at = "init" /\ result = "none" /\ device = Silent /\ seen = <<>>
   /\ scl_out = 1 /\ sda_out = 1 /\ scl_in = 1 /\ sda_in = 1
   /\ ack_out = i_ack_out /\ data_out = i_dout)' => BitInv'
  <1>1. /\ p_state = "Reset" /\ at = "init" /\ result = "none" /\ device = Silent /\ seen = <<>>
        /\ scl_out = 1 /\ sda_out = 1 /\ scl_in = 1 /\ sda_in = 1
        /\ ack_out = i_ack_out /\ data_out = i_dout
        => BitInv
    BY AtStart
  <1>2. QED
    BY <1>1, PTL

LEMMA TypesAtStart ==
  /\ Init => TypeInv
  /\ Reset => TypeInv'
  <1>1. /\ Silent.mode = "off" /\ Silent.first = FALSE /\ Silent.count = 0 /\ Silent.byte = 0
        /\ Silent.ack = 0 /\ Silent.sda = 1
    BY DEF Silent
  <1>2. device = Silent => DeviceInv
    <2> SUFFICES ASSUME device = Silent PROVE DeviceInv
      OBVIOUS
    <2>1. device.mode # "receive" /\ device.mode = "off" /\ device.first = FALSE
      BY <1>1
    <2>2. device.count \in 0..9 /\ device.byte \in 0..255
      BY <1>1
    <2>3. device.ack \in {0, 1} /\ device.sda \in {0, 1}
      BY <1>1
    <2>4. QED
      BY <2>1, <2>2, <2>3 DEF DeviceInv, Byte, Bit
  <1>3. device' = Silent => DeviceInv'
    <2>1. (device = Silent => DeviceInv)'
      BY <1>2, PTL
    <2>2. QED
      BY <2>1 DEF Silent
  <1>4. <<>> \in Seq(Byte) /\ Len(<<>>) = 0
    OBVIOUS
  <1>5. 1 \in 1..3 + Size /\ 0 <= Size /\ 0 \in 0..MaxCalls /\ ResetDivisor \in 0..255
    BY SizeOfByte, DriverAssumption, DivisorAssumption
  <1>6. ASSUME Init PROVE TypeInv
    <2>1. ClkgenTypeOK
      BY <1>6 DEF Init, ClkgenInit, ClkgenTypeOK
    <2>2. CoreTypeOK
      <3>1. /\ i_ctr \in 0..7 /\ i_dout \in Byte /\ data_out \in Byte
            /\ scl_out \in Bit /\ sda_out \in Bit
        BY <1>6 DEF Init, CoreInit, Bit, Byte
      <3>2. ControlTypeOK
        BY <1>6, ControlTypeInit
      <3>3. QED
        BY <3>1, <3>2 DEF ControlTypeOK, States, CoreTypeOK
    <2>3. InterfaceTypeOK
      <3>1. /\ i_data_in \in 0..255 /\ i_clkdiv_reg \in 0..255 /\ i_ack_reg \in {0, 1}
            /\ readdata \in 0..255
        BY <1>5, <1>6 DEF Init, InterfaceInit
      <3>2. ControlTypeOK
        BY <1>6, ControlTypeInit
      <3>3. QED
        BY <3>1, <3>2 DEF ControlTypeOK, CommandType, InterfaceTypeOK
    <2>4. step = 1 /\ value = <<>> /\ result = "none" /\ calls = 0
          /\ scl_in = 1 /\ sda_in = 1 /\ device = Silent
      BY <1>6 DEF Init, DriverInit
    <2>5. QED
      BY <1>2, <1>4, <1>5, <2>1, <2>2, <2>3, <2>4 DEF TypeInv, Bit
  <1>7. ASSUME Reset PROVE TypeInv'
    <2>1. ClkgenTypeOK'
      BY <1>7 DEF Reset, ClkgenReset, ClkgenTypeOK
    <2>2. CoreTypeOK'
      <3>1. /\ i_ctr' \in 0..7 /\ i_dout' \in Byte /\ data_out' \in Byte
            /\ scl_out' \in Bit /\ sda_out' \in Bit
        BY <1>7 DEF Reset, CoreReset, Bit, Byte
      <3>2. ControlTypeOK'
        BY <1>7, ControlTypeReset
      <3>3. QED
        BY <3>1, <3>2 DEF ControlTypeOK, States, CoreTypeOK
    <2>3. InterfaceTypeOK'
      <3>1. /\ i_data_in' \in 0..255 /\ i_clkdiv_reg' \in 0..255 /\ i_ack_reg' \in {0, 1}
            /\ readdata' \in 0..255
        BY <1>5, <1>7 DEF Reset, InterfaceReset
      <3>2. ControlTypeOK'
        BY <1>7, ControlTypeReset
      <3>3. QED
        BY <3>1, <3>2 DEF ControlTypeOK, CommandType, InterfaceTypeOK
    <2>4. step' = 1 /\ value' = <<>> /\ result' = "none" /\ calls' = 0
          /\ scl_in' = 1 /\ sda_in' = 1 /\ device' = Silent
      BY <1>7 DEF Reset, DriverReset
    <2>5. QED
      BY <1>3, <1>4, <1>5, <2>1, <2>2, <2>3, <2>4 DEF TypeInv, Bit
  <1>8. QED
    BY <1>6, <1>7

(* A step in which nothing happens. *)
LEMMA Stutters ==
  ASSUME UNCHANGED vars
  PROVE  /\ TypeInv => TypeInv'
         /\ BitInv => BitInv'
  <1>1. UNCHANGED <<clk_ctr, sclk>>
    BY DEF vars, clkgenVars
  <1>2. UNCHANGED <<p_state, i_ctr, i_dout, i_ack_out, scl_out, sda_out, data_out, ack_out, busy, cmd_done>>
    BY DEF vars, coreVars
  <1>3. UNCHANGED <<i_data_in, i_clkdiv_reg, i_ack_reg, cmd, i_cmd_done_ack, i_int_en_reg,
                    i_int_pe_reg, readdata, irq>>
    BY DEF vars, interfaceVars
  <1>4. UNCHANGED <<at, call, step, value, result, calls>>
    BY DEF vars, driverVars
  <1>5. UNCHANGED <<scl_in, sda_in, device, seen>>
    BY DEF vars
  <1>6. TypeInv => TypeInv'
    <2>1. DeviceInv => DeviceInv'
      BY <1>5 DEF DeviceInv
    <2>2. /\ ClkgenTypeOK => ClkgenTypeOK'
          /\ CoreTypeOK => CoreTypeOK'
          /\ InterfaceTypeOK => InterfaceTypeOK'
      BY <1>1, <1>2, <1>3 DEF ClkgenTypeOK, CoreTypeOK, InterfaceTypeOK
    <2>3. QED
      BY <1>4, <1>5, <2>1, <2>2 DEF TypeInv
  <1>7. /\ ClockStages => ClockStages'
        /\ DataStages => DataStages'
        /\ Outputs => Outputs'
    <2>1. sda' = sda
      BY <1>2, <1>5 DEF sda
    <2>2. QED
      BY <1>1, <1>2, <1>5, <2>1 DEF ClockStages, DataStages, Outputs, High, Low
  <1>8. /\ Current' = Current /\ Prior' = Prior /\ Opened' = Opened /\ Logged' = Logged
        /\ Closed' = Closed /\ Transaction' = Transaction
    BY <1>2, <1>4, StandsStill DEF Transaction
  <1>9. /\ Starts' <=> Starts
        /\ Sends' <=> Sends
        /\ Stops' <=> Stops
        /\ TIP' <=> TIP
    BY <1>2, <1>3, <1>4, StandsStill DEF TIP
  <1>10. CommandInv => CommandInv'
    BY <1>2, <1>3, <1>4, <1>8, <1>9 DEF CommandInv
  <1>11. /\ Off' <=> Off
         /\ Waiting' <=> Waiting
         /\ Loose' <=> Loose
         /\ Acknowledging' <=> Acknowledging
         /\ Released' <=> Released
         /\ High' <=> High
         /\ Low' <=> Low
         /\ \A k : Receiving(k)' <=> Receiving(k)
         /\ \A k : Offering(k)' <=> Offering(k)
         /\ \A k : Agree(k)' <=> Agree(k)
    BY <1>2, <1>5, <1>8, <1>9
    DEF Off, Waiting, Loose, Acknowledging, Released, High, Low, Receiving, Offering, Agree
  <1>12. Answered' <=> Answered
    BY <1>5, <1>8, <1>9, <1>11 DEF Answered
  <1>13. /\ Ready' <=> Ready
         /\ After' <=> After
    BY <1>2, <1>5, <1>8, <1>9, <1>11, <1>12 DEF Ready, After
  <1>14. StartStages => StartStages'
    BY <1>2, <1>5, <1>8, <1>9, <1>11 DEF StartStages, Loose, Off, Waiting, Receiving
  <1>15. WriteStages => WriteStages'
    BY <1>2, <1>5, <1>8, <1>9, <1>11, <1>12
    DEF WriteStages, Receiving, Acknowledging
  <1>16. ReadStages => ReadStages'
    BY <1>2, <1>3, <1>5, <1>8, <1>9, <1>11 DEF ReadStages, Offering, Agree
  <1>17. StopStages => StopStages'
    BY <1>2, <1>5, <1>8, <1>9, <1>11 DEF StopStages
  <1>18. InCommand => InCommand'
    BY <1>2, <1>9, <1>13, <1>14, <1>15, <1>16, <1>17 DEF InCommand
  <1>19. TransferInv => TransferInv'
    BY <1>2, <1>3, <1>4, <1>5, <1>8, <1>11, <1>13, <1>18 DEF TransferInv
  <1>20. QED
    BY <1>6, <1>7, <1>10, <1>19 DEF BitInv

LEMMA RunStep ==
  ASSUME Divisor >= 1, ResetDivisor >= 1
  PROVE  RunInv /\ [Next]_vars => RunInv'
  <1> SUFFICES ASSUME RunInv, [Next]_vars PROVE RunInv'
    OBVIOUS
  <1>1. Known /\ BitInv
    BY DEF RunInv
  <1>2. ControlTypeOK' /\ HandshakeInv' /\ InterruptInv' /\ LineInv'
    BY <1>1, HandshakeStep, InterruptStep, LineStep DEF Known
  <1>3. CASE Cycle
    BY <1>3, RunCycle DEF Cycle
  <1>4. CASE Reset
    <2>1. TypeInv'
      BY <1>4, TypesAtStart
    <2>2. BitInv'
      BY <1>4, NextAtStart DEF Reset, CoreReset, DriverReset
    <2>3. QED
      BY <1>2, <2>1, <2>2 DEF RunInv, Known
  <1>5. CASE UNCHANGED vars
    <2>1. TypeInv' /\ BitInv'
      BY <1>1, <1>5, Stutters DEF Known
    <2>2. QED
      BY <1>2, <2>1 DEF RunInv, Known
  <1>6. QED
    BY <1>3, <1>4, <1>5 DEF Next

LEMMA RunInit ==
  ASSUME ResetDivisor >= 1
  PROVE  Init => RunInv
  <1> SUFFICES ASSUME Init PROVE RunInv
    OBVIOUS
  <1>1. InterruptInv
    BY DEF Init, DriverInit, InterruptInv, Sending, Polling
  <1>2. BitInv
    BY AtStart DEF Init, CoreInit, DriverInit
  <1>3. QED
    BY <1>1, <1>2, HandshakeInit, LineInit, TypesAtStart DEF RunInv, Known

LEMMA RunSafety ==
  ASSUME Divisor >= 1, ResetDivisor >= 1
  PROVE  Spec => []RunInv
  BY RunInit, RunStep, PTL DEF Spec

(* No more is seen on the bus than a call puts there. *)
LEMMA SeenBound ==
  ASSUME RunInv
  PROVE  Len(seen) <= Size + 6
  <1>1. Known /\ CommandInv /\ TransferInv
    BY DEF RunInv, BitInv
  <1>2. CASE at \in Sending \union Polling
    <2>1. InScript /\ ReadSoFar /\ i_dout \in Int
      BY <1>1, <1>2, Counted DEF Known, InterruptInv, InScript
    <2>2. /\ Len(Prior) <= Size + 6 /\ Len(Opened) <= Size + 6
          /\ Len(Logged) <= Size + 6 /\ Len(Closed) <= Size + 6
      BY <2>1, LogBound
    <2>3. Ready => seen = Prior
      BY DEF Ready
    <2>4. After => seen = Closed
      BY DEF After
    <2>5. CASE at \in {"after", "after2"}
      <3>1. InCommand
        BY <1>1, <2>5 DEF TransferInv
      <3>2. p_state \in States \ {"Reset"}
        BY <1>1, <2>5 DEF Known, ControlTypeOK, HandshakeInv, Handshake, Over, Working
      <3>3. seen \in {Prior, Opened, Logged, Closed}
        <4>1. p_state \in StartStates => seen \in {Prior, Opened}
          BY <3>1 DEF InCommand, StartStages, StartStates
        <4>2. p_state \in WriteStates => seen \in {Opened, Logged}
          BY <3>1 DEF InCommand, WriteStages, WriteStates
        <4>3. p_state \in ReadStates => seen \in {Opened, Logged}
          BY <3>1 DEF InCommand, ReadStages, ReadStates
        <4>4. p_state \in StopStates => seen \in {Logged, Closed}
          BY <3>1 DEF InCommand, StopStages, StopStates
        <4>5. p_state \in {"Idle", "Done", "DoneAck"} => seen \in {Prior, Closed}
          BY <2>3, <2>4, <3>1 DEF InCommand
        <4>6. QED
          BY <3>2, <4>1, <4>2, <4>3, <4>4, <4>5
          DEF States, Paced, Unpaced, StartStates, WriteStates, ReadStates, StopStates
      <3>4. QED
        BY <2>2, <3>3
    <2>6. CASE at \in {"status", "status2", "get", "get2"}
      BY <1>1, <2>2, <2>4, <2>6 DEF TransferInv
    <2>7. CASE at \in Sending
      BY <1>1, <2>2, <2>3, <2>7 DEF TransferInv
    <2>8. QED
      BY <1>2, <2>5, <2>6, <2>7 DEF Polling
  <1>3. CASE at \notin Sending \union Polling
    BY <1>1, <1>3 DEF TransferInv
  <1>4. QED
    BY <1>2, <1>3

(* Every variable of the master, the driver and the device stays in its    *)
(* type: the bit counter, the index into the script and the bytes received *)
(* never run over, and a call puts no more than its transaction on the bus.*)
THEOREM Typing ==
  ASSUME Divisor >= 1, ResetDivisor >= 1
  PROVE  Spec => []TypeOK
  <1>1. RunInv => TypeOK
    BY SeenBound, TypesOfRun DEF RunInv, Known, LineInv
  <1>2. QED
    BY <1>1, RunSafety, PTL

(* The acknowledgement the program reads after a byte (i2c.c:241) is the   *)
(* one the device gave to that byte.                                       *)
THEOREM AckFresh ==
  ASSUME Divisor >= 1, ResetDivisor >= 1
  PROVE  Spec => []AckIsFresh
  <1>1. ASSUME RunInv, at = "status2"
        PROVE  readdata % 2 = device.ack
    <2>1. readdata \in 0..255 /\ device.ack \in {0, 1}
      BY <1>1 DEF RunInv, Known, TypeInv, InterfaceTypeOK, DeviceInv, Bit
    <2>2. HasBit(readdata, LAR_BIT) <=> device.ack = 1
      BY <1>1 DEF RunInv, BitInv, TransferInv
    <2>3. HasBit(readdata, LAR_BIT) <=> readdata % 2 = 1
      BY <2>1 DEF HasBit, LAR_BIT
    <2>4. QED
      BY <2>1, <2>2, <2>3
  <1>2. RunInv => AckIsFresh
    BY <1>1 DEF AckIsFresh
  <1>3. QED
    BY <1>2, RunSafety, PTL

(* A call that returns SUCCESS (i2c.c:247, 298) has put exactly its        *)
(* transaction on the bus, from the START to the STOP, the bytes a read    *)
(* returns are those the device has sent, and the bus is free again.       *)
THEOREM Delivers ==
  ASSUME Divisor >= 1, ResetDivisor >= 1
  PROVE  Spec => []Delivered
  <1>1. ASSUME RunInv, at = "ready", result = "SUCCESS"
        PROVE  seen = Transaction /\ scl = 1 /\ sda = 1
    <2>1. /\ Off \/ Waiting
          /\ seen = Transaction /\ High
      BY <1>1 DEF RunInv, BitInv, TransferInv, Sending, Polling
    <2>2. p_state = "Idle"
      BY <1>1 DEF RunInv, Known, HandshakeInv, Quiet
    <2>3. Rests
      BY <1>1, <2>2 DEF RunInv, Known, LineInv, Levels
    <2>4. QED
      BY <2>1, <2>3 DEF Off, Waiting, High, Rests, Held, scl
  <1>2. RunInv => Delivered
    BY <1>1 DEF Delivered
  <1>3. QED
    BY <1>2, RunSafety, PTL
=============================================================================

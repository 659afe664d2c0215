---------------------------- MODULE CAM_refinement ----------------------------
(***************************************************************************)
(* Proofs about the frame that goes from the sensor to the memory: which   *)
(* pixels the Bayer FIFO holds, which colors are on their way, and that    *)
(* the controller implements the frame store.                              *)
(***************************************************************************)
EXTENDS CAM_proofs

(* The rows of the sensor that make a line of the Bayer FIFO.              *)
Fold == IF SENSOR_COLUMNS = LineLength THEN 1 ELSE 2

LineCount == SENSOR_ROWS \div Fold

(* The colors of an image.                                                 *)
AllColors == (LineCount \div 2) * ColorsOfLine

(* The images the proofs are about: 480 rows of 640 columns, as            *)
(* camera_init configures them, two rows to a line of 1280 pixels; and     *)
(* rows of a whole line, for which the Bayer FIFO is laid out.  The        *)
(* colors, as often as the master writes each, do not overflow the frame.  *)
(* The counter of pixels ends at x"9FF".                                   *)
Image ==
  /\ BAYER_LINE % 2 = 0
  /\ \/ SENSOR_COLUMNS = LineLength
     \/ SENSOR_COLUMNS = BAYER_LINE /\ BAYER_LINE % 4 = 0
  /\ SENSOR_ROWS % (2 * Fold) = 0
  /\ ROW_END % 4 = 3
  /\ Copies * AllColors <= FRAME_COLORS

LEMMA Sizes ==
  ASSUME Image
  PROVE  /\ BAYER_LINE \in Nat /\ BAYER_LINE > 0 /\ BAYER_LINE = 2 * ColorsOfLine
         /\ ColorsOfLine \in Nat /\ ColorsOfLine > 0
         /\ LineLength \in Nat /\ LineLength = 2 * BAYER_LINE
         /\ SENSOR_COLUMNS \in Nat /\ SENSOR_COLUMNS > 0 /\ SENSOR_COLUMNS % 4 = 0
         /\ \/ Fold = 1 /\ SENSOR_COLUMNS = LineLength
            \/ Fold = 2 /\ SENSOR_COLUMNS = BAYER_LINE
         /\ SENSOR_ROWS \in Nat /\ SENSOR_ROWS > 0 /\ SENSOR_ROWS % 2 = 0
         /\ SENSOR_ROWS = Fold * LineCount
         /\ LineCount \in Nat /\ LineCount > 0 /\ LineCount % 2 = 0
         /\ HBLANK \in Nat /\ HBLANK > 0
         /\ ROW_END \in Nat /\ ROW_END % 4 = 3
  <1>1. /\ BAYER_LINE \in Nat /\ BAYER_LINE > 0 /\ BAYER_LINE % 2 = 0
        /\ LineLength = 2 * BAYER_LINE /\ ColorsOfLine = BAYER_LINE \div 2
        /\ SENSOR_COLUMNS = LineLength \/ (SENSOR_COLUMNS = BAYER_LINE /\ BAYER_LINE % 4 = 0)
        /\ SENSOR_ROWS % (2 * Fold) = 0 /\ ROW_END \in Nat /\ ROW_END % 4 = 3
    BY CtrlAssumption DEF Image, LineLength, ColorsOfLine
  <1>2. /\ BAYER_LINE = 2 * ColorsOfLine /\ ColorsOfLine \in Nat /\ ColorsOfLine > 0
    BY <1>1
  <1>3. \/ Fold = 1 /\ SENSOR_COLUMNS = LineLength
        \/ Fold = 2 /\ SENSOR_COLUMNS = BAYER_LINE
    BY <1>1 DEF Fold
  <1>4. SENSOR_COLUMNS % 4 = 0
    BY <1>1, <1>2, <1>3
  <1>5. /\ SENSOR_ROWS = Fold * LineCount
        /\ LineCount \in Nat /\ LineCount > 0 /\ LineCount % 2 = 0
        /\ SENSOR_ROWS % 2 = 0
    <2>1. CASE Fold = 1
      BY <1>1, <2>1, Bounds DEF LineCount
    <2>2. CASE Fold = 2
      BY <1>1, <2>2, Bounds DEF LineCount
    <2>3. QED
      BY <1>3, <2>1, <2>2
  <1>6. QED
    BY <1>1, <1>2, <1>3, <1>4, <1>5, Bounds

-----------------------------------------------------------------------------
(* Where pixels are in a line and colors in the frame.                     *)
(* How many of the first x pixels are kept, and the place of the i-th      *)
(* pixel kept.                                                             *)
Kept(x) == 2 * (x \div 4) + (IF x % 4 >= 2 THEN (x % 4) - 1 ELSE 0)
KeptPlace(i) == 4 * ((i - 1) \div 2) + ((i - 1) % 2)

LEMMA KeptSteps ==
  ASSUME NEW x \in Nat
  PROVE  /\ Kept(x) \in Nat
         /\ Kept(x + 1) = Kept(x) + (IF x % 4 \in {1, 2} THEN 1 ELSE 0)
         /\ x % 4 \in {1, 2} => KeptPlace(Kept(x) + 1) = x - 1
         /\ x % 4 = 1 => Kept(x) % 2 = 0
         /\ x % 4 = 2 => Kept(x) % 2 = 1
         /\ 2 * Kept(x) <= x + 1
         /\ x < 2 <=> Kept(x) = 0
         /\ x % 4 = 3 <=> 2 * Kept(x) = x + 1
  <1>1. PICK q \in Nat, r \in 0..3 : x = 4 * q + r
    <2>1. x = 4 * (x \div 4) + (x % 4) /\ x \div 4 \in Nat /\ x % 4 \in 0..3
      OBVIOUS
    <2>2. QED
      BY <2>1
  <1>2. x \div 4 = q /\ x % 4 = r
    BY <1>1
  <1>3. Kept(x) = 2 * q + (IF r >= 2 THEN r - 1 ELSE 0)
    BY <1>2 DEF Kept
  <1>4. Kept(x + 1) = IF r = 3 THEN 2 * (q + 1) ELSE 2 * q + (IF r >= 1 THEN r ELSE 0)
    <2>1. /\ r = 3 => (x + 1) \div 4 = q + 1 /\ (x + 1) % 4 = 0
          /\ r # 3 => (x + 1) \div 4 = q /\ (x + 1) % 4 = r + 1
      BY <1>1
    <2>2. QED
      BY <2>1 DEF Kept
  <1>5. r \in {1, 2} => KeptPlace(Kept(x) + 1) = x - 1
    <2>1. CASE r = 1
      <3>1. Kept(x) = 2 * q /\ (2 * q) \div 2 = q /\ (2 * q) % 2 = 0
        BY <1>3, <2>1
      <3>2. (Kept(x) + 1) - 1 = 2 * q
        BY <3>1
      <3>3. QED
        BY <1>1, <2>1, <3>1, <3>2 DEF KeptPlace
    <2>2. CASE r = 2
      <3>1. Kept(x) = 2 * q + 1 /\ (2 * q + 1) \div 2 = q /\ (2 * q + 1) % 2 = 1
        BY <1>3, <2>2
      <3>2. (Kept(x) + 1) - 1 = 2 * q + 1
        BY <3>1
      <3>3. QED
        BY <1>1, <2>2, <3>1, <3>2 DEF KeptPlace
    <2>3. QED
      BY <2>1, <2>2
  <1>6. QED
    BY <1>1, <1>2, <1>3, <1>4, <1>5

LEMMA Quotient ==
  ASSUME NEW q \in Nat, NEW P \in Nat \ {0}, NEW r \in 0..(P - 1)
  PROVE  (q * P + r) \div P = q /\ (q * P + r) % P = r
  <1> DEFINE d == (q * P + r) \div P
             m == (q * P + r) % P
  <1>1. d \in Int /\ m \in 0..(P - 1) /\ q * P + r = P * d + m
    OBVIOUS
  <1> HIDE DEF d, m
  <1>2. ~(d < q)
    <2> SUFFICES ASSUME d < q PROVE FALSE
      OBVIOUS
    <2>1. P * (q - d) >= P /\ P * (q - d) = q * P - P * d
      BY <1>1
    <2>2. QED
      BY <1>1, <2>1
  <1>3. ~(q < d)
    <2> SUFFICES ASSUME q < d PROVE FALSE
      OBVIOUS
    <2>1. P * (d - q) >= P /\ P * (d - q) = P * d - q * P
      BY <1>1
    <2>2. QED
      BY <1>1, <2>1
  <1>4. d = q
    BY <1>1, <1>2, <1>3
  <1>5. P * d = q * P
    BY <1>4
  <1>6. QED
    BY <1>1, <1>4, <1>5 DEF d, m

(* The line the sensor is in and the pixels of it that have come.  A line  *)
(* of two rows has a blank between them, in which nothing comes.           *)
line == row \div Fold
place == (IF row % Fold = 1 THEN SENSOR_COLUMNS ELSE 0)
           + (IF col < SENSOR_COLUMNS THEN col ELSE SENSOR_COLUMNS)

(* The v-th pixel of line l. *)
PixelOf(n, l, v) == PixelAt(n, Fold * l, v)

LEMMA Coordinates ==
  ASSUME Image, row \in 0..SENSOR_ROWS, col \in Nat, row = SENSOR_ROWS => col = 0
  PROVE  /\ line \in Nat /\ line <= LineCount /\ place \in Nat /\ place <= LineLength
         /\ row = SENSOR_ROWS <=> line = LineCount
         /\ row = SENSOR_ROWS => place = 0
         /\ lval => place < LineLength /\ place % 4 = col % 4 /\ line < LineCount
         /\ ~lval /\ row < SENSOR_ROWS =>
              place = LineLength \/ (Fold = 2 /\ place = BAYER_LINE /\ BAYER_LINE % 4 = 0)
         /\ row = SENSOR_ROWS - 1 => line = LineCount - 1
         /\ row = SENSOR_ROWS - 1 /\ col >= SENSOR_COLUMNS => place = LineLength
         /\ row < SENSOR_ROWS - 1 /\ line = LineCount - 1 => Fold = 2 /\ place <= BAYER_LINE
         /\ col = 0 => place % 4 = 0
         /\ col \in 1..SENSOR_COLUMNS => place >= col /\ place % 4 = col % 4
         /\ col > SENSOR_COLUMNS => place >= 4 /\ place % 4 = 0
  <1>1. CASE Fold = 1 /\ SENSOR_COLUMNS = LineLength
    <2>1. /\ line = row /\ LineCount = SENSOR_ROWS /\ row % Fold = 0
          /\ place = IF col < SENSOR_COLUMNS THEN col ELSE SENSOR_COLUMNS
      BY <1>1, Sizes DEF line, place
    <2>2. QED
      BY <1>1, <2>1, Sizes DEF lval, fval
  <1>2. CASE Fold = 2 /\ SENSOR_COLUMNS = BAYER_LINE
    <2>1. /\ line = row \div 2 /\ SENSOR_ROWS = 2 * LineCount
          /\ row = 2 * line + (row % 2) /\ row % 2 \in {0, 1} /\ line \in Nat
      BY <1>2, Sizes DEF line
    <2>2. place = (IF row % 2 = 1 THEN BAYER_LINE ELSE 0)
                    + (IF col < BAYER_LINE THEN col ELSE BAYER_LINE)
      BY <1>2 DEF place
    <2>3. /\ LineLength = 2 * BAYER_LINE /\ BAYER_LINE \in Nat /\ BAYER_LINE >= 4
          /\ BAYER_LINE % 4 = 0 /\ LineCount \in Nat /\ LineCount > 0
      BY <1>2, Sizes
    <2>4. lval <=> row < SENSOR_ROWS /\ col < BAYER_LINE
      BY <1>2 DEF lval, fval
    <2>5. CASE row % 2 = 0
      <3>1. row = 2 * line /\ place = IF col < BAYER_LINE THEN col ELSE BAYER_LINE
        BY <2>1, <2>2, <2>3, <2>5
      <3>2. QED
        BY <1>2, <2>1, <2>3, <2>4, <3>1
    <2>6. CASE row % 2 = 1
      <3>1. /\ row = 2 * line + 1
            /\ place = BAYER_LINE + (IF col < BAYER_LINE THEN col ELSE BAYER_LINE)
        BY <2>1, <2>2, <2>6
      <3>2. col \in Nat => (BAYER_LINE + col) % 4 = col % 4
        BY <2>3
      <3>3. QED
        BY <1>2, <2>1, <2>3, <2>4, <3>1, <3>2
    <2>7. QED
      BY <2>1, <2>5, <2>6
  <1>3. QED
    BY <1>1, <1>2, Sizes

(* A row to sum up: the pixel the sensor sends is that of its line, and a  *)
(* line further down is LineLength pixels on.                              *)
LEMMA PixelsOfLine ==
  ASSUME Image, NEW n \in Nat
  PROVE  /\ row \in 0..SENSOR_ROWS /\ col \in Nat /\ lval =>
              PixelAt(n, row, col) = PixelOf(n, line, place)
         /\ \A l \in Nat, v \in Nat : PixelOf(n, l, v) \in Int
         /\ \A l \in Nat, v \in Nat :
              PixelOf(n, l + 1, v) = PixelOf(n, l, v) + LineLength
  <1> DEFINE c == SENSOR_COLUMNS
             m == n * SENSOR_ROWS
  <1>1. m \in Nat /\ c \in Nat
    BY Sizes
  <1>2. \A y, x : PixelAt(n, y, x) = (m + y) * c + x
    BY DEF PixelAt
  <1>3. /\ \A y \in Nat : (m + y) * c \in Nat
        /\ \A y \in Nat : (m + (y + 1)) * c = (m + y) * c + c
        /\ \A y \in Nat : (m + (y + 2)) * c = (m + y) * c + (c + c)
    <2> HIDE DEF m, c
    <2> QED
      BY <1>1
  <1> HIDE DEF m
  <1>4. CASE Fold = 1 /\ SENSOR_COLUMNS = LineLength
    <2>1. ASSUME row \in 0..SENSOR_ROWS, col \in Nat, lval
          PROVE  PixelAt(n, row, col) = PixelOf(n, line, place)
      BY <1>4, <2>1, Sizes DEF line, place, lval, PixelOf
    <2>2. ASSUME NEW l \in Nat, NEW v \in Nat
          PROVE  PixelOf(n, l, v) = (m + l) * c + v
      BY <1>2, <1>4 DEF PixelOf
    <2>3. ASSUME NEW l \in Nat, NEW v \in Nat
          PROVE  /\ PixelOf(n, l, v) \in Int
                 /\ PixelOf(n, l + 1, v) = PixelOf(n, l, v) + LineLength
      <3> DEFINE p == (m + l) * c
      <3>1. p \in Nat /\ (m + (l + 1)) * c = p + c
        BY <1>3
      <3>2. PixelOf(n, l, v) = p + v /\ PixelOf(n, l + 1, v) = (p + c) + v
        BY <2>2, <3>1
      <3> HIDE DEF p
      <3>3. QED
        BY <1>1, <1>4, <3>1, <3>2
    <2>4. QED
      BY <2>1, <2>3
  <1>5. CASE Fold = 2 /\ SENSOR_COLUMNS = BAYER_LINE
    <2>1. ASSUME row \in 0..SENSOR_ROWS, col \in Nat, lval
          PROVE  PixelAt(n, row, col) = PixelOf(n, line, place)
      <3>1. /\ line = row \div 2 /\ col < c
            /\ place = (IF row % 2 = 1 THEN c ELSE 0) + col
        BY <1>5, <2>1 DEF line, place, lval
      <3>2. PixelOf(n, line, place) = (m + 2 * line) * c + place
        BY <1>2, <1>5 DEF PixelOf
      <3>3. PixelAt(n, row, col) = (m + row) * c + col
        BY <1>2
      <3>4. /\ line \in Nat
            /\ (row % 2 = 0 /\ row = 2 * line) \/ (row % 2 = 1 /\ row = 2 * line + 1)
        BY <2>1, <3>1, Sizes
      <3>5. CASE row % 2 = 0
        BY <3>1, <3>2, <3>3, <3>4, <3>5, <2>1, <1>1, Sizes
      <3>6. CASE row % 2 = 1 /\ row = 2 * line + 1
        <4>1. 2 * line \in Nat
          BY <3>4
        <4>2. (m + row) * c = (m + 2 * line) * c + c /\ (m + 2 * line) * c \in Nat
          BY <1>3, <3>6, <4>1
        <4>3. QED
          BY <1>1, <2>1, <3>1, <3>2, <3>3, <3>6, <4>2
      <3>7. QED
        BY <3>4, <3>5, <3>6
    <2>2. ASSUME NEW l \in Nat, NEW v \in Nat
          PROVE  /\ PixelOf(n, l, v) = (m + 2 * l) * c + v
                 /\ PixelOf(n, l + 1, v) = (m + (2 * l + 2)) * c + v
                 /\ 2 * l \in Nat
      <3>1. 2 * (l + 1) = 2 * l + 2 /\ 2 * l \in Nat
        OBVIOUS
      <3>2. QED
        BY <1>2, <1>5, <3>1 DEF PixelOf
    <2>3. LineLength = c + c
      BY <1>5, Sizes
    <2>4. ASSUME NEW l \in Nat, NEW v \in Nat
          PROVE  /\ PixelOf(n, l, v) \in Int
                 /\ PixelOf(n, l + 1, v) = PixelOf(n, l, v) + LineLength
      <3> DEFINE p == (m + 2 * l) * c
      <3>1. /\ p \in Nat /\ (m + (2 * l + 2)) * c = p + (c + c)
        BY <1>3, <2>2
      <3>2. PixelOf(n, l, v) = p + v /\ PixelOf(n, l + 1, v) = (p + (c + c)) + v
        BY <2>2, <3>1
      <3> HIDE DEF p
      <3>3. QED
        BY <1>1, <2>3, <3>1, <3>2
    <2>5. QED
      BY <2>1, <2>4
  <1>6. QED
    BY <1>4, <1>5, Sizes

(* What a line is, and the colors of the lines before it. *)
Paired == line % 2 = 1
Before(l) == (l \div 2) * ColorsOfLine

LEMMA Lines ==
  ASSUME Image, NEW l \in Nat
  PROVE  /\ Before(l) \in Nat /\ Before(0) = 0 /\ Before(LineCount) = AllColors
         /\ l % 2 = 0 => Before(l + 1) = Before(l)
         /\ l % 2 = 1 => Before(l + 1) = Before(l) + ColorsOfLine
         /\ l < LineCount => Before(l) + ColorsOfLine <= AllColors
         /\ (l < LineCount - 1 /\ l % 2 = 1) => Before(l) + ColorsOfLine < AllColors
         /\ AllColors \in Nat
  <1> DEFINE w == ColorsOfLine
             h == l \div 2
             H == LineCount \div 2
  <1>1. w \in Nat /\ w > 0
    BY Sizes
  <1>2. /\ h \in Nat /\ H \in Nat
        /\ l % 2 = 0 => (l + 1) \div 2 = h
        /\ l % 2 = 1 => (l + 1) \div 2 = h + 1
        /\ l < LineCount => h + 1 <= H
        /\ l < LineCount - 1 /\ l % 2 = 1 => h + 2 <= H
        /\ 0 \div 2 = 0
    BY Sizes
  <1>3. /\ Before(l) = h * w /\ Before(l + 1) = ((l + 1) \div 2) * w
        /\ Before(LineCount) = H * w
        /\ Before(0) = (0 \div 2) * w /\ AllColors = H * w
    BY DEF Before, AllColors
  <1> HIDE DEF w, h, H
  <1>4. /\ h * w \in Nat /\ H * w \in Nat /\ (h + 1) * w = h * w + w /\ 0 * w = 0
        /\ (h + 2) * w = h * w + w + w
    BY <1>1, <1>2
  <1>5. /\ h + 1 <= H => (h + 1) * w <= H * w
        /\ h + 2 <= H => (h + 2) * w <= H * w
    <2>1. \A a \in Nat, b \in Nat : a <= b => a * w <= b * w
      <3> SUFFICES ASSUME NEW a \in Nat, NEW b \in Nat, a <= b PROVE a * w <= b * w
        OBVIOUS
      <3>1. PICK c \in Nat : b = a + c
        BY b - a \in Nat
      <3>2. c * w \in Nat /\ a * w \in Nat /\ (a + c) * w = a * w + c * w
        BY <1>1
      <3>3. QED
        BY <3>1, <3>2
    <2>2. QED
      BY <1>2, <2>1
  <1>6. w = ColorsOfLine
    BY DEF w
  <1>7. QED
    BY <1>1, <1>2, <1>3, <1>4, <1>5, <1>6

(* The colors of a line, left to right. *)
LEMMA ColorAt ==
  ASSUME Image, NEW n \in Nat, NEW l \in Nat, l % 2 = 1, NEW q \in 0..(ColorsOfLine - 1)
  PROVE  Color(n, Before(l) + q) =
           [g1 |-> PixelOf(n, l - 1, 4 * q), r  |-> PixelOf(n, l - 1, 4 * q + 1),
            b  |-> PixelOf(n, l, 4 * q),     g2 |-> PixelOf(n, l, 4 * q + 1)]
  <1> DEFINE h == l \div 2
             first == PixelAt(n, 0, 2 * LineLength * h + 4 * q)
  <1>1. /\ ColorsOfLine \in Nat \ {0} /\ h \in Nat /\ l - 1 \in Nat /\ (l - 1) + 1 = l
        /\ l - 1 = 2 * h
    BY Sizes
  <1>2. /\ (Before(l) + q) \div ColorsOfLine = h
        /\ (Before(l) + q) % ColorsOfLine = q
    BY <1>1, Quotient DEF Before
  <1>3. Color(n, Before(l) + q) =
          [g1 |-> first,              r  |-> first + 1,
           b  |-> first + LineLength, g2 |-> first + LineLength + 1]
    BY <1>2 DEF Color
  <1>4. first = PixelOf(n, l - 1, 4 * q)
    <2> DEFINE c == SENSOR_COLUMNS
               m == n * SENSOR_ROWS
    <2>1. m \in Nat /\ c \in Nat
      BY Sizes
    <2>2. /\ first = (m + 0) * c + (2 * LineLength * h + 4 * q)
          /\ PixelOf(n, l - 1, 4 * q) = (m + Fold * (2 * h)) * c + 4 * q
      BY <1>1 DEF PixelAt, PixelOf
    <2> HIDE DEF m, c, h
    <2>3. 2 * LineLength * h = (Fold * (2 * h)) * c
      <3>1. LineLength = Fold * c /\ Fold \in {1, 2}
        BY Sizes DEF c
      <3>2. CASE Fold = 1
        BY <1>1, <2>1, <3>1, <3>2
      <3>3. CASE Fold = 2
        BY <1>1, <2>1, <3>1, <3>3
      <3>4. QED
        BY <3>1, <3>2, <3>3
    <2>4. (m + Fold * (2 * h)) * c = (m + 0) * c + (Fold * (2 * h)) * c
      <3>1. Fold * (2 * h) \in Nat
        BY <1>1, Sizes
      <3>2. QED
        BY <2>1, <3>1
    <2>5. /\ (m + 0) * c \in Nat /\ (Fold * (2 * h)) * c \in Nat
      <3>1. Fold * (2 * h) \in Nat
        BY <1>1, Sizes
      <3>2. QED
        BY <2>1, <3>1
    <2>6. QED
      BY <2>2, <2>3, <2>4, <2>5
  <1>5. /\ PixelOf(n, l - 1, 4 * q + 1) = PixelOf(n, l - 1, 4 * q) + 1
        /\ PixelOf(n, l, 4 * q + 1) = PixelOf(n, l, 4 * q) + 1
        /\ PixelOf(n, l, 4 * q) = PixelOf(n, l - 1, 4 * q) + LineLength
        /\ PixelOf(n, l - 1, 4 * q) \in Int
    <2>1. \A k \in {l - 1, l} : PixelOf(n, k, 4 * q + 1) = PixelOf(n, k, 4 * q) + 1
      <3> SUFFICES ASSUME NEW k \in {l - 1, l}
                   PROVE  PixelOf(n, k, 4 * q + 1) = PixelOf(n, k, 4 * q) + 1
        OBVIOUS
      <3> DEFINE p == (n * SENSOR_ROWS + Fold * k) * SENSOR_COLUMNS
      <3>1. p \in Int
        <4>1. n * SENSOR_ROWS \in Int /\ Fold * k \in Int /\ SENSOR_COLUMNS \in Int
          BY Sizes
        <4>2. QED
          BY <4>1
      <3>2. PixelOf(n, k, 4 * q + 1) = p + (4 * q + 1) /\ PixelOf(n, k, 4 * q) = p + 4 * q
        BY DEF PixelOf, PixelAt
      <3> HIDE DEF p
      <3>3. QED
        BY <3>1, <3>2
    <2>2. /\ PixelOf(n, (l - 1) + 1, 4 * q) = PixelOf(n, l - 1, 4 * q) + LineLength
          /\ PixelOf(n, l - 1, 4 * q) \in Int
      <3>1. 4 * q \in Nat
        BY Sizes
      <3>2. QED
        BY <1>1, <3>1, PixelsOfLine
    <2>3. QED
      BY <1>1, <2>1, <2>2
  <1>6. QED
    BY <1>3, <1>4, <1>5

(* Two captures in a row have no word in common, and none is blank. *)
LEMMA CapturesDiffer ==
  ASSUME Image, NEW n \in Nat, NEW k \in 0..(FRAME_COLORS - 1)
  PROVE  /\ Word(n + 1, k) # Word(n, k)
         /\ NoColor \notin Nat => Word(n, k) # Blank
  <1> DEFINE j == k \div Copies
             x == 2 * LineLength * (j \div ColorsOfLine) + 4 * (j % ColorsOfLine)
  <1>1. /\ SENSOR_ROWS \in Nat /\ SENSOR_ROWS > 0 /\ SENSOR_COLUMNS \in Nat /\ SENSOR_COLUMNS > 0
        /\ ColorsOfLine \in Nat \ {0} /\ k \in Nat /\ LineLength \in Nat
    BY Sizes, Frames
  <1>2. j \in Nat
    BY <1>1 DEF Copies
  <1>3. Word(n, k).g1 = PixelAt(n, 0, x) /\ Word(n + 1, k).g1 = PixelAt(n + 1, 0, x)
    BY DEF Word, Color
  <1>4. x \in Nat
    <2>1. j \div ColorsOfLine \in Nat /\ j % ColorsOfLine \in Nat
      BY <1>1, <1>2
    <2>2. 2 * LineLength \in Nat
      BY <1>1
    <2>3. 2 * LineLength * (j \div ColorsOfLine) \in Nat
      BY <2>1, <2>2
    <2>4. QED
      BY <2>1, <2>3
  <1> HIDE DEF j, x
  <1> DEFINE p == n * SENSOR_ROWS
  <1>5. p \in Nat /\ (n + 1) * SENSOR_ROWS = p + SENSOR_ROWS
    BY <1>1
  <1>6. /\ PixelAt(n, 0, x) = (p + 0) * SENSOR_COLUMNS + x
        /\ PixelAt(n + 1, 0, x) = (p + SENSOR_ROWS + 0) * SENSOR_COLUMNS + x
    BY <1>5 DEF PixelAt
  <1> HIDE DEF p
  <1>7. /\ (p + SENSOR_ROWS + 0) * SENSOR_COLUMNS
             = (p + 0) * SENSOR_COLUMNS + SENSOR_ROWS * SENSOR_COLUMNS
        /\ (p + 0) * SENSOR_COLUMNS \in Nat
        /\ SENSOR_ROWS * SENSOR_COLUMNS \in Nat /\ SENSOR_ROWS * SENSOR_COLUMNS > 0
    BY <1>1, <1>5
  <1>8. PixelAt(n + 1, 0, x) # PixelAt(n, 0, x) /\ PixelAt(n, 0, x) \in Nat
    BY <1>4, <1>6, <1>7
  <1>9. NoColor \notin Nat => Word(n, k) # Blank
    BY <1>3, <1>8 DEF Blank
  <1>10. QED
    BY <1>3, <1>8, <1>9

-----------------------------------------------------------------------------
(* The pixels of a line.  All of it follows from where the sensor is.      *)

(* No color of the image is to come or in the making. *)
ImageOver == row = SENSOR_ROWS \/ (row = SENSOR_ROWS - 1 /\ col > SENSOR_COLUMNS)

(* The pixel that came with the last edge counts if its column is kept. *)
CountInv ==
  /\ row = SENSOR_ROWS => col = 0
  /\ row_counter % 4 = col_counter
  /\ col_counter = IF lval THEN col % 4 ELSE 0
  /\ pixel_valid <=> lval /\ col % 4 \in {1, 2}
  /\ pixel_valid => data_bridge = PixelAt(shot, row, col - 1)

(* The pixels kept of this line so far. *)
Fill == Kept(place)

(* The Bayer FIFO fills with one line and empties with the next. *)
BayerInv ==
  /\ push_state <=> (~Paired <=> place < LineLength)
  /\ usedw = IF Paired THEN BAYER_LINE - Fill ELSE Fill
  /\ \A i \in 1..usedw :
       bayer[i] = IF Paired THEN PixelOf(shot, line - 1, KeptPlace(Fill + i))
                  ELSE PixelOf(shot, line, KeptPlace(i))

(* Half a color after the first pixel of a pair, all of it after the       *)
(* second, written with the next edge.                                     *)
MadeNow == Before(line) + (place - 1) \div 4

ColorInv ==
  /\ color_ready <=> lval /\ Paired /\ col % 4 = 3
  /\ buffer_write <=> Paired /\ col \in 4..SENSOR_COLUMNS /\ col % 4 = 0
  /\ lval /\ Paired /\ col % 4 = 2 =>
       /\ output_color.b = PixelOf(shot, line, place - 2)
       /\ output_color.g1 = PixelOf(shot, line - 1, place - 2)
  /\ color_ready \/ buffer_write => output_color = Color(shot, MadeNow)

PixelInv ==
  /\ CountInv /\ BayerInv /\ ColorInv
  /\ ctrl_state = "IDLE" => ImageOver

(* Where an edge of the pixel clock takes the sensor. *)
Opens    == /\ row = SENSOR_ROWS /\ row' = 0 /\ col' = 0
            /\ exposing /\ ~exposing' /\ start_o /\ ctrl_state = "BUSY"
Advances == /\ row < SENSOR_ROWS /\ col < SENSOR_COLUMNS + HBLANK - 1
            /\ row' = row /\ col' = col + 1 /\ exposing' = exposing
Breaks   == /\ row < SENSOR_ROWS /\ col >= SENSOR_COLUMNS
            /\ row' = row + 1 /\ col' = 0 /\ exposing' = exposing
Pauses   == row = SENSOR_ROWS /\ row' = row /\ col' = col /\ exposing' = exposing

(* Where it takes the line. *)
Steps == line' = line /\ place' = place + 1
Rests == line' = line /\ place' = place
Turns == place = LineLength /\ line' = line + 1 /\ place' = 0 /\ col' = 0

LEMMA SensorMoves ==
  ASSUME TypeInv, PixTick
  PROVE  /\ Opens \/ Advances \/ Breaks \/ Pauses
         /\ lval => Advances
         /\ row \in Nat /\ row <= SENSOR_ROWS /\ col \in Nat /\ shot \in Nat
         /\ shot' = shot /\ start_o' = start_o /\ stop_o' = stop_o
  <1>1. SensorTick /\ shot' = shot /\ cam' = cam
    BY DEF PixTick, progVars, camSlaveVars
  <1>2. /\ row \in Nat /\ row <= SENSOR_ROWS /\ col \in Nat /\ shot \in Nat
        /\ col <= SENSOR_COLUMNS + HBLANK - 1
    BY Bounds, CaptureAssumption DEF TypeInv, TypeOK, ProgramTypeOK
  <1>3. Opens \/ Advances \/ Breaks \/ Pauses
    <2>1. CASE Expose
      BY <1>2, <2>1, Bounds DEF Expose, fval, Opens
    <2>2. CASE Scan
      BY <1>2, <2>2, Bounds DEF Scan, fval, Advances, Breaks
    <2>3. CASE ~fval /\ UNCHANGED sensorVars
      BY <1>2, <2>3, Bounds DEF fval, sensorVars, Pauses
    <2>4. QED
      BY <1>1, <2>1, <2>2, <2>3 DEF SensorTick
  <1>4. lval => Advances
    BY <1>2, <1>3, Bounds DEF Opens, Breaks, Pauses, lval, fval
  <1>5. QED
    BY <1>1, <1>2, <1>3, <1>4 DEF start_o, stop_o

LEMMA LineAfter ==
  /\ line' = row' \div Fold
  /\ place' = (IF row' % Fold = 1 THEN SENSOR_COLUMNS ELSE 0)
                + (IF col' < SENSOR_COLUMNS THEN col' ELSE SENSOR_COLUMNS)
  BY DEF line, place, Fold, LineLength

LEMMA LineMoves ==
  ASSUME Image, TypeInv, CountInv, PixTick
  PROVE  /\ line \in Nat /\ line <= LineCount /\ place \in Nat /\ place <= LineLength
         /\ lval => Steps /\ place < LineLength /\ place % 4 = col % 4 /\ line < LineCount
         /\ ~lval /\ row < SENSOR_ROWS =>
              /\ (Rests /\ ~(lval' /\ col' # 0)) \/ Turns
              /\ place = LineLength \/ (Fold = 2 /\ place = BAYER_LINE /\ BAYER_LINE % 4 = 0)
         /\ Opens => line' = 0 /\ place' = 0
         /\ Pauses => Rests
         /\ row = SENSOR_ROWS => line = LineCount /\ place = 0 /\ ~Paired /\ ~lval
  <1>1. /\ Opens \/ Advances \/ Breaks \/ Pauses
        /\ row \in 0..SENSOR_ROWS /\ col \in Nat /\ (row = SENSOR_ROWS => col = 0)
        /\ lval => Advances
    BY SensorMoves, Sizes DEF CountInv
  <1>2. /\ line \in Nat /\ line <= LineCount /\ place \in Nat /\ place <= LineLength
        /\ lval => place < LineLength /\ place % 4 = col % 4 /\ line < LineCount
        /\ ~lval /\ row < SENSOR_ROWS =>
             place = LineLength \/ (Fold = 2 /\ place = BAYER_LINE /\ BAYER_LINE % 4 = 0)
        /\ row = SENSOR_ROWS => line = LineCount /\ place = 0
    BY <1>1, Coordinates
  <1>3. row = SENSOR_ROWS => ~Paired /\ ~lval
    BY <1>2, Sizes DEF Paired, lval, fval
  <1>4. lval => Steps
    <2> SUFFICES ASSUME lval PROVE Steps
      OBVIOUS
    <2>1. row' = row /\ col' = col + 1 /\ col < SENSOR_COLUMNS
      BY <1>1 DEF Advances, lval, fval
    <2> DEFINE b == IF row % Fold = 1 THEN SENSOR_COLUMNS ELSE 0
    <2>4. b \in Nat /\ col \in Nat /\ SENSOR_COLUMNS \in Nat
      BY <1>1, Sizes
    <2>2. (IF col' < SENSOR_COLUMNS THEN col' ELSE SENSOR_COLUMNS) = col + 1
      BY <2>1, <2>4
    <2>3. (IF col < SENSOR_COLUMNS THEN col ELSE SENSOR_COLUMNS) = col
      BY <2>1
    <2>5. line' = line /\ place' = b + (col + 1) /\ place = b + col
      BY <2>1, <2>2, <2>3, LineAfter DEF line, place
    <2> HIDE DEF b
    <2>6. QED
      BY <2>4, <2>5 DEF Steps
  <1>5. ASSUME ~lval, row < SENSOR_ROWS
        PROVE  (Rests /\ ~(lval' /\ col' # 0)) \/ Turns
    <2>1. ~(col < SENSOR_COLUMNS)
      BY <1>5 DEF lval, fval
    <2>2. CASE Advances
      <3>1. row' = row /\ ~(col' < SENSOR_COLUMNS)
        BY <1>1, <2>1, <2>2, Sizes DEF Advances
      <3>2. QED
        BY <2>1, <3>1 DEF line, place, Rests, lval, fval
    <2>3. CASE Breaks
      <3>1. row' = row + 1 /\ col' = 0 /\ col' < SENSOR_COLUMNS
        BY <2>3, Sizes DEF Breaks
      <3>2. CASE Fold = 1
        <4>1. /\ line = row /\ line' = row' /\ row % Fold = 0 /\ row' % Fold = 0
          BY <1>1, <3>1, <3>2 DEF line
        <4>2. place = 0 + SENSOR_COLUMNS /\ place' = 0 + 0
          BY <2>1, <3>1, <4>1, LineAfter DEF place
        <4>3. SENSOR_COLUMNS = LineLength /\ SENSOR_COLUMNS \in Nat
          BY <3>2, Sizes
        <4>4. place = LineLength /\ place' = 0
          BY <4>2, <4>3
        <4>5. QED
          BY <3>1, <4>1, <4>4 DEF Turns
      <3>3. CASE Fold = 2 /\ row % 2 = 0
        <4>1. /\ line' = line /\ row' % Fold = 1 /\ row % Fold = 0
          BY <1>1, <3>1, <3>3 DEF line
        <4>2. place = 0 + SENSOR_COLUMNS /\ place' = SENSOR_COLUMNS + 0
          BY <2>1, <3>1, <4>1, LineAfter DEF place
        <4>3. place' = place
          BY <4>2, Sizes
        <4>4. QED
          BY <3>1, <4>1, <4>3 DEF Rests
      <3>4. CASE Fold = 2 /\ row % 2 = 1
        <4>1. /\ line' = line + 1 /\ row' % Fold = 0 /\ row % Fold = 1
          BY <1>1, <3>1, <3>4 DEF line
        <4>2. place = SENSOR_COLUMNS + SENSOR_COLUMNS /\ place' = 0 + 0
          BY <2>1, <3>1, <4>1, LineAfter DEF place
        <4>3. SENSOR_COLUMNS + SENSOR_COLUMNS = LineLength
          BY <3>4, Sizes
        <4>4. place = LineLength /\ place' = 0
          BY <4>2, <4>3
        <4>5. QED
          BY <3>1, <4>1, <4>4 DEF Turns
      <3>5. QED
        BY <1>1, <3>2, <3>3, <3>4, Sizes
    <2>4. QED
      BY <1>1, <1>5, <2>2, <2>3 DEF Opens, Pauses
  <1>6. Opens => line' = 0 /\ place' = 0
    <2>1. 0 \div 1 = 0 /\ 0 % 1 = 0 /\ 0 \div 2 = 0 /\ 0 % 2 = 0
      OBVIOUS
    <2>2. QED
      BY <2>1, Sizes DEF Opens, line, place
  <1>7. Pauses => Rests
    BY DEF Pauses, Rests, line, place
  <1>8. QED
    BY <1>2, <1>3, <1>4, <1>5, <1>6, <1>7

(* The last pixel, if it counts, in its line. *)
LEMMA PixelBefore ==
  ASSUME Image, TypeInv, CountInv, PixTick, pixel_valid
  PROVE  data_bridge = PixelOf(shot, line, place - 1) /\ data_bridge \in Int
  <1>1. /\ data_bridge = PixelAt(shot, row, col - 1) /\ lval /\ col % 4 \in {1, 2}
        /\ row \in 0..SENSOR_ROWS /\ col \in Nat /\ shot \in Nat
        /\ place \in Nat /\ line \in Nat /\ data_bridge \in Int
    BY SensorMoves, LineMoves, Sizes DEF CountInv, TypeInv, TypeOK, CtrlTypeOK
  <1>2. PixelAt(shot, row, col) = PixelOf(shot, line, place)
    BY <1>1, PixelsOfLine
  <1> DEFINE c == SENSOR_COLUMNS
             p == (shot * SENSOR_ROWS + row) * c
             q == (shot * SENSOR_ROWS + Fold * line) * c
  <1>3. p \in Nat /\ q \in Nat
    <2>1. shot * SENSOR_ROWS + row \in Nat /\ shot * SENSOR_ROWS + Fold * line \in Nat
      BY <1>1, Sizes
    <2>2. QED
      BY <2>1, Sizes
  <1>4. /\ PixelAt(shot, row, col) = p + col
        /\ PixelAt(shot, row, col - 1) = p + (col - 1)
        /\ PixelOf(shot, line, place) = q + place
        /\ PixelOf(shot, line, place - 1) = q + (place - 1)
    BY DEF PixelAt, PixelOf
  <1> HIDE DEF p, q
  <1>5. p + col = q + place /\ p + (col - 1) = q + (place - 1)
    <2>1. p + col = q + place /\ col \in Nat /\ place \in Nat
      BY <1>1, <1>2, <1>4
    <2>2. QED
      BY <1>3, <2>1
  <1>6. QED
    BY <1>1, <1>4, <1>5

(* An edge that does not leave the state BUSY. *)
Running == ctrl_state = "BUSY" /\ ctrl_state' = "BUSY"

LEMMA RunningTick ==
  ASSUME PixTick, Running
  PROVE  /\ data_bridge' = pixel /\ DownSampling(lval)
         /\ BayerFIFO /\ Debayering /\ buffer_write' = color_ready
  BY DEF PixTick, CtrlTick, Running, lval

LEMMA CountStep ==
  ASSUME Image, TypeInv, CountInv, PixTick, Running
  PROVE  CountInv'
  <1>1. /\ data_bridge' = pixel
        /\ row_counter' = IF ~lval THEN row_counter
                          ELSE IF row_counter = ROW_END THEN 0 ELSE row_counter + 1
        /\ col_counter' = IF lval THEN (col_counter + 1) % 4 ELSE col_counter
        /\ pixel_valid' <=> lval /\ col_counter < 2 /\ row_counter < ROW_END
    <2>1. pixel_valid' = (lval /\ col_counter < 2 /\ row_counter < ROW_END)
      BY RunningTick DEF DownSampling
    <2>2. QED
      BY <2>1, RunningTick DEF DownSampling
  <1>2. /\ row \in Nat /\ row <= SENSOR_ROWS /\ col \in Nat /\ shot' = shot
        /\ row_counter \in 0..ROW_END /\ col_counter \in 0..3
    BY SensorMoves DEF TypeInv, TypeOK, CtrlTypeOK
  <1>3. CASE lval
    <2>1. /\ row' = row /\ col' = col + 1 /\ row < SENSOR_ROWS /\ col < SENSOR_COLUMNS
          /\ col_counter = col % 4 /\ row_counter % 4 = col % 4
      BY <1>3, SensorMoves DEF CountInv, Advances, lval, fval
    <2>2. lval' <=> col + 1 < SENSOR_COLUMNS
      BY <2>1 DEF lval, fval
    <2>3. /\ row_counter' % 4 = (col + 1) % 4 /\ col_counter' = (col + 1) % 4
      BY <1>1, <1>2, <1>3, <2>1, Sizes
    <2>4. ~(lval') => (col + 1) % 4 = 0
      BY <1>2, <2>1, <2>2, Sizes
    <2>5. pixel_valid' <=> col % 4 < 2
      BY <1>1, <1>2, <1>3, <2>1, Sizes
    <2>6. pixel_valid' <=> lval' /\ (col + 1) % 4 \in {1, 2}
      BY <1>2, <2>4, <2>5
    <2>7. data_bridge' = PixelAt(shot', row', col' - 1)
      BY <1>1, <1>2, <1>3, <2>1 DEF pixel, PixelAt
    <2>8. row' # SENSOR_ROWS
      BY <1>2, <2>1, Sizes
    <2>9. QED
      BY <2>1, <2>3, <2>4, <2>6, <2>7, <2>8 DEF CountInv
  <1>4. CASE ~lval
    <2>1. /\ row_counter' = row_counter /\ row_counter % 4 = 0 /\ col_counter' = 0
          /\ ~(pixel_valid')
      BY <1>1, <1>4 DEF CountInv
    <2>2. lval' => col' = 0
      BY <1>2, <1>4, SensorMoves, Sizes
      DEF CountInv, Opens, Advances, Breaks, Pauses, lval, fval
    <2>3. row' = SENSOR_ROWS => col' = 0
      BY <1>2, SensorMoves, Sizes DEF CountInv, Opens, Advances, Breaks, Pauses
    <2>4. QED
      BY <2>1, <2>2, <2>3 DEF CountInv
  <1>5. QED
    BY <1>3, <1>4

(* How the line fills up to its last kept pixel. *)
LEMMA LineFills ==
  ASSUME Image, NEW x \in Nat
  PROVE  /\ x < LineLength =>
              /\ Kept(x) \in Nat /\ Kept(x) <= BAYER_LINE
              /\ Kept(x) = BAYER_LINE <=> x + 1 = LineLength
              /\ x % 4 \in {1, 2} => Kept(x + 1) = Kept(x) + 1 /\ Kept(x) < BAYER_LINE
              /\ x % 4 \notin {1, 2} => Kept(x + 1) = Kept(x)
         /\ Kept(0) = 0 /\ Kept(LineLength) = BAYER_LINE
         /\ BAYER_LINE % 4 = 0 => Kept(BAYER_LINE) \in 1..(BAYER_LINE - 1)
  <1> DEFINE k == Kept(x)
             l == Kept(x + 1)
  <1>1. /\ k \in Nat /\ 2 * k <= x + 1
        /\ l = k + (IF x % 4 \in {1, 2} THEN 1 ELSE 0)
        /\ x % 4 = 3 <=> 2 * k = x + 1
    BY KeptSteps
  <1> HIDE DEF k, l
  <1>2. /\ x + 1 = LineLength => x % 4 = 3
        /\ x % 4 \in {1, 2} => x + 1 # LineLength
        /\ LineLength = 2 * BAYER_LINE /\ BAYER_LINE \in Nat
    BY Sizes
  <1>3. x < LineLength => k <= BAYER_LINE /\ (k = BAYER_LINE <=> x + 1 = LineLength)
    BY <1>1, <1>2
  <1>4. x < LineLength =>
          /\ x % 4 \in {1, 2} => l = k + 1 /\ k < BAYER_LINE
          /\ x % 4 \notin {1, 2} => l = k
    BY <1>1, <1>2, <1>3
  <1>5. Kept(0) = 0
    BY KeptSteps
  <1>6. Kept(LineLength) = BAYER_LINE
    <2>1. LineLength = 4 * ColorsOfLine /\ BAYER_LINE = 2 * ColorsOfLine /\ ColorsOfLine \in Nat
      BY Sizes
    <2>2. LineLength \div 4 = ColorsOfLine /\ LineLength % 4 = 0
      BY <2>1
    <2>3. QED
      BY <2>1, <2>2 DEF Kept
  <1>7. BAYER_LINE % 4 = 0 => Kept(BAYER_LINE) \in 1..(BAYER_LINE - 1)
    <2>1. BAYER_LINE % 4 = 0 => Kept(BAYER_LINE) = 2 * (BAYER_LINE \div 4)
      BY Sizes DEF Kept
    <2>2. BAYER_LINE % 4 = 0 => 2 * (BAYER_LINE \div 4) \in 1..(BAYER_LINE - 1)
      BY Sizes
    <2>3. QED
      BY <2>1, <2>2
  <1>8. QED
    BY <1>1, <1>3, <1>4, <1>5, <1>6, <1>7 DEF k, l

(* The Bayer FIFO at an edge. *)
LEMMA BayerMoves ==
  ASSUME Image, TypeInv, CountInv, BayerInv, PixTick, Running
  PROVE  /\ lval /\ ~Paired /\ pixel_valid => bayer' = Append(bayer, data_bridge)
         /\ lval /\ Paired /\ pixel_valid /\ bayer # <<>> => bayer' = Tail(bayer)
         /\ ~pixel_valid => bayer' = bayer
         /\ push_state' <=> usedw # BAYER_LINE /\ (usedw = 0 \/ push_state)
         /\ bayer \in Seq(Int) /\ usedw \in Nat /\ data_bridge \in Int
         /\ lval => (push_state <=> ~Paired)
         /\ lval /\ Paired /\ pixel_valid => bayer # <<>>
         /\ ~lval => ~pixel_valid
  <1>1. /\ bayer \in Seq(Int) /\ usedw \in Nat /\ data_bridge \in Int
    BY LenProperties DEF TypeInv, TypeOK, CtrlTypeOK, usedw
  <1>2. /\ bayer' = CASE push_state /\ pixel_valid -> Append(bayer, data_bridge)
                      [] ~push_state /\ pixel_valid /\ bayer # <<>> -> Tail(bayer)
                      [] OTHER -> bayer
        /\ push_state' = CASE usedw = BAYER_LINE -> FALSE
                           [] usedw = 0 -> TRUE
                           [] OTHER -> push_state
    BY RunningTick DEF BayerFIFO, bayer_fifo_push, bayer_fifo_pop
  <1>3. push_state' <=> usedw # BAYER_LINE /\ (usedw = 0 \/ push_state)
    BY <1>2, Sizes
  <1>4. lval => (push_state <=> ~Paired)
    BY LineMoves DEF BayerInv
  <1>5. lval /\ Paired /\ pixel_valid => bayer # <<>>
    <2> SUFFICES ASSUME lval, Paired, pixel_valid PROVE bayer # <<>>
      OBVIOUS
    <2>1. usedw = BAYER_LINE - Kept(place) /\ place % 4 \in {1, 2} /\ place < LineLength
      BY LineMoves DEF BayerInv, CountInv, Fill
    <2>2. Kept(place) \in Nat /\ Kept(place) < BAYER_LINE
      BY <2>1, LineMoves, LineFills
    <2>3. usedw # 0
      BY <2>1, <2>2, Sizes
    <2>4. QED
      BY <2>3, EmptySeq DEF usedw
  <1>6. ~lval => ~pixel_valid
    BY DEF CountInv
  <1>7. QED
    BY <1>1, <1>2, <1>3, <1>4, <1>5, <1>6

(* In the lines that fill it. *)
LEMMA BayerFills ==
  ASSUME Image, TypeInv, CountInv, BayerInv, PixTick, Running, lval, ~Paired
  PROVE  BayerInv'
  <1>1. /\ line' = line /\ place' = place + 1 /\ place < LineLength /\ shot' = shot
        /\ place \in Nat /\ ~(Paired') /\ bayer \in Seq(Int) /\ data_bridge \in Int
        /\ push_state /\ place % 4 = col % 4
        /\ push_state' <=> usedw # BAYER_LINE
    BY SensorMoves, LineMoves, BayerMoves DEF Steps, Paired
  <1>2. /\ usedw = Kept(place)
        /\ \A i \in 1..usedw : bayer[i] = PixelOf(shot, line, KeptPlace(i))
        /\ pixel_valid <=> place % 4 \in {1, 2}
    BY <1>1 DEF BayerInv, CountInv, Fill
  <1>3. Fill' = Kept(place + 1)
    BY <1>1 DEF Fill, Kept
  <1>4. push_state' <=> place + 1 < LineLength
    <2>1. usedw # BAYER_LINE <=> place + 1 < LineLength
      <3>1. usedw = BAYER_LINE <=> place + 1 = LineLength
        BY <1>1, <1>2, LineFills
      <3>2. place \in Nat /\ place < LineLength /\ LineLength \in Nat
        BY <1>1, Sizes
      <3>3. QED
        BY <3>1, <3>2
    <2>2. QED
      BY <1>1, <2>1, Zenon
  <1>5. CASE pixel_valid
    <2>1. bayer' = Append(bayer, data_bridge)
      BY <1>5, BayerMoves
    <2>2. /\ usedw' = usedw + 1 /\ usedw \in Nat
          /\ \A i \in 1..usedw : bayer'[i] = bayer[i]
          /\ bayer'[usedw + 1] = data_bridge
      BY <1>1, <2>1, Appends DEF usedw
    <2>3. data_bridge = PixelOf(shot, line, KeptPlace(usedw + 1))
      <3>1. data_bridge = PixelOf(shot, line, place - 1)
        BY <1>5, PixelBefore
      <3>2. QED
        BY <1>1, <1>2, <1>5, <3>1, KeptSteps
    <2>4. usedw' = Fill'
      BY <1>1, <1>2, <1>3, <1>5, <2>2, LineFills
    <2>5. \A i \in 1..(usedw + 1) : bayer'[i] = PixelOf(shot, line, KeptPlace(i))
      BY <1>2, <2>2, <2>3
    <2>6. QED
      BY <1>1, <1>4, <2>2, <2>4, <2>5 DEF BayerInv, PixelOf, PixelAt
  <1>6. CASE ~pixel_valid
    <2>1. bayer' = bayer /\ usedw' = usedw
      BY <1>6, BayerMoves DEF usedw
    <2>2. usedw' = Fill'
      BY <1>1, <1>2, <1>3, <1>6, <2>1, LineFills
    <2>3. QED
      BY <1>1, <1>2, <1>4, <2>1, <2>2 DEF BayerInv, PixelOf, PixelAt
  <1>7. QED
    BY <1>5, <1>6

(* In the lines that empty it. *)
LEMMA BayerEmpties ==
  ASSUME Image, TypeInv, CountInv, BayerInv, PixTick, Running, lval, Paired
  PROVE  BayerInv'
  <1>1. /\ line' = line /\ place' = place + 1 /\ place < LineLength /\ shot' = shot
        /\ place \in Nat /\ Paired' /\ bayer \in Seq(Int)
        /\ ~push_state /\ place % 4 = col % 4
        /\ push_state' <=> usedw # BAYER_LINE /\ usedw = 0
    BY SensorMoves, LineMoves, BayerMoves DEF Steps, Paired
  <1>2. /\ usedw = BAYER_LINE - Kept(place)
        /\ \A i \in 1..usedw : bayer[i] = PixelOf(shot, line - 1, KeptPlace(Kept(place) + i))
        /\ pixel_valid <=> place % 4 \in {1, 2}
    BY <1>1 DEF BayerInv, CountInv, Fill
  <1>3. /\ Fill' = Kept(place + 1) /\ Kept(place) \in Nat /\ Kept(place) <= BAYER_LINE
        /\ Kept(place) = BAYER_LINE <=> place + 1 = LineLength
    <2>1. Fill' = Kept(place + 1)
      BY <1>1 DEF Fill, Kept
    <2>2. QED
      BY <1>1, <2>1, LineFills
  <1>4. push_state' <=> ~(place + 1 < LineLength)
    <2>1. usedw = 0 <=> ~(place + 1 < LineLength)
      <3>1. usedw = 0 <=> place + 1 = LineLength
        BY <1>2, <1>3, Sizes
      <3>2. place \in Nat /\ place < LineLength /\ LineLength \in Nat
        BY <1>1, Sizes
      <3>3. QED
        BY <3>1, <3>2
    <2>2. usedw = 0 => usedw # BAYER_LINE
      BY Sizes
    <2>3. QED
      BY <1>1, <2>1, <2>2, Zenon
  <1>5. CASE pixel_valid
    <2>1. bayer' = Tail(bayer) /\ bayer # <<>>
      BY <1>5, BayerMoves
    <2>2. /\ usedw' = usedw - 1 /\ usedw \in Nat /\ usedw >= 1
          /\ \A i \in 1..(usedw - 1) : bayer'[i] = bayer[i + 1]
      BY <1>1, <2>1, Tails DEF usedw
    <2>3. Fill' = Kept(place) + 1
      BY <1>1, <1>2, <1>3, <1>5, LineFills
    <2>4. usedw' = BAYER_LINE - Fill'
      BY <1>2, <1>3, <2>2, <2>3, Sizes
    <2>5. \A i \in 1..(usedw - 1) :
            bayer'[i] = PixelOf(shot, line - 1, KeptPlace(Fill' + i))
      <3> SUFFICES ASSUME NEW i \in 1..(usedw - 1)
                   PROVE  bayer'[i] = PixelOf(shot, line - 1, KeptPlace(Fill' + i))
        OBVIOUS
      <3>1. i + 1 \in 1..usedw /\ Kept(place) + (i + 1) = Fill' + i
        BY <1>3, <2>2, <2>3
      <3>2. QED
        BY <1>2, <2>2, <3>1
    <2>6. QED
      BY <1>1, <1>4, <2>2, <2>4, <2>5 DEF BayerInv, PixelOf, PixelAt
  <1>6. CASE ~pixel_valid
    <2>1. bayer' = bayer /\ usedw' = usedw
      BY <1>6, BayerMoves DEF usedw
    <2>2. Fill' = Kept(place)
      BY <1>1, <1>2, <1>3, <1>6, LineFills
    <2>3. QED
      BY <1>1, <1>2, <1>4, <2>1, <2>2 DEF BayerInv, PixelOf, PixelAt
  <1>7. QED
    BY <1>5, <1>6

(* Between two rows it keeps what it holds; after a line it is full or     *)
(* empty, and turns.                                                       *)
LEMMA BayerWaits ==
  ASSUME Image, TypeInv, CountInv, BayerInv, PixTick, Running, ~lval
  PROVE  BayerInv'
  <1>1. /\ bayer' = bayer /\ usedw' = usedw /\ shot' = shot
        /\ push_state' <=> usedw # BAYER_LINE /\ (usedw = 0 \/ push_state)
        /\ row \in Nat /\ row <= SENSOR_ROWS /\ line \in Nat /\ place \in Nat
        /\ BAYER_LINE \in Nat /\ BAYER_LINE > 0
        /\ Kept(0) = 0 /\ Kept(LineLength) = BAYER_LINE
        /\ BAYER_LINE % 4 = 0 => Kept(BAYER_LINE) \in 1..(BAYER_LINE - 1)
        /\ LineLength = 2 * BAYER_LINE
    BY BayerMoves, SensorMoves, LineMoves, LineFills, Sizes DEF usedw
  <1>2. CASE row = SENSOR_ROWS
    <2>1. /\ place = 0 /\ ~Paired /\ (Opens \/ Pauses)
      BY <1>2, SensorMoves, LineMoves DEF Advances, Breaks
    <2>2. usedw = 0
      BY <1>1, <2>1 DEF BayerInv, Fill
    <2>3. place' = 0 /\ ~(Paired')
      <3>1. 0 % 2 = 0
        OBVIOUS
      <3>2. QED
        BY <2>1, <3>1, LineMoves DEF Rests, Paired
    <2>4. QED
      BY <1>1, <2>2, <2>3 DEF BayerInv, Fill, Kept
  <1>3. CASE row < SENSOR_ROWS /\ Rests
    <2>1. line' = line /\ place' = place /\ Fill' = Fill /\ (Paired' <=> Paired)
      BY <1>3 DEF Rests, Fill, Kept, Paired
    <2>2. push_state' <=> push_state
      <3>1. CASE place = LineLength
        BY <1>1, <3>1 DEF BayerInv, Fill
      <3>2. CASE place = BAYER_LINE /\ BAYER_LINE % 4 = 0
        BY <1>1, <3>2 DEF BayerInv, Fill
      <3>3. QED
        BY <1>3, <3>1, <3>2, LineMoves
    <2>3. QED
      BY <1>1, <2>1, <2>2 DEF BayerInv, PixelOf, PixelAt
  <1>4. CASE row < SENSOR_ROWS /\ Turns
    <2>1. /\ line' = line + 1 /\ place' = 0 /\ (Paired' <=> ~Paired)
          /\ place = LineLength
      BY <1>1, <1>4 DEF Turns, Paired
    <2>2. Fill = BAYER_LINE /\ Fill' = 0
      BY <1>1, <2>1 DEF Fill, Kept
    <2>3. /\ push_state' <=> Paired
          /\ usedw = IF Paired THEN 0 ELSE BAYER_LINE
      BY <1>1, <2>1, <2>2 DEF BayerInv
    <2>4. CASE Paired
      BY <1>1, <2>1, <2>2, <2>3, <2>4 DEF BayerInv
    <2>5. CASE ~Paired
      <3>1. \A i \in 1..usedw : bayer[i] = PixelOf(shot, line, KeptPlace(i))
        BY <2>5 DEF BayerInv
      <3>2. line' - 1 = line /\ \A i \in 1..usedw : Fill' + i = i
        BY <1>1, <2>1, <2>2
      <3>3. \A i \in 1..usedw' :
              bayer'[i] = PixelOf(shot, line' - 1, KeptPlace(Fill' + i))
        BY <1>1, <3>1, <3>2
      <3>4. QED
        BY <1>1, <2>1, <2>2, <2>3, <2>5, <3>3 DEF BayerInv, PixelOf, PixelAt
    <2>6. QED
      BY <2>4, <2>5
  <1>5. row = SENSOR_ROWS \/ row < SENSOR_ROWS
    BY <1>1, Sizes
  <1>6. row < SENSOR_ROWS => Rests \/ Turns
    BY LineMoves
  <1>7. QED
    BY <1>2, <1>3, <1>4, <1>5, <1>6, Zenon

LEMMA BayerStep ==
  ASSUME Image, TypeInv, CountInv, BayerInv, PixTick, Running
  PROVE  BayerInv'
  BY BayerFills, BayerEmpties, BayerWaits

(* Where a color is put together. *)
LEMMA ColorMoves ==
  ASSUME Image, TypeInv, CountInv, BayerInv, ColorInv, PixTick, Running
  PROVE  LET q == IF bayer = <<>> THEN NoColor ELSE Head(bayer)
         IN  /\ output_color' =
                  IF ~(lval /\ Paired /\ col % 4 \in {1, 2}) THEN output_color
                  ELSE IF col % 4 = 1 THEN [output_color EXCEPT !.b = data_bridge, !.g1 = q]
                                      ELSE [output_color EXCEPT !.g2 = data_bridge, !.r = q]
             /\ lval /\ Paired /\ col % 4 \in {1, 2} =>
                  /\ q = PixelOf(shot, line - 1, place - 1) /\ q \in Int
                  /\ data_bridge = PixelOf(shot, line, place - 1) /\ data_bridge \in Int
             /\ color_ready' <=> lval /\ Paired /\ col % 4 = 2
             /\ buffer_write' = color_ready
             /\ output_color \in Colors
  <1> DEFINE q == IF bayer = <<>> THEN NoColor ELSE Head(bayer)
             pop == lval /\ Paired /\ col % 4 \in {1, 2}
  <1>1. /\ output_color' =
             IF ~bayer_fifo_pop THEN output_color
             ELSE IF usedw % 2 = 0
                  THEN [output_color EXCEPT !.b = data_bridge, !.g1 = q]
                  ELSE [output_color EXCEPT !.g2 = data_bridge, !.r = q]
        /\ color_ready' = (bayer_fifo_pop /\ ~(usedw % 2 = 0) /\ ~color_ready)
        /\ buffer_write' = color_ready
    BY RunningTick DEF Debayering
  <1>2. /\ col \in Nat /\ place \in Nat
        /\ output_color \in Colors /\ data_bridge \in Int /\ bayer \in Seq(Int)
    BY SensorMoves, LineMoves DEF TypeInv, TypeOK, CtrlTypeOK, Colors
  <1>3. bayer_fifo_pop <=> pop
    <2>1. CASE lval
      <3>1. push_state <=> ~Paired
        BY <2>1, BayerMoves
      <3>2. pixel_valid <=> col % 4 \in {1, 2}
        BY <2>1 DEF CountInv
      <3>3. QED
        BY <2>1, <3>1, <3>2 DEF bayer_fifo_pop
    <2>2. CASE ~lval
      BY <2>2, BayerMoves DEF bayer_fifo_pop
    <2>3. QED
      BY <2>1, <2>2
  <1>4. pop => usedw = BAYER_LINE - Kept(place) /\ usedw \in Nat /\ place % 4 = col % 4
    BY BayerMoves, LineMoves DEF BayerInv, Fill
  <1>5. pop => Kept(place) \in Nat /\ (Kept(place) % 2 = 0 <=> col % 4 = 1)
    <2>1. /\ Kept(place) \in Nat
          /\ place % 4 = 1 => Kept(place) % 2 = 0
          /\ place % 4 = 2 => Kept(place) % 2 = 1
      BY <1>2, KeptSteps
    <2>2. QED
      BY <1>4, <2>1
  <1>6. pop => (usedw % 2 = 0 <=> col % 4 = 1)
    BY <1>4, <1>5, Sizes
  <1>7. pop => ~color_ready
    BY DEF ColorInv
  <1>8. pop => q = PixelOf(shot, line - 1, place - 1) /\ q \in Int
    <2> SUFFICES ASSUME pop PROVE q = PixelOf(shot, line - 1, place - 1) /\ q \in Int
      OBVIOUS
    <2>1. bayer # <<>>
      BY BayerMoves DEF CountInv
    <2>2. q = bayer[1] /\ q \in Int /\ 1 \in 1..usedw
      BY <1>2, <1>4, <2>1, Tails DEF usedw
    <2>3. bayer[1] = PixelOf(shot, line - 1, KeptPlace(Kept(place) + 1))
      BY <2>2 DEF BayerInv, Fill
    <2>4. KeptPlace(Kept(place) + 1) = place - 1
      BY <1>2, <1>4, KeptSteps
    <2>5. QED
      BY <2>2, <2>3, <2>4
  <1>9. pop => data_bridge = PixelOf(shot, line, place - 1)
    BY PixelBefore DEF CountInv
  <1> HIDE DEF q
  <1>10. output_color' =
           IF ~pop THEN output_color
           ELSE IF col % 4 = 1 THEN [output_color EXCEPT !.b = data_bridge, !.g1 = q]
                               ELSE [output_color EXCEPT !.g2 = data_bridge, !.r = q]
    BY <1>1, <1>3, <1>6
  <1>11. color_ready' <=> lval /\ Paired /\ col % 4 = 2
    <2>1. color_ready' <=> bayer_fifo_pop /\ ~(usedw % 2 = 0) /\ ~color_ready
      BY <1>1
    <2>2. pop /\ ~(col % 4 = 1) <=> lval /\ Paired /\ col % 4 = 2
      BY <1>2
    <2>3. QED
      BY <1>3, <1>6, <1>7, <2>1, <2>2
  <1>12. QED
    BY <1>1, <1>2, <1>8, <1>9, <1>10, <1>11 DEF q

LEMMA ColorStep ==
  ASSUME Image, TypeInv, CountInv, BayerInv, ColorInv, PixTick, Running
  PROVE  ColorInv'
  <1> DEFINE q == IF bayer = <<>> THEN NoColor ELSE Head(bayer)
  <1>1. /\ output_color' =
             IF ~(lval /\ Paired /\ col % 4 \in {1, 2}) THEN output_color
             ELSE IF col % 4 = 1 THEN [output_color EXCEPT !.b = data_bridge, !.g1 = q]
                                 ELSE [output_color EXCEPT !.g2 = data_bridge, !.r = q]
        /\ lval /\ Paired /\ col % 4 \in {1, 2} =>
             /\ q = PixelOf(shot, line - 1, place - 1) /\ q \in Int
             /\ data_bridge = PixelOf(shot, line, place - 1) /\ data_bridge \in Int
        /\ color_ready' <=> lval /\ Paired /\ col % 4 = 2
        /\ buffer_write' = color_ready
        /\ output_color \in Colors
    BY ColorMoves
  <1>2. /\ row \in Nat /\ col \in Nat /\ shot \in Nat /\ shot' = shot
        /\ line \in Nat /\ place \in Nat
    BY SensorMoves, LineMoves
  <1>3. color_ready <=> lval /\ Paired /\ col % 4 = 3
    BY DEF ColorInv
  <1> HIDE DEF q
  <1>4. CASE ~(lval /\ Paired)
    <2>1. ~(color_ready') /\ ~(buffer_write')
      BY <1>1, <1>3, <1>4
    <2>2. ~(Paired' /\ lval' /\ col' % 4 \in {2, 3})
          /\ ~(Paired' /\ col' \in 4..SENSOR_COLUMNS /\ col' % 4 = 0)
      <3>1. CASE lval
        <4>1. line' = line
          BY <3>1, LineMoves DEF Steps
        <4>2. Paired' <=> Paired
          BY <4>1 DEF Paired
        <4>3. QED
          BY <1>4, <3>1, <4>2
      <3>2. CASE ~lval
        <4>1. col' = 0 \/ (col' \in Nat /\ col' > SENSOR_COLUMNS)
          BY <1>2, <3>2, SensorMoves, Sizes
          DEF Opens, Advances, Breaks, Pauses, CountInv, lval, fval
        <4>2. 0 % 4 = 0
          OBVIOUS
        <4>3. col' \notin 4..SENSOR_COLUMNS
          BY <4>1, Sizes
        <4>4. lval' => col' = 0
          BY <4>1, Sizes DEF lval, fval
        <4>5. QED
          BY <4>2, <4>3, <4>4
      <3>3. QED
        BY <3>1, <3>2
    <2>3. QED
      BY <2>1, <2>2 DEF ColorInv
  <1>5. CASE lval /\ Paired
    <2>1. /\ row' = row /\ col' = col + 1 /\ col < SENSOR_COLUMNS
          /\ line' = line /\ place' = place + 1 /\ place < LineLength
          /\ place % 4 = col % 4 /\ (lval' <=> col + 1 < SENSOR_COLUMNS)
      BY <1>5, SensorMoves, LineMoves DEF Advances, Steps, lval, fval
    <2>9. /\ Paired' /\ line % 2 = 1
          /\ MadeNow' = Before(line) + place \div 4
      <3>1. (place + 1) - 1 = place
        BY <1>2
      <3>2. QED
        BY <1>5, <2>1, <3>1 DEF Paired, MadeNow, Before
    <2>2. color_ready' <=> lval' /\ Paired' /\ col' % 4 = 3
      <3>1. col % 4 = 2 <=> (col + 1) % 4 = 3
        BY <1>2
      <3>2. col % 4 = 2 => col + 1 < SENSOR_COLUMNS
        BY <1>2, <2>1, Sizes
      <3>3. QED
        BY <1>1, <1>5, <2>1, <2>9, <3>1, <3>2
    <2>3. buffer_write' <=> Paired' /\ col' \in 4..SENSOR_COLUMNS /\ col' % 4 = 0
      <3>1. col % 4 = 3 <=> (col + 1) \in 4..SENSOR_COLUMNS /\ (col + 1) % 4 = 0
        BY <1>2, <2>1, Sizes
      <3>2. QED
        BY <1>1, <1>3, <1>5, <2>1, <2>9, <3>1
    <2>4. CASE col % 4 \notin {1, 2}
      <3>1. output_color' = output_color /\ col' % 4 # 2 /\ ~(color_ready')
        BY <1>1, <1>2, <2>1, <2>4
      <3>2. buffer_write' => output_color' = Color(shot, MadeNow)
        BY <1>1, <3>1 DEF ColorInv
      <3>3. buffer_write' => MadeNow' = MadeNow
        <4>1. buffer_write' => place \div 4 = (place - 1) \div 4
          <5>1. buffer_write' => place % 4 = 3
            BY <1>1, <1>3, <2>1
          <5>2. place % 4 = 3 => place \div 4 = (place - 1) \div 4
            BY <1>2
          <5>3. QED
            BY <5>1, <5>2
        <4>2. QED
          BY <2>9, <4>1 DEF MadeNow
      <3>4. (Color(shot, MadeNow))' = Color(shot, MadeNow')
        BY <1>2 DEF Color, PixelAt, LineLength, ColorsOfLine
      <3>5. QED
        BY <1>2, <2>2, <2>3, <3>1, <3>2, <3>3, <3>4 DEF ColorInv
    <2>5. CASE col % 4 = 1
      <3>1. output_color'.b = data_bridge /\ output_color'.g1 = q
        <4>1. output_color' = [output_color EXCEPT !.b = data_bridge, !.g1 = q]
          BY <1>1, <1>5, <2>5
        <4>2. data_bridge \in Int /\ q \in Int /\ output_color \in Colors
          BY <1>1, <1>5, <2>5
        <4>3. DOMAIN output_color = Names
          BY <4>2, ColorShape
        <4>4. QED
          BY <4>1, <4>3 DEF Names
      <3>2. place' - 2 = place - 1 /\ ~(color_ready') /\ ~(buffer_write')
        BY <1>1, <1>2, <1>3, <2>1, <2>5
      <3>3. /\ data_bridge = PixelOf(shot, line, place - 1)
            /\ q = PixelOf(shot, line - 1, place - 1)
        BY <1>1, <1>5, <2>5
      <3>4. /\ PixelOf(shot, line, place - 2)' = PixelOf(shot, line, place - 1)
            /\ PixelOf(shot, line - 1, place - 2)' = PixelOf(shot, line - 1, place - 1)
        BY <1>2, <2>1, <3>2 DEF PixelOf, PixelAt, Fold, LineLength
      <3>5. QED
        BY <2>2, <2>3, <3>1, <3>2, <3>3, <3>4 DEF ColorInv
    <2>6. CASE col % 4 = 2
      <3>1. output_color' = [b |-> output_color.b, g1 |-> output_color.g1,
                             g2 |-> data_bridge, r |-> q]
        <4>1. output_color' = [output_color EXCEPT !.g2 = data_bridge, !.r = q]
          BY <1>1, <1>5, <2>6
        <4>2. data_bridge \in Int /\ q \in Int /\ output_color \in Colors
          BY <1>1, <1>5, <2>6
        <4>3. QED
          BY <4>1, <4>2, SecondHalf
      <3>2. /\ output_color.b = PixelOf(shot, line, place - 2)
            /\ output_color.g1 = PixelOf(shot, line - 1, place - 2)
        BY <1>5, <2>6 DEF ColorInv
      <3>3. PICK k \in 0..(ColorsOfLine - 1) : place = 4 * k + 2
        <4>1. place = 4 * (place \div 4) + 2 /\ place \div 4 \in 0..(ColorsOfLine - 1)
          BY <1>2, <2>1, <2>6, Sizes
        <4>2. QED
          BY <4>1
      <3>4. /\ place - 2 = 4 * k /\ place - 1 = 4 * k + 1 /\ place \div 4 = k
        BY <3>3, Sizes
      <3>5. Color(shot, Before(line) + k) =
              [g1 |-> PixelOf(shot, line - 1, 4 * k), r  |-> PixelOf(shot, line - 1, 4 * k + 1),
               b  |-> PixelOf(shot, line, 4 * k),     g2 |-> PixelOf(shot, line, 4 * k + 1)]
        BY <1>2, <2>9, ColorAt
      <3>6. MadeNow' = Before(line) + k
        BY <2>9, <3>4
      <3>7. output_color' = Color(shot, Before(line) + k)
        BY <1>1, <1>5, <2>6, <3>1, <3>2, <3>4, <3>5
      <3>8. (Color(shot, MadeNow))' = Color(shot, MadeNow')
        BY <1>2 DEF Color, PixelAt, LineLength, ColorsOfLine
      <3>9. col' % 4 = 3
        BY <1>2, <2>1, <2>6
      <3>10. QED
        BY <2>2, <2>3, <3>6, <3>7, <3>8, <3>9 DEF ColorInv
    <2>7. QED
      BY <1>2, <2>4, <2>5, <2>6
  <1>6. QED
    BY <1>4, <1>5

(* Between two images and after a clear there are no pixels and no colors; *)
(* then nothing depends on the capture.                                    *)
Rested ==
  /\ row = SENSOR_ROWS => col = 0
  /\ row_counter % 4 = 0 /\ col_counter = 0
  /\ ~pixel_valid /\ push_state /\ usedw = 0 /\ ~color_ready /\ ~buffer_write

LEMMA RestedPixels ==
  Image /\ row \in 0..SENSOR_ROWS /\ col \in Nat /\ ImageOver =>
    (CountInv /\ BayerInv /\ ColorInv <=> Rested)
  <1> SUFFICES ASSUME Image, row \in 0..SENSOR_ROWS, col \in Nat, ImageOver,
                      row = SENSOR_ROWS => col = 0
               PROVE  CountInv /\ BayerInv /\ ColorInv <=> Rested
    BY DEF CountInv, Rested
  <1>1. /\ Kept(0) = 0 /\ Kept(LineLength) = BAYER_LINE /\ BAYER_LINE - BAYER_LINE = 0
        /\ 0 < LineLength /\ ~(LineLength < LineLength)
    BY LineFills, Sizes
  <1>2. /\ ~lval /\ col \notin 4..SENSOR_COLUMNS
        /\ push_state <=> (push_state <=> (~Paired <=> place < LineLength))
        /\ (IF Paired THEN BAYER_LINE - Fill ELSE Fill) = 0
    <2>1. CASE row = SENSOR_ROWS
      <3>1. line = LineCount /\ place = 0 /\ col = 0
        BY <2>1, Coordinates
      <3>2. ~Paired
        BY <3>1, Sizes DEF Paired
      <3>3. ~lval /\ col \notin 4..SENSOR_COLUMNS
        BY <2>1, <3>1, Sizes DEF lval, fval
      <3>4. Fill = 0 /\ place < LineLength
        BY <1>1, <3>1 DEF Fill
      <3>5. QED
        BY <3>2, <3>3, <3>4, Zenon
    <2>2. CASE row = SENSOR_ROWS - 1 /\ col > SENSOR_COLUMNS
      <3>1. line = LineCount - 1 /\ place = LineLength
        BY <2>2, Coordinates, Sizes
      <3>2. Paired
        BY <3>1, Sizes DEF Paired
      <3>3. ~lval /\ col \notin 4..SENSOR_COLUMNS
        BY <2>2, Sizes DEF lval, fval
      <3>4. Fill = BAYER_LINE /\ ~(place < LineLength)
        BY <1>1, <3>1 DEF Fill
      <3>5. QED
        BY <1>1, <3>2, <3>3, <3>4, Zenon
    <2>3. QED
      BY <2>1, <2>2 DEF ImageOver
  <1>3. CountInv <=> row_counter % 4 = 0 /\ col_counter = 0 /\ ~pixel_valid
    BY <1>2 DEF CountInv
  <1>4. BayerInv <=> push_state /\ usedw = 0
    BY <1>2 DEF BayerInv
  <1>5. ColorInv <=> ~color_ready /\ ~buffer_write
    BY <1>2 DEF ColorInv
  <1>6. QED
    BY <1>3, <1>4, <1>5, Zenon DEF Rested

LEMMA RestedPixelsAfter ==
  (Image /\ row \in 0..SENSOR_ROWS /\ col \in Nat /\ ImageOver =>
     (CountInv /\ BayerInv /\ ColorInv <=> Rested))'
  BY RestedPixels, PTL

LEMMA ImageStays == Image => Image'
  BY DEF Image, Fold, LineCount, AllColors, LineLength, ColorsOfLine, Copies

LEMMA EmptyLength == Len(<<>>) = 0 /\ \A S : \A s \in Seq(S) : Len(s) = 0 => s = <<>>
  BY EmptySeq, LenProperties

(* An edge outside the state BUSY, or that leaves it. *)
LEMMA ClearStep ==
  ASSUME Image, TypeInv, PixelInv, ImageOver, PixTick, ~Running, ~(start_o /\ stop_o)
  PROVE  PixelInv' /\ ImageOver'
  <1>1. /\ CtrlClear
        /\ row \in Nat /\ row <= SENSOR_ROWS /\ col \in Nat
    BY SensorMoves DEF PixTick, CtrlTick, Running, TypeInv, TypeOK, CtrlTypeOK
  <1>2. /\ ImageOver'
        /\ row' = SENSOR_ROWS => col' = 0
        /\ row' \in 0..SENSOR_ROWS /\ col' \in Nat
    <2>1. CASE Opens
      BY <2>1 DEF PixTick, CtrlTick, Control, Running, Opens
    <2>2. CASE Advances
      BY <1>1, <2>2, Sizes DEF Advances, ImageOver
    <2>3. CASE Breaks
      BY <1>1, <2>3, Sizes DEF Breaks, ImageOver
    <2>4. CASE Pauses
      BY <1>1, <2>4, Sizes DEF Pauses, ImageOver, PixelInv, CountInv
    <2>5. QED
      BY <2>1, <2>2, <2>3, <2>4, SensorMoves
  <1>3. Rested'
    <2>1. 0 % 4 = 0
      OBVIOUS
    <2>2. QED
      BY <1>1, <1>2, <2>1, EmptyLength DEF CtrlClear, Rested, usedw
  <1>4. QED
    BY <1>2, <1>3, ImageStays, RestedPixelsAfter DEF PixelInv

(* An edge in the state BUSY. *)
LEMMA RunningStep ==
  ASSUME Image, TypeInv, PixelInv, PixTick, Running
  PROVE  PixelInv'
  BY CountStep, BayerStep, ColorStep DEF PixelInv, Running

(* A cycle of the system clock moves none of this; a capture begins        *)
(* between two images.                                                     *)
LEMMA PixelSystem ==
  ASSUME Image, TypeInv, PixelInv, UNCHANGED <<ctrlVars, row, col>>,
         shot' # shot => ImageOver
  PROVE  PixelInv' /\ (ImageOver <=> ImageOver')
  <1>1. /\ row' = row /\ col' = col /\ ctrl_state' = ctrl_state
        /\ row_counter' = row_counter /\ col_counter' = col_counter
        /\ pixel_valid' = pixel_valid /\ data_bridge' = data_bridge /\ bayer' = bayer
        /\ push_state' = push_state /\ color_ready' = color_ready
        /\ output_color' = output_color /\ buffer_write' = buffer_write
        /\ line' = line /\ place' = place
    BY LineAfter DEF ctrlVars, line, place
  <1>2. (ImageOver <=> ImageOver') /\ (Rested <=> Rested')
    BY <1>1 DEF ImageOver, Rested, usedw
  <1>3. CASE shot' = shot
    <2>1. \A l, v : PixelOf(shot, l, v)' = PixelOf(shot, l, v)
      BY <1>3 DEF PixelOf, PixelAt, Fold, LineLength
    <2>2. CountInv' /\ (ctrl_state' = "IDLE" => ImageOver')
      BY <1>1, <1>2, <1>3 DEF PixelInv, CountInv, lval, fval, PixelAt
    <2>3. BayerInv'
      BY <1>1, <1>3, <2>1
      DEF PixelInv, BayerInv, usedw, Paired, Fill, Kept, KeptPlace, LineLength
    <2>4. ColorInv'
      <3>1. Color(shot, MadeNow)' = Color(shot, MadeNow)
        BY <1>1, <1>3 DEF Color, MadeNow, Before, PixelAt, LineLength, ColorsOfLine
      <3>2. QED
        BY <1>1, <2>1, <3>1 DEF PixelInv, ColorInv, Paired, lval, fval
    <2>5. QED
      BY <1>2, <2>2, <2>3, <2>4 DEF PixelInv
  <1>4. CASE ImageOver
    <2>1. row \in 0..SENSOR_ROWS /\ col \in Nat
      BY Bounds DEF TypeInv, TypeOK
    <2>2. Rested'
      BY <1>2, <1>4, <2>1, RestedPixels DEF PixelInv
    <2>3. QED
      BY <1>1, <1>2, <1>4, <2>1, <2>2, ImageStays, RestedPixelsAfter DEF PixelInv
  <1>5. QED
    BY <1>2, <1>3, <1>4

LEMMA PixelReset ==
  ASSUME Image, TypeInv, Reset
  PROVE  PixelInv' /\ ImageOver'
  <1>1. /\ row' = SENSOR_ROWS /\ col' = 0 /\ row' \in 0..SENSOR_ROWS /\ col' \in Nat
        /\ ImageOver'
    BY Bounds DEF Reset, ImageOver
  <1>2. Rested'
    BY <1>1, EmptyLength DEF Reset, CtrlReset, CtrlClear, Rested, usedw
  <1>3. QED
    BY <1>1, <1>2, ImageStays, RestedPixelsAfter DEF PixelInv

LEMMA PixelInit == Image /\ Init => PixelInv /\ ImageOver
  <1> SUFFICES ASSUME Image, Init PROVE PixelInv /\ ImageOver
    OBVIOUS
  <1>1. row = SENSOR_ROWS /\ col = 0 /\ row \in 0..SENSOR_ROWS /\ col \in Nat /\ ImageOver
    BY Bounds DEF Init, ImageOver
  <1>2. Rested
    BY <1>1, EmptyLength DEF Init, CtrlInit, Rested, usedw
  <1>3. QED
    BY <1>1, <1>2, RestedPixels DEF PixelInv

-----------------------------------------------------------------------------
(* The colors of a frame, from the Bayer FIFO to the memory.               *)

(* The colors written to the Buffer FIFO so far. *)
Made == Before(line) + (IF ~Paired THEN 0
                        ELSE IF col \in 1..SENSOR_COLUMNS THEN (place - 1) \div 4
                        ELSE place \div 4)

LEMMA MadeBound ==
  ASSUME Image, row \in 0..SENSOR_ROWS, col \in Nat, row = SENSOR_ROWS => col = 0
  PROVE  Made \in Nat /\ Made <= AllColors /\ (Made = AllColors => ImageOver)
  <1> DEFINE part == IF ~Paired THEN 0
                     ELSE IF col \in 1..SENSOR_COLUMNS THEN (place - 1) \div 4
                     ELSE place \div 4
  <1>1. /\ place \in Nat /\ place <= LineLength /\ line \in Nat /\ line <= LineCount
        /\ ColorsOfLine \in Nat /\ ColorsOfLine > 0 /\ LineLength = 4 * ColorsOfLine
        /\ LineCount \in Nat /\ LineCount % 2 = 0
    BY Coordinates, Sizes
  <1>2. col \in 1..SENSOR_COLUMNS => place >= 1
    BY Coordinates
  <1>3. /\ part \in Nat /\ part <= ColorsOfLine
        /\ part = ColorsOfLine => Paired /\ place = LineLength /\ ~(col \in 1..SENSOR_COLUMNS)
    <2>1. CASE ~Paired
      BY <1>1, <2>1
    <2>2. CASE Paired /\ col \in 1..SENSOR_COLUMNS
      <3>1. (place - 1) \div 4 \in Nat /\ (place - 1) \div 4 < ColorsOfLine
        BY <1>1, <1>2, <2>2
      <3>2. QED
        BY <1>1, <2>2, <3>1
    <2>3. CASE Paired /\ ~(col \in 1..SENSOR_COLUMNS)
      <3>1. /\ place \div 4 \in Nat /\ place \div 4 <= ColorsOfLine
            /\ place \div 4 = ColorsOfLine => place = LineLength
        BY <1>1
      <3>2. QED
        BY <2>3, <3>1
    <2>4. QED
      BY <2>1, <2>2, <2>3
  <1>4. Made = Before(line) + part
    BY DEF Made
  <1> HIDE DEF part
  <1>5. /\ Before(line) \in Nat /\ AllColors \in Nat
        /\ line < LineCount => Before(line) + ColorsOfLine <= AllColors
        /\ line < LineCount - 1 /\ Paired => Before(line) + ColorsOfLine < AllColors
        /\ Before(LineCount) = AllColors
    BY <1>1, Lines DEF Paired
  <1>6. CASE line = LineCount
    <2>1. row = SENSOR_ROWS
      BY <1>6, Coordinates
    <2>2. ~Paired
      BY <1>1, <1>6 DEF Paired
    <2>3. part = 0
      BY <2>2 DEF part
    <2>4. QED
      BY <1>4, <1>5, <1>6, <2>1, <2>3 DEF ImageOver
  <1>7. CASE line < LineCount
    <2>1. Made \in Nat /\ Made <= AllColors
      BY <1>1, <1>3, <1>4, <1>5, <1>7
    <2>2. Made = AllColors => part = ColorsOfLine /\ ~(line < LineCount - 1)
      BY <1>1, <1>3, <1>4, <1>5, <1>7
    <2>3. Made = AllColors => line = LineCount - 1 /\ place = LineLength
                              /\ ~(col \in 1..SENSOR_COLUMNS)
      BY <1>1, <1>3, <1>7, <2>2
    <2>4. Made = AllColors => ImageOver
      <3> SUFFICES ASSUME Made = AllColors PROVE ImageOver
        OBVIOUS
      <3>1. line = LineCount - 1 /\ place = LineLength /\ ~(col \in 1..SENSOR_COLUMNS)
        BY <2>3
      <3>2. row = SENSOR_ROWS - 1
        <4>1. row < SENSOR_ROWS - 1 /\ line = LineCount - 1 => Fold = 2 /\ place <= BAYER_LINE
          BY Coordinates
        <4>2. row # SENSOR_ROWS
          BY <1>7, Coordinates, <1>1
        <4>3. QED
          BY <3>1, <4>1, <4>2, Sizes
      <3>3. col > SENSOR_COLUMNS
        <4>1. col # 0
          <5>1. CASE Fold = 1
            BY <3>1, <5>1, Sizes DEF place
          <5>2. CASE Fold = 2 /\ SENSOR_COLUMNS = BAYER_LINE
            BY <3>1, <5>2, Sizes DEF place
          <5>3. QED
            BY <5>1, <5>2, Sizes
        <4>2. QED
          BY <3>1, <4>1, Sizes
      <3>4. QED
        BY <3>2, <3>3 DEF ImageOver
    <2>5. QED
      BY <2>1, <2>4
  <1>8. QED
    BY <1>1, <1>6, <1>7

LEMMA MadeMoves ==
  ASSUME Image, TypeInv, PixelInv, PixTick
  PROVE  /\ Opens => Made' = 0
         /\ ~Opens => Made' = Made + (IF buffer_write THEN 1 ELSE 0)
         /\ buffer_write => MadeNow = Made /\ output_color = Color(shot, Made)
  <1>1. /\ Opens \/ Advances \/ Breaks \/ Pauses
        /\ row \in 0..SENSOR_ROWS /\ row \in Nat /\ row <= SENSOR_ROWS /\ col \in Nat
        /\ line \in Nat /\ place \in Nat /\ place <= LineLength
        /\ buffer_write <=> Paired /\ col \in 4..SENSOR_COLUMNS /\ col % 4 = 0
        /\ row = SENSOR_ROWS => col = 0
        /\ col \in 1..SENSOR_COLUMNS => place >= col /\ place % 4 = col % 4
        /\ LineLength = 4 * ColorsOfLine /\ ColorsOfLine \in Nat
        /\ SENSOR_COLUMNS \in Nat /\ SENSOR_COLUMNS > 0 /\ SENSOR_COLUMNS % 4 = 0
    <2>1. row \in 0..SENSOR_ROWS /\ col \in Nat /\ (row = SENSOR_ROWS => col = 0)
      BY SensorMoves, Sizes DEF PixelInv, CountInv
    <2>2. col \in 1..SENSOR_COLUMNS => place >= col /\ place % 4 = col % 4
      BY <2>1, Coordinates
    <2>3. line \in Nat /\ place \in Nat /\ place <= LineLength
      BY LineMoves DEF PixelInv
    <2>4. QED
      BY <2>1, <2>2, <2>3, SensorMoves, Sizes DEF PixelInv, ColorInv
  <1>2. buffer_write => MadeNow = Made /\ output_color = Color(shot, Made)
    <2>1. buffer_write => col \in 1..SENSOR_COLUMNS
      BY <1>1
    <2>2. buffer_write => MadeNow = Made
      BY <1>1, <2>1 DEF Made, MadeNow
    <2>3. QED
      BY <2>2 DEF PixelInv, ColorInv
  <1>3. /\ Before(line) \in Nat
        /\ line % 2 = 0 => Before(line + 1) = Before(line)
        /\ line % 2 = 1 => Before(line + 1) = Before(line) + ColorsOfLine
        /\ Before(0) = 0
    BY <1>1, Lines
  <1> DEFINE part(c, p) == IF c \in 1..SENSOR_COLUMNS THEN (p - 1) \div 4 ELSE p \div 4
  <1>4. /\ Made = Before(line) + (IF ~Paired THEN 0 ELSE part(col, place))
        /\ Made' = Before(line') + (IF ~(Paired') THEN 0 ELSE part(col', place'))
    BY DEF Made, Before, ColorsOfLine
  <1>5. CASE Opens
    <2>1. line' = 0 /\ place' = 0
      BY <1>5, LineMoves DEF PixelInv
    <2>2. ~(Paired')
      BY <2>1 DEF Paired
    <2>3. QED
      BY <1>2, <1>3, <1>4, <1>5, <2>1, <2>2
  <1>6. CASE lval
    <2>1. /\ line' = line /\ place' = place + 1 /\ place < LineLength /\ place % 4 = col % 4
          /\ col' = col + 1 /\ col < SENSOR_COLUMNS /\ (Paired' <=> Paired) /\ ~Opens
      BY <1>6, SensorMoves, LineMoves DEF PixelInv, Advances, Steps, Paired, lval, fval, Opens
    <2>2. part(col', place') = place \div 4 /\ place \div 4 \in Nat
      BY <1>1, <2>1
    <2>3. Paired => place \div 4 = part(col, place) + (IF buffer_write THEN 1 ELSE 0)
      <3>1. CASE col = 0
        BY <1>1, <2>1, <3>1
      <3>2. CASE col # 0
        <4>1. col \in 1..SENSOR_COLUMNS /\ (col \in 4..SENSOR_COLUMNS <=> col >= 4)
          BY <1>1, <2>1, <3>2
        <4>2. place >= 1 /\ part(col, place) = (place - 1) \div 4
          BY <1>1, <4>1
        <4>3. place \div 4 = (place - 1) \div 4 + (IF place % 4 = 0 THEN 1 ELSE 0)
          BY <1>1, <4>2
        <4>4. col % 4 = 0 => col >= 4
          BY <1>1, <4>1
        <4>5. Paired => (buffer_write <=> place % 4 = 0)
          BY <1>1, <2>1, <4>1, <4>4
        <4>6. QED
          BY <4>2, <4>3, <4>5
      <3>3. QED
        BY <3>1, <3>2
    <2>4. ~Paired => ~buffer_write
      BY <1>1
    <2>5. CASE Paired
      <3>1. part(col, place) \in Int
        BY <1>1
      <3>2. QED
        BY <1>2, <1>3, <1>4, <2>1, <2>2, <2>3, <2>5, <3>1
    <2>6. CASE ~Paired
      BY <1>2, <1>3, <1>4, <2>1, <2>4, <2>6
    <2>7. QED
      BY <2>5, <2>6
  <1>7. CASE ~lval /\ ~Opens
    <2>1. part(col, place) + (IF buffer_write THEN 1 ELSE 0) = place \div 4 \/ ~Paired
      <3> SUFFICES ASSUME Paired
                   PROVE  part(col, place) + (IF buffer_write THEN 1 ELSE 0) = place \div 4
        OBVIOUS
      <3>1. row < SENSOR_ROWS /\ ~(col < SENSOR_COLUMNS)
        BY <1>1, <1>7, LineMoves, Sizes DEF PixelInv, lval, fval
      <3>2. CASE col = SENSOR_COLUMNS
        <4>1. buffer_write /\ col \in 1..SENSOR_COLUMNS /\ place % 4 = 0 /\ place >= 1
          BY <1>1, <3>2
        <4>2. (place - 1) \div 4 + 1 = place \div 4
          BY <1>1, <4>1
        <4>3. QED
          BY <4>1, <4>2
      <3>3. CASE col # SENSOR_COLUMNS
        <4>1. col \notin 1..SENSOR_COLUMNS /\ col \notin 4..SENSOR_COLUMNS
          BY <1>1, <3>1, <3>3
        <4>2. ~buffer_write /\ place \div 4 \in Nat
          BY <1>1, <4>1
        <4>3. QED
          BY <4>1, <4>2
      <3>4. QED
        BY <3>2, <3>3
    <2>2. ~Paired => ~buffer_write
      BY <1>1
    <2>3. Rests \/ Turns
      <3>1. row < SENSOR_ROWS => Rests \/ Turns
        BY <1>7, LineMoves DEF PixelInv
      <3>2. row = SENSOR_ROWS => Pauses
        BY <1>1, <1>7 DEF Advances, Breaks
      <3>3. Pauses => Rests
        BY LineMoves DEF PixelInv
      <3>4. row < SENSOR_ROWS \/ row = SENSOR_ROWS
        BY <1>1, Sizes
      <3>5. QED
        BY <3>1, <3>2, <3>3, <3>4, Zenon
    <2>4. col' \notin 1..SENSOR_COLUMNS
      <3>1. col' = 0 \/ (col' \in Nat /\ col' > SENSOR_COLUMNS)
        BY <1>1, <1>7, Sizes DEF Advances, Breaks, Pauses, lval, fval
      <3>2. QED
        BY <1>1, <3>1
    <2>5. Made + (IF buffer_write THEN 1 ELSE 0)
            = Before(line) + (IF Paired THEN place \div 4 ELSE 0)
      <3>1. CASE Paired
        <4>1. part(col, place) \in Int
          BY <1>1
        <4>2. Made = Before(line) + part(col, place)
          BY <1>4, <3>1
        <4> HIDE DEF part
        <4>3. QED
          BY <1>3, <2>1, <3>1, <4>1, <4>2
      <3>2. CASE ~Paired
        BY <1>3, <1>4, <2>2, <3>2
      <3>3. QED
        BY <3>1, <3>2
    <2>6. CASE Rests
      <3>1. Made' = Before(line) + (IF Paired THEN place \div 4 ELSE 0)
        <4>1. line' = line /\ place' = place /\ (Paired' <=> Paired)
          BY <2>6 DEF Rests, Paired
        <4>2. part(col', place') = place \div 4
          BY <2>4, <4>1
        <4> HIDE DEF part
        <4>3. QED
          BY <1>4, <4>1, <4>2
      <3>2. QED
        BY <1>2, <1>7, <2>5, <3>1
    <2>7. CASE Turns
      <3>1. line' = line + 1 /\ place' = 0 /\ place = LineLength
        BY <2>7 DEF Turns
      <3>2. part(col', place') = 0
        BY <2>4, <3>1
      <3>3. Made' = Before(line + 1)
        <4>1. Before(line + 1) \in Nat
          BY <1>1, Lines
        <4> HIDE DEF part
        <4>2. QED
          BY <1>4, <3>1, <3>2, <4>1
      <3>4. place \div 4 = ColorsOfLine
        BY <1>1, <3>1
      <3>5. Before(line + 1) = Before(line) + (IF Paired THEN ColorsOfLine ELSE 0)
        BY <1>1, <1>3 DEF Paired
      <3>6. QED
        BY <1>2, <1>7, <2>5, <3>3, <3>4, <3>5
    <2>8. QED
      BY <2>3, <2>6, <2>7
  <1>8. QED
    BY <1>5, <1>6, <1>7, <1>2

(* The colors of s are those of capture n from the first on. *)
Run(s, n, first) == \A i \in 1..Len(s) : s[i] = Color(n, first + i - 1)

LEMMA RunEmpty == \A n, first : Run(<<>>, n, first)
  BY EmptyLength DEF Run

LEMMA RunAppends ==
  ASSUME NEW s \in Seq(Colors), NEW n, NEW first \in Nat, Run(s, n, first),
         Color(n, first + Len(s)) \in Colors
  PROVE  Run(Append(s, Color(n, first + Len(s))), n, first)
  <1> DEFINE e == Color(n, first + Len(s))
             t == Append(s, e)
  <1>1. /\ Len(t) = Len(s) + 1 /\ Len(s) \in Nat
        /\ \A i \in 1..Len(s) : t[i] = s[i]
        /\ t[Len(s) + 1] = e
    BY Appends
  <1>2. Len(t) = Len(s) + 1 => first + Len(t) - 1 = first + Len(s)
    BY <1>1
  <1> HIDE DEF t
  <1>3. ASSUME NEW i \in 1..Len(t) PROVE t[i] = Color(n, first + i - 1)
    <2>1. CASE i \in 1..Len(s)
      BY <1>1, <2>1 DEF Run
    <2>2. CASE i = Len(s) + 1
      BY <1>1, <1>2, <2>2
    <2>3. QED
      BY <1>1, <1>3, <2>1, <2>2
  <1>4. Run(t, n, first)
    BY <1>3 DEF Run
  <1>5. QED
    BY <1>4 DEF t

LEMMA RunTail ==
  ASSUME NEW s \in Seq(Colors), s # <<>>, NEW n, NEW first \in Nat, Run(s, n, first)
  PROVE  Run(Tail(s), n, first + 1) /\ s[1] = Color(n, first)
  <1>1. /\ Len(Tail(s)) = Len(s) - 1 /\ Len(s) \in Nat /\ Len(s) >= 1
        /\ \A i \in 1..(Len(s) - 1) : Tail(s)[i] = s[i + 1]
    BY Tails
  <1>2. \A i \in 1..(Len(s) - 1) : s[i + 1] = Color(n, first + 1 + i - 1)
    <2> SUFFICES ASSUME NEW i \in 1..(Len(s) - 1)
                 PROVE  s[i + 1] = Color(n, first + 1 + i - 1)
      OBVIOUS
    <2>1. i + 1 \in 1..Len(s) /\ first + (i + 1) - 1 = first + 1 + i - 1
      BY <1>1
    <2>2. QED
      BY <2>1 DEF Run
  <1>3. s[1] = Color(n, first)
    <2>1. 1 \in 1..Len(s) /\ first + 1 - 1 = first
      BY <1>1
    <2>2. QED
      BY <2>1 DEF Run
  <1>4. QED
    BY <1>1, <1>2, <1>3 DEF Run

LEMMA RunJoins ==
  ASSUME NEW s \in Seq(Colors), NEW t \in Seq(Colors), NEW n, NEW first \in Nat,
         Run(s, n, first), Run(t, n, first + Len(s))
  PROVE  Run(s \o t, n, first)
  <1>1. /\ Len(s \o t) = Len(s) + Len(t) /\ Len(s) \in Nat /\ Len(t) \in Nat
        /\ \A i \in 1..Len(s) : (s \o t)[i] = s[i]
        /\ \A i \in 1..Len(t) : (s \o t)[Len(s) + i] = t[i]
    BY Joins
  <1> DEFINE u == s \o t
  <1> HIDE DEF u
  <1>2. ASSUME NEW i \in 1..Len(u) PROVE u[i] = Color(n, first + i - 1)
    <2>1. CASE i \in 1..Len(s)
      BY <1>1, <2>1 DEF Run, u
    <2>2. CASE i \notin 1..Len(s)
      <3>1. PICK j \in 1..Len(t) : i = Len(s) + j
        <4>1. i - Len(s) \in 1..Len(t) /\ i = Len(s) + (i - Len(s))
          BY <1>1, <1>2, <2>2 DEF u
        <4>2. QED
          BY <4>1
      <3>2. u[i] = t[j]
        BY <1>1, <3>1 DEF u
      <3>3. (first + Len(s)) + j - 1 = first + i - 1
        BY <1>1, <3>1
      <3>4. t[j] = Color(n, (first + Len(s)) + j - 1)
        BY DEF Run
      <3>5. QED
        BY <3>2, <3>3, <3>4
    <2>3. QED
      BY <2>1, <2>2
  <1>3. Run(u, n, first)
    BY <1>2 DEF Run
  <1>4. QED
    BY <1>3 DEF u

LEMMA RunSplits ==
  ASSUME NEW s \in Seq(Colors), NEW k \in 0..Len(s), NEW n, NEW first \in Nat, Run(s, n, first)
  PROVE  Run(SubSeq(s, 1, k), n, first) /\ Run(SubSeq(s, k + 1, Len(s)), n, first + k)
  <1> DEFINE u == SubSeq(s, 1, k)
             v == SubSeq(s, k + 1, Len(s))
  <1>1. /\ Len(u) = k /\ \A i \in 1..k : u[i] = s[i]
        /\ Len(v) = Len(s) - k /\ \A i \in 1..(Len(s) - k) : v[i] = s[i + k]
        /\ Len(s) \in Nat
    BY Crossing, LenProperties
  <1> HIDE DEF u, v
  <1>2. Run(u, n, first)
    <2>1. \A i \in 1..k : i \in 1..Len(s)
      BY <1>1
    <2>2. QED
      BY <1>1, <2>1 DEF Run
  <1>3. ASSUME NEW i \in 1..Len(v) PROVE v[i] = Color(n, first + k + i - 1)
    <2>1. i + k \in 1..Len(s) /\ first + (i + k) - 1 = first + k + i - 1
      BY <1>1, <1>3
    <2>2. v[i] = s[i + k]
      BY <1>1, <1>3
    <2>3. s[i + k] = Color(n, first + (i + k) - 1)
      BY <2>1 DEF Run
    <2>4. QED
      BY <2>1, <2>2, <2>3
  <1>4. Run(v, n, first + k)
    BY <1>3 DEF Run
  <1>5. QED
    BY <1>2, <1>4 DEF u, v

(* A cycle moves colors through the Buffer FIFO in order. *)
LEMMA RunPasses ==
  ASSUME arriving \in Seq(Colors), waiting \in Seq(Colors), NEW k \in 0..Len(arriving),
         Passes(k),
         NEW n, NEW first \in Nat,
         Run(waiting, n, first), Run(arriving, n, first + Len(waiting)),
         NEW next, next = IF Pops THEN first + 1 ELSE first
  PROVE  /\ Run(waiting', n, next) /\ Run(arriving', n, next + Len(waiting'))
         /\ next + Len(waiting') + Len(arriving') = first + Len(waiting) + Len(arriving)
  <1> DEFINE rest == IF Pops THEN Tail(waiting) ELSE waiting
             new == SubSeq(arriving, 1, k)
             old == SubSeq(arriving, k + 1, Len(arriving))
  <1>1. /\ rest \in Seq(Colors) /\ Run(rest, n, next)
        /\ next + Len(rest) = first + Len(waiting)
        /\ next \in Nat /\ Len(rest) \in Nat /\ Len(waiting) \in Nat /\ Len(arriving) \in Nat
    <2>1. CASE Pops
      <3>1. waiting # <<>>
        BY <2>1 DEF Pops
      <3>2. Tail(waiting) \in Seq(Colors) /\ Len(Tail(waiting)) = Len(waiting) - 1
            /\ Len(waiting) \in Nat /\ Len(waiting) >= 1
        BY <2>1, <3>1, Tails
      <3>3. Run(Tail(waiting), n, first + 1)
        BY <2>1, <3>1, RunTail
      <3>4. Len(arriving) \in Nat
        BY LenProperties
      <3>5. QED
        BY <2>1, <3>2, <3>3, <3>4
    <2>2. CASE ~Pops
      <3>1. Len(arriving) \in Nat /\ Len(waiting) \in Nat
        BY LenProperties
      <3>2. QED
        BY <2>2, <3>1
    <2>3. QED
      BY <2>1, <2>2
  <1>2. /\ new \in Seq(Colors) /\ Len(new) = k
        /\ old \in Seq(Colors) /\ Len(old) = Len(arriving) - k
    BY Crossing
  <1>3. /\ Run(new, n, first + Len(waiting)) /\ Run(old, n, first + Len(waiting) + k)
    BY <1>1, RunSplits
  <1>4. waiting' = rest \o new /\ arriving' = old
    BY DEF Passes
  <1> HIDE DEF rest, new, old
  <1>5. Len(rest \o new) = Len(rest) + Len(new)
    BY <1>1, <1>2, Joins
  <1>6. Run(rest \o new, n, next)
    <2>1. Run(new, n, next + Len(rest))
      BY <1>1, <1>3
    <2>2. QED
      BY <1>1, <1>2, <2>1, RunJoins
  <1>7. /\ next + Len(rest \o new) = first + Len(waiting) + k
        /\ Len(rest \o new) \in Nat
    <2>1. Len(rest \o new) = Len(rest) + k /\ k \in Nat
      BY <1>1, <1>2, <1>5
    <2> DEFINE a == Len(rest \o new)
               b == Len(rest)
               c == Len(waiting)
    <2>2. /\ a = b + k /\ b \in Nat /\ k \in Nat /\ c \in Nat
          /\ next + b = first + c /\ next \in Nat
      BY <1>1, <2>1
    <2> HIDE DEF a, b, c
    <2>3. next + a = first + c + k /\ a \in Nat
      BY <2>2
    <2>4. QED
      BY <2>3 DEF a, c
  <1>8. Run(old, n, next + Len(rest \o new))
    BY <1>3, <1>7
  <1>9. next + Len(rest \o new) + Len(old) = first + Len(waiting) + Len(arriving)
    <2> DEFINE a == next + Len(rest \o new)
               b == Len(old)
               c == Len(waiting)
               d == Len(arriving)
    <2>1. /\ a = first + c + k /\ b = d - k /\ c \in Nat /\ d \in Nat /\ k \in Nat
      BY <1>1, <1>2, <1>7
    <2> HIDE DEF a, b, c, d
    <2>2. a + b = first + c + d
      BY <2>1
    <2>3. QED
      BY <2>2 DEF a, b, c, d
  <1>10. QED
    BY <1>4, <1>6, <1>8, <1>9


(* The words the addresses of the master have passed, the colors removed   *)
(* from the Buffer FIFO, and the words the memory took.                    *)
Written == startAddr_bridge \div 4

Taken == IF Prompt THEN startAddr_bridge \div 8
         ELSE IF RREQ THEN Written - 1 ELSE Written

Put == IF RREQ /\ waiting = <<>> THEN Written - 1 ELSE Written

LEMMA Requests ==
  ASSUME AddressInv, BusInv
  PROVE  /\ RREQ => mas_state = "WAITING_WRITE" /\ startAddr_bridge >= 4
         /\ ~Prompt /\ RREQ => waiting # <<>>
         /\ Prompt /\ mas_state = "WAITING_WRITE" /\ ~RREQ => startAddr_bridge % 8 = 0
         /\ Prompt /\ RREQ /\ waiting = <<>> => startAddr_bridge % 8 = 0
  <1>1. startAddr_bridge \in Nat
    BY Frames DEF AddressInv
  <1>2. CASE Prompt
    <2>1. /\ mas_state # "WAITING_WRITE" => ~RREQ
          /\ mas_state = "WAITING_WRITE" => FirstWrite \/ SecondWrite \/ ThirdWrite
      BY <1>2 DEF BusInv, PromptBus
    <2>2. startAddr_bridge % 8 = 4 => startAddr_bridge >= 4
      BY <1>1
    <2>3. QED
      BY <1>1, <1>2, <2>1, <2>2 DEF FirstWrite, SecondWrite, ThirdWrite
  <1>3. CASE ~Prompt
    BY <1>3 DEF BusInv, WaitingBus
  <1>4. QED
    BY <1>2, <1>3

LEMMA Words ==
  ASSUME AddressInv, BusInv
  PROVE  /\ startAddr_bridge = 4 * Written /\ Written \in 0..FRAME_COLORS
         /\ Taken \in Nat /\ Put \in 0..FRAME_COLORS
         /\ startAddr_bridge' = startAddr_bridge => Written' = Written
         /\ startAddr_bridge' = startAddr_bridge + 4 => Written' = Written + 1
  <1>1. /\ startAddr_bridge \in Nat /\ startAddr_bridge <= 4 * FRAME_COLORS
        /\ startAddr_bridge % 4 = 0 /\ FRAME_COLORS \in Nat
        /\ RREQ => startAddr_bridge >= 4
    BY Frames, Requests DEF AddressInv
  <1>2. /\ startAddr_bridge = 4 * (startAddr_bridge \div 4)
        /\ startAddr_bridge \div 4 \in 0..FRAME_COLORS
        /\ (startAddr_bridge + 4) \div 4 = startAddr_bridge \div 4 + 1
        /\ startAddr_bridge >= 4 => startAddr_bridge \div 4 >= 1
        /\ startAddr_bridge \div 8 \in Nat
    BY <1>1
  <1>3. Put \in 0..FRAME_COLORS
    BY <1>1, <1>2 DEF Written, Put
  <1>4. QED
    BY <1>1, <1>2, <1>3 DEF Written, Taken

(* Two words to a color. *)
LEMMA Halves ==
  ASSUME AddressInv, Prompt
  PROVE  LET j == startAddr_bridge \div 8
         IN  /\ j \in Nat
             /\ startAddr_bridge % 8 = 0 =>
                  /\ Written = 2 * j /\ startAddr_bridge = 8 * j
                  /\ (startAddr_bridge + 4) \div 8 = j
                  /\ Word(shot, 2 * j) = Color(shot, j)
                  /\ Word(shot, 2 * j - 1) = Color(shot, j - 1)
             /\ startAddr_bridge % 8 = 4 =>
                  /\ Written = 2 * j + 1 /\ startAddr_bridge = 8 * j + 4
                  /\ (startAddr_bridge + 4) \div 8 = j + 1
                  /\ Word(shot, 2 * j) = Color(shot, j)
  <1> DEFINE j == startAddr_bridge \div 8
             r == startAddr_bridge % 8
  <1>1. startAddr_bridge \in Nat
    BY Frames DEF AddressInv
  <1>2. startAddr_bridge = 8 * j + r /\ j \in Nat /\ r \in 0..7
    BY <1>1
  <1>3. Written = startAddr_bridge \div 4
    BY DEF Written
  <1>4. \A k : Word(shot, k) = Color(shot, k \div 2)
    BY DEF Word, Copies
  <1> HIDE DEF j, r
  <1>5. (2 * j) \div 2 = j /\ (2 * j - 1) \div 2 = j - 1
    BY <1>2
  <1>6. r = 0 => /\ Written = 2 * j /\ startAddr_bridge = 8 * j
                 /\ (startAddr_bridge + 4) \div 8 = j
    BY <1>2, <1>3
  <1>7. r = 4 => /\ Written = 2 * j + 1 /\ startAddr_bridge = 8 * j + 4
                 /\ (startAddr_bridge + 4) \div 8 = j + 1
    BY <1>2, <1>3
  <1>8. Word(shot, 2 * j) = Color(shot, j) /\ Word(shot, 2 * j - 1) = Color(shot, j - 1)
    BY <1>4, <1>5
  <1>9. QED
    BY <1>2, <1>6, <1>7, <1>8 DEF j, r

(* The first n words of the frame hold colors of this capture, the others  *)
(* still those of the one before.                                          *)
Earlier(k) == IF shot <= 1 THEN Blank ELSE Word(shot - 1, k)

Stored(n) ==
  \A k \in 0..(FRAME_COLORS - 1) : mem[4 * k] = IF k < n THEN Word(shot, k) ELSE Earlier(k)

(* Before the image, while it comes, and after it. *)
Still ==
  /\ ImageOver /\ arriving = <<>> /\ waiting = <<>>
  /\ mas_state # "WAITING_WRITE" /\ startAddr_bridge = 0

Fresh == Still /\ Stored(0) /\ iFrameSent = 0 /\ ~frame_sent_o

Filling ==
  /\ ~exposing /\ iFrameSent = 0 /\ ~frame_sent_o
  /\ ctrl_state = "BUSY"
  /\ Taken + Len(waiting) + Len(arriving) = Made
  /\ Run(waiting, shot, Taken) /\ Run(arriving, shot, Taken + Len(waiting))
  /\ Stored(Put)
  /\ RREQ /\ waiting = <<>> => avm_writedata = Color(shot, Taken - 1)

Complete == Still /\ Stored(FRAME_COLORS) /\ ~exposing

(* Where the program is tells what of this is the case. *)
Phase ==
  /\ pc \in {"address", "length", "stop0", "start1"} \/ (pc = "ready" /\ shot = 0) => Fresh
  /\ pc \in {"poll", "hold"} => Fresh \/ Filling \/ Complete
  /\ pc = "hold" /\ readdata # 0 => Complete /\ ~frame_sent_o
  /\ pc \in {"start0", "stop1"} \/ (pc = "ready" /\ shot > 0) =>
       Complete /\ iFrameSent = 0 /\ ~frame_sent_o
  /\ exposing => pc \in {"stop0", "start1", "poll", "hold"}

FrameInv == AddressInv /\ BusInv /\ PixelInv /\ ProgramInv /\ Phase

LEMMA WordsAfter ==
  ASSUME shot' = shot
  PROVE  \A k : /\ Word(shot, k)' = Word(shot, k) /\ Earlier(k)' = Earlier(k)
                /\ Word(shot', k) = Word(shot, k)
  BY DEF Word, Color, Earlier, PixelAt, LineLength, ColorsOfLine, Copies

LEMMA StoredKept ==
  ASSUME mem' = mem, shot' = shot
  PROVE  /\ Stored(0) => Stored(0)'
         /\ Stored(FRAME_COLORS) => Stored(FRAME_COLORS)'
         /\ Put' = Put => (Stored(Put) => Stored(Put)')
  BY DEF Stored, Earlier, Word, Color, PixelAt, LineLength, ColorsOfLine, Copies

(* The memory takes a word, or none; then it has m of them.                *)
Takes(m) ==
  \/ mem' = mem /\ m = Put
  \/ /\ m = Put + 1 /\ Put \in 0..(FRAME_COLORS - 1)
     /\ mem' = [mem EXCEPT ![4 * Put] = Word(shot, Put)]

LEMMA TakesStores ==
  ASSUME CAM_BASE = 0, mem \in [Addresses -> Colors], Put \in 0..FRAME_COLORS,
         Stored(Put), shot' = shot, NEW m, Takes(m)
  PROVE  \A k \in 0..(FRAME_COLORS - 1) :
           mem'[4 * k] = IF k < m THEN Word(shot, k) ELSE Earlier(k)
  <1> SUFFICES ASSUME NEW k \in 0..(FRAME_COLORS - 1)
               PROVE  mem'[4 * k] = IF k < m THEN Word(shot, k) ELSE Earlier(k)
    OBVIOUS
  <1>1. mem[4 * k] = IF k < Put THEN Word(shot, k) ELSE Earlier(k)
    BY DEF Stored
  <1>2. CASE mem' = mem /\ m = Put
    BY <1>1, <1>2
  <1>3. CASE /\ m = Put + 1 /\ Put \in 0..(FRAME_COLORS - 1)
             /\ mem' = [mem EXCEPT ![4 * Put] = Word(shot, Put)]
    <2>1. 4 * Put \in Addresses /\ 4 * k \in Addresses
      BY <1>3, FrameAddresses
    <2>2. CASE k = Put
      <3>1. k < m
        BY <1>3, <2>2, Frames
      <3>2. mem'[4 * k] = Word(shot, Put)
        BY <1>3, <2>1, <2>2
      <3>3. QED
        BY <2>2, <3>1, <3>2
    <2>3. CASE k # Put
      <3>1. 4 * k # 4 * Put /\ (k < m <=> k < Put)
        BY <1>3, <2>3, Frames
      <3>2. mem'[4 * k] = mem[4 * k]
        BY <1>3, <2>1, <3>1
      <3>3. QED
        BY <1>1, <3>1, <3>2
    <2>4. QED
      BY <2>2, <2>3
  <1>4. QED
    BY <1>2, <1>3 DEF Takes

(* The Buffer FIFO after its last color. *)
LEMMA NothingWaits ==
  ASSUME arriving = <<>>, (IF Pops THEN Tail(waiting) ELSE waiting) = <<>>,
         NEW n \in 0..Len(arriving), Passes(n)
  PROVE  waiting' = <<>> /\ arriving' = <<>>
  <1>1. n = 0
    BY EmptyLength
  <1>2. /\ SubSeq(arriving, 1, n) \in Seq({}) /\ Len(SubSeq(arriving, 1, n)) = 0
        /\ SubSeq(arriving, n + 1, Len(arriving)) \in Seq({})
        /\ Len(SubSeq(arriving, n + 1, Len(arriving))) = 0
    <2>1. arriving \in Seq({}) /\ Len(arriving) = 0
      BY EmptySeq, EmptyLength
    <2>2. QED
      BY <1>1, <2>1, Crossing
  <1>3. SubSeq(arriving, 1, n) = <<>> /\ SubSeq(arriving, n + 1, Len(arriving)) = <<>>
    BY <1>2, EmptyLength
  <1>4. waiting' = <<>> \o <<>> /\ arriving' = <<>>
    BY <1>3 DEF Passes
  <1>5. <<>> \o <<>> = <<>>
    <2>1. <<>> \o <<>> \in Seq({}) /\ Len(<<>> \o <<>>) = 0
      BY EmptySeq, EmptyLength, Joins
    <2>2. QED
      BY <2>1, EmptyLength
  <1>6. QED
    BY <1>4, <1>5

LEMMA StillCycle ==
  ASSUME Memory, TypeInv, AddressInv, BusInv, Still,
         NEW acc, NEW waitrequest \in BOOLEAN, NEW n \in 0..Len(arriving),
         NEW delivered \in BOOLEAN, SysCycle(acc, waitrequest, n, delivered)
  PROVE  Still' /\ Held
  <1>1. BusInv' /\ Passes(n) /\ Held
    <2>1. CASE Prompt
      BY <2>1, PromptCycle DEF Still, Accepted, Repeated, Doubled
    <2>2. CASE ~Prompt
      BY <2>2, WaitingCycle DEF Still, Accepted, Removed, Ended
    <2>3. QED
      BY <2>1, <2>2
  <1>2. waiting' = <<>> /\ arriving' = <<>>
    BY <1>1, NothingWaits DEF Held, Pops, Still
  <1>3. row' = row /\ col' = col
    BY DEF SysCycle
  <1>4. QED
    BY <1>1, <1>2, <1>3 DEF Held, Still, ImageOver

(* What a cycle does to the frame while the image comes: it goes on, or it *)
(* ends.  Then every color made was removed from the Buffer FIFO.          *)
Removes == IF Pops THEN Taken + 1 ELSE Taken

GoesOn ==
  /\ ~(frame_sent_o') /\ Taken' = Removes /\ Takes(Put')
  /\ RREQ' /\ waiting' = <<>> => avm_writedata' = Color(shot, Removes - 1)

Ends ==
  /\ frame_sent_o' /\ mas_state' = "WAITING_DATA" /\ startAddr_bridge' = 0
  /\ Takes(FRAME_COLORS) /\ Copies * Removes = FRAME_COLORS

LEMMA WaitingFills ==
  ASSUME Memory, ~Prompt, TypeInv, AddressInv, BusInv, Filling,
         NEW acc, NEW waitrequest \in BOOLEAN, NEW n \in 0..Len(arriving),
         NEW delivered \in BOOLEAN, SysCycle(acc, waitrequest, n, delivered)
  PROVE  BusInv' /\ Passes(n) /\ (GoesOn \/ Ends)
  <1>1. /\ BusInv' /\ Passes(n) /\ (Accepted \/ Removed \/ Ended \/ Held)
    BY WaitingCycle
  <1>2. /\ startAddr_bridge = 4 * Written /\ Written \in 0..FRAME_COLORS
        /\ Taken \in Nat /\ waiting \in Seq(Colors) /\ mem \in [Addresses -> Colors]
        /\ RREQ \in BOOLEAN /\ FRAME_COLORS \in Nat
        /\ RREQ => waiting # <<>>
        /\ Taken = IF RREQ THEN Written - 1 ELSE Written
        /\ Taken' = IF RREQ' THEN Written' - 1 ELSE Written'
        /\ Put = Written /\ Copies = 1
    BY Words, Requests, Frames DEF TypeInv, TypeOK, MasterTypeOK, Colors, Taken, Put, Copies
  <1>3. CASE Accepted
    <2>1. /\ Written' = Written + 1 /\ Taken' = Written /\ Removes = Taken /\ Taken = Written
          /\ Put' = Put + 1
      BY <1>2, <1>3, Words DEF Accepted, Removes, Pops, Put
    <2>2. Written \in 0..(FRAME_COLORS - 1)
      <3>1. 4 * Written \in Addresses /\ DATA_LENGTH = 4 * FRAME_COLORS
        BY <1>2, <1>3, Frames DEF Accepted
      <3>2. 4 * Written < 4 * FRAME_COLORS
        BY <3>1, FrameAddresses DEF Memory
      <3>3. QED
        BY <1>2, <3>2
    <2>3. waiting[1] = Word(shot, Written)
      <3>1. waiting[1] = Color(shot, Taken)
        BY <1>2, <1>3, RunTail DEF Filling, Accepted
      <3>2. Written \div 1 = Written
        BY <1>2
      <3>3. QED
        BY <1>2, <2>1, <3>1, <3>2 DEF Word
    <2>4. GoesOn
      BY <1>2, <1>3, <2>1, <2>2, <2>3 DEF Accepted, GoesOn, Takes
    <2>5. QED
      BY <1>1, <2>4
  <1>4. CASE Removed \/ Held
    <2>1. Written' = Written /\ ~(RREQ') /\ mem' = mem /\ ~(frame_sent_o')
      BY <1>4, Words DEF Removed, Held
    <2>2. Put' = Put /\ Taken' = Removes
      BY <1>2, <2>1 DEF Removes, Pops, Put
    <2>3. QED
      BY <1>1, <2>1, <2>2 DEF GoesOn, Takes
  <1>5. CASE Ended
    <2>1. startAddr_bridge = DATA_LENGTH /\ RREQ /\ DATA_LENGTH = 4 * FRAME_COLORS
      BY <1>5, Frames DEF Ended, AddressInv
    <2>2. Written = FRAME_COLORS /\ Removes = FRAME_COLORS
      BY <1>2, <2>1 DEF Removes, Pops
    <2>3. QED
      BY <1>1, <1>2, <1>5, <2>2 DEF Ended, Ends, Takes
  <1>6. QED
    BY <1>1, <1>3, <1>4, <1>5

LEMMA PromptFills ==
  ASSUME Memory, Prompt, TypeInv, AddressInv, BusInv, Filling,
         NEW acc, NEW waitrequest \in BOOLEAN, NEW n \in 0..Len(arriving),
         NEW delivered \in BOOLEAN, SysCycle(acc, waitrequest, n, delivered)
  PROVE  BusInv' /\ Passes(n) /\ (GoesOn \/ Ends)
  <1> DEFINE j == startAddr_bridge \div 8
  <1>1. /\ BusInv' /\ Passes(n) /\ (Accepted \/ Repeated \/ Doubled \/ Held)
    BY PromptCycle
  <1>2. /\ startAddr_bridge = 4 * Written /\ Written \in 0..FRAME_COLORS
        /\ Taken = j /\ Taken' = startAddr_bridge' \div 8
        /\ waiting \in Seq(Colors) /\ mem \in [Addresses -> Colors]
        /\ RREQ \in BOOLEAN /\ FRAME_COLORS \in Nat /\ DATA_LENGTH = 4 * FRAME_COLORS
        /\ Copies = 2
    BY Words, Frames DEF TypeInv, TypeOK, MasterTypeOK, Colors, Taken, Copies
  <1>3. /\ j \in Nat
        /\ startAddr_bridge % 8 = 0 =>
             /\ Written = 2 * j /\ startAddr_bridge = 8 * j /\ (startAddr_bridge + 4) \div 8 = j
             /\ Word(shot, 2 * j) = Color(shot, j)
             /\ Word(shot, 2 * j - 1) = Color(shot, j - 1)
        /\ startAddr_bridge % 8 = 4 =>
             /\ Written = 2 * j + 1 /\ startAddr_bridge = 8 * j + 4
             /\ (startAddr_bridge + 4) \div 8 = j + 1
             /\ Word(shot, 2 * j) = Color(shot, j)
    BY Halves
  <1> HIDE DEF j
  <1>4. waiting # <<>> => waiting[1] = Color(shot, j)
    <2>1. Run(waiting, shot, j)
      BY <1>2 DEF Filling
    <2>2. QED
      BY <1>2, <1>3, <2>1, RunTail
  <1>5. \A a \in Addresses : a < 4 * FRAME_COLORS
    BY <1>2, FrameAddresses DEF Memory
  <1>6. CASE Accepted
    <2>1. /\ startAddr_bridge % 8 = 0 /\ ~RREQ /\ RREQ' /\ waiting # <<>> /\ waiting' # <<>>
          /\ startAddr_bridge' = startAddr_bridge + 4 /\ ~(frame_sent_o')
          /\ mem' = [mem EXCEPT ![startAddr_bridge] = waiting[1]]
          /\ startAddr_bridge \in Addresses
      BY <1>6, Requests DEF Accepted
    <2>2. /\ Written' = Written + 1 /\ Put = Written /\ Put' = Written + 1 /\ Removes = Taken
          /\ Taken' = Taken
      BY <1>2, <1>3, <2>1, Words DEF Put, Removes, Pops
    <2>3. Written \in 0..(FRAME_COLORS - 1)
      BY <1>2, <1>5, <2>1
    <2>4. waiting[1] = Word(shot, Written)
      BY <1>3, <1>4, <2>1
    <2>5. GoesOn
      BY <1>2, <2>1, <2>2, <2>3, <2>4 DEF GoesOn, Takes
    <2>6. QED
      BY <1>1, <2>5
  <1>7. CASE Repeated
    <2>1. /\ startAddr_bridge % 8 = 4 /\ RREQ /\ RREQ' /\ waiting # <<>> /\ waiting' = <<>>
          /\ startAddr_bridge' = startAddr_bridge + 4 /\ ~(frame_sent_o')
          /\ mem' = [mem EXCEPT ![startAddr_bridge - 4] = waiting[1]]
          /\ startAddr_bridge - 4 \in Addresses /\ avm_writedata' = waiting[1]
      BY <1>7 DEF Repeated
    <2>2. /\ Written' = Written + 1 /\ Put = Written /\ Put' = Put /\ Removes = Taken + 1
          /\ Taken' = Removes
      BY <1>2, <1>3, <2>1, Words DEF Put, Removes, Pops
    <2>3. mem[startAddr_bridge - 4] = waiting[1]
      <3>1. startAddr_bridge - 4 = 4 * (2 * j) /\ 2 * j < Put
        BY <1>3, <2>1, <2>2
      <3>2. 2 * j \in 0..(FRAME_COLORS - 1)
        BY <1>2, <1>3, <2>2, <3>1
      <3>3. mem[4 * (2 * j)] = Word(shot, 2 * j)
        BY <3>1, <3>2 DEF Filling, Stored
      <3>4. QED
        BY <1>3, <1>4, <2>1, <3>1, <3>3
    <2>4. mem' = mem
      BY <1>2, <2>1, <2>3
    <2>5. avm_writedata' = Color(shot, Removes - 1)
      BY <1>2, <1>3, <1>4, <2>1, <2>2
    <2>6. GoesOn
      BY <2>1, <2>2, <2>4, <2>5 DEF GoesOn, Takes
    <2>7. QED
      BY <1>1, <2>6
  <1>8. CASE Doubled
    <2>1. /\ RREQ /\ ~(RREQ') /\ waiting = <<>> /\ startAddr_bridge % 8 = 0
          /\ startAddr_bridge >= 8 /\ startAddr_bridge - 4 \in Addresses
          /\ mem' = [mem EXCEPT ![startAddr_bridge - 4] = avm_writedata]
          /\ mas_state' = "WAITING_DATA"
      BY <1>8, Requests DEF Doubled
    <2>2. /\ Put = Written - 1 /\ Removes = Taken
      BY <2>1 DEF Put, Removes, Pops
    <2>3. startAddr_bridge - 4 = 4 * Put /\ Put \in 0..(FRAME_COLORS - 1)
      BY <1>2, <1>3, <2>1, <2>2
    <2>4. avm_writedata = Word(shot, Put)
      <3>1. avm_writedata = Color(shot, j - 1)
        BY <1>2, <2>1 DEF Filling
      <3>2. Put = 2 * j - 1
        BY <1>3, <2>1, <2>2
      <3>3. QED
        BY <1>3, <2>1, <3>1, <3>2
    <2>5. mem' = [mem EXCEPT ![4 * Put] = Word(shot, Put)]
      BY <2>1, <2>3, <2>4
    <2>6. CASE datalength_bridge # 0
      <3>1. startAddr_bridge' = startAddr_bridge /\ ~(frame_sent_o')
        BY <1>8, <2>6 DEF Doubled
      <3>2. /\ Put' = Put + 1 /\ Taken' = Taken
        <4>1. Written' = Written
          BY <3>1, Words
        <4>2. Put' = Written'
          BY <2>1 DEF Put
        <4>3. QED
          BY <1>2, <2>2, <3>1, <4>1, <4>2 DEF j
      <3>3. GoesOn
        BY <2>1, <2>2, <2>3, <2>5, <3>1, <3>2 DEF GoesOn, Takes
      <3>4. QED
        BY <1>1, <3>3
    <2>7. CASE datalength_bridge = 0
      <3>1. startAddr_bridge' = 0 /\ frame_sent_o'
        BY <1>8, <2>7 DEF Doubled
      <3>2. startAddr_bridge = 4 * FRAME_COLORS
        BY <1>2, <2>7, Frames DEF AddressInv
      <3>3. FRAME_COLORS = Put + 1 /\ 2 * Taken = FRAME_COLORS
        BY <1>2, <1>3, <2>1, <2>2, <3>2
      <3>4. Ends
        BY <1>2, <2>1, <2>2, <2>3, <2>5, <3>1, <3>3 DEF Ends, Takes
      <3>5. QED
        BY <1>1, <3>4
    <2>8. QED
      BY <2>6, <2>7
  <1>9. CASE Held
    <2>1. ~RREQ /\ ~(RREQ') /\ mem' = mem /\ startAddr_bridge' = startAddr_bridge
          /\ ~(frame_sent_o')
      BY <1>9 DEF Held
    <2>2. Put' = Put /\ Taken' = Taken /\ Removes = Taken
      BY <1>2, <2>1, Words DEF Put, Removes, Pops, j
    <2>3. GoesOn
      BY <2>1, <2>2 DEF GoesOn, Takes
    <2>4. QED
      BY <1>1, <2>3
  <1>10. QED
    BY <1>1, <1>6, <1>7, <1>8, <1>9

LEMMA FillingCycle ==
  ASSUME Image, Memory, TypeInv, AddressInv, BusInv, PixelInv, Filling,
         NEW acc, NEW waitrequest \in BOOLEAN, NEW n \in 0..Len(arriving),
         NEW delivered \in BOOLEAN, SysCycle(acc, waitrequest, n, delivered),
         shot' = shot, iFrameSent' = 0
  PROVE  Filling' \/ (Ends /\ Complete')
  <1>1. /\ BusInv' /\ Passes(n) /\ (GoesOn \/ Ends)
    BY WaitingFills, PromptFills
  <1>2. /\ row' = row /\ col' = col /\ ctrl_state' = ctrl_state /\ ~(exposing')
        /\ line' = line /\ place' = place /\ Made' = Made
    <2>1. row' = row /\ col' = col /\ ctrl_state' = ctrl_state /\ ~(exposing')
      BY DEF SysCycle, ctrlVars, Filling
    <2>2. line' = line /\ place' = place
      BY <2>1, LineAfter DEF line, place
    <2>3. QED
      BY <2>1, <2>2 DEF Made, Before, Paired, ColorsOfLine
  <1>3. /\ arriving \in Seq(Colors) /\ waiting \in Seq(Colors)
        /\ Taken \in Nat /\ shot \in Nat /\ Put \in 0..FRAME_COLORS
        /\ mem \in [Addresses -> Colors] /\ CAM_BASE = 0
    BY Words, CaptureAssumption DEF TypeInv, TypeOK, Colors, ProgramTypeOK, Memory
  <1>4. /\ Run(waiting', shot, Removes) /\ Run(arriving', shot, Removes + Len(waiting'))
        /\ Removes + Len(waiting') + Len(arriving') = Taken + Len(waiting) + Len(arriving)
    <2> DEFINE next == Removes
    <2>1. next = IF Pops THEN Taken + 1 ELSE Taken
      BY DEF Removes
    <2> HIDE DEF next
    <2>2. Run(waiting, shot, Taken) /\ Run(arriving, shot, Taken + Len(waiting))
      BY DEF Filling
    <2>3. /\ Run(waiting', shot, next) /\ Run(arriving', shot, next + Len(waiting'))
          /\ next + Len(waiting') + Len(arriving') = Taken + Len(waiting) + Len(arriving)
      BY <1>1, <1>3, <2>1, <2>2, RunPasses
    <2>4. QED
      BY <2>3 DEF next
  <1>5. Stored(Put) /\ \A k : Word(shot, k)' = Word(shot, k) /\ Earlier(k)' = Earlier(k)
    BY WordsAfter DEF Filling
  <1>6. CASE Ends
    <2>1. Stored(FRAME_COLORS)'
      <3>1. Takes(FRAME_COLORS)
        BY <1>6 DEF Ends
      <3>2. \A k \in 0..(FRAME_COLORS - 1) :
              mem'[4 * k] = IF k < FRAME_COLORS THEN Word(shot, k) ELSE Earlier(k)
        BY <1>3, <1>5, <3>1, TakesStores
      <3>3. QED
        BY <1>5, <3>2 DEF Stored
    <2>2. /\ Made \in Nat /\ Made <= AllColors /\ (Made = AllColors => ImageOver)
      <3>1. row \in 0..SENSOR_ROWS /\ col \in Nat /\ (row = SENSOR_ROWS => col = 0)
        BY Bounds DEF TypeInv, TypeOK, PixelInv, CountInv
      <3>2. QED
        BY <3>1, MadeBound
    <2>3. Removes \in Nat /\ AllColors \in Nat /\ AllColors <= Removes
      <3>1. /\ Copies * AllColors <= FRAME_COLORS /\ Copies * Removes = FRAME_COLORS
            /\ Copies \in {1, 2}
        BY <1>6 DEF Ends, Image, Copies
      <3>2. Removes \in Nat
        BY <1>3 DEF Removes
      <3>3. AllColors \in Nat
        BY Lines, Sizes
      <3>4. QED
        BY <3>1, <3>2, <3>3
    <2>4. waiting' \in Seq(Colors) /\ arriving' \in Seq(Colors)
      <3>1. TypeInv'
        BY SystemTyping
      <3>2. QED
        BY <3>1 DEF TypeInv, TypeOK, Colors
    <2>5. Len(waiting') = 0 /\ Len(arriving') = 0 /\ ImageOver
      <3> DEFINE a == Len(waiting')
                 b == Len(arriving')
      <3>1. a \in Nat /\ b \in Nat
        BY <2>4, LenProperties
      <3>2. Removes + a + b = Made
        BY <1>4 DEF Filling
      <3> HIDE DEF a, b
      <3>3. a = 0 /\ b = 0 /\ Made = AllColors
        BY <2>2, <2>3, <3>1, <3>2
      <3>4. QED
        BY <2>2, <3>3 DEF a, b
    <2>6. waiting' = <<>> /\ arriving' = <<>>
      BY <2>4, <2>5, EmptyLength
    <2>7. Complete'
      BY <1>2, <1>6, <2>1, <2>5, <2>6 DEF Complete, Still, ImageOver, Ends
    <2>8. QED
      BY <1>6, <2>7
  <1>7. CASE GoesOn
    <2>1. Stored(Put)'
      <3>1. Takes(Put')
        BY <1>7 DEF GoesOn
      <3>2. \A k \in 0..(FRAME_COLORS - 1) :
              mem'[4 * k] = IF k < Put' THEN Word(shot, k) ELSE Earlier(k)
        BY <1>3, <1>5, <3>1, TakesStores
      <3>3. QED
        BY <1>5, <3>2 DEF Stored
    <2>2. Taken' = Removes /\ ~(frame_sent_o')
      BY <1>7 DEF GoesOn
    <2>3. RREQ' /\ waiting' = <<>> => avm_writedata' = Color(shot, Taken - 1)'
      <3>1. RREQ' /\ waiting' = <<>> => avm_writedata' = Color(shot, Taken' - 1)
        BY <1>7 DEF GoesOn
      <3>2. Color(shot, Taken - 1)' = Color(shot, Taken' - 1)
        BY DEF Color, PixelAt, LineLength, ColorsOfLine
      <3>3. QED
        BY <3>1, <3>2
    <2>4. Taken' + Len(waiting') + Len(arriving') = Made'
      BY <1>2, <1>4, <2>2 DEF Filling
    <2>5. Run(waiting', shot', Taken') /\ Run(arriving', shot', Taken' + Len(waiting'))
      BY <1>4, <2>2
    <2>6. QED
      BY <1>2, <2>1, <2>2, <2>3, <2>4, <2>5 DEF Filling
  <1>8. QED
    BY <1>1, <1>6, <1>7

(* The trigger: the frame of the capture before becomes the one to be      *)
(* written over.                                                           *)
LEMMA StoredAgain ==
  ASSUME mem' = mem, shot' = shot + 1, shot \in Nat,
         (shot = 0 /\ Stored(0)) \/ (shot > 0 /\ Stored(FRAME_COLORS))
  PROVE  Stored(0)'
  <1>1. ASSUME NEW k \in 0..(FRAME_COLORS - 1) PROVE mem'[4 * k] = Earlier(k)'
    <2>1. CASE shot = 0 /\ Stored(0)
      <3>1. mem[4 * k] = Blank
        <4>1. ~(k < 0) /\ 0 <= 1
          BY Frames
        <4>2. Earlier(k) = Blank
          BY <2>1, <4>1 DEF Earlier
        <4>3. QED
          BY <2>1, <4>1, <4>2 DEF Stored
      <3>2. Earlier(k)' = Blank
        BY <2>1 DEF Earlier, Blank
      <3>3. QED
        BY <3>1, <3>2
    <2>2. CASE shot > 0 /\ Stored(FRAME_COLORS)
      <3>1. mem[4 * k] = Word(shot, k)
        BY <2>2, Frames DEF Stored
      <3>2. (shot + 1) - 1 = shot /\ ~(shot + 1 <= 1)
        BY <2>2
      <3>3. Earlier(k)' = Word(shot, k)
        BY <3>2 DEF Earlier, Word, Color, PixelAt, LineLength, ColorsOfLine, Copies
      <3>4. QED
        BY <3>1, <3>3
    <2>3. QED
      BY <2>1, <2>2
  <1>2. \A k \in 0..(FRAME_COLORS - 1) : ~(k < 0)
    OBVIOUS
  <1>3. QED
    BY <1>1, <1>2 DEF Stored

LEMMA PhaseCycle ==
  ASSUME Image, Memory, TypeInv, FrameInv,
         NEW acc, NEW waitrequest \in BOOLEAN, NEW n \in 0..Len(arriving),
         NEW delivered \in BOOLEAN, SysCycle(acc, waitrequest, n, delivered)
  PROVE  Phase'
  <1>1. /\ AddressInv /\ BusInv /\ PixelInv /\ ProgramInv /\ Phase /\ shot \in Nat
        /\ iFrameSent \in {0, 1}
    BY CaptureAssumption DEF FrameInv, TypeInv, TypeOK, ProgramTypeOK, RegisterInv
  <1>2. /\ CamStep(acc)
        /\ iFrameSent' = IF frame_sent_o THEN 1 ELSE IF FrameSent_rst THEN 0 ELSE iFrameSent
        /\ pc' = "hold" => pc = "poll" /\ readdata' = iFrameSent
        /\ exposing' <=> exposing \/ (shot' # shot /\ delivered)
    BY <1>1, ProgramCycle DEF SysCycle
  <1>3. Still => Still' /\ mem' = mem /\ ~(frame_sent_o')
    BY <1>1, StillCycle DEF Held
  <1>4. ~frame_sent_o /\ iFrameSent = 0 => iFrameSent' = 0
    BY <1>2
  <1>5. /\ shot' = shot /\ Fresh => Fresh'
        /\ shot' = shot /\ Complete => Complete' /\ ~(frame_sent_o')
    <2>1. shot' = shot /\ Fresh => Fresh'
      BY <1>3, <1>4, StoredKept DEF Fresh
    <2>2. shot' = shot /\ Complete => Complete' /\ ~(frame_sent_o')
      BY <1>2, <1>3, StoredKept DEF Complete
    <2>3. QED
      BY <2>1, <2>2
  <1>6. shot' = shot /\ Filling => Filling' \/ Complete'
    BY <1>1, <1>4, FillingCycle DEF Filling
  <1>7. CASE pc' = pc /\ shot' = shot /\ pc # "hold"
    BY <1>1, <1>2, <1>4, <1>5, <1>6, <1>7 DEF Phase
  <1>8. CASE \/ pc = "address" /\ pc' = "length" /\ shot' = shot
             \/ pc = "length" /\ pc' = "ready" /\ shot' = shot
             \/ pc = "stop0" /\ pc' = "start1" /\ shot' = shot
             \/ pc = "start1" /\ pc' = "poll" /\ shot' = shot
    <2>1. pc' = "ready" => shot' = 0
      BY <1>1, <1>8 DEF ProgramInv
    <2>2. Fresh' /\ (exposing' => pc \in {"stop0", "start1"})
      BY <1>1, <1>2, <1>5, <1>8 DEF Phase
    <2>3. QED
      BY <1>8, <2>1, <2>2 DEF Phase
  <1>9. CASE pc = "ready" /\ pc' = "stop0" /\ shot' = shot + 1
    <2>1. \/ shot = 0 /\ Fresh
          \/ shot > 0 /\ Complete /\ iFrameSent = 0 /\ ~frame_sent_o
      BY <1>1, <1>9 DEF Phase
    <2>2. Still /\ iFrameSent = 0 /\ ~frame_sent_o
      BY <2>1 DEF Fresh, Complete
    <2>3. Stored(0)'
      BY <1>1, <1>3, <1>9, <2>1, <2>2, StoredAgain DEF Fresh, Complete
    <2>4. Fresh'
      BY <1>3, <1>4, <2>2, <2>3 DEF Fresh
    <2>5. QED
      BY <1>9, <2>4 DEF Phase
  <1>10. CASE pc = "poll" /\ pc' = "hold" /\ shot' = shot
    <2>1. Fresh' \/ Filling' \/ Complete'
      BY <1>1, <1>5, <1>6, <1>10 DEF Phase
    <2>2. readdata' # 0 => Complete
      BY <1>1, <1>2, <1>10 DEF Phase, Fresh, Filling
    <2>3. readdata' # 0 => Complete' /\ ~(frame_sent_o')
      BY <1>5, <1>10, <2>2
    <2>4. QED
      BY <1>10, <2>1, <2>3 DEF Phase
  <1>11. CASE pc = "hold" /\ pc' = "poll" /\ shot' = shot
    BY <1>1, <1>5, <1>6, <1>11 DEF Phase
  <1>12. CASE pc = "hold" /\ readdata # 0 /\ pc' = "start0" /\ shot' = shot
    <2>1. Complete /\ ~frame_sent_o /\ FrameSent_rst
      BY <1>1, <1>12 DEF Phase, ProgramInv
    <2>2. Complete' /\ ~(frame_sent_o') /\ iFrameSent' = 0
      BY <1>2, <1>5, <1>12, <2>1
    <2>3. ~(exposing')
      BY <2>2 DEF Complete
    <2>4. QED
      BY <1>12, <2>2, <2>3 DEF Phase
  <1>13. CASE \/ pc = "start0" /\ pc' = "stop1" /\ shot' = shot
              \/ pc = "stop1" /\ pc' = "ready" /\ shot' = shot
    <2>1. /\ Complete' /\ ~(frame_sent_o') /\ iFrameSent' = 0 /\ shot > 0
      BY <1>1, <1>4, <1>5, <1>13 DEF Phase, ProgramInv
    <2>2. ~(exposing') /\ shot' > 0 /\ shot' # 0
      BY <1>1, <1>13, <2>1 DEF Complete
    <2>3. QED
      BY <1>13, <2>1, <2>2 DEF Phase
  <1>14. QED
    <2>1. pc = "hold" => pc' = (IF readdata = 0 THEN "poll" ELSE "start0") /\ shot' = shot
      BY <1>2 DEF CamStep
    <2>2. QED
      BY <1>2, <1>7, <1>8, <1>9, <1>10, <1>11, <1>12, <1>13, <2>1 DEF CamStep

(* An edge of the pixel clock: the image begins only while the program     *)
(* waits for it, and its colors are the next to be written.                *)
LEMMA PhasePixel ==
  ASSUME Image, TypeInv, FrameInv, PixTick
  PROVE  /\ PixelInv' /\ Phase'
         /\ waiting' = waiting \/ (mas_state # "WAITING_WRITE" /\ waiting' = <<>>)
         /\ ~Running => Still
  <1>1. /\ AddressInv /\ BusInv /\ PixelInv /\ ProgramInv /\ Phase
        /\ row \in 0..SENSOR_ROWS /\ col \in Nat
        /\ arriving \in Seq(Colors) /\ waiting \in Seq(Colors)
        /\ shot \in Nat /\ output_color \in Colors
    BY SensorMoves, Bounds, CaptureAssumption
    DEF FrameInv, TypeInv, TypeOK, CtrlTypeOK, ProgramTypeOK, Colors
  <1>2. /\ UNCHANGED <<masterVars, camSlaveVars, progVars, mem>>
        /\ startAddr_bridge' = startAddr_bridge /\ mas_state' = mas_state /\ RREQ' = RREQ
        /\ mem' = mem /\ shot' = shot /\ pc' = pc /\ iFrameSent' = iFrameSent
        /\ readdata' = readdata /\ frame_sent_o' = frame_sent_o
        /\ avm_writedata' = avm_writedata
        /\ Written' = Written /\ Taken' = Taken
    BY DEF PixTick, masterVars, camSlaveVars, progVars, Written, Taken
  <1>3. /\ Opens \/ Advances \/ Breaks \/ Pauses
        /\ exposing' => exposing
        /\ ~Opens => exposing' = exposing
    BY SensorMoves DEF Opens, Advances, Breaks, Pauses
  <1>4. ~(start_o /\ stop_o)
    BY <1>1 DEF ProgramInv
  <1>5. ImageOver => ~buffer_write
    BY <1>1, RestedPixels DEF PixelInv, Rested
  <1>6. Opens => /\ pc \in {"poll", "hold"} /\ Fresh /\ ImageOver
                 /\ ~(pc = "hold" /\ readdata # 0) /\ Running
    <2> SUFFICES ASSUME Opens
                 PROVE  /\ pc \in {"poll", "hold"} /\ Fresh /\ ImageOver
                        /\ ~(pc = "hold" /\ readdata # 0) /\ Running
      OBVIOUS
    <2>1. pc \in {"poll", "hold"}
      BY <1>1 DEF Opens, Phase, ProgramInv
    <2>2. Fresh /\ ~(pc = "hold" /\ readdata # 0)
      BY <1>1, <2>1 DEF Opens, Phase, Filling, Complete
    <2>3. Running
      BY <1>4 DEF Opens, PixTick, CtrlTick, Control, Running
    <2>4. QED
      BY <2>1, <2>2, <2>3 DEF Fresh, Still
  <1>7. Still \/ (pc \in {"poll", "hold"} /\ Filling)
    <2>1. pc \in CapturePoints
      BY DEF TypeInv, TypeOK, ProgramTypeOK
    <2>2. QED
      BY <1>1, <2>1 DEF Phase, CapturePoints, Fresh, Complete
  <1>8. pc \in {"poll", "hold"} /\ Filling => Running /\ ~Opens
    BY <1>1 DEF Filling, Opens, ProgramInv, PixTick, CtrlTick, Control, Running
  <1>9. ImageOver /\ ~Opens => ImageOver'
    <2>1. SENSOR_ROWS \in Nat /\ SENSOR_COLUMNS \in Nat
      BY Sizes
    <2>2. QED
      BY <1>1, <1>3, <2>1 DEF ImageOver, Advances, Breaks, Pauses
  <1>10. PixelInv'
    <2>1. CASE Running
      BY <1>1, <2>1, RunningStep
    <2>2. CASE ~Running
      BY <1>1, <1>4, <1>7, <1>8, <2>2, ClearStep DEF Still
    <2>3. QED
      BY <2>1, <2>2
  <1>11. /\ waiting' = waiting \/ (mas_state # "WAITING_WRITE" /\ waiting' = <<>>)
         /\ Put' = Put
    <2>1. CASE ctrl_state' = "IDLE"
      <3>1. Still /\ waiting' = <<>>
        BY <1>7, <1>8, <2>1 DEF Running, PixTick, BufferClear
      <3>2. ~RREQ /\ ~(RREQ')
        BY <1>1, <1>2, <3>1, Requests DEF Still
      <3>3. QED
        BY <1>2, <3>1, <3>2 DEF Put, Still
    <2>2. CASE ctrl_state' # "IDLE"
      <3>1. waiting' = waiting
        BY <2>2 DEF PixTick
      <3>2. QED
        BY <1>2, <3>1 DEF Put
    <2>3. QED
      BY <2>1, <2>2
  <1>12. Still /\ ~Opens => Still'
    <2>1. Still => waiting' = <<>> /\ arriving' = <<>>
      BY <1>5 DEF Still, PixTick, BufferClear, WrClock
    <2>2. QED
      BY <1>2, <1>9, <2>1 DEF Still
  <1>13. /\ Fresh /\ ~Opens => Fresh'
         /\ Complete => Complete' /\ ~Opens
    <2>1. Fresh /\ ~Opens => Fresh'
      BY <1>2, <1>12, StoredKept DEF Fresh
    <2>2. Complete => ~Opens
      BY DEF Complete, Opens
    <2>3. Complete => Complete'
      BY <1>2, <1>3, <1>12, <2>2, StoredKept DEF Complete
    <2>4. QED
      BY <2>1, <2>2, <2>3
  <1>14. pc \in {"poll", "hold"} /\ Filling => Filling'
    <2> SUFFICES ASSUME pc \in {"poll", "hold"}, Filling PROVE Filling'
      OBVIOUS
    <2>1. /\ Running /\ ~Opens /\ exposing' = exposing /\ waiting' = waiting
          /\ arriving' = IF buffer_write THEN Append(arriving, output_color) ELSE arriving
      BY <1>3, <1>8 DEF PixTick, Running, WrClock
    <2>2. /\ Made' = Made + (IF buffer_write THEN 1 ELSE 0)
          /\ buffer_write => output_color = Color(shot, Made)
          /\ Made \in Nat
      <3>1. row = SENSOR_ROWS => col = 0
        BY <1>1 DEF PixelInv, CountInv
      <3>2. QED
        BY <1>1, <2>1, <3>1, MadeMoves, MadeBound
    <2>3. /\ Taken \in Nat /\ Len(waiting) \in Nat /\ Len(arriving) \in Nat
      BY <1>1, Words, LenProperties
    <2>4. /\ Stored(Put)'
          /\ RREQ' /\ waiting' = <<>> => avm_writedata' = Color(shot, Taken - 1)'
      <3>1. Stored(Put)'
        BY <1>2, <1>11, StoredKept DEF Filling
      <3>2. Color(shot, Taken - 1)' = Color(shot, Taken - 1)
        BY <1>2 DEF Color, PixelAt, LineLength, ColorsOfLine
      <3>3. QED
        BY <1>2, <2>1, <3>1, <3>2 DEF Filling
    <2>5. CASE ~buffer_write
      <3>1. arriving' = arriving /\ Made' = Made
        BY <2>1, <2>2, <2>5
      <3>2. QED
        BY <1>2, <2>1, <2>4, <3>1 DEF Filling, Running
    <2>6. CASE buffer_write
      <3> DEFINE first == Taken + Len(waiting)
      <3>1. /\ first \in Nat /\ first + Len(arriving) = Made
            /\ Run(arriving, shot, first)
        BY <2>3 DEF Filling
      <3>2. arriving' = Append(arriving, output_color) /\ output_color = Color(shot, Made)
        BY <2>1, <2>2, <2>6
      <3>3. /\ Len(arriving') = Len(arriving) + 1
        BY <1>1, <3>2, Appends
      <3> HIDE DEF first
      <3>4. Run(arriving', shot, first)
        BY <1>1, <3>1, <3>2, RunAppends
      <3>5. first + Len(arriving') = Made'
        <4>1. Made' = Made + 1
          BY <2>2, <2>6
        <4>2. QED
          BY <2>3, <3>1, <3>3, <4>1
      <3>6. /\ Taken' + Len(waiting') + Len(arriving') = Made'
            /\ Run(arriving', shot', Taken' + Len(waiting'))
        BY <1>2, <2>1, <3>4, <3>5 DEF first
      <3>7. QED
        BY <1>2, <2>1, <2>4, <3>6 DEF Filling, Running
    <2>7. QED
      BY <2>5, <2>6
  <1>15. Opens => Filling'
    <2> SUFFICES ASSUME Opens PROVE Filling'
      OBVIOUS
    <2>1. Fresh /\ ImageOver /\ Running /\ ~buffer_write
      BY <1>5, <1>6
    <2>2. /\ waiting' = <<>> /\ arriving' = <<>> /\ Made' = 0 /\ ~(exposing')
      BY <1>1, <2>1, MadeMoves DEF Fresh, Still, PixTick, Running, WrClock, Opens
    <2>3. /\ Put = 0 /\ Taken = 0 /\ ~(RREQ')
      <3>1. startAddr_bridge = 0 /\ ~RREQ
        BY <1>1, <2>1, Requests DEF Fresh, Still
      <3>2. 0 \div 4 = 0 /\ 0 \div 8 = 0
        OBVIOUS
      <3>3. QED
        BY <1>2, <3>1, <3>2 DEF Written, Taken, Put
    <2>4. Stored(Put)'
      BY <1>2, <1>11, <2>1, <2>3, StoredKept DEF Fresh
    <2>5. /\ Run(waiting', shot', Taken') /\ Run(arriving', shot', Taken' + Len(waiting'))
          /\ Taken' + Len(waiting') + Len(arriving') = Made'
      <3>1. 0 + Len(<<>>) + Len(<<>>) = 0
        BY EmptyLength
      <3>2. QED
        BY <1>2, <2>2, <2>3, <3>1, RunEmpty
    <2>6. QED
      BY <1>2, <2>1, <2>2, <2>3, <2>4, <2>5 DEF Filling, Fresh, Running
  <1>16. Phase'
    <2>1. CASE Opens
      BY <1>1, <1>2, <1>3, <1>6, <1>15, <2>1 DEF Phase
    <2>2. CASE ~Opens
      BY <1>1, <1>2, <1>3, <1>13, <1>14, <2>2 DEF Phase
    <2>3. QED
      BY <2>1, <2>2
  <1>17. QED
    BY <1>7, <1>8, <1>10, <1>11, <1>16

(* Power-up and reset leave the same. *)
LEMMA NothingStored ==
  ASSUME CAM_BASE = 0, mem = [a \in Addresses |-> Blank], shot = 0
  PROVE  Stored(0)
  <1>1. ASSUME NEW k \in 0..(FRAME_COLORS - 1) PROVE 4 * k \in Addresses /\ ~(k < 0)
    BY FrameAddresses
  <1>2. QED
    BY <1>1 DEF Stored, Earlier

LEMMA NothingStoredAfter ==
  ASSUME CAM_BASE = 0, mem' = [a \in Addresses |-> Blank], shot' = 0
  PROVE  Stored(0)'
  <1>1. ASSUME NEW k \in 0..(FRAME_COLORS - 1)
        PROVE  4 * k \in Addresses /\ ~(k < 0) /\ Earlier(k)' = Blank
    BY FrameAddresses DEF Earlier, Blank
  <1>2. QED
    BY <1>1 DEF Stored

LEMMA FrameInit == Image /\ Memory /\ Init => FrameInv
  <1> SUFFICES ASSUME Image, Memory, Init PROVE FrameInv
    OBVIOUS
  <1>1. AddressInv /\ BusInv /\ PixelInv /\ ProgramInv /\ ImageOver
    BY AddressInit, BusInit, PixelInit, ProgramStarts
  <1>2. Stored(0)
    BY NothingStored DEF Memory, Init, ProgramInit
  <1>3. Fresh /\ ~exposing /\ pc = "address"
    BY <1>1, <1>2
    DEF Init, ProgramInit, BufferInit, MasterInit, CamSlaveInit, Fresh, Still
  <1>4. Phase
    BY <1>3 DEF Phase
  <1>5. QED
    BY <1>1, <1>4 DEF FrameInv

LEMMA FrameReset ==
  ASSUME Image, Memory, TypeInv, Reset
  PROVE  FrameInv'
  <1>1. AddressInv' /\ BusInv' /\ PixelInv' /\ ImageOver' /\ ProgramInv'
    <2>1. AddressInv'
      BY Frames DEF Reset, MasterReset, AddressInv
    <2>2. QED
      BY <2>1, BusReset, PixelReset, ProgramRestarts
  <1>2. Stored(0)'
    BY NothingStoredAfter DEF Memory, Reset, ProgramReset
  <1>3. Fresh' /\ ~(exposing') /\ pc' = "address"
    BY <1>1, <1>2
    DEF Reset, ProgramReset, BufferClear, MasterReset, CamSlaveReset, Fresh, Still
  <1>4. Phase'
    BY <1>3 DEF Phase
  <1>5. QED
    BY <1>1, <1>4 DEF FrameInv

LEMMA FrameCycle ==
  ASSUME Image, Memory, TypeInv, FrameInv, SysTick
  PROVE  FrameInv'
  <1>1. PICK acc \in CamAccesses, waitrequest \in BOOLEAN, delivered \in BOOLEAN,
             n \in 0..Len(arriving) : SysCycle(acc, waitrequest, n, delivered)
    BY DEF SysTick
  <1>2. AddressInv' /\ BusInv' /\ ProgramInv' /\ Phase'
    <2>1. BusInv'
      BY <1>1, WaitingCycle, PromptCycle DEF FrameInv
    <2>2. AddressInv' /\ ProgramInv' /\ Phase'
      BY <1>1, AddressSystem, ProgramCycle, PhaseCycle DEF FrameInv, Memory
    <2>3. QED
      BY <2>1, <2>2
  <1>3. PixelInv'
    <2>1. shot' # shot => ImageOver
      <3>1. CamStep(acc)
        BY <1>1, ProgramCycle DEF FrameInv
      <3>2. shot' # shot => pc = "ready"
        BY <3>1 DEF CamStep
      <3>3. shot \in Nat
        BY CaptureAssumption DEF TypeInv, TypeOK, ProgramTypeOK
      <3>4. QED
        BY <3>2, <3>3 DEF FrameInv, Phase, Fresh, Complete, Still
    <2>2. UNCHANGED <<ctrlVars, row, col>>
      BY <1>1 DEF SysCycle
    <2>3. QED
      BY <2>1, <2>2, PixelSystem DEF FrameInv
  <1>4. QED
    BY <1>2, <1>3 DEF FrameInv

LEMMA FrameStep ==
  ASSUME Image, Memory
  PROVE  TypeInv /\ FrameInv /\ [Next]_vars => FrameInv'
  <1> SUFFICES ASSUME TypeInv, FrameInv, [Next]_vars PROVE FrameInv'
    OBVIOUS
  <1>1. CASE PixTick
    <2>1. UNCHANGED <<masterVars, camSlaveVars, progVars, mem_busy>>
      BY <1>1 DEF PixTick
    <2>2. AddressInv' /\ ProgramInv'
      BY <2>1 DEF FrameInv, masterVars, camSlaveVars, progVars, AddressInv, ProgramInv,
                  start_o, stop_o
    <2>3. PixelInv' /\ Phase' /\ BusInv'
      BY <1>1, <2>1, PhasePixel, BusPixel DEF FrameInv
    <2>4. QED
      BY <2>2, <2>3 DEF FrameInv
  <1>2. CASE SysTick
    BY <1>2, FrameCycle
  <1>3. CASE Reset
    BY <1>3, FrameReset
  <1>4. CASE UNCHANGED vars
    <2>1. UNCHANGED <<arriving, waiting, ctrlVars, masterVars, camSlaveVars, progVars,
                      exposing, row, col, mem, mem_busy>>
      BY <1>4 DEF vars, bufferVars, sensorVars
    <2>2. AddressInv' /\ BusInv' /\ ProgramInv'
      <3>1. BusInv'
        BY <2>1, BusPixel DEF FrameInv
      <3>2. AddressInv' /\ ProgramInv'
        BY <2>1 DEF FrameInv, masterVars, camSlaveVars, progVars, AddressInv, ProgramInv,
                    start_o, stop_o
      <3>3. QED
        BY <3>1, <3>2
    <2>3. PixelInv' /\ (ImageOver <=> ImageOver')
      <3>1. shot' = shot
        BY <2>1 DEF progVars
      <3>2. QED
        BY <2>1, <3>1, PixelSystem DEF FrameInv
    <2>4. /\ Fresh => Fresh'
          /\ Complete => Complete'
          /\ Filling => Filling'
      <3>1. /\ startAddr_bridge' = startAddr_bridge /\ mas_state' = mas_state /\ RREQ' = RREQ
            /\ mem' = mem /\ shot' = shot /\ iFrameSent' = iFrameSent
            /\ frame_sent_o' = frame_sent_o /\ exposing' = exposing
            /\ arriving' = arriving /\ waiting' = waiting /\ ctrl_state' = ctrl_state
            /\ avm_writedata' = avm_writedata
            /\ Written' = Written /\ Taken' = Taken /\ Put' = Put /\ Made' = Made
        <4>1. line' = line /\ place' = place
          BY <2>1, LineAfter DEF line, place
        <4>2. Made' = Made
          BY <2>1, <4>1 DEF Made, Before, Paired, ColorsOfLine
        <4>3. QED
          BY <2>1, <4>2 DEF ctrlVars, masterVars, camSlaveVars, progVars, Written, Taken, Put
      <3>2. Still => Still'
        BY <2>3, <3>1 DEF Still
      <3>3. Filling => Filling'
        <4>1. Stored(Put) => Stored(Put)'
          BY <3>1, StoredKept
        <4>2. Color(shot, Taken - 1)' = Color(shot, Taken - 1)
          BY <3>1 DEF Color, PixelAt, LineLength, ColorsOfLine
        <4>3. QED
          BY <3>1, <4>1, <4>2 DEF Filling
      <3>4. (Fresh => Fresh') /\ (Complete => Complete')
        BY <3>1, <3>2, StoredKept DEF Fresh, Complete
      <3>5. QED
        BY <3>3, <3>4
    <2>5. Phase'
      BY <2>1, <2>4 DEF FrameInv, Phase, progVars, camSlaveVars, masterVars
    <2>6. QED
      BY <2>2, <2>3, <2>5 DEF FrameInv
  <1>5. QED
    BY <1>1, <1>2, <1>3, <1>4 DEF Next

LEMMA FrameInvariance ==
  ASSUME Image, Memory
  PROVE  Spec => [](TypeInv /\ FrameInv)
  <1>1. Init => TypeInv /\ FrameInv
    BY TypeInit, FrameInit
  <1>2. TypeInv /\ FrameInv /\ [Next]_vars => TypeInv' /\ FrameInv'
    BY TypeStep, FrameStep
  <1>3. QED
    BY <1>1, <1>2, PTL DEF Spec

-----------------------------------------------------------------------------
(* The properties.                                                         *)

(* The Buffer FIFO is never read empty, with a memory that makes the       *)
(* master wait two cycles after a write.  With one that does not, the      *)
(* second read request of every color misses.                              *)
THEOREM NeverReadEmpty ==
  ASSUME Image, Memory, ~Prompt
  PROVE  Spec => []NoBufferUnderflow
  <1>1. TypeInv /\ FrameInv => NoBufferUnderflow
    BY DEF FrameInv, BusInv, WaitingBus, NoBufferUnderflow, rdempty
  <1>2. QED
    BY <1>1, FrameInvariance, PTL

(* The Bayer FIFO never holds more than a row and is never read empty.     *)
THEOREM BayerKeepsStep ==
  ASSUME Image, Memory
  PROVE  Spec => []BayerInStep
  <1>1. TypeInv /\ FrameInv => BayerInStep
    <2> SUFFICES ASSUME TypeInv, FrameInv PROVE BayerInStep
      OBVIOUS
    <2>1. /\ CountInv /\ BayerInv /\ row \in 0..SENSOR_ROWS /\ col \in Nat
          /\ row = SENSOR_ROWS => col = 0
          /\ BAYER_LINE \in Nat /\ BAYER_LINE > 0
      BY Sizes, Bounds DEF FrameInv, PixelInv, CountInv, TypeInv, TypeOK
    <2>2. /\ place \in Nat /\ place <= LineLength
          /\ lval => place < LineLength /\ place % 4 = col % 4
      BY <2>1, Coordinates
    <2>3. /\ Fill \in Nat /\ Fill <= BAYER_LINE
          /\ pixel_valid => Fill < BAYER_LINE
      <3>1. CASE place < LineLength
        <4>1. /\ Kept(place) \in Nat /\ Kept(place) <= BAYER_LINE
              /\ place % 4 \in {1, 2} => Kept(place) < BAYER_LINE
          BY <2>2, <3>1, LineFills
        <4>2. QED
          BY <2>1, <2>2, <4>1 DEF Fill, CountInv
      <3>2. CASE ~(place < LineLength)
        <4>1. place = LineLength /\ Kept(LineLength) = BAYER_LINE
          <5>1. LineLength \in Nat
            BY Sizes
          <5>2. Kept(LineLength) = BAYER_LINE
            BY <5>1, LineFills
          <5>3. QED
            BY <2>2, <3>2, <5>1, <5>2
        <4>2. ~pixel_valid
          BY <2>1, <2>2, <3>2 DEF CountInv
        <4>3. QED
          BY <2>1, <4>1, <4>2 DEF Fill
      <3>3. QED
        BY <3>1, <3>2
    <2>4. /\ pixel_valid => (push_state <=> ~Paired)
          /\ usedw = IF Paired THEN BAYER_LINE - Fill ELSE Fill
      BY <2>1, <2>2 DEF CountInv, BayerInv
    <2>5. QED
      BY <2>1, <2>3, <2>4 DEF BayerInStep, bayer_fifo_push, bayer_fifo_pop
  <1>2. QED
    BY <1>1, FrameInvariance, PTL

(* With rows of a whole line, every color written to the Buffer FIFO is    *)
(* that of a whole cell of this capture.  The rows camera_init configures  *)
(* are half as long, and the colors are not: CAM_binning.cfg.              *)
THEOREM ColorsAreCells ==
  ASSUME Image, Memory, SENSOR_COLUMNS = LineLength
  PROVE  Spec => []WholeCells
  <1>1. \A n \in Nat, k \in Nat : Color(n, k) = Cell(n, k)
    <2> SUFFICES ASSUME NEW n \in Nat, NEW k \in Nat PROVE Color(n, k) = Cell(n, k)
      OBVIOUS
    <2> DEFINE c == SENSOR_COLUMNS
               m == n * SENSOR_ROWS
               w == ColorsOfLine
               y == 2 * (k \div w)
               x == 4 * (k % w)
    <2>1. /\ c = LineLength /\ CellsOfRow = w /\ w \in Nat \ {0} /\ c \in Nat /\ c = 4 * w
          /\ m \in Nat
      BY Sizes DEF CellsOfRow
    <2>2. y \in Nat /\ x \in Nat /\ 2 * c * (k \div w) = y * c /\ y * c \in Nat
      BY <2>1
    <2>3. /\ (m + 0) * c \in Nat /\ (m + y) * c = (m + 0) * c + y * c
          /\ (m + (y + 1)) * c = (m + 0) * c + y * c + c
      <3> HIDE DEF m, y, c
      <3> QED
        BY <2>1, <2>2
    <2>4. /\ Color(n, k) =
               LET first == (m + 0) * c + (2 * c * (k \div w) + x)
               IN  [g1 |-> first, r |-> first + 1, b |-> first + c, g2 |-> first + c + 1]
          /\ Cell(n, k) =
               [g1 |-> (m + y) * c + x,       r  |-> (m + y) * c + (x + 1),
                b  |-> (m + (y + 1)) * c + x, g2 |-> (m + (y + 1)) * c + (x + 1)]
      BY <2>1 DEF Color, Cell, PixelAt
    <2> HIDE DEF c, m, w, y, x
    <2> DEFINE p == (m + 0) * c
               q == y * c
    <2>5. p \in Nat /\ q \in Nat /\ x \in Nat /\ c \in Nat
      BY <2>1, <2>2, <2>3
    <2>6. /\ Color(n, k) = LET first == p + (q + x)
                           IN  [g1 |-> first, r |-> first + 1,
                                b |-> first + c, g2 |-> first + c + 1]
          /\ Cell(n, k) = [g1 |-> p + q + x,     r  |-> p + q + (x + 1),
                           b  |-> p + q + c + x, g2 |-> p + q + c + (x + 1)]
      BY <2>2, <2>3, <2>4
    <2> HIDE DEF p, q
    <2>7. /\ p + (q + x) = p + q + x /\ p + (q + x) + 1 = p + q + (x + 1)
          /\ p + (q + x) + c = p + q + c + x
          /\ p + (q + x) + c + 1 = p + q + c + (x + 1)
      BY <2>5
    <2>8. QED
      BY <2>6, <2>7
  <1>2. TypeInv /\ FrameInv => WholeCells
    <2> SUFFICES ASSUME TypeInv, FrameInv, buffer_write
                 PROVE  \E k \in 0..(FRAME_COLORS - 1) : output_color = Cell(shot, k)
      BY DEF WholeCells
    <2>1. /\ PixelInv /\ row \in 0..SENSOR_ROWS /\ col \in Nat /\ shot \in Nat
          /\ row = SENSOR_ROWS => col = 0
      BY Bounds, CaptureAssumption
      DEF FrameInv, PixelInv, CountInv, TypeInv, TypeOK, ProgramTypeOK
    <2>2. /\ Paired /\ col \in 4..SENSOR_COLUMNS
          /\ output_color = Color(shot, MadeNow)
      BY <2>1 DEF PixelInv, ColorInv
    <2>3. MadeNow = Made
      BY <2>1, <2>2, Sizes DEF Made, MadeNow
    <2>4. ~ImageOver
      BY <2>1, <2>2, Sizes DEF ImageOver
    <2>5. Made \in Nat /\ Made <= AllColors /\ Made # AllColors
      BY <2>1, <2>4, MadeBound
    <2>6. AllColors \in Nat /\ AllColors <= FRAME_COLORS
      <3>1. AllColors \in Nat /\ Copies * AllColors <= FRAME_COLORS /\ Copies \in {1, 2}
        BY Lines DEF Image, Copies
      <3>2. QED
        BY <3>1, Frames
    <2>7. Made \in 0..(FRAME_COLORS - 1)
      BY <2>5, <2>6, Frames
    <2>8. QED
      BY <1>1, <2>1, <2>2, <2>3, <2>5, <2>7
  <1>3. QED
    BY <1>2, FrameInvariance, PTL

(* A stop of the camera interface clears nothing that belongs to a frame.  *)
THEOREM StopsLoseNothing ==
  ASSUME Image, Memory
  PROVE  Spec => StopLosesNothing
  <1> DEFINE Loss == ctrl_state = "BUSY" /\ ctrl_state' = "IDLE" /\ resets' = resets =>
                       /\ bayer = <<>> /\ ~pixel_valid /\ ~color_ready /\ ~buffer_write
                       /\ arriving = <<>> /\ waiting = <<>>
                       /\ fval => row = SENSOR_ROWS - 1 /\ ~lval
  <1>1. TypeInv /\ FrameInv /\ [Next]_vars => [Loss]_vars
    <2> SUFFICES ASSUME TypeInv, FrameInv, [Next]_vars,
                        ctrl_state = "BUSY", ctrl_state' = "IDLE", resets' = resets
                 PROVE  /\ bayer = <<>> /\ ~pixel_valid /\ ~color_ready /\ ~buffer_write
                        /\ arriving = <<>> /\ waiting = <<>>
                        /\ fval => row = SENSOR_ROWS - 1 /\ ~lval
      OBVIOUS
    <2>1. PixTick
      <3>1. ~SysTick
        BY DEF SysTick, SysCycle, ctrlVars
      <3>2. ~Reset
        BY DEF Reset, TypeInv, TypeOK
      <3>3. ~UNCHANGED vars
        BY DEF vars, ctrlVars
      <3>4. QED
        BY <3>1, <3>2, <3>3 DEF Next
    <2>2. Still
      BY <2>1, PhasePixel DEF Running
    <2>3. /\ row \in 0..SENSOR_ROWS /\ col \in Nat /\ bayer \in Seq(Int)
      BY Bounds DEF TypeInv, TypeOK, CtrlTypeOK
    <2>4. Rested
      BY <2>2, <2>3, RestedPixels DEF FrameInv, PixelInv, Still
    <2>5. bayer = <<>>
      BY <2>3, <2>4, EmptyLength DEF Rested, usedw
    <2>6. fval => row = SENSOR_ROWS - 1 /\ ~lval
      <3>1. SENSOR_ROWS \in Nat /\ SENSOR_COLUMNS \in Nat
        BY Sizes
      <3>2. QED
        BY <2>2, <2>3, <3>1 DEF Still, ImageOver, fval, lval
    <2>7. QED
      BY <2>2, <2>4, <2>5, <2>6 DEF Rested, Still
  <1>2. QED
    BY <1>1, FrameInvariance, PTL DEF Spec, StopLosesNothing

-----------------------------------------------------------------------------
(* The frame store.                                                        *)

(* Its variables, as StoreSpec maps them. *)
FrameWords == [k \in 0..(FRAME_COLORS - 1) |-> mem[CAM_BASE + 4 * k]]
Capturing == pc \in {"stop0", "start1", "poll", "hold"}

LEMMA WordsOfFrame ==
  CAM_BASE = 0 => \A k \in 0..(FRAME_COLORS - 1) : FrameWords[k] = mem[4 * k]
  <1> SUFFICES ASSUME CAM_BASE = 0, NEW k \in 0..(FRAME_COLORS - 1)
               PROVE  FrameWords[k] = mem[4 * k]
    OBVIOUS
  <1>1. CAM_BASE + 4 * k = 4 * k
    BY Frames
  <1>2. QED
    BY <1>1 DEF FrameWords

(* A word holds the color of this capture only if the memory took it in    *)
(* this capture.                                                           *)
LEMMA FilledWords ==
  ASSUME Image, Memory, NoColor \notin Nat, shot \in Nat, NEW n \in Nat, Stored(n)
  PROVE  Store!Filled = {k \in 0..(FRAME_COLORS - 1) : k < n}
  <1>1. ASSUME NEW k \in 0..(FRAME_COLORS - 1)
        PROVE  FrameWords[k] = Word(shot, k) <=> k < n
    <2>1. FrameWords[k] = mem[4 * k]
      BY WordsOfFrame DEF Memory
    <2>2. k < n => mem[4 * k] = Word(shot, k)
      BY DEF Stored
    <2>3. ~(k < n) => mem[4 * k] = Earlier(k)
      BY DEF Stored
    <2>4. Earlier(k) # Word(shot, k)
      <3>1. CASE shot <= 1
        BY <3>1, CapturesDiffer DEF Earlier
      <3>2. CASE ~(shot <= 1)
        <4>1. shot - 1 \in Nat /\ (shot - 1) + 1 = shot
          BY <3>2
        <4>2. QED
          BY <3>2, <4>1, CapturesDiffer DEF Earlier
      <3>3. QED
        BY <3>1, <3>2
    <2>5. QED
      BY <2>1, <2>2, <2>3, <2>4
  <1>2. Store!Filled = {k \in 0..(FRAME_COLORS - 1) : FrameWords[k] = Word(shot, k)}
    BY DEF Store!Filled, Store!Words, FrameWords
  <1>3. QED
    BY <1>1, <1>2

LEMMA StoreStarts == CAM_BASE = 0 /\ Init => Store!StoreInit
  <1> SUFFICES ASSUME CAM_BASE = 0, Init PROVE Store!StoreInit
    OBVIOUS
  <1>1. \A k \in 0..(FRAME_COLORS - 1) : 4 * k \in Addresses /\ CAM_BASE + 4 * k = 4 * k
    BY FrameAddresses, Frames
  <1>2. \A k \in 0..(FRAME_COLORS - 1) : mem[CAM_BASE + 4 * k] = Blank
    BY <1>1 DEF Init
  <1>3. QED
    BY <1>2 DEF Init, ProgramInit, Store!StoreInit, Store!Words

LEMMA StoreRestarts == CAM_BASE = 0 /\ Reset => Store!Restart
  <1> SUFFICES ASSUME CAM_BASE = 0, Reset PROVE Store!Restart
    OBVIOUS
  <1>1. \A k \in 0..(FRAME_COLORS - 1) : 4 * k \in Addresses /\ CAM_BASE + 4 * k = 4 * k
    BY FrameAddresses, Frames
  <1>2. mem' = [a \in Addresses |-> Blank]
    BY DEF Reset
  <1>3. \A k \in 0..(FRAME_COLORS - 1) : mem'[CAM_BASE + 4 * k] = Blank
    BY <1>1, <1>2
  <1>4. Blank' = Blank
    BY DEF Blank
  <1>5. QED
    BY <1>3, <1>4 DEF Reset, ProgramReset, Store!Restart, Store!Words

(* A cycle takes a capture from call to return, and the memory from color  *)
(* to color.                                                               *)
LEMMA StoreCycle ==
  ASSUME Image, Memory, NoColor \notin Nat, TypeInv, FrameInv,
         NEW acc, NEW waitrequest \in BOOLEAN, NEW n \in 0..Len(arriving),
         NEW delivered \in BOOLEAN, SysCycle(acc, waitrequest, n, delivered)
  PROVE  Store!StoreNext \/ UNCHANGED Store!storeVars
  <1>1. /\ AddressInv /\ BusInv /\ ProgramInv /\ Phase /\ shot \in Nat
        /\ mem \in [Addresses -> Colors]
        /\ CAM_BASE = 0 /\ FRAME_COLORS \in Nat
    BY CaptureAssumption, Frames
    DEF FrameInv, TypeInv, TypeOK, ProgramTypeOK, Colors, Memory
  <1>2. CamStep(acc)
    BY <1>1, ProgramCycle
  <1>3. mem' = mem \/ (Filling /\ pc \in {"poll", "hold"} /\ (pc = "hold" => readdata = 0))
    <2>1. Still => mem' = mem
      BY <1>1, StillCycle DEF Held
    <2>2. pc \in CapturePoints
      BY DEF TypeInv, TypeOK, ProgramTypeOK
    <2>3. QED
      BY <1>1, <2>1, <2>2 DEF Phase, CapturePoints, Fresh, Complete
  <1>4. mem' = mem => FrameWords' = FrameWords
    BY DEF FrameWords
  <1>5. CASE /\ mem' # mem /\ Filling
             /\ pc \in {"poll", "hold"} /\ (pc = "hold" => readdata = 0)
    <2>1. shot' = shot /\ Capturing /\ Capturing'
      BY <1>2, <1>5 DEF CamStep, Capturing
    <2>2. \E m : Takes(m)
      BY <1>1, <1>5, WaitingFills, PromptFills DEF GoesOn, Ends
    <2>3. /\ Put \in 0..(FRAME_COLORS - 1)
          /\ mem' = [mem EXCEPT ![4 * Put] = Word(shot, Put)]
      BY <1>5, <2>2 DEF Takes
    <2>4. Store!Filled = 0..(Put - 1)
      <3>1. Store!Filled = {k \in 0..(FRAME_COLORS - 1) : k < Put}
        BY <1>1, <1>5, <2>3, FilledWords DEF Filling
      <3>2. \A k : k \in 0..(FRAME_COLORS - 1) /\ k < Put <=> k \in 0..(Put - 1)
        BY <1>1, <2>3
      <3>3. QED
        BY <3>1, <3>2
    <2>5. FrameWords' = [FrameWords EXCEPT ![Put] = Word(shot, Put)]
      <3>1. ASSUME NEW k \in 0..(FRAME_COLORS - 1)
            PROVE  mem'[CAM_BASE + 4 * k] =
                     IF k = Put THEN Word(shot, Put) ELSE mem[CAM_BASE + 4 * k]
        <4>1. CAM_BASE + 4 * k = 4 * k /\ (4 * k = 4 * Put <=> k = Put)
          BY <1>1, <2>3
        <4>2. 4 * Put \in Addresses
          BY <1>1, <2>3, FrameAddresses
        <4>3. QED
          BY <1>1, <2>3, <4>1, <4>2
      <3>2. FrameWords' = [k \in 0..(FRAME_COLORS - 1) |-> mem'[CAM_BASE + 4 * k]]
        BY DEF FrameWords
      <3>3. QED
        BY <3>1, <3>2 DEF FrameWords
    <2>6. Store!Store
      BY <2>1, <2>3, <2>4, <2>5 DEF Store!Store, Store!Words, FrameWords, Capturing
    <2>7. QED
      BY <2>6 DEF Store!StoreNext
  <1>6. CASE mem' = mem
    <2>1. FrameWords' = FrameWords
      BY <1>4, <1>6
    <2>2. CASE pc = "ready" /\ pc' = "stop0" /\ shot < MaxCaptures /\ shot' = shot + 1
      <3>1. Store!Begin
        BY <2>1, <2>2 DEF Store!Begin, FrameWords
      <3>2. QED
        BY <3>1 DEF Store!StoreNext
    <2>3. CASE pc = "hold" /\ readdata # 0 /\ pc' = "start0" /\ shot' = shot
      <3>1. Stored(FRAME_COLORS)
        BY <1>1, <2>3 DEF Phase, Complete
      <3>2. Store!Filled = Store!Words
        <4>1. Store!Filled = {k \in 0..(FRAME_COLORS - 1) : k < FRAME_COLORS}
          BY <1>1, <3>1, FilledWords
        <4>2. \A k \in 0..(FRAME_COLORS - 1) : k < FRAME_COLORS
          BY <1>1
        <4>3. QED
          BY <4>1, <4>2 DEF Store!Words
      <3>3. Store!Return
        BY <2>1, <2>3, <3>2 DEF Store!Return, FrameWords
      <3>4. QED
        BY <3>3 DEF Store!StoreNext
    <2>4. CASE (Capturing' <=> Capturing) /\ shot' = shot
      BY <2>1, <2>4 DEF Store!storeVars, FrameWords, Capturing
    <2>5. QED
      BY <1>2, <2>2, <2>3, <2>4 DEF CamStep, Capturing
  <1>7. QED
    BY <1>3, <1>5, <1>6

LEMMA StoreStep ==
  ASSUME Image, Memory, NoColor \notin Nat
  PROVE  TypeInv /\ FrameInv /\ [Next]_vars => [Store!StoreNext]_(Store!storeVars)
  <1> SUFFICES ASSUME TypeInv, FrameInv, [Next]_vars
               PROVE  Store!StoreNext \/ UNCHANGED Store!storeVars
    OBVIOUS
  <1>1. CASE PixTick \/ UNCHANGED vars
    <2>1. mem' = mem /\ pc' = pc /\ shot' = shot
      BY <1>1 DEF PixTick, vars, progVars
    <2>2. QED
      BY <2>1 DEF Store!storeVars
  <1>2. CASE SysTick
    BY <1>2, StoreCycle DEF SysTick
  <1>3. CASE Reset
    BY <1>3, StoreRestarts DEF Store!StoreNext, Memory
  <1>4. QED
    BY <1>1, <1>2, <1>3 DEF Next

(* The controller implements the frame store: the words of the frame are   *)
(* filled in order with the colors of the capture, whatever the clocks,    *)
(* the Buffer FIFO, the memory and the program's polling do to each other, *)
(* and camera_capture returns only after the last.  A memory that makes    *)
(* the master wait gets every color once, one that does not gets it twice. *)
(* Both images are covered; the one camera_init configures fills the frame *)
(* of camera_init with the second kind of memory only, and with the first  *)
(* camera_capture does not return.                                         *)
THEOREM ImplementsStore ==
  ASSUME Image, Memory, NoColor \notin Nat
  PROVE  Spec => StoreSpec
  <1>1. Init => Store!StoreInit
    BY StoreStarts DEF Memory
  <1>2. TypeInv /\ FrameInv /\ [Next]_vars => [Store!StoreNext]_(Store!storeVars)
    BY StoreStep
  <1>3. QED
    BY <1>1, <1>2, FrameInvariance, PTL DEF Spec, StoreSpec, Store!StoreSpec
=============================================================================

------------------------- MODULE PieceDisplayProofs -------------------------
(***************************************************************************)
(* For any screen, board, radius and path: type correctness of             *)
(* PieceDisplay, that a frame during which no port changes shows the piece *)
(* once, whole, and nothing else, and that every position is shown so.     *)
(***************************************************************************)
EXTENDS PieceDisplay, TLAPS

-----------------------------------------------------------------------------
(* Arithmetic.                                                             *)

\* Quotient and remainder, which the renderer takes of every coordinate.
LEMMA DivMod ==
  ASSUME NEW a \in Nat, NEW s \in Nat \ {0}
  PROVE  a \div s \in Nat /\ a % s \in 0 .. s - 1 /\ a = s * (a \div s) + (a % s)
  BY SMT

\* A greater multiple is greater by at least the factor.
LEMMA Multiples ==
  ASSUME NEW s \in Nat \ {0}, NEW q \in Nat, NEW c \in Nat, q < c
  PROVE  s * q + s <= s * c
  BY SMT

\* A coordinate determines its square and its place in the square.
LEMMA UniqueDivMod ==
  ASSUME NEW s \in Nat \ {0}, NEW q \in Nat, NEW c \in Nat,
         NEW r \in 0 .. s - 1, NEW p \in 0 .. s - 1, s * q + r = s * c + p
  PROVE  q = c /\ r = p
<1>1. ~(q < c)
  BY Multiples, SMT
<1>2. ~(c < q)
  BY Multiples, SMT
<1> QED
  BY <1>1, <1>2, SMT

-----------------------------------------------------------------------------
(* The screen.                                                             *)

\* The totals are positive and the board lies within the counters.
LEMMA Geometry ==
  /\ HTotal \in Nat \ {0} /\ VTotal \in Nat \ {0}
  /\ HTotal <= CounterRange /\ VTotal <= CounterRange
  /\ HVisible <= HTotal /\ VVisible <= VTotal
  /\ LastH = HTotal - 1 /\ LastV = VTotal - 1
  /\ BoardSize \in Nat /\ BoardSize = SquareSize * Squares
  /\ BoardX + BoardSize <= HVisible /\ BoardY + BoardSize <= VVisible
<1>1. BoardSize \in Nat /\ BoardSize = SquareSize * Squares
  BY BoardAssumption, SMT DEF BoardSize
<1> QED
  BY <1>1, ScreenAssumption, BoardAssumption DEF HTotal, VTotal, LastH, LastV

\* On the board the truncated quotient of a coordinate is the number of its
\* square: ten and three bits are enough there.
LEMMA SquareOf ==
  ASSUME NEW a \in Nat, a < BoardSize
  PROVE  (a \div SquareSize) % Squares = a \div SquareSize
<1>1. /\ a \div SquareSize \in Nat /\ a % SquareSize \in 0 .. SquareSize - 1
      /\ a = SquareSize * (a \div SquareSize) + (a % SquareSize)
  BY DivMod, BoardAssumption
<1>2. a \div SquareSize < Squares
  <2> DEFINE q == a \div SquareSize
  <2> HIDE DEF q
  <2> SUFFICES ASSUME Squares <= q PROVE FALSE
    BY <1>1, BoardAssumption DEF q
  <2>1. q \in Nat /\ SquareSize * q <= a
    <3>1. q \in Nat /\ a % SquareSize \in Nat /\ a = SquareSize * q + (a % SquareSize)
      BY <1>1, BoardAssumption DEF q
    <3>2. SquareSize * q \in Nat
      BY <3>1, BoardAssumption, SMT
    <3> QED
      BY <3>1, <3>2
  <2>2. SquareSize * Squares <= SquareSize * q
    BY <2>1, BoardAssumption, SMT
  <2>3. SquareSize * q \in Nat
    BY <2>1, BoardAssumption, SMT
  <2> QED
    BY <2>1, <2>2, <2>3, Geometry
<1> QED
  BY <1>1, <1>2, BoardAssumption, SMT

\* The board is left of and above the end of the counters: no wrap in it.
LEMMA BoardCoordinates ==
  ASSUME NEW x \in Nat, NEW y \in Nat, board_area(x, y)
  PROVE  /\ board_x(x) = x - BoardX /\ x - BoardX \in Nat /\ x - BoardX < BoardSize
         /\ board_y(y) = y - BoardY /\ y - BoardY \in Nat /\ y - BoardY < BoardSize
         /\ active_video(x, y)
  BY Geometry, ScreenAssumption, BoardAssumption, SMT
     DEF board_area, board_x, board_y, active_video

\* A pixel of the disk, in terms of its place in the square.
LEMMA DiskPixel ==
  ASSUME NEW row \in 0 .. Squares - 1, NEW col \in 0 .. Squares - 1, NEW z
  PROVE  z \in Disk(row, col) <=>
           \E i \in 0 .. SquareSize - 1, j \in 0 .. SquareSize - 1 :
             /\ z = <<BoardX + (SquareSize * col + i), BoardY + (SquareSize * row + j)>>
             /\ (i - Centre) * (i - Centre) + (j - Centre) * (j - Centre) <= RadiusSquared
<1>1. ASSUME z \in Disk(row, col)
      PROVE  \E i \in 0 .. SquareSize - 1, j \in 0 .. SquareSize - 1 :
               /\ z = <<BoardX + (SquareSize * col + i), BoardY + (SquareSize * row + j)>>
               /\ (i - Centre) * (i - Centre) + (j - Centre) * (j - Centre) <= RadiusSquared
  <2>1. PICK p \in SquarePixels :
          /\ InDisk(p)
          /\ z = <<BoardX + (SquareSize * col + p[1]), BoardY + (SquareSize * row + p[2])>>
    BY <1>1 DEF Disk
  <2>2. p[1] \in 0 .. SquareSize - 1 /\ p[2] \in 0 .. SquareSize - 1
    BY DEF SquarePixels
  <2> QED
    BY <2>1, <2>2, Zenon DEF InDisk
<1>2. ASSUME NEW i \in 0 .. SquareSize - 1, NEW j \in 0 .. SquareSize - 1,
             z = <<BoardX + (SquareSize * col + i), BoardY + (SquareSize * row + j)>>,
             (i - Centre) * (i - Centre) + (j - Centre) * (j - Centre) <= RadiusSquared
      PROVE  z \in Disk(row, col)
  <2> DEFINE p == <<i, j>>
  <2>1. p \in SquarePixels /\ p[1] = i /\ p[2] = j
    BY DEF SquarePixels
  <2>2. InDisk(p)
    BY <1>2, <2>1, Zenon DEF InDisk
  <2>3. z = <<BoardX + (SquareSize * col + p[1]), BoardY + (SquareSize * row + p[2])>>
    BY <1>2, <2>1, Zenon
  <2> HIDE DEF p
  <2> QED
    BY <2>1, <2>2, <2>3 DEF Disk
<1> QED
  BY <1>1, <1>2

\* A square starts and ends on the board.
LEMMA SquareOnBoard ==
  ASSUME NEW c \in 0 .. Squares - 1, NEW i \in 0 .. SquareSize - 1
  PROVE  SquareSize * c + i \in Nat /\ SquareSize * c + i < BoardSize
<1> DEFINE k == SquareSize * c
<1>1. k + SquareSize <= BoardSize
  BY Multiples, Geometry, BoardAssumption
<1>2. k \in Nat
  BY BoardAssumption, SMT
<1> HIDE DEF k
<1> QED
  BY <1>1, <1>2, Geometry, BoardAssumption DEF k

\* The renderer paints a pixel as piece exactly if it lies in the disk of the
\* square the ports name.
LEMMA PaintedIsDisk ==
  ASSUME TypeOK, NEW x \in 0 .. HTotal - 1, NEW y \in 0 .. VTotal - 1
  PROVE  draw_piece(x, y) <=> <<x, y>> \in Disk(piece_row, piece_col)
<1> USE BoardAssumption, Geometry
<1>0. piece_row \in 0 .. Squares - 1 /\ piece_col \in 0 .. Squares - 1
  BY DEF TypeOK
<1>c. Centre \in Int
  BY SMT DEF Centre
<1>1. ASSUME draw_piece(x, y)
      PROVE  <<x, y>> \in Disk(piece_row, piece_col)
  <2>1. board_area(x, y) /\ board_row(y) = piece_row /\ board_col(x) = piece_col
        /\ inside_piece_circle(x, y)
    BY <1>1 DEF draw_piece, selected_square
  <2> DEFINE a == x - BoardX
             b == y - BoardY
             i == a % SquareSize
             j == b % SquareSize
  <2>2. board_x(x) = a /\ board_y(y) = b /\ a \in Nat /\ b \in Nat
        /\ a < BoardSize /\ b < BoardSize
    BY <2>1, BoardCoordinates
  <2>3. piece_col = a \div SquareSize /\ piece_row = b \div SquareSize
    BY <2>1, <2>2, SquareOf DEF board_col, board_row
  <2>4. /\ i \in 0 .. SquareSize - 1 /\ a = SquareSize * piece_col + i
        /\ j \in 0 .. SquareSize - 1 /\ b = SquareSize * piece_row + j
    BY <2>2, <2>3, DivMod
  <2>5. (i - Centre) * (i - Centre) + (j - Centre) * (j - Centre) <= RadiusSquared
    BY <2>1, <2>2 DEF inside_piece_circle, dx, dy
  <2> DEFINE k == SquareSize * piece_col
             l == SquareSize * piece_row
  <2>6. k \in Nat /\ l \in Nat /\ a = k + i /\ b = l + j
    BY <1>0, <2>4, SMT
  <2> HIDE DEF i, j, k, l
  <2>7. x = BoardX + (k + i) /\ y = BoardY + (l + j)
    BY <2>4, <2>6
  <2>8. x = BoardX + (SquareSize * piece_col + i) /\ y = BoardY + (SquareSize * piece_row + j)
    BY <2>7, Zenon DEF k, l
  <2> HIDE DEF a, b
  <2> QED
    BY <1>0, <2>4, <2>5, <2>8, DiskPixel
<1>2. ASSUME <<x, y>> \in Disk(piece_row, piece_col)
      PROVE  draw_piece(x, y)
  <2>1. PICK i \in 0 .. SquareSize - 1, j \in 0 .. SquareSize - 1 :
          /\ <<x, y>> = <<BoardX + (SquareSize * piece_col + i), BoardY + (SquareSize * piece_row + j)>>
          /\ (i - Centre) * (i - Centre) + (j - Centre) * (j - Centre) <= RadiusSquared
    <3> DEFINE z == <<x, y>>
    <3>1. z \in Disk(piece_row, piece_col)
      BY <1>2
    <3> HIDE DEF z
    <3>2. \E i \in 0 .. SquareSize - 1, j \in 0 .. SquareSize - 1 :
            /\ z = <<BoardX + (SquareSize * piece_col + i), BoardY + (SquareSize * piece_row + j)>>
            /\ (i - Centre) * (i - Centre) + (j - Centre) * (j - Centre) <= RadiusSquared
      BY <1>0, <3>1, DiskPixel
    <3> QED
      BY <3>2 DEF z
  <2> DEFINE a == SquareSize * piece_col + i
             b == SquareSize * piece_row + j
  <2>2. a \in Nat /\ a < BoardSize /\ b \in Nat /\ b < BoardSize
    BY <1>0, SquareOnBoard
  <2>3. x = BoardX + a /\ y = BoardY + b
    BY <2>1, Zenon
  <2>4. a = SquareSize * piece_col + i /\ b = SquareSize * piece_row + j
    OBVIOUS
  <2>5. /\ a \div SquareSize = piece_col /\ a % SquareSize = i
        /\ b \div SquareSize = piece_row /\ b % SquareSize = j
    <3>1. /\ a \div SquareSize \in Nat /\ a % SquareSize \in 0 .. SquareSize - 1
          /\ a = SquareSize * (a \div SquareSize) + (a % SquareSize)
      BY <2>2, DivMod
    <3>2. /\ b \div SquareSize \in Nat /\ b % SquareSize \in 0 .. SquareSize - 1
          /\ b = SquareSize * (b \div SquareSize) + (b % SquareSize)
      BY <2>2, DivMod
    <3> HIDE DEF a, b
    <3>3. a \div SquareSize = piece_col /\ a % SquareSize = i
      BY <1>0, <2>4, <3>1, UniqueDivMod
    <3>4. b \div SquareSize = piece_row /\ b % SquareSize = j
      BY <1>0, <2>4, <3>2, UniqueDivMod
    <3> QED
      BY <3>3, <3>4
  <2> HIDE DEF a, b
  <2>6. board_area(x, y)
    BY <2>2, <2>3 DEF board_area
  <2>7. board_x(x) = a /\ board_y(y) = b /\ active_video(x, y)
    BY <2>2, <2>3, <2>6, BoardCoordinates
  <2>8. board_col(x) = piece_col /\ board_row(y) = piece_row
    BY <2>2, <2>5, <2>7, SquareOf DEF board_col, board_row
  <2>9. inside_piece_circle(x, y)
    BY <2>1, <2>5, <2>7 DEF inside_piece_circle, dx, dy
  <2> QED
    BY <2>6, <2>7, <2>8, <2>9 DEF draw_piece, selected_square
<1> QED
  BY <1>1, <1>2

\* The disk of a square on the board is on the screen.
LEMMA DiskOnScreen ==
  ASSUME NEW row \in 0 .. Squares - 1, NEW col \in 0 .. Squares - 1
  PROVE  Disk(row, col) \subseteq Pixels
<1> SUFFICES ASSUME NEW z \in Disk(row, col) PROVE z \in Pixels
  OBVIOUS
<1>1. PICK i \in 0 .. SquareSize - 1, j \in 0 .. SquareSize - 1 :
        z = <<BoardX + (SquareSize * col + i), BoardY + (SquareSize * row + j)>>
  BY DiskPixel
<1>2. /\ SquareSize * col + i \in Nat /\ SquareSize * col + i < BoardSize
      /\ SquareSize * row + j \in Nat /\ SquareSize * row + j < BoardSize
  BY SquareOnBoard
<1> DEFINE k == SquareSize * col + i
           l == SquareSize * row + j
           x == BoardX + k
           y == BoardY + l
<1> HIDE DEF k, l
<1>4. x \in 0 .. HTotal - 1 /\ y \in 0 .. VTotal - 1
  BY <1>2, Geometry, ScreenAssumption, BoardAssumption DEF k, l
<1> HIDE DEF x, y
<1> QED
  BY <1>1, <1>4 DEF Pixels, x, y, k, l

-----------------------------------------------------------------------------
(* The inductive invariant.                                                *)

\* The pixels the beam passes before it reaches column h of line v.
Before(p, h, v) == p[2] < v \/ (p[2] = v /\ p[1] < h)

\* The part of the piece the beam has passed in this frame.
Scanned == { p \in Disk(piece_row, piece_col) : Before(p, h_count, v_count) }

\* With the ports left alone since the frame began, exactly that is painted.
DrawnIsScanned == reset_n = 1 /\ clean = 1 => drawn = Scanned

\* In reset the beam waits at the first pixel of an empty frame.
ResetIsStart == reset_n = 0 => h_count = 0 /\ v_count = 0 /\ drawn = {}

IInv == TypeOK /\ DrawnIsScanned /\ ResetIsStart

\* Nothing comes before the first pixel.
LEMMA NothingBeforeStart ==
  ASSUME NEW row \in 0 .. Squares - 1, NEW col \in 0 .. Squares - 1
  PROVE  { p \in Disk(row, col) : Before(p, 0, 0) } = {}
<1>1. \A p \in Pixels : p[1] \in Nat /\ p[2] \in Nat
  BY Geometry DEF Pixels
<1>2. \A p \in Pixels : ~Before(p, 0, 0)
  BY <1>1 DEF Before
<1> QED
  BY <1>2, DiskOnScreen

\* Init establishes the invariant.
LEMMA InitIInv == Init => IInv
<1> SUFFICES ASSUME Init PROVE IInv
  OBVIOUS
<1> USE DEF Init
<1>0. 0 \in 0 .. Squares - 1 /\ 0 \in 0 .. HTotal - 1 /\ 0 \in 0 .. VTotal - 1
  BY Geometry, BoardAssumption
<1>1. 1 \in 1 .. Len(Path) /\ 0 \in 0 .. SleepPixels
  BY ProgramAssumption
<1>2. TypeOK
  BY <1>0, <1>1 DEF TypeOK
<1>3. DrawnIsScanned
  BY <1>0, NothingBeforeStart DEF DrawnIsScanned, Scanned
<1>4. ResetIsStart
  BY DEF ResetIsStart
<1> QED
  BY <1>2, <1>3, <1>4 DEF IInv

\* The next pixel is on the screen and comes next.
LEMMA Advance ==
  ASSUME TypeOK
  PROVE  /\ NextH \in 0 .. HTotal - 1 /\ NextV \in 0 .. VTotal - 1
         /\ FrameEnds => NextH = 0 /\ NextV = 0
         /\ ~FrameEnds => \A p \in Pixels :
              Before(p, NextH, NextV) <=> Before(p, h_count, v_count) \/ p = <<h_count, v_count>>
         /\ FrameEnds => \A p \in Pixels :
              Before(p, h_count, v_count) \/ p = <<h_count, v_count>>
<1> USE Geometry
<1>1. /\ h_count \in 0 .. HTotal - 1 /\ v_count \in 0 .. VTotal - 1 /\ CounterRange \in Nat
  BY ScreenAssumption DEF TypeOK
<1>2. h_count # LastH => (h_count + 1) % CounterRange = h_count + 1 /\ h_count + 1 < HTotal
  BY <1>1
<1>3. v_count # LastV => (v_count + 1) % CounterRange = v_count + 1 /\ v_count + 1 < VTotal
  BY <1>1
<1>4. NextH \in 0 .. HTotal - 1 /\ NextV \in 0 .. VTotal - 1
  BY <1>1, <1>2, <1>3 DEF NextH, NextV
<1>5. FrameEnds => NextH = 0 /\ NextV = 0
  BY DEF FrameEnds, NextH, NextV
<1>6. \A p \in Pixels : /\ p = <<p[1], p[2]>>
                        /\ p[1] \in 0 .. HTotal - 1 /\ p[2] \in 0 .. VTotal - 1
  BY DEF Pixels
<1>7. ASSUME ~FrameEnds, NEW p \in Pixels
      PROVE  Before(p, NextH, NextV) <=> Before(p, h_count, v_count) \/ p = <<h_count, v_count>>
  <2>1. p = <<h_count, v_count>> <=> p[1] = h_count /\ p[2] = v_count
    BY <1>6
  <2>2. CASE h_count # LastH
    BY <1>1, <1>2, <1>6, <2>1, <2>2 DEF NextH, NextV, Before
  <2>3. CASE h_count = LastH
    BY <1>1, <1>3, <1>6, <1>7, <2>1, <2>3 DEF FrameEnds, NextH, NextV, Before
  <2> QED
    BY <2>2, <2>3
<1>8. ASSUME FrameEnds, NEW p \in Pixels
      PROVE  Before(p, h_count, v_count) \/ p = <<h_count, v_count>>
  <2>1. p = <<h_count, v_count>> <=> p[1] = h_count /\ p[2] = v_count
    BY <1>6
  <2> QED
    BY <1>1, <1>6, <1>8, <2>1 DEF FrameEnds, Before
<1> QED
  BY <1>4, <1>5, <1>7, <1>8

\* What a pixel adds to a clean frame is the part of the disk at the beam.
LEMMA PaintedGrows ==
  ASSUME IInv, reset_n = 1, clean = 1
  PROVE  Painted = { p \in Disk(piece_row, piece_col) :
                       Before(p, h_count, v_count) \/ p = <<h_count, v_count>> }
<1> DEFINE z == <<h_count, v_count>>
<1>1. drawn = Scanned
  BY DEF IInv, DrawnIsScanned
<1>2. draw_piece(h_count, v_count) <=> z \in Disk(piece_row, piece_col)
  BY PaintedIsDisk DEF IInv, TypeOK
<1>3. Painted = IF z \in Disk(piece_row, piece_col) THEN Scanned \cup {z} ELSE Scanned
  BY <1>1, <1>2 DEF Painted
<1> HIDE DEF z
<1> QED
  BY <1>3 DEF Scanned, z

\* A clean frame ends with the whole disk painted.
LEMMA WholeDisk ==
  ASSUME IInv, reset_n = 1, clean = 1, FrameEnds
  PROVE  Painted = Disk(piece_row, piece_col)
<1>1. piece_row \in 0 .. Squares - 1 /\ piece_col \in 0 .. Squares - 1 /\ TypeOK
  BY DEF IInv, TypeOK
<1>2. \A p \in Disk(piece_row, piece_col) :
        Before(p, h_count, v_count) \/ p = <<h_count, v_count>>
  BY <1>1, Advance, DiskOnScreen
<1> QED
  BY <1>2, PaintedGrows

-----------------------------------------------------------------------------
(* Every step preserves the invariant, action by action.                   *)

LEMMA ScanIInv == ASSUME IInv, Scan, UNCHANGED <<ports, pc, at>>,
                         asleep' \in 0 .. SleepPixels
                  PROVE  IInv'
<1> USE DEF Scan, ports
<1>1. /\ TypeOK /\ DrawnIsScanned /\ piece_row \in 0 .. Squares - 1
      /\ piece_col \in 0 .. Squares - 1 /\ reset_n = 1
  BY DEF IInv, TypeOK
<1>2. h_count' \in 0 .. HTotal - 1 /\ v_count' \in 0 .. VTotal - 1
  BY <1>1, Advance
<1>3. drawn' \in SUBSET Pixels
  <2>1. <<h_count, v_count>> \in Pixels /\ drawn \in SUBSET Pixels
    BY <1>1 DEF TypeOK, Pixels
  <2> QED
    BY <2>1 DEF Painted
<1>4. shown' \in Positions \cup {<<>>}
  BY <1>1 DEF TypeOK, Positions
<1>6. TypeOK'
  BY <1>1, <1>2, <1>3, <1>4 DEF TypeOK
<1>7. DrawnIsScanned'
  <2>1. CASE FrameEnds
    BY <1>1, <2>1, Advance, NothingBeforeStart DEF DrawnIsScanned, Scanned
  <2>2. CASE ~FrameEnds
    <3> SUFFICES ASSUME clean = 1 PROVE drawn' = Scanned'
      BY <2>2 DEF DrawnIsScanned
    <3>1. drawn' = { p \in Disk(piece_row, piece_col) :
                       Before(p, h_count, v_count) \/ p = <<h_count, v_count>> }
      BY <1>1, <2>2, PaintedGrows
    <3>2. \A p \in Disk(piece_row, piece_col) :
            Before(p, NextH, NextV) <=> Before(p, h_count, v_count) \/ p = <<h_count, v_count>>
      BY <1>1, <2>2, Advance, DiskOnScreen
    <3>3. Scanned' = { p \in Disk(piece_row, piece_col) : Before(p, NextH, NextV) }
      BY DEF Scanned, Disk
    <3> QED
      BY <3>1, <3>2, <3>3
  <2> QED
    BY <2>1, <2>2
<1>8. ResetIsStart'
  BY <1>1 DEF ResetIsStart
<1> QED
  BY <1>6, <1>7, <1>8 DEF IInv

LEMMA NextIInv == IInv /\ [Next]_vars => IInv'
<1> SUFFICES ASSUME IInv, [Next]_vars PROVE IInv'
  OBVIOUS
<1> USE DEF ports, program, scan, ghosts
<1>0. TypeOK /\ DrawnIsScanned /\ ResetIsStart
  BY DEF IInv
<1>1. CASE Clock
  <2>1. asleep' \in 0 .. SleepPixels
    BY <1>0, <1>1, ProgramAssumption DEF Clock, TypeOK
  <2>2. CASE Scan
    BY <1>1, <2>1, <2>2, ScanIInv DEF Clock
  <2>3. CASE Held
    BY <1>0, <1>1, <2>1, <2>3
       DEF Clock, Held, IInv, TypeOK, DrawnIsScanned, ResetIsStart, Scanned, Disk
  <2> QED
    BY <1>1, <2>2, <2>3 DEF Clock
<1>2. CASE Press
  <2>1. 0 \in 0 .. HTotal - 1 /\ 0 \in 0 .. VTotal - 1
    BY Geometry
  <2>2. TypeOK'
    BY <1>0, <1>2, <2>1 DEF Press, TypeOK
  <2>3. DrawnIsScanned' /\ ResetIsStart'
    BY <1>2 DEF Press, DrawnIsScanned, ResetIsStart
  <2> QED
    BY <2>2, <2>3 DEF IInv
<1>3. CASE Release
  <2>1. TypeOK'
    BY <1>0, <1>3 DEF Release, TypeOK
  <2>2. drawn' = Scanned'
    <3>1. /\ h_count' = 0 /\ v_count' = 0 /\ drawn' = {}
          /\ piece_row' \in 0 .. Squares - 1 /\ piece_col' \in 0 .. Squares - 1
      BY <1>0, <1>3 DEF Release, ResetIsStart, TypeOK
    <3> QED
      BY <3>1, NothingBeforeStart DEF Scanned
  <2>3. ResetIsStart'
    BY <1>3 DEF Release, ResetIsStart
  <2> QED
    BY <2>1, <2>2, <2>3 DEF IInv, DrawnIsScanned
<1>4. CASE WriteRow
  <2>1. Path[at] \in Positions
    BY <1>0, ProgramAssumption DEF TypeOK, Positions
  <2>2. Row(Path[at]) \in 0 .. Squares - 1
    BY <2>1 DEF Positions, Row
  <2>3. TypeOK'
    BY <1>0, <1>4, <2>2 DEF WriteRow, TypeOK
  <2> QED
    BY <1>0, <1>4, <2>3 DEF WriteRow, IInv, DrawnIsScanned, ResetIsStart
<1>5. CASE WriteCol
  <2>1. Path[at] \in Positions
    BY <1>0, ProgramAssumption DEF TypeOK, Positions
  <2>2. Column(Path[at]) \in 0 .. Squares - 1
    BY <2>1 DEF Positions, Column
  <2>3. TypeOK'
    BY <1>0, <1>5, <2>2, ProgramAssumption DEF WriteCol, TypeOK
  <2> QED
    BY <1>0, <1>5, <2>3 DEF WriteCol, IInv, DrawnIsScanned, ResetIsStart
<1>6. CASE Wake
  <2>1. at' \in 1 .. Len(Path)
    <3>1. Len(Path) \in Nat \ {0} /\ at \in Nat
      BY <1>0, ProgramAssumption DEF TypeOK
    <3>2. at % Len(Path) \in 0 .. Len(Path) - 1
      BY <3>1, DivMod
    <3> QED
      BY <1>6, <3>1, <3>2 DEF Wake
  <2>2. TypeOK'
    BY <1>0, <1>6, <2>1, ProgramAssumption DEF Wake, TypeOK
  <2> QED
    BY <1>0, <1>6, <2>2 DEF Wake, IInv, DrawnIsScanned, ResetIsStart, Scanned, Disk
<1>7. CASE UNCHANGED vars
  BY <1>0, <1>7 DEF vars, IInv, TypeOK, DrawnIsScanned, ResetIsStart, Scanned, Disk
<1> QED
  BY <1>1, <1>2, <1>3, <1>4, <1>5, <1>6, <1>7 DEF Next, Program

-----------------------------------------------------------------------------
\* The strengthening is an invariant: while the ports are left alone the beam
\* has painted the part of the piece it has passed.
THEOREM IInvCorrect == Spec => []IInv
<1> QED
  BY InitIInv, NextIInv, PTL DEF Spec

\* Type correctness: the counters stay on the screen and the ports on the
\* board, for any geometry the assumptions admit.
THEOREM TypeCorrect == Spec => []TypeOK
<1>1. IInv => TypeOK
  BY DEF IInv
<1> QED
  BY <1>1, IInvCorrect, PTL

\* A frame during which no port changed shows the piece once, whole and in
\* the middle of its square, and no piece elsewhere.
THEOREM CleanFramesAreWhole == Spec => CleanFrame
<1>1. IInv /\ [Next]_vars =>
        [reset_n = 1 /\ FrameEnds /\ h_count' = 0 /\ clean = 1
           => Painted = Disk(piece_row, piece_col)]_vars
  BY WholeDisk
<1> QED
  BY <1>1, IInvCorrect, PTL DEF Spec, CleanFrame

-----------------------------------------------------------------------------
(* Every position is shown: how long the sleep is, counted in pixels.      *)

\* The pixels the beam has passed in this frame.
Beam == HTotal * v_count + h_count

\* While the program sleeps and the key is left alone, the beam finishes the
\* torn frame and then a whole one, and the sleep is as long as both.
SleepInv ==
  /\ pc \in {"col", "sleep"} => piece_row = Row(Path[at])
  /\ pc = "sleep" => piece_col = Column(Path[at])
  /\ pc = "sleep" /\ pressed = 0 =>
       /\ reset_n = 1
       /\ settled = 1 => shown = <<piece_row, piece_col>>
       /\ settled = 0 /\ clean = 0 => asleep <= Beam
       /\ settled = 0 /\ clean = 1 => asleep <= FrameSize + Beam

LEMMA NextMultiple ==
  ASSUME NEW s \in Nat, NEW q \in Nat
  PROVE  s * (q + 1) = s * q + s /\ s * q \in Nat
  BY SMT

\* The beam passes one pixel at a time and the last one ends the frame.
LEMMA BeamMoves ==
  ASSUME TypeOK
  PROVE  /\ Beam \in Nat /\ Beam < FrameSize /\ FrameSize \in Nat
         /\ FrameEnds => HTotal * NextV + NextH = 0
         /\ ~FrameEnds => HTotal * NextV + NextH = Beam + 1
<1>1. /\ HTotal \in Nat \ {0} /\ VTotal \in Nat \ {0} /\ LastH = HTotal - 1 /\ LastV = VTotal - 1
      /\ HTotal <= CounterRange /\ VTotal <= CounterRange /\ CounterRange \in Nat
      /\ h_count \in 0 .. HTotal - 1 /\ v_count \in 0 .. VTotal - 1
  BY Geometry, ScreenAssumption DEF TypeOK
<1>2. v_count \in Nat /\ VTotal \in Nat /\ v_count < VTotal
  BY <1>1
<1>3. HTotal * v_count + HTotal <= HTotal * VTotal
  BY <1>1, <1>2, Multiples
<1>4. /\ HTotal * (v_count + 1) = HTotal * v_count + HTotal /\ HTotal * v_count \in Nat
      /\ HTotal * VTotal \in Nat
  BY <1>1, <1>2, NextMultiple
<1>5. HTotal * 0 = 0
  BY <1>1
<1>6. h_count # LastH => NextH = h_count + 1 /\ NextV = v_count
  <2>1. h_count # LastH => (h_count + 1) % CounterRange = h_count + 1
    BY <1>1
  <2> QED
    BY <2>1 DEF NextH, NextV
<1>7. h_count = LastH /\ v_count # LastV => NextH = 0 /\ NextV = v_count + 1
  <2>1. v_count # LastV => (v_count + 1) % CounterRange = v_count + 1
    BY <1>1
  <2> QED
    BY <2>1 DEF NextH, NextV
<1>8. FrameEnds => NextH = 0 /\ NextV = 0
  BY DEF FrameEnds, NextH, NextV
<1> DEFINE line == HTotal * v_count
<1>9. Beam = line + h_count /\ FrameSize = HTotal * VTotal
  BY DEF Beam, FrameSize
<1>10. ASSUME ~FrameEnds PROVE HTotal * NextV + NextH = line + h_count + 1
  <2>1. CASE h_count # LastH
    <3>1. HTotal * NextV = line /\ NextH = h_count + 1
      BY <1>6, <2>1
    <3>2. line \in Nat /\ h_count \in Nat
      BY <1>1, <1>4
    <3> HIDE DEF line
    <3> QED
      BY <3>1, <3>2
  <2>2. CASE h_count = LastH
    <3>1. HTotal * NextV = line + HTotal /\ NextH = 0
      BY <1>4, <1>7, <1>10, <2>2 DEF FrameEnds
    <3>2. line \in Nat /\ h_count = HTotal - 1 /\ HTotal \in Nat
      BY <1>1, <1>4, <2>2
    <3> HIDE DEF line
    <3> QED
      BY <3>1, <3>2
  <2> QED
    BY <2>1, <2>2
<1>11. FrameEnds => HTotal * NextV + NextH = 0
  <2>1. FrameEnds => HTotal * NextV = 0 /\ NextH = 0
    BY <1>5, <1>8
  <2> QED
    BY <2>1
<1>12. Beam \in Nat /\ Beam < FrameSize /\ FrameSize \in Nat
  <2> DEFINE size == HTotal * VTotal
  <2>1. line \in Nat /\ size \in Nat /\ line + HTotal <= size /\ HTotal \in Nat /\ h_count \in 0 .. HTotal - 1
    BY <1>1, <1>3, <1>4
  <2>2. Beam = line + h_count /\ FrameSize = size
    BY <1>9
  <2> HIDE DEF line, size
  <2> QED
    BY <2>1, <2>2
<1> QED
  BY <1>9, <1>10, <1>11, <1>12

LEMMA SleepStep == IInv /\ SleepInv /\ [Next]_vars => SleepInv'
<1> SUFFICES ASSUME IInv, SleepInv, [Next]_vars PROVE SleepInv'
  OBVIOUS
<1> USE DEF ports, program, scan, ghosts
<1>0. TypeOK
  BY DEF IInv
<1>1. CASE Clock
  <2>1. UNCHANGED <<piece_row, piece_col, pc, at, reset_n, pressed>>
    BY <1>1 DEF Clock, Scan, Held
  <2>2. ASSUME pc = "sleep", pressed = 0
        PROVE  /\ reset_n' = 1
               /\ settled' = 1 => shown' = <<piece_row, piece_col>>
               /\ settled' = 0 /\ clean' = 0 => asleep' <= Beam'
               /\ settled' = 0 /\ clean' = 1 => asleep' <= FrameSize + Beam'
    <3>1. reset_n = 1 /\ Scan
      BY <1>1, <2>2 DEF SleepInv, Clock, Held
    <3>2. Beam' = HTotal * NextV + NextH
      BY <3>1 DEF Scan, Beam, HTotal
    <3>3. /\ Beam \in Nat /\ Beam < FrameSize /\ FrameSize \in Nat
          /\ FrameEnds => Beam' = 0
          /\ ~FrameEnds => Beam' = Beam + 1
      BY <1>0, <3>2, BeamMoves
    <3>4. asleep' \in {asleep, asleep + 1} /\ asleep \in Nat
      BY <1>0, <1>1 DEF Clock, TypeOK
    <3>5. /\ clean' = IF FrameEnds THEN 1 ELSE clean
          /\ shown' = IF FrameEnds /\ clean = 1 THEN <<piece_row, piece_col>> ELSE shown
          /\ settled' = IF FrameEnds /\ clean = 1 THEN 1 ELSE settled
      BY <2>2, <3>1 DEF Scan
    <3>6. clean \in {0, 1} /\ settled \in {0, 1}
      BY <1>0 DEF TypeOK
    <3>7. /\ settled = 1 => shown = <<piece_row, piece_col>>
          /\ settled = 0 /\ clean = 0 => asleep <= Beam
          /\ settled = 0 /\ clean = 1 => asleep <= FrameSize + Beam
      BY <2>2 DEF SleepInv
    <3>8. CASE FrameEnds
      BY <3>1, <2>1, <3>3, <3>4, <3>5, <3>6, <3>7, <3>8
    <3>9. CASE ~FrameEnds
      BY <3>1, <2>1, <3>3, <3>4, <3>5, <3>6, <3>7, <3>9
    <3> QED
      BY <3>8, <3>9
  <2> QED
    BY <2>1, <2>2 DEF SleepInv, FrameSize
<1>2. CASE Press
  BY <1>2 DEF Press, SleepInv
<1>3. CASE Release
  BY <1>3 DEF Release, SleepInv
<1>4. CASE WriteRow
  BY <1>4 DEF WriteRow, SleepInv
<1>5. CASE WriteCol
  <2>1. UNCHANGED <<h_count, v_count, reset_n>> /\ asleep' = 0 /\ settled' = 0 /\ clean' = 0
        /\ pressed' = 1 - reset_n /\ piece_col' = Column(Path[at]) /\ piece_row' = piece_row
        /\ at' = at /\ pc = "col" /\ pc' = "sleep"
    BY <1>5 DEF WriteCol
  <2>2. Beam' = Beam /\ Beam \in Nat
    BY <1>0, <2>1, BeamMoves DEF Beam
  <2>3. reset_n \in {0, 1}
    BY <1>0 DEF TypeOK
  <2> QED
    BY <2>1, <2>2, <2>3 DEF SleepInv
<1>6. CASE Wake
  BY <1>6 DEF Wake, SleepInv
<1>7. CASE UNCHANGED vars
  BY <1>7 DEF vars, SleepInv, Beam
<1> QED
  BY <1>1, <1>2, <1>3, <1>4, <1>5, <1>6, <1>7 DEF Next, Program

\* Every position the program writes to the two ports is on the screen for a
\* whole frame before it moves on, unless the key resets the scan meanwhile,
\* for every geometry whose two frames are shorter than the sleep.
THEOREM PositionsAreShown == Spec => []EachShown
<1>1. Init => SleepInv
  BY DEF Init, SleepInv
<1>2. IInv /\ SleepInv => EachShown
  <2> SUFFICES ASSUME IInv, SleepInv, pc = "sleep", Slept, pressed = 0
               PROVE  settled = 1 /\ shown = Path[at]
    BY DEF EachShown
  <2>1. Beam \in Nat /\ Beam < FrameSize /\ FrameSize \in Nat
    BY BeamMoves DEF IInv
  <2>2. asleep \in Nat /\ SleepPixels \in Nat /\ asleep >= SleepPixels /\ SleepPixels >= 2 * FrameSize
    BY SleepAssumption, ProgramAssumption DEF Slept, IInv, TypeOK
  <2>3. settled \in {0, 1} /\ clean \in {0, 1}
    BY DEF IInv, TypeOK
  <2>4. settled # 0
    BY <2>1, <2>2, <2>3 DEF SleepInv
  <2>5. Path[at] = <<Path[at][1], Path[at][2]>>
    <3>1. Path \in Seq(Positions) /\ at \in 1 .. Len(Path)
      BY ProgramAssumption DEF IInv, TypeOK, Positions
    <3>2. Path[at] \in Positions
      BY <3>1
    <3> QED
      BY <3>2 DEF Positions
  <2> QED
    BY <2>3, <2>4, <2>5 DEF SleepInv, Row, Column
<1> QED
  BY <1>1, <1>2, SleepStep, IInvCorrect, PTL DEF Spec
=============================================================================

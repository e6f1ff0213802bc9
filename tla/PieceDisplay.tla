---------------------------- MODULE PieceDisplay ----------------------------
(***************************************************************************)
(* Project 7_niosv_piece_control: a program walks a checkers piece over a  *)
(* board by writing its row and its column to two output ports, one after  *)
(* the other, and sleeping a second; vga_timing.v scans the screen without *)
(* regard to the program and checkerboard_renderer.v colours each pixel    *)
(* from the two ports as they are when the beam gets there.                *)
(*                                                                         *)
(* Time advances by pixels, two cycles of clk_50.  The key resets the scan *)
(* and nothing else: the program and its ports run on.                     *)
(***************************************************************************)
EXTENDS Integers, Sequences

CONSTANTS
  HVisible, HFront, HSync, HBack,   \* 640, 16, 96, 48 pixels
  VVisible, VFront, VSync, VBack,   \* 480, 10, 2, 33 lines
  CounterRange,                     \* 2^10, values of h_count and v_count
  BoardX, BoardY,                   \* BOARD_X, BOARD_Y
  Squares,                          \* squares a side, and values of a port: 8
  SquareSize,                       \* SQUARE_SIZE
  RadiusSquared,                    \* 324
  Path,                             \* the program's positions, <<row, column>>
  SleepPixels                       \* pixels in usleep(1000000)

HTotal == HVisible + HFront + HSync + HBack
VTotal == VVisible + VFront + VSync + VBack
FrameSize == HTotal * VTotal
BoardSize == SquareSize * Squares

ASSUME ScreenAssumption ==
  /\ HVisible \in Nat \ {0} /\ HFront \in Nat /\ HSync \in Nat \ {0} /\ HBack \in Nat
  /\ VVisible \in Nat \ {0} /\ VFront \in Nat /\ VSync \in Nat \ {0} /\ VBack \in Nat
  /\ CounterRange \in Nat /\ HTotal <= CounterRange /\ VTotal <= CounterRange

ASSUME BoardAssumption ==
  /\ Squares \in Nat \ {0} /\ SquareSize \in Nat \ {0} /\ RadiusSquared \in Nat
  /\ BoardX \in Nat /\ BoardX + BoardSize <= HVisible
  /\ BoardY \in Nat /\ BoardY + BoardSize <= VVisible

ASSUME ProgramAssumption ==
  /\ Path \in Seq((0 .. Squares - 1) \X (0 .. Squares - 1)) /\ Len(Path) > 0
  /\ SleepPixels \in Nat

\* A second is some sixty frames.
ASSUME SleepAssumption == SleepPixels >= 2 * FrameSize

VARIABLES
  reset_n,              \* KEY[0], released or (0) held
  h_count, v_count,     \* the pixel being scanned
  piece_row, piece_col, \* the two ports
  pc, at,               \* the program's place: before the row, before the
                        \* column, asleep; and its position on the path
  asleep,               \* pixels since the sleep began
  drawn,                \* pixels of this frame painted as piece so far
  clean,                \* 1: no port has changed since the frame began
  shown,                \* the position of the last clean frame
  settled,              \* 1: a clean frame has ended since the column was written
  pressed               \* 1: the key has been down since the column was written

scan == <<reset_n, h_count, v_count>>
ports == <<piece_row, piece_col>>
program == <<pc, at, asleep>>
ghosts == <<drawn, clean, shown, settled, pressed>>
vars == <<scan, ports, program, ghosts>>

Init ==
  /\ reset_n \in {0, 1} /\ h_count = 0 /\ v_count = 0
  /\ piece_row = 0 /\ piece_col = 0
  /\ pc = "row" /\ at = 1 /\ asleep = 0
  /\ drawn = {} /\ clean = 1 /\ shown = <<>>
  /\ settled = 0 /\ pressed = 0

-----------------------------------------------------------------------------
(* vga_timing.v                                                            *)

LastH == HTotal - 1

LastV == VTotal - 1

NextH == IF h_count = LastH THEN 0 ELSE (h_count + 1) % CounterRange
NextV ==
  IF h_count # LastH THEN v_count
  ELSE IF v_count = LastV THEN 0 ELSE (v_count + 1) % CounterRange

active_video(x, y) == x < HVisible /\ y < VVisible

-----------------------------------------------------------------------------
(* checkerboard_renderer.v                                                 *)

board_area(x, y) ==
  /\ BoardX <= x /\ x < BoardX + BoardSize
  /\ BoardY <= y /\ y < BoardY + BoardSize

\* Ten bits, so that they wrap left of the board and above it.
board_x(x) == (x - BoardX) % CounterRange
board_y(y) == (y - BoardY) % CounterRange

\* The low three bits of the quotient.
board_col(x) == (board_x(x) \div SquareSize) % Squares
board_row(y) == (board_y(y) \div SquareSize) % Squares

Centre == SquareSize \div 2
dx(x) == (board_x(x) % SquareSize) - Centre
dy(y) == (board_y(y) % SquareSize) - Centre

inside_piece_circle(x, y) == dx(x) * dx(x) + dy(y) * dy(y) <= RadiusSquared

\* Mutant: the squares outside the board that alias onto it.
selected_square_WrongAlias(x, y) == board_row(y) = piece_row /\ board_col(x) = piece_col

selected_square(x, y) ==
  board_area(x, y) /\ board_row(y) = piece_row /\ board_col(x) = piece_col

\* The pixel is painted in the piece's colour; what is under it, board or
\* background, no property tells apart.
draw_piece(x, y) == active_video(x, y) /\ selected_square(x, y) /\ inside_piece_circle(x, y)

-----------------------------------------------------------------------------
(* A pixel.                                                                *)

FrameEnds == h_count = LastH /\ v_count = LastV
Painted == IF draw_piece(h_count, v_count) THEN drawn \cup {<<h_count, v_count>>} ELSE drawn

\* The beam moves on; a frame that ends gives way to an empty one.
Scan ==
  /\ reset_n = 1
  /\ h_count' = NextH /\ v_count' = NextV
  /\ drawn' = IF FrameEnds THEN {} ELSE Painted
  /\ clean' = IF FrameEnds THEN 1 ELSE clean
  /\ shown' = IF FrameEnds /\ clean = 1 THEN <<piece_row, piece_col>> ELSE shown
  /\ settled' = IF FrameEnds /\ clean = 1 /\ pc = "sleep" THEN 1 ELSE settled
  /\ UNCHANGED <<reset_n, pressed>>

\* In reset the counters and the pixel clock stand still.
Held == reset_n = 0 /\ UNCHANGED <<scan, ghosts>>

Clock ==
  /\ Scan \/ Held
  /\ asleep' = IF pc = "sleep" /\ asleep < SleepPixels THEN asleep + 1 ELSE asleep
  /\ UNCHANGED <<ports, pc, at>>

Press ==
  /\ reset_n = 1
  /\ reset_n' = 0 /\ h_count' = 0 /\ v_count' = 0
  /\ drawn' = {} /\ pressed' = 1
  /\ UNCHANGED <<ports, program, clean, shown, settled>>

Release ==
  /\ reset_n = 0
  /\ reset_n' = 1 /\ clean' = 1
  /\ UNCHANGED <<h_count, v_count, ports, program, drawn, shown, settled, pressed>>

-----------------------------------------------------------------------------
(* The program.                                                            *)

Row(p) == p[1]
Column(p) == p[2]

WriteRow ==
  /\ pc = "row"
  /\ piece_row' = Row(Path[at])
  /\ clean' = 0
  /\ pc' = "col"
  /\ UNCHANGED <<scan, piece_col, at, asleep, drawn, shown, settled, pressed>>

WriteCol ==
  /\ pc = "col"
  /\ piece_col' = Column(Path[at])
  /\ clean' = 0 /\ settled' = 0 /\ pressed' = 1 - reset_n
  /\ pc' = "sleep" /\ asleep' = 0
  /\ UNCHANGED <<scan, piece_row, at, drawn, shown>>

\* Mutant: a sleep measured in the wrong clock, half as long.
Slept_WrongClock == 2 * asleep >= SleepPixels
\* alt_busy_sleep() spins until the timestamp has reached the end.
Slept == asleep >= SleepPixels

Wake ==
  /\ pc = "sleep" /\ Slept
  /\ pc' = "row" /\ at' = (at % Len(Path)) + 1 /\ asleep' = 0
  /\ UNCHANGED <<scan, ports, ghosts>>

Program == WriteRow \/ WriteCol \/ Wake

Next == Clock \/ Press \/ Release \/ Program

Spec == Init /\ [][Next]_vars

-----------------------------------------------------------------------------
Pixels == (0 .. HTotal - 1) \X (0 .. VTotal - 1)
Positions == (0 .. Squares - 1) \X (0 .. Squares - 1)

\* Every variable has its type, the counters within the screen and the ports
\* on the board.
TypeOK ==
  /\ reset_n \in {0, 1}
  /\ h_count \in 0 .. HTotal - 1 /\ v_count \in 0 .. VTotal - 1
  /\ piece_row \in 0 .. Squares - 1 /\ piece_col \in 0 .. Squares - 1
  /\ pc \in {"row", "col", "sleep"} /\ at \in 1 .. Len(Path) /\ asleep \in 0 .. SleepPixels
  /\ drawn \in SUBSET Pixels
  /\ clean \in {0, 1} /\ settled \in {0, 1} /\ pressed \in {0, 1}
  /\ shown \in Positions \cup {<<>>}

\* The disk in the middle of a square, in coordinates of the screen.
SquarePixels == (0 .. SquareSize - 1) \X (0 .. SquareSize - 1)
InDisk(p) ==
  (p[1] - Centre) * (p[1] - Centre) + (p[2] - Centre) * (p[2] - Centre) <= RadiusSquared
Disk(row, col) ==
  { <<BoardX + (SquareSize * col + p[1]), BoardY + (SquareSize * row + p[2])>> :
      p \in { q \in SquarePixels : InDisk(q) } }

\* A frame during which neither port changed shows the piece once, whole and
\* in the middle of its square, and paints nothing elsewhere: truncated
\* coordinates do not repeat it outside the board.
CleanFrame ==
  [][reset_n = 1 /\ FrameEnds /\ h_count' = 0 /\ clean = 1
       => Painted = Disk(piece_row, piece_col)]_vars

\* Every position the program asks for is on the screen for a whole clean
\* frame before the program moves on, unless the key was pressed meanwhile:
\* the frames torn by the two writes are only passed through.
EachShown ==
  pc = "sleep" /\ Slept /\ pressed = 0
    => settled = 1 /\ shown = Path[at]

=============================================================================

--------------------------- MODULE MCPieceDisplay ---------------------------
(* PieceDisplay on a board of two by two squares of three pixels, with the *)
(* real program's kinds of move: along a row, and along a diagonal.        *)
EXTENDS PieceDisplay

PathValue == << <<0, 1>>, <<1, 0>> >>
=============================================================================

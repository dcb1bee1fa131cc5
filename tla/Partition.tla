----------------------------- MODULE Partition -----------------------------
(***************************************************************************)
(* How displays are split among decoders                                   *)
(* (aperturec-graphics/src/partition.rs): partition_displays gives every   *)
(* enabled display a number of decoders, and partition lays that many      *)
(* boxes out as a grid over the display.  Displays and decoders are        *)
(* numbered from zero, as their positions in the code's vectors.           *)
(***************************************************************************)
EXTENDS Integers, FiniteSets

-----------------------------------------------------------------------------
(* partition_displays, for max decoders and the set E of enabled displays. *)

CanPartition(E, max) == E # {} /\ max # 0 /\ Cardinality(E) <= max

Base(E, max) == max \div Cardinality(E)
Remainder(E, max) == max % Cardinality(E)

\* The enabled displays that come before d.
Rank(E, d) == Cardinality({x \in E : x < d})

\* The number of boxes of display d: the first displays share the remainder,
\* a disabled one has none.
DecoderCount(E, max, d) ==
  IF d \notin E THEN 0
  ELSE Base(E, max) + (IF Rank(E, d) < Remainder(E, max) THEN 1 ELSE 0)

\* The first decoder of display d, when the displays take theirs in order.
FirstDecoder(E, max, d) ==
  Rank(E, d) * Base(E, max)
    + (IF Rank(E, d) < Remainder(E, max) THEN Rank(E, d) ELSE Remainder(E, max))

\* The decoders of display d: frame_txs[i..end] in the order of the displays.
DecodersOf(E, max, d) ==
  FirstDecoder(E, max, d) .. FirstDecoder(E, max, d) + DecoderCount(E, max, d) - 1

-----------------------------------------------------------------------------
(* partition, for n boxes on a display of a width and a height.            *)

DivCeil(a, b) == (a + b - 1) \div b

Distance(a, b) == IF a < b THEN b - a ELSE a - b

\* The layout tried for a number of rows; it always has room for n boxes.
Layout(n, rows) ==
  LET cols == DivCeil(n, rows)
  IN [rows |-> rows, cols |-> cols, unused |-> rows * cols - n,
      squareness |-> Distance(rows, cols)]

\* Mutant: the layout with the least squareness wins, unused cells or not.
Score_SquareOnly(layout) == layout.squareness

Score(layout) == layout.unused * 10 + layout.squareness

\* The first of the layouts with the lowest score.
BestLayout(n) ==
  LET layouts == {Layout(n, rows) : rows \in 1 .. n}
  IN CHOOSE l \in layouts :
       \A m \in layouts : \/ Score(l) < Score(m)
                          \/ Score(l) = Score(m) /\ l.rows <= m.rows

\* The i-th of the lines that cut a length into parts.
Edge(length, i, parts) == (length * i) \div parts

\* The box in a row and a column of a layout.
Cell(width, height, layout, row, col) ==
  [x0 |-> Edge(width, col, layout.cols), x1 |-> Edge(width, col + 1, layout.cols),
   y0 |-> Edge(height, row, layout.rows), y1 |-> Edge(height, row + 1, layout.rows)]

\* The boxes, numbered from zero: the first n cells, row by row.
partition(width, height, n) ==
  LET layout == BestLayout(n)
  IN [k \in 0 .. n - 1 |->
        Cell(width, height, layout, k \div layout.cols, k % layout.cols)]

-----------------------------------------------------------------------------
(* What the two promise.                                                   *)

Inside(x, y, box) == box.x0 <= x /\ x < box.x1 /\ box.y0 <= y /\ y < box.y1

\* How many boxes of a partition hold a pixel.
TimesCovered(x, y, boxes) == Cardinality({k \in DOMAIN boxes : Inside(x, y, boxes[k])})

\* Every pixel of the display is in exactly one box.
CoversOnce(width, height, boxes) ==
  \A x \in 0 .. width - 1, y \in 0 .. height - 1 : TimesCovered(x, y, boxes) = 1

\* No pixel is in two boxes.
NoOverlap(width, height, boxes) ==
  \A x \in 0 .. width - 1, y \in 0 .. height - 1 : TimesCovered(x, y, boxes) <= 1

=============================================================================

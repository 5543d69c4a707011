------------------------------- MODULE LineClip -------------------------------
(***************************************************************************)
(* A line drawn in a plot whose axes do not show all of it                 *)
(* (page/flot/jquery.flot.js, plotLine): each segment is clipped at the    *)
(* ends of both axes, and the pen is lifted only where pieces do not meet. *)
(*                                                                         *)
(* Points are <<x, y>>, << >> is a gap; they are Scale units apart, so     *)
(* that clipping gives whole numbers.                                      *)
(***************************************************************************)
EXTENDS Integers, Sequences

CONSTANTS
  Inputs,         \* lines: sequences of points and gaps
  Min, Max,       \* the ends of both axes
  Scale           \* bound: points are multiples of it

AxisAssumption == Min < Max

VARIABLES
  points, i,
  prev,           \* prevx and prevy
  drawn           \* the strokes: pairs of points

vars == <<points, i, prev, drawn>>

Init == points \in Inputs /\ i = 2 /\ prev = << >> /\ drawn = << >>

x == 1
y == 2

\* The point of a segment at which coordinate c is m.
At(seg, c, m) ==
  LET a == seg[1]
      b == seg[2]
      d == IF b[c] > a[c] THEN ((m - a[c]) * (b[3 - c] - a[3 - c])) \div (b[c] - a[c])
           ELSE ((a[c] - m) * (b[3 - c] - a[3 - c])) \div (a[c] - b[c])
  IN  [k \in {x, y} |-> IF k = c THEN m ELSE a[3 - c] + d]

\* Clip with the lower end of an axis; << >> is a segment that is outside.
ClipMin(seg, c) ==
  IF seg = << >> THEN seg
  ELSE IF seg[1][c] <= seg[2][c] /\ seg[1][c] < Min
  THEN IF seg[2][c] < Min THEN << >> ELSE <<At(seg, c, Min), seg[2]>>
  ELSE IF seg[2][c] <= seg[1][c] /\ seg[2][c] < Min
  THEN IF seg[1][c] < Min THEN << >> ELSE <<seg[1], At(seg, c, Min)>>
  ELSE seg

\* Mutant: a segment that touches the end from outside is dropped.
ClipMaxOpen(seg, c) ==
  IF seg = << >> THEN seg
  ELSE IF seg[1][c] >= seg[2][c] /\ seg[1][c] > Max
  THEN IF seg[2][c] >= Max THEN << >> ELSE <<At(seg, c, Max), seg[2]>>
  ELSE IF seg[2][c] >= seg[1][c] /\ seg[2][c] > Max
  THEN IF seg[1][c] >= Max THEN << >> ELSE <<seg[1], At(seg, c, Max)>>
  ELSE seg

\* Clip with the upper end.
ClipMax(seg, c) ==
  IF seg = << >> THEN seg
  ELSE IF seg[1][c] >= seg[2][c] /\ seg[1][c] > Max
  THEN IF seg[2][c] > Max THEN << >> ELSE <<At(seg, c, Max), seg[2]>>
  ELSE IF seg[2][c] >= seg[1][c] /\ seg[2][c] > Max
  THEN IF seg[1][c] > Max THEN << >> ELSE <<seg[1], At(seg, c, Max)>>
  ELSE seg

Clipped(seg) == ClipMax(ClipMin(ClipMax(ClipMin(seg, y), y), x), x)

\* From where the pen is, if that is where the piece begins.
Stroke(seg) ==
  /\ drawn' = Append(drawn, <<IF seg[1] # prev THEN seg[1] ELSE prev, seg[2]>>)
  /\ prev' = seg[2]

\* There is nothing to draw between the point before and this one.
Hidden ==
  IF points[i - 1] = << >> \/ points[i] = << >> THEN TRUE
  ELSE Clipped(<<points[i - 1], points[i]>>) = << >>

Outside ==
  /\ i <= Len(points) /\ Hidden
  /\ i' = i + 1
  /\ UNCHANGED <<points, prev, drawn>>

Draw ==
  /\ i <= Len(points) /\ ~Hidden
  /\ Stroke(Clipped(<<points[i - 1], points[i]>>))
  /\ i' = i + 1
  /\ UNCHANGED points

Next == Outside \/ Draw

Spec == Init /\ [][Next]_vars

------------------------------------------------------------------------------
Segments == {<<points[k], points[k + 1]>> :
               k \in {k \in 1..Len(points) - 1 : points[k] # << >> /\ points[k + 1] # << >>}}
InBox(p) == p[x] \in Min..Max /\ p[y] \in Min..Max
\* p is on the segment g.
On(p, g) ==
  /\ (p[x] - g[1][x]) * (g[2][y] - g[1][y]) = (p[y] - g[1][y]) * (g[2][x] - g[1][x])
  /\ \A c \in {x, y} : (g[1][c] <= p[c] /\ p[c] <= g[2][c]) \/ (g[2][c] <= p[c] /\ p[c] <= g[1][c])

\* What is stroked lies in the plot, and on the line.
Faithful ==
  \A k \in DOMAIN drawn :
    /\ InBox(drawn[k][1]) /\ InBox(drawn[k][2])
    /\ \E g \in Segments : On(drawn[k][1], g) /\ On(drawn[k][2], g)

\* All of the line that lies in the plot is stroked.
Complete ==
  i > Len(points) =>
    \A g \in Segments : \A n \in 0..Scale :
      LET p == [c \in {x, y} |-> g[1][c] + ((g[2][c] - g[1][c]) \div Scale) * n]
      IN  InBox(p) => \E k \in DOMAIN drawn : On(p, drawn[k])
==============================================================================

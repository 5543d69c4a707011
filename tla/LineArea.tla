------------------------------- MODULE LineArea -------------------------------
(***************************************************************************)
(* The area under a line (page/flot/jquery.flot.js, plotLineArea): each    *)
(* run of points is swept forward for the top and then backward for the    *)
(* bottom, clipped in x and flattened at the ends of the y axis.           *)
(*                                                                         *)
(* Points are <<x, y, bottom>>, << >> is a gap; they are Scale units       *)
(* apart, so that clipping gives whole numbers.                            *)
(***************************************************************************)
EXTENDS Integers, Sequences, FiniteSets

CONSTANTS
  Inputs,         \* lines: sequences of points and gaps
  Min, Max,       \* the ends of both axes
  Scale           \* bound: points are multiples of it

AxisAssumption == Min < Max

VARIABLES
  points,
  i, ps,          \* where the sweep is, from 0, and its direction, 1 or -1
  segmentStart, segmentEnd,
  areaOpen,
  path,           \* the path that is open
  fills           \* the paths that have been filled

vars == <<points, i, ps, segmentStart, segmentEnd, areaOpen, path, fills>>

Init ==
  /\ points \in Inputs
  /\ i = 0 /\ ps = 1 /\ segmentStart = 0 /\ segmentEnd = 0
  /\ areaOpen = FALSE /\ path = << >> /\ fills = << >>

AtEnd == ps > 0 /\ i > Len(points) + 1

\* A point, or a gap beyond the ends.
Pt(k) == IF k >= 0 /\ k < Len(points) THEN points[k + 1] ELSE << >>

\* The two points of the step, in the order of the sweep.
P1 == Pt(i)
P2 == Pt(i + ps)
ypos == IF ps > 0 THEN 2 ELSE 3
Seg == << <<P1[1], P1[ypos]>>, <<P2[1], P2[ypos]>> >>

Clamp(v) == IF v < Min THEN Min ELSE IF v > Max THEN Max ELSE v

\* The point of a segment at which coordinate c is m.
At(seg, c, m) ==
  LET a == seg[1]
      b == seg[2]
      d == IF b[c] > a[c] THEN ((m - a[c]) * (b[3 - c] - a[3 - c])) \div (b[c] - a[c])
           ELSE ((a[c] - m) * (b[3 - c] - a[3 - c])) \div (a[c] - b[c])
  IN  IF c = 1 THEN <<m, a[2] + d>> ELSE <<a[1] + d, m>>

\* Clip with one end of the x axis; << >> is a segment that is outside.
ClipX(seg, m, Beyond(_, _)) ==
  IF seg = << >> THEN seg
  ELSE LET a == seg[1][1]
           b == seg[2][1]
       IN  IF Beyond(a, m) /\ (a = b \/ Beyond(a, b))
           THEN IF Beyond(b, m) THEN << >> ELSE <<At(seg, 1, m), seg[2]>>
           ELSE IF Beyond(b, m) /\ (a = b \/ Beyond(b, a))
           THEN IF Beyond(a, m) THEN << >> ELSE <<seg[1], At(seg, 1, m)>>
           ELSE seg

Less(v, w) == v < w
More(v, w) == v > w
ClippedX(seg) == ClipX(ClipX(seg, Min, Less), Max, More)

\* The corners that a segment adds: where it is above or below the plot the
\* border is flat, "a flat maxed out rectangle first, then a triangular cutout
\* or reverse".
Flattened(seg) ==
  LET a == seg[1]
      b == seg[2]
      first == IF a[2] < Min /\ b[2] >= Min THEN At(seg, 2, Min)
               ELSE IF a[2] > Max /\ b[2] <= Max THEN At(seg, 2, Max) ELSE a
      last == IF b[2] < Min /\ a[2] >= Min THEN At(seg, 2, Min)
              ELSE IF b[2] > Max /\ a[2] <= Max THEN At(seg, 2, Max) ELSE b
      from == IF a[2] < Min /\ b[2] > Max THEN At(seg, 2, Min)
              ELSE IF a[2] > Max /\ b[2] < Min THEN At(seg, 2, Max) ELSE first
      to == IF a[2] < Min /\ b[2] > Max THEN At(seg, 2, Max)
            ELSE IF a[2] > Max /\ b[2] < Min THEN At(seg, 2, Min) ELSE last
  IN  IF a[2] >= Max /\ b[2] >= Max THEN << <<a[1], Max>>, <<b[1], Max>> >>
      ELSE IF a[2] <= Min /\ b[2] <= Min THEN << <<a[1], Min>>, <<b[1], Min>> >>
      ELSE (IF from[1] # a[1] THEN << <<a[1], from[2]>> >> ELSE << >>)
           \o <<from, to>>
           \o (IF to[1] # b[1] THEN <<to, <<b[1], to[2]>> >> ELSE << >>)

------------------------------------------------------------------------------
Gap == P1 = << >> \/ P2 = << >>

\* "at turning point".
Turning == areaOpen /\ ps > 0 /\ P1 # << >> /\ P2 = << >>
Turn ==
  /\ ~AtEnd /\ Turning
  /\ segmentEnd' = i + 1 /\ ps' = -1 /\ i' = i + 1
  /\ UNCHANGED <<points, segmentStart, areaOpen, path, fills>>

\* "done with the reverse sweep".
Swept == areaOpen /\ ps < 0 /\ i + ps = segmentStart - 1

\* Mutant: the area stays open.
FillKeepsOpen ==
  /\ ~AtEnd /\ Swept
  /\ fills' = Append(fills, path) /\ areaOpen' = TRUE /\ path' = << >>
  /\ ps' = 1 /\ segmentStart' = segmentEnd + 1 /\ i' = segmentEnd + 1
  /\ UNCHANGED <<points, segmentEnd>>

Fill ==
  /\ ~AtEnd /\ Swept
  /\ fills' = Append(fills, path) /\ areaOpen' = FALSE /\ path' = << >>
  /\ ps' = 1 /\ segmentStart' = segmentEnd + 1 /\ i' = segmentEnd + 1
  /\ UNCHANGED <<points, segmentEnd>>

Hidden == IF Gap THEN TRUE ELSE ClippedX(Seg) = << >>

Pass ==
  /\ ~AtEnd /\ ~Turning /\ ~Swept /\ Hidden
  /\ i' = i + ps
  /\ UNCHANGED <<points, ps, segmentStart, segmentEnd, areaOpen, path, fills>>

\* A piece of the border; the first one opens the area at zero, or as close
\* to it as the plot goes.
Border ==
  /\ ~AtEnd /\ ~Turning /\ ~Swept /\ ~Hidden
  /\ LET seg == ClippedX(Seg)
         open == IF areaOpen THEN path ELSE << <<seg[1][1], Clamp(0)>> >>
     IN  path' = open \o Flattened(seg)
  /\ areaOpen' = TRUE
  /\ i' = i + ps
  /\ UNCHANGED <<points, ps, segmentStart, segmentEnd, fills>>

Next == Turn \/ Fill \/ Pass \/ Border

Spec == Init /\ [][Next]_vars /\ WF_vars(Next)

------------------------------------------------------------------------------
Segments == {k \in 1..Len(points) - 1 : points[k] # << >> /\ points[k + 1] # << >>}
\* The n-th of Scale places on a segment, with its top and bottom in the plot.
Probe(k, n) ==
  [c \in 1..3 |-> LET v == points[k][c] + ((points[k + 1][c] - points[k][c]) \div Scale) * n
                  IN  IF c = 1 THEN v ELSE Clamp(v)]
On(p, a, b) ==
  /\ (p[1] - a[1]) * (b[2] - a[2]) = (p[2] - a[2]) * (b[1] - a[1])
  /\ \A c \in {1, 2} : (a[c] <= p[c] /\ p[c] <= b[c]) \/ (b[c] <= p[c] /\ p[c] <= a[c])
Bordered(p, f) == \E m \in 1..Len(f) - 1 : On(p, f[m], f[m + 1])

\* Each run of points that shows is filled, in one path that goes along its
\* top and its bottom, as far as the axes show them.
Filled ==
  AtEnd => \A k \in Segments : \A n \in 0..Scale :
    LET p == Probe(k, n)
    IN  p[1] \in Min..Max =>
          \E m \in DOMAIN fills : Bordered(<<p[1], p[2]>>, fills[m]) /\ Bordered(<<p[1], p[3]>>, fills[m])

\* A run of points is filled once, and nothing else is: the paths are as many
\* as the runs that show.
Shows(k) == \E n \in 0..Scale : Probe(k, n)[1] \in Min..Max
Runs == {k \in Segments : Shows(k) /\ ~\E m \in Segments : m < k /\ Shows(m) /\ m..k \subseteq Segments}
FilledOnce == AtEnd => Len(fills) = Cardinality(Runs) /\ ~areaOpen

==============================================================================

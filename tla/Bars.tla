---------------------------------- MODULE Bars ----------------------------------
(***************************************************************************)
(* Bars and points as they are drawn, and as the mouse finds them          *)
(* (page/flot/jquery.flot.js, drawSeriesBars, drawSeriesPoints and         *)
(* findNearbyItem).  Drawing goes through the series from the first, so    *)
(* that the last is on top; finding goes from the last.                    *)
(*                                                                         *)
(* A point is <<x, y, base>>, << >> is a gap.  A unit is ScaleX pixels     *)
(* wide and ScaleY high; the mouse stands on whole units.                  *)
(***************************************************************************)
EXTENDS Integers, Sequences, FiniteSetsExt

CONSTANTS
  Plots,          \* lists of series
  Mouse,          \* places of the mouse, in units
  Low, High,      \* the ends of both axes
  ScaleX, ScaleY,
  Radius          \* grid.mouseActiveRadius, in pixels

AxisAssumption == Low < High

VARIABLES
  series,
  drawn,          \* bars and points on the canvas, the last on top
  mouse,
  i,              \* the loop over the series
  search,         \* "draw", "find" or "rest"
  item,           \* <<series, point>>, or << >>
  smallest        \* smallestDistance

vars == <<series, drawn, mouse, i, search, item, smallest>>

null == << >>

Init ==
  /\ series \in Plots /\ i = 1 /\ search = "draw" /\ drawn = << >>
  /\ mouse = null /\ item = null /\ smallest = 0

barLeft(s) == CASE s.align = "left" -> 0 [] s.align = "right" -> -s.width
                [] OTHER -> -(s.width \div 2)
barRight(s) == barLeft(s) + s.width

Sides == {"left", "right", "top", "bottom"}

\* The bar of a point, and the sides of it that get an outline: all but the
\* one on the base.
Bar(s, p) ==
  IF s.horizontal
  THEN [left |-> IF p[1] < p[3] THEN p[1] ELSE p[3], right |-> IF p[1] < p[3] THEN p[3] ELSE p[1],
        top |-> p[2] + barLeft(s), bottom |-> p[2] + barRight(s),
        sides |-> Sides \ {IF p[1] < p[3] THEN "right" ELSE "left"}]
  ELSE [left |-> p[1] + barLeft(s), right |-> p[1] + barRight(s),
        bottom |-> IF p[2] < p[3] THEN p[2] ELSE p[3], top |-> IF p[2] < p[3] THEN p[3] ELSE p[2],
        sides |-> Sides \ {IF p[2] < p[3] THEN "top" ELSE "bottom"}]

Seen(bar) ==
  ~(bar.right < Low \/ bar.left > High \/ bar.top < Low \/ bar.bottom > High)

Clipped(bar) ==
  LET cut == {side \in Sides : \/ side = "left" /\ bar.left < Low
                               \/ side = "right" /\ bar.right > High
                               \/ side = "bottom" /\ bar.bottom < Low
                               \/ side = "top" /\ bar.top > High}
  IN  [left |-> IF "left" \in cut THEN Low ELSE bar.left,
       right |-> IF "right" \in cut THEN High ELSE bar.right,
       bottom |-> IF "bottom" \in cut THEN Low ELSE bar.bottom,
       top |-> IF "top" \in cut THEN High ELSE bar.top,
       sides |-> bar.sides \ cut]

Points(k) == {j \in DOMAIN series[k].points : series[k].points[j] # null}
InPlot(p) == p[1] \in Low..High /\ p[2] \in Low..High

\* What of the items of a series shows, in order; of a point only that it
\* is there.
drawBars(k) ==
  SelectSeq([j \in DOMAIN series[k].points |-> <<k, j>>],
    LAMBDA o : series[k].bars /\ o[2] \in Points(k) /\ Seen(Bar(series[k], series[k].points[o[2]])))
plotPoints(k) ==
  SelectSeq([j \in DOMAIN series[k].points |-> <<k, j>>],
    LAMBDA o : series[k].show /\ o[2] \in Points(k) /\ InPlot(series[k].points[o[2]]))

drawSeries ==
  LET bars == drawBars(i)
      points == plotPoints(i)
  IN  drawn \o [n \in DOMAIN bars |-> [of |-> bars[n],
                  bar |-> Clipped(Bar(series[i], series[i].points[bars[n][2]]))]]
            \o [n \in DOMAIN points |-> [of |-> points[n], bar |-> null]]

draw ==
  /\ search = "draw" /\ i <= Len(series)
  /\ drawn' = drawSeries /\ i' = i + 1
  /\ UNCHANGED <<series, mouse, search, item, smallest>>

onMouseMove(m) ==
  /\ IF search = "draw" THEN i > Len(series) ELSE search = "rest"
  /\ mouse' = m /\ i' = Len(series) /\ search' = "find"
  /\ item' = null /\ smallest' = Radius * Radius + 1
  /\ UNCHANGED <<series, drawn>>

Dx(p) == IF p[1] > mouse[1] THEN ScaleX * (p[1] - mouse[1]) ELSE ScaleX * (mouse[1] - p[1])
Dy(p) == IF p[2] > mouse[2] THEN ScaleY * (p[2] - mouse[2]) ELSE ScaleY * (mouse[2] - p[2])
dist(p) == Dx(p) * Dx(p) + Dy(p) * Dy(p)

\* Mutant: distances are taken in units.
NearUnits(k) ==
  {j \in Points(k) : LET p == series[k].points[j]
                     IN  (Dx(p) \div ScaleX) * (Dx(p) \div ScaleX)
                         + (Dy(p) \div ScaleY) * (Dy(p) \div ScaleY) < smallest}

\* Points of the series that are nearer than what was found.
Near(k) ==
  {j \in Points(k) : LET p == series[k].points[j]
                     IN  Dx(p) <= Radius /\ Dy(p) <= Radius /\ dist(p) < smallest}

\* The nearest of them, the first if there are several.
Nearest(k) ==
  CHOOSE j \in Near(k) : \A m \in Near(k) :
    LET a == dist(series[k].points[j])
        b == dist(series[k].points[m])
    IN  a < b \/ (a = b /\ j <= m)

\* The mouse is inside the bar of the point.
InBar(s, p) ==
  LET across == IF s.horizontal THEN mouse[2] - p[2] ELSE mouse[1] - p[1]
      along == IF s.horizontal THEN mouse[1] ELSE mouse[2]
      end == IF s.horizontal THEN p[1] ELSE p[2]
  IN  /\ barLeft(s) <= across /\ across <= barRight(s)
      /\ along <= IF p[3] > end THEN p[3] ELSE end
      /\ along >= IF p[3] < end THEN p[3] ELSE end

Under(k) == {j \in Points(k) : InBar(series[k], series[k].points[j])}

\* No other point can be nearby.
BarsToo(other) == other = null

find ==
  /\ search = "find" /\ i >= 1
  /\ LET s == series[i]
         near == s.hoverable /\ s.show /\ Near(i) # {}
         point == IF near THEN <<i, Nearest(i)>> ELSE item
     IN  /\ smallest' = IF near THEN dist(s.points[Nearest(i)]) ELSE smallest
         /\ item' = IF s.hoverable /\ s.bars /\ BarsToo(point) /\ Under(i) # {}
                    THEN <<i, Max(Under(i))>> ELSE point
  /\ i' = i - 1
  /\ UNCHANGED <<series, drawn, mouse, search>>

found ==
  /\ search = "find" /\ i = 0
  /\ search' = "rest"
  /\ UNCHANGED <<series, drawn, mouse, i, item, smallest>>

Next == draw \/ (\E m \in Mouse : onMouseMove(m)) \/ find \/ found

Spec == Init /\ [][Next]_vars

------------------------------------------------------------------------------
Items == {<<k, j>> : k \in DOMAIN series, j \in 1..4}
Pt(o) == series[o[1]].points[o[2]]
\* Points with a mark that the mouse may find, and that are near enough.
Marks == {o \in Items : /\ o[2] \in Points(o[1]) /\ series[o[1]].show /\ series[o[1]].hoverable
                        /\ dist(Pt(o)) <= Radius * Radius}
Covers(d) ==
  /\ d.bar.left <= mouse[1] /\ mouse[1] <= d.bar.right
  /\ IF d.bar.bottom <= d.bar.top
     THEN d.bar.bottom <= mouse[2] /\ mouse[2] <= d.bar.top
     ELSE d.bar.top <= mouse[2] /\ mouse[2] <= d.bar.bottom
\* Bars on the canvas that the mouse is over.
BarsOver == {n \in DOMAIN drawn : /\ drawn[n].bar # null /\ series[drawn[n].of[1]].hoverable
                                  /\ Covers(drawn[n])}

\* Whatever bars and series there are, the mouse finds the nearest point if
\* one is near enough.
NearestPoint ==
  (search = "rest" /\ Marks # {}) => item \in Marks /\ \A o \in Marks : dist(Pt(item)) <= dist(Pt(o))

\* If no point is near the mouse finds the bar it is over, of several the
\* one that was drawn last, and nothing where no bar is drawn.
OnTop ==
  (search = "rest" /\ Marks = {}) =>
    item = IF BarsOver = {} THEN null ELSE drawn[Max(BarsOver)].of

\* A bar has an outline along all of its edges that are in the plot, except
\* for the one it stands on.
Outline ==
  \A n \in DOMAIN drawn : drawn[n].bar # null =>
    LET s == series[drawn[n].of[1]]
        p == Pt(drawn[n].of)
        low == IF s.horizontal THEN "left" ELSE "bottom"
        high == IF s.horizontal THEN "right" ELSE "top"
        end == IF s.horizontal THEN p[1] ELSE p[2]
        at == [side \in Sides |->
          CASE side = low -> IF end < p[3] THEN end ELSE p[3]
            [] side = high -> IF end < p[3] THEN p[3] ELSE end
            [] side \in {"left", "top"} /\ side # high -> (IF s.horizontal THEN p[2] ELSE p[1]) + barLeft(s)
            [] OTHER -> (IF s.horizontal THEN p[2] ELSE p[1]) + barRight(s)]
    IN  drawn[n].bar.sides = {side \in Sides : at[side] \in Low..High} \ {IF end < p[3] THEN high ELSE low}

\* "for a bar graph, the cursor must be inside the bar": inside a bar that
\* is there to be seen.
InsideBar == (search = "rest" /\ item # null /\ Marks = {}) => \E n \in BarsOver : drawn[n].of = item

\* "use <= to ensure last point takes precedence (last generally means on
\* top of)".
LastPoint ==
  (search = "rest" /\ Marks # {}) =>
    \A o \in Marks : (dist(Pt(o)) = dist(Pt(item)) /\ o[1] = item[1]) => o[2] <= item[2]
==============================================================================

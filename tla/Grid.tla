----------------------------------- MODULE Grid -----------------------------------
(***************************************************************************)
(* The grid of a plot (page/flot/jquery.flot.js, drawGrid): markings cut   *)
(* to the plot, then for each axis a line per tick, then the border.       *)
(*                                                                         *)
(* A marking has a range for each direction: the number of the axis or 0,  *)
(* and two ends, each a number or null.                                    *)
(***************************************************************************)
EXTENDS Integers, Sequences

CONSTANTS
  Markings,       \* lists of markings
  AxisSets,       \* lists of axes: [dir, n, min, max, position, full, show, ticks]
  Borders,        \* borderWidth: [side -> width]
  null

VARIABLES
  markings, axes, borderWidth,
  i, j,           \* the loops
  shapes,         \* drawn for markings: [of, kind, x, y]
  lines           \* drawn for ticks: <<axis, value>>

vars == <<markings, axes, borderWidth, i, j, shapes, lines>>

Init ==
  /\ markings \in Markings /\ axes \in AxisSets /\ borderWidth \in Borders
  /\ i = 1 /\ j = 1 /\ shapes = <<>> /\ lines = {}

There(dir, n) == \E k \in DOMAIN axes : axes[k].dir = dir /\ axes[k].n = n
AxisOf(dir, n) == axes[CHOOSE k \in DOMAIN axes : axes[k].dir = dir /\ axes[k].n = n]

\* Mutant: the ends stay as they are given.
ExtractInOrder(range, dir) ==
  [from |-> range.from, to |-> range.to, axis |-> AxisOf(dir, IF There(dir, range.n) THEN range.n ELSE 1)]

\* Ends in the wrong order are exchanged.  Without an axis the range is one
\* of the older form, for the first; if it is for an axis that is not there
\* it has no ends.
extractRange(range, dir) ==
  LET ends == IF range.n = 0 \/ There(dir, range.n) THEN <<range.from, range.to>> ELSE <<null, null>>
      swap == ends[1] # null /\ ends[2] # null /\ ends[1] > ends[2]
  IN  [from |-> IF swap THEN ends[2] ELSE ends[1], to |-> IF swap THEN ends[1] ELSE ends[2],
       axis |-> AxisOf(dir, IF There(dir, range.n) THEN range.n ELSE 1)]

\* An end that is missing is the border of the plot.
Filled(r) ==
  [r EXCEPT !.from = IF @ = null THEN r.axis.min ELSE @, !.to = IF @ = null THEN r.axis.max ELSE @]

Off(r) == r.to < r.axis.min \/ r.from > r.axis.max

Cut(r) ==
  <<IF r.from < r.axis.min THEN r.axis.min ELSE r.from, IF r.to > r.axis.max THEN r.axis.max ELSE r.to>>

xrange(m) == Filled(extractRange(m.x, "x"))
yrange(m) == Filled(extractRange(m.y, "y"))
Flat(r) == Cut(r)[1] = Cut(r)[2]

Skipped(m) == Off(xrange(m)) \/ Off(yrange(m)) \/ (Flat(xrange(m)) /\ Flat(yrange(m)))

drawMarking ==
  /\ i <= Len(markings)
  /\ LET m == markings[i]
     IN  shapes' = IF Skipped(m) THEN shapes
                   ELSE Append(shapes, [of |-> i, x |-> Cut(xrange(m)), y |-> Cut(yrange(m)),
                          kind |-> IF Flat(xrange(m)) \/ Flat(yrange(m)) THEN "line" ELSE "area"])
  /\ i' = i + 1
  /\ UNCHANGED <<markings, axes, borderWidth, j, lines>>

\* A tick that lies on the border, if there is one on the axis's side.
OnBorder(axis, v) ==
  axis.full /\ borderWidth[axis.position] > 0 /\ (v = axis.min \/ v = axis.max)

drawTicks ==
  /\ i > Len(markings) /\ j <= Len(axes)
  /\ LET axis == axes[j]
     IN  lines' = lines \cup
           IF ~axis.show THEN {}
           ELSE {<<j, v>> : v \in {v \in axis.ticks : axis.min <= v /\ v <= axis.max /\ ~OnBorder(axis, v)}}
  /\ j' = j + 1
  /\ UNCHANGED <<markings, axes, borderWidth, i, shapes>>

Next == drawMarking \/ drawTicks

Spec == Init /\ [][Next]_vars

------------------------------------------------------------------------------
Done == i > Len(markings) /\ j > Len(axes)
\* Values on an axis that a range holds.
Holds(range, dir) ==
  LET known == range.n = 0 \/ There(dir, range.n)
      a == AxisOf(dir, IF There(dir, range.n) THEN range.n ELSE 1)
      end1 == IF known THEN range.from ELSE null
      end2 == IF known THEN range.to ELSE null
      low == IF end1 = null THEN a.min ELSE IF end2 = null THEN end1
             ELSE IF end1 < end2 THEN end1 ELSE end2
      high == IF end2 = null THEN a.max ELSE IF end1 = null THEN end2
              ELSE IF end1 < end2 THEN end2 ELSE end1
  IN  {v \in a.min..a.max : low <= v /\ v <= high}

\* What is drawn for a marking is what of it lies in the plot, whatever ends
\* it leaves out or exchanges and whichever axes it is for.
Marked ==
  Done => \A k \in DOMAIN markings :
    LET xs == Holds(markings[k].x, "x")
        ys == Holds(markings[k].y, "y")
    IN  \/ \E n \in DOMAIN shapes : /\ shapes[n].of = k
                                    /\ shapes[n].x[1]..shapes[n].x[2] = xs
                                    /\ shapes[n].y[1]..shapes[n].y[2] = ys
        \/ /\ ~\E n \in DOMAIN shapes : shapes[n].of = k
           /\ xs = {} \/ ys = {} \/ \E v, w \in xs \cup ys : xs = {v} /\ ys = {w}

\* "A line is drawn if from and to are the same."
LineOnly ==
  \A n \in DOMAIN shapes : shapes[n].kind = "line" =>
    LET m == markings[shapes[n].of]
    IN  (m.x.from # null /\ m.x.from = m.x.to) \/ (m.y.from # null /\ m.y.from = m.y.to)

\* The sides of the plot on which the ends of an axis are.
Side(axis, v) == IF axis.dir = "x" THEN IF v = axis.min THEN "left" ELSE "right"
                 ELSE IF v = axis.min THEN "bottom" ELSE "top"

\* The code asks for the border of the side where the axis stands, not of the
\* one a tick lies on (jquery.flot.js:2089): the two agree on whether there is
\* one.
BordersAgree(axis, v) == borderWidth[axis.position] > 0 <=> borderWidth[Side(axis, v)] > 0

\* Where a tick that goes across the plot is on its edge, there is a line or a
\* border and not both, "skip those lying on the axes if we got a border", as
\* long as the borders agree: else there are both, or neither.
LineOrBorder ==
  Done => \A k \in DOMAIN axes : (axes[k].show /\ axes[k].full) => \A v \in axes[k].ticks :
    LET onEdge == v \in {axes[k].min, axes[k].max}
        bordered == onEdge /\ borderWidth[Side(axes[k], v)] > 0
    IN  axes[k].min <= v /\ v <= axes[k].max =>
          (<<k, v>> \in lines <=> IF onEdge /\ ~BordersAgree(axes[k], v) THEN bordered ELSE ~bordered)
==============================================================================

-------------------------------- MODULE ErrorBars --------------------------------
(***************************************************************************)
(* Error bars of a flot series (page/flot/jquery.flot.errorbars.js): how a *)
(* point's errors are laid out in the data, cut at the sides of the plot,  *)
(* kept off the point's circle, and ended with caps.  The plot may draw    *)
(* more than once from the same options.                                   *)
(*                                                                         *)
(* Both axes go from 0 to AxisMax, at Scale pixels a unit.  Without        *)
(* shadows and colours.                                                    *)
(***************************************************************************)
EXTENDS Integers, Sequences, SequencesExt, FiniteSets

CONSTANTS
  Points,      \* [x, y, xl, xu, yl, yu]: place, lower and upper errors
  Configs,     \* [errorbars, asym, show, inverted]: axes named by each option
  AxisMax, Scale, Radius,
  MaxDraws     \* bound

SizeAssumption == {AxisMax, Scale, Radius, MaxDraws} \subseteq Nat \ {0}

VARIABLES config, data, points, pointsize, caps, strokes, ends, draws

vars == <<config, data, points, pointsize, caps, strokes, ends, draws>>

Axes == {"x", "y"}
null == -1

Init ==
  /\ config \in Configs /\ data \in Points
  /\ points = <<>> /\ pointsize = 2
  /\ caps = [a \in Axes |-> [upper |-> "upperCap", lower |-> "lowerCap"]]
  /\ strokes = {} /\ ends = {} /\ draws = 0

\* A point as the page writes it: one error of an axis, or two if asymmetric.
ErrorsOf(p, a) == IF a = "x" THEN <<p.xl, p.xu>> ELSE <<p.yl, p.yu>>
Written(p, c) ==
  LET part(a) == IF a \notin c.errorbars THEN <<>>
                 ELSE IF a \in c.asym THEN ErrorsOf(p, a) ELSE <<ErrorsOf(p, a)[1]>>
  IN  <<p.x, p.y>> \o part("x") \o part("y")

format(c) ==
  LET part(a) == IF a \notin c.errorbars THEN <<>> ELSE IF a \in c.asym THEN <<a, a>> ELSE <<a>>
  IN  <<"x", "y">> \o part("x") \o part("y")

\* flot keeps as many numbers of a point as its format has.
processRawData ==
  /\ points = <<>>
  /\ pointsize' = Len(format(config))
  /\ points' = SubSeq(Written(data, config), 1, Len(format(config)))
  /\ UNCHANGED <<config, data, caps, strokes, ends, draws>>

\* Mutant: errors along y are always looked for behind one error along x.
ParsedBehindOne(c) ==
  LET lower(a) == IF a \notin c.errorbars THEN null
                  ELSE IF a = "x" \/ "x" \notin c.errorbars THEN points[3] ELSE points[4]
      upper(a) == IF a \in c.errorbars \cap c.asym
                    THEN IF a = "x" \/ "x" \notin c.errorbars THEN points[4] ELSE points[5]
                    ELSE lower(a)
  IN  [a \in Axes |-> IF a \in c.show THEN <<lower(a), upper(a)>> ELSE <<null, null>>]

\* Lower and upper error along each axis, null if it is not shown.
parseErrors(c) ==
  LET at(a) == IF a = "x" \/ "x" \notin c.errorbars THEN 3 ELSE IF "x" \in c.asym THEN 5 ELSE 4
      lower(a) == IF a \in c.errorbars THEN points[at(a)] ELSE null
      upper(a) == IF a \in c.errorbars \cap c.asym THEN points[at(a) + 1] ELSE lower(a)
  IN  [a \in Axes |-> IF a \in c.show THEN <<lower(a), upper(a)>> ELSE <<null, null>>]

\* Pixels grow to the right and down.
GrowsAgainst(c, a) == (a = "y") # (a \in c.inverted)
p2c(c, a, v) == Scale * IF GrowsAgainst(c, a) THEN AxisMax - v ELSE v
Other(a) == IF a = "x" THEN "y" ELSE "x"
Value(p, a) == IF a = "x" THEN p[1] ELSE p[2]
Inside(v) == 0 <= v /\ v <= AxisMax
Lower(x, y) == IF x < y THEN x ELSE y
Higher(x, y) == IF x < y THEN y ELSE x

\* The ends of an error bar in pixels, whether each has a cap, and the ends of
\* the axis; on an inverted axis the two ends trade places.
Bar(c, a, low, high) ==
  LET bar == [upper |-> p2c(c, a, Lower(high, AxisMax)), lower |-> p2c(c, a, Higher(low, 0)),
              drawUpper |-> high <= AxisMax, drawLower |-> low >= 0,
              first |-> p2c(c, a, 0), last |-> p2c(c, a, AxisMax)]
  IN  IF a \notin c.inverted THEN bar
      ELSE [upper |-> bar.lower, lower |-> bar.upper, drawUpper |-> bar.drawLower,
            drawLower |-> bar.drawUpper, first |-> bar.last, last |-> bar.first]

\* The halves of a bar, from its ends to the circle of the point, which may be
\* beyond the end of the axis.
Halves(a, bar, at) ==
  LET right == IF a = "x" THEN at + Radius ELSE at - Radius
      left == IF a = "x" THEN at - Radius ELSE at + Radius
      upper == IF a = "x" THEN bar.upper > right ELSE bar.upper < right
      lower == IF a = "x" THEN bar.lower < left ELSE bar.lower > left
  IN  [upper |-> IF ~upper THEN {}
                 ELSE {<<bar.upper, IF a = "x" THEN Higher(right, bar.first) ELSE Lower(right, bar.first)>>},
       lower |-> IF ~lower THEN {}
                 ELSE {<<IF a = "x" THEN Lower(left, bar.last) ELSE Higher(left, bar.last), bar.lower>>}]

\* The error bar of the point along axis a, if it is drawn at all.
HasBar(c, a) ==
  LET err == parseErrors(c)[a]
  IN  /\ err[1] \notin {0, null}
      /\ Inside(Value(points, Other(a)))
      /\ Value(points, a) + err[2] >= 0 /\ Value(points, a) - err[1] <= AxisMax
BarOf(c, a) ==
  LET err == parseErrors(c)[a]
  IN  Bar(c, a, Value(points, a) - err[1], Value(points, a) + err[2])
HalvesOf(c, a) == Halves(a, BarOf(c, a), p2c(c, a, Value(points, a)))

drawSeriesErrors(c) ==
  {[axis |-> a, strokes |-> HalvesOf(c, a).upper \cup HalvesOf(c, a).lower] : a \in {b \in Axes : HasBar(c, b)}}

\* A half that is not cut ends with a cap.
drawError(c, a, cap) ==
  LET bar == BarOf(c, a)
  IN  (IF bar.drawUpper /\ HalvesOf(c, a).upper # {} THEN {[axis |-> a, at |-> bar.upper, cap |-> cap[a].upper]} ELSE {})
        \cup IF bar.drawLower /\ HalvesOf(c, a).lower # {} THEN {[axis |-> a, at |-> bar.lower, cap |-> cap[a].lower]} ELSE {}

\* On an inverted axis the caps trade places too, in the options of the series:
\* with the next drawing they trade places again.
Caps(c) ==
  [a \in Axes |-> IF a \in c.inverted THEN [upper |-> caps[a].lower, lower |-> caps[a].upper] ELSE caps[a]]

draw ==
  /\ points # <<>> /\ draws < MaxDraws
  /\ draws' = draws + 1
  /\ IF config.errorbars # {} /\ config.show # {}
       THEN /\ caps' = Caps(config)
            /\ strokes' = drawSeriesErrors(config)
            /\ ends' = UNION {drawError(config, a, Caps(config)) : a \in {b \in Axes : HasBar(config, b)}}
       ELSE UNCHANGED <<caps, strokes, ends>>
  /\ UNCHANGED <<config, data, points, pointsize>>

Next == processRawData \/ draw
Spec == Init /\ [][Next]_vars

---------------------------------------------------------------------------
(* Properties *)

\* The errors of the point as the page means them.
Meant(a) == IF a \in config.asym THEN ErrorsOf(data, a) ELSE <<ErrorsOf(data, a)[1], ErrorsOf(data, a)[1]>>
MeantBar(a) == a \in config.errorbars \cap config.show /\ Inside(Value(<<data.x, data.y>>, Other(a)))
Low(a) == Value(<<data.x, data.y>>, a) - Meant(a)[1]
High(a) == Value(<<data.x, data.y>>, a) + Meant(a)[2]

\* Pixels k to k + 1, along an axis, that a set of strokes covers.
Covered(set) ==
  UNION {{k \in -20..20 : Lower(s[1], s[2]) <= k /\ k + 1 <= Higher(s[1], s[2])} : s \in set}

\* The part of an error bar within the plot and outside the circle of its point.
MeantPixels(a) ==
  LET at == p2c(config, a, Value(<<data.x, data.y>>, a))
      ePixels == {p2c(config, a, Low(a)), p2c(config, a, High(a))}
  IN  {k \in 0..Scale * AxisMax - 1 :
         /\ \E e, f \in ePixels : e <= k /\ k + 1 <= f
         /\ k >= at + Radius \/ k + 1 <= at - Radius}

\* What is drawn is, for each axis, every pixel from the lower to the upper
\* error that lies in the plot and not on the circle, and no other: whichever
\* of the layouts the data have, wherever the point is, whichever way the axes
\* go and however often.  But without a lower error there is nothing, not even
\* for an upper one (jquery.flot.errorbars.js:198).
Shown ==
  draws > 0 =>
    \A a \in Axes :
      Covered(UNION {s.strokes : s \in {t \in strokes : t.axis = a}})
        = IF MeantBar(a) /\ Meant(a)[1] # 0 THEN MeantPixels(a) ELSE {}

\* A cap is only where an error really ends, never where the bar leaves the
\* plot; and the upper cap is at the end of the upper error, except in every
\* second drawing along an inverted axis, which has the caps exchanged
\* (jquery.flot.errorbars.js:171-185).
CapsRight(a) == a \notin config.inverted \/ draws % 2 = 1
CapOfEnd ==
  \A e \in ends :
    e.at = p2c(config, e.axis, IF (e.cap = "upperCap") = CapsRight(e.axis) THEN High(e.axis)
                                                                           ELSE Low(e.axis))

\* The same plot drawn again looks the same, caps and all: false of an inverted
\* axis.
SameAgain == [][draws > 0 => strokes' = strokes /\ ends' = ends]_vars
=================================================================================

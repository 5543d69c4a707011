-------------------------------- MODULE AxisData --------------------------------
(***************************************************************************)
(* How flot reads the data of a plot (page/flot/jquery.flot.js,            *)
(* processData): a first pass over the series cleans and copies the        *)
(* points, with a point in between where a line goes in steps; a second    *)
(* one finds the smallest and largest values on the axes.                  *)
(*                                                                         *)
(* A raw point is a sequence of numbers, of null and of +/-Infinity; <<>>  *)
(* is a point that is null.  All series are on one pair of axes.           *)
(***************************************************************************)
EXTENDS Integers, Sequences, FiniteSetsExt, SequencesExt

CONSTANTS
  Plots,          \* lists of series
  null,
  Infinity, fakeInfinity

InfinityAssumption == 0 < fakeInfinity /\ fakeInfinity < Infinity /\ null \notin -Infinity..Infinity

VARIABLES
  series,
  points,         \* datapoints of each series
  pass, i, j,     \* "clean" or "scan", the loops over series and points
  datamin, datamax, used

vars == <<series, points, pass, i, j, datamin, datamax, used>>

Axes == {"x", "y"}

Init ==
  /\ series \in Plots
  /\ points = [k \in DOMAIN series |-> IF series[k].filled THEN series[k].data ELSE <<>>]
  /\ pass = "clean" /\ i = 1 /\ j = 1
  /\ datamin = [a \in Axes |-> Infinity] /\ datamax = [a \in Axes |-> -Infinity]
  /\ used = FALSE

\* What a place in a point is for; the third is the base of a bar or area.
Based(s) == s.bars \/ (s.lines /\ s.fill)
format(s) ==
  <<[axis |-> "x", required |-> TRUE, autoscale |-> TRUE],
    [axis |-> "y", required |-> TRUE, autoscale |-> TRUE]>>
  \o IF Based(s)
     THEN <<[axis |-> IF s.horizontal THEN "x" ELSE "y", required |-> FALSE, autoscale |-> s.zero]>>
     ELSE <<>>

\* Infinities become numbers; a base that is missing is zero.
CleanValue(s, p, m) ==
  LET val == IF m \in DOMAIN p THEN p[m] ELSE null
  IN  CASE val = Infinity -> fakeInfinity
        [] val = -Infinity -> -fakeInfinity
        [] val = null /\ m = 3 -> 0
        [] OTHER -> val

Clean(s, p) == [m \in DOMAIN format(s) |-> CleanValue(s, p, m)]

Complete(s, p) == p # <<>> /\ \A m \in DOMAIN format(s) : format(s)[m].required => Clean(s, p)[m] # null

\* updateAxis, with the values of a set.
Lower(a, vals) == Min({datamin[a]} \cup {v \in vals : v # -fakeInfinity})
Upper(a, vals) == Max({datamax[a]} \cup {v \in vals : v # fakeInfinity})

\* Mutant: what is left of a point that is not complete is not looked at.
LeftOver(s, p, a) == {}

\* The values of a point on an axis that count.
Values(s, p, a) ==
  IF p = <<>> THEN {}
  ELSE {Clean(s, p)[m] : m \in {m \in DOMAIN format(s) :
          format(s)[m].axis = a /\ format(s)[m].autoscale /\ Clean(s, p)[m] # null}}

\* A line in steps gets a middle point that has the y of the point before it.
Stepped(s, done, p) ==
  IF /\ s.lines /\ s.steps /\ done # <<>>
     /\ Last(done) # <<>> /\ Last(done)[1] # p[1] /\ Last(done)[2] # p[2]
  THEN done \o <<[p EXCEPT ![2] = Last(done)[2]], p>>
  ELSE Append(done, p)

\* First pass: one point.
clean ==
  /\ pass = "clean" /\ i <= Len(series)
  /\ ~series[i].filled /\ j <= Len(series[i].data)
  /\ LET s == series[i]
         p == s.data[j]
     IN  IF Complete(s, p)
         THEN /\ points' = [points EXCEPT ![i] = Stepped(s, @, Clean(s, p))]
              /\ UNCHANGED <<datamin, datamax>>
         ELSE /\ points' = [points EXCEPT ![i] = Append(@, <<>>)]
              /\ datamin' = [a \in Axes |-> Lower(a, Values(s, p, a))]
              /\ datamax' = [a \in Axes |-> Upper(a, Values(s, p, a))]
  /\ used' = TRUE /\ j' = j + 1
  /\ UNCHANGED <<series, pass, i>>

\* A series that a hook filled is skipped.
cleaned ==
  /\ pass = "clean" /\ i <= Len(series)
  /\ series[i].filled \/ j > Len(series[i].data)
  /\ used' = (used \/ ~series[i].filled)
  /\ i' = i + 1 /\ j' = 1
  /\ UNCHANGED <<series, points, pass, datamin, datamax>>

\* Where a bar begins.
delta(s) == CASE s.align = "left" -> 0 [] s.align = "right" -> -s.width
              [] OTHER -> -(s.width \div 2)

\* The ends of what a series takes on an axis, as a pair.
Extent(s, pts, a) ==
  LET vals == UNION {{v \in Values(s, pts[n], a) : v \notin {fakeInfinity, -fakeInfinity}} : n \in DOMAIN pts}
      room == s.bars /\ a = IF s.horizontal THEN "y" ELSE "x"
  IN  IF vals = {} THEN <<Infinity, -Infinity>>
      ELSE IF room THEN <<Min(vals) + delta(s), Max(vals) + delta(s) + s.width>>
      ELSE <<Min(vals), Max(vals)>>

hooks ==
  /\ pass = "clean" /\ i > Len(series)
  /\ pass' = "scan" /\ i' = 1
  /\ UNCHANGED <<series, points, j, datamin, datamax, used>>

\* Second pass: one series.
scan ==
  /\ pass = "scan" /\ i <= Len(series)
  /\ datamin' = [a \in Axes |-> Lower(a, {Extent(series[i], points[i], a)[1]})]
  /\ datamax' = [a \in Axes |-> Upper(a, {Extent(series[i], points[i], a)[2]})]
  /\ i' = i + 1
  /\ UNCHANGED <<series, points, pass, j, used>>

\* An axis without values.
scanned ==
  /\ pass = "scan" /\ i > Len(series)
  /\ datamin' = [a \in Axes |-> IF datamin[a] = Infinity THEN null ELSE datamin[a]]
  /\ datamax' = [a \in Axes |-> IF datamax[a] = -Infinity THEN null ELSE datamax[a]]
  /\ pass' = "done"
  /\ UNCHANGED <<series, points, i, j, used>>

Next == clean \/ cleaned \/ hooks \/ scan \/ scanned

Spec == Init /\ [][Next]_vars

------------------------------------------------------------------------------
Finite(v) == v # null /\ -fakeInfinity < v /\ v < fakeInfinity
Shown(k) == {n \in DOMAIN series[k].data : Complete(series[k], series[k].data[n])}

\* What is drawn of a point on an axis: its place, both sides of its bar, and
\* the base of the bar or area if it is to begin there.
Marks(s, p, a) ==
  LET at == IF a = "x" THEN p[1] ELSE p[2]
      base == IF Len(p) < 3 THEN 0 ELSE IF p[3] = null THEN 0 ELSE p[3]
      across == s.bars /\ a = IF s.horizontal THEN "y" ELSE "x"
      along == Based(s) /\ s.zero /\ a = IF s.horizontal THEN "x" ELSE "y"
      left == CASE s.align = "left" -> at [] s.align = "right" -> at - s.width
                [] OTHER -> at - s.width \div 2
  IN  (IF Finite(at) THEN IF across THEN {left, left + s.width} ELSE {at} ELSE {})
        \cup (IF along THEN {base} ELSE {})

AllMarks(a) == UNION {UNION {Marks(series[k], series[k].data[n], a) : n \in Shown(k)} : k \in DOMAIN series}
Remains(a) ==
  {v \in UNION {{series[k].data[n][IF a = "x" THEN 1 ELSE 2] :
                   n \in {n \in DOMAIN series[k].data \ Shown(k) : series[k].data[n] # <<>>}} :
                 k \in DOMAIN series} : Finite(v)}

\* All that is drawn lies between the smallest and the largest value, and
\* so do the rest of the numbers of points that are not complete.
Room ==
  pass = "done" => \A a \in Axes : \A v \in AllMarks(a) \cup Remains(a) :
    datamin[a] # null /\ datamax[a] # null /\ datamin[a] <= v /\ v <= datamax[a]

\* The smallest and the largest value are those of something that is drawn,
\* or of a point that is not complete, or the base of bars and areas: the
\* plot has no empty rim.
Tight ==
  pass = "done" => \A a \in Axes :
    LET there == AllMarks(a) \cup Remains(a)
                   \cup IF \E k \in DOMAIN series : Based(series[k]) /\ series[k].zero THEN {0} ELSE {}
    IN  AllMarks(a) # {} => datamin[a] \in there /\ datamax[a] \in there

\* A line in steps goes straight across or straight up, through its points
\* in their order.
Straight ==
  pass # "clean" => \A k \in DOMAIN series : (series[k].lines /\ series[k].steps /\ ~series[k].filled) =>
    /\ \A n \in 1..Len(points[k]) - 1 :
         (points[k][n] # <<>> /\ points[k][n + 1] # <<>>) =>
           points[k][n][1] = points[k][n + 1][1] \/ points[k][n][2] = points[k][n + 1][2]
    /\ LET given == [n \in DOMAIN series[k].data |->
                        IF n \in Shown(k) THEN Clean(series[k], series[k].data[n]) ELSE <<>>]
       IN  \E at \in [DOMAIN given -> DOMAIN points[k]] :
             /\ \A n \in DOMAIN given : points[k][at[n]] = given[n]
             /\ \A n, m \in DOMAIN given : n < m => at[n] < at[m]

\* "an object with x/y corresponding to all used axes": an axis that shows
\* points is used.
AxisUsed == (pass = "done" /\ \E k \in DOMAIN series : Shown(k) # {}) => used
==============================================================================

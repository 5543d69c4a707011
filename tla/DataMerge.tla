------------------------------- MODULE DataMerge -------------------------------
(***************************************************************************)
(* A series put on another one (page/flot/jquery.flot.stack.js): the loop  *)
(* that walks over the points of both, adds what is below, makes extra     *)
(* points by interpolation and keeps the gaps of both.  The fillbetween    *)
(* plugin (page/flot/jquery.flot.fillbetween.js) walks in the same way and *)
(* sets the bottom of a point where stacking adds to it.                   *)
(*                                                                         *)
(* A point is <<x, y, bottom>>; null in all of them is a gap.  The data    *)
(* are sorted on x, as both plugins ask for.                               *)
(***************************************************************************)
EXTENDS Integers, Sequences

CONSTANTS
  Stacks,         \* stack, or else fillbetween
  Lines, Steps,   \* the series is drawn with lines, with lines in steps
  Bottoms,        \* its points have a bottom
  Owns, Others,   \* the points of the two series
  null

NullAssumption == null \in Int

VARIABLES own, other, i, j, newpoints, fromgap

vars == <<own, other, i, j, newpoints, fromgap>>
inputs == <<own, other>>

Gap == <<null, null, null>>
IsGap(p) == p[1] = null

Init ==
  /\ own \in Owns /\ other \in Others
  /\ i = 1 /\ j = 1 /\ newpoints = << >> /\ fromgap = TRUE

Done == i > Len(own)

\* The value at x on the line through two points.
Between(p, q, x) == p[2] + ((q[2] - p[2]) * (x - p[1])) \div (q[1] - p[1])

\* A point put on a bottom.
Based(p, bottom) ==
  LET b == IF ~Bottoms THEN p[3] ELSE IF Stacks THEN p[3] + bottom ELSE bottom
  IN  <<p[1], IF Stacks THEN p[2] + bottom ELSE p[2], b>>

\* "maintain the line steps invariant": a middle point goes before a new
\* point that is at another x and another y.
Pushed(p) ==
  LET last == newpoints[Len(newpoints)]
  IN  IF Steps /\ newpoints # << >> /\ ~IsGap(p) /\ p[1] # last[1] /\ p[2] # last[2]
      THEN newpoints \o << <<p[1], last[2], p[3]>>, p>>
      ELSE Append(newpoints, p)

------------------------------------------------------------------------------
CopyGap ==
  /\ ~Done /\ IsGap(own[i])
  /\ newpoints' = Pushed(Gap) /\ i' = i + 1
  /\ UNCHANGED <<inputs, j, fromgap>>

\* Nothing below any more: "for lines, we can't use the rest of the points".
Rest ==
  /\ ~Done /\ ~IsGap(own[i]) /\ j > Len(other)
  /\ newpoints' = IF Lines THEN newpoints ELSE Pushed(own[i])
  /\ i' = i + 1
  /\ UNCHANGED <<inputs, j, fromgap>>

Both == ~Done /\ j <= Len(other) /\ ~IsGap(own[i])

\* Mutant: the gap below is passed over.
OtherGapSilent ==
  /\ Both /\ IsGap(other[j])
  /\ newpoints' = newpoints /\ fromgap' = TRUE /\ j' = j + 1
  /\ UNCHANGED <<inputs, i>>

OtherGap ==
  /\ Both /\ IsGap(other[j])
  /\ newpoints' = Pushed(Gap) /\ fromgap' = TRUE /\ j' = j + 1
  /\ UNCHANGED <<inputs, i>>

\* Two points at the same place.
Same ==
  /\ Both /\ own[i][1] = other[j][1]
  /\ newpoints' = Pushed(Based(own[i], other[j][2]))
  /\ i' = i + 1 /\ j' = j + 1 /\ fromgap' = FALSE
  /\ UNCHANGED inputs

\* "we got past point below, might need to insert interpolated extra point".
OtherFirst ==
  /\ Both /\ ~IsGap(other[j]) /\ own[i][1] > other[j][1]
  /\ LET q == other[j]
         extra == Lines /\ i > 1 /\ ~IsGap(own[i - 1])
     IN  newpoints' = IF extra
                      THEN Pushed(Based(<<q[1], Between(own[i - 1], own[i], q[1]), own[i][3]>>, q[2]))
                      ELSE newpoints
  /\ j' = j + 1 /\ fromgap' = FALSE
  /\ UNCHANGED <<inputs, i>>

\* Mutant: points of bars are skipped too.
SkipBars ==
  /\ Both /\ ~IsGap(other[j]) /\ own[i][1] < other[j][1]
  /\ fromgap
  /\ i' = i + 1
  /\ UNCHANGED <<inputs, j, newpoints, fromgap>>

\* "if we come from a gap, we just skip this point".
Skip ==
  /\ Both /\ ~IsGap(other[j]) /\ own[i][1] < other[j][1]
  /\ fromgap /\ Lines
  /\ i' = i + 1
  /\ UNCHANGED <<inputs, j, newpoints, fromgap>>

\* "we might be able to interpolate a point below".
OwnFirst ==
  /\ Both /\ ~IsGap(other[j]) /\ own[i][1] < other[j][1]
  /\ ~(fromgap /\ Lines)
  /\ LET below == Lines /\ j > 1 /\ ~IsGap(other[j - 1])
     IN  newpoints' = Pushed(Based(own[i], IF below THEN Between(other[j - 1], other[j], own[i][1]) ELSE 0))
  /\ i' = i + 1 /\ fromgap' = FALSE
  /\ UNCHANGED <<inputs, j>>

Walk == CopyGap \/ Rest \/ OtherGap \/ Same \/ OtherFirst \/ Skip \/ OwnFirst

\* The two plugins: they differ in what Based makes of a point.
stackData == Stacks /\ Walk
computeFillBottoms == ~Stacks /\ Walk

Next == stackData \/ computeFillBottoms

Spec == Init /\ [][Next]_vars

------------------------------------------------------------------------------
(* What a line is: its points and the segments between neighbours. *)
Segments(s) == {<<s[k], s[k + 1]>> : k \in {k \in 1..Len(s) - 1 : ~IsGap(s[k]) /\ ~IsGap(s[k + 1])}}
Points(s) == {s[k] : k \in {k \in DOMAIN s : ~IsGap(s[k])}}
ValuesAt(s, x) ==
  {p[2] : p \in {p \in Points(s) : p[1] = x}}
  \cup {Between(g[1], g[2], x) : g \in {g \in Segments(s) : g[1][1] < x /\ x < g[2][1]}}

\* Each point made is on the sum of the two lines (on the own line, for
\* fillbetween) and its bottom is on the line below.
OnTheSum ==
  \A p \in Points(newpoints) :
    \E v \in ValuesAt(own, p[1]), w \in ValuesAt(other, p[1]) :
      p[2] = (IF Stacks THEN v + w ELSE v) /\ (Bottoms => p[3] = w)

\* "at points where the bottom line is not defined (due to a null point or
\* start/end of line), the current line will show a gap too": what is drawn
\* between two points has both lines under it all the way.
GapsShown ==
  LET runs(s, x) == \E g \in Segments(s) : g[1][1] <= x /\ x < g[2][1]
  IN  \A g \in Segments(newpoints) : \A x \in g[1][1]..g[2][1] - 1 : runs(own, x) /\ runs(other, x)

\* Where both lines have a value, a point of either is in the result.
NothingLost ==
  Done => \A x \in {p[1] : p \in Points(own) \cup Points(other)} :
            (ValuesAt(own, x) # {} /\ ValuesAt(other, x) # {}) =>
              \E p \in Points(newpoints) : p[1] = x

\* Bars keep all their points, in their order, each on the one below at the
\* same place.
BarsKept ==
  Done => SelectSeq(newpoints, LAMBDA p : ~IsGap(p)) =
            LET mine == SelectSeq(own, LAMBDA p : ~IsGap(p))
                below(x) == {p \in Points(other) : p[1] = x}
            IN  [k \in DOMAIN mine |->
                   LET b == below(mine[k][1])
                   IN  Based(mine[k], IF b = {} THEN 0 ELSE (CHOOSE p \in b : TRUE)[2])]

\* "the line steps invariant": neighbours differ in x or in y only.
StepsKept ==
  \A g \in Segments(newpoints) : g[1][1] = g[2][1] \/ g[1][2] = g[2][2]

\* A point is a gap in all its numbers or in none.
WholePoints == \A k \in DOMAIN newpoints : newpoints[k][1] = null <=> newpoints[k][2] = null
==============================================================================

-------------------------------- MODULE AxisTicks --------------------------------
(***************************************************************************)
(* The ends and the ticks of the axes of a plot (page/flot/jquery.flot.js, *)
(* setupGrid with setRange, setupTickGeneration, setTicks and              *)
(* snapRangeToTicks): first all ends from the data, then for one axis      *)
(* after the other the ticks, to which the ends are moved.                 *)
(*                                                                         *)
(* Numbers are in fractions, One to the unit.                              *)
(***************************************************************************)
EXTENDS Integers, Sequences, FiniteSetsExt

CONSTANTS
  Plots,          \* lists of axes: [opts, datamin, datamax]
  One,            \* what stands for 1, a multiple of 10 ^ Decimals
  Decimals,       \* bound: no tick needs more decimals, and no step is ten or more
  null

OneAssumption == One % (10 ^ Decimals) = 0 /\ One > 0

VARIABLES
  given,          \* the axes as the page and the data have them
  axes,           \* their ends and ticks
  phase, i,       \* the loops of setupGrid
  before          \* the axes as they were before a redraw

vars == <<given, axes, phase, i, before>>

new == [min |-> null, max |-> null, ticks |-> <<>>, made |-> FALSE, tickSize |-> null,
        tickDecimals |-> null, generator |-> "none"]

Init ==
  /\ given \in Plots
  /\ axes = [k \in DOMAIN given |-> new]
  /\ phase = "range" /\ i = 1 /\ before = <<>>

opts(k) == given[k].opts
Or0(v) == IF v = null THEN 0 ELSE v

\* Mutant: a margin may take an end beyond zero.
MarginFree(k, min, max) ==
  LET d == (max - min) \div 50
  IN  [min |-> IF opts(k).min = null THEN min - d ELSE min,
       max |-> IF opts(k).max = null THEN max + d ELSE max]

\* An autoscaleMargin of 0.02, but not beyond zero.
Margin(k, min, max) ==
  LET d == (max - min) \div 50
  IN  [min |-> IF opts(k).min # null THEN min
               ELSE IF min - d < 0 /\ given[k].datamin # null /\ given[k].datamin >= 0 THEN 0 ELSE min - d,
       max |-> IF opts(k).max # null THEN max
               ELSE IF max + d > 0 /\ given[k].datamax # null /\ given[k].datamax <= 0 THEN 0 ELSE max + d]

\* An axis must not have length zero.
Widen(k, min, max) ==
  LET w == IF max = 0 THEN One ELSE One \div 100
  IN  [min |-> IF opts(k).min = null THEN min - w ELSE min,
       max |-> IF opts(k).max = null \/ opts(k).min # null THEN max + w ELSE max]

Ends(k) ==
  LET min == Or0(IF opts(k).min # null THEN opts(k).min ELSE given[k].datamin)
      max == Or0(IF opts(k).max # null THEN opts(k).max ELSE given[k].datamax)
  IN  IF min = max THEN Widen(k, min, max)
      ELSE IF opts(k).margin THEN Margin(k, min, max)
      ELSE [min |-> min, max |-> max]

setRange ==
  /\ phase = "range" /\ i <= Len(given)
  /\ axes' = [axes EXCEPT ![i].min = Ends(i).min, ![i].max = Ends(i).max]
  /\ i' = i + 1
  /\ UNCHANGED <<given, phase, before>>

ranged ==
  /\ phase = "range" /\ i > Len(given)
  /\ phase' = "ticks" /\ i' = 1
  /\ UNCHANGED <<given, axes, before>>

noTicks(k) == IF opts(k).ticks # null /\ opts(k).ticks > 0 THEN opts(k).ticks ELSE 5

\* The size of ticks: 1, 2, 2.5, 5 or 10 times a power of ten, by how large
\* a step would have to be (norm is length / (ticks * magn)).
Step(k, length, dec) ==
  LET magn == One \div (10 ^ dec)
      n == magn * noTicks(k)
      more == opts(k).tickDecimals = null \/ dec + 1 <= opts(k).tickDecimals
  IN  CASE 2 * length < 3 * n -> [size |-> magn, dec |-> dec]
        [] 2 * length >= 3 * n /\ length < 3 * n ->
             IF 4 * length > 9 * n /\ more THEN [size |-> (5 * magn) \div 2, dec |-> dec + 1]
             ELSE [size |-> 2 * magn, dec |-> dec]
        [] length >= 3 * n /\ 2 * length < 15 * n -> [size |-> 5 * magn, dec |-> dec]
        [] OTHER -> [size |-> 10 * magn, dec |-> dec]

\* The decimals of the step, not more than asked for.
Dec(k, length) ==
  LET dec == Min({d \in 0..Decimals : length >= (One \div (10 ^ d)) * noTicks(k)} \cup {Decimals})
  IN  IF opts(k).tickDecimals # null /\ dec > opts(k).tickDecimals THEN opts(k).tickDecimals ELSE dec

\* The size of the ticks and the decimals of their labels.
Size(k) ==
  LET length == axes[k].max - axes[k].min
      step == Step(k, length, Dec(k, length))
      size == IF opts(k).minTickSize # null /\ step.size < opts(k).minTickSize THEN opts(k).minTickSize
              ELSE step.size
  IN  [tickSize |-> IF opts(k).tickSize # null THEN opts(k).tickSize ELSE size,
       tickDecimals |-> IF opts(k).tickDecimals # null THEN opts(k).tickDecimals ELSE step.dec]

floorInBase(n, base) == base * (n \div base)

\* Up to the first tick that is not below the upper end.
Generate(min, max, size) ==
  LET start == floorInBase(min, size)
  IN  [n \in 1..1 + (max - start + size - 1) \div size |-> start + (n - 1) * size]

\* Mutant: the place of a tick is taken from zero.
CopiedFlush(min, max, other) ==
  [n \in DOMAIN other.ticks |->
     min + (other.ticks[n] * (max - min)) \div (other.max - other.min)]

\* The ticks of another axis, scaled to this one.
Copied(min, max, other) ==
  [n \in DOMAIN other.ticks |->
     min + ((other.ticks[n] - other.min) * (max - min)) \div (other.max - other.min)]

\* Ends that are not given move out to the first and the last of some ticks.
Out(k, axis, ticks) ==
  [axis EXCEPT
     !.min = IF opts(k).min = null /\ ticks # <<>> /\ ticks[1] < @ THEN ticks[1] ELSE @,
     !.max = IF opts(k).max = null /\ Len(ticks) > 1 /\ ticks[Len(ticks)] > @ THEN ticks[Len(ticks)] ELSE @]

\* Aligned with another axis.
Follows(k) == opts(k).align \in DOMAIN given \ {k} /\ given[opts(k).align].datamin # null

\* The ticks of an axis; a generator stays with the axis from one draw to
\* the next.
TicksOf(k, axis, generator) ==
  IF generator = "copy" THEN Copied(axis.min, axis.max, axes[opts(k).align])
  ELSE Generate(axis.min, axis.max, axis.tickSize)

\* Copied ticks may need one more decimal than the step, counted from the
\* length before the ends moved: unless their distance, rounded to it, has a
\* zero there.
ExtraDec(k) == Dec(k, axes[k].max - axes[k].min) + 1
NeedsExtra(k, ticks) ==
  Len(ticks) > 1 => ((2 * (ticks[2] - ticks[1]) * 10 ^ ExtraDec(k) + One) \div (2 * One)) % 10 # 0

\* setupTickGeneration, setTicks and snapRangeToTicks for an axis.
Sized(k) == [axes[k] EXCEPT !.tickSize = Size(k).tickSize, !.tickDecimals = Size(k).tickDecimals]
Nice(k) ==
  IF Follows(k) THEN Out(k, Sized(k), TicksOf(k, Sized(k), axes[k].generator)) ELSE Sized(k)
Ticked(k) ==
  LET generator == IF Follows(k) THEN "copy" ELSE "own"
      extra == Follows(k) /\ opts(k).tickDecimals = null /\ NeedsExtra(k, TicksOf(k, Nice(k), "copy"))
  IN  [Nice(k) EXCEPT !.generator = generator, !.made = TRUE,
         !.tickDecimals = IF extra THEN ExtraDec(k) ELSE @,
         !.ticks = IF opts(k).ticks = 0 THEN <<>> ELSE TicksOf(k, Nice(k), generator)]

snapRangeToTicks(k, axis) == IF opts(k).margin THEN Out(k, axis, axis.ticks) ELSE axis

makeTicks ==
  /\ phase = "ticks" /\ i <= Len(given)
  /\ IF Follows(i) /\ ~axes[opts(i).align].made
     THEN phase' = "thrown" /\ UNCHANGED <<axes, i>>
     ELSE axes' = [axes EXCEPT ![i] = snapRangeToTicks(i, Ticked(i))] /\ i' = i + 1 /\ UNCHANGED phase
  /\ UNCHANGED <<given, before>>

made ==
  /\ phase = "ticks" /\ i > Len(given)
  /\ phase' = "done"
  /\ UNCHANGED <<given, axes, i, before>>

\* The page draws again, with the same data.
setupGrid ==
  /\ phase = "done" /\ before = <<>>
  /\ before' = axes /\ phase' = "range" /\ i' = 1
  /\ UNCHANGED <<given, axes>>

Next == setRange \/ ranged \/ makeTicks \/ made \/ setupGrid

Spec == Init /\ [][Next]_vars

------------------------------------------------------------------------------
Done == phase = "done"
TickSet(k) == {axes[k].ticks[n] : n \in DOMAIN axes[k].ticks}

\* An axis has a length, keeps the ends that the page gave, and all data are
\* between ends that it did not give.
Covers ==
  Done => \A k \in DOMAIN axes :
    /\ axes[k].min < axes[k].max
    /\ opts(k).min # null => axes[k].min = opts(k).min
    /\ (opts(k).max # null /\ opts(k).max # opts(k).min) => axes[k].max = opts(k).max
    /\ (opts(k).min = null /\ given[k].datamin # null) => axes[k].min <= given[k].datamin
    /\ (opts(k).max = null /\ given[k].datamax # null) => axes[k].max >= given[k].datamax

\* "make sure we don't go below zero if all values are positive", nor above
\* it if all are negative, even with a margin and with ends on ticks.
SideOfZero ==
  Done => \A k \in DOMAIN axes : (given[k].datamin # null /\ given[k].datamin < given[k].datamax) =>
    /\ (opts(k).min = null /\ opts(k).max = null /\ given[k].datamin >= 0) => axes[k].min >= 0
    /\ (opts(k).min = null /\ opts(k).max = null /\ given[k].datamax <= 0) => axes[k].max <= 0

\* "If a margin is specified, the plot will furthermore extend the axis
\* end-point to the nearest whole tick."
Snapped ==
  Done => \A k \in DOMAIN axes : (opts(k).margin /\ Len(axes[k].ticks) > 1 /\ ~Follows(k)) =>
    /\ opts(k).min = null => axes[k].min = Min(TickSet(k))
    /\ opts(k).max = null => axes[k].max = Max(TickSet(k))

\* The number of ticks is near to what was asked for.
Reasonable ==
  Done => \A k \in DOMAIN axes :
    (/\ opts(k).tickSize = null /\ opts(k).minTickSize = null /\ opts(k).tickDecimals = null
     /\ opts(k).ticks # 0 /\ ~Follows(k)) =>
      /\ 2 * Len(axes[k].ticks) <= 3 * noTicks(k) + 6
      /\ 5 * Len(axes[k].ticks) >= 3 * noTicks(k)

\* "otherwise default to the value's own precision": no tick has more
\* decimals than its label shows.
LabelsExact ==
  Done => \A k \in DOMAIN axes : ~Follows(k) =>
    \A v \in TickSet(k) : (v * (10 ^ axes[k].tickDecimals)) % One = 0

\* "Flot will ensure that the autogenerated ticks of this axis are aligned
\* with the ticks of the other axis."  (To a fraction: ticks are rounded down.)
Aligned ==
  Done => \A k \in DOMAIN axes : (Follows(k) /\ opts(k).ticks # 0) =>
    LET other == axes[opts(k).align]
    IN  /\ Len(axes[k].ticks) = Len(other.ticks)
        /\ \A n \in DOMAIN other.ticks :
             LET apart == (other.ticks[n] - other.min) * (axes[k].max - axes[k].min)
                            - (axes[k].ticks[n] - axes[k].min) * (other.max - other.min)
             IN  0 <= apart /\ apart < other.max - other.min

\* "we might need an extra decimal since forced ticks don't necessarily fit
\* naturally": rounded as their labels are, no two ticks look the same, where
\* the page does not give the decimals.
LabelsApart ==
  Done => \A k \in DOMAIN axes : opts(k).tickDecimals = null =>
    LET shown(v) == (2 * v * 10 ^ axes[k].tickDecimals + One) \div (2 * One)
    IN  \A n, m \in DOMAIN axes[k].ticks : n # m => shown(axes[k].ticks[n]) # shown(axes[k].ticks[m])

\* A plot is not drawn if, and only if, an axis copies the ticks of a later one,
\* which are not there yet.
ThrownForLater ==
  LET later == \E k \in DOMAIN given : Follows(k) /\ opts(k).align > k
  IN  /\ phase = "thrown" => later
      /\ Done => ~later

\* A plot is drawn, whichever axis is aligned with which.
Drawn == phase # "thrown"

\* "consider snapping min/max to outermost nice ticks": to the same ones
\* when the same data are drawn again.
SameAgain == (Done /\ before # <<>>) => \A k \in DOMAIN axes :
  axes[k].min = before[k].min /\ axes[k].max = before[k].max
==============================================================================

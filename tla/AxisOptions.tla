------------------------------- MODULE AxisOptions -------------------------------
(***************************************************************************)
(* How flot fills in the options of the axes (page/flot/jquery.flot.js,    *)
(* parseOptions and getOrCreateAxis): from those of the grid, those common *)
(* to all x axes, those of one axis, and those of a second axis in the old *)
(* form; series may use axes that have none.  The y axes are alike.        *)
(*                                                                         *)
(* Options are numbers, 0 if not given; a font is <<size, line height,     *)
(* colour>>, << >> if not given.                                           *)
(***************************************************************************)
EXTENDS Integers, Sequences

CONSTANTS
  Commons, Owns, Seconds,  \* options of xaxis; lists xaxes; options of x2axis or noAxis
  GridTicks,               \* values of grid.tickColor
  Faint,                   \* the colour of the grid, made transparent
  FontSize,                \* of the page
  MaxAxis                  \* bound: numbers of axes that series use

FontAssumption == FontSize \in Nat \ {0} /\ MaxAxis \in Nat

VARIABLES
  given,     \* [common, own, second, gridTick]: the page's options
  common,    \* options.xaxis
  xaxes,     \* options.xaxes
  axes,      \* [number -> options] of the axes there are
  pc, i

vars == <<given, common, xaxes, axes, pc, i>>

noAxis == [color |-> 0, tickColor |-> 0, min |-> 0, top |-> 0, font |-> << >>]

Init ==
  /\ given \in [common : Commons, own : Owns, second : Seconds, gridTick : GridTicks]
  /\ common = given.common /\ xaxes = given.own /\ axes = << >>
  /\ pc = "defaults" /\ i = 1

Or(a, b) == IF a # 0 THEN a ELSE b
FontOver(f, under) ==
  IF f = << >> THEN under ELSE IF under = << >> THEN f ELSE [k \in 1..3 |-> Or(f[k], under[k])]

\* $.extend(true, {}, under, o)
Extend(o, under) ==
  [color |-> Or(o.color, under.color), tickColor |-> Or(o.tickColor, under.tickColor),
   min |-> Or(o.min, under.min), top |-> Or(o.top, under.top), font |-> FontOver(o.font, under.font)]

defaults ==
  /\ pc = "defaults" /\ pc' = "each"
  /\ LET color == Or(given.common.color, Faint)
     IN  common' = [given.common EXCEPT !.color = color,
                      !.tickColor = Or(@, Or(given.gridTick, color))]
  /\ UNCHANGED <<given, xaxes, axes, i>>

Round(n) == (n + 50) \div 100

\* The size of the page's font, a line height from the size, the axis' colour.
FillFont(o) ==
  IF o.font = << >> THEN o
  ELSE LET size == Or(o.font[1], Round(80 * FontSize))
       IN  [o EXCEPT !.font = <<size, Or(@[2], Round(115 * size)), Or(@[3], o.color)>>]

\* Mutant: the common colour of ticks is there before that of the axis.
FilledLate(o) ==
  LET e == Extend(o, common) IN FillFont([e EXCEPT !.tickColor = Or(@, e.color)])

\* An axis: its colour is that of its ticks, before the common options count.
Filled(o) == FillFont(Extend([o EXCEPT !.tickColor = Or(@, o.color)], common))

each ==
  /\ pc = "each"
  /\ IF i <= Len(xaxes)
       THEN /\ xaxes' = [xaxes EXCEPT ![i] = Filled(@)]
            /\ i' = i + 1 /\ UNCHANGED pc
       ELSE /\ xaxes' = IF xaxes = <<>> THEN <<Filled(noAxis)>> ELSE xaxes
            /\ pc' = "second" /\ UNCHANGED i
  /\ UNCHANGED <<given, common, axes>>

\* Mutant: the second axis has the common minimum.
SecondScaled(o) == [Extend(o, common) EXCEPT !.top = 1]

\* The second axis as it used to be given: at the top, and of its own scale.
Second(o) == [Extend(o, common) EXCEPT !.top = 1, !.min = o.min]

x2axis ==
  /\ pc = "second" /\ pc' = "save"
  /\ xaxes' = IF given.second = noAxis THEN xaxes
              ELSE [n \in 1..(IF Len(xaxes) < 2 THEN 2 ELSE Len(xaxes)) |->
                      IF n = 2 THEN Second(given.second) ELSE xaxes[n]]
  /\ UNCHANGED <<given, common, axes, i>>

save ==
  /\ pc = "save" /\ pc' = "use"
  /\ axes' = [n \in DOMAIN xaxes |-> xaxes[n]]
  /\ UNCHANGED <<given, common, xaxes, i>>

\* A series uses an axis, which may have no options of its own.
getOrCreateAxis(n) ==
  /\ pc = "use" /\ n \notin DOMAIN axes
  /\ axes' = [m \in DOMAIN axes \cup {n} |-> IF m = n THEN common ELSE axes[m]]
  /\ UNCHANGED <<given, common, xaxes, pc, i>>

Next == defaults \/ each \/ x2axis \/ save \/ \E n \in 1..MaxAxis : getOrCreateAxis(n)
Spec == Init /\ [][Next]_vars

---------------------------------------------------------------------------
(* Properties *)

IsSecond(n) == n = 2 /\ given.second # noAxis
Own(n) == IF IsSecond(n) THEN given.second ELSE IF n \in DOMAIN given.own THEN given.own[n] ELSE noAxis

\* What was given for an axis comes before what is common, and that before
\* what is derived, on every axis that is used, in either form; but the second
\* axis in the old form has a scale of its own (jquery.flot.js:833).
Precedence ==
  \A n \in DOMAIN axes :
    /\ axes[n].color = Or(Own(n).color, Or(given.common.color, Faint))
    /\ axes[n].min = Or(Own(n).min, IF IsSecond(n) THEN 0 ELSE given.common.min)
    /\ axes[n].font # << >> <=> Own(n).font # << >> \/ given.common.font # << >>
    /\ \A k \in 1..2 : Own(n).font # << >> /\ Own(n).font[k] # 0 => axes[n].font[k] = Own(n).font[k]

\* The ticks of an axis have the colour given for them, or else that of the
\* axis, "unless tickColor is specified" (API.md:293), or else what is given for
\* all.  But an axis in the older form has ticks in the colour for all even if
\* it has one of its own (jquery.flot.js:831).
ForAll == Or(given.common.tickColor, Or(given.gridTick, Or(given.common.color, Faint)))
TicksFollow ==
  \A n \in DOMAIN axes :
    axes[n].tickColor = Or(Own(n).tickColor, IF IsSecond(n) THEN ForAll ELSE Or(Own(n).color, ForAll))

\* A font that an axis has is complete (jquery.flot.js:764).
FontFull == \A n \in DOMAIN axes : axes[n].font # << >> => \A k \in 1..3 : axes[n].font[k] # 0
=================================================================================

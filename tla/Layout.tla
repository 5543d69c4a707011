---------------------------------- MODULE Layout ----------------------------------
(***************************************************************************)
(* How the axes and the plot share the canvas (page/flot/jquery.flot.js,   *)
(* setupGrid, allocateAxisBoxFirstPhase, adjustLayoutForThingsStickingOut  *)
(* and allocateAxisBoxSecondPhase): from the last axis to the first each   *)
(* takes a strip off its side of the canvas; then the plot moves further   *)
(* in if labels would stick out; then the strips get their length.         *)
(***************************************************************************)
EXTENDS Integers, Sequences, FiniteSetsExt

CONSTANTS
  Plots,          \* lists of axes, the x axes first
  Width, Height,  \* of the canvas
  Edge,           \* grid.margin and border
  axisMargin, labelMargin,
  MinMargins,     \* for points: minBorderMargin
  full            \* the tickLength of ticks across the plot

SizeAssumption ==
  /\ {Width, Height, Edge, axisMargin, labelMargin} \subseteq Nat
  /\ MinMargins \subseteq Nat

VARIABLES
  axes, minMargin,
  plotOffset,
  box,            \* of each axis: from and to, across and along
  tick,           \* tickLength and innermost of each axis
  phase, i

vars == <<axes, minMargin, plotOffset, box, tick, phase, i>>

Positions == {"left", "right", "top", "bottom"}
Allocated(k) == axes[k].show \/ axes[k].reserve
None == [near |-> 0, far |-> 0, from |-> 0, to |-> 0]

Init ==
  /\ axes \in Plots /\ minMargin \in MinMargins
  /\ plotOffset = [p \in Positions |-> Edge]
  /\ box = [k \in DOMAIN axes |-> None]
  /\ tick = [k \in DOMAIN axes |-> [length |-> 0, innermost |-> FALSE]]
  /\ phase = "first" /\ i = Len(axes)

isXAxis(k) == axes[k].pos \in {"top", "bottom"}

\* The axes that are before and after one on its side, and before it at all.
Before(k) == {m \in 1..k - 1 : Allocated(m) /\ axes[m].pos = axes[k].pos}
After(k) == {m \in k + 1..Len(axes) : Allocated(m) /\ axes[m].pos = axes[k].pos}
First(k) == ~\E m \in 1..k - 1 : Allocated(m) /\ isXAxis(m) = isXAxis(k)

tickLength(k) == IF axes[k].tickLength # -1 THEN axes[k].tickLength ELSE IF First(k) THEN full ELSE 5
padding(k) == labelMargin + (IF tickLength(k) = full THEN 0 ELSE tickLength(k))
Thickness(k) == padding(k) + (IF isXAxis(k) THEN axes[k].labelHeight ELSE axes[k].labelWidth)

\* The outermost axis has none.
Margin(k) == IF After(k) = {} THEN 0 ELSE axisMargin

\* Mutant: the margin is put between the strip and the edge twice.
StripLate(k) ==
  LET offset == plotOffset[axes[k].pos] + Margin(k)
  IN  [near |-> offset + Margin(k), far |-> offset + Margin(k) + Thickness(k)]

\* The strip of an axis, by its distance from the edge of the canvas.
Strip(k) ==
  LET offset == plotOffset[axes[k].pos] + Margin(k)
  IN  [near |-> offset, far |-> offset + Thickness(k)]

innermost(k) == Before(k) = {}

allocateAxisBoxFirstPhase ==
  /\ phase = "first" /\ i >= 1 /\ Allocated(i)
  /\ box' = [box EXCEPT ![i].near = Strip(i).near, ![i].far = Strip(i).far]
  /\ plotOffset' = [plotOffset EXCEPT ![axes[i].pos] = @ + Margin(i) + Thickness(i)]
  /\ tick' = [tick EXCEPT ![i] = [length |-> tickLength(i), innermost |-> innermost(i)]]
  /\ i' = i - 1
  /\ UNCHANGED <<axes, minMargin, phase>>

notAllocated ==
  /\ phase = "first" /\ i >= 1 /\ ~Allocated(i)
  /\ i' = i - 1
  /\ UNCHANGED <<axes, minMargin, plotOffset, box, tick, phase>>

\* What must be free on a side: half of a point, half of the labels of the
\* axes that end there.
margins(p) ==
  Max({minMargin} \cup
      {IF isXAxis(k) THEN axes[k].labelWidth \div 2 ELSE axes[k].labelHeight \div 2 :
         k \in {k \in DOMAIN axes : axes[k].reserve /\ axes[k].ticks
                                    /\ isXAxis(k) = (p \in {"left", "right"})}})

adjustLayoutForThingsStickingOut ==
  /\ phase = "first" /\ i = 0
  /\ plotOffset' = [p \in Positions |-> IF margins(p) > plotOffset[p] THEN margins(p) ELSE plotOffset[p]]
  /\ phase' = "second" /\ i' = 1
  /\ UNCHANGED <<axes, minMargin, box, tick>>

\* The other direction: along the plot, and half a label beyond its ends.
allocateAxisBoxSecondPhase ==
  /\ phase = "second" /\ i <= Len(axes)
  /\ box' = IF ~Allocated(i) THEN box
            ELSE IF isXAxis(i)
            THEN [box EXCEPT ![i].from = plotOffset["left"] - axes[i].labelWidth \div 2,
                             ![i].to = Width - plotOffset["right"] + axes[i].labelWidth \div 2]
            ELSE [box EXCEPT ![i].from = plotOffset["top"] - axes[i].labelHeight \div 2,
                             ![i].to = Height - plotOffset["bottom"] + axes[i].labelHeight \div 2]
  /\ i' = i + 1
  /\ UNCHANGED <<axes, minMargin, plotOffset, tick, phase>>

Next ==
  \/ allocateAxisBoxFirstPhase \/ notAllocated
  \/ adjustLayoutForThingsStickingOut \/ allocateAxisBoxSecondPhase

Spec == Init /\ [][Next]_vars

------------------------------------------------------------------------------
Done == phase = "second" /\ i > Len(axes)
Strips == {k \in DOMAIN axes : Allocated(k)}

\* On each side the strips lie next to each other with the margin between
\* them, the first axis innermost, and none of them reaches into the plot.
Apart ==
  Done => \A k \in Strips :
    /\ box[k].far <= plotOffset[axes[k].pos]
    /\ box[k].near >= Edge
    /\ \A m \in Before(k) : box[k].far + axisMargin <= box[m].near

\* No strip leaves more room than it needs: from the edge to the innermost
\* there are only strips and margins.
Close ==
  Done => \A k \in Strips :
    box[k].near = Edge + FoldSet(LAMBDA m, sum : sum + Thickness(m) + axisMargin, 0, After(k))

\* Labels at the ends of an axis, and points on the border, are not cut off
\* at the edge of the canvas.
Inside ==
  Done => /\ \A p \in Positions : plotOffset[p] >= minMargin
          /\ \A k \in Strips : axes[k].ticks =>
               box[k].from >= 0 /\ box[k].to <= IF isXAxis(k) THEN Width ELSE Height

\* An axis has its line drawn apart from the border unless it is the one
\* next to the plot; ticks go across the plot for one axis of a direction.
Innermost ==
  Done => /\ \A k \in Strips : tick[k].innermost <=> \A m \in Strips \ {k} :
               axes[m].pos = axes[k].pos => box[m].far < box[k].near
          /\ \A k, m \in Strips : (k # m /\ isXAxis(k) = isXAxis(m) /\ axes[k].tickLength = -1
                                    /\ axes[m].tickLength = -1) =>
               ~(tick[k].length = full /\ tick[m].length = full)
==============================================================================

------------------------------- MODULE Navigate -------------------------------
(***************************************************************************)
(* Zooming and panning (page/flot/jquery.flot.navigate.js): clicks and the *)
(* wheel zoom around a point, a drag pans at a limited rate and once more  *)
(* at its end, and the page may zoom and pan itself.  zoomRange and        *)
(* panRange are the limits the page gave the axis.                         *)
(*                                                                         *)
(* One axis; the plot is Width pixels wide; amount is 2, or 1/2 for out.   *)
(* Data are whole units: a window of many units has no fractions.          *)
(***************************************************************************)
EXTENDS Integers

CONSTANTS
  Width,          \* pixels
  Places,         \* where the mouse may be
  Windows,        \* the windows <<min, max>> a plot may begin with
  PanRange,       \* <<min, max>>, or << >> for none
  ZoomRange,      \* <<smallest, largest>>, or << >>
  Wheel,          \* the page lets the user zoom
  PageZooms,      \* the page has a button of its own, that zooms out
  Replaces,       \* the page may put another plot in the place
  ReusesArgs,     \* the page may hand the same object to zoomOut again
  MinWidth,       \* bound: no zoom in below
  Reach           \* bound: windows are within -Reach..Reach

WidthAssumption == Width \in Nat \ {0} /\ \A c \in Places : c \in 0..Width /\ c % 2 = 0

VARIABLES
  min, max,       \* the window of the axis
  mouse,          \* where the mouse is, in pixels
  drag,           \* "none", "pressed", "dragging"
  prevPage,       \* prevPageX
  panTimeout,     \* where the mouse was when the pan that waits was asked for
  cursor,         \* of the placeholder: "default" or "move"
  prevCursor,
  amount,         \* in the object the page hands to zoomOut: "none", "in", "out"
  grabbed         \* history: the data under the mouse when the drag began

navVars == <<min, max, panTimeout, prevPage>>
vars == <<min, max, mouse, drag, prevPage, panTimeout, cursor, prevCursor, amount, grabbed>>

none == -1

Init ==
  /\ \E w \in Windows : min = w[1] /\ max = w[2]
  /\ mouse \in Places /\ drag = "none" /\ prevPage = 0 /\ panTimeout = none
  /\ cursor = "default" /\ prevCursor = "default"
  /\ amount = "none" /\ grabbed = 0

\* Canvas coordinate to data point.
c2p(c) == min + (c * (max - min)) \div Width

Clamped(w) ==
  IF PanRange = << >> THEN w
  ELSE <<IF w[1] < PanRange[1] THEN PanRange[1] ELSE w[1],
         IF w[2] > PanRange[2] THEN PanRange[2] ELSE w[2]>>

\* Mutant: the limits are those of the other direction.
ZoomRefusedSwapped(w, way) ==
  /\ ZoomRange # << >>
  /\ \/ w[2] - w[1] < ZoomRange[1] /\ way = "out"
     \/ w[2] - w[1] > ZoomRange[2] /\ way = "in"

ZoomRefused(w, way) ==
  /\ ZoomRange # << >>
  /\ \/ w[2] - w[1] < ZoomRange[1] /\ way = "in"
     \/ w[2] - w[1] > ZoomRange[2] /\ way = "out"

\* plot.zoom: the window around the center, held within panRange, unless
\* zoomRange refuses it.
zoom(center, way) ==
  LET w == Clamped(IF way = "in"
                   THEN <<c2p(center - center \div 2), c2p(center + (Width - center) \div 2)>>
                   ELSE <<c2p(center - 2 * center), c2p(center + 2 * (Width - center))>>)
  IN  /\ way = "in" => max - min >= 2 * MinWidth
      /\ w[1] >= -Reach /\ w[2] <= Reach
      /\ IF ZoomRefused(w, way) THEN UNCHANGED <<min, max>> ELSE min' = w[1] /\ max' = w[2]

\* Mutant: the wall at the upper end is forgotten.
WalledLow(w) ==
  IF PanRange # << >> /\ PanRange[1] > w[1] THEN <<PanRange[1], w[2] + PanRange[1] - w[1]>> ELSE w

\* "check whether we hit the wall": the lower end first, then the upper.
Walled(w) ==
  LET low == IF PanRange # << >> /\ PanRange[1] > w[1] THEN PanRange[1] - w[1] ELSE 0
      high == IF PanRange # << >> /\ PanRange[2] < w[2] + low THEN PanRange[2] - w[2] - low ELSE 0
  IN  <<w[1] + low + high, w[2] + low + high>>

\* plot.pan by some pixels.
pan(left) ==
  LET d == (left * (max - min)) \div Width
      w == Walled(<<min + d, max + d>>)
  IN  /\ w[1] >= -Reach /\ w[2] <= Reach
      /\ min' = w[1] /\ max' = w[2]

------------------------------------------------------------------------------
(* The user. *)

\* A double click or the wheel, at the mouse; the wheel in a drag too.
onZoomClick(way) ==
  /\ Wheel
  /\ zoom(mouse, way)
  /\ UNCHANGED <<mouse, drag, prevPage, panTimeout, cursor, prevCursor, amount, grabbed>>

Press ==
  /\ drag = "none"
  /\ drag' = "pressed"
  /\ UNCHANGED <<navVars, mouse, cursor, prevCursor, amount, grabbed>>

Move(to) ==
  /\ drag = "none" /\ to # mouse
  /\ mouse' = to
  /\ UNCHANGED <<navVars, drag, cursor, prevCursor, amount, grabbed>>

\* The first movement after a press: onDragStart, at the new place, and then
\* onDrag.
onDragStart(to) ==
  /\ drag = "pressed" /\ to # mouse
  /\ mouse' = to /\ drag' = "dragging"
  /\ prevCursor' = cursor /\ cursor' = "move"
  /\ prevPage' = to /\ grabbed' = c2p(to)
  /\ panTimeout' = IF panTimeout = none THEN to ELSE panTimeout
  /\ UNCHANGED <<min, max, amount>>

\* One pan waits at a time, for where the mouse was when it was asked for.
onDrag(to) ==
  /\ drag = "dragging" /\ to # mouse
  /\ mouse' = to
  /\ panTimeout' = IF panTimeout = none THEN to ELSE panTimeout
  /\ UNCHANGED <<min, max, prevPage, drag, cursor, prevCursor, amount, grabbed>>

\* Mutant: prevPageX is where the mouse is now.
PanTimerNow ==
  /\ panTimeout # none
  /\ pan(prevPage - panTimeout)
  /\ prevPage' = mouse /\ panTimeout' = none
  /\ UNCHANGED <<mouse, drag, cursor, prevCursor, amount, grabbed>>

PanTimer ==
  /\ panTimeout # none
  /\ pan(prevPage - panTimeout)
  /\ prevPage' = panTimeout /\ panTimeout' = none
  /\ UNCHANGED <<mouse, drag, cursor, prevCursor, amount, grabbed>>

\* The pan that waits is dropped, and the rest of the way is panned.
onDragEnd ==
  /\ drag = "dragging"
  /\ pan(prevPage - mouse)
  /\ drag' = "none" /\ panTimeout' = none /\ grabbed' = 0
  /\ cursor' = prevCursor
  /\ UNCHANGED <<mouse, prevPage, prevCursor, amount>>

Click ==
  /\ drag = "pressed"
  /\ drag' = "none"
  /\ UNCHANGED <<navVars, mouse, cursor, prevCursor, amount, grabbed>>

------------------------------------------------------------------------------
(* The page. *)

\* plot.zoomOut turns the amount of the object round, in the object.
zoomOut(args) ==
  /\ PageZooms
  /\ amount' = IF args = "out" THEN "in" ELSE "out"
  /\ zoom(Width \div 2, amount')
  /\ UNCHANGED <<mouse, drag, prevPage, panTimeout, cursor, prevCursor, grabbed>>

\* Another plot in the same place: shutdown drops the pan that waits and the
\* handlers of the drag.  The placeholder keeps its cursor.
shutdown ==
  /\ Replaces
  /\ \E w \in Windows : min' = w[1] /\ max' = w[2]
  /\ drag' = "none" /\ panTimeout' = none /\ prevPage' = 0
  /\ prevCursor' = "default" /\ grabbed' = 0
  /\ UNCHANGED <<mouse, cursor, amount>>

Next ==
  \/ \E way \in {"in", "out"} : onZoomClick(way)
  \/ Press \/ Click \/ PanTimer \/ onDragEnd \/ shutdown
  \/ \E to \in Places : Move(to) \/ onDragStart(to) \/ onDrag(to)
  \/ \E args \in {"none"} \cup (IF ReusesArgs THEN {amount} ELSE {}) : zoomOut(args)

Spec == Init /\ [][Next]_vars

------------------------------------------------------------------------------
Inside == PanRange = << >> \/ (PanRange[1] <= min /\ max <= PanRange[2])
Sized == ZoomRange = << >> \/ max - min \in ZoomRange[1]..ZoomRange[2]

\* "panRange confines the panning to stay within a range", and zooming too,
\* in any mixture of the two: a window inside stays inside.
StaysInside == (Inside => Inside')

\* "the zoom will never scale the axis so that the difference between min and
\* max is smaller than 1 or larger than 100": a window of an allowed size keeps
\* one, also where panRange cuts it.
StaysSized == (Sized => Sized')

\* Where nothing limits it, a drag moves the plot with the mouse: at its end
\* the data that were under it are under it again, whatever the timer did.
DragFollows == (onDragEnd => c2p(mouse)' = grabbed)

\* "zoom out again": it never shows less.
ZoomOutShowsMore ==
  [][(\E args \in {"none", "in", "out"} : zoomOut(args)) => max' - min' >= max - min]_vars

\* The cursor for dragging is seen only during a drag.
CursorWhileDragging == cursor = "move" => drag = "dragging"
==============================================================================

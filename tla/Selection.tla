------------------------------ MODULE Selection -------------------------------
(***************************************************************************)
(* Selecting a range with the mouse, and the crosshair that follows it     *)
(* (page/flot/jquery.flot.selection.js, jquery.flot.crosshair.js) on the   *)
(* overlay of one plot.                                                    *)
(*                                                                         *)
(* Positions are pixels of the x axis, as in mode "x", where the selection *)
(* spans the other axis; the other modes do the same twice.  A selection   *)
(* is the pair of its ends.  The page knows of the selection by the events *)
(* it gets and by what it sets itself.                                     *)
(***************************************************************************)
EXTENDS Integers

CONSTANTS
  Width,          \* of the plot
  MinSize,        \* selection.minSize
  Selects,        \* selection.mode is given
  Crosses,        \* crosshair.mode is given
  PageHandler,    \* the page's document.onselectstart: "null" or "own"
  Misses          \* the release of the button may escape the document

ConstantsAssumption ==
  Width \in Nat /\ MinSize \in Nat /\ Selects \in BOOLEAN /\ Crosses \in BOOLEAN /\ Misses \in BOOLEAN

Pixels == 0..Width
Mouse == -1..(Width + 1)      \* where the mouse may be: also beside the plot
None == <<-1, -1>>

VARIABLES
  first, second, show, active,      \* the selection
  mouseUps,                         \* handlers of onMouseUp on the document
  onselectstart, savedhandler,      \* of the document; saved ("null" for none)
  crosshair, locked,                \* position, -1 for none
  redraw,                           \* a redraw of the overlay is pending
  drawn,                            \* [selection, crosshair] on the overlay
  told,                             \* the selection the page knows of
  down                              \* the plot has been shut down

selection == <<first, second, show, active>>
document == <<mouseUps, onselectstart, savedhandler>>
cross == <<crosshair, locked>>
vars == <<selection, document, cross, redraw, drawn, told, down>>

Init ==
  /\ first = -1 /\ second = -1 /\ show = FALSE /\ active = FALSE
  /\ mouseUps = 0 /\ onselectstart = PageHandler /\ savedhandler = "null"
  /\ crosshair = -1 /\ locked = FALSE
  /\ redraw = FALSE /\ drawn = [selection |-> None, crosshair |-> -1]
  /\ told = None /\ down = FALSE

Abs(n) == IF n < 0 THEN -n ELSE n
Lesser(a, b) == IF a <= b THEN a ELSE b
Greater(a, b) == IF a <= b THEN b ELSE a

clamp(x) == Greater(0, Lesser(x, Width))

Sane(a, b) == Abs(b - a) >= MinSize
Range(a, b) == <<Lesser(a, b), Greater(a, b)>>

\* getSelection: the range between the ends, if it is shown and large enough.
getSelection == IF show /\ Sane(first, second) THEN Range(first, second) ELSE None

\* Where the selection ends after updateSelection(x), and whether it shows.
Update(x) ==
  /\ second' = clamp(x)
  /\ show' = Sane(first, clamp(x))
  /\ redraw' = (redraw \/ show \/ show')

------------------------------------------------------------------------------
(* Dragging. *)

\* The document's own handler is saved and blocked if none is saved; the
\* first end moves, and a handler waits for the release.  Without misses the
\* button is released before it is pressed again.
onMouseDown(x) ==
  /\ Selects /\ ~down /\ (active => Misses) /\ mouseUps < 2
  /\ IF savedhandler = "null"
     THEN savedhandler' = onselectstart /\ onselectstart' = "block"
     ELSE UNCHANGED <<savedhandler, onselectstart>>
  /\ first' = clamp(x) /\ active' = TRUE /\ mouseUps' = mouseUps + 1
  /\ UNCHANGED <<second, show, cross, redraw, drawn, told, down>>

\* Mutant: a click without dragging leaves the page as it was.
MouseUpSilent(x) ==
  /\ mouseUps > 0
  /\ mouseUps' = 0 /\ onselectstart' = savedhandler /\ active' = FALSE
  /\ Update(x)
  /\ told' = IF Sane(first, clamp(x)) THEN Range(first, clamp(x)) ELSE told
  /\ UNCHANGED <<first, savedhandler, cross, drawn, down>>

\* All handlers that wait run: the page is told by plotselected what is
\* selected, or by plotunselected that nothing is.
onMouseUp(x) ==
  /\ mouseUps > 0
  /\ mouseUps' = 0 /\ onselectstart' = savedhandler /\ active' = FALSE
  /\ Update(x)
  /\ told' = IF Sane(first, clamp(x)) THEN Range(first, clamp(x)) ELSE None
  /\ UNCHANGED <<first, savedhandler, cross, drawn, down>>

------------------------------------------------------------------------------
(* The crosshair. *)

\* The crosshair moves with the mouse, but not when there is a selection.
MoveCrosshair(x, selected) ==
  IF ~Crosses \/ locked THEN crosshair' = crosshair /\ redraw' = redraw
  ELSE IF selected THEN crosshair' = -1 /\ redraw' = redraw
  ELSE crosshair' = clamp(x) /\ redraw' = TRUE

\* The mouse moves: the selection is updated while it is active, then the
\* crosshair moves (the plugins were included in this order).
onMouseMove(x) ==
  /\ ~down /\ (Selects \/ Crosses)
  /\ IF active
     THEN /\ second' = clamp(x)
          /\ show' = Sane(first, clamp(x))
          /\ IF ~Crosses \/ locked THEN crosshair' = crosshair
             ELSE crosshair' = IF show' THEN -1 ELSE clamp(x)
          /\ redraw' = (redraw \/ show \/ show' \/ (Crosses /\ ~locked))
     ELSE /\ UNCHANGED <<second, show>>
          /\ MoveCrosshair(x, Selects /\ getSelection # None)
  /\ UNCHANGED <<first, active, locked, document, drawn, told, down>>

\* Mutant: the crosshair goes without a redraw.
MouseOutSilent ==
  /\ Crosses /\ ~down /\ ~locked /\ crosshair # -1
  /\ crosshair' = -1
  /\ UNCHANGED <<selection, locked, document, redraw, drawn, told, down>>

onMouseOut ==
  /\ Crosses /\ ~down /\ ~locked /\ crosshair # -1
  /\ crosshair' = -1 /\ redraw' = TRUE
  /\ UNCHANGED <<selection, locked, document, drawn, told, down>>

\* setCrosshair, clearCrosshair (-1).
setCrosshair(x) ==
  /\ Crosses /\ ~down
  /\ crosshair' = x /\ redraw' = TRUE
  /\ UNCHANGED <<selection, locked, document, drawn, told, down>>

lockCrosshair ==
  /\ Crosses /\ ~down
  /\ locked' = ~locked
  /\ UNCHANGED <<selection, crosshair, document, redraw, drawn, told, down>>

------------------------------------------------------------------------------
(* What the page and the timer do. *)

\* Mutant: the selection is drawn only with the next movement.
setSelectionUndrawn(a, b) ==
  /\ Selects /\ ~down
  /\ first' = a /\ second' = b /\ show' = TRUE /\ redraw' = redraw
  /\ told' = IF Sane(a, b) THEN Range(a, b) ELSE None
  /\ UNCHANGED <<active, document, cross, drawn, down>>

setSelection(a, b) ==
  /\ Selects /\ ~down
  /\ first' = a /\ second' = b /\ show' = TRUE /\ redraw' = TRUE
  /\ told' = IF Sane(a, b) THEN Range(a, b) ELSE None
  /\ UNCHANGED <<active, document, cross, drawn, down>>

clearSelection ==
  /\ Selects /\ ~down /\ show
  /\ show' = FALSE /\ redraw' = TRUE /\ told' = None
  /\ UNCHANGED <<first, second, active, document, cross, drawn, down>>

drawOverlay ==
  /\ redraw /\ ~down
  /\ redraw' = FALSE
  /\ drawn' = [selection |-> getSelection, crosshair |-> crosshair]
  /\ UNCHANGED <<selection, document, cross, told, down>>

\* shutdown unbinds the handler of the last press.
shutdown ==
  /\ ~down
  /\ down' = TRUE /\ redraw' = FALSE
  /\ mouseUps' = IF mouseUps = 0 THEN 0 ELSE mouseUps - 1
  /\ UNCHANGED <<selection, onselectstart, savedhandler, cross, drawn, told>>

Next ==
  \/ \E x \in Mouse : onMouseDown(x) \/ onMouseMove(x) \/ onMouseUp(x)
  \/ onMouseOut
  \/ \E x \in Pixels \cup {-1} : setCrosshair(x)
  \/ lockCrosshair
  \/ \E a, b \in Pixels : setSelection(a, b)
  \/ clearSelection
  \/ drawOverlay
  \/ shutdown

Spec == Init /\ [][Next]_vars

------------------------------------------------------------------------------
TypeOK ==
  /\ first \in Pixels \cup {-1} /\ second \in Pixels \cup {-1}
  /\ show \in BOOLEAN /\ active \in BOOLEAN /\ mouseUps \in 0..2
  /\ onselectstart \in {"null", "own", "block"} /\ savedhandler \in {"null", "own", "block"}
  /\ crosshair \in Pixels \cup {-1} /\ locked \in BOOLEAN
  /\ redraw \in BOOLEAN /\ down \in BOOLEAN
  /\ told \in (Pixels \X Pixels) \cup {None}
  /\ drawn.selection \in (Pixels \X Pixels) \cup {None}
  /\ drawn.crosshair \in Pixels \cup {-1}

\* When no drag is under way, the page knows the selection that getSelection
\* gives: drags that end too small, clears and new selections in any order
\* leave no event out.
PageKnows == (~active /\ ~down) => told = getSelection

\* When no drag is under way and no redraw is pending, the overlay shows the
\* selection.
SelectionDrawn == (~active /\ ~redraw /\ ~down) => drawn.selection = getSelection

\* When no redraw is pending, the overlay shows the crosshair where it is.
\* With a selection this fails: "hide the crosshair while selecting"
\* (jquery.flot.crosshair.js:113) hides it without a redraw.
CrosshairDrawn == (~redraw /\ ~down) => drawn.crosshair = crosshair

\* "revert drag stuff for old-school browsers" (jquery.flot.selection.js:137):
\* with the drag ended, or the plot shut down, the page has its handler back.
Reverted == (~active \/ down) => onselectstart = PageHandler

\* "prevent text selection and drag in old-school browsers" (113).
BlockedWhileActive == (active /\ ~down) => onselectstart = "block"

\* "Cleans up any event handlers Flot has currently registered" (page/flot/
\* API.md:1174): nothing of the plot runs after shutdown.
DeafAfterShutdown == down => mouseUps = 0

\* "Returns the current selection [...] If there's currently no selection,
\* the function returns null" (jquery.flot.selection.js:75): while the user
\* has pressed the button and not moved, there is what the page was told of
\* or nothing, never a range nobody selected.
SelectionIsSomeones == [][\A x \in Mouse : onMouseDown(x) => getSelection' \in {told, None}]_vars
==============================================================================

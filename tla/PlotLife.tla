------------------------------- MODULE PlotLife -------------------------------
(***************************************************************************)
(* The life of the plots of one placeholder (page/flot/jquery.flot.js with *)
(* the plugin jquery.flot.resize.js): plots follow one another and share   *)
(* the canvases; highlights are drawn on the overlay by a timer; hovering  *)
(* and clicking highlight by themselves; a poll follows the size of the    *)
(* placeholder.                                                            *)
(*                                                                         *)
(* The page uses the plot it made last.  Handlers of plothover and         *)
(* plotclick run at the very end of the mouse handlers, so what they do to *)
(* the plot is a step of its own.  All data are series 0; each setData     *)
(* makes a new object of it, and generations tell these apart.             *)
(***************************************************************************)
EXTENDS Integers, SequencesExt, FiniteSets

CONSTANTS
  Points,
  Sizes,          \* sizes of the placeholder; 0 when it is hidden
  AtOnce,         \* redrawOverlayInterval is -1: the overlay is drawn at once
  MaxPlots, MaxGens, MaxResizes, MaxHighlights      \* bounds

Events == {"plothover", "plotclick"}

VARIABLES
  plots,          \* Seq([highlights, redrawTimeout, atOnce, listens])
  current,        \* data("plot") of the placeholder, 0 for none
  gen,            \* the generation of the series
  timers,         \* plots with a pending drawOverlay
  shown,          \* what is drawn on the overlay
  canvas,         \* the size of the canvases
  size,           \* the size of the placeholder
  tracked,        \* the size the resize poll knows, -1 when it does not run
  inside,         \* the mouse is over the plot
  resizes

vars == <<plots, current, gen, timers, shown, canvas, size, tracked, inside, resizes>>

Highlight == [series : 1..MaxGens, point : Points, auto : Events \cup {"no"}]

Init ==
  /\ plots = << >> /\ current = 0 /\ gen = 0
  /\ timers = {} /\ shown = {}
  /\ canvas = 0 /\ size \in Sizes \ {0}
  /\ tracked = -1 /\ inside = FALSE /\ resizes = 0

Drawn(highlights) == {[series |-> h.series, point |-> h.point] : h \in ToSet(highlights)}

\* indexOfHighlight: 0 if the point of the series is not highlighted.
indexOfHighlight(hs, s, p) ==
  IF \E i \in DOMAIN hs : hs[i].series = s /\ hs[i].point = p
  THEN CHOOSE i \in DOMAIN hs : hs[i].series = s /\ hs[i].point = p
  ELSE 0

\* highlight by the page keeps an automatic highlight from being cleared.
highlighted(hs, s, p, auto) ==
  LET i == indexOfHighlight(hs, s, p) IN
  IF i = 0 THEN Append(hs, [series |-> s, point |-> p, auto |-> auto])
  ELSE IF auto = "no" THEN [hs EXCEPT ![i].auto = "no"] ELSE hs

unhighlighted(hs, s, p) ==
  LET i == indexOfHighlight(hs, s, p) IN IF i = 0 THEN hs ELSE RemoveAt(hs, i)

------------------------------------------------------------------------------
(* Redrawing the overlay. *)

\* triggerRedrawOverlay, with the highlights that are then there.
triggerRedrawOverlay(p, hs) ==
  IF plots[p].atOnce
  THEN /\ plots' = [plots EXCEPT ![p].highlights = hs, ![p].redrawTimeout = FALSE]
       /\ shown' = Drawn(hs)
       /\ UNCHANGED timers
  ELSE /\ plots' = [plots EXCEPT ![p].highlights = hs, ![p].redrawTimeout = TRUE]
       /\ timers' = IF plots[p].redrawTimeout THEN timers ELSE timers \cup {p}
       /\ UNCHANGED shown

\* Highlights change, and the overlay with them; nothing is redrawn if they
\* stay (the flag auto is not drawn).
ChangeHighlights(hs) ==
  /\ Len(hs) <= MaxHighlights
  /\ IF Drawn(hs) # Drawn(plots[current].highlights)
     THEN triggerRedrawOverlay(current, hs)
     ELSE plots' = [plots EXCEPT ![current].highlights = hs] /\ UNCHANGED <<timers, shown>>
  /\ UNCHANGED <<current, gen, canvas, size, tracked, resizes>>

drawOverlay(p) ==
  /\ p \in timers
  /\ timers' = timers \ {p}
  /\ plots' = [plots EXCEPT ![p].redrawTimeout = FALSE]
  /\ shown' = Drawn(plots[p].highlights)
  /\ UNCHANGED <<current, gen, canvas, size, tracked, inside, resizes>>

------------------------------------------------------------------------------
(* What the page does. *)

highlight(p) ==
  /\ current # 0
  /\ ChangeHighlights(highlighted(plots[current].highlights, gen, p, "no"))
  /\ UNCHANGED inside

unhighlight(p) ==
  /\ current # 0
  /\ ChangeHighlights(unhighlighted(plots[current].highlights, gen, p))
  /\ UNCHANGED inside

unhighlightAll ==
  /\ current # 0
  /\ triggerRedrawOverlay(current, << >>)
  /\ UNCHANGED <<current, gen, canvas, size, tracked, inside, resizes>>

setData ==
  /\ current # 0 /\ gen < MaxGens
  /\ gen' = gen + 1
  /\ UNCHANGED <<plots, current, timers, shown, canvas, size, tracked, inside, resizes>>

draw ==
  /\ current # 0
  /\ triggerRedrawOverlay(current, plots[current].highlights)
  /\ UNCHANGED <<current, gen, canvas, size, tracked, inside, resizes>>

\* Mutant: the timer of the old plot runs on.
shutdownTimer ==
  IF current = 0 THEN [plots |-> plots, timers |-> timers]
  ELSE [plots |-> [plots EXCEPT ![current].listens = FALSE], timers |-> timers]

\* shutdown of the plot that is there clears its timer, and it no longer
\* listens; redrawTimeout keeps its value.
shutdown ==
  IF current = 0 THEN [plots |-> plots, timers |-> timers]
  ELSE [plots |-> [plots EXCEPT ![current].listens = FALSE], timers |-> timers \ {current}]

destroy ==
  /\ current # 0
  /\ plots' = shutdown.plots /\ timers' = shutdown.timers
  /\ current' = 0 /\ shown' = {} /\ canvas' = 0 /\ tracked' = -1 /\ inside' = FALSE
  /\ UNCHANGED <<gen, size, resizes>>

NewPlot(atOnce) ==
  [highlights |-> << >>, redrawTimeout |-> ~atOnce, atOnce |-> atOnce, listens |-> TRUE]

\* $.plot: the canvases are used again, the plot before is shut down and the
\* overlay cleared; the new one draws and binds.  It throws when the
\* placeholder has no size, before anything has changed.
plot(atOnce) ==
  /\ Len(plots) < MaxPlots /\ gen < MaxGens /\ size > 0
  /\ plots' = Append(shutdown.plots, NewPlot(atOnce))
  /\ timers' = shutdown.timers \cup (IF atOnce THEN {} ELSE {Len(plots) + 1})
  /\ current' = Len(plots) + 1
  /\ gen' = gen + 1
  /\ shown' = {} /\ canvas' = size /\ tracked' = size
  /\ UNCHANGED <<size, inside, resizes>>

------------------------------------------------------------------------------
(* The mouse. *)

\* Mutant: an automatic highlight is cleared only for another point.
clearedAutoLazy(hs, event, item) ==
  IF item = {} THEN hs
  ELSE FoldLeft(LAMBDA acc, i :
         IF i <= Len(acc) /\ acc[i].auto = event
            /\ [series |-> acc[i].series, point |-> acc[i].point] \notin item
         THEN unhighlighted(acc, acc[i].series, acc[i].point) ELSE acc,
       hs, [i \in DOMAIN hs |-> i])

\* The loop that clears the automatic highlights: it goes on to the next
\* index after it has removed one.
clearedAuto(hs, event, item) ==
  FoldLeft(LAMBDA acc, i :
      IF i <= Len(acc) /\ acc[i].auto = event
         /\ [series |-> acc[i].series, point |-> acc[i].point] \notin item
      THEN unhighlighted(acc, acc[i].series, acc[i].point) ELSE acc,
    hs, [i \in DOMAIN hs |-> i])

\* triggerClickHoverEvent with the item found near the mouse, if any.
triggerClickHoverEvent(event, item) ==
  LET cleared == clearedAuto(plots[current].highlights, event, item)
  IN  ChangeHighlights(IF item = {} THEN cleared
                       ELSE LET it == CHOOSE x \in item : TRUE
                            IN  highlighted(cleared, it.series, it.point, event))

Items == {{}} \cup {{[series |-> gen, point |-> p]} : p \in Points}

onMouseMove(item) ==
  /\ current # 0
  /\ inside' = TRUE
  /\ triggerClickHoverEvent("plothover", item)

onMouseLeave ==
  /\ current # 0 /\ inside
  /\ inside' = FALSE
  /\ triggerClickHoverEvent("plothover", {})

onClick(item) ==
  /\ current # 0 /\ inside
  /\ triggerClickHoverEvent("plotclick", item)
  /\ UNCHANGED inside

------------------------------------------------------------------------------
(* The size. *)

Resized(w) ==
  /\ resizes < MaxResizes /\ w # size
  /\ size' = w /\ resizes' = resizes + 1
  /\ UNCHANGED <<plots, current, gen, timers, shown, canvas, tracked, inside>>

\* The poll: a hidden placeholder is only remembered; a new size resizes the
\* canvases, which clears them, and draws.
Poll ==
  /\ tracked # -1 /\ tracked # size
  /\ tracked' = size
  /\ IF size = 0 THEN UNCHANGED <<plots, timers, shown, canvas>>
     ELSE /\ canvas' = size
          /\ LET p == plots[current]
                 now == p.atOnce
             IN  /\ plots' = [plots EXCEPT ![current].redrawTimeout = ~now]
                 /\ timers' = IF now \/ p.redrawTimeout THEN timers ELSE timers \cup {current}
                 /\ shown' = IF now THEN Drawn(p.highlights)
                             ELSE IF canvas = size THEN shown ELSE {}
  /\ UNCHANGED <<current, gen, size, inside, resizes>>

Next ==
  \/ \E p \in Points : highlight(p) \/ unhighlight(p)
  \/ unhighlightAll \/ setData \/ draw \/ destroy
  \/ \E atOnce \in AtOnce : plot(atOnce)
  \/ \E item \in Items : onMouseMove(item) \/ onClick(item)
  \/ onMouseLeave
  \/ \E w \in Sizes : Resized(w)
  \/ Poll
  \/ \E p \in timers : drawOverlay(p)

Spec == Init /\ [][Next]_vars

------------------------------------------------------------------------------
TypeOK ==
  /\ \A i \in DOMAIN plots :
       /\ \A k \in DOMAIN plots[i].highlights : plots[i].highlights[k] \in Highlight
       /\ plots[i].atOnce \in AtOnce
       /\ plots[i].redrawTimeout \in BOOLEAN /\ plots[i].listens \in BOOLEAN
  /\ current \in 0..Len(plots) /\ gen \in 0..MaxGens
  /\ timers \subseteq DOMAIN plots
  /\ shown \subseteq [series : 1..MaxGens, point : Points]
  /\ canvas \in Sizes \cup {0} /\ (canvas > 0 <=> current # 0) /\ size \in Sizes /\ tracked \in Sizes \cup {-1}
  /\ inside \in BOOLEAN /\ resizes \in 0..MaxResizes

\* The overlay shows the highlights of the plot that is there whenever no
\* redraw of it is pending: no request is lost while one waits, no timer of a
\* plot before draws over it, and nothing that clears the canvas forgets.
OverlayFresh ==
  (current # 0 /\ current \notin timers) => shown = Drawn(plots[current].highlights)

\* The mouse never leaves more than one automatic highlight of a kind behind,
\* whatever the page highlights and however its data change meanwhile, and
\* none of hovering when it has left.
OneAuto ==
  current # 0 => \A event \in Events :
    LET hs == plots[current].highlights
        autos == {i \in DOMAIN hs : hs[i].auto = event}
    IN  Cardinality(autos) <= (IF event = "plothover" /\ ~inside THEN 0 ELSE 1)

\* What the page has highlighted stays until the page removes it: the mouse
\* never clears it.
PageKeeps ==
  ((\E item \in Items : onMouseMove(item) \/ onClick(item)) \/ onMouseLeave
     => \A i \in DOMAIN plots[current].highlights :
          LET h == plots[current].highlights[i] IN
          h.auto = "no" => h \in ToSet(plots'[current].highlights))

\* "unhighlight(series, datapoint): Remove the highlighting of the point,
\* same parameters as highlight" (page/flot/API.md:1098): after it, the point
\* of the series is not highlighted.
PointUnhighlighted ==
  [][\A p \in Points : unhighlight(p)
       => \A i \in DOMAIN plots'[current].highlights : plots'[current].highlights[i].point # p]_vars
==============================================================================

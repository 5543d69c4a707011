------------------------------ MODULE CanvasText ------------------------------
(***************************************************************************)
(* The texts of a flot plot.  The class Canvas (page/flot/jquery.flot.js)  *)
(* keeps them as elements of a layer, from one drawing to the next: adding *)
(* and removing only mark positions; render attaches the elements of new   *)
(* positions, detaches those that are no longer wanted, and forgets texts  *)
(* without positions.  A plugin (jquery.flot.canvas.js) paints them on the *)
(* canvas instead: it replaces three methods of the class for all plots,   *)
(* each time a plot is made, by functions that ask the options of that     *)
(* plot whether to paint or to call the methods they replaced.             *)
(*                                                                         *)
(* The methods of both kinds meet in one cache, where an entry of one kind *)
(* lacks what the other reads: such a call throws, and the drawing ends    *)
(* there.  A canvas is a record, and every method an operator on it.  One  *)
(* number stands for the two coordinates, a text for the text and its      *)
(* style.  A position on the canvas is never the place of an element: they *)
(* differ by half a line.                                                  *)
(***************************************************************************)
EXTENDS Integers, FiniteSets, SequencesExt

CONSTANTS
  Layers, Texts,
  Coords,      \* where texts are asked for
  Haligns,     \* subset of {"left", "center", "right"}
  Natural,     \* [Texts -> Nat]: the width of a text
  Plots,
  Options,  \* the options the page may create its plots with: subset of BOOLEAN
  Toggles    \* BOOLEAN: may the page switch the option of a plot

VARIABLES
  option,    \* [Plots -> "none" or the plot's canvas option]
  owner,     \* the plot whose options the methods read
  surface,   \* [Plots -> canvas]
  painted,   \* [Plots -> what fillText put on the canvas since it was cleared]
  labels,    \* [Plots -> the labels of the last drawing]
  threw      \* [Plots -> did the last drawing end with an exception]

TextAssumption ==
  /\ Natural \in [Texts -> Nat]
  /\ Coords \subseteq Int
  /\ Haligns \subseteq {"left", "center", "right"}

Keys == Layers \X Texts

Aligned(x, halign, width) ==
  CASE halign = "left" -> x
    [] halign = "center" -> x - width \div 2
    [] halign = "right" -> x - width

\* An element shows one text for ever: those of a text are numbered, and a
\* number is used again when nothing refers to the element any more.  A text
\* has at most one position for each place.
Places == {Aligned(x, h, w) : x \in Coords, h \in Haligns,
                              w \in {Natural[t] : t \in Texts}}
Els == 1..(Cardinality(Places) + 1)

NoInfo == [kind |-> "none"]

EmptyCanvas == [cache |-> [k \in Keys |-> NoInfo],
                dom   |-> {},                                      \* attached elements
                css   |-> [k \in Keys |-> [e \in Els |-> 0]]]      \* where an element is put

Cached(c) == {k \in Keys : c.cache[k] # NoInfo}

Used(c, k) ==
  {e \in Els : <<k, e>> \in c.dom} \cup
  IF k \in Cached(c)
  THEN {c.cache[k].element} \cup {p.element : p \in ToSet(c.cache[k].positions)}
  ELSE {}

FreshElement(c, k) == LET free == Els \ Used(c, k) IN CHOOSE e \in free : \A f \in free : e <= f

\* A text wraps at the width it is given.
Measured(k, width) == IF width < Natural[k[2]] THEN width ELSE Natural[k[2]]

\* The text's entry in the cache, made (and measured) if there is none.
getTextInfo(c, k, width) ==
  IF c.cache[k] # NoInfo THEN c
  ELSE [c EXCEPT !.cache[k] = [kind |-> "html", element |-> FreshElement(c, k),
                               width |-> Measured(k, width), positions |-> << >>]]

\* A position that exists is marked; a new one takes the text's own element
\* if it is the first, else a clone.
addText(c, k, x, halign, width) ==
  LET d == getTextInfo(c, k, width)
      info == d.cache[k]
      at == Aligned(x, halign, info.width)
      same == {i \in DOMAIN info.positions : info.positions[i].x = at}
      element == IF info.positions = << >> THEN info.element ELSE FreshElement(d, k)
  IN  IF same # {}
      THEN [d EXCEPT !.cache[k].positions[CHOOSE i \in same : TRUE].active = TRUE]
      ELSE [d EXCEPT !.css[k][element] = at,
                     !.cache[k].positions =
                       Append(@, [active |-> TRUE, rendered |-> FALSE,
                                  element |-> element, x |-> at])]

Unmark(info, gone(_)) ==
  IF info = NoInfo THEN info
  ELSE [info EXCEPT !.positions =
          [i \in DOMAIN @ |-> IF gone(@[i]) THEN [@[i] EXCEPT !.active = FALSE] ELSE @[i]]]

\* removeText without a text: the whole layer.
removeLayer(c, l) ==
  [c EXCEPT !.cache = [k \in Keys |-> Unmark(@[k], LAMBDA p : k[1] = l)]]

render(c) ==
  LET all == UNION {{k} \X ToSet(c.cache[k].positions) : k \in Cached(c)}
      shown(p) == IF p.active THEN [p EXCEPT !.rendered = TRUE] ELSE p
      keep(info) == [info EXCEPT !.positions =
                       SelectSeq([i \in DOMAIN @ |-> shown(@[i])], LAMBDA p : p.active)]
      d == [c EXCEPT
              !.cache = [k \in Keys |-> IF @[k] = NoInfo \/ keep(@[k]).positions = << >>
                                        THEN NoInfo ELSE keep(@[k])],
              !.dom = (@ \ {<<q[1], q[2].element>> : q \in {r \in all : ~r[2].active /\ r[2].rendered}})
                        \cup {<<q[1], q[2].element>> : q \in {r \in all : r[2].active /\ ~r[2].rendered}}]
  IN  [d EXCEPT !.css = [k \in Keys |-> [e \in Els |-> IF e \in Used(d, k) THEN @[k][e] ELSE 0]]]

\* What is seen: the text of each attached element, where the element is put.
OnScreen(c) == {<<ke[1], c.css[ke[1]][ke[2]]>> : ke \in c.dom}

------------------------------------------------------------------------------
(* The plugin. *)

plotVars == <<option, owner, surface, painted, labels, threw>>

\* A step of a drawing: the canvas, what is painted, and whether it threw.
Step == [c |-> EmptyCanvas, paint |-> {}, threw |-> FALSE]
Throws(s) == [s EXCEPT !.threw = TRUE]

canvasInfo == [kind |-> "canvas", positions |-> << >>]

\* The plugin's getTextInfo; an entry of either kind is returned as it is.
getCanvasInfo(c, k) ==
  IF c.cache[k] # NoInfo THEN c ELSE [c EXCEPT !.cache[k] = canvasInfo]

addCanvasText(s, k, x) ==
  LET d == getCanvasInfo(s.c, k) IN
  IF d.cache[k].kind = "html" THEN Throws(s)      \* it has no lines
  ELSE [s EXCEPT !.c =
         LET same == {i \in DOMAIN d.cache[k].positions : d.cache[k].positions[i].x = x} IN
         IF same # {} THEN [d EXCEPT !.cache[k].positions[CHOOSE i \in same : TRUE].active = TRUE]
         ELSE [d EXCEPT !.cache[k].positions = Append(@, [active |-> TRUE, x |-> x])]]

\* The method that was replaced: it cannot clone or place the element of a
\* canvas entry.
addHtmlText(s, k, x) ==
  IF s.c.cache[k] # NoInfo /\ s.c.cache[k].kind = "canvas" THEN Throws(s)
  ELSE [s EXCEPT !.c = addText(s.c, k, x, "left", Natural[k[2]])]


\* removeText is not replaced.
removeLabels(c) == [c EXCEPT !.cache = [k \in Keys |-> Unmark(@[k], LAMBDA p : TRUE)]]

\* The plugin's render: the font of each layer is read from the entry that
\* comes first, so an element's entry throws there, or when it is active; an
\* inactive one is dropped without detaching its elements.  "html" says that
\* one of them comes first.
renderCanvas(s, html) ==
  LET active(info) == SelectSeq(info.positions, LAMBDA p : p.active)
      keep(info) == IF active(info) = << >> THEN NoInfo ELSE [info EXCEPT !.positions = active(info)]
  IN  IF html THEN Throws(s)
      ELSE [s EXCEPT
        !.paint = UNION {{<<k, p.x>> : p \in ToSet(active(s.c.cache[k]))} : k \in Cached(s.c)},
        !.c.cache = [k \in Keys |-> IF @[k] = NoInfo THEN NoInfo ELSE keep(@[k])]]

\* The method that was replaced: entries of the canvas have no positions that
\* were rendered; all of them are inactive here.
renderHtml(s) ==
  [s EXCEPT !.c = render([@ EXCEPT !.cache =
     [k \in Keys |-> IF @[k] # NoInfo /\ @[k].kind = "canvas" THEN NoInfo ELSE @[k]]])]

FirstMayBeHtml(c) ==
  {html \in BOOLEAN :
     html => \E k \in Cached(c) : c.cache[k].kind = "html"} \
  IF \E l \in Layers : LET cached == {k \in Cached(c) : k[1] = l} IN
       cached # {} /\ \A k \in cached : c.cache[k].kind = "html"
  THEN {FALSE} ELSE {}

------------------------------------------------------------------------------

CanvasInit ==
  /\ option = [p \in Plots |-> "none"]
  /\ owner = "none"
  /\ surface = [p \in Plots |-> EmptyCanvas]
  /\ painted = [p \in Plots |-> {}]
  /\ labels = [p \in Plots |-> {}]
  /\ threw = [p \in Plots |-> FALSE]

OptionOf == [b \in BOOLEAN |-> IF b THEN "canvas" ELSE "html"]

\* $.plot: initPlugins runs init, which replaces the methods.
Create(p) ==
  /\ option[p] = "none"
  /\ \E o \in Options : option' = [option EXCEPT ![p] = OptionOf[o]]
  /\ owner' = p
  /\ UNCHANGED <<surface, painted, labels, threw>>

\* plot.getOptions().canvas = ...
Toggle(p) ==
  /\ Toggles /\ option[p] # "none"
  /\ option' = [option EXCEPT ![p] = IF @ = "canvas" THEN "html" ELSE "canvas"]
  /\ UNCHANGED <<owner, surface, painted, labels, threw>>

\* plot.draw: the canvas is cleared, every layer's texts are unmarked, the
\* labels added, all is rendered.
Draw(p, new) ==
  /\ option[p] # "none"
  /\ LET paint == option[owner] = "canvas"
         add(s, a) == IF s.threw THEN s
                      ELSE IF paint THEN addCanvasText(s, a[1], a[2]) ELSE addHtmlText(s, a[1], a[2])
         added == FoldLeft(add, [Step EXCEPT !.c = removeLabels(surface[p])], SetToSeq(new))
     IN  \E html \in FirstMayBeHtml(added.c) :
           LET done == IF added.threw THEN added
                       ELSE IF paint THEN renderCanvas(added, html) ELSE renderHtml(added)
           IN  /\ surface' = [surface EXCEPT ![p] = done.c]
               /\ painted' = [painted EXCEPT ![p] = done.paint]
               /\ threw' = [threw EXCEPT ![p] = done.threw]
  /\ labels' = [labels EXCEPT ![p] = new]
  /\ UNCHANGED <<option, owner>>

CanvasNext ==
  \E p \in Plots :
    \/ Create(p)
    \/ Toggle(p)
    \/ \E new \in SUBSET (Keys \X Coords) : Draw(p, new)

------------------------------------------------------------------------------
(* Properties. *)

\* Both kinds of drawing, on a cache that lives through many of them, show
\* the labels of the last one and nothing older.
ShowsLabels ==
  \A p \in Plots : painted[p] \cup OnScreen(surface[p]) = labels[p]

\* Even among entries of both kinds and after a drawing that threw, no label
\* of an earlier drawing is painted.
PaintsNoOldLabel == \A p \in Plots : painted[p] \subseteq labels[p]

\* A drawing that comes to its end shows all its labels, whatever entries were
\* left by drawings of the other kind or by ones that threw.
CompleteUnlessThrown ==
  \A p \in Plots : ~threw[p] => labels[p] \subseteq painted[p] \cup OnScreen(surface[p])

\* "making it possible to toggle on and off ... when a plot uses HTML text in
\* the browser, but needs to redraw with canvas text" (jquery.flot.canvas.js:24):
\* a drawing after a switch comes to its end.  It is false; nor does switching
\* back always help, for a drawing that threw leaves entries of its own kind.
ToggleWorks == \A p \in Plots : ~threw[p]

\* "The canvas option controls whether full canvas drawing is enabled": a
\* plot is drawn as its own option says.
OwnOption ==
  [][\A p \in Plots : labels'[p] # labels[p] =>
       (painted'[p] # {} => option[p] = "canvas")]_plotVars
==============================================================================

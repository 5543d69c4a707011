-------------------------------- MODULE MCFlot --------------------------------
(***************************************************************************)
(* The modules of flot (page/flot), checked side by side.  They model      *)
(* parts of the library that run one after another, or not at all, on      *)
(* plots of their own: no variable of one is read by another.  A behaviour *)
(* of this specification is therefore a behaviour of one of them, and part *)
(* says of which.  The modules share the variables v1 to v13, which are    *)
(* given the names they have there by INSTANCE; what a module leaves over  *)
(* is unused.                                                              *)
(***************************************************************************)
EXTENDS Integers, Sequences, FiniteSets

VARIABLES part, v1, v2, v3, v4, v5, v6, v7, v8, v9, v10, v11, v12, v13

vars == <<part, v1, v2, v3, v4, v5, v6, v7, v8, v9, v10, v11, v12, v13>>

\* A module of n variables uses v1 to vn: the others have no value that
\* matters, and keep it.
Unused == "unused"
Uses(n) ==
  /\ IF n < 5 THEN v5 = Unused ELSE TRUE
  /\ IF n < 6 THEN v6 = Unused ELSE TRUE
  /\ IF n < 7 THEN v7 = Unused ELSE TRUE
  /\ IF n < 8 THEN v8 = Unused ELSE TRUE
  /\ IF n < 9 THEN v9 = Unused ELSE TRUE
  /\ IF n < 10 THEN v10 = Unused ELSE TRUE
  /\ IF n < 11 THEN v11 = Unused ELSE TRUE
  /\ IF n < 12 THEN v12 = Unused ELSE TRUE
  /\ IF n < 13 THEN v13 = Unused ELSE TRUE
Keeps(n) ==
  /\ UNCHANGED part
  /\ IF n < 5 THEN UNCHANGED v5 ELSE TRUE
  /\ IF n < 6 THEN UNCHANGED v6 ELSE TRUE
  /\ IF n < 7 THEN UNCHANGED v7 ELSE TRUE
  /\ IF n < 8 THEN UNCHANGED v8 ELSE TRUE
  /\ IF n < 9 THEN UNCHANGED v9 ELSE TRUE
  /\ IF n < 10 THEN UNCHANGED v10 ELSE TRUE
  /\ IF n < 11 THEN UNCHANGED v11 ELSE TRUE
  /\ IF n < 12 THEN UNCHANGED v12 ELSE TRUE
  /\ IF n < 13 THEN UNCHANGED v13 ELSE TRUE

null == -1000000

------------------------------------------------------------------------------
(* Texts: two layers of one plot, drawn as its option says; and one whose   *)
(* option is switched.                                                      *)

Widths == [t \in {"label"} |-> 4]

Text(toggles) == INSTANCE CanvasText WITH
  Layers <- {"xaxis", "yaxis"}, Texts <- {"label"}, Coords <- {1, 2}, Haligns <- {"left"},
  Natural <- Widths, Plots <- {"first"}, Options <- BOOLEAN, Toggles <- toggles,
  option <- v1, owner <- v2, surface <- v3, painted <- v4, labels <- v5, threw <- v6

------------------------------------------------------------------------------
(* The life of two plots with two points; a third size hides them.          *)

Life == INSTANCE PlotLife WITH
  Points <- {1, 2}, Sizes <- {0, 1}, AtOnce <- BOOLEAN,
  MaxPlots <- 2, MaxGens <- 2, MaxResizes <- 1, MaxHighlights <- 2,
  plots <- v1, current <- v2, gen <- v3, timers <- v4, shown <- v5,
  canvas <- v6, size <- v7, tracked <- v8, inside <- v9, resizes <- v10

------------------------------------------------------------------------------
(* Selecting with the crosshair, and the crosshair alone, on three pixels.    *)

Select(selects) == INSTANCE Selection WITH
  Width <- 3, MinSize <- 2, Selects <- selects, Crosses <- TRUE, PageHandler <- "null", Misses <- FALSE,
  first <- v1, second <- v2, show <- v3, active <- v4, mouseUps <- v5,
  onselectstart <- v6, savedhandler <- v7, crosshair <- v8, locked <- v9,
  redraw <- v10, drawn <- v11, told <- v12, down <- v13

------------------------------------------------------------------------------
(* Zooming and panning within limits on both; drags alone, without limits.  *)

Zoom == INSTANCE Navigate WITH
  Width <- 4, Places <- {0, 4}, Windows <- {<<0, 16>>, <<8, 40>>}, PanRange <- <<-8, 48>>,
  ZoomRange <- <<6, 40>>, Wheel <- TRUE, PageZooms <- TRUE, Replaces <- FALSE, ReusesArgs <- FALSE,
  MinWidth <- 4, Reach <- 64,
  min <- v1, max <- v2, mouse <- v3, drag <- v4, prevPage <- v5, panTimeout <- v6,
  cursor <- v7, prevCursor <- v8, amount <- v9, grabbed <- v10

Drag == INSTANCE Navigate WITH
  Width <- 4, Places <- {0, 2, 4}, Windows <- {<<0, 16>>}, PanRange <- << >>,
  ZoomRange <- << >>, Wheel <- FALSE, PageZooms <- FALSE, Replaces <- TRUE, ReusesArgs <- FALSE,
  MinWidth <- 4, Reach <- 64,
  min <- v1, max <- v2, mouse <- v3, drag <- v4, prevPage <- v5, panTimeout <- v6,
  cursor <- v7, prevCursor <- v8, amount <- v9, grabbed <- v10

------------------------------------------------------------------------------
(* One series on another: filled lines stacked, a line with another as its  *)
(* bottom, bars, and lines in steps on one without, that have no gaps.      *)

MergeXs == 0..2

\* What a series has at a place: nothing, a gap, or a value.
ListsOf(Values(_)) ==
  LET at(f, x) == CASE f[x] = "none" -> << >>
                    [] f[x] = "gap" -> << <<null, null, null>> >>
                    [] OTHER -> << <<x, IF f[x] = "low" THEN Values(x)[1] ELSE Values(x)[2], 0>> >>
  IN  {at(f, 0) \o at(f, 1) \o at(f, 2) : f \in [MergeXs -> {"none", "gap", "low", "high"}]}

OwnLists == ListsOf(LAMBDA x : <<0, 12>>)
OtherLists == ListsOf(LAMBDA x : <<6 * (x % 2), 6 * (x % 2)>>)

\* The points of a line in steps, as processData leaves them.
InSteps(s) ==
  LET mid(k) == IF k = 1 THEN << >>
                ELSE IF s[k][1] # null /\ s[k - 1][1] # null /\ s[k - 1][2] # s[k][2]
                THEN << <<s[k][1], s[k - 1][2], 0>> >> ELSE << >>
      all[k \in 0..Len(s)] == IF k = 0 THEN << >> ELSE all[k - 1] \o mid(k) \o <<s[k]>>
  IN  all[Len(s)]
Whole(S) == {s \in S : \A k \in DOMAIN s : s[k][1] # null}

Merge(stacks, lines) == INSTANCE DataMerge WITH
  Stacks <- stacks, Lines <- lines, Steps <- FALSE, Bottoms <- TRUE,
  Owns <- OwnLists, Others <- OtherLists,
  own <- v1, other <- v2, i <- v3, j <- v4, newpoints <- v5, fromgap <- v6

MergeSteps == INSTANCE DataMerge WITH
  Stacks <- TRUE, Lines <- TRUE, Steps <- TRUE, Bottoms <- FALSE,
  Owns <- {InSteps(s) : s \in Whole(OwnLists)}, Others <- Whole(OtherLists),
  own <- v1, other <- v2, i <- v3, j <- v4, newpoints <- v5, fromgap <- v6

------------------------------------------------------------------------------
(* The hooks of plugins, in all orders: stacks, bottoms and names; and      *)
(* thresholds before names, with new data.                                  *)

SeriesWith(stacks, fills, thresholds) ==
  [stack : stacks, fillBetween : fills, threshold : thresholds, names : {<<10, 11, 12>>, <<12, 13>>}]
Permuted(S) == {f \in [1..Cardinality(S) -> S] : \A a, b \in DOMAIN f : a # b => f[a] # f[b]}

Hooks == INSTANCE DataHooks WITH
  Plots <- {<<a, b, c>> : a \in SeriesWith({1}, {0}, {FALSE}), b \in SeriesWith({0, 1, 2}, {1, 3}, {FALSE}),
                          c \in SeriesWith({1, 2}, {0, 1}, {FALSE})},
  Orders <- Permuted({"stack", "fill", "categories"}),
  Given <- {{}, {<<12, 2>>}, {<<11, 0>>, <<10, 1>>}}, MinName <- 10, MaxData <- 1,
  page <- v1, series <- v2, order <- v3, i <- v4, h <- v5, categories <- v6, data <- v7

Thresholds == INSTANCE DataHooks WITH
  Plots <- {<<a, b>> : a, b \in SeriesWith({0}, {0}, BOOLEAN)},
  Orders <- {<<"threshold">>, <<"threshold", "categories">>},
  Given <- {{}, {<<12, 2>>}, {<<11, 0>>, <<10, 1>>}}, MinName <- 10, MaxData <- 2,
  page <- v1, series <- v2, order <- v3, i <- v4, h <- v5, categories <- v6, data <- v7

------------------------------------------------------------------------------
(* Curves: lines of three points, or of four with a gap, in and around a    *)
(* small plot; areas under three points, or two runs of two.                *)

Coordinates == {-12, 0, 12, 24, 36}
Corners == {<<a, b>> : a, b \in Coordinates}
Inner == {<<0, 12>>, <<12, 36>>, <<-12, 24>>}
Lines == {<<p, q, r>> : p, q, r \in Corners}
           \cup {<<p, q, << >>, r, s>> : p, s \in Inner, q, r \in Corners}

Clip == INSTANCE LineClip WITH
  Inputs <- Lines, Min <- 0, Max <- 24, Scale <- 12,
  points <- v1, i <- v2, prev <- v3, drawn <- v4

Xs == {<<-12, 0, 12>>, <<-12, -12, 36>>, <<0, 12, 36>>, <<-12, 36, 36>>,
       <<0, 24, 24>>, <<24, 36, 48>>, <<-24, -12, 12>>}
Bottoms == {<<0, 0, 0>>, <<12, -12, 36>>}
Areas == {[k \in 1..3 |-> <<xs[k], ys[k], b[k]>>] :
            xs \in Xs, ys \in [1..3 -> Coordinates], b \in Bottoms}
         \cup {<< <<xs[1], ys[1], 0>>, <<xs[2], ys[1], 12>>, << >>,
                  <<xs[3], ys[2], 0>>, <<xs[3] + 12, ys[3], 0>> >> :
                 xs \in Xs, ys \in [1..3 -> Coordinates]}

Area == INSTANCE LineArea WITH
  Inputs <- Areas, Min <- 0, Max <- 24, Scale <- 12,
  points <- v1, i <- v2, ps <- v3, segmentStart <- v4, segmentEnd <- v5,
  areaOpen <- v6, path <- v7, fills <- v8

------------------------------------------------------------------------------
(* Bars and points of two series, above and below their base, partly        *)
(* outside of a plot of five units, and the mouse over them.                *)

BarSeries(bars, show, horizontal, align, hoverable, points) ==
  [bars |-> bars, show |-> show, horizontal |-> horizontal, align |-> align,
   width |-> 2, hoverable |-> hoverable, points |-> points]
BarEnds == {-2, 0, 2, 4}
Rows == {<<<<x, y, 0>>, <<x + 1, z, b>>>> : x \in {-1, 1, 3}, y, z \in BarEnds, b \in {0, 1}}
          \cup {<<<<x, 2, 0>>, <<>>, <<2, -2, -1>>>> : x \in {0, 1}}
Short == {<<<<1, 2, 0>>, <<2, y, 0>>>> : y \in {-1, 1}}
Upright == {<<BarSeries(TRUE, FALSE, FALSE, a, TRUE, r), BarSeries(b, ~b, FALSE, "left", h, t)>> :
              a \in {"left", "right", "center"}, r \in Rows, b, h \in BOOLEAN, t \in Short}
Mixed == {<<BarSeries(b, TRUE, FALSE, "center", TRUE, r), BarSeries(TRUE, c, FALSE, "left", TRUE, t)>> :
              b, c \in BOOLEAN, r \in Rows, t \in Short}
\* Lying bars that are not cut across.
Lying == {<<BarSeries(TRUE, FALSE, TRUE, "center", TRUE, <<<<x, 1, b>>, <<z, 2, 0>>>>)>> :
              x, z \in BarEnds, b \in {0, 1}}

BarsOf == INSTANCE Bars WITH
  Plots <- Upright \cup Mixed \cup Lying, Mouse <- {<<0, 0>>, <<1, 1>>, <<2, -1>>, <<2, 2>>, <<3, 1>>},
  Low <- -1, High <- 3, ScaleX <- 1, ScaleY <- 2, Radius <- 2,
  series <- v1, drawn <- v2, mouse <- v3, i <- v4, search <- v5, item <- v6, smallest <- v7

\* A point in and around a plot of four units, two pixels each, with a circle of
\* one; every layout of its data and direction of the axes; drawn twice.
Errors == INSTANCE ErrorBars WITH
  Points <- {[x |-> x, y |-> y, xl |-> xe[1], xu |-> xe[2], yl |-> ye[1], yu |-> ye[2]] :
               x \in {-1, 0, 3, 5}, y \in {1, 6}, xe \in {<<1, 3>>, <<2, 1>>, <<0, 0>>, <<0, 2>>},
               ye \in {<<2, 2>>, <<1, 5>>, <<0, 3>>}},
  Configs <- [errorbars : SUBSET {"x", "y"}, asym : SUBSET {"x", "y"},
              show : SUBSET {"x", "y"}, inverted : SUBSET {"x", "y"}],
  AxisMax <- 4, Scale <- 2, Radius <- 1, MaxDraws <- 2,
  config <- v1, data <- v2, points <- v3, pointsize <- v4, caps <- v5,
  strokes <- v6, ends <- v7, draws <- v8

------------------------------------------------------------------------------
(* Axes.  Data: one series of two points of every kind, or of three in      *)
(* steps; two series of one point.                                          *)

Infinity == 101
Numbers == {-1, 0, 2, null, Infinity, -Infinity}
Few == {<<>>, <<1, 1>>, <<null, 3>>, <<-1, Infinity, 1>>, <<2, -2, -3>>}
DataSeries(lines, steps, bars, horizontal, zero, align, data) ==
  [lines |-> lines, fill |-> lines /\ ~steps, steps |-> steps, bars |-> bars, horizontal |-> horizontal,
   zero |-> zero, align |-> align, width |-> 2, filled |-> FALSE, data |-> data]
AsBars == {DataSeries(FALSE, FALSE, TRUE, h, z, a, <<p, q>>) :
             h, z \in BOOLEAN, a \in {"left", "right", "center"}, p, q \in Few}
AsAreas == {DataSeries(TRUE, FALSE, FALSE, FALSE, z, "left", <<p, q>>) :
             z \in BOOLEAN, p \in {<<x, y>> : x, y \in Numbers}, q \in Few}
AsPoints == {DataSeries(FALSE, FALSE, FALSE, FALSE, FALSE, "left", <<p, q>>) : p, q \in Few}
AsSteps == {DataSeries(TRUE, TRUE, FALSE, FALSE, FALSE, "left", <<p, q, r>>) :
             p, q, r \in {<<x, y>> : x \in {0, 1}, y \in {0, 1, 2}} \cup {<<>>, <<1, null>>}}

Data == INSTANCE AxisData WITH
  Plots <- {<<s>> : s \in AsBars \cup AsAreas \cup AsPoints \cup AsSteps}
             \cup {<<s, t>> : s \in AsPoints, t \in AsPoints \cup {b \in AsBars : b.zero /\ b.align = "right"}},
  null <- null, Infinity <- Infinity, fakeInfinity <- 100,
  series <- v1, points <- v2, pass <- v3, i <- v4, j <- v5, datamin <- v6, datamax <- v7, used <- v8

\* Ends and ticks of one axis, with ends, margins, numbers of ticks and decimals
\* given or not; the size of ticks is never given.
AxisOf(min, max, margin, ticks, tickDecimals, align, low, high) ==
  [opts |-> [min |-> min, max |-> max, margin |-> margin, ticks |-> ticks,
             tickDecimals |-> tickDecimals, tickSize |-> null,
             minTickSize |-> null, align |-> align],
   datamin |-> low, datamax |-> high]
One == 10000
AxisValues == {-3 * One, 0, One \div 5, 7 * One, 20 * One}
Single == {AxisOf(a, b, m, t, d, 0, low, high) :
             a \in {null, -4 * One, -3 * One}, b \in {null, 20 * One, -3 * One}, m \in BOOLEAN,
             t \in {null, 0, 4, 7}, d \in {null, 0, 1}, low, high \in AxisValues}

Ticks == INSTANCE AxisTicks WITH
  Plots <- {<<a>> : a \in {a \in Single : /\ a.datamin <= a.datamax
                                          /\ (a.opts.min # null /\ a.opts.max # null) => a.opts.min <= a.opts.max
                                          /\ a.opts.max # null => a.datamin <= a.opts.max}}
             \cup {<<AxisOf(null, null, m, t, null, 0, null, null)>> : m \in BOOLEAN, t \in {null, 4}},
  One <- One, Decimals <- 4, null <- null,
  given <- v1, axes <- v2, phase <- v3, i <- v4, before <- v5

\* Two axes, the second aligned with the first or the first with the second;
\* neither has given ends.
Pair(m, low, high, follows) ==
  <<AxisOf(null, null, m, null, null, IF follows = 1 THEN 2 ELSE 0, low[1] * 1200, low[2] * 1200),
    AxisOf(null, null, m, null, null, IF follows = 2 THEN 1 ELSE 0, high[1] * 1200, high[2] * 1200)>>

PairTicks == INSTANCE AxisTicks WITH
  Plots <- {Pair(m, p, q, f) : f \in {1, 2}, m \in BOOLEAN, p \in {<<0, 4>>, <<0, 7>>, <<0, 16>>, <<-4, 8>>},
                            q \in {<<0, 4>>, <<0, 5>>, <<1, 7>>, <<-2, 9>>, <<0, 16>>}},
  One <- 1200, Decimals <- 2, null <- null,
  given <- v1, axes <- v2, phase <- v3, i <- v4, before <- v5

------------------------------------------------------------------------------
(* Boxes: two x axes and two y axes on each side, shown, hidden or with     *)
(* space only; the grid of one or two x axes and a y axis, with markings    *)
(* with all kinds of ends.                                                  *)

BoxOf(pos, show, reserve, w, h, length, ticks) ==
  [pos |-> pos, show |-> show, reserve |-> show \/ reserve, labelWidth |-> w, labelHeight |-> h,
   tickLength |-> length, ticks |-> ticks]
XBoxes == {BoxOf(p, s, r, w, 10, l, TRUE) :
             p \in {"top", "bottom"}, s, r \in BOOLEAN, w \in {6, 40}, l \in {-1, 3}}
YBoxes == {BoxOf(p, s, r, 12, h, l, t) :
             p \in {"left", "right"}, s, r \in BOOLEAN, h \in {8, 60}, l \in {-1, 3}, t \in BOOLEAN}
HighYBoxes == {y \in YBoxes : y.ticks /\ y.labelHeight = 60}
WideXBoxes == {x \in XBoxes : x.tickLength = -1 /\ x.labelWidth = 40}

Boxes == INSTANCE Layout WITH
  Plots <- {<<x, y>> : x \in XBoxes, y \in YBoxes}
             \cup {<<x, z, y>> : x, z \in WideXBoxes, y \in {y \in HighYBoxes : y.show}}
             \cup {<<x, y, z>> : x \in {x \in WideXBoxes : x.show}, y, z \in HighYBoxes},
  Width <- 200, Height <- 150, Edge <- 2, axisMargin <- 8, labelMargin <- 5,
  MinMargins <- {0, 9, 30}, full <- 1000,
  axes <- v1, minMargin <- v2, plotOffset <- v3, box <- v4, tick <- v5, phase <- v6, i <- v7

GridX == [dir |-> "x", n |-> 1, min |-> 0, max |-> 4, position |-> "bottom", full |-> TRUE,
          show |-> TRUE, ticks |-> {0, 2, 4}]
GridX2 == [dir |-> "x", n |-> 2, min |-> 10, max |-> 13, position |-> "top", full |-> FALSE,
           show |-> TRUE, ticks |-> {9, 11, 13}]
GridY == [dir |-> "y", n |-> 1, min |-> -1, max |-> 2, position |-> "left", full |-> TRUE,
          show |-> TRUE, ticks |-> {-2, 0, 2}]
RangeOf(n, from, to) == [n |-> n, from |-> from, to |-> to]
XRanges == {RangeOf(0, a, b) : a, b \in {null, 1, 3}}
             \cup {RangeOf(n, a, b) : n \in {1, 2}, a, b \in {null, -3, 0, 2, 11, 20}}
YRanges == {RangeOf(0, null, null)} \cup {RangeOf(1, a, b) : a, b \in {null, -3, 0, 3}}

Grids == INSTANCE Grid WITH
  Markings <- {<<[x |-> r, y |-> q]>> : r \in XRanges, q \in YRanges},
  AxisSets <- {<<GridX, GridY>>, <<GridX, GridX2, [GridY EXCEPT !.position = "right"]>>,
               <<[GridX EXCEPT !.show = FALSE], GridY>>},
  Borders <- [{"left", "right", "top", "bottom"} -> {0, 2}], null <- null,
  markings <- v1, axes <- v2, borderWidth <- v3, i <- v4, j <- v5, shapes <- v6, lines <- v7

------------------------------------------------------------------------------
(* Options: lists of up to three of five series, some with an index or a    *)
(* name of a colour, and one of fourteen without, for two colours in the    *)
(* pool; up to two axes with options, and series that use up to three.      *)

Coloured(id, color, label, shown, axis) ==
  [id |-> id, color |-> color, label |-> label, shown |-> shown, axis |-> axis, axisObject |-> FALSE]
noColor == -1
FiveSeries == {Coloured(1, 0, 3, {}, 1), Coloured(2, noColor, 1, {"bars"}, 2), Coloured(3, 5, 0, {}, 1),
               Coloured(4, 100, 2, {"points"}, 2), Coloured(5, noColor, 4, {}, 1)}

Series == INSTANCE SeriesOptions WITH
  Lists <- {l \in UNION {[1..n -> FiveSeries] : n \in 0..3} : \A k, m \in DOMAIN l : k # m => l[k].id # l[m].id}
             \cup {[n \in 1..14 |-> Coloured(10 + n, noColor, 0, {}, 1)]},
  CSS <- {100, 101}, noColor <- noColor, Pool <- 2, Columns <- 2,
  Sorts <- {"none", "reverse", "ascending", "descending"}, MaxData <- 2,
  series <- v1, axes <- v2, legend <- v3, sorted <- v4, data <- v5

OptionsOf(color, tick, min, font) ==
  [color |-> color, tickColor |-> tick, min |-> min, top |-> 0, font |-> font]
noAxis == OptionsOf(0, 0, 0, << >>)
Axes == INSTANCE AxisOptions WITH
  Commons <- {OptionsOf(c, t, m, f) : c \in {0, 1}, t \in {0, 2}, m \in {0, 5}, f \in {<< >>, <<11, 0, 0>>}},
  Owns <- UNION {[1..n -> {noAxis, OptionsOf(3, 0, 0, <<0, 20, 0>>), OptionsOf(0, 4, 7, << >>),
                           OptionsOf(3, 4, 0, <<9, 0, 4>>)}] : n \in 0..2},
  Seconds <- {noAxis, OptionsOf(0, 4, 0, <<12, 14, 4>>), OptionsOf(3, 4, 7, << >>),
              OptionsOf(3, 0, 0, << >>)},
  GridTicks <- {0, 8}, Faint <- 9, FontSize <- 15, MaxAxis <- 3,
  given <- v1, common <- v2, xaxes <- v3, axes <- v4, pc <- v5, i <- v6

------------------------------------------------------------------------------
Init ==
  \/ part = "text" /\ Text(FALSE)!CanvasInit /\ Uses(6)
  \/ part = "switched" /\ Text(TRUE)!CanvasInit /\ Uses(6)
  \/ part = "life" /\ Life!Init /\ Uses(10)
  \/ part = "selection" /\ Select(TRUE)!Init /\ Uses(13)
  \/ part = "crosshair" /\ Select(FALSE)!Init /\ Uses(13)
  \/ part = "zoom" /\ Zoom!Init /\ Uses(10)
  \/ part = "drag" /\ Drag!Init /\ Uses(10)
  \/ part = "stack" /\ Merge(TRUE, TRUE)!Init /\ Uses(6)
  \/ part = "bottom" /\ Merge(FALSE, TRUE)!Init /\ Uses(6)
  \/ part = "stacked bars" /\ Merge(TRUE, FALSE)!Init /\ Uses(6)
  \/ part = "stacked steps" /\ MergeSteps!Init /\ Uses(6)
  \/ part = "hooks" /\ Hooks!Init /\ Uses(7)
  \/ part = "thresholds" /\ Thresholds!Init /\ Uses(7)
  \/ part = "line" /\ Clip!Init /\ Uses(4)
  \/ part = "area" /\ Area!Init /\ Uses(8)
  \/ part = "bars" /\ BarsOf!Init /\ Uses(7)
  \/ part = "errors" /\ Errors!Init /\ Uses(8)
  \/ part = "data" /\ Data!Init /\ Uses(8)
  \/ part = "ticks" /\ Ticks!Init /\ Uses(5)
  \/ part = "pair of ticks" /\ PairTicks!Init /\ Uses(5)
  \/ part = "layout" /\ Boxes!Init /\ Uses(7)
  \/ part = "grid" /\ Grids!Init /\ Uses(7)
  \/ part = "series" /\ Series!Init /\ Uses(5)
  \/ part = "axes" /\ Axes!Init /\ Uses(6)

Next ==
  \/ part = "text" /\ Text(FALSE)!CanvasNext /\ Keeps(6)
  \/ part = "switched" /\ Text(TRUE)!CanvasNext /\ Keeps(6)
  \/ part = "life" /\ Life!Next /\ Keeps(10)
  \/ part = "selection" /\ Select(TRUE)!Next /\ Keeps(13)
  \/ part = "crosshair" /\ Select(FALSE)!Next /\ Keeps(13)
  \/ part = "zoom" /\ Zoom!Next /\ Keeps(10)
  \/ part = "drag" /\ Drag!Next /\ Keeps(10)
  \/ part = "stack" /\ Merge(TRUE, TRUE)!Next /\ Keeps(6)
  \/ part = "bottom" /\ Merge(FALSE, TRUE)!Next /\ Keeps(6)
  \/ part = "stacked bars" /\ Merge(TRUE, FALSE)!Next /\ Keeps(6)
  \/ part = "stacked steps" /\ MergeSteps!Next /\ Keeps(6)
  \/ part = "hooks" /\ Hooks!Next /\ Keeps(7)
  \/ part = "thresholds" /\ Thresholds!Next /\ Keeps(7)
  \/ part = "line" /\ Clip!Next /\ Keeps(4)
  \/ part = "area" /\ Area!Next /\ Keeps(8)
  \/ part = "bars" /\ BarsOf!Next /\ Keeps(7)
  \/ part = "errors" /\ Errors!Next /\ Keeps(8)
  \/ part = "data" /\ Data!Next /\ Keeps(8)
  \/ part = "ticks" /\ Ticks!Next /\ Keeps(5)
  \/ part = "pair of ticks" /\ PairTicks!Next /\ Keeps(5)
  \/ part = "layout" /\ Boxes!Next /\ Keeps(7)
  \/ part = "grid" /\ Grids!Next /\ Keeps(7)
  \/ part = "series" /\ Series!Next /\ Keeps(5)
  \/ part = "axes" /\ Axes!Next /\ Keeps(6)

Spec == Init /\ [][Next]_vars

ASSUME FlotAssumption ==
  /\ Text(FALSE)!TextAssumption
  /\ Select(TRUE)!ConstantsAssumption /\ Select(FALSE)!ConstantsAssumption
  /\ Zoom!WidthAssumption /\ Drag!WidthAssumption
  /\ Merge(TRUE, TRUE)!NullAssumption
  /\ Hooks!MinNameAssumption /\ Thresholds!MinNameAssumption
  /\ Clip!AxisAssumption /\ Area!AxisAssumption /\ BarsOf!AxisAssumption
  /\ Errors!SizeAssumption
  /\ Data!InfinityAssumption
  /\ Ticks!OneAssumption /\ PairTicks!OneAssumption
  /\ Boxes!SizeAssumption
  /\ Series!PoolAssumption /\ Axes!FontAssumption

------------------------------------------------------------------------------
(* Properties.  Their parts are stated and explained in the modules.         *)


\* The overlay shows the highlights of the plot that is there when no redraw is
\* pending, whatever the mouse, the page and the timers of earlier plots do;
\* the mouse leaves no automatic highlight behind and takes none of the page's.
HighlightsFollow ==
  /\ [](part = "life" => Life!TypeOK /\ Life!OverlayFresh /\ Life!OneAuto)
  /\ [][part = "life" => Life!PageKeeps]_vars

\* When no drag is under way the page knows the selection there is and the
\* overlay shows it; without selections it shows the crosshair where it is.
SelectionKnown ==
  /\ part = "selection" => Select(TRUE)!TypeOK /\ Select(TRUE)!PageKnows /\ Select(TRUE)!SelectionDrawn
  /\ part = "crosshair" => Select(FALSE)!TypeOK /\ Select(FALSE)!CrosshairDrawn

\* In any mixture of zooming and panning a window within panRange stays within
\* and one of a size within zoomRange keeps one; without limits a drag moves the
\* data with the mouse, though pans are delayed and joined.
WindowKept ==
  [][/\ part = "zoom" => Zoom!StaysInside /\ Zoom!StaysSized
     /\ part = "drag" => Drag!DragFollows]_vars

\* Series put on one another show the sum, gaps where one has a gap, all points
\* where both have a value, bars each on the one below, and steps as steps.
SumsDrawn ==
  /\ part = "stack" =>
       Merge(TRUE, TRUE)!OnTheSum /\ Merge(TRUE, TRUE)!GapsShown /\ Merge(TRUE, TRUE)!NothingLost
  /\ part = "bottom" => Merge(FALSE, TRUE)!OnTheSum /\ Merge(FALSE, TRUE)!GapsShown
  /\ part = "stacked bars" => Merge(TRUE, FALSE)!BarsKept
  /\ part = "stacked steps" => MergeSteps!StepsKept

\* Whatever the order of the plugins, series stand on the series before them,
\* have the bottom that was named and their points at the numbers of their
\* names, which differ.
HooksAgree ==
  /\ part = "hooks" => Hooks!StackOrder /\ Hooks!FillNamed /\ Hooks!NamesStand
  /\ part = "thresholds" => Thresholds!NamesStand /\ Thresholds!NumbersApart

\* Of lines and areas all that lies in the plot is drawn, and nothing else.
CurvesInside ==
  /\ part = "line" => Clip!Faithful /\ Clip!Complete
  /\ part = "area" => Area!Filled /\ Area!FilledOnce

\* The mouse finds the nearest point or else the bar on top; bars have their
\* outline where they show; error bars that have a lower error reach from error
\* to error, with caps at their true ends only, which each drawing along an
\* inverted axis exchanges.
BarsShown ==
  /\ part = "bars" => BarsOf!NearestPoint /\ BarsOf!OnTop /\ BarsOf!Outline
  /\ part = "errors" => Errors!Shown /\ Errors!CapOfEnd

\* The axes have room for what is drawn and no more, whatever the numbers that
\* are missing or infinite; their ends respect what the page gave and the side
\* of zero, and lie on ticks where there is a margin; ticks are about as many as
\* asked for, with exact labels if no size is given; an axis aligned with an
\* earlier one has ticks next to the other's, with labels that differ, and one
\* aligned with a later one keeps the plot from being drawn.
AxesFit ==
  /\ part = "data" => Data!Room /\ Data!Tight /\ Data!Straight
  /\ part = "ticks" =>
       Ticks!Covers /\ Ticks!SideOfZero /\ Ticks!Snapped /\ Ticks!Reasonable /\ Ticks!LabelsExact
  /\ part = "pair of ticks" =>
       PairTicks!Aligned /\ PairTicks!LabelsApart /\ PairTicks!ThrownForLater

\* The strips of the axes lie apart without room between them, nothing is cut
\* off at the edge, and only the axis next to the plot is drawn as its side; a
\* marking is drawn as far as it lies in the plot, and a tick across the end of
\* an axis has a line or a border, where the border of that side is there or
\* not as the one of the axis' own side is.
BoxesFit ==
  /\ part = "layout" => Boxes!Apart /\ Boxes!Inside /\ Boxes!Close /\ Boxes!Innermost
  /\ part = "grid" => Grids!Marked /\ Grids!LineOrBorder

\* Options given for an axis come before common ones, and those before what is
\* derived, but the ticks of an axis in the older form do not take its colour;
\* series have different colours, keep theirs when others come and go,
\* and stand in the legend in the order asked for.
OptionsHonoured ==
  /\ [](/\ part = "axes" => Axes!Precedence /\ Axes!TicksFollow
        /\ part = "series" => Series!Legend /\ Series!EveryColor)
  /\ [][part = "series" => Series!Different /\ Series!Steady]_vars
==============================================================================

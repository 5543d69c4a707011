------------------------------ MODULE SeriesOptions ------------------------------
(***************************************************************************)
(* What flot fills in for the series of a plot (page/flot/jquery.flot.js,  *)
(* setData with parseData and fillInSeriesOptions, and insertLegend):      *)
(* colours, what is shown, axes, and the legend.  The page may set data    *)
(* again, with other series or with those it got from the plot.            *)
(*                                                                         *)
(* A colour is noColor, the number of a generated colour, or one of CSS.   *)
(***************************************************************************)
EXTENDS Integers, Sequences, FiniteSets, SequencesExt, TLC

CONSTANTS
  Lists,          \* lists of series: [id, color, label, shown, axis, axisObject]
  CSS,            \* colours by name
  noColor,
  Pool,           \* options.colors.length
  Columns, Sorts, \* legend.noColumns, values of legend.sorted
  MaxData         \* bound: how often data are set

PoolAssumption == Pool \in Nat \ {0} /\ Columns \in Nat \ {0}

VARIABLES
  series,         \* [id, color, label, lines, shown, axis]
  axes,           \* numbers of the axes there are
  legend,         \* rows of entries
  sorted, data

vars == <<series, axes, legend, sorted, data>>

Init == series = <<>> /\ axes = {1} /\ legend = <<>> /\ sorted \in Sorts /\ data = 0

Indexed(list) == {k \in DOMAIN list : list[k].color # noColor /\ list[k].color \notin CSS}
Given(list) == {k \in DOMAIN list : list[k].color # noColor}

\* How many colours to generate: one for each series without a colour, and as
\* many as the highest index asks for.
neededColors(list) ==
  LET needed == Len(list) - Cardinality(Given(list))
      maxIndex == Max({-1} \cup {list[k].color : k \in Indexed(list)})
  IN  IF needed <= maxIndex THEN maxIndex + 1 ELSE needed

\* The factor, in tenths, changes each time the pool is used up: darker and
\* lighter in turn, and none again after seven rounds.
variation[n \in 0..9] ==
  IF n = 0 THEN 0
  ELSE LET v == variation[n - 1]
       IN  IF v >= 0 THEN IF v < 5 THEN -v - 2 ELSE 0 ELSE -v

\* Generated colour number k, from 0: place in the pool, and factor.
Generated(k) == <<k % Pool, variation[k \div Pool]>>

colors(list) == [n \in 1..neededColors(list) |-> Generated(n - 1)]
Named(c) == <<c, -10>>

\* The series before k that have no colour either.
colori(list, k) == Cardinality({m \in 1..k - 1 : list[m].color = noColor}) + 1

\* Mutant: colours are handed out by the place of a series.
ColorByPlace(list, k) ==
  LET c == list[k].color
  IN  IF c \in CSS THEN Named(c)
      ELSE IF k \in DOMAIN colors(list) THEN colors(list)[k] ELSE Named(c)

\* << >> if there is no such colour.
Color(list, k) ==
  LET c == list[k].color
      n == IF c = noColor THEN colori(list, k) ELSE c + 1
  IN  IF c \in CSS THEN Named(c)
      ELSE IF n \in DOMAIN colors(list) THEN colors(list)[n] ELSE <<>>

\* Lines are turned on if nothing is set to be shown.  An axis that the page
\* took from the plot is set to be shown too.
AutoLines(s) == s.shown = {} /\ ~s.axisObject

Resolved(list, k) ==
  [id |-> list[k].id, color |-> Color(list, k), label |-> list[k].label,
   shown |-> list[k].shown \cup IF AutoLines(list[k]) THEN {"lines"} ELSE {},
   axis |-> list[k].axis]

Rows(entries) ==
  [r \in 1..(Len(entries) + Columns - 1) \div Columns |->
     SubSeq(entries, (r - 1) * Columns + 1, IF r * Columns < Len(entries) THEN r * Columns ELSE Len(entries))]

Sorted(entries) ==
  CASE sorted = "none" -> entries
    [] sorted = "reverse" -> Reverse(entries)
    [] sorted = "descending" -> SortSeq(entries, LAMBDA a, b : a.label > b.label)
    [] OTHER -> SortSeq(entries, LAMBDA a, b : a.label < b.label)

\* A series has an entry if it has a label (0 is none).
Entries(list) ==
  LET with == SelectSeq(list, LAMBDA s : s.label # 0)
  IN  [k \in DOMAIN with |-> [label |-> with[k].label, color |-> with[k].color]]

insertLegend(list) == Rows(Sorted(Entries(list)))

setData(list) ==
  /\ data < MaxData
  /\ series' = [k \in DOMAIN list |-> Resolved(list, k)]
  /\ axes' = axes \cup {list[k].axis : k \in DOMAIN list}
  /\ legend' = insertLegend([k \in DOMAIN list |-> Resolved(list, k)])
  /\ data' = data + 1
  /\ UNCHANGED sorted

\* plot.setData(plot.getData()), with a series taken away: colours are names now.
setAgain ==
  /\ 0 < data /\ data < MaxData /\ series # <<>>
  /\ series' = Tail(series) /\ legend' = insertLegend(Tail(series))
  /\ data' = data + 1
  /\ UNCHANGED <<axes, sorted>>

Next == (\E list \in Lists : setData(list)) \/ setAgain

Spec == Init /\ [][Next]_vars

------------------------------------------------------------------------------
\* Every series has a colour, also the one with an index that is higher than
\* the number of series.
EveryColor == \A k \in DOMAIN series : series[k].color # <<>>

\* Series that the page gives no colour have different ones, until the pool
\* was used up seven times.
Different ==
  (\A list \in Lists : (data' > data /\ Len(series') = Len(list)
        /\ \A k \in DOMAIN list : list[k].color = noColor /\ list[k].id = series'[k].id) =>
       \A k, m \in DOMAIN list : (k # m /\ Len(list) <= 7 * Pool) => series'[k].color # series'[m].color)

\* "hard-code the color index to prevent the colors from jumping around
\* between the series": a series keeps the colour of its index, whatever
\* other series come and go.
Steady ==
  (\A k \in DOMAIN series, m \in DOMAIN series' :
       (series[k].id = series'[m].id /\ \A list \in Lists : \A n \in DOMAIN list :
          list[n].id = series[k].id => list[n].color # noColor) => series[k].color = series'[m].color)

\* The legend has the label and the colour of every series with a label, in
\* the order asked for, and its rows are full but for the last.
Legend ==
  LET all == FlattenSeq(legend)
      with == {k \in DOMAIN series : series[k].label # 0}
  IN  /\ {<<series[k].label, series[k].color>> : k \in with} = {<<all[n].label, all[n].color>> : n \in DOMAIN all}
      /\ Len(all) = Cardinality(with)
      /\ \A r \in DOMAIN legend : IF r < Len(legend) THEN Len(legend[r]) = Columns
                                  ELSE Len(legend[r]) \in 1..Columns
      /\ \A n \in 1..Len(all) - 1 :
           /\ sorted = "ascending" => all[n].label <= all[n + 1].label
           /\ sorted = "descending" => all[n].label >= all[n + 1].label

\* "turn on lines automatically in case nothing is set".
SomethingShown == \A k \in DOMAIN series : series[k].shown # {}
==============================================================================

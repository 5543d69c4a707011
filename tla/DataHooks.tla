------------------------------- MODULE DataHooks -------------------------------
(***************************************************************************)
(* How the plugins that change the data of a plot share its list of series *)
(* (page/flot/jquery.flot.js, processData): for each series in turn, each  *)
(* plugin in the order they were loaded.  threshold puts further series    *)
(* into the list while it is walked; stack and fillbetween look for others *)
(* in it; categories numbers the names of points.                          *)
(*                                                                         *)
(* Of a point only its x is kept, a name or a number (numbers are below    *)
(* MinName); of a series, what it was put on.                              *)
(***************************************************************************)
EXTENDS Integers, Sequences, FiniteSetsExt, SequencesExt

CONSTANTS
  Plots,          \* lists of series as the page gives them
  Orders,         \* orders of the plugins
  Given,          \* what the page says of categories: [name -> number]
  MinName,
  MaxData         \* bound: how often there are new data

MinNameAssumption == MinName \in Nat

VARIABLES
  page,           \* the list the page gave
  series,         \* the list of the plot
  order, i, h,    \* the loops over series and hooks
  categories,     \* of the axis: a set of <<name, number>>
  data            \* how often there were data

vars == <<page, series, order, i, h, categories, data>>

none == 0

\* A series as it is before the hooks.
Raw(list) ==
  [k \in DOMAIN list |->
     [id |-> k, stack |-> list[k].stack, fillBetween |-> list[k].fillBetween,
      threshold |-> list[k].threshold, names |-> list[k].names, xs |-> list[k].names,
      on |-> << >>, bottom |-> none]]

Init ==
  /\ page \in Plots /\ order \in Orders
  /\ series = Raw(page) /\ i = 1 /\ h = 1 /\ data = 1
  /\ categories \in Given

Running == i <= Len(series) /\ h <= Len(order)
At(plugin) == Running /\ order[h] = plugin
s == series[i]

\* On to the next hook, or to the next series.
Onward ==
  IF h < Len(order) THEN h' = h + 1 /\ UNCHANGED i ELSE h' = 1 /\ i' = i + 1

\* Mutant: the first series with the key.
FirstMatching ==
  {k \in 1..i - 1 : series[k].stack = s.stack /\ \A m \in 1..k - 1 : series[m].stack # s.stack}

\* The closest series before that has the same key.
findMatchingSeries ==
  {k \in 1..i - 1 : series[k].stack = s.stack /\ \A m \in k + 1..i - 1 : series[m].stack # s.stack}

stackData ==
  /\ At("stack")
  /\ series' = IF s.stack = none \/ findMatchingSeries = {} THEN series
               ELSE LET other == series[CHOOSE k \in findMatchingSeries : TRUE]
                    IN  [series EXCEPT ![i].on = other.on \o <<other.id>>]
  /\ Onward
  /\ UNCHANGED <<page, order, categories, data>>

\* By its place in the list, from 1 here (no series has an id).
findBottomSeries == IF s.fillBetween \in DOMAIN series THEN {s.fillBetween} ELSE {}

computeFillBottoms ==
  /\ At("fill")
  /\ series' = IF s.fillBetween = none \/ findBottomSeries = {} THEN series
               ELSE [series EXCEPT ![i].bottom = series[CHOOSE k \in findBottomSeries : TRUE].id]
  /\ Onward
  /\ UNCHANGED <<page, order, categories, data>>

\* The first n points are below: they move to a copy of the series, which
\* follows it in the list if it has points.
processThresholds(n) ==
  /\ At("threshold")
  /\ n \in 0..(IF s.threshold THEN Len(s.xs) ELSE 0)
  /\ LET above == [s EXCEPT !.names = SubSeq(@, n + 1, Len(@)), !.xs = SubSeq(@, n + 1, Len(@))]
         under == [s EXCEPT !.names = SubSeq(@, 1, n), !.xs = SubSeq(@, 1, n), !.threshold = FALSE]
     IN  series' = IF n = 0 THEN series ELSE InsertAt([series EXCEPT ![i] = above], i + 1, under)
  /\ Onward
  /\ UNCHANGED <<page, order, categories, data>>

Named(c, x) == {p \in c : p[1] = x}

\* One more than the highest number.
getNextIndex(c) == IF c = {} THEN 0 ELSE Max({p[2] : p \in c} \cup {-1}) + 1

\* Mutant: each series begins its numbers anew.
TransformAnew ==
  /\ At("categories")
  /\ LET unknown == SelectSeq(s.xs, LAMBDA x : TRUE)
         added == {<<unknown[k], k - 1>> : k \in DOMAIN unknown}
     IN  /\ categories' = added
         /\ series' = [series EXCEPT ![i].xs =
              [k \in DOMAIN @ |-> (CHOOSE p \in categories' : p[1] = @[k])[2]]]
  /\ Onward
  /\ UNCHANGED <<page, order, data>>

\* Names that are not known get the next numbers (the names in a series
\* differ); every x is replaced by its
\* number.
transformPointsOnAxis ==
  /\ At("categories")
  /\ LET unknown == SelectSeq(s.xs, LAMBDA x : Named(categories, x) = {})
         added == {<<unknown[k], getNextIndex(categories) + k - 1>> : k \in DOMAIN unknown}
     IN  /\ categories' = categories \cup added
         /\ series' = [series EXCEPT ![i].xs =
              [k \in DOMAIN @ |-> (CHOOSE p \in categories' : p[1] = @[k])[2]]]
  /\ Onward
  /\ UNCHANGED <<page, order, data>>

\* setData: the series are made anew, the axis keeps its categories.
setData(list) ==
  /\ i > Len(series) /\ data < MaxData
  /\ page' = list /\ series' = Raw(list) /\ i' = 1 /\ h' = 1 /\ data' = data + 1
  /\ UNCHANGED <<order, categories>>

Next ==
  \/ stackData \/ computeFillBottoms \/ transformPointsOnAxis
  \/ \E n \in 0..3 : processThresholds(n)
  \/ \E list \in Plots : setData(list)

Spec == Init /\ [][Next]_vars

------------------------------------------------------------------------------
Done == i > Len(series)
Has(plugin) == \E k \in DOMAIN order : order[k] = plugin

\* "later series end up on top of the previous": a series, and each part of
\* it, stands on all series before it with its key, each of them once.
StackOrder ==
  (Done /\ Has("stack")) => \A k \in DOMAIN series :
    series[k].on = IF series[k].stack = none THEN << >>
                   ELSE SelectSeq([m \in 1..series[k].id - 1 |-> m],
                                  LAMBDA m : page[m].stack = series[k].stack)

\* "interpreted as the index in the array": the bottom is the series of that
\* place in the list the page gave.
FillNamed ==
  (Done /\ Has("fill")) => \A k \in DOMAIN series :
    series[k].bottom = IF series[k].fillBetween \in DOMAIN page THEN series[k].fillBetween ELSE none

\* "a point like ["February", 34] becomes [0, 34]": each point is at the number
\* of its name.
NamesStand ==
  (Done /\ Has("categories")) => \A k \in DOMAIN series : \A m \in DOMAIN series[k].xs :
    <<series[k].names[m], series[k].xs[m]>> \in categories

\* Names have different numbers, also when there are new data.
NumbersApart == \A p, q \in categories : (p[1] = q[1]) <=> (p[2] = q[2])
==============================================================================

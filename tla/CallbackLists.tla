---------------------------- MODULE CallbackLists ----------------------------
(***************************************************************************)
(* jQuery.Callbacks (page/flot/jquery.js): a list of functions that is     *)
(* fired with data.  A list is a record, each method an operator on it.    *)
(* The functions run between two steps of the loop in fire and may call    *)
(* every method of the list that is firing.                                *)
(***************************************************************************)
EXTENDS Integers, Sequences, FiniteSets

CONSTANTS Fns, Data, NoData

DataAssumption == NoData \notin Data

Flags == {"once", "memory", "unique", "stopOnFalse"}

\* alive: list is defined; queueing: stack is defined.
NewList(options) ==
  [options |-> options, alive |-> TRUE, list |-> << >>,
   queueing |-> "once" \notin options, stack |-> << >>,
   memory |-> NoData, fired |-> FALSE, firing |-> FALSE, data |-> NoData,
   firingStart |-> 0, firingLength |-> 0, firingIndex |-> 0]

has(L, f) == L.alive /\ \E i \in DOMAIN L.list : L.list[i] = f

\* The beginning of fire, before its first call.
begin(L, data) ==
  [L EXCEPT !.memory = IF "memory" \in L.options THEN data ELSE NoData,
            !.fired = TRUE,
            !.firingIndex = L.firingStart,
            !.firingStart = 0,
            !.firingLength = Len(L.list),
            !.firing = TRUE,
            !.data = data]

disable(L) == [L EXCEPT !.alive = FALSE, !.list = << >>, !.queueing = FALSE,
                        !.stack = << >>, !.memory = NoData]

\* The end of fire: the next data that were kept, or what once means.
finish(L) ==
  LET M == [L EXCEPT !.firing = FALSE] IN
  IF ~M.alive THEN M
  ELSE IF M.queueing
       THEN IF M.stack = << >> THEN M
            ELSE begin([M EXCEPT !.stack = Tail(@)], Head(M.stack))
       ELSE IF M.memory # NoData THEN [M EXCEPT !.list = << >>] ELSE disable(M)

\* A list with a memory fires its new functions at once.
add(L, f) ==
  IF ~L.alive THEN L
  ELSE LET M == IF "unique" \in L.options /\ has(L, f) THEN L
                ELSE [L EXCEPT !.list = Append(@, f)]
       IN  IF L.firing THEN [M EXCEPT !.firingLength = Len(M.list)]
           ELSE IF L.memory # NoData THEN begin([M EXCEPT !.firingStart = Len(L.list)], L.memory)
           ELSE M

\* The sequences left of the first 0, 1, ... of s when f is taken out.
Kept(s, f) ==
  LET kept[n \in 0..Len(s)] ==
        IF n = 0 THEN << >> ELSE IF s[n] = f THEN kept[n - 1] ELSE Append(kept[n - 1], s[n])
  IN  kept
Without(s, f) == Kept(s, f)[Len(s)]

\* Where f stands among the first n.
Copies(s, f, n) == {i \in DOMAIN s : i <= n /\ s[i] = f}

\* Mutant: the index of the function that runs is not moved.
removeUnmoved(L, f) ==
  IF ~L.alive THEN L
  ELSE LET gone(index) == IF L.firing THEN Cardinality(Copies(L.list, f, index + 1)) ELSE 0 IN
       [L EXCEPT !.list = Without(@, f),
                 !.firingLength = @ - gone(@)]

\* All copies of f go; while the list fires, the end and the index of the
\* loop move for each that is not behind them.
remove(L, f) ==
  IF ~L.alive THEN L
  ELSE LET gone(index) == IF L.firing THEN Cardinality(Copies(L.list, f, index + 1)) ELSE 0 IN
       [L EXCEPT !.list = Without(@, f),
                 !.firingLength = @ - gone(@),
                 !.firingIndex = @ - gone(@)]

\* A disabled list becomes a list again, without a stack: it can fire once.
empty(L) == [L EXCEPT !.alive = TRUE, !.list = << >>]

lock(L) ==
  LET M == [L EXCEPT !.queueing = FALSE, !.stack = << >>]
  IN  IF M.memory = NoData THEN disable(M) ELSE M

\* Data fired by a function of the list wait on the stack.
fireWith(L, data) ==
  IF ~(L.alive /\ (~L.fired \/ L.queueing)) THEN L
  ELSE IF L.firing THEN [L EXCEPT !.stack = Append(@, data)]
  ELSE begin(L, data)

\* The condition of the loop, and what one of its calls finds in the list:
\* nothing, if the list was emptied under it.
More(L) == L.alive /\ L.firingIndex < L.firingLength
Missing(L) == L.firingIndex + 1 \notin DOMAIN L.list
Current(L) == L.list[L.firingIndex + 1]

\* What a call returned.
returned(L, false) ==
  IF false /\ "stopOnFalse" \in L.options THEN finish([L EXCEPT !.memory = NoData])
  ELSE [L EXCEPT !.firingIndex = @ + 1]

ListOK(L) ==
  /\ L \in [options : SUBSET Flags, alive : BOOLEAN, list : Seq(Fns),
           queueing : BOOLEAN, stack : Seq(Data), memory : Data \cup {NoData},
           fired : BOOLEAN, firing : BOOLEAN, data : Data \cup {NoData},
           firingStart : Nat, firingLength : Int, firingIndex : Int]
  /\ L.firingIndex >= -1
==============================================================================

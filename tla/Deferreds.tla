------------------------------ MODULE Deferreds ------------------------------
(***************************************************************************)
(* jQuery.Deferred and jQuery.when (page/flot/jquery.js): a deferred is    *)
(* three callback lists, whose first functions are the deferred's own; its *)
(* functions settle other deferreds, whose functions run before the next   *)
(* of this list does.                                                      *)
(*                                                                         *)
(* The JavaScript stack is one sequence of operations, todo: the first is  *)
(* taken, and what it calls is put in front of the rest.  A value is a     *)
(* sequence, so that the value of when is the values of its parts.         *)
(***************************************************************************)
EXTENDS Integers, SequencesExt

CONSTANTS
  Values,      \* what deferreds are settled with: sequences
  Handlers,    \* functions of the page, each given to one list
  MaxNotify    \* bound: notifications

Given == {"a", "b"}                  \* made by the page
All == Given \cup {"then", "when"}   \* a.then(...), when(a, b)
Kinds == {"done", "fail", "progress"}
StateOf == [done |-> "resolved", fail |-> "rejected"]
Sub == <<"a", "b">>
Index == [a |-> 1, b |-> 2]

\* A function of a list: [fn, d, l]; a handler of the page has its name in d.
Fn(fn, d, l) == [fn |-> fn, d |-> d, l |-> l]
Functions == [fn : {"state", "disable", "lock", "fire", "pipe", "update", "handler"},
              d : All \cup Handlers, l : Kinds]

\* The value of a when before its parts have one.
Undefined == <<0>>
AllValues == Values \cup {u \o v : u, v \in Values \cup {Undefined}}

Lists == INSTANCE CallbackLists WITH Fns <- Functions, Data <- AllValues, NoData <- << >>

VARIABLES
  lists,      \* [All -> [Kinds -> callback list]]
  state,      \* [All -> "none" (not made), "pending", "resolved", "rejected"]
  todo,       \* operations, the running one first
  remaining, progressValues, resolveValues,   \* of the call of when
  notified,   \* notifications so far
  given,      \* history: [Handlers -> << >> or the deferred and list it was given to]
  calls,      \* history: [Handlers -> the values it was called with]
  adopted     \* history: what the function given to then returned, by list

vars == <<lists, state, todo, remaining, progressValues, resolveValues,
          notified, given, calls, adopted>>

------------------------------------------------------------------------------
(* Deferreds. *)

Other(l) == IF l = "done" THEN "fail" ELSE "done"

\* Mutant: the other list is not disabled.
NewDeferredOpen(d) ==
  LET with(l) == FoldLeft(Lists!add, Lists!NewList({"once", "memory"}),
                          <<Fn("state", d, l), Fn("lock", d, "progress")>>)
  IN  [done |-> with("done"), fail |-> with("fail"),
       progress |-> Lists!NewList({"memory"})]

\* The lists of a new deferred: the first functions of two of them set the
\* state, disable each other and lock the third.
NewDeferred(d) ==
  LET with(l) == FoldLeft(Lists!add, Lists!NewList({"once", "memory"}),
                          <<Fn("state", d, l), Fn("disable", d, Other(l)), Fn("lock", d, "progress")>>)
  IN  [done |-> with("done"), fail |-> with("fail"),
       progress |-> Lists!NewList({"memory"})]

AddOp(d, l, f) == [op |-> "add", f |-> f, d |-> d, l |-> l]
FireOp(d, l, v) == [op |-> "fire", d |-> d, l |-> l, v |-> v]
LoopOp(d, l) == [op |-> "loop", d |-> d, l |-> l]
ReturnOp(d, l) == [op |-> "return", d |-> d, l |-> l]

\* The list becomes M; if that starts its loop, the loop runs first.
SetList(d, l, M, rest) ==
  /\ lists' = [lists EXCEPT ![d][l] = M]
  /\ todo' = (IF M.firing /\ ~lists[d][l].firing THEN <<LoopOp(d, l)>> ELSE << >>) \o rest

Init ==
  /\ lists = [d \in All |-> NewDeferred(d)]
  /\ state = [d \in All |-> IF d \in Given THEN "pending" ELSE "none"]
  /\ todo = << >>
  /\ remaining = 2
  /\ progressValues = Undefined \o Undefined
  /\ resolveValues = Undefined \o Undefined
  /\ notified = 0
  /\ given = [h \in Handlers |-> << >>]
  /\ calls = [h \in Handlers |-> << >>]
  /\ adopted = [l \in Kinds |-> "nothing"]

Top == Head(todo)
Running(op) == todo # << >> /\ Top.op = op
InHandler == IF todo = << >> THEN TRUE ELSE Top.op \in {"handler", "pipe"}

------------------------------------------------------------------------------
(* What the page does, from outside or in one of its functions. *)

\* d.resolve(v), d.reject(v), d.notify(v).
Settle(d, l, v) ==
  /\ InHandler
  /\ l = "progress" => notified < MaxNotify
  /\ notified' = IF l = "progress" THEN notified + 1 ELSE notified
  /\ SetList(d, l, Lists!fireWith(lists[d][l], v), todo)
  /\ UNCHANGED <<state, remaining, progressValues, resolveValues, given, calls, adopted>>

\* promise.done(h), .fail(h), .progress(h).
Attach(h, d, l) ==
  /\ InHandler
  /\ given[h] = << >> /\ state[d] # "none"
  /\ given' = [given EXCEPT ![h] = <<d, l>>]
  /\ SetList(d, l, Lists!add(lists[d][l], Fn("handler", h, l)), todo)
  /\ UNCHANGED <<state, remaining, progressValues, resolveValues, notified, calls, adopted>>

\* a.then: for each list a function that forwards to the new deferred, or
\* calls a function of the page first (the lists in fns).
Then(fns) ==
  /\ InHandler
  /\ state["then"] = "none"
  /\ state' = [state EXCEPT !["then"] = "pending"]
  /\ todo' = [i \in 1..3 |-> LET l == <<"done", "fail", "progress">>[i] IN
                AddOp("a", l, Fn(IF l \in fns THEN "pipe" ELSE "fire", "then", l))] \o todo
  /\ UNCHANGED <<lists, remaining, progressValues, resolveValues, notified, given, calls, adopted>>

\* when(a, b).
When ==
  /\ InHandler
  /\ state["when"] = "none"
  /\ state' = [state EXCEPT !["when"] = "pending"]
  /\ todo' = FlattenSeq([i \in 1..2 |->
                <<AddOp(Sub[i], "done", Fn("update", Sub[i], "done")),
                  AddOp(Sub[i], "fail", Fn("fire", "when", "fail")),
                  AddOp(Sub[i], "progress", Fn("update", Sub[i], "progress"))>>])
             \o <<[op |-> "master"]>> \o todo
  /\ UNCHANGED <<lists, remaining, progressValues, resolveValues, notified, given, calls, adopted>>

\* A function of the page returns; what one given to then returns settles
\* the new deferred, or is a promise the new one follows.
HandlerReturns ==
  /\ Running("handler")
  /\ todo' = Tail(todo)
  /\ UNCHANGED <<lists, state, remaining, progressValues, resolveValues, notified, given, calls, adopted>>

PipeReturnsValue(v) ==
  /\ Running("pipe")
  /\ todo' = <<FireOp("then", Top.l, v)>> \o Tail(todo)
  /\ adopted' = [adopted EXCEPT ![Top.l] = "value"]
  /\ UNCHANGED <<lists, state, remaining, progressValues, resolveValues, notified, given, calls>>

\* ... a promise, which the new deferred follows.
PipeReturnsPromise ==
  /\ Running("pipe")
  /\ todo' = [i \in 1..3 |-> LET l == <<"done", "fail", "progress">>[i] IN
                AddOp("b", l, Fn("fire", "then", l))] \o Tail(todo)
  /\ adopted' = [adopted EXCEPT ![Top.l] = "promise"]
  /\ UNCHANGED <<lists, state, remaining, progressValues, resolveValues, notified, given, calls>>

------------------------------------------------------------------------------
(* The machine. *)

RunAdd ==
  /\ Running("add")
  /\ SetList(Top.d, Top.l, Lists!add(lists[Top.d][Top.l], Top.f), Tail(todo))
  /\ UNCHANGED <<state, remaining, progressValues, resolveValues, notified, given, calls, adopted>>

RunFire ==
  /\ Running("fire")
  /\ SetList(Top.d, Top.l, Lists!fireWith(lists[Top.d][Top.l], Top.v), Tail(todo))
  /\ UNCHANGED <<state, remaining, progressValues, resolveValues, notified, given, calls, adopted>>

\* The loop of fire: a step of CallbackLists, its call spelled out.
RunLoop ==
  /\ Running("loop")
  /\ LET L == lists[Top.d][Top.l]
         f == Lists!Current(L)
         then == <<ReturnOp(Top.d, Top.l)>> \o Tail(todo)
     IN  IF Lists!More(L)
         THEN /\ UNCHANGED lists
              /\ todo' = (CASE f.fn = "fire" -> <<FireOp(f.d, f.l, L.data)>>
                            [] f.fn = "update" -> <<[op |-> "update", i |-> Index[f.d], l |-> f.l, v |-> L.data]>>
                            [] OTHER -> <<[op |-> f.fn, d |-> f.d, l |-> f.l]>>) \o then
              /\ calls' = IF f.fn = "handler" THEN [calls EXCEPT ![f.d] = Append(@, L.data)] ELSE calls
         ELSE /\ lists' = [lists EXCEPT ![Top.d][Top.l] = Lists!finish(L)]
              /\ todo' = IF Lists!finish(L).firing THEN todo ELSE Tail(todo)
              /\ UNCHANGED calls
  /\ UNCHANGED <<state, remaining, progressValues, resolveValues, notified, given, adopted>>

RunReturn ==
  /\ Running("return")
  /\ lists' = [lists EXCEPT ![Top.d][Top.l] = Lists!returned(@, FALSE)]
  /\ todo' = <<LoopOp(Top.d, Top.l)>> \o Tail(todo)
  /\ UNCHANGED <<state, remaining, progressValues, resolveValues, notified, given, calls, adopted>>

\* The deferred's own functions.
RunOwn ==
  /\ \/ /\ Running("state")
        /\ state' = [state EXCEPT ![Top.d] = StateOf[Top.l]]
        /\ UNCHANGED lists
     \/ /\ Running("disable")
        /\ lists' = [lists EXCEPT ![Top.d][Top.l] = Lists!disable(@)]
        /\ UNCHANGED state
     \/ /\ Running("lock")
        /\ lists' = [lists EXCEPT ![Top.d][Top.l] = Lists!lock(@)]
        /\ UNCHANGED state
  /\ todo' = Tail(todo)
  /\ UNCHANGED <<remaining, progressValues, resolveValues, notified, given, calls, adopted>>

\* Mutant: a notification counts like an answer.
updateFuncCounting ==
  /\ Running("update")
  /\ resolveValues' = [resolveValues EXCEPT ![Top.i] = Top.v[1]]
  /\ remaining' = remaining - 1
  /\ todo' = (IF remaining' = 0 THEN <<FireOp("when", "done", resolveValues')>> ELSE << >>) \o Tail(todo)
  /\ UNCHANGED <<progressValues, lists, state, notified, given, calls, adopted>>

\* when's updateFunc, for a value or a notification of its part i.
updateFunc ==
  /\ Running("update")
  /\ IF Top.l = "progress"
     THEN /\ progressValues' = [progressValues EXCEPT ![Top.i] = Top.v[1]]
          /\ todo' = <<FireOp("when", "progress", progressValues')>> \o Tail(todo)
          /\ UNCHANGED <<remaining, resolveValues>>
     ELSE /\ resolveValues' = [resolveValues EXCEPT ![Top.i] = Top.v[1]]
          /\ remaining' = remaining - 1
          /\ todo' = (IF remaining' = 0 THEN <<FireOp("when", "done", resolveValues')>>
                      ELSE << >>) \o Tail(todo)
          /\ UNCHANGED progressValues
  /\ UNCHANGED <<lists, state, notified, given, calls, adopted>>

\* The end of when.
RunMaster ==
  /\ Running("master")
  /\ todo' = (IF remaining = 0 THEN <<FireOp("when", "done", resolveValues)>> ELSE << >>)
             \o Tail(todo)
  /\ UNCHANGED <<lists, state, remaining, progressValues, resolveValues, notified, given, calls, adopted>>

Next ==
  \/ \E d \in Given, l \in Kinds, v \in Values : Settle(d, l, v)
  \/ \E h \in Handlers, d \in All, l \in Kinds : Attach(h, d, l)
  \/ \E fns \in SUBSET Kinds : Then(fns)
  \/ \E v \in Values : PipeReturnsValue(v)
  \/ When \/ HandlerReturns \/ PipeReturnsPromise
  \/ RunAdd \/ RunFire \/ RunLoop \/ RunReturn \/ RunOwn \/ updateFunc \/ RunMaster

Spec == Init /\ [][Next]_vars

------------------------------------------------------------------------------
(* Properties. *)

TypeOK ==
  /\ \A d \in All : \A l \in Kinds : Lists!ListOK(lists[d][l])
  /\ state \in [All -> {"none", "pending", "resolved", "rejected"}]
  /\ remaining \in 0..2
  /\ \A h \in Handlers : Len(calls[h]) <= MaxNotify + 1

Quiet == todo = << >>

\* Every function that was given to a deferred, before it was settled, while
\* its functions ran or afterwards, is called once if it was settled that
\* way, with the value, and never if it was settled the other way.
HandlersCalled ==
  Quiet =>
    \A h \in Handlers :
      given[h] # << >> /\ given[h][2] # "progress" =>
        calls[h] = IF state[given[h][1]] = StateOf[given[h][2]]
                   THEN <<lists[given[h][1]][given[h][2]].memory>> ELSE << >>

\* The master of when is resolved with the values of all parts, in their
\* order, exactly if all are resolved, and rejected as soon as one is.
WhenAll ==
  Quiet /\ state["when"] # "none" =>
    /\ state["when"] =
         IF \E d \in Given : state[d] = "rejected" THEN "rejected"
         ELSE IF \A d \in Given : state[d] = "resolved" THEN "resolved" ELSE "pending"
    /\ state["when"] = "resolved" =>
         lists["when"]["done"].memory = lists["a"]["done"].memory \o lists["b"]["done"].memory

\* What then returned ends like the deferred, or like the promise that the
\* function given to then returned; it is not left pending.
ThenFollows ==
  Quiet /\ state["then"] # "none" =>
    \A l \in {"done", "fail"} :
      state["a"] = StateOf[l] /\ adopted["progress"] # "promise" =>
        state["then"] = IF adopted[l] = "promise" THEN state["b"] ELSE StateOf[l]
==============================================================================

-------------------------------- MODULE Events --------------------------------
(***************************************************************************)
(* The events of jQuery (page/flot/jquery.js): handlers are kept per       *)
(* element and type, delegated ones in front; one native listener per      *)
(* element and type dispatches to them; trigger walks the path to the root *)
(* itself and then lets the browser do the rest.                           *)
(*                                                                         *)
(* Elements are 1..N, each the parent of the one before.  A delegated      *)
(* handler's selector matches element 1.  todo is the JavaScript stack; a  *)
(* handler may bind, unbind and trigger once.  Inline handlers, events     *)
(* made of others (submit, change) for old browsers, and focus and blur    *)
(* are left out.                                                           *)
(***************************************************************************)
EXTENDS Integers, SequencesExt

CONSTANTS
  N,
  Handlers,
  OrigTypes,      \* the types the page uses
  Kinds,          \* "all", "namespace", "exclusive": what it triggers
  MaxBound,       \* bound: handlers bound to an element
  MaxDepth        \* bound: length of the stack

Elems == 1..N

\* mouseenter and mouseleave are made from mouseover and mouseout.
BindType(t) ==
  CASE t = "mouseenter" -> "mouseover" [] t = "mouseleave" -> "mouseout" [] OTHER -> t
Types == {BindType(t) : t \in OrigTypes}

\* What calling the native method makes the browser fire: the click of a
\* checkbox is followed by its change.
NativeEvents(t) == IF t = "click" THEN <<"click", "change">> ELSE << >>

VARIABLES
  bound,          \* [Elems -> [Types -> Seq(handleObj)]]
  delegateCount,  \* [Elems -> [Types -> Nat]]
  listening,      \* [Elems -> the types with a native listener]
  triggered,      \* jQuery.event.triggered
  todo

vars == <<bound, delegateCount, listening, triggered, todo>>
bindings == <<bound, delegateCount, listening>>

HandleObj == [handler : Handlers, origType : OrigTypes, ns : BOOLEAN, selector : BOOLEAN,
              one : BOOLEAN]

Init ==
  /\ bound = [e \in Elems |-> [t \in Types |-> << >>]]
  /\ delegateCount = [e \in Elems |-> [t \in Types |-> 0]]
  /\ listening = [e \in Elems |-> {}]
  /\ triggered = "undefined"
  /\ todo = << >>

Top == Head(todo)
Running(op) == IF todo = << >> THEN FALSE ELSE Top.op = op
Acts == IF todo = << >> THEN TRUE
        ELSE Top.op = "handler" /\ ~Top.acted /\ Len(todo) < MaxDepth
Rest == IF todo = << >> THEN todo ELSE <<[Top EXCEPT !.acted = TRUE]>> \o Tail(todo)

HasRoom(e) == FoldFunction(LAMBDA s, n : n + Len(s), 0, bound[e]) < MaxBound
------------------------------------------------------------------------------
(* add and remove. *)

\* Mutant: delegated handlers go to the end.
addLast(e, obj) ==
  LET t == BindType(obj.origType) IN
  /\ Acts /\ HasRoom(e)
  /\ bound' = [bound EXCEPT ![e][t] = Append(@, obj)]
  /\ delegateCount' = [delegateCount EXCEPT ![e][t] = IF obj.selector THEN @ + 1 ELSE @]
  /\ listening' = [listening EXCEPT ![e] = @ \cup {t}]
  /\ todo' = Rest
  /\ UNCHANGED triggered

\* The first handler of a type adds the native listener.
add(e, obj) ==
  LET t == BindType(obj.origType) IN
  /\ Acts /\ HasRoom(e)
  /\ bound' = [bound EXCEPT ![e][t] =
       IF obj.selector THEN InsertAt(@, delegateCount[e][t] + 1, obj) ELSE Append(@, obj)]
  /\ delegateCount' = [delegateCount EXCEPT ![e][t] = IF obj.selector THEN @ + 1 ELSE @]
  /\ listening' = [listening EXCEPT ![e] = IF bound[e][t] = << >> THEN @ \cup {t} ELSE @]
  /\ todo' = Rest
  /\ UNCHANGED triggered

\* What to remove: of a type or of all, of a handler or of all, only those
\* with the namespace, only delegated ones.
What == [types : {{t} : t \in OrigTypes} \cup {OrigTypes},
         handlers : {{h} : h \in Handlers} \cup {Handlers},
         ns : BOOLEAN, selector : BOOLEAN]

Matches(obj, what) ==
  /\ obj.origType \in what.types
  /\ obj.handler \in what.handlers
  /\ what.ns => obj.ns
  /\ what.selector => obj.selector

Kept(e, t, what) == SelectSeq(bound[e][t], LAMBDA obj : ~Matches(obj, what))
Delegates(e, t, what) == SelectSeq(bound[e][t], LAMBDA obj : Matches(obj, what) /\ obj.selector)

\* Mutant: the listener goes whenever its type is named.
DetachByName(e, what) ==
  /\ bound' = [bound EXCEPT ![e] = [t \in Types |-> Kept(e, t, what)]]
  /\ delegateCount' = [delegateCount EXCEPT ![e] =
       [t \in Types |-> @[t] - Len(Delegates(e, t, what))]]
  /\ listening' = [listening EXCEPT ![e] = @ \ {BindType(t) : t \in what.types}]

\* The last handler of a type takes the listener with it.
Detach(e, what) ==
  /\ bound' = [bound EXCEPT ![e] = [t \in Types |-> Kept(e, t, what)]]
  /\ delegateCount' = [delegateCount EXCEPT ![e] =
       [t \in Types |-> @[t] - Len(Delegates(e, t, what))]]
  /\ listening' = [listening EXCEPT ![e] =
       {t \in @ : ~(Kept(e, t, what) = << >> /\ bound[e][t] # << >>)}]

remove(e, what) ==
  /\ Acts
  /\ Detach(e, what)
  /\ todo' = Rest
  /\ UNCHANGED triggered

------------------------------------------------------------------------------
(* trigger and dispatch. *)

\* An event on its way from its target to the root; queue holds the handlers
\* collected at the element it has reached, in groups by element.
Event(t, e, kind, native) ==
  [op |-> "event", type |-> t, target |-> e, at |-> e, kind |-> kind, native |-> native,
   queue |-> << >>, stopped |-> FALSE, prevented |-> FALSE]

trigger(e, t, kind) ==
  /\ Acts
  /\ todo' = <<Event(BindType(t), e, kind, FALSE)>> \o Rest
  /\ UNCHANGED <<bindings, triggered>>

\* The user acts, and the browser fires the event.
UserActs(e, t) ==
  /\ todo = << >>
  /\ todo' = <<Event(t, e, "all", TRUE)>>
  /\ UNCHANGED <<bindings, triggered>>

Wanted(obj, kind) ==
  CASE kind = "all" -> TRUE [] kind = "namespace" -> obj.ns [] kind = "exclusive" -> ~obj.ns

\* dispatch collects what will run: the delegated handlers when the event
\* came from element 1 below, then those of the element itself.
HandlerQueue(event) ==
  LET e == event.at
      all == bound[e][event.type]
      count == delegateCount[e][event.type]
      wanted(s) == SelectSeq(s, LAMBDA obj : Wanted(obj, event.kind))
      delegated == IF event.target = 1 /\ e > 1 THEN SubSeq(all, 1, count) ELSE << >>
  IN  SelectSeq(<<wanted(delegated), wanted(SubSeq(all, count + 1, Len(all)))>>,
                LAMBDA group : group # << >>)

\* The listener of an element discards the second event of a trigger.
Dispatches(event) == event.type \in listening[event.at] /\ triggered # event.type

\* The event reaches the next element.
Climb ==
  /\ Running("event") /\ Top.queue = << >> /\ Top.at <= N /\ ~Top.stopped
  /\ todo' = <<[Top EXCEPT !.queue = IF Dispatches(Top) THEN HandlerQueue(Top) ELSE << >>,
                           !.at = @ + 1]>> \o Tail(todo)
  /\ UNCHANGED <<bindings, triggered>>

Ended == Running("event") /\ Top.queue = << >> /\ (Top.at > N \/ Top.stopped)

\* trigger calls the native method unless a handler has prevented it, and
\* the browser fires its events; the one already triggered is discarded.
Default ==
  /\ Ended /\ ~Top.native /\ ~Top.prevented /\ NativeEvents(Top.type) # << >>
  /\ Len(todo) < MaxDepth
  /\ triggered' = Top.type
  /\ LET types == NativeEvents(Top.type)
     IN  todo' = [i \in DOMAIN types |-> Event(types[i], Top.target, "all", TRUE)]
                 \o <<[op |-> "native", type |-> Top.type]>> \o Tail(todo)
  /\ UNCHANGED bindings

DefaultDone ==
  /\ Running("native")
  /\ triggered' = "undefined"
  /\ todo' = Tail(todo)
  /\ UNCHANGED bindings

\* Otherwise nothing follows a triggered event, and the browser's own
\* default action follows an event of the user.
NoDefault ==
  /\ Ended
  /\ Top.native \/ Top.prevented \/ NativeEvents(Top.type) = << >> \/ Len(todo) >= MaxDepth
  /\ LET byUser == Len(todo) = 1 /\ Top.native /\ ~Top.prevented
         next == IF byUser /\ Top.type = "click" THEN <<Event("change", Top.target, "all", TRUE)>>
                 ELSE << >>
     IN  todo' = next \o Tail(todo)
  /\ UNCHANGED <<bindings, triggered>>

\* The next handler runs; one bound by one() first unbinds itself.
Next1 == Head(Head(Top.queue))
RunHandler ==
  /\ Running("event") /\ Top.queue # << >>
  /\ IF Next1.one
     THEN Detach(Top.at - 1, [types |-> {Next1.origType}, handlers |-> {Next1.handler},
                              ns |-> Next1.ns, selector |-> Next1.selector])
     ELSE UNCHANGED bindings
  /\ todo' = <<[op |-> "handler", obj |-> Next1, acted |-> FALSE],
               [Top EXCEPT !.queue[1] = Tail(@)]>> \o Tail(todo)
  /\ UNCHANGED triggered

\* A handler returns nothing, returns false (the event is stopped and its
\* default prevented), or has stopped the event at once.  Without the last,
\* the other handlers of its group still run.
HandlerReturns(how) ==
  /\ Running("handler")
  /\ LET event == todo[2]
         stopped == event.stopped \/ how # "nothing"
         queue == CASE how = "immediate" -> << >>
                    [] how # "immediate" /\ event.queue[1] # << >> -> event.queue
                    [] how # "immediate" /\ event.queue[1] = << >> /\ stopped -> << >>
                    [] OTHER -> Tail(event.queue)
     IN  todo' = <<[event EXCEPT !.stopped = stopped, !.queue = queue,
                                 !.prevented = @ \/ how = "false"]>>
                 \o SubSeq(todo, 3, Len(todo))
  /\ UNCHANGED <<bindings, triggered>>

Next ==
  \/ \E e \in Elems, obj \in HandleObj : add(e, obj)
  \/ \E e \in Elems, what \in What : remove(e, what)
  \/ \E e \in Elems, t \in OrigTypes, kind \in Kinds : trigger(e, t, kind)
  \/ \E e \in Elems, t \in Types : UserActs(e, t)
  \/ Climb
  \/ Default
  \/ DefaultDone
  \/ NoDefault
  \/ RunHandler
  \/ \E how \in {"nothing", "false", "immediate"} : HandlerReturns(how)

Spec == Init /\ [][Next]_vars

------------------------------------------------------------------------------
TypeOK ==
  /\ \A e \in Elems, t \in Types : bound[e][t] \in Seq(HandleObj)
  /\ delegateCount \in [Elems -> [Types -> Nat]]
  /\ listening \in [Elems -> SUBSET Types]
  /\ triggered \in Types \cup {"undefined"}
  /\ \A i \in DOMAIN todo : todo[i].op \in {"event", "native", "handler"}

\* However handlers are bound and unbound, also from inside handlers, the
\* first delegateCount handlers of a list are its delegated ones and no others
\* ("Add to the element's handler list, delegates in front").
DelegatesFirst ==
  \A e \in Elems, t \in Types : \A i \in DOMAIN bound[e][t] :
    bound[e][t][i].selector <=> i <= delegateCount[e][t]

\* An element has a native listener for exactly the types with a handler.
ListenersMatch ==
  \A e \in Elems : listening[e] = {t \in Types : bound[e][t] # << >>}

\* The native event of a trigger runs no handler a second time: while the
\* native method of a trigger runs, also when handlers of the events that
\* follow it trigger others, no handler runs for its own event.
OncePerTrigger ==
  \A i, j \in DOMAIN todo :
    (i + 1 < j /\ todo[i].op = "handler" /\ todo[j].op = "native")
      => LET event == todo[i + 1] IN
         ~(event.native /\ event.type = todo[j].type
           /\ \A k \in (i + 2)..(j - 1) : todo[k].op = "event")

\* What is triggered is dispatched: no event of another trigger than the one
\* whose native method runs is discarded.  "Discard the second event of a
\* jQuery.event.trigger()" (jquery.js:2672) names only that one.
NoneDiscarded ==
  Running("event") /\ ~Top.native /\ Top.at <= N /\ ~Top.stopped
    => (Top.type \in listening[Top.at] => Dispatches(Top))
==============================================================================

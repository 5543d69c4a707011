------------------------------- MODULE MCJQuery -------------------------------
(***************************************************************************)
(* The modules of jQuery (page/flot/jquery.js), checked side by side.  No  *)
(* variable of one is read by another: a behaviour of this specification   *)
(* is one of them, and part says of which.  DomReady has its variables to  *)
(* itself, which keep one value in other parts; the other modules share v1 *)
(* to v11, and what a module leaves over is unused.                        *)
(***************************************************************************)
EXTENDS DomReady, FiniteSets

VARIABLES part, v1, v2, v3, v4, v5, v6, v7, v8, v9, v10, v11

slots == <<v1, v2, v3, v4, v5, v6, v7, v8, v9, v10, v11>>
libraryVars == <<vars, part, slots>>

\* A module of n variables uses v1 to vn: the others keep one value.
Unused == "unused"
Uses(n) ==
  /\ IF n < 4 THEN v1 = Unused /\ v2 = Unused /\ v3 = Unused /\ v4 = Unused ELSE TRUE
  /\ IF n < 5 THEN v5 = Unused ELSE TRUE
  /\ IF n < 6 THEN v6 = Unused ELSE TRUE
  /\ IF n < 7 THEN v7 = Unused ELSE TRUE
  /\ IF n < 9 THEN v8 = Unused /\ v9 = Unused ELSE TRUE
  /\ IF n < 10 THEN v10 = Unused ELSE TRUE
  /\ IF n < 11 THEN v11 = Unused ELSE TRUE
Keeps(n) ==
  /\ UNCHANGED <<part, vars>>
  /\ IF n < 5 THEN UNCHANGED v5 ELSE TRUE
  /\ IF n < 6 THEN UNCHANGED v6 ELSE TRUE
  /\ IF n < 7 THEN UNCHANGED v7 ELSE TRUE
  /\ IF n < 9 THEN UNCHANGED <<v8, v9>> ELSE TRUE
  /\ IF n < 10 THEN UNCHANGED v10 ELSE TRUE
  /\ IF n < 11 THEN UNCHANGED v11 ELSE TRUE

NoDocument ==
  /\ Init
  /\ browser = "standard" /\ document = [state |-> "loading", body |-> FALSE, told |-> {}]

------------------------------------------------------------------------------
(* Two functions in lists of all kinds, which call every method of the list  *)
(* while they run; lists whose functions throw and empty them; a deferred    *)
(* with then, and a when of two.                                             *)

AllOptions == SUBSET {"once", "memory", "unique", "stopOnFalse"}
List(unruly) == INSTANCE Callbacks WITH
  Fns <- {"f", "g"}, Data <- {"d1", "d2"}, NoData <- "none",
  OptionSets <- AllOptions, Unruly <- unruly, MaxList <- 3, MaxStack <- 1,
  L <- v1, pc <- v2, due <- v3, last <- v4

Deferred(handlers) == INSTANCE Deferreds WITH
  Values <- {<<1>>}, Handlers <- handlers, MaxNotify <- IF handlers = {} THEN 1 ELSE 0,
  lists <- v1, state <- v2, todo <- v3, remaining <- v4, progressValues <- v5,
  resolveValues <- v6, notified <- v7, given <- v8, calls <- v9, adopted <- v10

------------------------------------------------------------------------------
(* Up to three animations of one element or of two; a page that also clears  *)
(* queues.                                                                   *)

Animation(elements, clears) == INSTANCE Animations WITH
  Elements <- elements,
  Effects <- IF elements = {1} THEN {"show", "hide", "toggle", "delay"} ELSE {"toggle", "delay"},
  Durations <- {0, 2}, MaxAnims <- IF elements = {1} /\ ~clears THEN 3 ELSE 2,
  Liberties <- IF clears THEN {"clear"} ELSE {},
  queue <- v1, delay <- v2, timeouts <- v3, promise <- v4, anim <- v5, timers <- v6,
  timerId <- v7, height <- v8, shown <- v9, fxshow <- v10, todo <- v11

------------------------------------------------------------------------------
(* Handlers on two elements, of native events that follow each other; on one,*)
(* of two types that share a list.                                           *)

Clicks == INSTANCE Events WITH
  N <- 2, Handlers <- {"h"}, OrigTypes <- {"click", "change"}, Kinds <- {"all"},
  MaxBound <- 1, MaxDepth <- 6,
  bound <- v1, delegateCount <- v2, listening <- v3, triggered <- v4, todo <- v5

Hovers == INSTANCE Events WITH
  N <- 1, Handlers <- {"h"}, OrigTypes <- {"mouseover", "mouseenter"},
  Kinds <- {"all", "namespace", "exclusive"}, MaxBound <- 3, MaxDepth <- 2,
  bound <- v1, delegateCount <- v2, listening <- v3, triggered <- v4, todo <- v5

------------------------------------------------------------------------------
(* Data in two spellings for two elements and clones; handlers and queues.   *)

Spellings == INSTANCE ElementData WITH
  N <- 3, Values <- {1, 2}, ObjectNames <- {"fooBar"}, Attribute <- 3, EventTypes <- {},
  Special <- {}, MaxQueues <- 0, MaxSteps <- 5,
  store <- v1, parent <- v2, attr <- v3, last <- v4, did <- v5, steps <- v6

Cloning == INSTANCE ElementData WITH
  N <- 3, Values <- {1}, ObjectNames <- {}, Attribute <- 0, EventTypes <- {"click", "mouseenter"},
  Special <- {"mouseenter"}, MaxQueues <- 1, MaxSteps <- 5,
  store <- v1, parent <- v2, attr <- v3, last <- v4, did <- v5, steps <- v6

------------------------------------------------------------------------------
(* Three requests, two with global events; with one that is not asynchronous *)
(* and callbacks that throw.                                                *)

Request(unruly) == INSTANCE Ajax WITH
  Requests <- {1, 2, 3}, Global <- {1, 2}, Sync <- IF unruly THEN {2} ELSE {}, Timed <- {1, 3},
  SendAborts <- FALSE, CallbacksThrow <- unruly, MaxDepth <- 5,
  state <- v1, transport <- v2, timer <- v3, wire <- v4, outcome <- v5, ended <- v6,
  active <- v7, fireGlobals <- v8, idle <- v9, todo <- v10

Conversion == INSTANCE AjaxConvert WITH
  Known <- {"xml", "html", "json", "script"},
  Asked <- {<<"*">>, <<"json">>, <<"script", "json">>, <<"*", "json">>, <<"json", "json">>,
            <<"text", "own">>, <<"own">>, <<"xml", "own">>, <<"html", "json">>},
  Own <- {{}, {<<"script", "json">>}, {<<"json", "own">>}, {<<"json", "own">>, <<"own", "json">>},
          {<<"html", "own">>}},
  converters <- v1, responses <- v2, dataTypes <- v3, i <- v4, prev <- v5, got <- v6, result <- v7

\* Names that are made up, for scripts that may run late; one name for all,
\* one after the other.
Padded(fixed) == INSTANCE Jsonp WITH
  Requests <- IF fixed THEN 1..4 ELSE 1..3, FixedName <- fixed, Overlaps <- ~fixed,
  LateRuns <- ~fixed, MayNotCall <- fixed, MaxName <- 3,
  window <- v1, oldCallbacks <- v2, nonce <- v3, name <- v4, overwritten <- v5, container <- v6,
  phase <- v7, script <- v8, delivered <- v9

------------------------------------------------------------------------------
LibraryInit ==
  \/ part = "ready" /\ Init /\ Uses(0)
  \/ NoDocument /\ part = "list" /\ List({})!Init /\ Uses(4)
  \/ NoDocument /\ part = "unruly list" /\ List({"throw", "empty"})!Init /\ Uses(4)
  \/ NoDocument /\ part = "deferred" /\ Deferred({"h"})!Init /\ Uses(10)
  \/ NoDocument /\ part = "notified" /\ Deferred({})!Init /\ Uses(10)
  \/ NoDocument /\ part = "one element" /\ Animation({1}, FALSE)!AnimationsInit /\ Uses(11)
  \/ NoDocument /\ part = "two elements" /\ Animation({1, 2}, FALSE)!AnimationsInit /\ Uses(11)
  \/ NoDocument /\ part = "cleared queue" /\ Animation({1}, TRUE)!AnimationsInit /\ Uses(11)
  \/ NoDocument /\ part = "clicks" /\ Clicks!Init /\ Uses(5)
  \/ NoDocument /\ part = "hovers" /\ Hovers!Init /\ Uses(5)
  \/ NoDocument /\ part = "data" /\ Spellings!Init /\ Uses(6)
  \/ NoDocument /\ part = "clones" /\ Cloning!Init /\ Uses(6)
  \/ NoDocument /\ part = "requests" /\ Request(FALSE)!Init /\ Uses(10)
  \/ NoDocument /\ part = "unruly requests" /\ Request(TRUE)!Init /\ Uses(10)
  \/ NoDocument /\ part = "conversion" /\ Conversion!Init /\ Uses(7)
  \/ NoDocument /\ part = "made up names" /\ Padded(FALSE)!JsonpInit /\ Uses(9)
  \/ NoDocument /\ part = "one name" /\ Padded(TRUE)!JsonpInit /\ Uses(9)

LibraryNext ==
  \/ part = "ready" /\ Next /\ UNCHANGED <<part, slots>>
  \/ part = "list" /\ List({})!Next /\ Keeps(4)
  \/ part = "unruly list" /\ List({"throw", "empty"})!Next /\ Keeps(4)
  \/ part = "deferred" /\ Deferred({"h"})!Next /\ Keeps(10)
  \/ part = "notified" /\ Deferred({})!Next /\ Keeps(10)
  \/ part = "one element" /\ Animation({1}, FALSE)!AnimationsNext /\ Keeps(11)
  \/ part = "two elements" /\ Animation({1, 2}, FALSE)!AnimationsNext /\ Keeps(11)
  \/ part = "cleared queue" /\ Animation({1}, TRUE)!AnimationsNext /\ Keeps(11)
  \/ part = "clicks" /\ Clicks!Next /\ Keeps(5)
  \/ part = "hovers" /\ Hovers!Next /\ Keeps(5)
  \/ part = "data" /\ Spellings!Next /\ Keeps(6)
  \/ part = "clones" /\ Cloning!Next /\ Keeps(6)
  \/ part = "requests" /\ Request(FALSE)!Next /\ Keeps(10)
  \/ part = "unruly requests" /\ Request(TRUE)!Next /\ Keeps(10)
  \/ part = "conversion" /\ Conversion!Next /\ Keeps(7)
  \/ part = "made up names" /\ Padded(FALSE)!JsonpNext /\ Keeps(9)
  \/ part = "one name" /\ Padded(TRUE)!JsonpNext /\ Keeps(9)

LibrarySpec == LibraryInit /\ [][LibraryNext]_libraryVars

ASSUME LibraryAssumption ==
  /\ List({})!DataAssumption /\ List({})!OptionsAssumption
  /\ Animation({1}, FALSE)!DurationsAssumption
  /\ Spellings!DataAssumption
  /\ Request(FALSE)!RequestsAssumption /\ Request(TRUE)!RequestsAssumption
  /\ Padded(FALSE)!NamesAssumption /\ Padded(TRUE)!NamesAssumption

------------------------------------------------------------------------------
(* Properties, with WhenReady of DomReady: their parts are stated and         *)
(* explained in the modules.                                                  *)

\* Callbacks are called: a batch calls those that are in the list, in order,
\* whatever they add, remove and fire; a list with memory leaves none behind,
\* one that fires once shows one value; a deferred calls each handler it was
\* given once, and then and when end as their parts do.
CallbacksCalled ==
  /\ part = "list" =>
       /\ List({})!TypeOK /\ List({})!BatchExact /\ List({})!OnceOnly
       /\ List({})!MemorySeen /\ List({})!NothingWaits
  /\ part = "unruly list" => List({"throw", "empty"})!OnceOnly
  /\ part = "deferred" =>
       Deferred({"h"})!TypeOK /\ Deferred({"h"})!HandlersCalled /\ Deferred({"h"})!WhenAll /\ Deferred({"h"})!ThenFollows
  /\ part = "notified" => Deferred({})!WhenAll /\ Deferred({})!ThenFollows

\* Animations of an element follow each other: one at a time, each with its
\* timer and none without, and when none was broken off the element has its own
\* height again.
AnimationsFollow ==
  /\ part = "one element" =>
       /\ Animation({1}, FALSE)!AnimationsTypeOK /\ Animation({1}, FALSE)!OneAtATime /\ Animation({1}, FALSE)!QueueMoves /\ Animation({1}, FALSE)!TimersMatch
       /\ Animation({1}, FALSE)!NoZombie /\ Animation({1}, FALSE)!HeightRestored
  /\ part = "two elements" =>
       /\ Animation({1, 2}, FALSE)!AnimationsTypeOK /\ Animation({1, 2}, FALSE)!OneAtATime
       /\ Animation({1, 2}, FALSE)!QueueMoves /\ Animation({1, 2}, FALSE)!TimersMatch
       /\ Animation({1, 2}, FALSE)!NoZombie /\ Animation({1, 2}, FALSE)!HeightRestored
  /\ part = "cleared queue" => Animation({1}, TRUE)!TimersMatch /\ Animation({1}, TRUE)!NoZombie

\* Handlers and data stay with their element: it listens for what it has
\* handlers for, a trigger runs none twice, delegated ones come first; and what
\* is read for it is what was set, with nothing left of what is taken out.
HandlersAndDataKept ==
  /\ [](/\ part = "clicks" => Clicks!TypeOK /\ Clicks!ListenersMatch /\ Clicks!OncePerTrigger
        /\ part = "hovers" => Hovers!TypeOK /\ Hovers!ListenersMatch /\ Hovers!DelegatesFirst
        /\ part = "data" => Spellings!ReadBack
        /\ part = "clones" => Cloning!OwnEntry /\ Cloning!Listening)
  /\ [][part = "clones" => Cloning!NothingLeft]_libraryVars

\* A request ends once, leaves nothing behind and is counted until then; its
\* data are converted to what was asked for; and with a script tag it is given
\* its own answer and the window what it had.
RequestsEndOnce ==
  /\ part = "requests" => Request(FALSE)!EachEndsOnce
  /\ part = "unruly requests" => Request(TRUE)!EachEndsOnce
  /\ part = "conversion" => Conversion!PrevIsReal /\ Conversion!AskedFor /\ Conversion!Exhaustive
  /\ part = "made up names" => Padded(FALSE)!NamesApart /\ Padded(FALSE)!OwnAnswer /\ Padded(FALSE)!WindowRestored
  /\ part = "one name" => Padded(TRUE)!WindowRestored
==============================================================================

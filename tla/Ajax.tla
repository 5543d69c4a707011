--------------------------------- MODULE Ajax ---------------------------------
(***************************************************************************)
(* The life of the requests of jQuery.ajax over XMLHttpRequest             *)
(* (page/flot/jquery.js): options and prefilters, the events around a      *)
(* request, sending, the answer, the time-out and abort, and done, which   *)
(* tells everybody and counts the requests that are active.                *)
(*                                                                         *)
(* todo is the JavaScript stack.  Wherever the code calls functions of the *)
(* page (prefilters, beforeSend, handlers of the global events, callbacks) *)
(* these may do one thing: start a request or abort one they were given.   *)
(* Headers, urls and conversions are left out (AjaxConvert has the last).     *)
(***************************************************************************)
EXTENDS Integers, Sequences, FiniteSetTheorems, TLAPS

CONSTANTS
  Requests,       \* the requests the page may make
  Global,         \* those with the option global
  Sync,           \* those without the option async
  Timed,          \* those with a time-out
  SendAborts,     \* handlers of ajaxSend may abort the request
  CallbacksThrow, \* callbacks may throw
  MaxDepth        \* bound: length of the stack

RequestsAssumption ==
  /\ Global \subseteq Requests /\ Sync \subseteq Requests /\ Timed \subseteq Requests
  /\ SendAborts \in BOOLEAN /\ CallbacksThrow \in BOOLEAN

VARIABLES
  state,          \* "new", then the variable state of the closure: 0, 1, 2
  transport,      \* requests with a transport
  timer,          \* requests whose time-out is pending
  wire,           \* requests the browser has sent and not answered
  outcome,        \* "none", "success" or "error": what the deferred says
  ended,          \* how many times done went through
  active,         \* jQuery.active
  fireGlobals,    \* requests whose global events are dispatched
  idle,           \* the page has seen ajaxStop, or no ajaxStart
  todo

vars == <<state, transport, timer, wire, outcome, ended, active, fireGlobals, idle, todo>>

Init ==
  /\ state = [r \in Requests |-> "new"]
  /\ transport = {} /\ timer = {} /\ wire = {}
  /\ outcome = [r \in Requests |-> "none"]
  /\ ended = [r \in Requests |-> 0]
  /\ active = 0 /\ fireGlobals = {} /\ idle = TRUE /\ todo = << >>

Top == Head(todo)
Below == IF todo = << >> THEN << >> ELSE Tail(todo)
At(op, at) == IF todo = << >> THEN FALSE ELSE Top.op = op /\ Top.at = at

\* A step of a function on the stack; the functions of the page it calls may
\* act once.
Frame(op, r, at) == <<[op |-> op, r |-> r, at |-> at, acted |-> FALSE]>>

PageCalled == {<<"ajax", "prefilter">>, <<"ajax", "ajaxStart">>, <<"ajax", "beforeSend">>,
               <<"ajax", "ajaxSend">>, <<"done", "deferred">>, <<"done", "event">>,
               <<"done", "complete">>, <<"done", "ajaxComplete">>, <<"done", "ajaxStop">>}

Acts == IF todo = << >> THEN TRUE
        ELSE <<Top.op, Top.at>> \in PageCalled /\ ~Top.acted /\ Len(todo) < MaxDepth
Acted == IF todo = << >> THEN << >> ELSE <<[Top EXCEPT !.acted = TRUE]>> \o Below

------------------------------------------------------------------------------
(* done. *)

\* The time-out is cleared and the transport forgotten, the deferred is
\* resolved or rejected (for good), and the callbacks and events follow,
\* before what was on the stack goes on.
Complete(r, ok, rest) ==
  /\ state' = [state EXCEPT ![r] = "2"]
  /\ timer' = timer \ {r} /\ transport' = transport \ {r}
  /\ outcome' = [outcome EXCEPT ![r] = IF @ # "none" THEN @ ELSE IF ok THEN "success" ELSE "error"]
  /\ ended' = [ended EXCEPT ![r] = @ + 1]
  /\ todo' = Frame("done", r, "deferred") \o rest

\* Mutant: done does not ask whether it has run.
doneAgain(r, ok, rest) == Complete(r, ok, rest)

\* Called once.
done(r, ok, rest) ==
  IF state[r] = "2" THEN todo' = rest /\ UNCHANGED <<state, timer, transport, outcome, ended>>
  ELSE Complete(r, ok, rest)

\* What follows in done.
Following(at, global, last) ==
  CASE at = "deferred" -> IF global THEN "event" ELSE "complete"
    [] at = "event" -> "complete"
    [] at = "complete" -> IF global THEN "ajaxComplete" ELSE "end"
    [] at = "ajaxComplete" -> IF last THEN "ajaxStop" ELSE "end"
    [] at = "ajaxStop" -> "end"

StepDone ==
  /\ todo # << >> /\ Top.op = "done"
  /\ LET r == Top.r
         counts == Top.at = "ajaxComplete"
         next == Following(Top.at, r \in fireGlobals, active = 1)
     IN  /\ active' = IF counts THEN active - 1 ELSE active
         /\ idle' = (idle \/ next = "ajaxStop")
         /\ todo' = IF next = "end" THEN Below ELSE Frame("done", r, next) \o Below
  /\ UNCHANGED <<state, transport, timer, wire, outcome, ended, fireGlobals>>

------------------------------------------------------------------------------
(* ajax. *)

ajax(r) ==
  /\ Acts /\ state[r] = "new"
  /\ state' = [state EXCEPT ![r] = "0"]
  /\ todo' = Frame("ajax", r, "prefilter") \o Acted
  /\ UNCHANGED <<transport, timer, wire, outcome, ended, active, fireGlobals, idle>>

\* Mutant: the counter is raised before the prefilters may stop the request.
PrefilteredCounted ==
  /\ At("ajax", "prefilter")
  /\ LET r == Top.r
         starts == r \in Global
     IN  /\ fireGlobals' = IF starts THEN fireGlobals \cup {r} ELSE fireGlobals
         /\ active' = IF starts THEN active + 1 ELSE active
         /\ idle' = (idle /\ ~(starts /\ active = 0))
         /\ todo' = IF state[r] = "2" THEN Below
                    ELSE Frame("ajax", r, IF starts /\ active = 0 THEN "ajaxStart" ELSE "beforeSend")
                         \o Below
  /\ UNCHANGED <<state, transport, timer, wire, outcome, ended>>

\* After the prefilters: a request aborted by one of them stops here; global
\* events are fired from now on, ajaxStart for the first of a set.
Prefiltered ==
  /\ At("ajax", "prefilter")
  /\ LET r == Top.r
         starts == state[r] # "2" /\ r \in Global
     IN  /\ fireGlobals' = IF starts THEN fireGlobals \cup {r} ELSE fireGlobals
         /\ active' = IF starts THEN active + 1 ELSE active
         /\ idle' = (idle /\ ~(starts /\ active = 0))
         /\ todo' = IF state[r] = "2" THEN Below
                    ELSE Frame("ajax", r, IF starts /\ active = 0 THEN "ajaxStart" ELSE "beforeSend")
                         \o Below
  /\ UNCHANGED <<state, transport, timer, wire, outcome, ended>>

Started ==
  /\ At("ajax", "ajaxStart")
  /\ todo' = Frame("ajax", Top.r, "beforeSend") \o Below
  /\ UNCHANGED <<state, transport, timer, wire, outcome, ended, active, fireGlobals, idle>>

\* beforeSend returns false, or has aborted the request.
Cancelled ==
  /\ At("ajax", "beforeSend")
  /\ done(Top.r, FALSE, Below)
  /\ UNCHANGED <<wire, active, fireGlobals, idle>>

NoTransport ==
  /\ At("ajax", "beforeSend") /\ state[Top.r] # "2"
  /\ done(Top.r, FALSE, Below)
  /\ UNCHANGED <<wire, active, fireGlobals, idle>>

Accepted ==
  /\ At("ajax", "beforeSend") /\ state[Top.r] # "2"
  /\ transport' = transport \cup {Top.r}
  /\ todo' = Frame("ajax", Top.r, IF Top.r \in fireGlobals THEN "ajaxSend" ELSE "send") \o Below
  /\ UNCHANGED <<state, timer, wire, outcome, ended, active, fireGlobals, idle>>

Sends == At("ajax", "ajaxSend") \/ At("ajax", "send")

\* Sending throws: the browser refuses, or handlers of ajaxSend have aborted
\* the request and the transport is gone.  By then the state is 1 again, so
\* done goes through.
SendThrows ==
  /\ Sends
  /\ Complete(Top.r, FALSE, Below)
  /\ UNCHANGED <<wire, active, fireGlobals, idle>>

SendAsync ==
  /\ Sends /\ Top.r \in transport /\ Top.r \notin Sync
  /\ state' = [state EXCEPT ![Top.r] = "1"]
  /\ timer' = IF Top.r \in Timed THEN timer \cup {Top.r} ELSE timer
  /\ wire' = wire \cup {Top.r}
  /\ todo' = Below
  /\ UNCHANGED <<transport, outcome, ended, active, fireGlobals, idle>>

\* Without async the answer is there when send returns.
SendSync(ok) ==
  /\ Sends /\ Top.r \in transport /\ Top.r \in Sync
  /\ Complete(Top.r, ok, Below)
  /\ UNCHANGED <<wire, active, fireGlobals, idle>>

------------------------------------------------------------------------------
(* The answer, the time-out, and abort. *)

\* The browser has the answer; done is called with it.
Answer(r, ok) ==
  /\ todo = << >> /\ r \in wire
  /\ wire' = wire \ {r}
  /\ done(r, ok, << >>)
  /\ UNCHANGED <<active, fireGlobals, idle>>

\* Reading the answer throws: complete(-1) first, and then complete again
\* with what was read.
AnswerThrows(r) ==
  /\ todo = << >> /\ r \in wire
  /\ wire' = wire \ {r}
  /\ done(r, FALSE, Frame("complete", r, "again"))
  /\ UNCHANGED <<active, fireGlobals, idle>>

CompleteAgain ==
  /\ At("complete", "again")
  /\ done(Top.r, TRUE, Below)
  /\ UNCHANGED <<wire, active, fireGlobals, idle>>

\* abort tells the transport, which aborts the request and does not call
\* back, and calls done.
Aborted(r, rest) ==
  /\ wire' = IF r \in transport THEN wire \ {r} ELSE wire
  /\ done(r, FALSE, rest)

TimesOut(r) ==
  /\ todo = << >> /\ r \in timer
  /\ Aborted(r, << >>)
  /\ UNCHANGED <<active, fireGlobals, idle>>

\* The page has the jqXHR of a request from the call that returned it, or
\* from the function that is called with it.
Given(r) ==
  /\ state[r] # "new"
  /\ \A i \in DOMAIN todo : (todo[i].op = "ajax" /\ todo[i].r = r)
       => (i = 1 /\ (todo[i].at \in {"prefilter", "beforeSend"}
                    \/ (SendAborts /\ todo[i].at = "ajaxSend")))

abort(r) ==
  /\ Acts /\ Given(r)
  /\ Aborted(r, Acted)
  /\ UNCHANGED <<active, fireGlobals, idle>>

\* A function of the page throws, through everything on the stack.
Throws ==
  /\ CallbacksThrow /\ todo # << >> /\ <<Top.op, Top.at>> \in PageCalled
  /\ todo' = << >>
  /\ UNCHANGED <<state, transport, timer, wire, outcome, ended, active, fireGlobals, idle>>

Internal ==
  \/ StepDone \/ Prefiltered \/ Started \/ Cancelled \/ NoTransport \/ Accepted
  \/ SendThrows \/ SendAsync \/ (\E ok \in BOOLEAN : SendSync(ok)) \/ CompleteAgain

Next ==
  \/ Internal
  \/ \E r \in Requests : ajax(r) \/ abort(r) \/ TimesOut(r) \/ AnswerThrows(r)
  \/ \E r \in Requests, ok \in BOOLEAN : Answer(r, ok)
  \/ Throws

Spec == Init /\ [][Next]_vars

------------------------------------------------------------------------------
TypeOK ==
  /\ state \in [Requests -> {"new", "0", "1", "2"}]
  /\ transport \subseteq Requests /\ timer \subseteq Requests /\ wire \subseteq Requests
  /\ outcome \in [Requests -> {"none", "success", "error"}]
  /\ active \in Nat /\ fireGlobals \subseteq Global /\ idle \in BOOLEAN

\* "Called once": whatever answers, times out and aborts, and from wherever,
\* done goes through once per request.
OnceDone == \A r \in Requests : ended[r] <= 1

\* Outside of all functions, active is the number of requests under way whose
\* events are global ("Counter for holding the number of active queries").
ActiveCounts ==
  todo = << >> => active = Cardinality({r \in fireGlobals : state[r] # "2"})

\* ajaxStart and ajaxStop tell the page when there are such requests, also
\* when callbacks and their handlers start and abort others.
PageKnowsIdle == todo = << >> => (idle <=> {r \in fireGlobals : state[r] # "2"} = {})

\* Nothing of a request that has ended is left: it is not with the browser and
\* no time-out waits.
NothingLeft == todo = << >> => \A r \in Requests : state[r] = "2" => r \notin wire \cup timer

\* All of this; a callback that throws in done leaves its request counted, as
\* done has no try around what it calls.
EachEndsOnce ==
  /\ TypeOK /\ OnceDone /\ NothingLeft
  /\ ~CallbacksThrow => ActiveCounts /\ PageKnowsIdle

------------------------------------------------------------------------------
(* Proof of these for any requests and stacks of any length, where handlers  *)
(* of ajaxSend do not abort the request that is sent.  What is on the stack  *)
(* is bound to the state of its request.                                     *)

Entries ==
  [op : {"ajax"}, r : Requests, acted : BOOLEAN,
   at : {"prefilter", "ajaxStart", "beforeSend", "ajaxSend", "send"}]
  \cup [op : {"done"}, r : Requests, acted : BOOLEAN,
        at : {"deferred", "event", "complete", "ajaxComplete", "ajaxStop"}]
  \cup [op : {"complete"}, r : Requests, acted : BOOLEAN, at : {"again"}]

\* A request that is being sent cannot end meanwhile, unless its own prefilters
\* or beforeSend abort it; what runs in done is for one that has ended.
Fits(f, st, fg) ==
  /\ f.op = "ajax" =>
       /\ st[f.r] \in {"0", "2"}
       /\ f.at \notin {"prefilter", "beforeSend"} => st[f.r] = "0"
       /\ f.at = "prefilter" => f.r \notin fg
  /\ f.op = "done" =>
       /\ st[f.r] = "2"
       /\ f.at \in {"event", "ajaxComplete", "ajaxStop"} => f.r \in fg
  /\ f.op = "complete" => st[f.r] = "2"

\* Of each request, ajax and done are on the stack once at most.
Apart(f, g) == f.op = g.op /\ f.op \in {"ajax", "done"} => f.r # g.r

StackOK(s, st, fg) ==
  /\ s \in Seq(Entries)
  /\ \A i \in 1..Len(s) : Fits(s[i], st, fg)
  /\ \A i, j \in 1..Len(s) : i # j => Apart(s[i], s[j])

\* Requests that are counted: those that have not ended, and those whose done
\* has not come to the counter.
EndsCounted(f, q) ==
  f.op = "done" /\ f.r = q /\ f.at \in {"deferred", "event", "complete", "ajaxComplete"}
Ending(s, q) == \E i \in 1..Len(s) : EndsCounted(s[i], q)
Counted(s, st, fg) == {q \in fg : st[q] # "2" \/ Ending(s, q)}

EndedOnce == ended = [r \in Requests |-> IF state[r] = "2" THEN 1 ELSE 0]

UnderWay ==
  /\ \A r \in wire \cup timer : state[r] = "1"
  /\ \A r \in Requests : state[r] = "1" => r \in transport
  /\ \A r \in fireGlobals : state[r] # "new"

\* A callback that throws may leave a request counted for ever, but none is
\* forgotten.
CounterOK ==
  /\ IsFiniteSet(fireGlobals)
  /\ Cardinality(Counted(todo, state, fireGlobals)) <= active
  /\ ~CallbacksThrow => active = Cardinality(Counted(todo, state, fireGlobals))
  /\ idle <=> active = 0

IInv ==
  /\ RequestsAssumption /\ ~SendAborts
  /\ TypeOK /\ EndedOnce /\ UnderWay /\ StackOK(todo, state, fireGlobals) /\ CounterOK

------------------------------------------------------------------------------
(* The stack. *)

LEMMA TopAndBelow ==
  ASSUME NEW s \in Seq(Entries), s # << >>
  PROVE  /\ Head(s) \in Entries /\ Tail(s) \in Seq(Entries)
         /\ Len(s) \in Nat /\ Len(s) >= 1 /\ Len(Tail(s)) = Len(s) - 1 /\ s[1] = Head(s)
         /\ \A i \in 1..Len(Tail(s)) : Tail(s)[i] = s[i + 1]
OBVIOUS

LEMMA Put ==
  ASSUME NEW s \in Seq(Entries), NEW f \in Entries
  PROVE  LET t == <<f>> \o s IN
         /\ t \in Seq(Entries) /\ t # << >> /\ Len(s) \in Nat /\ Len(t) = Len(s) + 1 /\ t[1] = f
         /\ \A i \in 1..Len(s) : t[i + 1] = s[i]
         /\ \A i \in 2..Len(t) : i - 1 \in 1..Len(s) /\ t[i] = s[i - 1]
OBVIOUS

LEMMA StackBelow ==
  ASSUME NEW st, NEW fg, NEW s, StackOK(s, st, fg), s # << >>
  PROVE  /\ StackOK(Tail(s), st, fg) /\ Head(s) \in Entries /\ Fits(Head(s), st, fg)
         /\ \A i \in 1..Len(Tail(s)) : Apart(Head(s), Tail(s)[i])
<1>1. s \in Seq(Entries)
  BY DEF StackOK
<1> DEFINE t == Tail(s)
<1>2. /\ Head(s) \in Entries /\ t \in Seq(Entries)
      /\ Len(s) \in Nat /\ Len(s) >= 1 /\ Len(t) = Len(s) - 1 /\ s[1] = Head(s)
      /\ \A i \in 1..Len(t) : t[i] = s[i + 1]
  BY <1>1, TopAndBelow
<1> HIDE DEF t
<1>3. \A i \in 1..Len(t) : i + 1 \in 1..Len(s) /\ i + 1 # 1 /\ 1 \in 1..Len(s)
  BY <1>2
<1>4. \A i \in 1..Len(t) : Fits(t[i], st, fg) /\ Apart(s[1], t[i])
  BY <1>2, <1>3 DEF StackOK
<1>5. \A i, j \in 1..Len(t) : i # j => i + 1 # j + 1
  BY <1>2
<1>6. \A i, j \in 1..Len(t) : i # j => Apart(t[i], t[j])
  BY <1>2, <1>3, <1>5 DEF StackOK
<1>7. Fits(Head(s), st, fg)
  BY <1>2 DEF StackOK
<1> QED
  BY <1>2, <1>4, <1>6, <1>7 DEF StackOK, t

LEMMA StackPut ==
  ASSUME NEW st, NEW fg, NEW s, StackOK(s, st, fg), NEW f \in Entries, Fits(f, st, fg),
         \A i \in 1..Len(s) : Apart(f, s[i])
  PROVE  StackOK(<<f>> \o s, st, fg)
<1> DEFINE t == <<f>> \o s
<1>1. /\ t \in Seq(Entries) /\ Len(s) \in Nat /\ Len(t) = Len(s) + 1 /\ t[1] = f
      /\ \A i \in 2..Len(t) : i - 1 \in 1..Len(s) /\ t[i] = s[i - 1]
  BY Put DEF StackOK
<1> HIDE DEF t
<1>2. \A i \in 1..Len(t) : i = 1 \/ i \in 2..Len(t)
  BY <1>1
<1>3. \A i \in 1..Len(t) : Fits(t[i], st, fg)
  BY <1>1, <1>2 DEF StackOK
<1>4. ASSUME NEW i \in 1..Len(t), NEW j \in 1..Len(t), i # j PROVE Apart(t[i], t[j])
  <2>1. CASE i = 1
    BY <1>1, <1>2, <1>4, <2>1
  <2>2. CASE j = 1
    BY <1>1, <1>2, <1>4, <2>2 DEF Apart
  <2>3. CASE i \in 2..Len(t) /\ j \in 2..Len(t)
    <3>1. i - 1 # j - 1
      BY <1>4, <2>3
    <3> QED
      BY <1>1, <2>3, <3>1 DEF StackOK
  <2> QED
    BY <1>2, <2>1, <2>2, <2>3
<1> QED
  BY <1>1, <1>3, <1>4 DEF StackOK, t

LEMMA EndingPut ==
  ASSUME NEW s \in Seq(Entries), NEW f \in Entries, NEW q
  PROVE  Ending(<<f>> \o s, q) <=> EndsCounted(f, q) \/ Ending(s, q)
<1> DEFINE t == <<f>> \o s
<1>1. /\ Len(s) \in Nat /\ Len(t) = Len(s) + 1 /\ t[1] = f
      /\ \A i \in 1..Len(s) : t[i + 1] = s[i]
      /\ \A i \in 2..Len(t) : i - 1 \in 1..Len(s) /\ t[i] = s[i - 1]
  BY Put
<1> HIDE DEF t
<1>2. \A i \in 1..Len(t) : i = 1 \/ i \in 2..Len(t)
  BY <1>1
<1>3. 1 \in 1..Len(t) /\ \A i \in 1..Len(s) : i + 1 \in 1..Len(t)
  BY <1>1
<1>4. Ending(t, q) => EndsCounted(f, q) \/ Ending(s, q)
  BY <1>1, <1>2 DEF Ending
<1>5. EndsCounted(f, q) \/ Ending(s, q) => Ending(t, q)
  BY <1>1, <1>3 DEF Ending
<1> QED
  BY <1>4, <1>5 DEF t

LEMMA EndingBelow ==
  ASSUME NEW s \in Seq(Entries), s # << >>, NEW q
  PROVE  Ending(s, q) <=> EndsCounted(Head(s), q) \/ Ending(Tail(s), q)
<1>1. s = <<Head(s)>> \o Tail(s)
  OBVIOUS
<1>2. Head(s) \in Entries /\ Tail(s) \in Seq(Entries)
  BY TopAndBelow
<1> QED
  BY <1>1, <1>2, EndingPut

LEMMA NothingEnding == \A q : ~Ending(<< >>, q)
BY DEF Ending

LEMMA EmptyStack == ASSUME NEW st, NEW fg PROVE StackOK(<< >>, st, fg)
BY DEF StackOK

\* The entry below acts; it stays what it is.
LEMMA ActedStack ==
  ASSUME NEW st, NEW fg, StackOK(todo, st, fg)
  PROVE  /\ StackOK(Acted, st, fg)
         /\ \A q : Ending(Acted, q) <=> Ending(todo, q)
         /\ todo = << >> => Acted = << >>
         /\ todo # << >> =>
              /\ Len(Acted) = Len(todo)
              /\ \A i \in 1..Len(todo) : Acted[i].op = todo[i].op /\ Acted[i].r = todo[i].r
                                         /\ Acted[i].at = todo[i].at
<1>1. CASE todo = << >>
  BY <1>1 DEF Acted
<1>2. CASE todo # << >>
  <2> DEFINE f == [Head(todo) EXCEPT !.acted = TRUE]
             b == Tail(todo)
  <2>1. /\ StackOK(b, st, fg) /\ Head(todo) \in Entries /\ Fits(Head(todo), st, fg)
        /\ \A i \in 1..Len(b) : Apart(Head(todo), b[i])
    BY <1>2, StackBelow
  <2>2. f \in Entries /\ f.op = Head(todo).op /\ f.r = Head(todo).r /\ f.at = Head(todo).at
    BY <2>1 DEF Entries
  <2>3. Acted = <<f>> \o b
    BY <1>2 DEF Acted, Top, Below
  <2>4. todo \in Seq(Entries) /\ b \in Seq(Entries)
    BY <2>1 DEF StackOK
  <2>5. /\ Len(todo) \in Nat /\ Len(b) = Len(todo) - 1 /\ todo[1] = Head(todo)
        /\ \A i \in 1..Len(b) : b[i] = todo[i + 1]
    BY <1>2, <2>4, TopAndBelow
  <2>6. Fits(f, st, fg) /\ \A i \in 1..Len(b) : Apart(f, b[i])
    BY <2>1, <2>2 DEF Fits, Apart
  <2>7. \A q : EndsCounted(f, q) <=> EndsCounted(Head(todo), q)
    BY <2>2 DEF EndsCounted
  <2> HIDE DEF f, b
  <2>8. StackOK(Acted, st, fg)
    BY <2>1, <2>2, <2>3, <2>6, StackPut
  <2>9. \A q : Ending(Acted, q) <=> Ending(todo, q)
    BY <1>2, <2>2, <2>3, <2>4, <2>7, EndingPut, EndingBelow DEF b
  <2>10. /\ Len(Acted) = Len(b) + 1 /\ Acted[1] = f
         /\ \A i \in 2..Len(Acted) : i - 1 \in 1..Len(b) /\ Acted[i] = b[i - 1]
    BY <2>2, <2>3, <2>4, Put
  <2>11. ASSUME NEW i \in 1..Len(todo)
         PROVE  Acted[i].op = todo[i].op /\ Acted[i].r = todo[i].r /\ Acted[i].at = todo[i].at
    <3>1. CASE i = 1
      BY <2>2, <2>5, <2>10, <3>1
    <3>2. CASE i # 1
      <4>1. i \in 2..Len(Acted) /\ i - 1 \in 1..Len(b) /\ (i - 1) + 1 = i
        BY <2>5, <2>10, <3>2
      <4> QED
        BY <2>5, <2>10, <4>1
    <3> QED
      BY <3>1, <3>2
  <2> QED
    BY <1>2, <2>5, <2>8, <2>9, <2>10, <2>11
<1> QED
  BY <1>1, <1>2

\* A request of which only the prefilters or beforeSend run may end.
NotSending(s, r) ==
  \A i \in 1..Len(s) : s[i].op = "ajax" /\ s[i].r = r => s[i].at \in {"prefilter", "beforeSend"}

\* Once it is sent it is only in done, or on the stack from before.
LEMMA EndedElsewhere ==
  ASSUME NEW st, NEW fg, NEW s, StackOK(s, st, fg), NEW r \in Requests, st[r] # "0"
  PROVE  NotSending(s, r)
BY DEF NotSending, StackOK, Fits

LEMMA StackEnds ==
  ASSUME NEW st \in [Requests -> {"new", "0", "1", "2"}], NEW fg, NEW s, StackOK(s, st, fg),
         NEW r \in Requests, st[r] # "2", NotSending(s, r)
  PROVE  StackOK(Frame("done", r, "deferred") \o s, [st EXCEPT ![r] = "2"], fg)
<1> DEFINE st2 == [st EXCEPT ![r] = "2"]
           f == [op |-> "done", r |-> r, at |-> "deferred", acted |-> FALSE]
<1>1. f \in Entries
  BY DEF Entries
<1>2. Fits(f, st2, fg)
  BY DEF Fits
<1>3. ASSUME NEW i \in 1..Len(s) PROVE Fits(s[i], st2, fg) /\ Apart(f, s[i])
  <2>1. Fits(s[i], st, fg) /\ s[i] \in Entries /\ s[i].r \in Requests
    BY DEF StackOK, Entries
  <2>2. s[i].r # r => st2[s[i].r] = st[s[i].r]
    BY <2>1
  <2>3. s[i].r = r => st2[s[i].r] = "2"
    BY <2>1
  <2>4. s[i].op = "done" => s[i].r # r
    BY <2>1 DEF Fits
  <2>5. s[i].op = "ajax" /\ s[i].r = r => s[i].at \in {"prefilter", "beforeSend"}
    BY DEF NotSending
  <2> QED
    BY <2>1, <2>2, <2>3, <2>4, <2>5 DEF Fits, Apart
<1>4. StackOK(s, st2, fg)
  BY <1>3 DEF StackOK
<1> HIDE DEF st2, f
<1>5. StackOK(<<f>> \o s, st2, fg)
  BY <1>1, <1>2, <1>3, <1>4, StackPut
<1> QED
  BY <1>5 DEF Frame, st2, f

------------------------------------------------------------------------------
(* The steps.  Whatever ends a request goes through done: it is counted until *)
(* done comes to the counter.                                                 *)

LEMMA CompleteStep ==
  ASSUME IInv, NEW r \in Requests, NEW ok \in BOOLEAN, NEW rest \in Seq(Entries),
         StackOK(Frame("done", r, "deferred") \o rest, [state EXCEPT ![r] = "2"], fireGlobals),
         \A q : Ending(rest, q) <=> Ending(todo, q),
         state[r] \in {"0", "1"}, Complete(r, ok, rest),
         wire' \subseteq wire \ {r}, UNCHANGED <<active, fireGlobals, idle>>
  PROVE  IInv'
<1> USE DEF Complete
<1>1. /\ state \in [Requests -> {"new", "0", "1", "2"}] /\ state' = [state EXCEPT ![r] = "2"]
      /\ \A q \in Requests : state'[q] = IF q = r THEN "2" ELSE state[q]
  BY DEF IInv, TypeOK
<1>2. TypeOK'
  BY <1>1 DEF IInv, TypeOK
<1>3. EndedOnce'
  <2>1. ended[r] = 0
    BY DEF IInv, EndedOnce
  <2>2. ended' = [ended EXCEPT ![r] = 1]
    BY <2>1
  <2> QED
    BY <1>1, <2>2 DEF IInv, EndedOnce
<1>4. UnderWay'
  BY <1>1 DEF IInv, UnderWay, TypeOK
<1>5. StackOK(todo', state', fireGlobals')
  BY <1>1
<1>6. Counted(todo', state', fireGlobals') = Counted(todo, state, fireGlobals)
  <2> DEFINE f == [op |-> "done", r |-> r, at |-> "deferred", acted |-> FALSE]
  <2>1. f \in Entries /\ rest \in Seq(Entries) /\ todo' = <<f>> \o rest
    BY DEF Entries, StackOK, Frame
  <2>2. \A q : EndsCounted(f, q) <=> q = r
    BY DEF EndsCounted
  <2> HIDE DEF f
  <2>3. \A q : Ending(todo', q) <=> q = r \/ Ending(todo, q)
    <3>1. ASSUME NEW q PROVE Ending(todo', q) <=> q = r \/ Ending(todo, q)
      <4>1. Ending(<<f>> \o rest, q) <=> EndsCounted(f, q) \/ Ending(rest, q)
        BY <2>1, EndingPut
      <4> QED
        BY <2>1, <2>2, <4>1
    <3> QED
      BY <3>1
  <2>4. fireGlobals' = fireGlobals /\ fireGlobals \subseteq Requests
    BY DEF TypeOK, IInv, RequestsAssumption
  <2>5. \A q \in fireGlobals : (state'[q] # "2" \/ Ending(todo', q)) <=> (state[q] # "2" \/ Ending(todo, q))
    BY <1>1, <2>3, <2>4
  <2> QED
    BY <2>4, <2>5 DEF Counted
<1>7. CounterOK'
  BY <1>6 DEF IInv, CounterOK
<1> QED
  BY <1>2, <1>3, <1>4, <1>5, <1>7 DEF IInv

LEMMA DoneStep ==
  ASSUME IInv, NEW r \in Requests, NEW ok \in BOOLEAN, NEW rest,
         StackOK(rest, state, fireGlobals), NotSending(rest, r),
         \A q : Ending(rest, q) <=> Ending(todo, q),
         state[r] # "new", done(r, ok, rest),
         wire' \subseteq wire \ {r}, UNCHANGED <<active, fireGlobals, idle>>
  PROVE  IInv'
<1>1. CASE state[r] = "2"
  <2>1. todo' = rest /\ UNCHANGED <<state, timer, transport, outcome, ended>>
    BY <1>1 DEF done
  <2>2. TypeOK' /\ EndedOnce'
    BY <2>1 DEF IInv, TypeOK, EndedOnce
  <2>3. UnderWay'
    BY <2>1 DEF IInv, UnderWay
  <2>4. StackOK(todo', state', fireGlobals')
    BY <2>1
  <2>5. Counted(todo', state', fireGlobals') = Counted(todo, state, fireGlobals)
    BY <2>1 DEF Counted
  <2>6. CounterOK'
    BY <2>5 DEF IInv, CounterOK
  <2> QED
    BY <2>2, <2>3, <2>4, <2>6 DEF IInv
<1>2. CASE state[r] # "2"
  <2>1. state[r] \in {"0", "1"}
    BY <1>2 DEF IInv, TypeOK
  <2>2. Complete(r, ok, rest)
    BY <1>2 DEF done
  <2>3. rest \in Seq(Entries)
    BY DEF StackOK
  <2>4. StackOK(Frame("done", r, "deferred") \o rest, [state EXCEPT ![r] = "2"], fireGlobals)
    BY <1>2, StackEnds DEF IInv, TypeOK
  <2> QED
    BY <2>1, <2>2, <2>3, <2>4, CompleteStep
<1> QED
  BY <1>1, <1>2

\* What is on top and what below.
LEMMA OnTop ==
  ASSUME IInv, NEW op, NEW at, At(op, at)
  PROVE  /\ todo # << >> /\ Top = Head(todo) /\ Below = Tail(todo) /\ Top \in Entries
         /\ Top.op = op /\ Top.at = at /\ Top.r \in Requests
         /\ todo \in Seq(Entries) /\ Below \in Seq(Entries)
         /\ StackOK(Below, state, fireGlobals) /\ Fits(Top, state, fireGlobals)
         /\ \A i \in 1..Len(Below) : Apart(Top, Below[i])
         /\ \A q : Ending(todo, q) <=> EndsCounted(Top, q) \/ Ending(Below, q)
<1>1. todo # << >> /\ Top = Head(todo) /\ Below = Tail(todo) /\ Top.op = op /\ Top.at = at
  BY DEF At, Top, Below
<1>2. /\ StackOK(Below, state, fireGlobals) /\ Top \in Entries /\ Fits(Top, state, fireGlobals)
      /\ \A i \in 1..Len(Below) : Apart(Top, Below[i])
  BY <1>1, StackBelow DEF IInv
<1>3. todo \in Seq(Entries) /\ Below \in Seq(Entries)
  BY <1>2 DEF IInv, StackOK
<1>4. ASSUME NEW q PROVE Ending(todo, q) <=> EndsCounted(Top, q) \/ Ending(Below, q)
  BY <1>1, <1>3, EndingBelow
<1>5. Top.r \in Requests
  BY <1>2 DEF Entries
<1> QED
  BY <1>1, <1>2, <1>3, <1>4, <1>5

\* With the frame of ajax taken off, nothing keeps its request from ending.
LEMMA AjaxOnTop ==
  ASSUME IInv, NEW at, At("ajax", at)
  PROVE  /\ state[Top.r] \in {"0", "2"} /\ (at \notin {"prefilter", "beforeSend"} => state[Top.r] = "0")
         /\ (at = "prefilter" => Top.r \notin fireGlobals)
         /\ NotSending(Below, Top.r)
         /\ \A q : Ending(Below, q) <=> Ending(todo, q)
         /\ \A i \in 1..Len(Below) : Below[i].op = "ajax" => Below[i].r # Top.r
         /\ Top.r \notin wire \cup timer
<1>1. Top.op = "ajax" /\ Top.at = at /\ Fits(Top, state, fireGlobals)
  BY OnTop
<1>2. \A i \in 1..Len(Below) : Below[i].op = "ajax" => Below[i].r # Top.r
  BY <1>1, OnTop DEF Apart
<1>3. \A q : ~EndsCounted(Top, q)
  BY <1>1 DEF EndsCounted
<1>4. \A q : Ending(Below, q) <=> Ending(todo, q)
  BY <1>3, OnTop
<1>5. state[Top.r] \in {"0", "2"} /\ Top.r \notin wire \cup timer
  BY <1>1 DEF Fits, IInv, UnderWay
<1> QED
  BY <1>1, <1>2, <1>4, <1>5 DEF Fits, NotSending

LEMMA CancelledStep == IInv /\ (Cancelled \/ NoTransport) => IInv'
<1> SUFFICES ASSUME IInv, Cancelled \/ NoTransport PROVE IInv'
  OBVIOUS
<1>1. /\ At("ajax", "beforeSend") /\ done(Top.r, FALSE, Below)
      /\ UNCHANGED <<wire, active, fireGlobals, idle>>
  BY DEF Cancelled, NoTransport
<1>2. Top.r \in Requests /\ StackOK(Below, state, fireGlobals)
  BY <1>1, OnTop
<1>3. /\ NotSending(Below, Top.r) /\ state[Top.r] # "new" /\ Top.r \notin wire
      /\ \A q : Ending(Below, q) <=> Ending(todo, q)
  BY <1>1, AjaxOnTop
<1> QED
  BY <1>1, <1>2, <1>3, DoneStep

LEMMA SendEndsStep ==
  ASSUME IInv, SendThrows \/ \E ok \in BOOLEAN : SendSync(ok)
  PROVE  IInv'
<1>1. PICK ok \in BOOLEAN : Sends /\ Complete(Top.r, ok, Below) /\ UNCHANGED <<wire, active, fireGlobals, idle>>
  BY DEF SendThrows, SendSync
<1>2. PICK at \in {"ajaxSend", "send"} : At("ajax", at)
  BY <1>1 DEF Sends
<1>3. Top.r \in Requests /\ StackOK(Below, state, fireGlobals)
  BY <1>2, OnTop
<1>4. /\ NotSending(Below, Top.r) /\ state[Top.r] = "0" /\ Top.r \notin wire
      /\ \A q : Ending(Below, q) <=> Ending(todo, q)
  BY <1>2, AjaxOnTop
<1>5. done(Top.r, ok, Below)
  BY <1>1, <1>4 DEF done
<1> QED
  BY <1>1, <1>3, <1>4, <1>5, DoneStep

LEMMA CompleteAgainStep == ASSUME IInv, CompleteAgain PROVE IInv'
<1>1. /\ At("complete", "again") /\ done(Top.r, TRUE, Below)
      /\ UNCHANGED <<wire, active, fireGlobals, idle>>
  BY DEF CompleteAgain
<1>2. /\ Top.r \in Requests /\ StackOK(Below, state, fireGlobals) /\ Fits(Top, state, fireGlobals)
      /\ Top.op = "complete" /\ \A q : Ending(todo, q) <=> EndsCounted(Top, q) \/ Ending(Below, q)
  BY <1>1, OnTop
<1>3. state[Top.r] = "2"
  BY <1>2 DEF Fits
<1>4. NotSending(Below, Top.r) /\ Top.r \notin wire
  BY <1>2, <1>3, EndedElsewhere DEF IInv, UnderWay
<1>5. \A q : Ending(Below, q) <=> Ending(todo, q)
  BY <1>2 DEF EndsCounted
<1> QED
  BY <1>1, <1>2, <1>3, <1>4, <1>5, DoneStep

LEMMA AnswerStep ==
  ASSUME IInv, NEW r \in Requests, NEW ok \in BOOLEAN, Answer(r, ok)
  PROVE  IInv'
<1>1. /\ todo = << >> /\ r \in wire /\ wire' = wire \ {r} /\ done(r, ok, << >>)
      /\ UNCHANGED <<active, fireGlobals, idle>>
  BY DEF Answer
<1>2. state[r] = "1" /\ StackOK(<< >>, state, fireGlobals)
  BY <1>1 DEF IInv, UnderWay
<1>3. NotSending(<< >>, r) /\ \A q : Ending(<< >>, q) <=> Ending(todo, q)
  BY <1>1, <1>2, EndedElsewhere
<1> QED
  BY <1>1, <1>2, <1>3, DoneStep

LEMMA AnswerThrowsStep ==
  ASSUME IInv, NEW r \in Requests, AnswerThrows(r)
  PROVE  IInv'
<1> DEFINE f == [op |-> "done", r |-> r, at |-> "deferred", acted |-> FALSE]
           g == [op |-> "complete", r |-> r, at |-> "again", acted |-> FALSE]
           st2 == [state EXCEPT ![r] = "2"]
<1>1. /\ todo = << >> /\ r \in wire /\ wire' = wire \ {r} /\ done(r, FALSE, <<g>>)
      /\ UNCHANGED <<active, fireGlobals, idle>>
  BY DEF AnswerThrows, Frame
<1>2. state[r] = "1" /\ st2[r] = "2"
  BY <1>1 DEF IInv, UnderWay, TypeOK
<1>3. Complete(r, FALSE, <<g>>)
  BY <1>1, <1>2 DEF done
<1>4. f \in Entries /\ g \in Entries /\ Fits(f, st2, fireGlobals) /\ Fits(g, st2, fireGlobals) /\ Apart(f, g)
  BY <1>2 DEF Entries, Fits, Apart
<1>5. \A q : ~EndsCounted(g, q)
  BY DEF EndsCounted
<1>6. Frame("done", r, "deferred") = <<f>>
  BY DEF Frame
<1> HIDE DEF f, g, st2
<1>7. <<g>> = <<g>> \o << >> /\ << >> \in Seq(Entries)
  BY <1>4
<1>8. StackOK(<<g>>, st2, fireGlobals)
  <2>1. StackOK(<<g>> \o << >>, st2, fireGlobals)
    <3>1. StackOK(<< >>, st2, fireGlobals) /\ \A i \in 1..Len(<< >>) : Apart(g, << >>[i])
      BY EmptyStack
    <3> QED
      BY <1>4, <3>1, StackPut
  <2> QED
    BY <1>7, <2>1
<1>9. StackOK(<<f>> \o <<g>>, st2, fireGlobals)
  <2>1. \A i \in 1..Len(<<g>>) : <<g>>[i] = g
    OBVIOUS
  <2> QED
    BY <1>4, <1>8, <2>1, StackPut
<1>10. \A q : Ending(<<g>>, q) <=> Ending(todo, q)
  <2>1. ASSUME NEW q PROVE ~Ending(<<g>>, q)
    <3>1. Ending(<<g>> \o << >>, q) <=> EndsCounted(g, q) \/ Ending(<< >>, q)
      BY <1>4, <1>7, EndingPut
    <3> QED
      BY <1>5, <1>7, <3>1, NothingEnding
  <2> QED
    BY <1>1, <2>1, NothingEnding
<1> QED
  <2>1. StackOK(Frame("done", r, "deferred") \o <<g>>, [state EXCEPT ![r] = "2"], fireGlobals)
    BY <1>6, <1>9 DEF st2
  <2>2. <<g>> \in Seq(Entries) /\ wire' \subseteq wire \ {r} /\ state[r] \in {"0", "1"}
    BY <1>1, <1>2, <1>4
  <2> QED
    BY <1>1, <1>3, <1>10, <2>1, <2>2, CompleteStep

\* With what the transport had, nothing waits for the request any more.
LEMMA AbortedOffWire ==
  ASSUME IInv, NEW r \in Requests, NEW rest, Aborted(r, rest)
  PROVE  wire' \subseteq wire \ {r} /\ done(r, FALSE, rest)
<1>1. r \in wire => r \in transport
  BY DEF IInv, UnderWay
<1> QED
  BY <1>1 DEF Aborted

LEMMA TimesOutStep ==
  ASSUME IInv, NEW r \in Requests, TimesOut(r)
  PROVE  IInv'
<1>1. /\ todo = << >> /\ r \in timer /\ Aborted(r, << >>)
      /\ UNCHANGED <<active, fireGlobals, idle>>
  BY DEF TimesOut
<1>2. state[r] = "1" /\ StackOK(<< >>, state, fireGlobals)
  BY <1>1 DEF IInv, UnderWay
<1>3. NotSending(<< >>, r) /\ \A q : Ending(<< >>, q) <=> Ending(todo, q)
  BY <1>1, <1>2, EndedElsewhere
<1> QED
  BY <1>1, <1>2, <1>3, AbortedOffWire, DoneStep

LEMMA AbortStep ==
  ASSUME IInv, NEW r \in Requests, abort(r)
  PROVE  IInv'
<1>1. Aborted(r, Acted) /\ Given(r) /\ UNCHANGED <<active, fireGlobals, idle>>
  BY DEF abort
<1>2. state[r] # "new" /\ StackOK(todo, state, fireGlobals) /\ ~SendAborts
  BY <1>1 DEF IInv, Given
<1>3. /\ StackOK(Acted, state, fireGlobals)
      /\ \A q : Ending(Acted, q) <=> Ending(todo, q)
  BY <1>2, ActedStack
<1>4. NotSending(Acted, r)
  <2>1. CASE todo = << >>
    BY <1>2, <2>1, ActedStack DEF NotSending
  <2>2. CASE todo # << >>
    <3>1. \A i \in 1..Len(todo) : i \in DOMAIN todo
      BY <1>2 DEF StackOK
    <3>2. /\ Len(Acted) = Len(todo)
          /\ \A i \in 1..Len(todo) : Acted[i].op = todo[i].op /\ Acted[i].r = todo[i].r
                                     /\ Acted[i].at = todo[i].at
      BY <1>2, <2>2, ActedStack
    <3> QED
      BY <1>1, <1>2, <3>1, <3>2 DEF NotSending, Given
  <2> QED
    BY <2>1, <2>2
<1> QED
  BY <1>1, <1>2, <1>3, <1>4, AbortedOffWire, DoneStep

LEMMA StackStays ==
  ASSUME NEW st, NEW fg, NEW s, StackOK(s, st, fg), NEW st2, NEW fg2,
         \A i \in 1..Len(s) : s[i] \in Entries /\ Fits(s[i], st, fg) => Fits(s[i], st2, fg2)
  PROVE  StackOK(s, st2, fg2)
<1>1. \A i \in 1..Len(s) : s[i] \in Entries
  BY DEF StackOK
<1> QED
  BY <1>1 DEF StackOK

LEMMA AjaxEntry ==
  ASSUME NEW r \in Requests, NEW at \in {"prefilter", "ajaxStart", "beforeSend", "ajaxSend", "send"}
  PROVE  LET f == [op |-> "ajax", r |-> r, at |-> at, acted |-> FALSE] IN
         f \in Entries /\ Frame("ajax", r, at) = <<f>> /\ \A q : ~EndsCounted(f, q)
BY DEF Entries, Frame, EndsCounted

LEMMA AjaxStep ==
  ASSUME IInv, NEW r \in Requests, ajax(r)
  PROVE  IInv'
<1> DEFINE f == [op |-> "ajax", r |-> r, at |-> "prefilter", acted |-> FALSE]
           st2 == [state EXCEPT ![r] = "0"]
<1>1. /\ state[r] = "new" /\ state' = st2 /\ todo' = <<f>> \o Acted
      /\ UNCHANGED <<transport, timer, wire, outcome, ended, active, fireGlobals, idle>>
  BY DEF ajax, Frame
<1>2. /\ state \in [Requests -> {"new", "0", "1", "2"}]
      /\ \A q \in Requests : st2[q] = IF q = r THEN "0" ELSE state[q]
  BY DEF IInv, TypeOK
<1>3. r \notin fireGlobals /\ r \notin wire \cup timer
  BY <1>1 DEF IInv, UnderWay
<1>4. StackOK(Acted, state, fireGlobals) /\ \A q : Ending(Acted, q) <=> Ending(todo, q)
  BY ActedStack DEF IInv
<1>5. f \in Entries /\ \A q : ~EndsCounted(f, q)
  BY AjaxEntry
<1>6. Fits(f, st2, fireGlobals)
  BY <1>2, <1>3 DEF Fits
<1>7. ASSUME NEW e \in Entries, Fits(e, state, fireGlobals)
      PROVE  Fits(e, st2, fireGlobals) /\ Apart(f, e)
  <2>1. e.r \in Requests /\ e.op \in {"ajax", "done", "complete"}
    BY DEF Entries
  <2>2. e.r # r
    BY <1>1, <1>7, <2>1 DEF Fits
  <2>3. st2[e.r] = state[e.r]
    BY <1>2, <2>1, <2>2
  <2> QED
    BY <1>7, <2>2, <2>3 DEF Fits, Apart
<1> HIDE DEF f, st2
<1>8. StackOK(Acted, st2, fireGlobals) /\ \A i \in 1..Len(Acted) : Apart(f, Acted[i])
  <2>1. \A i \in 1..Len(Acted) : Acted[i] \in Entries /\ Fits(Acted[i], state, fireGlobals)
    BY <1>4 DEF StackOK
  <2> QED
    BY <1>4, <1>7, <2>1, StackStays
<1>9. StackOK(todo', state', fireGlobals')
  BY <1>1, <1>5, <1>6, <1>8, StackPut
<1>10. \A q : Ending(todo', q) <=> Ending(todo, q)
  <2>1. Acted \in Seq(Entries)
    BY <1>4 DEF StackOK
  <2>2. ASSUME NEW q PROVE Ending(todo', q) <=> Ending(todo, q)
    <3>1. Ending(<<f>> \o Acted, q) <=> EndsCounted(f, q) \/ Ending(Acted, q)
      BY <1>5, <2>1, EndingPut
    <3> QED
      BY <1>1, <1>4, <1>5, <3>1
  <2> QED
    BY <2>2
<1>11. Counted(todo', state', fireGlobals') = Counted(todo, state, fireGlobals)
  <2>1. \A q \in fireGlobals : state'[q] = state[q]
    BY <1>1, <1>2, <1>3 DEF IInv, TypeOK, RequestsAssumption
  <2> QED
    BY <1>1, <1>10, <2>1 DEF Counted
<1>12. TypeOK' /\ EndedOnce'
  <2>1. \A q \in Requests : state'[q] = "2" <=> state[q] = "2"
    BY <1>1, <1>2
  <2>2. TypeOK'
    BY <1>1, <1>2 DEF IInv, TypeOK, st2
  <2> QED
    BY <1>1, <2>1, <2>2 DEF IInv, EndedOnce
<1>13. UnderWay'
  BY <1>1, <1>2, <1>3 DEF IInv, UnderWay, TypeOK, RequestsAssumption
<1>14. CounterOK'
  BY <1>1, <1>11 DEF IInv, CounterOK
<1> QED
  BY <1>9, <1>12, <1>13, <1>14 DEF IInv

\* ajax goes on, with the same request on top.
LEMMA GoesOn ==
  ASSUME IInv, NEW at0, At("ajax", at0), NEW at \in {"beforeSend", "ajaxSend", "send"},
         state[Top.r] = "0", todo' = Frame("ajax", Top.r, at) \o Below,
         transport' \subseteq Requests, transport \subseteq transport',
         UNCHANGED <<state, timer, wire, outcome, ended, active, fireGlobals, idle>>
  PROVE  IInv'
<1> DEFINE f == [op |-> "ajax", r |-> Top.r, at |-> at, acted |-> FALSE]
<1>1. /\ Top.r \in Requests /\ StackOK(Below, state, fireGlobals) /\ Below \in Seq(Entries)
      /\ \A i \in 1..Len(Below) : Below[i].op = "ajax" => Below[i].r # Top.r
      /\ \A q : Ending(Below, q) <=> Ending(todo, q)
  BY OnTop, AjaxOnTop
<1>2. f \in Entries /\ Frame("ajax", Top.r, at) = <<f>> /\ \A q : ~EndsCounted(f, q)
  BY <1>1, AjaxEntry
<1>3. Fits(f, state, fireGlobals) /\ \A i \in 1..Len(Below) : Apart(f, Below[i])
  BY <1>1 DEF Fits, Apart
<1> HIDE DEF f
<1>4. StackOK(todo', state', fireGlobals')
  <2>1. StackOK(<<f>> \o Below, state, fireGlobals)
    BY <1>1, <1>2, <1>3, StackPut
  <2> QED
    BY <1>2, <2>1
<1>5. \A q : Ending(todo', q) <=> Ending(todo, q)
  <2>1. ASSUME NEW q PROVE Ending(<<f>> \o Below, q) <=> Ending(todo, q)
    <3>1. Ending(<<f>> \o Below, q) <=> EndsCounted(f, q) \/ Ending(Below, q)
      BY <1>1, <1>2, EndingPut
    <3> QED
      BY <1>1, <1>2, <3>1
  <2> QED
    BY <1>2, <2>1
<1>6. Counted(todo', state', fireGlobals') = Counted(todo, state, fireGlobals)
  BY <1>5 DEF Counted
<1>7. TypeOK' /\ EndedOnce' /\ UnderWay' /\ CounterOK'
  BY <1>6 DEF IInv, TypeOK, EndedOnce, UnderWay, CounterOK
<1> QED
  BY <1>4, <1>7 DEF IInv

LEMMA StartedStep == ASSUME IInv, Started PROVE IInv'
<1>1. /\ At("ajax", "ajaxStart") /\ todo' = Frame("ajax", Top.r, "beforeSend") \o Below
      /\ UNCHANGED <<state, transport, timer, wire, outcome, ended, active, fireGlobals, idle>>
  BY DEF Started
<1>2. state[Top.r] = "0" /\ transport \subseteq Requests
  BY <1>1, AjaxOnTop DEF IInv, TypeOK
<1> QED
  BY <1>1, <1>2, GoesOn

LEMMA AcceptedStep == ASSUME IInv, Accepted PROVE IInv'
<1>1. /\ At("ajax", "beforeSend") /\ state[Top.r] # "2"
      /\ transport' = transport \cup {Top.r}
      /\ UNCHANGED <<state, timer, wire, outcome, ended, active, fireGlobals, idle>>
  BY DEF Accepted
<1>2. PICK at \in {"ajaxSend", "send"} : todo' = Frame("ajax", Top.r, at) \o Below
  BY DEF Accepted
<1>3. state[Top.r] = "0" /\ Top.r \in Requests /\ transport \subseteq Requests
  BY <1>1, OnTop, AjaxOnTop DEF IInv, TypeOK
<1> QED
  BY <1>1, <1>2, <1>3, GoesOn

LEMMA SendAsyncStep == ASSUME IInv, SendAsync PROVE IInv'
<1> DEFINE r == Top.r
           st2 == [state EXCEPT ![r] = "1"]
<1>1. /\ r \in transport /\ state' = st2 /\ wire' = wire \cup {r} /\ todo' = Below
      /\ timer' \subseteq timer \cup {r}
      /\ UNCHANGED <<transport, outcome, ended, active, fireGlobals, idle>>
  BY DEF SendAsync
<1>2. PICK at \in {"ajaxSend", "send"} : At("ajax", at)
  BY DEF SendAsync, Sends
<1>3. /\ r \in Requests /\ state[r] = "0" /\ StackOK(Below, state, fireGlobals)
      /\ \A i \in 1..Len(Below) : Below[i].op = "ajax" => Below[i].r # r
      /\ \A q : Ending(Below, q) <=> Ending(todo, q)
  BY <1>2, OnTop, AjaxOnTop
<1>4. /\ state \in [Requests -> {"new", "0", "1", "2"}]
      /\ \A q \in Requests : st2[q] = IF q = r THEN "1" ELSE state[q]
  BY <1>3 DEF IInv, TypeOK
<1>5. ASSUME NEW i \in 1..Len(Below), Below[i] \in Entries, Fits(Below[i], state, fireGlobals)
      PROVE  Fits(Below[i], st2, fireGlobals)
  <2>1. Below[i].r \in Requests /\ Below[i].op \in {"ajax", "done", "complete"}
    BY <1>5 DEF Entries
  <2>2. Below[i].r # r
    BY <1>3, <1>5, <2>1 DEF Fits
  <2>3. st2[Below[i].r] = state[Below[i].r]
    BY <1>4, <2>1, <2>2
  <2> QED
    BY <1>5, <2>3 DEF Fits
<1> HIDE DEF st2, r
<1>6. StackOK(todo', state', fireGlobals')
  BY <1>1, <1>3, <1>5, StackStays
<1>7. \A q \in Requests : state'[q] = "2" <=> state[q] = "2"
  BY <1>1, <1>3, <1>4
<1>8. Counted(todo', state', fireGlobals') = Counted(todo, state, fireGlobals)
  BY <1>1, <1>3, <1>7 DEF Counted, IInv, TypeOK, RequestsAssumption
<1>9. TypeOK'
  BY <1>1, <1>3, <1>4 DEF IInv, TypeOK, st2
<1>10. EndedOnce'
  BY <1>1, <1>7 DEF IInv, EndedOnce
<1>11. UnderWay'
  BY <1>1, <1>3, <1>4 DEF IInv, UnderWay, TypeOK, RequestsAssumption
<1>12. CounterOK'
  BY <1>1, <1>8 DEF IInv, CounterOK
<1> QED
  BY <1>6, <1>9, <1>10, <1>11, <1>12 DEF IInv

\* The request is counted from here on, if it was not aborted and is global.
LEMMA PrefilteredStep == ASSUME IInv, Prefiltered PROVE IInv'
<1> DEFINE r == Top.r
           starts == state[r] # "2" /\ r \in Global
           fg2 == IF starts THEN fireGlobals \cup {r} ELSE fireGlobals
<1>1. /\ At("ajax", "prefilter") /\ fireGlobals' = fg2
      /\ active' = (IF starts THEN active + 1 ELSE active)
      /\ idle' = (idle /\ ~(starts /\ active = 0))
      /\ UNCHANGED <<state, transport, timer, wire, outcome, ended>>
  BY DEF Prefiltered
<1>2. /\ r \in Requests /\ StackOK(Below, state, fireGlobals) /\ Below \in Seq(Entries)
      /\ state[r] \in {"0", "2"} /\ r \notin fireGlobals
      /\ \A i \in 1..Len(Below) : Below[i].op = "ajax" => Below[i].r # r
      /\ \A q : Ending(Below, q) <=> Ending(todo, q)
  BY <1>1, OnTop, AjaxOnTop
<1>3. StackOK(Below, state, fg2)
  <2>1. ASSUME NEW i \in 1..Len(Below), Below[i] \in Entries, Fits(Below[i], state, fireGlobals)
        PROVE  Fits(Below[i], state, fg2)
    BY <1>2, <2>1 DEF Fits
  <2> QED
    BY <1>2, <2>1, StackStays
<1>4. /\ StackOK(todo', state, fg2)
      /\ \A q : Ending(todo', q) <=> Ending(todo, q)
  <2>1. CASE state[r] = "2"
    <3>1. todo' = Below
      BY <2>1 DEF Prefiltered
    <3> QED
      BY <1>2, <1>3, <3>1
  <2>2. CASE state[r] # "2"
    <3>1. PICK at \in {"ajaxStart", "beforeSend"} : todo' = Frame("ajax", r, at) \o Below
      BY <2>2 DEF Prefiltered
    <3> DEFINE f == [op |-> "ajax", r |-> r, at |-> at, acted |-> FALSE]
    <3>2. f \in Entries /\ Frame("ajax", r, at) = <<f>> /\ \A q : ~EndsCounted(f, q)
      BY <1>2, AjaxEntry
    <3>3. Fits(f, state, fg2) /\ \A i \in 1..Len(Below) : Apart(f, Below[i])
      BY <1>2, <2>2 DEF Fits, Apart
    <3> HIDE DEF f, fg2
    <3>4. StackOK(<<f>> \o Below, state, fg2)
      BY <1>3, <3>2, <3>3, StackPut
    <3>5. ASSUME NEW q PROVE Ending(<<f>> \o Below, q) <=> Ending(todo, q)
      <4>1. Ending(<<f>> \o Below, q) <=> EndsCounted(f, q) \/ Ending(Below, q)
        BY <1>2, <3>2, EndingPut
      <4> QED
        BY <1>2, <3>2, <4>1
    <3> QED
      BY <3>1, <3>2, <3>4, <3>5
  <2> QED
    BY <2>1, <2>2
<1>5. Counted(todo', state', fireGlobals') =
        IF starts THEN Counted(todo, state, fireGlobals) \cup {r} ELSE Counted(todo, state, fireGlobals)
  BY <1>1, <1>4 DEF Counted
<1>6. r \notin Counted(todo, state, fireGlobals) /\ IsFiniteSet(Counted(todo, state, fireGlobals))
  <2>1. Counted(todo, state, fireGlobals) \in SUBSET fireGlobals /\ IsFiniteSet(fireGlobals)
    BY DEF Counted, IInv, CounterOK
  <2> QED
    BY <1>2, <2>1, FS_Subset
<1>7. starts => Cardinality(Counted(todo', state', fireGlobals')) =
                  Cardinality(Counted(todo, state, fireGlobals)) + 1
  BY <1>5, <1>6, FS_AddElement
<1>8. active \in Nat /\ IsFiniteSet(fireGlobals) /\ Cardinality(Counted(todo, state, fireGlobals)) \in Nat
  BY <1>6, FS_CardinalityType DEF IInv, TypeOK, CounterOK
<1>9. IsFiniteSet(fireGlobals')
  BY <1>1, <1>8, FS_AddElement
<1> DEFINE n == Cardinality(Counted(todo, state, fireGlobals))
           n2 == Cardinality(Counted(todo', state', fireGlobals'))
<1>10. n \in Nat /\ n2 = (IF starts THEN n + 1 ELSE n) /\ n <= active /\ (~CallbacksThrow => active = n)
       /\ (idle <=> active = 0) /\ idle \in BOOLEAN /\ active' = (IF starts THEN active + 1 ELSE active)
       /\ idle' = (idle /\ ~(starts /\ active = 0))
  BY <1>1, <1>5, <1>7, <1>8 DEF IInv, CounterOK, TypeOK
<1>11. CounterOK'
  <2> HIDE DEF n, n2, starts
  <2>1. n2 <= active' /\ (~CallbacksThrow => active' = n2)
    BY <1>8, <1>10
  <2>2. idle' <=> active' = 0
    <3>1. active + 1 # 0
      BY <1>8
    <3>2. CASE starts
      BY <1>10, <3>1, <3>2, Zenon
    <3>3. CASE ~starts
      BY <1>10, <3>3, Zenon
    <3> QED
      BY <3>2, <3>3
  <2> QED
    BY <1>9, <2>1, <2>2 DEF CounterOK, n2
<1>12. TypeOK'
  BY <1>1, <1>8 DEF IInv, TypeOK
<1>13. UnderWay' /\ EndedOnce'
  BY <1>1, <1>2 DEF IInv, UnderWay, EndedOnce
<1> QED
  BY <1>1, <1>4, <1>11, <1>12, <1>13 DEF IInv

LEMMA DoneEntry ==
  ASSUME NEW r \in Requests, NEW at \in {"deferred", "event", "complete", "ajaxComplete", "ajaxStop"}
  PROVE  LET f == [op |-> "done", r |-> r, at |-> at, acted |-> FALSE] IN
         /\ f \in Entries /\ Frame("done", r, at) = <<f>>
         /\ \A q : EndsCounted(f, q) <=> q = r /\ at # "ajaxStop"
BY DEF Entries, Frame, EndsCounted

\* done, one stage on: the counter goes down where the request leaves those
\* that are counted.
LEMMA DoneStage ==
  ASSUME IInv, StepDone
  PROVE  /\ Top \in Entries /\ Top.r \in Requests /\ state[Top.r] = "2"
         /\ StackOK(todo', state, fireGlobals)
         /\ Top.at = "ajaxComplete" => Top.r \in fireGlobals /\ Ending(todo, Top.r)
         /\ \A q \in fireGlobals : Ending(todo', q) <=>
              Ending(todo, q) /\ (Top.at = "ajaxComplete" => q # Top.r)
<1> DEFINE r == Top.r
           next == Following(Top.at, r \in fireGlobals, active = 1)
<1>1. At("done", Top.at)
  BY DEF At, StepDone
<1>2. /\ Top \in Entries /\ Top.op = "done" /\ r \in Requests /\ Fits(Top, state, fireGlobals)
      /\ StackOK(Below, state, fireGlobals) /\ Below \in Seq(Entries)
      /\ \A i \in 1..Len(Below) : Apart(Top, Below[i])
      /\ \A q : Ending(todo, q) <=> EndsCounted(Top, q) \/ Ending(Below, q)
  BY <1>1, OnTop
<1>3. /\ state[r] = "2" /\ Top.at \in {"deferred", "event", "complete", "ajaxComplete", "ajaxStop"}
      /\ Top.at \in {"event", "ajaxComplete", "ajaxStop"} => r \in fireGlobals
      /\ \A q : EndsCounted(Top, q) <=> q = r /\ Top.at # "ajaxStop"
  BY <1>2 DEF Fits, Entries, EndsCounted
<1>4. todo' = IF next = "end" THEN Below ELSE Frame("done", r, next) \o Below
  BY DEF StepDone
<1>5. /\ next \in {"event", "complete", "ajaxComplete", "ajaxStop", "end"}
      /\ next \in {"event", "ajaxComplete", "ajaxStop"} => r \in fireGlobals
      /\ r \in fireGlobals => (next \in {"ajaxStop", "end"} <=> Top.at \in {"ajaxComplete", "ajaxStop"})
  BY <1>3 DEF Following
<1> HIDE DEF next
<1>6. ~Ending(Below, r)
  BY <1>2 DEF Ending, EndsCounted, Apart
<1>7. /\ StackOK(todo', state, fireGlobals)
      /\ \A q : Ending(todo', q) <=> (q = r /\ next \notin {"ajaxStop", "end"}) \/ Ending(Below, q)
  <2>1. CASE next = "end"
    BY <1>2, <1>4, <2>1
  <2>2. CASE next # "end"
    <3> DEFINE f == [op |-> "done", r |-> r, at |-> next, acted |-> FALSE]
    <3>1. /\ f \in Entries /\ Frame("done", r, next) = <<f>>
          /\ \A q : EndsCounted(f, q) <=> q = r /\ next # "ajaxStop"
      BY <1>2, <1>5, <2>2, DoneEntry
    <3>2. Fits(f, state, fireGlobals) /\ \A i \in 1..Len(Below) : Apart(f, Below[i])
      BY <1>2, <1>3, <1>5 DEF Fits, Apart
    <3> HIDE DEF f
    <3>3. StackOK(<<f>> \o Below, state, fireGlobals)
      BY <1>2, <3>1, <3>2, StackPut
    <3>4. ASSUME NEW q PROVE Ending(<<f>> \o Below, q) <=> (q = r /\ next # "ajaxStop") \/ Ending(Below, q)
      BY <1>2, <3>1, EndingPut
    <3> QED
      BY <1>4, <2>2, <3>1, <3>3, <3>4
  <2> QED
    BY <2>1, <2>2
<1>8. ASSUME NEW q \in fireGlobals
      PROVE  Ending(todo', q) <=> Ending(todo, q) /\ (Top.at = "ajaxComplete" => q # r)
  <2>1. CASE q # r
    BY <1>2, <1>3, <1>7, <2>1
  <2>2. CASE q = r
    BY <1>2, <1>3, <1>5, <1>6, <1>7, <1>8, <2>2
  <2> QED
    BY <2>1, <2>2
<1>9. Top.at = "ajaxComplete" => r \in fireGlobals /\ Ending(todo, r)
  BY <1>2, <1>3
<1> QED
  BY <1>2, <1>3, <1>7, <1>8, <1>9

LEMMA StepDoneStep == ASSUME IInv, StepDone PROVE IInv'
<1> DEFINE r == Top.r
           counts == Top.at = "ajaxComplete"
           last == active = 1
           C == Counted(todo, state, fireGlobals)
           C2 == Counted(todo', state', fireGlobals')
           n == Cardinality(C)
           n2 == Cardinality(C2)
<1>1. UNCHANGED <<state, transport, timer, wire, outcome, ended, fireGlobals>>
  BY DEF StepDone
<1>2. /\ Top \in Entries /\ r \in Requests /\ state[r] = "2" /\ StackOK(todo', state, fireGlobals)
      /\ counts => r \in fireGlobals /\ Ending(todo, r)
      /\ \A q \in fireGlobals : Ending(todo', q) <=> Ending(todo, q) /\ (counts => q # r)
  BY DoneStage
<1>3. C2 = IF counts THEN C \ {r} ELSE C
  BY <1>1, <1>2 DEF Counted
<1>4. counts => r \in C
  BY <1>2 DEF Counted
<1>5. IsFiniteSet(C)
  <2>1. C \in SUBSET fireGlobals /\ IsFiniteSet(fireGlobals)
    BY DEF Counted, IInv, CounterOK
  <2> QED
    BY <2>1, FS_Subset
<1>6. n \in Nat /\ n2 = IF counts THEN n - 1 ELSE n
  BY <1>3, <1>4, <1>5, FS_RemoveElement, FS_CardinalityType
<1>7. counts => n2 \in Nat
  BY <1>3, <1>5, FS_RemoveElement, FS_CardinalityType
<1>8. active' = IF counts THEN active - 1 ELSE active
  BY DEF StepDone
<1>9. idle' = (idle \/ (counts /\ last))
  BY <1>2 DEF StepDone, Following, Entries
<1>10. active \in Nat /\ n <= active /\ (~CallbacksThrow => active = n) /\ (idle <=> active = 0) /\ idle \in BOOLEAN
  BY DEF IInv, CounterOK, TypeOK
<1> HIDE DEF counts, n, n2
<1>11. active' \in Nat /\ n2 <= active' /\ (~CallbacksThrow => active' = n2)
  BY <1>6, <1>7, <1>8, <1>10
<1>12. idle' <=> active' = 0
  <2>1. CASE counts
    <3>1. active # 0 /\ (active - 1 = 0 <=> active = 1)
      BY <1>6, <1>7, <1>10, <2>1
    <3> QED
      BY <1>8, <1>9, <1>10, <2>1, <3>1, Zenon
  <2>2. CASE ~counts
    BY <1>8, <1>9, <1>10, <2>2, Zenon
  <2> QED
    BY <2>1, <2>2
<1>13. CounterOK'
  BY <1>1, <1>11, <1>12 DEF IInv, CounterOK, n2
<1>14. TypeOK'
  BY <1>1, <1>9, <1>11 DEF IInv, TypeOK
<1>15. EndedOnce' /\ UnderWay'
  BY <1>1 DEF IInv, EndedOnce, UnderWay
<1> QED
  BY <1>1, <1>2, <1>13, <1>14, <1>15 DEF IInv

LEMMA ThrowsStep == ASSUME IInv, Throws PROVE IInv'
<1> DEFINE C == Counted(todo, state, fireGlobals)
           C2 == Counted(todo', state', fireGlobals')
<1>1. /\ CallbacksThrow /\ todo' = << >>
      /\ UNCHANGED <<state, transport, timer, wire, outcome, ended, active, fireGlobals, idle>>
  BY DEF Throws
<1>2. C2 \in SUBSET C
  BY <1>1, NothingEnding DEF Counted
<1>3. C \in SUBSET fireGlobals /\ IsFiniteSet(fireGlobals) /\ Cardinality(C) <= active /\ active \in Nat
  BY DEF Counted, IInv, CounterOK, TypeOK
<1>4. IsFiniteSet(C)
  BY <1>3, FS_Subset
<1>5. IsFiniteSet(C2) /\ Cardinality(C2) <= Cardinality(C)
  BY <1>2, <1>4, FS_Subset
<1>6. Cardinality(C2) \in Nat /\ Cardinality(C) \in Nat
  BY <1>4, <1>5, FS_CardinalityType
<1> HIDE DEF C, C2
<1>7. Cardinality(C2) <= active
  BY <1>3, <1>5, <1>6
<1>8. CounterOK'
  BY <1>1, <1>7 DEF IInv, CounterOK, C2
<1>9. StackOK(todo', state', fireGlobals')
  BY <1>1, EmptyStack
<1>10. TypeOK' /\ EndedOnce' /\ UnderWay'
  BY <1>1 DEF IInv, TypeOK, EndedOnce, UnderWay
<1> QED
  BY <1>8, <1>9, <1>10 DEF IInv

LEMMA InitIInv == RequestsAssumption /\ ~SendAborts /\ Init => IInv
<1> SUFFICES ASSUME RequestsAssumption, ~SendAborts, Init PROVE IInv
  OBVIOUS
<1>1. Counted(todo, state, fireGlobals) = {} /\ Cardinality({}) = 0 /\ IsFiniteSet({})
  BY FS_EmptySet DEF Counted, Init
<1>2. CounterOK
  <2>1. active = 0 /\ idle = TRUE /\ fireGlobals = {}
    BY DEF Init
  <2>2. Cardinality(Counted(todo, state, fireGlobals)) = 0
    BY <1>1
  <2>3. Cardinality(Counted(todo, state, fireGlobals)) <= active
    BY <2>1, <2>2
  <2> QED
    BY <1>1, <2>1, <2>2, <2>3 DEF CounterOK
<1>3. StackOK(todo, state, fireGlobals)
  BY EmptyStack DEF Init
<1>4. TypeOK /\ EndedOnce /\ UnderWay
  BY DEF Init, TypeOK, EndedOnce, UnderWay
<1> QED
  BY <1>2, <1>3, <1>4 DEF IInv

LEMMA NextIInv == IInv /\ [Next]_vars => IInv'
<1> SUFFICES ASSUME IInv, [Next]_vars PROVE IInv'
  OBVIOUS
<1>1. CASE Internal
  BY <1>1, StepDoneStep, PrefilteredStep, StartedStep, CancelledStep, AcceptedStep, SendEndsStep,
     SendAsyncStep, CompleteAgainStep DEF Internal
<1>2. ASSUME NEW r \in Requests, ajax(r) \/ abort(r) \/ TimesOut(r) \/ AnswerThrows(r)
      PROVE  IInv'
  BY <1>2, AjaxStep, AbortStep, TimesOutStep, AnswerThrowsStep
<1>3. ASSUME NEW r \in Requests, NEW ok \in BOOLEAN, Answer(r, ok) PROVE IInv'
  BY <1>3, AnswerStep
<1>4. CASE UNCHANGED vars
  BY <1>4 DEF vars, IInv, TypeOK, EndedOnce, UnderWay, CounterOK, Counted
<1> QED
  BY <1>1, <1>2, <1>3, <1>4, ThrowsStep DEF Next

LEMMA IInvPromise == IInv => EachEndsOnce
<1> SUFFICES ASSUME IInv PROVE EachEndsOnce
  OBVIOUS
<1>1. TypeOK
  BY DEF IInv
<1>2. OnceDone
  BY DEF IInv, EndedOnce, OnceDone
<1>3. NothingLeft
  BY DEF IInv, UnderWay, NothingLeft
<1>4. ASSUME ~CallbacksThrow, todo = << >>
      PROVE  /\ active = Cardinality({r \in fireGlobals : state[r] # "2"})
             /\ idle <=> {r \in fireGlobals : state[r] # "2"} = {}
  <2> DEFINE C == {r \in fireGlobals : state[r] # "2"}
  <2>1. Counted(todo, state, fireGlobals) = C
    BY <1>4, NothingEnding DEF Counted
  <2>2. active = Cardinality(C) /\ (idle <=> active = 0)
    BY <1>4, <2>1 DEF IInv, CounterOK
  <2>3. IsFiniteSet(C)
    <3>1. C \in SUBSET fireGlobals /\ IsFiniteSet(fireGlobals)
      BY DEF IInv, CounterOK
    <3> QED
      BY <3>1, FS_Subset
  <2>4. Cardinality(C) = 0 <=> C = {}
    BY <2>3, FS_EmptySet
  <2> HIDE DEF C
  <2>5. idle <=> C = {}
    BY <2>2, <2>4
  <2> QED
    BY <2>2, <2>5 DEF C
<1> QED
  BY <1>1, <1>2, <1>3, <1>4 DEF EachEndsOnce, ActiveCounts, PageKnowsIdle

\* For any requests, global, timed or synchronous, and however answers,
\* time-outs, aborts and calls from callbacks mix: each ends once and leaves
\* nothing waiting, and unless callbacks throw jQuery.active counts those under
\* way and ajaxStart and ajaxStop tell when there are some.
THEOREM EveryRequestEndsOnce ==
  ASSUME RequestsAssumption, ~SendAborts PROVE Spec => []EachEndsOnce
<1>1. Init => IInv
  BY InitIInv
<1>2. IInv /\ [Next]_vars => IInv'
  BY NextIInv
<1>3. IInv => EachEndsOnce
  BY IInvPromise
<1> QED
  BY <1>1, <1>2, <1>3, PTL DEF Spec
==============================================================================

------------------------------ MODULE Animations ------------------------------
(***************************************************************************)
(* Queues and animations of jQuery (page/flot/jquery.js): each element has *)
(* a queue of functions, of which one runs at a time; an animation is a    *)
(* timer in one list that an interval walks; its end calls a function of   *)
(* the page and takes the next from the queue.                             *)
(*                                                                         *)
(* Animations show, hide or toggle the height of an element; the page's    *)
(* functions may do once what the page may.  todo is the JavaScript stack, *)
(* the running operation first.  Animations outside a queue (queue: false) *)
(* are left out.                                                           *)
(***************************************************************************)
EXTENDS Integers, SequencesExt

CONSTANTS
  Elements,
  Effects,       \* subset of {"show", "hide", "toggle", "delay"}
  Durations,     \* in intervals
  MaxAnims,      \* bound: animations and delays
  Liberties      \* what the page does, subset of {"clear": it clears queues,
                 \* "stop": a function stops its own element,
                 \* "others": a function acts on another element}

DurationsAssumption == Durations \subseteq Nat /\ MaxAnims \in Nat

Natural == 2     \* the height of every element
Ids == 1..MaxAnims
INPROGRESS == 0  \* the sentinel of the queue
Unset == -1

VARIABLES
  queue,     \* [Elements -> Seq(Ids \cup {INPROGRESS})]
  delay,     \* [Elements -> 0 or the delay whose timeout hooks.stop clears]
  timeouts,  \* delays whose timeout is pending
  promise,   \* [Elements -> "none", "waiting", "resolved"]
  anim,      \* sequence of the animations made so far
  timers,    \* jQuery.timers
  timerId,   \* is the interval set
  height,    \* [Elements -> style.height]
  shown,     \* [Elements -> is it displayed]
  fxshow,    \* [Elements -> what show and hide remember]
  todo

animationsVars == <<queue, delay, timeouts, promise, anim, timers, timerId, height, shown, fxshow, todo>>

NoShow == [exists |-> FALSE, hidden |-> "unset", height |-> Unset]

NewAnim(e, effect, d) ==
  [elem |-> e, effect |-> effect, duration |-> d, left |-> d, state |-> "queued",
   tween |-> FALSE, start |-> 0, end |-> 0, orig |-> Unset, hides |-> FALSE]

AnimationsInit ==
  /\ queue = [e \in Elements |-> << >>]
  /\ delay = [e \in Elements |-> 0]
  /\ timeouts = {}
  /\ promise = [e \in Elements |-> "none"]
  /\ anim = << >>
  /\ timers = << >>
  /\ timerId = FALSE
  /\ height = [e \in Elements |-> Natural]
  /\ shown = [e \in Elements |-> TRUE]
  /\ fxshow = [e \in Elements |-> NoShow]
  /\ todo = << >>

Top == Head(todo)
Running(op) == todo # << >> /\ Top.op = op
DequeueOp(e) == [op |-> "dequeue", e |-> e]

\* The page acts: from outside, or once in the function of an animation.
Acts(e) ==
  IF todo = << >> THEN TRUE
  ELSE Top.op = "complete" /\ ~Top.acted /\ ("others" \in Liberties \/ Top.e = e)
Rest == IF todo = << >> THEN todo ELSE <<[Top EXCEPT !.acted = TRUE]>> \o Tail(todo)

------------------------------------------------------------------------------
(* Queues. *)

\* animate and delay append to the queue; if nothing of it runs, the first
\* is taken.
animate(e, effect, d) ==
  /\ Acts(e) /\ Len(anim) < MaxAnims
  /\ anim' = Append(anim, NewAnim(e, effect, d))
  /\ queue' = [queue EXCEPT ![e] = Append(@, Len(anim'))]
  /\ todo' = (IF Head(queue'[e]) # INPROGRESS THEN <<DequeueOp(e)>> ELSE << >>) \o Rest
  /\ UNCHANGED <<delay, timeouts, promise, timers, timerId, height, shown, fxshow>>

\* The new queue is empty and has no sentinel: it is dequeued at once.
clearQueue(e) ==
  /\ "clear" \in Liberties /\ Acts(e)
  /\ queue' = [queue EXCEPT ![e] = << >>]
  /\ todo' = <<DequeueOp(e)>> \o Rest
  /\ UNCHANGED <<delay, timeouts, promise, anim, timers, timerId, height, shown, fxshow>>

\* A promise waits for the queue if it has ever been used.
makePromise(e) ==
  /\ Acts(e)
  /\ promise[e] = "none" /\ queue[e] # << >>
  /\ promise' = [promise EXCEPT ![e] = "waiting"]
  /\ todo' = Rest
  /\ UNCHANGED <<queue, delay, timeouts, anim, timers, timerId, height, shown, fxshow>>

\* Mutant: the sentinel is kept when the queue is empty.
dequeueKeeping ==
  /\ Running("dequeue")
  /\ LET e == Top.e
         q == IF queue[e] # << >> /\ Head(queue[e]) = INPROGRESS THEN Tail(queue[e]) ELSE queue[e]
     IN  IF q # << >>
         THEN /\ queue' = [queue EXCEPT ![e] = <<INPROGRESS>> \o Tail(q)]
              /\ delay' = [delay EXCEPT ![e] = 0]
              /\ todo' = <<[op |-> "start", id |-> Head(q)]>> \o Tail(todo)
              /\ UNCHANGED promise
         ELSE /\ promise' = [promise EXCEPT ![e] = IF @ = "waiting" THEN "resolved" ELSE @]
              /\ todo' = Tail(todo)
              /\ UNCHANGED <<queue, delay>>
  /\ UNCHANGED <<timeouts, anim, timers, timerId, height, shown, fxshow>>

\* jQuery.dequeue: a sentinel is dropped, the next function started behind a
\* new one; when there is none, the queue and its hooks are removed and
\* promises kept.
dequeue ==
  /\ Running("dequeue")
  /\ LET e == Top.e
         q == IF queue[e] # << >> /\ Head(queue[e]) = INPROGRESS THEN Tail(queue[e]) ELSE queue[e]
     IN  /\ delay' = [delay EXCEPT ![e] = 0]
         /\ IF q # << >>
            THEN /\ queue' = [queue EXCEPT ![e] = <<INPROGRESS>> \o Tail(q)]
                 /\ todo' = <<[op |-> "start", id |-> Head(q)]>> \o Tail(todo)
                 /\ UNCHANGED promise
            ELSE /\ queue' = [queue EXCEPT ![e] = << >>]
                 /\ promise' = [promise EXCEPT ![e] = IF @ = "waiting" THEN "resolved" ELSE @]
                 /\ todo' = Tail(todo)
  /\ UNCHANGED <<timeouts, anim, timers, timerId, height, shown, fxshow>>

StartDelay ==
  /\ Running("start") /\ anim[Top.id].effect = "delay"
  /\ timeouts' = timeouts \cup {Top.id}
  /\ delay' = [delay EXCEPT ![anim[Top.id].elem] = Top.id]
  /\ anim' = [anim EXCEPT ![Top.id].state = "pending"]
  /\ todo' = Tail(todo)
  /\ UNCHANGED <<queue, promise, timers, timerId, height, shown, fxshow>>

DelayOver(id) ==
  /\ todo = << >> /\ id \in timeouts
  /\ timeouts' = timeouts \ {id}
  /\ anim' = [anim EXCEPT ![id].state = "resolved"]
  /\ todo' = <<DequeueOp(anim[id].elem)>>
  /\ UNCHANGED <<queue, delay, promise, timers, timerId, height, shown, fxshow>>

------------------------------------------------------------------------------
(* Animations. *)

\* Mutant: what is restored is the height found now.
PrefilterCurrent(a, h, isShown, data) ==
  IF a.effect = (IF isShown THEN "show" ELSE "hide") THEN [a |-> a, shown |-> isShown, data |-> data]
  ELSE
    LET hidden == IF data.exists /\ data.hidden # "unset" THEN data.hidden = "yes" ELSE ~isShown
        kept == data.exists /\ data.height # Unset
    IN  [a |-> [a EXCEPT !.tween = TRUE,
                         !.start = IF hidden /\ ~kept THEN 0 ELSE h,
                         !.end = IF ~hidden THEN 0 ELSE IF kept THEN data.height ELSE h,
                         !.orig = h,
                         !.hides = ~hidden],
         shown |-> isShown \/ hidden,
         data |-> [exists |-> TRUE,
                   hidden |-> IF a.effect = "toggle" THEN (IF hidden THEN "no" ELSE "yes")
                              ELSE data.hidden,
                   height |-> IF kept THEN data.height ELSE h]]

\* defaultPrefilter: an element that is (or is becoming) hidden is shown and
\* grows to the height that is remembered, another shrinks and is hidden in
\* the end.  Nothing is done for what is so already.
Prefilter(a, h, isShown, data) ==
  IF a.effect = (IF isShown THEN "show" ELSE "hide") THEN [a |-> a, shown |-> isShown, data |-> data]
  ELSE
    LET hidden == IF data.exists /\ data.hidden # "unset" THEN data.hidden = "yes" ELSE ~isShown
        kept == data.exists /\ data.height # Unset
    IN  [a |-> [a EXCEPT !.tween = TRUE,
                         !.start = IF hidden /\ ~kept THEN 0 ELSE h,
                         !.end = IF ~hidden THEN 0 ELSE IF kept THEN data.height ELSE h,
                         !.orig = IF kept /\ data.height # 0 THEN data.height ELSE h,
                         !.hides = ~hidden],
         shown |-> isShown \/ hidden,
         data |-> [exists |-> TRUE,
                   hidden |-> IF a.effect = "toggle" THEN (IF hidden THEN "no" ELSE "yes")
                              ELSE data.hidden,
                   height |-> IF kept THEN data.height ELSE h]]

\* Tween.run.
Run(a, h) ==
  IF ~a.tween THEN h
  ELSE IF a.left = 0 THEN a.end
  ELSE (a.start * a.left + a.end * (a.duration - a.left)) \div a.duration

Finished(a) == a.left = 0 \/ ~a.tween

\* What the prefilter attached to the end: the element is hidden, its own
\* height restored, and what was remembered forgotten.
AtEnd(a, e, h, isShown, data) ==
  [height |-> IF a.tween THEN a.orig ELSE h,
   shown |-> IF a.hides THEN FALSE ELSE isShown,
   data |-> IF a.tween THEN NoShow ELSE data]

\* The functions of the end: the page's, then the next of the queue.
CompleteOps(id) ==
  <<[op |-> "complete", e |-> anim[id].elem, acted |-> FALSE], DequeueOp(anim[id].elem)>>

\* doAnimation and fx.timer: a first step, then a timer unless it was the last.
StartAnimation ==
  /\ Running("start") /\ anim[Top.id].effect # "delay"
  /\ LET id == Top.id  e == anim[id].elem
         p == Prefilter(anim[id], height[e], shown[e], fxshow[e])
         h == Run(p.a, height[e])
         over == Finished(p.a)
         after == IF over THEN AtEnd(p.a, e, h, p.shown, p.data)
                  ELSE [height |-> h, shown |-> p.shown, data |-> p.data]
     IN  /\ anim' = [anim EXCEPT ![id] = [p.a EXCEPT !.state = IF over THEN "resolved" ELSE "pending"]]
         /\ height' = [height EXCEPT ![e] = after.height]
         /\ shown' = [shown EXCEPT ![e] = after.shown]
         /\ fxshow' = [fxshow EXCEPT ![e] = after.data]
         /\ timers' = IF over THEN timers ELSE Append(timers, id)
         /\ timerId' = (timerId \/ ~over)
         /\ todo' = (IF over THEN CompleteOps(id) ELSE << >>) \o Tail(todo)
  /\ UNCHANGED <<queue, delay, timeouts, promise>>

\* The interval: time has passed for all animations.
Tick ==
  /\ todo = << >> /\ timerId
  /\ anim' = [id \in DOMAIN anim |->
                IF \E i \in DOMAIN timers : timers[i] = id
                THEN [anim[id] EXCEPT !.left = IF @ = 0 THEN 0 ELSE @ - 1] ELSE anim[id]]
  /\ todo' = <<[op |-> "tick", i |-> 1]>>
  /\ UNCHANGED <<queue, delay, timeouts, promise, timers, timerId, height, shown, fxshow>>

\* One timer of fx.tick: its tweens run, and at its end it is resolved, which
\* does nothing if it was already.
TickTimer ==
  /\ Running("tick") /\ Top.i <= Len(timers)
  /\ LET id == timers[Top.i]  a == anim[id]  e == a.elem
         h == Run(a, height[e])
         resolves == Finished(a) /\ a.state = "pending"
         after == IF resolves THEN AtEnd(a, e, h, shown[e], fxshow[e])
                  ELSE [height |-> h, shown |-> shown[e], data |-> fxshow[e]]
     IN  /\ anim' = [anim EXCEPT ![id].state = IF resolves THEN "resolved" ELSE @]
         /\ height' = [height EXCEPT ![e] = after.height]
         /\ shown' = [shown EXCEPT ![e] = after.shown]
         /\ fxshow' = [fxshow EXCEPT ![e] = after.data]
         /\ todo' = (IF resolves THEN CompleteOps(id) ELSE << >>)
                    \o <<[op |-> "ticked", i |-> Top.i, id |-> id, more |-> ~Finished(a)]>> \o Tail(todo)
  /\ UNCHANGED <<queue, delay, timeouts, promise, timers, timerId>>

\* A timer that is over is removed if it is still where it was.
Ticked ==
  /\ Running("ticked")
  /\ LET gone == ~Top.more /\ Top.i <= Len(timers) /\ timers[Top.i] = Top.id IN
     /\ timers' = IF gone THEN RemoveAt(timers, Top.i) ELSE timers
     /\ todo' = <<[op |-> "tick", i |-> IF gone THEN Top.i ELSE Top.i + 1]>> \o Tail(todo)
  /\ UNCHANGED <<queue, delay, timeouts, promise, anim, timerId, height, shown, fxshow>>

\* Mutant: the interval is cleared whatever the last functions started.
TickEndAlways ==
  /\ Running("tick") /\ Top.i > Len(timers)
  /\ timerId' = FALSE
  /\ todo' = Tail(todo)
  /\ UNCHANGED <<queue, delay, timeouts, promise, anim, timers, height, shown, fxshow>>

TickEnd ==
  /\ Running("tick") /\ Top.i > Len(timers)
  /\ timerId' = (timers # << >>)
  /\ todo' = Tail(todo)
  /\ UNCHANGED <<queue, delay, timeouts, promise, anim, timers, height, shown, fxshow>>

CompleteReturns ==
  /\ Running("complete")
  /\ todo' = Tail(todo)
  /\ UNCHANGED <<queue, delay, timeouts, promise, anim, timers, timerId, height, shown, fxshow>>

------------------------------------------------------------------------------
(* stop. *)

\* The queue is cleared first; a delay loses its timeout; then the timers
\* are walked from the end.
stop(e, clear, gotoEnd) ==
  /\ Acts(e)
  /\ clear => "clear" \in Liberties
  /\ IF todo = << >> THEN TRUE ELSE Top.e = e => "stop" \in Liberties
  /\ queue' = IF clear THEN [queue EXCEPT ![e] = << >>] ELSE queue
  /\ todo' = (IF clear THEN <<DequeueOp(e)>> ELSE << >>) \o
             <<[op |-> "stop", e |-> e, end |-> gotoEnd]>> \o Rest
  /\ UNCHANGED <<delay, timeouts, promise, anim, timers, timerId, height, shown, fxshow>>

StopDelay ==
  /\ Running("stop")
  /\ LET id == delay[Top.e] IN
     /\ timeouts' = timeouts \ {id}
     /\ anim' = IF id = 0 THEN anim ELSE [anim EXCEPT ![id].state = "rejected"]
     /\ delay' = [delay EXCEPT ![Top.e] = 0]
  /\ todo' = <<[op |-> "stopping", e |-> Top.e, end |-> Top.end, i |-> Len(timers), dequeue |-> TRUE]>>
             \o Tail(todo)
  /\ UNCHANGED <<queue, promise, timers, timerId, height, shown, fxshow>>

\* A timer that is over has lost its element and is not found.
Stopping ==
  /\ Running("stopping") /\ Top.i > 0
  /\ LET found == Top.i <= Len(timers) /\ anim[timers[Top.i]].elem = Top.e
                    /\ anim[timers[Top.i]].state = "pending" IN
     IF ~found
     THEN /\ todo' = <<[Top EXCEPT !.i = @ - 1]>> \o Tail(todo)
          /\ UNCHANGED <<anim, height, shown, fxshow>>
     ELSE LET id == timers[Top.i]  a == anim[id]  e == Top.e
              after == IF Top.end THEN AtEnd(a, e, a.end, shown[e], fxshow[e])
                       ELSE [height |-> height[e], shown |-> shown[e], data |-> fxshow[e]]
          IN  /\ anim' = [anim EXCEPT ![id].state = IF Top.end THEN "resolved" ELSE "rejected"]
              /\ height' = [height EXCEPT ![e] = after.height]
              /\ shown' = [shown EXCEPT ![e] = after.shown]
              /\ fxshow' = [fxshow EXCEPT ![e] = after.data]
              /\ todo' = (IF Top.end THEN CompleteOps(id) ELSE << >>)
                         \o <<[op |-> "splice", i |-> Top.i],
                              [Top EXCEPT !.i = @ - 1, !.dequeue = FALSE]>> \o Tail(todo)
  /\ UNCHANGED <<queue, delay, timeouts, promise, timers, timerId>>

\* Whatever is there by now is removed.
StopSplice ==
  /\ Running("splice")
  /\ timers' = IF Top.i <= Len(timers) THEN RemoveAt(timers, Top.i) ELSE timers
  /\ todo' = Tail(todo)
  /\ UNCHANGED <<queue, delay, timeouts, promise, anim, timerId, height, shown, fxshow>>

StopEnd ==
  /\ Running("stopping") /\ Top.i = 0
  /\ todo' = (IF Top.dequeue \/ ~Top.end THEN <<DequeueOp(Top.e)>> ELSE << >>) \o Tail(todo)
  /\ UNCHANGED <<queue, delay, timeouts, promise, anim, timers, timerId, height, shown, fxshow>>

Page ==
  \E e \in Elements :
    \/ \E effect \in Effects, d \in Durations : animate(e, effect, d)
    \/ \E clear, end \in BOOLEAN : stop(e, clear, end)
    \/ clearQueue(e) \/ makePromise(e)

Machine ==
  \/ dequeue \/ StartDelay \/ StartAnimation \/ TickTimer \/ Ticked \/ TickEnd
  \/ StopDelay \/ Stopping \/ StopSplice \/ StopEnd

AnimationsNext ==
  \/ Page \/ Machine \/ CompleteReturns \/ Tick
  \/ \E id \in Ids : DelayOver(id)

AnimationsSpec == AnimationsInit /\ [][AnimationsNext]_animationsVars

------------------------------------------------------------------------------
(* Properties. *)

AnimationsTypeOK ==
  /\ \A e \in Elements :
       /\ queue[e] \in Seq(Ids \cup {INPROGRESS})
       /\ \A i \in DOMAIN queue[e] : queue[e][i] = INPROGRESS => i = 1
       /\ height[e] \in 0..Natural
       /\ delay[e] \in 0..MaxAnims
  /\ timeouts \subseteq Ids
  /\ timers \in Seq(Ids)
  /\ \A id \in DOMAIN anim : anim[id].left \in 0..anim[id].duration

Quiet == todo = << >>

UnderWay(e) == {id \in DOMAIN anim : anim[id].elem = e /\ anim[id].state = "pending"}

\* "Add a progress sentinel to prevent the fx queue from being automatically
\* dequeued": of each queue one function runs at a time.
OneAtATime == \A e \in Elements : \A a, b \in UnderWay(e) : a = b

\* The queue of an element does not stand still: what is in it waits for an
\* animation or a delay that runs.
QueueMoves ==
  Quiet => \A e \in Elements : queue[e] # << >> => UnderWay(e) # {}

\* The interval runs exactly as long as there are timers, and its list holds
\* each running animation once.
TimersMatch ==
  Quiet =>
    /\ timers # << >> => timerId
    /\ \A i, j \in DOMAIN timers : timers[i] = timers[j] => i = j
    /\ \A id \in DOMAIN anim :
         anim[id].state = "pending" /\ anim[id].effect # "delay" =>
           \E i \in DOMAIN timers : timers[i] = id

\* "Checks the timer has not already been removed": no animation that is over
\* stays in the list, where it would go on writing its element's height.
NoZombie == Quiet => \A i \in DOMAIN timers : anim[timers[i]].state = "pending"

\* An element on which no animation was broken off has its own height again,
\* however shows, hides and toggles followed on each other.
HeightRestored ==
  Quiet => \A e \in Elements : ~fxshow[e].exists => height[e] = Natural

==============================================================================

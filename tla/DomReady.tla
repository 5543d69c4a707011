--------------------------------- MODULE DomReady ---------------------------------
(***************************************************************************)
(* When jQuery runs the functions a page gives to $(document).ready        *)
(* (page/flot/jquery.js): once the document can be used, told by several   *)
(* events and timers of which any may be first, and once nothing holds     *)
(* them back.                                                              *)
(*                                                                         *)
(* Scripts are not interrupted: events and timers come between them.  A    *)
(* function that is run does not call jQuery.ready itself.                 *)
(***************************************************************************)
EXTENDS Integers, Sequences, TLAPS

CONSTANTS
  Browsers,   \* of "standard", "IE", "IE frame"
  MaxGiven, MaxHolds   \* bounds

ASSUME BoundAssumption == {MaxGiven, MaxHolds} \subseteq Nat

VARIABLES
  browser,
  document,    \* [state, body, told: the events that have been fired]
  script,      \* a script of the page is running
  jQuery,      \* [isReady, readyWait, waiting: it has asked for events, timers, scroll, resolved]
  given, ran,  \* how many functions there are and have run
  holds,       \* holds not released
  held         \* how many there have been

vars == <<browser, document, script, jQuery, given, ran, holds, held>>

Init ==
  /\ browser \in Browsers
  /\ document \in [state : {"loading", "interactive", "complete"}, body : BOOLEAN, told : {{}, {"parsed"}}]
  /\ document.told # {} => document.state # "loading"
  /\ document.state = "complete" => document.body /\ document.told # {}
  /\ jQuery = [isReady |-> FALSE, readyWait |-> 1, waiting |-> FALSE, timers |-> 0,
               scroll |-> FALSE, resolved |-> FALSE]
  /\ script = FALSE /\ given = 0 /\ ran = 0 /\ holds = 0 /\ held = 0

------------------------------------------------------------------------------
(* jQuery. *)

\* Mutant: that the document is ready is remembered only when nothing holds.
ReadyLate(j, wait) ==
  LET w == IF wait THEN j.readyWait - 1 ELSE j.readyWait
      abort == IF wait THEN w # 0 ELSE j.isReady
      left == IF wait THEN w ELSE w - 1
  IN  IF abort THEN [j EXCEPT !.readyWait = w]
      ELSE IF ~document.body THEN [j EXCEPT !.readyWait = w, !.timers = @ + 1]
      ELSE IF left > 0 THEN [j EXCEPT !.readyWait = left]
      ELSE [j EXCEPT !.readyWait = left, !.isReady = TRUE, !.resolved = TRUE]

\* ready(wait): told that the document is ready, or that a hold is released.
ready(j, wait) ==
  LET w == IF wait THEN j.readyWait - 1 ELSE j.readyWait
      abort == IF wait THEN w # 0 ELSE j.isReady
      left == IF wait THEN w ELSE w - 1
  IN  IF abort THEN [j EXCEPT !.readyWait = w]
      ELSE IF ~document.body THEN [j EXCEPT !.readyWait = w, !.timers = @ + 1]
      ELSE [j EXCEPT !.readyWait = left, !.isReady = TRUE, !.resolved = @ \/ left <= 0]

\* The list of functions is resolved: all that are waiting run.
Runs(j) == jQuery' = j /\ ran' = IF j.resolved THEN given' ELSE ran

\* Whether a document can be scrolled tells that it is parsed; or try again.
doScrollCheck(j) ==
  IF j.isReady THEN j
  ELSE IF document.state = "loading" THEN [j EXCEPT !.scroll = TRUE]
  ELSE ready(j, FALSE)

\* The first function makes jQuery ask for the events of the browser, or for a
\* timer if they are past.
Promise(j) ==
  LET asked == [j EXCEPT !.waiting = TRUE]
  IN  IF document.state = "complete" THEN [j EXCEPT !.timers = @ + 1]
      ELSE IF browser = "IE" THEN doScrollCheck(asked) ELSE asked

------------------------------------------------------------------------------
(* Scripts of the page. *)

ScriptBegins ==
  /\ ~script /\ script' = TRUE
  /\ UNCHANGED <<browser, document, jQuery, given, ran, holds, held>>

ScriptEnds ==
  /\ script /\ script' = FALSE
  /\ UNCHANGED <<browser, document, jQuery, given, ran, holds, held>>

\* $(document).ready(function)
Give ==
  /\ script /\ given < MaxGiven
  /\ given' = given + 1
  /\ Runs(IF given = 0 THEN Promise(jQuery) ELSE jQuery)
  /\ UNCHANGED <<browser, document, script, holds, held>>

Hold ==
  /\ script /\ held < MaxHolds
  /\ jQuery' = [jQuery EXCEPT !.readyWait = @ + 1]
  /\ holds' = holds + 1 /\ held' = held + 1
  /\ UNCHANGED <<browser, document, script, given, ran>>

\* A page releases what it holds, and no more.
Release ==
  /\ script /\ holds > 0
  /\ holds' = holds - 1
  /\ UNCHANGED given
  /\ Runs(ready(jQuery, TRUE))
  /\ UNCHANGED <<browser, document, script, held>>

------------------------------------------------------------------------------
(* The browser. *)

BodyAppears ==
  /\ ~script /\ ~document.body
  /\ document' = [document EXCEPT !.body = TRUE]
  /\ UNCHANGED <<browser, script, jQuery, given, ran, holds, held>>

Parsed ==
  /\ ~script /\ document.state = "loading"
  /\ document' = [document EXCEPT !.state = "interactive"]
  /\ UNCHANGED <<browser, script, jQuery, given, ran, holds, held>>

\* Events of a document that is parsed, complete and loaded, each once.
Tell(event, heard) ==
  /\ ~script /\ event \notin document.told
  /\ document' = [document EXCEPT !.told = @ \cup {event}]
  /\ UNCHANGED given
  /\ Runs(IF jQuery.waiting /\ heard THEN ready(jQuery, FALSE) ELSE jQuery)
  /\ UNCHANGED <<browser, script, holds, held>>

DOMContentLoaded == document.state = "interactive" /\ Tell("parsed", browser = "standard")

Completed ==
  /\ ~script /\ document.state = "interactive" /\ "parsed" \in document.told /\ document.body
  /\ document' = [document EXCEPT !.state = "complete"]
  /\ UNCHANGED <<browser, script, jQuery, given, ran, holds, held>>

\* In the old event model a change of the state is an event.
onreadystatechange == document.state = "complete" /\ browser # "standard" /\ Tell("complete", TRUE)

load == document.state = "complete" /\ Tell("load", TRUE)

ReadyTimer ==
  /\ ~script /\ jQuery.timers > 0
  /\ UNCHANGED given
  /\ Runs(ready([jQuery EXCEPT !.timers = @ - 1], FALSE))
  /\ UNCHANGED <<browser, document, script, holds, held>>

ScrollTimer ==
  /\ ~script /\ jQuery.scroll
  /\ UNCHANGED given
  /\ Runs(doScrollCheck([jQuery EXCEPT !.scroll = FALSE]))
  /\ UNCHANGED <<browser, document, script, holds, held>>

Loading == BodyAppears \/ Parsed \/ DOMContentLoaded \/ Completed \/ onreadystatechange \/ load
Next ==
  ScriptBegins \/ ScriptEnds \/ Give \/ Hold \/ Release \/ Loading \/ ReadyTimer \/ ScrollTimer

Spec == Init /\ [][Next]_vars

------------------------------------------------------------------------------
(* Properties *)

\* The functions are run for the first time when the document is parsed, it
\* has a body, and no hold is left, whichever event or timer or release comes
\* first and however many of them come.
WhenReady ==
  [][~jQuery.resolved /\ jQuery'.resolved => document.state # "loading" /\ document.body /\ holds' = 0]_vars

\* The call that gives the first function does not run it: a script may still
\* hold the functions back (jquery.js:851).
Asynchronous == [][~jQuery.resolved /\ jQuery'.resolved => given' = given]_vars

------------------------------------------------------------------------------
(* That the functions wait for the document and for every hold, for any    *)
(* number of holds.                                                        *)

JQuery == [isReady : BOOLEAN, readyWait : Int, waiting : BOOLEAN, timers : Int, scroll : BOOLEAN,
           resolved : BOOLEAN]
Documents == [state : {"loading", "interactive", "complete"}, body : BOOLEAN,
              told : SUBSET {"parsed", "complete", "load"}]

\* The counter is one, for the document, and one for each hold; nothing is told
\* or timed before the document is parsed, and that it is ready is remembered
\* only with a body.
Balance ==
  /\ jQuery.readyWait = (IF jQuery.isReady THEN 0 ELSE 1) + holds
  /\ jQuery.isReady \/ jQuery.timers > 0 => document.state # "loading"
  /\ jQuery.isReady => document.body

Types == jQuery \in JQuery /\ document \in Documents /\ holds \in Nat

IInv == Types /\ Balance

Parsing == document.state # "loading"

LEMMA InitIInv == Init => IInv
BY DEF Init, IInv, Types, Balance, JQuery, Documents

\* Told that the document is ready: what becomes of jQuery, field by field.
ToldFields(j, r) ==
  \/ r.readyWait = j.readyWait /\ r.isReady = j.isReady /\ r.resolved = j.resolved
  \/ /\ ~j.isReady /\ document.body /\ r.isReady = TRUE
     /\ r.readyWait = j.readyWait - 1
     /\ r.resolved => j.resolved \/ r.readyWait <= 0

LEMMA ToldWrites ==
  ASSUME NEW j \in JQuery
  PROVE  ready(j, FALSE) \in JQuery /\ ToldFields(j, ready(j, FALSE))
<1>1. /\ j.readyWait \in Int /\ j.readyWait - 1 \in Int /\ j.timers + 1 \in Int
      /\ (j.resolved \/ j.readyWait - 1 <= 0) \in BOOLEAN
  BY DEF JQuery
<1>2. CASE j.isReady
  <2> DEFINE r == [j EXCEPT !.readyWait = j.readyWait]
  <2>1. ready(j, FALSE) = r
    BY <1>2 DEF ready
  <2>2. r \in JQuery /\ r.readyWait = j.readyWait /\ r.isReady = j.isReady /\ r.resolved = j.resolved
    BY <1>1 DEF JQuery
  <2> HIDE DEF r
  <2> QED BY <2>1, <2>2 DEF ToldFields
<1>3. CASE ~j.isReady /\ ~document.body
  <2> DEFINE r == [j EXCEPT !.readyWait = j.readyWait, !.timers = j.timers + 1]
  <2>1. ready(j, FALSE) = r
    BY <1>3 DEF ready
  <2>2. r \in JQuery /\ r.readyWait = j.readyWait /\ r.isReady = j.isReady /\ r.resolved = j.resolved
    BY <1>1 DEF JQuery
  <2> HIDE DEF r
  <2> QED BY <2>1, <2>2 DEF ToldFields
<1>4. CASE ~j.isReady /\ document.body
  <2> DEFINE on == j.resolved \/ j.readyWait - 1 <= 0
             r == [j EXCEPT !.readyWait = j.readyWait - 1, !.isReady = TRUE, !.resolved = on]
  <2>1. ready(j, FALSE) = r
    BY <1>4 DEF ready
  <2>2. r \in JQuery /\ r.readyWait = j.readyWait - 1 /\ r.isReady = TRUE /\ r.resolved = on
    BY <1>1 DEF JQuery
  <2> HIDE DEF r
  <2>3. ToldFields(j, r)
    BY <1>4, <2>2 DEF ToldFields
  <2> QED BY <2>1, <2>2, <2>3
<1> QED BY <1>2, <1>3, <1>4

\* Told that the document is ready, jQuery keeps the balance, and goes on only
\* when there is no hold.
LEMMA Told ==
  ASSUME IInv, NEW j \in JQuery, j.isReady = jQuery.isReady, j.readyWait = jQuery.readyWait,
         NEW r \in JQuery, ToldFields(j, r)
  PROVE  /\ r.readyWait = (IF r.isReady THEN 0 ELSE 1) + holds
         /\ r.isReady => document.body
         /\ r.resolved => j.resolved \/ (holds = 0 /\ document.body)
BY DEF ToldFields, IInv, Types, Balance, JQuery

\* A release makes it go on only after it was told.
ReleasedFields(r) ==
  /\ r.readyWait = (IF r.isReady THEN 0 ELSE 1) + holds - 1
  /\ r.isReady = jQuery.isReady
  /\ r.timers = jQuery.timers
  /\ r.resolved => jQuery.resolved \/ (jQuery.isReady /\ holds = 1)

LEMMA Released ==
  ASSUME IInv, holds > 0
  PROVE  ready(jQuery, TRUE) \in JQuery /\ ReleasedFields(ready(jQuery, TRUE))
<1>1. /\ jQuery \in JQuery /\ jQuery.readyWait \in Int /\ holds \in Nat
      /\ jQuery.isReady \in BOOLEAN /\ jQuery.resolved \in BOOLEAN
  BY DEF JQuery, IInv, Types
<1>2. /\ jQuery.readyWait = (IF jQuery.isReady THEN 0 ELSE 1) + holds
      /\ jQuery.isReady => document.body
  BY DEF IInv, Balance
<1>3. CASE jQuery.readyWait - 1 # 0
  <2> DEFINE r == [jQuery EXCEPT !.readyWait = jQuery.readyWait - 1]
  <2>1. ready(jQuery, TRUE) = r
    BY <1>3 DEF ready
  <2>2. /\ r \in JQuery /\ r.readyWait = jQuery.readyWait - 1 /\ r.timers = jQuery.timers
        /\ r.isReady = jQuery.isReady /\ r.resolved = jQuery.resolved
    BY <1>1 DEF JQuery
  <2> HIDE DEF r
  <2>3. ReleasedFields(r)
    BY <1>1, <1>2, <2>2 DEF ReleasedFields
  <2> QED BY <2>1, <2>2, <2>3
<1>4. CASE jQuery.readyWait - 1 = 0
  <2> DEFINE on == jQuery.resolved \/ jQuery.readyWait - 1 <= 0
             r == [jQuery EXCEPT !.readyWait = jQuery.readyWait - 1, !.isReady = TRUE, !.resolved = on]
  <2>1. jQuery.isReady = TRUE /\ holds = 1 /\ document.body
    BY <1>1, <1>2, <1>4
  <2>2. ready(jQuery, TRUE) = r
    BY <1>4, <2>1 DEF ready
  <2>3. on \in BOOLEAN /\ jQuery.readyWait - 1 \in Int
    BY <1>1
  <2> HIDE DEF on
  <2>4. r \in JQuery /\ r.readyWait = jQuery.readyWait - 1 /\ r.isReady = TRUE /\ r.timers = jQuery.timers
    BY <1>1, <2>3 DEF JQuery
  <2> HIDE DEF r
  <2>5. r.isReady = jQuery.isReady
    BY <2>1, <2>4, Zenon
  <2>6. r.readyWait = 0
    BY <1>4, <2>4
  <2>7. (IF r.isReady THEN 0 ELSE 1) = 0
    BY <2>4, Zenon
  <2>8. (IF r.isReady THEN 0 ELSE 1) + holds - 1 = 0
    BY <2>1, <2>7
  <2>9. ReleasedFields(r)
    BY <2>1, <2>4, <2>5, <2>6, <2>8 DEF ReleasedFields
  <2> QED BY <2>2, <2>4, <2>9
<1> QED BY <1>3, <1>4

Safe == ~jQuery.resolved /\ jQuery'.resolved => document.state # "loading" /\ document.body /\ holds' = 0

LEMMA QuietStep ==
  ASSUME IInv, jQuery' \in JQuery, document' \in Documents, UNCHANGED holds,
         jQuery'.isReady = jQuery.isReady, jQuery'.readyWait = jQuery.readyWait,
         jQuery'.resolved = jQuery.resolved,
         jQuery'.timers > 0 => jQuery.timers > 0 \/ document'.state # "loading",
         document.state # "loading" => document'.state # "loading",
         document.body => document'.body
  PROVE  IInv' /\ Safe
BY DEF IInv, Types, Balance, Safe

LEMMA ToldStep ==
  ASSUME IInv, Parsing, NEW j \in JQuery, j.isReady = jQuery.isReady, j.readyWait = jQuery.readyWait,
         j.resolved = jQuery.resolved, jQuery' = ready(j, FALSE), UNCHANGED holds,
         document' \in Documents, document'.state # "loading", document'.body = document.body
  PROVE  IInv' /\ Safe
<1>1. jQuery' \in JQuery /\ ToldFields(j, jQuery')
  BY ToldWrites
<1>2. /\ jQuery'.readyWait = (IF jQuery'.isReady THEN 0 ELSE 1) + holds
      /\ jQuery'.isReady => document.body
      /\ jQuery'.resolved => j.resolved \/ (holds = 0 /\ document.body)
  BY <1>1, Told
<1> QED BY <1>1, <1>2 DEF IInv, Types, Balance, Safe, Parsing

LEMMA NextSafe == IInv /\ [Next]_vars => IInv' /\ Safe
<1> SUFFICES ASSUME IInv, [Next]_vars PROVE IInv' /\ Safe
  OBVIOUS
<1>t. jQuery \in JQuery /\ document \in Documents /\ holds \in Nat
  BY DEF IInv, Types
<1>1. CASE ScriptBegins \/ ScriptEnds
  BY <1>1, <1>t, QuietStep DEF ScriptBegins, ScriptEnds
<1>2. CASE Give
  <2>1. document' = document /\ holds' = holds
    BY <1>2 DEF Give
  <2>2. CASE given # 0
    BY <1>2, <2>1, <2>2, <1>t, QuietStep DEF Give, Runs
  <2>3. CASE given = 0 /\ document.state = "complete"
    <3>1. jQuery' = [jQuery EXCEPT !.timers = @ + 1]
      BY <1>2, <2>3 DEF Give, Runs, Promise
    <3>2. /\ jQuery' \in JQuery
          /\ jQuery'.isReady = jQuery.isReady /\ jQuery'.readyWait = jQuery.readyWait
          /\ jQuery'.resolved = jQuery.resolved
      BY <3>1, <1>t DEF JQuery
    <3> QED BY <2>1, <2>3, <3>2, <1>t, QuietStep
  <2>4. CASE given = 0 /\ document.state # "complete"
    <3> DEFINE asked == [jQuery EXCEPT !.waiting = TRUE]
    <3>1. /\ asked \in JQuery
          /\ asked.isReady = jQuery.isReady /\ asked.readyWait = jQuery.readyWait
          /\ asked.resolved = jQuery.resolved /\ asked.timers = jQuery.timers
      BY <1>t DEF JQuery
    <3>2. jQuery' = IF browser = "IE" THEN doScrollCheck(asked) ELSE asked
      BY <1>2, <2>4 DEF Give, Runs, Promise
    <3> HIDE DEF asked
    <3>3. CASE jQuery' = asked
      BY <2>1, <3>1, <3>3, <1>t, QuietStep
    <3>4. CASE jQuery' = [asked EXCEPT !.scroll = TRUE]
      <4>1. /\ jQuery' \in JQuery
            /\ jQuery'.isReady = jQuery.isReady /\ jQuery'.readyWait = jQuery.readyWait
            /\ jQuery'.resolved = jQuery.resolved /\ jQuery'.timers = jQuery.timers
        BY <3>1, <3>4 DEF JQuery
      <4> QED BY <2>1, <4>1, <1>t, QuietStep
    <3>5. CASE jQuery' = ready(asked, FALSE) /\ document.state # "loading"
      BY <2>1, <3>1, <3>5, <1>t, ToldStep DEF Parsing
    <3> QED BY <3>2, <3>3, <3>4, <3>5 DEF doScrollCheck
  <2> QED BY <2>2, <2>3, <2>4
<1>3. CASE Hold
  BY <1>3, <1>t DEF Hold, IInv, Types, Balance, Safe, JQuery
<1>4. CASE Release
  <2>1. holds > 0 /\ holds' = holds - 1 /\ document' = document
    BY <1>4 DEF Release
  <2>2. jQuery' = ready(jQuery, TRUE)
    BY <1>4 DEF Release, Runs
  <2>3. jQuery' \in JQuery /\ ReleasedFields(jQuery')
    BY <2>1, <2>2, Released
  <2>4. IInv'
    BY <2>1, <2>3, <1>t DEF ReleasedFields, IInv, Types, Balance, JQuery
  <2>5. Safe
    BY <2>1, <2>3, <1>t DEF ReleasedFields, IInv, Types, Balance, Safe, JQuery
  <2> QED BY <2>4, <2>5
<1>5. CASE BodyAppears \/ Parsed \/ Completed
  <2>1. document' \in Documents
    BY <1>5, <1>t DEF BodyAppears, Parsed, Completed, Documents
  <2>2. document.state # "loading" => document'.state # "loading"
    BY <1>5, <1>t DEF BodyAppears, Parsed, Completed, Documents
  <2>3. document.body => document'.body
    BY <1>5, <1>t DEF BodyAppears, Parsed, Completed, Documents
  <2>4. jQuery' = jQuery /\ holds' = holds
    BY <1>5 DEF BodyAppears, Parsed, Completed
  <2> QED BY <2>1, <2>2, <2>3, <2>4, <1>t, QuietStep
<1>6. ASSUME NEW event \in {"parsed", "complete", "load"}, NEW heard, document.state # "loading", Tell(event, heard)
      PROVE  IInv' /\ Safe
  <2>1. document' \in Documents /\ document'.state = document.state /\ document'.body = document.body
    BY <1>6, <1>t DEF Tell, Documents
  <2>2. holds' = holds
    BY <1>6 DEF Tell
  <2>3. jQuery' = ready(jQuery, FALSE) \/ jQuery' = jQuery
    BY <1>6 DEF Tell, Runs
  <2>4. CASE jQuery' = jQuery
    BY <2>1, <2>2, <2>4, <1>t, QuietStep
  <2>5. CASE jQuery' = ready(jQuery, FALSE)
    BY <1>6, <2>1, <2>2, <2>5, <1>t, ToldStep DEF Parsing
  <2> QED BY <2>3, <2>4, <2>5
<1>7. CASE DOMContentLoaded
  BY <1>6, <1>7 DEF DOMContentLoaded
<1>8. CASE onreadystatechange \/ load
  BY <1>6, <1>8 DEF onreadystatechange, load
<1>9. CASE ReadyTimer
  <2> DEFINE j == [jQuery EXCEPT !.timers = @ - 1]
  <2>1. /\ j \in JQuery /\ j.isReady = jQuery.isReady /\ j.readyWait = jQuery.readyWait
        /\ j.resolved = jQuery.resolved
    BY <1>t DEF JQuery
  <2>2. jQuery' = ready(j, FALSE) /\ document' = document /\ holds' = holds /\ jQuery.timers > 0
    BY <1>9 DEF ReadyTimer, Runs
  <2>3. document.state # "loading"
    BY <2>2 DEF IInv, Balance
  <2> HIDE DEF j
  <2> QED BY <2>1, <2>2, <2>3, <1>t, ToldStep DEF Parsing
<1>10. CASE ScrollTimer
  <2> DEFINE j == [jQuery EXCEPT !.scroll = FALSE]
  <2>1. /\ j \in JQuery /\ j.isReady = jQuery.isReady /\ j.readyWait = jQuery.readyWait
        /\ j.resolved = jQuery.resolved /\ j.timers = jQuery.timers
    BY <1>t DEF JQuery
  <2>2. jQuery' = doScrollCheck(j) /\ document' = document /\ holds' = holds
    BY <1>10 DEF ScrollTimer, Runs
  <2> HIDE DEF j
  <2>3. CASE jQuery' = j
    BY <2>1, <2>2, <2>3, <1>t, QuietStep
  <2>4. CASE jQuery' = [j EXCEPT !.scroll = TRUE]
    <3>1. /\ jQuery' \in JQuery
          /\ jQuery'.isReady = jQuery.isReady /\ jQuery'.readyWait = jQuery.readyWait
          /\ jQuery'.resolved = jQuery.resolved /\ jQuery'.timers = jQuery.timers
      BY <2>1, <2>4 DEF JQuery
    <3> QED BY <2>2, <3>1, <1>t, QuietStep
  <2>5. CASE jQuery' = ready(j, FALSE) /\ document.state # "loading"
    BY <2>1, <2>2, <2>5, <1>t, ToldStep DEF Parsing
  <2> QED BY <2>2, <2>3, <2>4, <2>5 DEF doScrollCheck
<1>11. CASE UNCHANGED vars
  BY <1>11, <1>t, QuietStep DEF vars
<1> QED BY <1>1, <1>2, <1>3, <1>4, <1>5, <1>7, <1>8, <1>9, <1>10, <1>11 DEF Next, Loading

\* Whichever event, timer or release is first, and however many holds a page
\* makes: its functions are run when the document is parsed, has a body, and
\* no hold is left.
THEOREM RunsWhenReady == Spec => WhenReady
<1>1. IInv /\ [Next]_vars => [Safe]_vars
  BY NextSafe
<1>2. IInv /\ [Next]_vars => IInv'
  BY NextSafe
<1>3. Spec => []IInv
  BY InitIInv, <1>2, PTL DEF Spec
<1>4. Spec => [][Safe]_vars
  BY <1>1, <1>3, PTL DEF Spec
<1> QED BY <1>4 DEF WhenReady, Safe
==================================================================================

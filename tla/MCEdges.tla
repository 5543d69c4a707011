------------------------------- MODULE MCEdges -------------------------------
(***************************************************************************)
(* What lies around the exchange of the devices, checked side by side: the *)
(* operator's pages (Panel), the calendar of the scripts (SimClock), the   *)
(* texts they exchange (Frame), the two prototypes of a server             *)
(* (ThreadServer and Handshake), and the network when answers come too     *)
(* late (HPKSSNet).  No variable of one is read by another: a behaviour is *)
(* one of them, and part says of which.  The pages have their variables to *)
(* themselves, which keep their first values in other parts; the other     *)
(* modules share v1 to v18, and what a module leaves over is unused.       *)
(***************************************************************************)
EXTENDS Integers, Panel

VARIABLES part, v1, v2, v3, v4, v5, v6, v7, v8, v9, v10, v11, v12, v13, v14, v15, v16, v17, v18

slots == <<v1, v2, v3, v4, v5, v6, v7, v8, v9, v10, v11, v12, v13, v14, v15, v16, v17, v18>>
edgeVars == <<vars, part, slots>>

\* A module of n variables uses v1 to vn: the others keep one value.
Unused == "unused"
Uses(n) ==
  /\ IF n < 5 THEN /\ v1 = Unused /\ v2 = Unused /\ v3 = Unused /\ v4 = Unused /\ v5 = Unused
              ELSE TRUE
  /\ IF n < 7 THEN v6 = Unused /\ v7 = Unused ELSE TRUE
  /\ IF n < 8 THEN v8 = Unused ELSE TRUE
  /\ IF n < 11 THEN v9 = Unused /\ v10 = Unused /\ v11 = Unused ELSE TRUE
  /\ IF n < 15 THEN v12 = Unused /\ v13 = Unused /\ v14 = Unused /\ v15 = Unused ELSE TRUE
  /\ IF n < 18 THEN v16 = Unused /\ v17 = Unused /\ v18 = Unused ELSE TRUE
Keeps(n) ==
  /\ UNCHANGED <<part, vars>>
  /\ IF n < 7 THEN UNCHANGED <<v6, v7>> ELSE TRUE
  /\ IF n < 8 THEN UNCHANGED v8 ELSE TRUE
  /\ IF n < 11 THEN UNCHANGED <<v9, v10, v11>> ELSE TRUE
  /\ IF n < 15 THEN UNCHANGED <<v12, v13, v14, v15>> ELSE TRUE
  /\ IF n < 18 THEN UNCHANGED <<v16, v17, v18>> ELSE TRUE

NoPages == Init /\ nastawy = [d \in Tunable |-> NoFile]

------------------------------------------------------------------------------
(* A page whose chart field may name a file without giving settings.         *)

BarePage == INSTANCE Panel WITH
  Settings <- {"s"}, MaxEdits <- 1, MaxConnections <- 2, MaxSaid <- 1, MaxRows <- 1, BareSettings <- TRUE,
  nastawy <- v1, edits <- v2, pi <- v3, running <- v4, owner <- v5, link <- v6, ws <- v7, green <- v8,
  toServer <- v9, toPage <- v10, busy <- v11, rows <- v12, said <- v13, heard <- v14, echoed <- v15

------------------------------------------------------------------------------
(* Steps of ten minutes to more than half a day; the end of a month; what    *)
(* the script of each device makes of it.                                    *)

Clock == INSTANCE SimClock WITH
  Scripts <- {"E", "W", "B", "R"}, Minutes <- {10, 45, 360, 700, 800},
  StartDays <- {1, 30}, StartHours <- {8}, LastDay <- 33,
  script <- v1, mins <- v2, timer <- v3, seen <- v4, time <- v5, day <- v6,
  time_old <- v7, day_old <- v8, interval <- v9, table <- v10, flaga <- v11

------------------------------------------------------------------------------
(* Per kind of field: temperatures of three digits and of four, flows below  *)
(* 1000 and above, settings below 100, of three digits, and of as many as    *)
(* the array has places.  One field of each answer's beginning, middle and   *)
(* end varies; two texts at a time have an unusual width.                    *)

WidthsOf(fields) ==
  [f \in fields |-> CASE f \in {"F_zco", "F_zm"} -> {9, 10}
                      [] f = "B_P" -> {5, 6, 10}
                      [] f \in {"B_I", "R_P"} -> {5, 10}
                      [] f = "R_I" -> {5, 6}
                      [] f \in {"T_zco", "T_zm"} -> {7, 8}
                      [] OTHER -> {7}]

Fields == INSTANCE Frame WITH
  Widths <- WidthsOf({"T_o", "T_zm", "T_pm", "T_zco", "T_pco", "F_zco", "B_P", "B_I", "T_bud",
                      "F_zm", "R_P", "R_I"}),
  MaxOdd <- 2,
  inBufClear <- v1, obecne <- v2, zeszle <- v3, sent <- v4, shown <- v5

------------------------------------------------------------------------------
(* Three connections to the threaded prototype; hashes of up to four bytes   *)
(* and some that fill lines of eight characters.                             *)

Threads == INSTANCE ThreadServer WITH
  MaxSockets <- 3,
  accepted <- v1, newsock <- v2, pc <- v3, sock <- v4, jsonMessage <- v5, greeted <- v6, alive <- v7,
  closed <- v8

Bytes == {0, 1, 146, 255}
Shake == INSTANCE Handshake WITH
  Hashes <- UNION {[1..n -> Bytes] : n \in 1..4}
              \cup {<<255, 1, 146, 3, 4, 97, 6, 200, 8, 9, 170, 11, 85>>,
                    <<1, 2, 3, 4, 5, 6, 7, 8, 9, 10, 11, 12>>},
  CHARS_PER_LINE <- 8,
  phase <- v1, hash <- v2, plainchar <- v3, step <- v4, result <- v5, stepcount <- v6, code <- v7

------------------------------------------------------------------------------
(* Two scripts and the server, with one answer that is not waited for.       *)

Late == INSTANCE HPKSSNet WITH
  Devices <- {"E", "W"}, Sources <- [d \in {"E", "W"} |-> {"E", "W"} \ {d}],
  Tunable <- {}, Unchecked <- {}, Strangers <- {}, Data <- 0..3, NoData <- -1, Header <- -1,
  MaxEdits <- 0, MaxSteps <- 3, Backlog <- 3, MaxGiveUps <- 1,
  nastawy <- v1, edits <- v2, pi <- v3, running <- v4,
  deviceConnected <- v5, deviceSentData <- v6, iteration <- v7, timer <- v8, obecne <- v9,
  zeszle <- v10, csv <- v11, place <- v12, asking <- v13, read <- v14, texts <- v15,
  backlog <- v16, answers <- v17, giveUps <- v18

------------------------------------------------------------------------------
EdgesInit ==
  \/ part = "pages" /\ Init /\ Uses(0)
  \/ NoPages /\ part = "bare page" /\ BarePage!Init /\ Uses(15)
  \/ NoPages /\ part = "clock" /\ Clock!Init /\ Uses(11)
  \/ NoPages /\ part = "texts" /\ Fields!Init /\ Uses(5)
  \/ NoPages /\ part = "threads" /\ Threads!Init /\ Uses(8)
  \/ NoPages /\ part = "handshake" /\ Shake!Init /\ Uses(7)
  \/ NoPages /\ part = "late" /\ Late!NetInit /\ Uses(18)

EdgesNext ==
  \/ part = "pages" /\ Next /\ UNCHANGED <<part, slots>>
  \/ part = "bare page" /\ BarePage!Next /\ Keeps(15)
  \/ part = "clock" /\ Clock!Next /\ Keeps(11)
  \/ part = "texts" /\ Fields!Next /\ Keeps(5)
  \/ part = "threads" /\ Threads!Next /\ Keeps(8)
  \/ part = "handshake" /\ Shake!Next /\ Keeps(7)
  \/ part = "late" /\ Late!LateNext /\ Keeps(18)

EdgesSpec == EdgesInit /\ [][EdgesNext]_edgeVars

ASSUME EdgesAssumption ==
  /\ Clock!SimClockAssumption
  /\ Fields!FrameAssumption
  /\ Threads!ThreadServerAssumption
  /\ Shake!HandshakeAssumption

------------------------------------------------------------------------------
(* Properties: those of the pages are Panel's; the parts of the others are   *)
(* stated and explained in their modules.                                    *)

\* B's model is given the time that passed, those of W and R that less a day for
\* each midnight, so that their interval runs backwards there and only there;
\* E reads the tables of the day of the text it was sent; an outage lasts as
\* long as E sees its day.
ScriptsKeepTime ==
  /\ [](part = "clock" => Clock!TypeOK /\ Clock!TablesOfToday /\ Clock!OutageLastsTheDay)
  /\ [][part = "clock" => Clock!KeepsTime /\ Clock!KeepsTimeOfDay]_edgeVars

\* A text of the width foreseen is understood whatever else was sent before,
\* and no answer of short texts shows a rest of an older one.
TextsUnderstood == part = "texts" => Fields!TypeOK /\ Fields!PlainValuesUnderstood /\ Fields!ShortTextsJoined

\* A message that names a file without settings makes Tornado drop its
\* connection: the page is not left green, and its other connection goes on.
\* The prototypes: a thread never serves a connection before its own, so that
\* no client is greeted more often than connections came; and the encoder can
\* be left between any two bytes, and breaks its lines where it promises.
OthersWork ==
  /\ part = "bare page" => BarePage!GreenMeansConnected /\ BarePage!RepliesInOrder
  /\ part = "threads" => Threads!TypeOK /\ Threads!NeverEarlier /\ Threads!GreetingsBounded
  /\ part = "handshake" => Shake!TypeOK /\ Shake!RoundTrip /\ Shake!LinesFull

\* A KeepAlive that nobody waits for any more may count in a later round than
\* it was sent in; models are still given records, of ages within the bounds.
LateAnswersHarmless == part = "late" => Late!LateAnswersHarmless
==============================================================================

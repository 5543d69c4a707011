--------------------------------- MODULE Panel ---------------------------------
(***************************************************************************)
(* The operator's side of the settings path: the pages wymiennik.html and  *)
(* budynekA.html, their websockets, and the Tornado process behind them.   *)
(* A page may open a connection again and again; it forgets the old one    *)
(* but the old one's callbacks stay.  Tornado handles one message at a     *)
(* time and answers settings by repeating them, the chart by data.csv.     *)
(*                                                                         *)
(* Nastawy has the files and who reads them.  Here a message travels from  *)
(* a page to a file, and the answer back.  A page is named by the device   *)
(* its settings are for.                                                   *)
(***************************************************************************)
EXTENDS Nastawy, Sequences, FiniteSets

CONSTANTS
  MaxConnections, \* bound: connections opened by all pages
  MaxSaid,      \* bound: messages on a connection
  MaxRows,      \* bound: rows of data.csv
  BareSettings  \* whether the free text of the chart field may name a file
                \* without giving settings

ASSUME PanelAssumption ==
  /\ {MaxConnections, MaxSaid, MaxRows} \subseteq Nat
  /\ BareSettings \in BOOLEAN

Connections == 1..MaxConnections

VARIABLES
  owner,     \* the page that opened each connection
  link,      \* "none", "connecting", "open", "gone" (closed at Tornado's end,
             \* the page does not know), "closed"
  ws,        \* each page's variable ws, 0 before the first click on open
  green,     \* the colour of host, port and uri
  toServer,  \* messages under way, per connection
  toPage,
  busy,      \* the connection whose settings are being written, or 0
  rows,      \* rows of data.csv; 0: the file is not there
  said,      \* all that was sent on a connection
  heard,     \* all that was received on it
  echoed     \* per device, the settings Tornado repeated last, or Unset

linkVars == <<owner, link, ws, green>>
panelVars == <<linkVars, toServer, toPage, busy, rows, said, heard, echoed>>
vars == <<nastawyVars, panelVars>>

NastawyMsg(d, v) == [kind |-> "nastawy", dev |-> d, val |-> v]
Bare(d) == [kind |-> "bare", dev |-> d]
Chart == [kind |-> "wykres"]
Other == [kind |-> "other"]
Csv(n) == [kind |-> "csv", rows |-> n]

Texts == {Chart, Other} \cup (IF BareSettings THEN {Bare(d) : d \in Tunable} ELSE {})
Messages == Texts \cup {NastawyMsg(d, v) : d \in Tunable, v \in Settings}
Replies == {NastawyMsg(d, v) : d \in Tunable, v \in Settings} \cup {Csv(n) : n \in 1..MaxRows}

TypeOK ==
  /\ NastawyTypeOK
  /\ owner \in [Connections -> Tunable \cup {Unset}]
  /\ link \in [Connections -> {"none", "connecting", "open", "gone", "closed"}]
  /\ ws \in [Tunable -> Connections \cup {0}]
  /\ green \in [Tunable -> BOOLEAN]
  /\ \A c \in Connections :
       /\ {toServer[c], said[c]} \subseteq Seq(Messages)
       /\ {toPage[c], heard[c]} \subseteq Seq(Replies)
  /\ busy \in Connections \cup {0}
  /\ rows \in 0..MaxRows
  /\ echoed \in [Tunable -> Settings \cup {Unset}]

Init ==
  /\ NastawyInit
  /\ owner = [c \in Connections |-> Unset]
  /\ link = [c \in Connections |-> "none"]
  /\ ws = [p \in Tunable |-> 0]
  /\ green = [p \in Tunable |-> FALSE]
  /\ toServer = [c \in Connections |-> << >>]
  /\ toPage = [c \in Connections |-> << >>]
  /\ busy = 0
  /\ rows = 0
  /\ said = toServer
  /\ heard = toPage
  /\ echoed = [d \in Tunable |-> Unset]

------------------------------------------------------------------------------
(* The pages. *)

\* #open: a new socket replaces the page's variable; the old one lives on.
Open(p) ==
  \E c \in Connections :
    /\ link[c] = "none"
    /\ \A b \in Connections : b < c => link[b] # "none"
    /\ owner' = [owner EXCEPT ![c] = p]
    /\ link' = [link EXCEPT ![c] = "connecting"]
    /\ ws' = [ws EXCEPT ![p] = c]
    /\ UNCHANGED <<nastawyVars, green, toServer, toPage, busy, rows, said, heard, echoed>>

Paint(p, isGreen) == green' = [green EXCEPT ![p] = isGreen]

onopen(c) ==
  /\ link[c] = "connecting"
  /\ link' = [link EXCEPT ![c] = "open"]
  /\ Paint(owner[c], TRUE)
  /\ UNCHANGED <<nastawyVars, owner, ws, toServer, toPage, busy, rows, said, heard, echoed>>

\* Mutant: only the page's present connection paints.
OnCloseOfCurrent(c) ==
  /\ link[c] \in {"connecting", "gone"}
  /\ link' = [link EXCEPT ![c] = "closed"]
  /\ toPage' = [toPage EXCEPT ![c] = << >>]
  /\ IF ws[owner[c]] = c THEN Paint(owner[c], FALSE) ELSE UNCHANGED green
  /\ UNCHANGED <<nastawyVars, owner, ws, toServer, busy, rows, said, heard, echoed>>

\* The connection could not be made, or the page learns of its end: the page
\* turns red, whichever of its connections it was.
onclose(c) ==
  /\ link[c] \in {"connecting", "gone"}
  /\ link' = [link EXCEPT ![c] = "closed"]
  /\ toPage' = [toPage EXCEPT ![c] = << >>]
  /\ Paint(owner[c], FALSE)
  /\ UNCHANGED <<nastawyVars, owner, ws, toServer, busy, rows, said, heard, echoed>>

\* ws.send.  Before the first open, and while connecting, it throws; on a
\* connection that is closed it does nothing, on one that is gone the message
\* is lost.
Say(p, m) ==
  /\ ws[p] # 0
  /\ link[ws[p]] = "open"
  /\ Len(said[ws[p]]) < MaxSaid
  /\ toServer' = [toServer EXCEPT ![ws[p]] = Append(@, m)]
  /\ said' = [said EXCEPT ![ws[p]] = Append(@, m)]
  /\ UNCHANGED <<nastawyVars, linkVars, toPage, busy, rows, heard, echoed>>

send_nastawy(p) == \E v \in Settings : Say(p, NastawyMsg(p, v))
send_wykres(p) == \E m \in Texts : Say(p, m)

onmessage(c) ==
  /\ link[c] \in {"open", "gone"}
  /\ toPage[c] # << >>
  /\ toPage' = [toPage EXCEPT ![c] = Tail(@)]
  /\ heard' = [heard EXCEPT ![c] = Append(@, Head(toPage[c]))]
  /\ UNCHANGED <<nastawyVars, linkVars, toServer, busy, rows, said, echoed>>

\* The network or Tornado ends the connection.
Drop(c) ==
  /\ link[c] = "open"
  /\ busy # c
  /\ link' = [link EXCEPT ![c] = "gone"]
  /\ toServer' = [toServer EXCEPT ![c] = << >>]
  /\ UNCHANGED <<nastawyVars, owner, ws, green, toPage, busy, rows, said, heard, echoed>>

------------------------------------------------------------------------------
(* Tornado's on_message. *)

Next1(c, kind) ==
  /\ busy = 0
  /\ link[c] = "open"
  /\ toServer[c] # << >>
  /\ Head(toServer[c]).kind = kind

\* Mutant: the connection that Tornado serves first gets the answer.
AnswerAnyone(c, r) ==
  /\ toServer' = [toServer EXCEPT ![c] = Tail(@)]
  /\ toPage' = [toPage EXCEPT ![1] = Append(@, r)]

Answer(c, r) ==
  /\ toServer' = [toServer EXCEPT ![c] = Tail(@)]
  /\ toPage' = [toPage EXCEPT ![c] = Append(@, r)]

\* A handler that raises makes Tornado drop the connection.
Raise(c) ==
  /\ link' = [link EXCEPT ![c] = "gone"]
  /\ toServer' = [toServer EXCEPT ![c] = << >>]
  /\ UNCHANGED <<owner, ws, green, toPage>>

\* Without the file, open raises.
ReadChart(c) ==
  /\ Next1(c, "wykres")
  /\ IF rows = 0 THEN Raise(c) ELSE Answer(c, Csv(rows)) /\ UNCHANGED linkVars
  /\ UNCHANGED <<nastawyVars, busy, rows, said, heard, echoed>>

\* Mutant: the file is opened for appending.
OpenForAppend(d) == UNCHANGED nastawy

Truncate(d) == nastawy' = [nastawy EXCEPT ![d] = Empty]

BeginSettings(c) ==
  /\ Next1(c, "nastawy")
  /\ edits < MaxEdits
  /\ Truncate(Head(toServer[c]).dev)
  /\ edits' = edits + 1
  /\ busy' = c
  /\ UNCHANGED <<pi, running, linkVars, toServer, toPage, rows, said, heard, echoed>>

\* Mutant: the settings are repeated but stay in the buffer.
FinishWithoutClose ==
  /\ busy # 0
  /\ LET m == Head(toServer[busy]) IN
       /\ nastawy' = [nastawy EXCEPT ![m.dev] = CHOOSE v \in Settings : TRUE]
       /\ echoed' = [echoed EXCEPT ![m.dev] = m.val]
       /\ Answer(busy, m)
  /\ busy' = 0
  /\ UNCHANGED <<edits, pi, running, linkVars, rows, said, heard>>

FinishSettings ==
  /\ busy # 0
  /\ LET m == Head(toServer[busy]) IN
       /\ nastawy' = [nastawy EXCEPT ![m.dev] = m.val]
       /\ echoed' = [echoed EXCEPT ![m.dev] = m.val]
       /\ Answer(busy, m)
  /\ busy' = 0
  /\ UNCHANGED <<edits, pi, running, linkVars, rows, said, heard>>

\* A name without settings: params[1] raises when the file is truncated.
BareMessage(c) ==
  /\ Next1(c, "bare")
  /\ edits < MaxEdits
  /\ Truncate(Head(toServer[c]).dev)
  /\ edits' = edits + 1
  /\ Raise(c)
  /\ UNCHANGED <<pi, running, busy, rows, said, heard, echoed>>

\* Nothing is answered.
UnknownMessage(c) ==
  /\ Next1(c, "other")
  /\ toServer' = [toServer EXCEPT ![c] = Tail(@)]
  /\ UNCHANGED <<nastawyVars, linkVars, toPage, busy, rows, said, heard, echoed>>

OnMessage ==
  \/ FinishSettings
  \/ \E c \in Connections :
       ReadChart(c) \/ BeginSettings(c) \/ BareMessage(c) \/ UnknownMessage(c)

------------------------------------------------------------------------------
(* The C++ server: it writes rows and reads the settings. *)

NewRow ==
  /\ running = "up"
  /\ rows < MaxRows
  /\ rows' = rows + 1
  /\ UNCHANGED <<nastawyVars, linkVars, toServer, toPage, busy, said, heard, echoed>>

GetParams(d) ==
  /\ running = "up"
  /\ czytaj_nastawy(d)
  /\ UNCHANGED <<nastawy, edits, panelVars>>

Next ==
  \/ \E p \in Tunable : Open(p) \/ send_nastawy(p) \/ send_wykres(p) \/ GetParams(p)
  \/ \E c \in Connections : onopen(c) \/ onclose(c) \/ onmessage(c) \/ Drop(c)
  \/ OnMessage
  \/ NewRow

Spec == Init /\ [][Next]_vars

------------------------------------------------------------------------------
(* Properties. *)

\* The messages that get an answer, among the first n of s; and how many.
Answered(m) == m.kind \in {"nastawy", "wykres"}
Asked(s, n) == {i \in DOMAIN s : i <= n /\ Answered(s[i])}
Turn(s, n) == Cardinality(Asked(s, n))

\* The settings are repeated, or the rows there were are shown.
Answers(r, m) == IF m.kind = "nastawy" THEN r = m ELSE r.kind = "csv"

InOrder(s, replies) ==
  /\ Len(replies) <= Turn(s, Len(s))
  /\ \A i \in Asked(s, Len(s)) :
       Turn(s, i) <= Len(replies) => Answers(replies[Turn(s, i)], s[i])

\* Requests and answers of a connection correspond in order, whatever other
\* connections do and even after it has ended: the k-th answer is for the k-th
\* message that gets one.  While it is open there is an answer for each such
\* message that Tornado has handled.
RepliesInOrder ==
  \A c \in Connections :
    LET replies == heard[c] \o toPage[c]
    IN  /\ InOrder(said[c], replies)
        /\ link[c] = "open" =>
             Len(replies) = Turn(said[c], Len(said[c]) - Len(toServer[c]))

\* A green page has an open connection, or one whose end it has not heard of:
\* opening twice may turn it red while the new connection is open, but never
\* leaves it green without one.
GreenMeansConnected ==
  \A p \in Tunable :
    green[p] => \E c \in Connections : owner[c] = p /\ link[c] \in {"open", "gone"}

\* Whenever Tornado waits, each file holds the settings it repeated last: the
\* echo the operator sees is a promise.
FileHoldsLastEcho ==
  busy = 0 => \A d \in Tunable : echoed[d] # Unset => nastawy[d] = echoed[d]

\* Tornado and the server together behave as Nastawy says, however many
\* pages and connections there are, if settings messages are complete.
NastawySpec ==
  /\ NastawyInit
  /\ [][on_message \/ (\E d \in Tunable : czytaj_nastawy(d) /\ UNCHANGED <<nastawy, edits>>)]_nastawyVars

\* "This program will echo back the reverse of whatever it recieves": once all
\* is handled and received, there is an answer to everything said.
EverythingAnswered ==
  \A c \in Connections :
    link[c] = "open" /\ toServer[c] = << >> /\ toPage[c] = << >> =>
      Len(heard[c]) = Len(said[c])
==============================================================================

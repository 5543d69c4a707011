------------------------------ MODULE PanelProofs ------------------------------
(* What an operator may believe of a page, for any number of pages, of          *)
(* connections and of messages: its colour and the answers Tornado repeats.     *)
EXTENDS Panel, FiniteSetTheorems, TLAPS

\* What the colours rest on: an owner stays the owner.
Linked ==
  /\ owner \in [Connections -> Tunable \cup {Unset}]
  /\ link \in [Connections -> {"none", "connecting", "open", "gone", "closed"}]
  /\ green \in [Tunable -> BOOLEAN]
  /\ GreenMeansConnected

\* What the echoes rest on: between the two halves of a handler only the file
\* it writes may differ from what was repeated, and its message stays the first.
Writing(d) == busy # 0 /\ Head(toServer[busy]).dev = d

Echoes ==
  /\ nastawy \in [Tunable -> Settings \cup {Empty, NoFile}]
  /\ echoed \in [Tunable -> Settings \cup {Unset}]
  /\ toServer \in [Connections -> Seq(Messages)]
  /\ busy \in Connections \cup {0}
  /\ busy # 0 => toServer[busy] # << >> /\ Head(toServer[busy]).kind = "nastawy"
  /\ \A d \in Tunable : echoed[d] # Unset /\ ~Writing(d) => nastawy[d] = echoed[d]

------------------------------------------------------------------------------
(* Colours. *)

LEMMA InitLinked == Init => Linked
BY DEF Init, Linked, GreenMeansConnected

\* A step that opens no connection, closes none and paints no page.
LEMMA QuietLinked ==
  ASSUME Linked, UNCHANGED <<owner, green>>,
         \/ UNCHANGED link
         \/ \E c \in Connections : link[c] = "open" /\ link' = [link EXCEPT ![c] = "gone"]
  PROVE  Linked'
BY DEF Linked, GreenMeansConnected

LEMMA OpenLinked == ASSUME Linked, NEW p \in Tunable, Open(p) PROVE Linked'
BY DEF Linked, GreenMeansConnected, Open

LEMMA OnOpenLinked == ASSUME Linked, NEW c \in Connections, onopen(c) PROVE Linked'
BY DEF Linked, GreenMeansConnected, onopen, Paint

LEMMA OnCloseLinked == ASSUME Linked, NEW c \in Connections, onclose(c) PROVE Linked'
BY DEF Linked, GreenMeansConnected, onclose, Paint

LEMMA MessageLinked == ASSUME Linked, OnMessage PROVE Linked'
<1>1. CASE FinishSettings
  BY <1>1, QuietLinked DEF FinishSettings, linkVars
<1>2. ASSUME NEW c \in Connections, ReadChart(c) PROVE Linked'
  BY <1>2, QuietLinked DEF ReadChart, Next1, Raise, linkVars
<1>3. ASSUME NEW c \in Connections, BeginSettings(c) \/ UnknownMessage(c) PROVE Linked'
  BY <1>3, QuietLinked DEF BeginSettings, UnknownMessage, linkVars
<1>4. ASSUME NEW c \in Connections, BareMessage(c) PROVE Linked'
  BY <1>4, QuietLinked DEF BareMessage, Next1, Raise
<1> QED BY <1>1, <1>2, <1>3, <1>4 DEF OnMessage

LEMMA NextLinked == Linked /\ [Next]_vars => Linked'
<1> SUFFICES ASSUME Linked, [Next]_vars PROVE Linked'
  OBVIOUS
<1>1. ASSUME NEW p \in Tunable, send_nastawy(p) \/ send_wykres(p) \/ GetParams(p) PROVE Linked'
  BY <1>1, QuietLinked DEF send_nastawy, send_wykres, Say, GetParams, panelVars, linkVars
<1>2. ASSUME NEW c \in Connections, onmessage(c) PROVE Linked'
  BY <1>2, QuietLinked DEF onmessage, linkVars
<1>3. ASSUME NEW c \in Connections, Drop(c) PROVE Linked'
  BY <1>3, QuietLinked DEF Drop
<1>4. CASE NewRow \/ UNCHANGED vars
  BY <1>4, QuietLinked DEF NewRow, vars, panelVars, linkVars
<1> QED BY <1>1, <1>2, <1>3, <1>4, OpenLinked, OnOpenLinked, OnCloseLinked, MessageLinked DEF Next

\* A page is never green without a connection, however often its operator
\* clicks and in whatever order the ends of connections are heard of.
THEOREM GreenPagesAreConnected == Spec => []GreenMeansConnected
<1>1. Spec => []Linked
  BY InitLinked, NextLinked, PTL DEF Spec
<1>2. Linked => GreenMeansConnected
  BY DEF Linked
<1> QED BY <1>1, <1>2, PTL

------------------------------------------------------------------------------
(* Echoes. *)

LEMMA InitEchoes == Init => Echoes
BY DEF Init, NastawyInit, Echoes

LEMMA NoBare == ASSUME ~BareSettings, NEW m \in Messages PROVE m.kind # "bare"
BY DEF Messages, Texts, NastawyMsg, Chart, Other

LEMMA SettingsMessage ==
  ASSUME NEW m \in Messages, m.kind = "nastawy"
  PROVE  m.dev \in Tunable /\ m.val \in Settings
BY DEF Messages, Texts, NastawyMsg, Chart, Other, Bare

\* The first message stays the first when another one is sent.
LEMMA SayEchoes == ASSUME Echoes, NEW p \in Tunable, NEW m \in Messages, Say(p, m) PROVE Echoes'
<1> DEFINE c == ws[p]
<1>1. /\ toServer' = [toServer EXCEPT ![c] = Append(toServer[c], m)]
      /\ UNCHANGED <<nastawy, echoed, busy>>
  BY DEF Say, nastawyVars
<1>2. toServer' \in [Connections -> Seq(Messages)]
  <2>1. toServer \in [Connections -> Seq(Messages)]
    BY DEF Echoes
  <2>2. c \in Connections => Append(toServer[c], m) \in Seq(Messages)
    BY <2>1
  <2> HIDE DEF c
  <2> QED BY <1>1, <2>1, <2>2
<1>3. ASSUME busy # 0
      PROVE  toServer'[busy] # << >> /\ Head(toServer'[busy]) = Head(toServer[busy])
  <2>1. toServer[busy] \in Seq(Messages) /\ toServer[busy] # << >> /\ busy \in Connections
    BY <1>3 DEF Echoes
  <2>2. toServer'[busy] = toServer[busy] \/ toServer'[busy] = Append(toServer[busy], m)
    BY <1>1, <2>1 DEF Echoes
  <2> QED BY <2>1, <2>2
<1> QED BY <1>1, <1>2, <1>3 DEF Echoes, Writing

\* While Tornado is in no handler, queues may be shortened and dropped.
LEMMA IdleEchoes ==
  ASSUME Echoes, busy = 0, UNCHANGED <<nastawy, echoed, busy>>,
         toServer' \in [Connections -> Seq(Messages)]
  PROVE  Echoes'
BY DEF Echoes, Writing

LEMMA FinishEchoes == ASSUME Echoes, FinishSettings PROVE Echoes'
<1> DEFINE m == Head(toServer[busy])
<1>1. /\ busy \in Connections /\ busy # 0 /\ busy' = 0
      /\ nastawy' = [nastawy EXCEPT ![m.dev] = m.val]
      /\ echoed' = [echoed EXCEPT ![m.dev] = m.val]
      /\ toServer' = [toServer EXCEPT ![busy] = Tail(toServer[busy])]
  BY DEF FinishSettings, Answer, Echoes
<1>2. m \in Messages /\ m.kind = "nastawy" /\ toServer[busy] # << >> /\ toServer[busy] \in Seq(Messages)
  <2>1. toServer[busy] # << >> /\ toServer[busy] \in Seq(Messages) /\ m.kind = "nastawy"
    BY <1>1 DEF Echoes
  <2> QED BY <2>1
<1>3. m.dev \in Tunable /\ m.val \in Settings
  BY <1>2, SettingsMessage
<1>4. toServer' \in [Connections -> Seq(Messages)]
  <2>1. Tail(toServer[busy]) \in Seq(Messages)
    BY <1>2
  <2> QED BY <1>1, <2>1 DEF Echoes
<1>5. \A d \in Tunable : echoed[d] # Unset /\ d # m.dev => nastawy[d] = echoed[d]
  BY DEF Echoes, Writing
<1> HIDE DEF m
<1>6. \A d \in Tunable : echoed'[d] # Unset => nastawy'[d] = echoed'[d]
  BY <1>1, <1>3, <1>5 DEF Echoes
<1>7. /\ nastawy' \in [Tunable -> Settings \cup {Empty, NoFile}]
      /\ echoed' \in [Tunable -> Settings \cup {Unset}]
  BY <1>1, <1>3 DEF Echoes
<1> QED BY <1>1, <1>4, <1>6, <1>7 DEF Echoes

\* A handler that begins empties its own file only.
LEMMA BeginEchoes == ASSUME Echoes, NEW c \in Connections, BeginSettings(c) PROVE Echoes'
<1> DEFINE e == Head(toServer[c]).dev
<1>1. /\ busy = 0 /\ busy' = c /\ UNCHANGED <<toServer, echoed>>
      /\ toServer[c] # << >> /\ Head(toServer[c]).kind = "nastawy"
      /\ nastawy' = [nastawy EXCEPT ![e] = Empty]
  BY DEF BeginSettings, Next1, Truncate
<1>2. \A d \in Tunable : d # e => nastawy'[d] = nastawy[d]
  BY <1>1 DEF Echoes
<1>3. \A d \in Tunable : ~Writing(d)' => d # e
  BY <1>1 DEF Writing, Connections
<1>4. \A d \in Tunable : echoed[d] # Unset => nastawy[d] = echoed[d]
  BY <1>1 DEF Echoes, Writing
<1>5. nastawy' \in [Tunable -> Settings \cup {Empty, NoFile}]
  BY <1>1 DEF Echoes
<1> QED BY <1>1, <1>2, <1>3, <1>4, <1>5 DEF Echoes

LEMMA MessageEchoes == ASSUME Echoes, ~BareSettings, OnMessage PROVE Echoes'
<1>1. ASSUME NEW c \in Connections, NEW kind, Next1(c, kind)
      PROVE  /\ busy = 0 /\ toServer[c] \in Seq(Messages) /\ toServer[c] # << >>
             /\ [toServer EXCEPT ![c] = Tail(toServer[c])] \in [Connections -> Seq(Messages)]
             /\ [toServer EXCEPT ![c] = << >>] \in [Connections -> Seq(Messages)]
  BY <1>1 DEF Next1, Echoes
<1>2. ASSUME NEW c \in Connections, ReadChart(c) PROVE Echoes'
  BY <1>1, <1>2, IdleEchoes DEF ReadChart, Raise, Answer, nastawyVars
<1>3. ASSUME NEW c \in Connections, UnknownMessage(c) PROVE Echoes'
  BY <1>1, <1>3, IdleEchoes DEF UnknownMessage, nastawyVars
<1>4. ASSUME NEW c \in Connections, BareMessage(c) PROVE Echoes'
  <2>1. Next1(c, "bare")
    BY <1>4 DEF BareMessage
  <2>2. Head(toServer[c]) \in Messages /\ Head(toServer[c]).kind = "bare"
    BY <1>1, <2>1 DEF Next1
  <2> QED BY <2>2, NoBare
<1> QED BY <1>2, <1>3, <1>4, FinishEchoes, BeginEchoes DEF OnMessage

\* A step that leaves alone what the echoes rest on.
LEMMA FrameEchoes == ASSUME Echoes, UNCHANGED <<nastawy, echoed, busy, toServer>> PROVE Echoes'
BY DEF Echoes, Writing

LEMMA NextEchoes == ~BareSettings /\ Echoes /\ [Next]_vars => Echoes'
<1> SUFFICES ASSUME ~BareSettings, Echoes, [Next]_vars PROVE Echoes'
  OBVIOUS
<1>1. ASSUME NEW p \in Tunable, send_nastawy(p) \/ send_wykres(p) PROVE Echoes'
  BY <1>1, SayEchoes DEF send_nastawy, send_wykres, Messages
<1>2. ASSUME NEW c \in Connections, Drop(c) PROVE Echoes'
  <2>1. /\ busy # c /\ UNCHANGED <<nastawy, echoed, busy>>
        /\ toServer' = [toServer EXCEPT ![c] = << >>]
    BY <1>2 DEF Drop, nastawyVars
  <2>2. toServer' \in [Connections -> Seq(Messages)]
    BY <2>1 DEF Echoes
  <2> QED BY <2>1, <2>2 DEF Echoes, Writing
<1>3. ASSUME NEW p \in Tunable, Open(p) \/ GetParams(p) PROVE Echoes'
  BY <1>3, FrameEchoes DEF Open, GetParams, nastawyVars, panelVars
<1>4. ASSUME NEW c \in Connections, onopen(c) \/ onclose(c) \/ onmessage(c) PROVE Echoes'
  BY <1>4, FrameEchoes DEF onopen, onclose, onmessage, nastawyVars
<1>5. CASE NewRow \/ UNCHANGED vars
  BY <1>5, FrameEchoes DEF NewRow, vars, panelVars, nastawyVars
<1> QED BY <1>1, <1>2, <1>3, <1>4, <1>5, MessageEchoes DEF Next

\* The settings repeated to an operator are in the file whenever Tornado waits,
\* unless a name comes without settings.
THEOREM EchoesAreKept == ASSUME ~BareSettings PROVE Spec => []FileHoldsLastEcho
<1>0. Echoes /\ [Next]_vars => Echoes'
  BY NextEchoes
<1>1. Spec => []Echoes
  BY InitEchoes, <1>0, PTL DEF Spec
<1>2. Echoes => FileHoldsLastEcho
  BY DEF Echoes, Writing, FileHoldsLastEcho
<1> QED BY <1>1, <1>2, PTL

------------------------------------------------------------------------------
(* Tornado and the server as Nastawy has them. *)

\* A file is empty exactly while its handler runs.
EmptyWhileWriting == \A d \in Tunable : nastawy[d] = Empty <=> Writing(d)

\* What the rest of the panel sees of a step: nothing, or a step of Nastawy.
NastawyStep ==
  [on_message \/ (\E d \in Tunable : czytaj_nastawy(d) /\ UNCHANGED <<nastawy, edits>>)]_nastawyVars

LEMMA InitEmpty == Init => EmptyWhileWriting
BY NastawyAssumption DEF Init, NastawyInit, EmptyWhileWriting, Writing

LEMMA FinishImplements ==
  ASSUME Echoes, EmptyWhileWriting, FinishSettings
  PROVE  EmptyWhileWriting' /\ NastawyStep
<1> DEFINE m == Head(toServer[busy])
<1>1. /\ busy # 0 /\ busy' = 0
      /\ nastawy' = [nastawy EXCEPT ![m.dev] = m.val]
      /\ UNCHANGED <<edits, pi, running>>
  BY DEF FinishSettings
<1>2. m \in Messages /\ m.kind = "nastawy"
  <2>1. toServer[busy] # << >> /\ toServer[busy] \in Seq(Messages) /\ m.kind = "nastawy"
    BY <1>1 DEF Echoes
  <2> QED BY <2>1
<1>3. m.dev \in Tunable /\ m.val \in Settings
  BY <1>2, SettingsMessage
<1>4. \A d \in Tunable : nastawy[d] = Empty <=> d = m.dev
  BY <1>1 DEF EmptyWhileWriting, Writing
<1> HIDE DEF m
<1>5. WriteSettings(m.dev)
  BY <1>1, <1>3, <1>4 DEF WriteSettings
<1>6. \A d \in Tunable : nastawy'[d] # Empty
  BY <1>1, <1>3, <1>4, NastawyAssumption DEF Echoes
<1>7. EmptyWhileWriting'
  BY <1>1, <1>6 DEF EmptyWhileWriting, Writing
<1> QED BY <1>3, <1>5, <1>7 DEF NastawyStep, on_message

LEMMA BeginImplements ==
  ASSUME Echoes, EmptyWhileWriting, NEW c \in Connections, BeginSettings(c)
  PROVE  EmptyWhileWriting' /\ NastawyStep
<1> DEFINE m == Head(toServer[c])
<1>1. /\ busy = 0 /\ busy' = c /\ toServer' = toServer /\ edits < MaxEdits /\ edits' = edits + 1
      /\ nastawy' = [nastawy EXCEPT ![m.dev] = Empty]
      /\ UNCHANGED <<pi, running>>
      /\ toServer[c] # << >> /\ m.kind = "nastawy"
  BY DEF BeginSettings, Next1, Truncate
<1>2. m \in Messages
  <2>1. toServer[c] \in Seq(Messages) /\ toServer[c] # << >>
    BY <1>1 DEF Echoes
  <2> QED BY <2>1
<1>3. m.dev \in Tunable
  BY <1>1, <1>2, SettingsMessage
<1>4. \A d \in Tunable : nastawy[d] # Empty
  BY <1>1 DEF EmptyWhileWriting, Writing
<1>5. \A d \in Tunable : Writing(d)' <=> d = m.dev
  BY <1>1 DEF Writing, Connections
<1> HIDE DEF m
<1>6. OpenSettings(m.dev)
  BY <1>1, <1>4 DEF OpenSettings
<1>7. \A d \in Tunable : nastawy'[d] = Empty <=> d = m.dev
  BY <1>1, <1>3, <1>4 DEF Echoes
<1>8. EmptyWhileWriting'
  BY <1>5, <1>7 DEF EmptyWhileWriting
<1> QED BY <1>3, <1>6, <1>8 DEF NastawyStep, on_message

\* A step that touches no file and leaves the handler where it is.
LEMMA QuietImplements ==
  ASSUME Echoes, EmptyWhileWriting, UNCHANGED <<nastawy, busy>>,
         busy # 0 => Head(toServer'[busy]) = Head(toServer[busy])
  PROVE  EmptyWhileWriting'
BY DEF EmptyWhileWriting, Writing

LEMMA NextImplements == ~BareSettings /\ Echoes /\ EmptyWhileWriting /\ [Next]_vars => EmptyWhileWriting' /\ NastawyStep
<1> SUFFICES ASSUME ~BareSettings, Echoes, EmptyWhileWriting, [Next]_vars
             PROVE  EmptyWhileWriting' /\ NastawyStep
  OBVIOUS
<1>1. ASSUME NEW p \in Tunable, NEW m \in Messages, Say(p, m) PROVE EmptyWhileWriting' /\ NastawyStep
  <2>1. UNCHANGED nastawyVars /\ UNCHANGED busy
    BY <1>1 DEF Say
  <2>2. ASSUME busy # 0 PROVE Head(toServer'[busy]) = Head(toServer[busy])
    <3>1. toServer[busy] \in Seq(Messages) /\ toServer[busy] # << >> /\ busy \in Connections
      BY <2>2 DEF Echoes
    <3>2. toServer'[busy] = toServer[busy] \/ toServer'[busy] = Append(toServer[busy], m)
      BY <1>1, <3>1 DEF Say, Echoes
    <3> QED BY <3>1, <3>2
  <2> QED BY <2>1, <2>2, QuietImplements DEF NastawyStep, nastawyVars
<1>2. ASSUME NEW p \in Tunable, send_nastawy(p) \/ send_wykres(p) PROVE EmptyWhileWriting' /\ NastawyStep
  BY <1>1, <1>2 DEF send_nastawy, send_wykres, Messages
<1>3. ASSUME NEW c \in Connections, Drop(c) PROVE EmptyWhileWriting' /\ NastawyStep
  <2>1. UNCHANGED nastawyVars /\ UNCHANGED busy /\ busy # c /\ toServer' = [toServer EXCEPT ![c] = << >>]
    BY <1>3 DEF Drop
  <2> QED BY <2>1, QuietImplements DEF NastawyStep, nastawyVars, Echoes
<1>4. ASSUME NEW c \in Connections, ReadChart(c) \/ UnknownMessage(c) PROVE EmptyWhileWriting' /\ NastawyStep
  <2>1. UNCHANGED nastawyVars /\ UNCHANGED busy /\ busy = 0
    BY <1>4 DEF ReadChart, UnknownMessage, Next1
  <2> QED BY <2>1, QuietImplements DEF NastawyStep, nastawyVars
<1>5. ASSUME NEW c \in Connections, BareMessage(c) PROVE EmptyWhileWriting' /\ NastawyStep
  <2>1. toServer[c] \in Seq(Messages) /\ toServer[c] # << >> /\ Head(toServer[c]).kind = "bare"
    BY <1>5 DEF BareMessage, Next1, Echoes
  <2>2. Head(toServer[c]) \in Messages
    BY <2>1
  <2> QED BY <2>1, <2>2, NoBare
<1>6. ASSUME NEW p \in Tunable, GetParams(p) PROVE EmptyWhileWriting' /\ NastawyStep
  <2>1. czytaj_nastawy(p) /\ UNCHANGED <<nastawy, edits>> /\ UNCHANGED <<busy, toServer>>
    BY <1>6 DEF GetParams, panelVars
  <2> QED BY <2>1, QuietImplements DEF NastawyStep
<1>7. ASSUME NEW p \in Tunable, Open(p) PROVE EmptyWhileWriting' /\ NastawyStep
  BY <1>7, QuietImplements DEF Open, NastawyStep, nastawyVars
<1>8. ASSUME NEW c \in Connections, onopen(c) \/ onclose(c) \/ onmessage(c) PROVE EmptyWhileWriting' /\ NastawyStep
  BY <1>8, QuietImplements DEF onopen, onclose, onmessage, NastawyStep, nastawyVars
<1>9. CASE NewRow \/ UNCHANGED vars
  BY <1>9, QuietImplements DEF NewRow, vars, panelVars, NastawyStep, nastawyVars
<1> QED BY <1>2, <1>3, <1>4, <1>5, <1>6, <1>7, <1>8, <1>9, FinishImplements, BeginImplements DEF Next, OnMessage

\* However many pages and connections there are: if each message that names a
\* file gives settings, Tornado and the server behave towards the files as
\* Nastawy says.
THEOREM PanelImplementsNastawy == ASSUME ~BareSettings PROVE Spec => NastawySpec
<1>0. Echoes /\ [Next]_vars => Echoes'
  BY NextEchoes
<1>1. Spec => []Echoes
  BY InitEchoes, <1>0, PTL DEF Spec
<1>2. Echoes /\ EmptyWhileWriting /\ [Next]_vars => EmptyWhileWriting' /\ NastawyStep
  BY NextImplements
<1>3. Spec => [][NastawyStep]_nastawyVars
  BY InitEmpty, <1>1, <1>2, PTL DEF Spec
<1>4. Init => NastawyInit
  BY DEF Init
<1> QED BY <1>3, <1>4, PTL DEF Spec, NastawySpec, NastawyStep

------------------------------------------------------------------------------
(* Replies. *)

LEMMA TurnType ==
  ASSUME NEW s \in Seq(Messages), NEW n \in Int
  PROVE  IsFiniteSet(Asked(s, n)) /\ Turn(s, n) \in Nat
<1>1. IsFiniteSet(1..Len(s))
  BY FS_Interval
<1>2. Asked(s, n) \in SUBSET (1..Len(s))
  BY DEF Asked
<1>3. IsFiniteSet(Asked(s, n))
  BY <1>1, <1>2, FS_Subset
<1> QED BY <1>3, FS_CardinalityType DEF Turn

\* A message counts if it gets an answer.
LEMMA TurnNext ==
  ASSUME NEW s \in Seq(Messages), NEW n \in 0..(Len(s) - 1)
  PROVE  Turn(s, n + 1) = Turn(s, n) + (IF Answered(s[n + 1]) THEN 1 ELSE 0)
<1>1. n + 1 \in DOMAIN s /\ n + 1 \notin Asked(s, n)
  BY DEF Asked
<1>2. CASE Answered(s[n + 1])
  <2>1. Asked(s, n + 1) = Asked(s, n) \cup {n + 1}
    BY <1>1, <1>2 DEF Asked
  <2>2. IsFiniteSet(Asked(s, n)) /\ Turn(s, n) \in Nat
    BY TurnType
  <2>3. Cardinality(Asked(s, n) \cup {n + 1}) = Cardinality(Asked(s, n)) + 1
    BY <1>1, <2>2, FS_AddElement
  <2> QED BY <1>2, <2>1, <2>3 DEF Turn
<1>3. CASE ~Answered(s[n + 1])
  <2>1. Asked(s, n + 1) = Asked(s, n)
    BY <1>1, <1>3 DEF Asked
  <2> QED BY <1>3, <2>1, TurnType DEF Turn
<1> QED BY <1>2, <1>3

LEMMA TurnGrows ==
  ASSUME NEW s \in Seq(Messages), NEW m \in Int, NEW n \in Int, m <= n
  PROVE  Turn(s, m) <= Turn(s, n)
<1>1. Asked(s, m) \in SUBSET Asked(s, n)
  BY DEF Asked
<1> QED BY <1>1, TurnType, FS_Subset DEF Turn

\* No two messages that get an answer have the same turn.
LEMMA TurnLater ==
  ASSUME NEW s \in Seq(Messages), NEW n \in Int, NEW i \in DOMAIN s, n < i, Answered(s[i])
  PROVE  Turn(s, n) < Turn(s, i)
<1>1. i - 1 \in 0..(Len(s) - 1) /\ n <= i - 1 /\ i = (i - 1) + 1
  OBVIOUS
<1>2. Turn(s, i) = Turn(s, i - 1) + 1
  BY <1>1, TurnNext
<1>3. Turn(s, n) <= Turn(s, i - 1)
  BY <1>1, TurnGrows
<1>4. Turn(s, n) \in Nat /\ Turn(s, i - 1) \in Nat
  BY <1>1, TurnType
<1> QED BY <1>2, <1>3, <1>4

LEMMA TurnStays ==
  ASSUME NEW s \in Seq(Messages), NEW m \in Messages, NEW n \in 0..Len(s)
  PROVE  Turn(Append(s, m), n) = Turn(s, n)
<1>1. /\ DOMAIN s = 1..Len(s) /\ DOMAIN Append(s, m) = 1..(Len(s) + 1) /\ Len(s) \in Nat
      /\ \A i \in 1..Len(s) : Append(s, m)[i] = s[i]
  OBVIOUS
<1>2. \A i : i \in Asked(Append(s, m), n) <=> i \in Asked(s, n)
  BY <1>1 DEF Asked
<1>3. Asked(Append(s, m), n) = Asked(s, n)
  BY <1>2 DEF Asked
<1> QED BY <1>3 DEF Turn

\* What is left of what was said.
Suffix(q, s) == Len(q) <= Len(s) /\ \A i \in 1..Len(q) : q[i] = s[Len(s) - Len(q) + i]

\* A connection in a state l, on which s was said, of which q is not handled,
\* and which was answered by r.
Ordered(l, s, q, r) ==
  /\ s \in Seq(Messages) /\ q \in Seq(Messages) /\ r \in Seq(Replies)
  /\ InOrder(s, r)
  /\ IF l = "open" THEN Suffix(q, s) /\ Len(r) = Turn(s, Len(s) - Len(q)) ELSE q = << >>
  /\ l \in {"none", "connecting"} => s = << >>

LEMMA SayOrdered ==
  ASSUME NEW s, NEW q, NEW r, Ordered("open", s, q, r), NEW m \in Messages
  PROVE  Ordered("open", Append(s, m), Append(q, m), r)
<1> DEFINE t == Append(s, m)
           n == Len(s)
<1>1. /\ s \in Seq(Messages) /\ q \in Seq(Messages) /\ r \in Seq(Replies)
      /\ n \in Nat /\ Len(q) \in Nat /\ Len(q) <= n /\ Len(r) \in Nat
  BY DEF Ordered, Suffix
<1>2. /\ t \in Seq(Messages) /\ Append(q, m) \in Seq(Messages)
      /\ Len(t) = n + 1 /\ Len(Append(q, m)) = Len(q) + 1
      /\ \A i \in 1..n : t[i] = s[i]
      /\ t[n + 1] = m /\ DOMAIN s = 1..n /\ DOMAIN t = 1..(n + 1)
      /\ \A i \in 1..Len(q) : Append(q, m)[i] = q[i]
      /\ Append(q, m)[Len(q) + 1] = m
  BY <1>1
<1>3. \A i \in 0..n : Turn(t, i) = Turn(s, i)
  BY <1>1, TurnStays
<1> HIDE DEF t, n
<1>4. Suffix(Append(q, m), t)
  <2>1. ASSUME NEW i \in 1..Len(q) PROVE q[i] = t[n - Len(q) + i]
    <3>1. q[i] = s[n - Len(q) + i]
      BY DEF Ordered, Suffix, n
    <3>2. n - Len(q) + i \in 1..n
      BY <1>1
    <3> QED BY <1>2, <3>1, <3>2
  <2>2. Len(t) - Len(Append(q, m)) = n - Len(q) /\ n - Len(q) + (Len(q) + 1) = n + 1
    BY <1>1, <1>2
  <2>3. ASSUME NEW i \in 1..Len(Append(q, m)) PROVE Append(q, m)[i] = t[n - Len(q) + i]
    <3>1. i \in 1..Len(q) \/ i = Len(q) + 1
      BY <1>1, <1>2
    <3>2. CASE i \in 1..Len(q)
      BY <1>2, <2>1, <3>2
    <3>3. CASE i = Len(q) + 1
      BY <1>2, <2>2, <3>3
    <3> QED BY <3>1, <3>2, <3>3
  <2>4. Len(Append(q, m)) <= Len(t)
    BY <1>1, <1>2
  <2> QED BY <2>2, <2>3, <2>4 DEF Suffix
<1>5. Len(r) = Turn(t, Len(t) - Len(Append(q, m)))
  <2>1. Len(t) - Len(Append(q, m)) = n - Len(q) /\ n - Len(q) \in 0..n
    BY <1>1, <1>2
  <2>2. Turn(t, n - Len(q)) = Turn(s, n - Len(q))
    BY <1>3, <2>1
  <2> QED BY <2>1, <2>2 DEF Ordered, n
<1>6. Len(r) <= Turn(t, n)
  <2>1. Turn(t, n) = Turn(s, n)
    BY <1>1, <1>3
  <2> QED BY <2>1 DEF Ordered, InOrder, n
<1>7. InOrder(t, r)
  <2>1. Turn(t, n) \in Nat /\ Turn(t, n + 1) \in Nat /\ Turn(t, n) <= Turn(t, n + 1)
    BY <1>1, <1>2, TurnType, TurnGrows
  <2>2. Len(r) <= Turn(t, n + 1)
    BY <1>1, <1>6, <2>1
  <2>3. ASSUME NEW i \in 1..n, Answered(s[i]), Turn(t, i) <= Len(r)
        PROVE  Answers(r[Turn(t, i)], t[i])
    <3>1. Turn(t, i) = Turn(s, i)
      BY <1>1, <1>3
    <3>2. i \in Asked(s, n)
      BY <1>1, <1>2, <2>3 DEF Asked
    <3> QED BY <1>2, <2>3, <3>1, <3>2 DEF Ordered, InOrder, n
  <2>4. ASSUME Answered(m) PROVE ~(Turn(t, n + 1) <= Len(r))
    <3>1. n + 1 \in DOMAIN t /\ n \in Int /\ n < n + 1 /\ Answered(t[n + 1])
      BY <1>1, <1>2, <2>4
    <3>2. Turn(t, n) < Turn(t, n + 1)
      BY <1>2, <3>1, TurnLater
    <3> QED BY <1>1, <1>6, <2>1, <3>2
  <2>5. \A i \in Asked(t, n + 1) : (i \in 1..n /\ Answered(s[i])) \/ (i = n + 1 /\ Answered(m))
    <3> SUFFICES ASSUME NEW i \in Asked(t, n + 1)
                 PROVE  (i \in 1..n /\ Answered(s[i])) \/ (i = n + 1 /\ Answered(m))
      OBVIOUS
    <3>1. i \in 1..(n + 1) /\ Answered(t[i])
      BY <1>2 DEF Asked
    <3>2. i \in 1..n \/ i = n + 1
      BY <1>1, <3>1
    <3>3. CASE i \in 1..n
      <4>1. t[i] = s[i]
        BY <1>2, <3>3
      <4> QED BY <3>1, <3>3, <4>1 DEF Answered
    <3>4. CASE i = n + 1
      BY <1>2, <3>1, <3>4
    <3> QED BY <3>2, <3>3, <3>4
  <2> QED BY <1>2, <2>2, <2>3, <2>4, <2>5 DEF InOrder
<1> QED BY <1>1, <1>2, <1>4, <1>5, <1>7 DEF Ordered, t

\* The first message of the queue is the next that was said.
LEMMA HeadOrdered ==
  ASSUME NEW s, NEW q, NEW r, Ordered("open", s, q, r), q # << >>
  PROVE  LET k == Len(s) - Len(q) IN
         /\ k \in 0..(Len(s) - 1) /\ Head(q) = s[k + 1]
         /\ Tail(q) \in Seq(Messages) /\ Suffix(Tail(q), s) /\ Len(s) - Len(Tail(q)) = k + 1
<1>1. s \in Seq(Messages) /\ q \in Seq(Messages) /\ Suffix(q, s)
  BY DEF Ordered
<1>2. /\ Len(q) \in Nat /\ Len(q) > 0 /\ Len(s) \in Nat /\ Head(q) = q[1]
      /\ Tail(q) \in Seq(Messages) /\ Len(Tail(q)) = Len(q) - 1
      /\ \A i \in 1..(Len(q) - 1) : Tail(q)[i] = q[i + 1]
  BY <1>1
<1> QED BY <1>1, <1>2 DEF Suffix

LEMMA AnswerOrdered ==
  ASSUME NEW s, NEW q, NEW r, Ordered("open", s, q, r), q # << >>,
         NEW x \in Replies, Answered(Head(q)), Answers(x, Head(q))
  PROVE  Ordered("open", s, Tail(q), Append(r, x))
<1> DEFINE k == Len(s) - Len(q)
<1>1. /\ k \in 0..(Len(s) - 1) /\ Head(q) = s[k + 1]
      /\ Tail(q) \in Seq(Messages) /\ Suffix(Tail(q), s) /\ Len(s) - Len(Tail(q)) = k + 1
  BY HeadOrdered
<1>2. /\ s \in Seq(Messages) /\ r \in Seq(Replies) /\ Len(s) \in Nat /\ DOMAIN s = 1..Len(s)
      /\ Len(r) = Turn(s, k) /\ InOrder(s, r)
  BY DEF Ordered
<1>3. /\ Append(r, x) \in Seq(Replies) /\ Len(Append(r, x)) = Len(r) + 1 /\ Len(r) \in Nat
      /\ \A i \in 1..Len(r) : Append(r, x)[i] = r[i]
      /\ Append(r, x)[Len(r) + 1] = x
  BY <1>2
<1> HIDE DEF k
<1>4. Turn(s, k + 1) = Len(r) + 1
  BY <1>1, <1>2, TurnNext
<1>5. ASSUME NEW i \in Asked(s, Len(s)), Turn(s, i) <= Len(r) + 1
      PROVE  Answers(Append(r, x)[Turn(s, i)], s[i])
  <2>1. i \in 1..Len(s) /\ Answered(s[i])
    BY <1>2 DEF Asked
  <2>2. CASE i <= k
    <3>1. Turn(s, i) <= Len(r) /\ Turn(s, i) \in Nat
      BY <1>1, <1>2, <2>1, <2>2, TurnGrows, TurnType
    <3>2. 0 < Turn(s, i)
      <4>1. Turn(s, 0) < Turn(s, i)
        BY <1>2, <2>1, TurnLater
      <4> QED BY <1>2, <4>1, <3>1, TurnType
    <3>3. Append(r, x)[Turn(s, i)] = r[Turn(s, i)]
      BY <1>3, <3>1, <3>2
    <3> QED BY <1>2, <3>1, <3>3 DEF InOrder
  <2>3. CASE i = k + 1
    BY <1>1, <1>3, <1>4, <2>3
  <2>4. CASE k + 1 < i
    <3>1. k + 1 \in Int /\ i \in DOMAIN s
      BY <1>1, <1>2, <2>1
    <3>2. Turn(s, k + 1) < Turn(s, i) /\ Turn(s, i) \in Nat
      BY <1>2, <2>1, <2>4, <3>1, TurnLater, TurnType
    <3> QED BY <1>3, <1>4, <1>5, <3>2
  <2>5. i <= k \/ i = k + 1 \/ k + 1 < i
    BY <1>1, <2>1
  <2> QED BY <2>2, <2>3, <2>4, <2>5
<1>6. Len(r) + 1 <= Turn(s, Len(s))
  <2>1. Turn(s, k + 1) <= Turn(s, Len(s))
    BY <1>1, <1>2, TurnGrows
  <2> QED BY <1>4, <2>1
<1>7. InOrder(s, Append(r, x))
  BY <1>3, <1>5, <1>6 DEF InOrder
<1> QED BY <1>1, <1>2, <1>3, <1>4, <1>7 DEF Ordered

LEMMA SkipOrdered ==
  ASSUME NEW s, NEW q, NEW r, Ordered("open", s, q, r), q # << >>, ~Answered(Head(q))
  PROVE  Ordered("open", s, Tail(q), r)
<1> DEFINE k == Len(s) - Len(q)
<1>1. /\ k \in 0..(Len(s) - 1) /\ Head(q) = s[k + 1]
      /\ Tail(q) \in Seq(Messages) /\ Suffix(Tail(q), s) /\ Len(s) - Len(Tail(q)) = k + 1
  BY HeadOrdered
<1>2. s \in Seq(Messages) /\ Len(r) = Turn(s, k)
  BY DEF Ordered
<1> HIDE DEF k
<1>3. Turn(s, k + 1) = Turn(s, k)
  <2>1. Turn(s, k + 1) = Turn(s, k) + 0
    BY <1>1, <1>2, TurnNext
  <2>2. Turn(s, k) \in Nat
    BY <1>1, <1>2, TurnType
  <2> QED BY <2>1, <2>2
<1> QED BY <1>1, <1>2, <1>3 DEF Ordered

LEMMA EndOrdered ==
  ASSUME NEW l, NEW s, NEW q, NEW r, Ordered(l, s, q, r), l # "connecting", l # "none"
  PROVE  Ordered("gone", s, << >>, r)
BY DEF Ordered

LEMMA OpenOrdered ==
  ASSUME NEW s, NEW q, NEW r, Ordered("connecting", s, q, r)
  PROVE  Ordered("open", s, q, r)
<1>1. s = << >> /\ q = << >> /\ r \in Seq(Replies) /\ InOrder(s, r)
  BY DEF Ordered
<1>2. Asked(s, 0) = {} /\ Len(s) = 0 /\ Len(q) = 0
  BY <1>1 DEF Asked
<1>3. Turn(s, 0) = 0
  BY <1>2, FS_EmptySet DEF Turn
<1>4. Len(r) = 0
  BY <1>1, <1>2, <1>3 DEF InOrder
<1> QED BY <1>1, <1>2, <1>3, <1>4 DEF Ordered, Suffix

\* What a page has not received when a connection ends is lost.
LEMMA CloseOrdered ==
  ASSUME NEW l, NEW s, NEW q, NEW h \in Seq(Replies), NEW p \in Seq(Replies),
         l # "open", Ordered(l, s, q, h \o p)
  PROVE  Ordered("closed", s, q, h \o << >>)
<1>1. /\ h \o << >> = h /\ Len(h) \in Nat /\ Len(p) \in Nat /\ Len(h \o p) = Len(h) + Len(p)
      /\ \A i \in 1..Len(h) : (h \o p)[i] = h[i]
  OBVIOUS
<1>2. s \in Seq(Messages) /\ q = << >> /\ InOrder(s, h \o p)
  BY DEF Ordered
<1>3. InOrder(s, h)
  <2>1. Len(h) <= Turn(s, Len(s))
    BY <1>1, <1>2, TurnType DEF InOrder
  <2>2. ASSUME NEW i \in Asked(s, Len(s)), Turn(s, i) <= Len(h) PROVE Answers(h[Turn(s, i)], s[i])
    <3>1. i \in DOMAIN s /\ Answered(s[i]) /\ 0 < i /\ i \in Int
      BY <1>2 DEF Asked
    <3>2. Turn(s, i) \in 1..Len(h)
      BY <1>1, <1>2, <2>2, <3>1, TurnLater, TurnType
    <3> QED BY <1>1, <1>2, <2>2, <3>2 DEF InOrder
  <2> QED BY <2>1, <2>2 DEF InOrder
<1> QED BY <1>1, <1>2, <1>3 DEF Ordered

\* Each connection is ordered, and the handler at work has its message.
Conversations ==
  /\ link \in [Connections -> {"none", "connecting", "open", "gone", "closed"}]
  /\ {said, toServer} \subseteq [Connections -> Seq(Messages)]
  /\ {toPage, heard} \subseteq [Connections -> Seq(Replies)]
  /\ rows \in 0..MaxRows
  /\ busy \in Connections \cup {0}
  /\ busy # 0 => /\ link[busy] = "open" /\ toServer[busy] # << >>
                 /\ Head(toServer[busy]).kind = "nastawy"
  /\ \A c \in Connections :
       Ordered(link[c], said[c], toServer[c], heard[c] \o toPage[c])

LEMMA InitConversations == Init => Conversations
<1> SUFFICES ASSUME Init PROVE Conversations
  OBVIOUS
<1>1. ASSUME NEW c \in Connections
      PROVE  Ordered(link[c], said[c], toServer[c], heard[c] \o toPage[c])
  <2>1. /\ link[c] = "none" /\ said[c] = << >> /\ toServer[c] = << >>
        /\ heard[c] \o toPage[c] = << >>
    BY DEF Init
  <2>2. Asked(<< >>, 0) = {} /\ Len(<< >>) = 0
    BY DEF Asked
  <2>3. Turn(<< >>, 0) = 0
    BY <2>2, FS_EmptySet DEF Turn
  <2> QED BY <2>1, <2>2, <2>3 DEF Ordered, InOrder
<1>2. rows \in 0..MaxRows
  BY PanelAssumption DEF Init
<1> QED BY <1>1, <1>2 DEF Init, Conversations

\* A step at one connection, while no handler has it.
LEMMA OneConversation ==
  ASSUME Conversations, NEW c \in Connections, rows' = rows, busy' = busy, busy # c,
         NEW l \in {"none", "connecting", "open", "gone", "closed"},
         NEW s \in Seq(Messages), NEW q \in Seq(Messages),
         NEW p \in Seq(Replies), NEW h \in Seq(Replies),
         link' = [link EXCEPT ![c] = l], said' = [said EXCEPT ![c] = s],
         toServer' = [toServer EXCEPT ![c] = q], toPage' = [toPage EXCEPT ![c] = p],
         heard' = [heard EXCEPT ![c] = h],
         Ordered(l, s, q, h \o p)
  PROVE  Conversations'
<1>1. /\ link' \in [Connections -> {"none", "connecting", "open", "gone", "closed"}]
      /\ {said', toServer'} \subseteq [Connections -> Seq(Messages)]
      /\ {toPage', heard'} \subseteq [Connections -> Seq(Replies)]
  BY DEF Conversations
<1>2. \A b \in Connections \ {c} :
        /\ link'[b] = link[b] /\ said'[b] = said[b] /\ toServer'[b] = toServer[b]
        /\ toPage'[b] = toPage[b] /\ heard'[b] = heard[b]
  BY DEF Conversations
<1>3. /\ link'[c] = l /\ said'[c] = s /\ toServer'[c] = q /\ toPage'[c] = p /\ heard'[c] = h
  BY DEF Conversations
<1>4. \A b \in Connections : Ordered(link[b], said[b], toServer[b], heard[b] \o toPage[b])'
  BY <1>2, <1>3 DEF Conversations
<1> QED BY <1>1, <1>2, <1>4 DEF Conversations

LEMMA FrameConversations ==
  ASSUME Conversations, rows' \in 0..MaxRows,
         UNCHANGED <<link, said, toServer, toPage, heard, busy>>
  PROVE  Conversations'
BY DEF Conversations

LEMMA ConversationTypes ==
  ASSUME Conversations, NEW c \in Connections
  PROVE  /\ link[c] \in {"none", "connecting", "open", "gone", "closed"}
         /\ said[c] \in Seq(Messages) /\ toServer[c] \in Seq(Messages)
         /\ toPage[c] \in Seq(Replies) /\ heard[c] \in Seq(Replies)
         /\ link = [link EXCEPT ![c] = link[c]] /\ said = [said EXCEPT ![c] = said[c]]
         /\ toServer = [toServer EXCEPT ![c] = toServer[c]]
         /\ toPage = [toPage EXCEPT ![c] = toPage[c]]
         /\ heard = [heard EXCEPT ![c] = heard[c]]
         /\ Ordered(link[c], said[c], toServer[c], heard[c] \o toPage[c])
BY DEF Conversations

LEMMA SayConversations ==
  ASSUME Conversations, NEW p \in Tunable, ws \in [Tunable -> Connections \cup {0}],
         NEW m \in Messages, Say(p, m)
  PROVE  Conversations'
<1> DEFINE c == ws[p]
<1>1. /\ c \in Connections /\ link[c] = "open"
      /\ toServer' = [toServer EXCEPT ![c] = Append(toServer[c], m)]
      /\ said' = [said EXCEPT ![c] = Append(said[c], m)]
      /\ UNCHANGED <<link, toPage, heard, busy, rows>>
  BY DEF Say, linkVars
<1>2. \A b \in Connections \ {c} :
        said'[b] = said[b] /\ toServer'[b] = toServer[b]
  BY <1>1 DEF Conversations
<1> HIDE DEF c
<1>3. /\ said[c] \in Seq(Messages) /\ toServer[c] \in Seq(Messages)
      /\ Ordered("open", said[c], toServer[c], heard[c] \o toPage[c])
  BY <1>1, ConversationTypes
<1>4. Ordered("open", Append(said[c], m), Append(toServer[c], m), heard[c] \o toPage[c])
  BY <1>3, SayOrdered
<1>5. /\ said'[c] = Append(said[c], m) /\ toServer'[c] = Append(toServer[c], m)
      /\ Append(said[c], m) \in Seq(Messages) /\ Append(toServer[c], m) \in Seq(Messages)
  BY <1>1, <1>3 DEF Conversations
<1>6. {said', toServer'} \subseteq [Connections -> Seq(Messages)]
  BY <1>1, <1>5 DEF Conversations
<1>7. busy # 0 => toServer'[busy] # << >> /\ Head(toServer'[busy]) = Head(toServer[busy])
  <2> SUFFICES ASSUME busy # 0
               PROVE  toServer'[busy] # << >> /\ Head(toServer'[busy]) = Head(toServer[busy])
    OBVIOUS
  <2>1. busy \in Connections /\ toServer[busy] \in Seq(Messages) /\ toServer[busy] # << >>
    BY DEF Conversations
  <2>2. toServer'[busy] = toServer[busy] \/ toServer'[busy] = Append(toServer[busy], m)
    BY <1>2, <1>5, <2>1
  <2> QED BY <2>1, <2>2
<1>8. \A b \in Connections : Ordered(link[b], said[b], toServer[b], heard[b] \o toPage[b])'
  BY <1>1, <1>2, <1>4, <1>5 DEF Conversations
<1> QED BY <1>1, <1>6, <1>7, <1>8 DEF Conversations

LEMMA UnderWay ==
  ASSUME NEW S, NEW h \in Seq(S), NEW p \in Seq(S), NEW x \in S
  PROVE  h \o Append(p, x) = Append(h \o p, x)
OBVIOUS

LEMMA Arrived ==
  ASSUME NEW S, NEW h \in Seq(S), NEW p \in Seq(S), p # << >>
  PROVE  Append(h, Head(p)) \o Tail(p) = h \o p /\ Append(h, Head(p)) \in Seq(S)
OBVIOUS

\* Tornado answers the first message of a connection.
LEMMA AnswerConversations ==
  ASSUME Conversations, NEW c \in Connections, link[c] = "open", toServer[c] # << >>,
         NEW x \in Replies, Answered(Head(toServer[c])), Answers(x, Head(toServer[c])),
         Answer(c, x), UNCHANGED <<link, said, heard, rows>>,
         busy' = 0
  PROVE  Conversations'
<1>1. /\ said[c] \in Seq(Messages) /\ toServer[c] \in Seq(Messages)
      /\ toPage[c] \in Seq(Replies) /\ heard[c] \in Seq(Replies)
      /\ Ordered("open", said[c], toServer[c], heard[c] \o toPage[c])
  BY ConversationTypes
<1>2. /\ Tail(toServer[c]) \in Seq(Messages) /\ Append(toPage[c], x) \in Seq(Replies)
      /\ heard[c] \o Append(toPage[c], x) = Append(heard[c] \o toPage[c], x)
  <2>1. heard[c] \o Append(toPage[c], x) = Append(heard[c] \o toPage[c], x)
    <3>1. heard[c] \in Seq(Replies) /\ toPage[c] \in Seq(Replies)
      BY <1>1
    <3> DEFINE h == heard[c]
               p == toPage[c]
    <3>2. h \in Seq(Replies) /\ p \in Seq(Replies)
      BY <3>1
    <3> HIDE DEF h, p
    <3>3. h \o Append(p, x) = Append(h \o p, x)
      BY <3>2, UnderWay
    <3> QED BY <3>3 DEF h, p
  <2> QED BY <1>1, <2>1
<1>3. Ordered("open", said[c], Tail(toServer[c]), heard[c] \o Append(toPage[c], x))
  BY <1>1, <1>2, AnswerOrdered
<1>4. /\ toServer' = [toServer EXCEPT ![c] = Tail(toServer[c])]
      /\ toPage' = [toPage EXCEPT ![c] = Append(toPage[c], x)]
  BY DEF Answer
<1>5. /\ toServer' \in [Connections -> Seq(Messages)] /\ toPage' \in [Connections -> Seq(Replies)]
      /\ toServer'[c] = Tail(toServer[c]) /\ toPage'[c] = Append(toPage[c], x)
      /\ \A b \in Connections \ {c} : toServer'[b] = toServer[b] /\ toPage'[b] = toPage[b]
  BY <1>2, <1>4 DEF Conversations
<1>6. \A b \in Connections : Ordered(link[b], said[b], toServer[b], heard[b] \o toPage[b])'
  BY <1>3, <1>5 DEF Conversations
<1> QED BY <1>5, <1>6 DEF Conversations

\* A page receives an answer: it was under way and is now heard.
LEMMA HearConversations ==
  ASSUME Conversations, NEW c \in Connections, onmessage(c)
  PROVE  Conversations'
<1>1. /\ said[c] \in Seq(Messages) /\ toServer[c] \in Seq(Messages)
      /\ toPage[c] \in Seq(Replies) /\ heard[c] \in Seq(Replies) /\ toPage[c] # << >>
      /\ Ordered(link[c], said[c], toServer[c], heard[c] \o toPage[c])
  BY ConversationTypes DEF onmessage
<1>2. Head(toPage[c]) \in Replies /\ Tail(toPage[c]) \in Seq(Replies)
  BY <1>1
<1>3. /\ Append(heard[c], Head(toPage[c])) \in Seq(Replies)
      /\ Append(heard[c], Head(toPage[c])) \o Tail(toPage[c]) = heard[c] \o toPage[c]
  BY <1>1, Arrived
<1>4. /\ toPage' = [toPage EXCEPT ![c] = Tail(toPage[c])]
      /\ heard' = [heard EXCEPT ![c] = Append(heard[c], Head(toPage[c]))]
      /\ UNCHANGED <<link, said, toServer, rows, busy>>
  BY DEF onmessage, linkVars
<1>5. /\ toPage' \in [Connections -> Seq(Replies)] /\ heard' \in [Connections -> Seq(Replies)]
      /\ heard'[c] \o toPage'[c] = heard[c] \o toPage[c]
      /\ \A b \in Connections \ {c} : heard'[b] = heard[b] /\ toPage'[b] = toPage[b]
  BY <1>1, <1>2, <1>3, <1>4 DEF Conversations
<1>6. \A b \in Connections : Ordered(link[b], said[b], toServer[b], heard[b] \o toPage[b])'
  BY <1>4, <1>5 DEF Conversations
<1> QED BY <1>4, <1>5, <1>6 DEF Conversations

\* A connection is begun or made.
LEMMA LinkConversations ==
  ASSUME Conversations, NEW c \in Connections, link[c] # "open",
         NEW l \in {"connecting", "open"}, link' = [link EXCEPT ![c] = l],
         Ordered(l, said[c], toServer[c], heard[c] \o toPage[c]),
         UNCHANGED <<said, toServer, toPage, heard, rows, busy>>
  PROVE  Conversations'
<1>1. link' \in [Connections -> {"none", "connecting", "open", "gone", "closed"}]
  BY DEF Conversations
<1>2. \A b \in Connections : Ordered(link[b], said[b], toServer[b], heard[b] \o toPage[b])'
  BY DEF Conversations
<1>3. busy # c
  BY DEF Conversations, Connections
<1> QED BY <1>1, <1>2, <1>3 DEF Conversations

\* A connection is dropped by the network or by a handler that raises.
LEMMA DropConversations ==
  ASSUME Conversations, NEW c \in Connections, link[c] = "open", busy # c,
         link' = [link EXCEPT ![c] = "gone"], toServer' = [toServer EXCEPT ![c] = << >>],
         UNCHANGED <<said, toPage, heard, rows, busy>>
  PROVE  Conversations'
<1>1. Ordered("gone", said[c], << >>, heard[c] \o toPage[c]) /\ << >> \in Seq(Messages)
  BY ConversationTypes, EndOrdered
<1>2. /\ said' = [said EXCEPT ![c] = said[c]] /\ toPage' = [toPage EXCEPT ![c] = toPage[c]]
      /\ heard' = [heard EXCEPT ![c] = heard[c]]
  BY ConversationTypes
<1>3. said[c] \in Seq(Messages) /\ toPage[c] \in Seq(Replies) /\ heard[c] \in Seq(Replies)
  BY ConversationTypes
<1> QED BY <1>1, <1>2, <1>3, OneConversation

LEMMA MessageConversations == ASSUME Conversations, OnMessage PROVE Conversations'
<1>1. ASSUME NEW c \in Connections, NEW kind, Next1(c, kind)
      PROVE  /\ busy = 0 /\ busy # c /\ link[c] = "open" /\ toServer[c] # << >>
             /\ Head(toServer[c]).kind = kind
  BY <1>1 DEF Next1, Connections
<1>2. CASE FinishSettings
  <2>1. /\ busy \in Connections /\ link[busy] = "open" /\ toServer[busy] # << >>
        /\ Head(toServer[busy]).kind = "nastawy" /\ toServer[busy] \in Seq(Messages)
    BY <1>2 DEF FinishSettings, Conversations
  <2>2. Head(toServer[busy]) \in Messages
    BY <2>1
  <2>3. Head(toServer[busy]) \in Replies
    BY <2>1, <2>2 DEF Messages, Texts, NastawyMsg, Chart, Other, Bare, Replies
  <2>4. /\ Answer(busy, Head(toServer[busy])) /\ busy' = 0
        /\ UNCHANGED <<link, said, heard, rows>>
    BY <1>2 DEF FinishSettings, linkVars
  <2> QED BY <2>1, <2>3, <2>4, AnswerConversations DEF Answered, Answers
<1>3. ASSUME NEW c \in Connections, ReadChart(c) PROVE Conversations'
  <2>1. /\ busy = 0 /\ busy # c /\ link[c] = "open" /\ toServer[c] # << >>
        /\ Head(toServer[c]).kind = "wykres"
        /\ UNCHANGED <<said, heard, rows, busy>>
    BY <1>1, <1>3 DEF ReadChart
  <2>2. CASE rows = 0
    BY <1>3, <2>1, <2>2, DropConversations DEF ReadChart, Raise
  <2>3. CASE rows # 0
    <3>1. Csv(rows) \in Replies /\ Csv(rows).kind = "csv"
      <4>1. rows \in 1..MaxRows
        BY <2>3, PanelAssumption DEF Conversations
      <4> QED BY <4>1 DEF Replies, Csv
    <3>2. Answer(c, Csv(rows)) /\ UNCHANGED link
      BY <1>3, <2>3 DEF ReadChart, linkVars
    <3> QED BY <2>1, <3>1, <3>2, AnswerConversations DEF Answered, Answers
  <2> QED BY <2>2, <2>3
<1>4. ASSUME NEW c \in Connections, BeginSettings(c) PROVE Conversations'
  <2>1. /\ link[c] = "open" /\ toServer[c] # << >> /\ Head(toServer[c]).kind = "nastawy"
        /\ busy' = c /\ UNCHANGED <<link, said, toServer, toPage, heard, rows>>
    BY <1>1, <1>4 DEF BeginSettings, linkVars
  <2> QED BY <2>1 DEF Conversations
<1>5. ASSUME NEW c \in Connections, BareMessage(c) PROVE Conversations'
  BY <1>1, <1>5, DropConversations DEF BareMessage, Raise
<1>6. ASSUME NEW c \in Connections, UnknownMessage(c) PROVE Conversations'
  <2>1. /\ busy # c /\ link[c] = "open" /\ toServer[c] # << >>
        /\ Head(toServer[c]).kind = "other"
        /\ toServer' = [toServer EXCEPT ![c] = Tail(toServer[c])]
        /\ UNCHANGED <<link, said, toPage, heard, rows, busy>>
    BY <1>1, <1>6 DEF UnknownMessage, linkVars
  <2>2. Ordered("open", said[c], Tail(toServer[c]), heard[c] \o toPage[c])
    BY <2>1, ConversationTypes, SkipOrdered DEF Answered
  <2>3. Tail(toServer[c]) \in Seq(Messages)
    BY <2>1, ConversationTypes
  <2>4. /\ link' = [link EXCEPT ![c] = "open"] /\ said' = [said EXCEPT ![c] = said[c]]
        /\ toPage' = [toPage EXCEPT ![c] = toPage[c]] /\ heard' = [heard EXCEPT ![c] = heard[c]]
        /\ said[c] \in Seq(Messages) /\ toPage[c] \in Seq(Replies) /\ heard[c] \in Seq(Replies)
    BY <2>1, ConversationTypes
  <2>5. busy # c /\ rows' = rows /\ busy' = busy
        /\ toServer' = [toServer EXCEPT ![c] = Tail(toServer[c])]
    BY <2>1
  <2> QED BY <2>2, <2>3, <2>4, <2>5, OneConversation
<1> QED BY <1>2, <1>3, <1>4, <1>5, <1>6 DEF OnMessage

LEMMA NextConversations ==
  ws \in [Tunable -> Connections \cup {0}] /\ Conversations /\ [Next]_vars =>
    Conversations' /\ ws' \in [Tunable -> Connections \cup {0}]
<1> SUFFICES ASSUME ws \in [Tunable -> Connections \cup {0}], Conversations, [Next]_vars
             PROVE  Conversations' /\ ws' \in [Tunable -> Connections \cup {0}]
  OBVIOUS
<1>1. ws' \in [Tunable -> Connections \cup {0}]
  BY DEF Next, Open, send_nastawy, send_wykres, GetParams, Say, onopen, onclose, onmessage,
     Drop, OnMessage, FinishSettings, ReadChart, BeginSettings, BareMessage, UnknownMessage,
     NewRow, Raise, Answer, panelVars, linkVars, vars
<1>2. ASSUME NEW p \in Tunable, Open(p) PROVE Conversations'
  <2>1. PICK c \in Connections :
          /\ link[c] = "none" /\ link' = [link EXCEPT ![c] = "connecting"]
          /\ UNCHANGED <<said, toServer, toPage, heard, rows, busy>>
    BY <1>2 DEF Open
  <2>2. Ordered("connecting", said[c], toServer[c], heard[c] \o toPage[c])
    BY <2>1, ConversationTypes DEF Ordered
  <2> QED BY <2>1, <2>2, LinkConversations
<1>3. ASSUME NEW p \in Tunable, send_nastawy(p) \/ send_wykres(p) PROVE Conversations'
  BY <1>3, SayConversations DEF send_nastawy, send_wykres, Messages
<1>4. ASSUME NEW p \in Tunable, GetParams(p) PROVE Conversations'
  BY <1>4, FrameConversations DEF GetParams, panelVars, linkVars, Conversations
<1>5. ASSUME NEW c \in Connections, onopen(c) PROVE Conversations'
  <2>1. /\ link[c] = "connecting" /\ link' = [link EXCEPT ![c] = "open"]
        /\ UNCHANGED <<said, toServer, toPage, heard, rows, busy>>
    BY <1>5 DEF onopen
  <2>2. Ordered("open", said[c], toServer[c], heard[c] \o toPage[c])
    BY <2>1, ConversationTypes, OpenOrdered
  <2> QED BY <2>1, <2>2, LinkConversations
<1>6. ASSUME NEW c \in Connections, onclose(c) PROVE Conversations'
  <2>1. /\ link[c] # "open" /\ link' = [link EXCEPT ![c] = "closed"]
        /\ toPage' = [toPage EXCEPT ![c] = << >>]
        /\ UNCHANGED <<said, toServer, heard, rows, busy>>
    BY <1>6 DEF onclose
  <2>2. Ordered("closed", said[c], toServer[c], heard[c] \o << >>)
    BY <2>1, ConversationTypes, CloseOrdered
  <2>3. busy # c /\ << >> \in Seq(Replies)
    BY <2>1 DEF Conversations, Connections
  <2>4. /\ said' = [said EXCEPT ![c] = said[c]] /\ toServer' = [toServer EXCEPT ![c] = toServer[c]]
        /\ heard' = [heard EXCEPT ![c] = heard[c]]
        /\ said[c] \in Seq(Messages) /\ toServer[c] \in Seq(Messages) /\ heard[c] \in Seq(Replies)
    BY <2>1, ConversationTypes
  <2>5. "closed" \in {"none", "connecting", "open", "gone", "closed"} /\ rows' = rows /\ busy' = busy
    BY <2>1
  <2> QED BY <2>1, <2>2, <2>3, <2>4, <2>5, OneConversation
<1>7. ASSUME NEW c \in Connections, Drop(c) PROVE Conversations'
  BY <1>7, DropConversations DEF Drop
<1>8. CASE NewRow
  <2>1. rows' \in 0..MaxRows
    BY <1>8, PanelAssumption DEF NewRow, Conversations
  <2> QED BY <1>8, <2>1, FrameConversations DEF NewRow, linkVars
<1>9. CASE UNCHANGED vars
  BY <1>9, FrameConversations DEF vars, panelVars, linkVars, Conversations
<1> QED BY <1>1, <1>2, <1>3, <1>4, <1>5, <1>6, <1>7, <1>8, <1>9, HearConversations,
           MessageConversations DEF Next

\* Whatever the other connections do, and even when a connection has ended:
\* its k-th answer is for the k-th of its messages that gets one, for any number
\* of pages, connections and messages, and settings left out or not.
THEOREM RepliesAreInOrder == Spec => []RepliesInOrder
<1> DEFINE I == ws \in [Tunable -> Connections \cup {0}] /\ Conversations
<1>1. Init => I
  BY InitConversations DEF Init
<1>2. I /\ [Next]_vars => I'
  BY NextConversations
<1>3. Conversations => RepliesInOrder
  BY DEF Conversations, RepliesInOrder, Ordered
<1> QED BY <1>1, <1>2, <1>3, PTL DEF Spec
================================================================================

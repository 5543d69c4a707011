---------------------------- MODULE HPKSSNetProofs ----------------------------
(***************************************************************************)
(* That the network between the scripts and the server is not noticed, for *)
(* any devices, sources, number of steps and length of the backlog.        *)
(***************************************************************************)
EXTENDS HPKSSNet, FiniteSetTheorems, TLAPS

------------------------------------------------------------------------------
(* HPKSS once more, with what is proved of it and of the server. *)

Proved == INSTANCE HPKSSProofs WITH
  KeepsTime <- {}, MaxRestarts <- 0, MaxLost <- 0, restarts <- 0, lost <- 0,
  starts <- 0, startedAt <- 0, MaxServerRestarts <- 0,
  pc       <- [d \in Devices |-> Where(d)],
  told     <- [d \in Devices |-> Seen(d).time],
  told_old <- [d \in Devices |-> Seen(d).old],
  inputs   <- [d \in Devices |-> Seen(d).inputs]

\* The constants are as HPKSS assumes them.
LEMMA ProvedAssumptions == 0 \in Nat /\ {} \subseteq Devices /\ 0..MaxSteps \subseteq Data
BY HPKSSNetAssumption

\* The server's inductive invariant.
Inv == TypeOK /\ BarrierDrained

LEMMA SameInv == Inv <=> Proved!Inv
BY DEF Inv, Proved!Inv, TypeOK, Proved!TypeOK, NastawyTypeOK, Proved!NastawyTypeOK,
       BarrierDrained, Proved!BarrierDrained, Record, Proved!Record

LEMMA InitInv == ServerInit => Inv
<1>1. ServerInit => Proved!ServerInit
  BY DEF ServerInit, Proved!ServerInit, NastawyInit, Proved!NastawyInit
<1> QED
  BY <1>1, SameInv, Proved!InitInv, ProvedAssumptions, NastawyAssumption, ServerAssumption

LEMMA StepInv == Inv /\ [ServerNext]_serverVars => Inv'
<1> USE DEF EndOfCommand, CompleteRound, allClientsSentData, allClientsConnected,
           resetConnectionsTable, resetSentDataTable, fastForwardTimeInMinutes,
           updateDeviceValues, printAllData, nastawyVars, Proved!EndOfCommand,
           Proved!CompleteRound, Proved!allClientsSentData, Proved!allClientsConnected,
           Proved!resetConnectionsTable, Proved!resetSentDataTable,
           Proved!fastForwardTimeInMinutes, Proved!updateDeviceValues,
           Proved!printAllData, Proved!nastawyVars
<1>1. ASSUME NEW d \in Devices, NEW x \in Data
      PROVE  SendData(d, x) => Proved!SendData(d, x)
  BY DEF SendData, Proved!SendData
<1>2. ASSUME NEW d \in Devices, GetParams(d) PROVE Proved!GetParams(d)
  BY <1>2 DEF GetParams, czytaj_nastawy, ReadWhole, ReadNothing, ReadTorn, Proved!GetParams,
         Proved!czytaj_nastawy, Proved!ReadWhole, Proved!ReadNothing, Proved!ReadTorn
<1>3. /\ SendDataStranger => Proved!SendDataStranger
      /\ closeServer => Proved!closeServer
      /\ \A d \in Devices : /\ SendPart(d) => Proved!SendPart(d)
                            /\ SendPartUnchecked(d) => Proved!SendPartUnchecked(d)
      /\ UNCHANGED barrierVars => UNCHANGED Proved!barrierVars
      /\ UNCHANGED serverVars => UNCHANGED Proved!serverVars
  BY DEF SendDataStranger, closeServer, SendPart, SendPartUnchecked, barrierVars, serverVars,
         Proved!SendDataStranger, Proved!closeServer, Proved!SendPart, Proved!SendPartUnchecked,
         Proved!barrierVars, Proved!serverVars
<1>4. on_message => Proved!on_message
  BY DEF on_message, OpenSettings, WriteSettings, Proved!on_message, Proved!OpenSettings,
         Proved!WriteSettings
<1>5. [ServerNext]_serverVars => [Proved!ServerNext]_Proved!serverVars
  <2>1. ASSUME NEW d \in Devices, Command(d) PROVE Proved!Command(d)
    <3>1. KeepAlive(d) => Proved!KeepAlive(d)
      BY DEF KeepAlive, Proved!KeepAlive
    <3> QED
      BY <1>1, <1>2, <1>3, <2>1, <3>1 DEF Command, Proved!Command
  <2>2. ServerNext => Proved!ServerNext
    BY <2>1, <1>3, <1>4 DEF ServerNext, Proved!ServerNext
  <2> QED
    BY <2>2, <1>3
<1>6. Inv' <=> Proved!Inv'
  BY SameInv, PTL
<1> QED
  BY <1>5, <1>6, SameInv, Proved!StepInv, ProvedAssumptions, NastawyAssumption, ServerAssumption

------------------------------------------------------------------------------
(* Queues. *)

LEMMA Appends ==
  ASSUME NEW S, NEW q \in Seq(S), NEW c \in S
  PROVE  /\ Append(q, c) \in Seq(S) /\ Len(q) \in Nat
         /\ DOMAIN q = 1..Len(q) /\ DOMAIN Append(q, c) = 1..(Len(q) + 1)
         /\ \A i \in 1..Len(q) : Append(q, c)[i] = q[i]
         /\ Append(q, c)[Len(q) + 1] = c
OBVIOUS

LEMMA Accepts ==
  ASSUME NEW S, NEW q \in Seq(S), q # << >>
  PROVE  /\ RemoveAt(q, 1) \in Seq(S) /\ Len(q) \in Nat /\ Len(q) > 0
         /\ DOMAIN q = 1..Len(q) /\ DOMAIN RemoveAt(q, 1) = 1..(Len(q) - 1)
         /\ \A i \in 1..(Len(q) - 1) : RemoveAt(q, 1)[i] = q[i + 1]
<1>1. Len(q) \in Nat /\ Len(q) > 0 /\ DOMAIN q = 1..Len(q)
  OBVIOUS
<1>2. SubSeq(q, 1, 1 - 1) = << >>
  BY <1>1
<1>3. /\ SubSeq(q, 1 + 1, Len(q)) \in Seq(S)
      /\ Len(SubSeq(q, 1 + 1, Len(q))) = Len(q) - 1
      /\ \A i \in 1..(Len(q) - 1) : SubSeq(q, 1 + 1, Len(q))[i] = q[i + 1]
  BY <1>1
<1>4. RemoveAt(q, 1) = SubSeq(q, 1 + 1, Len(q))
  BY <1>2, <1>3 DEF RemoveAt
<1>5. DOMAIN SubSeq(q, 1 + 1, Len(q)) = 1..(Len(q) - 1)
  BY <1>1, <1>3
<1> QED
  BY <1>1, <1>3, <1>4, <1>5

------------------------------------------------------------------------------
(* The invariant. *)

LEMMA StampsAreData == Steps \subseteq Data /\ Steps \subseteq Nat /\ 0 \in Steps
BY HPKSSNetAssumption, ServerAssumption DEF Steps

LEMMA UnreadType ==
  ASSUME NEW d \in Devices
  PROVE  /\ Unread(d) \in UNION {[S -> Record] : S \in SUBSET Devices}
         /\ First(d) \in Knowledge
<1>1. Sources[d] \in SUBSET Devices
  BY ServerAssumption
<1>2. Unread(d) \in [Sources[d] -> Record]
  BY DEF Unread, Record
<1> QED
  BY <1>1, <1>2, StampsAreData DEF Knowledge, First

LEMMA InitNetInv == NetInit => NetInv /\ AllHeard
<1> SUFFICES ASSUME NetInit PROVE NetInv /\ AllHeard
  OBVIOUS
<1>1. TypeOK /\ BarrierDrained
  BY InitInv DEF NetInit, Inv
<1>2. read \in [Devices -> Knowledge] /\ \A d \in Devices : read[d] = First(d)
  BY UnreadType DEF NetInit, First
<1>3. backlog \in Seq(Connections) /\ DOMAIN backlog = {}
  BY DEF NetInit
<1>4. NetTypeOK
  BY <1>1, <1>2, <1>3 DEF NetInit, NetTypeOK
<1>5. ScriptsWait
  BY <1>2 DEF NetInit, ScriptsWait, NoAnswer
<1> QED
  BY <1>1, <1>3, <1>4, <1>5 DEF NetInv, BacklogFits, Fits, BacklogInOrder, AllHeard

\* A script asks.
LEMMA AskInv ==
  ASSUME NetInv, NEW d \in Devices, Ask(d)
  PROVE  NetInv' /\ (AllHeard => AllHeard')
<1> DEFINE c == [dev |-> d, heard |-> TRUE, command |-> place[d]]
<1>1. /\ place[d] \in {"wait", "time", "params"} /\ d \notin asking
      /\ backlog' = Append(backlog, c) /\ asking' = asking \cup {d}
      /\ UNCHANGED <<serverVars, place, read, texts, answers, giveUps>>
  BY DEF Ask, Write
<1>2. c \in Connections /\ c.dev = d /\ c.heard /\ c.command = place[d] /\ c.command # "data"
  BY <1>1 DEF Connections
<1> HIDE DEF c
<1>3. backlog \in Seq(Connections)
  BY DEF NetInv, NetTypeOK
<1>4. /\ backlog' \in Seq(Connections) /\ Len(backlog) \in Nat
      /\ DOMAIN backlog = 1..Len(backlog) /\ DOMAIN backlog' = 1..(Len(backlog) + 1)
      /\ \A i \in 1..Len(backlog) : backlog'[i] = backlog[i]
      /\ backlog'[Len(backlog) + 1] = c
  BY <1>1, <1>2, <1>3, Appends
<1>5. NetTypeOK'
  BY <1>1, <1>4 DEF NetInv, NetTypeOK, TypeOK, NastawyTypeOK, serverVars, nastawyVars, barrierVars
<1>6. BarrierDrained' /\ ScriptsWait'
  BY <1>1 DEF NetInv, BarrierDrained, ScriptsWait, serverVars, barrierVars
<1>7. BacklogFits'
  <2>1. answers[d] = NoAnswer
    BY <1>1 DEF NetInv, ScriptsWait
  <2> QED
    BY <1>1, <1>2, <1>4, <2>1 DEF NetInv, BacklogFits, Fits
<1>8. BacklogInOrder'
  <2>1. \A i \in 1..Len(backlog) : backlog[i].dev = d => ~backlog[i].heard
    BY <1>1, <1>4 DEF NetInv, BacklogFits, Fits
  <2> QED
    BY <1>2, <1>4, <2>1 DEF NetInv, BacklogInOrder
<1>9. AllHeard => AllHeard'
  BY <1>2, <1>4 DEF AllHeard
<1> QED
  BY <1>5, <1>6, <1>7, <1>8, <1>9 DEF NetInv

\* A script sends its record and goes on.
LEMMA TellInv ==
  ASSUME NetInv, NEW d \in Devices, Tell(d)
  PROVE  /\ NetInv' /\ (AllHeard => AllHeard')
         /\ \A i \in DOMAIN backlog : backlog[i].dev # d
<1> DEFINE c == [dev |-> d, heard |-> FALSE, command |-> "data",
                 record |-> read[d].time, from |-> place[d], was |-> read[d]]
           knows == [time |-> read[d].time, old |-> read[d].time, inputs |-> Unread(d)]
<1>1. /\ place[d] \in {"boot", "send"} /\ d \notin asking
      /\ backlog' = Append(backlog, c)
      /\ place' = [place EXCEPT ![d] = "wait"]
      /\ read' = [read EXCEPT ![d] = knows]
      /\ UNCHANGED <<serverVars, asking, texts, answers, giveUps>>
  BY DEF Tell, Write
<1>2. read[d] \in Knowledge /\ read[d].time \in Steps
  BY DEF NetInv, NetTypeOK, Knowledge
<1>3. /\ c \in Connections /\ c.dev = d /\ ~c.heard /\ c.command = "data"
      /\ c.record = read[d].time /\ c.from = place[d] /\ c.was = read[d]
  BY <1>1, <1>2 DEF Connections
<1>4. knows \in Knowledge
  BY <1>2, UnreadType DEF Knowledge
<1>5. /\ place \in [Devices -> {"boot", "wait", "time", "params", "send"}]
      /\ backlog \in Seq(Connections) /\ read \in [Devices -> Knowledge]
  BY DEF NetInv, NetTypeOK
<1>6. read'[d] = knows /\ \A e \in Devices \ {d} : read'[e] = read[e] /\ place'[e] = place[e]
  BY <1>1, <1>5
<1> HIDE DEF c
<1>7. /\ backlog' \in Seq(Connections) /\ Len(backlog) \in Nat
      /\ DOMAIN backlog = 1..Len(backlog) /\ DOMAIN backlog' = 1..(Len(backlog) + 1)
      /\ \A i \in 1..Len(backlog) : backlog'[i] = backlog[i]
      /\ backlog'[Len(backlog) + 1] = c
  BY <1>1, <1>3, <1>5, Appends
<1>8. \A i \in 1..Len(backlog) : backlog[i] \in Connections
  BY <1>5, <1>7
<1>9. \A i \in 1..Len(backlog) : backlog[i].dev \in Devices /\ backlog[i].dev # d
  <2>1. ASSUME NEW i \in 1..Len(backlog) PROVE backlog[i].dev \in Devices /\ backlog[i].dev # d
    <3>1. Fits(backlog[i])
      BY <1>7 DEF NetInv, BacklogFits
    <3>2. place[backlog[i].dev] \in {"wait", "time", "params"}
      BY <1>8, <3>1 DEF Fits, Connections
    <3>3. backlog[i].dev \in Devices
      BY <1>8 DEF Connections
    <3> QED
      BY <1>1, <3>2, <3>3
  <2> QED
    BY <2>1
<1>10. NetTypeOK'
  <2>1. read' \in [Devices -> Knowledge] /\ place' \in [Devices -> {"boot", "wait", "time", "params", "send"}]
    BY <1>1, <1>4, <1>5
  <2> QED
    BY <1>1, <1>7, <2>1
       DEF NetInv, NetTypeOK, TypeOK, NastawyTypeOK, serverVars, nastawyVars, barrierVars
<1>11. BarrierDrained'
  BY <1>1 DEF NetInv, BarrierDrained, serverVars, barrierVars
<1>12. ScriptsWait'
  BY <1>1, <1>5, <1>6 DEF NetInv, ScriptsWait
<1>13. BacklogFits'
  <2>1. answers[d] = NoAnswer
    BY <1>1 DEF NetInv, ScriptsWait
  <2>2. place[d] = "boot" => read[d] = First(d)
    BY DEF NetInv, ScriptsWait
  <2>3. place'[d] = "wait"
    BY <1>1, <1>5
  <2>4. \A i \in 1..Len(backlog) :
          /\ read'[backlog'[i].dev] = read[backlog[i].dev]
          /\ place'[backlog'[i].dev] = place[backlog[i].dev]
    BY <1>6, <1>7, <1>9
  <2>5. ASSUME NEW i \in 1..Len(backlog) PROVE Fits(backlog[i])'
    BY <1>1, <1>7, <2>4 DEF NetInv, BacklogFits, Fits
  <2>6. ASSUME NEW i, i = Len(backlog) + 1 PROVE Fits(backlog[i])'
    <3>1. backlog'[i] = c
      BY <1>7, <2>6
    <3>2. read'[d] = [time |-> read[d].time, old |-> read[d].time, inputs |-> Unread(d)]
      BY <1>6
    <3> QED
      BY <1>1, <1>3, <2>1, <2>2, <2>3, <3>1, <3>2 DEF Fits
  <2>7. \A i \in DOMAIN backlog' : i \in 1..Len(backlog) \/ i = Len(backlog) + 1
    BY <1>7
  <2> QED
    BY <2>5, <2>6, <2>7 DEF BacklogFits
<1>14. BacklogInOrder'
  BY <1>3, <1>7, <1>9 DEF NetInv, BacklogInOrder
<1>15. AllHeard => AllHeard'
  BY <1>3, <1>7 DEF AllHeard
<1> QED
  BY <1>7, <1>9, <1>10, <1>11, <1>12, <1>13, <1>14, <1>15 DEF NetInv

\* The answer a script reads leaves it with knowledge it can have.
LEMMA ReadsType ==
  ASSUME NetInv, NEW d \in Devices
  PROVE  /\ Reads(d, answers[d]) \in Knowledge
         /\ Goes(d, answers[d]) \in {"boot", "wait", "time", "params", "send"}
<1> DEFINE a == answers[d]
<1>1. read[d] \in Knowledge /\ place[d] \in {"boot", "wait", "time", "params", "send"}
  BY DEF NetInv, NetTypeOK
<1>2. a \in {NoAnswer} \cup [text : {"sta", "nop"}] \cup [text : {"time"}, time : Steps] \cup
            {[text |-> "params", inputs |-> k.inputs] : k \in Knowledge}
  BY DEF NetInv, NetTypeOK
<1> HIDE DEF a
<1>3. CASE a \in [text : {"time"}, time : Steps]
  BY <1>1, <1>3 DEF Reads, Goes, Knowledge, a
<1>4. ASSUME NEW k \in Knowledge, a = [text |-> "params", inputs |-> k.inputs]
      PROVE  Reads(d, a) \in Knowledge /\ Goes(d, a) \in {"boot", "wait", "time", "params", "send"}
  BY <1>1, <1>4 DEF Reads, Goes, Knowledge
<1>5. CASE a \in {NoAnswer} \cup [text : {"sta", "nop"}]
  BY <1>1, <1>5 DEF Reads, Goes, NoAnswer, a
<1> QED
  BY <1>2, <1>3, <1>4, <1>5 DEF a

\* What waits in the backlog is a connection, of a device.
LEMMA DevType ==
  ASSUME NetInv
  PROVE  \A i \in DOMAIN backlog : backlog[i] \in Connections /\ backlog[i].dev \in Devices
<1>1. backlog \in Seq(Connections)
  BY DEF NetInv, NetTypeOK
<1>2. \A i \in DOMAIN backlog : backlog[i] \in Connections
  BY <1>1
<1> QED
  BY <1>2 DEF Connections

\* A script reads its answer.
LEMMA HearInv ==
  ASSUME NetInv, NEW d \in Devices, Hear(d)
  PROVE  /\ NetInv' /\ (AllHeard => AllHeard')
         /\ \A i \in DOMAIN backlog : backlog[i].dev # d
<1>1. /\ answers[d] # NoAnswer
      /\ read' = [read EXCEPT ![d] = Reads(d, answers[d])]
      /\ place' = [place EXCEPT ![d] = Goes(d, answers[d])]
      /\ answers' = [answers EXCEPT ![d] = NoAnswer]
      /\ asking' = asking \ {d}
      /\ UNCHANGED <<serverVars, backlog>>
  BY DEF Hear
<1>2. \A i \in DOMAIN backlog : backlog[i].dev \in Devices /\ backlog[i].dev # d
  BY <1>1, DevType DEF NetInv, BacklogFits, Fits
<1>3. /\ read \in [Devices -> Knowledge]
      /\ place \in [Devices -> {"boot", "wait", "time", "params", "send"}]
      /\ DOMAIN answers = Devices
      /\ d \in asking /\ place[d] \in {"wait", "time", "params"}
  BY <1>1 DEF NetInv, NetTypeOK, ScriptsWait
<1>4. NetTypeOK'
  <2>1. read' \in [Devices -> Knowledge] /\ place' \in [Devices -> {"boot", "wait", "time", "params", "send"}]
    BY <1>1, <1>3, ReadsType
  <2> QED
    BY <1>1, <2>1
       DEF NetInv, NetTypeOK, TypeOK, NastawyTypeOK, serverVars, nastawyVars, barrierVars
<1>5. ScriptsWait'
  <2>1. place'[d] # "boot" /\ answers'[d] = NoAnswer /\ d \notin asking'
    BY <1>1, <1>3 DEF Goes
  <2>2. \A e \in Devices \ {d} : /\ place'[e] = place[e] /\ read'[e] = read[e]
                                 /\ answers'[e] = answers[e] /\ (e \in asking' <=> e \in asking)
    BY <1>1, <1>3
  <2> QED
    BY <2>1, <2>2 DEF NetInv, ScriptsWait, NoAnswer, First, Unread
<1>6. BarrierDrained' /\ BacklogInOrder' /\ (AllHeard => AllHeard')
  BY <1>1 DEF NetInv, BarrierDrained, BacklogInOrder, AllHeard, serverVars, barrierVars
<1>7. BacklogFits'
  BY <1>1, <1>2, <1>3 DEF NetInv, BacklogFits, Fits, First, Unread
<1> QED
  BY <1>2, <1>4, <1>5, <1>6, <1>7 DEF NetInv

\* A script stops waiting for an answer.
LEMMA GiveUpInv ==
  ASSUME NetInv, NEW d \in Devices, GiveUp(d)
  PROVE  /\ NetInv' /\ DOMAIN backlog' = DOMAIN backlog
         /\ \A i \in DOMAIN backlog :
              /\ backlog'[i].dev = backlog[i].dev /\ backlog'[i].command = backlog[i].command
              /\ backlog[i].command = "data" =>
                   backlog'[i].was = backlog[i].was /\ backlog'[i].from = backlog[i].from
<1>1. /\ place[d] = "wait" /\ d \in asking
      /\ asking' = asking \ {d}
      /\ answers' = [answers EXCEPT ![d] = NoAnswer]
      /\ backlog' = [i \in DOMAIN backlog |->
                       [backlog[i] EXCEPT !.heard = backlog[i].heard /\ backlog[i].dev # d]]
      /\ UNCHANGED <<serverVars, place, read>>
  BY DEF GiveUp
<1>2. backlog \in Seq(Connections) /\ DOMAIN answers = Devices
  BY DEF NetInv, NetTypeOK
<1>3. ASSUME NEW c \in Connections
      PROVE  LET h == c.heard /\ c.dev # d
                 x == [c EXCEPT !.heard = h]
             IN  /\ x \in Connections /\ x.dev = c.dev /\ x.command = c.command
                 /\ x.heard <=> h
                 /\ c.command = "data" => x.record = c.record /\ x.was = c.was /\ x.from = c.from
  <2> DEFINE h == c.heard /\ c.dev # d
  <2>1. h \in BOOLEAN
    OBVIOUS
  <2>2. c.command = "data" => h = FALSE /\ c.heard = FALSE
    BY DEF Connections
  <2>3. CASE c \in [dev : Devices, heard : BOOLEAN, command : {"wait", "time", "params"}]
    <3> HIDE DEF h
    <3> QED
      BY <2>1, <2>3 DEF Connections
  <2>4. CASE c \in [dev : Devices, heard : {FALSE}, command : {"data"}, record : Steps,
                    from : {"boot", "send"}, was : Knowledge]
    <3>1. h = FALSE
      BY <2>2, <2>4
    <3> HIDE DEF h
    <3> QED
      BY <2>4, <3>1 DEF Connections
  <2> QED
    BY <2>3, <2>4 DEF Connections
<1>4. \A i \in DOMAIN backlog : backlog[i] \in Connections
  BY <1>2
<1>5. /\ DOMAIN backlog' = DOMAIN backlog
      /\ \A i \in DOMAIN backlog :
           /\ backlog'[i] \in Connections /\ backlog'[i].dev = backlog[i].dev
           /\ backlog'[i].command = backlog[i].command
           /\ backlog'[i].heard <=> backlog[i].heard /\ backlog[i].dev # d
           /\ backlog[i].command = "data" =>
                /\ backlog'[i].record = backlog[i].record /\ backlog'[i].was = backlog[i].was
                /\ backlog'[i].from = backlog[i].from
  BY <1>1, <1>3, <1>4
<1>6. backlog' \in Seq(Connections)
  <2>1. Len(backlog) \in Nat /\ DOMAIN backlog = 1..Len(backlog)
    BY <1>2
  <2>2. backlog' \in [1..Len(backlog) -> Connections]
    BY <1>1, <1>5, <2>1
  <2> QED
    BY <2>1, <2>2
<1>7. NetTypeOK'
  BY <1>1, <1>2, <1>6
     DEF NetInv, NetTypeOK, TypeOK, NastawyTypeOK, serverVars, nastawyVars, barrierVars
<1>8. BarrierDrained' /\ ScriptsWait'
  BY <1>1, <1>2
     DEF NetInv, BarrierDrained, ScriptsWait, NoAnswer, First, Unread, serverVars, barrierVars
<1>9. BacklogInOrder'
  BY <1>5 DEF NetInv, BacklogInOrder
<1>10. BacklogFits'
  <2> SUFFICES ASSUME NEW i \in DOMAIN backlog PROVE Fits(backlog[i])'
    BY <1>5 DEF BacklogFits
  <2>1. Fits(backlog[i])
    BY DEF NetInv, BacklogFits
  <2>2. backlog[i].dev \in Devices
    BY DevType
  <2>3. answers'[backlog[i].dev] = NoAnswer
    BY <1>1, <1>2, <2>1, <2>2 DEF Fits
  <2>4. backlog'[i].heard => backlog'[i].dev \in asking'
    <3>1. backlog'[i].heard => backlog[i].heard /\ backlog[i].dev # d
      BY <1>5
    <3>2. backlog[i].heard => backlog[i].dev \in asking
      BY <2>1 DEF Fits
    <3>3. backlog'[i].dev = backlog[i].dev
      BY <1>5
    <3> QED
      BY <1>1, <3>1, <3>2, <3>3
  <2>5. backlog'[i].command # "data" => backlog'[i].command = place'[backlog'[i].dev]
    BY <1>1, <1>5, <2>1 DEF Fits
  <2>6. CASE backlog[i].command = "data"
    <3>1. /\ backlog'[i].record = backlog[i].record /\ backlog'[i].was = backlog[i].was
          /\ backlog'[i].from = backlog[i].from /\ backlog'[i].dev = backlog[i].dev
      BY <1>5, <2>6
    <3>2. place' = place /\ read' = read
      BY <1>1
    <3> QED
      BY <2>1, <2>3, <2>4, <2>5, <2>6, <3>1, <3>2 DEF Fits, First, Unread
  <2>7. CASE backlog[i].command # "data"
    <3>1. backlog'[i].command # "data" /\ backlog'[i].dev = backlog[i].dev
      BY <1>5, <2>7
    <3> QED
      BY <2>3, <2>4, <2>5, <3>1 DEF Fits
  <2> QED
    BY <2>6, <2>7
<1> QED
  BY <1>5, <1>7, <1>8, <1>9, <1>10 DEF NetInv

\* What serving a connection c does to the server and to the answers.
LEMMA ServeEffect ==
  ASSUME NetInv, Serve
  PROVE  LET c == backlog[1] IN
         /\ 1 \in DOMAIN backlog /\ backlog' = RemoveAt(backlog, 1)
         /\ UNCHANGED <<place, asking, read>>
         /\ \A e \in Devices : e # c.dev \/ ~c.heard => answers'[e] = answers[e]
         /\ answers'[c.dev] # answers[c.dev] =>
              answers'[c.dev].text \in {"sta", "nop", c.command}
         /\ NetTypeOK' /\ BarrierDrained'
<1> DEFINE c == backlog[1]
<1>1. /\ backlog # << >> /\ backlog' = RemoveAt(backlog, 1)
      /\ ServeKeepAlive(c) \/ ServeGetTime(c) \/ ServeGetParams(c) \/ ServeSendData(c)
      /\ UNCHANGED <<place, asking, read>>
  BY DEF Serve, Accepted
<1>2. backlog \in Seq(Connections)
  BY DEF NetInv, NetTypeOK
<1>3. 1 \in DOMAIN backlog
  BY <1>1, <1>2
<1>4. c \in Connections /\ c.dev \in Devices
  BY <1>3, DevType
<1>5. c.command = "data" => c.record \in Data
  BY <1>4, StampsAreData DEF Connections
<1> HIDE DEF c
<1>6. [ServerNext]_serverVars
  <2>1. ASSUME ServeKeepAlive(c) PROVE ServerNext
    BY <1>4, <2>1 DEF ServeKeepAlive, ServerNext, Command
  <2>2. ASSUME ServeGetTime(c) PROVE UNCHANGED serverVars
    BY <2>2 DEF ServeGetTime
  <2>3. ASSUME ServeGetParams(c) PROVE ServerNext
    BY <1>4, <2>3 DEF ServeGetParams, ServerNext, Command
  <2>4. ASSUME ServeSendData(c) PROVE ServerNext
    BY <1>4, <1>5, <2>4 DEF ServeSendData, ServerNext, Command
  <2> QED
    BY <1>1, <2>1, <2>2, <2>3, <2>4
<1>7. TypeOK' /\ BarrierDrained'
  <2>1. Inv
    BY DEF Inv, NetInv, NetTypeOK
  <2> QED
    BY <1>6, <2>1, StepInv DEF Inv
<1> DEFINE AnswerSet == {NoAnswer} \cup [text : {"sta", "nop"}] \cup [text : {"time"}, time : Steps]
                        \cup {[text |-> "params", inputs |-> k.inputs] : k \in Knowledge}
<1>8. answers \in [Devices -> AnswerSet]
  BY DEF NetInv, NetTypeOK
<1>9. \/ answers' = answers
      \/ /\ c.heard
         /\ \E a \in AnswerSet : /\ answers' = [answers EXCEPT ![c.dev] = a]
                                 /\ a.text \in {"sta", "nop", c.command}
  <2>1. CASE ServeKeepAlive(c)
    BY <2>1 DEF ServeKeepAlive, Answer
  <2>2. CASE ServeGetTime(c)
    <3>1. timer \in Steps
      BY DEF NetInv, NetTypeOK, TypeOK, Steps
    <3> QED
      BY <2>2, <3>1 DEF ServeGetTime, Answer
  <2>3. CASE ServeGetParams(c)
    <3> DEFINE k == [time |-> 0, old |-> 0, inputs |-> Params(c.dev)]
    <3>1. Params(c.dev) \in [Sources[c.dev] -> Record] /\ Sources[c.dev] \in SUBSET Devices
      BY <1>4, ServerAssumption DEF Params, NetInv, NetTypeOK, TypeOK
    <3>2. k \in Knowledge /\ k.inputs = Params(c.dev)
      BY <3>1, StampsAreData DEF Knowledge
    <3>3. [text |-> "params", inputs |-> Params(c.dev)] \in AnswerSet
      BY <3>2
    <3> QED
      BY <2>3, <3>3 DEF ServeGetParams, Answer
  <2>4. CASE ServeSendData(c)
    BY <2>4 DEF ServeSendData
  <2> QED
    BY <1>1, <2>1, <2>2, <2>3, <2>4
<1>10. answers' \in [Devices -> AnswerSet]
  BY <1>4, <1>8, <1>9
<1>11. /\ \A e \in Devices : e # c.dev \/ ~c.heard => answers'[e] = answers[e]
       /\ answers'[c.dev] # answers[c.dev] => answers'[c.dev].text \in {"sta", "nop", c.command}
  BY <1>4, <1>8, <1>9
<1>12. backlog' \in Seq(Connections)
  BY <1>1, <1>2, Accepts
<1>13. NetTypeOK'
  BY <1>1, <1>7, <1>10, <1>12 DEF NetInv, NetTypeOK
<1> QED
  BY <1>1, <1>3, <1>7, <1>11, <1>13 DEF c

\* The server accepts a connection and serves it.
LEMMA ServeInv ==
  ASSUME NetInv, Serve
  PROVE  NetInv' /\ (AllHeard => AllHeard')
<1> DEFINE c == backlog[1]
           n == Len(backlog) - 1
<1>1. /\ 1 \in DOMAIN backlog /\ backlog' = RemoveAt(backlog, 1)
      /\ UNCHANGED <<place, asking, read>>
      /\ \A e \in Devices : e # c.dev \/ ~c.heard => answers'[e] = answers[e]
      /\ answers'[c.dev] # answers[c.dev] => answers'[c.dev].text \in {"sta", "nop", c.command}
      /\ NetTypeOK' /\ BarrierDrained'
  BY ServeEffect
<1>2. backlog \in Seq(Connections) /\ backlog # << >>
  BY <1>1 DEF NetInv, NetTypeOK
<1>3. /\ Len(backlog) \in Nat /\ DOMAIN backlog = 1..Len(backlog) /\ DOMAIN backlog' = 1..n
      /\ \A i \in 1..n : backlog'[i] = backlog[i + 1]
  BY <1>1, <1>2, Accepts
<1>4. c \in Connections /\ c.dev \in Devices /\ Fits(c)
  BY <1>1, DevType DEF NetInv, BacklogFits
<1>5. ScriptsWait'
  <2> SUFFICES ASSUME NEW d \in Devices
               PROVE  /\ d \in asking => place[d] \in {"wait", "time", "params"}
                      /\ answers'[d] # NoAnswer => d \in asking
                      /\ answers'[d].text \in {"time", "params"} => place[d] = answers'[d].text
                      /\ place[d] = "boot" => read[d] = First(d)
    BY <1>1 DEF ScriptsWait, First, Unread
  <2>1. answers'[d] # answers[d] =>
          d \in asking /\ answers'[d].text \in {"sta", "nop", place[d]}
    <3> SUFFICES ASSUME answers'[d] # answers[d]
                 PROVE  d \in asking /\ answers'[d].text \in {"sta", "nop", place[d]}
      OBVIOUS
    <3>1. d = c.dev /\ c.heard
      BY <1>1
    <3>2. c.command # "data"
      BY <1>4, <3>1 DEF Connections
    <3> QED
      BY <1>1, <1>4, <3>1, <3>2 DEF Fits
  <2> QED
    BY <2>1 DEF NetInv, ScriptsWait
<1>6. BacklogFits'
  <2> SUFFICES ASSUME NEW i \in 1..n PROVE Fits(backlog[i])'
    BY <1>3 DEF BacklogFits
  <2>1. i + 1 \in DOMAIN backlog /\ 1 < i + 1 /\ backlog'[i] = backlog[i + 1]
    BY <1>3
  <2>2. Fits(backlog[i + 1]) /\ backlog[i + 1].dev \in Devices
    BY <2>1, DevType DEF NetInv, BacklogFits
  <2>3. backlog[i + 1].dev = c.dev => ~c.heard
    BY <1>1, <2>1 DEF NetInv, BacklogInOrder
  <2>4. answers'[backlog[i + 1].dev] = NoAnswer
    BY <1>1, <2>2, <2>3 DEF Fits
  <2> HIDE DEF c, n
  <2> QED
    BY <1>1, <2>1, <2>2, <2>4 DEF Fits, First, Unread
<1>7. BacklogInOrder'
  <2> SUFFICES ASSUME NEW i \in 1..n, NEW j \in 1..n, i < j,
                      backlog'[i].dev = backlog'[j].dev
               PROVE  ~backlog'[i].heard /\ backlog'[j].command # "data"
    BY <1>3 DEF BacklogInOrder
  <2>1. i + 1 \in DOMAIN backlog /\ j + 1 \in DOMAIN backlog /\ i + 1 < j + 1
    BY <1>3
  <2> QED
    BY <1>3, <2>1 DEF NetInv, BacklogInOrder
<1>8. AllHeard => AllHeard'
  <2> SUFFICES ASSUME AllHeard, NEW i \in 1..n
               PROVE  backlog'[i].heard \/ backlog'[i].command = "data"
    BY <1>3 DEF AllHeard
  <2>1. i + 1 \in DOMAIN backlog
    BY <1>3
  <2> QED
    BY <1>3, <2>1 DEF AllHeard
<1> QED
  BY <1>1, <1>5, <1>6, <1>7, <1>8 DEF NetInv

------------------------------------------------------------------------------
(* What HPKSS sees of the scripts. *)

\* A script has one record in the backlog, if any.
LEMMA OneRecord ==
  ASSUME NetInv, NEW d \in Devices, NEW i \in Waiting(d)
  PROVE  /\ Waiting(d) = {i} /\ Unserved(d) = backlog[i] /\ i \in DOMAIN backlog
         /\ backlog[i].dev = d /\ backlog[i].command = "data" /\ Fits(backlog[i])
<1>1. DOMAIN backlog \subseteq Nat
  BY DEF NetInv, NetTypeOK
<1>2. \A j \in Waiting(d) : j = i
  <2> SUFFICES ASSUME NEW j \in Waiting(d), j # i PROVE FALSE
    OBVIOUS
  <2>1. i < j \/ j < i
    BY <1>1 DEF Waiting
  <2> QED
    BY <2>1 DEF NetInv, BacklogInOrder, Waiting
<1>3. Waiting(d) = {i}
  BY <1>2
<1>4. Unserved(d) = backlog[i]
  BY <1>3 DEF Unserved
<1> QED
  BY <1>3, <1>4 DEF Waiting, NetInv, BacklogFits

\* Where nothing is under way a script is seen as it is.
LEMMA SeenPlainly ==
  ASSUME NEW d \in Devices, Waiting(d) = {}, answers[d] = NoAnswer
  PROVE  Where(d) = place[d] /\ Seen(d) = read[d]
BY DEF Where, Seen, Goes, Reads, NoAnswer

LEMMA AskUnseen ==
  ASSUME NetInv, NEW d \in Devices, Ask(d), NEW e \in Devices
  PROVE  Where(e)' = Where(e) /\ Seen(e)' = Seen(e)
<1> DEFINE c == [dev |-> d, heard |-> TRUE, command |-> place[d]]
<1>1. /\ backlog' = Append(backlog, c) /\ c.command # "data" /\ c \in Connections
      /\ UNCHANGED <<place, read, answers>>
  BY DEF Ask, Write, Connections
<1> HIDE DEF c
<1>2. backlog \in Seq(Connections)
  BY DEF NetInv, NetTypeOK
<1>3. /\ Len(backlog) \in Nat /\ DOMAIN backlog = 1..Len(backlog)
      /\ DOMAIN backlog' = 1..(Len(backlog) + 1)
      /\ \A i \in 1..Len(backlog) : backlog'[i] = backlog[i]
      /\ backlog'[Len(backlog) + 1] = c
  BY <1>1, <1>2, Appends
<1>4. Waiting(e)' = Waiting(e)
  BY <1>1, <1>3 DEF Waiting
<1>5. Waiting(e) # {} => Unserved(e)' = Unserved(e)
  BY <1>3, <1>4, OneRecord DEF Unserved
<1> QED
  BY <1>1, <1>4, <1>5 DEF Where, Seen, Goes, Reads

LEMMA TellUnseen ==
  ASSUME NetInv, NEW d \in Devices, Tell(d), NEW e \in Devices
  PROVE  Where(e)' = Where(e) /\ Seen(e)' = Seen(e)
<1> DEFINE c == [dev |-> d, heard |-> FALSE, command |-> "data",
                 record |-> read[d].time, from |-> place[d], was |-> read[d]]
<1>1. /\ backlog' = Append(backlog, c) /\ d \notin asking
      /\ \A f \in Devices \ {d} : place'[f] = place[f] /\ read'[f] = read[f]
      /\ UNCHANGED answers
  BY DEF Tell, Write, NetInv, NetTypeOK
<1>2. backlog \in Seq(Connections)
  BY DEF NetInv, NetTypeOK
<1>3. c \in Connections
  BY DEF Tell, Connections, NetInv, NetTypeOK, Knowledge
<1>4. c.dev = d /\ c.command = "data" /\ c.from = place[d] /\ c.was = read[d]
  OBVIOUS
<1> HIDE DEF c
<1>5. /\ Len(backlog) \in Nat /\ DOMAIN backlog = 1..Len(backlog)
      /\ DOMAIN backlog' = 1..(Len(backlog) + 1)
      /\ \A i \in 1..Len(backlog) : backlog'[i] = backlog[i]
      /\ backlog'[Len(backlog) + 1] = c
  BY <1>1, <1>2, <1>3, Appends
<1>6. CASE e # d
  <2>1. Waiting(e)' = Waiting(e)
    BY <1>4, <1>5, <1>6 DEF Waiting
  <2>2. Waiting(e) # {} => Unserved(e)' = Unserved(e)
    BY <1>5, <2>1, OneRecord DEF Unserved
  <2> QED
    BY <1>1, <1>6, <2>1, <2>2 DEF Where, Seen, Goes, Reads
<1>7. CASE e = d
  <2>1. Waiting(d) = {} /\ answers[d] = NoAnswer
    BY <1>1, TellInv DEF Waiting, NetInv, ScriptsWait
  <2>2. Waiting(d)' = {Len(backlog) + 1}
    BY <1>4, <1>5, <2>1 DEF Waiting
  <2>3. Unserved(d)' = c
    BY <1>5, <2>2 DEF Unserved
  <2>4. Where(d)' = place[d] /\ Seen(d)' = read[d]
    BY <1>4, <2>2, <2>3 DEF Where, Seen
  <2> QED
    BY <1>7, <2>1, <2>4, SeenPlainly
<1> QED
  BY <1>6, <1>7

LEMMA HearUnseen ==
  ASSUME NetInv, NEW d \in Devices, Hear(d), NEW e \in Devices
  PROVE  Where(e)' = Where(e) /\ Seen(e)' = Seen(e)
<1>1. /\ read' = [read EXCEPT ![d] = Reads(d, answers[d])]
      /\ place' = [place EXCEPT ![d] = Goes(d, answers[d])]
      /\ answers' = [answers EXCEPT ![d] = NoAnswer]
      /\ UNCHANGED backlog
  BY DEF Hear
<1>2. DOMAIN read = Devices /\ DOMAIN place = Devices /\ DOMAIN answers = Devices
  BY DEF NetInv, NetTypeOK
<1>3. Waiting(e)' = Waiting(e) /\ Unserved(e)' = Unserved(e)
  BY <1>1 DEF Waiting, Unserved
<1>4. CASE e # d
  BY <1>1, <1>2, <1>3, <1>4 DEF Where, Seen, Goes, Reads
<1>5. CASE e = d
  <2>1. Waiting(d) = {}
    BY HearInv DEF Waiting
  <2>2. Where(d) = Goes(d, answers[d]) /\ Seen(d) = Reads(d, answers[d])
    BY <2>1 DEF Where, Seen
  <2>3. Where(d)' = place'[d] /\ Seen(d)' = read'[d]
    BY <1>1, <1>2, <1>3, <1>5, <2>1 DEF Where, Seen, Goes, Reads, NoAnswer
  <2> QED
    BY <1>1, <1>2, <1>5, <2>2, <2>3
<1> QED
  BY <1>4, <1>5

\* Serving a connection is seen of its script only: it gets its answer, or its
\* record is served at last.
LEMMA ServeSeen ==
  ASSUME NetInv, Serve, NEW c, c = backlog[1], NEW d, d = c.dev
  PROVE  /\ \A e \in Devices \ {d} : Where(e)' = Where(e) /\ Seen(e)' = Seen(e)
         /\ d \in Devices /\ Fits(c)
         /\ c.command = "data" =>
              /\ Where(d) = c.from /\ Seen(d) = c.was
              /\ Where(d)' = "wait" /\ Seen(d)' = read[d]
         /\ c.command # "data" =>
              /\ Where(d) = place[d] /\ Seen(d) = read[d]
              /\ Where(d)' = Goes(d, answers'[d]) /\ Seen(d)' = Reads(d, answers'[d])
<1> DEFINE n == Len(backlog) - 1
<1>1. /\ 1 \in DOMAIN backlog /\ backlog' = RemoveAt(backlog, 1)
      /\ UNCHANGED <<place, asking, read>>
      /\ \A e \in Devices : e # d \/ ~c.heard => answers'[e] = answers[e]
  BY ServeEffect
<1>2. backlog \in Seq(Connections) /\ backlog # << >>
  BY <1>1 DEF NetInv, NetTypeOK
<1>3. /\ Len(backlog) \in Nat /\ DOMAIN backlog = 1..Len(backlog) /\ DOMAIN backlog' = 1..n
      /\ \A i \in 1..n : backlog'[i] = backlog[i + 1]
  BY <1>1, <1>2, Accepts
<1>4. d \in Devices /\ Fits(c) /\ c \in Connections
  BY <1>1, DevType DEF NetInv, BacklogFits
<1> HIDE DEF n
<1>5. ASSUME NEW e \in Devices, Waiting(e) = {} \/ Waiting(e) = {1}
      PROVE  Waiting(e)' = {}
  <2> SUFFICES ASSUME NEW i \in 1..n, backlog'[i].dev = e, backlog'[i].command = "data"
               PROVE  FALSE
    BY <1>3 DEF Waiting
  <2>1. i + 1 \in Waiting(e) /\ i + 1 # 1
    BY <1>3 DEF Waiting, n
  <2> QED
    BY <1>5, <2>1
<1>6. ASSUME NEW e \in Devices, NEW k \in Waiting(e), k # 1
      PROVE  Waiting(e)' # {} /\ Unserved(e)' = Unserved(e)
  <2>1. Waiting(e) = {k} /\ Unserved(e) = backlog[k] /\ k \in DOMAIN backlog
    BY <1>6, OneRecord
  <2>2. k - 1 \in 1..n /\ k \in Nat /\ k - 1 + 1 = k
    BY <1>3, <1>6, <2>1 DEF n
  <2>3. backlog'[k - 1] = backlog[k]
    BY <1>3, <2>2
  <2>4. \A i \in 1..n : backlog'[i].dev = e /\ backlog'[i].command = "data" => i = k - 1
    <3> SUFFICES ASSUME NEW i \in 1..n, backlog'[i].dev = e, backlog'[i].command = "data"
                 PROVE  i = k - 1
      OBVIOUS
    <3>1. i + 1 \in Waiting(e)
      BY <1>3 DEF Waiting, n
    <3> QED
      BY <2>1, <2>2, <3>1
  <2>5. Waiting(e)' = {k - 1}
    BY <1>3, <1>6, <2>2, <2>3, <2>4 DEF Waiting
  <2> QED
    BY <2>1, <2>3, <2>5 DEF Unserved
<1>7. ASSUME NEW e \in Devices \ {d} PROVE Where(e)' = Where(e) /\ Seen(e)' = Seen(e)
  <2>1. 1 \notin Waiting(e)
    BY DEF Waiting
  <2>2. CASE Waiting(e) = {}
    BY <1>1, <1>5, <2>2 DEF Where, Seen, Goes, Reads
  <2>3. CASE Waiting(e) # {}
    <3>1. Waiting(e)' # {} /\ Unserved(e)' = Unserved(e)
      BY <1>6, <2>1, <2>3
    <3> QED
      BY <2>3, <3>1 DEF Where, Seen
  <2> QED
    BY <2>2, <2>3
<1>8. CASE c.command = "data"
  <2>1. 1 \in Waiting(d)
    BY <1>1, <1>8 DEF Waiting
  <2>2. Waiting(d) = {1} /\ Unserved(d) = c
    BY <1>4, <2>1, OneRecord
  <2>3. Waiting(d)' = {}
    BY <1>4, <1>5, <2>2
  <2>4. answers'[d] = NoAnswer /\ place'[d] = "wait"
    BY <1>1, <1>4, <1>8 DEF Fits, Connections
  <2>5. Where(d)' = "wait" /\ Seen(d)' = read[d]
    BY <1>1, <2>3, <2>4 DEF Where, Seen, Goes, Reads, NoAnswer
  <2>6. Where(d) = c.from /\ Seen(d) = c.was
    BY <2>2 DEF Where, Seen
  <2> QED
    BY <1>4, <1>7, <1>8, <2>5, <2>6
<1>9. CASE c.command # "data"
  <2>1. Waiting(d) = {}
    <3> SUFFICES ASSUME NEW k \in Waiting(d) PROVE FALSE
      OBVIOUS
    <3>1. k \in DOMAIN backlog /\ backlog[k].dev = d /\ backlog[k].command = "data"
      BY <1>4, OneRecord
    <3>2. 1 < k
      BY <1>3, <1>9, <3>1
    <3> QED
      BY <1>1, <3>1, <3>2 DEF NetInv, BacklogInOrder
  <2>2. Waiting(d)' = {}
    BY <1>4, <1>5, <2>1
  <2>3. Where(d) = place[d] /\ Seen(d) = read[d]
    BY <1>4, <2>1, SeenPlainly DEF Fits
  <2>4. Where(d)' = Goes(d, answers'[d]) /\ Seen(d)' = Reads(d, answers'[d])
    BY <1>1, <2>2 DEF Where, Seen, Goes, Reads
  <2> QED
    BY <1>4, <1>7, <1>9, <2>3, <2>4
<1> QED
  BY <1>8, <1>9

\* HPKSS has the commands of the server.
LEMMA SameCommands ==
  ASSUME NEW d, NEW x
  PROVE  /\ KeepAlive(d) => Commands!KeepAlive(d)
         /\ GetParams(d) => Commands!GetParams(d)
         /\ SendData(d, x) => Commands!SendData(d, x)
         /\ Commands!AnswersSta(d) = AnswersSta(d) /\ Commands!Params(d) = Params(d)
<1> USE DEF EndOfCommand, CompleteRound, allClientsSentData, allClientsConnected,
            resetConnectionsTable, resetSentDataTable, fastForwardTimeInMinutes,
            updateDeviceValues, printAllData, nastawyVars,
            Commands!EndOfCommand, Commands!CompleteRound, Commands!allClientsSentData,
            Commands!allClientsConnected, Commands!resetConnectionsTable,
            Commands!resetSentDataTable, Commands!fastForwardTimeInMinutes,
            Commands!updateDeviceValues, Commands!printAllData, Commands!nastawyVars
<1>1. KeepAlive(d) => Commands!KeepAlive(d)
  BY DEF KeepAlive, Commands!KeepAlive
<1>2. GetParams(d) => Commands!GetParams(d)
  BY DEF GetParams, Commands!GetParams, czytaj_nastawy, Commands!czytaj_nastawy,
         ReadWhole, ReadNothing, ReadTorn, Commands!ReadWhole, Commands!ReadNothing,
         Commands!ReadTorn
<1>3. SendData(d, x) => Commands!SendData(d, x)
  BY DEF SendData, Commands!SendData
<1>4. Commands!AnswersSta(d) = AnswersSta(d) /\ Commands!Params(d) = Params(d)
  BY DEF AnswersSta, Commands!AnswersSta, Params, Commands!Params
<1> QED
  BY <1>1, <1>2, <1>3, <1>4

LEMMA PollServed ==
  ASSUME NetInv, Serve, NEW c, c = backlog[1], NEW d, d = c.dev, c.heard, ServeKeepAlive(c)
  PROVE  Commands!Poll(d)
<1>1. /\ \A e \in Devices \ {d} : Where(e)' = Where(e) /\ Seen(e)' = Seen(e)
      /\ d \in Devices /\ Fits(c) /\ c.command = "wait"
      /\ Where(d) = "wait" /\ Seen(d) = read[d]
      /\ Where(d)' = Goes(d, answers'[d]) /\ Seen(d)' = Reads(d, answers'[d])
  <2>1. c.command = "wait" /\ c.command # "data"
    BY DEF ServeKeepAlive
  <2>2. /\ \A e \in Devices \ {d} : Where(e)' = Where(e) /\ Seen(e)' = Seen(e)
        /\ d \in Devices /\ Fits(c) /\ Where(d) = place[d] /\ Seen(d) = read[d]
        /\ Where(d)' = Goes(d, answers'[d]) /\ Seen(d)' = Reads(d, answers'[d])
    BY <2>1, ServeSeen
  <2>3. place[d] = "wait"
    BY <2>1, <2>2 DEF Fits
  <2> QED
    BY <2>1, <2>2, <2>3
<1>2. /\ KeepAlive(d) /\ place[d] = "wait"
      /\ answers'[d] = [text |-> IF AnswersSta(d) THEN "sta" ELSE "nop"]
  BY <1>1 DEF ServeKeepAlive, Answer, Fits, NetInv, NetTypeOK
<1>3. /\ Where(d)' = IF AnswersSta(d) THEN "time" ELSE "wait"
      /\ Seen(d)' = Seen(d)
  BY <1>1, <1>2 DEF Goes, Reads
<1>4. Commands!Goto(d, "wait", IF Commands!AnswersSta(d) THEN "time" ELSE "wait")
  BY <1>1, <1>3, SameCommands DEF Commands!Goto
<1> QED
  BY <1>1, <1>2, <1>3, <1>4, SameCommands DEF Commands!Poll, Commands!faultVars

LEMMA AskTimeServed ==
  ASSUME NetInv, Serve, NEW c, c = backlog[1], NEW d, d = c.dev, c.heard, ServeGetTime(c)
  PROVE  Commands!AskTime(d)
<1>1. /\ \A e \in Devices \ {d} : Where(e)' = Where(e) /\ Seen(e)' = Seen(e)
      /\ d \in Devices /\ Fits(c) /\ c.command = "time"
      /\ Where(d) = "time" /\ Seen(d) = read[d] /\ read[d] \in Knowledge
      /\ Where(d)' = Goes(d, answers'[d]) /\ Seen(d)' = Reads(d, answers'[d])
  <2>1. c.command = "time" /\ c.command # "data"
    BY DEF ServeGetTime
  <2>2. /\ \A e \in Devices \ {d} : Where(e)' = Where(e) /\ Seen(e)' = Seen(e)
        /\ d \in Devices /\ Fits(c) /\ Where(d) = place[d] /\ Seen(d) = read[d]
        /\ Where(d)' = Goes(d, answers'[d]) /\ Seen(d)' = Reads(d, answers'[d])
    BY <2>1, ServeSeen
  <2>3. place[d] = "time"
    BY <2>1, <2>2 DEF Fits
  <2>4. read[d] \in Knowledge
    BY <2>2 DEF NetInv, NetTypeOK
  <2> QED
    BY <2>1, <2>2, <2>3, <2>4
<1>2. /\ running = "up" /\ UNCHANGED serverVars
      /\ answers'[d] = [text |-> "time", time |-> timer]
  BY <1>1 DEF ServeGetTime, Answer, Fits, NetInv, NetTypeOK
<1>3. /\ Where(d)' = "params" /\ Seen(d)'.time = timer
      /\ Seen(d)'.old = Seen(d).old /\ Seen(d)'.inputs = Seen(d).inputs
  BY <1>1, <1>2 DEF Goes, Reads, Knowledge
<1>4. Commands!Goto(d, "time", "params")
  BY <1>1, <1>3 DEF Commands!Goto
<1> QED
  BY <1>1, <1>2, <1>3, <1>4 DEF Commands!AskTime, Commands!faultVars, serverVars, nastawyVars,
     barrierVars, Commands!serverVars, Commands!nastawyVars, Commands!barrierVars

LEMMA AskParamsServed ==
  ASSUME NetInv, Serve, NEW c, c = backlog[1], NEW d, d = c.dev, c.heard, ServeGetParams(c)
  PROVE  Commands!AskParams(d)
<1>1. /\ \A e \in Devices \ {d} : Where(e)' = Where(e) /\ Seen(e)' = Seen(e)
      /\ d \in Devices /\ Fits(c) /\ c.command = "params"
      /\ Where(d) = "params" /\ Seen(d) = read[d] /\ read[d] \in Knowledge
      /\ Where(d)' = Goes(d, answers'[d]) /\ Seen(d)' = Reads(d, answers'[d])
  <2>1. c.command = "params" /\ c.command # "data"
    BY DEF ServeGetParams
  <2>2. /\ \A e \in Devices \ {d} : Where(e)' = Where(e) /\ Seen(e)' = Seen(e)
        /\ d \in Devices /\ Fits(c) /\ Where(d) = place[d] /\ Seen(d) = read[d]
        /\ Where(d)' = Goes(d, answers'[d]) /\ Seen(d)' = Reads(d, answers'[d])
    BY <2>1, ServeSeen
  <2>3. place[d] = "params"
    BY <2>1, <2>2 DEF Fits
  <2>4. read[d] \in Knowledge
    BY <2>2 DEF NetInv, NetTypeOK
  <2> QED
    BY <2>1, <2>2, <2>3, <2>4
<1>2. /\ GetParams(d)
      /\ answers'[d] = [text |-> "params", inputs |-> Params(d)]
  BY <1>1 DEF ServeGetParams, Answer, Fits, NetInv, NetTypeOK
<1>3. /\ Where(d)' = "send" /\ Seen(d)'.inputs = Params(d)
      /\ Seen(d)'.old = Seen(d).old /\ Seen(d)'.time = Seen(d).time
  BY <1>1, <1>2 DEF Goes, Reads, Knowledge
<1>4. Commands!Goto(d, "params", "send")
  BY <1>1, <1>3 DEF Commands!Goto
<1> QED
  BY <1>1, <1>2, <1>3, <1>4, SameCommands, ZenonT(40) DEF Commands!AskParams, Commands!faultVars

LEMMA RecordServed ==
  ASSUME NetInv, Serve, NEW c, c = backlog[1], NEW d, d = c.dev, ServeSendData(c)
  PROVE  Commands!Boot(d) \/ Commands!Report(d)
<1>1. /\ \A e \in Devices \ {d} : Where(e)' = Where(e) /\ Seen(e)' = Seen(e)
      /\ d \in Devices /\ Fits(c) /\ c.command = "data"
      /\ Where(d) = c.from /\ Seen(d) = c.was
      /\ Where(d)' = "wait" /\ Seen(d)' = read[d]
  BY ServeSeen DEF ServeSendData
<1>2. /\ SendData(d, c.was.time)
      /\ read[d] = [time |-> c.was.time, old |-> c.was.time, inputs |-> Unread(d)]
      /\ c.from = "boot" => c.was = [time |-> 0, old |-> 0, inputs |-> Unread(d)]
  BY <1>1 DEF ServeSendData, Fits, First
<1>3. c.from \in {"boot", "send"}
  <2>1. c \in Connections
    BY DevType, ServeEffect
  <2> QED
    BY <1>1, <2>1 DEF Connections
<1>4. Unread(d) = Commands!Unread[d]
  BY <1>1 DEF Unread, Commands!Unread
<1>5. CASE c.from = "boot"
  <2>1. Commands!Goto(d, "boot", "wait")
    BY <1>1, <1>5 DEF Commands!Goto
  <2>2. Seen(d)' = Seen(d) /\ SendData(d, 0)
    BY <1>1, <1>2, <1>5
  <2> QED
    BY <1>1, <2>1, <2>2, SameCommands DEF Commands!Boot, Commands!faultVars
<1>6. CASE c.from = "send"
  <2>1. Commands!Goto(d, "send", "wait")
    BY <1>1, <1>6 DEF Commands!Goto
  <2>2. /\ Seen(d)'.time = Seen(d).time /\ Seen(d)'.old = Seen(d).time
        /\ Seen(d)'.inputs = Commands!Unread[d] /\ SendData(d, Seen(d).time)
    BY <1>1, <1>2, <1>4
  <2>3. Commands!Simulated(d)
    BY <1>1, <2>1, <2>2 DEF Commands!Simulated
  <2> QED
    BY <1>1, <2>2, <2>3, SameCommands DEF Commands!Report, Commands!faultVars
<1> QED
  BY <1>3, <1>5, <1>6

\* Whatever is served, or asked and told and heard, HPKSS knows it as a step.
LEMMA Unseen ==
  ASSUME \A e \in Devices : Where(e)' = Where(e) /\ Seen(e)' = Seen(e), UNCHANGED serverVars
  PROVE  UNCHANGED Commands!vars
BY DEF Commands!vars, Commands!serverVars, Commands!nastawyVars, Commands!barrierVars,
       Commands!clientVars, Commands!faultVars, serverVars, nastawyVars, barrierVars

LEMMA Served ==
  ASSUME NetInv, Serve, backlog[1].heard \/ backlog[1].command = "data"
  PROVE  Commands!Next
<1> DEFINE c == backlog[1]
           d == c.dev
<1>1. d \in Devices
  BY ServeEffect, DevType
<1>2. ServeKeepAlive(c) \/ ServeGetTime(c) \/ ServeGetParams(c) \/ ServeSendData(c)
  BY DEF Serve, Accepted
<1>3. ASSUME ServeKeepAlive(c) PROVE Commands!Poll(d)
  BY <1>3, PollServed DEF ServeKeepAlive
<1>4. ASSUME ServeGetTime(c) PROVE Commands!AskTime(d)
  BY <1>4, AskTimeServed DEF ServeGetTime
<1>5. ASSUME ServeGetParams(c) PROVE Commands!AskParams(d)
  BY <1>5, AskParamsServed DEF ServeGetParams
<1>6. ASSUME ServeSendData(c) PROVE Commands!Boot(d) \/ Commands!Report(d)
  BY <1>6, RecordServed
<1> HIDE DEF c, d
<1> QED
  BY <1>1, <1>2, <1>3, <1>4, <1>5, <1>6 DEF Commands!Next, Commands!Client

\* Every step but a KeepAlive nobody waits for, and giving up, is a step of
\* HPKSS or invisible to it.
LEMMA StepCommands ==
  ASSUME NetInv, [NetNext]_vars,
         Serve => backlog[1].heard \/ backlog[1].command = "data"
  PROVE  [Commands!Next]_Commands!vars
<1>1. CASE Serve
  BY <1>1, Served
<1>2. ASSUME NEW d \in Devices, Ask(d) PROVE UNCHANGED Commands!vars
  BY <1>2, AskUnseen, Unseen DEF Ask
<1>3. ASSUME NEW d \in Devices, Tell(d) PROVE UNCHANGED Commands!vars
  BY <1>3, TellUnseen, Unseen DEF Tell
<1>4. ASSUME NEW d \in Devices, Hear(d) PROVE UNCHANGED Commands!vars
  BY <1>4, HearUnseen, Unseen DEF Hear
<1>5. CASE UNCHANGED vars
  BY <1>5, Unseen DEF vars, netVars, Where, Seen, Waiting, Unserved, Goes, Reads
<1> QED
  BY <1>1, <1>2, <1>3, <1>4, <1>5 DEF NetNext, Script, AtBound

LEMMA InitCommands == NetInit => Commands!Init
<1> SUFFICES ASSUME NetInit PROVE Commands!Init
  OBVIOUS
<1>1. ASSUME NEW d \in Devices
      PROVE  /\ Where(d) = "boot" /\ Seen(d).time = 0 /\ Seen(d).old = 0
             /\ Seen(d).inputs = [s \in Sources[d] |-> NoData]
  <2>1. Waiting(d) = {} /\ answers[d] = NoAnswer
    BY DEF NetInit, Waiting
  <2> QED
    BY <2>1, SeenPlainly DEF NetInit, Unread
<1>2. Commands!ServerInit
  BY DEF NetInit, ServerInit, NastawyInit, Commands!ServerInit, Commands!NastawyInit
<1> QED
  BY <1>1, <1>2 DEF Commands!Init, Commands!Unread

\* Every step of the network keeps its invariant.
LEMMA StepNetInv ==
  ASSUME NetInv, [LateNext]_vars
  PROVE  NetInv' /\ (AllHeard /\ [NetNext]_vars => AllHeard')
<1>1. CASE Serve
  BY <1>1, ServeInv
<1>2. ASSUME NEW d \in Devices, Ask(d) PROVE NetInv' /\ (AllHeard => AllHeard')
  BY <1>2, AskInv
<1>3. ASSUME NEW d \in Devices, Tell(d) PROVE NetInv' /\ (AllHeard => AllHeard')
  BY <1>3, TellInv
<1>4. ASSUME NEW d \in Devices, Hear(d) PROVE NetInv' /\ (AllHeard => AllHeard')
  BY <1>4, HearInv
<1>5. ASSUME UNCHANGED vars PROVE NetInv' /\ (AllHeard => AllHeard')
  BY <1>5 DEF vars, netVars, serverVars, nastawyVars, barrierVars, NetInv, NetTypeOK, TypeOK,
     NastawyTypeOK, BarrierDrained, ScriptsWait, BacklogFits, Fits, First, Unread,
     BacklogInOrder, AllHeard
<1>6. CASE [NetNext]_vars
  BY <1>1, <1>2, <1>3, <1>4, <1>5, <1>6 DEF NetNext, Script, AtBound
<1>7. ASSUME NEW d \in Devices, GiveUp(d), ~[NetNext]_vars PROVE NetInv'
  BY <1>7, GiveUpInv
<1> QED
  BY <1>6, <1>7 DEF LateNext

\* Scripts, backlog and server, with every answer waited for, are the
\* co-simulation in which a command and its handling are one step, for any
\* devices, sources, length of the backlog and number of steps.
THEOREM NetImplementsHPKSS == NetSpec => ImplementsHPKSS
<1>1. NetInv /\ AllHeard /\ [NetNext]_vars => NetInv' /\ AllHeard'
  BY StepNetInv DEF LateNext
<1>2. NetInv /\ AllHeard /\ [NetNext]_vars => [Commands!Next]_Commands!vars
  <2>1. NetInv /\ AllHeard /\ Serve => backlog[1].heard \/ backlog[1].command = "data"
    BY ServeEffect DEF AllHeard
  <2> QED
    BY <2>1, StepCommands
<1> QED
  BY <1>1, <1>2, InitNetInv, InitCommands, PTL DEF NetSpec, ImplementsHPKSS, Commands!Spec

------------------------------------------------------------------------------
(* Answers nobody waits for. *)

LEMMA ProvedCommands ==
  ASSUME NEW d, NEW x
  PROVE  /\ Commands!KeepAlive(d) => Proved!KeepAlive(d)
         /\ Commands!GetParams(d) => Proved!GetParams(d)
         /\ Commands!SendData(d, x) => Proved!SendData(d, x)
         /\ KeepAlive(d) => Proved!KeepAlive(d)
         /\ GetParams(d) => Proved!GetParams(d)
         /\ Proved!AnswersSta(d) = Commands!AnswersSta(d) /\ Proved!Params(d) = Commands!Params(d)
<1> USE DEF Proved!EndOfCommand, Proved!CompleteRound, Proved!allClientsSentData,
            Proved!allClientsConnected, Proved!resetConnectionsTable,
            Proved!resetSentDataTable, Proved!fastForwardTimeInMinutes,
            Proved!updateDeviceValues, Proved!printAllData, Proved!nastawyVars,
            Commands!EndOfCommand, Commands!CompleteRound, Commands!allClientsSentData,
            Commands!allClientsConnected, Commands!resetConnectionsTable,
            Commands!resetSentDataTable, Commands!fastForwardTimeInMinutes,
            Commands!updateDeviceValues, Commands!printAllData, Commands!nastawyVars
<1>1. Commands!KeepAlive(d) => Proved!KeepAlive(d)
  BY DEF Proved!KeepAlive, Commands!KeepAlive
<1>2. Commands!GetParams(d) => Proved!GetParams(d)
  BY DEF Proved!GetParams, Commands!GetParams, Proved!czytaj_nastawy, Commands!czytaj_nastawy,
         Proved!ReadWhole, Proved!ReadNothing, Proved!ReadTorn, Commands!ReadWhole,
         Commands!ReadNothing, Commands!ReadTorn
<1>3. Commands!SendData(d, x) => Proved!SendData(d, x)
  BY DEF Proved!SendData, Commands!SendData
<1>4. Proved!AnswersSta(d) = Commands!AnswersSta(d) /\ Proved!Params(d) = Commands!Params(d)
  BY DEF Proved!AnswersSta, Commands!AnswersSta, Proved!Params, Commands!Params
<1> QED
  BY <1>1, <1>2, <1>3, <1>4, SameCommands

LEMMA ProvedStep == [Commands!Next]_Commands!vars => [Proved!Next]_Proved!vars
<1> USE DEF Proved!Goto, Commands!Goto, Proved!faultVars, Commands!faultVars
<1>1. ASSUME NEW d \in Devices, Commands!Boot(d) PROVE Proved!Boot(d)
  BY <1>1, ProvedCommands DEF Proved!Boot, Commands!Boot
<1>2. ASSUME NEW d \in Devices, Commands!Poll(d) PROVE Proved!Poll(d)
  BY <1>2, ProvedCommands DEF Proved!Poll, Commands!Poll
<1>3. ASSUME NEW d \in Devices, Commands!AskTime(d) PROVE Proved!AskTime(d)
  BY <1>3 DEF Proved!AskTime, Commands!AskTime, Proved!serverVars, Proved!nastawyVars,
     Proved!barrierVars, Commands!serverVars, Commands!nastawyVars, Commands!barrierVars
<1>4. ASSUME NEW d \in Devices, Commands!AskParams(d) PROVE Proved!AskParams(d)
  BY <1>4, ProvedCommands DEF Proved!AskParams, Commands!AskParams
<1>5. ASSUME NEW d \in Devices, Commands!Report(d) PROVE Proved!Report(d)
  BY <1>5, ProvedCommands DEF Proved!Report, Commands!Report, Proved!Simulated,
     Commands!Simulated, Proved!Unread, Commands!Unread
<1>6. ASSUME NEW d \in Devices, Commands!Fault(d) PROVE FALSE
  BY <1>6 DEF Commands!Fault, Commands!LoseBoot, Commands!LoseReport, Commands!LoseTime,
     Commands!Lose, Commands!Restart
<1>7. Commands!on_message => Proved!on_message
  BY DEF Commands!on_message, Proved!on_message, Commands!WriteSettings, Proved!WriteSettings,
     Commands!OpenSettings, Proved!OpenSettings
<1>8. /\ UNCHANGED Commands!barrierVars => UNCHANGED Proved!barrierVars
      /\ UNCHANGED Commands!clientVars => UNCHANGED Proved!clientVars
      /\ UNCHANGED Commands!vars => UNCHANGED Proved!vars
  BY DEF Commands!vars, Commands!serverVars, Commands!nastawyVars, Commands!barrierVars,
     Commands!clientVars, Proved!vars, Proved!serverVars, Proved!nastawyVars,
     Proved!barrierVars, Proved!clientVars
<1>9. ASSUME Commands!Next PROVE Proved!Next
  <2>1. CASE \E d \in Devices : Commands!Client(d) \/ Commands!Fault(d)
    BY <2>1, <1>1, <1>2, <1>3, <1>4, <1>5, <1>6
       DEF Commands!Client, Proved!Client, Proved!Next
  <2>2. CASE /\ Commands!on_message
             /\ UNCHANGED <<Commands!barrierVars, Commands!clientVars, Commands!faultVars>>
    BY <2>2, <1>7, <1>8 DEF Proved!Next
  <2> QED
    BY <1>9, <2>1, <2>2 DEF Commands!Next
<1> QED
  BY <1>8, <1>9

LEMMA ProvedInit == Commands!Init => Proved!Init
BY DEF Commands!Init, Proved!Init, Commands!ServerInit, Proved!ServerInit,
   Commands!NastawyInit, Proved!NastawyInit, Commands!Unread, Proved!Unread

LEMMA InitGiven == NetInit => Proved!GivenInv
BY InitCommands, ProvedInit, ProvedAssumptions, NastawyAssumption, ServerAssumption,
   Proved!InitIInv DEF Proved!IInv

LEMMA StepGiven ==
  ASSUME Proved!GivenInv, [Commands!Next]_Commands!vars
  PROVE  Proved!GivenInv'
BY ProvedStep, ProvedAssumptions, NastawyAssumption, ServerAssumption, Proved!StepInvs
   DEF Proved!GivenInv

LEMMA IdleGiven ==
  ASSUME Proved!GivenInv, UNCHANGED barrierVars, NetTypeOK',
         \A e \in Devices : Where(e)' = Where(e) /\ Seen(e)' = Seen(e)
  PROVE  Proved!GivenInv'
<1>1. UNCHANGED <<Proved!barrierVars, Proved!clientVars, Proved!faultVars>>
  BY DEF barrierVars, Proved!barrierVars, Proved!clientVars, Proved!faultVars
<1>2. Proved!TypeOK'
  BY DEF NetTypeOK, TypeOK, NastawyTypeOK, Record, Proved!TypeOK, Proved!NastawyTypeOK, Proved!Record
<1>3. Proved!ClientsTypeOK'
  BY <1>2 DEF Proved!GivenInv, Proved!AgeInv, Proved!ClientsTypeOK, Proved!Steps, Proved!Record
<1> QED
  BY <1>1, <1>3, ProvedAssumptions, NastawyAssumption, ServerAssumption, Proved!FrameInv
     DEF Proved!GivenInv

\* A KeepAlive nobody waits for comes from a script that waits: that it counts
\* once more is all it does.
LEMMA LateGiven ==
  ASSUME NetInv, Proved!GivenInv, Serve, ~backlog[1].heard, backlog[1].command # "data"
  PROVE  Proved!GivenInv'
<1> PICK c : c = backlog[1]
  OBVIOUS
<1> PICK d : d = c.dev
  OBVIOUS
<1>1. /\ NetTypeOK' /\ d \in Devices /\ Fits(c)
      /\ answers'[d] = answers[d] /\ answers[d] = NoAnswer
      /\ \A e \in Devices \ {d} : Where(e)' = Where(e) /\ Seen(e)' = Seen(e)
      /\ Where(d) = place[d] /\ Seen(d) = read[d]
      /\ Where(d)' = Goes(d, answers'[d]) /\ Seen(d)' = Reads(d, answers'[d])
  <2>1. /\ \A e \in Devices \ {d} : Where(e)' = Where(e) /\ Seen(e)' = Seen(e)
        /\ d \in Devices /\ Fits(c)
        /\ Where(d) = place[d] /\ Seen(d) = read[d]
        /\ Where(d)' = Goes(d, answers'[d]) /\ Seen(d)' = Reads(d, answers'[d])
    BY ServeSeen
  <2>2. NetTypeOK' /\ answers'[d] = answers[d]
    BY ServeEffect, <2>1
  <2>3. answers[d] = NoAnswer
    BY <2>1 DEF Fits
  <2> QED
    BY <2>1, <2>2, <2>3
<1>2. \A e \in Devices : Where(e)' = Where(e) /\ Seen(e)' = Seen(e)
  <2>1. answers'[d].text = "none"
    BY <1>1 DEF NoAnswer
  <2>2. Goes(d, answers'[d]) = place[d] /\ Reads(d, answers'[d]) = read[d]
    BY <2>1 DEF Goes, Reads
  <2> QED
    BY <1>1, <2>2
<1>3. ServeKeepAlive(c) \/ ServeGetTime(c) \/ ServeGetParams(c)
  BY DEF Serve, Accepted, ServeSendData
<1>4. ASSUME ServeKeepAlive(c) PROVE Proved!GivenInv'
  <2>1. KeepAlive(d) /\ Where(d) = "wait"
    BY <1>1, <1>4 DEF ServeKeepAlive, Fits
  <2>2. Proved!KeepAlive(d)
    BY <2>1, ProvedCommands
  <2>3. UNCHANGED <<Proved!clientVars, Proved!faultVars>>
    BY <1>2 DEF Proved!clientVars, Proved!faultVars
  <2>4. [e \in Devices |-> Where(e)][d] = "wait"
    BY <1>1, <2>1
  <2> QED
    BY <1>1, <2>2, <2>3, <2>4, ProvedAssumptions, NastawyAssumption, ServerAssumption,
       Proved!LateKeepAlive
<1>5. ASSUME ServeGetTime(c) PROVE Proved!GivenInv'
  BY <1>1, <1>2, <1>5, IdleGiven DEF ServeGetTime, serverVars
<1>6. ASSUME ServeGetParams(c) PROVE Proved!GivenInv'
  <2>1. deviceSentData # Devices
    BY DEF NetInv, BarrierDrained
  <2>2. UNCHANGED barrierVars
    BY <1>6, <2>1 DEF ServeGetParams, GetParams, EndOfCommand, allClientsSentData, barrierVars
  <2> QED
    BY <1>1, <1>2, <2>2, IdleGiven
<1> QED
  BY <1>3, <1>4, <1>5, <1>6

\* Who stops waiting is where it was before it asked, whether or not it would
\* have been let in.
LEMMA GiveUpGiven ==
  ASSUME NetInv, Proved!GivenInv, NEW d \in Devices, GiveUp(d)
  PROVE  Proved!GivenInv'
<1>1. /\ place[d] = "wait" /\ DOMAIN answers = Devices
      /\ answers' = [answers EXCEPT ![d] = NoAnswer]
      /\ UNCHANGED <<serverVars, place, read>>
  BY DEF GiveUp, NetInv, NetTypeOK
<1>2. /\ NetInv' /\ DOMAIN backlog' = DOMAIN backlog
      /\ \A i \in DOMAIN backlog :
           /\ backlog'[i].dev = backlog[i].dev /\ backlog'[i].command = backlog[i].command
           /\ backlog[i].command = "data" =>
                backlog'[i].was = backlog[i].was /\ backlog'[i].from = backlog[i].from
  BY GiveUpInv
<1>3. ASSUME NEW e \in Devices
      PROVE  /\ Waiting(e)' = Waiting(e)
             /\ Waiting(e) # {} =>
                  Unserved(e)'.from = Unserved(e).from /\ Unserved(e)'.was = Unserved(e).was
  <2>1. Waiting(e)' = Waiting(e)
    BY <1>2 DEF Waiting
  <2>2. ASSUME NEW i \in Waiting(e)
        PROVE  Unserved(e)'.from = Unserved(e).from /\ Unserved(e)'.was = Unserved(e).was
    <3>1. Waiting(e) = {i} /\ Unserved(e) = backlog[i] /\ i \in DOMAIN backlog /\ backlog[i].command = "data"
      BY OneRecord
    <3>2. Unserved(e)' = backlog'[i]
      BY <2>1, <3>1 DEF Unserved
    <3> QED
      BY <1>2, <3>1, <3>2
  <2> QED
    BY <2>1, <2>2
<1>4. \A e \in Devices : answers[e].text \in {"time", "params"} => place[e] = answers[e].text
  BY DEF NetInv, ScriptsWait
<1>5. \A e \in Devices : Seen(e)' = Seen(e)
  BY <1>1, <1>3, <1>4 DEF Seen, Reads, NoAnswer
<1>6. \A e \in Devices \ {d} : Where(e)' = Where(e)
  BY <1>1, <1>3 DEF Where, Goes
<1>7. CASE Waiting(d) # {}
  <2>1. Where(d)' = Where(d)
    BY <1>3, <1>7 DEF Where
  <2> QED
    BY <1>1, <1>2, <1>5, <1>6, <2>1, IdleGiven DEF NetInv, serverVars
<1>8. CASE Waiting(d) = {}
  <2> DEFINE pc == [e \in Devices |-> Where(e)]
  <2>1. Where(d)' = "wait" /\ Where(d) \in {"wait", "time"}
    BY <1>1, <1>3, <1>4, <1>8 DEF Where, Goes, NoAnswer
  <2>2. pc[d] \in {"wait", "time"} /\ pc' = [pc EXCEPT ![d] = "wait"]
    BY <1>6, <2>1
  <2>3. /\ UNCHANGED Proved!serverVars /\ UNCHANGED Proved!faultVars
        /\ UNCHANGED <<[e \in Devices |-> Seen(e).time], [e \in Devices |-> Seen(e).old],
                       [e \in Devices |-> Seen(e).inputs]>>
    BY <1>1, <1>5 DEF serverVars, nastawyVars, barrierVars, Proved!serverVars,
       Proved!nastawyVars, Proved!barrierVars, Proved!faultVars
  <2> QED
    BY <2>2, <2>3, ProvedAssumptions, NastawyAssumption, ServerAssumption, Proved!StopsWaiting
<1> QED
  BY <1>7, <1>8

LEMMA StepLate == NetInv /\ Proved!GivenInv /\ [LateNext]_vars => NetInv' /\ Proved!GivenInv'
<1> SUFFICES ASSUME NetInv, Proved!GivenInv, [LateNext]_vars PROVE Proved!GivenInv'
  BY StepNetInv
<1>1. CASE [NetNext]_vars /\ (Serve => backlog[1].heard \/ backlog[1].command = "data")
  BY <1>1, StepCommands, StepGiven
<1>2. CASE Serve /\ ~backlog[1].heard /\ backlog[1].command # "data"
  BY <1>2, LateGiven
<1>3. ASSUME NEW d \in Devices, GiveUp(d) PROVE Proved!GivenInv'
  BY <1>3, GiveUpGiven
<1> QED
  BY <1>1, <1>2, <1>3 DEF LateNext

\* However many answers nobody waits for, and in whatever round the KeepAlives
\* behind them are served: the ages of records and times stay within the bounds
\* of HPKSS and nobody is given a blank, for any devices and sources.
THEOREM LateAnswersDoNoHarm == LateSpec => []LateAnswersHarmless
<1>1. Proved!GivenInv => LateAnswersHarmless
  BY DEF Proved!GivenInv, Proved!AgeInv, LateAnswersHarmless, AgesBounded, NobodyBlank,
     Proved!BoundedStaleness, Commands!BoundedStaleness, Proved!InputSkew, Commands!InputSkew,
     Proved!StepGap, Commands!StepGap, Proved!ParamsInitialised, Commands!ParamsInitialised,
     Proved!Punctual, Commands!Punctual, Proved!Steps, Commands!Steps
<1> QED
  BY <1>1, InitNetInv, InitGiven, StepLate, PTL DEF LateSpec
=============================================================================

----------------------------- MODULE HPKSSProofs -----------------------------
(***************************************************************************)
(* Theorems about the server alone and about the whole co-simulation, for  *)
(* any set of devices, any choice of who is sent whose records, and any    *)
(* number of steps, edits of the settings, restarts and lost commands.     *)
(***************************************************************************)
EXTENDS ServerRestart, FiniteSetTheorems, TLAPS

------------------------------------------------------------------------------
(* The server alone, whatever its clients send and in whatever order. *)

\* The inductive invariant: the types, and a drained table of senders.
Inv == TypeOK /\ BarrierDrained

\* main starts in the invariant.
LEMMA InitInv == ServerInit => Inv
<1> SUFFICES ASSUME ServerInit PROVE Inv
  OBVIOUS
<1> USE DEF ServerInit
<1>1. NastawyTypeOK
  BY NastawyAssumption DEF NastawyInit, NastawyTypeOK
<1>2. csv \in Seq(Nat \cup {Header})
  OBVIOUS
<1>3. TypeOK
  BY <1>1, <1>2, ServerAssumption DEF TypeOK, Record
<1>4. BarrierDrained
  BY ServerAssumption DEF BarrierDrained
<1> QED
  BY <1>3, <1>4 DEF Inv

\* Reading a settings file keeps the types of what it changes.
LEMMA ReadTypes ==
  ASSUME NastawyTypeOK, NEW d \in Tunable, czytaj_nastawy(d),
         UNCHANGED <<nastawy, edits>>
  PROVE  NastawyTypeOK'
BY DEF NastawyTypeOK, czytaj_nastawy, ReadWhole, ReadNothing, ReadTorn

\* Tornado's steps keep them too.
LEMMA TornadoTypes == NastawyTypeOK /\ on_message => NastawyTypeOK'
BY NastawyAssumption
   DEF NastawyTypeOK, on_message, OpenSettings, WriteSettings

\* The lines printAllData writes keep data.csv a sequence of lines.
LEMMA PrintTypes ==
  ASSUME csv \in Seq(Nat \cup {Header}), NEW rounds, NEW now \in Nat,
         printAllData(rounds, now)
  PROVE  csv' \in Seq(Nat \cup {Header})
BY DEF printAllData

\* The code after a command keeps the types, and leaves the table drained.
LEMMA TailInv ==
  ASSUME Inv,
         NEW connected \in SUBSET Devices, NEW sent \in SUBSET Devices,
         NEW current \in [Devices -> Record],
         NEW published \in [Devices -> Record],
         EndOfCommand(connected, sent, current, published),
         NastawyTypeOK'
  PROVE  Inv'
<1> USE DEF Inv, TypeOK, BarrierDrained
<1>1. CASE sent = Devices
  <2>1. CompleteRound(connected, current)
    BY <1>1 DEF EndOfCommand, allClientsSentData
  <2>2. timer' \in 0..MaxSteps /\ iteration' \in 0..timer'
    BY <2>1, ServerAssumption DEF CompleteRound, fastForwardTimeInMinutes
  <2>3. deviceConnected' \in SUBSET Devices /\ deviceSentData' = {}
    BY <2>1 DEF CompleteRound, resetConnectionsTable, resetSentDataTable
  <2>4. csv' \in Seq(Nat \cup {Header})
    BY <2>1, <2>2, PrintTypes DEF CompleteRound
  <2>5. obecne' = current /\ zeszle' = current
    BY <2>1 DEF CompleteRound, updateDeviceValues
  <2> QED
    BY <2>2, <2>3, <2>4, <2>5, ServerAssumption
<1>2. CASE sent # Devices
  BY <1>2 DEF EndOfCommand, allClientsSentData
<1> QED
  BY <1>1, <1>2

\* Every step of the server or of Tornado keeps the invariant.
LEMMA StepInv == Inv /\ [ServerNext]_serverVars => Inv'
<1> SUFFICES ASSUME Inv, [ServerNext]_serverVars PROVE Inv'
  OBVIOUS
<1>0. /\ deviceConnected \in SUBSET Devices /\ deviceSentData \in SUBSET Devices
      /\ obecne \in [Devices -> Record] /\ zeszle \in [Devices -> Record]
      /\ NastawyTypeOK
  BY DEF Inv, TypeOK
<1>1. ASSUME NEW d \in Devices, KeepAlive(d) PROVE Inv'
  <2>1. NastawyTypeOK'
    BY <1>0, <1>1 DEF KeepAlive, nastawyVars, NastawyTypeOK
  <2>2. deviceConnected \cup {d} \in SUBSET Devices
    BY <1>0
  <2> QED
    BY <1>0, <1>1, <2>1, <2>2, TailInv DEF KeepAlive
<1>2. ASSUME NEW d \in Devices, GetParams(d) PROVE Inv'
  <2>1. NastawyTypeOK'
    <3>1. CASE d \in Tunable
      BY <1>0, <1>2, <3>1, ReadTypes DEF GetParams
    <3>2. CASE d \notin Tunable
      BY <1>0, <1>2, <3>2 DEF GetParams, NastawyTypeOK
    <3> QED
      BY <3>1, <3>2
  <2> QED
    BY <1>0, <1>2, <2>1, TailInv DEF GetParams
<1>3. ASSUME NEW d \in Devices, NEW x \in Data, SendData(d, x) PROVE Inv'
  <2>1. NastawyTypeOK'
    BY <1>0, <1>3 DEF SendData, nastawyVars, NastawyTypeOK
  <2>2. /\ deviceSentData \cup {d} \in SUBSET Devices
        /\ [obecne EXCEPT ![d] = x] \in [Devices -> Record]
    BY <1>0 DEF Record
  <2> QED
    BY <1>0, <1>3, <2>1, <2>2, TailInv DEF SendData
<1>4. ASSUME NEW d \in Devices, SendPart(d) PROVE Inv'
  <2>1. NastawyTypeOK'
    BY <1>0, <1>4 DEF SendPart, nastawyVars, NastawyTypeOK
  <2>2. deviceSentData \cup {d} \in SUBSET Devices
    BY <1>0
  <2> QED
    BY <1>0, <1>4, <2>1, <2>2, TailInv DEF SendPart
<1>5. ASSUME NEW d \in Devices, SendPartUnchecked(d) PROVE Inv'
  BY <1>5 DEF SendPartUnchecked, Inv, TypeOK, NastawyTypeOK, BarrierDrained,
              barrierVars
<1>6. ASSUME SendDataStranger PROVE Inv'
  <2>1. NastawyTypeOK'
    BY <1>0, <1>6 DEF SendDataStranger, nastawyVars, NastawyTypeOK
  <2> QED
    BY <1>0, <1>6, <2>1, TailInv DEF SendDataStranger
<1>7. ASSUME closeServer PROVE Inv'
  BY <1>7 DEF closeServer, Inv, TypeOK, NastawyTypeOK, BarrierDrained, barrierVars
<1>8. ASSUME on_message, UNCHANGED barrierVars PROVE Inv'
  <2>1. NastawyTypeOK'
    BY <1>0, <1>8, TornadoTypes
  <2> QED
    BY <1>8, <2>1 DEF Inv, TypeOK, BarrierDrained, barrierVars
<1>9. ASSUME UNCHANGED serverVars PROVE Inv'
  BY <1>9 DEF serverVars, nastawyVars, barrierVars, Inv, TypeOK, NastawyTypeOK,
              BarrierDrained
<1> QED
  BY <1>1, <1>2, <1>3, <1>4, <1>5, <1>6, <1>7, <1>8, <1>9 DEF ServerNext, Command

\* The server's variables keep their types, and the table of senders is never
\* full when the server waits for a command (Server.cpp:487-507).
THEOREM ServerTypeCorrect == ServerSpec => []TypeOK
<1>1. ServerSpec => []Inv
  BY InitInv, StepInv, PTL DEF ServerSpec
<1>2. Inv => TypeOK
  BY DEF Inv
<1> QED
  BY <1>1, <1>2, PTL

\* No round is left finished but not acted on.
THEOREM ServerDrainsBarrier == ServerSpec => []BarrierDrained
<1>1. ServerSpec => []Inv
  BY InitInv, StepInv, PTL DEF ServerSpec
<1>2. Inv => BarrierDrained
  BY DEF Inv
<1> QED
  BY <1>1, <1>2, PTL

------------------------------------------------------------------------------
(* data.csv. *)

\* The rows stay in order, each once, when one for the next time is added.
LEMMA NextRow ==
  ASSUME NEW log \in Seq(Nat \cup {Header}), NEW n \in Nat, RowsUpTo(n, log)
  PROVE  RowsUpTo(n + 1, Append(log, n + 1))
<1> DEFINE new == Append(log, n + 1)
<1>1. /\ DOMAIN log = 1..Len(log) /\ DOMAIN new = 1..(Len(log) + 1) /\ Len(log) \in Nat
      /\ \A i \in 1..Len(log) : new[i] = log[i]
      /\ new[Len(log) + 1] = n + 1
  OBVIOUS
<1>2. n + 1 # Header
  BY ServerAssumption
<1>3. \A i \in DOMAIN log : log[i] # Header => log[i] \in 1..n
  BY DEF RowsUpTo
<1> HIDE DEF new
<1>4. {new[i] : i \in DOMAIN new} = {log[i] : i \in DOMAIN log} \cup {n + 1}
  BY <1>1
<1>5. 1..(n + 1) = (1..n) \cup {n + 1}
  OBVIOUS
<1>6. {new[i] : i \in DOMAIN new} \ {Header} = 1..(n + 1)
  BY <1>2, <1>4, <1>5 DEF RowsUpTo
<1>7. ASSUME NEW i \in DOMAIN new, NEW j \in DOMAIN new, i < j, Header \notin {new[i], new[j]}
      PROVE  new[i] < new[j]
  <2>1. i \in 1..Len(log) /\ new[i] = log[i] /\ log[i] \in 1..n
    BY <1>1, <1>3, <1>7
  <2>2. CASE j = Len(log) + 1
    BY <1>1, <2>1, <2>2
  <2>3. CASE j \in 1..Len(log)
    BY <1>1, <1>7, <2>1, <2>3 DEF RowsUpTo
  <2> QED
    BY <1>1, <2>2, <2>3
<1> QED
  BY <1>6, <1>7 DEF RowsUpTo, new

\* A header between them changes nothing.
LEMMA NextHeader ==
  ASSUME NEW log \in Seq(Nat \cup {Header}), NEW n \in Nat, RowsUpTo(n, log)
  PROVE  RowsUpTo(n, Append(log, Header))
<1> DEFINE new == Append(log, Header)
<1>1. /\ DOMAIN log = 1..Len(log) /\ DOMAIN new = 1..(Len(log) + 1) /\ Len(log) \in Nat
      /\ \A i \in 1..Len(log) : new[i] = log[i]
      /\ new[Len(log) + 1] = Header
  OBVIOUS
<1> HIDE DEF new
<1>2. {new[i] : i \in DOMAIN new} = {log[i] : i \in DOMAIN log} \cup {Header}
  BY <1>1
<1>3. \A i \in DOMAIN new : new[i] # Header => i \in DOMAIN log /\ new[i] = log[i]
  BY <1>1
<1> QED
  BY <1>2, <1>3 DEF RowsUpTo, new

\* The end of a round adds its row, after a header perhaps.
LEMMA RoundRow ==
  ASSUME TypeOK, RowPerStep, NEW rounds, timer' = timer + 1, printAllData(rounds, timer')
  PROVE  RowPerStep'
<1>1. csv \in Seq(Nat \cup {Header}) /\ timer \in Nat
  BY ServerAssumption DEF TypeOK
<1>2. RowsUpTo(timer + 1, Append(csv, timer + 1))
  BY <1>1, NextRow DEF RowPerStep
<1>3. /\ Append(csv, Header) \in Seq(Nat \cup {Header})
      /\ RowsUpTo(timer, Append(csv, Header))
  BY <1>1, NextHeader DEF RowPerStep
<1>4. RowsUpTo(timer + 1, Append(Append(csv, Header), timer + 1))
  BY <1>1, <1>3, NextRow
<1> QED
  BY <1>2, <1>4 DEF RowPerStep, printAllData

\* A command ends a round or leaves data.csv and the time alone.
LEMMA StepRows == Inv /\ RowPerStep /\ [ServerNext]_serverVars => RowPerStep'
<1> SUFFICES ASSUME Inv, RowPerStep, [ServerNext]_serverVars PROVE RowPerStep'
  OBVIOUS
<1>1. ASSUME NEW connected, NEW sent, NEW current, NEW published,
             EndOfCommand(connected, sent, current, published)
      PROVE  RowPerStep'
  <2>1. CASE sent = Devices
    BY <1>1, <2>1, RoundRow
       DEF Inv, EndOfCommand, CompleteRound, allClientsSentData, fastForwardTimeInMinutes
  <2>2. CASE sent # Devices
    BY <1>1, <2>2 DEF EndOfCommand, allClientsSentData, RowPerStep
  <2> QED
    BY <2>1, <2>2
<1>2. ASSUME UNCHANGED barrierVars PROVE RowPerStep'
  BY <1>2 DEF barrierVars, RowPerStep
<1>3. ASSUME NEW d \in Devices, Command(d) PROVE RowPerStep'
  BY <1>1, <1>2, <1>3 DEF Command, KeepAlive, GetParams, SendData, SendPart, SendPartUnchecked
<1> QED
  BY <1>1, <1>2, <1>3 DEF ServerNext, SendDataStranger, closeServer, serverVars

\* data.csv has one row for each step of the simulated time and has them in
\* order, whatever is sent by whom and however often its header is repeated
\* (printAllData, Server.cpp).
THEOREM ServerLogsEveryStep == ServerSpec => []RowPerStep
<1>1. ServerSpec => []Inv
  BY InitInv, StepInv, PTL DEF ServerSpec
<1>2. ServerInit => RowPerStep
  BY DEF ServerInit, RowPerStep, RowsUpTo
<1> QED
  BY <1>1, <1>2, StepRows, PTL DEF ServerSpec

------------------------------------------------------------------------------
(* The server implements the exchange. *)

\* A command that adds no sender and publishes nothing is invisible.
LEMMA QuietTail ==
  ASSUME Inv, NEW connected, EndOfCommand(connected, deviceSentData, obecne, zeszle)
  PROVE  UNCHANGED Barrier!vars
BY DEF Inv, BarrierDrained, EndOfCommand, allClientsSentData, Barrier!vars

\* A command that stores x as the record of d and marks d as a sender is an
\* offer, or, from the last device missing, the end of the round.
LEMMA OfferTail ==
  ASSUME Inv, NEW d \in Devices, NEW x \in Record, NEW current,
         current = [obecne EXCEPT ![d] = x],
         EndOfCommand(deviceConnected, deviceSentData \cup {d}, current, zeszle)
  PROVE  Barrier!Next
<1>1. current = obecne'
  BY DEF EndOfCommand, CompleteRound, updateDeviceValues
<1>2. CASE deviceSentData \cup {d} = Devices
  <2>1. CompleteRound(deviceConnected, current)
    BY <1>2 DEF EndOfCommand, allClientsSentData
  <2>2. timer' = timer + 1 /\ deviceSentData' = {} /\ zeszle' = current
    BY <2>1 DEF CompleteRound, fastForwardTimeInMinutes, resetSentDataTable,
                updateDeviceValues
  <2>3. Barrier!Complete(d, x)
    BY <1>1, <1>2, <2>2 DEF Barrier!Complete, Barrier!Put
  <2> QED
    BY <2>3 DEF Barrier!Next
<1>3. CASE deviceSentData \cup {d} # Devices
  <2>1. deviceSentData' = deviceSentData \cup {d} /\ UNCHANGED <<timer, zeszle>>
    BY <1>3 DEF EndOfCommand, allClientsSentData
  <2>2. Barrier!Offer(d, x)
    BY <1>1, <1>3, <2>1 DEF Barrier!Offer, Barrier!Put
  <2> QED
    BY <2>2 DEF Barrier!Next
<1> QED
  BY <1>2, <1>3

\* The barrier's variables say nothing of the process or of its settings.
LEMMA BarrierFrame == UNCHANGED barrierVars => UNCHANGED Barrier!vars
BY DEF barrierVars, Barrier!vars

\* Without strangers every step is a step of the exchange or invisible to it.
LEMMA StepExchange ==
  ASSUME Strangers = {}, Inv, [ServerNext]_serverVars
  PROVE  [Barrier!Next]_Barrier!vars
<1>1. ASSUME NEW d \in Devices, KeepAlive(d) PROVE UNCHANGED Barrier!vars
  BY <1>1, QuietTail DEF KeepAlive
<1>2. ASSUME NEW d \in Devices, GetParams(d) PROVE UNCHANGED Barrier!vars
  BY <1>2, QuietTail DEF GetParams
<1>3. ASSUME NEW d \in Devices, NEW x \in Data, SendData(d, x) PROVE Barrier!Next
  <2>1. x \in Record
    BY DEF Record
  <2> QED
    BY <1>3, <2>1, OfferTail DEF SendData
<1>4. ASSUME NEW d \in Devices, SendPart(d) PROVE Barrier!Next
  <2>1. obecne[d] \in Record /\ obecne = [obecne EXCEPT ![d] = obecne[d]]
    BY DEF Inv, TypeOK
  <2> QED
    BY <1>4, <2>1, OfferTail DEF SendPart
<1>5. ASSUME NEW d \in Devices, SendPartUnchecked(d) PROVE UNCHANGED Barrier!vars
  BY <1>5, BarrierFrame DEF SendPartUnchecked, barrierVars
<1>6. ASSUME closeServer PROVE UNCHANGED Barrier!vars
  BY <1>6, BarrierFrame DEF closeServer, barrierVars
<1>7. ASSUME UNCHANGED serverVars PROVE UNCHANGED Barrier!vars
  BY <1>7, BarrierFrame DEF serverVars
<1> QED
  BY <1>1, <1>2, <1>3, <1>4, <1>5, <1>6, <1>7, BarrierFrame DEF ServerNext, Command

\* Strangers aside, the server implements the exchange: whatever the devices
\* send, a round is published by the command that completes it, whole, and
\* nothing else becomes visible (Server.cpp:418-507).
THEOREM ServerExchanges ==
  ASSUME Strangers = {}
  PROVE  ServerSpec => ImplementsExchange
<1>1. ServerInit => Barrier!Init
  BY DEF ServerInit, Barrier!Init
<1>2. Inv /\ [ServerNext]_serverVars => [Barrier!Next]_Barrier!vars
  BY StepExchange
<1>3. ServerSpec => []Inv
  BY InitInv, StepInv, PTL DEF ServerSpec
<1> QED
  BY <1>1, <1>2, <1>3, PTL DEF ServerSpec, ImplementsExchange, Barrier!Spec

------------------------------------------------------------------------------
(* The co-simulation runs the server. *)

\* The simulated times are contents a record can have.
LEMMA StampsAreData == Steps \subseteq Data
BY HPKSSAssumption DEF Steps

\* Every step of the co-simulation is a step of the server, or none of its.
LEMMA ServerStep ==
  ASSUME ClientsTypeOK, [Next]_vars
  PROVE  [ServerNext]_serverVars
<1> USE DEF ServerNext, Command
<1>1. ASSUME NEW d \in Devices, Boot(d) PROVE ServerNext
  <2>1. 0 \in Data
    BY StampsAreData, ServerAssumption DEF Steps
  <2> QED
    BY <1>1, <2>1 DEF Boot
<1>2. ASSUME NEW d \in Devices, Poll(d) PROVE ServerNext
  BY <1>2 DEF Poll
<1>3. ASSUME NEW d \in Devices, AskTime(d) PROVE UNCHANGED serverVars
  BY <1>3 DEF AskTime
<1>4. ASSUME NEW d \in Devices, AskParams(d) PROVE ServerNext
  BY <1>4 DEF AskParams
<1>5. ASSUME NEW d \in Devices, Report(d) PROVE ServerNext
  <2>1. told[d] \in Data
    BY StampsAreData DEF ClientsTypeOK
  <2> QED
    BY <1>5, <2>1 DEF Report
<1>6. ASSUME NEW d \in Devices, Fault(d) PROVE UNCHANGED serverVars
  BY <1>6 DEF Fault, LoseBoot, LoseReport, LoseTime, Lose, Restart
<1>7. ASSUME on_message, UNCHANGED barrierVars PROVE ServerNext
  BY <1>7
<1>8. ASSUME UNCHANGED vars PROVE UNCHANGED serverVars
  BY <1>8 DEF vars
<1> QED
  BY <1>1, <1>2, <1>3, <1>4, <1>5, <1>6, <1>7, <1>8 DEF Next, Client

------------------------------------------------------------------------------
(* What the commands do to the barrier. *)

\* The record of d is stored; others are still missing.
Stored(d, x) ==
  /\ deviceSentData' = deviceSentData \cup {d}
  /\ deviceSentData' # Devices
  /\ obecne' = [obecne EXCEPT ![d] = x]
  /\ UNCHANGED <<deviceConnected, zeszle, timer, iteration, csv>>

\* d was the last one missing.
Completed(d, x) ==
  /\ deviceSentData \cup {d} = Devices
  /\ deviceSentData' = {}
  /\ obecne' = [obecne EXCEPT ![d] = x]
  /\ zeszle' = obecne'
  /\ timer < MaxSteps /\ timer' = timer + 1
  /\ IF deviceConnected = Devices
     THEN deviceConnected' = {} /\ iteration' = iteration + 1
     ELSE UNCHANGED <<deviceConnected, iteration>>
  /\ printAllData(iteration', timer')

LEMMA SendDataEffect ==
  ASSUME NEW d \in Devices, NEW x, SendData(d, x)
  PROVE  Stored(d, x) \/ Completed(d, x)
BY DEF SendData, EndOfCommand, CompleteRound, allClientsSentData,
       allClientsConnected, resetConnectionsTable, resetSentDataTable,
       fastForwardTimeInMinutes, updateDeviceValues, Stored, Completed

\* While the table of senders is not full, KeepAlive only adds a connection.
LEMMA KeepAliveEffect ==
  ASSUME deviceSentData # Devices, NEW d \in Devices, KeepAlive(d)
  PROVE  /\ deviceConnected' = deviceConnected \cup {d}
         /\ UNCHANGED <<deviceSentData, obecne, zeszle, timer, iteration, csv>>
BY DEF KeepAlive, EndOfCommand, allClientsSentData

\* GetParams changes nothing but settings.
LEMMA GetParamsEffect ==
  ASSUME deviceSentData # Devices, NEW d \in Devices, GetParams(d)
  PROVE  UNCHANGED barrierVars
BY DEF GetParams, EndOfCommand, allClientsSentData, barrierVars

------------------------------------------------------------------------------
(* The inductive invariant. *)

\* The types the steps below rely on.
LEMMA Types ==
  ASSUME AgeInv
  PROVE  /\ pc \in [Devices -> {"boot", "wait", "time", "params", "send"}]
         /\ told \in [Devices -> Steps] /\ told_old \in [Devices -> Steps]
         /\ Steps \subseteq Nat /\ 0 \in Steps /\ NoData \notin Steps
         /\ DOMAIN inputs = Devices
         /\ timer \in Steps /\ iteration \in Nat /\ lost \in Nat /\ restarts \in Nat
         /\ deviceSentData \in SUBSET Devices /\ deviceConnected \in SUBSET Devices
         /\ DOMAIN obecne = Devices /\ DOMAIN zeszle = Devices
<1>1. Steps \subseteq Nat /\ 0 \in Steps /\ NoData \notin Steps
  BY ServerAssumption, StampsAreData DEF Steps
<1>2. MaxSteps \in Nat /\ MaxLost \in Nat /\ MaxRestarts \in Nat
  BY ServerAssumption, HPKSSAssumption
<1> QED
  BY <1>1, <1>2 DEF AgeInv, ClientsTypeOK, TypeOK, Steps

\* The log after one more row.
LEMMA LogGrows ==
  ASSUME NEW n \in Nat
  PROVE  Append(LogOf(n), n + 1) = LogOf(n + 1)
BY DEF LogOf

\* The first line of the log.
LEMMA LogStarts == Append(<< >>, Header) = LogOf(0)
BY DEF LogOf

\* A script starts; others have still to send.
LEMMA BootStoredInv ==
  ASSUME AgeInv, ClientsTypeOK', NEW d \in Devices, Boot(d), Stored(d, 0)
  PROVE  AgeInv' /\ (GivenInv => GivenInv') /\ (IInv => IInv')
<1>1. /\ pc[d] = "boot" /\ pc' = [pc EXCEPT ![d] = "wait"]
      /\ UNCHANGED <<told, told_old, inputs, restarts, lost>>
  BY DEF Boot, Goto, faultVars
<1>2. Stamped'
  BY <1>1, Types DEF AgeInv, Stamped, Stored
<1>3. ClocksBehind'
  BY <1>1, Types DEF AgeInv, ClocksBehind, Stored
<1>4. GivenInv => FirstRound'
  BY <1>1, Types DEF GivenInv, AgeInv, FirstRound, Stored
<1>5. GivenInv => ParamsInitialised'
  BY <1>1, Types DEF GivenInv, AgeInv, ParamsInitialised, Stored
<1>6. OneStepBehind'
  BY <1>1, Types DEF AgeInv, OneStepBehind, Stored, Punctual, ClocksBehind
<1>7. BoundedStaleness'
  BY <1>1, Types DEF AgeInv, BoundedStaleness, Stored, Punctual
<1>8. InputSkew'
  BY <1>1, Types DEF AgeInv, InputSkew, Stored, Punctual
<1>9. StepGap'
  BY <1>1, Types DEF AgeInv, StepGap, Stored, Punctual
<1>10. IInv => Unfailing'
  BY <1>1, Types DEF IInv, GivenInv, AgeInv, Unfailing, Stored
<1>11. IInv => EveryRoundIterates'
  BY <1>1, Types DEF IInv, GivenInv, AgeInv, EveryRoundIterates, Stored
<1>12. IInv => LogShape'
  BY <1>1, Types DEF IInv, GivenInv, AgeInv, LogShape, Stored
<1>13. GivenInv => Published'
  BY <1>1, Types DEF GivenInv, AgeInv, Published, Stored
<1>14. AgeInv'
  BY <1>2, <1>3, <1>6, <1>7, <1>8, <1>9 DEF AgeInv
<1> QED
  BY <1>4, <1>5, <1>10, <1>11, <1>12, <1>13, <1>14 DEF GivenInv, IInv

\* A script starts, and its initial data ends the round.
LEMMA BootCompletedInv ==
  ASSUME AgeInv, ClientsTypeOK', NEW d \in Devices, Boot(d), Completed(d, 0)
  PROVE  AgeInv' /\ (GivenInv => GivenInv') /\ (IInv => IInv')
<1>1. /\ pc[d] = "boot" /\ pc' = [pc EXCEPT ![d] = "wait"]
      /\ UNCHANGED <<told, told_old, inputs, restarts, lost>>
  BY DEF Boot, Goto, faultVars
<1>2. Stamped'
  BY <1>1, Types DEF AgeInv, Stamped, Completed
<1>3. ClocksBehind'
  BY <1>1, Types DEF AgeInv, ClocksBehind, Completed
<1>4. GivenInv => FirstRound'
  BY <1>1, Types DEF GivenInv, AgeInv, FirstRound, Completed
<1>5. GivenInv => ParamsInitialised'
  <2>1. \A e \in Devices : zeszle'[e] # NoData
    BY Types, <1>1 DEF AgeInv, Stamped, Completed
  <2>2. \A e \in Devices : pc'[e] = "send" =>
          pc[e] = "send" /\ inputs'[e] = inputs[e]
    BY Types, <1>1
  <2>3. Sources \in [Devices -> SUBSET Devices]
    BY ServerAssumption
  <2> QED
    BY <1>1, <2>1, <2>2, <2>3 DEF GivenInv, AgeInv, ParamsInitialised
<1>6. OneStepBehind'
  BY <1>1, Types DEF AgeInv, OneStepBehind, Completed, Punctual, ClocksBehind
<1>7. BoundedStaleness'
  BY <1>1, Types DEF AgeInv, BoundedStaleness, Completed, Punctual
<1>8. InputSkew'
  BY <1>1, Types DEF AgeInv, InputSkew, Completed, Punctual
<1>9. StepGap'
  BY <1>1, Types DEF AgeInv, StepGap, Completed, Punctual
<1>10. IInv => Unfailing'
  BY <1>1, Types DEF IInv, GivenInv, AgeInv, Unfailing, Completed
<1>11. IInv => EveryRoundIterates'
  <2>1. SUFFICES ASSUME IInv, lost = 0, restarts = 0 PROVE iteration' = timer' - 1
    BY <1>1 DEF EveryRoundIterates
  <2>2. timer = 0 /\ d \notin deviceConnected
    BY <1>1, <2>1 DEF IInv, GivenInv, AgeInv, Unfailing
  <2>3. iteration = 0
    BY Types, <2>2 DEF IInv, GivenInv, AgeInv, ClientsTypeOK, TypeOK
  <2> QED
    BY <2>2, <2>3 DEF Completed
<1>12. IInv => LogShape'
  <2>1. SUFFICES ASSUME IInv, lost = 0, restarts = 0
                 PROVE  timer' # 0 /\ csv' = LogOf(timer')
    BY <1>1 DEF LogShape
  <2>2. timer = 0 /\ csv = << >>
    BY <1>1, <2>1 DEF IInv, GivenInv, AgeInv, Unfailing, LogShape
  <2>3. timer' = 1 /\ iteration' = 0
    BY <1>1, <1>11, <2>1, <2>2 DEF Completed, EveryRoundIterates
  <2>4. csv' = Append(Append(csv, Header), 1)
    BY <2>3 DEF Completed, printAllData
  <2>5. Append(LogOf(0), 0 + 1) = LogOf(0 + 1)
    BY LogGrows
  <2> QED
    BY <2>2, <2>3, <2>4, <2>5, LogStarts
<1>13. GivenInv => Published'
  BY <1>1, Types DEF GivenInv, AgeInv, Published, Completed, Stamped
<1>14. AgeInv'
  BY <1>2, <1>3, <1>6, <1>7, <1>8, <1>9 DEF AgeInv
<1> QED
  BY <1>4, <1>5, <1>10, <1>11, <1>12, <1>13, <1>14 DEF GivenInv, IInv

\* A client polls, and is let in if it was the last one missing.
LEMMA PollInv ==
  ASSUME AgeInv, ClientsTypeOK', NEW d \in Devices, Poll(d)
  PROVE  AgeInv' /\ (GivenInv => GivenInv') /\ (IInv => IInv')
<1>1. /\ deviceConnected' = deviceConnected \cup {d}
      /\ UNCHANGED <<deviceSentData, obecne, zeszle, timer, iteration, csv>>
      /\ pc[d] = "wait"
      /\ pc' = [pc EXCEPT ![d] = IF deviceConnected \cup {d} = Devices
                                  THEN "time" ELSE "wait"]
      /\ UNCHANGED <<told, told_old, inputs, restarts, lost>>
  BY KeepAliveEffect DEF AgeInv, Stamped, Poll, Goto, AnswersSta, allClientsConnected, faultVars
<1>2. Stamped'
  BY <1>1, Types DEF AgeInv, Stamped
<1>3. ClocksBehind'
  BY <1>1, Types DEF AgeInv, ClocksBehind
<1>4. GivenInv => FirstRound'
  <2>1. SUFFICES ASSUME GivenInv, lost = 0, timer = 0
                 PROVE  /\ \A e \in Devices : pc'[e] \in {"boot", "wait"}
                        /\ \A e \in Devices : pc'[e] = "wait" => e \in deviceSentData
                        /\ deviceConnected \cup {d} \subseteq deviceSentData
    BY <1>1 DEF FirstRound
  <2>2. deviceConnected \cup {d} \subseteq deviceSentData
    BY <1>1, <2>1 DEF GivenInv, AgeInv, FirstRound
  <2>3. deviceConnected \cup {d} # Devices
    BY Types, <2>2 DEF GivenInv, AgeInv, Stamped
  <2> QED
    BY Types, <1>1, <2>1, <2>2, <2>3 DEF GivenInv, AgeInv, FirstRound
<1>5. GivenInv => ParamsInitialised'
  <2> SUFFICES ASSUME GivenInv PROVE ParamsInitialised'
    OBVIOUS
  <2>1. timer > 0 /\ lost = 0 => \A e \in Devices : zeszle'[e] # NoData
    BY Types, <1>1 DEF GivenInv, AgeInv, Published
  <2>2. timer = 0 /\ lost = 0 => \A e \in Devices : pc'[e] \notin {"time", "params", "send"}
    BY Types, <1>1, <1>4 DEF FirstRound, GivenInv
  <2>3. \A e \in Devices : pc'[e] = "send" => pc[e] = "send"
    BY Types, <1>1
  <2>4. Sources \in [Devices -> SUBSET Devices]
    BY ServerAssumption
  <2>5. timer > 0 \/ timer = 0
    BY Types
  <2> QED
    BY <1>1, <2>1, <2>2, <2>3, <2>4, <2>5 DEF GivenInv, AgeInv, ParamsInitialised
<1>6. OneStepBehind'
  BY <1>1, Types DEF AgeInv, OneStepBehind, Punctual
<1>7. BoundedStaleness'
  BY <1>1, Types DEF AgeInv, BoundedStaleness, Punctual
<1>8. InputSkew'
  BY <1>1, Types DEF AgeInv, InputSkew, Punctual
<1>9. StepGap'
  BY <1>1, Types DEF AgeInv, StepGap, Punctual
<1>10. IInv => Unfailing'
  BY <1>1, Types DEF IInv, GivenInv, AgeInv, Unfailing
<1>11. IInv => EveryRoundIterates'
  BY <1>1, Types DEF IInv, GivenInv, AgeInv, EveryRoundIterates
<1>12. IInv => LogShape'
  BY <1>1, Types DEF IInv, GivenInv, AgeInv, LogShape
<1>13. GivenInv => Published'
  BY <1>1, Types DEF GivenInv, AgeInv, Published
<1>14. AgeInv'
  BY <1>2, <1>3, <1>6, <1>7, <1>8, <1>9 DEF AgeInv
<1> QED
  BY <1>4, <1>5, <1>10, <1>11, <1>12, <1>13, <1>14 DEF GivenInv, IInv

\* A client reads the time.
LEMMA AskTimeInv ==
  ASSUME AgeInv, ClientsTypeOK', NEW d \in Devices, AskTime(d)
  PROVE  AgeInv' /\ (GivenInv => GivenInv') /\ (IInv => IInv')
<1>1. /\ UNCHANGED <<deviceConnected, deviceSentData, obecne, zeszle, timer>>
      /\ UNCHANGED <<iteration, csv, told_old, restarts, lost>>
      /\ UNCHANGED inputs
      /\ pc[d] = "time" /\ pc' = [pc EXCEPT ![d] = "params"]
      /\ told' = [told EXCEPT ![d] = timer]
  BY DEF AskTime, Goto, faultVars, serverVars, barrierVars
<1>2. Stamped'
  BY <1>1, Types DEF AgeInv, Stamped
<1>3. ClocksBehind'
  BY <1>1, Types DEF AgeInv, ClocksBehind
<1>4. GivenInv => FirstRound'
  BY <1>1, Types DEF GivenInv, AgeInv, FirstRound
<1>5. GivenInv => ParamsInitialised'
  BY <1>1, Types DEF GivenInv, AgeInv, ParamsInitialised
<1>6. OneStepBehind'
  BY <1>1, Types DEF AgeInv, OneStepBehind, Punctual
<1>7. BoundedStaleness'
  BY <1>1, Types DEF AgeInv, BoundedStaleness, Punctual
<1>8. InputSkew'
  BY <1>1, Types DEF AgeInv, InputSkew, Punctual
<1>9. StepGap'
  BY <1>1, Types DEF AgeInv, StepGap, Punctual, ClocksBehind, OneStepBehind
<1>10. IInv => Unfailing'
  BY <1>1, Types DEF IInv, GivenInv, AgeInv, Unfailing
<1>11. IInv => EveryRoundIterates'
  BY <1>1, Types DEF IInv, GivenInv, AgeInv, EveryRoundIterates
<1>12. IInv => LogShape'
  BY <1>1, Types DEF IInv, GivenInv, AgeInv, LogShape
<1>13. GivenInv => Published'
  BY <1>1, Types DEF GivenInv, AgeInv, Published
<1>14. AgeInv'
  BY <1>2, <1>3, <1>6, <1>7, <1>8, <1>9 DEF AgeInv
<1> QED
  BY <1>4, <1>5, <1>10, <1>11, <1>12, <1>13, <1>14 DEF GivenInv, IInv

\* A client reads the records of its sources.
LEMMA AskParamsInv ==
  ASSUME AgeInv, ClientsTypeOK', NEW d \in Devices, AskParams(d)
  PROVE  AgeInv' /\ (GivenInv => GivenInv') /\ (IInv => IInv')
<1>1. /\ UNCHANGED <<deviceConnected, deviceSentData, obecne, zeszle, timer>>
      /\ UNCHANGED <<iteration, csv, told_old, restarts, lost>>
      /\ UNCHANGED told
      /\ pc[d] = "params" /\ pc' = [pc EXCEPT ![d] = "send"]
      /\ inputs' = [inputs EXCEPT ![d] = Params(d)]
  BY GetParamsEffect DEF AgeInv, Stamped, AskParams, Goto, faultVars, barrierVars
<1>2. Stamped'
  BY <1>1, Types DEF AgeInv, Stamped
<1>3. ClocksBehind'
  BY <1>1, Types DEF AgeInv, ClocksBehind
<1>4. GivenInv => FirstRound'
  BY <1>1, Types DEF GivenInv, AgeInv, FirstRound
<1>5. GivenInv => ParamsInitialised'
  BY <1>1, Types DEF GivenInv, AgeInv, ParamsInitialised, Params
<1>6. OneStepBehind'
  BY <1>1, Types DEF AgeInv, OneStepBehind, Punctual
<1>7. BoundedStaleness'
  BY <1>1, Types DEF AgeInv, BoundedStaleness, Punctual
<1>8. InputSkew'
  <2>1. SUFFICES ASSUME NEW e \in Punctual', pc'[e] = "send",
                        NEW s \in Sources[e] \cap Punctual'
                 PROVE  inputs'[e][s] \in {NoData, 0} \cup
                          {t \in Steps : t <= told'[e] /\ told'[e] <= t + 2}
    BY DEF InputSkew
  <2>2. e \in Punctual /\ s \in Punctual /\ e \in Devices /\ s \in Devices
    BY <1>1 DEF Punctual
  <2>3. CASE e # d
    BY Types, <1>1, <2>1, <2>2, <2>3 DEF AgeInv, InputSkew
  <2>4. CASE e = d
    <3>1. inputs'[e][s] = zeszle[s]
      BY Types, <1>1, <2>1, <2>4 DEF Params
    <3>2. timer <= told[e] + 1 /\ told[e] <= timer
      BY Types, <1>1, <2>2, <2>4 DEF AgeInv, OneStepBehind, ClocksBehind
    <3>3. 0..timer \subseteq Steps
      BY Types, ServerAssumption DEF Steps
    <3>4. zeszle[s] \in {NoData} \cup Steps
      BY <2>2, <3>3 DEF AgeInv, Stamped
    <3>5. zeszle[s] \in {NoData, 0, timer - 1, timer - 2}
      BY <2>2 DEF AgeInv, BoundedStaleness
    <3>6. told'[e] = told[e] /\ told[e] \in Nat /\ timer \in Nat
      BY Types, <1>1, <2>2
    <3>7. ASSUME zeszle[s] \in Steps, zeszle[s] \in {timer - 1, timer - 2}
          PROVE  zeszle[s] <= told[e] /\ told[e] <= zeszle[s] + 2
      BY Types, <3>2, <3>6, <3>7
    <3> QED
      BY <3>1, <3>4, <3>5, <3>6, <3>7
  <2> QED
    BY <2>3, <2>4
<1>9. StepGap'
  BY <1>1, Types DEF AgeInv, StepGap, Punctual
<1>10. IInv => Unfailing'
  BY <1>1, Types DEF IInv, GivenInv, AgeInv, Unfailing
<1>11. IInv => EveryRoundIterates'
  BY <1>1, Types DEF IInv, GivenInv, AgeInv, EveryRoundIterates
<1>12. IInv => LogShape'
  BY <1>1, Types DEF IInv, GivenInv, AgeInv, LogShape
<1>13. GivenInv => Published'
  BY <1>1, Types DEF GivenInv, AgeInv, Published
<1>14. AgeInv'
  BY <1>2, <1>3, <1>6, <1>7, <1>8, <1>9 DEF AgeInv
<1> QED
  BY <1>4, <1>5, <1>10, <1>11, <1>12, <1>13, <1>14 DEF GivenInv, IInv

\* A client sends its result; others have still to send.
LEMMA ReportStoredInv ==
  ASSUME AgeInv, ClientsTypeOK', NEW d \in Devices, Report(d), Stored(d, told[d])
  PROVE  AgeInv' /\ (GivenInv => GivenInv') /\ (IInv => IInv')
<1>1. /\ pc[d] = "send" /\ pc' = [pc EXCEPT ![d] = "wait"]
      /\ told_old' = [told_old EXCEPT ![d] = told[d]]
      /\ inputs' = [inputs EXCEPT ![d] = Unread[d]]
      /\ UNCHANGED <<told, restarts, lost>>
  BY DEF Report, Simulated, Goto, faultVars
<1>2. Stamped'
  BY <1>1, Types DEF AgeInv, Stamped, Stored, ClocksBehind
<1>3. ClocksBehind'
  BY <1>1, Types DEF AgeInv, ClocksBehind, Stored
<1>4. GivenInv => FirstRound'
  BY <1>1, Types DEF GivenInv, AgeInv, FirstRound, Stored
<1>5. GivenInv => ParamsInitialised'
  BY <1>1, Types DEF GivenInv, AgeInv, ParamsInitialised, Stored
<1>6. OneStepBehind'
  BY <1>1, Types DEF AgeInv, OneStepBehind, Stored, Punctual, ClocksBehind
<1>7. BoundedStaleness'
  BY <1>1, Types DEF AgeInv, BoundedStaleness, Stored, Punctual, OneStepBehind, ClocksBehind
<1>8. InputSkew'
  BY <1>1, Types DEF AgeInv, InputSkew, Stored, Punctual
<1>9. StepGap'
  BY <1>1, Types DEF AgeInv, StepGap, Stored, Punctual
<1>10. IInv => Unfailing'
  BY <1>1, Types DEF IInv, GivenInv, AgeInv, Unfailing, Stored, OneStepBehind, Punctual
<1>11. IInv => EveryRoundIterates'
  BY <1>1, Types DEF IInv, GivenInv, AgeInv, EveryRoundIterates, Stored
<1>12. IInv => LogShape'
  BY <1>1, Types DEF IInv, GivenInv, AgeInv, LogShape, Stored
<1>13. GivenInv => Published'
  BY <1>1, Types DEF GivenInv, AgeInv, Published, Stored
<1>14. AgeInv'
  BY <1>2, <1>3, <1>6, <1>7, <1>8, <1>9 DEF AgeInv
<1> QED
  BY <1>4, <1>5, <1>10, <1>11, <1>12, <1>13, <1>14 DEF GivenInv, IInv

\* A client sends the result that ends the round.
LEMMA ReportCompletedInv ==
  ASSUME AgeInv, ClientsTypeOK', NEW d \in Devices, Report(d), Completed(d, told[d])
  PROVE  AgeInv' /\ (GivenInv => GivenInv') /\ (IInv => IInv')
<1>1. /\ pc[d] = "send" /\ pc' = [pc EXCEPT ![d] = "wait"]
      /\ told_old' = [told_old EXCEPT ![d] = told[d]]
      /\ inputs' = [inputs EXCEPT ![d] = Unread[d]]
      /\ UNCHANGED <<told, restarts, lost>>
  BY DEF Report, Simulated, Goto, faultVars
<1>2. Stamped'
  BY <1>1, Types DEF AgeInv, Stamped, Completed, ClocksBehind
<1>3. ClocksBehind'
  BY <1>1, Types DEF AgeInv, ClocksBehind, Completed
<1>4. GivenInv => FirstRound'
  BY <1>1, Types DEF GivenInv, AgeInv, FirstRound, Completed
<1>5. GivenInv => ParamsInitialised'
  <2>1. \A e \in Devices : zeszle'[e] # NoData
    BY Types, <1>1 DEF AgeInv, Stamped, Completed
  <2>2. \A e \in Devices : pc'[e] = "send" =>
          pc[e] = "send" /\ inputs'[e] = inputs[e]
    BY Types, <1>1
  <2>3. Sources \in [Devices -> SUBSET Devices]
    BY ServerAssumption
  <2> QED
    BY <1>1, <2>1, <2>2, <2>3 DEF GivenInv, AgeInv, ParamsInitialised
<1>6. OneStepBehind'
  BY <1>1, Types DEF AgeInv, OneStepBehind, Completed, Punctual, ClocksBehind
<1>7. BoundedStaleness'
  BY <1>1, Types DEF AgeInv, BoundedStaleness, Completed, Punctual, OneStepBehind, ClocksBehind
<1>8. InputSkew'
  BY <1>1, Types DEF AgeInv, InputSkew, Completed, Punctual
<1>9. StepGap'
  BY <1>1, Types DEF AgeInv, StepGap, Completed, Punctual
<1>10. IInv => Unfailing'
  BY <1>1, Types DEF IInv, GivenInv, AgeInv, Unfailing, Completed, OneStepBehind, Punctual
<1>11. IInv => EveryRoundIterates'
  BY <1>1, Types DEF IInv, GivenInv, AgeInv, EveryRoundIterates, Completed, Unfailing, FirstRound
<1>12. IInv => LogShape'
  <2>1. SUFFICES ASSUME IInv, lost = 0, restarts = 0
                 PROVE  timer' # 0 /\ csv' = LogOf(timer')
    BY <1>1 DEF LogShape
  <2>2. timer > 0
    BY Types, <1>1, <2>1 DEF IInv, GivenInv, AgeInv, FirstRound
  <2>3. csv = LogOf(timer)
    BY <2>1, <2>2 DEF IInv, GivenInv, AgeInv, LogShape
  <2>4. timer' = timer + 1 /\ iteration' # 0
    BY Types, <1>1, <1>11, <2>1, <2>2 DEF Completed, EveryRoundIterates
  <2>5. csv' = Append(csv, timer + 1)
    BY <2>4 DEF Completed, printAllData
  <2>6. Append(LogOf(timer), timer + 1) = LogOf(timer + 1)
    BY Types, LogGrows
  <2> QED
    BY Types, <2>2, <2>3, <2>4, <2>5, <2>6
<1>13. GivenInv => Published'
  BY <1>1, Types DEF GivenInv, AgeInv, Published, Completed, Stamped
<1>14. AgeInv'
  BY <1>2, <1>3, <1>6, <1>7, <1>8, <1>9 DEF AgeInv
<1> QED
  BY <1>4, <1>5, <1>10, <1>11, <1>12, <1>13, <1>14 DEF GivenInv, IInv

\* The initial data of a script is lost.
LEMMA LoseBootInv ==
  ASSUME AgeInv, ClientsTypeOK', NEW d \in Devices, LoseBoot(d)
  PROVE  AgeInv' /\ (GivenInv => GivenInv') /\ (IInv => IInv')
<1>1. /\ UNCHANGED <<deviceConnected, deviceSentData, obecne, zeszle, timer>>
      /\ UNCHANGED <<iteration, csv, told, restarts>>
      /\ lost' = lost + 1
      /\ UNCHANGED <<told_old, inputs>>
      /\ pc[d] = "boot" /\ pc' = [pc EXCEPT ![d] = "wait"]
  BY DEF LoseBoot, Lose, Goto, serverVars, barrierVars
<1>2. Stamped'
  BY <1>1, Types DEF AgeInv, Stamped
<1>3. ClocksBehind'
  BY <1>1, Types DEF AgeInv, ClocksBehind
<1>4. GivenInv => FirstRound'
  BY <1>1, Types DEF GivenInv, AgeInv, FirstRound
<1>5. GivenInv => ParamsInitialised'
  BY <1>1, Types DEF GivenInv, AgeInv, ParamsInitialised
<1>6. OneStepBehind'
  BY <1>1, Types DEF AgeInv, OneStepBehind, Punctual, ClocksBehind
<1>7. BoundedStaleness'
  BY <1>1, Types DEF AgeInv, BoundedStaleness, Punctual
<1>8. InputSkew'
  BY <1>1, Types DEF AgeInv, InputSkew, Punctual
<1>9. StepGap'
  BY <1>1, Types DEF AgeInv, StepGap, Punctual
<1>10. IInv => Unfailing'
  BY <1>1, Types DEF IInv, GivenInv, AgeInv, Unfailing
<1>11. IInv => EveryRoundIterates'
  BY <1>1, Types DEF IInv, GivenInv, AgeInv, EveryRoundIterates
<1>12. IInv => LogShape'
  BY <1>1, Types DEF IInv, GivenInv, AgeInv, LogShape
<1>13. GivenInv => Published'
  BY <1>1, Types DEF GivenInv, AgeInv, Published
<1>14. AgeInv'
  BY <1>2, <1>3, <1>6, <1>7, <1>8, <1>9 DEF AgeInv
<1> QED
  BY <1>4, <1>5, <1>10, <1>11, <1>12, <1>13, <1>14 DEF GivenInv, IInv

\* A result is lost.
LEMMA LoseReportInv ==
  ASSUME AgeInv, ClientsTypeOK', NEW d \in Devices, LoseReport(d)
  PROVE  AgeInv' /\ (GivenInv => GivenInv') /\ (IInv => IInv')
<1>1. /\ UNCHANGED <<deviceConnected, deviceSentData, obecne, zeszle, timer>>
      /\ UNCHANGED <<iteration, csv, told, restarts>>
      /\ lost' = lost + 1
      /\ pc[d] = "send" /\ pc' = [pc EXCEPT ![d] = "wait"]
      /\ told_old' = [told_old EXCEPT ![d] = told[d]]
      /\ inputs' = [inputs EXCEPT ![d] = Unread[d]]
  BY DEF LoseReport, Simulated, Lose, Goto, serverVars, barrierVars
<1>2. Stamped'
  BY <1>1, Types DEF AgeInv, Stamped
<1>3. ClocksBehind'
  BY <1>1, Types DEF AgeInv, ClocksBehind
<1>4. GivenInv => FirstRound'
  BY <1>1, Types DEF GivenInv, AgeInv, FirstRound
<1>5. GivenInv => ParamsInitialised'
  BY <1>1, Types DEF GivenInv, AgeInv, ParamsInitialised
<1>6. OneStepBehind'
  BY <1>1, Types DEF AgeInv, OneStepBehind, Punctual
<1>7. BoundedStaleness'
  BY <1>1, Types DEF AgeInv, BoundedStaleness, Punctual
<1>8. InputSkew'
  BY <1>1, Types DEF AgeInv, InputSkew, Punctual
<1>9. StepGap'
  BY <1>1, Types DEF AgeInv, StepGap, Punctual
<1>10. IInv => Unfailing'
  BY <1>1, Types DEF IInv, GivenInv, AgeInv, Unfailing
<1>11. IInv => EveryRoundIterates'
  BY <1>1, Types DEF IInv, GivenInv, AgeInv, EveryRoundIterates
<1>12. IInv => LogShape'
  BY <1>1, Types DEF IInv, GivenInv, AgeInv, LogShape
<1>13. GivenInv => Published'
  BY <1>1, Types DEF GivenInv, AgeInv, Published
<1>14. AgeInv'
  BY <1>2, <1>3, <1>6, <1>7, <1>8, <1>9 DEF AgeInv
<1> QED
  BY <1>4, <1>5, <1>10, <1>11, <1>12, <1>13, <1>14 DEF GivenInv, IInv

\* The answer to GetTime is lost.
LEMMA LoseTimeInv ==
  ASSUME AgeInv, ClientsTypeOK', NEW d \in Devices, LoseTime(d)
  PROVE  AgeInv' /\ (GivenInv => GivenInv') /\ (IInv => IInv')
<1>1. /\ UNCHANGED <<deviceConnected, deviceSentData, obecne, zeszle, timer>>
      /\ UNCHANGED <<iteration, csv, told, restarts>>
      /\ lost' = lost + 1
      /\ d \in KeepsTime
      /\ UNCHANGED <<told_old, inputs>>
      /\ pc[d] = "time" /\ pc' = [pc EXCEPT ![d] = "params"]
  BY DEF LoseTime, Lose, Goto, serverVars, barrierVars
<1>2. Stamped'
  BY <1>1, Types DEF AgeInv, Stamped
<1>3. ClocksBehind'
  BY <1>1, Types DEF AgeInv, ClocksBehind
<1>4. GivenInv => FirstRound'
  BY <1>1, Types DEF GivenInv, AgeInv, FirstRound
<1>5. GivenInv => ParamsInitialised'
  BY <1>1, Types DEF GivenInv, AgeInv, ParamsInitialised
<1>6. OneStepBehind'
  BY <1>1, Types DEF AgeInv, OneStepBehind, Punctual
<1>7. BoundedStaleness'
  BY <1>1, Types DEF AgeInv, BoundedStaleness, Punctual
<1>8. InputSkew'
  BY <1>1, Types DEF AgeInv, InputSkew, Punctual
<1>9. StepGap'
  BY <1>1, Types DEF AgeInv, StepGap, Punctual, ClocksBehind
<1>10. IInv => Unfailing'
  BY <1>1, Types DEF IInv, GivenInv, AgeInv, Unfailing
<1>11. IInv => EveryRoundIterates'
  BY <1>1, Types DEF IInv, GivenInv, AgeInv, EveryRoundIterates
<1>12. IInv => LogShape'
  BY <1>1, Types DEF IInv, GivenInv, AgeInv, LogShape
<1>13. GivenInv => Published'
  BY <1>1, Types DEF GivenInv, AgeInv, Published
<1>14. AgeInv'
  BY <1>2, <1>3, <1>6, <1>7, <1>8, <1>9 DEF AgeInv
<1> QED
  BY <1>4, <1>5, <1>10, <1>11, <1>12, <1>13, <1>14 DEF GivenInv, IInv

\* A script is started again.
LEMMA RestartInv ==
  ASSUME AgeInv, ClientsTypeOK', NEW d \in Devices, Restart(d)
  PROVE  AgeInv' /\ (GivenInv => GivenInv') /\ (IInv => IInv')
<1>1. /\ UNCHANGED <<deviceConnected, deviceSentData, obecne, zeszle, timer>>
      /\ UNCHANGED <<iteration, csv, lost>>
      /\ restarts' = restarts + 1
      /\ pc' = [pc EXCEPT ![d] = "boot"]
      /\ told' = [told EXCEPT ![d] = 0]
      /\ told_old' = [told_old EXCEPT ![d] = 0]
      /\ inputs' = [inputs EXCEPT ![d] = Unread[d]]
  BY DEF Restart, serverVars, barrierVars
<1>2. Stamped'
  BY <1>1, Types DEF AgeInv, Stamped
<1>3. ClocksBehind'
  BY <1>1, Types DEF AgeInv, ClocksBehind
<1>4. GivenInv => FirstRound'
  BY <1>1, Types DEF GivenInv, AgeInv, FirstRound
<1>5. GivenInv => ParamsInitialised'
  BY <1>1, Types DEF GivenInv, AgeInv, ParamsInitialised
<1>6. OneStepBehind'
  BY <1>1, Types DEF AgeInv, OneStepBehind, Punctual
<1>7. BoundedStaleness'
  BY <1>1, Types DEF AgeInv, BoundedStaleness, Punctual
<1>8. InputSkew'
  BY <1>1, Types DEF AgeInv, InputSkew, Punctual
<1>9. StepGap'
  BY <1>1, Types DEF AgeInv, StepGap, Punctual
<1>10. IInv => Unfailing'
  BY <1>1, Types DEF IInv, GivenInv, AgeInv, Unfailing
<1>11. IInv => EveryRoundIterates'
  BY <1>1, Types DEF IInv, GivenInv, AgeInv, EveryRoundIterates
<1>12. IInv => LogShape'
  BY <1>1, Types DEF IInv, GivenInv, AgeInv, LogShape
<1>13. GivenInv => Published'
  BY <1>1, Types DEF GivenInv, AgeInv, Published
<1>14. AgeInv'
  BY <1>2, <1>3, <1>6, <1>7, <1>8, <1>9 DEF AgeInv
<1> QED
  BY <1>4, <1>5, <1>10, <1>11, <1>12, <1>13, <1>14 DEF GivenInv, IInv

\* A step that leaves the barrier and the scripts alone keeps the invariant.
LEMMA FrameInv ==
  ASSUME AgeInv, ClientsTypeOK', UNCHANGED <<barrierVars, clientVars, faultVars>>
  PROVE  AgeInv' /\ (GivenInv => GivenInv') /\ (IInv => IInv')
<1>1. /\ UNCHANGED <<deviceConnected, deviceSentData, obecne, zeszle, timer>>
      /\ UNCHANGED <<iteration, csv, pc, told, told_old, inputs, restarts, lost>>
  BY DEF barrierVars, clientVars, faultVars
<1>2. Stamped' /\ ClocksBehind'
  BY <1>1 DEF AgeInv, Stamped, ClocksBehind
<1>3. OneStepBehind' /\ BoundedStaleness' /\ InputSkew' /\ StepGap'
  BY <1>1 DEF AgeInv, OneStepBehind, BoundedStaleness, InputSkew, StepGap, Punctual
<1>4. GivenInv => Published' /\ FirstRound' /\ ParamsInitialised'
  BY <1>1 DEF GivenInv, Published, FirstRound, ParamsInitialised
<1>5. IInv => Unfailing' /\ EveryRoundIterates' /\ LogShape'
  BY <1>1 DEF IInv, Unfailing, EveryRoundIterates, LogShape
<1>6. AgeInv'
  BY <1>2, <1>3 DEF AgeInv
<1> QED
  BY <1>4, <1>5, <1>6 DEF GivenInv, IInv

\* Every step keeps the types.
LEMMA TypesPreserved ==
  ASSUME AgeInv, [Next]_vars
  PROVE  ClientsTypeOK'
<1>1. Inv /\ ClientsTypeOK
  BY DEF AgeInv, ClientsTypeOK, Stamped, Inv, BarrierDrained
<1>2. TypeOK'
  BY <1>1, ServerStep, StepInv DEF Inv
<1>3. Steps \subseteq Nat /\ 0 \in Steps /\ timer \in Steps
  BY Types
<1>4. \A e \in Devices : [s \in Sources[e] |-> NoData] \in [Sources[e] -> Record]
  BY DEF Record
<1>5. \A e \in Devices : Params(e) \in [Sources[e] -> Record]
  BY <1>1, ServerAssumption DEF Params, ClientsTypeOK, TypeOK
<1>6. ASSUME NEW d \in Devices, Client(d) \/ Fault(d)
      PROVE  /\ pc' \in [Devices -> {"boot", "wait", "time", "params", "send"}]
             /\ told' \in [Devices -> Steps] /\ told_old' \in [Devices -> Steps]
             /\ restarts' \in 0..MaxRestarts /\ lost' \in 0..MaxLost
  <2> USE <1>1, <1>3, HPKSSAssumption DEF ClientsTypeOK, Goto, faultVars
  <2>1. CASE Boot(d)
    BY <2>1 DEF Boot
  <2>2. CASE Poll(d)
    BY <2>2 DEF Poll
  <2>3. CASE AskTime(d)
    BY <2>3 DEF AskTime
  <2>4. CASE AskParams(d)
    BY <2>4 DEF AskParams
  <2>5. CASE Report(d)
    BY <2>5 DEF Report, Simulated
  <2>6. CASE LoseBoot(d)
    BY <2>6 DEF LoseBoot, Lose
  <2>7. CASE LoseReport(d)
    BY <2>7 DEF LoseReport, Simulated, Lose
  <2>8. CASE LoseTime(d)
    BY <2>8 DEF LoseTime, Lose
  <2>9. CASE Restart(d)
    BY <2>9 DEF Restart
  <2> QED
    BY <1>6, <2>1, <2>2, <2>3, <2>4, <2>5, <2>6, <2>7, <2>8, <2>9 DEF Client, Fault
<1>7. ASSUME NEW d \in Devices, Client(d) \/ Fault(d)
      PROVE  /\ DOMAIN inputs' = Devices
             /\ \A e \in Devices : inputs'[e] \in [Sources[e] -> Record]
  <2>1. \/ inputs' = inputs
        \/ inputs' = [inputs EXCEPT ![d] = Params(d)]
        \/ inputs' = [inputs EXCEPT ![d] = Unread[d]]
    BY <1>7 DEF Client, Fault, Boot, Poll, AskTime, AskParams, Report, Simulated,
                LoseBoot, LoseReport, LoseTime, Restart
  <2>2. Unread[d] \in [Sources[d] -> Record]
    BY <1>4 DEF Unread
  <2> QED
    BY <1>1, <1>5, <2>1, <2>2 DEF ClientsTypeOK
<1>8. CASE UNCHANGED <<clientVars, faultVars>>
  BY <1>1, <1>2, <1>8 DEF ClientsTypeOK, clientVars, faultVars
<1> QED
  BY <1>2, <1>6, <1>7, <1>8 DEF Next, ClientsTypeOK, vars, clientVars, faultVars

\* The scripts and the server start in the invariant.
LEMMA InitIInv == Init => IInv
<1> SUFFICES ASSUME Init PROVE IInv
  OBVIOUS
<1>1. TypeOK
  BY InitInv DEF Init, Inv
<1>2. MaxSteps \in Nat /\ MaxLost \in Nat /\ MaxRestarts \in Nat /\ Devices # {}
  BY ServerAssumption, HPKSSAssumption
<1>3. \A e \in Devices : inputs[e] = [s \in Sources[e] |-> NoData]
  BY DEF Init, Unread
<1>4. ClientsTypeOK
  BY <1>1, <1>2, <1>3 DEF Init, ClientsTypeOK, Steps, Record, Unread
<1>5. Stamped /\ ClocksBehind /\ Published /\ FirstRound
  BY <1>2 DEF Init, ServerInit, Stamped, ClocksBehind, Published, FirstRound
<1>6. ParamsInitialised /\ InputSkew /\ StepGap
  BY DEF Init, ParamsInitialised, InputSkew, StepGap, Punctual
<1>7. OneStepBehind /\ BoundedStaleness
  BY DEF Init, ServerInit, OneStepBehind, BoundedStaleness, Punctual
<1>8. Unfailing /\ EveryRoundIterates /\ LogShape
  BY DEF Init, ServerInit, Unfailing, EveryRoundIterates, LogShape
<1> QED
  BY <1>4, <1>5, <1>6, <1>7, <1>8 DEF IInv, GivenInv, AgeInv

\* Every step keeps the ages, and with them the whole invariant.
LEMMA StepInvs ==
  AgeInv /\ [Next]_vars => AgeInv' /\ (GivenInv => GivenInv') /\ (IInv => IInv')
<1> DEFINE Kept == AgeInv' /\ (GivenInv => GivenInv') /\ (IInv => IInv')
<1> SUFFICES ASSUME AgeInv, [Next]_vars PROVE Kept
  OBVIOUS
<1>1. ClientsTypeOK'
  BY TypesPreserved
<1>2. ASSUME NEW d \in Devices, Boot(d) PROVE Kept
  <2>1. Stored(d, 0) \/ Completed(d, 0)
    BY <1>2, SendDataEffect DEF Boot
  <2> QED
    BY <1>1, <1>2, <2>1, BootStoredInv, BootCompletedInv
<1>3. ASSUME NEW d \in Devices, Report(d) PROVE Kept
  <2>1. Stored(d, told[d]) \/ Completed(d, told[d])
    BY <1>3, SendDataEffect DEF Report
  <2> QED
    BY <1>1, <1>3, <2>1, ReportStoredInv, ReportCompletedInv
<1>4. ASSUME NEW d \in Devices, Client(d) PROVE Kept
  BY <1>1, <1>2, <1>3, <1>4, PollInv, AskTimeInv, AskParamsInv DEF Client
<1>5. ASSUME NEW d \in Devices, Fault(d) PROVE Kept
  BY <1>1, <1>5, LoseBootInv, LoseReportInv, LoseTimeInv, RestartInv DEF Fault
<1>6. ASSUME UNCHANGED <<barrierVars, clientVars, faultVars>> PROVE Kept
  BY <1>1, <1>6, FrameInv
<1> QED
  BY <1>4, <1>5, <1>6 DEF Next, vars, serverVars

\* Every step keeps the invariant.
LEMMA StepIInv == IInv /\ [Next]_vars => IInv'
BY StepInvs DEF IInv, GivenInv

------------------------------------------------------------------------------
(* What a network adds to the steps of the scripts. *)

\* A script that waits counts as connected once more, and is not answered.
LEMMA LateKeepAlive ==
  ASSUME GivenInv, NEW d \in Devices, pc[d] = "wait", KeepAlive(d),
         UNCHANGED <<clientVars, faultVars>>
  PROVE  GivenInv'
<1>1. /\ deviceConnected' = deviceConnected \cup {d}
      /\ UNCHANGED <<deviceSentData, obecne, zeszle, timer, iteration, csv>>
      /\ UNCHANGED <<pc, told, told_old, inputs, restarts, lost>>
  BY KeepAliveEffect DEF GivenInv, AgeInv, Stamped, clientVars, faultVars
<1>2. ClientsTypeOK'
  <2>1. Inv /\ ServerNext
    BY DEF GivenInv, AgeInv, ClientsTypeOK, Stamped, Inv, BarrierDrained, ServerNext, Command
  <2>2. TypeOK'
    BY <2>1, StepInv DEF Inv
  <2> QED
    BY <1>1, <2>2 DEF GivenInv, AgeInv, ClientsTypeOK
<1>3. Stamped' /\ ClocksBehind' /\ Published'
  BY <1>1 DEF GivenInv, AgeInv, Stamped, ClocksBehind, Published
<1>4. OneStepBehind' /\ BoundedStaleness' /\ InputSkew' /\ StepGap'
  BY <1>1 DEF GivenInv, AgeInv, OneStepBehind, BoundedStaleness, InputSkew, StepGap, Punctual
<1>5. FirstRound' /\ ParamsInitialised'
  BY <1>1 DEF GivenInv, FirstRound, ParamsInitialised
<1> QED
  BY <1>2, <1>3, <1>4, <1>5 DEF GivenInv, AgeInv

\* A script that has been let in, or not, polls again.
LEMMA StopsWaiting ==
  ASSUME GivenInv, NEW d \in Devices, pc[d] \in {"wait", "time"},
         pc' = [pc EXCEPT ![d] = "wait"],
         UNCHANGED <<serverVars, told, told_old, inputs, faultVars>>
  PROVE  GivenInv'
<1>1. /\ UNCHANGED <<deviceConnected, deviceSentData, obecne, zeszle, timer, iteration, csv>>
      /\ UNCHANGED <<restarts, lost>>
  BY DEF serverVars, barrierVars, faultVars
<1>2. ClientsTypeOK'
  BY <1>1 DEF GivenInv, AgeInv, ClientsTypeOK, TypeOK, NastawyTypeOK, serverVars, nastawyVars
<1>3. AgeInv
  BY DEF GivenInv
<1>4. Stamped' /\ ClocksBehind' /\ Published'
  BY <1>1, <1>3, Types DEF GivenInv, AgeInv, Stamped, ClocksBehind, Published
<1>5. OneStepBehind' /\ BoundedStaleness' /\ InputSkew' /\ StepGap'
  BY <1>1, <1>3, Types
     DEF AgeInv, OneStepBehind, BoundedStaleness, InputSkew, StepGap, Punctual
<1>6. FirstRound' /\ ParamsInitialised'
  BY <1>1, <1>3, Types DEF GivenInv, FirstRound, ParamsInitialised
<1> QED
  BY <1>2, <1>4, <1>5, <1>6 DEF GivenInv, AgeInv

------------------------------------------------------------------------------
(* The theorems. *)

\* The co-simulation keeps the inductive invariant.
THEOREM HPKSSInvariant == Spec => []IInv
BY InitIInv, StepIInv, PTL DEF Spec

\* The four scripts use the server as its specification allows.
THEOREM HPKSSRunsServer == Spec => ServerSpec
<1>1. Init => ServerInit
  BY DEF Init
<1>2. IInv /\ [Next]_vars => [ServerNext]_serverVars
  BY ServerStep DEF IInv, GivenInv, AgeInv
<1> QED
  BY <1>1, <1>2, HPKSSInvariant, PTL DEF Spec, ServerSpec

\* Every variable of the scripts and of the server keeps its type.
THEOREM HPKSSTypeCorrect == Spec => []ClientsTypeOK
<1>1. IInv => ClientsTypeOK
  BY DEF IInv, GivenInv, AgeInv
<1> QED
  BY <1>1, HPKSSInvariant, PTL

\* As long as no command is lost, a script that was let into the loop is given
\* a record of each of its sources (Server.cpp:338, 487).
THEOREM HPKSSInitialisesParams == Spec => []ParamsInitialised
<1>1. IInv => ParamsInitialised
  BY DEF IInv, GivenInv
<1> QED
  BY <1>1, HPKSSInvariant, PTL

\* A punctual client's record is at most one step old when it is stored and two
\* when it is read, however its rounds interleave with those of the others.
THEOREM HPKSSBoundsStaleness == Spec => []BoundedStaleness
<1>1. IInv => BoundedStaleness
  BY DEF IInv, GivenInv, AgeInv
<1> QED
  BY <1>1, HPKSSInvariant, PTL

\* What a model reads is never later, and at most two steps earlier, than the
\* step it was told, although the two come in separate answers.
THEOREM HPKSSBoundsSkew == Spec => []InputSkew
<1>1. IInv => InputSkew
  BY DEF IInv, GivenInv, AgeInv
<1> QED
  BY <1>1, HPKSSInvariant, PTL

\* The steps a script is told in one loop and the next do not go back and are
\* two apart at most, unless W lost an answer.
THEOREM HPKSSBoundsGap == Spec => []StepGap
<1>1. IInv => StepGap
  BY DEF IInv, GivenInv, AgeInv
<1> QED
  BY <1>1, HPKSSInvariant, PTL

\* Without faults every round but the first is counted as an iteration, so no
\* round is lost to a send that failed or to a server that forgot.
THEOREM HPKSSIterates == Spec => []EveryRoundIterates
<1>1. IInv => EveryRoundIterates
  BY DEF IInv
<1> QED
  BY <1>1, HPKSSInvariant, PTL

\* data.csv is one header followed by the rows of the rounds in order.
THEOREM HPKSSLogs == Spec => []LogShape
<1>1. IInv => LogShape
  BY DEF IInv
<1> QED
  BY <1>1, HPKSSInvariant, PTL

------------------------------------------------------------------------------
(* The co-simulation is a lagged exchange. *)

\* The round that d ends publishes recent records, none older than before.
LEMMA RoundAdvances ==
  ASSUME IInv, lost = 0, restarts = 0, NEW d \in Devices, NEW x \in Steps,
         x <= timer, timer <= x + 1, Completed(d, x)
  PROVE  LaggedExchange!Advance
<1>1. /\ timer' = timer + 1 /\ zeszle' = [obecne EXCEPT ![d] = x]
      /\ deviceSentData \cup {d} = Devices
  BY DEF Completed
<1>2. \A e \in Devices \ {d} : /\ obecne[e] \in 0..timer
                               /\ timer <= obecne[e] + 1
  BY <1>1 DEF IInv, GivenInv, AgeInv, Stamped, Unfailing
<1>3. \A e \in Devices : zeszle'[e] \in LaggedExchange!Recent
  BY <1>1, <1>2, Types DEF LaggedExchange!Recent, IInv, GivenInv, AgeInv
<1>4. zeszle' \in [Devices -> LaggedExchange!Recent]
  BY <1>1, <1>3, Types DEF IInv, GivenInv, AgeInv
<1>5. ASSUME NEW e \in Devices
      PROVE  LaggedExchange!NotOlder(zeszle'[e], zeszle[e])
  <2>1. zeszle[e] \in {NoData, 0, timer - 1, timer - 2}
    BY DEF IInv, GivenInv, AgeInv, BoundedStaleness, Punctual
  <2>2. zeszle'[e] \in Nat /\ timer <= zeszle'[e] + 1 /\ timer \in Nat
    BY <1>3, Types DEF LaggedExchange!Recent, IInv, GivenInv, AgeInv
  <2> QED
    BY <2>1, <2>2 DEF LaggedExchange!NotOlder
<1> QED
  BY <1>1, <1>4, <1>5 DEF LaggedExchange!Advance

\* Without faults every step is a step of the lagged exchange or invisible.
LEMMA StepLags ==
  ASSUME IInv, lost = 0, restarts = 0, [Next]_vars, lost' = 0, restarts' = 0
  PROVE  [LaggedExchange!Advance]_LaggedExchange!vars
<1> USE DEF LaggedExchange!vars
<1>1. ASSUME NEW d \in Devices, Boot(d)
      PROVE  LaggedExchange!Advance \/ UNCHANGED <<timer, zeszle>>
  <2>1. timer = 0 /\ 0 \in Steps
    BY <1>1, Types DEF IInv, GivenInv, AgeInv, Unfailing, Boot, Goto
  <2>2. Stored(d, 0) \/ Completed(d, 0)
    BY <1>1, SendDataEffect DEF Boot
  <2> QED
    BY <2>1, <2>2, RoundAdvances DEF Stored
<1>2. ASSUME NEW d \in Devices, Report(d)
      PROVE  LaggedExchange!Advance \/ UNCHANGED <<timer, zeszle>>
  <2>1. d \in Punctual /\ pc[d] = "send"
    BY <1>2 DEF Punctual, Report, Simulated, Goto
  <2>2. told[d] \in Steps /\ told[d] <= timer /\ timer <= told[d] + 1
    BY <2>1, Types DEF IInv, GivenInv, AgeInv, ClocksBehind, OneStepBehind
  <2>3. Stored(d, told[d]) \/ Completed(d, told[d])
    BY <1>2, SendDataEffect DEF Report
  <2> QED
    BY <2>2, <2>3, RoundAdvances DEF Stored
<1>3. ASSUME NEW d \in Devices, Poll(d) PROVE UNCHANGED <<timer, zeszle>>
  BY <1>3, KeepAliveEffect DEF Poll, IInv, GivenInv, AgeInv, Stamped
<1>4. ASSUME NEW d \in Devices, AskTime(d) PROVE UNCHANGED <<timer, zeszle>>
  BY <1>4 DEF AskTime, serverVars, barrierVars
<1>5. ASSUME NEW d \in Devices, AskParams(d) PROVE UNCHANGED <<timer, zeszle>>
  BY <1>5, GetParamsEffect DEF AskParams, IInv, GivenInv, AgeInv, Stamped, barrierVars
<1>6. ASSUME NEW d \in Devices, Fault(d) PROVE UNCHANGED <<timer, zeszle>>
  BY <1>6 DEF Fault, LoseBoot, LoseReport, LoseTime, Lose, Restart, serverVars,
              barrierVars
<1>7. ASSUME UNCHANGED barrierVars PROVE UNCHANGED <<timer, zeszle>>
  BY <1>7 DEF barrierVars
<1> QED
  BY <1>1, <1>2, <1>3, <1>4, <1>5, <1>6, <1>7 DEF Next, Client, vars, serverVars

\* Without faults the co-simulation implements the lagged exchange: each round
\* publishes, for every device, its record for the current step or the one
\* before, and never an older one than the round before did.
THEOREM HPKSSLags ==
  ASSUME MaxLost = 0, MaxRestarts = 0
  PROVE  Spec => ImplementsLagged
<1>1. Init => LaggedExchange!Init
  BY DEF Init, ServerInit, LaggedExchange!Init
<1>2. IInv => lost = 0 /\ restarts = 0
  BY DEF IInv, GivenInv, AgeInv, ClientsTypeOK
<1>3. IInv /\ IInv' /\ [Next]_vars => [LaggedExchange!Advance]_LaggedExchange!vars
  <2>1. IInv' => lost' = 0 /\ restarts' = 0
    BY DEF IInv, GivenInv, AgeInv, ClientsTypeOK
  <2> QED
    BY <1>2, <2>1, StepLags
<1> QED
  BY <1>1, <1>3, HPKSSInvariant, PTL DEF Spec, ImplementsLagged, LaggedExchange!Spec

------------------------------------------------------------------------------
(* The server is closed, or dies, and is started again. *)

\* What a start of the server leaves alone keeps its bounds; the tables and the
\* records it loses only make them easier.
LEMMA StartAges ==
  ASSUME AgeInv, RestartServer
  PROVE  AgeInv'
<1>1. /\ deviceConnected' = {} /\ deviceSentData' = {} /\ iteration' = 0
      /\ running' = "up" /\ pi' = [d \in Tunable |-> SettingsAtStart(d)]
      /\ UNCHANGED <<timer, csv, nastawy, edits, pc, told, told_old, inputs, restarts, lost>>
      /\ \A d \in Devices : obecne'[d] = NoData /\ zeszle'[d] = NoData
      /\ obecne' \in [Devices -> Record] /\ zeszle' \in [Devices -> Record]
  BY DEF RestartServer, Started, clientVars, faultVars, Record
<1>2. TypeOK'
  <2>1. pi' \in [Tunable -> Settings \cup {Unset, Garbage}]
    BY <1>1 DEF AgeInv, ClientsTypeOK, TypeOK, NastawyTypeOK, SettingsAtStart
  <2>2. NastawyTypeOK'
    BY <1>1, <2>1 DEF AgeInv, ClientsTypeOK, TypeOK, NastawyTypeOK
  <2>3. 0 \in 0..timer'
    BY <1>1, Types
  <2> QED
    BY <1>1, <2>2, <2>3 DEF AgeInv, ClientsTypeOK, TypeOK
<1>3. ClientsTypeOK'
  BY <1>1, <1>2 DEF AgeInv, ClientsTypeOK
<1>4. Stamped' /\ ClocksBehind'
  BY <1>1, ServerAssumption DEF AgeInv, Stamped, ClocksBehind
<1>5. OneStepBehind'
  BY <1>1, Types DEF AgeInv, OneStepBehind, Punctual
<1>6. BoundedStaleness' /\ InputSkew' /\ StepGap'
  BY <1>1 DEF AgeInv, BoundedStaleness, InputSkew, StepGap, Punctual
<1> QED
  BY <1>3, <1>4, <1>5, <1>6 DEF AgeInv

\* The lines of data.csv that are headers can be counted.
LEMMA HeadersFinite ==
  ASSUME NEW log \in Seq(Nat \cup {Header})
  PROVE  LET lines == {i \in DOMAIN log : log[i] = Header}
         IN  IsFiniteSet(lines) /\ Cardinality(lines) \in Nat
<1> DEFINE lines == {i \in DOMAIN log : log[i] = Header}
<1>1. Len(log) \in Nat /\ lines \subseteq 1..Len(log)
  OBVIOUS
<1>2. IsFiniteSet(1..Len(log))
  BY <1>1, FS_Interval
<1>3. IsFiniteSet(lines)
  BY <1>1, <1>2, FS_Subset
<1> QED
  BY <1>3, FS_CardinalityType

\* A row has one header more only if the round it ends did not count.
LEMMA RowHeaders ==
  ASSUME csv \in Seq(Nat \cup {Header}), NEW rounds, NEW now \in Nat, printAllData(rounds, now)
  PROVE  /\ rounds # 0 => Headers' = Headers
         /\ Cardinality(Headers') <= Cardinality(Headers) + 1
<1>1. Header # now
  BY ServerAssumption
<1>2. IsFiniteSet(Headers) /\ Cardinality(Headers) \in Nat
  BY HeadersFinite DEF Headers
<1>3. CASE rounds # 0
  <2>1. csv' = Append(csv, now)
    BY <1>3 DEF printAllData
  <2>2. Headers' = Headers
    BY <1>1, <2>1 DEF Headers
  <2> QED
    BY <1>3, <1>2, <2>2
<1>4. CASE rounds = 0
  <2>1. csv' = Append(Append(csv, Header), now)
    BY <1>4 DEF printAllData
  <2>2. Headers' = Headers \cup {Len(csv) + 1}
    BY <1>1, <2>1 DEF Headers
  <2>3. Cardinality(Headers') \in {Cardinality(Headers), Cardinality(Headers) + 1}
    BY <1>2, <2>2, FS_AddElement
  <2> QED
    BY <1>4, <1>2, <2>3
<1> QED
  BY <1>3, <1>4

\* What is known since the last start of the server.
SinceStart == RestartTypeOK /\ RecordsReturn /\ CountsAgain /\ HeadersCounted

\* A record comes in, from a script that starts or that has simulated.
LEMMA SentSince ==
  ASSUME AgeInv, SinceStart, AgeInv', NEW d \in Devices, NEW x \in Data,
         Stored(d, x) \/ Completed(d, x),
         pc[d] \in {"boot", "send"}, pc' = [pc EXCEPT ![d] = "wait"],
         \A e \in Devices \ {d} : inputs'[e] = inputs[e],
         UNCHANGED <<restarts, lost, starts, startedAt>>
  PROVE  SinceStart'
<1>1. /\ starts \in 0..MaxServerRestarts /\ startedAt \in 0..timer
      /\ csv \in Seq(Nat \cup {Header}) /\ iteration \in Nat
      /\ starts \in Nat /\ startedAt \in Nat /\ timer \in Nat
      /\ pc \in [Devices -> {"boot", "wait", "time", "params", "send"}]
  BY Types, ServerRestartAssumption DEF SinceStart, RestartTypeOK, AgeInv, ClientsTypeOK, TypeOK
<1>2. CASE Stored(d, x)
  <2>1. RestartTypeOK'
    BY <1>1, <1>2 DEF RestartTypeOK, Stored
  <2>2. RecordsReturn'
    BY <1>1, <1>2 DEF SinceStart, RecordsReturn, Stored
  <2>3. CountsAgain'
    BY <1>1, <1>2 DEF SinceStart, CountsAgain, Stored
  <2>4. HeadersCounted'
    BY <1>1, <1>2 DEF SinceStart, HeadersCounted, Headers, Stored
  <2> QED
    BY <2>1, <2>2, <2>3, <2>4 DEF SinceStart
<1>3. CASE Completed(d, x)
  <2>1. timer' = timer + 1 /\ deviceSentData' = {} /\ deviceSentData \cup {d} = Devices
    BY <1>3 DEF Completed
  <2>2. RestartTypeOK'
    BY <1>1, <2>1 DEF RestartTypeOK
  <2>3. RecordsReturn'
    <3>1. \A e \in Devices : zeszle'[e] # NoData
      BY <1>3, Types, ServerAssumption DEF Completed, AgeInv, Stamped
    <3> QED
      BY <1>1, <2>1, <3>1 DEF SinceStart, RecordsReturn
  <2>4. CASE deviceConnected = Devices
    <3>1. iteration' = iteration + 1 /\ iteration' # 0
      BY <1>1, <1>3, <2>4 DEF Completed
    <3>2. CountsAgain'
      BY <3>1 DEF CountsAgain
    <3>3. Headers' = Headers
      BY <1>1, <1>3, <3>1, RowHeaders DEF Completed
    <3>4. Cardinality(Headers) \in Nat
      BY <1>1, HeadersFinite DEF Headers
    <3>5. HeadersCounted'
      BY <1>1, <3>1, <3>3, <3>4 DEF SinceStart, HeadersCounted
    <3> QED
      BY <2>2, <2>3, <3>2, <3>5 DEF SinceStart
  <2>5. CASE deviceConnected # Devices
    <3>1. iteration' = iteration /\ deviceConnected' = deviceConnected
      BY <1>3, <2>5 DEF Completed
    <3>2. lost = 0 /\ restarts = 0 /\ iteration = 0 =>
            timer = startedAt /\ \A e \in Devices : pc'[e] = "wait"
      BY <1>1, <2>1, <2>5 DEF SinceStart, CountsAgain
    <3>3. CountsAgain'
      BY <1>1, <2>1, <3>1, <3>2 DEF CountsAgain
    <3>4. /\ iteration' # 0 => Headers' = Headers
          /\ Cardinality(Headers') <= Cardinality(Headers) + 1
      BY <1>1, <1>3, <2>1, RowHeaders DEF Completed
    <3>5. Cardinality(Headers) \in Nat /\ csv' \in Seq(Nat \cup {Header})
      BY <1>1, HeadersFinite DEF AgeInv, ClientsTypeOK, TypeOK, Headers
    <3>6. Cardinality(Headers') \in Nat
      BY <3>5, HeadersFinite DEF Headers
    <3>7. HeadersCounted'
      BY <1>1, <2>1, <3>1, <3>2, <3>4, <3>5, <3>6 DEF SinceStart, HeadersCounted
    <3> QED
      BY <2>2, <2>3, <3>3, <3>7 DEF SinceStart
  <2> QED
    BY <2>4, <2>5
<1> QED
  BY <1>2, <1>3

\* A script goes on, or fails, without a round to end: it may read what is
\* published, and leaves its place in the queue only by a fault.
LEMMA QuietSince ==
  ASSUME AgeInv, SinceStart,
         UNCHANGED <<deviceConnected, deviceSentData, zeszle, timer, iteration, csv>>,
         UNCHANGED <<starts, startedAt>>, lost' \in Nat, restarts' \in Nat,
         lost' >= lost, restarts' >= restarts,
         \A e \in Devices : pc'[e] = "send" =>
           \/ pc[e] = "send" /\ inputs'[e] = inputs[e]
           \/ inputs'[e] = Params(e),
         lost' = lost /\ restarts' = restarts =>
           \A e \in Devices : pc[e] = "wait" => pc'[e] = "wait"
  PROVE  SinceStart'
<1>1. /\ starts \in 0..MaxServerRestarts /\ startedAt \in 0..timer
      /\ starts \in Nat /\ startedAt \in Nat /\ timer \in Nat
      /\ lost \in Nat /\ restarts \in Nat
  BY Types, ServerRestartAssumption DEF SinceStart, RestartTypeOK
<1>2. RestartTypeOK'
  BY DEF SinceStart, RestartTypeOK
<1>3. RecordsReturn'
  <2>1. \A e \in Devices : timer' > startedAt' => zeszle'[e] # NoData
    BY DEF SinceStart, RecordsReturn
  <2>2. ASSUME NEW e \in Devices, inputs'[e] = Params(e),
               \E s \in Sources[e] : inputs'[e][s] = NoData
        PROVE  timer = startedAt
    <3>1. PICK s \in Sources[e] : zeszle[s] = NoData
      BY <2>2 DEF Params
    <3>2. s \in Devices
      BY ServerAssumption
    <3> QED
      BY <1>1, <3>1, <3>2 DEF SinceStart, RecordsReturn
  <2> QED
    BY <2>1, <2>2 DEF SinceStart, RecordsReturn
<1>4. lost' = 0 /\ restarts' = 0 => lost = 0 /\ restarts = 0
  BY <1>1
<1>5. CountsAgain'
  BY <1>4 DEF SinceStart, CountsAgain
<1>6. HeadersCounted'
  BY <1>4 DEF SinceStart, HeadersCounted, Headers
<1> QED
  BY <1>2, <1>3, <1>5, <1>6 DEF SinceStart

\* A script polls, and is let in when it was the last one missing.
LEMMA PollSince ==
  ASSUME AgeInv, SinceStart, NEW d \in Devices, Poll(d), UNCHANGED <<starts, startedAt>>
  PROVE  SinceStart'
<1>1. /\ deviceConnected' = deviceConnected \cup {d}
      /\ UNCHANGED <<deviceSentData, obecne, zeszle, timer, iteration, csv>>
      /\ pc' = [pc EXCEPT ![d] = IF deviceConnected \cup {d} = Devices
                                  THEN "time" ELSE "wait"]
      /\ UNCHANGED <<told, told_old, inputs, restarts, lost>>
  BY KeepAliveEffect DEF AgeInv, Stamped, Poll, Goto, AnswersSta, allClientsConnected, faultVars
<1>2. RestartTypeOK'
  BY <1>1 DEF SinceStart, RestartTypeOK
<1>3. RecordsReturn'
  BY <1>1, Types DEF SinceStart, RecordsReturn
<1>4. CountsAgain'
  BY <1>1, Types DEF SinceStart, CountsAgain
<1>5. HeadersCounted'
  BY <1>1 DEF SinceStart, HeadersCounted, Headers
<1> QED
  BY <1>2, <1>3, <1>4, <1>5 DEF SinceStart

\* A step of the scripts or of Tornado.
LEMMA StepSince ==
  ASSUME AgeInv, SinceStart, AgeInv', [Next]_vars, UNCHANGED <<starts, startedAt>>
  PROVE  SinceStart'
<1>1. Steps \subseteq Data /\ 0 \in Data /\ told \in [Devices -> Data]
  BY Types, StampsAreData
<1>2. lost \in Nat /\ restarts \in Nat
  BY Types
<1>3. pc \in [Devices -> {"boot", "wait", "time", "params", "send"}] /\ DOMAIN inputs = Devices
  BY Types
<1>4. ASSUME NEW d \in Devices, Boot(d) PROVE SinceStart'
  <2>1. Stored(d, 0) \/ Completed(d, 0)
    BY <1>4, SendDataEffect DEF Boot
  <2> QED
    BY <1>1, <1>4, <2>1, SentSince DEF Boot, Goto, faultVars
<1>5. ASSUME NEW d \in Devices, Report(d) PROVE SinceStart'
  <2>1. Stored(d, told[d]) \/ Completed(d, told[d])
    BY <1>5, SendDataEffect DEF Report
  <2>2. \A e \in Devices \ {d} : inputs'[e] = inputs[e]
    BY <1>3, <1>5 DEF Report, Simulated
  <2> QED
    BY <1>1, <1>5, <2>1, <2>2, SentSince DEF Report, Simulated, Goto, faultVars
<1>6. ASSUME NEW d \in Devices, Poll(d) PROVE SinceStart'
  BY <1>6, PollSince
<1>7. ASSUME NEW d \in Devices, AskTime(d) PROVE SinceStart'
  BY <1>2, <1>3, <1>7, QuietSince DEF AskTime, Goto, faultVars, serverVars, barrierVars
<1>8. ASSUME NEW d \in Devices, AskParams(d) PROVE SinceStart'
  <2>1. UNCHANGED barrierVars
    BY <1>8, GetParamsEffect DEF AskParams, AgeInv, Stamped
  <2> QED
    BY <1>2, <1>3, <1>8, <2>1, QuietSince DEF AskParams, Goto, faultVars, barrierVars
<1>9. ASSUME NEW d \in Devices, Fault(d) PROVE SinceStart'
  <2>1. /\ UNCHANGED <<deviceConnected, deviceSentData, zeszle, timer, iteration, csv>>
        /\ \/ lost' = lost + 1 /\ restarts' = restarts
           \/ lost' = lost /\ restarts' = restarts + 1
    BY <1>9 DEF Fault, LoseBoot, LoseReport, LoseTime, Lose, Restart, serverVars, barrierVars
  <2>2. \A e \in Devices : pc'[e] = "send" => pc[e] = "send" /\ inputs'[e] = inputs[e]
    BY <1>3, <1>9 DEF Fault, LoseBoot, LoseReport, LoseTime, Simulated, Restart, Goto
  <2> QED
    BY <1>2, <2>1, <2>2, QuietSince
<1>10. ASSUME UNCHANGED <<barrierVars, clientVars, faultVars>> PROVE SinceStart'
  BY <1>2, <1>10, QuietSince DEF barrierVars, clientVars, faultVars
<1> QED
  BY <1>4, <1>5, <1>6, <1>7, <1>8, <1>9, <1>10 DEF Next, Client, vars, serverVars

\* A start of the server.
LEMMA StartSince ==
  ASSUME AgeInv, SinceStart, RestartServer
  PROVE  SinceStart'
<1>1. /\ starts' = starts + 1 /\ starts < MaxServerRestarts /\ startedAt' = timer
      /\ deviceSentData' = {} /\ iteration' = 0
      /\ UNCHANGED <<timer, csv, pc, inputs, lost, restarts>>
  BY DEF RestartServer, Started, clientVars, faultVars
<1>2. timer \in Nat /\ starts \in Nat /\ starts' \in 0..MaxServerRestarts
  BY <1>1, Types, ServerRestartAssumption DEF SinceStart, RestartTypeOK
<1>3. RestartTypeOK' /\ RecordsReturn' /\ CountsAgain'
  BY <1>1, <1>2 DEF RestartTypeOK, RecordsReturn, CountsAgain
<1>4. Cardinality(Headers) \in Nat
  BY HeadersFinite DEF Headers, AgeInv, ClientsTypeOK, TypeOK
<1>5. HeadersCounted'
  BY <1>1, <1>2, <1>4 DEF SinceStart, HeadersCounted, Headers
<1> QED
  BY <1>3, <1>5 DEF SinceStart

\* The co-simulation starts in the invariant.
LEMMA InitRInv == RestartInit => RInv
<1> SUFFICES ASSUME RestartInit PROVE RInv
  OBVIOUS
<1>1. IInv /\ starts = 0 /\ startedAt = 0
  BY InitIInv DEF RestartInit
<1>2. timer = 0 /\ csv = << >> /\ deviceSentData = {} /\ \A d \in Devices : pc[d] = "boot"
  BY DEF RestartInit, Init, ServerInit
<1>3. RowPerStep
  BY <1>2 DEF RowPerStep, RowsUpTo
<1>4. RestartTypeOK /\ RecordsReturn /\ CountsAgain
  BY <1>1, <1>2, ServerRestartAssumption DEF RestartTypeOK, RecordsReturn, CountsAgain
<1>5. Headers = {}
  BY <1>2 DEF Headers
<1>6. HeadersCounted
  BY <1>1, <1>2, <1>5, FS_EmptySet DEF HeadersCounted
<1> QED
  BY <1>1, <1>3, <1>4, <1>6 DEF RInv, IInv, GivenInv

\* Every step keeps it, those that start the server included.
LEMMA StepRInv == RInv /\ [RestartNext]_restartVars => RInv'
<1> SUFFICES ASSUME RInv, [RestartNext]_restartVars PROVE RInv'
  OBVIOUS
<1>1. SinceStart /\ AgeInv /\ Inv
  BY DEF RInv, SinceStart, AgeInv, ClientsTypeOK, Stamped, Inv, BarrierDrained
<1>2. CASE RestartServer
  <2>1. AgeInv' /\ SinceStart'
    BY <1>1, <1>2, StartAges, StartSince
  <2>2. RowPerStep'
    BY <1>2 DEF RInv, RowPerStep, RestartServer, Started
  <2>3. starts' # 0
    BY <1>2, ServerRestartAssumption DEF RestartServer, Started, RInv, RestartTypeOK
  <2> QED
    BY <2>1, <2>2, <2>3 DEF RInv, SinceStart
<1>3. CASE [Next]_vars /\ UNCHANGED <<starts, startedAt>>
  <2>1. AgeInv' /\ (GivenInv => GivenInv') /\ (IInv => IInv')
    BY <1>1, <1>3, StepInvs
  <2>2. SinceStart'
    BY <1>1, <1>3, <2>1, StepSince
  <2>3. RowPerStep'
    BY <1>1, <1>3, ServerStep, StepRows DEF RInv, AgeInv
  <2> QED
    BY <1>3, <2>1, <2>2, <2>3 DEF RInv, SinceStart
<1> QED
  BY <1>2, <1>3 DEF RestartNext, restartVars

LEMMA RestartInvariant == RestartSpec => []RInv
BY InitRInv, StepRInv, PTL DEF RestartSpec

\* Wherever the scripts are when the server is started again with the time it
\* had reached (Server.cpp:106), the first round that ends gives everyone a
\* record again, and data.csv goes on without a gap.
THEOREM RestartResumes == RestartSpec => []ResumesCleanly
<1>1. RInv => BlankBriefly
  <2> SUFFICES ASSUME RInv, NEW d \in Devices, pc[d] = "send",
                      \E s \in Sources[d] : inputs[d][s] = NoData
               PROVE  timer <= startedAt + 1 /\ (lost = 0 => starts > 0)
    BY DEF BlankBriefly
  <2>1. timer \in Nat /\ starts \in Nat
    BY Types, ServerRestartAssumption DEF RInv, RestartTypeOK
  <2>2. timer <= startedAt + 1
    BY <2>1 DEF RInv, RecordsReturn
  <2>3. starts = 0 => lost # 0
    BY DEF RInv, IInv, GivenInv, ParamsInitialised
  <2> QED
    BY <2>1, <2>2, <2>3
<1>2. RInv => LogContinues
  <2> SUFFICES ASSUME RInv PROVE LogContinues
    OBVIOUS
  <2>1. csv \in Seq(Nat \cup {Header}) /\ starts \in Nat
    BY ServerRestartAssumption DEF RInv, RestartTypeOK, AgeInv, ClientsTypeOK, TypeOK
  <2>2. Cardinality(Headers) \in Nat
    BY <2>1, HeadersFinite DEF Headers
  <2> QED
    BY <2>1, <2>2 DEF RInv, HeadersCounted, LogContinues
<1> QED
  BY <1>1, <1>2, RestartInvariant, PTL DEF ResumesCleanly

\* The bounds on the age of what is stored, read and simulated survive any
\* number of starts of the server, mixed with lost commands and with scripts
\* that are run again.
THEOREM RestartKeepsAges ==
  RestartSpec => [](BoundedStaleness /\ InputSkew /\ StepGap)
<1>1. RInv => BoundedStaleness /\ InputSkew /\ StepGap
  BY DEF RInv, AgeInv
<1> QED
  BY <1>1, RestartInvariant, PTL
==============================================================================

-------------------------------- MODULE Server --------------------------------
(***************************************************************************)
(* The central hPKSS server (serwer/Server.cpp): one thread that accepts a *)
(* connection, receives one command, answers it and closes.  It holds the  *)
(* last record of every device twice: obecne is what the device sent,      *)
(* zeszle what the other devices may read.  When every device has sent its *)
(* data, the simulated time advances by one step and obecne is published.  *)
(*                                                                         *)
(* An action is one round of the loop: the handler of the command and the  *)
(* code after it.  The fields of a record are one value of Data; a command *)
(* whose handling changes nothing (GetTime, an unknown command, any other  *)
(* command of an unknown client) is a stuttering step.  timer is counted   *)
(* in steps of minsToBeAdded from its first value; cmd only numbers log    *)
(* lines and is left out.                                                  *)
(***************************************************************************)
EXTENDS Nastawy, Sequences

CONSTANTS
  Devices,    \* E, W, B and R: the power plant, exchanger, building, regulator
  Unchecked,  \* devices whose fields are stored unless the first is missing: B
  Sources,    \* Sources[d]: the devices whose records GetParams sends to d
  Strangers,  \* clients whose id is none of Devices
  Data,       \* contents a record can have
  NoData,     \* a record never written: empty strings
  Header,     \* the header line of data.csv
  MaxSteps    \* bound: steps the simulated time takes

ASSUME ServerAssumption ==
  /\ Devices # {}
  /\ Tunable \subseteq Devices
  /\ Unchecked \subseteq Devices
  /\ Sources \in [Devices -> SUBSET Devices]
  /\ {NoData, Garbage} \cap Data = {}
  /\ Header \notin Nat
  /\ MaxSteps \in Nat

VARIABLES
  deviceConnected,  \* devices whose KeepAlive came since the table was reset
  deviceSentData,   \* devices whose SendData came since the table was reset
  iteration,        \* rounds completed with every device connected
  timer,            \* simulated time, in steps
  obecne,           \* the record each device sent last
  zeszle,           \* the published record of each device
  csv               \* lines of data.csv: Header, or the time of a row

barrierVars ==
  <<deviceConnected, deviceSentData, iteration, timer, obecne, zeszle, csv>>
serverVars == <<nastawyVars, barrierVars>>

Record == Data \cup {NoData}

\* A value for Sources: every device reads all others.
EachOther == [d \in Devices |-> Devices \ {d}]

TypeOK ==
  /\ NastawyTypeOK
  /\ deviceConnected \in SUBSET Devices
  /\ deviceSentData \in SUBSET Devices
  /\ iteration \in 0..timer
  /\ timer \in 0..MaxSteps
  /\ obecne \in [Devices -> Record]
  /\ zeszle \in [Devices -> Record]
  /\ csv \in Seq(Nat \cup {Header})

ServerInit ==
  /\ NastawyInit
  /\ deviceConnected = {}
  /\ deviceSentData = {}
  /\ iteration = 0
  /\ timer = 0
  /\ obecne = [d \in Devices |-> NoData]
  /\ zeszle = [d \in Devices |-> NoData]
  /\ csv = << >>

------------------------------------------------------------------------------
(* The code every command ends with, given the tables and records the     *)
(* command leaves.                                                        *)
(*                                                                        *)
(* A definition under the word "Mutant" is the one below it with a bug    *)
(* someone could have made; it is used by no specification, and shows     *)
(* what the properties would catch.                                       *)

\* Mutant: one device is taken for all of them.
anyClientConnected(connected) == connected # {}

allClientsConnected(connected) == connected = Devices

allClientsSentData(sent) == sent = Devices

\* Mutant: the row is written before the time moves.
printAllDataEarly(rounds, time) ==
  csv' = Append(IF rounds = 0 THEN Append(csv, Header) ELSE csv, time - 1)

\* Mutant: the header is repeated in the first iteration.
printAllDataTwoHeaders(rounds, time) ==
  csv' = Append(IF rounds <= 1 THEN Append(csv, Header) ELSE csv, time)

\* printAllData: a row for the new time, after a header while iteration is 0.
printAllData(rounds, time) ==
  csv' = Append(IF rounds = 0 THEN Append(csv, Header) ELSE csv, time)

resetConnectionsTable == deviceConnected' = {}

\* Mutant: the senders are not forgotten.
keepSentDataTable == deviceSentData' = Devices

resetSentDataTable == deviceSentData' = {}

fastForwardTimeInMinutes == timer' = timer + 1

\* Mutant: publication comes before the last record is stored.
updateDeviceValuesEarly(current) == obecne' = current /\ zeszle' = obecne

\* obecne, as it is left by the command, is published.
updateDeviceValues(current) == obecne' = current /\ zeszle' = current

\* Every device has sent: the round is over.  It counts as an iteration, and
\* the devices must announce themselves anew, only if all were connected.
CompleteRound(connected, current) ==
  /\ timer < MaxSteps
  /\ IF allClientsConnected(connected)
     THEN resetConnectionsTable /\ iteration' = iteration + 1
     ELSE deviceConnected' = connected /\ UNCHANGED iteration
  /\ fastForwardTimeInMinutes
  /\ resetSentDataTable
  /\ updateDeviceValues(current)
  /\ printAllData(iteration', timer')

EndOfCommand(connected, sent, current, published) ==
  IF allClientsSentData(sent)
  THEN CompleteRound(connected, current)
  ELSE /\ deviceConnected' = connected
       /\ deviceSentData' = sent
       /\ obecne' = current
       /\ zeszle' = published
       /\ UNCHANGED <<iteration, timer, csv>>

------------------------------------------------------------------------------
(* The commands. *)

\* The answer to KeepAlive: "sta" if no device is missing, "nop" otherwise.
AnswersSta(d) == allClientsConnected(deviceConnected \cup {d})

\* Mutant: the time moves with every "sta", as a line commented out in the code
\* would have it.
KeepAliveMovesTime(d) ==
  /\ running = "up"
  /\ deviceConnected' = deviceConnected \cup {d}
  /\ IF AnswersSta(d)
     THEN timer < MaxSteps /\ fastForwardTimeInMinutes
     ELSE UNCHANGED timer
  /\ UNCHANGED <<deviceSentData, iteration, obecne, zeszle, csv, nastawyVars>>

\* Mutant: the table is reset with every "sta", as another line commented out in the
\* code would have it.
KeepAliveResets(d) ==
  /\ running = "up"
  /\ EndOfCommand(IF AnswersSta(d) THEN {} ELSE deviceConnected \cup {d},
                  deviceSentData, obecne, zeszle)
  /\ UNCHANGED nastawyVars

KeepAlive(d) ==
  /\ running = "up"
  /\ EndOfCommand(deviceConnected \cup {d}, deviceSentData, obecne, zeszle)
  /\ UNCHANGED nastawyVars

\* Mutant: the answer is built from what the devices sent last.
ParamsUnpublished(d) == [s \in Sources[d] |-> obecne[s]]

\* The records GetParams sends to d.
Params(d) == [s \in Sources[d] |-> zeszle[s]]

\* B and R have their settings read again before the answer is built.
GetParams(d) ==
  /\ running = "up"
  /\ IF d \in Tunable THEN czytaj_nastawy(d) ELSE UNCHANGED <<pi, running>>
  /\ EndOfCommand(deviceConnected, deviceSentData, obecne, zeszle)
  /\ UNCHANGED <<nastawy, edits>>

SendData(d, x) ==
  /\ running = "up"
  /\ EndOfCommand(deviceConnected, deviceSentData \cup {d},
                  [obecne EXCEPT ![d] = x], zeszle)
  /\ UNCHANGED nastawyVars

\* Mutant: the missing field is read from behind the message.
SendPartStored(d) ==
  /\ running = "up"
  /\ EndOfCommand(deviceConnected, deviceSentData \cup {d},
                  [obecne EXCEPT ![d] = Garbage], zeszle)
  /\ UNCHANGED nastawyVars

\* A field is missing: the device counts as having sent, its record stays.
SendPart(d) ==
  /\ running = "up"
  /\ EndOfCommand(deviceConnected, deviceSentData \cup {d}, obecne, zeszle)
  /\ UNCHANGED nastawyVars

\* B's first field is there, another is not: strncpy copies from NULL.
SendPartUnchecked(d) ==
  /\ running = "up"
  /\ d \in Unchecked
  /\ running' = "crashed"
  /\ UNCHANGED <<nastawy, edits, pi, barrierVars>>

\* The default case of SendData publishes whatever the devices have sent.
SendDataStranger ==
  /\ running = "up"
  /\ EndOfCommand(deviceConnected, deviceSentData, obecne, obecne)
  /\ UNCHANGED nastawyVars

\* engcmd!closeServer leaves the loop; main then frees localtime's static
\* struct, which the C library may or may not survive.
closeServer ==
  /\ running = "up"
  /\ running' \in {"closed", "aborted"}
  /\ UNCHANGED <<nastawy, edits, pi, barrierVars>>

Command(d) ==
  \/ KeepAlive(d)
  \/ GetParams(d)
  \/ \E x \in Data : SendData(d, x)
  \/ SendPart(d)
  \/ SendPartUnchecked(d)

ServerNext ==
  \/ \E d \in Devices : Command(d)
  \/ Strangers # {} /\ SendDataStranger
  \/ closeServer
  \/ on_message /\ UNCHANGED barrierVars

ServerSpec == ServerInit /\ [][ServerNext]_serverVars

\* Clients that run ask for their parameters in every loop of their script,
\* and Tornado closes a file it opened.
ServerFairSpec ==
  /\ ServerSpec
  /\ \A d \in Tunable : WF_serverVars(GetParams(d))
  /\ WF_serverVars(\E d \in Tunable : WriteSettings(d) /\ UNCHANGED barrierVars)

------------------------------------------------------------------------------
(* Properties. *)

\* No round is left finished but not acted on: whatever devices and strangers
\* send, the code after a command has emptied a full table of senders.
BarrierDrained == deviceSentData # Devices

\* The rows of a log are those for the times 1 to n, in order.
RowsUpTo(n, log) ==
  /\ {log[i] : i \in DOMAIN log} \ {Header} = 1..n
  /\ \A i, j \in DOMAIN log :
       i < j /\ Header \notin {log[i], log[j]} => log[i] < log[j]

\* data.csv gets one row for each step of the simulated time, in order,
\* however often the header line is repeated in between.
RowPerStep == RowsUpTo(timer, csv)

\* The server implements the exchange: a device's offer is the record it sent
\* last, and strangers aside nothing is published but a complete round.
Barrier == INSTANCE Exchange WITH
  Blank   <- NoData,
  round   <- timer,
  offered <- deviceSentData,
  offer   <- obecne,
  board   <- zeszle

ImplementsExchange == Barrier!Spec

\* What a page saves is what the device's controller runs with in the end,
\* unless the server died: garbage read from a file in the middle of a write
\* is replaced, and a pair read too early does not stay.
SettingsArrive ==
  \A d \in Tunable :
    []<>(pi[d] = nastawy[d] \/ nastawy[d] = NoFile \/ running # "up")

\* The server never hands out settings that no file held.
SettingsWhole == \A d \in Tunable : pi[d] # Garbage

\* No command of the devices or of Tornado takes the server down.
ServerStaysUp == running # "crashed"
==============================================================================

-------------------------------- MODULE HPKSS --------------------------------
(***************************************************************************)
(* The whole co-simulation: the server and the four MATLAB clients, E      *)
(* (elektrocieplownia.m), W (Wymiennik/komunikacja.m), B                   *)
(* (Budynki/komunikacja.m) and R (Regulator/regulator.m).  The scripts     *)
(* share one skeleton: send initial data; then for ever poll KeepAlive     *)
(* until the answer is "sta", ask for the time, ask for the parameters,    *)
(* advance the model, send the result.                                     *)
(*                                                                         *)
(* Every command has a connection of its own and a client reads the answer *)
(* before it goes on, so a command and its handling are one step; the      *)
(* steps of different clients interleave freely.  Times are counted in     *)
(* steps of the server here.  A client is told the time as a text, day and *)
(* time of day; the step it tells stands for the text.  The numbers a      *)
(* script makes of it, and the interval it gives to sim, are another       *)
(* matter: W and R drop the day, see SimClock.  A record is named by the   *)
(* step that was told when it was computed.                                *)
(*                                                                         *)
(* Two faults are modelled: recv fails and the command is lost, which a    *)
(* client notices only where it reads an answer; and a script stops and is *)
(* started again.                                                          *)
(***************************************************************************)
EXTENDS Server

CONSTANTS
  KeepsTime,    \* clients that keep the last answer in a buffer of its own: W
  MaxRestarts,  \* bound: restarts of a script
  MaxLost       \* bound: commands lost in recv that a script survives

ASSUME HPKSSAssumption ==
  /\ KeepsTime \subseteq Devices
  /\ MaxRestarts \in Nat
  /\ MaxLost \in Nat
  /\ 0..MaxSteps \subseteq Data

VARIABLES
  pc,        \* where each script is: "boot", "wait", "time", "params", "send"
  told,      \* the step whose text GetTime gave each client last: its time
  told_old,  \* the step it was told in the loop before: its time_old
  inputs,    \* the records it read last
  restarts,  \* scripts restarted so far
  lost       \* commands lost so far

clientVars == <<pc, told, told_old, inputs>>
faultVars == <<restarts, lost>>
vars == <<serverVars, clientVars, faultVars>>

Steps == 0..MaxSteps

ClientsTypeOK ==
  /\ TypeOK
  /\ pc \in [Devices -> {"boot", "wait", "time", "params", "send"}]
  /\ told \in [Devices -> Steps]
  /\ told_old \in [Devices -> Steps]
  /\ DOMAIN inputs = Devices
  /\ \A d \in Devices : inputs[d] \in [Sources[d] -> Record]
  /\ restarts \in 0..MaxRestarts
  /\ lost \in 0..MaxLost

Unread == [d \in Devices |-> [s \in Sources[d] |-> NoData]]

Init ==
  /\ ServerInit
  /\ pc = [d \in Devices |-> "boot"]
  /\ told = [d \in Devices |-> 0]
  /\ told_old = [d \in Devices |-> 0]
  /\ inputs = Unread
  /\ restarts = 0
  /\ lost = 0

Goto(d, from, to) == pc[d] = from /\ pc' = [pc EXCEPT ![d] = to]

------------------------------------------------------------------------------
(* The scripts. *)

\* The data sent before the loop is named by step 0, as it was computed for
\* none: constants of the script, or what R's workspace holds.
Boot(d) ==
  /\ Goto(d, "boot", "wait")
  /\ SendData(d, 0)
  /\ UNCHANGED <<told, told_old, inputs, faultVars>>

\* The answer is "sta" if the sender was the last one missing, "nop" if not.
Poll(d) ==
  /\ Goto(d, "wait", IF AnswersSta(d) THEN "time" ELSE "wait")
  /\ KeepAlive(d)
  /\ UNCHANGED <<told, told_old, inputs, faultVars>>

\* GetTime: the text for the server's step, which no other step has while the
\* month lasts.
AskTime(d) ==
  /\ running = "up"
  /\ Goto(d, "time", "params")
  /\ told' = [told EXCEPT ![d] = timer]
  /\ UNCHANGED <<serverVars, told_old, inputs, faultVars>>

AskParams(d) ==
  /\ Goto(d, "params", "send")
  /\ GetParams(d)
  /\ inputs' = [inputs EXCEPT ![d] = Params(d)]
  /\ UNCHANGED <<told, told_old, faultVars>>

\* The end of the loop.  W, B and R simulate only if their numbers for the time
\* have changed and otherwise send their last result again; E looks its result
\* up afresh, in tables over the time of day.  Either way the result is the one
\* for the step told, as long as one step or two are no whole number of days:
\* these would look like no time to W and R.
Simulated(d) ==
  /\ Goto(d, "send", "wait")
  /\ told_old' = [told_old EXCEPT ![d] = told[d]]
  /\ inputs' = [inputs EXCEPT ![d] = Unread[d]]
  /\ UNCHANGED told

\* Mutant: the result is that of the start of the interval, not of its end.
ReportOld(d) ==
  /\ Simulated(d)
  /\ SendData(d, told_old[d])
  /\ UNCHANGED faultVars

Report(d) ==
  /\ Simulated(d)
  /\ SendData(d, told[d])
  /\ UNCHANGED faultVars

Client(d) == Boot(d) \/ Poll(d) \/ AskTime(d) \/ AskParams(d) \/ Report(d)

------------------------------------------------------------------------------
(* The faults. *)

\* recv fails: the server drops the command, and with it the connection.
Lose ==
  /\ running = "up"
  /\ lost < MaxLost
  /\ lost' = lost + 1
  /\ UNCHANGED <<serverVars, restarts>>

\* Nobody waits for an answer to SendData: the script goes on.  A lost
\* KeepAlive is as good as a "nop", and changes nothing.
LoseBoot(d) ==
  /\ Goto(d, "boot", "wait")
  /\ Lose
  /\ UNCHANGED <<told, told_old, inputs>>

LoseReport(d) == Simulated(d) /\ Lose

\* fread times out with nothing read: W parses the answer of its last loop once
\* more, which it has from the second loop on.
LoseTime(d) ==
  /\ d \in KeepsTime
  /\ told[d] # 0
  /\ Goto(d, "time", "params")
  /\ Lose
  /\ UNCHANGED <<told, told_old, inputs>>

\* A script stops, at any point, and is run again.  Any other answer that does
\* not come is one cause: the parser meets the text of an earlier command.
Restart(d) ==
  /\ pc[d] # "boot"
  /\ restarts < MaxRestarts
  /\ restarts' = restarts + 1
  /\ pc' = [pc EXCEPT ![d] = "boot"]
  /\ told' = [told EXCEPT ![d] = 0]
  /\ told_old' = [told_old EXCEPT ![d] = 0]
  /\ inputs' = [inputs EXCEPT ![d] = Unread[d]]
  /\ UNCHANGED <<serverVars, lost>>

Fault(d) == LoseBoot(d) \/ LoseReport(d) \/ LoseTime(d) \/ Restart(d)

Next ==
  \/ \E d \in Devices : Client(d) \/ Fault(d)
  \/ on_message /\ UNCHANGED <<barrierVars, clientVars, faultVars>>

Spec == Init /\ [][Next]_vars

------------------------------------------------------------------------------
(* Properties.  Each says under which faults it holds. *)

\* Whoever got "sta" can rely on being given a record of every source: the
\* first round ends only when all initial data is in.  Holds until an initial
\* SendData is lost; a script that restarts does not harm it.
ParamsInitialised ==
  lost = 0 => \A d \in Devices :
    /\ pc[d] \in {"time", "params"} => \A s \in Sources[d] : zeszle[s] # NoData
    /\ pc[d] = "send" => \A s \in Sources[d] : inputs[d][s] # NoData

\* The clients that were told the server's step: all, until W loses an answer.
Punctual == {d \in Devices : d \in KeepsTime => lost = 0}

\* A fast client can run a step again while the others are still busy, and be
\* caught by the end of the round in the middle of it.  Its record then counts
\* for the next round although it was computed for the last one; it is never
\* older than that, unless it is the initial one of a script just started.
BoundedStaleness ==
  \A d \in Punctual :
    /\ d \in deviceSentData => obecne[d] = 0 \/ obecne[d] \in {timer, timer - 1}
    /\ zeszle[d] # NoData =>
         zeszle[d] = 0 \/ zeszle[d] \in {timer - 1, timer - 2}

\* GetTime and GetParams are two commands, and a round can end in between: the
\* records a model is given lie at most two steps before the step it was told,
\* and never after it.
InputSkew ==
  \A d \in Punctual : pc[d] = "send" =>
    \A s \in Sources[d] \cap Punctual :
      inputs[d][s] \in {NoData, 0} \cup {t \in Steps : t <= told[d] /\ told[d] <= t + 2}

\* From one loop of a script to the next the step it is told does not go back,
\* though W may take an old answer for a new one; and a script that is never cut
\* short is told the next step but one at the latest, however far the others
\* get while it is at work.  (This is about steps: what the texts become in the
\* scripts, where for W and R the numbers do go back at midnight, is the matter
\* of SimClock.)
StepGap ==
  \A d \in Devices : pc[d] \in {"params", "send"} =>
    /\ told_old[d] <= told[d]
    /\ d \in Punctual /\ told_old[d] # 0 => told[d] <= told_old[d] + 2

\* Every round but the first, which the initial data fills before the last
\* script has sent KeepAlive, is an iteration: without faults no round ends
\* while a device is unknown to the server.
EveryRoundIterates ==
  lost = 0 /\ restarts = 0 /\ timer > 0 => iteration = timer - 1

\* One header, then a row for each time up to n.
LogOf(n) == [i \in 1..(n + 1) |-> IF i = 1 THEN Header ELSE i - 1]

\* data.csv starts with its one header and has the rows in order.
LogShape ==
  lost = 0 /\ restarts = 0 =>
    csv = IF timer = 0 THEN << >> ELSE LogOf(timer)

\* The records named by times: what HPKSS publishes is a lagged exchange.
LaggedExchange == INSTANCE Lagged WITH Blank <- NoData, now <- timer, board <- zeszle

ImplementsLagged == LaggedExchange!Spec

\* What the plan of the server asks for: the time moves on only when every
\* host was given its data, computed and sent the result for the current time.
LockStep == [][timer' # timer => \A d \in Devices : zeszle'[d] = timer]_vars

\* Each step of the simulated time is followed by the next, up to the bound:
\* a client that runs ahead never starves the others of their turn, and a lost
\* record is sent again in a second pass, for "sta" stays valid.
Progress == \A k \in 0..(MaxSteps - 1) : timer = k ~> timer = k + 1

------------------------------------------------------------------------------
(* The inductive invariant, clause by clause. *)

\* Records are named by times that were reached; a received one exists as soon
\* as the device has sent.
Stamped ==
  /\ \A d \in Devices :
       /\ {obecne[d], zeszle[d]} \subseteq 0..timer \cup {NoData}
       /\ d \in deviceSentData => obecne[d] # NoData
  /\ deviceSentData # Devices

\* No script was told a step that is still to come.
ClocksBehind ==
  \A d \in Devices :
    /\ told[d] <= timer
    /\ told_old[d] <= timer
    /\ pc[d] \in {"boot", "wait", "time"} => told_old[d] = told[d]
    /\ pc[d] = "boot" => told[d] = 0

\* A client in the loop is behind by one step at most, and by none once it has
\* sent in this round; so is the step of its last loop when it waits.
OneStepBehind ==
  \A d \in Punctual :
    /\ pc[d] \in {"params", "send"} =>
         timer <= told[d] + (IF d \in deviceSentData THEN 0 ELSE 1)
    /\ pc[d] \in {"wait", "time"} /\ told_old[d] # 0 =>
         timer <= told_old[d] + (IF d \in deviceSentData THEN 1 ELSE 2)

\* What holds of the ages of the records, wherever the round and the log stand:
\* this part does not mind a server that starts again without its records.
AgeInv ==
  /\ ClientsTypeOK
  /\ Stamped
  /\ ClocksBehind
  /\ OneStepBehind
  /\ BoundedStaleness
  /\ InputSkew
  /\ StepGap

\* The published records exist as soon as one round is over.
Published == \A d \in Devices : timer > 0 <=> zeszle[d] # NoData

\* Before the first round is over a client that polls has sent its data, so
\* the last to send is unknown until then and nobody is let into the loop.
FirstRound ==
  lost = 0 /\ timer = 0 =>
    /\ \A d \in Devices : pc[d] \in {"boot", "wait"}
    /\ \A d \in Devices : pc[d] = "wait" => d \in deviceSentData
    /\ deviceConnected \subseteq deviceSentData

\* What nobody is given blanks by, until an initial record is lost.
GivenInv ==
  /\ AgeInv
  /\ Published
  /\ FirstRound
  /\ ParamsInitialised

\* Without faults: scripts boot in the first round only, and in a later one
\* either all are connected or someone still waits who has not sent.
Unfailing ==
  lost = 0 /\ restarts = 0 =>
    /\ \A d \in Devices : pc[d] = "boot" =>
         timer = 0 /\ d \notin deviceSentData /\ d \notin deviceConnected
    /\ \A d \in deviceSentData : timer <= obecne[d] + 1
    /\ timer > 0 =>
         \/ deviceConnected = Devices
         \/ \E d \in Devices \ deviceSentData : pc[d] = "wait"

IInv ==
  /\ GivenInv
  /\ Unfailing
  /\ EveryRoundIterates
  /\ LogShape
==============================================================================

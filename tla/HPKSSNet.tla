------------------------------ MODULE HPKSSNet ------------------------------
(***************************************************************************)
(* The scripts and the server with the network between them, fault-free    *)
(* but for time.  A script connects and writes; its connection waits in    *)
(* the backlog of the server (listen in serwer/Server.cpp) until those     *)
(* before it are served; the answer travels back.  After SendData a script *)
(* does not wait: it goes on while its record is still in the backlog, and *)
(* may queue its next command behind it.  A script that gets no answer to  *)
(* KeepAlive in time asks again on another connection, and the old one is  *)
(* served all the same.                                                    *)
(*                                                                         *)
(* HPKSS takes a command and its answer for one step; this module shows    *)
(* that it may.  Settings do not change here.                              *)
(***************************************************************************)
EXTENDS Server, SequencesExt

CONSTANTS
  Backlog,     \* connections the server lets wait
  MaxGiveUps   \* bound: answers that scripts do not wait for

ASSUME HPKSSNetAssumption ==
  /\ Backlog \in Nat \ {0}
  /\ MaxGiveUps \in Nat
  /\ 0..MaxSteps \subseteq Data

VARIABLES
  place,    \* where each script is: "boot", "wait", "time", "params", "send"
  asking,   \* scripts that wait for an answer
  read,     \* [time, old, inputs] of each script: told, told_old, the records
  texts,    \* scripts that have had an answer: their variable text exists
  backlog,  \* the connections that wait, in the order they were made
  answers,  \* per script, the answer under way, or NoAnswer
  giveUps   \* answers not waited for so far

netVars == <<place, asking, read, texts, backlog, answers, giveUps>>
vars == <<serverVars, netVars>>

NoAnswer == [text |-> "none"]
Unread(d) == [s \in Sources[d] |-> NoData]

NetInit ==
  /\ ServerInit
  /\ place = [d \in Devices |-> "boot"]
  /\ asking = {}
  /\ read = [d \in Devices |-> [time |-> 0, old |-> 0, inputs |-> Unread(d)]]
  /\ texts = {}
  /\ backlog = << >>
  /\ answers = [d \in Devices |-> NoAnswer]
  /\ giveUps = 0

------------------------------------------------------------------------------
(* The scripts. *)

\* fopen and fwrite: the connection goes to the end of the backlog.
Write(d, connection) ==
  /\ d \notin asking
  /\ Len(backlog) < Backlog
  /\ backlog' = Append(backlog, connection)

\* KeepAlive, GetTime and GetParams: fread waits for the answer.
Ask(d) ==
  /\ place[d] \in {"wait", "time", "params"}
  /\ Write(d, [dev |-> d, heard |-> TRUE, command |-> place[d]])
  /\ asking' = asking \cup {d}
  /\ UNCHANGED <<serverVars, place, read, texts, answers, giveUps>>

\* SendData: the script goes on.
Tell(d) ==
  /\ place[d] \in {"boot", "send"}
  /\ Write(d, [dev |-> d, heard |-> FALSE, command |-> "data",
              record |-> read[d].time, from |-> place[d], was |-> read[d]])
  /\ place' = [place EXCEPT ![d] = "wait"]
  /\ read' = [read EXCEPT ![d] = [time |-> @.time, old |-> @.time, inputs |-> Unread(d)]]
  /\ UNCHANGED <<serverVars, asking, texts, answers, giveUps>>

\* What a script knows, and where it is, with the answer a.
Reads(d, a) ==
  CASE a.text = "time" -> [read[d] EXCEPT !.time = a.time]
    [] a.text = "params" -> [read[d] EXCEPT !.inputs = a.inputs]
    [] OTHER -> read[d]
Goes(d, a) ==
  CASE a.text = "sta" -> "time"
    [] a.text = "time" -> "params"
    [] a.text = "params" -> "send"
    [] OTHER -> place[d]

\* fread returns.
Hear(d) ==
  /\ answers[d] # NoAnswer
  /\ read' = [read EXCEPT ![d] = Reads(d, answers[d])]
  /\ place' = [place EXCEPT ![d] = Goes(d, answers[d])]
  /\ answers' = [answers EXCEPT ![d] = NoAnswer]
  /\ asking' = asking \ {d}
  /\ texts' = texts \cup {d}
  /\ UNCHANGED <<serverVars, backlog, giveUps>>

\* fread gives up: text keeps what is no "sta", so the script asks again.  In
\* its first loop there is no text, and it fails instead.
GiveUp(d) ==
  /\ place[d] = "wait" /\ d \in asking /\ d \in texts
  /\ giveUps < MaxGiveUps
  /\ giveUps' = giveUps + 1
  /\ asking' = asking \ {d}
  /\ answers' = [answers EXCEPT ![d] = NoAnswer]
  /\ backlog' = [i \in DOMAIN backlog |->
                   [backlog[i] EXCEPT !.heard = @ /\ backlog[i].dev # d]]
  /\ UNCHANGED <<serverVars, place, read, texts>>

------------------------------------------------------------------------------
(* The server: accept, recv, the command, send. *)

Answer(c, a) == answers' = IF c.heard THEN [answers EXCEPT ![c.dev] = a] ELSE answers

ServeKeepAlive(c) ==
  /\ c.command = "wait"
  /\ KeepAlive(c.dev)
  /\ Answer(c, [text |-> IF AnswersSta(c.dev) THEN "sta" ELSE "nop"])

ServeGetTime(c) ==
  /\ c.command = "time"
  /\ running = "up"
  /\ Answer(c, [text |-> "time", time |-> timer])
  /\ UNCHANGED serverVars

ServeGetParams(c) ==
  /\ c.command = "params"
  /\ GetParams(c.dev)
  /\ Answer(c, [text |-> "params", inputs |-> Params(c.dev)])

ServeSendData(c) ==
  /\ c.command = "data"
  /\ SendData(c.dev, c.record)
  /\ UNCHANGED answers

\* Mutant: the newest connection is served first.
AcceptedNewest == Len(backlog)

\* accept takes the oldest connection.
Accepted == 1

Serve ==
  /\ backlog # << >>
  /\ LET c == backlog[Accepted] IN
       ServeKeepAlive(c) \/ ServeGetTime(c) \/ ServeGetParams(c) \/ ServeSendData(c)
  /\ backlog' = RemoveAt(backlog, Accepted)
  /\ UNCHANGED <<place, asking, read, texts, giveUps>>

Script(d) == Ask(d) \/ Tell(d) \/ Hear(d)

\* At the bound of the time a record that would move it stays in the backlog.
AtBound == timer = MaxSteps /\ UNCHANGED vars

NetNext ==
  \/ Serve
  \/ \E d \in Devices : Script(d)
  \/ AtBound

\* Every answer is waited for.
NetSpec == NetInit /\ [][NetNext]_vars

\* Some are not.
LateNext == NetNext \/ \E d \in Devices : GiveUp(d)

LateSpec == NetInit /\ [][LateNext]_vars

------------------------------------------------------------------------------
(* Properties. *)

\* Where a script's record waits in the backlog, if there is one: there are
\* never two, as a script asks and is answered before it sends again.
Waiting(d) == {i \in DOMAIN backlog : backlog[i].dev = d /\ backlog[i].command = "data"}
Unserved(d) == backlog[CHOOSE i \in Waiting(d) : TRUE]

\* In HPKSS a script is where it will be when its answer has come, and where
\* it was while its record has not been served; so is what it knows.
Where(d) == IF Waiting(d) # {} THEN Unserved(d).from ELSE Goes(d, answers[d])
Seen(d) == IF Waiting(d) # {} THEN Unserved(d).was ELSE Reads(d, answers[d])

Commands == INSTANCE HPKSS WITH
  KeepsTime <- {}, MaxRestarts <- 0, MaxLost <- 0, restarts <- 0, lost <- 0,
  pc       <- [d \in Devices |-> Where(d)],
  told     <- [d \in Devices |-> Seen(d).time],
  told_old <- [d \in Devices |-> Seen(d).old],
  inputs   <- [d \in Devices |-> Seen(d).inputs]

\* With every answer waited for, the network is not noticed: whatever waits in
\* the backlog, commands take effect as if each were one step of its script.
ImplementsHPKSS == Commands!Spec

\* A KeepAlive nobody waits for any more still counts, perhaps in a later round
\* than it was sent in; what models are given stays within the same bounds.
AgesBounded == Commands!BoundedStaleness /\ Commands!InputSkew /\ Commands!StepGap

NobodyBlank == Commands!ParamsInitialised

LateAnswersHarmless == AgesBounded /\ NobodyBlank

------------------------------------------------------------------------------
(* The inductive invariant of both specifications. *)

Steps == 0..MaxSteps

\* told, told_old and the records of a script, and those it starts with.
Knowledge == [time : Steps, old : Steps, inputs : UNION {[S -> Record] : S \in SUBSET Devices}]
First(d) == [time |-> 0, old |-> 0, inputs |-> Unread(d)]

Connections ==
  [dev : Devices, heard : BOOLEAN, command : {"wait", "time", "params"}] \cup
  [dev : Devices, heard : {FALSE}, command : {"data"}, record : Steps,
   from : {"boot", "send"}, was : Knowledge]

NetTypeOK ==
  /\ TypeOK
  /\ place \in [Devices -> {"boot", "wait", "time", "params", "send"}]
  /\ asking \in SUBSET Devices
  /\ read \in [Devices -> Knowledge]
  /\ backlog \in Seq(Connections)
  /\ answers \in [Devices ->
       {NoAnswer} \cup [text : {"sta", "nop"}] \cup [text : {"time"}, time : Steps] \cup
       {[text |-> "params", inputs |-> k.inputs] : k \in Knowledge}]

\* A script that waits asks, and the answer under way is to what it asked; one
\* that boots has read nothing.
ScriptsWait ==
  \A d \in Devices :
    /\ d \in asking => place[d] \in {"wait", "time", "params"}
    /\ answers[d] # NoAnswer => d \in asking
    /\ answers[d].text \in {"time", "params"} => place[d] = answers[d].text
    /\ place[d] = "boot" => read[d] = First(d)

\* Who has a connection in the backlog has no answer under way, and is where
\* it was when it asked; who has sent has not read anything since.
Fits(c) ==
  /\ answers[c.dev] = NoAnswer
  /\ c.heard => c.dev \in asking
  /\ c.command # "data" => c.command = place[c.dev]
  /\ c.command = "data" =>
       /\ place[c.dev] = "wait"
       /\ c.record = c.was.time
       /\ read[c.dev] = [time |-> c.was.time, old |-> c.was.time, inputs |-> Unread(c.dev)]
       /\ c.from = "boot" => c.was = First(c.dev)
BacklogFits == \A i \in DOMAIN backlog : Fits(backlog[i])

\* Of a script's connections a record is the first and the one that is waited
\* for the last.
BacklogInOrder ==
  \A i, j \in DOMAIN backlog :
    i < j /\ backlog[i].dev = backlog[j].dev => ~backlog[i].heard /\ backlog[j].command # "data"

NetInv == NetTypeOK /\ BarrierDrained /\ ScriptsWait /\ BacklogFits /\ BacklogInOrder

\* If every answer is waited for, nothing but records is not.
AllHeard == \A i \in DOMAIN backlog : backlog[i].heard \/ backlog[i].command = "data"
==============================================================================

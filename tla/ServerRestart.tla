---------------------------- MODULE ServerRestart ----------------------------
(***************************************************************************)
(* The co-simulation when the server is closed or dies and is started      *)
(* again, with the time it had reached as its start (the arguments of main *)
(* in serwer/Server.cpp are a day and an hour).  Its tables and records    *)
(* are lost; data.csv, opened for appending, and the scripts, each         *)
(* somewhere in its loop, go on.  A script that meets no server, or is cut *)
(* off while it waits for an answer, fails and is run again: Restart.      *)
(***************************************************************************)
EXTENDS HPKSS, FiniteSets

CONSTANT MaxServerRestarts   \* bound

ASSUME ServerRestartAssumption == MaxServerRestarts \in Nat

VARIABLES
  starts,     \* times the server was started again
  startedAt   \* the time of the last start

restartVars == <<vars, starts, startedAt>>

RestartInit == Init /\ starts = 0 /\ startedAt = 0

\* main reads the settings files before the first command.  Of one that is
\* being written it makes garbage, or dies: then it is still to be started.
SettingsAtStart(d) ==
  CASE nastawy[d] = NoFile -> Unset
    [] nastawy[d] = Empty -> Garbage
    [] OTHER -> nastawy[d]

Started(at) ==
  /\ starts < MaxServerRestarts
  /\ starts' = starts + 1 /\ startedAt' = at
  /\ running' = "up"
  /\ pi' = [d \in Tunable |-> SettingsAtStart(d)]
  /\ deviceConnected' = {} /\ deviceSentData' = {}
  /\ iteration' = 0 /\ timer' = at
  /\ obecne' = [d \in Devices |-> NoData] /\ zeszle' = [d \in Devices |-> NoData]
  /\ UNCHANGED <<csv, nastawy, edits, clientVars, faultVars>>

RestartServer == Started(timer)

RestartNext == RestartServer \/ (Next /\ UNCHANGED <<starts, startedAt>>)

RestartSpec == RestartInit /\ [][RestartNext]_restartVars

\* Scripts run; the server need not be started again, but is up in between.
RestartFairSpec == RestartSpec /\ \A d \in Devices : WF_restartVars(Client(d) /\ UNCHANGED <<starts, startedAt>>)

------------------------------------------------------------------------------
(* Properties, with BoundedStaleness, InputSkew, StepGap and Progress of      *)
(* HPKSS, which a server that goes on from its time does not disturb.         *)

\* A model is given empty records only in its first pass after a start of the
\* server: no script notices the restart, and none of them sends its initial
\* data again, but the first round that ends gives everyone a record.  Without
\* a restart, only a lost initial record can have that effect.
BlankBriefly ==
  \A d \in Devices : pc[d] = "send" /\ (\E s \in Sources[d] : inputs[d][s] = NoData) =>
    /\ timer <= startedAt + 1
    /\ lost = 0 => starts > 0

Headers == {i \in DOMAIN csv : csv[i] = Header}

\* data.csv goes on where it was: a row for each time, in order; and unless
\* commands are lost or scripts stop, at most one header for each start of the
\* server, wherever in their loops the scripts are when it is started.
LogContinues ==
  /\ RowPerStep
  /\ lost = 0 /\ restarts = 0 => Cardinality(Headers) <= starts + 1

\* Wherever the scripts are when the server is started again, the first round
\* that ends makes up for what was lost, and data.csv shows no gap.
ResumesCleanly == BlankBriefly /\ LogContinues

------------------------------------------------------------------------------
(* The inductive invariant: the ages of the records survive a start of the    *)
(* server, and the rest of what is known begins anew with it.                 *)

RestartTypeOK == starts \in 0..MaxServerRestarts /\ startedAt \in 0..timer

\* The first round that ends after a start publishes a record of everyone; who
\* was given blanks before it, and holds them still, has not sent since.
RecordsReturn ==
  \A d \in Devices :
    /\ timer > startedAt => zeszle[d] # NoData
    /\ pc[d] = "send" /\ (\E s \in Sources[d] : inputs[d][s] = NoData) =>
         timer = startedAt \/ (timer = startedAt + 1 /\ d \notin deviceSentData)

\* The first round after a start may end with someone unknown to the server, as
\* scripts in the middle of their loop do not poll before they send; then all
\* wait, and the second ends with everyone connected.
CountsAgain ==
  lost = 0 /\ restarts = 0 /\ iteration = 0 =>
    /\ timer <= startedAt + 1
    /\ \A d \in Devices : d \in deviceSentData \/ timer > startedAt =>
         pc[d] = "wait" \/ deviceConnected = Devices

\* A start adds one header, and only with its first round.
HeadersCounted ==
  lost = 0 /\ restarts = 0 =>
    Cardinality(Headers) <= starts + (IF iteration = 0 /\ timer = startedAt THEN 0 ELSE 1)

RInv ==
  /\ AgeInv
  /\ starts = 0 => startedAt = 0 /\ IInv
  /\ RestartTypeOK
  /\ RowPerStep
  /\ RecordsReturn
  /\ CountsAgain
  /\ HeadersCounted
==============================================================================

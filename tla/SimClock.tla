------------------------------- MODULE SimClock -------------------------------
(***************************************************************************)
(* The simulated calendar, and what a script makes of it.  The server      *)
(* keeps a time_t that grows by minsToBeAdded minutes with each round and  *)
(* sends it as text, "day of the month, hour, minute".  The scripts turn   *)
(* the text back into numbers: W and R keep the second of the day, B adds  *)
(* the days of the month, E takes the second of the day as an index into   *)
(* the tables of the day.  This module follows one script; a clock is      *)
(* counted in minutes from the first of January, local time.               *)
(*                                                                         *)
(* Between two passes of a script the clock does not go back and moves by  *)
(* at most two steps: that is StepGap of HPKSS, which counts in steps.     *)
(***************************************************************************)
EXTENDS Integers, TLAPS

CONSTANTS
  Scripts,    \* "E", "W", "B", "R": the scripts to follow
  Minutes,    \* values of mins_to_add, the server's last argument
  StartDays,  \* values of day_of_the_month
  StartHours, \* values of hour_to_start_from
  LastDay     \* bound: the day at which the simulation ends

SimClockAssumption ==
  /\ Scripts \subseteq {"E", "W", "B", "R"}
  /\ Minutes \subseteq Nat \ {0}
  /\ StartDays \subseteq 1..31
  /\ StartHours \subseteq 1..24
  /\ LastDay \in 1..59

VARIABLES
  script,    \* the script that is followed
  mins,      \* minsToBeAdded
  timer,     \* the server's clock
  seen,      \* its value at the script's last pass, or -1 before the first
  time,      \* the script's variables of these names
  day,
  time_old,
  day_old,
  interval,  \* [time_old time] as given to sim, << >> if sim was skipped
  table,     \* E: the day for which the tables were drawn last
  flaga      \* E: the power plant is out of service

serverVars == <<script, mins, timer>>
scriptVars == <<seen, time, day, time_old, day_old, interval, table, flaga>>
vars == <<serverVars, scriptVars>>

DayMinutes == 1440
DaySeconds == 86400
Samples == 720

\* strftime's %d in the first two months of the year, and the second of the
\* day in %H:%M.
DayOfMonth(t) == LET d == t \div DayMinutes IN IF d < 31 THEN d + 1 ELSE d - 30
SecondOfDay(t) == 60 * (t % DayMinutes)

TypeOK ==
  /\ script \in Scripts
  /\ mins \in Minutes
  /\ timer \in Nat
  /\ seen \in -1..timer
  /\ {time, time_old} \subseteq 0..(32 * DaySeconds)
  /\ {day, day_old} \subseteq 0..31
  /\ interval = << >> \/ interval \in (0..(32 * DaySeconds)) \X (0..(32 * DaySeconds))
  /\ table \in 0..31
  /\ flaga \in {0, 1}

\* The hour is that of Polish winter time, an hour ahead of the time_t.
Init ==
  /\ script \in Scripts
  /\ mins \in Minutes
  /\ \E d \in StartDays, h \in StartHours :
       timer = DayMinutes * (d - 1) + 60 * (h - 1) + 60
  /\ seen = -1
  /\ time = 0
  /\ day = 0
  /\ time_old = 0
  /\ day_old = 0
  /\ interval = << >>
  /\ table = 0
  /\ flaga = 0

fastForwardTimeInMinutes ==
  /\ timer + mins < DayMinutes * LastDay
  /\ seen # -1 => timer < seen + 2 * mins
  /\ timer' = timer + mins
  /\ UNCHANGED <<script, mins, scriptVars>>

------------------------------------------------------------------------------
(* One pass of a script: the text is read and parsed, the model advanced, *)
(* the old time replaced.                                                 *)

Seconds ==
  IF script = "B" THEN SecondOfDay(timer) + DaySeconds * DayOfMonth(timer)
                  ELSE SecondOfDay(timer)

Parse ==
  /\ day' = DayOfMonth(timer)
  /\ time' = Seconds
  /\ seen' = timer
  /\ time_old' = time'
  /\ day_old' = day'
  /\ UNCHANGED serverVars

\* Mutant: the model is advanced from the start of the day.
SimulateFromMidnight ==
  interval' = IF time_old # time' THEN <<0, time'>> ELSE << >>

Simulate == interval' = IF time_old # time' THEN <<time_old, time'>> ELSE << >>

\* Passes of W, R and B: the sim_time they compute for a change of day is not
\* used, sim gets [time_old time].
Advance ==
  /\ script # "E"
  /\ Parse
  /\ Simulate
  /\ UNCHANGED <<table, flaga>>

\* Mutant: the tables are drawn again only when the time of day goes back.
DrawTablesLate(d) == table' = IF time' < time_old THEN d ELSE table

\* Tables for a new day are drawn when the day is not that of the last pass.
DrawTables(d) == table' = IF day_old # d THEN d ELSE table

\* The sample taken for the second t of the day.
Sample(t) == LET k == t \div 120 IN IF k = 0 THEN 1 ELSE k

\* The outage begins in the evening of the second and ends with the day.
Outage ==
  flaga' = IF day' = 2 /\ time' >= 61600 THEN 1
           ELSE IF day_old # day' THEN 0 ELSE flaga

LookUp ==
  /\ script = "E"
  /\ Parse
  /\ DrawTables(day')
  /\ Outage
  /\ UNCHANGED interval

Pass == Advance \/ LookUp

Next == fastForwardTimeInMinutes \/ Pass

Spec == Init /\ [][Next]_vars

------------------------------------------------------------------------------
(* Properties. *)

Elapsed == 60 * (timer - seen)
Repass == seen # -1 /\ Pass

\* B's model is advanced by exactly the time that passed, from its second pass
\* on, as long as the month lasts: over midnights and over lags of two steps.
KeepsTime ==
  Repass /\ script = "B" /\ timer < 31 * DayMinutes =>
    interval' = IF timer = seen THEN << >> ELSE <<time_old, time_old + Elapsed>>

MidnightsPassed == timer \div DayMinutes - seen \div DayMinutes

\* W and R get the second of the day right, and no more: their interval is the
\* time that passed, less the days whose midnight it went over, so that it runs
\* backwards at each midnight, and only then; it is skipped only if no time has
\* passed.  Steps of half a day or more would let a day slip by unseen.
KeepsTimeOfDay ==
  Repass /\ script \in {"W", "R"} /\ 2 * mins < DayMinutes =>
    IF timer = seen THEN interval' = << >>
    ELSE /\ interval' = <<time_old, time_old + Elapsed - DaySeconds * MidnightsPassed>>
         /\ interval'[2] < interval'[1] <=> MidnightsPassed = 1

\* What the scripts set out to do at midnight, "transition between days": the
\* interval given to sim runs forwards.
IntervalForward == interval # << >> => interval[1] < interval[2]

\* E never leaves its tables, and the tables it reads are always those drawn
\* for the day of the text it was sent, whatever it slept through.
TablesOfToday ==
  script = "E" /\ seen # -1 => Sample(time) \in 1..Samples /\ table = day

\* The tables are "720 samples, one every two minutes": two passes two minutes
\* or more apart take different samples.
SampleEveryTwoMinutes ==
  [][Repass /\ script = "E" /\ day' = day_old /\ Elapsed >= 120 =>
       Sample(time') # Sample(time_old)]_vars

\* An outage, once E has noticed it, lasts until E sees another day: it is
\* never missed in the middle, and never carried into the third day.  Steps of
\* half a month could take E from the second of one month to that of the next.
OutageLastsTheDay ==
  script = "E" /\ seen # -1 /\ 2 * mins < 30 * DayMinutes =>
    (flaga = 1) = (day = 2 /\ time >= 61600)

\* All of this, of a script that is followed for as long as one likes.
ScriptsKeepTime ==
  /\ [](TypeOK /\ TablesOfToday /\ OutageLastsTheDay)
  /\ [][KeepsTime /\ KeepsTimeOfDay]_vars

------------------------------------------------------------------------------
(* Proof that they hold for any steps, first days and hours, and length of *)
(* the simulation.                                                         *)

\* What the script's variables are after a pass at the time t.
SecondsAt(t) ==
  IF script = "B" THEN SecondOfDay(t) + DaySeconds * DayOfMonth(t) ELSE SecondOfDay(t)

\* The script has parsed the text of its last pass, which lies two steps back
\* at most.
IInv ==
  /\ SimClockAssumption
  /\ script \in Scripts
  /\ mins \in Minutes
  /\ timer \in Nat /\ timer < 59 * DayMinutes
  /\ flaga \in {0, 1}
  /\ IF seen = -1
     THEN /\ time = 0 /\ day = 0 /\ time_old = 0 /\ day_old = 0
          /\ interval = << >> /\ table = 0
     ELSE /\ seen \in 0..timer
          /\ timer \in {seen, seen + mins, seen + 2 * mins}
          /\ time = SecondsAt(seen) /\ time_old = time
          /\ day = DayOfMonth(seen) /\ day_old = day
          /\ interval = << >> \/ interval \in (0..(32 * DaySeconds)) \X (0..(32 * DaySeconds))
          /\ table = (IF script = "E" THEN day ELSE 0)
          /\ OutageLastsTheDay

\* The calendar: days and seconds of a time are in their bounds, and up to
\* whole days the second of the day is the time.
LEMMA Calendar ==
  ASSUME NEW t \in Nat, t < 59 * DayMinutes
  PROVE  /\ t \div DayMinutes \in 0..58
         /\ DayOfMonth(t) \in 1..31
         /\ SecondOfDay(t) \in Nat /\ SecondOfDay(t) < DaySeconds
         /\ SecondOfDay(t) = 60 * t - DaySeconds * (t \div DayMinutes)
         /\ DayOfMonth(t) = (IF t \div DayMinutes < 31 THEN t \div DayMinutes + 1
                                                       ELSE t \div DayMinutes - 30)
<1>1. t \div 1440 \in Nat /\ t % 1440 \in 0..1439
  OBVIOUS
<1>2. t = 1440 * (t \div 1440) + (t % 1440)
  OBVIOUS
<1>3. t \div 1440 < 59
  BY DEF DayMinutes
<1>4. DayMinutes = 1440 /\ DaySeconds = 86400
  BY DEF DayMinutes, DaySeconds
<1>5. DayOfMonth(t) = (IF t \div 1440 < 31 THEN t \div 1440 + 1 ELSE t \div 1440 - 30)
  BY <1>4 DEF DayOfMonth
<1>6. SecondOfDay(t) = 60 * (t % 1440)
  BY <1>4 DEF SecondOfDay
<1> QED
  BY <1>1, <1>2, <1>3, <1>4, <1>5, <1>6

\* What a script makes of a time is in its bounds; B counts on through the
\* first month.
LEMMA SecondsType ==
  ASSUME NEW t \in Nat, t < 59 * DayMinutes
  PROVE  /\ SecondsAt(t) \in 0..(32 * DaySeconds)
         /\ script = "B" /\ t < 31 * DayMinutes => SecondsAt(t) = 60 * t + DaySeconds
         /\ script # "B" => SecondsAt(t) = SecondOfDay(t)
<1> DEFINE d == DayOfMonth(t)
           s == SecondOfDay(t)
           q == t \div DayMinutes
<1>0. DayMinutes = 1440 /\ DaySeconds = 86400
  BY DEF DayMinutes, DaySeconds
<1>1. /\ d \in 1..31 /\ s \in Nat /\ s < DaySeconds /\ q \in 0..58
      /\ s = 60 * t - DaySeconds * q /\ d = (IF q < 31 THEN q + 1 ELSE q - 30)
  BY Calendar
<1>2. t < 31 * DayMinutes => q < 31
  BY <1>0
<1>3. SecondsAt(t) = IF script = "B" THEN s + DaySeconds * d ELSE s
  BY DEF SecondsAt
<1> HIDE DEF d, s, q
<1>4. t < 31 * DayMinutes => s + DaySeconds * d = 60 * t + DaySeconds
  BY <1>0, <1>1, <1>2, SMT
<1>5. /\ s <= 32 * DaySeconds
      /\ s + DaySeconds * d \in Nat /\ s + DaySeconds * d <= 32 * DaySeconds
  BY <1>0, <1>1, SMT
<1>6. SecondsAt(t) \in Nat /\ SecondsAt(t) <= 32 * DaySeconds
  BY <1>1, <1>3, <1>5
<1>7. SecondsAt(t) \in 0..(32 * DaySeconds)
  <2>1. DaySeconds \in Nat
    BY <1>0
  <2> QED
    BY <1>6, <2>1
<1> QED
  BY <1>3, <1>4, <1>7 DEF s

LEMMA InitIInv == SimClockAssumption /\ Init => IInv
<1> SUFFICES ASSUME SimClockAssumption, Init PROVE IInv
  OBVIOUS
<1>1. PICK d \in StartDays, h \in StartHours :
        timer = DayMinutes * (d - 1) + 60 * (h - 1) + 60
  BY DEF Init
<1>2. d \in 1..31 /\ h \in 1..24
  BY DEF SimClockAssumption
<1>3. DayMinutes = 1440
  BY DEF DayMinutes
<1>4. timer \in Nat /\ timer < 59 * DayMinutes
  BY <1>1, <1>2, <1>3, SMT
<1> QED
  BY <1>4 DEF Init, IInv

\* The clock moves: the scripts' variables stand.
LEMMA ClockStep == IInv /\ fastForwardTimeInMinutes => IInv'
<1> SUFFICES ASSUME IInv, fastForwardTimeInMinutes PROVE IInv'
  OBVIOUS
<1> USE DEF fastForwardTimeInMinutes
<1>0. DayMinutes = 1440
  BY DEF DayMinutes
<1>1. mins \in Nat /\ mins > 0 /\ LastDay \in 1..59
  BY DEF IInv, SimClockAssumption
<1>2. timer' \in Nat /\ timer' < 59 * DayMinutes
  <2>1. DayMinutes * LastDay <= 59 * DayMinutes
    BY <1>0, <1>1
  <2> QED
    BY <1>0, <1>1, <2>1 DEF IInv
<1>3. UNCHANGED <<script, mins, seen, time, day, time_old, day_old, interval, table, flaga>>
  BY DEF scriptVars
<1>4. CASE seen = -1
  BY <1>2, <1>3, <1>4 DEF IInv
<1>5. CASE seen # -1
  <2>1. seen \in 0..timer /\ timer \in {seen, seen + mins, seen + 2 * mins}
    BY <1>5 DEF IInv
  <2>2. seen' \in 0..timer' /\ timer' \in {seen', seen' + mins', seen' + 2 * mins'}
    BY <1>1, <1>3, <1>5, <2>1 DEF IInv
  <2>3. /\ time' = SecondsAt(seen)' /\ time_old' = time'
        /\ day' = DayOfMonth(seen)' /\ day_old' = day'
        /\ OutageLastsTheDay'
    BY <1>3, <1>5 DEF IInv, SecondsAt, DayOfMonth, SecondOfDay, OutageLastsTheDay
  <2> QED
    BY <1>2, <1>3, <1>5, <2>2, <2>3 DEF IInv
<1> QED
  BY <1>4, <1>5

\* What every pass makes of the text.
LEMMA Parsed ==
  ASSUME IInv, Parse
  PROVE  /\ seen' = timer /\ timer' = timer /\ script' = script /\ mins' = mins
         /\ time' = SecondsAt(timer) /\ time_old' = time'
         /\ day' = DayOfMonth(timer) /\ day_old' = day'
         /\ time' = SecondsAt(seen)' /\ day' = DayOfMonth(seen)'
<1>1. seen' = timer /\ timer' = timer /\ script' = script /\ mins' = mins
  BY DEF Parse, serverVars
<1>2. time' = SecondsAt(timer) /\ time_old' = time' /\ day' = DayOfMonth(timer) /\ day_old' = day'
  BY DEF Parse, Seconds, SecondsAt
<1>3. SecondsAt(seen)' = SecondsAt(timer) /\ DayOfMonth(seen)' = DayOfMonth(timer)
  BY <1>1 DEF SecondsAt, SecondOfDay, DayOfMonth
<1> QED
  BY <1>1, <1>2, <1>3

\* The script keeps its invariant where the outage does.
LEMMA PassStep ==
  ASSUME IInv, Parse, flaga' \in {0, 1}, OutageLastsTheDay',
         interval' = << >> \/ interval' \in (0..(32 * DaySeconds)) \X (0..(32 * DaySeconds)),
         table' = (IF script = "E" THEN day' ELSE 0)
  PROVE  IInv'
<1>1. timer \in Nat /\ timer < 59 * DayMinutes
  BY DEF IInv
<1>2. seen' # -1 /\ seen' \in 0..timer'
  BY <1>1, Parsed
<1>3. timer' \in {seen', seen' + mins', seen' + 2 * mins'}
  BY Parsed
<1> QED
  BY <1>1, <1>2, <1>3, Parsed DEF IInv

LEMMA TimeOldType == IInv => time_old \in 0..(32 * DaySeconds)
<1> SUFFICES ASSUME IInv PROVE time_old \in 0..(32 * DaySeconds)
  OBVIOUS
<1>1. CASE seen = -1
  <2>1. DaySeconds \in Nat
    BY DEF DaySeconds
  <2> QED
    BY <1>1, <2>1 DEF IInv
<1>2. CASE seen # -1
  <2>1. seen \in Nat /\ seen < 59 * DayMinutes
    <3>1. DayMinutes \in Nat
      BY DEF DayMinutes
    <3> QED
      BY <1>2, <3>1 DEF IInv
  <2> QED
    BY <1>2, <2>1, SecondsType DEF IInv
<1> QED
  BY <1>1, <1>2

LEMMA AdvanceStep == IInv /\ Advance => IInv'
<1> SUFFICES ASSUME IInv, Advance PROVE IInv'
  OBVIOUS
<1>1. /\ Parse /\ script # "E" /\ UNCHANGED <<table, flaga>>
      /\ interval' = IF time_old # time' THEN <<time_old, time'>> ELSE << >>
  BY DEF Advance, Simulate
<1>2. time' \in 0..(32 * DaySeconds)
  BY <1>1, Parsed, SecondsType DEF IInv
<1>3. interval' = << >> \/ interval' \in (0..(32 * DaySeconds)) \X (0..(32 * DaySeconds))
  BY <1>1, <1>2, TimeOldType
<1>4. table' = (IF script = "E" THEN day' ELSE 0) /\ flaga' \in {0, 1}
  BY <1>1 DEF IInv
<1>5. OutageLastsTheDay'
  BY <1>1, Parsed DEF OutageLastsTheDay
<1> QED
  BY <1>1, <1>3, <1>4, <1>5, PassStep

\* A day of the month that E sees twice within less than a month is one day:
\* the second of it does not go back.
LEMMA SameDay ==
  ASSUME NEW t \in Nat, NEW u \in Nat, u < 59 * DayMinutes,
         t <= u, u - t < 30 * DayMinutes, DayOfMonth(t) = DayOfMonth(u)
  PROVE  SecondOfDay(t) <= SecondOfDay(u)
<1> DEFINE q == t \div DayMinutes
           r == u \div DayMinutes
           a == SecondOfDay(t)
           b == SecondOfDay(u)
<1>0. DayMinutes = 1440 /\ DaySeconds = 86400
  BY DEF DayMinutes, DaySeconds
<1>1. /\ q \in 0..58 /\ a \in Nat /\ a < DaySeconds /\ a = 60 * t - DaySeconds * q
      /\ DayOfMonth(t) = (IF q < 31 THEN q + 1 ELSE q - 30)
  <2>1. t < 59 * DayMinutes
    BY <1>0
  <2> QED
    BY <2>1, Calendar
<1>2. /\ r \in 0..58 /\ b \in Nat /\ b < DaySeconds /\ b = 60 * u - DaySeconds * r
      /\ DayOfMonth(u) = (IF r < 31 THEN r + 1 ELSE r - 30)
  BY Calendar
<1> HIDE DEF q, r, a, b
<1>3. q = r \/ r = q + 31 \/ q = r + 31
  <2>1. (IF q < 31 THEN q + 1 ELSE q - 30) = (IF r < 31 THEN r + 1 ELSE r - 30)
    BY <1>1, <1>2
  <2>2. q \in Int /\ r \in Int
    BY <1>1, <1>2
  <2> QED
    BY <2>1, <2>2
<1>4. r # q + 31 /\ q # r + 31
  BY <1>0, <1>1, <1>2, SMT
<1>5. a <= b
  BY <1>0, <1>1, <1>2, <1>3, <1>4, SMT
<1> QED
  BY <1>5 DEF a, b

LEMMA OutageStep ==
  ASSUME IInv, LookUp
  PROVE  OutageLastsTheDay' /\ flaga' \in {0, 1}
<1>1. /\ script = "E" /\ Parse
      /\ flaga' = IF day' = 2 /\ time' >= 61600 THEN 1
                  ELSE IF day_old # day' THEN 0 ELSE flaga
  BY DEF LookUp, Outage
<1>2. flaga' \in {0, 1}
  BY <1>1 DEF IInv
<1>3. /\ day' = DayOfMonth(timer) /\ day' \in 1..31 /\ time' = SecondOfDay(timer)
      /\ time' \in Nat /\ mins' = mins /\ timer \in Nat /\ timer < 59 * DayMinutes
  BY <1>1, Parsed, SecondsType, Calendar DEF IInv
<1>4. CASE ~(2 * mins < 30 * DayMinutes)
  BY <1>2, <1>3, <1>4 DEF OutageLastsTheDay
<1>5. CASE seen = -1
  <2>1. day_old = 0
    BY <1>5 DEF IInv
  <2> QED
    BY <1>1, <1>2, <1>3, <2>1 DEF OutageLastsTheDay
<1>6. CASE seen # -1 /\ 2 * mins < 30 * DayMinutes
  <2>1. /\ seen \in Nat /\ seen <= timer /\ timer - seen < 30 * DayMinutes
        /\ day_old = DayOfMonth(seen) /\ day = day_old /\ time = SecondsAt(seen)
        /\ (flaga = 1) = (day = 2 /\ time >= 61600)
    <3>1. mins \in Nat /\ DayMinutes = 1440
      BY DEF IInv, SimClockAssumption, DayMinutes
    <3>2. seen \in 0..timer /\ timer \in {seen, seen + mins, seen + 2 * mins}
      BY <1>6 DEF IInv
    <3>3. /\ day_old = DayOfMonth(seen) /\ day = day_old /\ time = SecondsAt(seen)
          /\ (flaga = 1) = (day = 2 /\ time >= 61600)
      BY <1>1, <1>6 DEF IInv, OutageLastsTheDay
    <3> QED
      BY <1>3, <1>6, <3>1, <3>2, <3>3
  <2>2. time = SecondOfDay(seen) /\ time \in Nat
    <3>1. seen < 59 * DayMinutes
      BY <1>3, <2>1 DEF DayMinutes
    <3> QED
      BY <1>1, <2>1, <3>1, SecondsType, Calendar
  <2>3. day_old = day' => time <= time'
    <3> SUFFICES ASSUME day_old = day' PROVE SecondOfDay(seen) <= SecondOfDay(timer)
      BY <1>3, <2>2
    <3>1. DayOfMonth(seen) = DayOfMonth(timer)
      BY <1>3, <2>1
    <3> QED
      BY <1>3, <2>1, <3>1, SameDay
  <2>4. (flaga' = 1) = (day' = 2 /\ time' >= 61600)
    <3>1. CASE day' = 2 /\ time' >= 61600
      BY <1>1, <3>1
    <3>2. CASE ~(day' = 2 /\ time' >= 61600) /\ day_old # day'
      BY <1>1, <3>2
    <3>3. CASE ~(day' = 2 /\ time' >= 61600) /\ day_old = day'
      <4>1. ~(day = 2 /\ time >= 61600)
        BY <1>3, <2>1, <2>2, <2>3, <3>3
      <4> QED
        BY <1>1, <2>1, <3>3, <4>1
    <3> QED
      BY <3>1, <3>2, <3>3
  <2> QED
    BY <1>2, <2>4 DEF OutageLastsTheDay
<1> QED
  BY <1>4, <1>5, <1>6

LEMMA LookUpStep == IInv /\ LookUp => IInv'
<1> SUFFICES ASSUME IInv, LookUp PROVE IInv'
  OBVIOUS
<1>1. /\ script = "E" /\ Parse /\ UNCHANGED interval
      /\ table' = IF day_old # day' THEN day' ELSE table
  BY DEF LookUp, DrawTables
<1>2. day' \in 1..31
  BY <1>1, Parsed, Calendar DEF IInv
<1>3. table' = (IF script = "E" THEN day' ELSE 0)
  BY <1>1, <1>2 DEF IInv
<1>4. interval' = << >> \/ interval' \in (0..(32 * DaySeconds)) \X (0..(32 * DaySeconds))
  BY <1>1 DEF IInv
<1> QED
  BY <1>1, <1>3, <1>4, OutageStep, PassStep

LEMMA NextIInv == IInv /\ [Next]_vars => IInv'
<1> SUFFICES ASSUME IInv, [Next]_vars PROVE IInv'
  OBVIOUS
<1>1. CASE UNCHANGED vars
  BY <1>1 DEF vars, serverVars, scriptVars, IInv, OutageLastsTheDay, SecondsAt, SecondOfDay, DayOfMonth
<1> QED
  BY <1>1, ClockStep, AdvanceStep, LookUpStep DEF Next, Pass

\* Between two passes no more than two steps go by.
LEMMA Lag ==
  ASSUME IInv, seen # -1
  PROVE  /\ seen \in Nat /\ seen <= timer /\ timer - seen <= 2 * mins
         /\ mins \in Nat /\ timer \in Nat /\ timer < 59 * DayMinutes
         /\ seen < 59 * DayMinutes
         /\ time_old = SecondsAt(seen)
<1>1. mins \in Nat /\ timer \in Nat /\ timer < 59 * DayMinutes /\ DayMinutes = 1440
  BY DEF IInv, SimClockAssumption, DayMinutes
<1>2. seen \in 0..timer /\ timer \in {seen, seen + mins, seen + 2 * mins}
  BY DEF IInv
<1>3. time_old = SecondsAt(seen)
  BY DEF IInv
<1> QED
  BY <1>1, <1>2, <1>3

LEMMA IInvTypeOK == IInv => TypeOK
<1> SUFFICES ASSUME IInv PROVE TypeOK
  OBVIOUS
<1>1. seen \in -1..timer
  BY DEF IInv
<1>2. time \in 0..(32 * DaySeconds) /\ day \in 0..31 /\ time_old = time /\ day_old = day
  <2>1. time_old = time /\ day_old = day
    BY DEF IInv
  <2>2. CASE seen = -1
    BY <2>1, <2>2, TimeOldType DEF IInv
  <2>3. CASE seen # -1
    <3>1. DayOfMonth(seen) \in 1..31
      BY <2>3, Lag, Calendar
    <3>2. day = DayOfMonth(seen)
      BY <2>3 DEF IInv
    <3> QED
      BY <2>1, <3>1, <3>2, TimeOldType
  <2> QED
    BY <2>1, <2>2, <2>3
<1>3. table \in 0..31
  <2>1. table \in {0, day}
    BY DEF IInv
  <2> QED
    BY <1>2, <2>1
<1>4. interval = << >> \/ interval \in (0..(32 * DaySeconds)) \X (0..(32 * DaySeconds))
  BY DEF IInv
<1> QED
  BY <1>1, <1>2, <1>3, <1>4 DEF IInv, TypeOK

\* Every second of a day has its sample.
LEMMA IInvTables == IInv => TablesOfToday
<1> SUFFICES ASSUME IInv, script = "E", seen # -1
             PROVE  Sample(time) \in 1..Samples /\ table = day
  BY DEF TablesOfToday
<1>1. time \in Nat /\ time < 86400
  <2>1. SecondOfDay(seen) \in Nat /\ SecondOfDay(seen) < DaySeconds
    BY Lag, Calendar
  <2>2. time = SecondOfDay(seen)
    BY Lag, SecondsType DEF IInv
  <2>3. DaySeconds = 86400
    BY DEF DaySeconds
  <2> QED
    BY <2>1, <2>2, <2>3
<1>2. time \div 120 \in Nat /\ time \div 120 < 720
  BY <1>1, SMT
<1>3. Sample(time) \in 1..Samples
  BY <1>2 DEF Sample, Samples
<1> QED
  BY <1>3 DEF IInv

LEMMA IInvOutage == IInv => OutageLastsTheDay
BY DEF IInv, OutageLastsTheDay

\* A pass of W, R or B, on the times it lies between.
LEMMA Simulated ==
  ASSUME IInv, Repass, script # "E"
  PROVE  /\ time_old = SecondsAt(seen) /\ time' = SecondsAt(timer)
         /\ interval' = IF time_old # time' THEN <<time_old, time'>> ELSE << >>
BY Lag, Parsed DEF Repass, Pass, Advance, LookUp, Simulate

LEMMA BuildingKeepsTime == IInv => KeepsTime
<1> SUFFICES ASSUME IInv, Repass, script = "B", timer < 31 * DayMinutes
             PROVE  interval' = IF timer = seen THEN << >>
                                ELSE <<time_old, time_old + Elapsed>>
  BY DEF KeepsTime
<1>0. DayMinutes = 1440 /\ DaySeconds = 86400
  BY DEF DayMinutes, DaySeconds
<1>1. seen # -1
  BY DEF Repass
<1>2. /\ seen \in Nat /\ timer \in Nat /\ seen <= timer
      /\ timer < 59 * DayMinutes /\ seen < 59 * DayMinutes /\ seen < 31 * DayMinutes
  BY <1>0, <1>1, Lag
<1>3. time_old = 60 * seen + DaySeconds /\ time' = 60 * timer + DaySeconds
  BY <1>2, Simulated, SecondsType
<1>4. time' = time_old + Elapsed
  BY <1>0, <1>2, <1>3 DEF Elapsed
<1>5. (time_old = time') <=> (timer = seen)
  BY <1>0, <1>2, <1>3
<1> QED
  BY <1>4, <1>5, Simulated

\* The second of the day goes on with the time and back by a day at midnight:
\* less than a day later it is another one, and less only after a midnight.
LEMMA AcrossMidnight ==
  ASSUME NEW t \in Nat, NEW u \in Nat, u < 59 * DayMinutes, t < u, u - t < DayMinutes
  PROVE  LET days == u \div DayMinutes - t \div DayMinutes
         IN  /\ SecondOfDay(t) # SecondOfDay(u)
             /\ SecondOfDay(u) = SecondOfDay(t) + 60 * (u - t) - DaySeconds * days
             /\ SecondOfDay(u) < SecondOfDay(t) <=> days = 1
<1> DEFINE q == t \div DayMinutes
           r == u \div DayMinutes
           a == SecondOfDay(t)
           b == SecondOfDay(u)
           e == u - t
<1>0. DayMinutes = 1440 /\ DaySeconds = 86400
  BY DEF DayMinutes, DaySeconds
<1>1. q \in 0..58 /\ a \in Nat /\ a < DaySeconds /\ a = 60 * t - DaySeconds * q
  <2>1. t < 59 * DayMinutes
    BY <1>0
  <2> QED
    BY <2>1, Calendar
<1>2. r \in 0..58 /\ b \in Nat /\ b < DaySeconds /\ b = 60 * u - DaySeconds * r
  BY Calendar
<1>3. e \in Nat /\ e > 0 /\ e < 1440 /\ u = t + e
  BY <1>0
<1> HIDE DEF q, r, a, b, e
<1>4. b = a + 60 * e - 86400 * (r - q)
  BY <1>0, <1>1, <1>2, <1>3, SMT
<1>5. r - q = 0 \/ r - q = 1
  <2>1. r - q \in Int
    BY <1>1, <1>2
  <2> QED
    BY <1>0, <1>1, <1>2, <1>3, <1>4, <2>1, SMT
<1>6. a # b /\ (b < a <=> r - q = 1)
  BY <1>0, <1>1, <1>2, <1>3, <1>4, <1>5, SMT
<1> QED
  BY <1>0, <1>4, <1>6 DEF a, b, q, r, e

LEMMA ThermalsKeepTimeOfDay == IInv => KeepsTimeOfDay
<1> SUFFICES ASSUME IInv, Repass, script \in {"W", "R"}, 2 * mins < DayMinutes
             PROVE  IF timer = seen THEN interval' = << >>
                    ELSE /\ interval' = <<time_old, time_old + Elapsed - DaySeconds * MidnightsPassed>>
                         /\ interval'[2] < interval'[1] <=> MidnightsPassed = 1
  BY DEF KeepsTimeOfDay
<1>0. DayMinutes = 1440
  BY DEF DayMinutes
<1>1. seen # -1 /\ script # "E" /\ script # "B"
  BY DEF Repass
<1>2. /\ seen \in Nat /\ timer \in Nat /\ seen <= timer /\ mins \in Nat
      /\ timer < 59 * DayMinutes /\ seen < 59 * DayMinutes /\ timer - seen <= 2 * mins
  BY <1>1, Lag
<1>3. time_old = SecondOfDay(seen) /\ time' = SecondOfDay(timer)
  BY <1>1, <1>2, Simulated, SecondsType
<1>4. CASE timer = seen
  BY <1>1, <1>3, <1>4, Simulated
<1>5. CASE timer # seen
  <2>1. seen < timer /\ timer - seen < DayMinutes
    BY <1>0, <1>2, <1>5
  <2>2. /\ time_old # time' /\ time' = time_old + Elapsed - DaySeconds * MidnightsPassed
        /\ time' < time_old <=> MidnightsPassed = 1
    BY <1>2, <1>3, <2>1, AcrossMidnight DEF Elapsed, MidnightsPassed
  <2>3. interval' = <<time_old, time'>>
    BY <1>1, <2>2, Simulated
  <2> QED
    BY <1>5, <2>2, <2>3
<1> QED
  BY <1>4, <1>5

\* The theorem, for any scripts, steps, first days and hours: a script's
\* variables keep their types, E works with the tables and the outage of the
\* day it was sent, the model of B is advanced by the time that passed, and
\* those of W and R by that less a day for each midnight.
THEOREM ScriptsDoKeepTime == ASSUME SimClockAssumption PROVE Spec => ScriptsKeepTime
<1>1. Init => IInv
  BY InitIInv
<1>2. IInv /\ [Next]_vars => IInv'
  BY NextIInv
<1>3. IInv => TypeOK /\ TablesOfToday /\ OutageLastsTheDay
  BY IInvTypeOK, IInvTables, IInvOutage
<1>4. IInv /\ [Next]_vars => [KeepsTime /\ KeepsTimeOfDay]_vars
  BY BuildingKeepsTime, ThermalsKeepTimeOfDay
<1> QED
  BY <1>1, <1>2, <1>3, <1>4, PTL DEF Spec, ScriptsKeepTime
==============================================================================

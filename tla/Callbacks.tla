------------------------------ MODULE Callbacks ------------------------------
(***************************************************************************)
(* A callback list in use: the page, and each function while it runs,      *)
(* calls any method of the list; functions return false, anything else, or *)
(* throw.  pc is where the loop of fire stands: "idle" (not on the stack), *)
(* "loop", or "call" (a function is running).                              *)
(***************************************************************************)
EXTENDS CallbackLists

CONSTANTS
  OptionSets,     \* the options lists are made with
  Unruly,         \* what functions may do: subset of {"throw", "empty"}
  MaxList,        \* bound: length of the list
  MaxStack        \* bound: data that wait

OptionsAssumption == OptionSets \subseteq SUBSET Flags

VARIABLES
  L, pc,
  due,     \* history: the calls the running batch still owes, in order
  last     \* history: the data each function was last called with

vars == <<L, pc, due, last>>

Init ==
  /\ \E options \in OptionSets : L = NewList(options)
  /\ pc = "idle"
  /\ due = << >>
  /\ last = [f \in Fns |-> NoData]

\* A method was called, from outside or by a function of the list.
\* from: where a batch starts, if it does.
Called(M, from, running) ==
  /\ L' = M
  /\ pc' = IF M.firing /\ ~L.firing THEN "loop" ELSE pc
  /\ due' = IF M.firing /\ ~L.firing THEN SubSeq(M.list, from + 1, Len(M.list)) ELSE running
  /\ UNCHANGED last

Busy == pc = "call"
Free == pc \in {"idle", "call"}

AddFn(f) ==
  /\ Free
  /\ Len(L.list) < MaxList
  /\ LET M == add(L, f) IN
     Called(M, Len(L.list), IF Busy /\ Len(M.list) > Len(L.list) THEN Append(due, f) ELSE due)

RemoveFn(f) ==
  /\ Free
  /\ Called(remove(L, f), 0, Without(due, f))

Fire(d) ==
  /\ Free
  /\ Len(L.stack) < MaxStack
  /\ Called(fireWith(L, d), 0, due)

Empty ==
  /\ pc = "idle" \/ (Busy /\ "empty" \in Unruly)
  /\ Called(empty(L), 0, << >>)

Disable == Free /\ Called(disable(L), 0, << >>)

Lock == Free /\ Called(lock(L), 0, IF lock(L).alive THEN due ELSE << >>)

\* The loop calls the next function, or stops.  Calling what is not there
\* throws, as a function may: the loop is left, and firing stays set.
Iterate ==
  /\ pc = "loop"
  /\ IF More(L)
     THEN IF Missing(L)
          THEN pc' = "idle" /\ due' = << >> /\ UNCHANGED <<L, last>>
          ELSE /\ pc' = "call"
               /\ last' = [last EXCEPT ![Current(L)] = L.data]
               /\ due' = Tail(due)
               /\ UNCHANGED L
     ELSE /\ L' = finish(L)
          /\ pc' = IF L'.firing THEN "loop" ELSE "idle"
          /\ due' = IF L'.firing THEN L'.list ELSE due
          /\ UNCHANGED last

Return(false) ==
  /\ Busy
  /\ L' = returned(L, false)
  /\ LET stopped == false /\ "stopOnFalse" \in L.options IN
     /\ pc' = IF stopped /\ ~L'.firing THEN "idle" ELSE "loop"
     /\ due' = IF stopped THEN IF L'.firing THEN L'.list ELSE << >> ELSE due
  /\ UNCHANGED last

Throw ==
  /\ Busy /\ "throw" \in Unruly
  /\ pc' = "idle"
  /\ due' = << >>
  /\ UNCHANGED <<L, last>>

Next ==
  \/ \E f \in Fns : AddFn(f) \/ RemoveFn(f)
  \/ \E d \in Data : Fire(d)
  \/ Empty \/ Disable \/ Lock \/ Iterate \/ Throw
  \/ \E false \in BOOLEAN : Return(false)

Spec == Init /\ [][Next]_vars

------------------------------------------------------------------------------
(* Properties. *)

TypeOK ==
  /\ ListOK(L)
  /\ pc \in {"idle", "loop", "call"}
  /\ due \in Seq(Fns)
  /\ last \in [Fns -> Data \cup {NoData}]

\* Whatever the functions add, remove and fire, a batch calls each function
\* that is in the list, in order, no one twice and none that was removed.
BatchExact ==
  pc # "idle" /\ L.alive =>
    /\ L.firingLength = Len(L.list)
    /\ due = SubSeq(L.list, L.firingIndex + (IF Busy THEN 2 ELSE 1), Len(L.list))

\* "can only be fired once": no function of such a list sees a second value.
OnceOnly ==
  "once" \in L.options =>
    \A f, g \in Fns : last[f] = NoData \/ last[g] = NoData \/ last[f] = last[g]

\* "will call any callback added after the list has been fired right away
\* with the latest memorized values": between two batches, each function of
\* the list has seen the latest.
MemorySeen ==
  pc = "idle" /\ L.memory # NoData => \A f \in Fns : has(L, f) => last[f] = L.memory

\* No data wait when nothing is firing.
NothingWaits == pc = "idle" => L.stack = << >>

\* "By default a callback list will act like an event callback list and can
\* be fired multiple times": fired from outside, it starts.
FiresAgain ==
  [][\A d \in Data :
       pc = "idle" /\ L.alive /\ "once" \notin L.options /\ L.queueing /\ Fire(d)
         => pc' = "loop"]_vars
==============================================================================

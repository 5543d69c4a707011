------------------------------ MODULE ThreadServer ------------------------------
(***************************************************************************)
(* The threaded prototype of the server (serwer_dawid/TCP_SERVER): a       *)
(* thread per connection, each given the address of the accept loop's      *)
(* variable newsock, all composing their greeting in one static buffer.    *)
(* Sockets are numbered as they are accepted; thread k is the one started  *)
(* for socket k.                                                           *)
(***************************************************************************)
EXTENDS Integers, Sequences, FiniteSetTheorems, TLAPS

CONSTANT MaxSockets  \* bound: connections that are accepted

ThreadServerAssumption == MaxSockets \in Nat \ {0}

Sockets == 1..MaxSockets
INVALID_SOCKET == 0
Torn == -1           \* the buffer while sprintf writes it

VARIABLES
  accepted,     \* connections so far
  newsock,      \* the loop's variable, on main's stack
  pc,           \* where each thread is in handle
  sock,         \* each thread's copy
  jsonMessage,  \* the socket number in the static buffer
  greeted,      \* per socket, the numbers in the texts sent to it
  closed,       \* sockets that were closed again at once
  alive         \* the process

vars == <<accepted, newsock, pc, sock, jsonMessage, greeted, closed, alive>>

TypeOK ==
  /\ accepted \in 0..MaxSockets
  /\ newsock \in Sockets \cup {INVALID_SOCKET}
  /\ pc \in [Sockets -> {"none", "born", "has", "writing", "written", "sent", "done"}]
  /\ sock \in [Sockets -> Sockets \cup {INVALID_SOCKET}]
  /\ jsonMessage \in Sockets \cup {INVALID_SOCKET, Torn}
  /\ \A s \in Sockets : greeted[s] \in Seq(Sockets \cup {INVALID_SOCKET, Torn})
  /\ closed \subseteq Sockets
  /\ alive \in BOOLEAN

Init ==
  /\ accepted = 0
  /\ newsock = INVALID_SOCKET
  /\ pc = [s \in Sockets |-> "none"]
  /\ sock = [s \in Sockets |-> INVALID_SOCKET]
  /\ jsonMessage = INVALID_SOCKET
  /\ greeted = [s \in Sockets |-> << >>]
  /\ closed = {}
  /\ alive = TRUE

At(t, from, to) == alive /\ pc[t] = from /\ pc' = [pc EXCEPT ![t] = to]

\* accept stores the connection in the loop's variable.
NewConnection ==
  /\ alive
  /\ accepted < MaxSockets
  /\ accepted' = accepted + 1
  /\ newsock' = accepted + 1
  /\ UNCHANGED <<sock, jsonMessage, greeted, alive>>

\* _beginthread gets &newsock, the same address each time.
Accept ==
  /\ NewConnection
  /\ pc' = [pc EXCEPT ![accepted + 1] = "born"]
  /\ UNCHANGED closed

\* Or there is no thread to be had, and the socket is closed; newsock keeps it,
\* for a thread born before to read.
AcceptWithoutThread ==
  /\ NewConnection
  /\ closed' = closed \cup {accepted + 1}
  /\ UNCHANGED pc

\* A failed accept leaves its result in the same variable.
AcceptFails ==
  /\ alive
  /\ newsock' = INVALID_SOCKET
  /\ UNCHANGED <<accepted, pc, sock, jsonMessage, greeted, closed, alive>>

\* Mutant: the variable still holds the socket before.
ReadNewsockOfOther(t) ==
  /\ At(t, "born", "has")
  /\ sock' = [sock EXCEPT ![t] = IF newsock > 1 THEN newsock - 1 ELSE newsock]
  /\ UNCHANGED <<accepted, newsock, jsonMessage, greeted, closed, alive>>

\* int sock = *(int*)pParam, whatever newsock holds by now.
ReadNewsock(t) ==
  /\ At(t, "born", "has")
  /\ sock' = [sock EXCEPT ![t] = newsock]
  /\ UNCHANGED <<accepted, newsock, jsonMessage, greeted, closed, alive>>

\* sprintf into jsonMessage takes a while.
jsonComputeBegin(t) ==
  /\ At(t, "has", "writing")
  /\ jsonMessage' = Torn
  /\ UNCHANGED <<accepted, newsock, sock, greeted, closed, alive>>

jsonComputeEnd(t) ==
  /\ At(t, "writing", "written")
  /\ jsonMessage' = sock[t]
  /\ UNCHANGED <<accepted, newsock, sock, greeted, closed, alive>>

\* send reads the buffer as it is now; an invalid socket or one that is closed
\* sends nothing.
Send(t) ==
  /\ At(t, "written", "sent")
  /\ greeted' = IF sock[t] \in closed \cup {INVALID_SOCKET} THEN greeted
                ELSE [greeted EXCEPT ![sock[t]] = Append(@, jsonMessage)]
  /\ UNCHANGED <<accepted, newsock, sock, jsonMessage, closed, alive>>

\* closesocket is given the address of newsock, which is no socket: nothing is
\* closed.
Recv(t) ==
  /\ At(t, "sent", "done")
  /\ UNCHANGED <<accepted, newsock, sock, jsonMessage, greeted, closed, alive>>

\* recv fails or fills the buffer: data[-1] or data[2048] is set to zero, which
\* may do nothing or end the process.
RecvAtTheEdge(t) ==
  /\ At(t, "sent", "done")
  /\ alive' = FALSE
  /\ UNCHANGED <<accepted, newsock, sock, jsonMessage, greeted, closed>>

Handle(t) ==
  \/ ReadNewsock(t)
  \/ jsonComputeBegin(t)
  \/ jsonComputeEnd(t)
  \/ Send(t)
  \/ Recv(t)
  \/ RecvAtTheEdge(t)

Next == Accept \/ AcceptWithoutThread \/ AcceptFails \/ \E t \in Sockets : Handle(t)

Spec == Init /\ [][Next]_vars

------------------------------------------------------------------------------
(* Properties. *)

\* The code's intention, "handle() for new connection", with "To(Socket
\* number)" in the text: what a client is sent names the client's own socket.
OwnNumber == \A s \in Sockets : \A i \in DOMAIN greeted[s] : greeted[s][i] = s

\* A thread may serve a connection that came after its own, never an earlier
\* one, so no client is greeted twice before its successor is there.
NeverEarlier ==
  \A t \in Sockets :
    pc[t] \notin {"none", "born"} => sock[t] = INVALID_SOCKET \/ sock[t] >= t

\* A client is sent no more greetings than connections had been accepted up to
\* its own, its own included.
GreetingsBounded == \A s \in Sockets : Len(greeted[s]) <= s

------------------------------------------------------------------------------
(* NeverEarlier, for any number of connections.                              *)

\* The threads that run are those of accepted connections, and the variable of
\* the loop holds the newest of them or none: all that a thread reads from it
\* later is at least its own.
Newest ==
  /\ accepted \in 0..MaxSockets
  /\ newsock \in {INVALID_SOCKET, accepted}
  /\ pc \in [Sockets -> {"none", "born", "has", "writing", "written", "sent", "done"}]
  /\ sock \in [Sockets -> Sockets \cup {INVALID_SOCKET}]
  /\ \A t \in Sockets : pc[t] # "none" => t <= accepted

IInv == Newest /\ NeverEarlier

LEMMA InitIInv == ASSUME ThreadServerAssumption PROVE Init => IInv
BY DEF ThreadServerAssumption, Init, IInv, Newest, NeverEarlier, Sockets, INVALID_SOCKET

\* A thread that goes on, without reading the variable or accepting.
LEMMA ThreadGoesOn ==
  ASSUME IInv, NEW t \in Sockets, NEW from, NEW to \in {"has", "writing", "written", "sent", "done"},
         from \notin {"none", "born"}, At(t, from, to), UNCHANGED <<accepted, newsock, sock>>
  PROVE  IInv'
BY DEF IInv, Newest, NeverEarlier, At

LEMMA NextIInv == ASSUME ThreadServerAssumption PROVE IInv /\ [Next]_vars => IInv'
<1> SUFFICES ASSUME IInv, [Next]_vars PROVE IInv'
  OBVIOUS
<1> USE DEF ThreadServerAssumption, Sockets, INVALID_SOCKET
<1>1. CASE Accept \/ AcceptWithoutThread
  <2>0. /\ accepted < MaxSockets /\ accepted' = accepted + 1 /\ newsock' = accepted + 1
        /\ sock' = sock /\ pc' \in {pc, [pc EXCEPT ![accepted + 1] = "born"]}
    BY <1>1 DEF Accept, AcceptWithoutThread, NewConnection
  <2>1. accepted + 1 \in Sockets /\ newsock' = accepted'
    BY <2>0 DEF IInv, Newest
  <2>2. Newest'
    BY <2>0, <2>1 DEF IInv, Newest
  <2>3. NeverEarlier'
    BY <2>0, <2>1 DEF IInv, Newest, NeverEarlier
  <2> QED BY <2>2, <2>3 DEF IInv
<1>2. CASE AcceptFails
  BY <1>2 DEF AcceptFails, IInv, Newest, NeverEarlier
<1>3. ASSUME NEW t \in Sockets, ReadNewsock(t) PROVE IInv'
  <2>1. newsock = INVALID_SOCKET \/ newsock >= t
    BY <1>3 DEF ReadNewsock, At, IInv, Newest
  <2>2. newsock \in Sockets \cup {INVALID_SOCKET}
    BY DEF IInv, Newest
  <2>3. Newest'
    BY <1>3, <2>2 DEF ReadNewsock, At, IInv, Newest
  <2>4. NeverEarlier'
    BY <1>3, <2>1 DEF ReadNewsock, At, IInv, Newest, NeverEarlier
  <2> QED BY <2>3, <2>4 DEF IInv
<1>4. ASSUME NEW t \in Sockets, jsonComputeBegin(t) \/ jsonComputeEnd(t) \/ Send(t) \/ Recv(t)
      PROVE  IInv'
  BY <1>4, ThreadGoesOn DEF jsonComputeBegin, jsonComputeEnd, Send, Recv
<1>5. ASSUME NEW t \in Sockets, RecvAtTheEdge(t) PROVE IInv'
  BY <1>5, ThreadGoesOn DEF RecvAtTheEdge
<1>6. CASE UNCHANGED vars
  BY <1>6 DEF vars, IInv, Newest, NeverEarlier
<1> QED BY <1>1, <1>2, <1>3, <1>4, <1>5, <1>6 DEF Next, Handle

\* However many clients connect and however the threads run, a thread that has
\* read the loop's variable serves its own connection, a later one or none.
THEOREM ThreadsServeNoEarlier == ASSUME ThreadServerAssumption PROVE Spec => []NeverEarlier
BY InitIInv, NextIInv, PTL DEF Spec, IInv

------------------------------------------------------------------------------
(* GreetingsBounded: a client is greeted once at most by each thread that got *)
(* its socket and has sent, and the connections of these are not after its    *)
(* own.                                                                       *)

Messages == Sockets \cup {INVALID_SOCKET, Torn}
HaveGreeted(s) == {t \in Sockets : sock[t] = s /\ pc[t] \in {"sent", "done"}}

GreetedByThreads ==
  /\ jsonMessage \in Messages /\ alive \in BOOLEAN
  /\ greeted \in [Sockets -> Seq(Messages)]
  /\ \A s \in Sockets : Len(greeted[s]) <= Cardinality(HaveGreeted(s))

LEMMA ThreadsFinite ==
  ASSUME ThreadServerAssumption, NEW s
  PROVE  IsFiniteSet(HaveGreeted(s))
<1>1. IsFiniteSet(Sockets)
  BY FS_Interval DEF ThreadServerAssumption, Sockets
<1> QED
  BY <1>1, FS_Subset DEF HaveGreeted

LEMMA InitGreeted == ASSUME ThreadServerAssumption PROVE Init => GreetedByThreads
<1> SUFFICES ASSUME Init PROVE GreetedByThreads
  OBVIOUS
<1>1. \A s \in Sockets : HaveGreeted(s) = {}
  BY DEF Init, HaveGreeted
<1>2. greeted = [s \in Sockets |-> << >>] /\ << >> \in Seq(Messages) /\ Len(<< >>) = 0
  BY DEF Init
<1> QED
  BY <1>1, <1>2, FS_EmptySet DEF Init, GreetedByThreads, Messages

\* A step that neither sends nor takes a thread that has sent leaves the
\* greeted alone.
LEMMA GreetedStay ==
  ASSUME GreetedByThreads, UNCHANGED greeted, jsonMessage' \in Messages, alive' \in BOOLEAN,
         \A s \in Sockets : HaveGreeted(s)' = HaveGreeted(s)
  PROVE  GreetedByThreads'
BY DEF GreetedByThreads

LEMMA SendGreets ==
  ASSUME ThreadServerAssumption, IInv, GreetedByThreads, NEW t \in Sockets, Send(t)
  PROVE  GreetedByThreads'
<1> USE DEF Send, At
<1>1. /\ sock[t] \in Sockets \cup {INVALID_SOCKET} /\ sock' = sock /\ jsonMessage' = jsonMessage
      /\ pc \in [Sockets -> {"none", "born", "has", "writing", "written", "sent", "done"}]
      /\ pc[t] = "written" /\ pc' = [pc EXCEPT ![t] = "sent"] /\ alive' = alive
  BY DEF IInv, Newest
<1>2. \A s \in Sockets : HaveGreeted(s)' = IF s = sock[t] THEN HaveGreeted(s) \cup {t} ELSE HaveGreeted(s)
  BY <1>1 DEF HaveGreeted
<1>3. INVALID_SOCKET \notin Sockets
  BY DEF INVALID_SOCKET, Sockets
<1>4. CASE sock[t] \in closed \cup {INVALID_SOCKET}
  <2>1. greeted' = greeted
    BY <1>4
  <2>2. ASSUME NEW s \in Sockets PROVE Cardinality(HaveGreeted(s)) <= Cardinality(HaveGreeted(s)')
    <3>1. Cardinality(HaveGreeted(s)) \in Nat
      BY ThreadsFinite, FS_CardinalityType
    <3>2. Cardinality(HaveGreeted(s) \cup {t}) \in {Cardinality(HaveGreeted(s)), Cardinality(HaveGreeted(s)) + 1}
      BY ThreadsFinite, FS_AddElement
    <3>3. HaveGreeted(s)' = HaveGreeted(s) \/ HaveGreeted(s)' = HaveGreeted(s) \cup {t}
      BY <1>2
    <3>4. CASE HaveGreeted(s)' = HaveGreeted(s)
      BY <3>1, <3>4
    <3>5. CASE HaveGreeted(s)' = HaveGreeted(s) \cup {t}
      <4> HIDE DEF HaveGreeted
      <4> DEFINE a == Cardinality(HaveGreeted(s))
                 b == Cardinality(HaveGreeted(s)')
      <4>1. a \in Nat /\ b \in {a, a + 1}
        BY <3>1, <3>2, <3>5
      <4> HIDE DEF a, b
      <4>2. a <= b
        BY <4>1
      <4> QED
        BY <4>2 DEF a, b
    <3> QED
      BY <3>3, <3>4, <3>5
  <2>3. ASSUME NEW s \in Sockets PROVE Len(greeted'[s]) <= Cardinality(HaveGreeted(s)')
    <3>1. Len(greeted[s]) \in Nat /\ Len(greeted[s]) <= Cardinality(HaveGreeted(s))
      BY DEF GreetedByThreads
    <3>2. Cardinality(HaveGreeted(s)) \in Nat /\ Cardinality(HaveGreeted(s)') \in Nat
      <4>1. IsFiniteSet(HaveGreeted(s)) /\ IsFiniteSet(HaveGreeted(s) \cup {t})
        BY ThreadsFinite, FS_AddElement
      <4> QED
        BY <1>2, <4>1, FS_CardinalityType
    <3> QED
      BY <2>1, <2>2, <3>1, <3>2
  <2> QED
    BY <1>1, <2>1, <2>3 DEF GreetedByThreads
<1>5. CASE sock[t] \in Sockets \ closed
  <2>1. greeted' = [greeted EXCEPT ![sock[t]] = Append(@, jsonMessage)]
    BY <1>3, <1>5
  <2>2. greeted' \in [Sockets -> Seq(Messages)]
    BY <1>5, <2>1 DEF GreetedByThreads
  <2>3. ASSUME NEW s \in Sockets PROVE Len(greeted'[s]) <= Cardinality(HaveGreeted(s)')
    <3>1. CASE s # sock[t]
      BY <1>2, <1>5, <2>1, <3>1 DEF GreetedByThreads
    <3>2. CASE s = sock[t]
      <4>1. t \notin HaveGreeted(s)
        BY <1>1 DEF HaveGreeted
      <4>2. Cardinality(HaveGreeted(s) \cup {t}) = Cardinality(HaveGreeted(s)) + 1
        BY <4>1, ThreadsFinite, FS_AddElement
      <4>3. greeted'[s] = Append(greeted[s], jsonMessage) /\ greeted[s] \in Seq(Messages)
        BY <1>5, <2>1, <3>2 DEF GreetedByThreads
      <4>4. Len(greeted'[s]) = Len(greeted[s]) + 1
        BY <4>3
      <4>5. HaveGreeted(s)' = HaveGreeted(s) \cup {t}
        BY <1>2, <3>2
      <4>6. Len(greeted[s]) \in Nat /\ Cardinality(HaveGreeted(s)) \in Nat
        BY <4>3, ThreadsFinite, FS_CardinalityType
      <4> QED
        BY <4>2, <4>4, <4>5, <4>6 DEF GreetedByThreads
    <3> QED
      BY <3>1, <3>2
  <2> QED
    BY <1>1, <2>2, <2>3 DEF GreetedByThreads
<1> QED
  BY <1>1, <1>4, <1>5

LEMMA NextGreeted ==
  ASSUME ThreadServerAssumption
  PROVE  IInv /\ GreetedByThreads /\ [Next]_vars => GreetedByThreads'
<1> SUFFICES ASSUME IInv, GreetedByThreads, [Next]_vars PROVE GreetedByThreads'
  OBVIOUS
<1> USE DEF At
<1>0. /\ pc \in [Sockets -> {"none", "born", "has", "writing", "written", "sent", "done"}]
      /\ sock \in [Sockets -> Sockets \cup {INVALID_SOCKET}]
      /\ jsonMessage \in Messages /\ alive \in BOOLEAN
  BY DEF IInv, Newest, GreetedByThreads
<1>1. CASE Accept \/ AcceptWithoutThread
  <2>0. /\ accepted < MaxSockets /\ UNCHANGED <<sock, jsonMessage, greeted, alive>>
        /\ pc' \in {pc, [pc EXCEPT ![accepted + 1] = "born"]}
    BY <1>1 DEF Accept, AcceptWithoutThread, NewConnection
  <2>1. accepted + 1 \in Sockets
    BY <2>0 DEF IInv, Newest, Sockets, ThreadServerAssumption
  <2>2. pc[accepted + 1] = "none"
    BY <2>1 DEF IInv, Newest
  <2>3. \A s \in Sockets : HaveGreeted(s)' = HaveGreeted(s)
    BY <1>0, <2>0, <2>1, <2>2 DEF HaveGreeted
  <2> QED
    BY <1>0, <2>0, <2>3, GreetedStay
<1>2. CASE AcceptFails
  BY <1>0, <1>2, GreetedStay DEF AcceptFails, HaveGreeted
<1>3. ASSUME NEW t \in Sockets, ReadNewsock(t) \/ jsonComputeBegin(t) \/ jsonComputeEnd(t)
      PROVE  GreetedByThreads'
  <2>1. /\ pc[t] \notin {"sent", "done"} /\ UNCHANGED <<greeted, alive>>
        /\ \E to \in {"has", "writing", "written"} : pc' = [pc EXCEPT ![t] = to]
        /\ \A u \in Sockets : u # t => sock'[u] = sock[u]
    BY <1>0, <1>3 DEF ReadNewsock, jsonComputeBegin, jsonComputeEnd
  <2>2. \A s \in Sockets : HaveGreeted(s)' = HaveGreeted(s)
    BY <1>0, <2>1 DEF HaveGreeted
  <2>3. jsonMessage' \in Messages
    BY <1>0, <1>3 DEF ReadNewsock, jsonComputeBegin, jsonComputeEnd, Messages
  <2> QED
    BY <1>0, <2>1, <2>2, <2>3, GreetedStay
<1>4. ASSUME NEW t \in Sockets, Recv(t) \/ RecvAtTheEdge(t) PROVE GreetedByThreads'
  <2>1. /\ pc[t] = "sent" /\ pc' = [pc EXCEPT ![t] = "done"] /\ sock' = sock
        /\ UNCHANGED <<greeted, jsonMessage>> /\ alive' \in BOOLEAN
    BY <1>0, <1>4 DEF Recv, RecvAtTheEdge
  <2>2. \A s \in Sockets : HaveGreeted(s)' = HaveGreeted(s)
    BY <1>0, <2>1 DEF HaveGreeted
  <2> QED
    BY <1>0, <2>1, <2>2, GreetedStay
<1>5. CASE UNCHANGED vars
  BY <1>0, <1>5, GreetedStay DEF vars, HaveGreeted
<1> QED
  BY <1>1, <1>2, <1>3, <1>4, <1>5, SendGreets DEF Next, Handle

LEMMA GreetedBounded ==
  ASSUME ThreadServerAssumption
  PROVE  IInv /\ GreetedByThreads => GreetingsBounded
<1> SUFFICES ASSUME IInv, GreetedByThreads, NEW s \in Sockets PROVE Len(greeted[s]) <= s
  BY DEF GreetingsBounded
<1>1. s \in Nat /\ INVALID_SOCKET \notin Sockets
  BY DEF Sockets, INVALID_SOCKET
<1>2. HaveGreeted(s) \in SUBSET (1..s)
  <2> SUFFICES ASSUME NEW t \in Sockets, sock[t] = s, pc[t] \in {"sent", "done"} PROVE t \in 1..s
    BY DEF HaveGreeted
  <2>1. s >= t
    BY <1>1 DEF IInv, NeverEarlier
  <2> QED
    BY <1>1, <2>1 DEF Sockets
<1>3. Cardinality(HaveGreeted(s)) <= Cardinality(1..s) /\ Cardinality(1..s) = s
  BY <1>1, <1>2, FS_Interval, FS_Subset DEF Sockets
<1>4. Len(greeted[s]) \in Nat /\ Cardinality(HaveGreeted(s)) \in Nat
  BY ThreadsFinite, FS_CardinalityType DEF GreetedByThreads
<1> QED
  BY <1>1, <1>3, <1>4 DEF GreetedByThreads

\* No client of the prototype is greeted more often than connections came up
\* to its own, in any interleaving of any number of threads.
THEOREM GreetingsStayBounded == ASSUME ThreadServerAssumption PROVE Spec => []GreetingsBounded
<1>1. Init => IInv /\ GreetedByThreads
  BY InitIInv, InitGreeted
<1>2. IInv /\ GreetedByThreads /\ [Next]_vars => (IInv /\ GreetedByThreads)'
  BY NextIInv, NextGreeted
<1>3. IInv /\ GreetedByThreads => GreetingsBounded
  BY GreetedBounded
<1> QED
  BY <1>1, <1>2, <1>3, PTL DEF Spec
==============================================================================

------------------------------- MODULE Exchange -------------------------------
(***************************************************************************)
(* What the server promises: the devices of the co-simulation exchange     *)
(* their records in rounds.  A round ends in the very step in which the    *)
(* last device makes its offer, and publishes what every device offered    *)
(* last; between two rounds nothing a device does is visible to another.   *)
(***************************************************************************)
EXTENDS Naturals

CONSTANTS Devices, Record, Blank

VARIABLES
  round,    \* rounds completed
  offered,  \* the devices that made an offer in this round
  offer,    \* what each device offered last
  board     \* what the last round published

vars == <<round, offered, offer, board>>

Init ==
  /\ round = 0
  /\ offered = {}
  /\ offer = [d \in Devices |-> Blank]
  /\ board = [d \in Devices |-> Blank]

\* d offers x, in place of what it offered before.
Put(d, x) == offer' = [offer EXCEPT ![d] = x]

Offer(d, x) ==
  /\ offered \cup {d} # Devices
  /\ offered' = offered \cup {d}
  /\ Put(d, x)
  /\ UNCHANGED <<round, board>>

Complete(d, x) ==
  /\ offered \cup {d} = Devices
  /\ offered' = {}
  /\ Put(d, x)
  /\ board' = offer'
  /\ round' = round + 1

Next == \E d \in Devices, x \in Record : Offer(d, x) \/ Complete(d, x)

Spec == Init /\ [][Next]_vars
==============================================================================

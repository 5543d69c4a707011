-------------------------------- MODULE Lagged --------------------------------
(***************************************************************************)
(* What the co-simulation as a whole promises its models.  It is weaker    *)
(* than lockstep: the round that moves the time from k to k + 1 publishes, *)
(* for each device, the record it computed for time k or for time k - 1,   *)
(* and no device's record ever goes back in time.  A record is named by    *)
(* the time it was computed for.                                           *)
(***************************************************************************)
EXTENDS Naturals

CONSTANTS Devices, Blank

VARIABLES
  now,    \* the simulated time
  board   \* the published records

vars == <<now, board>>

Init == now = 0 /\ board = [d \in Devices |-> Blank]

\* The records d can have in the round that ends at the time now.
Recent == {t \in 0..now : now <= t + 1}

NotOlder(new, old) == old = Blank \/ new >= old

Advance ==
  /\ now' = now + 1
  /\ \E new \in [Devices -> Recent] :
       /\ \A d \in Devices : NotOlder(new[d], board[d])
       /\ board' = new

Spec == Init /\ [][Advance]_vars
==============================================================================

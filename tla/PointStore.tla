----------------------------- MODULE PointStore -----------------------------
(***************************************************************************)
(* What server_update_points and BACnet clients together promise to those  *)
(* who read the points: a commandable point keeps its value while the      *)
(* event loop is busy with a call, as only BACnet clients change it and    *)
(* the BACnet stack runs on that loop; any other point may change at any   *)
(* moment, on a thread.  PointService implements this specification, and   *)
(* ServerReads reads from it.                                              *)
(***************************************************************************)

CONSTANTS Points, CommandableNames

VARIABLES
  pv,       \* presentValue of each point
  busy      \* a call is running on the event loop

Init ==
  /\ pv = [p \in Points |-> 0]
  /\ busy = FALSE

\* Mutant of Change: the stack has a thread of its own.
ChangeAnyTime(p, v) == pv' = [pv EXCEPT ![p] = v]

Change(p, v) ==
  /\ p \in CommandableNames => ~busy
  /\ pv' = [pv EXCEPT ![p] = v]

LoopTurns ==
  /\ busy' = ~busy
  /\ pv' = pv

Next == (\E p \in Points : Change(p, pv'[p]) /\ busy' = busy) \/ LoopTurns

Spec == Init /\ [][Next]_<<pv, busy>>

=============================================================================

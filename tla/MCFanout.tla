------------------------------ MODULE MCFanout ------------------------------
(* A small instance of Fanout for TLC.  Values are interchangeable, so one *)
(* initial state of the switcher stands for all of them.                   *)
EXTENDS Fanout

CONSTANT v0
ASSUME v0 \in Value

MCInit     == Init /\ truth = [k \in Key |-> v0]
MCSpec     == MCInit /\ [][Next]_vars
MCFairSpec == MCSpec /\ Fairness
=============================================================================

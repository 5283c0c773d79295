------------------------- MODULE MCConcurrentQueue -------------------------
(* A producer of three values blocks on two slots, two consumers contend for *)
(* the items, and one thread shuts the queue down at any moment.             *)
EXTENDS ConcurrentQueue, TLC
CONSTANTS p1, c1, c2, s1
MCThreePush == p1 :> 3
=============================================================================

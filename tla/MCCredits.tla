----------------------------- MODULE MCCredits ------------------------------
(* Instances of Credits for TLC: two checkout events and one event of       *)
(* another type, so that every branch of the webhook is taken.              *)
EXTENDS Credits, TLC

CONSTANTS alice, bob, starter, pro, other

\* Concurrent requests of one user, with one fault of each kind.
ToAlice   == [e \in Events |-> alice]
Plans     == [e \in Events |-> IF e = pro THEN 2 ELSE 1]
OneFault  == [k \in FaultKinds |-> 1]

\* Two users whose own requests never overlap, and no faults.
TwoBuyers == starter :> alice @@ pro :> bob @@ other :> alice
WithOther == starter :> 1 @@ pro :> 2 @@ other :> 0
NoFaults  == [k \in FaultKinds |-> 0]

Threads == Permutations(Handlers)
=============================================================================

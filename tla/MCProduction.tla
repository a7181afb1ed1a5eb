---------------------------- MODULE MCProduction ----------------------------
(* Two labels let both stations be busy, a label wait for the GW while      *)
(* another is fresh, and offers be swapped.  Rejecting an identity, releasing *)
(* it and reading again takes more tickets, which one label alone gets.      *)
EXTENDS Production, TLC

CONSTANTS fA, fB
MCFloppies == {fA, fB}
FloppySymmetry == Permutations(MCFloppies)

CONSTANT MaxTogether   \* bound: tickets issued while two labels are in use
Untouched(d) == disks[d] = AbsentDisk /\ d \notin occupied /\ images[d] = <<>>
TicketBound == generation <= MaxTogether \/ \A d \in Labels \ {First} : Untouched(d)
=============================================================================

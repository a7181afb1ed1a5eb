----------------------------- MODULE MCDualScan -----------------------------
(* A channel of one slot is full with one line or one answer; two labels    *)
(* keep both stations busy and let a label be transferred.                  *)
EXTENDS DualScan, TLC

CONSTANT fA
Untouched(d) == disks[d] = AbsentDisk /\ d \notin occupied /\ images[d] = <<>>
\* bound: a stop, or the end of the input, comes while one label is in use;
\* with two labels in use the feed drains on QUIT and at the end of the range.
Calm == ~stop /\ stdin = "open"
EnvironmentBound == Calm \/ \A d \in Labels \ {First} : Untouched(d)
=============================================================================

--------------------------- MODULE MCCallControl ---------------------------
(* CallControl on small sets of legs, for TLC. *)
EXTENDS CallControl, TLC

LegSymmetry == Permutations(Leg)

\* What the block of a freed call may look like: not reused at all, filled with
\* ones and zeros, or still like a call that rings.
NoGarbage == {}
SomeGarbage == {[cid |-> NoLeg, dir |-> "Outgoing", state |-> "Init"],
                [cid |-> NoLeg, dir |-> "Incoming", state |-> "Ringing"]}
=============================================================================

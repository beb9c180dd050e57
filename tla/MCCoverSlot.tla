---------------------------- MODULE MCCoverSlot ----------------------------
(* Instance of CoverSlot for TLC: the lifts are one between two steps and    *)
(* one out of range, the positions the ends, one out of range and none.      *)
EXTENDS CoverSlot, TLC

CONSTANTS t1, t2
=============================================================================

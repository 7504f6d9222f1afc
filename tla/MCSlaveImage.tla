---------------------------- MODULE MCSlaveImage ----------------------------
(* Instances of SlaveImage for TLC: two registers of each kind, which is   *)
(* one that a request writes and one that it does not.                     *)
EXTENDS SlaveImage

CONSTANTS h1, h2, i1, i2

MCHolding == {h1, h2}
MCInput == {i1, i2}
=============================================================================

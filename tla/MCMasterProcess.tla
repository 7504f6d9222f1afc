-------------------------- MODULE MCMasterProcess ---------------------------
(***************************************************************************)
(* Instances of MasterProcess for TLC: a busy TCP and a busy RTU device,   *)
(* a TCP device without actions, and a parse that yields none of them.     *)
(***************************************************************************)
EXTENDS MasterProcess

CONSTANTS d1, d2, d3

D1 == {d1}
NoDevice == {}
ListD1 == {<<d1>>}
D3 == {d3}
D1D3 == {d1, d3}
D1D2D3 == {d1, d2, d3}
ListAny == {<<d1, d2>>, <<d3>>, <<>>}
=============================================================================

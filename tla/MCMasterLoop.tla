---------------------------- MODULE MCMasterLoop ----------------------------
(* Instances of MasterLoop for TLC.  A second has 32 nanoseconds.  Three   *)
(* actions every 12, 20 and 24 of them get an offset of 1 nanosecond, two  *)
(* get 2, or 1 if their mean of 8 is rounded down; commands take up to 3,  *)
(* sleeps end up to 1 late, which leaves little time to spare, and actions *)
(* fall due at once now and then.                                          *)
EXTENDS MasterLoop

CONSTANTS a1, a2, a3

MCAction == {a1, a2, a3}
MCActionLists == {<<a1, a2, a3>>, <<a3, a1>>, <<>>}
MCInterval_us == a1 :> 3 @@ a2 :> 5 @@ a3 :> 6
MCClock == {[sec |-> 0, nsec |-> 10]}
MCBackoff == [sec |-> 0, nsec |-> 18]

(* The hypotheses of the theorem LatenessIsBounded.                        *)
ASSUME LatenessAssumption == TimesBounded /\ IntervalsFit
=============================================================================

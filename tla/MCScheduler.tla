---------------------------- MODULE MCScheduler -----------------------------
(***************************************************************************)
(* Instances of Scheduler for TLC.  A second has four nanoseconds, so that *)
(* intervals of 1, 2 and 3 microseconds are 0.5 s, 1 s and 1.5 s: due      *)
(* dates tie, carry into the seconds and differ in either field.           *)
(***************************************************************************)
EXTENDS Scheduler

CONSTANTS a1, a2, a3

MCAction == {a1, a2, a3}
MCActionLists == SetToAllKPermutations(MCAction)
MCInterval_us == a1 :> 1 @@ a2 :> 2 @@ a3 :> 3
MCClock == {[sec |-> 0, nsec |-> 0], [sec |-> 0, nsec |-> 3],
            [sec |-> 4, nsec |-> 1]}
=============================================================================

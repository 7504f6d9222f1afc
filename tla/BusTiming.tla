----------------------------- MODULE BusTiming ------------------------------
(***************************************************************************)
(* The times a master thread derives from the intervals of its actions     *)
(* before it enters its loop: the response timeout of libmodbus and the    *)
(* minimal offset between two commands, for TCP and for RTU.  Each is a    *)
(* function of l, the i32uInterval_us of the actions in list order.        *)
(*                                                                         *)
(* The mean of the intervals is a double in the code.  Here it is any      *)
(* whole number of nanoseconds a rounding error can make of the exact one. *)
(***************************************************************************)
EXTENDS Timespec, SequencesExt

CONSTANT LongLimit    \* a C long, like time_t, is in -LongLimit .. LongLimit - 1

ASSUME LongAssumption == LongLimit \in Nat \ {0}

Ns2Timespec(n) == [sec |-> n \div NSEC, nsec |-> n % NSEC]

(* The loop keeps the first interval none of the others is less than; its  *)
(* start value, more than INT32_MAX seconds, never survives a comparison.  *)
get_minimal_modbus_action_interval(l) ==
    LET least == {us \in ToSet(l) :
                    \A v \in ToSet(l) :
                        timespec_diff(us_to_timespec(v), us_to_timespec(us)).sec >= 0}
    IN  us_to_timespec(CHOOSE us \in least : TRUE)

Fault_Timeout_oddSecondLost(l) ==
    LET m == get_minimal_modbus_action_interval(l)
    IN  [sec |-> m.sec \div 2, usec |-> (m.nsec \div NSUS) \div 2]

(* modbus_timeout, a struct timeval: half the minimal interval, where the  *)
(* half of an odd second goes to the microseconds, and never zero.         *)
modbus_timeout(l) ==
    LET m    == get_minimal_modbus_action_interval(l)
        nsec == IF m.sec % 2 # 0 THEN m.nsec + NSEC ELSE m.nsec
        half == [sec |-> m.sec \div 2, usec |-> (nsec \div NSUS) \div 2]
    IN  IF half.sec = 0 /\ half.usec = 0 THEN [half EXCEPT !.usec = 1] ELSE half
-----------------------------------------------------------------------------
(* Two's complement: what a product of longs that overflows wraps to.      *)
AsLong(n) == ((n + LongLimit) % (2 * LongLimit)) - LongLimit

(* interval of get_minimal_modbus_event_offset.                            *)
IntervalNs(us) ==
    LET t == us_to_timespec(us) IN AsLong(t.nsec + AsLong(t.sec * NSEC))

SumOf(s) == FoldLeft(LAMBDA x, y : x + y, 0, s)
ProductOf(s) == FoldLeft(LAMBDA x, y : IF y > 0 THEN x * y ELSE x, 1, s)

(* 1 / n[1] + 1 / n[2] + ... is InverseSum(n) / ProductOf(n), without the  *)
(* negative longs: each becomes a uint64_t near 2^64.                      *)
InverseSum(n) ==
    SumOf([i \in DOMAIN n |-> IF n[i] > 0 THEN ProductOf(n) \div n[i] ELSE 0])

(* What 1 / (1 / n[1] + ... ) can be truncated to; n has a positive        *)
(* element.  The N inverses and sums are wrong by a few N in 2^53, and the *)
(* mean is less than 2^42 / N nanoseconds: the double is far less than one *)
(* off, and truncated it is the whole part of the exact mean or next to    *)
(* it, on either side.  A long that overflows has 32 bits, and the inverse *)
(* of each negative one takes up to a quarter of a nanosecond off the mean.*)
HarmonicMeans(n) ==
    LET exact == ProductOf(n) \div InverseSum(n)
        below == IF \E x \in ToSet(n) : x < 0 THEN Len(n) ELSE 0
    IN  (exact - 1 - below .. exact + 1) \cap Nat

Fault_EventOffset_half(l) ==
    {Ns2Timespec(mean \div 2) :
        mean \in HarmonicMeans([i \in DOMAIN l |-> IntervalNs(l[i])])}

(* The offset of a TCP thread, one of these: a quarter of the mean time    *)
(* between events.  The inverse of 0 is infinite and that of infinity is   *)
(* 0.  If no positive interval is left after the overflow the mean is out  *)
(* of range of an int64_t, or decades long; Zero stands for it.            *)
get_minimal_modbus_event_offset(l) ==
    LET n == [i \in DOMAIN l |-> IntervalNs(l[i])]
    IN  IF 0 \notin ToSet(n) /\ \E x \in ToSet(n) : x > 0
        THEN {Ns2Timespec(mean \div 4) : mean \in HarmonicMeans(n)}
        ELSE {Zero}

Fault_RtuOffset_allActions(l) ==
    Ns2Timespec(Ns(get_minimal_modbus_action_interval(l)) \div 4)

(* minoffset of an RTU thread.                                             *)
rtu_event_offset(l) ==
    Ns2Timespec((Ns(get_minimal_modbus_action_interval(l)) \div Len(l)) \div 4)
=============================================================================

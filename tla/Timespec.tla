------------------------------ MODULE Timespec ------------------------------
(***************************************************************************)
(* Arithmetic on struct timespec as Scheduler.c does it: a time value is a *)
(* record of whole seconds and of nanoseconds below one second, sums carry *)
(* into the seconds, differences borrow from them, and two values are      *)
(* compared field by field, never as one number.                           *)
(*                                                                         *)
(* A second has USEC microseconds of NSUS nanoseconds each.  The code has  *)
(* USEC = 1000000 and NSUS = 1000; the theorems hold for all positive      *)
(* values and the model checker uses small ones.                           *)
(***************************************************************************)
EXTENDS Integers

CONSTANTS USEC,   \* s32_microseconds_per_second
          NSUS    \* the factor 1000 of initScheduler

ASSUME UnitAssumption == USEC \in Nat \ {0} /\ NSUS \in Nat \ {0}

NSEC == USEC * NSUS    \* s32_nanoseconds_per_second

(* What every struct timespec of the scheduler satisfies: the asserts of   *)
(* timespec_add and timespec_diff demand nsec < NSEC of their arguments.   *)
TimeVal == [sec: Nat, nsec: 0 .. NSEC - 1]

Zero == [sec |-> 0, nsec |-> 0]

(* The order insertEventByDueDate compares with: seconds, then nanoseconds *)
Before(a, b) ==
    \/ a.sec < b.sec
    \/ a.sec = b.sec /\ a.nsec < b.nsec

NotAfter(a, b) == ~Before(b, a)

(* Seeded faults: a carry that is forgotten, in either field.              *)
Fault_timespec_add_noCarry(a, b) ==
    [sec |-> a.sec + b.sec, nsec |-> a.nsec + b.nsec]
Fault_timespec_add_secondLost(a, b) ==
    [sec |-> a.sec + b.sec, nsec |-> (a.nsec + b.nsec) % NSEC]

timespec_add(a, b) ==
    LET n == a.nsec + b.nsec
    IN  IF n >= NSEC
        THEN [sec |-> a.sec + b.sec + 1, nsec |-> n - NSEC]
        ELSE [sec |-> a.sec + b.sec, nsec |-> n]

(* The difference may be negative: then sec is negative and nsec is still  *)
(* in 0 .. NSEC - 1.  The C function returns the sec field.                *)
timespec_diff(m, s) ==
    IF s.nsec > m.nsec
    THEN [sec |-> m.sec - s.sec - 1, nsec |-> NSEC - s.nsec + m.nsec]
    ELSE [sec |-> m.sec - s.sec, nsec |-> m.nsec - s.nsec]

us_to_timespec(us) == [sec |-> us \div USEC, nsec |-> (us % USEC) * NSUS]

(* The value of a timespec in nanoseconds, the reference the field-wise    *)
(* operators are compared with.                                            *)
Ns(t) == t.sec * NSEC + t.nsec
=============================================================================

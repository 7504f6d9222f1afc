-------------------------- MODULE PeriodicDispatch --------------------------
(***************************************************************************)
(* What the scheduler of a device thread promises, without its list: every *)
(* configured action is pending exactly once, the action served next is    *)
(* one that no pending action precedes, and serving an action makes it     *)
(* pending again exactly one interval after the due date it was served     *)
(* for, whatever the time is by then.                                      *)
(***************************************************************************)
EXTENDS Timespec

CONSTANTS Action,        \* the actions a device can be configured with
          Interval_us,   \* i32uInterval_us of each action
          NoEvent,       \* the content of nextEvent before the first dispatch
          Clock          \* the times at which a schedule can start

VARIABLES pending,   \* the set of events the device still has to serve
          served     \* the event served last

pdVars == <<pending, served>>

Event == [action: Action, trigger: TimeVal]

Interval(a) == us_to_timespec(Interval_us[a])

(* now + interval, and one second "as buffer for initialisation"           *)
FirstDue(now, a) ==
    LET due == timespec_add(now, Interval(a))
    IN  [due EXCEPT !.sec = @ + 1]

NextDue(e) == [e EXCEPT !.trigger = timespec_add(e.trigger, Interval(e.action))]

PDInit == pending = {} /\ served = NoEvent

(* A schedule for the actions A starts at time now, after all that is due. *)
Start(A, now) ==
    /\ pending = {}
    /\ served # NoEvent => NotAfter(served.trigger, now)
    /\ pending' = {[action |-> a, trigger |-> FirstDue(now, a)] : a \in A}
    /\ UNCHANGED served

Serve(e) ==
    /\ e \in pending
    /\ \A f \in pending : NotAfter(e.trigger, f.trigger)
    /\ served' = e
    /\ pending' = (pending \ {e}) \cup {NextDue(e)}

Stop == pending # {} /\ pending' = {} /\ UNCHANGED served

PDNext ==
    \/ \E A \in SUBSET Action, now \in Clock : Start(A, now)
    \/ \E e \in pending : Serve(e)
    \/ Stop

PDSpec == PDInit /\ [][PDNext]_pdVars
=============================================================================

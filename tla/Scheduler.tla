----------------------------- MODULE Scheduler ------------------------------
(***************************************************************************)
(* The event list of one device thread (src/Scheduler.c): initScheduler    *)
(* fills it, getNextEvent takes its head and puts it back one interval     *)
(* later.  The list is a local variable of the thread, so that a call is   *)
(* one step, except that the loop of initScheduler is a step per action    *)
(* because the allocation of any of its entries can fail.                  *)
(*                                                                         *)
(* An entry is a record of its action and its trigger time; the interval   *)
(* the code copies into the entry is a function of the action.             *)
(***************************************************************************)
EXTENDS Timespec, SequencesExt

CONSTANTS Action,       \* the actions of a device
          Interval_us,  \* their i32uInterval_us
          NoEvent,      \* an uninitialised nextEvent
          ActionLists,  \* the action lists the parser can have built
          Clock,        \* the readings of CLOCK_MONOTONIC initScheduler can get
          Horizon       \* bound: no event due in or after this second is served

(* The entries of an action list are nodes of their own.                   *)
IsListOfActions(s) ==
    /\ s \in Seq(Action)
    /\ \A i, j \in DOMAIN s : s[i] = s[j] => i = j

ASSUME SchedulerAssumption ==
    /\ Interval_us \in [Action -> Nat \ {0}]
    /\ \A s \in ActionLists : IsListOfActions(s)
    /\ Clock \subseteq TimeVal
    /\ Horizon \in Nat
    /\ NoEvent \notin [action: Action, trigger: TimeVal]

VARIABLES
    actionList,   \* mbActionListHead: the parsed actions, in list order
    sched,        \* where the thread is with respect to its event list
    toInsert,     \* the rest of actionList in the loop of initScheduler
    initTime,     \* tv_currentTime of the last initScheduler
    eventList,    \* pEventListHead_p
    nextEvent,    \* the thread's nextEvent
    count         \* auxiliary: dispatches of each action since initScheduler

schedVars ==
    <<actionList, sched, toInsert, initTime, eventList, nextEvent, count>>

Event == [action: Action, trigger: TimeVal]

Interval(a) == us_to_timespec(Interval_us[a])

(* trigger time "plus an additional second for initialisation"             *)
FirstDue(now, a) ==
    LET due == timespec_add(now, Interval(a))
    IN  [due EXCEPT !.sec = @ + 1]

TypeOK ==
    /\ actionList \in Seq(Action)
    /\ sched \in {"idle", "filling", "ready", "failed"}
    /\ toInsert \in Seq(Action)
    /\ initTime \in TimeVal
    /\ eventList \in Seq(Event)
    /\ nextEvent \in Event \cup {NoEvent}
    /\ count \in [Action -> Nat]
-----------------------------------------------------------------------------
(* Seeded faults: what a slip in the function of that name would do.       *)
Fault_DuePosition_tail(e, l) == Len(l) + 1
Fault_DuePosition_head(e, l) == 1
Fault_DuePosition_onlySec(e, l) ==
    CHOOSE p \in 1 .. Len(l) + 1 :
        /\ \A j \in 1 .. p - 1 : e.trigger.sec >= l[j].trigger.sec
        /\ p <= Len(l) => e.trigger.sec < l[p].trigger.sec

(* The place TAILQ_FOREACH of insertEventByDueDate finds: before the first *)
(* entry that is due strictly later, and at the tail if there is none.     *)
DuePosition(e, l) ==
    CHOOSE p \in 1 .. Len(l) + 1 :
        /\ \A j \in 1 .. p - 1 : ~Before(e.trigger, l[j].trigger)
        /\ p <= Len(l) => Before(e.trigger, l[p].trigger)

Fault_insertEventByDueDate_noTail(e, l) ==
    IF l # <<>> /\ DuePosition(e, l) > Len(l) THEN l
    ELSE InsertAt(l, DuePosition(e, l), e)

insertEventByDueDate(e, l) == InsertAt(l, DuePosition(e, l), e)

Fault_reschedule_late(e) ==
    [e EXCEPT !.trigger = FirstDue(e.trigger, e.action)]
Fault_reschedule_dropped(e) == e

(* The removed head gets its new due date from its old one, not from the   *)
(* time at which it is served.                                             *)
reschedule(e) ==
    [e EXCEPT !.trigger = timespec_add(e.trigger, Interval(e.action))]
-----------------------------------------------------------------------------
Init ==
    /\ actionList \in ActionLists
    /\ sched = "idle"
    /\ toInsert = <<>>
    /\ initTime = Zero
    /\ eventList = <<>>
    /\ nextEvent = NoEvent
    /\ count = [a \in Action |-> 0]

(* initScheduler with an empty action list returns -1 at once.             *)
InitNoActions ==
    /\ sched = "idle"
    /\ actionList = <<>>
    /\ sched' = "failed"
    /\ UNCHANGED <<actionList, toInsert, initTime, eventList, nextEvent, count>>

(* initScheduler up to its loop.  The clock is monotonic and the thread    *)
(* has slept until the trigger time of every event it served before.       *)
InitBegin(now) ==
    /\ sched = "idle"
    /\ actionList # <<>>
    /\ nextEvent # NoEvent => NotAfter(nextEvent.trigger, now)
    /\ sched' = "filling"
    /\ eventList' = <<>>
    /\ initTime' = now
    /\ toInsert' = actionList
    /\ count' = [a \in Action |-> 0]
    /\ UNCHANGED <<actionList, nextEvent>>

(* One turn of the loop of initScheduler.                                  *)
InitInsert ==
    /\ sched = "filling"
    /\ LET a == Head(toInsert)
           e == [action |-> a, trigger |-> FirstDue(initTime, a)]
       IN  eventList' = insertEventByDueDate(e, eventList)
    /\ toInsert' = Tail(toInsert)
    /\ sched' = IF Tail(toInsert) = <<>> THEN "ready" ELSE "filling"
    /\ UNCHANGED <<actionList, initTime, nextEvent, count>>

(* malloc returns NULL: cleanupScheduler empties the list, initScheduler   *)
(* returns -1 and the thread ends.                                         *)
InitMallocFails ==
    /\ sched = "filling"
    /\ eventList' = <<>>
    /\ toInsert' = <<>>
    /\ sched' = "failed"
    /\ UNCHANGED <<actionList, initTime, nextEvent, count>>

(* getNextEvent and determineNextEvent.                                    *)
GetNextEvent ==
    /\ sched = "ready"
    /\ eventList # <<>>
    /\ LET e == Head(eventList)
       IN  /\ e.trigger.sec < Horizon
           /\ nextEvent' = e
           /\ eventList' = insertEventByDueDate(reschedule(e), Tail(eventList))
           /\ count' = [count EXCEPT ![e.action] = @ + 1]
    /\ UNCHANGED <<actionList, sched, toInsert, initTime>>

(* The TCP thread leaves its inner loop after too many errors: the list,   *)
(* local to the outer loop's body, is gone and a new one follows.          *)
ConnectionLost ==
    /\ sched = "ready"
    /\ sched' = "idle"
    /\ eventList' = <<>>
    /\ UNCHANGED <<actionList, toInsert, initTime, nextEvent, count>>

Next ==
    \/ InitNoActions
    \/ \E now \in Clock : InitBegin(now)
    \/ InitInsert
    \/ InitMallocFails
    \/ GetNextEvent
    \/ ConnectionLost

Spec == Init /\ [][Next]_schedVars
-----------------------------------------------------------------------------
ActionsOf(l) == {e.action : e \in ToSet(l)}

InDueOrder(l) ==
    \A i, j \in DOMAIN l : i < j => NotAfter(l[i].trigger, l[j].trigger)

(* The list is sorted by due date at every call, so that its head, the one *)
(* entry getNextEvent looks at, is an event no other precedes              *)
(* (insertEventByDueDate).                                                 *)
SortedByDueDate == InDueOrder(eventList)

(* While the device loop runs, every configured action is in the list      *)
(* exactly once: determineNextEvent neither loses nor duplicates the entry *)
(* it removes and re-inserts, and the list is never empty, which the loops *)
(* rely on as they ignore the return value of getNextEvent.                *)
EachActionOnce ==
    sched = "ready" =>
        /\ Len(eventList) = Len(actionList)
        /\ eventList # <<>>
        /\ ActionsOf(eventList) = ToSet(actionList)

(* No action starves: whenever an event has been served, each pending      *)
(* action is due at most one of its own intervals later, or at the time    *)
(* initScheduler gave it (determineNextEvent).                             *)
DueWithinOneInterval ==
    \A e \in ToSet(eventList) :
        \/ NotAfter(e.trigger, FirstDue(initTime, e.action))
        \/ /\ nextEvent # NoEvent
           /\ NotAfter(e.trigger,
                       timespec_add(nextEvent.trigger, Interval(e.action)))

(* The schedule does not drift: an action that has been served n times     *)
(* since initScheduler is due n + 1 intervals and one second after it,     *)
(* whatever carries the field-wise sums went through (timespec_add).       *)
NoDrift ==
    sched = "ready" =>
        \A e \in ToSet(eventList) :
            Ns(e.trigger) = Ns(initTime) + NSEC
                + (count[e.action] + 1) * NSUS * Interval_us[e.action]

(* Rate fairness: no action is served past the outstanding due date of     *)
(* another, so after n services of a, any b has had at most                *)
(* (n + 1) * I[a] / I[b] of them.                                          *)
RateFair ==
    sched = "ready" =>
        \A a, b \in ToSet(actionList) :
            count[b] * Interval_us[b] <= (count[a] + 1) * Interval_us[a]

(* Due dates of served events never go backwards, not even over a          *)
(* reconnection, after which initScheduler starts a new schedule.          *)
ServedInDueOrder ==
    [][nextEvent # NoEvent
        => NotAfter(nextEvent.trigger, nextEvent'.trigger)]_nextEvent

(* An inductive invariant: what the list holds while initScheduler fills   *)
(* it, and that nothing in it was due before the event served last.        *)
OneEntryPerAction ==
    \A i, j \in DOMAIN eventList :
        eventList[i].action = eventList[j].action => i = j

FilledSoFar ==
    sched = "filling" =>
        /\ IsListOfActions(toInsert)
        /\ toInsert # <<>>
        /\ nextEvent # NoEvent => NotAfter(nextEvent.trigger, initTime)
        /\ \A e \in ToSet(eventList) :
               e.trigger = FirstDue(initTime, e.action)
        /\ ActionsOf(eventList) \cap ToSet(toInsert) = {}
        /\ ActionsOf(eventList) \cup ToSet(toInsert) = ToSet(actionList)
        /\ Len(eventList) + Len(toInsert) = Len(actionList)

NothingOverdueBeforeServed ==
    sched = "ready" /\ nextEvent # NoEvent =>
        \A e \in ToSet(eventList) : NotAfter(nextEvent.trigger, e.trigger)

SchedInv ==
    /\ TypeOK
    /\ IsListOfActions(actionList)
    /\ SortedByDueDate
    /\ OneEntryPerAction
    /\ FilledSoFar
    /\ EachActionOnce
    /\ NothingOverdueBeforeServed
    /\ DueWithinOneInterval

(* The list implements the abstract periodic dispatcher: its entries are   *)
(* the pending events once initScheduler has returned 0.                   *)
PD == INSTANCE PeriodicDispatch WITH
          pending <- IF sched = "ready" THEN ToSet(eventList) ELSE {},
          served  <- nextEvent

ImplementsPeriodicDispatch == PD!PDSpec
=============================================================================

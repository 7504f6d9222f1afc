----------------------------- MODULE MasterLoop -----------------------------
(***************************************************************************)
(* The loop of a device thread in time: it takes the next event, sleeps    *)
(* until the event is due and until the minimal offset to the command      *)
(* before has passed, and sends the command.  A TCP thread connects first, *)
(* and connects again, with a new schedule, after too many errors.         *)
(*                                                                         *)
(* Scheduler is the list of the thread; here it meets the clock, and the   *)
(* offset that BusTiming computes from its actions.                        *)
(***************************************************************************)
EXTENDS Scheduler, BusTiming

CONSTANTS Protocols,  \* those of the device, of {"TCP", "RTU"}
          Backoff,    \* the sleep of 5 seconds after a failed connect
          Durations,  \* how long processModbusAction can take, in ns
          Jitter,     \* how late a sleep can end, in ns
          MaxErr      \* 100: more errors in a row restart the connection

ASSUME LoopAssumption ==
    /\ Protocols \subseteq {"TCP", "RTU"}
    /\ Backoff \in TimeVal
    /\ Durations \subseteq Nat /\ Jitter \subseteq Nat
    /\ MaxErr \in Nat

VARIABLES eProtocol, \* the device's, which never changes
          phase,     \* where the thread is
          now,       \* CLOCK_MONOTONIC
          offset,    \* tv_minimal_event_offset
          earliest,  \* tv_earliest_next_trigger_time
          errCnt,    \* err_cnt
          lastEnd    \* auxiliary: the end of the command before

loopVars == <<eProtocol, phase, now, offset, earliest, errCnt, lastEnd>>

Tcp == eProtocol = "TCP"

(* What tv_minimal_event_offset can be set to, as far as doubles go.       *)
Offsets ==
    LET l == [i \in DOMAIN actionList |-> Interval_us[actionList[i]]]
    IN  IF Tcp THEN get_minimal_modbus_event_offset(l) ELSE {rtu_event_offset(l)}

LoopTypeOK ==
    /\ TypeOK
    /\ eProtocol \in Protocols
    /\ phase \in {"connect", "init", "pick", "sleep", "io", "ended"}
    /\ now \in TimeVal
    /\ offset \in TimeVal
    /\ earliest \in TimeVal
    /\ errCnt \in 0 .. MaxErr
    /\ lastEnd \in TimeVal

LoopInit ==
    /\ Init
    /\ eProtocol \in Protocols
    /\ phase = "connect" /\ now \in Clock
    /\ offset = Zero /\ earliest = Zero
    /\ errCnt = 0 /\ lastEnd = Zero

Later(t, ns) == timespec_add(t, [sec |-> ns \div NSEC, nsec |-> ns % NSEC])

Latest(s, t) == IF Before(s, t) THEN t ELSE s
-----------------------------------------------------------------------------
(* modbus_connect fails: the TCP thread sleeps, the RTU thread returns.    *)
ConnectFails ==
    /\ phase = "connect"
    /\ now.sec < Horizon
    /\ now' = timespec_add(now, Backoff)
    /\ phase' = IF Tcp THEN "connect" ELSE "ended"
    /\ UNCHANGED <<eProtocol, offset, earliest, errCnt, lastEnd, schedVars>>

Connected ==
    /\ phase = "connect"
    /\ InitBegin(now)
    /\ phase' = "init"
    /\ UNCHANGED <<eProtocol, now, offset, earliest, errCnt, lastEnd>>

FillList == phase = "init" /\ InitInsert /\ UNCHANGED loopVars

(* initScheduler returns -1: pthread_exit.                                 *)
InitFails ==
    /\ \/ phase = "connect" /\ InitNoActions
       \/ phase = "init" /\ InitMallocFails
    /\ phase' = "ended"
    /\ UNCHANGED <<eProtocol, now, offset, earliest, errCnt, lastEnd>>

(* nextEvent and its neighbours are set up anew: nothing is awaited but    *)
(* the first due date.  Only a TCP thread counts its errors.               *)
EnterLoop ==
    /\ phase = "init" /\ sched = "ready"
    /\ phase' = "pick"
    /\ offset' \in Offsets
    /\ earliest' = Zero /\ errCnt' = 0
    /\ UNCHANGED <<eProtocol, now, lastEnd, schedVars>>

Pick ==
    /\ phase = "pick"
    /\ GetNextEvent
    /\ phase' = "sleep"
    /\ UNCHANGED <<eProtocol, now, offset, earliest, errCnt, lastEnd>>

Fault_Sleep_noOffset(j) ==
    /\ phase = "sleep"
    /\ now' = Later(Latest(now, nextEvent.trigger), j)
    /\ phase' = "io"
    /\ UNCHANGED <<eProtocol, offset, earliest, errCnt, lastEnd, schedVars>>

Fault_Sleep_noTrigger(j) ==
    /\ phase = "sleep"
    /\ now' = Later(Latest(now, earliest), j)
    /\ phase' = "io"
    /\ UNCHANGED <<eProtocol, offset, earliest, errCnt, lastEnd, schedVars>>

(* The two calls of clock_nanosleep with TIMER_ABSTIME.                    *)
Sleep(j) ==
    /\ phase = "sleep"
    /\ now' = Later(Latest(Latest(now, nextEvent.trigger), earliest), j)
    /\ phase' = "io"
    /\ UNCHANGED <<eProtocol, offset, earliest, errCnt, lastEnd, schedVars>>

Command(d) ==
    /\ phase = "io"
    /\ now' = Later(now, d)
    /\ lastEnd' = now'
    /\ earliest' = timespec_add(now', offset)
    /\ UNCHANGED <<eProtocol, offset>>

CommandOk(d) ==
    /\ Command(d)
    /\ phase' = "pick" /\ errCnt' = 0
    /\ UNCHANGED schedVars

(* With more than MaxErr errors in a row the TCP thread closes the         *)
(* connection, leaves its list behind and connects again.                  *)
CommandFails(d) ==
    /\ Command(d)
    /\ IF Tcp /\ errCnt = MaxErr
       THEN phase' = "connect" /\ UNCHANGED errCnt /\ ConnectionLost
       ELSE /\ phase' = "pick" /\ UNCHANGED schedVars
            /\ errCnt' = IF Tcp THEN errCnt + 1 ELSE errCnt

LoopNext ==
    \/ ConnectFails \/ Connected \/ FillList \/ InitFails \/ EnterLoop
    \/ Pick
    \/ \E j \in Jitter : Sleep(j)
    \/ \E d \in Durations : CommandOk(d) \/ CommandFails(d)

LoopSpec == LoopInit /\ [][LoopNext]_<<schedVars, loopVars>>
-----------------------------------------------------------------------------
Served == ToSet(actionList)

(* Two commands are at least the minimal offset apart, also when the first *)
(* took long, when a backlog is worked off, and over a reconnection, where *)
(* the code forgets the time of the last command.                          *)
CommandsSpaced ==
    phase = "io" /\ lastEnd # Zero => NotAfter(timespec_add(lastEnd, offset), now)

(* A backlog is worked off, never overdone: up to any time no action has   *)
(* been sent more often than its interval allows since initScheduler.      *)
NeverAheadOfSchedule ==
    phase = "io" =>
        \A a \in Served :
            Ns(initTime) + NSEC + count[a] * NSUS * Interval_us[a] <= Ns(now)
            \/ count[a] = 0

(* The longest time a command keeps the bus: its own, the offset after it  *)
(* and the late end of the sleep before it.                                *)
Longest == Max(Durations) + Ns(offset) + Max(Jitter)

(* The commands and late wake-ups alone take at most three quarters of the *)
(* schedule, and leave a nanosecond for the rounding of the offset: with t *)
(* for both and a quarter of it, t / I1 + t / I2 + ... <= 3 / 4.           *)
Fits ==
    LET n == [i \in DOMAIN actionList |-> NSUS * Interval_us[actionList[i]]]
    IN  (4 * (Max(Durations) + Max(Jitter)) + 1) * InverseSum(n) <= 3 * ProductOf(n)

(* The quarter of the schedule that the offsets take is there to be taken: *)
(* if the commands leave it, none is late by more than the others take,    *)
(* with all of them due at once, however the durations vary.  Being served *)
(* in the order of due dates with the computed offset in between builds no *)
(* backlog (getNextEvent, get_minimal_modbus_event_offset).                *)
LatenessBounded ==
    phase = "io" /\ Fits =>
        Ns(now) - Ns(nextEvent.trigger) <= (Len(actionList) - 1) * Longest + Max(Jitter)

(* When the bound holds for all constants: there is a longest command and  *)
(* a latest end of a sleep, and no interval in nanoseconds is beyond a     *)
(* long.                                                                   *)
TimesBounded ==
    /\ \E d \in Durations : \A x \in Durations : x <= d
    /\ \E j \in Jitter : \A x \in Jitter : x <= j

IntervalsFit == \A a \in Action : NSUS * Interval_us[a] < LongLimit
=============================================================================

--------------------------- MODULE MasterProcess ----------------------------
(***************************************************************************)
(* The process piModbusMaster: main, one thread per configured device, the *)
(* mutex they share, the life of each thread's libmodbus context and of    *)
(* the configuration that main parses and frees.                           *)
(*                                                                         *)
(* Every turn of main's loop is a generation: main parses config.rsc,      *)
(* creates the threads, waits for a reset event of the piControl driver,   *)
(* cancels the threads without joining them, and frees what it parsed.     *)
(* Cancellation is deferred: a thread acts on it at a cancellation point,  *)
(* by running the cleanup handler it has pushed, if any.                   *)
(***************************************************************************)
EXTENDS Integers, FiniteSets, Sequences

CONSTANTS Device,      \* the devices config.rsc can name
          Tcp,         \* those of them with protocol TCP, the others are RTU
          Idle,        \* those with an empty action list
          Configs,     \* what a parse can yield: lists of distinct devices
          MaxGen,      \* bound: the number of generations
          MallocFails, \* whether malloc in initScheduler can fail
          NoThread     \* the owner of a free mutex

ASSUME ProcessAssumption ==
    /\ Tcp \subseteq Device
    /\ Idle \subseteq Device
    /\ Configs \subseteq Seq(Device)
    /\ \A l \in Configs : \A i, j \in 1 .. Len(l) : l[i] = l[j] => i = j
    /\ MaxGen \in Nat \ {0}
    /\ MallocFails \in BOOLEAN
    /\ NoThread \notin (1 .. MaxGen) \X Device

Thread == (1 .. MaxGen) \X Device

VARIABLES
    mainPc,     \* where main is in its loop
    gen,        \* the current generation
    list,       \* mbMasterConfHead of the current generation
    pos,        \* the index i of main's loops over the list
    started,    \* threads whose pThreads entry is not 0
    config,     \* per generation: "none", "live" or "freed"
    cancelled,  \* threads pthread_cancel has been called for
    pc,         \* where each thread is
    ctx,        \* each thread's modbus_t: "none", "live" or "freed"
    released,   \* auxiliary: how often modbus_free was called on it
    mutex,      \* the thread that holds mutex_modbus_context
    stale       \* auxiliary: threads that have read freed configuration

mainVars == <<mainPc, gen, list, pos, started, config, cancelled>>
threadVars == <<pc, ctx, released, mutex, stale>>
vars == <<mainVars, threadVars>>

IsTcp(t) == t[2] \in Tcp

TypeOK ==
    /\ mainPc \in {"parse", "create", "wait", "cancel", "free"}
    /\ gen \in 1 .. MaxGen
    /\ list \in Seq(Device)
    /\ pos \in 1 .. Len(list) + 1
    /\ started \subseteq Thread
    /\ config \in [1 .. MaxGen -> {"none", "live", "freed"}]
    /\ cancelled \subseteq started
    /\ pc \in [Thread -> {"none", "access", "setprio", "new", "connect",
                          "backoff", "init", "next", "wait", "lock", "io",
                          "ended"}]
    /\ ctx \in [Thread -> {"none", "live", "freed"}]
    /\ released \in [Thread -> 0 .. 2]
    /\ mutex \in Thread \cup {NoThread}
    /\ stale \subseteq Thread

Init ==
    /\ mainPc = "parse" /\ gen = 1 /\ list = <<>> /\ pos = 1
    /\ started = {} /\ cancelled = {} /\ stale = {}
    /\ config = [g \in 1 .. MaxGen |-> "none"]
    /\ pc = [t \in Thread |-> "none"]
    /\ ctx = [t \in Thread |-> "none"]
    /\ released = [t \in Thread |-> 0]
    /\ mutex = NoThread
-----------------------------------------------------------------------------
(* main                                                                    *)

Parse(l) ==
    /\ mainPc = "parse"
    /\ list' = l
    /\ pos' = 1
    /\ config' = [config EXCEPT ![gen] = "live"]
    /\ mainPc' = IF l = <<>> THEN "wait" ELSE "create"
    /\ UNCHANGED <<gen, started, cancelled, threadVars>>

(* pthread_create for the device at pos; on failure its entry stays 0.     *)
Create(ok) ==
    /\ mainPc = "create"
    /\ LET t == <<gen, list[pos]>>
       IN  IF ok
           THEN /\ started' = started \cup {t}
                /\ pc' = [pc EXCEPT ![t] =
                             IF IsTcp(t) THEN "setprio" ELSE "access"]
           ELSE UNCHANGED <<started, pc>>
    /\ pos' = pos + 1
    /\ mainPc' = IF pos = Len(list) THEN "wait" ELSE "create"
    /\ UNCHANGED <<gen, list, config, cancelled, ctx, released, mutex, stale>>

(* piControlWaitForEvent returns KB_EVENT_RESET.                           *)
Reset ==
    /\ mainPc = "wait"
    /\ gen < MaxGen
    /\ pos' = 1
    /\ mainPc' = IF list = <<>> THEN "free" ELSE "cancel"
    /\ UNCHANGED <<gen, list, started, config, cancelled, threadVars>>

Fault_Cancel_skipsLast ==
    /\ mainPc = "cancel"
    /\ cancelled' = cancelled
    /\ pos' = pos + 1
    /\ mainPc' = IF pos = Len(list) THEN "free" ELSE "cancel"
    /\ UNCHANGED <<gen, list, started, config, threadVars>>

Fault_Cancel_unchecked ==
    /\ mainPc = "cancel"
    /\ cancelled' = cancelled \cup {<<gen, list[pos]>>}
    /\ pos' = pos + 1
    /\ mainPc' = IF pos = Len(list) THEN "free" ELSE "cancel"
    /\ UNCHANGED <<gen, list, started, config, threadVars>>

(* pthread_cancel of the thread at pos, if it was started.                 *)
Cancel ==
    /\ mainPc = "cancel"
    /\ cancelled' = cancelled \cup ({<<gen, list[pos]>>} \cap started)
    /\ pos' = pos + 1
    /\ mainPc' = IF pos = Len(list) THEN "free" ELSE "cancel"
    /\ UNCHANGED <<gen, list, started, config, threadVars>>

(* free_modbus_master_config_data and free_config_buffer; nothing waits    *)
(* for the cancelled threads to end.                                       *)
Free ==
    /\ mainPc = "free"
    /\ config' = [config EXCEPT ![gen] = "freed"]
    /\ gen' = gen + 1
    /\ mainPc' = "parse"
    /\ UNCHANGED <<list, pos, started, cancelled, threadVars>>

Main ==
    \/ \E l \in Configs : Parse(l)
    \/ \E ok \in BOOLEAN : Create(ok)
    \/ Reset
    \/ Cancel
    \/ Free
-----------------------------------------------------------------------------
(* The device threads                                                      *)

Goto(t, from, to) == pc[t] = from /\ pc' = [pc EXCEPT ![t] = to]

(* The thread dereferences its TModbusMasterConfiguration or an action.    *)
ReadsConfig(t) ==
    stale' = IF config[t[1]] = "freed" THEN stale \cup {t} ELSE stale

(* modbus_close and modbus_free, n times.                                  *)
Releases(t, n) ==
    /\ ctx' = [ctx EXCEPT ![t] = "freed"]
    /\ released' = [released EXCEPT ![t] = @ + n]

(* RTU: access() of the serial device, repeated every second.              *)
Access(t) ==
    /\ \E to \in {"access", "setprio"} : Goto(t, "access", to)
    /\ ReadsConfig(t)
    /\ UNCHANGED <<mainVars, ctx, released, mutex>>

SetPrio(t) ==
    /\ \/ Goto(t, "setprio", "new") /\ UNCHANGED stale
       \/ Goto(t, "setprio", "ended") /\ ReadsConfig(t)
    /\ UNCHANGED <<mainVars, ctx, released, mutex>>

(* modbus_new_tcp_pi or modbus_new_rtu.                                    *)
NewContext(t) ==
    /\ \/ Goto(t, "new", "connect") /\ ctx' = [ctx EXCEPT ![t] = "live"]
       \/ Goto(t, "new", "ended") /\ UNCHANGED ctx
    /\ ReadsConfig(t)
    /\ UNCHANGED <<mainVars, released, mutex>>

ConnectOk(t) ==
    /\ Goto(t, "connect", "init")
    /\ UNCHANGED <<mainVars, ctx, released, mutex, stale>>

Fault_ConnectFails_rtuRetries(t) ==
    /\ Goto(t, "connect", "backoff")
    /\ IF IsTcp(t) THEN UNCHANGED <<ctx, released>> ELSE Releases(t, 1)
    /\ ReadsConfig(t)
    /\ UNCHANGED <<mainVars, mutex>>

(* A TCP thread reports the failure and sleeps before it tries again, an   *)
(* RTU thread frees its context and returns.                               *)
ConnectFails(t) ==
    /\ IF IsTcp(t)
       THEN Goto(t, "connect", "backoff") /\ UNCHANGED <<ctx, released>>
       ELSE Goto(t, "connect", "ended") /\ Releases(t, 1)
    /\ ReadsConfig(t)
    /\ UNCHANGED <<mainVars, mutex>>

Backoff(t) ==
    /\ Goto(t, "backoff", "connect")
    /\ UNCHANGED <<mainVars, ctx, released, mutex, stale>>

(* initScheduler returns 0, the loop begins.                               *)
InitOk(t) ==
    /\ t[2] \notin Idle
    /\ Goto(t, "init", "next")
    /\ ReadsConfig(t)
    /\ UNCHANGED <<mainVars, ctx, released, mutex>>

(* initScheduler returns -1.  Both threads call pthread_exit, which runs   *)
(* the cleanup handler; the RTU thread has freed its context before.       *)
InitFails(t) ==
    /\ MallocFails \/ t[2] \in Idle
    /\ Goto(t, "init", "ended")
    /\ Releases(t, IF IsTcp(t) THEN 1 ELSE 2)
    /\ ReadsConfig(t)
    /\ UNCHANGED <<mainVars, mutex>>

(* getNextEvent and the resets of the status bytes.                        *)
PickEvent(t) ==
    /\ Goto(t, "next", "wait")
    /\ ReadsConfig(t)
    /\ UNCHANGED <<mainVars, ctx, released, mutex>>

(* The two calls of clock_nanosleep.                                       *)
Sleep(t) ==
    /\ Goto(t, "wait", "lock")
    /\ UNCHANGED <<mainVars, ctx, released, mutex, stale>>

Fault_Lock_unchecked(t) ==
    /\ mutex' = t
    /\ Goto(t, "lock", "io")
    /\ ReadsConfig(t)
    /\ UNCHANGED <<mainVars, ctx, released>>

(* modbus_set_slave, then pthread_mutex_lock in processModbusAction, which *)
(* is not a cancellation point.                                            *)
Lock(t) ==
    /\ mutex = NoThread
    /\ mutex' = t
    /\ Goto(t, "lock", "io")
    /\ ReadsConfig(t)
    /\ UNCHANGED <<mainVars, ctx, released>>

(* The rest of processModbusAction, up to pthread_mutex_unlock.  A TCP     *)
(* thread that has seen too many errors closes the connection and starts   *)
(* over with modbus_connect.                                               *)
Process(t) ==
    /\ \/ Goto(t, "io", "next")
       \/ IsTcp(t) /\ Goto(t, "io", "connect")
    /\ mutex' = NoThread
    /\ ReadsConfig(t)
    /\ UNCHANGED <<mainVars, ctx, released>>

(* The places at which the thread is in, or calls, a cancellation point:   *)
(* sleeps, connection and bus I/O, access to /dev/piControl0, syslog.      *)
CancelPoint ==
    {"access", "connect", "backoff", "init", "next", "wait", "io"}

Fault_HandlerPushed_never(t) == FALSE

(* cleanupTcpMasterThread is pushed once the context exists, its RTU       *)
(* counterpart only once the serial line is open.                          *)
HandlerPushed(t) ==
    pc[t] \in {"init", "next", "wait", "lock", "io"}
              \cup (IF IsTcp(t) THEN {"connect", "backoff"} ELSE {})

(* A pending cancellation takes effect: the handler runs and the thread is *)
(* gone.  No handler unlocks mutex_modbus_context.                         *)
ActOnCancel(t) ==
    /\ t \in cancelled
    /\ pc[t] \in CancelPoint
    /\ Goto(t, pc[t], "ended")
    /\ IF HandlerPushed(t) THEN Releases(t, 1) ELSE UNCHANGED <<ctx, released>>
    /\ UNCHANGED <<mainVars, mutex, stale>>

Step(t) ==
    \/ Access(t) \/ SetPrio(t) \/ NewContext(t)
    \/ ConnectOk(t) \/ ConnectFails(t) \/ Backoff(t)
    \/ InitOk(t) \/ InitFails(t)
    \/ PickEvent(t) \/ Sleep(t) \/ Lock(t) \/ Process(t)

Next == Main \/ \E t \in Thread : Step(t) \/ ActOnCancel(t)

Spec == Init /\ [][Next]_vars

(* The kernel runs every thread that can run, a released mutex goes to any *)
(* waiter in the end, and a pending cancellation is acted on, at the       *)
(* latest, at the next cancellation point.  main progresses too, but no    *)
(* reset event need ever come.                                             *)
Fairness ==
    /\ WF_vars(Cancel \/ Free \/ \E l \in Configs : Parse(l))
    /\ WF_vars(\E ok \in BOOLEAN : Create(ok))
    /\ \A t \in Thread :
          WF_vars(Step(t)) /\ SF_vars(Lock(t)) /\ SF_vars(ActOnCancel(t))

FairSpec == Spec /\ Fairness
-----------------------------------------------------------------------------
Alive(t) == pc[t] \notin {"none", "ended"}

(* mutex_modbus_context excludes all device threads from each other's bus  *)
(* and process image accesses, those of an earlier generation included.    *)
MutualExclusion ==
    \A s, t \in Thread : pc[s] = "io" /\ pc[t] = "io" => s = t

(* Whatever interrupts a thread, its libmodbus context is freed at most    *)
(* once, and never while the thread goes on using it.                      *)
ContextReleasedOnce ==
    \A t \in Thread :
        /\ released[t] <= 1
        /\ pc[t] \in {"connect", "backoff", "init", "next", "wait", "lock", "io"}
             => ctx[t] = "live"

(* A TCP thread that has ended has no open connection left: its handler is *)
(* pushed before the first cancellation point after modbus_new_tcp_pi.     *)
NoTcpContextLeaked ==
    \A t \in Thread : IsTcp(t) /\ pc[t] = "ended" => ctx[t] # "live"

(* Configuration that has been freed (a parsed action that an event points *)
(* to, a status offset) is read by doomed threads only, never by one that  *)
(* goes on polling: main frees after it has cancelled each thread that     *)
(* pthread_create has started, so that no device is polled by two threads  *)
(* for good.  That the doomed ones can read it is a weakness of the code:  *)
(* main does not join them.                                                *)
OnlyDoomedReadFreedConfig == stale \subseteq cancelled

(* A device thread that has an event to serve gets to serve it, unless     *)
(* main cancels it: the command is sent again and again.                   *)
EventsAreServed ==
    \A t \in Thread :
        pc[t] = "next" ~> (pc[t] = "io" \/ t \in cancelled)
=============================================================================

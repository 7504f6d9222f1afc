------------------------ MODULE MasterProcessProofs -------------------------
(***************************************************************************)
(* Proofs of the safety properties of MasterProcess for any devices, any   *)
(* lists a parse can yield and any number of generations.                  *)
(***************************************************************************)
EXTENDS MasterProcess, TLAPS

(* Where main's loops over the list stand.                                 *)
MainInv ==
    /\ \A i, j \in 1 .. Len(list) : list[i] = list[j] => i = j
    /\ mainPc \in {"create", "cancel"} => pos <= Len(list)
    /\ mainPc \in {"cancel", "free"} => gen < MaxGen
    /\ \A g \in 1 .. MaxGen : config[g] = "freed" => g < gen

(* The threads of this generation are those of the list's entries main has *)
(* passed in its loop of pthread_create.                                   *)
StartedInv ==
    \A t \in started :
        /\ t[1] <= gen
        /\ t[1] = gen =>
              /\ mainPc # "parse"
              /\ \E i \in 1 .. Len(list) :
                    t[2] = list[i] /\ (mainPc = "create" => i < pos)

(* Main frees a configuration once every thread that may read it has been  *)
(* cancelled.                                                              *)
CancelledInv ==
    /\ \A t \in started : t[1] < gen => t \in cancelled
    /\ mainPc = "free" => \A t \in started : t[1] = gen => t \in cancelled
    /\ mainPc = "cancel" =>
          \A i \in 1 .. pos - 1 :
              <<gen, list[i]>> \in started => <<gen, list[i]>> \in cancelled

(* A thread that pthread_create has not started has done nothing.          *)
UnstartedInv ==
    \A t \in Thread \ started :
        pc[t] = "none" /\ ctx[t] = "none" /\ released[t] = 0

(* A thread is between lock and unlock only if it holds the mutex.         *)
MutexInv == \A t \in Thread : pc[t] = "io" => mutex = t

(* The libmodbus context along a thread's way.                             *)
ContextInv ==
    \A t \in Thread :
        /\ pc[t] \in {"access", "setprio", "new"} => ctx[t] = "none"
        /\ pc[t] \in {"connect", "backoff", "init", "next", "wait", "lock", "io"}
             => ctx[t] = "live"
        /\ ctx[t] # "freed" => released[t] = 0
        /\ IsTcp(t) /\ pc[t] = "ended" => ctx[t] # "live"

Inv ==
    /\ TypeOK
    /\ MainInv
    /\ StartedInv
    /\ CancelledInv
    /\ UnstartedInv
    /\ MutexInv
    /\ ContextInv
    /\ stale \subseteq cancelled
-----------------------------------------------------------------------------
(* The process before the first configuration is parsed.                   *)
LEMMA InitInv == Init => Inv
  <1> SUFFICES ASSUME Init PROVE Inv
    OBVIOUS
  <1> USE ProcessAssumption
  <1>1. TypeOK
    BY DEF Init, TypeOK
  <1>2. MainInv /\ StartedInv /\ CancelledInv
    BY DEF Init, MainInv, StartedInv, CancelledInv
  <1>3. UnstartedInv /\ MutexInv /\ ContextInv
    BY DEF Init, UnstartedInv, MutexInv, ContextInv
  <1> QED BY <1>1, <1>2, <1>3 DEF Init, Inv

(* The steps of main's loop.                                               *)
LEMMA ParseKeepsInv == ASSUME Inv, NEW l \in Configs, Parse(l) PROVE Inv'
  <1> USE ProcessAssumption
  <1>1. l \in Seq(Device) /\ Len(l) \in Nat /\ (l # << >> => Len(l) >= 1)
    OBVIOUS
  <1>2. TypeOK'
    BY <1>1 DEF Parse, Inv, TypeOK, threadVars
  <1>3. MainInv'
    BY <1>1 DEF Parse, Inv, TypeOK, MainInv
  <1>4. StartedInv' /\ CancelledInv'
    BY DEF Parse, Inv, TypeOK, StartedInv, CancelledInv
  <1>5. (UnstartedInv /\ MutexInv /\ ContextInv)'
    BY DEF Parse, Inv, UnstartedInv, MutexInv, ContextInv, threadVars, IsTcp
  <1> QED BY <1>2, <1>3, <1>4, <1>5 DEF Parse, Inv, threadVars

(* main starts the thread of the next entry of the list.                   *)
LEMMA CreateKeepsInv == ASSUME Inv, NEW ok \in BOOLEAN, Create(ok) PROVE Inv'
  <1> DEFINE t == <<gen, list[pos]>>
  <1> USE ProcessAssumption
  <1>1. /\ pos \in 1 .. Len(list) /\ Len(list) \in Nat
        /\ list[pos] \in Device /\ t \in Thread
    BY DEF Create, Inv, TypeOK, MainInv, Thread
  <1>2. t \notin started
    BY <1>1 DEF Create, Inv, TypeOK, MainInv, StartedInv
  <1>3. pc[t] = "none" /\ ctx[t] = "none" /\ released[t] = 0
    BY <1>1, <1>2 DEF Inv, UnstartedInv
  <1>4. /\ started' \in {started, started \cup {t}}
        /\ \/ started' = started /\ pc' = pc
           \/ /\ started' = started \cup {t}
              /\ pc' = [pc EXCEPT ![t] = IF IsTcp(t) THEN "setprio" ELSE "access"]
    BY DEF Create
  <1>5. pos' = pos + 1 /\ mainPc' = IF pos = Len(list) THEN "wait" ELSE "create"
    BY DEF Create
  <1>6. UNCHANGED <<gen, list, config, cancelled, ctx, released, mutex, stale>>
    BY DEF Create
  <1> HIDE DEF t
  <1>7. TypeOK'
    BY <1>1, <1>4, <1>5, <1>6 DEF Inv, TypeOK
  <1>8. MainInv'
    BY <1>1, <1>5, <1>6 DEF Inv, TypeOK, MainInv
  <1>9. StartedInv'
    BY <1>1, <1>4, <1>5, <1>6 DEF Create, Inv, TypeOK, StartedInv, t
  <1>10. CancelledInv'
    BY <1>1, <1>4, <1>5, <1>6 DEF Create, Inv, TypeOK, CancelledInv, t
  <1>11. (UnstartedInv /\ MutexInv /\ ContextInv)'
    BY <1>1, <1>3, <1>4, <1>6
    DEF Inv, TypeOK, UnstartedInv, MutexInv, ContextInv, IsTcp
  <1> QED BY <1>6, <1>7, <1>8, <1>9, <1>10, <1>11 DEF Inv

(* The driver is reset: main turns to cancelling.                          *)
LEMMA ResetKeepsInv == ASSUME Inv, Reset PROVE Inv'
  <1> USE ProcessAssumption
  <1>1. Len(list) \in Nat /\ (list # << >> => Len(list) >= 1)
    BY DEF Inv, TypeOK
  <1>2. TypeOK'
    BY <1>1 DEF Reset, Inv, TypeOK, threadVars
  <1>3. MainInv'
    BY <1>1 DEF Reset, Inv, TypeOK, MainInv
  <1>4. StartedInv'
    BY DEF Reset, Inv, StartedInv
  <1>5. CancelledInv'
    BY <1>1 DEF Reset, Inv, TypeOK, StartedInv, CancelledInv
  <1>6. (UnstartedInv /\ MutexInv /\ ContextInv)'
    BY DEF Reset, Inv, UnstartedInv, MutexInv, ContextInv, threadVars, IsTcp
  <1> QED BY <1>2, <1>3, <1>4, <1>5, <1>6 DEF Reset, Inv, threadVars

(* main cancels the thread of the next entry, if it was started.           *)
LEMMA CancelKeepsInv == ASSUME Inv, Cancel PROVE Inv'
  <1> DEFINE t == <<gen, list[pos]>>
  <1> USE ProcessAssumption
  <1>1. pos \in 1 .. Len(list) /\ Len(list) \in Nat
    BY DEF Cancel, Inv, TypeOK, MainInv
  <1>2. cancelled' = cancelled \cup ({t} \cap started)
    BY DEF Cancel
  <1>3. TypeOK'
    BY <1>1, <1>2 DEF Cancel, Inv, TypeOK, threadVars
  <1>4. MainInv'
    BY <1>1 DEF Cancel, Inv, TypeOK, MainInv
  <1>5. StartedInv'
    BY DEF Cancel, Inv, StartedInv
  <1>6. \A i \in 1 .. pos : <<gen, list[i]>> \in started => <<gen, list[i]>> \in cancelled'
    BY <1>1, <1>2 DEF Cancel, Inv, CancelledInv
  <1>7. ASSUME pos = Len(list), NEW s \in started, s[1] = gen PROVE s \in cancelled'
    <2>1. PICK i \in 1 .. Len(list) : s[2] = list[i]
      BY <1>7 DEF Inv, StartedInv
    <2>2. s = <<gen, list[i]>>
      BY <1>7, <2>1 DEF Inv, TypeOK, Thread
    <2> QED BY <1>6, <1>7, <2>2
  <1>8. CancelledInv'
    BY <1>1, <1>2, <1>6, <1>7 DEF Cancel, Inv, CancelledInv
  <1>9. (UnstartedInv /\ MutexInv /\ ContextInv)'
    BY DEF Cancel, Inv, UnstartedInv, MutexInv, ContextInv, threadVars, IsTcp
  <1> QED BY <1>2, <1>3, <1>4, <1>5, <1>8, <1>9 DEF Cancel, Inv, threadVars

(* main frees the configuration: all threads that can read it are          *)
(* cancelled by now.                                                       *)
LEMMA FreeKeepsInv == ASSUME Inv, Free PROVE Inv'
  <1> USE ProcessAssumption
  <1>1. TypeOK'
    BY DEF Free, Inv, TypeOK, MainInv, threadVars
  <1>2. MainInv'
    BY DEF Free, Inv, TypeOK, MainInv
  <1>3. StartedInv'
    BY DEF Free, Inv, TypeOK, Thread, StartedInv
  <1>4. CancelledInv'
    BY DEF Free, Inv, TypeOK, Thread, StartedInv, CancelledInv
  <1>5. (UnstartedInv /\ MutexInv /\ ContextInv)'
    BY DEF Free, Inv, UnstartedInv, MutexInv, ContextInv, threadVars, IsTcp
  <1> QED BY <1>1, <1>2, <1>3, <1>4, <1>5 DEF Free, Inv, threadVars

-----------------------------------------------------------------------------
(* A thread that is past pthread_create, and reads its configuration after *)
(* main has freed it, has been cancelled.                                  *)
LEMMA ReaderOfFreedIsDoomed ==
    ASSUME Inv, NEW t \in Thread, pc[t] # "none", config[t[1]] = "freed"
    PROVE  t \in cancelled
  <1>1. t \in started
    BY DEF Inv, UnstartedInv
  <1>2. t[1] \in 1 .. MaxGen
    BY DEF Thread
  <1>3. t[1] < gen
    BY <1>2 DEF Inv, MainInv
  <1> QED BY <1>1, <1>3 DEF Inv, CancelledInv

(* A step that reads the configuration adds to the readers of freed memory *)
(* only cancelled threads.                                                 *)
LEMMA ReadsConfigKeepsDoomed ==
    ASSUME Inv, NEW t \in Thread, pc[t] # "none", ReadsConfig(t)
    PROVE  stale' \subseteq cancelled /\ stale' \subseteq Thread
  BY ReaderOfFreedIsDoomed DEF ReadsConfig, Inv, TypeOK

(* What a step of a device thread has to establish: it moves no other      *)
(* thread, and the parts of the invariant about main are not touched.      *)
LEMMA ThreadStepKeepsInv ==
    ASSUME Inv, NEW t \in Thread, NEW to,
           pc[t] # "none", pc' = [pc EXCEPT ![t] = to],
           UNCHANGED mainVars, TypeOK', stale' \subseteq cancelled,
           \A u \in Thread \ {t} : ctx'[u] = ctx[u] /\ released'[u] = released[u],
           MutexInv', ContextInv'
    PROVE  Inv'
  <1>1. (MainInv /\ StartedInv /\ CancelledInv)'
    BY DEF Inv, MainInv, StartedInv, CancelledInv, mainVars
  <1>2. UnstartedInv'
    BY DEF Inv, TypeOK, UnstartedInv, mainVars
  <1> QED BY <1>1, <1>2 DEF Inv, mainVars

(* The steps of the device threads: one for each action of Step and for    *)
(* the cancellation.                                                       *)
LEMMA StepKeepsInv ==
    ASSUME Inv, NEW t \in Thread, Step(t) \/ ActOnCancel(t)
    PROVE  Inv'
  <1> USE ProcessAssumption
  <1>1. CASE Access(t)
    <2>1. PICK to \in {"access", "setprio"} : Goto(t, "access", to)
      BY <1>1 DEF Access
    <2>2. stale' \subseteq cancelled /\ stale' \subseteq Thread
      BY <1>1, <2>1, ReadsConfigKeepsDoomed DEF Access, Goto
    <2>3. (TypeOK /\ MutexInv /\ ContextInv)'
      BY <1>1, <2>1, <2>2
      DEF Access, Goto, mainVars, Inv, TypeOK, MutexInv, ContextInv, IsTcp
    <2> QED BY <1>1, <2>1, <2>2, <2>3, ThreadStepKeepsInv DEF Access, Goto
  <1>2. CASE SetPrio(t)
    <2>1. PICK to \in {"new", "ended"} : Goto(t, "setprio", to)
      BY <1>2 DEF SetPrio
    <2>2. stale' \subseteq cancelled /\ stale' \subseteq Thread
      <3>1. UNCHANGED stale \/ ReadsConfig(t)
        BY <1>2 DEF SetPrio
      <3>2. pc[t] # "none"
        BY <2>1 DEF Goto
      <3> QED BY <3>1, <3>2, ReadsConfigKeepsDoomed DEF Inv, TypeOK
    <2>3. (TypeOK /\ MutexInv /\ ContextInv)'
      BY <1>2, <2>1, <2>2
      DEF SetPrio, Goto, mainVars, Inv, TypeOK, MutexInv, ContextInv, IsTcp
    <2> QED
      BY <1>2, <2>1, <2>2, <2>3, ThreadStepKeepsInv DEF SetPrio, Goto, Inv, TypeOK
  <1>3. CASE NewContext(t)
    <2>1. PICK to \in {"connect", "ended"} : Goto(t, "new", to)
      BY <1>3 DEF NewContext
    <2>2. stale' \subseteq cancelled /\ stale' \subseteq Thread
      BY <1>3, <2>1, ReadsConfigKeepsDoomed DEF NewContext, Goto
    <2>3. (TypeOK /\ MutexInv /\ ContextInv)'
      BY <1>3, <2>1, <2>2
      DEF NewContext, Goto, mainVars, Inv, TypeOK, MutexInv, ContextInv, IsTcp
    <2>4. \A u \in Thread \ {t} : ctx'[u] = ctx[u] /\ released'[u] = released[u]
      BY <1>3 DEF NewContext, Inv, TypeOK
    <2>5. UNCHANGED mainVars
      BY <1>3 DEF NewContext
    <2> QED
      BY <2>1, <2>2, <2>3, <2>4, <2>5, ThreadStepKeepsInv DEF Goto
  <1>4. CASE ConnectOk(t)
    <2>1. Goto(t, "connect", "init")
      BY <1>4 DEF ConnectOk
    <2>2. stale' \subseteq cancelled /\ stale' \subseteq Thread
      BY <1>4 DEF ConnectOk, Inv, TypeOK
    <2>3. (TypeOK /\ MutexInv /\ ContextInv)'
      BY <1>4, <2>1, <2>2
      DEF ConnectOk, Goto, mainVars, Inv, TypeOK, MutexInv, ContextInv, IsTcp
    <2> QED
      BY <1>4, <2>1, <2>2, <2>3, ThreadStepKeepsInv DEF ConnectOk, Goto, Inv, TypeOK
  <1>5. CASE ConnectFails(t)
    <2>1. PICK to \in {"backoff", "ended"} : Goto(t, "connect", to)
      BY <1>5 DEF ConnectFails
    <2>2. stale' \subseteq cancelled /\ stale' \subseteq Thread
      BY <1>5, <2>1, ReadsConfigKeepsDoomed DEF ConnectFails, Goto
    <2>3. (TypeOK /\ MutexInv /\ ContextInv)'
      <3>1. released[t] = 0 /\ ctx[t] = "live"
        BY <2>1 DEF Goto, Inv, ContextInv
      <3>2. CASE IsTcp(t)
        BY <1>5, <2>1, <2>2, <3>2
        DEF ConnectFails, Goto, mainVars, Inv, TypeOK, MutexInv, ContextInv, IsTcp
      <3>3. CASE ~IsTcp(t)
        BY <1>5, <2>1, <2>2, <3>1, <3>3
        DEF ConnectFails, Releases, Goto, mainVars, Inv, TypeOK, MutexInv,
            ContextInv, IsTcp
      <3> QED BY <3>2, <3>3
    <2>4. \A u \in Thread \ {t} : ctx'[u] = ctx[u] /\ released'[u] = released[u]
      BY <1>5 DEF ConnectFails, Releases, Inv, TypeOK
    <2>5. UNCHANGED mainVars
      BY <1>5 DEF ConnectFails
    <2> QED
      BY <2>1, <2>2, <2>3, <2>4, <2>5, ThreadStepKeepsInv DEF Goto
  <1>6. CASE Backoff(t)
    <2>1. Goto(t, "backoff", "connect")
      BY <1>6 DEF Backoff
    <2>2. stale' \subseteq cancelled /\ stale' \subseteq Thread
      BY <1>6 DEF Backoff, Inv, TypeOK
    <2>3. (TypeOK /\ MutexInv /\ ContextInv)'
      BY <1>6, <2>1, <2>2
      DEF Backoff, Goto, mainVars, Inv, TypeOK, MutexInv, ContextInv, IsTcp
    <2> QED
      BY <1>6, <2>1, <2>2, <2>3, ThreadStepKeepsInv DEF Backoff, Goto, Inv, TypeOK
  <1>7. CASE InitOk(t)
    <2>1. Goto(t, "init", "next")
      BY <1>7 DEF InitOk
    <2>2. stale' \subseteq cancelled /\ stale' \subseteq Thread
      BY <1>7, <2>1, ReadsConfigKeepsDoomed DEF InitOk, Goto
    <2>3. (TypeOK /\ MutexInv /\ ContextInv)'
      BY <1>7, <2>1, <2>2
      DEF InitOk, Goto, mainVars, Inv, TypeOK, MutexInv, ContextInv, IsTcp
    <2> QED
      BY <1>7, <2>1, <2>2, <2>3, ThreadStepKeepsInv DEF InitOk, Goto, Inv, TypeOK
  <1>8. CASE InitFails(t)
    <2>1. Goto(t, "init", "ended")
      BY <1>8 DEF InitFails
    <2>2. stale' \subseteq cancelled /\ stale' \subseteq Thread
      BY <1>8, <2>1, ReadsConfigKeepsDoomed DEF InitFails, Goto
    <2>3. (TypeOK /\ MutexInv /\ ContextInv)'
      BY <1>8, <2>1, <2>2
      DEF InitFails, Releases, Goto, mainVars, Inv, TypeOK, MutexInv, ContextInv, IsTcp
    <2>4. \A u \in Thread \ {t} : ctx'[u] = ctx[u] /\ released'[u] = released[u]
      BY <1>8 DEF InitFails, Releases, Inv, TypeOK
    <2>5. UNCHANGED mainVars
      BY <1>8 DEF InitFails
    <2> QED
      BY <2>1, <2>2, <2>3, <2>4, <2>5, ThreadStepKeepsInv DEF Goto
  <1>9. CASE PickEvent(t)
    <2>1. Goto(t, "next", "wait")
      BY <1>9 DEF PickEvent
    <2>2. stale' \subseteq cancelled /\ stale' \subseteq Thread
      BY <1>9, <2>1, ReadsConfigKeepsDoomed DEF PickEvent, Goto
    <2>3. (TypeOK /\ MutexInv /\ ContextInv)'
      BY <1>9, <2>1, <2>2
      DEF PickEvent, Goto, mainVars, Inv, TypeOK, MutexInv, ContextInv, IsTcp
    <2> QED
      BY <1>9, <2>1, <2>2, <2>3, ThreadStepKeepsInv DEF PickEvent, Goto, Inv, TypeOK
  <1>10. CASE Sleep(t)
    <2>1. Goto(t, "wait", "lock")
      BY <1>10 DEF Sleep
    <2>2. stale' \subseteq cancelled /\ stale' \subseteq Thread
      BY <1>10 DEF Sleep, Inv, TypeOK
    <2>3. (TypeOK /\ MutexInv /\ ContextInv)'
      BY <1>10, <2>1, <2>2
      DEF Sleep, Goto, mainVars, Inv, TypeOK, MutexInv, ContextInv, IsTcp
    <2> QED
      BY <1>10, <2>1, <2>2, <2>3, ThreadStepKeepsInv DEF Sleep, Goto, Inv, TypeOK
  <1>11. CASE Lock(t)
    <2>1. Goto(t, "lock", "io")
      BY <1>11 DEF Lock
    <2>2. stale' \subseteq cancelled /\ stale' \subseteq Thread
      BY <1>11, <2>1, ReadsConfigKeepsDoomed DEF Lock, Goto
    <2>3. (TypeOK /\ MutexInv /\ ContextInv)'
      BY <1>11, <2>1, <2>2
      DEF Lock, Goto, mainVars, Inv, TypeOK, MutexInv, ContextInv, IsTcp, Thread
    <2> QED
      BY <1>11, <2>1, <2>2, <2>3, ThreadStepKeepsInv DEF Lock, Goto, Inv, TypeOK
  <1>12. CASE Process(t)
    <2>1. PICK to \in {"next", "connect"} : Goto(t, "io", to)
      BY <1>12 DEF Process
    <2>2. stale' \subseteq cancelled /\ stale' \subseteq Thread
      BY <1>12, <2>1, ReadsConfigKeepsDoomed DEF Process, Goto
    <2>3. (TypeOK /\ MutexInv /\ ContextInv)'
      BY <1>12, <2>1, <2>2
      DEF Process, Goto, mainVars, Inv, TypeOK, MutexInv, ContextInv, IsTcp
    <2> QED
      BY <1>12, <2>1, <2>2, <2>3, ThreadStepKeepsInv DEF Process, Goto, Inv, TypeOK
  <1>13. CASE ActOnCancel(t)
    <2>1. Goto(t, pc[t], "ended") /\ pc[t] \in CancelPoint
      BY <1>13 DEF ActOnCancel
    <2>2. stale' \subseteq cancelled /\ stale' \subseteq Thread
      BY <1>13 DEF ActOnCancel, Inv, TypeOK
    <2>3. (TypeOK /\ MutexInv /\ ContextInv)'
      BY <1>13, <2>1, <2>2
      DEF ActOnCancel, Releases, HandlerPushed, CancelPoint, Goto, mainVars, Inv, TypeOK, MutexInv, ContextInv, IsTcp
    <2>4. \A u \in Thread \ {t} : ctx'[u] = ctx[u] /\ released'[u] = released[u]
      BY <1>13 DEF ActOnCancel, Releases, Inv, TypeOK
    <2>5. UNCHANGED mainVars
      BY <1>13 DEF ActOnCancel
    <2> QED
      BY <2>1, <2>2, <2>3, <2>4, <2>5, ThreadStepKeepsInv DEF Goto, CancelPoint
  <1> QED
    BY <1>1, <1>2, <1>3, <1>4, <1>5, <1>6, <1>7, <1>8, <1>9, <1>10, <1>11,
       <1>12, <1>13
    DEF Step
-----------------------------------------------------------------------------
(* Inv is inductive.                                                       *)
LEMMA NextKeepsInv == Inv /\ [Next]_vars => Inv'
  <1> SUFFICES ASSUME Inv, [Next]_vars PROVE Inv'
    OBVIOUS
  <1>1. CASE Main
    BY <1>1, ParseKeepsInv, CreateKeepsInv, ResetKeepsInv, CancelKeepsInv,
       FreeKeepsInv
    DEF Main
  <1>2. CASE \E t \in Thread : Step(t) \/ ActOnCancel(t)
    BY <1>2, StepKeepsInv
  <1>3. CASE UNCHANGED vars
    BY <1>3
    DEF vars, mainVars, threadVars, Inv, TypeOK, MainInv, StartedInv,
        CancelledInv, UnstartedInv, MutexInv, ContextInv, IsTcp
  <1> QED BY <1>1, <1>2, <1>3 DEF Next

(* main and any number of generations of device threads keep the inductive *)
(* invariant, wherever a cancellation or a failure strikes.                *)
THEOREM ProcessInvariant == Spec => []Inv
  BY InitInv, NextKeepsInv, PTL DEF Spec

(* The loops of main stay within the list, and only a thread that          *)
(* pthread_create has started is cancelled (main of piModbusMaster).       *)
THEOREM ProcessTypeCorrect == Spec => []TypeOK
  <1>1. Inv => TypeOK
    BY DEF Inv
  <1> QED BY <1>1, ProcessInvariant, PTL

(* No two device threads, of whatever generations, are at the bus and the  *)
(* process image at once (processModbusAction).                            *)
THEOREM BusIsExclusive == Spec => []MutualExclusion
  <1>1. Inv => MutualExclusion
    BY DEF Inv, MutexInv, MutualExclusion
  <1> QED BY <1>1, ProcessInvariant, PTL

(* A TCP thread never ends with an open context, whether it returns, fails *)
(* or is cancelled (cleanupTcpMasterThread).                               *)
THEOREM NoTcpLeak == Spec => []NoTcpContextLeaked
  <1>1. Inv => NoTcpContextLeaked
    BY DEF Inv, ContextInv, NoTcpContextLeaked
  <1> QED BY <1>1, ProcessInvariant, PTL

(* Configuration that main has freed is read by cancelled threads only     *)
(* (the reset in main's loop).                                             *)
THEOREM FreedConfigOnlyReadByDoomed == Spec => []OnlyDoomedReadFreedConfig
  <1>1. Inv => OnlyDoomedReadFreedConfig
    BY DEF Inv, OnlyDoomedReadFreedConfig
  <1> QED BY <1>1, ProcessInvariant, PTL

-----------------------------------------------------------------------------
(* No RTU thread ends in a failed initScheduler, after which the code      *)
(* frees the context twice: memory suffices, and every RTU device has an   *)
(* action.                                                                 *)
RtuSchedulersStart == ~MallocFails /\ Idle \subseteq Tcp

(* A context that has been released has been released once, by a thread    *)
(* that has ended.                                                         *)
ReleasedInv == \A t \in Thread : released[t] <= 1

(* No thread releases its context twice if no RTU thread ends because its  *)
(* list of events stayed empty.                                            *)
LEMMA NextKeepsReleased ==
    ASSUME RtuSchedulersStart, Inv, ReleasedInv, [Next]_vars
    PROVE  ReleasedInv'
  <1>1. CASE Main \/ UNCHANGED vars
    BY <1>1
    DEF Main, Parse, Create, Reset, Cancel, Free, vars, threadVars, ReleasedInv
  <1>2. ASSUME NEW t \in Thread, Step(t) \/ ActOnCancel(t) PROVE ReleasedInv'
    <2>1. CASE released' = released
      BY <2>1 DEF ReleasedInv
    <2>2. CASE Releases(t, 1) /\ pc[t] # "ended" /\ HandlerPushed(t)
      <3>1. released[t] = 0
        BY <2>2 DEF HandlerPushed, Inv, ContextInv
      <3> QED BY <2>2, <3>1 DEF Releases, Inv, TypeOK, ReleasedInv
    <2>3. CASE ConnectFails(t)
      <3>1. released[t] = 0
        BY <2>3 DEF ConnectFails, Goto, Inv, ContextInv
      <3> QED
        BY <2>3, <3>1 DEF ConnectFails, Releases, Inv, TypeOK, ReleasedInv
    <2>4. CASE InitFails(t)
      <3>1. IsTcp(t)
        BY <2>4 DEF InitFails, RtuSchedulersStart, IsTcp
      <3>2. released[t] = 0
        BY <2>4 DEF InitFails, Goto, Inv, ContextInv
      <3> QED
        BY <2>4, <3>1, <3>2 DEF InitFails, Releases, Inv, TypeOK, ReleasedInv
    <2> QED
      BY <1>2, <2>1, <2>2, <2>3, <2>4
      DEF Step, Access, SetPrio, NewContext, ConnectOk, Backoff, InitOk,
          PickEvent, Sleep, Lock, Process, ActOnCancel, CancelPoint
  <1> QED BY <1>1, <1>2 DEF Next

(* modbus_free is called at most once for the context of a thread, and     *)
(* never before its last use, unless initScheduler fails in an RTU thread  *)
(* (the exits of both threads and their cleanup handlers).                 *)
THEOREM ContextIsReleasedOnce ==
    RtuSchedulersStart => (Spec => []ContextReleasedOnce)
  <1> SUFFICES ASSUME RtuSchedulersStart PROVE Spec => []ContextReleasedOnce
    OBVIOUS
  <1>1. Init => ReleasedInv
    BY DEF Init, ReleasedInv
  <1>2. Inv /\ ReleasedInv /\ [Next]_vars => ReleasedInv'
    BY NextKeepsReleased
  <1>3. Inv /\ ReleasedInv => ContextReleasedOnce
    BY DEF Inv, ContextInv, ReleasedInv, ContextReleasedOnce
  <1> QED BY <1>1, <1>2, <1>3, ProcessInvariant, PTL DEF Spec
=============================================================================

---------------------------- MODULE MasterStatus ----------------------------
(***************************************************************************)
(* The status bytes and reset bits of one Modbus master in the process     *)
(* image, which its device thread and the PLC program share without a      *)
(* lock: every access of the thread is one call of piControl, which can    *)
(* fail, and the PLC writes the reset bits between any two of them.        *)
(*                                                                         *)
(* Each action has a status byte and a reset bit, and so has the virtual   *)
(* device itself.  Which action is next is left open here; Scheduler says  *)
(* that each is picked again and again.                                    *)
(***************************************************************************)
EXTENDS Integers, FiniteSets

CONSTANTS Action,        \* the actions of the device
          Device,        \* the virtual device
          Modes,         \* the configurations and environments considered
          MaxErr,        \* 100: err_cnt above it restarts the connection
          Error          \* the error codes of an action

(* EModbusErrors; the status byte of an action holds a member of Error.    *)
eNoError == 0
eNoDevice == 16
eNoResponseFromDevice == 17
eInternalError == 240

ASSUME StatusAssumption ==
    /\ Action # {} /\ IsFiniteSet(Action) /\ Device \notin Action
    /\ Modes \subseteq [tcp: BOOLEAN, linkRecovery: BOOLEAN,
                         initFails: BOOLEAN, imageFails: BOOLEAN,
                         unsent: SUBSET Action]
    /\ MaxErr \in Nat
    /\ Error \subseteq 1 .. 255 /\ Error # {}

Unit == Action \cup {Device}

VARIABLES
    mode,     \* the member of Modes that holds; it never changes
    pc,       \* where the thread is
    cur,      \* nextEvent.ptModbusAction
    toCheck,  \* the units whose reset bit is still to be looked at
    unit,     \* the unit reset_modbus_action_status is called for
    errCnt,   \* err_cnt of the TCP thread
    link,     \* the TCP connection or serial line: "down", "up" or "lost"
    status,   \* the status byte of each unit
    bit,      \* the reset bit of each unit
    asked     \* auxiliary: units whose reset bit was set since their last error

threadVars == <<pc, cur, toCheck, unit, errCnt>>
vars == <<mode, threadVars, link, status, bit, asked>>

Tcp == mode.tcp                    \* a TCP or an RTU master
LinkRecovery == mode.linkRecovery  \* MODBUS_ERROR_RECOVERY_LINK (not STRETCH)
InitFails == mode.initFails        \* the set-up before the loop can fail
ImageFails == mode.imageFails      \* a call of piControl can fail

(* The actions whose function code the parser accepts, as one of 1 to 22,  *)
(* and for which processModbusAction has no call of libmodbus.             *)
Unsent == mode.unsent

TypeOK ==
    /\ mode \in Modes
    /\ pc \in {"start", "open", "backoff", "init", "online", "pick", "check",
               "clear", "ack", "exec", "ended"}
    /\ cur \in Unit
    /\ toCheck \subseteq Unit
    /\ unit \in Unit
    /\ errCnt \in 0 .. MaxErr
    /\ link \in {"down", "up", "lost"}
    /\ status \in [Unit -> {eNoError, eNoDevice, eNoResponseFromDevice,
                            eInternalError} \cup Error]
    /\ bit \in [Unit -> BOOLEAN]
    /\ asked \subseteq Unit

(* The driver hands the thread a process image of zeros.                   *)
Init ==
    /\ mode \in Modes
    /\ pc = "start" /\ cur = Device /\ toCheck = {} /\ unit = Device /\ errCnt = 0
    /\ link = "down"
    /\ status = [x \in Unit |-> eNoError]
    /\ bit = [x \in Unit |-> FALSE]
    /\ asked = {}
-----------------------------------------------------------------------------
(* writeErrorMessage: piControlWrite of one byte, its failure is ignored.  *)
writeErrorMessage(x, code) ==
    \/ /\ status' = [status EXCEPT ![x] = code]
       /\ asked' = IF code # eNoError /\ ~bit[x] THEN asked \ {x} ELSE asked
    \/ ImageFails /\ UNCHANGED <<status, asked>>

(* setprio, then modbus_new_tcp_pi or modbus_new_rtu.                      *)
StartOk ==
    /\ pc = "start" /\ pc' = "open"
    /\ UNCHANGED <<cur, toCheck, unit, errCnt, link, status, bit, asked>>

StartFails ==
    /\ InitFails
    /\ pc = "start" /\ pc' = "ended"
    /\ \E code \in {eInternalError, eNoDevice} : writeErrorMessage(Device, code)
    /\ UNCHANGED <<cur, toCheck, unit, errCnt, link, bit>>

ConnectOk ==
    /\ pc = "open" /\ pc' = "init"
    /\ link' = "up"
    /\ UNCHANGED <<cur, toCheck, unit, errCnt, status, bit, asked>>

(* The TCP thread sleeps and tries again, the RTU thread returns.          *)
ConnectFails ==
    /\ pc = "open" /\ pc' = IF Tcp THEN "backoff" ELSE "ended"
    /\ link' = "down"
    /\ writeErrorMessage(Device, eNoResponseFromDevice)
    /\ UNCHANGED <<cur, toCheck, unit, errCnt, bit>>

Backoff ==
    /\ pc = "backoff" /\ pc' = "open"
    /\ UNCHANGED <<cur, toCheck, unit, errCnt, link, status, bit, asked>>

(* initScheduler and the timeouts; err_cnt starts at 0.                    *)
InitOk ==
    /\ pc = "init" /\ pc' = "online"
    /\ errCnt' = 0
    /\ UNCHANGED <<cur, toCheck, unit, link, status, bit, asked>>

InitFailed ==
    /\ InitFails
    /\ pc = "init" /\ pc' = "ended"
    /\ writeErrorMessage(Device, eInternalError)
    /\ UNCHANGED <<cur, toCheck, unit, errCnt, link, bit>>

Fault_Online_silent ==
    /\ pc = "online" /\ pc' = "pick"
    /\ UNCHANGED <<cur, toCheck, unit, errCnt, link, status, bit, asked>>

Online ==
    /\ pc = "online" /\ pc' = "pick"
    /\ writeErrorMessage(Device, eNoError)
    /\ UNCHANGED <<cur, toCheck, unit, errCnt, link, bit>>

(* getNextEvent.  The TCP thread then looks at the reset bit of that       *)
(* action, the RTU thread at those of all actions, both at the device's.   *)
Pick(a) ==
    /\ pc = "pick" /\ pc' = "check"
    /\ cur' = a
    /\ toCheck' = IF Tcp THEN {a, Device} ELSE Unit
    /\ UNCHANGED <<unit, errCnt, link, status, bit, asked>>

(* The device's reset bit is the last one to be looked at.                 *)
IsNextCheck(x) == x \in toCheck /\ (x = Device => toCheck = {Device})

(* reset_modbus_action_status returns, and the next one is called if any.  *)
NextCheck(rest) == pc' = IF rest = {} THEN "exec" ELSE "check"

Fault_Check_allUnits(x) ==
    /\ pc = "check" /\ IsNextCheck(x)
    /\ unit' = x
    /\ toCheck' = toCheck \ {x}
    /\ \/ (\E y \in toCheck : bit[y]) /\ pc' = "clear"
       \/ (\A y \in toCheck : ~bit[y]) /\ NextCheck(toCheck \ {x})
       \/ ImageFails /\ NextCheck(toCheck \ {x})
    /\ UNCHANGED <<cur, errCnt, link, status, bit, asked>>

(* reset_modbus_action_status, up to the test of the bit it has read.      *)
Check(x) ==
    /\ pc = "check" /\ IsNextCheck(x)
    /\ unit' = x
    /\ toCheck' = toCheck \ {x}
    /\ \/ bit[x] /\ pc' = "clear"
       \/ ~bit[x] /\ NextCheck(toCheck \ {x})
       \/ ImageFails /\ NextCheck(toCheck \ {x})
    /\ UNCHANGED <<cur, errCnt, link, status, bit, asked>>

Fault_Clear_unchecked ==
    /\ pc = "clear"
    /\ \/ status' = [status EXCEPT ![unit] = eNoError]
       \/ ImageFails /\ UNCHANGED status
    /\ pc' = "ack"
    /\ UNCHANGED <<cur, toCheck, unit, errCnt, link, bit, asked>>

(* It writes zero to the status byte, and goes on only if that succeeded.  *)
Clear ==
    /\ pc = "clear"
    /\ \/ status' = [status EXCEPT ![unit] = eNoError] /\ pc' = "ack"
       \/ ImageFails /\ NextCheck(toCheck) /\ UNCHANGED status
    /\ UNCHANGED <<cur, toCheck, unit, errCnt, link, bit, asked>>

Fault_Ack_keepsBit ==
    /\ pc = "ack"
    /\ NextCheck(toCheck)
    /\ UNCHANGED <<cur, toCheck, unit, errCnt, link, status, bit, asked>>

(* It clears the reset bit.                                                *)
Ack ==
    /\ pc = "ack"
    /\ \/ bit' = [bit EXCEPT ![unit] = FALSE]
       \/ ImageFails /\ UNCHANGED bit
    /\ NextCheck(toCheck)
    /\ UNCHANGED <<cur, toCheck, unit, errCnt, link, status, asked>>

(* processModbusAction returns a non-negative length: the command went     *)
(* well, or it never left, because it is of no function that is sent or    *)
(* because the process image could not be read.                            *)
ExecOk ==
    /\ pc = "exec" /\ pc' = "pick"
    /\ link = "up" \/ cur \in Unsent \/ ImageFails
    /\ errCnt' = 0
    /\ UNCHANGED <<cur, toCheck, unit, link, status, bit, asked>>

Fault_ExecFails_neverRestarts(e) ==
    /\ pc = "exec" /\ pc' = "pick" /\ cur \notin Unsent
    /\ writeErrorMessage(cur, e)
    /\ link' \in {link} \cup (IF LinkRecovery THEN {"up"} ELSE {})
    /\ UNCHANGED <<cur, toCheck, unit, errCnt, bit>>

Fault_ExecFails_oneMore(e) ==
    /\ pc = "exec" /\ cur \notin Unsent
    /\ writeErrorMessage(cur, e)
    /\ IF Tcp /\ errCnt > MaxErr
       THEN pc' = "open" /\ link' = "down" /\ UNCHANGED errCnt
       ELSE /\ pc' = "pick"
            /\ UNCHANGED link
            /\ errCnt' = IF Tcp THEN errCnt + 1 ELSE errCnt
    /\ UNCHANGED <<cur, toCheck, unit, bit>>

(* It fails: the action's status byte gets the error.  With LinkRecovery   *)
(* libmodbus reconnects by itself.  Only the TCP thread counts errors, and *)
(* closes the connection when there were more than MaxErr in a row.        *)
ExecFails(e) ==
    /\ pc = "exec" /\ cur \notin Unsent
    /\ writeErrorMessage(cur, e)
    /\ IF Tcp /\ errCnt = MaxErr
       THEN pc' = "open" /\ link' = "down" /\ UNCHANGED errCnt
       ELSE /\ pc' = "pick"
            /\ link' \in {link} \cup (IF LinkRecovery THEN {"up"} ELSE {})
            /\ errCnt' = IF Tcp THEN errCnt + 1 ELSE errCnt
    /\ UNCHANGED <<cur, toCheck, unit, bit>>

ThreadStep ==
    \/ StartOk \/ StartFails
    \/ ConnectOk \/ ConnectFails \/ Backoff
    \/ InitOk \/ InitFailed \/ Online
    \/ \E a \in Action : Pick(a)
    \/ \E x \in Unit : Check(x)
    \/ Clear \/ Ack
    \/ ExecOk
    \/ \E e \in Error : ExecFails(e)
-----------------------------------------------------------------------------
(* The PLC program sets or withdraws a reset bit.                          *)
PlcWrites(x) ==
    /\ bit' = [bit EXCEPT ![x] = ~@]
    /\ asked' = asked \cup {x}
    /\ UNCHANGED <<threadVars, link, status>>

(* The peer or the cabling goes away.                                      *)
LinkBreaks ==
    /\ link = "up" /\ link' = "lost"
    /\ UNCHANGED <<threadVars, status, bit, asked>>

Next ==
    /\ \/ ThreadStep
       \/ \E x \in Unit : PlcWrites(x)
       \/ LinkBreaks
    /\ UNCHANGED mode

Spec == Init /\ [][Next]_vars

(* The thread runs, and a peer that is tried for ever is there in the end. *)
(* While a connection lasts the due date of a pending action stays where   *)
(* it is and the clock gets there, so that the action is picked.  A new    *)
(* connection moves all due dates (initScheduler): an action whose         *)
(* interval is longer than each connection may never have its turn.        *)
Fairness ==
    /\ WF_vars(ThreadStep /\ UNCHANGED mode)
    /\ SF_vars(ConnectOk /\ UNCHANGED mode)
    /\ \A a \in Action : []<>(pc = "init") \/ SF_vars(Pick(a) /\ UNCHANGED mode)

FairSpec == Spec /\ Fairness
-----------------------------------------------------------------------------
InLoop == pc \in {"pick", "check", "clear", "ack", "exec"}

(* The PLC may take a cleared reset bit as the acknowledgement of its      *)
(* request: the thread clears the bit only after the status byte, and      *)
(* leaves it alone when a call of piControl failed before.                 *)
AckMeansCleared ==
    [][\A x \in Unit :
           bit[x] /\ ~bit'[x] /\ pc' # pc => status[x] = eNoError]_vars

(* No error is lost silently: a status byte goes back to zero only if its  *)
(* reset bit was set after the error had been written, or, for the device, *)
(* because the connection is there again; not by a success, a retry or     *)
(* another unit's reset.                                                   *)
ErrorStaysUntilReset ==
    [][\A x \in Unit :
           status[x] # eNoError /\ status'[x] = eNoError
             => x \in asked \/ (x = Device /\ pc = "online")]_vars

(* While the process image can be written, a device that polls its slaves  *)
(* shows no connection error left over from before.                        *)
OnlineMeansNoError == InLoop /\ ~ImageFails => status[Device] = eNoError

Undisturbed == ~InitFails /\ ~ImageFails

(* A TCP master honours reset requests in the end, while the process image *)
(* can be accessed: a bit, once set, is cleared.  That of the device is    *)
(* looked at with every command and so is cleared however often the        *)
(* connection is lost; that of an action may have to wait for a connection *)
(* that lasts, and is left set for ever only if connections are made again *)
(* and again.  An RTU master that cannot open its line at the start honours*)
(* none: its thread ends.                                                  *)
TcpHonoursResets ==
    \A x \in Unit :
        bit[x] /\ Tcp /\ Undisturbed ~> ~bit[x] \/ (x # Device /\ pc = "init")

(* A lost TCP connection is not kept for good: the errors add up until the *)
(* thread opens it again, or libmodbus does.  Only an action that is never *)
(* sent can keep them from adding up: it counts as a success whatever the  *)
(* link, and has to be executed again and again to prevent the restart.    *)
LostLinkReopened ==
    link = "lost" /\ Tcp /\ Undisturbed ~> link = "up" \/ cur \in Unsent
=============================================================================

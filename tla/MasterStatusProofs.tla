------------------------- MODULE MasterStatusProofs -------------------------
(***************************************************************************)
(* Proofs of the safety and action properties of MasterStatus for any      *)
(* actions, error codes and limit of errors.                               *)
(***************************************************************************)
EXTENDS MasterStatus, TLAPS

(* What a set reset bit means: it was set since the unit's last error.     *)
ResetInv ==
    /\ \A x \in Unit : bit[x] => x \in asked
    /\ pc = "clear" => unit \in asked
    /\ pc = "ack" => status[unit] = eNoError

(* A polling thread has cleared the device's status byte, and writes the   *)
(* errors of a command to the byte of its action.                          *)
OnlineInv ==
    /\ pc \in {"check", "clear", "ack", "exec"} => cur \in Action
    /\ OnlineMeansNoError

Inv == TypeOK /\ ResetInv /\ OnlineInv

-----------------------------------------------------------------------------
(* The status bytes as the parser leaves them.                             *)
LEMMA InitInv == Init => Inv
  BY StatusAssumption
  DEF Init, Inv, TypeOK, ResetInv, OnlineInv, OnlineMeansNoError, InLoop, Unit

(* What is left of the invariant when a unit's status byte gets an error   *)
(* code, or writing it fails.                                              *)
LEMMA WriteError ==
    ASSUME Inv, NEW x \in Unit, NEW code \in 1 .. 255,
           code \in {eNoDevice, eNoResponseFromDevice, eInternalError} \cup Error,
           writeErrorMessage(x, code), bit' = bit, UNCHANGED mode
    PROVE  /\ status' \in [Unit -> {eNoError, eNoDevice, eNoResponseFromDevice,
                                    eInternalError} \cup Error]
           /\ asked' \subseteq Unit
           /\ \A y \in Unit : bit'[y] => y \in asked'
           /\ \A y \in Unit \ {x} : status'[y] = status[y]
           /\ \A y \in Unit : status'[y] = eNoError => status[y] = eNoError
  <1>1. CASE /\ status' = [status EXCEPT ![x] = code]
             /\ asked' = IF code # eNoError /\ ~bit[x] THEN asked \ {x} ELSE asked
    BY <1>1 DEF Inv, TypeOK, ResetInv, eNoError
  <1>2. CASE UNCHANGED <<status, asked>>
    BY <1>2 DEF Inv, TypeOK, ResetInv
  <1> QED BY <1>1, <1>2 DEF writeErrorMessage

(* One step for each action of the thread and for its surroundings.        *)
LEMMA NextKeepsInv == Inv /\ [Next]_vars => Inv'
  <1> SUFFICES ASSUME Inv, [Next]_vars PROVE Inv'
    OBVIOUS
  <1> USE StatusAssumption
  <1> Device \in Unit /\ Action \subseteq Unit /\ Device \notin Action
    BY DEF Unit
  <1>1. UNCHANGED mode
    BY DEF Next, vars
  <1>2. CASE StartOk \/ ConnectOk \/ Backoff \/ InitOk
    BY <1>1, <1>2
    DEF StartOk, ConnectOk, Backoff, InitOk, Inv, TypeOK, ResetInv, OnlineInv,
        OnlineMeansNoError, InLoop, ImageFails
  <1>3. CASE StartFails \/ ConnectFails \/ InitFailed
    <2>1. PICK code \in {eNoDevice, eNoResponseFromDevice, eInternalError} :
              writeErrorMessage(Device, code)
      BY <1>3 DEF StartFails, ConnectFails, InitFailed
    <2>2. code \in 1 .. 255 /\ bit' = bit
      BY <1>3 DEF StartFails, ConnectFails, InitFailed, eNoDevice,
                  eNoResponseFromDevice, eInternalError
    <2>3. pc' \in {"backoff", "ended"} /\ UNCHANGED <<cur, toCheck, unit, errCnt>>
          /\ link' \in {link, "down"}
      BY <1>3 DEF StartFails, ConnectFails, InitFailed
    <2>4. (TypeOK /\ ResetInv)'
      BY <1>1, <2>1, <2>2, <2>3, WriteError DEF Inv, TypeOK, ResetInv
    <2>5. OnlineInv'
      BY <2>3 DEF OnlineInv, OnlineMeansNoError, InLoop
    <2> QED BY <2>4, <2>5 DEF Inv
  <1>4. CASE Online
    <2>1. TypeOK' /\ ResetInv'
      BY <1>1, <1>4 DEF Online, writeErrorMessage, Inv, TypeOK, ResetInv, eNoError
    <2>2. ~ImageFails => status'[Device] = eNoError
      BY <1>4 DEF Online, writeErrorMessage, Inv, TypeOK
    <2>3. OnlineInv'
      BY <1>1, <1>4, <2>2
      DEF Online, OnlineInv, OnlineMeansNoError, InLoop, ImageFails
    <2> QED BY <2>1, <2>3 DEF Inv
  <1>5. ASSUME NEW a \in Action, Pick(a) PROVE Inv'
    BY <1>1, <1>5
    DEF Pick, Inv, TypeOK, ResetInv, OnlineInv, OnlineMeansNoError, InLoop,
        ImageFails
  <1>6. ASSUME NEW x \in Unit, Check(x) PROVE Inv'
    BY <1>1, <1>6
    DEF Check, NextCheck, Inv, TypeOK, ResetInv, OnlineInv, OnlineMeansNoError,
        InLoop, ImageFails
  <1>7. CASE Clear
    BY <1>1, <1>7
    DEF Clear, NextCheck, Inv, TypeOK, ResetInv, OnlineInv, OnlineMeansNoError,
        InLoop, ImageFails
  <1>8. CASE Ack
    BY <1>1, <1>8
    DEF Ack, NextCheck, Inv, TypeOK, ResetInv, OnlineInv, OnlineMeansNoError,
        InLoop, ImageFails
  <1>9. CASE ExecOk
    BY <1>1, <1>9
    DEF ExecOk, Inv, TypeOK, ResetInv, OnlineInv, OnlineMeansNoError, InLoop,
        ImageFails
  <1>10. ASSUME NEW e \in Error, ExecFails(e) PROVE Inv'
    <2>1. cur \in Action /\ cur # Device /\ e \in 1 .. 255
      BY <1>10 DEF ExecFails, Inv, OnlineInv
    <2>2. /\ writeErrorMessage(cur, e)
          /\ pc' \in {"open", "pick"} /\ link' \in {link, "up", "down"}
          /\ UNCHANGED <<cur, toCheck, unit, bit>>
      BY <1>10 DEF ExecFails
    <2>3. errCnt' \in 0 .. MaxErr
      BY <1>10 DEF ExecFails, Inv, TypeOK
    <2>4. (TypeOK /\ ResetInv)'
      BY <1>1, <2>1, <2>2, <2>3, WriteError DEF Inv, TypeOK, ResetInv
    <2>5. status'[Device] = status[Device]
      BY <1>1, <2>1, <2>2, WriteError
    <2>6. OnlineInv'
      BY <1>1, <1>10, <2>2, <2>5
      DEF ExecFails, Inv, OnlineInv, OnlineMeansNoError, InLoop, ImageFails
    <2> QED BY <2>4, <2>6 DEF Inv
  <1>11. ASSUME NEW x \in Unit, PlcWrites(x) PROVE Inv'
    BY <1>1, <1>11
    DEF PlcWrites, threadVars, Inv, TypeOK, ResetInv, OnlineInv,
        OnlineMeansNoError, InLoop, ImageFails
  <1>12. CASE LinkBreaks \/ UNCHANGED vars
    BY <1>1, <1>12
    DEF LinkBreaks, vars, threadVars, Inv, TypeOK, ResetInv, OnlineInv,
        OnlineMeansNoError, InLoop, ImageFails
  <1> QED
    BY <1>2, <1>3, <1>4, <1>5, <1>6, <1>7, <1>8, <1>9, <1>10, <1>11, <1>12
    DEF Next, ThreadStep

(* The thread of a Modbus master keeps the inductive invariant, whichever  *)
(* access to the process image fails and whenever the PLC writes.          *)
THEOREM StatusInvariant == Spec => []Inv
  BY InitInv, NextKeepsInv, PTL DEF Spec

(* An error is always written to the status byte of an action or of the    *)
(* device, and err_cnt stays within its limit (modbus_tcp_thread).         *)
THEOREM StatusTypeCorrect == Spec => []TypeOK
  <1>1. Inv => TypeOK
    BY DEF Inv
  <1> QED BY <1>1, StatusInvariant, PTL

(* A device that polls its slaves shows no error of the connection, as     *)
(* long as the process image can be written (the threads' set-up).         *)
THEOREM PollingDeviceShowsNoError == Spec => []OnlineMeansNoError
  <1>1. Inv => OnlineMeansNoError
    BY DEF Inv, OnlineInv
  <1> QED BY <1>1, StatusInvariant, PTL

-----------------------------------------------------------------------------
(* A reset bit the thread clears is that of a unit whose status byte is    *)
(* zero at that moment (reset_modbus_action_status).                       *)
THEOREM ResetIsAcknowledgedLast == Spec => AckMeansCleared
  <1> DEFINE A == \A x \in Unit :
                     bit[x] /\ ~bit'[x] /\ pc' # pc => status[x] = eNoError
  <1>1. Inv /\ [Next]_vars => [A]_vars
    <2> SUFFICES ASSUME Inv, Next, NEW x \in Unit, bit[x], ~bit'[x], pc' # pc
                 PROVE  status[x] = eNoError
      OBVIOUS
    <2>1. Ack
      BY DEF Next, ThreadStep, StartOk, StartFails, ConnectOk, ConnectFails,
             Backoff, InitOk, InitFailed, Online, Pick, Check, Clear, ExecOk,
             ExecFails, PlcWrites, LinkBreaks, threadVars
    <2>2. x = unit
      BY <2>1 DEF Ack, Inv, TypeOK
    <2> QED BY <2>1, <2>2 DEF Ack, Inv, ResetInv
  <1> QED BY <1>1, StatusInvariant, PTL DEF Spec, AckMeansCleared

(* A status byte goes back to zero only when its reset bit was set after   *)
(* the error, or when the device is connected again (writeErrorMessage,    *)
(* reset_modbus_action_status).                                            *)
THEOREM ErrorsAreKept == Spec => ErrorStaysUntilReset
  <1> DEFINE A == \A x \in Unit :
                     status[x] # eNoError /\ status'[x] = eNoError
                       => x \in asked \/ (x = Device /\ pc = "online")
  <1>1. Inv /\ [Next]_vars => [A]_vars
    <2> SUFFICES ASSUME Inv, Next, NEW x \in Unit,
                        status[x] # eNoError, status'[x] = eNoError
                 PROVE  x \in asked \/ (x = Device /\ pc = "online")
      OBVIOUS
    <2> USE StatusAssumption
    <2> Device \in Unit /\ Action \subseteq Unit
      BY DEF Unit
    <2>1. CASE StartFails \/ ConnectFails \/ InitFailed
      <3>1. PICK code \in {eNoDevice, eNoResponseFromDevice, eInternalError} :
                writeErrorMessage(Device, code)
        BY <2>1 DEF StartFails, ConnectFails, InitFailed
      <3>2. code \in 1 .. 255 /\ bit' = bit
        BY <2>1 DEF StartFails, ConnectFails, InitFailed, eNoDevice,
                    eNoResponseFromDevice, eInternalError
      <3> QED BY <3>1, <3>2, WriteError DEF Next
    <2>2. ASSUME NEW e \in Error, ExecFails(e) PROVE FALSE
      <3>1. cur \in Action /\ e \in 1 .. 255 /\ bit' = bit
            /\ writeErrorMessage(cur, e)
        BY <2>2 DEF ExecFails, Inv, OnlineInv
      <3> QED BY <3>1, WriteError DEF Next
    <2>3. CASE Online
      BY <2>3 DEF Online, writeErrorMessage, Inv, TypeOK
    <2>4. CASE Clear
      BY <2>4 DEF Clear, Inv, TypeOK, ResetInv
    <2> QED
      BY <2>1, <2>2, <2>3, <2>4
      DEF Next, ThreadStep, StartOk, ConnectOk, Backoff, InitOk, Pick, Check,
          Ack, ExecOk, PlcWrites, LinkBreaks
  <1> QED BY <1>1, StatusInvariant, PTL DEF Spec, ErrorStaysUntilReset
=============================================================================

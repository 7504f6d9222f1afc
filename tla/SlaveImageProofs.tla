-------------------------- MODULE SlaveImageProofs --------------------------
(***************************************************************************)
(* Proofs of the properties of SlaveImage for any registers and values.    *)
(***************************************************************************)
EXTENDS SlaveImage, TLAPS

(* The values a request has written are in the mapping from the reply on,  *)
(* so that until the flush the mapping may be ahead by them too; and what  *)
(* an answer may carry takes in the image as it is now.                    *)
Unflushed == IF step = "flush" THEN owed \cup DOMAIN request.values ELSE owed

Inv ==
    /\ TypeOK
    /\ Ahead(mapping, image) \subseteq Unflushed
    /\ step \in {"read", "reply"} => image.input \in fresh
    /\ step = "reply" /\ ReadsImage(request.fc) => mapping.input \in fresh

-----------------------------------------------------------------------------
(* What a request writes: values of some registers, and none if its        *)
(* function is not one of those that write registers.                      *)
LEMMA RequestValues ==
    ASSUME NEW q \in Request
    PROVE  /\ DOMAIN q.values \subseteq Holding
           /\ \A r \in DOMAIN q.values : q.values[r] \in Value
           /\ q.fc \notin eWriteRegisters => DOMAIN q.values = {}
  <1>1. PICK fc : q \in [fc : {fc}, values : Writes(fc)]
    BY DEF Request
  <1>2. q.fc = fc /\ q.values \in Writes(fc)
    BY <1>1
  <1>3. CASE fc \in eWriteRegisters
    <2>1. PICK R \in SUBSET Holding : q.values \in [R -> Value]
      BY <1>2, <1>3 DEF Writes
    <2> QED BY <1>2, <1>3, <2>1
  <1>4. CASE fc \notin eWriteRegisters
    <2>1. q.values = << >>
      BY <1>2, <1>4 DEF Writes
    <2>2. DOMAIN q.values = {}
      BY <2>1
    <2> QED BY <1>2, <1>4, <2>2
  <1> QED BY <1>3, <1>4

(* The mapping after a request has been applied to it (modbus_reply).      *)
LEMMA AppliedValues ==
    ASSUME NEW q \in Request, NEW h \in [Holding -> Value]
    PROVE  /\ Applied(q.values, h) \in [Holding -> Value]
           /\ \A r \in Holding :
                  r \notin DOMAIN q.values => Applied(q.values, h)[r] = h[r]
           /\ q.fc \notin eWriteRegisters => Applied(q.values, h) = h
  <1>1. /\ DOMAIN q.values \subseteq Holding
        /\ \A r \in DOMAIN q.values : q.values[r] \in Value
        /\ q.fc \notin eWriteRegisters => DOMAIN q.values = {}
    BY RequestValues
  <1> QED BY <1>1 DEF Applied

-----------------------------------------------------------------------------
(* A new mapping holds zero in every register.                             *)
LEMMA NewMappingType == NewMapping \in Registers
  BY ImageAssumption DEF NewMapping, Registers

(* A new slave with an image of the PLC's making.                          *)
LEMMA InitInv == Init => Inv
  BY NewMappingType DEF Init, Inv, TypeOK, Unflushed, Ahead

(* Inv is inductive.                                                       *)
LEMMA NextInv == Inv /\ [Next]_vars => Inv'
  <1> SUFFICES ASSUME Inv, [Next]_vars PROVE Inv'
    OBVIOUS
  <1>1. CASE Accept
    BY <1>1 DEF Accept, Inv, TypeOK, Unflushed, Ahead
  <1>2. CASE ReceiveFails
    BY <1>2 DEF ReceiveFails, Inv, TypeOK, Unflushed, Ahead
  <1>3. ASSUME NEW q \in Request, Receive(q) PROVE Inv'
    <2>1. q # NoRequest
      BY RequestAssumption
    <2>2. TypeOK'
      BY <1>3, <2>1 DEF Receive, Inv, TypeOK, Registers
    <2>3. step' = "reply" => ~ReadsImage(q.fc)
      BY <1>3 DEF Receive
    <2> QED BY <1>3, <2>2, <2>3 DEF Receive, Inv, Unflushed, Ahead
  <1>4. CASE ReadImage
    BY <1>4 DEF ReadImage, Inv, TypeOK, Registers, Unflushed, Ahead
  <1>5. CASE ReadImageFails
    BY <1>5 DEF ReadImageFails, Inv, TypeOK, Registers, Unflushed, Ahead
  <1>6. CASE Reply \/ ReplyFails
    <2> DEFINE a == Applied(request.values, mapping.holding)
    <2>1. request \in Request /\ mapping.holding \in [Holding -> Value]
      BY <1>6 DEF Reply, ReplyFails, Inv, TypeOK, Registers
    <2>2. /\ a \in [Holding -> Value]
          /\ \A r \in Holding :
                 r \notin DOMAIN request.values => a[r] = mapping.holding[r]
          /\ request.fc \notin eWriteRegisters => a = mapping.holding
      BY <2>1, AppliedValues
    <2>3. DOMAIN request.values \subseteq Holding
      BY <2>1, RequestValues
    <2>4. mapping' = [mapping EXCEPT !.holding = a]
      BY <1>6 DEF Reply, ReplyFails
    <2> HIDE DEF a
    <2>5. mapping' \in Registers /\ mapping'.holding = a
      BY <2>2, <2>4 DEF Inv, TypeOK, Registers
    <2>6. Ahead(mapping', image) \subseteq owed \cup DOMAIN request.values
      BY <1>6, <2>2, <2>5 DEF Reply, ReplyFails, Inv, Unflushed, Ahead
    <2>7. CASE ReplyFails
      BY <2>3, <2>5, <2>6, <2>7 DEF ReplyFails, Done, Inv, TypeOK, Unflushed, Ahead
    <2>8. CASE Reply /\ WritesImage(request.fc)
      BY <2>5, <2>6, <2>8 DEF Reply, Inv, TypeOK, Unflushed, Ahead
    <2>9. CASE Reply /\ ~WritesImage(request.fc)
      <3>1. mapping'.holding = mapping.holding
        BY <2>2, <2>5, <2>9 DEF WritesImage
      <3> QED
        BY <2>5, <2>9, <3>1 DEF Reply, Done, Inv, TypeOK, Unflushed, Ahead
    <2> QED BY <1>6, <2>7, <2>8, <2>9
  <1>7. CASE Flush
    BY <1>7 DEF Flush, Done, Inv, TypeOK, Registers, Unflushed, Ahead
  <1>8. CASE FlushFails
    <2>1. DOMAIN request.values \subseteq Holding
      BY <1>8, RequestValues DEF FlushFails, Inv, TypeOK
    <2> QED BY <1>8, <2>1 DEF FlushFails, Done, Inv, TypeOK, Unflushed, Ahead
  <1>9. CASE PlcCycle
    BY <1>9 DEF PlcCycle, Inv, TypeOK, Registers, Unflushed, Ahead
  <1>10. CASE Restart
    BY <1>10, NewMappingType DEF Restart, Done, Inv, TypeOK, Unflushed, Ahead
  <1>11. CASE UNCHANGED vars
    BY <1>11 DEF vars, Inv, TypeOK, Unflushed, Ahead
  <1> QED
    BY <1>1, <1>2, <1>3, <1>4, <1>5, <1>6, <1>7, <1>8, <1>9, <1>10, <1>11 DEF Next

(* A slave thread keeps the inductive invariant, whatever fails and        *)
(* whenever it is restarted.                                               *)
THEOREM SlaveInvariant == Spec => []Inv
  BY InitInv, NextInv, PTL DEF Spec

(* process_modbus_request always has the request it works on, and the      *)
(* mapping holds values of registers.                                      *)
THEOREM SlaveTypeCorrect == Spec => []TypeOK
  <1>1. Inv => TypeOK
    BY DEF Inv
  <1> QED BY <1>1, SlaveInvariant, PTL

(* What a master has written is in the process image between two           *)
(* requests, unless a failure since the last flush kept it out             *)
(* (process_modbus_request).                                               *)
THEOREM WritesArrive == Spec => []WritesReachImage
  <1>1. Inv => WritesReachImage
    BY DEF Inv, WritesReachImage, Unflushed
  <1> QED BY <1>1, SlaveInvariant, PTL

(* An answer carries the inputs of one moment after the request arrived,   *)
(* or those read last (readModbusDataFromProcessImage).                    *)
THEOREM InputsAreFresh == Spec => []InputsFresh
  <1>1. Inv => InputsFresh
    BY DEF Inv, InputsFresh, ReadsImage
  <1> QED BY <1>1, SlaveInvariant, PTL

(* The flush of all registers changes only those of the request, and those *)
(* the image had missed (writeModbusDataToProcessImage).                   *)
THEOREM FlushOwnEffects == Spec => OwnEffectsOnly
  <1> DEFINE A == step = "flush" /\ step' = "receive" /\ image'.holding # image.holding
                  /\ mapping' = mapping =>
                       Ahead(image', image) \subseteq DOMAIN request.values \cup owed
  <1>1. Inv /\ [Next]_vars => [A]_vars
    <2> SUFFICES ASSUME Inv, Next, step = "flush", step' = "receive",
                        image'.holding # image.holding, mapping' = mapping
                 PROVE  Ahead(image', image) \subseteq DOMAIN request.values \cup owed
      OBVIOUS
    <2>1. Ahead(mapping, image) \subseteq DOMAIN request.values \cup owed
      BY DEF Inv, Unflushed
    <2>2. image'.holding = mapping.holding
      <3>1. Flush \/ Restart
        BY DEF Next, Accept, ReceiveFails, Receive, ReadImage, ReadImageFails,
               Reply, ReplyFails, FlushFails, PlcCycle
      <3>2. image \in Registers
        BY DEF Inv, TypeOK
      <3> QED BY <3>1, <3>2 DEF Flush, Restart, Registers
    <2> QED BY <2>1, <2>2 DEF Ahead
  <1> QED BY <1>1, SlaveInvariant, PTL DEF Spec, OwnEffectsOnly
=============================================================================

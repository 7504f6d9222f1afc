--------------------------- MODULE ProcessAction ----------------------------
(***************************************************************************)
(* The data path of one Modbus command (processModbusAction): from the     *)
(* device through the thread's buffer to the process image, or back.       *)
(*                                                                         *)
(* The process image is a row of cells, one per bit, W to a byte.  Coils   *)
(* and discrete inputs are moved by one call of piControl each, registers  *)
(* and the slave id as a block, and the PLC program runs between any two   *)
(* calls.  What matters of a value is where it comes from: a pair of its   *)
(* origin and its index there.  The buffer outlives the call, so that it   *)
(* still holds what earlier commands left in it.                           *)
(***************************************************************************)
EXTENDS Integers, Functions

CONSTANTS W,           \* bits of a byte
          Bytes,       \* the size of the process image
          MaxSize,     \* the size of the buffer, in elements
          ActionLists, \* the configured lists of actions a thread can have:
                       \* sets of records [kind, byte, bit, count]
          ImageFails   \* whether a call of piControl can fail

Cell == 0 .. Bytes * W - 1

Kind == {"readBits",   \* READ_COILS, READ_DISCRETE_INPUTS
         "readRegs",   \* READ_HOLDING_REGISTERS, READ_INPUT_REGISTERS
         "reportId",   \* REPORT_SLAVE_ID
         "writeBits",  \* WRITE_SINGLE_COIL, WRITE_MULTIPLE_COILS
         "writeRegs",  \* WRITE_SINGLE_REGISTER, WRITE_MULTIPLE_REGISTERS
         "unknown"}    \* READ_EXCEPTION_STATUS and any other code

IsBits(a) == a.kind \in {"readBits", "writeBits"}
IsRead(a) == a.kind \in {"readBits", "readRegs", "reportId"}
IsWrite(a) == a.kind \in {"writeBits", "writeRegs"}

(* The number of elements the command moves: bits or, in a block, cells.   *)
Size(a) == CASE IsBits(a) -> a.count
             [] a.kind = "reportId" -> a.count * W
             [] a.kind = "unknown" -> 0
             [] OTHER -> a.count * 2 * W

(* Where PiCtory puts the variables of an area: Input_Bit_k and its        *)
(* successors follow each other, and so do the words.                      *)
Place(a, e) == a.byte * W + a.bit + e

Area(a) == {Place(a, e) : e \in 0 .. Size(a) - 1}

ASSUME DataAssumption ==
    /\ {W, Bytes, MaxSize} \subseteq Nat \ {0}
    /\ ImageFails \in BOOLEAN
    /\ \A a \in UNION ActionLists :
          /\ a \in [kind: Kind, byte: 0 .. Bytes - 1, bit: 0 .. W - 1,
                    count: Nat \ {0}]
          /\ Area(a) \subseteq Cell
          /\ Size(a) <= MaxSize
          /\ ~IsBits(a) => a.bit = 0

Index == 0 .. MaxSize - 1

(* Origins: the PLC's image of an even or an odd cycle, and the answer to  *)
(* the command before the last, or to the last.                            *)
Plc == {"even", "odd"}
Answer == {"answerA", "answerB"}
Value == (Plc \X Cell) \cup (Answer \X Index)

VARIABLES list,      \* the thread's actions; it never changes
          pc, act, idx,
          buffer,    \* the thread's buffer, by element
          len,       \* the result of the libmodbus call: none, short, full, error
          ok,        \* successful >= 0
          answer,    \* auxiliary: the origin of the answer to this command
          sent,      \* auxiliary: the payload of the last write command
          image

vars == <<list, pc, act, idx, buffer, len, ok, answer, sent, image>>

TypeOK ==
    /\ pc \in {"idle", "bus", "store", "gather", "send", "finish"}
    /\ list \in ActionLists
    /\ act \in list
    /\ idx \in Index
    /\ buffer \in [Index -> Value]
    /\ len \in {"none", "short", "full", "error"}
    /\ ok \in BOOLEAN
    /\ answer \in Answer
    /\ \E n \in 0 .. MaxSize : sent \in [0 .. n - 1 -> Value]
    /\ image \in [Cell -> Value]

NoPayload == [e \in {} |-> <<"even", 0>>]

Init ==
    /\ list \in ActionLists
    /\ pc = "idle" /\ act \in list /\ idx = 0
    /\ buffer = [e \in Index |-> <<"even", 0>>]
    /\ len = "none" /\ ok = TRUE /\ answer = "answerA"
    /\ sent = NoPayload
    /\ image = [c \in Cell |-> <<"even", c>>]
-----------------------------------------------------------------------------
(* processModbusAction begins: the switch on the function code.            *)
Begin(a) ==
    /\ pc = "idle"
    /\ act' = a /\ idx' = 0 /\ len' = "none" /\ ok' = TRUE
    /\ answer' = CHOOSE x \in Answer : x # answer
    /\ sent' = NoPayload
    /\ pc' = CASE IsRead(a) -> "bus" [] IsWrite(a) -> "gather" [] OTHER -> "finish"
    /\ UNCHANGED <<buffer, image>>

(* The buffer after an answer of n elements.                               *)
Answered(n) ==
    [e \in Index |-> IF e < n THEN <<answer, e>> ELSE buffer[e]]

BusReadOk ==
    /\ pc = "bus"
    /\ buffer' = Answered(Size(act))
    /\ len' = "full" /\ pc' = "store"
    /\ UNCHANGED <<act, idx, ok, answer, sent, image>>

Fault_BusReadShort_stored ==
    /\ pc = "bus"
    /\ buffer' = Answered(0)
    /\ len' = "short" /\ pc' = "store"
    /\ UNCHANGED <<act, idx, ok, answer, sent, image>>

(* A slave id shorter than what is configured: nothing is stored and no    *)
(* error is reported.                                                      *)
BusReadShort ==
    /\ pc = "bus" /\ act.kind = "reportId"
    /\ \E n \in 0 .. act.count - 1 : buffer' = Answered(n * W)
    /\ len' = "short" /\ pc' = "finish"
    /\ UNCHANGED <<act, idx, ok, answer, sent, image>>

BusFails ==
    /\ pc \in {"bus", "send"}
    /\ len' = "error" /\ pc' = "finish"
    /\ UNCHANGED <<act, idx, buffer, ok, answer, sent, image>>

(* coil_data_l: the byte and the bit of coil i.                            *)
Fault_CoilCell_unwrapped(a, i) == a.byte * W + ((a.bit + i) % W)
CoilCell(a, i) == ((a.byte + (i \div W)) * W) + ((a.bit + i) % W)

(* A call of piControl for coil idx fails: the loop is left.               *)
BitFails ==
    /\ ImageFails
    /\ pc \in {"store", "gather"} /\ IsBits(act)
    /\ ok' = FALSE /\ pc' = "finish"
    /\ UNCHANGED <<act, idx, buffer, len, answer, sent, image>>

Fault_StoreBit_oneMore ==
    /\ pc = "store" /\ IsBits(act)
    /\ image' = [image EXCEPT ![CoilCell(act, idx)] = buffer[idx]]
    /\ IF idx + 1 <= act.count
       THEN idx' = idx + 1 /\ UNCHANGED pc
       ELSE pc' = "finish" /\ UNCHANGED idx
    /\ UNCHANGED <<act, buffer, len, ok, answer, sent>>

(* piControlSetBitValue in the loop over the coils.                        *)
StoreBit ==
    /\ pc = "store" /\ IsBits(act)
    /\ image' = [image EXCEPT ![CoilCell(act, idx)] = buffer[idx]]
    /\ IF idx + 1 < act.count
       THEN idx' = idx + 1 /\ UNCHANGED pc
       ELSE pc' = "finish" /\ UNCHANGED idx
    /\ UNCHANGED <<act, buffer, len, ok, answer, sent>>

(* piControlWrite of the registers or of the slave id.                     *)
StoreBlock ==
    /\ pc = "store" /\ ~IsBits(act)
    /\ pc' = "finish"
    /\ \/ /\ image' = [c \in Cell |-> IF c \in Area(act)
                                      THEN buffer[c - Place(act, 0)]
                                      ELSE image[c]]
          /\ UNCHANGED ok
       \/ ImageFails /\ ok' = FALSE /\ UNCHANGED image
    /\ UNCHANGED <<act, idx, buffer, len, answer, sent>>

(* piControlGetBitValue in the loop over the coils.                        *)
GatherBit ==
    /\ pc = "gather" /\ IsBits(act)
    /\ buffer' = [buffer EXCEPT ![idx] = image[CoilCell(act, idx)]]
    /\ IF idx + 1 < act.count
       THEN idx' = idx + 1 /\ UNCHANGED pc
       ELSE pc' = "send" /\ UNCHANGED idx
    /\ UNCHANGED <<act, len, ok, answer, sent, image>>

Fault_GatherBlock_unchecked ==
    /\ pc = "gather" /\ ~IsBits(act)
    /\ pc' = "send"
    /\ buffer' \in {buffer, [e \in Index |-> IF e < Size(act)
                                             THEN image[Place(act, e)]
                                             ELSE buffer[e]]}
    /\ UNCHANGED <<act, idx, len, ok, answer, sent, image>>

(* piControlRead of the registers.  A return value of 0 is a failure too,  *)
(* but one after which the thread does not sleep.                          *)
GatherBlock ==
    /\ pc = "gather" /\ ~IsBits(act)
    /\ \/ /\ buffer' = [e \in Index |-> IF e < Size(act)
                                        THEN image[Place(act, e)]
                                        ELSE buffer[e]]
          /\ pc' = "send" /\ UNCHANGED ok
       \/ /\ ImageFails
          /\ ok' \in BOOLEAN /\ pc' = "finish" /\ UNCHANGED buffer
    /\ UNCHANGED <<act, idx, len, answer, sent, image>>

BusWriteOk ==
    /\ pc = "send"
    /\ sent' = Restrict(buffer, 0 .. Size(act) - 1)
    /\ len' = "full" /\ pc' = "finish"
    /\ UNCHANGED <<act, idx, buffer, ok, answer, image>>

(* The pause after a failed access and the error byte (see MasterStatus).  *)
Finish ==
    /\ pc = "finish" /\ pc' = "idle"
    /\ UNCHANGED <<act, idx, buffer, len, ok, answer, sent, image>>

(* The PLC program writes all its outputs, the areas of write actions.     *)
PlcCycle ==
    /\ image' = [c \in Cell |->
           IF \E a \in list : IsWrite(a) /\ c \in Area(a)
           THEN <<IF image[c][1] = "even" THEN "odd" ELSE "even", c>>
           ELSE image[c]]
    /\ UNCHANGED <<pc, act, idx, buffer, len, ok, answer, sent>>

ThreadStep ==
    \/ \E a \in list : Begin(a)
    \/ BusReadOk \/ BusReadShort \/ BusFails
    \/ StoreBit \/ StoreBlock \/ BitFails
    \/ GatherBit \/ GatherBlock \/ BusWriteOk
    \/ Finish

Next == (ThreadStep \/ PlcCycle) /\ UNCHANGED list

Spec == Init /\ [][Next]_vars
-----------------------------------------------------------------------------
(* A read command that succeeded has put every element of the answer where *)
(* PiCtory has its variable ("Input_Bit_32" is bit 31 of the area's first  *)
(* byte), whatever byte and bit the area starts at.                        *)
AnswerInPlace ==
    pc = "finish" /\ IsRead(act) /\ len = "full" /\ ok =>
        \A e \in 0 .. Size(act) - 1 : image[Place(act, e)] = <<answer, e>>

(* A command stores nothing outside the area of its own variables, and     *)
(* only what the device answered to this very command: nothing is stored   *)
(* after a failed or short answer, although the buffer is never cleared.   *)
StoresOwnAnswer ==
    [][pc' # pc \/ idx' # idx =>
        \A c \in Cell : image'[c] # image[c] =>
            c \in Area(act) /\ image'[c][1] = answer]_vars

(* What is sent to the device are the PLC's outputs of this action, in     *)
(* order, never what an earlier command left in the buffer; registers come *)
(* from one cycle of the PLC, so that a value wider than a register is not *)
(* torn.                                                                   *)
SendsOwnOutputs ==
    [][pc = "send" /\ len' = "full" =>
        /\ \A e \in DOMAIN sent' :
              sent'[e][1] \in Plc /\ sent'[e][2] = Place(act, e)
        /\ ~IsBits(act) =>
              \A e \in DOMAIN sent' : sent'[e][1] = sent'[0][1]]_vars
=============================================================================

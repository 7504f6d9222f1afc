----------------------------- MODULE SlaveImage -----------------------------
(***************************************************************************)
(* What a request does to the process image (process_modbus_request and    *)
(* piProcessImageAccess.c).  A slave thread keeps its registers in the     *)
(* mapping of libmodbus.  Input registers are read from the process image  *)
(* before the reply that carries them; a request that may write makes the  *)
(* thread write all holding registers to the image after the reply.        *)
(*                                                                         *)
(* The parser gives a slave no coils and no discrete inputs (ConfigParser) *)
(* so that a request for them is answered by an exception and changes no   *)
(* register.                                                               *)
(***************************************************************************)
EXTENDS Integers

CONSTANTS Holding,    \* the holding registers, in "inp" of the device
          Input,      \* the input registers, in "out" of the device
          Value,      \* what a register can hold, 0 among them
          NoRequest

ASSUME ImageAssumption == 0 \in Value

VARIABLES
    tcp,        \* the protocol of the slave, which never changes
    open,       \* whether a master is connected; a line always is
    step,       \* where process_modbus_request is
    request,    \* what it works on
    mapping,    \* mbMapping: tab_registers and tab_input_registers
    image,      \* the slave's two areas of the process image
    owed,       \* auxiliary: registers the mapping may have ahead of the image
    fresh       \* auxiliary: inputs an answer to the request may carry

vars == <<tcp, open, step, request, mapping, image, owed, fresh>>

(* The function codes of modbusconfig.h that libmodbus serves.             *)
eRead == {"READ_COILS", "READ_DISCRETE_INPUTS", "READ_HOLDING_REGISTERS",
          "READ_INPUT_REGISTERS"}
eWriteCoils == {"WRITE_SINGLE_COIL", "WRITE_MULTIPLE_COILS"}
eWriteRegisters == {"WRITE_SINGLE_REGISTER", "WRITE_MULTIPLE_REGISTERS",
                    "WRITE_MASK_REGISTER", "WRITE_AND_READ_REGISTERS"}

(* What a request writes; nothing if its answer is an exception.           *)
Writes(fc) ==
    IF fc \in eWriteRegisters THEN UNION {[R -> Value] : R \in SUBSET Holding}
    ELSE {<<>>}

Request ==
    UNION {[fc : {fc}, values : Writes(fc)] : fc \in eRead \cup eWriteCoils \cup eWriteRegisters}

ASSUME RequestAssumption == NoRequest \notin Request

Fault_ReadsImage_coilsOnly(fc) == fc = "READ_DISCRETE_INPUTS"
ReadsImage(fc) == fc \in {"READ_INPUT_REGISTERS", "READ_DISCRETE_INPUTS"}

Fault_WritesImage_noMask(fc) ==
    fc \in eWriteCoils \cup (eWriteRegisters \ {"WRITE_MASK_REGISTER"})
WritesImage(fc) == fc \in eWriteCoils \cup eWriteRegisters

Registers == [holding: [Holding -> Value], input: [Input -> Value]]

(* modbus_mapping_new clears the registers.                                *)
NewMapping == [holding |-> [r \in Holding |-> 0], input |-> [r \in Input |-> 0]]

(* What modbus_reply makes of the holding registers h.                     *)
Applied(values, h) ==
    [r \in Holding |-> IF r \in DOMAIN values THEN values[r] ELSE h[r]]

Ahead(m, i) == {r \in Holding : m.holding[r] # i.holding[r]}

TypeOK ==
    /\ tcp \in BOOLEAN /\ open \in BOOLEAN /\ (open \/ tcp)
    /\ step \in {"receive", "read", "reply", "flush"}
    /\ request \in Request \cup {NoRequest}
    /\ request = NoRequest <=> step = "receive"
    /\ {mapping, image} \subseteq Registers
    /\ owed \subseteq Holding
    /\ fresh \subseteq [Input -> Value]

Init ==
    /\ tcp \in BOOLEAN /\ open = ~tcp
    /\ step = "receive" /\ request = NoRequest
    /\ mapping = NewMapping /\ image \in Registers
    /\ owed = Ahead(mapping, image) /\ fresh = {}
-----------------------------------------------------------------------------
Done == step' = "receive" /\ request' = NoRequest /\ fresh' = {}

(* The next master of a TCP slave connects; the mapping stays.             *)
Fault_Accept_newMapping ==
    /\ step = "receive" /\ ~open
    /\ open' = TRUE /\ mapping' = NewMapping
    /\ UNCHANGED <<tcp, step, request, image, owed, fresh>>

Accept ==
    /\ step = "receive" /\ ~open
    /\ open' = TRUE
    /\ UNCHANGED <<tcp, step, request, mapping, image, owed, fresh>>

(* modbus_receive returns -1: a TCP slave closes the connection, an RTU    *)
(* slave tries again.                                                      *)
ReceiveFails ==
    /\ step = "receive" /\ open
    /\ open' = ~tcp
    /\ UNCHANGED <<tcp, step, request, mapping, image, owed, fresh>>

Receive(q) ==
    /\ step = "receive" /\ open
    /\ request' = q
    /\ step' = IF ReadsImage(q.fc) THEN "read" ELSE "reply"
    /\ fresh' = {image.input}
    /\ UNCHANGED <<tcp, open, mapping, image, owed>>

(* readModbusDataFromProcessImage; its result is ignored, and if piControl *)
(* fails the answer carries the inputs read last.                          *)
ReadImage ==
    /\ step = "read"
    /\ step' = "reply"
    /\ mapping' = [mapping EXCEPT !.input = image.input]
    /\ UNCHANGED <<tcp, open, request, image, owed, fresh>>

ReadImageFails ==
    /\ step = "read"
    /\ step' = "reply"
    /\ fresh' = fresh \cup {mapping.input}
    /\ UNCHANGED <<tcp, open, request, mapping, image, owed>>

(* modbus_reply puts the values into the mapping before it sends.          *)
Reply ==
    /\ step = "reply"
    /\ mapping' = [mapping EXCEPT !.holding = Applied(request.values, @)]
    /\ IF WritesImage(request.fc)
       THEN step' = "flush" /\ UNCHANGED <<request, fresh>>
       ELSE Done
    /\ UNCHANGED <<tcp, open, image, owed>>

Fault_ReplyFails_keepsRequest ==
    /\ step = "reply"
    /\ mapping' = [mapping EXCEPT !.holding = Applied(request.values, @)]
    /\ owed' = owed \cup DOMAIN request.values
    /\ open' = ~tcp
    /\ step' = "receive" /\ fresh' = {}
    /\ UNCHANGED <<tcp, request, image>>

(* The reply cannot be sent: the values stay in the mapping but the image  *)
(* is not written.                                                         *)
ReplyFails ==
    /\ step = "reply"
    /\ mapping' = [mapping EXCEPT !.holding = Applied(request.values, @)]
    /\ owed' = owed \cup DOMAIN request.values
    /\ open' = ~tcp
    /\ Done
    /\ UNCHANGED <<tcp, image>>

(* writeModbusDataToProcessImage: all holding registers in one call.       *)
Flush ==
    /\ step = "flush"
    /\ image' = [image EXCEPT !.holding = mapping.holding]
    /\ owed' = {}
    /\ Done
    /\ UNCHANGED <<tcp, open, mapping>>

(* piControlWrite fails; the reply has been sent, and nobody tries again.  *)
FlushFails ==
    /\ step = "flush"
    /\ owed' = owed \cup DOMAIN request.values
    /\ Done
    /\ UNCHANGED <<tcp, open, mapping, image>>

(* A cycle of the PLC program.                                             *)
PlcCycle ==
    /\ \E v \in [Input -> Value] : image' = [image EXCEPT !.input = v]
    /\ fresh' = IF step = "receive" THEN {} ELSE fresh \cup {image'.input}
    /\ UNCHANGED <<tcp, open, step, request, mapping, owed>>

(* The thread is cancelled by a reset of the driver, or the process ends,  *)
(* wherever it is; the next one gets a new mapping, and finds the image as *)
(* it was or cleared by the driver.                                        *)
Restart ==
    /\ open' = ~tcp
    /\ mapping' = NewMapping
    /\ image' \in {image, NewMapping}
    /\ owed' = Ahead(mapping', image')
    /\ Done
    /\ UNCHANGED tcp

Next ==
    \/ Accept \/ ReceiveFails \/ \E q \in Request : Receive(q)
    \/ ReadImage \/ ReadImageFails
    \/ Reply \/ ReplyFails
    \/ Flush \/ FlushFails
    \/ PlcCycle \/ Restart

Spec == Init /\ [][Next]_vars
-----------------------------------------------------------------------------
(* Between two requests the process image has what the masters have        *)
(* written, register by register; what it lacks goes back to a reply that  *)
(* could not be sent, a piControlWrite that failed, or a restart, and to   *)
(* nothing before the last time the image was written                      *)
(* (process_modbus_request).                                               *)
WritesReachImage ==
    step = "receive" => Ahead(mapping, image) \subseteq owed

(* A request that writes changes only its own registers in the image,      *)
(* although all are written: the others have what they had, unless the     *)
(* image missed an earlier write or the thread is a new one, which         *)
(* overwrites them with its cleared mapping                                *)
(* (writeModbusDataToProcessImage).                                        *)
OwnEffectsOnly ==
    [][step = "flush" /\ step' = "receive" /\ image'.holding # image.holding
       /\ mapping' = mapping =>
            Ahead(image', image) \subseteq DOMAIN request.values \cup owed]_vars

(* The inputs a master gets were in the process image, all at the same     *)
(* time, after its request had arrived; if piControl failed they are the   *)
(* ones read last (readModbusDataFromProcessImage).                        *)
InputsFresh ==
    step = "reply" /\ request.fc = "READ_INPUT_REGISTERS" => mapping.input \in fresh
=============================================================================

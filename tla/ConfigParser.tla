---------------------------- MODULE ConfigParser ----------------------------
(***************************************************************************)
(* The parser of PiCtory's config.rsc (src/piConfigParser) as main of      *)
(* either process calls it, at the start and after every reset of the      *)
(* driver.  It walks over the devices of the file and, for a master, over  *)
(* the keys of its actions; what is wrong with an entry decides whether    *)
(* the parser drops an action, a device, all devices behind it, or the     *)
(* process.                                                                *)
(*                                                                         *)
(* The file is data: a parameter is there and well-formed or it is not,    *)
(* and a variable of PiCtory has a name and a place.  What the parser      *)
(* writes into the process image is where MasterStatus starts.             *)
(***************************************************************************)
EXTENDS BusTiming

CONSTANTS
    Files,      \* the contents of config.rsc, for each process
    Saved,      \* bound: those of them PiCtory saves while a process runs
    MSEC,       \* the factor 1000 from milliseconds to microseconds
    NoSection,  \* a part of a device the file lacks
    NoId        \* an ActionId key without "_..._", or no identifier

(* A file has the process that reads it and its devices.  A device has     *)
(*   type     its product type, "other" of neither process, "none" missing *)
(*   mem      the parameters of "mem" that are there and well-formed       *)
(*   offset   its place in the process image, negative if not in the file  *)
(*   inp, out its variables: name -> [byte, bit, len], len in bits         *)
(*   data     the identifiers of its ActionId keys, in the file's order    *)
(*   action   identifier -> what the parser reads of the action            *)
(*   misc     the names of its status byte and of its reset byte           *)
(* An action has its function (coils or registers), its interval in ms,    *)
(* the names of its variables, and its first flaw in the order of the code *)
Flaws == {"none",
          "absent",   \* a key is missing
          "range",    \* a number strtoul refuses
          "limit"}    \* a number one of the asserts refuses

Master == {"masterTcp", "masterRtu"}
Slave == {"slaveTcp", "slaveRtu"}
Types(process) == IF process = "master" THEN Master ELSE Slave

(* Offsets are numbers without a sign, and every ActionId key has the      *)
(* action that starts with it.                                             *)
AreVariables(vs) ==
    /\ IsFiniteSet(DOMAIN vs)
    /\ \A n \in DOMAIN vs : vs[n] \in [byte: Nat, bit: Nat, len: Nat]

IsDevice(d) ==
    /\ d.type \in Master \cup Slave \cup {"other", "none"}
    /\ d.offset \in Nat \cup {-1}
    /\ \A vs \in {d.inp, d.out} \ {NoSection} : AreVariables(vs)
    /\ d.data # NoSection => d.data \in Seq(DOMAIN d.action \cup {NoId})
    /\ \A id \in DOMAIN d.action :
           /\ d.action[id].flaw \in Flaws
           /\ d.action[id].ms \in Nat \ {0}
           /\ d.action[id].coils \in BOOLEAN

ASSUME FilesAssumption ==
    /\ MSEC \in Nat \ {0}
    /\ Saved \subseteq Files
    /\ \A f \in Files :
           /\ f.process \in {"master", "slave"}
           /\ f.devices \in Seq(ToSet(f.devices))
           /\ \A d \in ToSet(f.devices) : IsDevice(d)

VARIABLES
    file,        \* c8PiConfigData_g
    at,          \* where the parser is
    rest,        \* the devices the outer loop has not finished
    keys,        \* the ActionId keys the inner loop has not finished
    identifier,  \* action_parameters_identifier
    actions,     \* mbActionListHead of nextConfig
    parsed,      \* the list of configurations the caller gets
    lost         \* auxiliary: devices lost for want of memory or of the file

vars == <<file, at, rest, keys, identifier, actions, parsed, lost>>
-----------------------------------------------------------------------------
(* parse_device_modbus_configuration succeeds if every parameter it asks   *)
(* for can be read; a master's line has no address of its own.             *)
TcpParameters(type) ==
    {"port", IF type = "masterTcp" THEN "ip" ELSE "connections"}

RtuParameters(type) ==
    {"path", "baud", "parity", "databits", "stopbits"}
        \cup (IF type = "slaveRtu" THEN {"address"} ELSE {})

Required(type) ==
    IF type \in {"masterTcp", "slaveTcp"} THEN TcpParameters(type)
    ELSE RtuParameters(type)

parse_device_modbus_configuration(d) == Required(d.type) \subseteq d.mem

eProtocol(d) == IF d.type \in {"masterTcp", "slaveTcp"} THEN "TCP" ELSE "RTU"

(* Whether get_variable_parameters finds a variable, and its place: one    *)
(* found in both sections has that of "out".                               *)
Known(d, name) ==
    /\ d.offset >= 0
    /\ NoSection \notin {d.inp, d.out}
    /\ name \in DOMAIN d.inp \cup DOMAIN d.out

get_variable_parameters(d, name) ==
    LET v == IF name \in DOMAIN d.out THEN d.out[name] ELSE d.inp[name]
    IN  [byte |-> d.offset + v.byte, bit |-> v.bit]

Fault_DataPlace_perVariable(coils, v) == v

(* PiCtory counts the bits of a block of coils from the block's first byte *)
DataPlace(coils, v) ==
    IF coils THEN [byte |-> v.byte + v.bit \div 8, bit |-> v.bit % 8] ELSE v

(* The action id of the device d with parameters a, as the parser stores   *)
(* it.                                                                     *)
modbusAction(d, id, a) ==
    [i16uActionID |-> id,
     coils        |-> a.coils,
     interval_us  |-> a.ms * MSEC,
     data         |-> DataPlace(a.coils, get_variable_parameters(d, a.value)),
     status       |-> get_variable_parameters(d, a.status).byte,
     reset        |-> get_variable_parameters(d, a.reset)]

(* An offset of calloc'ed memory stays 0 if the variable is not found.     *)
StatusOffset(d, name) ==
    IF Known(d, name) THEN get_variable_parameters(d, name).byte ELSE 0

Fault_ImageArea_lastForgotten(vs) ==
    LET byte == {vs[n].byte : n \in DOMAIN vs}
    IN  [start |-> Min(byte), size |-> Max(byte) - Min(byte)]

(* get_device_process_image_parameter.  Its highest offset starts at 0 and *)
(* only a greater one replaces it: without one it fails, and the caller    *)
(* goes on with what it had, nothing.                                      *)
ImageArea(vs) ==
    LET byte == {vs[n].byte : n \in DOMAIN vs}
        last == CHOOSE n \in DOMAIN vs : vs[n].byte = Max(byte)
    IN  IF byte \subseteq {0} THEN [start |-> 0, size |-> 0]
        ELSE [start |-> Min(byte),
              size  |-> Max(byte) + vs[last].len \div 8 - Min(byte)]

Registers(d, vs) ==
    [offset |-> d.offset + ImageArea(vs).start, count |-> ImageArea(vs).size \div 2]
-----------------------------------------------------------------------------
Init ==
    /\ file \in Files
    /\ at = "open" /\ rest = <<>>
    /\ keys = <<>> /\ identifier = NoId /\ actions = <<>>
    /\ parsed = <<>> /\ lost = {}

(* No file, an empty one, one that cannot be read, is not JSON or has no   *)
(* devices.                                                                *)
ReadFails ==
    /\ at = "open"
    /\ at' = "done" /\ lost' = DOMAIN file.devices
    /\ UNCHANGED <<file, rest, keys, identifier, actions, parsed>>

ReadOk ==
    /\ at = "open"
    /\ at' = "devices" /\ rest' = file.devices
    /\ UNCHANGED <<file, keys, identifier, actions, parsed, lost>>

Device == Head(rest)
Index == Len(file.devices) - Len(rest) + 1

AtDevice == at = "devices" /\ rest # <<>>
AtOwnDevice == AtDevice /\ Device.type \in Types(file.process)

(* continue of the outer loop: what nextConfig had is gone.                *)
NextDevice ==
    /\ at' = "devices" /\ rest' = Tail(rest)
    /\ keys' = <<>> /\ identifier' = NoId /\ actions' = <<>>

(* A device without a product type ends the parse with an error.           *)
NoProductType ==
    /\ AtDevice /\ Device.type = "none"
    /\ at' = "done"
    /\ UNCHANGED <<file, rest, keys, identifier, actions, parsed, lost>>

ForeignDevice ==
    /\ AtDevice /\ Device.type \notin Types(file.process) \cup {"none"}
    /\ NextDevice
    /\ UNCHANGED <<file, parsed, lost>>

CallocFails ==
    /\ AtOwnDevice
    /\ NextDevice
    /\ lost' = lost \cup {Index}
    /\ UNCHANGED <<file, parsed>>

BadDevice ==
    /\ AtOwnDevice
    /\ \/ ~parse_device_modbus_configuration(Device)
       \/ file.process = "master" /\ Device.data = NoSection
       \/ file.process = "slave" /\ (Device.offset < 0 \/ Device.inp = NoSection)
    /\ NextDevice
    /\ UNCHANGED <<file, parsed, lost>>
-----------------------------------------------------------------------------
(* parse_modbus_master_action_list up to its loop.                         *)
BeginActions ==
    /\ AtOwnDevice /\ file.process = "master"
    /\ parse_device_modbus_configuration(Device) /\ Device.data # NoSection
    /\ at' = "actions" /\ keys' = Device.data
    /\ identifier' = NoId /\ actions' = <<>>
    /\ UNCHANGED <<file, rest, parsed, lost>>

AtKey == at = "actions" /\ keys # <<>>

(* A key the regular expression does not match leaves the identifier of    *)
(* the key before, unless the action of that one was taken.                *)
KeyIdentifier == IF Head(keys) # NoId THEN Head(keys) ELSE identifier
Parameters == Device.action[KeyIdentifier]

Flaw(f) == AtKey /\ KeyIdentifier # NoId /\ Parameters.flaw = f

Sound(d, a) ==
    a.flaw = "none" /\ \A name \in {a.value, a.status, a.reset} : Known(d, name)

(* calloc returns NULL or strtoul refuses a number: the list is a negative *)
(* value and the device is dropped with the actions it had.                *)
ActionCallocFails ==
    /\ AtKey
    /\ NextDevice
    /\ lost' = lost \cup {Index}
    /\ UNCHANGED <<file, parsed>>

OutOfRange ==
    /\ Flaw("range")
    /\ NextDevice
    /\ UNCHANGED <<file, parsed, lost>>

(* An assert fails: the process aborts.                                    *)
LimitExceeded ==
    /\ Flaw("limit")
    /\ at' = "aborted"
    /\ UNCHANGED <<file, rest, keys, identifier, actions, parsed, lost>>

(* continue of the inner loop: no identifier, a key that is missing, or a  *)
(* variable the device does not have.                                      *)
SkipAction ==
    /\ AtKey
    /\ \/ KeyIdentifier = NoId
       \/ Flaw("absent")
       \/ Flaw("none") /\ ~Sound(Device, Parameters)
    /\ keys' = Tail(keys) /\ identifier' = KeyIdentifier
    /\ UNCHANGED <<file, at, rest, actions, parsed, lost>>

(* get_modbus_action_matching_name_string_value has no memory for a key:   *)
(* to its caller that is a missing key.                                    *)
LookupCallocFails ==
    /\ AtKey /\ KeyIdentifier # NoId
    /\ keys' = Tail(keys) /\ identifier' = KeyIdentifier
    /\ lost' = lost \cup {Index}
    /\ UNCHANGED <<file, at, rest, actions, parsed>>

Fault_TakeAction_keepsIdentifier ==
    /\ AtKey /\ KeyIdentifier # NoId /\ Sound(Device, Parameters)
    /\ keys' = Tail(keys) /\ identifier' = KeyIdentifier
    /\ actions' = <<modbusAction(Device, KeyIdentifier, Parameters)>> \o actions
    /\ UNCHANGED <<file, at, rest, parsed, lost>>

TakeAction ==
    /\ AtKey /\ KeyIdentifier # NoId /\ Sound(Device, Parameters)
    /\ keys' = Tail(keys) /\ identifier' = NoId
    /\ actions' = <<modbusAction(Device, KeyIdentifier, Parameters)>> \o actions
    /\ UNCHANGED <<file, at, rest, parsed, lost>>

(* "deviceMisc" is missing: the whole parse returns an error.              *)
NoDeviceMisc ==
    /\ at = "actions" /\ keys = <<>> /\ Device.misc = NoSection
    /\ at' = "done"
    /\ UNCHANGED <<file, rest, keys, identifier, actions, parsed, lost>>

MasterEntry(d, i, l) ==
    [device |-> i, eProtocol |-> eProtocol(d),
     actions |-> l, i32ActionCount |-> Len(l),
     status |-> StatusOffset(d, d.misc.status),
     reset |-> StatusOffset(d, d.misc.reset)]

MasterDone ==
    /\ at = "actions" /\ keys = <<>> /\ Device.misc # NoSection
    /\ parsed' = <<MasterEntry(Device, Index, actions)>> \o parsed
    /\ NextDevice
    /\ UNCHANGED <<file, lost>>
-----------------------------------------------------------------------------
(* parse_modbus_slave_device_process_image_config: "inp" is looked at, and *)
(* may violate the assert, before "out".                                   *)
AtSlave ==
    /\ AtOwnDevice /\ file.process = "slave"
    /\ parse_device_modbus_configuration(Device)
    /\ Device.offset >= 0 /\ Device.inp # NoSection

Odd(vs) == ImageArea(vs).size % 2 # 0

OddArea ==
    /\ AtSlave
    /\ Odd(Device.inp) \/ (Device.out # NoSection /\ Odd(Device.out))
    /\ at' = "aborted"
    /\ UNCHANGED <<file, rest, keys, identifier, actions, parsed, lost>>

NoOutputs ==
    /\ AtSlave /\ ~Odd(Device.inp) /\ Device.out = NoSection
    /\ NextDevice
    /\ UNCHANGED <<file, parsed, lost>>

SlaveEntry(d, i) ==
    [device |-> i, eProtocol |-> eProtocol(d),
     holding |-> Registers(d, d.inp), input |-> Registers(d, d.out)]

SlaveDone ==
    /\ AtSlave /\ Device.out # NoSection
    /\ ~Odd(Device.inp) /\ ~Odd(Device.out)
    /\ parsed' = <<SlaveEntry(Device, Index)>> \o parsed
    /\ NextDevice
    /\ UNCHANGED <<file, lost>>

AllDevices ==
    /\ at = "devices" /\ rest = <<>>
    /\ at' = "done"
    /\ UNCHANGED <<file, rest, keys, identifier, actions, parsed, lost>>

(* A reset of the driver: main frees the list and parses the file that is  *)
(* there now.  A process that aborted is started again by systemd.         *)
ParseAgain ==
    /\ at \in {"done", "aborted"}
    /\ file' \in {f \in Saved : f.process = file.process}
    /\ at' = "open" /\ rest' = <<>>
    /\ keys' = <<>> /\ identifier' = NoId /\ actions' = <<>>
    /\ parsed' = <<>> /\ lost' = {}

Next ==
    \/ ReadFails \/ ReadOk
    \/ NoProductType \/ ForeignDevice \/ CallocFails \/ BadDevice
    \/ BeginActions \/ ActionCallocFails \/ OutOfRange \/ LimitExceeded
    \/ SkipAction \/ LookupCallocFails \/ TakeAction
    \/ NoDeviceMisc \/ MasterDone
    \/ OddArea \/ NoOutputs \/ SlaveDone
    \/ AllDevices \/ ParseAgain

Spec == Init /\ [][Next]_vars
-----------------------------------------------------------------------------
Place == [byte: Nat, bit: Nat]

IsStored(a) ==
    /\ a.interval_us \in Nat \ {0}
    /\ a.data \in Place /\ a.reset \in Place /\ a.status \in Nat
    /\ a.coils => a.data.bit < 8

IsRest(s, t) ==
    Len(s) <= Len(t) /\ s = SubSeq(t, Len(t) - Len(s) + 1, Len(t))

(* Among the types: the start of a block of coils is a bit of its byte.    *)
TypeOK ==
    /\ file.process \in {"master", "slave"}
    /\ at \in {"open", "devices", "actions", "done", "aborted"}
    /\ IsRest(rest, file.devices)
    /\ keys # <<>> => IsRest(keys, Device.data)
    /\ identifier # NoId => identifier \in ToSet(Device.data)
    /\ \A i \in DOMAIN actions : IsStored(actions[i])
    /\ \A k \in DOMAIN parsed :
           /\ file.devices[parsed[k].device].type \in Types(file.process)
           /\ parsed[k].eProtocol \in {"TCP", "RTU"}
    /\ lost \subseteq DOMAIN file.devices

(* What a file says, read at once.  Its actions are those whose key has an *)
(* identifier of its own, and that are without a flaw.                     *)
SoundKeys(d) ==
    {q \in DOMAIN d.data : d.data[q] # NoId /\ Sound(d, d.action[d.data[q]])}

ActionAt(d, q) == modbusAction(d, d.data[q], d.action[d.data[q]])

(* The list l has the actions of the keys Q, the last one first.           *)
AreActions(l, d, Q) ==
    \E pos \in [DOMAIN l -> Q] :
        /\ \A i, j \in DOMAIN l : i < j => pos[j] < pos[i]
        /\ \A i \in DOMAIN l : l[i] = ActionAt(d, pos[i])
        /\ \A q \in Q : \E i \in DOMAIN l : pos[i] = q

(* A device counts if everything but "deviceMisc" is in order.             *)
Written(d) ==
    /\ d.type \in Types(file.process)
    /\ parse_device_modbus_configuration(d)
    /\ IF file.process = "slave"
       THEN d.offset >= 0 /\ NoSection \notin {d.inp, d.out}
       ELSE /\ d.data # NoSection
            /\ \A id \in ToSet(d.data) \ {NoId} : d.action[id].flaw # "range"

(* The devices behind one that ends the parse are not read.                *)
EndsParse(d) ==
    \/ d.type = "none"
    \/ file.process = "master" /\ Written(d) /\ d.misc = NoSection

WrittenDevices ==
    LET D == file.devices
    IN  {i \in DOMAIN D :
            Written(D[i]) /\ \A j \in 1 .. i : ~EndsParse(D[j])}

ParsedDevices == {parsed[k].device : k \in DOMAIN parsed}

(* An entry has what the file says of its device.  For want of memory      *)
(* actions may be missing; the others are the right ones, still in order.  *)
IsEntry(e) ==
    LET d == file.devices[e.device]
    IN  IF file.process = "slave" THEN e = SlaveEntry(d, e.device)
        ELSE /\ e = MasterEntry(d, e.device, e.actions)
             /\ \E Q \in SUBSET SoundKeys(d) :
                    /\ AreActions(e.actions, d, Q)
                    /\ e.device \notin lost => Q = SoundKeys(d)

(* The caller gets what the file says: a flawed action costs only itself,  *)
(* a flawed device only itself, nothing is left of the device or of the    *)
(* file before, no device and no action comes twice, although an           *)
(* identifier outlives the key it was read from                            *)
(* (parse_modbus_master_action_list).                                      *)
ParsedAsWritten ==
    /\ at = "done" /\ lost = {} => ParsedDevices = WrittenDevices
    /\ \A j, k \in DOMAIN parsed : j < k => parsed[k].device < parsed[j].device
    /\ \A k \in DOMAIN parsed : IsEntry(parsed[k])

(* What PiCtory writes for a slave: whole bytes, none over another.        *)
LaidOut(vs) ==
    /\ \A n \in DOMAIN vs : vs[n].len >= 8
    /\ \A n, m \in DOMAIN vs :
           \/ n = m
           \/ vs[n].byte + vs[n].len \div 8 <= vs[m].byte
           \/ vs[m].byte + vs[m].len \div 8 <= vs[n].byte

SlavesLaidOut ==
    \A f \in Files : \A d \in ToSet(f.devices) :
        f.process = "slave" =>
            \A vs \in {d.inp, d.out} \ {NoSection} : LaidOut(vs)

(* The holding registers of a slave take in all variables of "inp", its    *)
(* input registers those of "out", and no byte before or behind them, when *)
(* not all of them are at offset 0 (parse_modbus_slave_device_process_     *)
(* image_config).                                                          *)
RegistersCoverVariables ==
    file.process = "slave" =>
        \A e \in ToSet(parsed) :
            LET d == file.devices[e.device]
                Covers(r, vs) ==
                    LET bytes == UNION {d.offset + vs[n].byte
                                          .. d.offset + vs[n].byte + vs[n].len \div 8 - 1
                                        : n \in DOMAIN vs}
                    IN  /\ bytes \subseteq r.offset .. r.offset + 2 * r.count - 1
                        /\ r.offset = Min(bytes)
                        /\ r.offset + 2 * r.count - 1 = Max(bytes)
            IN  \A p \in {<<e.holding, d.inp>>, <<e.input, d.out>>} :
                    (\E n \in DOMAIN p[2] : p[2][n].byte > 0) => Covers(p[1], p[2])

(* What each thread of a master derives its times from.                    *)
IntervalLists ==
    IF at # "done" \/ file.process = "slave" THEN {}
    ELSE {[k \in DOMAIN e.actions |-> e.actions[k].interval_us] :
             e \in {e \in ToSet(parsed) : e.i32ActionCount > 0}}

(* The timeout is one libmodbus accepts (less than a second in its         *)
(* microseconds, not zero) and is half the smallest interval, rounded to   *)
(* the microsecond below, whatever the parity of the seconds.              *)
TimeoutIsHalfMinInterval ==
    \A l \in IntervalLists :
        LET t == modbus_timeout(l)
            m == Min(ToSet(l))
        IN  /\ t.usec \in 0 .. USEC - 1
            /\ <<t.sec, t.usec>> # <<0, 0>>
            /\ m > 1 => t.sec * USEC + t.usec = m \div 2

(* "min_event_offset is a quarter of the mean time between events": each   *)
(* action i is sent once per interval, so that the gaps take a quarter of  *)
(* the time the schedule has, offset * (1 / I1 + 1 / I2 + ...) <= 1 / 4.   *)
(* The offset of a TCP thread is a quarter, cut to a nanosecond, of a mean *)
(* that rounding can make a nanosecond longer or shorter, and no more is   *)
(* cut off; that of an RTU thread, from the smallest interval alone, takes *)
(* no more than the quarter.  For intervals whose nanoseconds fit a long   *)
(* (get_minimal_modbus_event_offset and the offset in startRtuMasterThread)*)
GapsFitSchedule ==
    \A l \in IntervalLists :
        LET n == [k \in DOMAIN l |-> NSUS * l[k]]
            p == ProductOf(n)
            s == InverseSum(n)
        IN  /\ 4 * s * Ns(rtu_event_offset(l)) <= p
            /\ Max(ToSet(n)) < LongLimit =>
                   \A tcp \in get_minimal_modbus_event_offset(l) :
                       4 * s * Ns(tcp) <= p + s /\ p - s <= 4 * s * (Ns(tcp) + 1)

(* The reset bit of an action is a bit of the byte at its offset.          *)
ResetBitsInByte ==
    file.process = "master" =>
        \A e \in ToSet(parsed) : \A a \in ToSet(e.actions) : a.reset.bit < 8
=============================================================================

--------------------------- MODULE MCConfigParser ---------------------------
(* Instances of ConfigParser for TLC.  A second has 15 nanoseconds and 5   *)
(* microseconds, and a long overflows at 4 seconds.                        *)
EXTENDS ConfigParser

AllParameters == UNION {Required(t) : t \in Master \cup Slave}

(* As in doc/io.md, on a smaller scale: two words and a block of ten coils *)
(* in "inp", and ten reset bits in "out".                                  *)
Variable(byte, bit, len) == [byte |-> byte, bit |-> bit, len |-> len]
Inputs  == "word1" :> Variable(0, 0, 16) @@ "word2" :> Variable(2, 0, 16)
        @@ "coil9" :> Variable(4, 9, 1) @@ "status" :> Variable(6, 0, 8)
Outputs == "reset1" :> Variable(8, 0, 1) @@ "reset10" :> Variable(8, 9, 1)
        @@ "reset" :> Variable(10, 0, 8)

Action(flaw, ms, value, reset) ==
    [flaw |-> flaw, coils |-> value = "coil9", ms |-> ms,
     value |-> value, status |-> "status", reset |-> reset]

MasterDevice(data, action) ==
    [type |-> "masterTcp", mem |-> AllParameters, offset |-> 20,
     inp |-> Inputs, out |-> Outputs, data |-> data, action |-> action,
     misc |-> [status |-> "status", reset |-> "reset"]]

atoi(id) == CHOOSE k \in 1 .. 3 : <<"1", "2", "3">>[k] = id

(* Every list of up to three intervals in one device.                      *)
Intervals == {1, 2, 3, 5, 7, 9, 10, 12, 15, 18, 20, 24}
TimingDevices ==
    {MasterDevice(SubSeq(<<"1", "2", "3">>, 1, Len(l)),
                  [id \in {"1", "2", "3"} |->
                      Action("none", l[Min({atoi(id), Len(l)})], "word1", "reset1")])
     : l \in UNION {[1 .. n -> Intervals] : n \in 1 .. 3}}

(* Keys with and without an identifier, before and after a flawed action.  *)
FlawedActions ==
    ("1" :> Action("none", 1, "coil9", "reset1"))
        @@ ("2" :> Action("none", 2, "word2", "reset1"))
        @@ ("absent" :> Action("absent", 3, "word1", "reset1"))
        @@ ("unknown" :> Action("none", 3, "word7", "reset1"))
        @@ ("range" :> Action("range", 3, "word1", "reset1"))
        @@ ("limit" :> Action("limit", 3, "word1", "reset1"))
KeyLists ==
    {s \in UNION {[1 .. n -> DOMAIN FlawedActions \cup {NoId}] : n \in 0 .. 3} :
        \A i, j \in DOMAIN s : s[i] = s[j] => i = j \/ s[i] = NoId}

Plain == MasterDevice(<<"1", "2">>, FlawedActions)
MasterDevices ==
    {Plain,
     [Plain EXCEPT !.type = "masterRtu", !.data = <<"2", NoId>>],
     [Plain EXCEPT !.type = "slaveTcp"],
     [Plain EXCEPT !.type = "none"],
     [Plain EXCEPT !.mem = {}],
     [Plain EXCEPT !.data = NoSection],
     [Plain EXCEPT !.data = <<"absent", "1">>],
     [Plain EXCEPT !.data = <<"2", "range">>],
     [Plain EXCEPT !.offset = -1],
     [Plain EXCEPT !.misc = NoSection],
     [Plain EXCEPT !.misc.status = "word7"]}

SlaveInputs == "word1" :> Variable(0, 0, 16) @@ "word2" :> Variable(2, 0, 16)
SlaveOutputs == "word1" :> Variable(4, 0, 16) @@ "word2" :> Variable(6, 0, 32)
PlainSlave == [Plain EXCEPT !.type = "slaveTcp", !.inp = SlaveInputs, !.out = SlaveOutputs]
SlaveDevices ==
    {PlainSlave,
     [PlainSlave EXCEPT !.type = "slaveRtu"],
     [PlainSlave EXCEPT !.type = "none"],
     [PlainSlave EXCEPT !.type = "other"],
     [PlainSlave EXCEPT !.mem = {}],
     [PlainSlave EXCEPT !.offset = -1],
     [PlainSlave EXCEPT !.inp = NoSection],
     [PlainSlave EXCEPT !.out = NoSection],
     [PlainSlave EXCEPT !.inp = "word1" :> Variable(0, 0, 16)],
     [PlainSlave EXCEPT !.out = SlaveOutputs @@ "byte" :> Variable(10, 0, 8)]}

Lists(D, n) == UNION {[1 .. k -> D] : k \in 0 .. n}
File(process, devices) == [process |-> process, devices |-> devices]

MCFiles ==
    {File("master", <<d>>) : d \in TimingDevices}
    \cup {File("master", <<MasterDevice(s, FlawedActions)>>) : s \in KeyLists}
    \cup {File("master", l) : l \in Lists(MasterDevices, 3)}
    \cup {File("slave", l) : l \in Lists(SlaveDevices, 3)}

MCSaved == {File("master", <<Plain>>), File("slave", <<PlainSlave, PlainSlave>>)}

(* The hypothesis of the theorem RegistersHold.                            *)
ASSUME SlavesAssumption == SlavesLaidOut

(* A reset bit beyond the first byte.                                      *)
ResetFiles ==
    {File("master", <<MasterDevice(<<"1">>, "1" :> Action("none", 1, "word1", r))>>)
     : r \in {"reset1", "reset10"}}
=============================================================================

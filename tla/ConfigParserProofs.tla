-------------------------- MODULE ConfigParserProofs ------------------------
(***************************************************************************)
(* What the parser hands to main for every file and every way memory can   *)
(* run out: the entries it returns are what the file says, the registers   *)
(* of a slave cover its variables, and the times derived from the actions  *)
(* of a master are right.                                                  *)
(*                                                                         *)
(* The inductive invariant says where the two loops are: which devices and *)
(* which keys are behind them, and that what they have collected so far is *)
(* what the file says of those.  An action may come from a key before the  *)
(* one in hand, as long as it is behind every action already taken.        *)
(***************************************************************************)
EXTENDS ConfigParser, BusTimingProofs

(* Where the outer loop is.                                                *)
WalkOK ==
    /\ file \in Files
    /\ at \in {"open", "devices", "actions", "done", "aborted"}
    /\ rest \in Seq(ToSet(file.devices)) /\ IsRest(rest, file.devices)
    /\ lost \subseteq DOMAIN file.devices
    /\ at = "open" => rest = <<>> /\ parsed = <<>> /\ lost = {}

(* What the inner loop has between two keys.  The keys before are Done of  *)
(* them, and the actions are those of the keys Q.                          *)
Done == Len(Device.data) - Len(keys)

ActionSet(d) == {ActionAt(d, q) : q \in SoundKeys(d)}

IsTaken(Q) ==
    /\ AreActions(actions, Device, Q)
    /\ identifier # NoId =>
           \E q \in 1 .. Done : Device.data[q] = identifier /\ \A j \in Q : j < q
    /\ Index \notin lost =>
           /\ Q = SoundKeys(Device) \cap 1 .. Done
           /\ identifier # NoId => ~Sound(Device, Device.action[identifier])
           /\ \A q \in 1 .. Done :
                  Device.data[q] # NoId =>
                      Device.action[Device.data[q]].flaw # "range"

(* A device the inner loop is entered for.                                 *)
MasterOK ==
    /\ rest # <<>> /\ file.process = "master" /\ Device.type \in Master
    /\ parse_device_modbus_configuration(Device) /\ Device.data # NoSection

InActions ==
    /\ at \in {"actions", "done", "aborted"} /\ MasterOK
    /\ keys \in Seq(ToSet(Device.data)) /\ IsRest(keys, Device.data)
    /\ actions \in Seq(ActionSet(Device))
    /\ \E Q \in SUBSET (SoundKeys(Device) \cap 1 .. Done) : IsTaken(Q)

Idle == keys = <<>> /\ identifier = NoId /\ actions = <<>>

LoopOK == InActions \/ (at # "actions" /\ Idle)

(* An entry and the device it is of.                                       *)
SlaveOK(d) ==
    /\ d.offset >= 0 /\ NoSection \notin {d.inp, d.out}
    /\ ~Odd(d.inp) /\ ~Odd(d.out)

IsParsed(e) ==
    /\ e.device \in 1 .. Index - 1
    /\ file.devices[e.device].type \in Types(file.process)
    /\ IsEntry(e)
    /\ IF file.process = "slave" THEN SlaveOK(file.devices[e.device])
       ELSE /\ file.devices[e.device].data # NoSection
            /\ e.actions \in Seq(ActionSet(file.devices[e.device]))

ParsedOK ==
    /\ parsed \in Seq(ToSet(parsed))
    /\ \A j, k \in DOMAIN parsed : j < k => parsed[k].device < parsed[j].device
    /\ \A e \in ToSet(parsed) : IsParsed(e)

(* While nothing is lost, the devices before Index that count are parsed.  *)
SoFar ==
    /\ ParsedDevices = {i \in 1 .. Index - 1 : Written(file.devices[i])}
    /\ \A i \in 1 .. Index - 1 : ~EndsParse(file.devices[i])

CompleteOK ==
    lost = {} => /\ at \in {"devices", "actions"} => SoFar
                 /\ at = "done" => ParsedDevices = WrittenDevices

Inv == WalkOK /\ LoopOK /\ ParsedOK /\ CompleteOK
-----------------------------------------------------------------------------
(* A list that grows at its head.                                          *)
LEMMA PrependFacts ==
    ASSUME NEW A, NEW s \in Seq(A), NEW e \in A
    PROVE  /\ <<e>> \o s \in Seq(A)
           /\ Len(<<e>> \o s) = Len(s) + 1
           /\ (<<e>> \o s)[1] = e
           /\ \A i \in 1 .. Len(s) : (<<e>> \o s)[i + 1] = s[i]
           /\ \A i \in DOMAIN (<<e>> \o s) :
                  i = 1 \/ (i - 1 \in DOMAIN s /\ (<<e>> \o s)[i] = s[i - 1])
  <1>1. <<e>> \in Seq(A) /\ Len(<<e>>) = 1 /\ <<e>>[1] = e
    OBVIOUS
  <1> DEFINE t == <<e>> \o s
  <1>2. t \in Seq(A) /\ Len(t) = Len(s) + 1 /\ DOMAIN t = 1 .. Len(s) + 1
    BY <1>1
  <1>3. \A i \in 1 .. Len(s) + 1 : t[i] = IF i = 1 THEN e ELSE s[i - 1]
    BY <1>1
  <1> HIDE DEF t
  <1>4. \A i \in 1 .. Len(s) : i + 1 \in 1 .. Len(s) + 1 /\ i + 1 # 1 /\ (i + 1) - 1 = i
    OBVIOUS
  <1>5. \A i \in 1 .. Len(s) + 1 : i = 1 \/ i - 1 \in 1 .. Len(s)
    OBVIOUS
  <1>6. DOMAIN s = 1 .. Len(s) /\ 1 \in 1 .. Len(s) + 1
    OBVIOUS
  <1>7. QED
    BY <1>2, <1>3, <1>4, <1>5, <1>6 DEF t

(* The rest of a list, from the whole list down to nothing.                *)
LEMMA RestFacts ==
    ASSUME NEW A, NEW t \in Seq(A)
    PROVE  /\ IsRest(t, t) /\ IsRest(<<>>, t)
           /\ \A s \in Seq(A) :
                  IsRest(s, t) /\ s # <<>> =>
                      /\ Len(t) - Len(s) + 1 \in 1 .. Len(t)
                      /\ Head(s) = t[Len(t) - Len(s) + 1]
                      /\ Tail(s) \in Seq(A) /\ Len(Tail(s)) = Len(s) - 1
                      /\ IsRest(Tail(s), t)
  <1>1. IsRest(t, t)
    <2>1. Len(t) \in Nat /\ Len(t) - Len(t) + 1 = 1
      OBVIOUS
    <2>2. t = SubSeq(t, 1, Len(t))
      OBVIOUS
    <2>3. QED
      BY <2>1, <2>2 DEF IsRest
  <1>2. IsRest(<<>>, t)
    <2>1. Len(<<>>) = 0 /\ Len(t) \in Nat
      OBVIOUS
    <2>2. SubSeq(t, Len(t) + 1, Len(t)) = <<>>
      BY <2>1
    <2>3. Len(t) - 0 + 1 = Len(t) + 1
      BY <2>1
    <2>4. QED
      BY <2>1, <2>2, <2>3 DEF IsRest
  <1>3. ASSUME NEW s \in Seq(A), IsRest(s, t), s # <<>>
        PROVE  /\ Len(t) - Len(s) + 1 \in 1 .. Len(t)
               /\ Head(s) = t[Len(t) - Len(s) + 1]
               /\ Tail(s) \in Seq(A) /\ Len(Tail(s)) = Len(s) - 1
               /\ IsRest(Tail(s), t)
    <2> DEFINE n == Len(t)
               k == Len(s)
               p == n - k
    <2>1. n \in Nat /\ k \in Nat \ {0} /\ k <= n /\ s = SubSeq(t, p + 1, n)
      BY <1>3 DEF IsRest
    <2>2. p \in Nat /\ p + 1 \in 1 .. n /\ n = p + k
      BY <2>1
    <2>3. \A i \in 1 .. k : s[i] = t[p + i]
      <3> HIDE DEF n, k, p
      <3>1. \A i \in 1 .. n - (p + 1) + 1 : SubSeq(t, p + 1, n)[i] = t[p + 1 + i - 1]
        BY <2>1, <2>2 DEF n
      <3>2. n - (p + 1) + 1 = k
        BY <2>1, <2>2
      <3>3. \A i \in 1 .. k : p + 1 + i - 1 = p + i
        BY <2>1, <2>2
      <3>4. QED
        BY <2>1, <3>1, <3>2, <3>3
    <2>4. Head(s) = s[1] /\ 1 \in 1 .. k
      BY <1>3, <2>1
    <2>5. Tail(s) \in Seq(A) /\ Len(Tail(s)) = k - 1
      BY <1>3
    <2>6. \A i \in 1 .. k - 1 : Tail(s)[i] = s[i + 1]
      BY <1>3
    <2> DEFINE u == SubSeq(t, p + 2, n)
    <2>7. u \in Seq(A) /\ Len(u) = k - 1 /\ \A i \in 1 .. k - 1 : u[i] = t[p + 1 + i]
      <3> HIDE DEF k, p
      <3>1. u \in Seq(A) /\ Len(u) = IF p + 2 <= n THEN n - (p + 2) + 1 ELSE 0
        BY <2>1, <2>2
      <3>2. Len(u) = k - 1
        BY <2>1, <2>2, <3>1
      <3>3. \A i \in 1 .. n - (p + 2) + 1 : u[i] = t[p + 2 + i - 1]
        BY <2>1, <2>2
      <3>4. \A i \in 1 .. k - 1 : p + 2 + i - 1 = p + 1 + i /\ i \in 1 .. n - (p + 2) + 1
        BY <2>1, <2>2
      <3>5. QED
        BY <3>1, <3>2, <3>3, <3>4
    <2>8. \A i \in 1 .. k - 1 : Tail(s)[i] = u[i]
      <3>1. \A i \in 1 .. k - 1 : i + 1 \in 1 .. k /\ p + (i + 1) = p + 1 + i
        BY <2>1, <2>2
      <3>2. QED
        BY <2>3, <2>6, <2>7, <3>1
    <2>9. Tail(s) = u
      <3> DEFINE v == Tail(s)
      <3>1. v \in Seq(A) /\ u \in Seq(A) /\ Len(v) = k - 1 /\ Len(u) = k - 1
        BY <2>5, <2>7
      <3>2. v = [i \in 1 .. k - 1 |-> v[i]] /\ u = [i \in 1 .. k - 1 |-> u[i]]
        <4> HIDE DEF u, v
        <4>1. v = [i \in 1 .. Len(v) |-> v[i]] /\ u = [i \in 1 .. Len(u) |-> u[i]]
          BY <3>1
        <4>2. QED
          BY <3>1, <4>1
      <3> HIDE DEF u
      <3>3. QED
        BY <2>8, <3>2
    <2>10. IsRest(Tail(s), t)
      <3>1. n - (k - 1) + 1 = p + 2 /\ k - 1 <= n
        BY <2>1, <2>2
      <3>2. QED
        BY <2>5, <2>9, <3>1 DEF IsRest
    <2>11. QED
      BY <2>2, <2>3, <2>4, <2>5, <2>10
  <1>4. QED
    BY <1>1, <1>2, <1>3
-----------------------------------------------------------------------------
(* The place of a variable the device has.                                 *)
LEMMA PlaceType ==
    ASSUME NEW d, IsDevice(d), NEW name, Known(d, name)
    PROVE  get_variable_parameters(d, name) \in Place
  <1>1. d.offset \in Nat
    BY SMT DEF IsDevice, Known
  <1>2. AreVariables(d.inp) /\ AreVariables(d.out)
    BY DEF IsDevice, Known
  <1> DEFINE v == IF name \in DOMAIN d.out THEN d.out[name] ELSE d.inp[name]
  <1>3. v \in [byte: Nat, bit: Nat, len: Nat]
    BY <1>2 DEF AreVariables, Known
  <1>4. get_variable_parameters(d, name) = [byte |-> d.offset + v.byte, bit |-> v.bit]
    BY DEF get_variable_parameters
  <1> HIDE DEF v
  <1>5. v.byte \in Nat /\ v.bit \in Nat
    BY <1>3
  <1>6. QED
    BY <1>1, <1>4, <1>5 DEF Place

(* The parser stores only what the master can work with.                   *)
LEMMA ActionIsStored ==
    ASSUME NEW d, IsDevice(d), d.data # NoSection, NEW a \in ActionSet(d)
    PROVE  IsStored(a)
  <1>1. PICK q \in SoundKeys(d) : a = ActionAt(d, q)
    BY DEF ActionSet
  <1> DEFINE id == d.data[q]
             b == d.action[id]
             v == get_variable_parameters(d, b.value)
  <1>2. id \in DOMAIN d.action /\ Sound(d, b)
    BY <1>1 DEF SoundKeys, IsDevice
  <1>3. b.ms \in Nat \ {0} /\ b.coils \in BOOLEAN
    BY <1>2 DEF IsDevice
  <1>4. /\ v \in Place
        /\ get_variable_parameters(d, b.status) \in Place
        /\ get_variable_parameters(d, b.reset) \in Place
    BY <1>2, PlaceType DEF Sound
  <1>5. /\ a.coils = b.coils /\ a.interval_us = b.ms * MSEC
        /\ a.data = DataPlace(b.coils, v)
        /\ a.status = get_variable_parameters(d, b.status).byte
        /\ a.reset = get_variable_parameters(d, b.reset)
    BY <1>1 DEF ActionAt, modbusAction
  <1> HIDE DEF v, b
  <1>6. a.interval_us \in Nat \ {0}
    BY <1>3, <1>5, FilesAssumption
  <1>7. a.status \in Nat
    BY <1>4, <1>5 DEF Place
  <1>8. a.data \in Place /\ (a.coils => a.data.bit < 8)
    <2>1. v.byte \in Nat /\ v.bit \in Nat
      BY <1>4 DEF Place
    <2>2. v.byte + v.bit \div 8 \in Nat /\ v.bit % 8 \in 0 .. 7
      BY <2>1
    <2>3. QED
      BY <1>3, <1>4, <1>5, <2>2 DEF DataPlace, Place
  <1>9. QED
    BY <1>4, <1>5, <1>6, <1>7, <1>8 DEF IsStored

(* One more action: that of a key behind the keys of the others.           *)
LEMMA OneMoreAction ==
    ASSUME NEW d, d.data # NoSection, IsDevice(d),
           NEW l \in Seq(ActionSet(d)), NEW Q \in SUBSET SoundKeys(d),
           AreActions(l, d, Q),
           NEW q \in SoundKeys(d), \A j \in Q : j < q
    PROVE  /\ <<ActionAt(d, q)>> \o l \in Seq(ActionSet(d))
           /\ AreActions(<<ActionAt(d, q)>> \o l, d, Q \cup {q})
  <1> DEFINE e == ActionAt(d, q)
             t == <<e>> \o l
             n == Len(l)
  <1>1. e \in ActionSet(d)
    BY DEF ActionSet
  <1>2. /\ t \in Seq(ActionSet(d)) /\ DOMAIN t = 1 .. n + 1 /\ t[1] = e
        /\ \A i \in 1 .. n + 1 : i = 1 \/ (i - 1 \in 1 .. n /\ t[i] = l[i - 1])
    <2>1. t \in Seq(ActionSet(d)) /\ Len(t) = n + 1 /\ t[1] = e
          /\ \A i \in DOMAIN t : i = 1 \/ (i - 1 \in DOMAIN l /\ t[i] = l[i - 1])
      BY <1>1, PrependFacts
    <2> HIDE DEF t
    <2>2. DOMAIN t = 1 .. n + 1 /\ DOMAIN l = 1 .. n
      BY <2>1
    <2>3. QED
      BY <2>1, <2>2
  <1>3. PICK pos \in [DOMAIN l -> Q] :
            /\ \A i, j \in DOMAIN l : i < j => pos[j] < pos[i]
            /\ \A i \in DOMAIN l : l[i] = ActionAt(d, pos[i])
            /\ \A k \in Q : \E i \in DOMAIN l : pos[i] = k
    BY DEF AreActions
  <1> HIDE DEF t, e
  <1> DEFINE new == [i \in DOMAIN t |-> IF i = 1 THEN q ELSE pos[i - 1]]
  <1>4. DOMAIN l = 1 .. n /\ n \in Nat
    OBVIOUS
  <1>5. new \in [DOMAIN t -> Q \cup {q}]
    BY <1>2, <1>3, <1>4
  <1>6. \A i, j \in DOMAIN t : i < j => new[j] < new[i]
    <2> TAKE i, j \in DOMAIN t
    <2> HAVE i < j
    <2>1. j # 1 /\ j - 1 \in 1 .. n /\ new[j] = pos[j - 1] /\ pos[j - 1] \in Q
      BY <1>2, <1>3, <1>4
    <2>2. CASE i = 1
      BY <1>2, <2>1, <2>2
    <2>3. CASE i # 1
      <3>1. i - 1 \in 1 .. n /\ new[i] = pos[i - 1] /\ i - 1 < j - 1
        BY <1>2, <2>1, <2>3
      <3>2. QED
        BY <1>3, <1>4, <2>1, <3>1
    <2>4. QED
      BY <2>2, <2>3
  <1>7. \A i \in DOMAIN t : t[i] = ActionAt(d, new[i])
    BY <1>2, <1>3, <1>4 DEF e
  <1>8. \A k \in Q \cup {q} : \E i \in DOMAIN t : new[i] = k
    <2> TAKE k \in Q \cup {q}
    <2>1. CASE k = q
      <3>1. 1 \in DOMAIN t /\ new[1] = q
        BY <1>2, <1>4
      <3>2. QED
        BY <2>1, <3>1
    <2>2. CASE k \in Q
      <3>1. PICK i \in 1 .. n : pos[i] = k
        BY <1>3, <1>4, <2>2
      <3>2. i + 1 \in DOMAIN t /\ i + 1 # 1 /\ (i + 1) - 1 = i
        BY <1>2, <1>4
      <3>3. new[i + 1] = k
        BY <3>1, <3>2
      <3>4. QED
        BY <3>2, <3>3
    <2>3. QED
      BY <2>1, <2>2
  <1>9. AreActions(t, d, Q \cup {q})
    <2> HIDE DEF new
    <2>1. QED
      BY <1>5, <1>6, <1>7, <1>8 DEF AreActions
  <1>10. QED
    BY <1>2, <1>9 DEF t, e
-----------------------------------------------------------------------------
(* The device in hand is one of the file.                                  *)
LEMMA DeviceFacts ==
    ASSUME WalkOK, rest # <<>>
    PROVE  /\ Index \in DOMAIN file.devices /\ Index \in Nat \ {0}
           /\ Device = file.devices[Index] /\ IsDevice(Device)
  <1>1. /\ file.devices \in Seq(ToSet(file.devices))
        /\ \A d \in ToSet(file.devices) : IsDevice(d)
    BY FilesAssumption DEF WalkOK
  <1>2. Index \in 1 .. Len(file.devices) /\ Device = file.devices[Index]
    BY <1>1, RestFacts DEF WalkOK, Index, Device
  <1>3. DOMAIN file.devices = 1 .. Len(file.devices)
    BY <1>1
  <1>4. Device \in ToSet(file.devices)
    BY <1>2, <1>3 DEF ToSet
  <1>5. QED
    BY <1>1, <1>2, <1>3, <1>4

(* Behind it is the next one, or the end.                                  *)
LEMMA NextDeviceFacts ==
    ASSUME WalkOK, rest # <<>>, NextDevice, file' = file,
           lost' \in {lost, lost \cup {Index}}
    PROVE  WalkOK' /\ Idle' /\ LoopOK' /\ at' = "devices" /\ Index' = Index + 1
  <1>1. file.devices \in Seq(ToSet(file.devices))
    BY FilesAssumption DEF WalkOK
  <1>2. /\ rest' \in Seq(ToSet(file.devices)) /\ IsRest(rest', file.devices)
        /\ Len(rest') = Len(rest) - 1
    BY <1>1, RestFacts DEF WalkOK, NextDevice
  <1>3. Index \in DOMAIN file.devices
    BY DeviceFacts
  <1>4. WalkOK'
    <2>1. lost' \subseteq DOMAIN file.devices
      BY <1>3 DEF WalkOK
    <2>2. QED
      BY <1>2, <2>1 DEF WalkOK, NextDevice
  <1>5. Idle' /\ LoopOK'
    BY DEF NextDevice, Idle, LoopOK
  <1>6. Index' = Index + 1
    <2>1. Len(rest) \in Nat /\ Len(file.devices) \in Nat
      BY <1>1 DEF WalkOK
    <2>2. QED
      BY <1>2, <2>1 DEF Index
  <1>7. QED
    BY <1>4, <1>5, <1>6 DEF NextDevice

(* What is said of a device does not change with the parser's state.       *)
LEMMA SameFile ==
    ASSUME file' = file
    PROVE  /\ \A d : Written(d)' <=> Written(d)
           /\ \A d : EndsParse(d)' <=> EndsParse(d)
           /\ WrittenDevices' = WrittenDevices
  <1>1. \A d : Written(d)' <=> Written(d)
    BY Zenon DEF Written
  <1>2. \A d : EndsParse(d)' <=> EndsParse(d)
    BY <1>1, Zenon DEF EndsParse
  <1>3. WrittenDevices' = WrittenDevices
    BY <1>1, <1>2 DEF WrittenDevices
  <1>4. QED
    BY <1>1, <1>2, <1>3

(* An entry stays right while the parser goes on.                          *)
LEMMA EntryStays ==
    ASSUME NEW e, IsParsed(e), file' = file, Index \in Nat,
           Index' \in {Index, Index + 1},
           lost' \subseteq lost \cup {Index}, lost \subseteq lost'
    PROVE  IsParsed(e)'
  <1>1. e.device \in 1 .. Index' - 1
    BY DEF IsParsed
  <1>2. IsEntry(e)'
    <2>1. e.device \notin lost' => e.device \notin lost
      OBVIOUS
    <2>2. CASE file.process = "slave"
      BY <2>2 DEF IsParsed, IsEntry
    <2>3. CASE file.process # "slave"
      BY <2>1, <2>3 DEF IsParsed, IsEntry
    <2>4. QED
      BY <2>2, <2>3
  <1>3. QED
    BY <1>1, <1>2 DEF IsParsed
-----------------------------------------------------------------------------
(* A device that is dropped: for want of memory, or because it does not    *)
(* count.                                                                  *)
LEMMA DropKept ==
    ASSUME Inv, at \in {"devices", "actions"}, rest # <<>>, NextDevice,
           UNCHANGED <<file, parsed>>,
           \/ lost' = lost /\ ~Written(Device) /\ ~EndsParse(Device)
           \/ lost' = lost \cup {Index}
    PROVE  Inv'
  <1>1. WalkOK /\ ParsedOK /\ CompleteOK
    BY DEF Inv
  <1>2. WalkOK' /\ Idle' /\ LoopOK' /\ at' = "devices" /\ Index' = Index + 1
    BY <1>1, NextDeviceFacts
  <1>3. Index \in Nat \ {0} /\ Device = file.devices[Index]
    BY <1>1, DeviceFacts
  <1>4. ParsedOK'
    <2>1. ASSUME NEW e, e \in ToSet(parsed) PROVE IsParsed(e)'
      <3>1. IsParsed(e)
        BY <1>1, <2>1 DEF ParsedOK
      <3>2. QED
        BY <1>2, <1>3, <3>1, EntryStays
    <2>2. QED
      BY <1>1, <2>1 DEF ParsedOK
  <1>5. CompleteOK'
    <2> SUFFICES ASSUME lost' = {} PROVE SoFar'
      BY <1>2 DEF CompleteOK
    <2>1. lost = {} /\ ~Written(Device) /\ ~EndsParse(Device)
      OBVIOUS
    <2>2. SoFar
      BY <1>1, <2>1 DEF CompleteOK
    <2>3. 1 .. Index' - 1 = (1 .. Index - 1) \cup {Index}
      BY <1>2, <1>3
    <2>4. ParsedDevices' = ParsedDevices
      BY DEF ParsedDevices
    <2>5. \A d : (Written(d)' <=> Written(d)) /\ (EndsParse(d)' <=> EndsParse(d))
      BY SameFile
    <2>6. QED
      BY <1>3, <2>1, <2>2, <2>3, <2>4, <2>5 DEF SoFar
  <1>6. QED
    BY <1>2, <1>4, <1>5 DEF Inv

(* A device that gets an entry.                                            *)
LEMMA EntryKept ==
    ASSUME Inv, at \in {"devices", "actions"}, rest # <<>>, NextDevice,
           UNCHANGED <<file, lost>>,
           NEW e, parsed' = <<e>> \o parsed, e.device = Index,
           Device.type \in Types(file.process), IsEntry(e),
           IF file.process = "slave" THEN SlaveOK(Device)
           ELSE Device.data # NoSection /\ e.actions \in Seq(ActionSet(Device)),
           lost = {} => Written(Device) /\ ~EndsParse(Device)
    PROVE  Inv'
  <1>1. WalkOK /\ ParsedOK /\ CompleteOK
    BY DEF Inv
  <1>2. WalkOK' /\ Idle' /\ LoopOK' /\ at' = "devices" /\ Index' = Index + 1
    BY <1>1, NextDeviceFacts
  <1>3. Index \in Nat \ {0} /\ Device = file.devices[Index]
    BY <1>1, DeviceFacts
  <1> DEFINE A == ToSet(parsed) \cup {e}
             n == Len(parsed)
  <1>4. parsed \in Seq(A) /\ e \in A
    <2>1. parsed \in Seq(ToSet(parsed))
      BY <1>1 DEF ParsedOK
    <2> DEFINE B == ToSet(parsed)
    <2> HIDE DEF B
    <2>2. parsed \in Seq(B) => parsed \in Seq(B \cup {e})
      OBVIOUS
    <2>3. QED
      BY <2>1, <2>2 DEF B
  <1>5. /\ parsed' \in Seq(A) /\ Len(parsed') = n + 1 /\ parsed'[1] = e
        /\ \A i \in 1 .. n : parsed'[i + 1] = parsed[i]
        /\ \A i \in DOMAIN parsed' :
               i = 1 \/ (i - 1 \in DOMAIN parsed /\ parsed'[i] = parsed[i - 1])
    <2> HIDE DEF A
    <2>1. QED
      BY <1>4, PrependFacts
  <1>6. /\ DOMAIN parsed = 1 .. n /\ DOMAIN parsed' = 1 .. n + 1 /\ n \in Nat
        /\ ToSet(parsed) = {parsed[k] : k \in 1 .. n}
    <2>1. DOMAIN parsed = 1 .. n /\ DOMAIN parsed' = 1 .. n + 1 /\ n \in Nat
      <3> HIDE DEF A
      <3>1. QED
        BY <1>4, <1>5
    <2>2. QED
      BY <2>1 DEF ToSet
  <1>7. \A k \in 1 .. n : k + 1 \in 1 .. n + 1 /\ k + 1 # 1 /\ (k + 1) - 1 = k
    BY <1>6
  <1>8. 1 \in 1 .. n + 1 /\ \A i \in 1 .. n + 1 : i = 1 \/ i - 1 \in 1 .. n
    BY <1>6
  <1>9. IsParsed(e)'
    <2>1. e.device \in 1 .. Index' - 1
      BY <1>2, <1>3
    <2>2. IsEntry(e)'
      BY DEF IsEntry
    <2>3. QED
      BY <1>3, <2>1, <2>2 DEF IsParsed
  <1>10. ASSUME NEW x, x \in ToSet(parsed) PROVE IsParsed(x) /\ IsParsed(x)'
    <2>1. IsParsed(x)
      BY <1>1, <1>10 DEF ParsedOK
    <2>2. QED
      BY <1>2, <1>3, <2>1, EntryStays
  <1>11. ParsedOK'
    <2>1. parsed' \in Seq(ToSet(parsed'))
      <3>1. A = ToSet(parsed')
        <4>1. A \subseteq {parsed'[k] : k \in 1 .. n + 1}
          BY <1>5, <1>6, <1>7, <1>8
        <4>2. {parsed'[k] : k \in 1 .. n + 1} \subseteq A
          BY <1>5, <1>6, <1>8
        <4>3. QED
          BY <1>6, <4>1, <4>2 DEF ToSet
      <3>2. QED
        BY <1>5, <3>1
    <2>2. \A i, k \in DOMAIN parsed' :
              i < k => parsed'[k].device < parsed'[i].device
      <3> TAKE i, k \in DOMAIN parsed'
      <3> HAVE i < k
      <3>1. k # 1 /\ k - 1 \in DOMAIN parsed /\ parsed'[k] = parsed[k - 1]
        BY <1>5, <1>6
      <3>2. CASE i = 1
        <4>1. parsed[k - 1].device \in 1 .. Index - 1
          BY <1>6, <1>10, <3>1 DEF IsParsed
        <4>2. QED
          BY <1>3, <1>5, <3>1, <3>2, <4>1
      <3>3. CASE i # 1
        <4>1. i - 1 \in DOMAIN parsed /\ parsed'[i] = parsed[i - 1] /\ i - 1 < k - 1
          BY <1>5, <1>6, <3>3
        <4>2. QED
          BY <1>1, <3>1, <4>1 DEF ParsedOK
      <3>4. QED
        BY <3>2, <3>3
    <2>3. ASSUME NEW x, x \in ToSet(parsed)' PROVE IsParsed(x)'
      <3>1. x \in A
        BY <1>5, <1>6, <2>3 DEF ToSet
      <3>2. QED
        BY <1>9, <1>10, <3>1
    <2>4. QED
      BY <2>1, <2>2, <2>3 DEF ParsedOK
  <1>12. CompleteOK'
    <2> SUFFICES ASSUME lost = {} PROVE SoFar'
      BY <1>2 DEF CompleteOK
    <2>1. SoFar /\ Written(Device) /\ ~EndsParse(Device)
      BY <1>1 DEF CompleteOK
    <2>2. 1 .. Index' - 1 = (1 .. Index - 1) \cup {Index}
      BY <1>2, <1>3
    <2>3. ParsedDevices' = ParsedDevices \cup {Index}
      <3>1. ParsedDevices' \subseteq ParsedDevices \cup {Index}
        BY <1>5 DEF ParsedDevices
      <3>2. Index \in ParsedDevices'
        BY <1>5, <1>6, <1>8 DEF ParsedDevices
      <3>3. ParsedDevices \subseteq ParsedDevices'
        <4> SUFFICES ASSUME NEW k \in 1 .. n PROVE parsed[k].device \in ParsedDevices'
          BY <1>6 DEF ParsedDevices
        <4>1. k + 1 \in DOMAIN parsed' /\ parsed'[k + 1] = parsed[k]
          BY <1>5, <1>6, <1>7
        <4>2. parsed'[k + 1].device \in {parsed'[i].device : i \in DOMAIN parsed'}
          BY <4>1
        <4>3. QED
          BY <4>1, <4>2 DEF ParsedDevices
      <3>4. QED
        BY <3>1, <3>2, <3>3
    <2>4. \A d : (Written(d)' <=> Written(d)) /\ (EndsParse(d)' <=> EndsParse(d))
      BY SameFile
    <2>5. QED
      BY <1>3, <2>1, <2>2, <2>3, <2>4 DEF SoFar
  <1>13. QED
    BY <1>2, <1>11, <1>12 DEF Inv

(* The parser stops: at the end of the file, with an error or by abort.    *)
LEMMA HaltKept ==
    ASSUME Inv, at' \in {"done", "aborted"},
           UNCHANGED <<file, rest, keys, identifier, actions, parsed, lost>>,
           lost = {} /\ at' = "done" => ParsedDevices = WrittenDevices
    PROVE  Inv'
  <1>1. WalkOK /\ LoopOK /\ ParsedOK
    BY DEF Inv
  <1>2. WalkOK'
    BY <1>1 DEF WalkOK
  <1>3. Index' = Index /\ Device' = Device /\ Done' = Done
    BY DEF Index, Device, Done
  <1>4. LoopOK'
    <2>1. CASE InActions
      <3>1. \A Q : IsTaken(Q)' <=> IsTaken(Q)
        BY <1>3 DEF IsTaken
      <3>2. MasterOK'
        BY <1>3, <2>1 DEF InActions, MasterOK
      <3>3. InActions'
        BY <1>3, <2>1, <3>1, <3>2 DEF InActions
      <3>4. QED
        BY <3>3 DEF LoopOK
    <2>2. CASE Idle
      BY <2>2 DEF Idle, LoopOK
    <2>3. QED
      BY <1>1, <2>1, <2>2 DEF LoopOK
  <1>5. ParsedOK'
    <2>1. ASSUME NEW e, e \in ToSet(parsed) PROVE IsParsed(e)'
      <3>1. IsParsed(e)
        BY <1>1, <2>1 DEF ParsedOK
      <3>2. QED
        BY <1>3, <3>1 DEF IsParsed, IsEntry
    <2>2. QED
      BY <1>1, <2>1 DEF ParsedOK
  <1>6. CompleteOK'
    <2>1. WrittenDevices' = WrittenDevices /\ ParsedDevices' = ParsedDevices
      BY SameFile DEF ParsedDevices
    <2>2. QED
      BY <2>1 DEF CompleteOK
  <1>7. QED
    BY <1>2, <1>4, <1>5, <1>6 DEF Inv
-----------------------------------------------------------------------------
(* The device whose actions are read, and its keys.                        *)
LEMMA DataFacts ==
    ASSUME WalkOK, MasterOK
    PROVE  /\ IsDevice(Device) /\ Device.data \in Seq(ToSet(Device.data))
           /\ DOMAIN Device.data = 1 .. Len(Device.data)
           /\ Len(Device.data) \in Nat
  <1>1. IsDevice(Device)
    BY DeviceFacts DEF MasterOK
  <1>2. Device.data \in Seq(DOMAIN Device.action \cup {NoId})
    BY <1>1 DEF IsDevice, MasterOK
  <1> DEFINE t == Device.data
  <1>3. DOMAIN t = 1 .. Len(t) /\ Len(t) \in Nat /\ t = [i \in 1 .. Len(t) |-> t[i]]
    BY <1>2
  <1>4. t \in Seq(ToSet(t))
    <2>1. \A i \in 1 .. Len(t) : t[i] \in ToSet(t)
      BY <1>3 DEF ToSet
    <2>2. t \in [1 .. Len(t) -> ToSet(t)]
      BY <1>3, <2>1, Zenon
    <2>3. QED
      BY <1>3, <2>2
  <1>5. QED
    BY <1>1, <1>3, <1>4

(* The key in hand is the one behind those that are done.                  *)
LEMMA KeyFacts ==
    ASSUME Inv, AtKey
    PROVE  /\ InActions /\ rest # <<>> /\ IsDevice(Device)
           /\ Done \in Nat /\ Done + 1 \in DOMAIN Device.data
           /\ DOMAIN Device.data = 1 .. Len(Device.data)
           /\ Len(Device.data) \in Nat
           /\ Head(keys) = Device.data[Done + 1]
           /\ Tail(keys) \in Seq(ToSet(Device.data))
           /\ IsRest(Tail(keys), Device.data)
           /\ Len(Device.data) - Len(Tail(keys)) = Done + 1
           /\ KeyIdentifier # NoId => KeyIdentifier \in ToSet(Device.data)
  <1>1. WalkOK /\ InActions /\ MasterOK /\ rest # <<>>
    BY DEF Inv, LoopOK, AtKey, InActions, MasterOK
  <1>2. /\ IsDevice(Device) /\ Device.data \in Seq(ToSet(Device.data))
        /\ DOMAIN Device.data = 1 .. Len(Device.data)
        /\ Len(Device.data) \in Nat
    BY <1>1, DataFacts
  <1>3. keys \in Seq(ToSet(Device.data)) /\ IsRest(keys, Device.data) /\ keys # <<>>
    BY <1>1 DEF InActions, AtKey
  <1>4. /\ Done + 1 \in 1 .. Len(Device.data)
        /\ Head(keys) = Device.data[Done + 1]
        /\ Tail(keys) \in Seq(ToSet(Device.data))
        /\ Len(Tail(keys)) = Len(keys) - 1
        /\ IsRest(Tail(keys), Device.data)
    BY <1>2, <1>3, RestFacts DEF Done
  <1>5. Done \in Nat /\ Len(Device.data) - Len(Tail(keys)) = Done + 1
    <2>1. Len(keys) \in Nat /\ Len(keys) <= Len(Device.data)
      BY <1>3 DEF IsRest
    <2>2. QED
      BY <1>2, <1>4, <2>1 DEF Done
  <1>6. KeyIdentifier # NoId => KeyIdentifier \in ToSet(Device.data)
    <2>1. Head(keys) \in ToSet(Device.data)
      BY <1>2, <1>4 DEF ToSet
    <2>2. identifier # NoId => identifier \in ToSet(Device.data)
      <3>1. PICK Q \in SUBSET (SoundKeys(Device) \cap 1 .. Done) : IsTaken(Q)
        BY <1>1 DEF InActions
      <3>2. \A q \in 1 .. Done : q \in DOMAIN Device.data
        BY <1>2, <1>4, <1>5
      <3>3. QED
        BY <3>1, <3>2 DEF IsTaken, ToSet
    <2>3. QED
      BY <2>1, <2>2 DEF KeyIdentifier
  <1>7. QED
    BY <1>1, <1>2, <1>4, <1>5, <1>6

(* A key is done, with or without an action taken.                         *)
LEMMA KeyKept ==
    ASSUME Inv, AtKey, keys' = Tail(keys),
           UNCHANGED <<file, at, rest, parsed>>,
           lost' \in {lost, lost \cup {Index}},
           actions' \in Seq(ActionSet(Device)),
           NEW Q \in SUBSET (SoundKeys(Device) \cap 1 .. Done + 1),
           AreActions(actions', Device, Q),
           identifier' # NoId =>
               \E q \in 1 .. Done + 1 :
                   Device.data[q] = identifier' /\ \A j \in Q : j < q,
           Index \notin lost' =>
               /\ Q = SoundKeys(Device) \cap 1 .. Done + 1
               /\ identifier' # NoId => ~Sound(Device, Device.action[identifier'])
               /\ \A q \in 1 .. Done + 1 :
                      Device.data[q] # NoId =>
                          Device.action[Device.data[q]].flaw # "range"
    PROVE  Inv'
  <1>1. WalkOK /\ ParsedOK /\ CompleteOK
    BY DEF Inv
  <1>2. Index' = Index /\ Device' = Device
    BY DEF Index, Device
  <1>3. InActions /\ rest # <<>>
    BY KeyFacts
  <1>4. Done' = Done + 1
    BY <1>2, KeyFacts DEF Done
  <1>5. Index \in Nat \ {0} /\ Index \in DOMAIN file.devices
    BY <1>1, <1>3, DeviceFacts
  <1>6. WalkOK'
    BY <1>1, <1>5 DEF WalkOK, AtKey
  <1>7. LoopOK'
    <2>1. IsTaken(Q)'
      BY <1>2, <1>4 DEF IsTaken
    <2>2. MasterOK'
      BY <1>2, <1>3 DEF InActions, MasterOK
    <2>3. keys' \in Seq(ToSet(Device.data)) /\ IsRest(keys', Device.data)
      BY KeyFacts
    <2>4. InActions'
      BY <1>2, <1>3, <1>4, <2>1, <2>2, <2>3 DEF InActions
    <2>5. QED
      BY <2>4 DEF LoopOK
  <1>8. ParsedOK'
    <2>1. ASSUME NEW e, e \in ToSet(parsed) PROVE IsParsed(e)'
      <3>1. IsParsed(e)
        BY <1>1, <2>1 DEF ParsedOK
      <3>2. QED
        BY <1>2, <1>5, <3>1, EntryStays
    <2>2. QED
      BY <1>1, <2>1 DEF ParsedOK
  <1>9. CompleteOK'
    <2>1. at = "actions" /\ ParsedDevices' = ParsedDevices
      BY DEF AtKey, ParsedDevices
    <2>2. \A d : (Written(d)' <=> Written(d)) /\ (EndsParse(d)' <=> EndsParse(d))
      BY SameFile
    <2>3. lost' = {} => SoFar
      BY <1>1, <2>1 DEF CompleteOK
    <2>4. lost' = {} => SoFar'
      BY <1>2, <2>1, <2>2, <2>3 DEF SoFar
    <2>5. QED
      BY <2>1, <2>4 DEF CompleteOK
  <1>10. QED
    BY <1>6, <1>7, <1>8, <1>9 DEF Inv

(* A key without an action to take.                                        *)
LEMMA SkipKept ==
    ASSUME Inv, SkipAction
    PROVE  Inv'
  <1>1. AtKey
    BY DEF SkipAction
  <1>2. /\ InActions /\ Done \in Nat /\ Done + 1 \in DOMAIN Device.data
        /\ Head(keys) = Device.data[Done + 1]
    BY <1>1, KeyFacts
  <1>3. PICK Q \in SUBSET (SoundKeys(Device) \cap 1 .. Done) : IsTaken(Q)
    BY <1>2 DEF InActions
  <1>4. 1 .. Done + 1 = (1 .. Done) \cup {Done + 1}
    BY <1>2
  <1>5. KeyIdentifier # NoId =>
            /\ Device.action[KeyIdentifier].flaw # "range"
            /\ ~Sound(Device, Device.action[KeyIdentifier])
    BY DEF SkipAction, Flaw, Parameters, Sound
  <1>6. Head(keys) # NoId => KeyIdentifier = Device.data[Done + 1]
    BY <1>2 DEF KeyIdentifier
  <1>7. Done + 1 \notin SoundKeys(Device)
    BY <1>2, <1>5, <1>6 DEF SoundKeys
  <1>8. KeyIdentifier # NoId =>
            \E q \in 1 .. Done + 1 :
                Device.data[q] = KeyIdentifier /\ \A j \in Q : j < q
    <2>1. CASE Head(keys) # NoId
      <3>1. \A j \in Q : j < Done + 1
        BY <1>2
      <3>2. QED
        BY <1>2, <1>4, <1>6, <2>1, <3>1
    <2>2. CASE Head(keys) = NoId
      BY <1>3, <1>4, <2>2 DEF IsTaken, KeyIdentifier
    <2>3. QED
      BY <2>1, <2>2
  <1>9. Index \notin lost =>
            /\ Q = SoundKeys(Device) \cap 1 .. Done + 1
            /\ \A q \in 1 .. Done + 1 :
                   Device.data[q] # NoId =>
                       Device.action[Device.data[q]].flaw # "range"
    BY <1>2, <1>3, <1>4, <1>5, <1>6, <1>7 DEF IsTaken
  <1>10. Q \in SUBSET (SoundKeys(Device) \cap 1 .. Done + 1)
    BY <1>4
  <1>11. /\ keys' = Tail(keys) /\ identifier' = KeyIdentifier
         /\ UNCHANGED <<file, at, rest, actions, parsed, lost>>
    BY DEF SkipAction
  <1>12. actions' \in Seq(ActionSet(Device)) /\ AreActions(actions', Device, Q)
    BY <1>2, <1>3, <1>11 DEF InActions, IsTaken
  <1>13. QED
    BY <1>1, <1>5, <1>8, <1>9, <1>10, <1>11, <1>12, KeyKept

(* No memory to look for what an action has.                               *)
LEMMA LookupKept ==
    ASSUME Inv, LookupCallocFails
    PROVE  Inv'
  <1>1. AtKey
    BY DEF LookupCallocFails
  <1>2. /\ InActions /\ Done \in Nat /\ Done + 1 \in DOMAIN Device.data
        /\ Head(keys) = Device.data[Done + 1]
    BY <1>1, KeyFacts
  <1>3. PICK Q \in SUBSET (SoundKeys(Device) \cap 1 .. Done) : IsTaken(Q)
    BY <1>2 DEF InActions
  <1>4. 1 .. Done + 1 = (1 .. Done) \cup {Done + 1}
    BY <1>2
  <1>5. \E q \in 1 .. Done + 1 :
            Device.data[q] = KeyIdentifier /\ \A j \in Q : j < q
    <2>1. CASE Head(keys) # NoId
      <3>1. \A j \in Q : j < Done + 1
        BY <1>2
      <3>2. QED
        BY <1>2, <1>4, <2>1, <3>1 DEF KeyIdentifier
    <2>2. CASE Head(keys) = NoId
      BY <1>3, <1>4, <2>2 DEF IsTaken, KeyIdentifier, LookupCallocFails
    <2>3. QED
      BY <2>1, <2>2
  <1>6. Q \in SUBSET (SoundKeys(Device) \cap 1 .. Done + 1)
    BY <1>4
  <1>7. /\ keys' = Tail(keys) /\ identifier' = KeyIdentifier
        /\ lost' = lost \cup {Index}
        /\ UNCHANGED <<file, at, rest, actions, parsed>>
    BY DEF LookupCallocFails
  <1>8. actions' \in Seq(ActionSet(Device)) /\ AreActions(actions', Device, Q)
    BY <1>2, <1>3, <1>7 DEF InActions, IsTaken
  <1>9. QED
    BY <1>1, <1>5, <1>6, <1>7, <1>8, KeyKept

(* An action is taken: that of the key in hand, or, when that one has no   *)
(* identifier, of the key the identifier is from.                          *)
LEMMA TakeKept ==
    ASSUME Inv, TakeAction
    PROVE  Inv'
  <1>1. AtKey /\ KeyIdentifier # NoId /\ Sound(Device, Device.action[KeyIdentifier])
    BY DEF TakeAction, Parameters
  <1>2. /\ InActions /\ IsDevice(Device) /\ Device.data # NoSection
        /\ Done \in Nat /\ Done + 1 \in DOMAIN Device.data
        /\ Head(keys) = Device.data[Done + 1]
        /\ DOMAIN Device.data = 1 .. Len(Device.data) /\ Len(Device.data) \in Nat
    BY <1>1, KeyFacts DEF InActions, MasterOK
  <1>3. PICK Q \in SUBSET (SoundKeys(Device) \cap 1 .. Done) : IsTaken(Q)
    BY <1>2 DEF InActions
  <1>4. 1 .. Done + 1 = (1 .. Done) \cup {Done + 1}
    BY <1>2
  <1>5. \E q \in 1 .. Done + 1 :
            /\ Device.data[q] = KeyIdentifier /\ \A j \in Q : j < q
            /\ Index \notin lost => q = Done + 1
    <2>1. CASE Head(keys) # NoId
      <3>1. \A j \in Q : j < Done + 1
        BY <1>2
      <3>2. QED
        BY <1>2, <1>4, <2>1, <3>1 DEF KeyIdentifier
    <2>2. CASE Head(keys) = NoId
      <3>1. identifier = KeyIdentifier
        BY <2>2 DEF KeyIdentifier
      <3>2. Index \in lost
        BY <1>1, <1>3, <3>1 DEF IsTaken
      <3>3. QED
        BY <1>1, <1>3, <1>4, <3>1, <3>2 DEF IsTaken
    <2>3. QED
      BY <2>1, <2>2
  <1>6. PICK q \in 1 .. Done + 1 :
            /\ Device.data[q] = KeyIdentifier /\ \A j \in Q : j < q
            /\ Index \notin lost => q = Done + 1
    BY <1>5
  <1>7. q \in SoundKeys(Device)
    <2>1. q \in DOMAIN Device.data
      BY <1>2
    <2>2. QED
      BY <1>1, <1>6, <2>1 DEF SoundKeys
  <1>8. /\ keys' = Tail(keys) /\ identifier' = NoId
        /\ actions' = <<ActionAt(Device, q)>> \o actions
        /\ UNCHANGED <<file, at, rest, parsed, lost>>
    BY <1>6 DEF TakeAction, ActionAt, Parameters
  <1>9. /\ actions' \in Seq(ActionSet(Device))
        /\ AreActions(actions', Device, Q \cup {q})
    <2>1. /\ actions \in Seq(ActionSet(Device)) /\ AreActions(actions, Device, Q)
          /\ Q \in SUBSET SoundKeys(Device)
      BY <1>2, <1>3 DEF InActions, IsTaken
    <2> DEFINE d == Device
               l == actions
    <2>2. /\ d.data # NoSection /\ IsDevice(d) /\ l \in Seq(ActionSet(d))
          /\ Q \in SUBSET SoundKeys(d) /\ AreActions(l, d, Q)
          /\ q \in SoundKeys(d) /\ \A j \in Q : j < q
      BY <1>2, <1>6, <1>7, <2>1
    <2>3. actions' = <<ActionAt(d, q)>> \o l
      BY <1>8
    <2> HIDE DEF d, l
    <2>4. /\ <<ActionAt(d, q)>> \o l \in Seq(ActionSet(d))
          /\ AreActions(<<ActionAt(d, q)>> \o l, d, Q \cup {q})
      BY <2>2, OneMoreAction
    <2>5. QED
      BY <2>3, <2>4 DEF d
  <1>10. Q \cup {q} \in SUBSET (SoundKeys(Device) \cap 1 .. Done + 1)
    BY <1>4, <1>7
  <1>11. Index \notin lost =>
             /\ Q \cup {q} = SoundKeys(Device) \cap 1 .. Done + 1
             /\ \A k \in 1 .. Done + 1 :
                    Device.data[k] # NoId =>
                        Device.action[Device.data[k]].flaw # "range"
    <2> SUFFICES ASSUME Index \notin lost
                 PROVE  /\ Q \cup {q} = SoundKeys(Device) \cap 1 .. Done + 1
                        /\ \A k \in 1 .. Done + 1 :
                               Device.data[k] # NoId =>
                                   Device.action[Device.data[k]].flaw # "range"
      OBVIOUS
    <2>1. q = Done + 1 /\ Device.data[q] = KeyIdentifier
      BY <1>6
    <2>2. Device.action[KeyIdentifier].flaw # "range"
      BY <1>1 DEF Sound
    <2>3. /\ Q = SoundKeys(Device) \cap 1 .. Done
          /\ \A k \in 1 .. Done :
                 Device.data[k] # NoId =>
                     Device.action[Device.data[k]].flaw # "range"
      BY <1>3 DEF IsTaken
    <2>4. QED
      BY <1>4, <1>7, <2>1, <2>2, <2>3
  <1>12. QED
    BY <1>1, <1>8, <1>9, <1>10, <1>11, KeyKept
-----------------------------------------------------------------------------
(* The first state of the parser.                                          *)
LEMMA InvInit ==
    ASSUME Init
    PROVE  Inv
  <1>1. file.devices \in Seq(ToSet(file.devices))
    BY FilesAssumption DEF Init
  <1>2. rest \in Seq(ToSet(file.devices)) /\ IsRest(rest, file.devices)
    BY <1>1, RestFacts DEF Init
  <1>3. WalkOK /\ LoopOK /\ CompleteOK
    BY <1>2 DEF Init, WalkOK, LoopOK, Idle, CompleteOK
  <1>4. ParsedOK
    <2>1. parsed = <<>> /\ DOMAIN parsed = {} /\ parsed \in Seq(ToSet(parsed))
      BY DEF Init
    <2>2. ToSet(parsed) = {}
      BY <2>1 DEF ToSet
    <2>3. QED
      BY <2>1, <2>2 DEF ParsedOK
  <1>5. QED
    BY <1>3, <1>4 DEF Inv

(* So is the first one after a reset of the driver or a restart.           *)
LEMMA ParseAgainKept ==
    ASSUME Inv, ParseAgain
    PROVE  Inv'
  <1>1. file' \in Files
    BY FilesAssumption DEF ParseAgain
  <1>2. file'.devices \in Seq(ToSet(file'.devices))
    BY <1>1, FilesAssumption
  <1>3. rest' \in Seq(ToSet(file'.devices)) /\ IsRest(rest', file'.devices)
    BY <1>2, RestFacts DEF ParseAgain
  <1>4. WalkOK' /\ LoopOK' /\ CompleteOK'
    BY <1>1, <1>3 DEF ParseAgain, WalkOK, LoopOK, Idle, CompleteOK
  <1>5. ParsedOK'
    <2>1. parsed' = <<>> /\ DOMAIN parsed' = {} /\ parsed' \in Seq(ToSet(parsed'))
      BY DEF ParseAgain
    <2>2. ToSet(parsed') = {}
      BY <2>1 DEF ToSet
    <2>3. QED
      BY <2>1, <2>2 DEF ParsedOK
  <1>6. QED
    BY <1>4, <1>5 DEF Inv

(* The walk begins at the first device.                                    *)
LEMMA ReadOkKept ==
    ASSUME Inv, ReadOk
    PROVE  Inv'
  <1>1. WalkOK /\ LoopOK /\ ParsedOK
    BY DEF Inv
  <1>2. file.devices \in Seq(ToSet(file.devices)) /\ parsed = <<>> /\ lost = {}
    BY <1>1, FilesAssumption DEF WalkOK, ReadOk
  <1>3. rest' \in Seq(ToSet(file.devices)) /\ IsRest(rest', file.devices)
    BY <1>2, RestFacts DEF ReadOk
  <1>4. WalkOK' /\ LoopOK'
    BY <1>1, <1>3 DEF ReadOk, WalkOK, LoopOK, InActions, Idle
  <1>5. parsed' = <<>> /\ DOMAIN parsed' = {} /\ ToSet(parsed') = {}
    <2>1. parsed' = <<>> /\ DOMAIN parsed' = {}
      BY <1>2 DEF ReadOk
    <2>2. QED
      BY <2>1 DEF ToSet
  <1>6. ParsedOK'
    <2>1. parsed' \in Seq(ToSet(parsed'))
      BY <1>5
    <2>2. QED
      BY <1>5, <2>1 DEF ParsedOK
  <1>7. CompleteOK'
    <2>1. Index' = 1
      <3>1. Len(file.devices) \in Nat
        BY <1>2
      <3>2. QED
        BY <3>1 DEF Index, ReadOk
    <2>2. ParsedDevices' = {} /\ 1 .. Index' - 1 = {}
      BY <1>5, <2>1 DEF ParsedDevices
    <2>3. SoFar' /\ at' = "devices"
      BY <2>2 DEF SoFar, ReadOk
    <2>4. QED
      BY <2>3 DEF CompleteOK
  <1>8. QED
    BY <1>4, <1>6, <1>7 DEF Inv

(* The file cannot be read: all of it is lost, unless it has no devices.   *)
LEMMA ReadFailsKept ==
    ASSUME Inv, ReadFails
    PROVE  Inv'
  <1>1. WalkOK /\ LoopOK /\ ParsedOK
    BY DEF Inv
  <1>2. parsed = <<>> /\ rest = <<>> /\ lost' = DOMAIN file.devices
    BY <1>1 DEF WalkOK, ReadFails
  <1>3. WalkOK' /\ LoopOK'
    BY <1>1, <1>2 DEF ReadFails, WalkOK, LoopOK, InActions, Idle
  <1>4. parsed' = <<>> /\ DOMAIN parsed' = {} /\ ToSet(parsed') = {}
    <2>1. parsed' = <<>> /\ DOMAIN parsed' = {}
      BY <1>2 DEF ReadFails
    <2>2. QED
      BY <2>1 DEF ToSet
  <1>5. ParsedOK'
    <2>1. parsed' \in Seq(ToSet(parsed'))
      BY <1>4
    <2>2. QED
      BY <1>4, <2>1 DEF ParsedOK
  <1>6. CompleteOK'
    <2>1. at' = "done" /\ ParsedDevices' = {} /\ file' = file
      BY <1>4 DEF ReadFails, ParsedDevices
    <2>2. lost' = {} => WrittenDevices' = {}
      BY <1>2, <2>1 DEF WrittenDevices
    <2>3. QED
      BY <2>1, <2>2 DEF CompleteOK
  <1>7. QED
    BY <1>3, <1>5, <1>6 DEF Inv

(* No list has the actions of no key.                                      *)
LEMMA NoActions == \A d : AreActions(<<>>, d, {})
  <1> TAKE d
  <1>1. DOMAIN <<>> = {}
    OBVIOUS
  <1> DEFINE none == [i \in {} |-> 0]
  <1>2. none \in [DOMAIN <<>> -> {}]
    BY <1>1
  <1> HIDE DEF none
  <1>3. QED
    BY <1>1, <1>2 DEF AreActions

(* The inner loop begins at the first key.                                 *)
LEMMA BeginActionsKept ==
    ASSUME Inv, BeginActions
    PROVE  Inv'
  <1>1. WalkOK /\ ParsedOK /\ CompleteOK /\ at = "devices"
    BY DEF Inv, BeginActions, AtOwnDevice, AtDevice
  <1>2. MasterOK
    BY DEF BeginActions, AtOwnDevice, AtDevice, MasterOK, Types
  <1>3. Index' = Index /\ Device' = Device /\ MasterOK'
    BY <1>2 DEF Index, Device, MasterOK, BeginActions
  <1>4. /\ Device.data \in Seq(ToSet(Device.data)) /\ Len(Device.data) \in Nat
    BY <1>1, <1>2, DataFacts
  <1>5. /\ keys' = Device.data /\ identifier' = NoId /\ actions' = <<>>
        /\ at' = "actions" /\ UNCHANGED <<file, rest, parsed, lost>>
    BY DEF BeginActions
  <1>6. WalkOK'
    BY <1>1, <1>5 DEF WalkOK
  <1>7. LoopOK'
    <2>1. Done' = 0 /\ 1 .. Done' = {}
      BY <1>3, <1>4, <1>5 DEF Done
    <2>2. IsTaken({})'
      BY <1>3, <1>5, <2>1, NoActions DEF IsTaken
    <2>3. keys' \in Seq(ToSet(Device.data)) /\ IsRest(keys', Device.data)
      BY <1>4, <1>5, RestFacts
    <2>4. actions' \in Seq(ActionSet(Device))
      BY <1>5
    <2>5. {} \in SUBSET (SoundKeys(Device) \cap 1 .. Done')
      OBVIOUS
    <2>6. InActions'
      BY <1>3, <1>5, <2>2, <2>3, <2>4, <2>5 DEF InActions
    <2>7. QED
      BY <2>6 DEF LoopOK
  <1>8. ParsedOK'
    <2>1. ASSUME NEW e, e \in ToSet(parsed) PROVE IsParsed(e)'
      <3>1. IsParsed(e)
        BY <1>1, <2>1 DEF ParsedOK
      <3>2. QED
        BY <1>3, <1>5, <3>1 DEF IsParsed, IsEntry
    <2>2. QED
      BY <1>1, <1>5, <2>1 DEF ParsedOK
  <1>9. CompleteOK'
    <2>1. \A d : (Written(d)' <=> Written(d)) /\ (EndsParse(d)' <=> EndsParse(d))
      BY <1>5, SameFile
    <2>2. ParsedDevices' = ParsedDevices
      BY <1>5 DEF ParsedDevices
    <2>3. lost = {} => SoFar'
      BY <1>1, <1>3, <1>5, <2>1, <2>2 DEF CompleteOK, SoFar
    <2>4. QED
      BY <1>5, <2>3 DEF CompleteOK
  <1>10. QED
    BY <1>6, <1>7, <1>8, <1>9 DEF Inv
-----------------------------------------------------------------------------
(* At the end of its keys, a device nothing of is lost has all its actions *)
(* and counts.                                                             *)
LEMMA AllKeysRead ==
    ASSUME Inv, at = "actions", keys = <<>>
    PROVE  /\ rest # <<>> /\ MasterOK /\ actions \in Seq(ActionSet(Device))
           /\ Index \notin lost => Written(Device)
           /\ \E Q \in SUBSET SoundKeys(Device) :
                  /\ AreActions(actions, Device, Q)
                  /\ Index \notin lost => Q = SoundKeys(Device)
  <1>1. WalkOK /\ InActions /\ MasterOK /\ rest # <<>>
    BY DEF Inv, LoopOK, InActions, MasterOK
  <1>2. /\ IsDevice(Device) /\ DOMAIN Device.data = 1 .. Len(Device.data)
        /\ Len(Device.data) \in Nat
    BY <1>1, DataFacts
  <1>3. Done = Len(Device.data)
    BY <1>2 DEF Done
  <1>4. PICK Q \in SUBSET (SoundKeys(Device) \cap 1 .. Done) : IsTaken(Q)
    BY <1>1 DEF InActions
  <1>5. SoundKeys(Device) \cap 1 .. Done = SoundKeys(Device)
    BY <1>2, <1>3 DEF SoundKeys
  <1>6. Index \notin lost => Written(Device)
    <2>1. Index \notin lost =>
              \A id \in ToSet(Device.data) \ {NoId} :
                  Device.action[id].flaw # "range"
      BY <1>2, <1>3, <1>4 DEF IsTaken, ToSet
    <2>2. Device.type \in Types(file.process) /\ file.process = "master"
      BY <1>1 DEF MasterOK, Types
    <2>3. QED
      BY <1>1, <2>1, <2>2 DEF Written, MasterOK
  <1>7. QED
    BY <1>1, <1>4, <1>5, <1>6 DEF IsTaken, InActions

(* Behind a device that ends the parse nothing counts.                     *)
LEMMA NothingBehind ==
    ASSUME WalkOK, SoFar, rest # <<>>, EndsParse(Device)
    PROVE  ParsedDevices = WrittenDevices
  <1>1. /\ Index \in DOMAIN file.devices /\ Index \in Nat \ {0}
        /\ Device = file.devices[Index]
    BY DeviceFacts
  <1>2. DOMAIN file.devices = 1 .. Len(file.devices) /\ Len(file.devices) \in Nat
    <2>1. file.devices \in Seq(ToSet(file.devices))
      BY FilesAssumption DEF WalkOK
    <2>2. QED
      BY <2>1
  <1>3. \A i \in DOMAIN file.devices : i >= Index => Index \in 1 .. i
    BY <1>1, <1>2
  <1>4. \A i \in DOMAIN file.devices : i < Index => i \in 1 .. Index - 1
    BY <1>1, <1>2
  <1>5. \A i \in 1 .. Index - 1 : i \in DOMAIN file.devices /\ 1 .. i \subseteq 1 .. Index - 1
    BY <1>1, <1>2
  <1>6. \A i \in DOMAIN file.devices : i < Index \/ i >= Index
    BY <1>1, <1>2
  <1>7. WrittenDevices \subseteq ParsedDevices
    BY <1>1, <1>3, <1>4, <1>6 DEF WrittenDevices, SoFar
  <1>8. ParsedDevices \subseteq WrittenDevices
    BY <1>5 DEF WrittenDevices, SoFar
  <1>9. QED
    BY <1>7, <1>8

(* An error that ends the parse, and the end of the file.                  *)
LEMMA StopKept ==
    ASSUME Inv, NoProductType \/ NoDeviceMisc \/ AllDevices
    PROVE  Inv'
  <1>1. WalkOK /\ CompleteOK
    BY DEF Inv
  <1>2. /\ at' = "done" /\ at \in {"devices", "actions"}
        /\ UNCHANGED <<file, rest, keys, identifier, actions, parsed, lost>>
    BY DEF NoProductType, NoDeviceMisc, AllDevices, AtDevice
  <1>3. ASSUME lost = {} PROVE ParsedDevices = WrittenDevices
    <2>1. SoFar
      BY <1>1, <1>2, <1>3 DEF CompleteOK
    <2>2. CASE NoProductType
      <3>1. rest # <<>> /\ EndsParse(Device)
        BY <2>2 DEF NoProductType, AtDevice, EndsParse
      <3>2. QED
        BY <1>1, <2>1, <3>1, NothingBehind
    <2>3. CASE NoDeviceMisc
      <3>1. rest # <<>> /\ MasterOK /\ Written(Device)
        BY <1>3, <2>3, AllKeysRead DEF NoDeviceMisc
      <3>2. EndsParse(Device)
        BY <2>3, <3>1 DEF NoDeviceMisc, EndsParse, MasterOK
      <3>3. QED
        BY <1>1, <2>1, <3>1, <3>2, NothingBehind
    <2>4. CASE AllDevices
      <3>1. file.devices \in Seq(ToSet(file.devices))
        BY <1>1, FilesAssumption DEF WalkOK
      <3>2. Index - 1 = Len(file.devices) /\ Len(file.devices) \in Nat
            /\ DOMAIN file.devices = 1 .. Len(file.devices)
        BY <2>4, <3>1 DEF Index, AllDevices
      <3>3. \A i \in DOMAIN file.devices : 1 .. i \subseteq 1 .. Index - 1
        BY <3>2
      <3>4. QED
        BY <2>1, <3>2, <3>3 DEF SoFar, WrittenDevices
    <2>5. QED
      BY <2>2, <2>3, <2>4
  <1>4. QED
    BY <1>2, <1>3, HaltKept

(* The process aborts.                                                     *)
LEMMA AbortKept ==
    ASSUME Inv, LimitExceeded \/ OddArea
    PROVE  Inv'
  <1>1. /\ at' = "aborted"
        /\ UNCHANGED <<file, rest, keys, identifier, actions, parsed, lost>>
    BY DEF LimitExceeded, OddArea
  <1>2. QED
    BY <1>1, HaltKept
(* A device of the process that reads the file has a type.                 *)
LEMMA OwnType == \A p : "none" \notin Types(p)
  BY DEF Types, Master, Slave

(* The ways a device is dropped.                                           *)
LEMMA DeviceDropped ==
    ASSUME Inv,
           \/ ForeignDevice \/ CallocFails \/ BadDevice
           \/ ActionCallocFails \/ OutOfRange \/ NoOutputs
    PROVE  Inv'
  <1>1. CASE ForeignDevice
    <2>1. ~Written(Device) /\ ~EndsParse(Device)
      BY <1>1 DEF ForeignDevice, Written, EndsParse
    <2>2. QED
      BY <1>1, <2>1, DropKept DEF ForeignDevice, AtDevice
  <1>2. CASE CallocFails
    BY <1>2, DropKept DEF CallocFails, AtOwnDevice, AtDevice
  <1>3. CASE BadDevice
    <2>1. Device.type # "none"
      BY <1>3, OwnType DEF BadDevice, AtOwnDevice
    <2>2. ~Written(Device)
      <3>1. Device.offset \in Nat \cup {-1}
        BY <1>3, DeviceFacts DEF Inv, BadDevice, AtOwnDevice, AtDevice, IsDevice
      <3>2. QED
        BY <1>3, <3>1 DEF BadDevice, Written
    <2>3. ~EndsParse(Device)
      BY <2>1, <2>2 DEF EndsParse
    <2>4. QED
      BY <1>3, <2>2, <2>3, DropKept DEF BadDevice, AtOwnDevice, AtDevice
  <1>4. CASE ActionCallocFails
    <2>1. rest # <<>> /\ at = "actions"
      BY <1>4, KeyFacts DEF ActionCallocFails, AtKey
    <2>2. QED
      BY <1>4, <2>1, DropKept DEF ActionCallocFails
  <1>5. CASE OutOfRange
    <2>1. /\ AtKey /\ KeyIdentifier # NoId
          /\ Device.action[KeyIdentifier].flaw = "range"
      BY <1>5 DEF OutOfRange, Flaw, Parameters
    <2>2. /\ rest # <<>> /\ at = "actions" /\ MasterOK
          /\ KeyIdentifier \in ToSet(Device.data)
      BY <2>1, KeyFacts DEF AtKey, InActions
    <2>3. ~Written(Device)
      BY <2>1, <2>2 DEF Written, MasterOK
    <2>4. ~EndsParse(Device)
      BY <2>2, <2>3 DEF EndsParse, MasterOK, Master
    <2>5. QED
      BY <1>5, <2>2, <2>3, <2>4, DropKept DEF OutOfRange
  <1>6. CASE NoOutputs
    <2>1. Device.type # "none"
      BY <1>6, OwnType DEF NoOutputs, AtSlave, AtOwnDevice
    <2>2. ~Written(Device)
      BY <1>6 DEF NoOutputs, AtSlave, Written
    <2>3. ~EndsParse(Device)
      BY <2>1, <2>2 DEF EndsParse
    <2>4. QED
      BY <1>6, <2>2, <2>3, DropKept DEF NoOutputs, AtSlave, AtOwnDevice, AtDevice
  <1>7. QED
    BY <1>1, <1>2, <1>3, <1>4, <1>5, <1>6

(* The configuration of a master.                                          *)
LEMMA MasterDoneKept ==
    ASSUME Inv, MasterDone
    PROVE  Inv'
  <1> DEFINE e == MasterEntry(Device, Index, actions)
  <1>1. WalkOK /\ at = "actions" /\ keys = <<>>
    BY DEF Inv, MasterDone
  <1>2. /\ rest # <<>> /\ MasterOK /\ actions \in Seq(ActionSet(Device))
        /\ Index \notin lost => Written(Device)
        /\ \E Q \in SUBSET SoundKeys(Device) :
               /\ AreActions(actions, Device, Q)
               /\ Index \notin lost => Q = SoundKeys(Device)
    BY <1>1, AllKeysRead
  <1>3. Device = file.devices[Index]
    BY <1>1, <1>2, DeviceFacts
  <1>4. e.device = Index /\ e.actions = actions
    BY DEF MasterEntry
  <1>5. IsEntry(e)
    <2>1. file.devices[e.device] = Device /\ file.process = "master"
      BY <1>2, <1>3, <1>4 DEF MasterOK
    <2>2. e = MasterEntry(Device, e.device, e.actions)
      BY <1>4
    <2> HIDE DEF e
    <2>3. QED
      BY <1>2, <1>4, <2>1, <2>2 DEF IsEntry
  <1>6. /\ Device.type \in Types(file.process) /\ file.process = "master"
        /\ Device.type # "none" /\ Device.data # NoSection
    BY <1>2 DEF MasterOK, Types, Master
  <1>7. lost = {} => Written(Device) /\ ~EndsParse(Device)
    BY <1>2, <1>6 DEF EndsParse, MasterDone
  <1>8. /\ NextDevice /\ UNCHANGED <<file, lost>> /\ parsed' = <<e>> \o parsed
    BY DEF MasterDone
  <1> HIDE DEF e
  <1>9. QED
    BY <1>1, <1>2, <1>4, <1>5, <1>6, <1>7, <1>8, EntryKept

(* That of a slave.                                                        *)
LEMMA SlaveDoneKept ==
    ASSUME Inv, SlaveDone
    PROVE  Inv'
  <1> DEFINE e == SlaveEntry(Device, Index)
  <1>1. /\ WalkOK /\ at = "devices" /\ rest # <<>> /\ file.process = "slave"
        /\ Device.type \in Types(file.process)
    BY DEF Inv, SlaveDone, AtSlave, AtOwnDevice, AtDevice
  <1>2. Device = file.devices[Index]
    BY <1>1, DeviceFacts
  <1>3. e.device = Index
    BY DEF SlaveEntry
  <1>4. IsEntry(e)
    BY <1>1, <1>2, <1>3 DEF IsEntry
  <1>5. SlaveOK(Device)
    BY DEF SlaveOK, SlaveDone, AtSlave
  <1>6. Written(Device) /\ ~EndsParse(Device)
    BY <1>1, <1>5, OwnType DEF Written, EndsParse, SlaveOK, SlaveDone, AtSlave
  <1>7. /\ NextDevice /\ UNCHANGED <<file, lost>> /\ parsed' = <<e>> \o parsed
    BY DEF SlaveDone
  <1> HIDE DEF e
  <1>8. QED
    BY <1>1, <1>3, <1>4, <1>5, <1>6, <1>7, EntryKept

(* No step of the parser breaks the invariant.                             *)
LEMMA InvKept ==
    ASSUME Inv, [Next]_vars
    PROVE  Inv'
  <1>1. CASE ReadFails
    BY <1>1, ReadFailsKept
  <1>2. CASE ReadOk
    BY <1>2, ReadOkKept
  <1>3. CASE \/ ForeignDevice \/ CallocFails \/ BadDevice
             \/ ActionCallocFails \/ OutOfRange \/ NoOutputs
    BY <1>3, DeviceDropped
  <1>4. CASE NoProductType \/ NoDeviceMisc \/ AllDevices
    BY <1>4, StopKept
  <1>5. CASE LimitExceeded \/ OddArea
    BY <1>5, AbortKept
  <1>6. CASE BeginActions
    BY <1>6, BeginActionsKept
  <1>7. CASE SkipAction
    BY <1>7, SkipKept
  <1>8. CASE LookupCallocFails
    BY <1>8, LookupKept
  <1>9. CASE TakeAction
    BY <1>9, TakeKept
  <1>10. CASE MasterDone
    BY <1>10, MasterDoneKept
  <1>11. CASE SlaveDone
    BY <1>11, SlaveDoneKept
  <1>12. CASE ParseAgain
    BY <1>12, ParseAgainKept
  <1>13. CASE UNCHANGED vars
    <2>1. WalkOK' /\ Index' = Index /\ Device' = Device /\ Done' = Done
      BY <1>13 DEF vars, Inv, WalkOK, Index, Device, Done
    <2>2. LoopOK'
      <3>1. \A Q : IsTaken(Q)' <=> IsTaken(Q)
        BY <1>13, <2>1 DEF vars, IsTaken
      <3>2. MasterOK' <=> MasterOK
        BY <1>13, <2>1 DEF vars, MasterOK
      <3>3. QED
        BY <1>13, <2>1, <3>1, <3>2 DEF vars, Inv, LoopOK, InActions, Idle
    <2>3. ParsedOK'
      <3>1. \A e : IsParsed(e)' <=> IsParsed(e)
        BY <1>13, <2>1 DEF vars, IsParsed, IsEntry
      <3>2. QED
        BY <1>13, <3>1 DEF vars, Inv, ParsedOK
    <2>4. CompleteOK'
      <3>1. /\ \A d : (Written(d)' <=> Written(d)) /\ (EndsParse(d)' <=> EndsParse(d))
            /\ WrittenDevices' = WrittenDevices /\ ParsedDevices' = ParsedDevices
        BY <1>13, SameFile DEF vars, ParsedDevices
      <3>2. SoFar' <=> SoFar
        BY <1>13, <2>1, <3>1 DEF vars, SoFar
      <3>3. QED
        BY <1>13, <3>1, <3>2 DEF vars, Inv, CompleteOK
    <2>5. QED
      BY <2>1, <2>2, <2>3, <2>4 DEF Inv
  <1>14. QED
    BY <1>1, <1>2, <1>3, <1>4, <1>5, <1>6, <1>7, <1>8, <1>9, <1>10, <1>11,
       <1>12, <1>13 DEF Next

(* The invariant holds in every state of every parse.                      *)
THEOREM ParserInvariant == Spec => []Inv
  <1>1. Init => Inv
    BY InvInit
  <1>2. Inv /\ [Next]_vars => Inv'
    BY InvKept
  <1>3. QED
    BY <1>1, <1>2, PTL DEF Spec
-----------------------------------------------------------------------------
(* The type invariant: what is stored of an action is what the master can  *)
(* work with, a block of coils starts at a bit of its byte.                *)
THEOREM ParserTypeCorrect == Spec => []TypeOK
  <1>1. Inv => TypeOK
    <2> SUFFICES ASSUME Inv PROVE TypeOK
      OBVIOUS
    <2>1. WalkOK /\ LoopOK /\ ParsedOK
      BY DEF Inv
    <2>2. /\ file.process \in {"master", "slave"}
          /\ at \in {"open", "devices", "actions", "done", "aborted"}
          /\ IsRest(rest, file.devices) /\ lost \subseteq DOMAIN file.devices
      BY <2>1, FilesAssumption DEF WalkOK
    <2>3. /\ keys # <<>> => IsRest(keys, Device.data)
          /\ identifier # NoId => identifier \in ToSet(Device.data)
          /\ \A i \in DOMAIN actions : IsStored(actions[i])
      <3>1. CASE InActions
        <4>1. MasterOK /\ WalkOK
          BY <2>1, <3>1 DEF InActions
        <4>2. /\ IsDevice(Device) /\ Len(Device.data) \in Nat
              /\ DOMAIN Device.data = 1 .. Len(Device.data)
              /\ Device.data # NoSection
          BY <4>1, DataFacts DEF MasterOK
        <4>3. PICK Q \in SUBSET (SoundKeys(Device) \cap 1 .. Done) : IsTaken(Q)
          BY <3>1 DEF InActions
        <4>4. identifier # NoId => identifier \in ToSet(Device.data)
          <5>1. Done <= Len(Device.data) /\ Done \in Int
            <6>1. Len(keys) \in Nat
              BY <3>1 DEF InActions
            <6>2. QED
              BY <4>2, <6>1 DEF Done
          <5>2. \A q \in 1 .. Done : q \in DOMAIN Device.data
            BY <4>2, <5>1
          <5>3. QED
            BY <4>3, <5>2 DEF IsTaken, ToSet
        <4>5. \A i \in DOMAIN actions : actions[i] \in ActionSet(Device)
          <5>1. actions \in Seq(ActionSet(Device))
            BY <3>1 DEF InActions
          <5>2. QED
            BY <5>1
        <4>6. QED
          BY <3>1, <4>2, <4>4, <4>5, ActionIsStored DEF InActions
      <3>2. CASE Idle
        <4>1. DOMAIN actions = {}
          BY <3>2 DEF Idle
        <4>2. QED
          BY <3>2, <4>1 DEF Idle
      <3>3. QED
        BY <2>1, <3>1, <3>2 DEF LoopOK
    <2>4. ASSUME NEW k \in DOMAIN parsed
          PROVE  /\ file.devices[parsed[k].device].type \in Types(file.process)
                 /\ parsed[k].eProtocol \in {"TCP", "RTU"}
      <3> DEFINE e == parsed[k]
                 d == file.devices[e.device]
      <3>1. IsParsed(e)
        BY <2>1 DEF ParsedOK, ToSet
      <3> HIDE DEF e
      <3>2. e.eProtocol = eProtocol(d)
        <4>1. SlaveEntry(d, e.device).eProtocol = eProtocol(d)
          BY DEF SlaveEntry
        <4>2. MasterEntry(d, e.device, e.actions).eProtocol = eProtocol(d)
          BY DEF MasterEntry
        <4>3. \/ e = SlaveEntry(d, e.device)
              \/ e = MasterEntry(d, e.device, e.actions)
          BY <3>1 DEF IsParsed, IsEntry
        <4>4. QED
          BY <4>1, <4>2, <4>3
      <3>3. file.devices[e.device].type \in Types(file.process)
        BY <3>1 DEF IsParsed
      <3>4. QED
        BY <3>2, <3>3 DEF e, eProtocol
    <2>5. QED
      BY <2>2, <2>3, <2>4 DEF TypeOK
  <1>2. QED
    BY <1>1, ParserInvariant, PTL

(* The caller gets what the file says, in whatever order memory runs out:  *)
(* every entry has the actions written for its device and no other, once   *)
(* each and in order, and if nothing is lost no device is missing.         *)
THEOREM ParsesWhatIsWritten == Spec => []ParsedAsWritten
  <1>1. Inv => ParsedAsWritten
    <2> SUFFICES ASSUME Inv PROVE ParsedAsWritten
      OBVIOUS
    <2>1. ParsedOK /\ CompleteOK
      BY DEF Inv
    <2>2. \A k \in DOMAIN parsed : IsEntry(parsed[k])
      BY <2>1 DEF ParsedOK, IsParsed, ToSet
    <2>3. QED
      BY <2>1, <2>2 DEF ParsedAsWritten, ParsedOK, CompleteOK
  <1>2. QED
    BY <1>1, ParserInvariant, PTL
-----------------------------------------------------------------------------
(* Every list of intervals is one of positive numbers, and not empty.      *)
LEMMA IntervalListFacts ==
    ASSUME Inv, NEW l \in IntervalLists
    PROVE  l \in Seq(Nat \ {0}) /\ l # <<>>
  <1>1. WalkOK /\ ParsedOK /\ file.process # "slave"
    BY DEF Inv, IntervalLists
  <1>2. PICK e \in ToSet(parsed) :
            /\ e.i32ActionCount > 0
            /\ l = [k \in DOMAIN e.actions |-> e.actions[k].interval_us]
    BY DEF IntervalLists
  <1> DEFINE d == file.devices[e.device]
  <1>3. /\ IsParsed(e) /\ d.data # NoSection /\ e.actions \in Seq(ActionSet(d))
        /\ e = MasterEntry(d, e.device, e.actions)
        /\ \E Q \in SUBSET SoundKeys(d) : AreActions(e.actions, d, Q)
    BY <1>1 DEF ParsedOK, IsParsed, IsEntry
  <1>4. IsDevice(d)
    <2>1. Len(file.devices) \in Nat /\ DOMAIN file.devices = 1 .. Len(file.devices)
      <3>1. file.devices \in Seq(ToSet(file.devices))
        BY <1>1, FilesAssumption DEF WalkOK
      <3>2. QED
        BY <3>1
    <2>2. Len(rest) \in Nat
      BY <1>1 DEF WalkOK
    <2>3. e.device \in DOMAIN file.devices
      BY <1>3, <2>1, <2>2 DEF IsParsed, Index
    <2>4. d \in ToSet(file.devices)
      BY <2>3 DEF ToSet
    <2>5. QED
      BY <1>1, <2>4, FilesAssumption DEF WalkOK
  <1>5. e.i32ActionCount = Len(e.actions)
    <2>1. MasterEntry(d, e.device, e.actions).i32ActionCount = Len(e.actions)
      BY DEF MasterEntry
    <2>2. QED
      BY <1>3, <2>1
  <1>6. ASSUME NEW k \in DOMAIN e.actions
        PROVE  e.actions[k].interval_us \in Nat \ {0}
    <2>1. e.actions[k] \in ActionSet(d)
      <3> HIDE DEF d
      <3>1. QED
        BY <1>3
    <2> HIDE DEF d
    <2>2. QED
      BY <1>3, <1>4, <2>1, ActionIsStored DEF IsStored
  <1>7. QED
    <2> HIDE DEF d
    <2>1. DOMAIN e.actions = 1 .. Len(e.actions) /\ Len(e.actions) \in Nat \ {0}
      BY <1>2, <1>3, <1>5
    <2>2. l \in [1 .. Len(e.actions) -> Nat \ {0}]
      BY <1>2, <1>6, <2>1
    <2>3. QED
      BY <2>1, <2>2

(* The response timeout of a thread is one libmodbus accepts, half of its  *)
(* smallest interval, whatever the actions are.                            *)
THEOREM TimeoutHolds == USEC > 1 => (Spec => []TimeoutIsHalfMinInterval)
  <1> SUFFICES ASSUME USEC > 1 PROVE Spec => []TimeoutIsHalfMinInterval
    OBVIOUS
  <1>1. Inv => TimeoutIsHalfMinInterval
    <2> SUFFICES ASSUME Inv, NEW l \in IntervalLists
                 PROVE  LET t == modbus_timeout(l)
                            m == Min(ToSet(l))
                        IN  /\ t.usec \in 0 .. USEC - 1
                            /\ <<t.sec, t.usec>> # <<0, 0>>
                            /\ m > 1 => t.sec * USEC + t.usec = m \div 2
      BY DEF TimeoutIsHalfMinInterval
    <2> DEFINE t == modbus_timeout(l)
               m == Min(ToSet(l))
    <2>1. l \in Seq(Nat \ {0}) /\ l # <<>>
      BY IntervalListFacts
    <2>2. ToSet(l) \in SUBSET Nat /\ ToSet(l) # {}
      <3>1. DOMAIN l = 1 .. Len(l) /\ Len(l) \in Nat \ {0}
        BY <2>1
      <3>2. 1 \in DOMAIN l
        BY <3>1
      <3>3. QED
        BY <2>1, <3>1, <3>2 DEF ToSet
    <2>3. m \in ToSet(l) /\ \A v \in ToSet(l) : m <= v
      BY <2>2, MinFacts
    <2> HIDE DEF m, t
    <2>4. /\ t.usec \in 0 .. USEC - 1
          /\ <<t.sec, t.usec>> # <<0, 0>>
          /\ m > 1 => t.sec * USEC + t.usec = m \div 2
      BY <2>1, <2>3, TimeoutFacts DEF t
    <2>5. QED
      BY <2>4 DEF m, t
  <1>2. QED
    BY <1>1, ParserInvariant, PTL

(* The values of a function with a finite domain.                          *)
LEMMA FiniteValues ==
    ASSUME NEW f, NEW T, f \in [DOMAIN f -> T], IsFiniteSet(DOMAIN f),
           \A y \in T : \E x \in DOMAIN f : f[x] = y
    PROVE  IsFiniteSet(T)
  <1> DEFINE S == DOMAIN f
  <1>1. f \in Surjection(S, T)
    BY DEF Surjection
  <1> HIDE DEF S
  <1>2. IsFiniteSet(S)
    BY DEF S
  <1>3. QED
    BY <1>1, <1>2, FS_Surjection

(* The gaps between the commands of a thread take a quarter of the time    *)
(* its schedule has, for TCP cut to the nanosecond and but for one         *)
(* nanosecond of rounding in the mean of the intervals.                    *)
THEOREM GapsHold == Spec => []GapsFitSchedule
  <1>1. Inv => GapsFitSchedule
    <2> SUFFICES ASSUME Inv, NEW l \in IntervalLists
                 PROVE  LET n == [k \in DOMAIN l |-> NSUS * l[k]]
                            p == ProductOf(n)
                            s == InverseSum(n)
                        IN  /\ 4 * s * Ns(rtu_event_offset(l)) <= p
                            /\ Max(ToSet(n)) < LongLimit =>
                                   \A tcp \in get_minimal_modbus_event_offset(l) :
                                       /\ 4 * s * Ns(tcp) <= p + s
                                       /\ p - s <= 4 * s * (Ns(tcp) + 1)
      BY DEF GapsFitSchedule
    <2> DEFINE n == [k \in DOMAIN l |-> NSUS * l[k]]
    <2>1. l \in Seq(Nat \ {0}) /\ l # <<>>
      BY IntervalListFacts
    <2>2. 4 * InverseSum(n) * Ns(rtu_event_offset(l)) <= ProductOf(n)
      BY <2>1, RtuOffsetsFit
    <2>3. ASSUME Max(ToSet(n)) < LongLimit,
                 NEW tcp \in get_minimal_modbus_event_offset(l)
          PROVE  /\ 4 * InverseSum(n) * Ns(tcp) <= ProductOf(n) + InverseSum(n)
                 /\ ProductOf(n) - InverseSum(n) <= 4 * InverseSum(n) * (Ns(tcp) + 1)
      <3>1. n \in Seq(Nat \ {0}) /\ Len(n) = Len(l)
        BY <2>1, ListInNs
      <3>2. DOMAIN n = DOMAIN l /\ DOMAIN l = 1 .. Len(l) /\ Len(l) \in Nat \ {0}
        BY <2>1
      <3>3. ToSet(n) \in SUBSET Nat /\ ToSet(n) # {} /\ IsFiniteSet(ToSet(n))
        <4> HIDE DEF n
        <4>1. DOMAIN n = 1 .. Len(l) /\ 1 \in 1 .. Len(l)
          BY <3>2
        <4>2. ToSet(n) = {n[i] : i \in 1 .. Len(l)} /\ \A i \in 1 .. Len(l) : n[i] \in Nat
          BY <3>1, <4>1 DEF ToSet
        <4>3. ToSet(n) \in SUBSET Nat /\ ToSet(n) # {}
          BY <4>1, <4>2
        <4>4. n \in Seq(ToSet(n))
          <5>1. n \in [1 .. Len(l) -> ToSet(n)]
            <6>1. n = [i \in 1 .. Len(l) |-> n[i]]
              BY <3>1, <4>1
            <6>2. QED
              BY <4>2, <6>1, Zenon
          <5>2. QED
            BY <3>2, <5>1
        <4>5. \A x \in ToSet(n) : \E i \in 1 .. Len(n) : n[i] = x
          BY <3>1, <4>2
        <4>6. IsFiniteSet(ToSet(n))
          BY <4>4, <4>5 DEF IsFiniteSet
        <4>7. QED
          BY <4>3, <4>6
      <3>4. \A x \in ToSet(n) : x <= Max(ToSet(n)) /\ Max(ToSet(n)) \in Nat
        <4> DEFINE S == ToSet(n)
        <4> HIDE DEF S
        <4>1. S \in SUBSET Nat /\ S # {} /\ IsFiniteSet(S)
          BY <3>3 DEF S
        <4>2. Max(S) \in S /\ \A x \in S : x <= Max(S)
          BY <4>1, MaxFacts
        <4>3. QED
          BY <4>1, <4>2 DEF S
      <3>5. \A i \in DOMAIN l : NSUS * l[i] < LongLimit
        <4> TAKE i \in DOMAIN l
        <4>1. n[i] = NSUS * l[i]
          OBVIOUS
        <4> DEFINE x == NSUS * l[i]
        <4>2. x \in ToSet(n) /\ x \in Nat
          <5>1. n[i] \in ToSet(n) /\ n[i] \in Nat
            <6> HIDE DEF n
            <6>1. QED
              BY <3>1, <3>2 DEF ToSet
          <5>2. QED
            BY <4>1, <5>1
        <4> HIDE DEF x, n
        <4>3. x < LongLimit
          BY <2>3, <3>4, <4>2, LongAssumption
        <4>4. QED
          BY <4>3 DEF x
      <3>6. QED
        BY <2>1, <3>5, TcpOffsetsFit
    <2>4. QED
      BY <2>2, <2>3
  <1>2. QED
    BY <1>1, ParserInvariant, PTL
-----------------------------------------------------------------------------
(* The registers of an area start with the first byte of its first         *)
(* variable and end with the last byte of its last one.                    *)
LEMMA AreaCovers ==
    ASSUME NEW vs, AreVariables(vs), LaidOut(vs),
           \E n \in DOMAIN vs : vs[n].byte > 0,
           NEW off \in Nat, ~Odd(vs),
           NEW r, r = [offset |-> off + ImageArea(vs).start,
                       count |-> ImageArea(vs).size \div 2],
           NEW bytes,
           bytes = UNION {off + vs[n].byte
                            .. off + vs[n].byte + vs[n].len \div 8 - 1
                          : n \in DOMAIN vs}
    PROVE  /\ bytes \subseteq r.offset .. r.offset + 2 * r.count - 1
           /\ r.offset = Min(bytes)
           /\ r.offset + 2 * r.count - 1 = Max(bytes)
  <1> DEFINE b(n) == vs[n].byte
             w(n) == vs[n].len \div 8
             byte == {vs[n].byte : n \in DOMAIN vs}
             lo == Min(byte)
             hi == Max(byte)
             last == CHOOSE n \in DOMAIN vs : vs[n].byte = Max(byte)
  <1>1. \A n \in DOMAIN vs : b(n) \in Nat /\ w(n) \in Nat \ {0}
    <2> TAKE n \in DOMAIN vs
    <2>1. vs[n].byte \in Nat /\ vs[n].len \in Nat /\ vs[n].len >= 8
      BY DEF AreVariables, LaidOut
    <2>2. QED
      BY <2>1
  <1>2. \A n, m \in DOMAIN vs : n = m \/ b(n) + w(n) <= b(m) \/ b(m) + w(m) <= b(n)
    BY DEF LaidOut
  <1>3. \A x : x \in bytes <=>
            \E n \in DOMAIN vs : x \in off + b(n) .. off + b(n) + w(n) - 1
    OBVIOUS
  <1>4. byte \in SUBSET Nat /\ byte # {} /\ IsFiniteSet(byte)
    <2>1. byte \in SUBSET Nat /\ byte # {}
      BY <1>1
    <2> DEFINE f == [n \in DOMAIN vs |-> vs[n].byte]
    <2>2. f \in [DOMAIN f -> byte] /\ IsFiniteSet(DOMAIN f)
      BY DEF AreVariables
    <2>3. \A y \in byte : \E x \in DOMAIN f : f[x] = y
      OBVIOUS
    <2> HIDE DEF f, byte
    <2>4. IsFiniteSet(byte)
      BY <2>2, <2>3, FiniteValues
    <2>5. QED
      BY <2>1, <2>4 DEF byte
  <1>5. /\ lo \in byte /\ hi \in byte
        /\ \A x \in byte : lo <= x /\ x <= hi
    <2> HIDE DEF byte
    <2>1. QED
      BY <1>4, MinFacts, MaxFacts
  <1>6. last \in DOMAIN vs /\ b(last) = hi
    <2>1. \E n \in DOMAIN vs : vs[n].byte = hi
      BY <1>5
    <2>2. QED
      BY <2>1
  <1>7. PICK first \in DOMAIN vs : b(first) = lo
    BY <1>5
  <1>8. ImageArea(vs) = [start |-> lo, size |-> hi + w(last) - lo]
    <2>1. ~(byte \subseteq {0})
      <3>1. PICK n \in DOMAIN vs : vs[n].byte > 0
        OBVIOUS
      <3>2. vs[n].byte \in byte /\ vs[n].byte # 0
        BY <1>1, <3>1
      <3>3. QED
        BY <3>2
    <2>2. QED
      BY <2>1 DEF ImageArea
  <1>9. lo \in Nat /\ hi \in Nat /\ lo <= hi /\ w(last) \in Nat \ {0}
        /\ \A n \in DOMAIN vs : lo <= b(n) /\ b(n) <= hi
    BY <1>1, <1>4, <1>5, <1>6
  <1> DEFINE e == w(last)
             s == hi + e - lo
  <1>10. s \in Nat /\ s % 2 = 0 /\ 2 * (s \div 2) = s
    <2>1. s % 2 = 0
      <3>1. ImageArea(vs).size = s
        BY <1>8
      <3> HIDE DEF s
      <3>2. QED
        BY <3>1 DEF Odd
    <2> HIDE DEF e, lo, hi
    <2>2. s \in Nat
      BY <1>9 DEF e
    <2> HIDE DEF s
    <2>3. QED
      BY <2>1, <2>2
  <1>11. r.offset = off + lo /\ r.offset + 2 * r.count - 1 = off + hi + e - 1
    <2>1. r.offset = off + lo /\ r.count = s \div 2
      BY <1>8
    <2>2. lo \in Nat /\ hi \in Nat /\ e \in Nat
      BY <1>9
    <2> DEFINE k == s \div 2
    <2>3. 2 * k = hi + e - lo
      BY <1>10
    <2> HIDE DEF k, lo, hi, e, s
    <2>4. QED
      BY <2>1, <2>2, <2>3 DEF k
  <1>12. \A n \in DOMAIN vs : b(n) + w(n) <= hi + e
    <2> TAKE n \in DOMAIN vs
    <2>1. /\ b(n) \in Nat /\ w(n) \in Nat \ {0} /\ b(n) <= hi
          /\ hi \in Nat /\ e \in Nat \ {0}
      BY <1>1, <1>9
    <2>2. n = last \/ b(n) + w(n) <= hi \/ hi + e <= b(n)
      BY <1>2, <1>6
    <2>3. n = last => b(n) = hi /\ w(n) = e
      BY <1>6
    <2> HIDE DEF b, w, lo, hi, last, e
    <2>4. QED
      BY <2>1, <2>2, <2>3
  <1>13. b(first) = lo /\ w(first) \in Nat \ {0} /\ b(last) = hi /\ w(last) = e
    BY <1>1, <1>6, <1>7
  <1> HIDE DEF b, w, byte, lo, hi, last, e, s
  <1>14. \A x \in bytes : x \in off + lo .. off + hi + e - 1
    <2> TAKE x \in bytes
    <2>1. PICK n \in DOMAIN vs : x \in off + b(n) .. off + b(n) + w(n) - 1
      BY <1>3
    <2>2. QED
      BY <1>1, <1>9, <1>12, <2>1 DEF e
  <1>15. off + lo \in bytes
    <2>1. off + lo \in off + b(first) .. off + b(first) + w(first) - 1
      BY <1>9, <1>13
    <2>2. QED
      BY <1>3, <1>7, <2>1
  <1>16. off + hi + e - 1 \in bytes
    <2>1. e \in Nat \ {0}
      BY <1>9 DEF e
    <2>2. off + hi + e - 1 \in off + b(last) .. off + b(last) + w(last) - 1
      BY <1>9, <1>13, <2>1
    <2>3. QED
      BY <1>3, <1>6, <2>2
  <1>17. Min(bytes) = off + lo
    <2>1. \A y \in bytes : off + lo <= y /\ y \in Int
      BY <1>9, <1>14
    <2>2. QED
      BY <1>9, <1>15, <2>1 DEF Min
  <1>18. Max(bytes) = off + hi + e - 1
    <2>1. \A y \in bytes : off + hi + e - 1 >= y /\ y \in Int
      BY <1>9, <1>14 DEF e
    <2>2. off + hi + e - 1 \in Int
      BY <1>9 DEF e
    <2> DEFINE z == off + hi + e - 1
    <2> HIDE DEF z
    <2>3. z \in bytes /\ \A y \in bytes : z >= y /\ y \in Int
      BY <1>16, <2>1 DEF z
    <2>4. Max(bytes) = z
      BY <2>3 DEF Max
    <2>5. QED
      BY <2>4 DEF z
  <1>19. QED
    BY <1>11, <1>14, <1>17, <1>18

(* The registers of a slave are the variables of its file, all of them and *)
(* nothing else, when PiCtory lays them out without overlap.               *)
THEOREM RegistersHold == SlavesLaidOut => (Spec => []RegistersCoverVariables)
  <1> SUFFICES ASSUME SlavesLaidOut PROVE Spec => []RegistersCoverVariables
    OBVIOUS
  <1>1. Inv => RegistersCoverVariables
    <2> SUFFICES ASSUME Inv, file.process = "slave", NEW e \in ToSet(parsed)
                 PROVE  LET d == file.devices[e.device]
                            Covers(r, vs) ==
                                LET bytes == UNION {d.offset + vs[n].byte
                                              .. d.offset + vs[n].byte + vs[n].len \div 8 - 1
                                              : n \in DOMAIN vs}
                                IN  /\ bytes \subseteq r.offset .. r.offset + 2 * r.count - 1
                                    /\ r.offset = Min(bytes)
                                    /\ r.offset + 2 * r.count - 1 = Max(bytes)
                        IN  \A p \in {<<e.holding, d.inp>>, <<e.input, d.out>>} :
                                (\E n \in DOMAIN p[2] : p[2][n].byte > 0) =>
                                    Covers(p[1], p[2])
      BY DEF RegistersCoverVariables
    <2> DEFINE d == file.devices[e.device]
               bytes(vs) == UNION {d.offset + vs[n].byte
                                     .. d.offset + vs[n].byte + vs[n].len \div 8 - 1
                                   : n \in DOMAIN vs}
               Covers(r, vs) ==
                   /\ bytes(vs) \subseteq r.offset .. r.offset + 2 * r.count - 1
                   /\ r.offset = Min(bytes(vs))
                   /\ r.offset + 2 * r.count - 1 = Max(bytes(vs))
    <2>1. WalkOK /\ ParsedOK /\ IsParsed(e)
      BY DEF Inv, ParsedOK
    <2>2. e = SlaveEntry(d, e.device) /\ SlaveOK(d)
      BY <2>1 DEF IsParsed, IsEntry
    <2>3. d \in ToSet(file.devices)
      <3>1. /\ Len(file.devices) \in Nat
            /\ DOMAIN file.devices = 1 .. Len(file.devices)
        <4>1. file.devices \in Seq(ToSet(file.devices))
          BY <2>1, FilesAssumption DEF WalkOK
        <4>2. QED
          BY <4>1
      <3>2. Len(rest) \in Nat
        BY <2>1 DEF WalkOK
      <3>3. e.device \in DOMAIN file.devices
        BY <2>1, <3>1, <3>2 DEF IsParsed, Index
      <3>4. QED
        BY <3>3 DEF ToSet
    <2>4. IsDevice(d) /\ file \in Files
      BY <2>1, <2>3, FilesAssumption DEF WalkOK
    <2>5. \A vs \in {d.inp, d.out} : AreVariables(vs) /\ LaidOut(vs) /\ ~Odd(vs)
      BY <2>2, <2>3, <2>4 DEF SlavesLaidOut, SlaveOK, IsDevice
    <2>6. d.offset \in Nat
      BY <2>2, <2>4 DEF IsDevice, SlaveOK
    <2>7. e.holding = Registers(d, d.inp) /\ e.input = Registers(d, d.out)
      <3> HIDE DEF d
      <3>1. /\ SlaveEntry(d, e.device).holding = Registers(d, d.inp)
            /\ SlaveEntry(d, e.device).input = Registers(d, d.out)
        BY DEF SlaveEntry
      <3>2. QED
        BY <2>2, <3>1
    <2>8. ASSUME NEW vs \in {d.inp, d.out}, \E n \in DOMAIN vs : vs[n].byte > 0
          PROVE  Covers(Registers(d, vs), vs)
      <3> DEFINE r == Registers(d, vs)
                 off == d.offset
      <3>1. /\ AreVariables(vs) /\ LaidOut(vs) /\ ~Odd(vs) /\ off \in Nat
            /\ \E n \in DOMAIN vs : vs[n].byte > 0
        BY <2>5, <2>6, <2>8
      <3>2. r = [offset |-> off + ImageArea(vs).start,
                 count |-> ImageArea(vs).size \div 2]
        BY DEF Registers
      <3> DEFINE all == bytes(vs)
      <3>3. all = UNION {off + vs[n].byte
                           .. off + vs[n].byte + vs[n].len \div 8 - 1
                         : n \in DOMAIN vs}
        OBVIOUS
      <3> HIDE DEF r, off, all
      <3>4. /\ all \subseteq r.offset .. r.offset + 2 * r.count - 1
            /\ r.offset = Min(all)
            /\ r.offset + 2 * r.count - 1 = Max(all)
        BY <3>1, <3>2, <3>3, AreaCovers
      <3>5. QED
        BY <3>4 DEF r, all
    <2> HIDE DEF Covers
    <2>9. \A p \in {<<e.holding, d.inp>>, <<e.input, d.out>>} :
              (\E n \in DOMAIN p[2] : p[2][n].byte > 0) => Covers(p[1], p[2])
      <3> HIDE DEF d
      <3> TAKE p \in {<<e.holding, d.inp>>, <<e.input, d.out>>}
      <3> HAVE \E n \in DOMAIN p[2] : p[2][n].byte > 0
      <3>1. p[2] \in {d.inp, d.out} /\ p[1] = Registers(d, p[2])
        BY <2>7
      <3>2. QED
        BY <2>8, <3>1
    <2>10. QED
      BY <2>9 DEF Covers
  <1>2. QED
    BY <1>1, ParserInvariant, PTL
=============================================================================

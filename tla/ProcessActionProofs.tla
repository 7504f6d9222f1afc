------------------------ MODULE ProcessActionProofs -------------------------
(***************************************************************************)
(* Proofs of the properties of ProcessAction for bytes of any width, any   *)
(* size of the process image and of the buffer, and any lists of actions.  *)
(***************************************************************************)
EXTENDS ProcessAction, TLAPS

(* Where the code is right about coils: an area of them starts with a byte *)
(* or ends with the one it starts in.                                      *)
Aligned(a) == IsBits(a) => a.bit = 0 \/ a.bit + a.count <= W

(* PiCtory's part: it keeps the inputs of a device apart from its outputs. *)
InputsApart(L) ==
    \A a, b \in L : IsRead(a) /\ IsWrite(b) => Area(a) \cap Area(b) = {}

SoundLayout ==
    \A L \in ActionLists : InputsApart(L) /\ \A a \in L : Aligned(a)

(* What a command has got to, whatever the layout.                         *)
PhaseInv ==
    /\ TypeOK
    /\ pc \in {"bus", "store"} => IsRead(act)
    /\ pc = "bus" => idx = 0
    /\ pc \in {"gather", "send"} => IsWrite(act) /\ len = "none"
    /\ pc \in {"store", "gather"} /\ IsBits(act) => idx < act.count

Outputs == {c \in Cell : \E a \in list : IsWrite(a) /\ c \in Area(a)}

(* The outputs are those of one cycle of the PLC.                          *)
OutputInv == \E p \in Plc : \A c \in Outputs : image[c] = <<p, c>>

(* An answer is in the buffer until it is stored, coil by coil.            *)
AnswerInv ==
    /\ pc = "store" => \A e \in 0 .. Size(act) - 1 : buffer[e] = <<answer, e>>
    /\ pc = "store" /\ IsBits(act) =>
          \A e \in 0 .. idx - 1 : image[Place(act, e)] = <<answer, e>>

(* The payload of a write command, as far as it has been gathered.         *)
PayloadInv ==
    /\ pc = "gather" /\ IsBits(act) =>
          \A e \in 0 .. idx - 1 : buffer[e] \in Plc \X {Place(act, e)}
    /\ pc = "send" =>
          \A e \in 0 .. Size(act) - 1 : buffer[e] \in Plc \X {Place(act, e)}
    /\ pc = "send" /\ ~IsBits(act) =>
          \A e \in 0 .. Size(act) - 1 : buffer[e][1] = buffer[0][1]

DataInv == OutputInv /\ AnswerInv /\ PayloadInv /\ AnswerInPlace

-----------------------------------------------------------------------------
(* Quotient and remainder of a bit index.                                  *)
LEMMA DivMod ==
    ASSUME NEW i \in Nat
    PROVE  /\ i \div W \in Nat /\ i % W \in 0 .. W - 1
           /\ i = (i \div W) * W + (i % W)
           /\ i < W => i \div W = 0 /\ i % W = i
  BY DataAssumption

(* The bit of an index moved by a bit offset: it wraps around in the byte, *)
(* and moves no further than the offset.                                   *)
LEMMA AddMod ==
    ASSUME NEW i \in Nat, NEW b \in 0 .. W - 1
    PROVE  (b + i) % W \in Nat /\ (b + i) % W <= b + (i % W)
  BY DataAssumption

(* What the assumption says of an action a thread can have.                *)
LEMMA ActionFacts ==
    ASSUME NEW L \in ActionLists, NEW a \in L
    PROVE  /\ a.kind \in Kind /\ a.byte \in Nat /\ a.bit \in 0 .. W - 1
           /\ a.count \in Nat \ {0}
           /\ Size(a) \in 0 .. MaxSize
           /\ IsBits(a) => Size(a) = a.count
           /\ IsRead(a) \/ IsWrite(a) => Size(a) >= 1
           /\ Place(a, 0) \in Int
           /\ \A e \in Int : Place(a, e) = Place(a, 0) + e
           /\ \A e \in 0 .. Size(a) - 1 : Place(a, e) \in Area(a)
           /\ Area(a) \subseteq Cell
  <1>1. /\ a \in [kind: Kind, byte: 0 .. Bytes - 1, bit: 0 .. W - 1,
                  count: Nat \ {0}]
        /\ Area(a) \subseteq Cell /\ Size(a) <= MaxSize
        /\ W \in Nat \ {0} /\ Bytes \in Nat \ {0}
    BY DataAssumption
  <1>2. a.byte \in Nat /\ a.count \in Nat \ {0} /\ a.kind \in Kind
        /\ a.bit \in 0 .. W - 1
    BY <1>1
  <1>3. a.byte * W \in Nat /\ a.count * W \in Nat /\ a.count * W >= 1
        /\ a.count * 2 * W \in Nat /\ a.count * 2 * W >= 1
    BY <1>1, <1>2
  <1>4. Size(a) \in Nat
    BY <1>2, <1>3 DEF Size
  <1>5. IsBits(a) => Size(a) = a.count
    BY DEF Size, IsBits
  <1>6. IsRead(a) \/ IsWrite(a) => Size(a) >= 1
    BY <1>2, <1>3 DEF Size, IsRead, IsWrite, IsBits
  <1>7. Place(a, 0) \in Int /\ \A e \in Int : Place(a, e) = Place(a, 0) + e
    BY <1>2, <1>3 DEF Place
  <1>8. MaxSize \in Nat
    BY DataAssumption
  <1> QED BY <1>1, <1>2, <1>4, <1>5, <1>6, <1>7, <1>8 DEF Area

(* Coil i is read and written within the process image, and where PiCtory  *)
(* has its variable if the area is aligned (coil_data_l).                  *)
LEMMA CoilFacts ==
    ASSUME NEW L \in ActionLists, NEW a \in L, IsBits(a),
           NEW i \in 0 .. a.count - 1
    PROVE  /\ CoilCell(a, i) \in Cell
           /\ Aligned(a) => CoilCell(a, i) = Place(a, i)
  <1> DEFINE q == i \div W
             r == i % W
             m == (a.bit + i) % W
  <1>1. /\ a.byte \in Nat /\ a.bit \in 0 .. W - 1 /\ a.count \in Nat
        /\ Size(a) = a.count /\ i \in Nat /\ W \in Nat \ {0} /\ Bytes \in Nat
    BY ActionFacts, DataAssumption
  <1>2. /\ q \in Nat /\ r \in 0 .. W - 1 /\ i = q * W + r
        /\ i < W => q = 0 /\ r = i
    BY <1>1, DivMod
  <1>3. m \in Nat /\ m <= a.bit + r
    BY <1>1, AddMod
  <1>4. CoilCell(a, i) = (a.byte + q) * W + m
    BY DEF CoilCell
  <1>5. Place(a, i) \in Cell
    BY <1>1, ActionFacts
  <1>6. CoilCell(a, i) = a.byte * W + q * W + m
    <2> HIDE DEF q, m
    <2>1. (a.byte + q) * W = a.byte * W + q * W
      BY <1>1, <1>2
    <2> QED BY <1>4, <2>1
  <1>7. Place(a, i) = a.byte * W + a.bit + (q * W + r)
    <2> HIDE DEF q, r
    <2> QED BY <1>2 DEF Place
  <1>8. a.byte * W \in Nat /\ q * W \in Nat /\ Bytes * W \in Nat
    BY <1>1, <1>2
  <1>9. CoilCell(a, i) \in Cell
    <2> HIDE DEF q, r, m
    <2> QED BY <1>1, <1>2, <1>3, <1>5, <1>6, <1>7, <1>8 DEF Cell
  <1>10. CASE a.bit = 0
    <2>1. m = r
      BY <1>1, <1>10
    <2> HIDE DEF q, r, m
    <2> QED BY <1>1, <1>2, <1>6, <1>7, <1>8, <1>9, <1>10, <2>1
  <1>11. CASE a.bit + a.count <= W
    <2>1. i < W /\ a.bit + i < W /\ a.bit + i \in Nat
      BY <1>1, <1>11
    <2>2. m = a.bit + i
      BY <2>1, DivMod
    <2>3. q = 0 /\ r = i
      BY <1>2, <2>1
    <2> HIDE DEF q, r, m
    <2> QED BY <1>1, <1>6, <1>7, <1>8, <1>9, <2>2, <2>3
  <1> QED BY <1>9, <1>10, <1>11 DEF Aligned

-----------------------------------------------------------------------------
(* The thread before its first command.                                    *)
LEMMA InitPhase == Init => PhaseInv
  <1> SUFFICES ASSUME Init PROVE PhaseInv
    OBVIOUS
  <1>1. 0 \in Index /\ MaxSize \in Nat /\ 0 \in Cell
    BY DataAssumption DEF Index, Cell
  <1>2. sent \in [0 .. 0 - 1 -> Value]
    BY DEF Init, NoPayload
  <1>3. \E n \in 0 .. MaxSize : sent \in [0 .. n - 1 -> Value]
    BY <1>1, <1>2
  <1>4. /\ buffer \in [Index -> Value] /\ image \in [Cell -> Value]
        /\ answer \in Answer
    BY <1>1 DEF Init, Value, Plc, Answer
  <1> QED BY <1>1, <1>3, <1>4 DEF Init, PhaseInv, TypeOK

(* The type of the buffer after an answer, of what is gathered as a block, *)
(* and of what is stored.                                                  *)
LEMMA AnsweredType ==
    ASSUME TypeOK, NEW n \in Int
    PROVE  Answered(n) \in [Index -> Value]
  BY DEF TypeOK, Answered, Value

(* PhaseInv is inductive, whatever the layout of the areas.                *)
LEMMA NextPhase == PhaseInv /\ [Next]_vars => PhaseInv'
  <1> SUFFICES ASSUME PhaseInv, [Next]_vars PROVE PhaseInv'
    OBVIOUS
  <1>1. list \in ActionLists /\ act \in list /\ list' = list
    BY DEF PhaseInv, TypeOK, Next, vars
  <1>2. /\ Size(act) \in 0 .. MaxSize /\ act.count \in Nat \ {0}
        /\ IsBits(act) => Size(act) = act.count
        /\ \A e \in Int : Place(act, e) = Place(act, 0) + e
        /\ \A e \in 0 .. Size(act) - 1 : Place(act, e) \in Cell
        /\ Area(act) \subseteq Cell
    BY <1>1, ActionFacts
  <1>3. MaxSize \in Nat \ {0}
    BY DataAssumption
  <1>4. ASSUME NEW a \in list, Begin(a) PROVE PhaseInv'
    <2>1. a.count \in Nat \ {0} /\ 0 \in Index
      BY <1>1, <1>3, ActionFacts DEF Index
    <2>2. answer' \in Answer
      BY <1>4 DEF Begin, Answer
    <2>3. sent' \in [0 .. 0 - 1 -> Value]
      BY <1>4 DEF Begin, NoPayload
    <2>4. \E n \in 0 .. MaxSize : sent' \in [0 .. n - 1 -> Value]
      BY <1>3, <2>3
    <2>5. \/ pc' = "bus" /\ IsRead(a)
          \/ pc' = "gather" /\ IsWrite(a)
          \/ pc' = "finish"
      <3>1. CASE IsRead(a)
        BY <1>4, <3>1 DEF Begin, IsRead, IsWrite
      <3>2. CASE IsWrite(a)
        BY <1>4, <3>2 DEF Begin, IsRead, IsWrite
      <3>3. CASE ~IsRead(a) /\ ~IsWrite(a)
        BY <1>4, <3>3 DEF Begin
      <3> QED BY <3>1, <3>2, <3>3
    <2> QED
      BY <1>1, <1>4, <2>1, <2>2, <2>4, <2>5 DEF Begin, PhaseInv, TypeOK
  <1>5. CASE BusReadOk
    <2>1. buffer' \in [Index -> Value]
      BY <1>2, <1>5, AnsweredType DEF BusReadOk, PhaseInv
    <2>2. pc' = "store" /\ idx = 0
      BY <1>5 DEF BusReadOk, PhaseInv
    <2> QED BY <1>1, <1>2, <1>5, <2>1, <2>2 DEF BusReadOk, PhaseInv, TypeOK
  <1>6. CASE BusReadShort
    <2>1. PICK n \in 0 .. act.count - 1 : buffer' = Answered(n * W)
      BY <1>6 DEF BusReadShort
    <2>2. buffer' \in [Index -> Value]
      BY <1>2, <2>1, AnsweredType, DataAssumption DEF PhaseInv
    <2> QED BY <1>1, <1>6, <2>2 DEF BusReadShort, PhaseInv, TypeOK
  <1>7. CASE BusFails \/ BitFails \/ Finish
    BY <1>1, <1>7 DEF BusFails, BitFails, Finish, PhaseInv, TypeOK
  <1>8. CASE StoreBit
    <2>1. idx \in Index /\ buffer[idx] \in Value /\ idx < act.count
      BY <1>8 DEF StoreBit, PhaseInv, TypeOK
    <2>2. image' \in [Cell -> Value]
      BY <1>8, <2>1 DEF StoreBit, PhaseInv, TypeOK
    <2>3. idx' \in Index /\ (pc' = "store" => idx' < act.count)
      BY <1>2, <1>3, <1>8, <2>1 DEF StoreBit, Index
    <2> QED BY <1>1, <1>8, <2>2, <2>3 DEF StoreBit, PhaseInv, TypeOK
  <1>9. CASE StoreBlock
    <2>1. \A c \in Area(act) : buffer[c - Place(act, 0)] \in Value
      <3>1. \A c \in Area(act) : c - Place(act, 0) \in Index
        BY <1>1, <1>2, <1>3, ActionFacts DEF Area, Index
      <3> QED BY <3>1 DEF PhaseInv, TypeOK
    <2>2. image' \in [Cell -> Value] /\ ok' \in BOOLEAN
      BY <1>9, <2>1 DEF StoreBlock, PhaseInv, TypeOK
    <2> QED BY <1>1, <1>9, <2>2 DEF StoreBlock, PhaseInv, TypeOK
  <1>10. CASE GatherBit
    <2>1. idx \in Index /\ idx < act.count
      BY <1>10 DEF GatherBit, PhaseInv, TypeOK
    <2>2. CoilCell(act, idx) \in Cell
      BY <1>1, <1>2, <1>10, <2>1, CoilFacts DEF GatherBit, Index
    <2>3. buffer' \in [Index -> Value]
      BY <1>10, <2>2 DEF GatherBit, PhaseInv, TypeOK
    <2>4. idx' \in Index /\ (pc' = "gather" => idx' < act.count)
      BY <1>2, <1>3, <1>10, <2>1 DEF GatherBit, Index
    <2> QED BY <1>1, <1>10, <2>3, <2>4 DEF GatherBit, PhaseInv, TypeOK
  <1>11. CASE GatherBlock
    <2>1. \A e \in Index : e < Size(act) => image[Place(act, e)] \in Value
      BY <1>2, <1>3 DEF Index, PhaseInv, TypeOK
    <2>2. buffer' \in [Index -> Value] /\ ok' \in BOOLEAN
      BY <1>11, <2>1 DEF GatherBlock, PhaseInv, TypeOK
    <2> QED BY <1>1, <1>11, <2>2 DEF GatherBlock, PhaseInv, TypeOK
  <1>12. CASE BusWriteOk
    <2>1. sent' \in [0 .. Size(act) - 1 -> Value]
      BY <1>2, <1>3, <1>12 DEF BusWriteOk, Restrict, Index, PhaseInv, TypeOK
    <2> QED BY <1>1, <1>2, <1>12, <2>1 DEF BusWriteOk, PhaseInv, TypeOK
  <1>13. CASE PlcCycle
    <2>1. image' \in [Cell -> Value]
      BY <1>13 DEF PlcCycle, PhaseInv, TypeOK, Value, Plc
    <2> QED BY <1>1, <1>13, <2>1 DEF PlcCycle, PhaseInv, TypeOK
  <1>14. CASE UNCHANGED vars
    BY <1>14 DEF vars, PhaseInv, TypeOK
  <1> QED
    BY <1>4, <1>5, <1>6, <1>7, <1>8, <1>9, <1>10, <1>11, <1>12, <1>13, <1>14
    DEF Next, ThreadStep

(* processModbusAction stays within its buffer and the process image,      *)
(* wherever the configured areas lie (the loops over the coils).           *)
THEOREM ActionTypeCorrect == Spec => []TypeOK
  <1>1. PhaseInv => TypeOK
    BY DEF PhaseInv
  <1> QED BY <1>1, InitPhase, NextPhase, PTL DEF Spec
-----------------------------------------------------------------------------
(* What the layout gives the steps of a command.                           *)
LEMMA LayoutFacts ==
    ASSUME SoundLayout, PhaseInv
    PROVE  /\ IsBits(act) =>
                \A i \in 0 .. act.count - 1 : CoilCell(act, i) = Place(act, i)
           /\ IsRead(act) => Area(act) \cap Outputs = {}
           /\ IsWrite(act) =>
                \A e \in 0 .. Size(act) - 1 : Place(act, e) \in Outputs
  <1>1. list \in ActionLists /\ act \in list
    BY DEF PhaseInv, TypeOK
  <1>2. InputsApart(list) /\ Aligned(act)
    BY <1>1 DEF SoundLayout
  <1>3. IsBits(act) =>
            \A i \in 0 .. act.count - 1 : CoilCell(act, i) = Place(act, i)
    BY <1>1, <1>2, CoilFacts
  <1>4. IsRead(act) => Area(act) \cap Outputs = {}
    BY <1>1, <1>2 DEF InputsApart, Outputs
  <1>5. IsWrite(act) => \A e \in 0 .. Size(act) - 1 : Place(act, e) \in Outputs
    BY <1>1, ActionFacts DEF Outputs
  <1> QED BY <1>3, <1>4, <1>5

(* Before the first command the image holds no answers.                    *)
LEMMA InitData == Init => DataInv
  BY DEF Init, DataInv, OutputInv, Outputs, AnswerInv, PayloadInv,
         AnswerInPlace, Plc

(* One step for each action that disturbs the buffer or the image.         *)
LEMMA NextData ==
    ASSUME SoundLayout, PhaseInv, DataInv, [Next]_vars
    PROVE  DataInv'
  <1> DEFINE n == Size(act)
             P(e) == Place(act, 0) + e
  <1>1. list \in ActionLists /\ act \in list /\ list' = list
    BY DEF PhaseInv, TypeOK, Next, vars
  <1>2. /\ n \in 0 .. MaxSize /\ act.count \in Nat \ {0}
        /\ IsBits(act) => n = act.count
        /\ IsRead(act) \/ IsWrite(act) => n >= 1
        /\ Place(act, 0) \in Int
        /\ \A e \in Int : Place(act, e) = P(e)
        /\ \A e \in 0 .. n - 1 : P(e) \in Area(act) /\ P(e) \in Cell
        /\ Area(act) \subseteq Cell
        /\ \A e \in 0 .. n - 1 : e \in Index
    <2>1. MaxSize \in Nat
      BY DataAssumption
    <2> QED BY <1>1, <2>1, ActionFacts DEF Index
  <1>3. /\ IsBits(act) => \A i \in 0 .. act.count - 1 : CoilCell(act, i) = P(i)
        /\ IsRead(act) => Area(act) \cap Outputs = {}
        /\ IsWrite(act) => \A e \in 0 .. n - 1 : P(e) \in Outputs
    BY <1>2, LayoutFacts
  <1>4. Outputs' = Outputs
    BY <1>1 DEF Outputs
  <1>5. CASE \/ \E a \in list : Begin(a)
             \/ BusReadShort \/ BusFails \/ BitFails \/ Finish
             \/ UNCHANGED vars
    BY <1>4, <1>5
    DEF Begin, BusReadShort, BusFails, BitFails, Finish, vars, PhaseInv,
        DataInv, OutputInv, AnswerInv, PayloadInv, AnswerInPlace, IsRead, IsWrite
  <1>6. CASE BusReadOk
    <2>1. \A e \in 0 .. n - 1 : buffer'[e] = <<answer, e>>
      BY <1>2, <1>6 DEF BusReadOk, Answered
    <2> QED
      BY <1>4, <1>6, <2>1
      DEF BusReadOk, PhaseInv, DataInv, OutputInv, AnswerInv, PayloadInv,
          AnswerInPlace
  <1>7. CASE StoreBit
    <2>1. idx \in 0 .. n - 1 /\ n = act.count /\ IsRead(act)
      <3>1. IsRead(act) /\ idx \in Index /\ idx < act.count /\ n = act.count
        BY <1>2, <1>7 DEF StoreBit, PhaseInv, TypeOK
      <3> QED BY <1>2, <3>1 DEF Index
    <2>2. image' = [image EXCEPT ![P(idx)] = <<answer, idx>>]
      BY <1>3, <1>7, <2>1 DEF StoreBit, DataInv, AnswerInv
    <2>3. image'[P(idx)] = <<answer, idx>>
          /\ \A c \in Cell \ {P(idx)} : image'[c] = image[c]
      BY <1>2, <2>1, <2>2 DEF PhaseInv, TypeOK
    <2>4. \A e \in 0 .. idx : image'[P(e)] = <<answer, e>>
      BY <1>2, <1>7, <2>1, <2>3 DEF StoreBit, DataInv, AnswerInv
    <2>5. OutputInv'
      <3>1. \A c \in Outputs : c # P(idx) /\ c \in Cell
        BY <1>2, <1>3, <2>1 DEF Outputs
      <3> QED BY <1>4, <2>3, <3>1 DEF DataInv, OutputInv
    <2>6. /\ UNCHANGED <<buffer, answer, act, len, ok>>
          /\ \/ pc' = "store" /\ idx' = idx + 1
             \/ pc' = "finish" /\ n = idx + 1
      BY <1>2, <1>7, <2>1 DEF StoreBit
    <2> HIDE DEF n, P
    <2>7. AnswerInv'
      BY <1>2, <1>7, <2>1, <2>4, <2>6 DEF StoreBit, DataInv, AnswerInv, n
    <2>8. AnswerInPlace'
      BY <1>2, <2>1, <2>4, <2>6 DEF AnswerInPlace, n
    <2> QED BY <2>5, <2>6, <2>7, <2>8 DEF DataInv, PayloadInv
  <1>8. CASE StoreBlock
    <2>1. IsRead(act) /\ n >= 1
      BY <1>2, <1>8 DEF StoreBlock, PhaseInv
    <2>2. CASE /\ image' = [c \in Cell |-> IF c \in Area(act)
                                           THEN buffer[c - Place(act, 0)]
                                           ELSE image[c]]
               /\ UNCHANGED ok
      <3>1. \A e \in 0 .. n - 1 : image'[P(e)] = buffer[e]
        BY <1>2, <2>2
      <3>2. \A e \in 0 .. n - 1 : image'[Place(act, e)] = <<answer, e>>
        BY <1>2, <1>8, <3>1 DEF StoreBlock, DataInv, AnswerInv
      <3>3. OutputInv'
        BY <1>3, <1>4, <2>1, <2>2 DEF Outputs, DataInv, OutputInv
      <3> QED
        BY <1>8, <3>2, <3>3
        DEF StoreBlock, DataInv, AnswerInv, PayloadInv, AnswerInPlace
    <2>3. CASE ok' = FALSE /\ UNCHANGED image
      BY <1>4, <1>8, <2>3
      DEF StoreBlock, DataInv, OutputInv, AnswerInv, PayloadInv, AnswerInPlace
    <2> QED BY <1>8, <2>2, <2>3 DEF StoreBlock
  <1>9. PICK p \in Plc : \A c \in Outputs : image[c] = <<p, c>>
    BY DEF DataInv, OutputInv
  <1>10. CASE GatherBit
    <2>1. idx \in 0 .. n - 1 /\ n = act.count /\ IsWrite(act) /\ ~IsRead(act)
      <3>1. IsWrite(act) /\ idx \in Index /\ idx < act.count /\ n = act.count
        BY <1>2, <1>10 DEF GatherBit, PhaseInv, TypeOK
      <3> QED BY <1>2, <3>1 DEF Index, IsRead, IsWrite
    <2>2. buffer' = [buffer EXCEPT ![idx] = <<p, P(idx)>>]
      BY <1>3, <1>9, <1>10, <2>1 DEF GatherBit
    <2>3. \A e \in 0 .. idx : buffer'[e] \in Plc \X {Place(act, e)}
      <3>1. buffer'[idx] = <<p, P(idx)>>
        BY <1>2, <2>1, <2>2 DEF PhaseInv, TypeOK
      <3>2. \A e \in 0 .. idx - 1 :
                buffer'[e] = buffer[e] /\ buffer[e] \in Plc \X {Place(act, e)}
        BY <1>2, <1>10, <2>1, <2>2
        DEF GatherBit, PhaseInv, TypeOK, DataInv, PayloadInv
      <3> HIDE DEF P, n
      <3>3. buffer'[idx] \in Plc \X {Place(act, idx)}
        BY <1>2, <1>9, <2>1, <3>1
      <3> QED BY <1>2, <2>1, <3>2, <3>3
    <2>4. /\ UNCHANGED <<image, answer, act, len, ok>>
          /\ \/ pc' = "gather" /\ idx' = idx + 1
             \/ pc' = "send" /\ n = idx + 1
          /\ IsBits(act)
      BY <1>2, <1>10, <2>1 DEF GatherBit
    <2>5. OutputInv' /\ AnswerInv' /\ AnswerInPlace'
      BY <1>4, <2>4 DEF DataInv, OutputInv, AnswerInv, AnswerInPlace
    <2> HIDE DEF P
    <2>6. PayloadInv'
      BY <2>1, <2>3, <2>4 DEF PayloadInv
    <2> QED BY <2>5, <2>6 DEF DataInv
  <1>11. CASE GatherBlock
    <2>1. IsWrite(act)
      BY <1>11 DEF GatherBlock, PhaseInv
    <2>2. CASE /\ buffer' = [e \in Index |-> IF e < Size(act)
                                             THEN image[Place(act, e)]
                                             ELSE buffer[e]]
               /\ pc' = "send"
      <3>1. \A e \in 0 .. n - 1 : buffer'[e] = <<p, Place(act, e)>>
        BY <1>2, <1>3, <1>9, <2>1, <2>2
      <3>2. n >= 1
        BY <1>2, <2>1
      <3>3. PayloadInv'
        <4>1. pc' = "send" /\ act' = act
          BY <1>11, <2>2 DEF GatherBlock
        <4>2. \A e \in 0 .. n - 1 :
                  buffer'[e] \in Plc \X {Place(act, e)} /\ buffer'[e][1] = p
          BY <1>9, <3>1
        <4>3. buffer'[0][1] = p
          BY <1>2, <3>2, <4>2
        <4> QED BY <4>1, <4>2, <4>3 DEF PayloadInv
      <3> QED
        BY <1>4, <1>11, <2>2, <3>3
        DEF GatherBlock, DataInv, OutputInv, AnswerInv, AnswerInPlace
    <2>3. CASE pc' = "finish"
      BY <1>4, <1>11, <2>1, <2>3
      DEF GatherBlock, DataInv, OutputInv, AnswerInv, PayloadInv,
          AnswerInPlace, IsRead, IsWrite
    <2> QED BY <1>11, <2>2, <2>3 DEF GatherBlock
  <1>12. CASE BusWriteOk
    <2>1. ~IsRead(act)
      BY <1>12 DEF BusWriteOk, PhaseInv, IsRead, IsWrite
    <2> QED
      BY <1>4, <1>12, <2>1
      DEF BusWriteOk, DataInv, OutputInv, AnswerInv, PayloadInv, AnswerInPlace
  <1>13. CASE PlcCycle
    <2> DEFINE q == IF p = "even" THEN "odd" ELSE "even"
    <2>1. q \in Plc /\ \A c \in Outputs : image'[c] = <<q, c>>
      BY <1>9, <1>13 DEF PlcCycle, Outputs, Plc
    <2>2. \A c \in Cell \ Outputs : image'[c] = image[c]
      BY <1>13 DEF PlcCycle, Outputs
    <2>3. OutputInv'
      BY <1>4, <2>1 DEF OutputInv
    <2>4. UNCHANGED <<pc, act, idx, buffer, len, ok, answer>>
      BY <1>13 DEF PlcCycle
    <2>5. IsRead(act) => \A e \in 0 .. n - 1 : image'[Place(act, e)] = image[Place(act, e)]
      BY <1>2, <1>3, <2>2
    <2>6. pc = "store" /\ IsBits(act) => idx \in 0 .. n - 1 /\ IsRead(act)
      <3>1. pc = "store" /\ IsBits(act) =>
                IsRead(act) /\ idx \in Index /\ idx < act.count /\ n = act.count
        BY <1>2 DEF PhaseInv, TypeOK
      <3> QED BY <1>2, <3>1 DEF Index
    <2>7. AnswerInv' /\ AnswerInPlace'
      BY <1>2, <2>4, <2>5, <2>6 DEF DataInv, AnswerInv, AnswerInPlace
    <2> QED BY <2>3, <2>4, <2>7 DEF DataInv, PayloadInv
  <1> QED
    BY <1>5, <1>6, <1>7, <1>8, <1>10, <1>11, <1>12, <1>13 DEF Next, ThreadStep

(* With a sound layout a command keeps its data in order, whichever call   *)
(* fails and wherever the PLC runs.                                        *)
THEOREM ActionInvariant == SoundLayout => (Spec => [](PhaseInv /\ DataInv))
  <1> SUFFICES ASSUME SoundLayout PROVE Spec => [](PhaseInv /\ DataInv)
    OBVIOUS
  <1>1. PhaseInv /\ DataInv /\ [Next]_vars => (PhaseInv /\ DataInv)'
    BY NextPhase, NextData
  <1> QED BY <1>1, InitPhase, InitData, PTL DEF Spec

-----------------------------------------------------------------------------
(* A successful read command puts every element of the answer where        *)
(* PiCtory has its variable (coil_data_l, the calls of piControl).         *)
THEOREM AnswersArriveInPlace == SoundLayout => (Spec => []AnswerInPlace)
  <1> SUFFICES ASSUME SoundLayout PROVE Spec => []AnswerInPlace
    OBVIOUS
  <1>1. PhaseInv /\ DataInv => AnswerInPlace
    BY DEF DataInv
  <1> QED BY <1>1, ActionInvariant, PTL

(* A command changes its own area only, and stores nothing but the answer  *)
(* to itself (processModbusAction after a read).                           *)
THEOREM OnlyOwnAnswerStored == SoundLayout => (Spec => StoresOwnAnswer)
  <1> SUFFICES ASSUME SoundLayout PROVE Spec => StoresOwnAnswer
    OBVIOUS
  <1> DEFINE A == pc' # pc \/ idx' # idx =>
                     \A c \in Cell : image'[c] # image[c] =>
                        c \in Area(act) /\ image'[c][1] = answer
  <1>1. PhaseInv /\ DataInv /\ [Next]_vars => [A]_vars
    <2> SUFFICES ASSUME PhaseInv, DataInv, Next, pc' # pc \/ idx' # idx,
                        NEW c \in Cell, image'[c] # image[c]
                 PROVE  c \in Area(act) /\ image'[c][1] = answer
      OBVIOUS
    <2>1. list \in ActionLists /\ act \in list
      BY DEF PhaseInv, TypeOK
    <2>2. StoreBit \/ StoreBlock
      BY DEF Next, ThreadStep, Begin, BusReadOk, BusReadShort, BusFails,
             BitFails, GatherBit, GatherBlock, BusWriteOk, Finish, PlcCycle
    <2>3. CASE StoreBit
      <3>1. IsBits(act) /\ idx \in Index /\ idx < act.count /\ Size(act) = act.count
        BY <2>1, <2>3, ActionFacts DEF StoreBit, PhaseInv, TypeOK
      <3>2. idx \in 0 .. act.count - 1 /\ idx \in 0 .. Size(act) - 1
        BY <2>1, <3>1, ActionFacts DEF Index
      <3>3. CoilCell(act, idx) = Place(act, idx) /\ Place(act, idx) \in Area(act)
        BY <2>1, <3>1, <3>2, LayoutFacts, ActionFacts
      <3>4. buffer[idx] = <<answer, idx>>
        BY <2>3, <3>2 DEF StoreBit, DataInv, AnswerInv
      <3> QED BY <2>3, <3>3, <3>4 DEF StoreBit, PhaseInv, TypeOK
    <2>4. CASE StoreBlock
      <3>1. c \in Area(act) /\ image'[c] = buffer[c - Place(act, 0)]
        BY <2>4 DEF StoreBlock
      <3>2. PICK e \in 0 .. Size(act) - 1 : c = Place(act, e)
        BY <3>1 DEF Area
      <3>3. c - Place(act, 0) = e
        BY <2>1, <3>2, ActionFacts
      <3> QED BY <2>4, <3>1, <3>2, <3>3 DEF StoreBlock, DataInv, AnswerInv
    <2> QED BY <2>2, <2>3, <2>4
  <1> QED BY <1>1, ActionInvariant, PTL DEF Spec, StoresOwnAnswer

(* The payload of a write command is the PLC's, element by element, and    *)
(* its registers are those of one cycle (processModbusAction before a      *)
(* write).                                                                 *)
THEOREM OnlyOwnOutputsSent == SoundLayout => (Spec => SendsOwnOutputs)
  <1> SUFFICES ASSUME SoundLayout PROVE Spec => SendsOwnOutputs
    OBVIOUS
  <1> DEFINE A == pc = "send" /\ len' = "full" =>
                     /\ \A e \in DOMAIN sent' :
                           sent'[e][1] \in Plc /\ sent'[e][2] = Place(act, e)
                     /\ ~IsBits(act) =>
                           \A e \in DOMAIN sent' : sent'[e][1] = sent'[0][1]
  <1>1. PhaseInv /\ DataInv /\ [Next]_vars => [A]_vars
    <2> SUFFICES ASSUME PhaseInv, DataInv, Next, pc = "send", len' = "full"
                 PROVE  A
      OBVIOUS
    <2>1. BusWriteOk /\ IsWrite(act)
      BY DEF PhaseInv, Next, ThreadStep, Begin, BusReadOk, BusReadShort,
             BusFails, StoreBit, StoreBlock, BitFails, GatherBit, GatherBlock,
             Finish, PlcCycle
    <2>2. Size(act) \in Nat \ {0} /\ MaxSize \in Nat
      BY <2>1, ActionFacts, DataAssumption DEF PhaseInv, TypeOK
    <2>3. /\ DOMAIN sent' = 0 .. Size(act) - 1
          /\ \A e \in 0 .. Size(act) - 1 : sent'[e] = buffer[e]
      BY <2>1 DEF BusWriteOk, Restrict
    <2>4. \A e \in 0 .. Size(act) - 1 : buffer[e] \in Plc \X {Place(act, e)}
      BY DEF DataInv, PayloadInv
    <2>5. ~IsBits(act) =>
              \A e \in 0 .. Size(act) - 1 : buffer[e][1] = buffer[0][1]
      BY DEF DataInv, PayloadInv
    <2> QED BY <2>2, <2>3, <2>4, <2>5
  <1> QED BY <1>1, ActionInvariant, PTL DEF Spec, SendsOwnOutputs
=============================================================================

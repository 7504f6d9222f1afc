-------------------------- MODULE MCProcessAction ---------------------------
(* Instances of ProcessAction for TLC.  A byte has two bits, so that four  *)
(* coils reach into a second byte.                                         *)
EXTENDS ProcessAction

At(kind, byte, bit, count) ==
    [kind |-> kind, byte |-> byte, bit |-> bit, count |-> count]

(* Coil areas that start with a byte, or end with the one they start in.   *)
Reads == {At("readBits", 0, 0, 4), At("readBits", 2, 1, 1),
          At("reportId", 3, 0, 1), At("unknown", 4, 0, 1)}

Writes == {At("readRegs", 0, 0, 1), At("writeBits", 2, 0, 3),
           At("writeRegs", 4, 0, 1)}

(* Writes that gather into a buffer which coils were read into.            *)
Mixed == {At("readBits", 0, 0, 2), At("writeBits", 2, 0, 3),
          At("writeRegs", 4, 0, 1)}

MCActionLists == {Reads, Writes, Mixed}

(* Input_Bit_2 to Input_Bit_3 of two bits per byte.                        *)
Unaligned == {{At("readBits", 0, 1, 2)}}
=============================================================================

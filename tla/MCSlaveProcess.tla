--------------------------- MODULE MCSlaveProcess ---------------------------
(* Instances of SlaveProcess for TLC: of two TCP slaves and two RTU slaves *)
(* those of two generations share the few descriptors of the process.      *)
EXTENDS SlaveProcess

CONSTANTS s1, s2, s3, s4

MCSlave == {s1, s2, s3, s4}
MCTcp == {s1, s2}
MCConfigs == {{s1}, {s2}, {s3, s4}, {}}
=============================================================================

--------------------------- MODULE MCMasterStatus ---------------------------
(* Instances of MasterStatus for TLC: two actions, and an error code that  *)
(* stands for any of those libmodbus reports.                              *)
EXTENDS MasterStatus

CONSTANTS a, b, dev

MCAction == {a, b}
MCError == {110}

Mode(tcp, recovery, fails, unsent) ==
    [tcp |-> tcp, linkRecovery |-> recovery,
     initFails |-> fails, imageFails |-> fails, unsent |-> unsent]

(* Both protocols where anything can fail, and TCP with and without        *)
(* recovery by libmodbus where only the connection can, for commands that  *)
(* are sent and with one that is not.                                      *)
MCModes == {Mode(TRUE, TRUE, TRUE, {}), Mode(FALSE, TRUE, TRUE, {})}
           \cup {Mode(TRUE, recovery, FALSE, unsent) :
                      recovery \in BOOLEAN, unsent \in {{}, {b}}}
=============================================================================

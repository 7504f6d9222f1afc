------------------------- MODULE SlaveProcessProofs -------------------------
(***************************************************************************)
(* Proofs of the safety properties of SlaveProcess for any slaves, lists,  *)
(* generations and number of file descriptors.                             *)
(***************************************************************************)
EXTENDS SlaveProcess, TLAPS, WellFoundedInduction

Owned(t) == {f \in Fd : owner[f] = t}

(* What a cancelled thread may leave open: its listening socket.           *)
Listener(t) == IF t \in cancelled THEN {server[t]} ELSE {}

(* A thread that main has not created yet has not begun.                   *)
NotCreated(t) ==
    \/ t[1] > gen
    \/ t[1] = gen /\ (mainPc = "parse" \/ (mainPc = "create" /\ t[2] \in todo))

MainInv ==
    /\ mainPc = "cancel" => gen < MaxGen
    /\ mainPc # "crashed" =>
          \A t \in Thread : NotCreated(t) => pc[t] = "none"

(* Every descriptor a thread has opened is one that it will close, or that *)
(* its cleanup handler will.                                               *)
OwnAt(t) ==
    /\ pc[t] \in {"none", "access", "new", "listen"} => Owned(t) = {}
    /\ pc[t] = "opened" => server[t] \in Fd /\ Owned(t) \subseteq {server[t]}
    /\ Watching(t) => Owned(t) \subseteq refset[t]
    /\ pc[t] = "serve" => Owned(t) \subseteq {sock[t]}
    /\ pc[t] = "release" =>
          Owned(t) \subseteq refset[t] \cup {sock[t]} \cup Listener(t)
    /\ pc[t] = "close" => Owned(t) \subseteq refset[t] \cup Listener(t)
    /\ pc[t] = "ended" => Owned(t) \subseteq Listener(t)

(* What a TCP slave watches is its own, until another thread closes it.    *)
KeepAt(t) ==
    t \notin robbed =>
        /\ pc[t] = "opened" => server[t] \in Owned(t)
        /\ Watching(t) => refset[t] \subseteq Owned(t)

(* It watches no socket above fdmax, and always its server socket.         *)
PollAt(t) ==
    Watching(t) =>
        server[t] \in refset[t] /\ \A f \in refset[t] : f <= fdmax[t]

ThreadInv(t) == OwnAt(t) /\ KeepAt(t) /\ PollAt(t)

Inv ==
    /\ TypeOK
    /\ MainInv
    /\ \A t \in Thread : ThreadInv(t)

-----------------------------------------------------------------------------
(* A set of descriptors that is not empty has a least member.              *)
LEMMA MinOfFds ==
    ASSUME NEW S \in SUBSET Fd, S # {}
    PROVE  Min(S) \in S /\ \A f \in S : Min(S) <= f
  <1> DEFINE R == {ss \in Nat \X Nat : ss[1] < ss[2]}
  <1>1. S \in SUBSET Nat
    BY SlaveAssumption DEF Fd
  <1>2. IsWellFoundedOn(R, Nat)
    <2>1. OpToRel(<, Nat) = R
      BY Zenon DEF OpToRel
    <2> QED BY <2>1, NatLessThanWellFounded, Zenon
  <1>3. PICK x \in S : \A y \in S : ~(<<y, x>> \in R)
    <2> HIDE DEF R
    <2> QED BY <1>1, <1>2, WFMin, Zenon
  <1>4. ASSUME NEW y \in S PROVE x <= y
    <2>1. x \in Nat /\ y \in Nat
      BY <1>1
    <2>2. ~(y < x)
      BY <1>3, <2>1, Zenon
    <2> QED BY <2>1, <2>2
  <1> QED BY <1>3, <1>4 DEF Min

(* The descriptor that a thread gets was free, and nobody else's changes.  *)
LEMMA OpensFacts ==
    ASSUME TypeOK, NEW t \in Thread, NEW f \in Fd, Opens(t, f)
    PROVE  /\ owner' \in [Fd -> Thread \cup {Nobody}]
           /\ Owned(t)' = Owned(t) \cup {f}
           /\ \A u \in Thread \ {t} : Owned(u)' = Owned(u)
  <1>1. Nobody \notin Thread
    BY SlaveAssumption DEF Thread
  <1>2. f \in FreeFds
    BY MinOfFds DEF Opens, FreeFds
  <1> QED BY <1>1, <1>2 DEF Opens, FreeFds, TypeOK, Owned

(* A close takes the number from whoever owns it, who has been robbed      *)
(* unless it is the thread itself.                                         *)
LEMMA ClosesFacts ==
    ASSUME TypeOK, NEW t \in Thread, NEW f, Closes(t, f)
    PROVE  /\ owner' \in [Fd -> Thread \cup {Nobody}]
           /\ robbed' \subseteq Thread
           /\ Owned(t)' = Owned(t) \ {f}
           /\ t \in robbed' <=> t \in robbed
           /\ \A u \in Thread \ {t} :
                 /\ Owned(u)' \subseteq Owned(u)
                 /\ u \notin robbed' => u \notin robbed /\ Owned(u)' = Owned(u)
  <1>1. Nobody \notin Thread
    BY SlaveAssumption DEF Thread
  <1> QED BY <1>1 DEF Closes, TypeOK, Owned

-----------------------------------------------------------------------------
(* The process before the first configuration is parsed.                   *)
LEMMA InitInv == Init => Inv
  <1> SUFFICES ASSUME Init PROVE Inv
    OBVIOUS
  <1>1. Nobody \notin Thread
    BY SlaveAssumption DEF Thread
  <1>2. TypeOK
    BY SlaveAssumption DEF Init, TypeOK, Fd, None
  <1>3. MainInv
    BY DEF Init, MainInv
  <1>4. \A t \in Thread : ThreadInv(t)
    BY <1>1 DEF Init, ThreadInv, OwnAt, KeepAt, PollAt, Watching, Owned
  <1> QED BY <1>2, <1>3, <1>4 DEF Inv

(* A thread of which nothing changes but what others close.                *)
LEMMA OtherThread ==
    ASSUME NEW u \in Thread, ThreadInv(u),
           pc'[u] = pc[u], server'[u] = server[u], refset'[u] = refset[u],
           fdmax'[u] = fdmax[u], sock'[u] = sock[u],
           u \in cancelled => u \in cancelled',
           Owned(u)' \subseteq Owned(u),
           u \notin robbed' => u \notin robbed /\ Owned(u)' = Owned(u)
    PROVE  ThreadInv(u)'
  <1>1. OwnAt(u)'
    BY DEF ThreadInv, OwnAt, Watching, Listener
  <1>2. KeepAt(u)' /\ PollAt(u)'
    BY DEF ThreadInv, KeepAt, PollAt, Watching
  <1> QED BY <1>1, <1>2 DEF ThreadInv

(* The steps of main leave the descriptors alone.                          *)
LEMMA ParseKeepsInv == ASSUME Inv, NEW l \in Configs, Parse(l) PROVE Inv'
  <1>1. TypeOK'
    BY DEF Parse, Inv, TypeOK, loopVars
  <1>2. MainInv'
    BY DEF Parse, Inv, MainInv, NotCreated
  <1>3. \A t \in Thread : ThreadInv(t)'
    BY OtherThread DEF Parse, Inv, loopVars, Owned
  <1> QED BY <1>1, <1>2, <1>3 DEF Inv

(* main starts the thread of a slave.                                      *)
LEMMA CreateKeepsInv == ASSUME Inv, NEW s \in Slave, Create(s) PROVE Inv'
  <1> DEFINE t == <<gen, s>>
  <1>1. t \in Thread /\ NotCreated(t) /\ pc[t] = "none"
    BY DEF Create, Inv, TypeOK, MainInv, NotCreated, Thread
  <1>2. Owned(t) = {}
    BY <1>1 DEF Inv, ThreadInv, OwnAt
  <1>3. /\ todo' = todo \ {s} /\ mainPc' \in {"create", "wait"}
        /\ mainPc = "create"
        /\ UNCHANGED <<gen, list, cancelled, owner, robbed, server, refset, rdset,
                       fdmax, fd, sock>>
    BY DEF Create, Advance, loopVars
  <1>4. \/ UNCHANGED <<started, pc>>
        \/ /\ started' = started \cup {t}
           /\ \E to \in {"new", "access"} : pc' = [pc EXCEPT ![t] = to]
    BY DEF Create
  <1>5. TypeOK'
    BY <1>1, <1>3, <1>4 DEF Inv, TypeOK
  <1>6. MainInv'
    BY <1>3, <1>4 DEF Inv, TypeOK, MainInv, NotCreated
  <1>7. ASSUME NEW u \in Thread PROVE ThreadInv(u)'
    <2>1. CASE pc'[u] = pc[u]
      BY <1>3, <1>7, <2>1, OtherThread DEF Inv, Owned
    <2>2. CASE pc'[u] # pc[u]
      <3>1. u = t /\ pc'[u] \in {"new", "access"}
        BY <1>4, <2>2 DEF Inv, TypeOK
      <3>2. Owned(u)' = {}
        BY <1>2, <1>3, <3>1 DEF Owned
      <3> QED
        BY <3>1, <3>2 DEF ThreadInv, OwnAt, KeepAt, PollAt, Watching
    <2> QED BY <2>1, <2>2
  <1> QED BY <1>5, <1>6, <1>7 DEF Inv

(* The driver is reset: main turns to cancelling.                          *)
LEMMA ResetKeepsInv == ASSUME Inv, Reset PROVE Inv'
  <1>1. TypeOK'
    BY SlaveAssumption DEF Reset, NextGeneration, Inv, TypeOK, loopVars
  <1>2. MainInv'
    BY DEF Reset, NextGeneration, Inv, TypeOK, MainInv, NotCreated, Thread
  <1>3. \A t \in Thread : ThreadInv(t)'
    BY OtherThread DEF Reset, Inv, loopVars, Owned
  <1> QED BY <1>1, <1>2, <1>3 DEF Inv

(* A generation ends with the last cancellation, whose guard is Reset's.   *)
LEMMA AfterCancelKeepsMain ==
    ASSUME Inv, NEW s \in todo, mainPc = "cancel", AfterCancel(s),
           UNCHANGED <<list, pc>>
    PROVE  /\ mainPc' \in {"parse", "cancel"}
           /\ gen' \in 1 .. MaxGen
           /\ todo' \subseteq list
           /\ MainInv'
  <1>1. gen < MaxGen /\ gen \in 1 .. MaxGen /\ MaxGen \in Nat
    BY SlaveAssumption DEF Inv, TypeOK, MainInv
  <1>2. CASE NextGeneration
    BY <1>1, <1>2 DEF NextGeneration, Inv, TypeOK, MainInv, NotCreated, Thread
  <1>3. CASE todo' = todo \ {s} /\ UNCHANGED <<gen, mainPc>>
    BY <1>1, <1>3 DEF Inv, TypeOK, MainInv, NotCreated
  <1> QED BY <1>2, <1>3 DEF AfterCancel

(* main cancels the thread of a slave that runs.                           *)
LEMMA CancelKeepsInv == ASSUME Inv, NEW s \in Slave, Cancel(s) PROVE Inv'
  <1>1. /\ <<gen, s>> \in Thread
        /\ UNCHANGED <<list, started, pc, owner, robbed, server, refset, rdset,
                       fdmax, fd, sock>>
        /\ cancelled' = cancelled \cup {<<gen, s>>}
    BY DEF Cancel, loopVars, Inv, TypeOK, Thread
  <1>2. /\ mainPc' \in {"parse", "cancel"} /\ gen' \in 1 .. MaxGen
        /\ todo' \subseteq list /\ MainInv'
    BY <1>1, AfterCancelKeepsMain DEF Cancel
  <1>3. TypeOK'
    BY <1>1, <1>2 DEF Inv, TypeOK
  <1>4. \A t \in Thread : ThreadInv(t)'
    BY <1>1, OtherThread DEF Inv, Owned
  <1> QED BY <1>2, <1>3, <1>4 DEF Inv

(* main passes a slave whose thread was never created.                     *)
LEMMA CancelNoThreadKeepsInv ==
    ASSUME Inv, NEW s \in Slave, CancelNoThread(s) PROVE Inv'
  <1>1. UNCHANGED <<list, started, cancelled, robbed, server, refset, rdset,
                    fdmax, fd, sock>>
    BY DEF CancelNoThread, loopVars
  <1>2. CASE AfterCancel(s) /\ UNCHANGED <<pc, owner>>
    <2>1. /\ mainPc' \in {"parse", "cancel"} /\ gen' \in 1 .. MaxGen
          /\ todo' \subseteq list /\ MainInv'
      BY <1>1, <1>2, AfterCancelKeepsMain DEF CancelNoThread
    <2>2. TypeOK'
      BY <1>1, <1>2, <2>1 DEF Inv, TypeOK
    <2>3. \A t \in Thread : ThreadInv(t)'
      BY <1>1, <1>2, OtherThread DEF Inv, Owned
    <2> QED BY <2>1, <2>2, <2>3 DEF Inv
  <1>3. CASE /\ mainPc' = "crashed" /\ UNCHANGED <<gen, todo>>
             /\ pc' = [t \in Thread |-> "ended"]
             /\ owner' = [f \in Fd |-> Nobody]
    <2>1. TypeOK' /\ MainInv'
      BY <1>1, <1>3 DEF Inv, TypeOK, MainInv
    <2>2. Nobody \notin Thread
      BY SlaveAssumption DEF Thread
    <2>3. \A t \in Thread : ThreadInv(t)'
      BY <1>3, <2>2 DEF ThreadInv, OwnAt, KeepAt, PollAt, Watching, Owned
    <2> QED BY <2>1, <2>3 DEF Inv
  <1> QED BY <1>2, <1>3 DEF CancelNoThread

-----------------------------------------------------------------------------
(* A step of t moves no other thread, and takes from the others at most    *)
(* descriptors.                                                            *)
OthersKept(t) ==
    \A u \in Thread \ {t} :
        /\ pc'[u] = pc[u]
        /\ server'[u] = server[u] /\ refset'[u] = refset[u]
        /\ fdmax'[u] = fdmax[u] /\ sock'[u] = sock[u]
        /\ Owned(u)' \subseteq Owned(u)
        /\ u \notin robbed' => u \notin robbed /\ Owned(u)' = Owned(u)

(* What a step of a slave thread has to establish for the whole process.   *)
LEMMA ThreadStepKeepsInv ==
    ASSUME Inv, NEW t \in Thread, pc[t] # "none", UNCHANGED mainVars,
           OthersKept(t), TypeOK', ThreadInv(t)'
    PROVE  Inv'
  <1>1. \A u \in Thread \ {t} : ThreadInv(u)'
    BY OtherThread DEF Inv, mainVars, OthersKept
  <1>2. MainInv'
    BY DEF Inv, MainInv, NotCreated, mainVars, OthersKept
  <1> QED BY <1>1, <1>2 DEF Inv

(* A step of a slave thread, or its reaction to a cancellation, one case   *)
(* per step.                                                               *)
LEMMA ActKeepsInv ==
    ASSUME Inv, NEW t \in Thread, Step(t) \/ ActOnCancel(t)
    PROVE  Inv'
  <1> USE SlaveAssumption
  <1>0. ThreadInv(t)
    BY DEF Inv
  <1>1. CASE Access(t)
    <2>1. PICK to \in {"access", "new"} : Goto(t, "access", to)
      BY <1>1 DEF Access
    <2>2. UNCHANGED <<owner, robbed>> /\ UNCHANGED mainVars
      BY <1>1 DEF Access
    <2>3. TypeOK'
      BY <1>1, <2>1 DEF Access, Goto, mainVars, loopVars, Inv, TypeOK
    <2>4. ThreadInv(t)'
      BY <1>1, <2>1, <2>2, <1>0
      DEF Access, Goto, mainVars, loopVars, Inv, TypeOK, ThreadInv, OwnAt,
          KeepAt, PollAt, Watching, Owned, Listener
    <2>5. OthersKept(t)
      BY <1>1, <2>1, <2>2
      DEF OthersKept, Access, Goto, loopVars, Inv, TypeOK, Owned
    <2> QED
      BY <2>1, <2>2, <2>3, <2>4, <2>5, ThreadStepKeepsInv DEF Goto
  <1>2. CASE NewOk(t)
    <2>1. Goto(t, "new", "listen")
      BY <1>2 DEF NewOk
    <2>2. UNCHANGED <<owner, robbed>> /\ UNCHANGED mainVars
      BY <1>2 DEF NewOk
    <2>3. TypeOK'
      BY <1>2, <2>1 DEF NewOk, Goto, mainVars, loopVars, Inv, TypeOK
    <2>4. ThreadInv(t)'
      BY <1>2, <2>1, <2>2, <1>0
      DEF NewOk, Goto, mainVars, loopVars, Inv, TypeOK, ThreadInv, OwnAt,
          KeepAt, PollAt, Watching, Owned, Listener
    <2>5. OthersKept(t)
      BY <1>2, <2>1, <2>2
      DEF OthersKept, NewOk, Goto, loopVars, Inv, TypeOK, Owned
    <2> QED
      BY <2>1, <2>2, <2>3, <2>4, <2>5, ThreadStepKeepsInv DEF Goto
  <1>3. CASE NewFails(t)
    <2>1. Goto(t, "new", "release")
      BY <1>3 DEF NewFails
    <2>2. UNCHANGED <<owner, robbed>> /\ UNCHANGED mainVars
      BY <1>3 DEF NewFails
    <2>3. TypeOK'
      BY <1>3, <2>1 DEF NewFails, Goto, mainVars, loopVars, Inv, TypeOK
    <2>4. ThreadInv(t)'
      BY <1>3, <2>1, <2>2, <1>0
      DEF NewFails, Goto, mainVars, loopVars, Inv, TypeOK, ThreadInv, OwnAt,
          KeepAt, PollAt, Watching, Owned, Listener
    <2>5. OthersKept(t)
      BY <1>3, <2>1, <2>2
      DEF OthersKept, NewFails, Goto, loopVars, Inv, TypeOK, Owned
    <2> QED
      BY <2>1, <2>2, <2>3, <2>4, <2>5, ThreadStepKeepsInv DEF Goto
  <1>4. CASE ListenFails(t)
    <2>1. Goto(t, "listen", "listen")
      BY <1>4 DEF ListenFails
    <2>2. UNCHANGED <<owner, robbed>> /\ UNCHANGED mainVars
      BY <1>4 DEF ListenFails
    <2>3. TypeOK'
      BY <1>4, <2>1 DEF ListenFails, Goto, mainVars, loopVars, Inv, TypeOK
    <2>4. ThreadInv(t)'
      BY <1>4, <2>1, <2>2, <1>0
      DEF ListenFails, Goto, mainVars, loopVars, Inv, TypeOK, ThreadInv, OwnAt,
          KeepAt, PollAt, Watching, Owned, Listener
    <2>5. OthersKept(t)
      BY <1>4, <2>1, <2>2
      DEF OthersKept, ListenFails, Goto, loopVars, Inv, TypeOK, Owned
    <2> QED
      BY <2>1, <2>2, <2>3, <2>4, <2>5, ThreadStepKeepsInv DEF Goto
  <1>5. CASE ServeLine(t)
    <2>1. Goto(t, "serve", "serve")
      BY <1>5 DEF ServeLine
    <2>2. UNCHANGED <<owner, robbed>> /\ UNCHANGED mainVars
      BY <1>5 DEF ServeLine
    <2>3. TypeOK'
      BY <1>5, <2>1 DEF ServeLine, Goto, mainVars, loopVars, Inv, TypeOK
    <2>4. ThreadInv(t)'
      BY <1>5, <2>1, <2>2, <1>0
      DEF ServeLine, Goto, mainVars, loopVars, Inv, TypeOK, ThreadInv, OwnAt,
          KeepAt, PollAt, Watching, Owned, Listener
    <2>5. OthersKept(t)
      BY <1>5, <2>1, <2>2
      DEF OthersKept, ServeLine, Goto, loopVars, Inv, TypeOK, Owned
    <2> QED
      BY <2>1, <2>2, <2>3, <2>4, <2>5, ThreadStepKeepsInv DEF Goto
  <1>6. CASE End(t)
    <2>1. Goto(t, "close", "ended")
      BY <1>6 DEF End
    <2>2. UNCHANGED <<owner, robbed>> /\ UNCHANGED mainVars
      BY <1>6 DEF End
    <2>3. TypeOK'
      BY <1>6, <2>1 DEF End, Goto, mainVars, loopVars, Inv, TypeOK
    <2>4. ThreadInv(t)'
      BY <1>6, <2>1, <2>2, <1>0
      DEF End, Goto, mainVars, loopVars, Inv, TypeOK, ThreadInv, OwnAt,
          KeepAt, PollAt, Watching, Owned, Listener
    <2>5. OthersKept(t)
      BY <1>6, <2>1, <2>2
      DEF OthersKept, End, Goto, loopVars, Inv, TypeOK, Owned
    <2> QED
      BY <2>1, <2>2, <2>3, <2>4, <2>5, ThreadStepKeepsInv DEF Goto
  <1>7. CASE Skip(t)
    <2>1. Goto(t, "scan", "scan")
      BY <1>7 DEF Skip
    <2>2. UNCHANGED <<owner, robbed>> /\ UNCHANGED mainVars
      BY <1>7 DEF Skip
    <2>3. TypeOK'
      <3>1. fd[t] + 1 \in 0 .. MaxFd + 1
        <4>1. /\ fdmax[t] \in Fd \cup {None}
              /\ fd[t] \in 0 .. MaxFd + 1
              /\ fd[t] <= fdmax[t]
          BY <1>7 DEF Skip, Inv, TypeOK
        <4> QED BY <4>1 DEF Fd, None
      <3> QED
        BY <1>7, <2>1, <3>1 DEF Skip, NextFd, Goto, mainVars, Inv, TypeOK
    <2>4. ThreadInv(t)'
      BY <1>7, <2>1, <2>2, <1>0
      DEF Skip, NextFd, Goto, mainVars, loopVars, Inv, TypeOK, ThreadInv, OwnAt,
          KeepAt, PollAt, Watching, Owned, Listener
    <2>5. OthersKept(t)
      BY <1>7, <2>1, <2>2
      DEF OthersKept, Skip, NextFd, Goto, loopVars, Inv, TypeOK, Owned
    <2> QED
      BY <2>1, <2>2, <2>3, <2>4, <2>5, ThreadStepKeepsInv DEF Goto
  <1>8. CASE ScanEnds(t)
    <2>1. Goto(t, "scan", "select")
      BY <1>8 DEF ScanEnds
    <2>2. UNCHANGED <<owner, robbed>> /\ UNCHANGED mainVars
      BY <1>8 DEF ScanEnds
    <2>3. TypeOK'
      BY <1>8, <2>1 DEF ScanEnds, Rescan, Goto, mainVars, loopVars, Inv, TypeOK
    <2>4. ThreadInv(t)'
      BY <1>8, <2>1, <2>2, <1>0
      DEF ScanEnds, Rescan, Goto, mainVars, loopVars, Inv, TypeOK, ThreadInv, OwnAt,
          KeepAt, PollAt, Watching, Owned, Listener
    <2>5. OthersKept(t)
      BY <1>8, <2>1, <2>2
      DEF OthersKept, ScanEnds, Rescan, Goto, loopVars, Inv, TypeOK, Owned
    <2> QED
      BY <2>1, <2>2, <2>3, <2>4, <2>5, ThreadStepKeepsInv DEF Goto
  <1>9. CASE SelectOk(t)
    <2>1. Goto(t, "select", "scan")
      BY <1>9 DEF SelectOk
    <2>2. UNCHANGED <<owner, robbed>> /\ UNCHANGED mainVars
      BY <1>9 DEF SelectOk
    <2>3. TypeOK'
      BY <1>9, <2>1 DEF SelectOk, Goto, mainVars, loopVars, Inv, TypeOK
    <2>4. ThreadInv(t)'
      BY <1>9, <2>1, <2>2, <1>0
      DEF SelectOk, Goto, mainVars, loopVars, Inv, TypeOK, ThreadInv, OwnAt,
          KeepAt, PollAt, Watching, Owned, Listener
    <2>5. OthersKept(t)
      BY <1>9, <2>1, <2>2
      DEF OthersKept, SelectOk, Goto, loopVars, Inv, TypeOK, Owned
    <2> QED
      BY <2>1, <2>2, <2>3, <2>4, <2>5, ThreadStepKeepsInv DEF Goto
  <1>10. CASE AcceptFails(t)
    <2>1. Goto(t, "scan", "scan")
      BY <1>10 DEF AcceptFails
    <2>2. UNCHANGED <<owner, robbed>> /\ UNCHANGED mainVars
      BY <1>10 DEF AcceptFails
    <2>3. TypeOK'
      BY <1>10, <2>1
      DEF AcceptFails, NextFd, Readable, Goto, mainVars, loopVars, Inv, TypeOK, Fd, None
    <2>4. ThreadInv(t)'
      BY <1>10, <2>1, <2>2, <1>0
      DEF AcceptFails, NextFd, Readable, Goto, mainVars, loopVars, Inv, TypeOK, ThreadInv, OwnAt,
          KeepAt, PollAt, Watching, Owned, Listener
    <2>5. OthersKept(t)
      BY <1>10, <2>1, <2>2
      DEF OthersKept, AcceptFails, NextFd, Readable, Goto, loopVars, Inv, TypeOK, Owned
    <2> QED
      BY <2>1, <2>2, <2>3, <2>4, <2>5, ThreadStepKeepsInv DEF Goto
  <1>11. CASE ServeOk(t)
    <2>1. Goto(t, "scan", "scan")
      BY <1>11 DEF ServeOk
    <2>2. UNCHANGED <<owner, robbed>> /\ UNCHANGED mainVars
      BY <1>11 DEF ServeOk
    <2>3. TypeOK'
      BY <1>11, <2>1
      DEF ServeOk, NextFd, Readable, Goto, mainVars, loopVars, Inv, TypeOK, Fd, None
    <2>4. ThreadInv(t)'
      BY <1>11, <2>1, <2>2, <1>0
      DEF ServeOk, NextFd, Readable, Goto, mainVars, loopVars, Inv, TypeOK, ThreadInv, OwnAt,
          KeepAt, PollAt, Watching, Owned, Listener
    <2>5. OthersKept(t)
      BY <1>11, <2>1, <2>2
      DEF OthersKept, ServeOk, NextFd, Readable, Goto, loopVars, Inv, TypeOK, Owned
    <2> QED
      BY <2>1, <2>2, <2>3, <2>4, <2>5, ThreadStepKeepsInv DEF Goto
  <1>12. CASE Watch(t)
    <2>1. Goto(t, "opened", "select")
      BY <1>12 DEF Watch
    <2>2. UNCHANGED <<owner, robbed>> /\ UNCHANGED mainVars
      BY <1>12 DEF Watch
    <2>3. TypeOK'
      BY <1>12, <2>1, <1>0
      DEF Watch, Goto, mainVars, Inv, TypeOK, ThreadInv, OwnAt, Fd, None
    <2>4. ThreadInv(t)'
      BY <1>12, <2>1, <2>2, <1>0
      DEF Watch, Goto, Inv, TypeOK, ThreadInv, OwnAt, KeepAt, PollAt, Watching,
          Owned, Fd
    <2>5. OthersKept(t)
      BY <1>12, <2>1, <2>2
      DEF OthersKept, Watch, Goto, loopVars, Inv, TypeOK, Owned
    <2> QED
      BY <2>1, <2>2, <2>3, <2>4, <2>5, ThreadStepKeepsInv DEF Goto
  <1>13. CASE ActOnCancel(t)
    <2>1. Goto(t, pc[t], "release") /\ pc[t] # "none" /\ t \in cancelled
      BY <1>13 DEF ActOnCancel
    <2>2. UNCHANGED <<owner, robbed>> /\ UNCHANGED mainVars
      BY <1>13 DEF ActOnCancel
    <2>3. TypeOK'
      BY <1>13, <2>1 DEF ActOnCancel, Rescan, Goto, mainVars, loopVars, Inv, TypeOK
    <2>4. ThreadInv(t)'
      BY <1>13, <2>1, <2>2, <1>0
      DEF ActOnCancel, Rescan, Goto, mainVars, loopVars, Inv, TypeOK, ThreadInv, OwnAt,
          KeepAt, PollAt, Watching, Owned, Listener
    <2>5. OthersKept(t)
      BY <1>13, <2>1, <2>2
      DEF OthersKept, ActOnCancel, Rescan, Goto, loopVars, Inv, TypeOK, Owned
    <2> QED
      BY <2>1, <2>2, <2>3, <2>4, <2>5, ThreadStepKeepsInv DEF Goto
  <1>14. CASE Listen(t)
    <2>1. Goto(t, "listen", "opened") /\ UNCHANGED robbed /\ UNCHANGED mainVars
      BY <1>14 DEF Listen
    <2>2. PICK f \in Fd : Opens(t, f) /\ server' = [server EXCEPT ![t] = f]
      BY <1>14 DEF Listen
    <2>3. /\ owner' \in [Fd -> Thread \cup {Nobody}]
          /\ Owned(t)' = Owned(t) \cup {f}
          /\ \A u \in Thread \ {t} : Owned(u)' = Owned(u)
      BY <2>2, OpensFacts DEF Inv
    <2>4. TypeOK'
      BY <1>14, <2>1, <2>2, <2>3, <1>0 DEF Listen, Goto, mainVars, Inv, TypeOK,
         ThreadInv, OwnAt, Fd, None
    <2>5. ThreadInv(t)'
      BY <1>14, <2>1, <2>2, <2>3, <1>0
      DEF Listen, Goto, mainVars, Inv, TypeOK, ThreadInv, OwnAt, KeepAt, PollAt,
          Watching, Listener, Fd, None
    <2>6. OthersKept(t)
      BY <1>14, <2>1, <2>2, <2>3
      DEF OthersKept, Listen, Goto, Inv, TypeOK
    <2> QED
      BY <2>1, <2>2, <2>3, <2>4, <2>5, <2>6, ThreadStepKeepsInv DEF Goto
  <1>15. CASE AcceptOk(t)
    <2>1. Goto(t, "scan", "scan") /\ UNCHANGED robbed /\ UNCHANGED mainVars
      BY <1>15 DEF AcceptOk
    <2>2. PICK f \in Fd : Opens(t, f) /\ /\ refset' = [refset EXCEPT ![t] = @ \cup {f}]
                       /\ fdmax' = [fdmax EXCEPT ![t] = IF f > @ THEN f ELSE @]
      BY <1>15 DEF AcceptOk
    <2>3. /\ owner' \in [Fd -> Thread \cup {Nobody}]
          /\ Owned(t)' = Owned(t) \cup {f}
          /\ \A u \in Thread \ {t} : Owned(u)' = Owned(u)
      BY <2>2, OpensFacts DEF Inv
    <2>4. TypeOK'
      BY <1>15, <2>1, <2>2, <2>3, <1>0 DEF AcceptOk, NextFd, Readable, Goto, mainVars, Inv, TypeOK,
         ThreadInv, OwnAt, Fd, None
    <2>5. ThreadInv(t)'
      BY <1>15, <2>1, <2>2, <2>3, <1>0
      DEF AcceptOk, Goto, mainVars, Inv, TypeOK, ThreadInv, OwnAt, KeepAt, PollAt,
          Watching, Listener, Fd, None
    <2>6. OthersKept(t)
      BY <1>15, <2>1, <2>2, <2>3
      DEF OthersKept, AcceptOk, Goto, Inv, TypeOK
    <2> QED
      BY <2>1, <2>2, <2>3, <2>4, <2>5, <2>6, ThreadStepKeepsInv DEF Goto
  <1>16. CASE SelectFails(t)
    <2> DEFINE f == server[t]
    <2>1. Goto(t, "select", "release") /\ Closes(t, f) /\ UNCHANGED mainVars
      BY <1>16 DEF SelectFails
    <2>2. /\ owner' \in [Fd -> Thread \cup {Nobody}]
          /\ robbed' \subseteq Thread
          /\ Owned(t)' = Owned(t) \ {f}
          /\ t \in robbed' <=> t \in robbed
          /\ \A u \in Thread \ {t} :
                /\ Owned(u)' \subseteq Owned(u)
                /\ u \notin robbed' => u \notin robbed /\ Owned(u)' = Owned(u)
      BY <2>1, ClosesFacts DEF Inv
    <2>3. TypeOK'
      BY <1>16, <2>1, <2>2, <1>0 DEF SelectFails, Goto, mainVars, loopVars, Inv,
         TypeOK, ThreadInv, PollAt, Watching, Fd, None
    <2>4. ThreadInv(t)'
      BY <1>16, <2>1, <2>2, <1>0
      DEF SelectFails, Goto, mainVars, loopVars, Inv, TypeOK, ThreadInv, OwnAt,
          KeepAt, PollAt, Watching, Listener, Fd, None
    <2>5. OthersKept(t)
      BY <1>16, <2>1, <2>2
      DEF OthersKept, SelectFails, Goto, loopVars, Inv, TypeOK
    <2> QED
      BY <2>1, <2>2, <2>3, <2>4, <2>5, ThreadStepKeepsInv DEF Goto
  <1>17. CASE Drop(t)
    <2> DEFINE f == fd[t]
    <2>1. Goto(t, "scan", "scan") /\ Closes(t, f) /\ UNCHANGED mainVars
      BY <1>17 DEF Drop
    <2>2. /\ owner' \in [Fd -> Thread \cup {Nobody}]
          /\ robbed' \subseteq Thread
          /\ Owned(t)' = Owned(t) \ {f}
          /\ t \in robbed' <=> t \in robbed
          /\ \A u \in Thread \ {t} :
                /\ Owned(u)' \subseteq Owned(u)
                /\ u \notin robbed' => u \notin robbed /\ Owned(u)' = Owned(u)
      BY <2>1, ClosesFacts DEF Inv
    <2>3. TypeOK'
      BY <1>17, <2>1, <2>2, <1>0 DEF Drop, NextFd, Readable, Goto, mainVars, loopVars, Inv,
         TypeOK, ThreadInv, PollAt, Watching, Fd, None
    <2>4. ThreadInv(t)'
      BY <1>17, <2>1, <2>2, <1>0
      DEF Drop, NextFd, Readable, Goto, mainVars, loopVars, Inv, TypeOK, ThreadInv, OwnAt,
          KeepAt, PollAt, Watching, Listener, Fd, None
    <2>5. OthersKept(t)
      BY <1>17, <2>1, <2>2
      DEF OthersKept, Drop, Goto, loopVars, Inv, TypeOK
    <2> QED
      BY <2>1, <2>2, <2>3, <2>4, <2>5, ThreadStepKeepsInv DEF Goto
  <1>18. CASE Release(t)
    <2> DEFINE f == sock[t]
    <2>1. Goto(t, "release", "close") /\ Closes(t, f) /\ UNCHANGED mainVars
      BY <1>18 DEF Release
    <2>2. /\ owner' \in [Fd -> Thread \cup {Nobody}]
          /\ robbed' \subseteq Thread
          /\ Owned(t)' = Owned(t) \ {f}
          /\ t \in robbed' <=> t \in robbed
          /\ \A u \in Thread \ {t} :
                /\ Owned(u)' \subseteq Owned(u)
                /\ u \notin robbed' => u \notin robbed /\ Owned(u)' = Owned(u)
      BY <2>1, ClosesFacts DEF Inv
    <2>3. TypeOK'
      BY <1>18, <2>1, <2>2, <1>0 DEF Release, Goto, mainVars, loopVars, Inv,
         TypeOK, ThreadInv, PollAt, Watching, Fd, None
    <2>4. ThreadInv(t)'
      BY <1>18, <2>1, <2>2, <1>0
      DEF Release, Goto, mainVars, loopVars, Inv, TypeOK, ThreadInv, OwnAt,
          KeepAt, PollAt, Watching, Listener, Fd, None
    <2>5. OthersKept(t)
      BY <1>18, <2>1, <2>2
      DEF OthersKept, Release, Goto, loopVars, Inv, TypeOK
    <2> QED
      BY <2>1, <2>2, <2>3, <2>4, <2>5, ThreadStepKeepsInv DEF Goto
  <1>19. CASE CloseNext(t)
    <2> DEFINE f == Min(refset[t])
    <2>1. Goto(t, "close", "close") /\ Closes(t, f) /\ UNCHANGED mainVars
      BY <1>19 DEF CloseNext
    <2>2. /\ owner' \in [Fd -> Thread \cup {Nobody}]
          /\ robbed' \subseteq Thread
          /\ Owned(t)' = Owned(t) \ {f}
          /\ t \in robbed' <=> t \in robbed
          /\ \A u \in Thread \ {t} :
                /\ Owned(u)' \subseteq Owned(u)
                /\ u \notin robbed' => u \notin robbed /\ Owned(u)' = Owned(u)
      BY <2>1, ClosesFacts DEF Inv
    <2>3. TypeOK'
      BY <1>19, <2>1, <2>2, <1>0 DEF CloseNext, Goto, mainVars, loopVars, Inv,
         TypeOK, ThreadInv, PollAt, Watching, Fd, None
    <2>4. ThreadInv(t)'
      BY <1>19, <2>1, <2>2, <1>0
      DEF CloseNext, Goto, mainVars, loopVars, Inv, TypeOK, ThreadInv, OwnAt,
          KeepAt, PollAt, Watching, Listener, Fd, None
    <2>5. OthersKept(t)
      BY <1>19, <2>1, <2>2
      DEF OthersKept, CloseNext, Goto, loopVars, Inv, TypeOK
    <2> QED
      BY <2>1, <2>2, <2>3, <2>4, <2>5, ThreadStepKeepsInv DEF Goto
  <1>20. CASE OpenLine(t)
    <2>1. PICK to \in {"serve", "release"} : Goto(t, "listen", to)
      BY <1>20 DEF OpenLine
    <2>2. UNCHANGED <<server, refset, rdset, fdmax, fd, robbed>> /\ UNCHANGED mainVars
      BY <1>20 DEF OpenLine
    <2>3. CASE \E f \in Fd : Opens(t, f) /\ sock' = [sock EXCEPT ![t] = f]
                            /\ Goto(t, "listen", "serve")
      <3>1. PICK f \in Fd : Opens(t, f) /\ sock' = [sock EXCEPT ![t] = f]
                            /\ Goto(t, "listen", "serve")
        BY <2>3
      <3>2. /\ owner' \in [Fd -> Thread \cup {Nobody}]
            /\ Owned(t)' = Owned(t) \cup {f}
            /\ \A u \in Thread \ {t} : Owned(u)' = Owned(u)
        BY <3>1, OpensFacts DEF Inv
      <3>3. TypeOK'
        BY <2>2, <3>1, <3>2 DEF Goto, mainVars, Inv, TypeOK
      <3>4. ThreadInv(t)'
        BY <2>2, <3>1, <3>2, <1>0
        DEF Goto, Inv, TypeOK, ThreadInv, OwnAt, KeepAt, PollAt, Watching
      <3>5. OthersKept(t)
        BY <2>2, <3>1, <3>2 DEF OthersKept, Goto, Inv, TypeOK
      <3> QED
        BY <2>2, <3>1, <3>2, <3>3, <3>4, <3>5, ThreadStepKeepsInv DEF Goto
    <2>4. CASE Goto(t, "listen", "release") /\ UNCHANGED <<owner, sock>>
      <3>1. TypeOK'
        BY <2>2, <2>4 DEF Goto, mainVars, Inv, TypeOK
      <3>2. ThreadInv(t)'
        BY <2>2, <2>4, <1>0
        DEF Goto, Inv, TypeOK, ThreadInv, OwnAt, KeepAt, PollAt, Watching, Owned
      <3>3. OthersKept(t)
        BY <2>2, <2>4 DEF OthersKept, Goto, Inv, TypeOK, Owned
      <3> QED
        BY <2>2, <2>4, <3>1, <3>2, <3>3, ThreadStepKeepsInv DEF Goto
    <2> QED BY <1>20, <2>3, <2>4 DEF OpenLine
  <1> QED
    BY <1>1, <1>2, <1>3, <1>4, <1>5, <1>6, <1>7, <1>8, <1>9, <1>10,
       <1>11, <1>12, <1>13, <1>14, <1>15, <1>16, <1>17, <1>18, <1>19, <1>20
    DEF Step
-----------------------------------------------------------------------------
(* Inv is inductive.                                                       *)
LEMMA NextKeepsInv == Inv /\ [Next]_vars => Inv'
  <1> SUFFICES ASSUME Inv, [Next]_vars PROVE Inv'
    OBVIOUS
  <1>1. CASE UNCHANGED vars
    <2>1. TypeOK' /\ MainInv'
      BY <1>1
      DEF vars, mainVars, loopVars, Inv, TypeOK, MainInv, NotCreated
    <2>2. \A t \in Thread : ThreadInv(t)'
      BY <1>1, OtherThread DEF vars, mainVars, loopVars, Inv, Owned
    <2> QED BY <2>1, <2>2 DEF Inv
  <1> QED
    BY <1>1, ParseKeepsInv, CreateKeepsInv, CancelKeepsInv,
       CancelNoThreadKeepsInv, ResetKeepsInv, ActKeepsInv
    DEF Next

(* Any number of generations of slaves keep the inductive invariant,       *)
(* although they take descriptors from each other.                         *)
THEOREM SlaveProcessInvariant == Spec => []Inv
  BY InitInv, NextKeepsInv, PTL DEF Spec

(* The loop over the sockets stays among the descriptors select can watch  *)
(* (mb_tcp_slave_thread).                                                  *)
THEOREM SlaveProcessTypeCorrect == Spec => []TypeOK
  <1>1. Inv => TypeOK
    BY DEF Inv
  <1> QED BY <1>1, SlaveProcessInvariant, PTL

(* No watched socket is above fdmax, however masters come and go, so that  *)
(* every one is served (the updates of fdmax in mb_tcp_slave_thread).      *)
THEOREM NoSocketForgotten == Spec => []EverySocketPolled
  <1>1. Inv => EverySocketPolled
    BY DEF Inv, ThreadInv, PollAt, EverySocketPolled
  <1> QED BY <1>1, SlaveProcessInvariant, PTL

(* A TCP slave watches exactly the sockets it has opened, until another    *)
(* thread closes one of them (the selects of mb_tcp_slave_thread).         *)
THEOREM WatchedIsOwned == Spec => []WatchesItsOwnSockets
  <1>1. Inv => WatchesItsOwnSockets
    BY DEF Inv, ThreadInv, OwnAt, KeepAt, WatchesItsOwnSockets, Owned
  <1> QED BY <1>1, SlaveProcessInvariant, PTL

(* A thread leaves no descriptor open but the listening socket it was      *)
(* cancelled before watching (the cleanup handlers of both threads).       *)
THEOREM NothingElseLeaks == Spec => []OnlyListenerLeaks
  <1>1. Inv => OnlyListenerLeaks
    BY DEF Inv, ThreadInv, OwnAt, OnlyListenerLeaks, Owned, Listener
  <1> QED BY <1>1, SlaveProcessInvariant, PTL
=============================================================================

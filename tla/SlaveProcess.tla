---------------------------- MODULE SlaveProcess ----------------------------
(***************************************************************************)
(* The process piModbusSlave: main starts one thread per configured slave, *)
(* cancels them all at a reset of the piControl driver and starts over     *)
(* without waiting for them.  A TCP slave serves its masters from one      *)
(* select loop.  File descriptors belong to the process: a number that one *)
(* thread closes is the next one another thread gets.                      *)
(*                                                                         *)
(* What the masters send and when is left open, and so is what a request   *)
(* does to the process image.                                              *)
(***************************************************************************)
EXTENDS Integers, FiniteSets, FiniteSetsExt

CONSTANTS Slave,        \* the slaves config.rsc can name
          Tcp,          \* those of them with protocol TCP
          Configs,      \* what a parse can yield: sets of slaves
          MaxGen,       \* bound: the number of generations
          MaxFd,        \* the largest file descriptor the process can have
          InitFails,    \* whether a thread's set-up or its select can fail
          CreateFails,  \* whether pthread_create can fail
          Nobody        \* the owner of a free file descriptor

ASSUME SlaveAssumption ==
    /\ Tcp \subseteq Slave /\ Configs \subseteq SUBSET Slave
    /\ MaxGen \in Nat \ {0} /\ MaxFd \in Nat
    /\ {InitFails, CreateFails} \subseteq BOOLEAN
    /\ Nobody \notin (1 .. MaxGen) \X Slave

Thread == (1 .. MaxGen) \X Slave
Fd == 0 .. MaxFd
None == -1              \* ctx->s or server_socket without a socket

VARIABLES
    mainPc,     \* where main is in its loop
    gen,        \* the current generation
    list,       \* mbSlaveConfHead
    todo,       \* the slaves main has still to create or cancel
    started,    \* threads pthread_create has started
    cancelled,  \* the handles pthread_cancel has been called with
    pc,         \* where each thread is
    owner,      \* the open file descriptors and who opened them
    server,     \* server_socket, or the serial line of an RTU slave
    refset,     \* the sockets a TCP slave watches
    rdset,      \* those of them select found readable
    fdmax,      \* the largest one it watches
    fd,         \* master_socket of the for loop
    sock,       \* the socket modbus_close would close: ctx->s of libmodbus
    robbed      \* auxiliary: threads one of whose descriptors another closed

mainVars == <<mainPc, gen, list, todo, started, cancelled>>
loopVars == <<server, refset, rdset, fdmax, fd, sock>>
vars == <<mainVars, pc, owner, loopVars, robbed>>

IsTcp(t) == t[2] \in Tcp

TypeOK ==
    /\ mainPc \in {"parse", "create", "wait", "cancel", "crashed"}
    /\ gen \in 1 .. MaxGen
    /\ list \in Configs \cup {{}}
    /\ todo \subseteq list
    /\ started \subseteq Thread
    /\ cancelled \subseteq Thread
    /\ pc \in [Thread -> {"none", "access", "new", "listen", "opened", "select",
                          "scan", "serve", "release", "close", "ended"}]
    /\ owner \in [Fd -> Thread \cup {Nobody}]
    /\ server \in [Thread -> Fd \cup {None}]
    /\ refset \in [Thread -> SUBSET Fd]
    /\ rdset \in [Thread -> SUBSET Fd]
    /\ fdmax \in [Thread -> Fd \cup {None}]
    /\ fd \in [Thread -> 0 .. MaxFd + 1]
    /\ sock \in [Thread -> Fd \cup {None}]
    /\ robbed \subseteq Thread

Init ==
    /\ mainPc = "parse" /\ gen = 1 /\ list = {} /\ todo = {}
    /\ started = {} /\ cancelled = {} /\ robbed = {}
    /\ pc = [t \in Thread |-> "none"]
    /\ owner = [f \in Fd |-> Nobody]
    /\ server = [t \in Thread |-> None]
    /\ refset = [t \in Thread |-> {}]
    /\ rdset = [t \in Thread |-> {}]
    /\ fdmax = [t \in Thread |-> None]
    /\ fd = [t \in Thread |-> 0]
    /\ sock = [t \in Thread |-> None]
-----------------------------------------------------------------------------
(* main                                                                    *)

Parse(l) ==
    /\ mainPc = "parse"
    /\ list' = l /\ todo' = l
    /\ mainPc' = IF l = {} THEN "wait" ELSE "create"
    /\ UNCHANGED <<gen, started, cancelled, pc, owner, loopVars, robbed>>

Advance(s, next) ==
    /\ todo' = todo \ {s}
    /\ mainPc' = IF todo = {s} THEN next ELSE mainPc

(* pthread_create for a slave of the list; on failure its entry becomes 0. *)
Create(s) ==
    /\ mainPc = "create" /\ s \in todo
    /\ LET t == <<gen, s>>
       IN  \/ /\ started' = started \cup {t}
              /\ pc' = [pc EXCEPT ![t] = IF IsTcp(t) THEN "new" ELSE "access"]
           \/ CreateFails /\ UNCHANGED <<started, pc>>
    /\ Advance(s, "wait")
    /\ UNCHANGED <<gen, list, cancelled, owner, loopVars, robbed>>

(* The configuration is freed and the next generation begins.              *)
NextGeneration == mainPc' = "parse" /\ gen' = gen + 1 /\ todo' = {}

(* piControlWaitForEvent returns KB_EVENT_RESET.                           *)
Reset ==
    /\ mainPc = "wait" /\ gen < MaxGen
    /\ \/ list = {} /\ NextGeneration
       \/ list # {} /\ mainPc' = "cancel" /\ todo' = list /\ UNCHANGED gen
    /\ UNCHANGED <<list, started, cancelled, pc, owner, loopVars, robbed>>

AfterCancel(s) ==
    \/ todo = {s} /\ NextGeneration
    \/ todo # {s} /\ todo' = todo \ {s} /\ UNCHANGED <<gen, mainPc>>

(* pthread_cancel of the entry, whose thread may have ended already.       *)
Cancel(s) ==
    /\ mainPc = "cancel" /\ s \in todo
    /\ <<gen, s>> \in started
    /\ cancelled' = cancelled \cup {<<gen, s>>}
    /\ AfterCancel(s)
    /\ UNCHANGED <<list, started, pc, owner, loopVars, robbed>>

(* pthread_cancel of an entry that is 0 is undefined: nothing happens, or  *)
(* the process dies with all its threads and descriptors.                  *)
CancelNoThread(s) ==
    /\ mainPc = "cancel" /\ s \in todo
    /\ <<gen, s>> \notin started
    /\ \/ AfterCancel(s) /\ UNCHANGED <<pc, owner>>
       \/ /\ mainPc' = "crashed"
          /\ pc' = [t \in Thread |-> "ended"]
          /\ owner' = [f \in Fd |-> Nobody]
          /\ UNCHANGED <<gen, todo>>
    /\ UNCHANGED <<list, started, cancelled, loopVars, robbed>>
-----------------------------------------------------------------------------
(* The threads                                                             *)

Goto(t, from, to) == pc[t] = from /\ pc' = [pc EXCEPT ![t] = to]

(* The kernel hands out the lowest free number.                            *)
FreeFds == {f \in Fd : owner[f] = Nobody}
IsOpen(f) == owner[f] # Nobody
Opens(t, f) ==
    /\ FreeFds # {} /\ f = Min(FreeFds)
    /\ owner' = [owner EXCEPT ![f] = t]

(* close: it takes whatever has that number by now.                        *)
Closes(t, f) ==
    /\ owner' = IF f \in Fd THEN [owner EXCEPT ![f] = Nobody] ELSE owner
    /\ robbed' = IF f \in Fd /\ owner[f] \notin {t, Nobody}
                 THEN robbed \cup {owner[f]} ELSE robbed

(* RTU: access() of the serial device, repeated every second.              *)
Access(t) ==
    /\ \E to \in {"access", "new"} : Goto(t, "access", to)
    /\ UNCHANGED <<mainVars, owner, loopVars, robbed>>

(* modbus_mapping_new and the context; a failure runs the handler.         *)
NewOk(t) ==
    /\ Goto(t, "new", "listen")
    /\ UNCHANGED <<mainVars, owner, loopVars, robbed>>

NewFails(t) ==
    /\ InitFails
    /\ Goto(t, "new", "release")
    /\ UNCHANGED <<mainVars, owner, loopVars, robbed>>

(* TCP: modbus_tcp_pi_listen.  Two sockets cannot listen on the slave's    *)
(* port, whichever generation they are of.                                 *)
PortInUse(t) ==
    \E u \in Thread : u[2] = t[2] /\ server[u] # None /\ owner[server[u]] = u

Listen(t) ==
    /\ IsTcp(t)
    /\ Goto(t, "listen", "opened")
    /\ ~PortInUse(t)
    /\ \E f \in Fd : Opens(t, f) /\ server' = [server EXCEPT ![t] = f]
    /\ UNCHANGED <<mainVars, refset, rdset, fdmax, fd, sock, robbed>>

(* After a line for the log, FD_SET of the socket.                         *)
Watch(t) ==
    /\ Goto(t, "opened", "select")
    /\ refset' = [refset EXCEPT ![t] = {server[t]}]
    /\ fdmax' = [fdmax EXCEPT ![t] = server[t]]
    /\ UNCHANGED <<mainVars, owner, server, rdset, fd, sock, robbed>>

(* TCP: it fails, the thread sleeps for 5 seconds and tries again.         *)
ListenFails(t) ==
    /\ IsTcp(t)
    /\ Goto(t, "listen", "listen")
    /\ UNCHANGED <<mainVars, owner, loopVars, robbed>>

(* RTU: modbus_set_slave and modbus_connect; a failure runs the handler.   *)
OpenLine(t) ==
    /\ ~IsTcp(t)
    /\ \/ /\ Goto(t, "listen", "serve")
          /\ \E f \in Fd : Opens(t, f) /\ sock' = [sock EXCEPT ![t] = f]
       \/ /\ InitFails \/ FreeFds = {}
          /\ Goto(t, "listen", "release")
          /\ UNCHANGED <<owner, sock>>
    /\ UNCHANGED <<mainVars, server, refset, rdset, fdmax, fd, robbed>>

(* RTU: process_modbus_request again and again, whatever it returns.       *)
ServeLine(t) ==
    /\ ~IsTcp(t)
    /\ Goto(t, "serve", "serve")
    /\ UNCHANGED <<mainVars, owner, loopVars, robbed>>

Rescan(t) == rdset' = [rdset EXCEPT ![t] = {}] /\ fd' = [fd EXCEPT ![t] = 0]

(* TCP: select returns with some sockets readable.                         *)
SelectOk(t) ==
    /\ Goto(t, "select", "scan")
    /\ \A f \in refset[t] : IsOpen(f)
    /\ \E r \in SUBSET refset[t] \ {{}} : rdset' = [rdset EXCEPT ![t] = r]
    /\ UNCHANGED <<mainVars, owner, server, refset, fdmax, fd, sock, robbed>>

(* TCP: select fails, as it does if a watched descriptor is not open:      *)
(* server_socket is closed, the handler follows.                           *)
SelectFails(t) ==
    /\ InitFails \/ \E f \in refset[t] : ~IsOpen(f)
    /\ Goto(t, "select", "release")
    /\ Closes(t, server[t])
    /\ UNCHANGED <<mainVars, loopVars>>

(* The for loop passes over sockets that are not readable.                 *)
NextFd(t) == fd' = [fd EXCEPT ![t] = @ + 1]

Fault_Skip_unbounded(t) ==
    /\ Goto(t, "scan", "scan")
    /\ fd[t] \notin rdset[t]
    /\ NextFd(t)
    /\ UNCHANGED <<mainVars, owner, server, refset, rdset, fdmax, sock, robbed>>

Skip(t) ==
    /\ Goto(t, "scan", "scan")
    /\ fd[t] <= fdmax[t] /\ fd[t] \notin rdset[t]
    /\ NextFd(t)
    /\ UNCHANGED <<mainVars, owner, server, refset, rdset, fdmax, sock, robbed>>

(* The loop is over, rdset and master_socket are set anew.                 *)
ScanEnds(t) ==
    /\ Goto(t, "scan", "select")
    /\ fd[t] > fdmax[t]
    /\ Rescan(t)
    /\ UNCHANGED <<mainVars, owner, server, refset, fdmax, sock, robbed>>

Readable(t) == fd[t] <= fdmax[t] /\ fd[t] \in rdset[t]

Fault_AcceptOk_maxForgotten(t) ==
    /\ Goto(t, "scan", "scan")
    /\ Readable(t) /\ fd[t] = server[t] /\ IsOpen(fd[t])
    /\ \E f \in Fd : Opens(t, f) /\ refset' = [refset EXCEPT ![t] = @ \cup {f}]
    /\ NextFd(t)
    /\ UNCHANGED <<mainVars, server, rdset, fdmax, sock, robbed>>

(* A master connects.  rdset is not extended: its request has to wait for  *)
(* the next select.                                                        *)
AcceptOk(t) ==
    /\ Goto(t, "scan", "scan")
    /\ Readable(t) /\ fd[t] = server[t] /\ IsOpen(fd[t])
    /\ \E f \in Fd :
          /\ Opens(t, f)
          /\ refset' = [refset EXCEPT ![t] = @ \cup {f}]
          /\ fdmax' = [fdmax EXCEPT ![t] = IF f > @ THEN f ELSE @]
    /\ NextFd(t)
    /\ UNCHANGED <<mainVars, server, rdset, sock, robbed>>

AcceptFails(t) ==
    /\ Goto(t, "scan", "scan")
    /\ Readable(t) /\ fd[t] = server[t]
    /\ NextFd(t)
    /\ UNCHANGED <<mainVars, owner, server, refset, rdset, fdmax, sock, robbed>>

(* modbus_set_socket, and a request that is answered.                      *)
ServeOk(t) ==
    /\ Goto(t, "scan", "scan")
    /\ Readable(t) /\ fd[t] # server[t] /\ IsOpen(fd[t])
    /\ sock' = [sock EXCEPT ![t] = fd[t]]
    /\ NextFd(t)
    /\ UNCHANGED <<mainVars, owner, server, refset, rdset, fdmax, robbed>>

Fault_Drop_keepsBit(t) ==
    /\ Goto(t, "scan", "scan")
    /\ Readable(t) /\ fd[t] # server[t]
    /\ sock' = [sock EXCEPT ![t] = fd[t]]
    /\ Closes(t, fd[t])
    /\ NextFd(t)
    /\ UNCHANGED <<mainVars, server, refset, rdset, fdmax>>

Fault_Drop_staysOpen(t) ==
    /\ Goto(t, "scan", "scan")
    /\ Readable(t) /\ fd[t] # server[t]
    /\ sock' = [sock EXCEPT ![t] = fd[t]]
    /\ refset' = [refset EXCEPT ![t] = @ \ {fd[t]}]
    /\ fdmax' = [fdmax EXCEPT ![t] = IF fd[t] = @ THEN @ - 1 ELSE @]
    /\ NextFd(t)
    /\ UNCHANGED <<mainVars, owner, server, rdset, robbed>>

(* modbus_set_socket, and a request that cannot be received or answered:   *)
(* the socket is closed and no longer watched, and fdmax shrinks by one    *)
(* if it was the largest.  The context keeps the closed socket's number.   *)
Drop(t) ==
    /\ Goto(t, "scan", "scan")
    /\ Readable(t) /\ fd[t] # server[t]
    /\ sock' = [sock EXCEPT ![t] = fd[t]]
    /\ Closes(t, fd[t])
    /\ refset' = [refset EXCEPT ![t] = @ \ {fd[t]}]
    /\ fdmax' = [fdmax EXCEPT ![t] = IF fd[t] = @ THEN @ - 1 ELSE @]
    /\ NextFd(t)
    /\ UNCHANGED <<mainVars, server, rdset>>

(* A pending cancellation takes effect: every blocking call of the threads *)
(* is a cancellation point.                                                *)
ActOnCancel(t) ==
    /\ t \in cancelled
    /\ pc[t] \in {"access", "new", "listen", "opened", "select", "scan", "serve"}
    /\ Goto(t, pc[t], "release")
    /\ Rescan(t)
    /\ UNCHANGED <<mainVars, owner, server, refset, fdmax, sock, robbed>>

(* The cleanup handler: modbus_close and modbus_free of the context.       *)
Release(t) ==
    /\ Goto(t, "release", "close")
    /\ Closes(t, sock[t])
    /\ sock' = [sock EXCEPT ![t] = None]
    /\ UNCHANGED <<mainVars, server, refset, rdset, fdmax, fd>>

(* The handler of a TCP slave closes the sockets of refset in turn.        *)
CloseNext(t) ==
    /\ refset[t] # {}
    /\ Goto(t, "close", "close")
    /\ Closes(t, Min(refset[t]))
    /\ refset' = [refset EXCEPT ![t] = @ \ {Min(@)}]
    /\ UNCHANGED <<mainVars, server, rdset, fdmax, fd, sock>>

End(t) ==
    /\ refset[t] = {}
    /\ Goto(t, "close", "ended")
    /\ UNCHANGED <<mainVars, owner, loopVars, robbed>>

Step(t) ==
    \/ Access(t) \/ NewOk(t) \/ NewFails(t)
    \/ Listen(t) \/ Watch(t) \/ ListenFails(t) \/ OpenLine(t) \/ ServeLine(t)
    \/ SelectOk(t) \/ SelectFails(t)
    \/ Skip(t) \/ ScanEnds(t)
    \/ AcceptOk(t) \/ AcceptFails(t) \/ ServeOk(t) \/ Drop(t)
    \/ Release(t) \/ CloseNext(t) \/ End(t)

Next ==
    \/ \E l \in Configs : Parse(l)
    \/ \E s \in Slave : Create(s) \/ Cancel(s) \/ CancelNoThread(s)
    \/ Reset
    \/ \E t \in Thread : Step(t) \/ ActOnCancel(t)

Spec == Init /\ [][Next]_vars
-----------------------------------------------------------------------------
Watching(t) == pc[t] \in {"select", "scan"}

(* select and the loop after it reach every master: no watched socket is   *)
(* above fdmax, however connections come and go, and the server socket is  *)
(* always watched.                                                         *)
EverySocketPolled ==
    \A t \in Thread : Watching(t) =>
        /\ server[t] \in refset[t]
        /\ \A f \in refset[t] : f <= fdmax[t]

(* What a TCP slave watches is open and its own: select never meets a      *)
(* closed number, on which it would fail and end the slave, and no other   *)
(* slave's master is answered.  An open socket is watched, too.  A slave   *)
(* one of whose descriptors another thread has closed has lost this.       *)
WatchesItsOwnSockets ==
    \A t \in Thread : Watching(t) /\ t \notin robbed =>
        refset[t] = {f \in Fd : owner[f] = t}

(* A thread that has ended holds no descriptor any more, in whatever state *)
(* it was interrupted: "close socket".  The one exception is the listening *)
(* socket of a thread that was cancelled before it was watched.            *)
OnlyListenerLeaks ==
    \A t \in Thread : pc[t] = "ended" =>
        \A f \in Fd : owner[f] = t => t \in cancelled /\ f = server[t]
=============================================================================

------------------------------ MODULE QemuPorts -----------------------------
(***************************************************************************)
(* The port of the host that a virtual machine of qemu forwards to its     *)
(* ssh: servers of the qemu backend, started at the same time, each look   *)
(* for a free one with find_free_port(), and qemu binds it later.          *)
(*                                                                         *)
(* No name here is one of QemuAuxverb, the other part of the backend.      *)
(***************************************************************************)
EXTENDS Naturals

CONSTANTS
    Servers,   \* processes of autopkgtest-virt-qemu
    LastPort,  \* the range is 1 .. LastPort
    Others     \* ports that other programs listen on

ASSUME PortsAssumption == LastPort \in Nat /\ Others \subseteq 1 .. LastPort

Ports == 1 .. LastPort

VARIABLES
    at,      \* of a server: "try", "made", "connect", "chosen", "up", "failed",
             \* "closed", "killed"
    port,    \* the port it looks at, or has chosen; 0 if there is none
    lock,    \* ports whose lock file exists
    bound,   \* ports that some qemu listens on
    erred    \* history: ports at which a search has met an error of the machine

portVars == <<at, port, lock, bound, erred>>

Searching(s) == at[s] \in {"try", "made", "connect"}

PortsOK ==
    /\ at \in [Servers -> {"try", "made", "connect", "chosen", "up", "failed", "closed",
                           "killed"}]
    /\ port \in [Servers -> 0 .. LastPort + 1]
    /\ lock \subseteq Ports /\ bound \subseteq Ports /\ erred \subseteq Ports
    /\ \A s \in Servers : at[s] \in {"made", "connect"} => port[s] \in Ports

PortsInit ==
    /\ at = [s \in Servers |-> "try"] /\ port = [s \in Servers |-> 1]
    /\ lock = {} /\ bound = {} /\ erred = {}
-----------------------------------------------------------------------------
\* open() with 'x' makes the file, or fails if it exists.
MakeLock(s) ==
    /\ at[s] = "try" /\ port[s] \in Ports \ lock
    /\ lock' = lock \cup {port[s]} /\ at' = [at EXCEPT ![s] = "made"]
    /\ UNCHANGED <<port, bound, erred>>

Locked(s) ==
    /\ at[s] = "try" /\ port[s] \in lock
    /\ port' = [port EXCEPT ![s] = @ + 1]
    /\ UNCHANGED <<at, lock, bound, erred>>

\* unlink(), flock() of a file that nobody else can open any more, close().
Unlink(s) ==
    /\ at[s] = "made"
    /\ lock' = lock \ {port[s]} /\ at' = [at EXCEPT ![s] = "connect"]
    /\ UNCHANGED <<port, bound, erred>>

\* Mutant of Taken: the same port again.
TakenAgain(s) ==
    /\ at[s] = "connect" /\ port[s] \in bound \cup Others
    /\ at' = [at EXCEPT ![s] = "try"]
    /\ UNCHANGED <<port, lock, bound, erred>>

Taken(s) ==
    /\ at[s] = "connect" /\ port[s] \in bound \cup Others
    /\ at' = [at EXCEPT ![s] = "try"] /\ port' = [port EXCEPT ![s] = @ + 1]
    /\ UNCHANGED <<lock, bound, erred>>

\* ECONNREFUSED
Free(s) ==
    /\ at[s] = "connect" /\ port[s] \notin bound \cup Others
    /\ at' = [at EXCEPT ![s] = "chosen"]
    /\ UNCHANGED <<port, lock, bound, erred>>

\* open() cannot make the file for another reason, flock() fails, or the socket
\* with another errno: each of them is passed over with the port.
Errs(s) ==
    /\ Searching(s) /\ port[s] \in Ports
    /\ at' = [at EXCEPT ![s] = "try"] /\ port' = [port EXCEPT ![s] = @ + 1]
    /\ lock' = IF at[s] = "made" THEN lock \ {port[s]} ELSE lock
    /\ erred' = erred \cup {port[s]}
    /\ UNCHANGED bound

\* Mutant of AllTaken: port 0 as it starts with the last one.
AllTakenEarly(s) ==
    /\ at[s] = "try" /\ port[s] >= LastPort
    /\ at' = [at EXCEPT ![s] = "chosen"] /\ port' = [port EXCEPT ![s] = 0]
    /\ UNCHANGED <<lock, bound, erred>>

AllTaken(s) ==
    /\ at[s] = "try" /\ port[s] = LastPort + 1
    /\ at' = [at EXCEPT ![s] = "chosen"] /\ port' = [port EXCEPT ![s] = 0]
    /\ UNCHANGED <<lock, bound, erred>>

\* qemu starts, without forwarding if there is no port, or ends at once because
\* it cannot bind the port, which the server finds out as there is no console.
Launch(s) ==
    /\ at[s] = "chosen"
    /\ IF port[s] \in bound \cup Others
       THEN at' = [at EXCEPT ![s] = "failed"] /\ UNCHANGED bound
       ELSE at' = [at EXCEPT ![s] = "up"] /\ bound' = bound \cup ({port[s]} \cap Ports)
    /\ UNCHANGED <<port, lock, erred>>

\* cleanup()
Close(s) ==
    /\ at[s] = "up" /\ at' = [at EXCEPT ![s] = "closed"]
    /\ bound' = bound \ {port[s]}
    /\ UNCHANGED <<port, lock, erred>>

\* SIGKILL
KillServer(s) ==
    /\ Searching(s) /\ at' = [at EXCEPT ![s] = "killed"]
    /\ UNCHANGED <<port, lock, bound, erred>>

Search(s) ==
    MakeLock(s) \/ Locked(s) \/ Unlink(s) \/ Taken(s) \/ Free(s) \/ AllTaken(s)
    \/ Errs(s)

PortsNext == \E s \in Servers : Search(s) \/ Launch(s) \/ Close(s) \/ KillServer(s)

PortsSpec == PortsInit /\ [][PortsNext]_portVars

\* A process that is not killed goes on.
FairPortsSpec == PortsSpec /\ \A s \in Servers : WF_portVars(Search(s))
-----------------------------------------------------------------------------
(* Properties.                                                             *)

\* A server gets no port only if there was none for it: every one of the range
\* is used by another program, is or was the choice of another server, has a lock
\* file that a server left when it was killed, or is one at which a search has met
\* an error of the machine.
NoneWasted ==
    \A s \in Servers : at[s] \in {"chosen", "up"} /\ port[s] = 0 =>
        \A p \in Ports :
            \/ p \in Others \cup erred
            \/ \E t \in Servers : at[t] \in {"made", "connect", "chosen", "up", "failed",
                                             "closed", "killed"} /\ port[t] = p

\* No lock file stays but those of servers that were killed.
LocksGo ==
    \A p \in lock : \E s \in Servers : at[s] \in {"made", "killed"} /\ port[s] = p

\* What a search leaves is what it should.
SearchRight == PortsOK /\ NoneWasted /\ LocksGo

\* find_free_port() returns, however many servers compete for the ports.
SearchEnds == \A s \in Servers : Searching(s) ~> ~Searching(s)
-----------------------------------------------------------------------------
(* What the documentation says and the code does not do.                   *)

\* find_free_port() finds an unused port: qemu can bind it.
PortIsFree == \A s \in Servers : at[s] # "failed"
=============================================================================

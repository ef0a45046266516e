----------------------------- MODULE NbdProcess -----------------------------
(***************************************************************************)
(* The child processes of one mount point and the block device they serve: *)
(* ::Process and NBDDevice of src/system.hpp, and the kernel's NBD driver  *)
(* as those classes rely on it.                                            *)
(*                                                                         *)
(* Every ::Process runs two coroutines on the io_context.  The reader      *)
(* (spawn) drains the child's output, waits up to two seconds for it,      *)
(* kills it if need be and reports the exit.  The stopper (stop)           *)
(* disconnects the device, waits up to two seconds and kills the child,    *)
(* reporting that as well.  Both reports reach the state machine as the    *)
(* same, anonymous, SubprocessStoppedEvent.                                *)
(***************************************************************************)
EXTENDS Naturals, FiniteSets

CONSTANTS
    Procs,      \* bound: ::Process objects alive at the same time
    None

ASSUME NoneAssumption == None \notin Procs

VARIABLES
    child,      \* [Procs -> ...]: the operating-system process
    reader,     \* [Procs -> ...]: the coroutine of Process::spawn
    stopper,    \* [Procs -> BOOLEAN]: the coroutine of Process::stop runs
    posted,     \* [Procs -> BOOLEAN]: onTerminate's event is queued
    device,     \* the child whose connection gives the device its size
    hangup,     \* NBD_DISCONNECT was issued on that connection
    uevent      \* a "change" uevent waits in the monitor's socket

procVars == <<child, reader, stopper, posted, device, hangup, uevent>>

ChildStates  == {"none", "started", "connected", "released", "exited"}
ReaderStates == {"none", "reading", "draining"}

Running(p) == child[p] \in {"started", "connected", "released"}

ProcTypeOK ==
    /\ child \in [Procs -> ChildStates]
    /\ reader \in [Procs -> ReaderStates]
    /\ stopper \in [Procs -> BOOLEAN]
    /\ posted \in [Procs -> BOOLEAN]
    /\ device \in Procs \cup {None}
    /\ hangup \in BOOLEAN
    /\ uevent \in BOOLEAN

ProcInit ==
    /\ child = [p \in Procs |-> "none"]
    /\ reader = [p \in Procs |-> "none"]
    /\ stopper = [p \in Procs |-> FALSE]
    /\ posted = [p \in Procs |-> FALSE]
    /\ device = None
    /\ hangup = FALSE
    /\ uevent = FALSE

(* p names no ::Process object: nothing of an earlier one is left.         *)
Unused(p) ==
    /\ ~Running(p)
    /\ reader[p] = "none"
    /\ ~stopper[p]
    /\ ~posted[p]
    /\ device # p

(* Process::spawn succeeded: the child runs, its output is being read.     *)
Spawn(p) ==
    /\ Unused(p)
    /\ child' = [child EXCEPT ![p] = "started"]
    /\ reader' = [reader EXCEPT ![p] = "reading"]

(* Process::stop up to its first suspension: NBDDevice::disconnect() acts  *)
(* on whatever connection the device has.                                  *)
Stop(p) ==
    /\ stopper' = [stopper EXCEPT ![p] = TRUE]
    /\ hangup' = (device # None)

-----------------------------------------------------------------------------
(* The outside world.                                                      *)

(* nbd-client hands its socket to the kernel: the device gets a size.      *)
Connect(p) ==
    /\ child[p] = "started"
    /\ device = None
    /\ child' = [child EXCEPT ![p] = "connected"]
    /\ device' = p
    /\ uevent' = TRUE
    /\ UNCHANGED <<reader, stopper, posted, hangup>>

(* The connection ends (disconnect, dead client, lost server): size 0.     *)
(* "listening": the monitor's socket is open to receive the uevent.        *)
Disconnected(listening) ==
    /\ device # None
    /\ child' = IF child[device] = "connected"
                THEN [child EXCEPT ![device] = "released"] ELSE child
    /\ device' = None
    /\ hangup' = FALSE
    /\ uevent' = listening
    /\ UNCHANGED <<reader, stopper, posted>>

ChildExits(p) ==
    /\ Running(p)
    /\ child' = [child EXCEPT ![p] = "exited"]
    /\ UNCHANGED <<reader, stopper, posted, device, hangup, uevent>>

(* The last writer closes the pipe: the reader leaves its loop.            *)
OutputCloses(p) ==
    /\ reader[p] = "reading"
    /\ reader' = [reader EXCEPT ![p] = "draining"]
    /\ UNCHANGED <<child, stopper, posted, device, hangup, uevent>>

-----------------------------------------------------------------------------
(* Steps of the two coroutines.                                            *)

(* The child has ended within the two seconds, or is terminated now;       *)
(* either way child.wait() returns and onExit() is called, see MountPoint. *)
ReaderEnds(p) ==
    /\ reader[p] = "draining"
    /\ reader' = [reader EXCEPT ![p] = "none"]
    /\ child' = [child EXCEPT ![p] = "exited"]
    /\ UNCHANGED <<posted, device, uevent>>

(* The child ended by itself: stop() reports nothing.                      *)
StopperFinds(p) ==
    /\ stopper[p]
    /\ ~Running(p)
    /\ stopper' = [stopper EXCEPT ![p] = FALSE]
    /\ UNCHANGED <<child, reader, posted, device, hangup, uevent>>

(* Two seconds passed: terminate() and onTerminate(), which posts.         *)
StopperGivesUp(p) ==
    /\ stopper[p]
    /\ Running(p)
    /\ stopper' = [stopper EXCEPT ![p] = FALSE]
    /\ posted' = [posted EXCEPT ![p] = TRUE]
    /\ UNCHANGED <<child, reader, device, hangup, uevent>>

StopperKills(p) ==
    /\ stopper[p]
    /\ Running(p)
    /\ stopper' = [stopper EXCEPT ![p] = FALSE]
    /\ child' = [child EXCEPT ![p] = "exited"]
    /\ posted' = [posted EXCEPT ![p] = TRUE]
    /\ UNCHANGED <<reader, device, hangup, uevent>>

TakePosted(p) ==
    /\ posted[p]
    /\ posted' = [posted EXCEPT ![p] = FALSE]
    /\ UNCHANGED <<child, reader, device, uevent>>
=============================================================================

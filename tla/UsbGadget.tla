----------------------------- MODULE UsbGadget -----------------------------
(***************************************************************************)
(* UsbGadget::configure() and what lives on after it (src/system.hpp): the *)
(* gadget of each slot in configfs, its USB port, its session in the       *)
(* session manager (activeSessons, DbusMonitor) and the child processes    *)
(* that watch for an eject and call Unmount over D-Bus.                    *)
(*                                                                         *)
(* configure() and ~Gadget block the io_context, so each is one step of    *)
(* the service; children forked earlier run beside it.  An Unmount call is *)
(* a message: it finds whatever is mounted when it arrives.                *)
(***************************************************************************)
EXTENDS Naturals, Sequences, FiniteSets

CONSTANTS
    Slots,
    Legacy,         \* slots whose leftovers are removed at the next start
    Ids,            \* session ids of the session manager
    Ports,          \* USB ports that are left for virtual media
    Hub,            \* "vhub": Aspeed; "udc": npcm845
    None,
    CallsMayFail,   \* D-Bus calls to the session manager may throw
    MaxSignals,     \* bound: PropertiesChanged signals not handled yet
    MaxChildren,    \* bound: eject children per slot
    MaxCalls        \* bound: Unmount calls in flight per slot

ASSUME GadgetLegacyAssumption == Legacy \subseteq Slots
ASSUME HubAssumption == Hub \in {"vhub", "udc"}
ASSUME GadgetNoneAssumption == None \notin Ids /\ None \notin Ports
ASSUME FailAssumption == CallsMayFail \in BOOLEAN
ASSUME BoundsAssumption ==
    MaxSignals \in Nat /\ MaxChildren \in Nat /\ MaxCalls \in Nat

VARIABLES
    mounted,        \* [Slots -> BOOLEAN]: an ActiveState owns a Gadget
    gadget,         \* [Slots -> ...]: no directory; lun.0/file empty (or
                    \* missing, which looks the same) or set
    port,           \* [Slots -> ...]: the port in gadgetDir/UDC
    activeSessons,  \* [Slots -> ...]: the global map activeSessons
    registry,       \* ids of the session manager's VmediaSessionInfo
    signals,        \* its PropertiesChanged signals, each with the ids then
    children,       \* [Slots -> Nat]: eject children
    calls           \* [Slots -> Nat]: Unmount calls on their way

vars == <<mounted, gadget, port, activeSessons, registry, signals, children,
          calls>>

TypeOK ==
    /\ mounted \in [Slots -> BOOLEAN]
    /\ gadget \in [Slots -> {"none", "empty", "loaded"}]
    /\ port \in [Slots -> Ports \cup {None}]
    /\ activeSessons \in [Slots -> Ids \cup {None}]
    /\ registry \subseteq Ids
    /\ signals \in Seq(SUBSET Ids) /\ Len(signals) <= MaxSignals
    /\ children \in [Slots -> 0..MaxChildren]
    /\ calls \in [Slots -> 0..MaxCalls]

Init ==
    /\ mounted = [s \in Slots |-> FALSE]
    /\ gadget = [s \in Slots |-> "none"]
    /\ port = [s \in Slots |-> None]
    /\ activeSessons = [s \in Slots |-> None]
    /\ registry = {}
    /\ signals = <<>>
    /\ children = [s \in Slots |-> 0]
    /\ calls = [s \in Slots |-> 0]

-----------------------------------------------------------------------------
(* Parts of configure().                                                   *)

(* The session manager announces each new list.                            *)
Announce(lists) ==
    /\ Len(signals) + Len(lists) <= MaxSignals
    /\ signals' = signals \o lists

(* While the gadget is being made or removed, a child of the slot that     *)
(* looks at lun.0/file finds it empty or missing, takes that for an eject  *)
(* and calls Unmount.                                                      *)
ChildrenLook(s, born, taken) ==
    \E k \in 0..children[s] :
        /\ children[s] + born - k <= MaxChildren
        /\ calls[s] + k - taken <= MaxCalls
        /\ children' = [children EXCEPT ![s] = children[s] + born - k]
        /\ calls' = [calls EXCEPT ![s] = calls[s] + k - taken]

(* The gadget is unbound; with an error of fs::remove() its directory is   *)
(* left, with lun.0/file or without.                                       *)
Leftovers(file) == IF file = "none" THEN {} ELSE {"empty", file}

RemoveGadget(s, file) ==
    /\ \E left \in {"none"} \cup Leftovers(file) :
          gadget' = [gadget EXCEPT ![s] = left]
    /\ port' = [port EXCEPT ![s] = None]

(* activeSessons.insert() leaves an entry alone that is there.             *)
Record(s, id) ==
    activeSessons' = IF activeSessons[s] = None
                     THEN [activeSessons EXCEPT ![s] = id] ELSE activeSessons

(* VmediaSessionRegister, then the last entry of the list read back: the   *)
(* slot's own, or that of another client who registered in between.  A     *)
(* request that is refused leaves the slot mounted without a session.      *)
RegisterSessionUnread(s) ==
    \/ \E id \in Ids \ registry :
          /\ registry' = registry \cup {id}
          /\ Announce(<<registry \cup {id}>>)
          /\ Record(s, id)
    \/ /\ Record(s, "unread")
       /\ UNCHANGED <<registry, signals>>

RegisterSession(s) ==
    \/ \E id \in Ids \ registry :
          /\ registry' = registry \cup {id}
          /\ Announce(<<registry \cup {id}>>)
          /\ Record(s, id)
    \/ \E id \in Ids \ registry : \E other \in Ids \ (registry \cup {id}) :
          /\ registry' = registry \cup {id, other}
          /\ Announce(<<registry \cup {id}, registry \cup {id, other}>>)
          /\ Record(s, other)
    \/ UNCHANGED <<registry, signals, activeSessons>>

(* VmediaSessionUnregister of the recorded session, if there is one.       *)
UnregisterKeepingRecord(s) ==
    /\ registry' = registry \ {activeSessons[s]}
    /\ \/ activeSessons[s] \in registry /\ Announce(<<registry'>>)
       \/ activeSessons[s] \notin registry /\ UNCHANGED signals
    /\ UNCHANGED activeSessons

UnregisterSession(s) ==
    /\ registry' = registry \ {activeSessons[s]}
    /\ \/ activeSessons[s] \in registry /\ Announce(<<registry'>>)
       \/ activeSessons[s] \notin registry /\ UNCHANGED signals
    /\ activeSessons' = [activeSessons EXCEPT ![s] = None]

FreePorts(s) == Ports \ {port[t] : t \in Slots \ {s}}

(* The loop over the ports: one that is free, or on npcm845 one that looks *)
(* free and is not, for the result of writing UDC is not looked at there.  *)
BindPort(s) ==
    \/ \E p \in FreePorts(s) : port' = [port EXCEPT ![s] = p]
    \/ /\ Hub = "udc"
       /\ FreePorts(s) # Ports
       /\ port' = [port EXCEPT ![s] = None]

(* An exception leaves ~Gadget of s: std::terminate, with the gadget of s  *)
(* unbound but still there.  The service starts again, knows no session    *)
(* and unbinds and removes only what legacy slots left, if it can.         *)
Terminate(s, left) ==
    /\ mounted' = [t \in Slots |-> FALSE]
    /\ activeSessons' = [t \in Slots |-> None]
    /\ \E removed \in SUBSET Legacy :
          gadget' = [t \in Slots |-> IF t \in removed THEN "none"
                                     ELSE IF t = s THEN left ELSE gadget[t]]
    /\ port' = [t \in Slots |-> IF t \in Legacy \cup {s} THEN None
                                ELSE port[t]]
    /\ signals' = <<>>
    /\ children' = [t \in Slots |-> 0]
    /\ calls' = [t \in Slots |-> 0]

-----------------------------------------------------------------------------
(* configure(inserted), called by ActivatingState.                         *)

(* Refused or failed before a session is registered (configfs, the image   *)
(* size, the D-Bus call): the Gadget is destroyed with its state.          *)
ConfigureFails(s) ==
    /\ ~mounted[s]
    /\ RemoveGadget(s, "loaded")
    /\ ChildrenLook(s, 0, 0)
    /\ UNCHANGED <<mounted, activeSessons, registry, signals>>

(* The session is registered and the call that reads it back throws.       *)
ConfigureLosesSession(s) ==
    /\ CallsMayFail
    /\ ~mounted[s]
    /\ \E id \in Ids \ registry :
          /\ registry' = registry \cup {id}
          /\ Announce(<<registry \cup {id}>>)
    /\ RemoveGadget(s, "loaded")
    /\ ChildrenLook(s, 0, 0)
    /\ UNCHANGED <<mounted, activeSessons>>

ConfigureUnwatched(s) ==
    /\ ~mounted[s]
    /\ mounted' = [mounted EXCEPT ![s] = TRUE]
    /\ gadget' = [gadget EXCEPT ![s] = "loaded"]
    /\ RegisterSession(s)
    /\ BindPort(s)
    /\ ChildrenLook(s, 0, 0)

ConfigureBinds(s) ==
    /\ ~mounted[s]
    /\ mounted' = [mounted EXCEPT ![s] = TRUE]
    /\ gadget' = [gadget EXCEPT ![s] = "loaded"]
    /\ RegisterSession(s)
    /\ BindPort(s)
    /\ ChildrenLook(s, 1, 0)

(* After registering and forking, configure() undoes everything again: no  *)
(* port is left, and it falls through to its cleanup and returns 0 unless  *)
(* that fails; or the loop over the ports throws, or unregistering does,   *)
(* and activation fails (~Gadget unregisters then, or throws again).       *)
ConfigureUndone(s) ==
    /\ ~mounted[s]
    /\ RemoveGadget(s, "loaded")
    /\ \/ /\ FreePorts(s) = {} /\ gadget'[s] = "none"
          /\ mounted' = [mounted EXCEPT ![s] = TRUE]
       \/ UNCHANGED mounted
    /\ \/ \E id \in Ids \ registry :
             Announce(<<registry \cup {id}, registry>>)
       \/ UNCHANGED signals
    /\ ChildrenLook(s, 1, 0)
    /\ UNCHANGED <<activeSessons, registry>>

ConfigureThrows(s) ==
    /\ CallsMayFail
    /\ ~mounted[s]
    /\ \E id \in Ids \ registry : registry' = registry \cup {id}
    /\ Terminate(s, "loaded")

-----------------------------------------------------------------------------
(* configure(removed), called by ~Gadget as the slot leaves ActiveState.   *)

Release(s) ==
    /\ mounted' = [mounted EXCEPT ![s] = FALSE]
    /\ RemoveGadget(s, gadget[s])
    /\ UnregisterSession(s)

ReleaseThrows(s) ==
    /\ CallsMayFail
    /\ activeSessons[s] # None
    /\ Terminate(s, gadget[s])
    /\ UNCHANGED registry

(* The client unmounts, the process ends or the device goes.               *)
SlotLeaves(s) ==
    /\ mounted[s]
    /\ \/ Release(s) /\ ChildrenLook(s, 0, 0)
       \/ ReleaseThrows(s)

(* A call of a child arrives; a slot that is not mounted refuses it.       *)
UnmountArrives(s) ==
    /\ calls[s] > 0
    /\ \/ mounted[s] /\ Release(s) /\ ChildrenLook(s, 0, 1)
       \/ mounted[s] /\ ReleaseThrows(s)
       \/ /\ ~mounted[s]
          /\ calls' = [calls EXCEPT ![s] = @ - 1]
          /\ UNCHANGED <<mounted, gadget, port, activeSessons, registry,
                         signals, children>>

-----------------------------------------------------------------------------
(* Beside them.                                                            *)

(* The polling loop of an eject child.                                     *)
EjectChildMisses(s) ==
    /\ children[s] > 0
    /\ gadget[s] = "none"
    /\ children' = [children EXCEPT ![s] = @ - 1]
    /\ UNCHANGED <<mounted, gadget, port, activeSessons, registry, signals,
                   calls>>

EjectChild(s) ==
    /\ children[s] > 0
    /\ children' = [children EXCEPT ![s] = @ - 1]
    /\ \/ /\ gadget[s] = "none"
          /\ UNCHANGED calls
       \/ /\ gadget[s] = "empty"
          /\ calls[s] < MaxCalls
          /\ calls' = [calls EXCEPT ![s] = @ + 1]
    /\ UNCHANGED <<mounted, gadget, port, activeSessons, registry, signals>>

HostEjects(s) ==
    /\ gadget[s] = "loaded"
    /\ port[s] # None
    /\ gadget' = [gadget EXCEPT ![s] = "empty"]
    /\ UNCHANGED <<mounted, port, activeSessons, registry, signals, children,
                   calls>>

(* Sessions end (logout, timeout) and other clients' begin.                *)
SessionManager ==
    /\ \/ \E id \in registry : registry' = registry \ {id}
       \/ \E id \in Ids \ registry : registry' = registry \cup {id}
    /\ Announce(<<registry'>>)
    /\ UNCHANGED <<mounted, gadget, port, activeSessons, children, calls>>

(* handleSessions(): every recorded session that is not in the list is     *)
(* erased, and a child is forked that calls Unmount on its slot.           *)
HandleSessionsSilently ==
    /\ signals # <<>>
    /\ signals' = Tail(signals)
    /\ activeSessons' = [s \in Slots |-> IF activeSessons[s] \in Head(signals)
                                        THEN activeSessons[s] ELSE None]
    /\ UNCHANGED <<mounted, gadget, port, registry, children, calls>>

HandleSessionsKeepingRecord ==
    /\ signals # <<>>
    /\ LET Removed(s) == activeSessons[s] \notin Head(signals) \cup {None}
       IN  /\ \A s \in Slots : Removed(s) => calls[s] < MaxCalls
           /\ calls' = [s \in Slots |->
                 IF Removed(s) THEN calls[s] + 1 ELSE calls[s]]
    /\ signals' = Tail(signals)
    /\ UNCHANGED <<mounted, gadget, port, activeSessons, registry, children>>

HandleSessions ==
    /\ signals # <<>>
    /\ LET Removed(s) == activeSessons[s] \notin Head(signals) \cup {None}
       IN  /\ \A s \in Slots : Removed(s) => calls[s] < MaxCalls
           /\ activeSessons' = [s \in Slots |->
                 IF Removed(s) THEN None ELSE activeSessons[s]]
           /\ calls' = [s \in Slots |->
                 IF Removed(s) THEN calls[s] + 1 ELSE calls[s]]
    /\ signals' = Tail(signals)
    /\ UNCHANGED <<mounted, gadget, port, registry, children>>

Next ==
    \/ \E s \in Slots :
          \/ ConfigureFails(s)
          \/ ConfigureLosesSession(s)
          \/ ConfigureBinds(s)
          \/ ConfigureUndone(s)
          \/ ConfigureThrows(s)
          \/ SlotLeaves(s)
          \/ UnmountArrives(s)
          \/ EjectChild(s)
          \/ HostEjects(s)
    \/ SessionManager
    \/ HandleSessions

Spec == Init /\ [][Next]_vars

(* The io_context handles calls and signals; children poll once a second.  *)
Fairness ==
    /\ WF_vars(HandleSessions)
    /\ \A s \in Slots : WF_vars(UnmountArrives(s)) /\ WF_vars(EjectChild(s))

LiveSpec == Spec /\ Fairness

-----------------------------------------------------------------------------
(* Every way out of configure() and ~Gadget gives the session and the port *)
(* back, also when ports run out, a call throws or a directory cannot be   *)
(* removed: both are held only with a gadget, and only while the slot is   *)
(* mounted, but for the port of a proxy slot when the service died.  The   *)
(* directory itself may be left (system.hpp 1907).                         *)
HeldOnlyWhileMounted ==
    \A s \in Slots :
        /\ activeSessons[s] # None => mounted[s] /\ gadget[s] # "none"
        /\ port[s] # None => gadget[s] # "none" /\ (mounted[s] \/ s \notin Legacy)

(* A session that has ended and is still recorded is missing from a list   *)
(* that waits to be handled: no order of registrations, revocations and    *)
(* handled lists leaves a revoked session that nothing will unmount.       *)
RevokedIsAnnounced ==
    \A s \in Slots :
        activeSessons[s] \notin registry \cup {None} =>
            \E k \in 1..Len(signals) : activeSessons[s] \notin signals[k]

(* A gadget that the host can eject is watched: a child of the slot polls, *)
(* or an Unmount is already on its way, whatever children of earlier       *)
(* mounts did.                                                             *)
EjectIsWatched ==
    \A s \in Slots :
        mounted[s] /\ gadget[s] # "none" => children[s] > 0 \/ calls[s] > 0

(* A medium that the host ejects is unmounted (comment at system.hpp:1646  *)
(* "Spawn a child process to monitor eject status from host").             *)
EjectEnds ==
    \A s \in Slots : mounted[s] /\ gadget[s] = "empty" ~> ~mounted[s]

(* The mount of a session that the session manager has ended is unmounted, *)
(* unless the manager gives the id to somebody else meanwhile.             *)
RevokedEnds ==
    \A s \in Slots : \A id \in Ids :
        (activeSessons[s] = id /\ id \notin registry)
            ~> (~mounted[s] \/ id \in registry)
=============================================================================

---------------------------- MODULE LocalService ----------------------------
(***************************************************************************)
(* The D-Bus methods that choose a slot and hand it a target: the global   *)
(* Local service (Mount, Unmount, GetCurrentMount, ListAvailableSlots) and *)
(* the Mount methods of proxy and legacy slots                             *)
(* (src/state/initial_state.hpp).                                          *)
(*                                                                         *)
(* What a slot does with the request is seen only as far as SlotService    *)
(* tells: it is idle, mounting, mounted or unmounting.  A method runs in   *)
(* one step, but a legacy Mount with a secret waits for the pipe in        *)
(* between.  A request that is refused changes nothing, unless an action   *)
(* says so.                                                                *)
(***************************************************************************)
EXTENDS Naturals, FiniteSets

CONSTANTS
    NumSlots,       \* Slot_0, Slot_1, ...
    Legacy,         \* the slots in legacy mode
    LocalFiles,     \* URLs that start with /tmp/lmedia/
    Remote,         \* any other URL
    None,
    Infos,          \* what clients send as additionalInfo
    LMEDIA,         \* the additionalInfo of the Local service
    MaxWaiting,     \* bound: legacy Mounts reading their secret at a time
    Reupload,       \* files may reappear while a slot still names them
    LegacyLocal     \* clients pass local URLs to legacy slots as well

ASSUME SlotsAssumption == NumSlots \in Nat \ {0}
ASSUME LegacyAssumption == Legacy \subseteq 0..(NumSlots - 1)
ASSUME UrlAssumption == Remote \notin LocalFiles /\ None \notin LocalFiles
ASSUME InfoAssumption == LMEDIA \notin Infos \cup {None}
ASSUME WaitingAssumption == MaxWaiting \in Nat
ASSUME ReuploadAssumption == Reupload \in BOOLEAN
ASSUME LegacyLocalAssumption == LegacyLocal \in BOOLEAN

Slots == 0..(NumSlots - 1)
Urls == LocalFiles \cup {Remote}

VARIABLES
    phase,      \* [Slots -> ...]: the state of the slot, as in SlotService
    target,     \* [Slots -> ...]: MountPointStateMachine::target
    info,       \* [Slots -> ...]: MountPointStateMachine::additionalInfo
    waiting,    \* legacy Mounts that wait for their secret pipe
    files,      \* the files that exist under /tmp/lmedia/
    asked       \* [Slots -> ...]: the info sent with the accepted Mount

vars == <<phase, target, info, waiting, files, asked>>

TypeOK ==
    /\ phase \in [Slots -> {"idle", "mounting", "mounted", "unmounting"}]
    /\ target \in [Slots -> Urls \cup {None}]
    /\ info \in [Slots -> Infos \cup {LMEDIA, None}]
    /\ waiting \subseteq [slot : Legacy, url : Urls]
    /\ files \subseteq LocalFiles
    /\ asked \in [Slots -> Infos \cup {LMEDIA, None}]
    /\ \A s \in Slots : phase[s] = "idle" => target[s] = None

Init ==
    /\ phase = [s \in Slots |-> "idle"]
    /\ target = [s \in Slots |-> None]
    /\ info = [s \in Slots |-> None]
    /\ waiting = {}
    /\ files = LocalFiles
    /\ asked = [s \in Slots |-> None]

-----------------------------------------------------------------------------
(* The loops over slotOrder.                                               *)

First(slots) == CHOOSE s \in slots : \A t \in slots : s <= t

(* Slots whose target is a local file that exists: what Mount refuses to   *)
(* add to, Unmount looks for and GetCurrentMount reports.  A slot that     *)
(* still serves a deleted file is not among them.                          *)
LocalSlots == {s \in Slots : target[s] \in files}

AvailableSlots == {s \in Slots : phase[s] = "idle" /\ target[s] = None}

(* ReadyState on MountEvent: activation begins, or fails at once, as it    *)
(* must for a local file that is not there.                                *)
Accept(s, url) ==
    /\ phase[s] = "idle"
    /\ \/ /\ url \in LocalFiles => url \in files
          /\ phase' = [phase EXCEPT ![s] = "mounting"]
          /\ target' = [target EXCEPT ![s] = url]
       \/ UNCHANGED <<phase, target>>

-----------------------------------------------------------------------------
(* The Local service.  Its refusals change nothing.                        *)

MountUnchecked(file) ==
    /\ file \in files
    /\ AvailableSlots # {}
    /\ LET s == First(AvailableSlots)
       IN  /\ info' = [info EXCEPT ![s] = LMEDIA]
           /\ asked' = [asked EXCEPT ![s] = LMEDIA]
           /\ Accept(s, file)
    /\ UNCHANGED <<waiting, files>>

Mount(file) ==
    /\ LocalSlots = {}
    /\ file \in files
    /\ AvailableSlots # {}
    /\ LET s == First(AvailableSlots)
       IN  /\ info' = [info EXCEPT ![s] = LMEDIA]
           /\ asked' = [asked EXCEPT ![s] = LMEDIA]
           /\ Accept(s, file)
    /\ UNCHANGED <<waiting, files>>

(* What clients read: the first of them, if any.                           *)
GetCurrentMount ==
    LET s == First(LocalSlots)
    IN  IF LocalSlots = {} THEN None ELSE <<s, target[s]>>

(* Only the first match is tried; emitUnmountEvent() throws if it is not   *)
(* mounted.                                                                *)
Unmount ==
    /\ LocalSlots # {}
    /\ LET s == First(LocalSlots)
       IN  /\ phase[s] = "mounted"
           /\ phase' = [phase EXCEPT ![s] = "unmounting"]
    /\ UNCHANGED <<target, info, waiting, files, asked>>

-----------------------------------------------------------------------------
(* The services of the slots.                                              *)

(* Both Mount methods store the client's info if the slot is Ready, and    *)
(* only then.                                                              *)
StoreInfoAlways(s, i) == info' = [info EXCEPT ![s] = i]

StoreInfo(s, i) ==
    info' = IF phase[s] = "idle" THEN [info EXCEPT ![s] = i] ELSE info

(* Proxy Mount: no target; one that is not accepted throws.                *)
ProxyMount(s, i) ==
    /\ s \notin Legacy
    /\ StoreInfo(s, i)
    /\ \/ /\ Accept(s, None)
          /\ asked' = [asked EXCEPT ![s] = i]
       \/ /\ phase[s] # "idle"
          /\ UNCHANGED <<phase, target, asked>>
    /\ UNCHANGED <<waiting, files>>

(* Legacy Mount without a secret.                                          *)
LegacyMount(s, url, i) ==
    /\ s \in Legacy
    /\ StoreInfo(s, i)
    /\ \/ /\ Accept(s, url)
          /\ asked' = [asked EXCEPT ![s] = i]
       \/ /\ phase[s] # "idle"
          /\ UNCHANGED <<phase, target, asked>>
    /\ UNCHANGED <<waiting, files>>

(* Legacy Mount with one: up to the read that suspends it, and after it.   *)
LegacyMountSuspends(s, url, i) ==
    /\ s \in Legacy
    /\ Cardinality(waiting) < MaxWaiting
    /\ StoreInfo(s, i)
    /\ waiting' = waiting \cup {[slot |-> s, url |-> url]}
    /\ UNCHANGED <<phase, target, files, asked>>

LegacyMountResumes(w) ==
    /\ waiting' = waiting \ {w}
    /\ \/ /\ Accept(w.slot, w.url)
          /\ asked' = [asked EXCEPT ![w.slot] = None]
       \/ UNCHANGED <<phase, target, asked>>
    /\ UNCHANGED <<info, files>>

(* Unmount of a slot, or the loss of its medium, mounted or not yet.       *)
SlotLeaves(s) ==
    /\ phase[s] \in {"mounting", "mounted"}
    /\ phase' = [phase EXCEPT ![s] = "unmounting"]
    /\ UNCHANGED <<target, info, waiting, files, asked>>

(* The end of a transition: ActiveState, or ReadyState clears the target.  *)
SlotSettlesKeepingTarget(s) ==
    /\ \/ /\ phase[s] = "mounting"
          /\ phase' = [phase EXCEPT ![s] = "mounted"]
       \/ /\ phase[s] \in {"mounting", "unmounting"}
          /\ phase' = [phase EXCEPT ![s] = "idle"]
    /\ UNCHANGED <<target, info, waiting, files, asked>>

SlotSettles(s) ==
    /\ \/ /\ phase[s] = "mounting"
          /\ phase' = [phase EXCEPT ![s] = "mounted"]
          /\ UNCHANGED target
       \/ /\ phase[s] \in {"mounting", "unmounting"}
          /\ phase' = [phase EXCEPT ![s] = "idle"]
          /\ target' = [target EXCEPT ![s] = None]
    /\ UNCHANGED <<info, waiting, files, asked>>

-----------------------------------------------------------------------------
(* Uploads and deletions under /tmp/lmedia/ are somebody else's.           *)

FileVanishes(f) ==
    /\ files' = files \ {f}
    /\ UNCHANGED <<phase, target, info, waiting, asked>>

FileAppears(f) ==
    /\ Reupload \/ \A s \in Slots : target[s] # f
    /\ files' = files \cup {f}
    /\ UNCHANGED <<phase, target, info, waiting, asked>>

-----------------------------------------------------------------------------

LegacyUrls == IF LegacyLocal THEN Urls ELSE {Remote}

Next ==
    \/ \E f \in LocalFiles : Mount(f)
    \/ Unmount
    \/ \E s \in Slots, i \in Infos : ProxyMount(s, i)
    \/ \E s \in Slots, u \in LegacyUrls, i \in Infos :
          LegacyMount(s, u, i) \/ LegacyMountSuspends(s, u, i)
    \/ \E w \in waiting : LegacyMountResumes(w)
    \/ \E s \in Slots : SlotLeaves(s) \/ SlotSettles(s)
    \/ \E f \in LocalFiles : FileVanishes(f) \/ FileAppears(f)

Spec == Init /\ [][Next]_vars

-----------------------------------------------------------------------------
(* The additionalInfo with which UsbGadget registers a session is the one  *)
(* of the request that the slot carries out (LMEDIA for the Local service), *)
(* whatever requests were refused or suspended meanwhile.  Only a Mount    *)
(* that waited for its secret (asked is None) may find another's.          *)
InfoBelongs ==
    \A s \in Slots :
        phase[s] # "idle" /\ asked[s] # None => info[s] = asked[s]

(* Through GetCurrentMount clients see one drive: a medium is put in only  *)
(* when it is empty, and is reported, in the same slot, until it is gone.  *)
(* It takes that a deleted file does not return while a slot still serves  *)
(* it (Reupload), and that legacy slots get no local URLs (LegacyLocal).   *)
(* It is about what is reported: a slot that serves a deleted file is not, *)
(* and another medium may be mounted beside it.                            *)
Drive == INSTANCE LocalDrive
    WITH Drives <- Slots, Files <- LocalFiles,
         current <- GetCurrentMount, present <- files

IsOneDrive == Drive!Spec
=============================================================================

----------------------------- MODULE MountPoint -----------------------------
(***************************************************************************)
(* One mount point of the Virtual Media service: MountPointStateMachine    *)
(* and its states (src/state_machine.hpp, src/state/), the resources they  *)
(* own (src/resources.cpp), the device monitor that feeds them             *)
(* (src/system.hpp) and a crash and restart of the service.                *)
(*                                                                         *)
(* The service is one io_context run by one thread, so a handler is one    *)
(* atomic step, with every state change, onEnter() and destructor it       *)
(* causes.  Handlers that are queued may run in any order.                 *)
(***************************************************************************)
EXTENDS NotificationWrapper, NbdProcess

CONSTANTS
    Mode,       \* Configuration::Mode of the slot: "proxy" or "legacy"
    MayThrow,   \* the file-system calls of ActivatingState may throw
    MayCrash    \* the service may be killed from outside

ASSUME ModeAssumption == Mode \in {"proxy", "legacy"}
ASSUME MayThrowAssumption == MayThrow \in BOOLEAN
ASSUME MayCrashAssumption == MayCrash \in BOOLEAN

VARIABLES
    state,          \* MountPointStateMachine::state; "Initial": not running
    process,        \* the resource::Process owned by the current state
    gadget,         \* the current state owns a resource::Gadget
    target,         \* MountPointStateMachine::target has a value
    udevEvent,      \* DeactivatingState::udevStateChangeEvent
    stopEvent,      \* DeactivatingState::subprocessStoppedEvent has a value
    known,          \* DeviceMonitor::devices[nbdDevice]
    bound,          \* a USB gadget of this slot is bound: the host sees it
    tick,           \* ActiveState::timer: its wait or its queued handler
    dangling,       \* a queued handler of an ActiveState that is gone
    unmountPosted   \* the inactivity timer's posted emitUnmountEvent()

slotVars == <<state, process, gadget, target, udevEvent, stopEvent, bound,
              tick, dangling>>
vars == <<slotVars, known, unmountPosted, noteVars, procVars>>

StateNames == {"Initial", "Ready", "Activating", "Active", "Deactivating"}
Changes == {"removed", "inserted"}

TypeOK ==
    /\ NoteTypeOK
    /\ ProcTypeOK
    /\ state \in StateNames
    /\ process \in Procs \cup {None}
    /\ gadget \in BOOLEAN
    /\ target \in BOOLEAN
    /\ udevEvent \in {"none"} \cup Changes
    /\ stopEvent \in BOOLEAN
    /\ known \in Changes
    /\ bound \in BOOLEAN
    /\ tick \in {"off", "armed", "due"}
    /\ dangling \in BOOLEAN
    /\ unmountPosted \in BOOLEAN

Init ==
    /\ NoteInit
    /\ ProcInit
    /\ state = "Initial"
    /\ process = None
    /\ gadget = FALSE
    /\ target = FALSE
    /\ udevEvent = "none"
    /\ stopEvent = FALSE
    /\ known = "removed"
    /\ bound = FALSE
    /\ tick = "off"
    /\ dangling = FALSE
    /\ unmountPosted = FALSE

-----------------------------------------------------------------------------
(* State changes.                                                          *)

(* ~Process and ~Gadget of what the state being left owns.  A destroyed    *)
(* Process only starts its stop coroutine.                                 *)
DestroyProcessUnstopped ==
    /\ process' = None
    /\ UNCHANGED <<stopper, hangup>>

DestroyProcess ==
    /\ process' = None
    /\ \/ process # None /\ Stop(process)
       \/ process = None /\ UNCHANGED <<stopper, hangup>>

DestroyGadgetStillBound ==
    /\ gadget' = FALSE
    /\ UNCHANGED bound

DestroyGadget ==
    /\ gadget' = FALSE
    /\ bound' = (bound /\ ~gadget)

(* changeState() to ReadyState: its constructor notifies, onEnter() clears *)
(* the target.                                                             *)
ToReadyKeepingTarget(outcome) ==
    /\ state' = "Ready"
    /\ udevEvent' = "none"
    /\ stopEvent' = FALSE
    /\ DestroyProcess
    /\ Notify(outcome)
    /\ UNCHANGED <<target, tick, dangling>>

ToReady(outcome) ==
    /\ state' = "Ready"
    /\ target' = FALSE
    /\ udevEvent' = "none"
    /\ stopEvent' = FALSE
    /\ DestroyProcess
    /\ Notify(outcome)
    /\ UNCHANGED <<tick, dangling>>

(* changeState() to DeactivatingState: onEnter() releases gadget and       *)
(* process.  A handler of the ActiveState that is already queued stays     *)
(* queued after ~ActiveState.                                              *)
ToDeactivatingEmpty(udev, stopped) ==
    /\ state' = "Deactivating"
    /\ udevEvent' = "none"
    /\ stopEvent' = FALSE
    /\ DestroyProcess
    /\ DestroyGadget
    /\ tick' = "off"
    /\ dangling' = (dangling \/ tick = "due")
    /\ UNCHANGED target

ToDeactivating(udev, stopped) ==
    /\ state' = "Deactivating"
    /\ udevEvent' = udev
    /\ stopEvent' = stopped
    /\ DestroyProcess
    /\ DestroyGadget
    /\ tick' = "off"
    /\ dangling' = (dangling \/ tick = "due")
    /\ UNCHANGED target

(* DeactivatingState::evaluate() once both events are there.               *)
EvaluateAlwaysOk(udev) ==
    /\ ToReady("ok")
    /\ DestroyGadget

Evaluate(udev) ==
    /\ ToReady(IF udev = "removed" THEN "ok" ELSE "error")
    /\ DestroyGadget

(* DeactivatingState keeps the one event it has until the other comes.     *)
HoldNothing(udev, stopped) ==
    /\ state = "Deactivating"
    /\ UNCHANGED <<slotVars, noteVars, stopper, hangup>>

Hold(udev, stopped) ==
    /\ state = "Deactivating"
    /\ udevEvent' = udev
    /\ stopEvent' = stopped
    /\ UNCHANGED <<state, process, gadget, target, bound, tick, dangling,
                   noteVars, stopper, hangup>>

(* ActivatingState on "inserted": UsbGadget::configure() binds the gadget, *)
(* or returns 0 with nothing bound when no port is left, or fails; the     *)
(* Gadget of a failure is destroyed with the state.                        *)
ConfigureGadget ==
    \/ /\ state' = "Active"
       /\ gadget' = TRUE
       /\ bound' \in BOOLEAN
       /\ tick' = "armed"
       /\ Notify("ok")
       /\ UNCHANGED <<process, target, udevEvent, stopEvent, dangling,
                      stopper, hangup>>
    \/ /\ ToReady("error")
       /\ gadget' = FALSE
       /\ bound' = FALSE

-----------------------------------------------------------------------------
(* Events delivered to the current state.                                  *)

SubprocessStoppedIgnoredByActivating ==
    \/ /\ state \in {"Initial", "Ready", "Activating"}
       /\ UNCHANGED <<slotVars, noteVars, stopper, hangup>>
    \/ /\ state = "Active"
       /\ ToDeactivating("none", TRUE)
       /\ UNCHANGED noteVars
    \/ /\ state = "Deactivating"
       /\ udevEvent # "none"
       /\ Evaluate(udevEvent)
    \/ /\ udevEvent = "none"
       /\ Hold("none", TRUE)

SubprocessStopped ==
    \/ /\ state \in {"Initial", "Ready"}
       /\ UNCHANGED <<slotVars, noteVars, stopper, hangup>>
    \/ /\ state = "Activating"
       /\ ToReady("error")
       /\ DestroyGadget
    \/ /\ state = "Active"
       /\ ToDeactivating("none", TRUE)
       /\ UNCHANGED noteVars
    \/ /\ state = "Deactivating"
       /\ udevEvent # "none"
       /\ Evaluate(udevEvent)
    \/ /\ udevEvent = "none"
       /\ Hold("none", TRUE)

UdevStateChange(change) ==
    \/ /\ state \in {"Initial", "Ready"}
       /\ UNCHANGED <<slotVars, noteVars, stopper, hangup>>
    \/ /\ state = "Activating"
       /\ change = "inserted"
       /\ ConfigureGadget
    \/ /\ state = "Activating"
       /\ change = "removed"
       /\ ToDeactivating(change, FALSE)
       /\ UNCHANGED noteVars
    \/ /\ state = "Active"
       /\ ToDeactivating(change, FALSE)
       /\ UNCHANGED noteVars
    \/ /\ state = "Deactivating"
       /\ stopEvent
       /\ Evaluate(change)
    \/ /\ ~stopEvent
       /\ Hold(change, FALSE)

-----------------------------------------------------------------------------
(* Start and end of the service.                                           *)

(* The App constructor: RegisterDbusEvent.  Only a legacy slot cleans up   *)
(* what an earlier run of the service left behind.                         *)
RegisterWithoutCleanUp ==
    /\ state = "Initial"
    /\ state' = "Ready"
    /\ UNCHANGED <<process, gadget, target, udevEvent, stopEvent, bound, tick,
                   dangling, known, unmountPosted, noteVars, procVars>>

Register ==
    /\ state = "Initial"
    /\ state' = "Ready"
    /\ bound' = (bound /\ Mode # "legacy")
    /\ UNCHANGED <<process, gadget, target, udevEvent, stopEvent, tick,
                   dangling, known, unmountPosted, noteVars, procVars>>

(* The service dies and systemd kills what is left in its control group.   *)
(* The kernel's device and the configfs gadget outlive it; a restarted     *)
(* monitor takes every device for removed.                                 *)
Terminate ==
    /\ state' = "Initial"
    /\ process' = None
    /\ gadget' = FALSE
    /\ target' = FALSE
    /\ udevEvent' = "none"
    /\ stopEvent' = FALSE
    /\ known' = "removed"
    /\ tick' = "off"
    /\ dangling' = FALSE
    /\ unmountPosted' = FALSE
    /\ started' = FALSE
    /\ armed' = FALSE
    /\ queued' = 0
    /\ pending' = "none"
    /\ child' = [p \in Procs |-> IF Running(p) THEN "exited" ELSE child[p]]
    /\ reader' = [p \in Procs |-> "none"]
    /\ stopper' = [p \in Procs |-> FALSE]
    /\ posted' = [p \in Procs |-> FALSE]
    /\ uevent' = FALSE
    /\ UNCHANGED <<bound, device, hangup>>

Crash ==
    /\ MayCrash
    /\ state # "Initial"
    /\ Terminate

-----------------------------------------------------------------------------
(* D-Bus requests that are accepted; the others only return an error.      *)

(* ReadyState on MountEvent, then ActivatingState::onEnter(): the child is *)
(* spawned, or activation fails, or an exception leaves the slot where it  *)
(* is.  Only a proxy slot may be mounted without a target.                 *)
MountSpawns ==
    /\ state = "Ready"
    /\ state' = "Activating"
    /\ target' \in IF Mode = "legacy" THEN {TRUE} ELSE BOOLEAN
    /\ \E p \in Procs : Spawn(p) /\ process' = p
    /\ Start("mount")
    /\ UNCHANGED <<gadget, udevEvent, stopEvent, bound, tick, dangling,
                   known, unmountPosted, stopper, posted, device, hangup,
                   uevent>>

MountFails ==
    /\ state = "Ready"
    /\ StartThenNotify("error")
    /\ UNCHANGED <<slotVars, known, unmountPosted, procVars>>

MountThrows ==
    /\ MayThrow
    /\ state = "Ready"
    /\ state' = "Activating"
    /\ target' = TRUE
    /\ Start("mount")
    /\ UNCHANGED <<process, gadget, udevEvent, stopEvent, bound, tick,
                   dangling, known, unmountPosted, procVars>>

(* ActiveState on UnmountEvent.                                            *)
UnmountEvent ==
    /\ state = "Active"
    /\ Start("unmount")
    /\ ToDeactivating("none", FALSE)

Unmount ==
    /\ UnmountEvent
    /\ UNCHANGED <<known, unmountPosted, child, reader, posted, device,
                   uevent>>

-----------------------------------------------------------------------------
(* Handlers that deliver events.                                           *)

(* The reader's onExit callback.                                           *)
ProcessExit(p) ==
    /\ ReaderEnds(p)
    /\ SubprocessStopped
    /\ UNCHANGED <<known, unmountPosted>>

(* The event posted by the stopper's onTerminate callback.                 *)
PostedStop(p) ==
    /\ TakePosted(p)
    /\ SubprocessStopped
    /\ UNCHANGED <<known, unmountPosted>>

(* DeviceMonitor::run: a uevent makes it read the size the device has now; *)
(* only a change of the remembered state is passed on.                     *)
CurrentUnread == IF device = None THEN "unknown" ELSE "inserted"

Current == IF device = None THEN "removed" ELSE "inserted"

Monitor ==
    /\ state # "Initial"
    /\ uevent
    /\ uevent' = FALSE
    /\ known' = Current
    /\ \/ known # Current /\ UdevStateChange(Current)
       \/ /\ known = Current
          /\ UNCHANGED <<slotVars, noteVars, stopper, hangup>>
    /\ UNCHANGED <<unmountPosted, child, reader, posted, device>>

-----------------------------------------------------------------------------
(* The inactivity timer of ActiveState.                                    *)

TickExpires ==
    /\ tick = "armed"
    /\ tick' = "due"
    /\ UNCHANGED <<state, process, gadget, target, udevEvent, stopEvent,
                   bound, dangling, known, unmountPosted, noteVars, procVars>>

TickRearms ==
    /\ tick = "due"
    /\ tick' = "armed"
    /\ UNCHANGED <<state, process, gadget, target, udevEvent, stopEvent,
                   bound, dangling, known, unmountPosted, noteVars, procVars>>

TickPosts ==
    /\ tick = "due"
    /\ ~unmountPosted
    /\ tick' = "off"
    /\ unmountPosted' = TRUE
    /\ UNCHANGED <<state, process, gadget, target, udevEvent, stopEvent,
                   bound, dangling, known, noteVars, procVars>>

(* The handler of a destroyed ActiveState works on freed memory: nothing   *)
(* visible happens, or it posts as if it were alive, or the service dies.  *)
DanglingTick ==
    /\ dangling
    /\ \/ /\ dangling' = FALSE
          /\ unmountPosted' \in {unmountPosted, TRUE}
          /\ UNCHANGED <<state, process, gadget, target, udevEvent, stopEvent,
                         bound, tick, known, noteVars, procVars>>
       \/ Terminate

(* Outside ActiveState the posted event makes handleEvent() throw out of   *)
(* io_context::run(), which nothing catches.                               *)
PostedUnmount ==
    /\ unmountPosted
    /\ \/ /\ UnmountEvent
          /\ unmountPosted' = FALSE
          /\ UNCHANGED <<known, child, reader, posted, device, uevent>>
       \/ /\ state # "Active"
          /\ Terminate

-----------------------------------------------------------------------------

NoteTimer ==
    /\ TimerExpires \/ TimerHandler
    /\ UNCHANGED <<slotVars, known, unmountPosted, procVars>>

World ==
    /\ \/ \E p \in Procs : Connect(p) \/ ChildExits(p) \/ OutputCloses(p)
       \/ Disconnected(state # "Initial")
    /\ UNCHANGED <<slotVars, known, unmountPosted, noteVars>>

StopperEnds(p) ==
    /\ StopperFinds(p) \/ StopperKills(p)
    /\ UNCHANGED <<slotVars, known, unmountPosted, noteVars>>

Next ==
    \/ Register
    \/ Crash
    \/ MountSpawns
    \/ MountFails
    \/ MountThrows
    \/ Unmount
    \/ \E p \in Procs : ProcessExit(p) \/ PostedStop(p) \/ StopperEnds(p)
    \/ Monitor
    \/ TickExpires
    \/ TickRearms
    \/ TickPosts
    \/ DanglingTick
    \/ PostedUnmount
    \/ NoteTimer
    \/ World

Spec == Init /\ [][Next]_vars

(* Queued handlers run and timers expire; a dead child's pipe closes; the  *)
(* kernel drops a connection that was disconnected or whose client died.   *)
Fairness ==
    /\ WF_vars(Register)
    /\ WF_vars(Monitor)
    /\ WF_vars(NoteTimer)
    /\ WF_vars(World /\ device # None /\ device' = None
               /\ (hangup \/ ~Running(device)))
    /\ \A p \in Procs :
          /\ WF_vars(ProcessExit(p))
          /\ WF_vars(PostedStop(p))
          /\ WF_vars(StopperEnds(p))
          /\ WF_vars(World /\ child[p] = "exited"
                     /\ reader[p] = "reading" /\ reader'[p] = "draining")

LiveSpec == Spec /\ Fairness

-----------------------------------------------------------------------------
(* Safety.                                                                 *)

(* A child process is never lost: while it runs, the current state owns it *)
(* or a stop coroutine is about to end it (resource::~Process), however    *)
(* stale stop events and remounts interleave.                              *)
NoOrphan ==
    \A p \in Procs : Running(p) => process = p \/ stopper[p]

(* A state never waits for a stop event that cannot come: the process of   *)
(* ActivatingState or ActiveState still has its reader, and                *)
(* DeactivatingState without its stop event has a reader or a posted event *)
(* outstanding.  An exception that left ActivatingState without a process  *)
(* breaks the latter two; without exceptions they hold.                    *)
StopIsComing ==
    /\ process # None => reader[process] # "none"
    /\ ~MayThrow /\ state \in {"Activating", "Active"} => process # None
    /\ ~MayThrow /\ state = "Deactivating" /\ ~stopEvent =>
          \E p \in Procs : reader[p] # "none" \/ posted[p]

(* DeactivatingState waits for a "removed" only while the monitor still    *)
(* takes the device for inserted, and then the device has a size or a      *)
(* uevent is on its way; the event it holds is the monitor's latest.       *)
RemovalIsComing ==
    /\ state = "Active" => known = "inserted"
    /\ state = "Deactivating" =>
          udevEvent = (IF known = "inserted" /\ udevEvent = "none"
                       THEN "none" ELSE known)
    /\ known = "inserted" => device # None \/ uevent

(* A Completion is owed only between acceptance and the end of the         *)
(* transition, for the request under way, and the timer that clears it is  *)
(* set or has run out: no unsolicited and no second Completion.  That a    *)
(* request is always answered it does not say (see TimeoutAnswered).       *)
CompletionOwed ==
    started =>
        /\ state = "Activating" => pending = "mount"
        /\ state \in {"Activating", "Deactivating"}
        /\ pending \in Requests
        /\ armed \/ queued > 0

(* Resources are held by the states that use them and by no other: the     *)
(* process, the gadget, the inactivity timer and the target; and a service *)
(* that is down has nothing queued that could reach the next one.          *)
ReadyIsClean ==
    /\ state \in {"Initial", "Ready"} => ~target
    /\ state = "Initial" => known = "removed" /\ ~unmountPosted /\ ~dangling
    /\ process # None => state \in {"Activating", "Active"}
    /\ gadget <=> state = "Active"
    /\ tick # "off" => state = "Active"

(* The host sees a medium only in ActiveState.  A crash leaves the gadget  *)
(* bound: a legacy slot removes it on registration, a proxy slot never.    *)
MediaOnlyWhenActive ==
    bound => \/ state = "Active"
             \/ Mode = "legacy" /\ state = "Initial"
             \/ Mode = "proxy"

(* Success is reported for an Unmount only when the monitor has seen the   *)
(* device go (DeactivatingState::evaluate).                                *)
UnmountReportsRemoval ==
    [][pending = "unmount" /\ pending' = "ok" => known' = "removed"]_vars

-----------------------------------------------------------------------------
(* The client and the host see a SlotService: requests are accepted only   *)
(* at rest, answered at most once and only at rest, a failure to activate  *)
(* never with success, and a medium appears when the slot becomes Active   *)
(* and goes in the very step that leaves it.                               *)
Phase ==
    CASE state = "Initial" -> "down"
      [] state = "Ready" -> "idle"
      [] state = "Activating" -> "mounting"
      [] state = "Active" -> "mounted"
      [] OTHER -> "unmounting"

Service == INSTANCE SlotService
    WITH phase <- Phase, owed <- started, answer <- pending, exposed <- bound

ImplementsService == Service!Spec

-----------------------------------------------------------------------------
(* Liveness.                                                               *)

(* An unmount always ends: whatever events were stale, lost to a restart   *)
(* or duplicated, DeactivatingState is left.                               *)
DeactivationEnds == state = "Deactivating" ~> state # "Deactivating"

(* A child that was let go of is gone in the end.                          *)
ReleasedChildEnds ==
    \A p \in Procs : (Running(p) /\ stopper[p]) ~> ~Running(p)
=============================================================================

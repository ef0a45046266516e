-------------------------- MODULE MountPointProofs --------------------------
(***************************************************************************)
(* Proofs about MountPoint, for any number of process objects and queued   *)
(* handlers, in either mode, with and without crashes and exceptions.      *)
(***************************************************************************)
EXTENDS MountPoint, TLAPS

-----------------------------------------------------------------------------
(* Type correctness.                                                       *)

LEMMA NotifyTypes ==
    ASSUME NoteTypeOK, NEW outcome \in Outcomes, Notify(outcome)
    PROVE  NoteTypeOK'
<1> USE MaxQueuedAssumption DEF MaxQueuedAssumption
<1>1. started' \in BOOLEAN /\ armed' \in BOOLEAN
  BY DEF NoteTypeOK, Notify, noteVars
<1>2. queued' \in 0..MaxQueued
  BY DEF NoteTypeOK, Notify, noteVars
<1>3. armed' => queued' < MaxQueued
  BY DEF NoteTypeOK, Notify, noteVars
<1>4. pending' \in {"none"} \cup Requests \cup Outcomes
  BY DEF NoteTypeOK, Notify, noteVars
<1> QED
  BY <1>1, <1>2, <1>3, <1>4 DEF NoteTypeOK

LEMMA StartTypes ==
    ASSUME NoteTypeOK, NEW request \in Requests, Start(request)
    PROVE  NoteTypeOK'
<1> USE MaxQueuedAssumption DEF MaxQueuedAssumption
<1>1. started' \in BOOLEAN /\ armed' \in BOOLEAN
  BY DEF NoteTypeOK, Start, CanStart
<1>2. queued' \in 0..MaxQueued
  BY DEF NoteTypeOK, Start, CanStart
<1>3. armed' => queued' < MaxQueued
  BY DEF NoteTypeOK, Start, CanStart
<1>4. pending' \in {"none"} \cup Requests \cup Outcomes
  BY DEF NoteTypeOK, Start, CanStart
<1> QED
  BY <1>1, <1>2, <1>3, <1>4 DEF NoteTypeOK

LEMMA StartThenNotifyTypes ==
    ASSUME NoteTypeOK, NEW outcome \in Outcomes, StartThenNotify(outcome)
    PROVE  NoteTypeOK'
<1> USE MaxQueuedAssumption DEF MaxQueuedAssumption
<1>1. started' \in BOOLEAN /\ armed' \in BOOLEAN
  BY DEF NoteTypeOK, StartThenNotify, CanStart
<1>2. queued' \in 0..MaxQueued
  BY DEF NoteTypeOK, StartThenNotify, CanStart
<1>3. armed' => queued' < MaxQueued
  BY DEF NoteTypeOK, StartThenNotify, CanStart
<1>4. pending' \in {"none"} \cup Requests \cup Outcomes
  BY DEF NoteTypeOK, StartThenNotify, CanStart
<1> QED
  BY <1>1, <1>2, <1>3, <1>4 DEF NoteTypeOK

LEMMA TimerTypes ==
    ASSUME NoteTypeOK, TimerExpires \/ TimerHandler
    PROVE  NoteTypeOK'
<1> USE MaxQueuedAssumption DEF MaxQueuedAssumption
<1>1. started' \in BOOLEAN /\ armed' \in BOOLEAN
  BY DEF NoteTypeOK, TimerExpires, TimerHandler
<1>2. queued' \in 0..MaxQueued
  BY DEF NoteTypeOK, TimerExpires, TimerHandler
<1>3. armed' => queued' < MaxQueued
  BY DEF NoteTypeOK, TimerExpires, TimerHandler
<1>4. pending' \in {"none"} \cup Requests \cup Outcomes
  BY DEF NoteTypeOK, TimerExpires, TimerHandler
<1> QED
  BY <1>1, <1>2, <1>3, <1>4 DEF NoteTypeOK

\* The part of the type invariant about the slot's own variables.
SlotTypeOK ==
    /\ state \in StateNames
    /\ process \in Procs \cup {None}
    /\ gadget \in BOOLEAN
    /\ target \in BOOLEAN
    /\ udevEvent \in {"none"} \cup Changes
    /\ stopEvent \in BOOLEAN
    /\ bound \in BOOLEAN
    /\ tick \in {"off", "armed", "due"}
    /\ dangling \in BOOLEAN

StopTypeOK ==
    /\ stopper \in [Procs -> BOOLEAN]
    /\ hangup \in BOOLEAN

\* What delivering an event may change.
EventTypeOK == NoteTypeOK /\ SlotTypeOK /\ StopTypeOK

LEMMA DestroyProcessTypes ==
    ASSUME SlotTypeOK, StopTypeOK, DestroyProcess
    PROVE  process' \in Procs \cup {None} /\ StopTypeOK'
BY DEF SlotTypeOK, StopTypeOK, DestroyProcess, Stop

LEMMA ToReadyTypes ==
    ASSUME EventTypeOK, NEW outcome \in Outcomes, ToReady(outcome),
           gadget' \in BOOLEAN, bound' \in BOOLEAN
    PROVE  EventTypeOK'
BY NotifyTypes, DestroyProcessTypes
   DEF EventTypeOK, ToReady, SlotTypeOK, StateNames

LEMMA ToDeactivatingTypes ==
    ASSUME SlotTypeOK, StopTypeOK, NEW udev \in {"none"} \cup Changes,
           NEW stopped \in BOOLEAN, ToDeactivating(udev, stopped)
    PROVE  SlotTypeOK' /\ StopTypeOK'
BY DestroyProcessTypes DEF SlotTypeOK, ToDeactivating, DestroyGadget, StateNames

LEMMA EvaluateTypes ==
    ASSUME EventTypeOK, NEW udev \in Changes, Evaluate(udev)
    PROVE  EventTypeOK'
BY ToReadyTypes DEF Evaluate, DestroyGadget, Outcomes, EventTypeOK, SlotTypeOK

LEMMA HoldTypes ==
    ASSUME EventTypeOK, NEW udev \in {"none"} \cup Changes,
           NEW stopped \in BOOLEAN, Hold(udev, stopped)
    PROVE  EventTypeOK'
BY DEF EventTypeOK, NoteTypeOK, SlotTypeOK, StopTypeOK, Hold, noteVars

LEMMA SubprocessStoppedTypes ==
    ASSUME EventTypeOK, SubprocessStopped
    PROVE  EventTypeOK'
<1>1. CASE state \in {"Initial", "Ready"} /\ UNCHANGED <<slotVars, noteVars, stopper, hangup>>
  BY <1>1 DEF EventTypeOK, NoteTypeOK, SlotTypeOK, StopTypeOK, slotVars, noteVars
<1>2. CASE ToReady("error") /\ DestroyGadget
  BY <1>2, ToReadyTypes DEF DestroyGadget, Outcomes, EventTypeOK, SlotTypeOK
<1>3. CASE ToDeactivating("none", TRUE) /\ UNCHANGED noteVars
  BY <1>3, ToDeactivatingTypes DEF EventTypeOK, NoteTypeOK, noteVars
<1>4. CASE udevEvent # "none" /\ Evaluate(udevEvent)
  BY <1>4, EvaluateTypes DEF EventTypeOK, SlotTypeOK
<1>5. CASE Hold("none", TRUE)
  BY <1>5, HoldTypes
<1> QED
  BY <1>1, <1>2, <1>3, <1>4, <1>5 DEF SubprocessStopped

LEMMA ConfigureGadgetTypes ==
    ASSUME EventTypeOK, ConfigureGadget
    PROVE  EventTypeOK'
<1>1. CASE ToReady("error") /\ gadget' = FALSE /\ bound' = FALSE
  BY <1>1, ToReadyTypes DEF Outcomes
<1>2. CASE ~(ToReady("error") /\ gadget' = FALSE /\ bound' = FALSE)
  <2>1. NoteTypeOK'
    BY <1>2, NotifyTypes DEF ConfigureGadget, EventTypeOK, Outcomes
  <2>2. SlotTypeOK' /\ StopTypeOK'
    BY <1>2 DEF ConfigureGadget, EventTypeOK, SlotTypeOK, StopTypeOK, StateNames
  <2> QED
    BY <2>1, <2>2 DEF EventTypeOK
<1> QED
  BY <1>1, <1>2

LEMMA UdevStateChangeTypes ==
    ASSUME EventTypeOK, NEW change \in Changes, UdevStateChange(change)
    PROVE  EventTypeOK'
<1>1. CASE state \in {"Initial", "Ready"} /\ UNCHANGED <<slotVars, noteVars, stopper, hangup>>
  BY <1>1 DEF EventTypeOK, NoteTypeOK, SlotTypeOK, StopTypeOK, slotVars, noteVars
<1>2. CASE ConfigureGadget
  BY <1>2, ConfigureGadgetTypes
<1>3. CASE ToDeactivating(change, FALSE) /\ UNCHANGED noteVars
  BY <1>3, ToDeactivatingTypes DEF EventTypeOK, NoteTypeOK, noteVars
<1>4. CASE Evaluate(change)
  BY <1>4, EvaluateTypes
<1>5. CASE Hold(change, FALSE)
  BY <1>5, HoldTypes
<1> QED
  BY <1>1, <1>2, <1>3, <1>4, <1>5 DEF UdevStateChange

LEMMA TypeOKParts ==
    ASSUME EventTypeOK', ProcTypeOK', known' \in Changes,
           unmountPosted' \in BOOLEAN
    PROVE  TypeOK'
BY DEF TypeOK, EventTypeOK, SlotTypeOK

LEMMA NoteUnchanged ==
    ASSUME NoteTypeOK, UNCHANGED noteVars
    PROVE  NoteTypeOK'
BY DEF NoteTypeOK, noteVars

LEMMA ProcUnchanged ==
    ASSUME ProcTypeOK, UNCHANGED procVars
    PROVE  ProcTypeOK'
BY DEF ProcTypeOK, procVars

LEMMA TerminateTypes ==
    ASSUME TypeOK, Terminate
    PROVE  TypeOK'
<1>1. NoteTypeOK'
  <2> USE MaxQueuedAssumption DEF MaxQueuedAssumption, Terminate
  <2>1. queued' \in 0..MaxQueued
    OBVIOUS
  <2>2. started' = FALSE /\ armed' = FALSE /\ pending' = "none"
    OBVIOUS
  <2> QED
    BY <2>1, <2>2 DEF NoteTypeOK
<1>2. ProcTypeOK'
  BY DEF Terminate, TypeOK, ProcTypeOK, ChildStates, ReaderStates
<1>3. SlotTypeOK'
  BY DEF Terminate, TypeOK, SlotTypeOK, StateNames
<1>4. known' \in Changes /\ unmountPosted' \in BOOLEAN
  BY DEF Terminate, Changes
<1> QED
  BY <1>1, <1>2, <1>3, <1>4 DEF TypeOK, SlotTypeOK

LEMMA TypeInductive ==
    ASSUME TypeOK, [Next]_vars
    PROVE  TypeOK'
<1> USE DEF Changes, Requests, Outcomes
<1>0. EventTypeOK /\ NoteTypeOK /\ SlotTypeOK /\ ProcTypeOK
  BY DEF TypeOK, EventTypeOK, SlotTypeOK, StopTypeOK, ProcTypeOK
<1>1. CASE Register
  BY <1>1 DEF Register, TypeOK, NoteTypeOK, ProcTypeOK, noteVars, procVars, StateNames
<1>2. ASSUME Terminate PROVE TypeOK'
  BY <1>2, TerminateTypes
<1>3. CASE MountSpawns
  <2>1. NoteTypeOK'
    BY <1>0, <1>3, StartTypes DEF MountSpawns
  <2>2. ProcTypeOK' /\ process' \in Procs
    BY <1>3 DEF MountSpawns, Spawn, TypeOK, ProcTypeOK, ChildStates, ReaderStates
  <2> QED
    BY <1>3, <2>1, <2>2 DEF MountSpawns, TypeOK, StateNames
<1>4. CASE MountFails
  BY <1>0, <1>4, StartThenNotifyTypes
     DEF MountFails, TypeOK, ProcTypeOK, slotVars, procVars
<1>5. CASE MountThrows
  BY <1>0, <1>5, StartTypes DEF MountThrows, TypeOK, ProcTypeOK, procVars, StateNames
<1>6. ASSUME UnmountEvent PROVE EventTypeOK'
  BY <1>0, <1>6, StartTypes, ToDeactivatingTypes DEF UnmountEvent, EventTypeOK
<1>7. CASE Unmount
  <2>1. EventTypeOK' /\ StopTypeOK'
    BY <1>6, <1>7 DEF Unmount, EventTypeOK
  <2>2. ProcTypeOK'
    BY <1>0, <1>7, <2>1 DEF Unmount, ProcTypeOK, StopTypeOK
  <2> QED
    BY <1>7, <2>1, <2>2, TypeOKParts DEF Unmount, TypeOK
<1>8. ASSUME NEW p \in Procs, ProcessExit(p) PROVE TypeOK'
  <2>1. EventTypeOK' /\ StopTypeOK'
    BY <1>0, <1>8, SubprocessStoppedTypes DEF ProcessExit, EventTypeOK
  <2>2. ProcTypeOK'
    BY <1>0, <1>8, <2>1 DEF ProcessExit, ReaderEnds, ProcTypeOK, StopTypeOK,
                            ChildStates, ReaderStates
  <2> QED
    BY <1>8, <2>1, <2>2, TypeOKParts DEF ProcessExit, TypeOK
<1>9. ASSUME NEW p \in Procs, PostedStop(p) PROVE TypeOK'
  <2>1. EventTypeOK' /\ StopTypeOK'
    BY <1>0, <1>9, SubprocessStoppedTypes DEF PostedStop, EventTypeOK
  <2>2. ProcTypeOK'
    BY <1>0, <1>9, <2>1 DEF PostedStop, TakePosted, ProcTypeOK, StopTypeOK
  <2> QED
    BY <1>9, <2>1, <2>2, TypeOKParts DEF PostedStop, TypeOK
<1>10. ASSUME NEW p \in Procs, StopperEnds(p) PROVE TypeOK'
  <2>1. ProcTypeOK'
    BY <1>0, <1>10 DEF StopperEnds, StopperFinds, StopperKills, ProcTypeOK, ChildStates
  <2> QED
    BY <1>0, <1>10, <2>1, NoteUnchanged DEF StopperEnds, TypeOK, slotVars
<1>11. CASE Monitor
  <2>1. Current \in Changes
    BY DEF Current
  <2>2. EventTypeOK'
    <3>1. CASE UdevStateChange(Current)
      BY <1>0, <2>1, <3>1, UdevStateChangeTypes
    <3>2. CASE UNCHANGED <<slotVars, noteVars, stopper, hangup>>
      BY <1>0, <3>2 DEF EventTypeOK, NoteTypeOK, SlotTypeOK, StopTypeOK, slotVars, noteVars
    <3> QED
      BY <1>11, <3>1, <3>2 DEF Monitor
  <2>3. StopTypeOK'
    BY <2>2 DEF EventTypeOK
  <2>4. ProcTypeOK'
    BY <1>0, <1>11, <2>3 DEF Monitor, ProcTypeOK, StopTypeOK
  <2> QED
    BY <1>11, <2>1, <2>2, <2>4, TypeOKParts DEF Monitor, TypeOK
<1>12. CASE TickExpires \/ TickRearms \/ TickPosts
  <2>1. NoteTypeOK' /\ ProcTypeOK'
    BY <1>0, <1>12, NoteUnchanged, ProcUnchanged
       DEF TickExpires, TickRearms, TickPosts
  <2>2. CASE TickExpires
    BY <2>1, <2>2 DEF TickExpires, TypeOK
  <2>3. CASE TickRearms
    BY <2>1, <2>3 DEF TickRearms, TypeOK
  <2>4. CASE TickPosts
    BY <2>1, <2>4 DEF TickPosts, TypeOK
  <2> QED
    BY <1>12, <2>2, <2>3, <2>4
<1>13. CASE DanglingTick
  BY <1>0, <1>2, <1>13, NoteUnchanged, ProcUnchanged DEF DanglingTick, TypeOK
<1>14. CASE PostedUnmount
  <2>1. CASE UnmountEvent /\ unmountPosted' = FALSE
             /\ UNCHANGED <<known, child, reader, posted, device, uevent>>
    <3>1. EventTypeOK' /\ StopTypeOK'
      BY <1>6, <2>1 DEF EventTypeOK
    <3>2. ProcTypeOK'
      BY <1>0, <2>1, <3>1 DEF ProcTypeOK, StopTypeOK
    <3> QED
      BY <2>1, <3>1, <3>2, TypeOKParts DEF TypeOK
  <2> QED
    BY <1>2, <1>14, <2>1 DEF PostedUnmount
<1>15. CASE NoteTimer
  BY <1>0, <1>15, TimerTypes DEF NoteTimer, TypeOK, ProcTypeOK, slotVars, procVars
<1>16. CASE World
  <2>1. ProcTypeOK'
    BY <1>16 DEF World, Connect, ChildExits, OutputCloses, Disconnected,
                 TypeOK, ProcTypeOK, ChildStates, ReaderStates
  <2> QED
    BY <1>16, <2>1 DEF World, TypeOK, NoteTypeOK, slotVars, noteVars
<1>17. CASE UNCHANGED vars
  BY <1>0, <1>17, NoteUnchanged, ProcUnchanged DEF vars, TypeOK, slotVars
<1> QED
  BY <1>1, <1>2, <1>3, <1>4, <1>5, <1>7, <1>8, <1>9, <1>10, <1>11, <1>12,
     <1>13, <1>14, <1>15, <1>16, <1>17 DEF Next, Crash

LEMMA InitTypes ==
    ASSUME Init
    PROVE  TypeOK
<1>1. queued \in 0..MaxQueued
  BY MaxQueuedAssumption DEF MaxQueuedAssumption, Init, NoteInit
<1>2. NoteTypeOK
  BY <1>1 DEF Init, NoteInit, NoteTypeOK
<1>3. ProcTypeOK
  BY DEF Init, ProcInit, ProcTypeOK, ChildStates, ReaderStates
<1> QED
  BY <1>2, <1>3 DEF Init, TypeOK, StateNames, Changes

(* The type invariant, NoteTypeOK and ProcTypeOK included.                 *)
THEOREM TypeCorrect == Spec => []TypeOK
<1>1. Init => TypeOK
  BY InitTypes
<1>2. TypeOK /\ [Next]_vars => TypeOK'
  BY TypeInductive
<1> QED
  BY <1>1, <1>2, PTL DEF Spec

-----------------------------------------------------------------------------
(* Resources are held by the states that use them.                         *)

LEMMA CleanStop ==
    ASSUME TypeOK, ReadyIsClean, SubprocessStopped, UNCHANGED <<known, unmountPosted>>
    PROVE  ReadyIsClean'
BY DEF ReadyIsClean, SubprocessStopped, ToReady, ToDeactivating, Evaluate, Hold,
       DestroyProcess, DestroyGadget, TypeOK, slotVars
LEMMA CleanUdev ==
    ASSUME TypeOK, ReadyIsClean, NEW change \in Changes, UdevStateChange(change), UNCHANGED unmountPosted,
           state = "Initial" => known' = known
    PROVE  ReadyIsClean'
BY DEF ReadyIsClean, UdevStateChange, ConfigureGadget, ToReady, ToDeactivating, Evaluate, Hold,
       DestroyProcess, DestroyGadget, TypeOK, slotVars
LEMMA CleanStep ==
    ASSUME TypeOK, ReadyIsClean, [Next]_vars
    PROVE  ReadyIsClean'
<1>1. CASE Register
  BY <1>1 DEF Register, ReadyIsClean
<1>2. ASSUME Terminate PROVE ReadyIsClean'
  BY <1>2 DEF Terminate, ReadyIsClean
<1>3. CASE MountSpawns
  BY <1>3 DEF MountSpawns, ReadyIsClean
<1>11. CASE MountThrows
  BY <1>11 DEF MountThrows, ReadyIsClean
<1>12. CASE MountFails
  BY <1>12 DEF MountFails, ReadyIsClean, slotVars
<1>4. ASSUME UnmountEvent, UNCHANGED known PROVE ReadyIsClean'
  BY <1>4 DEF UnmountEvent, ToDeactivating, DestroyProcess, DestroyGadget, ReadyIsClean
<1>5. CASE \E p \in Procs : ProcessExit(p) \/ PostedStop(p)
  BY <1>5, CleanStop DEF ProcessExit, PostedStop
<1>6. CASE Monitor
  <2>1. Current \in Changes
    BY DEF Current, Changes
  <2>2. CASE UNCHANGED <<slotVars, noteVars, stopper, hangup>>
    BY <1>6, <2>2 DEF Monitor, slotVars, ReadyIsClean
  <2>3. state # "Initial" /\ UNCHANGED unmountPosted
    BY <1>6 DEF Monitor
  <2> QED
    BY <1>6, <2>1, <2>2, <2>3, CleanUdev DEF Monitor
<1>7. CASE TickExpires \/ TickRearms
  BY <1>7 DEF TickExpires, TickRearms, ReadyIsClean
<1>13. CASE TickPosts
  BY <1>13 DEF TickPosts, ReadyIsClean, TypeOK
<1>8. CASE DanglingTick
  <2>1. state # "Initial"
    BY <1>8 DEF DanglingTick, ReadyIsClean
  <2>2. CASE dangling' = FALSE /\ UNCHANGED <<state, process, gadget, target, tick, known>>
    BY <2>1, <2>2 DEF ReadyIsClean
  <2> QED
    BY <1>2, <1>8, <2>2 DEF DanglingTick
<1>9. CASE \/ \E p \in Procs : StopperEnds(p)
           \/ NoteTimer
           \/ World
           \/ UNCHANGED vars
  BY <1>9 DEF StopperEnds, NoteTimer, World, ReadyIsClean, slotVars, vars
<1> QED
  BY <1>1, <1>2, <1>3, <1>4, <1>5, <1>6, <1>7, <1>8, <1>9, <1>11, <1>12, <1>13
     DEF Next, Crash, Unmount, PostedUnmount

-----------------------------------------------------------------------------
(* No child process is lost.                                               *)

\* Delivering an event keeps the process or lets go of it.
LEMMA StopKeepsOrDestroys ==
    ASSUME SubprocessStopped
    PROVE  UNCHANGED <<process, stopper>> \/ DestroyProcess
BY DEF SubprocessStopped, ToReady, ToDeactivating, Evaluate, Hold, slotVars

LEMMA UdevKeepsOrDestroys ==
    ASSUME NEW change, UdevStateChange(change)
    PROVE  UNCHANGED <<process, stopper>> \/ DestroyProcess
BY DEF UdevStateChange, ConfigureGadget, ToReady, ToDeactivating, Evaluate,
       Hold, slotVars

\* A step that starts no child and keeps or destroys the process.
LEMMA NoOrphanKept ==
    ASSUME TypeOK, NoOrphan,
           UNCHANGED <<process, stopper>> \/ DestroyProcess,
           \A p \in Procs : Running(p)' => Running(p)
    PROVE  NoOrphan'
<1>1. CASE UNCHANGED <<process, stopper>>
  BY <1>1 DEF NoOrphan
<1>2. CASE DestroyProcess
  BY <1>2 DEF NoOrphan, DestroyProcess, Stop, TypeOK, ProcTypeOK
<1> QED
  BY <1>1, <1>2

LEMMA NoOrphanStep ==
    ASSUME TypeOK, ReadyIsClean, NoOrphan, [Next]_vars
    PROVE  NoOrphan'
<1>1. CASE \/ Register \/ MountFails \/ MountThrows \/ TickExpires
           \/ TickRearms \/ TickPosts \/ NoteTimer \/ UNCHANGED vars
  <2>1. UNCHANGED <<child, process, stopper>>
    BY <1>1 DEF Register, MountFails, MountThrows, TickExpires, TickRearms,
                TickPosts, NoteTimer, procVars, slotVars, vars
  <2> QED
    BY <2>1 DEF NoOrphan, Running
<1>2. ASSUME Terminate PROVE NoOrphan'
  BY <1>2 DEF Terminate, NoOrphan, Running
<1>3. CASE MountSpawns
  <2>1. process = None /\ stopper' = stopper
    BY <1>3, NoneAssumption DEF MountSpawns, ReadyIsClean
  <2>2. PICK p \in Procs : Spawn(p) /\ process' = p
    BY <1>3 DEF MountSpawns
  <2>3. \A q \in Procs : q # p => child'[q] = child[q]
    BY <2>2 DEF Spawn, TypeOK, ProcTypeOK
  <2> QED
    BY <2>1, <2>2, <2>3, NoneAssumption DEF NoOrphan, Running, NoneAssumption
<1>4. ASSUME UnmountEvent, UNCHANGED child PROVE NoOrphan'
  BY <1>4, NoOrphanKept DEF UnmountEvent, ToDeactivating, Running
<1>5. ASSUME NEW p \in Procs, ProcessExit(p) PROVE NoOrphan'
  <2>1. \A q \in Procs : Running(q)' => Running(q)
    BY <1>5 DEF ProcessExit, ReaderEnds, Running, TypeOK, ProcTypeOK
  <2> QED
    BY <1>5, <2>1, StopKeepsOrDestroys, NoOrphanKept DEF ProcessExit
<1>6. ASSUME NEW p \in Procs, PostedStop(p) PROVE NoOrphan'
  BY <1>6, StopKeepsOrDestroys, NoOrphanKept DEF PostedStop, TakePosted, Running
<1>7. ASSUME NEW p \in Procs, StopperEnds(p) PROVE NoOrphan'
  <2>1. ~Running(p)' /\ process' = process
    BY <1>7 DEF StopperEnds, StopperFinds, StopperKills, Running, slotVars,
                TypeOK, ProcTypeOK
  <2>2. \A q \in Procs : q # p => child'[q] = child[q] /\ stopper'[q] = stopper[q]
    BY <1>7 DEF StopperEnds, StopperFinds, StopperKills, TypeOK, ProcTypeOK
  <2> QED
    BY <2>1, <2>2 DEF NoOrphan, Running
<1>8. CASE Monitor
  <2>1. UNCHANGED <<process, stopper>> \/ DestroyProcess
    BY <1>8, UdevKeepsOrDestroys DEF Monitor, slotVars
  <2> QED
    BY <1>8, <2>1, NoOrphanKept DEF Monitor, Running
<1>9. CASE DanglingTick
  BY <1>2, <1>9 DEF DanglingTick, procVars, NoOrphan, Running
<1>10. CASE World
  <2>1. \A q \in Procs : Running(q)' => Running(q)
    BY <1>10 DEF World, Connect, ChildExits, OutputCloses, Disconnected,
                 Running, TypeOK, ProcTypeOK
  <2>2. UNCHANGED <<process, stopper>>
    BY <1>10 DEF World, Connect, ChildExits, OutputCloses, Disconnected, slotVars
  <2> QED
    BY <2>1, <2>2, NoOrphanKept
<1> QED
  BY <1>1, <1>2, <1>3, <1>4, <1>5, <1>6, <1>7, <1>8, <1>9, <1>10
     DEF Next, Crash, Unmount, PostedUnmount

-----------------------------------------------------------------------------
(* A Completion is owed only during a transition.                          *)

LEMMA NotifySettles ==
    ASSUME NEW outcome, Notify(outcome)
    PROVE  ~started'
BY DEF Notify, noteVars

LEMMA OwedUnchanged ==
    ASSUME CompletionOwed, UNCHANGED noteVars, started => state' \in {state, "Deactivating"}
    PROVE  CompletionOwed'
BY DEF CompletionOwed, noteVars

LEMMA StopKeepsOwed ==
    ASSUME TypeOK, CompletionOwed, SubprocessStopped
    PROVE  CompletionOwed'
<1>1. CASE started'
  <2>1. UNCHANGED noteVars /\ state' \in {state, "Deactivating"}
    BY <1>1, NotifySettles DEF SubprocessStopped, ToReady, Evaluate,
       ToDeactivating, Hold, slotVars
  <2> QED
    BY <2>1, OwedUnchanged
<1> QED
  BY <1>1 DEF CompletionOwed

LEMMA UdevKeepsOwed ==
    ASSUME TypeOK, CompletionOwed, NEW change, UdevStateChange(change)
    PROVE  CompletionOwed'
<1>1. CASE started'
  <2>1. UNCHANGED noteVars /\ state' \in {state, "Deactivating"}
    BY <1>1, NotifySettles DEF UdevStateChange, ConfigureGadget, ToReady,
       Evaluate, ToDeactivating, Hold, slotVars
  <2> QED
    BY <2>1, OwedUnchanged
<1> QED
  BY <1>1 DEF CompletionOwed

LEMMA OwedStep ==
    ASSUME TypeOK, CompletionOwed, [Next]_vars
    PROVE  CompletionOwed'
<1>1. CASE \/ TickExpires \/ TickRearms \/ TickPosts \/ World
           \/ (\E p \in Procs : StopperEnds(p)) \/ UNCHANGED vars
  <2>1. UNCHANGED <<noteVars, state>>
    BY <1>1 DEF TickExpires, TickRearms, TickPosts, World, StopperEnds,
                slotVars, vars
  <2> QED
    BY <2>1, OwedUnchanged
<1>2. ASSUME Terminate PROVE CompletionOwed'
  BY <1>2 DEF Terminate, CompletionOwed
<1>3. CASE Register
  BY <1>3 DEF Register, CompletionOwed, noteVars
<1>4. CASE MountSpawns \/ MountThrows
  BY <1>4 DEF MountSpawns, MountThrows, Start, CompletionOwed, Requests
<1>5. CASE MountFails
  BY <1>5 DEF MountFails, StartThenNotify, CompletionOwed
<1>6. ASSUME UnmountEvent PROVE CompletionOwed'
  BY <1>6 DEF UnmountEvent, Start, ToDeactivating, CompletionOwed, Requests
<1>7. CASE \E p \in Procs : ProcessExit(p) \/ PostedStop(p)
  BY <1>7, StopKeepsOwed DEF ProcessExit, PostedStop
<1>8. CASE Monitor
  BY <1>8, UdevKeepsOwed, OwedUnchanged DEF Monitor, slotVars
<1>9. CASE DanglingTick
  BY <1>2, <1>9, OwedUnchanged DEF DanglingTick
<1>10. CASE NoteTimer
  <2>1. CASE TimerExpires
    <3>1. armed /\ queued' = queued + 1 /\ UNCHANGED <<started, pending, state>>
      BY <1>10, <2>1 DEF NoteTimer, TimerExpires, slotVars
    <3>2. queued' > 0
      BY <3>1 DEF TypeOK, NoteTypeOK
    <3> QED
      BY <3>1, <3>2 DEF CompletionOwed
  <2>2. CASE TimerHandler
    BY <2>2 DEF TimerHandler, CompletionOwed
  <2> QED
    BY <1>10, <2>1, <2>2 DEF NoteTimer
<1> QED
  BY <1>1, <1>2, <1>3, <1>4, <1>5, <1>6, <1>7, <1>8, <1>9, <1>10
     DEF Next, Crash, Unmount, PostedUnmount

-----------------------------------------------------------------------------
(* The host sees a medium only in ActiveState.                             *)

LEMMA MediaStep ==
    ASSUME TypeOK, ReadyIsClean, MediaOnlyWhenActive, [Next]_vars
    PROVE  MediaOnlyWhenActive'
<1>1. CASE Mode = "proxy"
  BY <1>1 DEF MediaOnlyWhenActive
<1> SUFFICES ASSUME Mode = "legacy" PROVE MediaOnlyWhenActive'
  BY <1>1, ModeAssumption DEF ModeAssumption
<1>2. CASE state' = state /\ bound' = bound
  BY <1>2 DEF MediaOnlyWhenActive
<1>3. ASSUME Terminate PROVE MediaOnlyWhenActive'
  BY <1>3 DEF Terminate, MediaOnlyWhenActive
<1>4. CASE Register
  BY <1>4 DEF Register, MediaOnlyWhenActive
<1>5. CASE MountSpawns \/ MountThrows
  BY <1>5 DEF MountSpawns, MountThrows, MediaOnlyWhenActive
<1>6. ASSUME UnmountEvent PROVE ~bound'
  BY <1>6 DEF UnmountEvent, ToDeactivating, DestroyGadget, ReadyIsClean
<1>7. ASSUME SubprocessStopped PROVE MediaOnlyWhenActive'
  BY <1>7 DEF SubprocessStopped, Evaluate, ToReady, ToDeactivating, DestroyGadget,
              Hold, ReadyIsClean, MediaOnlyWhenActive, slotVars
<1>8. ASSUME NEW change, UdevStateChange(change) PROVE MediaOnlyWhenActive'
  BY <1>8 DEF UdevStateChange, ConfigureGadget, Evaluate, ToReady, ToDeactivating,
              DestroyGadget, Hold, ReadyIsClean, MediaOnlyWhenActive, slotVars
<1>9. CASE Monitor
  BY <1>2, <1>8, <1>9 DEF Monitor, slotVars
<1>10. CASE \/ MountFails \/ TickExpires \/ TickRearms \/ TickPosts \/ World
            \/ (\E p \in Procs : StopperEnds(p)) \/ NoteTimer \/ UNCHANGED vars
  BY <1>2, <1>10 DEF MountFails, TickExpires, TickRearms, TickPosts, World,
     StopperEnds, NoteTimer, slotVars, vars
<1> QED
  BY <1>2, <1>3, <1>4, <1>5, <1>6, <1>7, <1>9, <1>10
     DEF Next, Crash, Unmount, PostedUnmount, ProcessExit, PostedStop,
         DanglingTick, MediaOnlyWhenActive

-----------------------------------------------------------------------------
(* The stop event that a state waits for is coming.                        *)

LEMMA ComingUnchanged ==
    ASSUME StopIsComing, UNCHANGED <<state, process, stopEvent>>,
           \A p \in Procs : reader[p] # "none" => reader'[p] # "none",
           \A p \in Procs : reader[p] # "none" \/ posted[p]
                            => reader'[p] # "none" \/ posted'[p],
           process \in Procs \cup {None}
    PROVE  StopIsComing'
BY DEF StopIsComing

\* After a stop event nothing is waited for any more.
LEMMA StopEndsWait ==
    ASSUME ReadyIsClean, SubprocessStopped
    PROVE  /\ process' = None
           /\ state' \notin {"Activating", "Active"}
           /\ state' = "Deactivating" => stopEvent'
BY DEF SubprocessStopped, ToReady, ToDeactivating, Evaluate, Hold,
       DestroyProcess, ReadyIsClean, slotVars

\* A uevent ends the wait, lets it go on, or turns it over to the process
\* that is destroyed in the same step.
LEMMA UdevKeepsComing ==
    ASSUME TypeOK, ReadyIsClean, StopIsComing, NEW change,
           UdevStateChange(change), UNCHANGED <<reader, posted>>
    PROVE  StopIsComing'
<1>1. CASE state \in {"Initial", "Ready"} /\ UNCHANGED slotVars
  BY <1>1 DEF StopIsComing, slotVars
<1>2. CASE state = "Activating" /\ ConfigureGadget
  BY <1>2 DEF ConfigureGadget, ToReady, DestroyProcess, StopIsComing
<1>3. CASE state \in {"Activating", "Active"} /\ ToDeactivating(change, FALSE)
  BY <1>3, NoneAssumption DEF ToDeactivating, DestroyProcess, StopIsComing, TypeOK
<1>4. CASE Evaluate(change)
  BY <1>4 DEF Evaluate, ToReady, DestroyProcess, StopIsComing
<1>5. CASE ~stopEvent /\ Hold(change, FALSE)
  BY <1>5 DEF Hold, StopIsComing
<1> QED
  BY <1>1, <1>2, <1>3, <1>4, <1>5 DEF UdevStateChange, slotVars

LEMMA ComingStep ==
    ASSUME TypeOK, ReadyIsClean, StopIsComing, [Next]_vars
    PROVE  StopIsComing'
<1>1. CASE \/ TickExpires \/ TickRearms \/ TickPosts \/ MountFails
           \/ NoteTimer \/ UNCHANGED vars
  BY <1>1, ComingUnchanged DEF TickExpires, TickRearms, TickPosts, MountFails,
     NoteTimer, procVars, slotVars, vars, TypeOK
<1>2. ASSUME Terminate PROVE StopIsComing'
  BY <1>2 DEF Terminate, StopIsComing
<1>3. CASE Register
  BY <1>3 DEF Register, StopIsComing, ReadyIsClean, procVars
<1>4. CASE MountSpawns
  <2>1. PICK p \in Procs : Spawn(p) /\ process' = p
    BY <1>4 DEF MountSpawns
  <2>2. reader'[p] = "reading" /\ state' = "Activating" /\ p # None
    BY <1>4, <2>1, NoneAssumption DEF NoneAssumption, MountSpawns, Spawn, TypeOK, ProcTypeOK
  <2> QED
    BY <2>1, <2>2 DEF StopIsComing
<1>5. CASE MountThrows
  BY <1>5 DEF MountThrows, StopIsComing, ReadyIsClean
<1>6. ASSUME UnmountEvent, UNCHANGED <<reader, posted>> PROVE StopIsComing'
  BY <1>6, NoneAssumption DEF UnmountEvent, ToDeactivating, DestroyProcess, StopIsComing, TypeOK
<1>7. CASE \E p \in Procs : ProcessExit(p) \/ PostedStop(p)
  <2>1. SubprocessStopped
    BY <1>7 DEF ProcessExit, PostedStop
  <2> QED
    BY <2>1, StopEndsWait DEF StopIsComing
<1>8. CASE Monitor
  <2>1. CASE UNCHANGED slotVars
    BY <1>8, <2>1, ComingUnchanged DEF Monitor, slotVars, TypeOK
  <2> QED
    BY <1>8, <2>1, UdevKeepsComing DEF Monitor
<1>9. CASE DanglingTick
  BY <1>2, <1>9, ComingUnchanged DEF DanglingTick, procVars, TypeOK
<1>10. CASE \/ World
            \/ \E p \in Procs : StopperEnds(p)
  <2>1. UNCHANGED <<state, process, stopEvent>>
    BY <1>10 DEF World, StopperEnds, slotVars
  <2>2. \A p \in Procs : reader[p] # "none" => reader'[p] # "none"
    BY <1>10 DEF World, Connect, ChildExits, OutputCloses, Disconnected,
       StopperEnds, StopperFinds, StopperKills, TypeOK, ProcTypeOK
  <2>3. \A p \in Procs : posted[p] => posted'[p]
    BY <1>10 DEF World, Connect, ChildExits, OutputCloses, Disconnected,
       StopperEnds, StopperFinds, StopperKills, TypeOK, ProcTypeOK
  <2> QED
    BY <2>1, <2>2, <2>3, ComingUnchanged DEF TypeOK
<1> QED
  BY <1>1, <1>2, <1>3, <1>4, <1>5, <1>6, <1>7, <1>8, <1>9, <1>10
     DEF Next, Crash, Unmount, PostedUnmount

-----------------------------------------------------------------------------
(* The removal that DeactivatingState waits for is coming.                 *)

LEMMA RemovalUnchanged ==
    ASSUME RemovalIsComing, UNCHANGED <<state, udevEvent, known, device, uevent>>
    PROVE  RemovalIsComing'
BY DEF RemovalIsComing

LEMMA StopKeepsRemoval ==
    ASSUME TypeOK, RemovalIsComing, SubprocessStopped,
           UNCHANGED <<known, device, uevent>>
    PROVE  RemovalIsComing'
BY DEF SubprocessStopped, ToReady, ToDeactivating, Evaluate, Hold,
       RemovalIsComing, slotVars

LEMMA UdevKeepsRemoval ==
    ASSUME TypeOK, RemovalIsComing, UdevStateChange(known'), known' \in Changes,
           known' = "inserted" => device' # None
    PROVE  RemovalIsComing'
BY DEF UdevStateChange, ConfigureGadget, ToReady, ToDeactivating, Evaluate, Hold,
       RemovalIsComing, slotVars, Changes

LEMMA RemovalStep ==
    ASSUME TypeOK, ReadyIsClean, RemovalIsComing, [Next]_vars
    PROVE  RemovalIsComing'
<1>1. CASE \/ TickExpires \/ TickRearms \/ TickPosts \/ MountFails
           \/ NoteTimer \/ UNCHANGED vars
           \/ \E p \in Procs : StopperEnds(p)
  <2>1. UNCHANGED <<state, udevEvent, known, device, uevent>>
    BY <1>1 DEF TickExpires, TickRearms, TickPosts, MountFails, NoteTimer,
       StopperEnds, StopperFinds, StopperKills, procVars, slotVars, vars
  <2> QED
    BY <2>1, RemovalUnchanged
<1>2. ASSUME Terminate PROVE RemovalIsComing'
  BY <1>2 DEF Terminate, RemovalIsComing
<1>3. CASE Register
  BY <1>3 DEF Register, RemovalIsComing, procVars
<1>4. CASE MountSpawns \/ MountThrows
  BY <1>4 DEF MountSpawns, MountThrows, RemovalIsComing, procVars
<1>6. ASSUME UnmountEvent, UNCHANGED <<known, device, uevent>> PROVE RemovalIsComing'
  BY <1>6 DEF UnmountEvent, ToDeactivating, RemovalIsComing
<1>7. CASE \E p \in Procs : ProcessExit(p) \/ PostedStop(p)
  BY <1>7, StopKeepsRemoval DEF ProcessExit, ReaderEnds, PostedStop, TakePosted
<1>8. CASE Monitor
  <2>1. known' \in Changes /\ (known' = "inserted" => device' # None)
    BY <1>8 DEF Monitor, Current, Changes
  <2>2. CASE UdevStateChange(Current)
    BY <1>8, <2>1, <2>2, UdevKeepsRemoval DEF Monitor
  <2>3. CASE known = Current /\ UNCHANGED slotVars
    BY <1>8, <2>1, <2>3 DEF Monitor, slotVars, RemovalIsComing
  <2> QED
    BY <1>8, <2>2, <2>3 DEF Monitor
<1>9. CASE DanglingTick
  BY <1>2, <1>9, RemovalUnchanged DEF DanglingTick, procVars
<1>10. CASE World
  <2>1. UNCHANGED <<state, udevEvent, known>>
    BY <1>10 DEF World, slotVars
  <2>2. \/ UNCHANGED <<device, uevent>>
        \/ uevent'
        \/ state = "Initial"
    BY <1>10, NoneAssumption DEF World, Connect, ChildExits, OutputCloses, Disconnected
  <2> QED
    BY <2>1, <2>2 DEF RemovalIsComing, ReadyIsClean
<1> QED
  BY <1>1, <1>2, <1>3, <1>4, <1>6, <1>7, <1>8, <1>9, <1>10
     DEF Next, Crash, Unmount, PostedUnmount

-----------------------------------------------------------------------------
(* The inductive invariant: the properties strengthen each other, and the  *)
(* last two are inductive only on top of ReadyIsClean.                     *)

Inv ==
    /\ TypeOK
    /\ NoOrphan
    /\ StopIsComing
    /\ RemovalIsComing
    /\ CompletionOwed
    /\ ReadyIsClean
    /\ MediaOnlyWhenActive

(* The conjunction of all the safety invariants is inductive.              *)
THEOREM Invariance == Spec => []Inv
<1>1. Init => Inv
  <2> SUFFICES ASSUME Init PROVE Inv
    OBVIOUS
  <2>1. TypeOK
    BY InitTypes
  <2>2. NoOrphan
    BY DEF Init, ProcInit, NoOrphan, Running
  <2>3. StopIsComing /\ RemovalIsComing /\ CompletionOwed /\ ReadyIsClean
        /\ MediaOnlyWhenActive
    BY DEF Init, NoteInit, StopIsComing, RemovalIsComing, CompletionOwed,
           ReadyIsClean, MediaOnlyWhenActive
  <2> QED
    BY <2>1, <2>2, <2>3 DEF Inv
<1>2. Inv /\ [Next]_vars => Inv'
  BY TypeInductive, CleanStep, NoOrphanStep, OwedStep, MediaStep, ComingStep,
     RemovalStep DEF Inv
<1> QED
  BY <1>1, <1>2, PTL DEF Spec

(* resource::~Process and the stop coroutine: no child is ever lost.       *)
THEOREM NoChildIsLost == Spec => []NoOrphan
BY Invariance, PTL DEF Inv

(* The process of a state, and DeactivatingState without its stop event,   *)
(* have a stop event coming.                                               *)
THEOREM StopsArrive == Spec => []StopIsComing
BY Invariance, PTL DEF Inv

(* DeactivatingState never waits for a removal that was already delivered. *)
THEOREM RemovalsArrive == Spec => []RemovalIsComing
BY Invariance, PTL DEF Inv

(* The notification wrapper owes a Completion only during a transition.    *)
THEOREM NoUnsolicitedCompletion == Spec => []CompletionOwed
BY Invariance, PTL DEF Inv

(* Process, gadget, timer and target belong to the states that use them.   *)
THEOREM NothingIsLeftBehind == Spec => []ReadyIsClean
BY Invariance, PTL DEF Inv

(* The host sees a medium in ActiveState only, but for what a crash left.  *)
THEOREM NoStrayMedium == Spec => []MediaOnlyWhenActive
BY Invariance, PTL DEF Inv

-----------------------------------------------------------------------------
(* Completions.                                                            *)

\* How a step may change what the client knows: not at all, by a request, by
\* forgetting an answer, or by an answer at rest.
LEMMA NotifyAnswers ==
    ASSUME NEW outcome, Notify(outcome)
    PROVE  pending' = IF started THEN outcome ELSE pending
BY DEF Notify, noteVars

LEMMA StopAnswers ==
    ASSUME SubprocessStopped
    PROVE  \/ pending' = pending
           \/ pending' = "error" /\ state' = "Ready"
           \/ pending' = "ok" /\ state' = "Ready" /\ udevEvent = "removed"
              /\ state = "Deactivating"
BY NotifyAnswers DEF SubprocessStopped, ToReady, ToDeactivating, Evaluate, Hold, noteVars

LEMMA UdevAnswers ==
    ASSUME NEW change, UdevStateChange(change)
    PROVE  \/ pending' = pending
           \/ pending' = "error" /\ state' = "Ready"
           \/ pending' = "ok" /\ state' = "Ready" /\ change = "removed"
           \/ pending' = "ok" /\ state' = "Active" /\ state = "Activating" /\ started
BY NotifyAnswers DEF UdevStateChange, ConfigureGadget, ToReady, ToDeactivating, Evaluate,
   Hold, noteVars

LEMMA OutcomeSteps ==
    ASSUME [Next]_vars, pending' \in Outcomes, pending' # pending
    PROVE  \/ MountFails
           \/ SubprocessStopped /\ UNCHANGED known
           \/ Monitor /\ UdevStateChange(known')
<1>1. CASE \/ TickExpires \/ TickRearms \/ TickPosts \/ World \/ Register
           \/ (\E p \in Procs : StopperEnds(p)) \/ UNCHANGED vars
  BY <1>1 DEF TickExpires, TickRearms, TickPosts, World, Register, StopperEnds,
              noteVars, vars
<1>2. CASE Terminate
  BY <1>2 DEF Terminate, Outcomes
<1>3. CASE MountSpawns \/ MountThrows
  BY <1>3 DEF MountSpawns, MountThrows, Start, Outcomes
<1>4. CASE UnmountEvent
  BY <1>4 DEF UnmountEvent, Start, Outcomes
<1>5. CASE NoteTimer
  BY <1>5 DEF NoteTimer, TimerExpires, TimerHandler
<1>6. CASE \E p \in Procs : ProcessExit(p) \/ PostedStop(p)
  BY <1>6 DEF ProcessExit, PostedStop
<1>7. CASE Monitor
  BY <1>7 DEF Monitor, noteVars
<1>8. CASE DanglingTick
  BY <1>2, <1>8 DEF DanglingTick, noteVars
<1> QED
  BY <1>1, <1>2, <1>3, <1>4, <1>5, <1>6, <1>7, <1>8
     DEF Next, Crash, Unmount, PostedUnmount

LEMMA RemovalReported ==
    ASSUME Inv, [Next]_vars, pending = "unmount", pending' = "ok"
    PROVE  known' = "removed"
<1>1. CASE MountFails
  BY <1>1 DEF MountFails, StartThenNotify
<1>2. CASE SubprocessStopped /\ UNCHANGED known
  BY <1>2, StopAnswers DEF Inv, RemovalIsComing
<1>3. CASE Monitor /\ UdevStateChange(known')
  <2>1. state = "Activating" => ~started
    BY DEF Inv, CompletionOwed
  <2> QED
    BY <1>3, <2>1, UdevAnswers
<1> QED
  BY <1>1, <1>2, <1>3, OutcomeSteps DEF Outcomes

(* DeactivatingState::evaluate reports success only of a device that is    *)
(* gone.                                                                   *)
THEOREM UnmountsReportRemovals == Spec => UnmountReportsRemoval
<1>1. Inv /\ [Next]_vars
      => (pending = "unmount" /\ pending' = "ok" => known' = "removed")
  BY RemovalReported
<1> QED
  BY <1>1, Invariance, PTL DEF Spec, UnmountReportsRemoval

-----------------------------------------------------------------------------
(* Every step of the mount point is a step of SlotService or none.         *)

LEMMA PhaseValue ==
    Phase = IF state = "Initial" THEN "down"
            ELSE IF state = "Ready" THEN "idle"
            ELSE IF state = "Activating" THEN "mounting"
            ELSE IF state = "Active" THEN "mounted" ELSE "unmounting"
BY DEF Phase

LEMMA PhaseNext ==
    Phase' = IF state' = "Initial" THEN "down"
             ELSE IF state' = "Ready" THEN "idle"
             ELSE IF state' = "Activating" THEN "mounting"
             ELSE IF state' = "Active" THEN "mounted" ELSE "unmounting"
BY DEF Phase

LEMMA NotifyIsSettle ==
    ASSUME TypeOK, NEW outcome, Notify(outcome)
    PROVE  Service!Settle(outcome)
BY DEF Notify, noteVars, Service!Settle, TypeOK, NoteTypeOK

LEMMA ServiceUnchanged ==
    ASSUME UNCHANGED <<state, started, pending, bound>>
    PROVE  UNCHANGED Service!serviceVars
BY PhaseValue, PhaseNext DEF Service!serviceVars

LEMMA ActivationFailure ==
    ASSUME Inv, state = "Activating", ToReady("error"), bound' \in {bound, FALSE}
    PROVE  Service!MountEnds
BY PhaseValue, PhaseNext, NotifyIsSettle
   DEF ToReady, Service!MountEnds, Service!NothingNew, Inv

LEMMA DeactivationAnswers ==
    ASSUME Inv, state = "Deactivating", NEW outcome \in Outcomes,
           ToReady(outcome), bound' \in {bound, FALSE}
    PROVE  Service!UnmountEnds
BY PhaseValue, PhaseNext, NotifyIsSettle
   DEF ToReady, Service!UnmountEnds, Service!NothingNew, Outcomes, Inv

LEMMA StopIsService ==
    ASSUME Inv, SubprocessStopped
    PROVE  [Service!Next]_(Service!serviceVars)
<1>0. TypeOK /\ (bound /\ ~gadget) \in {bound, FALSE}
  BY DEF Inv, TypeOK
<1>1. CASE UNCHANGED <<slotVars, noteVars, stopper, hangup>> \/ Hold("none", TRUE)
  BY <1>1, ServiceUnchanged DEF Hold, slotVars, noteVars
<1>2. CASE state = "Activating" /\ ToReady("error") /\ DestroyGadget
  BY <1>0, <1>2, ActivationFailure DEF DestroyGadget, Service!Next
<1>3. CASE state = "Active" /\ ToDeactivating("none", TRUE) /\ UNCHANGED noteVars
  BY <1>3, PhaseValue, PhaseNext
     DEF ToDeactivating, DestroyGadget, Inv, ReadyIsClean, noteVars,
         Service!LoseMedium, Service!Next
<1>4. CASE state = "Deactivating" /\ Evaluate(udevEvent)
  BY <1>0, <1>4, DeactivationAnswers DEF Evaluate, DestroyGadget, Service!Next, Outcomes
<1> QED
  BY <1>1, <1>2, <1>3, <1>4 DEF SubprocessStopped

LEMMA UdevIsService ==
    ASSUME Inv, NEW change \in Changes, UdevStateChange(change)
    PROVE  [Service!Next]_(Service!serviceVars)
<1>0. TypeOK /\ (bound /\ ~gadget) \in {bound, FALSE}
  BY DEF Inv, TypeOK
<1>1. CASE UNCHANGED <<slotVars, noteVars, stopper, hangup>> \/ Hold(change, FALSE)
  BY <1>1, ServiceUnchanged DEF Hold, slotVars, noteVars
<1>2. CASE state = "Activating" /\ ConfigureGadget
  <2>1. CASE ToReady("error") /\ bound' = FALSE
    BY <1>2, <2>1, ActivationFailure DEF Service!Next
  <2>2. CASE state' = "Active" /\ bound' \in BOOLEAN /\ Notify("ok")
    BY <1>0, <1>2, <2>2, PhaseValue, PhaseNext, NotifyIsSettle
       DEF Service!BecomeMounted, Service!Next
  <2> QED
    BY <1>2, <2>1, <2>2 DEF ConfigureGadget
<1>3. CASE state = "Active" /\ ToDeactivating(change, FALSE) /\ UNCHANGED noteVars
  BY <1>3, PhaseValue, PhaseNext
     DEF ToDeactivating, DestroyGadget, Inv, ReadyIsClean, noteVars,
         Service!LoseMedium, Service!Next
<1>4. CASE state = "Activating" /\ ToDeactivating(change, FALSE) /\ UNCHANGED noteVars
  <2>1. bound' = bound
    BY <1>0, <1>4 DEF ToDeactivating, DestroyGadget, Inv, ReadyIsClean, TypeOK
  <2> QED
    BY <1>4, <2>1, PhaseValue, PhaseNext
       DEF ToDeactivating, noteVars, Service!GiveUp, Service!Next
<1>5. CASE state = "Deactivating" /\ Evaluate(change)
  BY <1>0, <1>5, DeactivationAnswers DEF Evaluate, DestroyGadget, Service!Next, Outcomes
<1> QED
  BY <1>1, <1>2, <1>3, <1>4, <1>5 DEF UdevStateChange

LEMMA StepIsService ==
    ASSUME Inv, [Next]_vars
    PROVE  [Service!Next]_(Service!serviceVars)
<1>0. TypeOK
  BY DEF Inv
<1>1. CASE \/ TickExpires \/ TickRearms \/ TickPosts \/ World
           \/ (\E p \in Procs : StopperEnds(p)) \/ UNCHANGED vars
  BY <1>1, ServiceUnchanged DEF TickExpires, TickRearms, TickPosts, World,
     StopperEnds, slotVars, noteVars, vars
<1>2. CASE state # "Initial" /\ Terminate
  BY <1>2, PhaseValue, PhaseNext DEF Terminate, Service!Die, Service!Next
<1>3. CASE Register
  BY <1>0, <1>3, PhaseValue, PhaseNext
     DEF Register, noteVars, TypeOK, Service!StartUp, Service!NothingNew, Service!Next
<1>4. CASE MountSpawns \/ MountThrows
  BY <1>4, PhaseValue, PhaseNext
     DEF MountSpawns, MountThrows, Start, Service!AcceptMount, Service!Next
<1>5. CASE MountFails
  BY <1>5, PhaseValue, PhaseNext
     DEF MountFails, StartThenNotify, slotVars, Service!FailMount, Service!Next
<1>6. CASE UnmountEvent
  BY <1>6, PhaseValue, PhaseNext
     DEF UnmountEvent, Start, ToDeactivating, DestroyGadget, Inv, ReadyIsClean,
         Service!AcceptUnmount, Service!Next
<1>7. CASE \E p \in Procs : ProcessExit(p) \/ PostedStop(p)
  BY <1>7, StopIsService DEF ProcessExit, PostedStop
<1>8. CASE Monitor
  <2>1. Current \in Changes
    BY DEF Current, Changes
  <2>2. CASE UNCHANGED <<slotVars, noteVars, stopper, hangup>>
    BY <2>2, ServiceUnchanged DEF slotVars, noteVars
  <2> QED
    BY <1>8, <2>1, <2>2, UdevIsService DEF Monitor
<1>9. CASE DanglingTick
  <2>1. state # "Initial"
    BY <1>9 DEF DanglingTick, Inv, ReadyIsClean
  <2> QED
    BY <1>2, <1>9, <2>1, ServiceUnchanged DEF DanglingTick, noteVars
<1>10. CASE NoteTimer
  <2>1. CASE TimerExpires
    BY <1>10, <2>1, ServiceUnchanged DEF NoteTimer, TimerExpires, slotVars
  <2>2. CASE TimerHandler /\ ~started
    BY <1>0, <1>10, <2>2, ServiceUnchanged
       DEF NoteTimer, TimerHandler, slotVars, TypeOK, NoteTypeOK
  <2>3. CASE TimerHandler /\ started
    BY <1>10, <2>3, PhaseValue, PhaseNext
       DEF NoteTimer, TimerHandler, slotVars, Service!Forget, Service!Next
  <2> QED
    BY <1>10, <2>1, <2>2, <2>3 DEF NoteTimer
<1>11. CASE PostedUnmount
  <2>1. state # "Initial"
    BY <1>11 DEF PostedUnmount, Inv, ReadyIsClean
  <2> QED
    BY <1>2, <1>6, <1>11, <2>1 DEF PostedUnmount
<1> QED
  BY <1>1, <1>2, <1>3, <1>4, <1>5, <1>6, <1>7, <1>8, <1>9, <1>10, <1>11
     DEF Next, Crash, Unmount

(* The mount point implements what SlotService promises.                   *)
THEOREM MountPointImplementsService == Spec => ImplementsService
<1>1. Init => Service!Init
  BY PhaseValue DEF Init, NoteInit, Service!Init
<1>2. Inv /\ [Next]_vars => [Service!Next]_(Service!serviceVars)
  BY StepIsService
<1> QED
  BY <1>1, <1>2, Invariance, PTL DEF Spec, ImplementsService, Service!Spec
=============================================================================

# Virtual Media: TLA+ models and proofs

This directory holds a formal model of the OpenBMC Virtual Media service in
`src/`: TLA+ modules, TLC configurations that check them on small instances,
and proofs that TLAPS checks for every instance. Paths below are relative to
`src/src/`.

## 1. The system

The service exports up to four *slots* (mount points) on D-Bus. A client mounts
a slot; the service starts a child (`nbd-client`, or `nbdkit` that starts it)
which connects the slot's `/dev/nbdX`; the device monitor sees the device get a
size; a USB gadget is made for it and the host sees a USB drive. Everything in
the service runs on one `io_context` with one thread (`main.cpp`), except the
reconnect threads and the forked children of `UsbGadget::configure`.

| Component | Code | State it keeps | Operations | What makes it correct |
| --- | --- | --- | --- | --- |
| Mount point state machine | `state_machine.hpp`, `state/*` | current state, target, events held by `DeactivatingState` | D-Bus Mount/Unmount, SubprocessStopped, UdevStateChange, inactivity timer | never stuck, nothing owned by the wrong state, answers match what happened |
| Completion notification | `utils.hpp` 289-359 | `started`, a timer | `start`, `notify`, timer handler | at most one answer per request, for the right request |
| Child process, nbd device | `system.hpp` 126-207, 412-545 | child, two coroutines | `spawn`, `stop`, `disconnect` | no child lost, every released child ends |
| Device monitor | `system.hpp` 209-409 | last state of each device | `run` | the state machine waits only for what will be reported |
| Owned resources | `resources.cpp`, `resources.hpp` | Process, Gadget, Mount, NfsMount | constructors, destructors | released exactly with their state |
| USB gadget | `system.hpp` 1269-1948 | configfs directory, port, `activeSessons`, two children per mount | `configure(inserted)`, `configure(removed)` | everything undone on every path; ejects noticed |
| Session monitor | `system.hpp` 682-818 | shares `activeSessons` | `handleSessions` | a session that ends unmounts its slot, and no other does |
| Local media service | `state/initial_state.hpp` 379-604 | none of its own: reads all slots | Mount, Unmount, GetCurrentMount, ListAvailableSlots | clients see one drive |
| Slot Mount methods | `state/initial_state.hpp` 239-361 | `additionalInfo` of the slot | proxy and legacy Mount | a mount runs with its own request's info |
| Inactivity | `state/active_state.hpp` | last statistics, time of the last access, remaining time | one-second tick | no medium in use is unmounted, an idle one is |
| Reconnection | `system.hpp` 905-1259 | `creds[2]`, flags, threads | `retryMount`, `handleUnmountAndRetry`, `mountMonitorThread` | a mounted share is watched by one thread, no flag is left behind, no thread ends the service |
| Settings, configuration | `vm_interface.cpp`, `configuration.hpp` | a JSON file, its last parsed text | SetAll, saveImageURLToJson, start-up | nothing but a torn write is lost, and nothing without one |
| Credentials, CIFS/NFS helpers, logger, argument parsing | the other files | | | data only |

Interactions: D-Bus methods call `emitMountEvent`/`emitUnmountEvent` of a slot
synchronously. The coroutines of `::Process` report through callbacks
(`onExit` directly, `onTerminate` with `post`). The monitor calls
`emitUdevStateChangeEvent` on every slot. A state change destroys the old state
and what it owns *before* `onEnter()` of the new one runs; `~Process` only starts
a coroutine. `configure()` blocks the loop, calls the session manager
synchronously over a connection of its own, and forks children that call
`Unmount` over D-Bus later.

Hard behaviour: two coroutines per child that both report the end; reports that
do not say which mount they are about; a monitor that reports only changes;
exceptions that leave `onEnter()`; queued timer handlers; messages from earlier
mounts that reach the next one; a crash that leaves a gadget; threads that share
flags and credentials with the loop they call; a file that is rewritten in
place. `PROJECT.json`
lists every hazard at its line with the properties that cover it.

## 2. Modules

| Module | Models | Uses |
| --- | --- | --- |
| `NotificationWrapper` | the Completion signal and its timer | |
| `NbdProcess` | children, coroutines, the nbd connection, uevents of one slot | |
| `MountPoint` | one slot: state machine, resources, monitor, inactivity timer, crash | extends both |
| `SlotService` | abstract: what a slot promises to its client and the host | |
| `MountPointProofs` | theorems about `MountPoint` | extends `MountPoint`, `TLAPS` |
| `UsbGadget` | `configure`, sessions, ports and eject children of several slots | |
| `LocalService` | the Mount methods and the Local service over all slots | |
| `LocalDrive` | abstract: the one drive that clients of the Local service see | |
| `Reconnect` | monitor and retry threads, their flags and credentials, the main loop they call | |
| `VmSettings` | the settings file, what is read from it and written to it | |
| `Inactivity` | what the inactivity handler of one slot decides | |
| `LocalServiceProofs`, `UsbGadgetProofs`, `VmSettingsProofs`, `InactivityProofs`, `ReconnectProofs`, `ReconnectSafetyProofs` | theorems | extend the module they are about (the last one `ReconnectProofs`) |
| `MCMountPoint`, `MCUsbGadget`, `MCLocalService`, `MCReconnect`, `MCVmSettings`, `MCInactivity` | instances for TLC, and what comments and tests claim | |

### MountPoint and its parts

`state` is the class of `MountPointStateMachine::state` (`"Initial"` also stands
for a service that is down). `process` and `gadget` are the `unique_ptr`s that
states hand to one another; `target`, `udevEvent`, `stopEvent` are the members
of the same meaning; `known` is `DeviceMonitor::devices`; `bound` is whether the
host sees the gadget; `tick`, `dangling` and `unmountPosted` are the inactivity
timer, a queued handler of an `ActiveState` that no longer exists, and the
posted `emitUnmountEvent()`. One action is one handler with every state change
and destructor it causes: `ToReady` and `ToDeactivating` are `changeState()`,
`SubprocessStopped` and `UdevStateChange` dispatch on the state as the
`handleEvent` overloads do. Requests that are refused only return an error and
are left out.

Each element of `Procs` is a `::Process` object; it may be used again once
nothing of the earlier one is left. `child` is the operating-system process,
`reader` the coroutine of `spawn` (it reads, drains, then calls `onExit`),
`stopper` that of `stop`, `posted` the event of `onTerminate`. `Disconnected`
is the kernel dropping the connection, for whatever reason.

Decisions and abstractions:

- Queued handlers may run in any order. (`io_context` is a FIFO for posted
  handlers, but timers, descriptors and D-Bus messages are not ordered with them.)
- `spawn`'s coroutine starts reading in the step that spawns; the two-second
  waits end at any time.
- `~ActiveState` with a handler queued is undefined behaviour in the code
  (the handler uses `this`): `DanglingTick` lets it do nothing, post, or crash.
- After a crash systemd kills the control group, so children die with the
  service (`KillMode` is not set in the unit file); the device and the gadget
  stay. `Restart=always` is `WF(Register)`.
- Several uevents of one device coalesce into the boolean `uevent`, because the
  monitor reads the device's size when it handles one, not the event's payload.
- `UsbGadget::configure` is the choice of `ConfigureGadget`; `UsbGadget` opens it.
- What the inactivity tick computes is left open: `TickRearms` and `TickPosts` are
  the two outcomes of `Inactivity!Tick`.

### UsbGadget

`gadget` is the configfs directory (absent, present with an empty `lun.0/file`,
present with a medium), `port` what is written to `UDC`. `registry` is the
session manager's list, `signals` its PropertiesChanged signals, each with the
list *at the time of sending*; `activeSessons` keeps the source's spelling.
`children` counts eject children of a slot, `calls` the Unmount messages that
are on their way to it. `configure()` is one step with its possible ends:
`ConfigureFails` (nothing registered yet), `ConfigureLosesSession` (registered,
reading back throws), `ConfigureBinds`, `ConfigureUndone` (no port, or an
exception after the fork), `ConfigureThrows` (unregistering throws twice).
`ChildrenLook` lets children of the slot look at the half-made or half-removed
directory within that step. `fs::remove` of the directories may fail
(`RemoveGadget`, `Leftovers`): the gadget is unbound, `configure()` reports the
failure, and the directory stays with its medium or without; a restart may fail
to remove it as well. The map `activeSessons` is `static` in a header, one per translation
unit; the model takes the one of `main.cpp`, which comes first in the link order
of `meson.build`.

### LocalService

The phase of a slot moves as `SlotService` allows. `Accept` is `MountEvent`
delivered to a slot. A legacy Mount with a secret is two actions, because
`async_read_some` suspends it after `setAdditionalInfo`. `files` is
`/tmp/lmedia/`, which others change. `asked` is a history variable: the info
that came with the accepted request. `GetCurrentMount` is what clients read
back, and is the mapping under which `LocalService` implements `LocalDrive`
(`IsOneDrive`): a medium is put into an empty drive only, stays in its slot, and
once taken out or deleted does not come back by itself. `LegacyLocal` lets clients give local URLs
to legacy slots as well, and `Reupload` lets a file reappear under a slot that
still names it; the run sets both to `FALSE`, since with either the drive does
not behave as one. `IsOneDrive` is about what `GetCurrentMount` reports and not
about what the host sees: a slot whose file was deleted under it still serves
its medium and is not reported (see section 3).

### Reconnect

`monitor` holds the `mountMonitorThread`s and where each is between its accesses
to what is shared: `poll` (`statfs` in a loop), `hung` (result 0, no answer in
five seconds), `mark` (a retry thread is detached, the flags are still to be
stored), `absent` (result -1). `retry` holds the `handleUnmountAndRetry` threads:
`start` (GetAll), `unmount` and `sleep` for one slot or both, then
`retryMount`'s `attempt` (getActiveStatus), `call` (use of `creds`), `wait` (ten
looks), `exhausted`, `clear`. `creds`, `retryThreadCreated` and `isReconnecting`
are the statics of the same meaning, `share` what is mounted on `/tmp/Slot_n`,
and `loop` the slot whose `mount(2)` blocks the `io_context`, during which no
D-Bus call is answered. A call that waits too long fails for its thread:
`MountTimesOut` is a Mount that was not served in time, which stays in `overdue`
and is served when the loop runs again (`ServeOverdue`), and
`RetryGivesUpWaiting` also covers one whose own `mount(2)` still runs. One action is one access to what is shared or one D-Bus
call, so every interleaving of the threads and the loop is explored. An
exception that leaves a thread, and the use of cleared credentials, end the
service (`Die`, from `RetryUnmountRefused`, `UseCleared`, `CallTimesOut`).

The design copes with a good deal of interleaving and not with all of it.
`quiet` is a history variable that is `FALSE` once something has happened that
the code does not cope with; each place says what (`Disturb`), none is excluded
from the behaviours. `QuietSurvives`, `MountedIsWatched`, `OneOfEach`,
`FlagIsOwned` and `LostIsUnmounted` say something up to the first of these
events only, and are not evidence for what comes after it. The events are the
known weak points of this part of the code:

- a client mounts a slot that a retry thread or a monitor thread still has, or
  mounts from the server of the other slot's credentials unless that slot is
  only watched and `is_reconnecting` is clear;
- `configure()` fails after its monitor thread started, within a reconnection;
- a slot is unmounted while a retry thread handles it, or when an outage of its
  server has been noticed and not yet acted upon;
- a mounted share answers with an error instead of silence (`absent`), which the
  monitor cannot tell from a missing directory;
- an outage is noticed while the last reconnection is not over, while the slot
  is not mounted, or while another slot on the same server is not;
- a D-Bus call of a retry thread times out since `mount(2)` blocks the loop
  (`CallTimesOut` ends the service, `MountTimesOut` leaves a late Mount behind);
- the attempts are exhausted while the slot is being mounted, or is mounted;
- the service is killed (a restart makes it quiet again).

The change-over of a monitor thread to the other slot on its server is not one
of them: the properties hold across it. As the comment at `system.hpp` 1225-1229
wants, the other share stays watched. But lines 1242-1245 clear the credentials
of the slot it changes over to, which is still mounted, so that this share is
unmounted when its server goes and is never mounted again. `MountedIsWatched`
therefore allows the credentials of a mounted share to be its own or none.

The data race on `creds` (a `shared_ptr` array) and on the flags is modelled at
the level of whole reads and writes; a torn `shared_ptr` is not. The statics of
`system.hpp` 37, 38 and 74 are taken to be one copy each.

### VmSettings

`file` is `/etc/virtual-media.json` (or `Torn`: emptied and not written, or not
written completely), `jsonData` the interface's copy, `retry`, `shown` and
`slots` what clients see; the latter three keep the last seen values while the
service is down. `Write` has the three ends of an `std::ofstream` whose state is
not looked at, `DieWriting` the crash between opening and writing. `Accepted`
translates which mount points `setupVariables` takes from the file. `Deliver` is
the administrator or the next firmware image: nothing in the service repairs a
file that does not parse at start.

### Inactivity

A time point is modelled by its age, in steps of half a second, so that the
rounding of `duration_cast` is visible; ages stop at `Cap`, beyond which all
comparisons agree. The statistics text is `current` (that of now), `older` or
`empty`; `HostUses` makes a current text old. A reading is the text, an empty
one (opened but not readable) or none. `EnterActive` leaves `lastAccess` at the
epoch, i.e. with any age. `misread` remembers that the last reading was not the
text: then the code may unmount a medium in use, even at the first tick, which
`OnlyIdleUnmounts` excepts. A handler may be late by any time. A timeout of 0
unmounts at the first tick, in the code and in the model, although
`tests/src/state/active_state_test.cpp` 25 calls it disabled;
`configuration.hpp` 118 logs that the setting is required.

## 3. What the runs check

| Run | Instance | Shows |
| --- | --- | --- |
| `mount_point` | proxy slot, two processes, two queued handlers, exceptions and crashes | `TypeOK`, `NoOrphan`, `StopIsComing`, `RemovalIsComing`, `CompletionOwed`, `ReadyIsClean`, `UnmountReportsRemoval`, and that `MountPoint` implements `SlotService` |
| `mount_point_live` | legacy slot, crashes, no exceptions | `DeactivationEnds`, `ReleasedChildEnds`, the full `StopIsComing`, `MediaOnlyWhenActive` |
| `usb_gadget` | two slots, one port, two session ids, failing D-Bus calls, directories that cannot be removed | `HeldOnlyWhileMounted`, `RevokedIsAnnounced`, `EjectIsWatched`, `EjectEnds`, `RevokedEnds` |
| `local_service` | the four slots of `virtual-media.json`, two files | `InfoBelongs`, and that `LocalService` implements `LocalDrive` (`IsOneDrive`) |
| `reconnect` | both legacy slots, two servers, two monitor and two retry threads, two attempts | `QuietSurvives`, `MountedIsWatched`, `OneOfEach`, `FlagIsOwned`, `RetryAdvances`, `RetryEnds`, `LostIsUnmounted` |
| `vm_settings` | both legacy slots, two URLs, values at and beyond both limits, every kind of entry | `FileIsWholeOrTorn`, `MemoryCanRepair`, `NothingUnsaved`, `RestartKeeps` |
| `inactivity` | a timeout of three seconds | `OnlyIdleUnmounts`, `RemainingIsKept`, `IdleEnds` |
| `mount_timeout`, `mount_graceful`, `mount_success`, `session_stale_list`, `reconnect_watch` | smallest instances | one claim of a comment, message or test each, which the code does not keep |

Every run but the last five also checks `TypeOK` of its module.

The five violations, each with its quotation in `PROJECT.json`:

1. a Mount that times out is not answered, since `started` is cleared before
   the handler notifies (`utils.hpp` 335);
2. the posted unmount of the inactivity timer ends the service if the slot has
   left `ActiveState` (`active_state.hpp` 49);
3. a late "removed" of the previous mount makes a failed Mount report success
   (`activating_state.cpp` 74);
4. a session list sent before a slot registered erases the slot's new session
   and unmounts it (`system.hpp` 748);
5. two overlapping mounts from one server leave both shares without a monitor
   thread, where the comment at `system.hpp` 1225 promises one (`system.hpp` 1635).

More came up while modelling. The models show what the code does there, and no
run is made of them:

- `configure()` returns 0 with nothing bound when no port is free
  (`system.hpp` 1739 on, the end `ConfigureUndone` of `UsbGadget`).
- "Only one local media redirection allowed at a time" (`initial_state.hpp` 426)
  does not hold of `LocalService`. Mount counts a slot only while its file
  exists: after `FileVanishes` under a mount, a second `Mount` succeeds and two
  slots serve local media. With `Reupload` the first comes back to the reports
  as well; with `LegacyLocal` a legacy slot takes a local URL beside a local
  mount (`activating_state.cpp` 187, outside `MULTI_HOST_DEFAULT_MODE`).
- A legacy Mount that waited for its secret may run with the `additionalInfo`
  of another request (`LegacyMountResumes`); `InfoBelongs` is about the others.
- The change-over of a monitor thread clears the credentials of a mounted slot
  (`ShareIsGone`, see section 2).
- A timer handler that was queued before the next request begins clears its
  `started`, and that request is not answered either (`utils.hpp` 335).

What some of the passing properties leave to the weak points above:
`StopIsComing` says in `mount_point`, which has exceptions, little about
Activating, and in full only in `mount_point_live`. `NoOrphan` is about the old
child, not about the new connection, which it may drop as it ends.
`HeldOnlyWhileMounted` and `RevokedEnds` are about the recorded session, which
may be another client's (`system.hpp` 1607). `FileIsWholeOrTorn` allows the torn
file of a crash in mid-write, and `NothingUnsaved` and `RestartKeeps` say
nothing between a failed write and the next start.

### Bounds, and why they are enough

- `Procs`: two. With two, a process that is still being stopped coexists with
  the next mount's, which is all that stale events need.
- `MaxQueued`: timer handlers queued. Two let a cancelled handler wait while
  another is queued by the next request; the bound only keeps a new request from
  starting while the queue is full.
- `MaxSignals` two is a registration plus a concurrent one; `MaxChildren` and
  `MaxCalls` two are the current mount's and an earlier one's. Steps that would
  exceed them wait; the fair actions that drain them are always possible.
- Two session ids and one port force reuse of an id and a failed port search.
- `Reconnect`: two monitor and two retry threads are one for each slot, or a
  second one for a slot, which is what the properties exclude. A step that needs
  a third waits. Which free thread is taken makes no difference (`TakesFree`).
  Two attempts have a first, which takes the credentials' pipe away, and a last.
  Two servers let the slots share one or not; Slot_3 may also have an image
  without a share. With `PileUp = FALSE` clients and servers make no further
  move and no further Mount times out once `quiet` is lost, while everything
  that is under way goes on, overdue calls included:
  the safety properties are conditional on `quiet`, and the proofs hold for both.
- `VmSettings`: the counts and intervals are both limits and the values next to
  them; the state space has no other bound.
- `Inactivity`: three seconds is the least timeout at which a handler can notice
  an access late, re-arm and still have time left. `Cap` is a second above it.
- The proofs hold for every value of `Procs`, `MaxQueued`, the sets of slots,
  ports, sessions, servers, threads, URLs and mount points, `MaxAttempts` and
  `Timeout`.

### Fairness

`MountPoint!Fairness`: the `io_context` runs every queued handler and timers
expire (`Monitor`, `NoteTimer`, `ProcessExit`, `PostedStop`, `StopperEnds`); a
dead child's pipe closes; the kernel drops a connection that was disconnected or
whose client died; systemd restarts the service. Nothing is assumed of clients,
of living children, of the device ever connecting, or of the inactivity timer.
`UsbGadget!Fairness`: D-Bus messages and signals are handled, children poll
once a second.
`Reconnect!Fairness`: every thread runs and a `mount(2)` returns. Nothing is
assumed of clients, servers, the device that is to appear, or a restart; that a
lost share does not stay mounted needs none of them.
`Inactivity!Fairness`: time passes, and the loop runs a handler that is due.
All of it is weak fairness.

## 4. What is proved

`MountPointProofs` proves, for every `Procs`, `MaxQueued`, `Mode`, `MayThrow`
and `MayCrash`, the safety properties of `MountPoint` and its refinement of
`SlotService`; it assumes only the named assumptions on the constants.

The inductive invariant is `Inv`, the conjunction of `TypeOK`, `NoOrphan`,
`StopIsComing`, `RemovalIsComing`, `CompletionOwed`, `ReadyIsClean` and
`MediaOnlyWhenActive`. They need one another: `NoOrphan` needs that `process` is
empty outside Activating and Active (`ReadyIsClean`); `StopIsComing` needs the
same to know that a state change leaves a reader behind; `MediaOnlyWhenActive`
needs that the gadget is owned exactly in Active. The proof goes bottom-up: a
type lemma for every operator that changes part of the state (`Notify`,
`DestroyProcess`, `ToReady`, `ToDeactivating`, ...), then one theorem per
conjunct with one step per action, then the action properties and the refinement
from `Inv`. The parts of `Inv` are conditional on `MayThrow` exactly where an
exception breaks the code.

`UsbGadgetProofs` proves `TypeOK`, `HeldOnlyWhileMounted`, `EjectIsWatched` and
`RevokedIsAnnounced` for any slots, ports and sessions. The last one is the
safety half of `RevokedEnds`: `handleSessions` compares the sessions of now with
a list that may be old, so it has to be shown that whatever order registrations,
revocations and handled lists come in, a revoked session that is still recorded
is missing from a list that waits. It is not inductive: `SignalsAreCurrent` adds
that the list that waits last is the session manager's list as it is, and that
with no list waiting every recorded session is in it. The lists in between may
be wrong, which is what the run `session_stale_list` shows.

`LocalServiceProofs` proves `InfoBelongs` for any slots, and, if `Reupload` and
`LegacyLocal` are false, the refinement of `LocalDrive`. Its invariant `OneInv`
adds `LegacyTargets` (no legacy Mount that waits for its secret has a local URL)
and `AtMostOne` (at most one slot, mounted or not, has a target among the files
that exist), which makes the first local slot the only one (`CurrentIsTheOne`).
There is one lemma per kind of step: a step that changes no local target is a
stutter (`SameLocalTargets`), a Mount is `Insert`, the end of a transition
`Eject`, and a change of the files `Delete` or `Upload`. It fails with
`Reupload`: TLC finds a file that vanishes under its mount, a second mount, and
the file's return.

`VmSettingsProofs` proves all its properties. `Saved` strengthens
`NothingUnsaved` to a service that is down, without which a restart could not
be related to the run before it; `SlotsKept` says that no write changes the set
of slots.

`InactivityProofs` proves both safety properties and the types for every
timeout. `OnlyIdle` needs `AccessNoticed` (while the last text is that of now,
`lastAccess` is no older than the last use). `KeepsRemaining` needs
`RemainingFits`, which relates the age of `lastAccess` to the remaining time and
the age of the last handler, rounded up.

`ReconnectProofs` proves `TypeOK` and `RetryAdvances`, which have no condition;
`ReconnectSafetyProofs` proves the four safety properties, on the condition they
carry (`SurvivesWhileQuiet`, `WatchedWhileQuiet`, `OneOfEachWhileQuiet`,
`FlagOwnedWhileQuiet`). `RetryAdvances` is what makes a retry thread end:
`StepsLeft`, the steps it has left if every attempt fails, becomes less with
each step, whatever other threads do to the credentials, flags and slots it
shares with them, and starts at no more than 6 * `RetryCount` + 9 (theorem
`RetriesAdvance`). That its steps are taken at all is fairness, and stays with
TLC (`RetryEnds`).

There a retry thread is `Early` until its sleeps are over and `Late`
after that. Early it takes mounted slots down: they are mounted until it gets
to them, and only the monitor thread that started it is left, about to store
its flags. Late it mounts: the slots it still has to mount are down or have
their share, its credentials are there, and a slot it has mounted is watched
again. A monitor that has found an outage keeps being right until it acts
(`HungIsMounted`, `AbsentIsGone`). A slot that is mounted while a monitor that
changed over has cleared its credentials is still polled by it (`TakenOver`),
and no call is overdue (`NoneOverdue`). With both slots on one server there is one
thread for both and, exactly during a reconnection, no monitor
(`NoneMeansReconnecting`), which is why `is_reconnecting` must be reset by the
mount it was set for. The proof has one lemma per action, and the actions that
`Disturb` are discharged by `quiet'`.

Only model-checked: the liveness properties (`DeactivationEnds`,
`ReleasedChildEnds`, `EjectEnds`, `RevokedEnds`, `RetryEnds`, `LostIsUnmounted`,
`IdleEnds`), since TLAPS 1.4.5 proves no liveness under fairness and no `ENABLED`.

## 5. What is not modelled

- Credentials: the contents of secrets and of the pipe that hands them to
  `mount.cifs`. Which slot has credentials, and that an attempt gives the pipe
  away, is in `Reconnect`.
- The CIFS and NFS helpers: option strings around one system call, whose failure
  is `MountFails` of `Reconnect` and an activation that fails in `MountPoint`.
- The logger and argument parsing. `state/active_state.cpp` is not compiled.
- Of the configuration: the timeouts and block sizes, which have defaults.
- In `UsbGadget` the prefix of the second service (`mass-storage1-`) and its
  effect on `eject_status`, and the child that drops caches.
- More than two legacy slots, for which `Reconnect`'s index modulo two would
  matter: the shipped configuration has Slot_2 and Slot_3 only.

## 6. Plan

Done: the core (`MountPoint` with its parts, proofs and refinement), `UsbGadget`,
`LocalService` with its refinement of `LocalDrive`, `Reconnect`, `VmSettings`,
`Inactivity`, and proofs of every safety and action property of the passing
runs. What could follow:

1. `Reconnect` over `SlotService` as an abstract module, with a refinement: its
   phases are those of `SlotService` without the answers to clients.
2. The second host's service, whose gadget names the polling child misreads.
3. The composition of `MountPoint` and `UsbGadget`, where an eject child's Unmount
   meets the slot's states.

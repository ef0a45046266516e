----------------------------- MODULE Reconnect -----------------------------
(***************************************************************************)
(* How the service brings remote shares back (src/system.hpp 905-1259):    *)
(* the two legacy slots, one monitor thread per share that polls it with   *)
(* statfs(), and the detached retry threads that unmount and mount a slot  *)
(* again over D-Bus.  The threads and the main loop share creds,           *)
(* retryThreadCreatedMap and is_reconnecting without a lock.               *)
(*                                                                         *)
(* A step of a thread is one access to what is shared, or one D-Bus call.  *)
(* The phases of a slot are those of SlotService.  A share is the server   *)
(* it comes from: isSamePath() compares no more.                           *)
(***************************************************************************)
EXTENDS Integers

CONSTANTS
    Servers,        \* the remote servers
    Web,            \* an image that needs no share: https, or a local file
    Images,         \* what clients mount on each slot
    Monitors,       \* monitor threads that may run at a time
    Retries,        \* retry threads that may run at a time
    MaxAttempts,    \* RetryCount, as GetAll returns it
    PileUp,         \* bound: requests, outages and overlong mounts go on
                    \* once something unforeseen has happened
    None

ASSUME ServersAssumption == None \notin Servers /\ Web \notin Servers \cup {None}
ASSUME ThreadsAssumption == Monitors \subseteq Nat /\ Retries \subseteq Nat
ASSUME PileUpAssumption == PileUp \in BOOLEAN
ASSUME MaxAttemptsAssumption == MaxAttempts \in Nat \ {0}

Slots == {2, 3}
ASSUME NoneAssumption == None \notin Slots
ASSUME ImagesAssumption == Images \in [Slots -> SUBSET (Servers \cup {Web})]

Other(s) == 5 - s
Maybe(S) == S \cup {None}

VARIABLES
    alive,          \* the service is running
    phase,          \* of each slot: idle, mounting, mounted, unmounting
    share,          \* the server mounted, or being mounted, on /tmp/Slot_s
    loop,           \* the slot whose mount(2) blocks the main loop, or None
    overdue,        \* Mount calls that wait for the loop: their retry threads
                    \* do not wait for them any more
    creds,          \* creds[s]: the server the slot was last mounted from
    retryThreadCreated,
    isReconnecting,
    monitor,        \* the monitor threads
    retry,          \* the retry threads
    up,             \* the servers that answer
    quiet           \* history: nothing has happened that the threads do not
                    \* cope with (see Disturb)

slotVars == <<phase, share, loop, overdue>>
threadVars == <<monitor, retry>>
vars == <<alive, slotVars, creds, retryThreadCreated, isReconnecting,
          threadVars, up, quiet>>

Phases == {"idle", "mounting", "mounted", "unmounting"}
MonitorSteps == {"off", "poll", "hung", "absent", "mark"}
RetrySteps == {"off", "start", "unmount", "sleep", "attempt", "call",
               "wait", "exhausted", "clear"}

MonitorOff == [at |-> "off", slot |-> 2]
RetryOff == [at |-> "off", slot |-> 2, both |-> FALSE, tries |-> 1]

(* What tells apart the calls of one thread is the attempt.                *)
MountCalls == [slot : Slots, image : Servers, by : Retries, try : 1..MaxAttempts]

TypeOK ==
    /\ alive \in BOOLEAN
    /\ phase \in [Slots -> Phases]
    /\ share \in [Slots -> Maybe(Servers)]
    /\ loop \in Maybe(Slots)
    /\ overdue \subseteq MountCalls
    /\ creds \in [Slots -> Maybe(Servers)]
    /\ retryThreadCreated \in [Slots -> BOOLEAN]
    /\ isReconnecting \in BOOLEAN
    /\ monitor \in [Monitors -> [at : MonitorSteps, slot : Slots]]
    /\ retry \in [Retries -> [at : RetrySteps, slot : Slots, both : BOOLEAN,
                              tries : 1..MaxAttempts]]
    /\ up \subseteq Servers
    /\ quiet \in BOOLEAN

Init ==
    /\ alive = TRUE
    /\ phase = [s \in Slots |-> "idle"]
    /\ share = [s \in Slots |-> None]
    /\ loop = None
    /\ overdue = {}
    /\ creds = [s \in Slots |-> None]
    /\ retryThreadCreated = [s \in Slots |-> FALSE]
    /\ isReconnecting = FALSE
    /\ monitor = [m \in Monitors |-> MonitorOff]
    /\ retry = [r \in Retries |-> RetryOff]
    /\ up = Servers
    /\ quiet = TRUE

-----------------------------------------------------------------------------
(* Who looks after a slot.                                                 *)

isSamePath == creds[2] # None /\ creds[2] = creds[3]

Polls(m, s) == monitor[m].at # "off" /\ monitor[m].slot = s
Handles(r, s) ==
    /\ retry[r].at # "off"
    /\ retry[r].slot = s \/ retry[r].both \/ (retry[r].at = "start" /\ isSamePath)

OnlyWatched(s) ==
    /\ \E m \in Monitors : monitor[m].at = "poll" /\ monitor[m].slot = s
    /\ \A r \in Retries : ~Handles(r, s)

(* Which of the free threads is taken makes no difference: Slot_2 takes    *)
(* them from below, Slot_3 from above.                                     *)
TakesFree(s, t, Threads, thread) ==
    /\ thread[t].at = "off"
    /\ \A u \in Threads :
          thread[u].at = "off" => IF s = 2 THEN t <= u ELSE u <= t

(* The main loop takes the next message.                                   *)
LoopRuns == alive /\ loop = None

Outside == PileUp \/ quiet

(* What the code does not cope with is remembered, not excluded.           *)
Disturb(bad) == quiet' = (quiet /\ ~bad)

(* The service ends, its threads and its memory with it; the next start    *)
(* unmounts what is left (cleanUpMountPoint).                              *)
Die ==
    /\ alive' = FALSE
    /\ phase' = [s \in Slots |-> "idle"]
    /\ share' = [s \in Slots |-> None]
    /\ loop' = None
    /\ overdue' = {}
    /\ creds' = [s \in Slots |-> None]
    /\ retryThreadCreated' = [s \in Slots |-> FALSE]
    /\ isReconnecting' = FALSE
    /\ monitor' = [m \in Monitors |-> MonitorOff]
    /\ retry' = [r \in Retries |-> RetryOff]
    /\ UNCHANGED up

-----------------------------------------------------------------------------
(* The main loop.                                                          *)

(* MountEvent in ReadyState: credentials and directory are made before the *)
(* mount(2) that blocks the loop.  An image that needs no share leaves the *)
(* credentials of an earlier one where they are.                           *)
BeginMount(s, image) ==
    /\ LoopRuns
    /\ phase[s] = "idle"
    /\ phase' = [phase EXCEPT ![s] = "mounting"]
    /\ \/ /\ image = Web
          /\ UNCHANGED <<creds, share, loop>>
       \/ /\ image \in Servers
          /\ creds' = [creds EXCEPT ![s] = image]
          /\ share' = [share EXCEPT ![s] = image]
          /\ loop' = s
    /\ UNCHANGED <<alive, retryThreadCreated, isReconnecting, up>>

(* A client mounts: unforeseen while a thread still has the slot, and from *)
(* the server of the other slot's credentials before that slot has a       *)
(* monitor, during its reconnection, or while is_reconnecting is left over *)
(* from attempts that were exhausted.                                      *)
ClientMounts(s, image) ==
    /\ Outside
    /\ BeginMount(s, image)
    /\ Disturb(\/ \E r \in Retries : Handles(r, s)
               \/ \E m \in Monitors : Polls(m, s)
               \/ /\ creds[Other(s)] = image
                  /\ isReconnecting \/ ~OnlyWatched(Other(s)))
    /\ UNCHANGED <<overdue, threadVars>>

(* A Mount call whose thread has given up on it.                           *)
ServeOverdue(call) ==
    /\ LoopRuns
    /\ overdue' = overdue \ {call}
    /\ \/ BeginMount(call.slot, call.image)
       \/ UNCHANGED <<alive, phase, share, loop, creds, retryThreadCreated,
                      isReconnecting, up>>
    /\ UNCHANGED <<threadVars, quiet>>

(* The slot is idle again; the credentials stay.                           *)
MountFails(s) ==
    /\ phase' = [phase EXCEPT ![s] = "idle"]
    /\ share' = [share EXCEPT ![s] = None]

MountReturns(s) ==
    /\ alive
    /\ loop = s
    /\ loop' = None
    /\ \/ share[s] \in up /\ UNCHANGED <<phase, share>>
       \/ MountFails(s)
    /\ UNCHANGED <<alive, overdue, creds, retryThreadCreated, isReconnecting,
                   threadVars, up, quiet>>

StartMonitorUnlessSame(s) ==
    IF creds[s] # None /\ ~isSamePath
    THEN /\ isReconnecting' = FALSE
         /\ \E m \in Monitors :
                /\ TakesFree(s, m, Monitors, monitor)
                /\ monitor' = [monitor EXCEPT
                                  ![m] = [at |-> "poll", slot |-> s]]
    ELSE UNCHANGED <<isReconnecting, monitor>>

StartMonitorNoReset(s) ==
    IF creds[s] # None /\ (~isSamePath \/ isReconnecting)
    THEN /\ \E m \in Monitors :
                /\ TakesFree(s, m, Monitors, monitor)
                /\ monitor' = [monitor EXCEPT
                                  ![m] = [at |-> "poll", slot |-> s]]
         /\ UNCHANGED isReconnecting
    ELSE UNCHANGED <<isReconnecting, monitor>>

(* configure(): a monitor for the share the credentials name, unless the   *)
(* one of the other slot watches the same server.                          *)
StartMonitor(s) ==
    IF creds[s] # None /\ (~isSamePath \/ isReconnecting)
    THEN /\ isReconnecting' = FALSE
         /\ \E m \in Monitors :
                /\ TakesFree(s, m, Monitors, monitor)
                /\ monitor' = [monitor EXCEPT
                                  ![m] = [at |-> "poll", slot |-> s]]
    ELSE UNCHANGED <<isReconnecting, monitor>>

(* The device is there.  configure() may still fail once the thread runs:  *)
(* unforeseen in a reconnection, which mounts again under that thread.     *)
Activate(s) ==
    /\ LoopRuns
    /\ phase[s] = "mounting"
    /\ StartMonitor(s)
    /\ \/ /\ phase' = [phase EXCEPT ![s] = "mounted"]
          /\ UNCHANGED <<share, quiet>>
       \/ /\ MountFails(s)
          /\ Disturb(\E r \in Retries : Handles(r, s))
    /\ UNCHANGED <<alive, loop, overdue, creds, retryThreadCreated, retry, up>>

(* nbdkit ends, or configure() fails early.                                *)
ActivationFails(s) ==
    /\ LoopRuns
    /\ phase[s] = "mounting"
    /\ MountFails(s)
    /\ UNCHANGED <<alive, loop, overdue, creds, retryThreadCreated,
                   isReconnecting, threadVars, up, quiet>>

LeaveMounted(s) ==
    /\ LoopRuns
    /\ phase[s] = "mounted"
    /\ phase' = [phase EXCEPT ![s] = "unmounting"]
    /\ UNCHANGED <<alive, share, loop, overdue, creds, retryThreadCreated,
                   isReconnecting, monitor, up>>

(* A client, the host, or the end of nbdkit: unforeseen while the slot is  *)
(* being reconnected, or an outage of its server has been noticed.         *)
SlotUnmounts(s) ==
    /\ Outside
    /\ LeaveMounted(s)
    /\ Disturb(\/ \E r \in Retries : Handles(r, s)
               \/ \E m \in Monitors :
                     /\ monitor[m].at \in {"hung", "mark"}
                     /\ monitor[m].slot = s \/ isSamePath)
    /\ UNCHANGED retry

UnmountEnds(s) ==
    /\ LoopRuns
    /\ phase[s] = "unmounting"
    /\ phase' = [phase EXCEPT ![s] = "idle"]
    /\ share' = [share EXCEPT ![s] = None]
    /\ UNCHANGED <<alive, loop, overdue, creds, retryThreadCreated,
                   isReconnecting, threadVars, up, quiet>>

-----------------------------------------------------------------------------
(* mountMonitorThread.                                                     *)

(* What statfs() may say.  A server that is down is silent for five        *)
(* seconds or returns an error, which the thread cannot tell from a        *)
(* missing directory.  Before mount(2) returns the directory is local.     *)
Reachable(s) == share[s] # None /\ (loop = s \/ share[s] \in up)

Answers(s) ==
    CASE share[s] = None -> {"absent"}
      [] Reachable(s) -> {}
      [] OTHER -> {"hung", "absent"}

(* The answer is used later than it was given.  Unforeseen: an error of a  *)
(* mounted share, an outage while a reconnection is not over yet, and one  *)
(* of a server of both slots when one of them is not mounted.              *)
Poll(m) ==
    /\ alive
    /\ monitor[m].at = "poll"
    /\ LET s == monitor[m].slot IN
       \E answer \in Answers(s) :
           /\ monitor' = [monitor EXCEPT ![m].at = answer]
           /\ Disturb(\/ answer = "absent" /\ share[s] # None
                      \/ /\ answer = "hung"
                         /\ \/ \E r \in Retries : Handles(r, s)
                            \/ phase[s] # "mounted"
                            \/ isSamePath /\ phase[Other(s)] # "mounted")
    /\ UNCHANGED <<alive, slotVars, creds, retryThreadCreated,
                   isReconnecting, retry, up>>

(* Result 0: a retry thread, unless the slot already has one.              *)
StartRetry(m) ==
    /\ alive
    /\ monitor[m].at = "hung"
    /\ LET s == monitor[m].slot IN
       \/ /\ retryThreadCreated[s]
          /\ monitor' = [monitor EXCEPT ![m] = MonitorOff]
          /\ UNCHANGED retry
       \/ /\ ~retryThreadCreated[s]
          /\ monitor' = [monitor EXCEPT ![m].at = "mark"]
          /\ \E r \in Retries :
                /\ TakesFree(s, r, Retries, retry)
                /\ retry' = [retry EXCEPT
                                ![r] = [RetryOff EXCEPT !.at = "start",
                                                        !.slot = s]]
    /\ UNCHANGED <<alive, slotVars, creds, retryThreadCreated,
                   isReconnecting, up, quiet>>

(* The flags are stored once the retry thread runs.                        *)
MarkRetry(m) ==
    /\ alive
    /\ monitor[m].at = "mark"
    /\ retryThreadCreated' =
          IF isSamePath
          THEN [s \in Slots |-> TRUE]
          ELSE [retryThreadCreated EXCEPT ![monitor[m].slot] = TRUE]
    /\ isReconnecting' = TRUE
    /\ monitor' = [monitor EXCEPT ![m] = MonitorOff]
    /\ UNCHANGED <<alive, slotVars, creds, retry, up, quiet>>

(* Result -1.  Without a retry thread the slot is taken to be unmounted;   *)
(* with both slots on one server the thread changes over to the other slot *)
(* and clears the credentials of that one, which is still mounted.         *)
ShareIsGone(m) ==
    /\ alive
    /\ monitor[m].at = "absent"
    /\ LET s == monitor[m].slot IN
       \/ /\ retryThreadCreated[s]
          /\ monitor' = [monitor EXCEPT ![m].at = "poll"]
          /\ UNCHANGED creds
       \/ /\ ~retryThreadCreated[s]
          /\ isSamePath
          /\ monitor' = [monitor EXCEPT ![m] = [at |-> "poll",
                                                slot |-> Other(s)]]
          /\ creds' = [creds EXCEPT ![Other(s)] = None]
       \/ /\ ~retryThreadCreated[s]
          /\ ~isSamePath
          /\ monitor' = [monitor EXCEPT ![m] = MonitorOff]
          /\ creds' = [creds EXCEPT ![s] = None]
    /\ UNCHANGED <<alive, slotVars, retryThreadCreated, isReconnecting,
                   retry, up, quiet>>

-----------------------------------------------------------------------------
(* handleUnmountAndRetry and retryMount.                                   *)

At(r, step) == alive /\ retry[r].at = step
Goto(r, step) == retry' = [retry EXCEPT ![r].at = step]

ChooseSlotsNoUnmount(r) ==
    /\ At(r, "start")
    /\ LoopRuns
    /\ retry' = [retry EXCEPT
                    ![r] = [at |-> "attempt", both |-> isSamePath, tries |-> 1,
                            slot |-> IF isSamePath THEN 2 ELSE @.slot]]
    /\ UNCHANGED <<alive, slotVars, creds, retryThreadCreated,
                   isReconnecting, monitor, up, quiet>>

(* GetAll, answered by the main loop, and a second look at the paths.      *)
ChooseSlots(r) ==
    /\ At(r, "start")
    /\ LoopRuns
    /\ retry' = [retry EXCEPT
                    ![r] = [at |-> "unmount", both |-> isSamePath, tries |-> 1,
                            slot |-> IF isSamePath THEN 2 ELSE @.slot]]
    /\ UNCHANGED <<alive, slotVars, creds, retryThreadCreated,
                   isReconnecting, monitor, up, quiet>>

RetryUnmounts(r) ==
    /\ At(r, "unmount")
    /\ LeaveMounted(retry[r].slot)
    /\ Goto(r, "sleep")
    /\ UNCHANGED quiet

(* unMount() does not catch the error of a slot that is not mounted.       *)
RetryUnmountRefused(r) ==
    /\ At(r, "unmount")
    /\ LoopRuns
    /\ phase[retry[r].slot] # "mounted"
    /\ Die
    /\ UNCHANGED quiet

(* Neither do GetAll and unMount() when mount(2) blocks the loop longer    *)
(* than a D-Bus call waits, which is unforeseen.                           *)
CallTimesOut(r) ==
    /\ At(r, "start") \/ At(r, "unmount")
    /\ loop # None
    /\ Die
    /\ Disturb(TRUE)

(* Five or ten seconds, longer than a monitor thread needs for its stores. *)
SleepEnds(r) ==
    /\ At(r, "sleep")
    /\ \A m \in Monitors :
          Handles(r, monitor[m].slot) => monitor[m].at # "mark"
    /\ LET first == retry[r].both /\ retry[r].slot = 2 IN
       retry' = [retry EXCEPT
                    ![r].at = IF first THEN "unmount" ELSE "attempt",
                    ![r].slot = IF retry[r].both THEN Other(@) ELSE @]
    /\ UNCHANGED <<alive, slotVars, creds, retryThreadCreated,
                   isReconnecting, monitor, up, quiet>>

(* retryMount() of a slot without credentials is over at once; otherwise   *)
(* an attempt begins with getActiveStatus(), for which no answer in time   *)
(* counts as not active.                                                   *)
IsActive(s) == loop = None /\ phase[s] = "mounted"

BeginAttempt(r) ==
    /\ At(r, "attempt")
    /\ LET s == retry[r].slot IN
       \/ /\ retry[r].tries = 1
          /\ creds[s] = None
          /\ Goto(r, "exhausted")
       \/ /\ retry[r].tries > 1 \/ creds[s] # None
          /\ ~IsActive(s)
          /\ Goto(r, "call")
       \/ /\ retry[r].tries > 1 \/ creds[s] # None
          /\ IsActive(s)
          /\ retry' = [retry EXCEPT ![r].at = "clear", ![r].tries = 1]
    /\ UNCHANGED <<alive, slotVars, creds, retryThreadCreated,
                   isReconnecting, monitor, up, quiet>>

NextAttemptOneMore(r) ==
    retry' = IF retry[r].tries <= MaxAttempts
             THEN [retry EXCEPT ![r].at = "attempt", ![r].tries = @ + 1]
             ELSE [retry EXCEPT ![r].at = "exhausted", ![r].tries = 1]

NextAttemptUncounted(r) == Goto(r, "attempt")

NextAttempt(r) ==
    retry' = IF retry[r].tries < MaxAttempts
             THEN [retry EXCEPT ![r].at = "attempt", ![r].tries = @ + 1]
             ELSE [retry EXCEPT ![r].at = "exhausted", ![r].tries = 1]

(* creds[slot] is used without another look at whether it is there.        *)
UseCleared(r) ==
    /\ At(r, "call")
    /\ creds[retry[r].slot] = None
    /\ Die
    /\ UNCHANGED quiet

RetryMounts(r) ==
    /\ At(r, "call")
    /\ creds[retry[r].slot] # None
    /\ BeginMount(retry[r].slot, creds[retry[r].slot])
    /\ Goto(r, "wait")
    /\ UNCHANGED <<overdue, monitor, quiet>>

(* The slot is not ready, or the read end of the credentials' pipe was     *)
(* given away by an earlier attempt.                                       *)
RetryMountRefused(r) ==
    /\ At(r, "call")
    /\ creds[retry[r].slot] # None
    /\ NextAttempt(r)
    /\ UNCHANGED <<alive, slotVars, creds, retryThreadCreated,
                   isReconnecting, monitor, up, quiet>>

(* The loop is blocked for longer than the call waits: the call counts as  *)
(* failed, yet it is served when the loop runs again, which is unforeseen. *)
MountTimesOut(r) ==
    /\ Outside
    /\ At(r, "call")
    /\ loop # None
    /\ creds[retry[r].slot] # None
    /\ overdue' = overdue \cup {[slot |-> retry[r].slot,
                                image |-> creds[retry[r].slot],
                                by |-> r, try |-> retry[r].tries]}
    /\ NextAttempt(r)
    /\ Disturb(TRUE)
    /\ UNCHANGED <<alive, phase, share, loop, creds, retryThreadCreated,
                   isReconnecting, monitor, up>>

(* Ten looks, one a second, at the property and at the image's file.       *)
Reconnected(s) ==
    IsActive(s) \/ (loop # s /\ Reachable(s))

RetrySucceeds(r) ==
    /\ At(r, "wait")
    /\ Reconnected(retry[r].slot)
    /\ retry' = [retry EXCEPT ![r].at = "clear", ![r].tries = 1]
    /\ UNCHANGED <<alive, slotVars, creds, retryThreadCreated,
                   isReconnecting, monitor, up, quiet>>

(* The looks were in vain, or the call itself has timed out, while its     *)
(* mount(2) still blocks the loop.                                         *)
RetryGivesUpWaiting(r) ==
    /\ At(r, "wait")
    /\ ~Reconnected(retry[r].slot)
    /\ NextAttempt(r)
    /\ UNCHANGED <<alive, slotVars, creds, retryThreadCreated,
                   isReconnecting, monitor, up, quiet>>

ExhaustClearsAll(r) ==
    /\ At(r, "exhausted")
    /\ creds' = [s \in Slots |-> None]
    /\ Goto(r, "clear")
    /\ Disturb(phase[retry[r].slot] \in {"mounting", "mounted"})
    /\ UNCHANGED <<alive, slotVars, retryThreadCreated, isReconnecting,
                   monitor, up>>

(* Unforeseen: the slot is mounted after all, or will be.                  *)
Exhaust(r) ==
    /\ At(r, "exhausted")
    /\ creds' = [creds EXCEPT ![retry[r].slot] = None]
    /\ Goto(r, "clear")
    /\ Disturb(phase[retry[r].slot] \in {"mounting", "mounted"})
    /\ UNCHANGED <<alive, slotVars, retryThreadCreated, isReconnecting,
                   monitor, up>>

ClearFlagOfFirst(r) ==
    /\ At(r, "clear")
    /\ retryThreadCreated' = [retryThreadCreated EXCEPT ![2] = FALSE]
    /\ retry' = [retry EXCEPT
                    ![r] = IF @.both /\ @.slot = 2
                           THEN [@ EXCEPT !.at = "attempt", !.slot = 3, !.tries = 1]
                           ELSE RetryOff]
    /\ UNCHANGED <<alive, slotVars, creds, isReconnecting, monitor, up,
                   quiet>>

ClearFlag(r) ==
    /\ At(r, "clear")
    /\ retryThreadCreated' = [retryThreadCreated EXCEPT ![retry[r].slot] = FALSE]
    /\ retry' = [retry EXCEPT
                    ![r] = IF @.both /\ @.slot = 2
                           THEN [@ EXCEPT !.at = "attempt", !.slot = 3, !.tries = 1]
                           ELSE RetryOff]
    /\ UNCHANGED <<alive, slotVars, creds, isReconnecting, monitor, up,
                   quiet>>

-----------------------------------------------------------------------------
ServerChanges(v) ==
    /\ alive
    /\ Outside
    /\ up' = IF v \in up THEN up \ {v} ELSE up \cup {v}
    /\ UNCHANGED <<alive, slotVars, creds, retryThreadCreated,
                   isReconnecting, threadVars, quiet>>

Kill ==
    /\ alive
    /\ Die
    /\ Disturb(TRUE)

(* Restart=always.                                                         *)
Restart ==
    /\ ~alive
    /\ alive' = TRUE
    /\ quiet' = TRUE
    /\ UNCHANGED <<slotVars, creds, retryThreadCreated, isReconnecting,
                   threadVars, up>>

LoopSteps ==
    \/ \E call \in overdue : ServeOverdue(call)
    \/ \E s \in Slots :
        \/ \E image \in Images[s] : ClientMounts(s, image)
        \/ MountReturns(s)
        \/ Activate(s)
        \/ ActivationFails(s)
        \/ SlotUnmounts(s)
        \/ UnmountEnds(s)

MonitorThread(m) == Poll(m) \/ StartRetry(m) \/ MarkRetry(m) \/ ShareIsGone(m)

RetryThread(r) ==
    \/ ChooseSlots(r) \/ RetryUnmounts(r) \/ RetryUnmountRefused(r)
    \/ CallTimesOut(r) \/ SleepEnds(r) \/ BeginAttempt(r)
    \/ UseCleared(r) \/ RetryMounts(r) \/ RetryMountRefused(r)
    \/ MountTimesOut(r)
    \/ RetrySucceeds(r) \/ RetryGivesUpWaiting(r) \/ Exhaust(r) \/ ClearFlag(r)

Next ==
    \/ LoopSteps
    \/ \E m \in Monitors : MonitorThread(m)
    \/ \E r \in Retries : RetryThread(r)
    \/ \E v \in Servers : ServerChanges(v)
    \/ Kill
    \/ Restart

Spec == Init /\ [][Next]_vars

(* Threads run and a mount(2) returns.  Nothing is assumed of clients, of  *)
(* servers, of devices that are to appear, or of a restart.                *)
Fairness ==
    /\ \A m \in Monitors : WF_vars(MonitorThread(m))
    /\ \A r \in Retries : WF_vars(RetryThread(r))
    /\ WF_vars(\E s \in Slots : MountReturns(s))

LiveSpec == Spec /\ Fairness

-----------------------------------------------------------------------------
(* Properties.                                                             *)

(* Those that begin with quiet hold until a step disturbs: a client or the *)
(* host interferes with a slot that a thread looks after, a second slot    *)
(* joins a server before the first has its monitor, an error of statfs()   *)
(* or an outage comes at the wrong moment, a D-Bus call waits too long, or *)
(* the attempts end while a mount is under way.  Each of these the code    *)
(* may not survive, or loses a share by.                                   *)

(* No thread ends the service, unless disturbed: no retry thread unmounts  *)
(* a slot that is not mounted or uses credentials that another thread has  *)
(* cleared (system.hpp 643, 1096).                                         *)
QuietSurvives == quiet => alive

(* Unless disturbed, a mounted share has a thread that watches it, its own *)
(* or the one of the other slot on its server, also after that thread has  *)
(* changed over from the other slot; and credentials of no other server:   *)
(* its own, or none once the change-over has cleared them (system.hpp      *)
(* 1225, 1242, 1629).                                                      *)
IsWatched(s) ==
    \/ \E m \in Monitors : Polls(m, s) \/ (isSamePath /\ Polls(m, Other(s)))
    \/ \E r \in Retries : Handles(r, s)

MountedIsWatched ==
    quiet => \A s \in Slots :
        phase[s] = "mounted" /\ share[s] # None
            => creds[s] \in {share[s], None} /\ IsWatched(s)

(* Unless disturbed, no slot has two monitor threads or two retry threads: *)
(* the flag is stored after the thread has started, and after that its end *)
(* clears it (system.hpp 1201-1217).  Disturbed it is by a mount that      *)
(* comes before the last monitor has seen the slot unmounted, or from the  *)
(* other slot's server while is_reconnecting is left over.                 *)
OneOfEach ==
    quiet => \A s \in Slots :
        /\ \A m, n \in Monitors : Polls(m, s) /\ Polls(n, s) => m = n
        /\ \A r, q \in Retries : Handles(r, s) /\ Handles(q, s) => r = q

(* Unless disturbed, a flag that is set belongs to a retry thread that     *)
(* will clear it: with the flag left behind no later outage is acted upon  *)
(* (system.hpp 1200).                                                      *)
FlagIsOwned ==
    quiet => \A s \in Slots :
        retryThreadCreated[s] => \E r \in Retries : Handles(r, s)

(* Each step of a retry thread leads towards its end, whatever the main    *)
(* loop and other threads change in between: no clearing of credentials,   *)
(* refused Mount or late mount lets it go over attempts, or over a slot,   *)
(* again, so that it makes at most StepsLeft steps (system.hpp 1062-1188). *)
StepsPerSlot == 3 * MaxAttempts + 2

StepsLeft(thread) ==
    LET first == thread.both /\ thread.slot = 2
        attempts == 3 * (MaxAttempts - thread.tries)
        others == IF first THEN StepsPerSlot ELSE 0
        unmounts == 2 * StepsPerSlot + (IF first THEN 2 ELSE 0)
    IN  CASE thread.at = "start"     -> 2 * StepsPerSlot + 5
          [] thread.at = "unmount"   -> unmounts + 2
          [] thread.at = "sleep"     -> unmounts + 1
          [] thread.at = "attempt"   -> others + attempts + 5
          [] thread.at = "call"      -> others + attempts + 4
          [] thread.at = "wait"      -> others + attempts + 3
          [] thread.at = "exhausted" -> others + 2
          [] thread.at = "clear"     -> others + 1
          [] thread.at = "off"       -> 0

RetryAdvances ==
    [][\A r \in Retries :
          retry[r].at # "off" /\ retry'[r] # retry[r]
              => StepsLeft(retry'[r]) < StepsLeft(retry[r])]_vars

(* Every retry thread ends, whatever the others do: time and again it is   *)
(* off (system.hpp 1096-1140).                                             *)
RetryEnds == \A r \in Retries : []<>(retry[r].at = "off")

(* Unless disturbed, a share whose server stays down does not stay         *)
(* mounted: no outage goes unnoticed because a flag, a thread or the       *)
(* credentials are missing (system.hpp 1200).                              *)
Lost(s) == quiet /\ phase[s] = "mounted" /\ share[s] # None /\ ~Reachable(s)

LostIsUnmounted == \A s \in Slots : []<>~Lost(s)
=============================================================================

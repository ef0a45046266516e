------------------------- MODULE NotificationWrapper -------------------------
(***************************************************************************)
(* utils::NotificationWrapper (src/utils.hpp) as MountPointStateMachine    *)
(* uses it (src/state_machine.hpp): the Completion signal that answers an  *)
(* accepted Mount or Unmount, and the boost timer that guards it.          *)
(*                                                                         *)
(* A boost timer that expires, or whose wait is cancelled, only queues its *)
(* handler; the handler runs later from the io_context.  Whether it was    *)
(* cancelled or expired makes no difference here: the wrapper's lambda     *)
(* clears "started" before it calls the machine's handler, and a notify()  *)
(* with "started" clear is suppressed.                                     *)
(***************************************************************************)
EXTENDS Naturals

CONSTANTS
    MaxQueued   \* bound: handlers of the notification timer waiting to run

ASSUME MaxQueuedAssumption == MaxQueued \in Nat \ {0}

VARIABLES
    started,    \* NotificationWrapper::started
    armed,      \* an async_wait is outstanding on the wrapper's timer
    queued,     \* handlers of earlier waits, queued in the io_context
    pending     \* what the D-Bus client knows of its last accepted request

noteVars == <<started, armed, queued, pending>>

Requests == {"mount", "unmount"}
Outcomes == {"ok", "error"}

NoteTypeOK ==
    /\ started \in BOOLEAN
    /\ armed \in BOOLEAN
    /\ queued \in 0..MaxQueued
    /\ armed => queued < MaxQueued
    /\ pending \in {"none"} \cup Requests \cup Outcomes

NoteInit ==
    /\ started = FALSE
    /\ armed = FALSE
    /\ queued = 0
    /\ pending = "none"

\* Room for one more handler once the timer has been set again.
CanStart == queued + (IF armed THEN 1 ELSE 0) < MaxQueued

(* start(): expires_after() cancels an outstanding wait, then waits anew.  *)
Start(request) ==
    /\ CanStart
    /\ started' = TRUE
    /\ armed' = TRUE
    /\ queued' = IF armed THEN queued + 1 ELSE queued
    /\ pending' = request

(* notify(): the signal is sent only if the wrapper is started; the cancel *)
(* queues the handler of the outstanding wait.                             *)
NotifyStillStarted(outcome) ==
    \/ /\ started
       /\ armed' = FALSE
       /\ queued' = IF armed THEN queued + 1 ELSE queued
       /\ pending' = outcome
       /\ UNCHANGED started
    \/ /\ ~started
       /\ UNCHANGED noteVars

Notify(outcome) ==
    \/ /\ started
       /\ started' = FALSE
       /\ armed' = FALSE
       /\ queued' = IF armed THEN queued + 1 ELSE queued
       /\ pending' = outcome
    \/ /\ ~started
       /\ UNCHANGED noteVars

(* start() followed by notify() in the same handler.                       *)
StartThenNotify(outcome) ==
    /\ CanStart
    /\ started' = FALSE
    /\ armed' = FALSE
    /\ queued' = queued + (IF armed THEN 2 ELSE 1)
    /\ pending' = outcome

(* The duration passes: timeout (30 s by default) plus 5 s.                *)
TimerExpires ==
    /\ armed
    /\ armed' = FALSE
    /\ queued' = queued + 1
    /\ UNCHANGED <<started, pending>>

(* The lambda of start(): started = false; handler(ec).  The machine's     *)
(* handler returns on operation_canceled and otherwise calls notify(busy), *)
(* which finds the wrapper no longer started.                              *)
TimerHandler ==
    /\ queued > 0
    /\ queued' = queued - 1
    /\ started' = FALSE
    /\ UNCHANGED <<armed, pending>>
=============================================================================

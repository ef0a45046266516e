-------------------------- MODULE ReconnectProofs --------------------------
(***************************************************************************)
(* Proofs about Reconnect, for any servers, any number of threads and any  *)
(* number of attempts.                                                     *)
(***************************************************************************)
EXTENDS Reconnect, TLAPS

-----------------------------------------------------------------------------
(* Type correctness.                                                       *)

SlotTypeOK ==
    /\ alive \in BOOLEAN
    /\ phase \in [Slots -> Phases]
    /\ share \in [Slots -> Maybe(Servers)]
    /\ loop \in Maybe(Slots)
    /\ overdue \subseteq MountCalls
    /\ up \subseteq Servers

FlagTypeOK ==
    /\ creds \in [Slots -> Maybe(Servers)]
    /\ retryThreadCreated \in [Slots -> BOOLEAN]
    /\ isReconnecting \in BOOLEAN
    /\ quiet \in BOOLEAN

MonitorTypeOK == monitor \in [Monitors -> [at : MonitorSteps, slot : Slots]]

Thread == [at : RetrySteps, slot : Slots, both : BOOLEAN, tries : 1..MaxAttempts]
RetryTypeOK == retry \in [Retries -> Thread]

LEMMA TypeParts ==
    TypeOK <=> SlotTypeOK /\ FlagTypeOK /\ MonitorTypeOK /\ RetryTypeOK
BY DEF TypeOK, SlotTypeOK, FlagTypeOK, MonitorTypeOK, RetryTypeOK, Thread

LEMMA TypePartsNext ==
    ASSUME SlotTypeOK', FlagTypeOK', MonitorTypeOK', RetryTypeOK'
    PROVE  TypeOK'
BY DEF TypeOK, SlotTypeOK, FlagTypeOK, MonitorTypeOK, RetryTypeOK, Thread

LEMMA OffTypes ==
    /\ MonitorOff \in [at : MonitorSteps, slot : Slots]
    /\ RetryOff \in Thread
BY MaxAttemptsAssumption
   DEF MaxAttemptsAssumption, MonitorOff, RetryOff, MonitorSteps, RetrySteps,
       Slots, Thread

LEMMA DieTypes ==
    ASSUME TypeOK, Die, quiet' \in BOOLEAN
    PROVE  TypeOK'
BY OffTypes DEF Die, TypeOK, Thread, Phases, Maybe, Slots

LEMMA BeginMountTypes ==
    ASSUME TypeOK, NEW s \in Slots, NEW image, BeginMount(s, image),
           quiet' \in BOOLEAN, overdue' \subseteq overdue
    PROVE  SlotTypeOK' /\ FlagTypeOK'
<1>1. phase' \in [Slots -> Phases]
  BY DEF BeginMount, TypeOK, Phases
<1>2. share' \in [Slots -> Maybe(Servers)] /\ loop' \in Maybe(Slots)
  BY DEF BeginMount, TypeOK, Maybe
<1>3. creds' \in [Slots -> Maybe(Servers)]
  BY DEF BeginMount, TypeOK, Maybe
<1>4. UNCHANGED <<alive, retryThreadCreated, isReconnecting, up>>
  BY DEF BeginMount
<1>5. /\ alive \in BOOLEAN /\ isReconnecting \in BOOLEAN /\ up \subseteq Servers
      /\ retryThreadCreated \in [Slots -> BOOLEAN]
      /\ overdue' \subseteq MountCalls
  BY DEF TypeOK
<1>6. SlotTypeOK'
  BY <1>1, <1>2, <1>4, <1>5 DEF SlotTypeOK
<1>7. FlagTypeOK'
  BY <1>3, <1>4, <1>5 DEF FlagTypeOK
<1> QED
  BY <1>6, <1>7

LEMMA MountFailsTypes ==
    ASSUME TypeOK, NEW s \in Slots, MountFails(s)
    PROVE  phase' \in [Slots -> Phases] /\ share' \in [Slots -> Maybe(Servers)]
BY DEF MountFails, TypeOK, Phases, Maybe

LEMMA StartMonitorTypes ==
    ASSUME TypeOK, NEW s \in Slots, StartMonitor(s)
    PROVE  isReconnecting' \in BOOLEAN /\ MonitorTypeOK'
<1>1. [at |-> "poll", slot |-> s] \in [at : MonitorSteps, slot : Slots]
  BY DEF MonitorSteps
<1>2. CASE UNCHANGED <<isReconnecting, monitor>>
  BY <1>2 DEF TypeOK, MonitorTypeOK
<1>3. ASSUME isReconnecting' = FALSE, NEW m \in Monitors,
             monitor' = [monitor EXCEPT ![m] = [at |-> "poll", slot |-> s]]
      PROVE  isReconnecting' \in BOOLEAN /\ MonitorTypeOK'
  BY <1>1, <1>3 DEF TypeOK, MonitorTypeOK
<1> QED
  BY <1>2, <1>3 DEF StartMonitor

LEMMA LoopTypes ==
    ASSUME TypeOK, LoopSteps
    PROVE  TypeOK'
<1>1. ASSUME NEW s \in Slots, NEW image \in Images[s], ClientMounts(s, image)
      PROVE  TypeOK'
  <2>1. quiet' \in BOOLEAN
    BY <1>1 DEF ClientMounts, Disturb, TypeOK
  <2>2. BeginMount(s, image) /\ UNCHANGED <<overdue, threadVars>>
    BY <1>1 DEF ClientMounts
  <2>3. MonitorTypeOK' /\ RetryTypeOK'
    BY <2>2 DEF threadVars, TypeOK, MonitorTypeOK, RetryTypeOK, Thread
  <2> QED
    BY <2>1, <2>2, <2>3, BeginMountTypes, TypePartsNext
<1>2. ASSUME NEW s \in Slots, MountReturns(s)
      PROVE  TypeOK'
  <2>1. quiet' \in BOOLEAN
    BY <1>2 DEF MountReturns, Disturb, TypeOK
  <2>2. phase' \in [Slots -> Phases] /\ share' \in [Slots -> Maybe(Servers)]
    BY <1>2, MountFailsTypes DEF MountReturns, TypeOK
  <2> QED
    BY <1>2, <2>1, <2>2 DEF MountReturns, TypeOK, Maybe, threadVars
<1>3. ASSUME NEW s \in Slots, Activate(s)
      PROVE  TypeOK'
  <2>1. quiet' \in BOOLEAN
    BY <1>3 DEF Activate, Disturb, TypeOK
  <2>2. phase' \in [Slots -> Phases] /\ share' \in [Slots -> Maybe(Servers)]
    BY <1>3, MountFailsTypes DEF Activate, TypeOK, Phases
  <2>3. isReconnecting' \in BOOLEAN /\ MonitorTypeOK'
    BY <1>3, StartMonitorTypes DEF Activate
  <2> QED
    BY <1>3, <2>1, <2>2, <2>3 DEF Activate, TypeOK, MonitorTypeOK
<1>4. ASSUME NEW s \in Slots, ActivationFails(s)
      PROVE  TypeOK'
  <2>1. quiet' \in BOOLEAN
    BY <1>4 DEF ActivationFails, Disturb, TypeOK
  <2>2. phase' \in [Slots -> Phases] /\ share' \in [Slots -> Maybe(Servers)]
    BY <1>4, MountFailsTypes DEF ActivationFails
  <2> QED
    BY <1>4, <2>1, <2>2 DEF ActivationFails, TypeOK, threadVars
<1>5. ASSUME NEW s \in Slots, SlotUnmounts(s)
      PROVE  TypeOK'
  BY <1>5 DEF SlotUnmounts, LeaveMounted, Disturb, TypeOK, Phases
<1>6. ASSUME NEW s \in Slots, UnmountEnds(s)
      PROVE  TypeOK'
  BY <1>6 DEF UnmountEnds, TypeOK, Phases, Maybe, threadVars
<1>7. ASSUME NEW call \in overdue, ServeOverdue(call)
      PROVE  TypeOK'
  <2>1. call.slot \in Slots /\ quiet' \in BOOLEAN
    BY <1>7 DEF ServeOverdue, TypeOK, MountCalls
  <2>2. SlotTypeOK' /\ FlagTypeOK'
    <3>1. CASE BeginMount(call.slot, call.image)
      BY <1>7, <2>1, <3>1, BeginMountTypes DEF ServeOverdue
    <3>2. CASE UNCHANGED <<alive, phase, share, loop, creds,
                           retryThreadCreated, isReconnecting, up>>
      BY <1>7, <3>2 DEF ServeOverdue, TypeOK, SlotTypeOK, FlagTypeOK
    <3> QED
      BY <1>7, <3>1, <3>2 DEF ServeOverdue
  <2>3. MonitorTypeOK' /\ RetryTypeOK'
    BY <1>7
       DEF ServeOverdue, threadVars, TypeOK, MonitorTypeOK, RetryTypeOK, Thread
  <2> QED
    BY <2>2, <2>3, TypePartsNext
<1> QED
  BY <1>1, <1>2, <1>3, <1>4, <1>5, <1>6, <1>7 DEF LoopSteps

LEMMA MonitorTypes ==
    ASSUME TypeOK, NEW m \in Monitors, MonitorThread(m)
    PROVE  TypeOK'
<1>1. CASE Poll(m)
  BY <1>1 DEF Poll, Answers, Disturb, TypeOK, MonitorSteps, slotVars
<1>2. CASE StartRetry(m)
  <2>1. monitor' \in [Monitors -> [at : MonitorSteps, slot : Slots]]
    <3>1. [monitor EXCEPT ![m] = MonitorOff]
             \in [Monitors -> [at : MonitorSteps, slot : Slots]]
      BY OffTypes DEF TypeOK
    <3>2. [monitor EXCEPT ![m].at = "mark"]
             \in [Monitors -> [at : MonitorSteps, slot : Slots]]
      BY DEF TypeOK, MonitorSteps
    <3> QED
      BY <1>2, <3>1, <3>2 DEF StartRetry
  <2>2. monitor[m].slot \in Slots
    BY DEF TypeOK
  <2>3. [RetryOff EXCEPT !.at = "start", !.slot = monitor[m].slot] \in Thread
    BY <2>2, OffTypes DEF Thread, RetrySteps
  <2>4. retry' \in [Retries -> Thread]
    <3>1. CASE UNCHANGED retry
      BY <3>1 DEF TypeOK, Thread
    <3>2. ASSUME NEW r \in Retries, NEW t \in Thread,
                 retry' = [retry EXCEPT ![r] = t]
          PROVE  retry' \in [Retries -> Thread]
      BY <3>2 DEF TypeOK, Thread
    <3> QED
      BY <1>2, <2>3, <3>1, <3>2 DEF StartRetry
  <2> QED
    BY <1>2, <2>1, <2>4 DEF StartRetry, TypeOK, Thread, slotVars
<1>3. CASE MarkRetry(m)
  BY <1>3, OffTypes DEF MarkRetry, TypeOK, slotVars
<1>4. CASE ShareIsGone(m)
  <2>1. quiet' \in BOOLEAN
    BY <1>4 DEF ShareIsGone, Disturb, TypeOK
  <2>2. monitor[m].slot \in Slots /\ Other(monitor[m].slot) \in Slots
    BY DEF TypeOK, Other, Slots
  <2>3. monitor' \in [Monitors -> [at : MonitorSteps, slot : Slots]]
    <3>1. [at |-> "poll", slot |-> Other(monitor[m].slot)]
             \in [at : MonitorSteps, slot : Slots]
      BY <2>2 DEF MonitorSteps
    <3>2. [monitor EXCEPT ![m].at = "poll"]
             \in [Monitors -> [at : MonitorSteps, slot : Slots]]
      BY DEF TypeOK, MonitorSteps
    <3> QED
      BY <1>4, <3>1, <3>2, OffTypes DEF ShareIsGone, TypeOK
  <2> QED
    BY <1>4, <2>1, <2>2, <2>3 DEF ShareIsGone, TypeOK, Maybe, slotVars
<1> QED
  BY <1>1, <1>2, <1>3, <1>4 DEF MonitorThread

LEMMA NextAttemptTypes ==
    ASSUME TypeOK, NEW r \in Retries, NextAttempt(r)
    PROVE  RetryTypeOK'
<1>1. retry[r].tries \in 1..MaxAttempts
  BY DEF TypeOK
<1>2. retry[r].tries < MaxAttempts => retry[r].tries + 1 \in 1..MaxAttempts
  BY <1>1, MaxAttemptsAssumption DEF MaxAttemptsAssumption
<1>3. 1 \in 1..MaxAttempts
  BY MaxAttemptsAssumption DEF MaxAttemptsAssumption
<1>4. retry \in [Retries -> Thread] /\ retry[r] \in Thread
  BY DEF TypeOK, Thread
<1>5. ASSUME NEW step \in RetrySteps, NEW n \in 1..MaxAttempts
      PROVE  [retry EXCEPT ![r].at = step, ![r].tries = n]
                \in [Retries -> Thread]
  BY <1>4 DEF Thread
<1>6. "attempt" \in RetrySteps /\ "exhausted" \in RetrySteps
  BY DEF RetrySteps
<1>7. CASE retry[r].tries < MaxAttempts
  <2>1. retry' = [retry EXCEPT ![r].at = "attempt",
                               ![r].tries = retry[r].tries + 1]
    BY <1>7 DEF NextAttempt
  <2> QED
    BY <1>2, <1>5, <1>6, <1>7, <2>1 DEF RetryTypeOK
<1>8. CASE ~(retry[r].tries < MaxAttempts)
  <2>1. retry' = [retry EXCEPT ![r].at = "exhausted", ![r].tries = 1]
    BY <1>8 DEF NextAttempt
  <2> QED
    BY <1>3, <1>5, <1>6, <2>1 DEF RetryTypeOK
<1> QED
  BY <1>7, <1>8

LEMMA RetryTypes ==
    ASSUME TypeOK, NEW r \in Retries, RetryThread(r)
    PROVE  TypeOK'
<1> USE MaxAttemptsAssumption DEF MaxAttemptsAssumption
<1>0. /\ retry[r] \in Thread
      /\ retry[r].slot \in Slots /\ Other(retry[r].slot) \in Slots
      /\ 2 \in Slots /\ 3 \in Slots /\ 1 \in 1..MaxAttempts
  BY DEF TypeOK, Thread, Other, Slots
<1>1. ASSUME RetryTypeOK', NEW s \in Slots,
             UNCHANGED <<alive, slotVars, retryThreadCreated, isReconnecting,
                         monitor, up>>,
             \/ UNCHANGED <<creds, quiet>>
             \/ creds' = [creds EXCEPT ![s] = None] /\ quiet' \in BOOLEAN
      PROVE  TypeOK'
  BY <1>1 DEF TypeOK, RetryTypeOK, Thread, slotVars, Maybe
<1>2. CASE ChooseSlots(r)
  <2>1. isSamePath \in BOOLEAN
    BY DEF isSamePath
  <2>2. retry' \in [Retries -> Thread]
    BY <1>0, <1>2, <2>1 DEF ChooseSlots, TypeOK, Thread, RetrySteps
  <2> QED
    BY <1>0, <1>1, <1>2, <2>2 DEF ChooseSlots, RetryTypeOK
<1>3. CASE RetryUnmounts(r)
  BY <1>0, <1>3
     DEF RetryUnmounts, Goto, LeaveMounted, TypeOK, RetrySteps, Phases
<1>4. CASE RetryUnmountRefused(r) \/ CallTimesOut(r) \/ UseCleared(r)
  BY <1>4, DieTypes
     DEF RetryUnmountRefused, CallTimesOut, UseCleared, Disturb, TypeOK
<1>5. CASE SleepEnds(r)
  <2>1. retry' \in [Retries -> Thread]
    BY <1>0, <1>5 DEF SleepEnds, TypeOK, Thread, RetrySteps
  <2> QED
    BY <1>0, <1>1, <1>5, <2>1 DEF SleepEnds, RetryTypeOK
<1>6. CASE BeginAttempt(r)
  <2>1. /\ [retry EXCEPT ![r].at = "exhausted"] \in [Retries -> Thread]
        /\ [retry EXCEPT ![r].at = "call"] \in [Retries -> Thread]
    BY DEF TypeOK, Thread, RetrySteps
  <2>2. [retry EXCEPT ![r].at = "clear", ![r].tries = 1]
           \in [Retries -> Thread]
    BY <1>0 DEF TypeOK, Thread, RetrySteps
  <2>3. retry' \in [Retries -> Thread]
    BY <1>6, <2>1, <2>2 DEF BeginAttempt, Goto
  <2> QED
    BY <1>0, <1>1, <1>6, <2>3 DEF BeginAttempt, RetryTypeOK
<1>7. CASE RetryMounts(r)
  <2>1. SlotTypeOK' /\ FlagTypeOK'
    BY <1>0, <1>7, BeginMountTypes DEF RetryMounts, TypeOK
  <2>2. RetryTypeOK' /\ MonitorTypeOK'
    BY <1>0, <1>7
       DEF RetryMounts, Goto, TypeOK, RetryTypeOK, MonitorTypeOK, Thread,
           RetrySteps
  <2> QED
    BY <2>1, <2>2, TypePartsNext
<1>8. CASE RetryMountRefused(r) \/ RetryGivesUpWaiting(r)
  BY <1>0, <1>1, <1>8, NextAttemptTypes
     DEF RetryMountRefused, RetryGivesUpWaiting
<1>12. CASE MountTimesOut(r)
  <2>1. RetryTypeOK' /\ quiet' \in BOOLEAN
    BY <1>12, NextAttemptTypes DEF MountTimesOut, Disturb, TypeOK
  <2>2. [slot |-> retry[r].slot, image |-> creds[retry[r].slot],
         by |-> r, try |-> retry[r].tries] \in MountCalls
    BY <1>0, <1>12 DEF MountTimesOut, MountCalls, TypeOK, Maybe, Thread
  <2>3. overdue' \subseteq MountCalls
    BY <1>12, <2>2 DEF MountTimesOut, TypeOK
  <2> QED
    BY <1>12, <2>1, <2>3 DEF MountTimesOut, TypeOK, RetryTypeOK, Thread
<1>9. CASE RetrySucceeds(r)
  <2>1. retry' \in [Retries -> Thread]
    BY <1>0, <1>9 DEF RetrySucceeds, TypeOK, Thread, RetrySteps
  <2> QED
    BY <1>0, <1>1, <1>9, <2>1 DEF RetrySucceeds, RetryTypeOK
<1>10. CASE Exhaust(r)
  <2>1. retry' \in [Retries -> Thread] /\ quiet' \in BOOLEAN
    BY <1>0, <1>10 DEF Exhaust, Goto, Disturb, TypeOK, Thread, RetrySteps
  <2> QED
    BY <1>0, <1>1, <1>10, <2>1 DEF Exhaust, RetryTypeOK
<1>11. CASE ClearFlag(r)
  <2>1. retry' \in [Retries -> Thread]
    BY <1>0, <1>11, OffTypes DEF ClearFlag, TypeOK, Thread, RetrySteps
  <2> QED
    BY <1>0, <1>11, <2>1 DEF ClearFlag, TypeOK, Thread, slotVars
<1> QED
  BY <1>2, <1>3, <1>4, <1>5, <1>6, <1>7, <1>8, <1>9, <1>10, <1>11, <1>12
     DEF RetryThread

LEMMA InitTypes == Init => TypeOK
<1> SUFFICES ASSUME Init PROVE TypeOK
  OBVIOUS
<1>1. SlotTypeOK /\ FlagTypeOK
  BY DEF Init, SlotTypeOK, FlagTypeOK, Phases, Maybe
<1>2. MonitorTypeOK /\ RetryTypeOK
  BY OffTypes DEF Init, MonitorTypeOK, RetryTypeOK
<1> QED
  BY <1>1, <1>2, TypeParts

LEMMA StepTypes == TypeOK /\ [Next]_vars => TypeOK'
<1> SUFFICES ASSUME TypeOK, [Next]_vars
             PROVE  TypeOK'
  OBVIOUS
<1>1. ASSUME NEW v \in Servers, ServerChanges(v)
      PROVE  TypeOK'
  BY <1>1 DEF ServerChanges, TypeOK, slotVars, threadVars
<1>2. CASE Kill
  BY <1>2, DieTypes DEF Kill, Disturb, TypeOK
<1>3. CASE Restart
  BY <1>3 DEF Restart, TypeOK, slotVars, threadVars
<1>4. CASE UNCHANGED vars
  BY <1>4 DEF vars, TypeOK, slotVars, threadVars
<1> QED
  BY <1>1, <1>2, <1>3, <1>4, LoopTypes, MonitorTypes, RetryTypes DEF Next

\* Every variable keeps its type; in particular no retry thread makes more
\* than RetryCount attempts (system.hpp 1077-1133).
THEOREM TypeCorrect == Spec => []TypeOK
<1> QED
  BY InitTypes, StepTypes, PTL DEF Spec

-----------------------------------------------------------------------------
(* Every step of a retry thread leads towards its end.                     *)

Advances(r) ==
    retry[r].at # "off" /\ retry'[r] # retry[r]
        => StepsLeft(retry'[r]) < StepsLeft(retry[r])

LEMMA BoundsOfSteps ==
    ASSUME NEW t \in Thread
    PROVE  /\ StepsPerSlot \in Nat /\ StepsPerSlot >= 5
           /\ 3 * (MaxAttempts - t.tries) \in 0..(StepsPerSlot - 5)
           /\ StepsLeft(t) \in 0..(2 * StepsPerSlot + 5)
<1> USE MaxAttemptsAssumption DEF MaxAttemptsAssumption
<1>1. t.tries \in 1..MaxAttempts /\ t.at \in RetrySteps
  BY DEF Thread
<1>2. StepsPerSlot \in Nat /\ StepsPerSlot >= 5
  BY DEF StepsPerSlot
<1>3. 3 * (MaxAttempts - t.tries) \in 0..(StepsPerSlot - 5)
  BY <1>1 DEF StepsPerSlot
<1> DEFINE attempts == 3 * (MaxAttempts - t.tries)
<1> HIDE DEF attempts
<1>4. StepsLeft(t) \in 0..(2 * StepsPerSlot + 5)
  <2>1. attempts \in 0..(StepsPerSlot - 5)
    BY <1>3 DEF attempts
  <2> DEFINE others == IF t.both /\ t.slot = 2 THEN StepsPerSlot ELSE 0
             more == IF t.both /\ t.slot = 2 THEN 2 ELSE 0
  <2>2. others \in 0..StepsPerSlot /\ more \in 0..2
    BY <1>2
  <2>3. StepsLeft(t) \in {0, 2 * StepsPerSlot + 5,
                         2 * StepsPerSlot + more + 2, 2 * StepsPerSlot + more + 1,
                         others + attempts + 5, others + attempts + 4,
                         others + attempts + 3, others + 2, others + 1}
    BY <1>1 DEF StepsLeft, RetrySteps, attempts
  <2> HIDE DEF others, more
  <2> QED
    BY <1>2, <2>1, <2>2, <2>3
<1> QED
  BY <1>2, <1>3, <1>4

LEMMA OffIsLast ==
    ASSUME NEW t \in Thread, t.at # "off"
    PROVE  StepsLeft(RetryOff) < StepsLeft(t)
<1>1. StepsLeft(RetryOff) = 0
  BY DEF StepsLeft, RetryOff
<1>2. t.at \in RetrySteps
  BY DEF Thread
<1> DEFINE attempts == 3 * (MaxAttempts - t.tries)
<1> HIDE DEF attempts
<1>3. StepsPerSlot \in Nat /\ attempts \in Nat
  BY BoundsOfSteps DEF attempts
<1>4. StepsLeft(t) > 0
  BY <1>2, <1>3 DEF StepsLeft, RetrySteps, attempts
<1> QED
  BY <1>1, <1>4

\* Going on within a slot.
LEMMA GoingOn ==
    ASSUME NEW t \in Thread, NEW step \in RetrySteps,
           \/ t.at = "unmount" /\ step = "sleep"
           \/ t.at = "attempt" /\ step \in {"call", "exhausted"}
           \/ t.at = "call" /\ step = "wait"
           \/ t.at = "exhausted" /\ step = "clear"
    PROVE  StepsLeft([t EXCEPT !.at = step]) < StepsLeft(t)
<1> DEFINE u == [t EXCEPT !.at = step]
           attempts == 3 * (MaxAttempts - t.tries)
           first == t.both /\ t.slot = 2
<1>1. /\ u.at = step /\ u.slot = t.slot /\ u.both = t.both
      /\ u.tries = t.tries
  BY DEF Thread
<1> HIDE DEF u, attempts, first
<1>2. StepsPerSlot \in Nat /\ attempts \in Nat
  BY BoundsOfSteps DEF attempts
<1>3. /\ (u.both /\ u.slot = 2) <=> first
      /\ 3 * (MaxAttempts - u.tries) = attempts
  BY <1>1 DEF first, attempts
<1>4. StepsLeft(u) < StepsLeft(t)
  <2>1. CASE first
    BY <1>1, <1>2, <1>3, <2>1 DEF StepsLeft, first, attempts
  <2>2. CASE ~first
    BY <1>1, <1>2, <1>3, <2>2 DEF StepsLeft, first, attempts
  <2> QED
    BY <2>1, <2>2
<1> QED
  BY <1>4 DEF u

\* The end of an attempt.
LEMMA AttemptEnds ==
    ASSUME NEW t \in Thread, t.at \in {"attempt", "call", "wait"},
           NEW u \in Thread, u.slot = t.slot, u.both = t.both,
           \/ u.at \in {"clear", "exhausted"}
           \/ /\ u.at = "attempt" /\ t.at # "attempt"
              /\ u.tries = t.tries + 1
    PROVE  StepsLeft(u) < StepsLeft(t)
<1> DEFINE attempts == 3 * (MaxAttempts - t.tries)
           then == 3 * (MaxAttempts - u.tries)
           first == t.both /\ t.slot = 2
<1>1. StepsPerSlot \in Nat /\ attempts \in Nat /\ then \in Nat
  BY BoundsOfSteps
<1>2. u.at = "attempt" => then = attempts - 3
  BY MaxAttemptsAssumption DEF MaxAttemptsAssumption, Thread
<1>3. (u.both /\ u.slot = 2) <=> first
  OBVIOUS
<1> HIDE DEF attempts, then, first
<1>4. CASE first
  BY <1>1, <1>2, <1>3, <1>4 DEF StepsLeft, first, attempts, then
<1>5. CASE ~first
  BY <1>1, <1>2, <1>3, <1>5 DEF StepsLeft, first, attempts, then
<1> QED
  BY <1>4, <1>5

\* From the unmounts to the mounts, and from the first slot to the second.
LEMMA SlotEnds ==
    ASSUME NEW t \in Thread, NEW u \in Thread,
           \/ t.at = "start" /\ u.at = "unmount"
           \/ /\ t.at = "sleep" /\ u.at = "unmount"
              /\ t.both /\ t.slot = 2 /\ u.slot = 3
           \/ /\ t.at = "sleep" /\ u.at = "attempt"
           \/ /\ t.at = "clear" /\ u.at = "attempt"
              /\ t.both /\ t.slot = 2 /\ u.slot = 3
    PROVE  StepsLeft(u) < StepsLeft(t)
<1> DEFINE attempts == 3 * (MaxAttempts - t.tries)
           then == 3 * (MaxAttempts - u.tries)
<1>1. StepsPerSlot \in Nat /\ attempts \in Nat
      /\ then \in 0..(StepsPerSlot - 5)
  BY BoundsOfSteps
<1> HIDE DEF attempts, then
<1> QED
  BY <1>1 DEF StepsLeft, attempts, then

LEMMA DieAdvances ==
    ASSUME TypeOK, Die, NEW r \in Retries
    PROVE  Advances(r)
<1>1. retry[r] \in Thread
  BY DEF TypeOK, Thread
<1>2. retry'[r] = RetryOff
  BY DEF Die
<1> QED
  BY <1>1, <1>2, OffIsLast DEF Advances

\* A thread goes on within its slot.
LEMMA WithinSlotAdvances ==
    ASSUME TypeOK, NEW r \in Retries,
           \/ RetryUnmounts(r) \/ BeginAttempt(r) \/ RetryMounts(r)
           \/ RetryMountRefused(r) \/ MountTimesOut(r) \/ RetrySucceeds(r)
           \/ RetryGivesUpWaiting(r) \/ Exhaust(r)
    PROVE  Advances(r)
<1> DEFINE t == retry[r]
<1>1. retry \in [Retries -> Thread] /\ t \in Thread
  BY DEF TypeOK, Thread
<1>2. ASSUME NEW step \in RetrySteps, Goto(r, step),
             \/ t.at = "unmount" /\ step = "sleep"
             \/ t.at = "attempt" /\ step \in {"call", "exhausted"}
             \/ t.at = "call" /\ step = "wait"
             \/ t.at = "exhausted" /\ step = "clear"
      PROVE  Advances(r)
  <2>1. retry'[r] = [t EXCEPT !.at = step]
    BY <1>1, <1>2 DEF Goto
  <2>2. StepsLeft([t EXCEPT !.at = step]) < StepsLeft(t)
    BY <1>1, <1>2, GoingOn
  <2> QED
    BY <2>1, <2>2 DEF Advances
<1>3. ASSUME t.at \in {"attempt", "call", "wait"},
             NEW step \in {"clear", "exhausted", "attempt"},
             NEW n \in 1..MaxAttempts,
             retry' = [retry EXCEPT ![r].at = step, ![r].tries = n],
             step = "attempt" => t.at # "attempt" /\ n = t.tries + 1
      PROVE  Advances(r)
  <2> DEFINE u == [t EXCEPT !.at = step, !.tries = n]
  <2>1. retry'[r] = u
    BY <1>1, <1>3
  <2>2. /\ u \in Thread /\ u.slot = t.slot /\ u.both = t.both
        /\ u.at = step /\ u.tries = n
    BY <1>1 DEF Thread, RetrySteps
  <2> HIDE DEF t, u
  <2>3. StepsLeft(u) < StepsLeft(t)
    BY <1>1, <1>3, <2>2, AttemptEnds
  <2> QED
    BY <2>1, <2>3 DEF Advances, t
<1>4. 1 \in 1..MaxAttempts
  BY MaxAttemptsAssumption DEF MaxAttemptsAssumption
<1>5. ASSUME NextAttempt(r), t.at \in {"call", "wait"}
      PROVE  Advances(r)
  <2>1. CASE t.tries < MaxAttempts
    <3>1. t.tries + 1 \in 1..MaxAttempts
      BY <1>1, <2>1, MaxAttemptsAssumption DEF Thread, MaxAttemptsAssumption
    <3>2. retry' = [retry EXCEPT ![r].at = "attempt", ![r].tries = t.tries + 1]
      BY <1>5, <2>1 DEF NextAttempt
    <3> QED
      BY <1>3, <1>5, <3>1, <3>2
  <2>2. CASE ~(t.tries < MaxAttempts)
    <3>1. retry' = [retry EXCEPT ![r].at = "exhausted", ![r].tries = 1]
      BY <1>5, <2>2 DEF NextAttempt
    <3> QED
      BY <1>3, <1>4, <1>5, <3>1
  <2> QED
    BY <2>1, <2>2
<1>6. CASE RetryUnmounts(r)
  BY <1>2, <1>6 DEF RetryUnmounts, At, RetrySteps
<1>7. CASE BeginAttempt(r)
  <2>1. t.at = "attempt"
    BY <1>7 DEF BeginAttempt, At
  <2>2. CASE Goto(r, "exhausted") \/ Goto(r, "call")
    BY <1>2, <2>1, <2>2 DEF RetrySteps
  <2>3. CASE retry' = [retry EXCEPT ![r].at = "clear", ![r].tries = 1]
    BY <1>3, <1>4, <2>1, <2>3
  <2> QED
    BY <1>7, <2>2, <2>3 DEF BeginAttempt
<1>8. CASE RetryMounts(r)
  BY <1>2, <1>8 DEF RetryMounts, At, RetrySteps
<1>9. CASE RetryMountRefused(r) \/ MountTimesOut(r) \/ RetryGivesUpWaiting(r)
  BY <1>5, <1>9 DEF RetryMountRefused, MountTimesOut, RetryGivesUpWaiting, At
<1>10. CASE RetrySucceeds(r)
  BY <1>3, <1>4, <1>10 DEF RetrySucceeds, At
<1>11. CASE Exhaust(r)
  BY <1>2, <1>11 DEF Exhaust, At, RetrySteps
<1> QED
  BY <1>6, <1>7, <1>8, <1>9, <1>10, <1>11

\* A thread goes over to its next slot, or ends.
LEMMA BetweenSlotsAdvances ==
    ASSUME TypeOK, TypeOK', NEW r \in Retries,
           ChooseSlots(r) \/ SleepEnds(r) \/ ClearFlag(r)
    PROVE  Advances(r)
<1> DEFINE t == retry[r]
           u == retry'[r]
<1>1. /\ retry \in [Retries -> Thread]
      /\ t \in Thread /\ u \in Thread
  BY DEF TypeOK, Thread
<1>2. CASE ChooseSlots(r)
  <2>1. t.at = "start" /\ u.at = "unmount"
    BY <1>1, <1>2 DEF ChooseSlots, At
  <2> QED
    BY <1>1, <2>1, SlotEnds DEF Advances
<1>3. CASE SleepEnds(r)
  <2> DEFINE first == t.both /\ t.slot = 2
             step == IF first THEN "unmount" ELSE "attempt"
             slot == IF t.both THEN Other(t.slot) ELSE t.slot
  <2>1. retry' = [retry EXCEPT ![r].at = step, ![r].slot = slot]
    BY <1>3 DEF SleepEnds
  <2>2. u.at = step /\ u.slot = slot /\ t.at = "sleep"
    BY <1>1, <1>3, <2>1 DEF SleepEnds, At, Thread
  <2>3. CASE first
    <3>1. u.at = "unmount" /\ u.slot = 3
      BY <2>2, <2>3 DEF Other
    <3> QED
      BY <1>1, <2>2, <2>3, <3>1, SlotEnds DEF Advances
  <2>4. CASE ~first
    <3>1. u.at = "attempt"
      BY <2>2, <2>4
    <3> QED
      BY <1>1, <2>2, <3>1, SlotEnds DEF Advances
  <2> QED
    BY <2>3, <2>4
<1>4. CASE ClearFlag(r)
  <2>1. t.at = "clear"
    BY <1>4 DEF ClearFlag, At
  <2>2. CASE t.both /\ t.slot = 2
    <3>1. u = [t EXCEPT !.at = "attempt", !.slot = 3, !.tries = 1]
      BY <1>1, <1>4, <2>2 DEF ClearFlag
    <3>2. u.at = "attempt" /\ u.slot = 3
      BY <1>1, <3>1 DEF Thread
    <3> QED
      BY <1>1, <2>1, <2>2, <3>2, SlotEnds DEF Advances
  <2>3. CASE ~(t.both /\ t.slot = 2)
    <3>1. u = RetryOff
      BY <1>1, <1>4, <2>3 DEF ClearFlag
    <3> QED
      BY <1>1, <2>1, <3>1, OffIsLast DEF Advances
  <2> QED
    BY <2>2, <2>3
<1> QED
  BY <1>2, <1>3, <1>4

\* No other thread moves it, except to end it.
LEMMA OthersLeaveIt ==
    ASSUME TypeOK, NEW r \in Retries, NEW q \in Retries, q # r, RetryThread(q)
    PROVE  Advances(r)
<1>1. CASE Die
  BY <1>1, DieAdvances
<1>2. CASE ~Die
  <2>1. CASE \/ ChooseSlots(q) \/ SleepEnds(q) \/ ClearFlag(q)
    BY <2>1 DEF ChooseSlots, SleepEnds, ClearFlag, TypeOK, Advances
  <2>2. CASE \/ RetryUnmounts(q) \/ RetryMounts(q) \/ Exhaust(q)
    BY <2>2 DEF RetryUnmounts, RetryMounts, Exhaust, Goto, TypeOK, Advances
  <2>3. CASE BeginAttempt(q) \/ RetrySucceeds(q)
    BY <2>3 DEF BeginAttempt, RetrySucceeds, Goto, TypeOK, Advances
  <2>4. CASE RetryMountRefused(q) \/ MountTimesOut(q) \/ RetryGivesUpWaiting(q)
    BY <2>4 DEF RetryMountRefused, MountTimesOut, RetryGivesUpWaiting,
                NextAttempt, TypeOK, Advances
  <2> QED
    BY <1>2, <2>1, <2>2, <2>3, <2>4
       DEF RetryThread, RetryUnmountRefused, CallTimesOut, UseCleared
<1> QED
  BY <1>1, <1>2

LEMMA StepAdvances ==
    ASSUME TypeOK, TypeOK', [Next]_vars, NEW r \in Retries
    PROVE  Advances(r)
<1>1. CASE UNCHANGED retry
  BY <1>1 DEF Advances
<1>2. CASE Die
  BY <1>2, DieAdvances
<1>3. ASSUME NEW q \in Retries, RetryThread(q)
      PROVE  Advances(r)
  BY <1>2, <1>3, OthersLeaveIt, WithinSlotAdvances, BetweenSlotsAdvances
     DEF RetryThread, RetryUnmountRefused, CallTimesOut, UseCleared
<1>4. ASSUME NEW m \in Monitors, StartRetry(m)
      PROVE  Advances(r)
  BY <1>4 DEF StartRetry, TakesFree, TypeOK, Advances
<1>5. ASSUME NEW m \in Monitors, Poll(m) \/ MarkRetry(m) \/ ShareIsGone(m)
      PROVE  UNCHANGED retry
  BY <1>5 DEF Poll, MarkRetry, ShareIsGone
<1>6. LoopSteps => UNCHANGED retry
  BY DEF LoopSteps, ClientMounts, ServeOverdue, MountReturns, Activate,
         ActivationFails, SlotUnmounts, UnmountEnds, LeaveMounted, threadVars
<1>7. ASSUME NEW v \in Servers, ServerChanges(v)
      PROVE  UNCHANGED retry
  BY <1>7 DEF ServerChanges, threadVars
<1>8. Kill => Die
  BY DEF Kill
<1>9. Restart \/ UNCHANGED vars => UNCHANGED retry
  BY DEF Restart, vars, threadVars
<1> QED
  BY <1>1, <1>2, <1>3, <1>4, <1>5, <1>6, <1>7, <1>8, <1>9
     DEF Next, MonitorThread

\* A retry thread makes at most 6 * RetryCount + 9 steps, whatever the main
\* loop and the other threads do (system.hpp 1062-1188).
THEOREM RetriesAdvance ==
    Spec => /\ RetryAdvances
            /\ [](\A r \in Retries :
                     StepsLeft(retry[r]) \in 0..(6 * MaxAttempts + 9))
<1>1. TypeOK /\ TypeOK' /\ [Next]_vars =>
          [\A r \in Retries :
              retry[r].at # "off" /\ retry'[r] # retry[r]
                  => StepsLeft(retry'[r]) < StepsLeft(retry[r])]_vars
  BY StepAdvances DEF Advances
<1>2. TypeOK => \A r \in Retries :
                   StepsLeft(retry[r]) \in 0..(6 * MaxAttempts + 9)
  <2> SUFFICES ASSUME TypeOK, NEW r \in Retries
               PROVE  StepsLeft(retry[r]) \in 0..(6 * MaxAttempts + 9)
    OBVIOUS
  <2>1. retry[r] \in Thread
    BY DEF TypeOK, Thread
  <2>2. 2 * StepsPerSlot + 5 = 6 * MaxAttempts + 9
    BY MaxAttemptsAssumption DEF MaxAttemptsAssumption, StepsPerSlot
  <2> QED
    BY <2>1, <2>2, BoundsOfSteps
<1> QED
  BY <1>1, <1>2, TypeCorrect, PTL DEF Spec, RetryAdvances
=============================================================================

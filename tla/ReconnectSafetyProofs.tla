----------------------- MODULE ReconnectSafetyProofs -----------------------
(***************************************************************************)
(* Proofs of the safety properties of Reconnect, for any servers, images,  *)
(* number of threads and number of attempts.                               *)
(*                                                                         *)
(* A retry thread works in two stages: until its sleeps are over it takes  *)
(* mounted slots down and the monitor that started it may not have stored  *)
(* its flags yet (Early); from then on it mounts what it took down (Late). *)
(***************************************************************************)
EXTENDS ReconnectProofs

Early(r) == retry[r].at \in {"start", "unmount", "sleep"}
Late(r) == retry[r].at \in {"attempt", "call", "wait", "exhausted", "clear"}
Gone(s) == phase[s] \in {"unmounting", "idle"}

-----------------------------------------------------------------------------
(* The inductive invariant.  The slots:                                    *)

IdleIsEmpty == \A s \in Slots : phase[s] = "idle" => share[s] = None
LoopMounts == loop # None => phase[loop] = "mounting"
CredsAreShare ==
    \A s \in Slots :
        share[s] # None /\ ~Gone(s) => creds[s] \in {share[s], None}
NoneOverdue == overdue = {}

(* The monitor threads: one a slot, one for both if they share a server,   *)
(* and then none only during the reconnection it has begun.                *)
OneMonitor ==
    \A s \in Slots : \A m, n \in Monitors : Polls(m, s) /\ Polls(n, s) => m = n
OneForBoth ==
    isSamePath => \A m, n \in Monitors :
        monitor[m].at # "off" /\ monitor[n].at # "off" => m = n
NoneMeansReconnecting ==
    isSamePath =>
        (isReconnecting <=> \A m \in Monitors : monitor[m].at = "off")
NoneWhileMounting ==
    \A s \in Slots : \A m \in Monitors :
        phase[s] = "mounting" /\ creds[s] # None => ~Polls(m, s)
TakenOver ==
    \A s \in Slots :
        phase[s] = "mounting" /\ share[s] # None /\ creds[s] = None =>
            \E m \in Monitors : Polls(m, s)

(* What a monitor has found stays so until it acts on it.                  *)
HungIsMounted ==
    \A m \in Monitors : monitor[m].at = "hung" =>
        /\ phase[monitor[m].slot] = "mounted"
        /\ isSamePath => phase[Other(monitor[m].slot)] = "mounted"
        /\ \A r \in Retries : ~Handles(r, monitor[m].slot)
AbsentIsGone ==
    \A m \in Monitors : monitor[m].at = "absent" =>
        /\ share[monitor[m].slot] = None
        /\ \A r \in Retries : ~Handles(r, monitor[m].slot)
MarkIsEarly ==
    \A m \in Monitors : monitor[m].at = "mark" =>
        \E r \in Retries : Early(r) /\ Handles(r, monitor[m].slot)

(* The retry threads: one a slot, and one for both if they share a server. *)
OneRetry ==
    \A s \in Slots : \A r, q \in Retries : Handles(r, s) /\ Handles(q, s) => r = q
BothIfSame ==
    isSamePath => \A r \in Retries :
        retry[r].at \notin {"off", "start"} => retry[r].both

(* Early: what is still to be unmounted is mounted, and nothing is mounted *)
(* again.                                                                  *)
StartIsMounted ==
    \A r \in Retries : retry[r].at = "start" =>
        /\ ~retry[r].both
        /\ phase[retry[r].slot] = "mounted"
        /\ isSamePath => phase[Other(retry[r].slot)] = "mounted"
UnmountIsMounted ==
    \A r \in Retries : retry[r].at = "unmount" => phase[retry[r].slot] = "mounted"
SleepIsGone ==
    \A r \in Retries : retry[r].at = "sleep" => Gone(retry[r].slot)
FirstThenSecond ==
    \A r \in Retries : retry[r].at \in {"unmount", "sleep"} /\ retry[r].both =>
        /\ retry[r].slot = 2 => phase[3] = "mounted"
        /\ retry[r].slot = 3 => Gone(2)
EarlyIsFirst == \A r \in Retries : Early(r) => retry[r].tries = 1
EarlyOnlyMarks ==
    \A r \in Retries, s \in Slots, m \in Monitors :
        Early(r) /\ Handles(r, s) /\ Polls(m, s) => monitor[m].at = "mark"

(* Late: the slots are down or have their share, the credentials in use    *)
(* are there, and a slot that is mounted again has a monitor again.        *)
SecondIsGone ==
    \A r \in Retries : Late(r) /\ retry[r].both /\ retry[r].slot = 2 => Gone(3)
LateHasShare ==
    \A r \in Retries, s \in Slots :
        Late(r) /\ Handles(r, s) /\ ~Gone(s) => share[s] # None
LatePolls ==
    \A r \in Retries, s \in Slots, m \in Monitors :
        Late(r) /\ Handles(r, s) /\ Polls(m, s)
            => monitor[m].at = "poll" /\ phase[s] = "mounted"
LateIsWatched ==
    \A r \in Retries, s \in Slots :
        Late(r) /\ Handles(r, s) /\ phase[s] = "mounted" =>
            \E m \in Monitors : Polls(m, s) \/ (isSamePath /\ Polls(m, Other(s)))
CredsInUse ==
    \A r \in Retries :
        (\/ retry[r].at \in {"call", "wait"}
         \/ retry[r].at = "attempt" /\ retry[r].tries > 1)
            => creds[retry[r].slot] # None
FirstIsCleared ==
    \A r \in Retries :
        Late(r) /\ retry[r].both /\ retry[r].slot = 3 => ~retryThreadCreated[2]

(* What the properties say.                                                *)
FlagsOwned ==
    \A s \in Slots : retryThreadCreated[s] => \E r \in Retries : Handles(r, s)
SharesWatched ==
    \A s \in Slots : phase[s] = "mounted" /\ share[s] # None => IsWatched(s)

SlotsOrderly == IdleIsEmpty /\ LoopMounts /\ CredsAreShare /\ NoneOverdue
MonitorsOrderly ==
    /\ OneMonitor /\ OneForBoth /\ NoneMeansReconnecting
    /\ NoneWhileMounting /\ TakenOver
FoundOrderly == HungIsMounted /\ AbsentIsGone /\ MarkIsEarly
RetriesOrderly == OneRetry /\ BothIfSame
EarlyOrderly ==
    /\ StartIsMounted /\ UnmountIsMounted /\ SleepIsGone
    /\ FirstThenSecond /\ EarlyIsFirst /\ EarlyOnlyMarks
LateOrderly ==
    /\ SecondIsGone /\ LateHasShare /\ LatePolls
    /\ LateIsWatched /\ CredsInUse /\ FirstIsCleared

Orderly ==
    /\ alive
    /\ SlotsOrderly /\ MonitorsOrderly /\ FoundOrderly
    /\ RetriesOrderly /\ EarlyOrderly /\ LateOrderly
    /\ FlagsOwned /\ SharesWatched

(* Memory is fresh in a service that starts.                               *)
Fresh ==
    /\ phase = [s \in Slots |-> "idle"]
    /\ share = [s \in Slots |-> None]
    /\ loop = None
    /\ overdue = {}
    /\ creds = [s \in Slots |-> None]
    /\ retryThreadCreated = [s \in Slots |-> FALSE]
    /\ isReconnecting = FALSE
    /\ monitor = [m \in Monitors |-> MonitorOff]
    /\ retry = [r \in Retries |-> RetryOff]

Inv == TypeOK /\ (~alive => Fresh) /\ (quiet => Orderly)

-----------------------------------------------------------------------------
LEMMA TwoSlots ==
    /\ 2 \in Slots /\ 3 \in Slots /\ Other(2) = 3 /\ Other(3) = 2
    /\ \A s \in Slots : /\ Other(s) \in Slots /\ Other(s) # s
                        /\ Other(Other(s)) = s
                        /\ s = 2 \/ s = 3
    /\ \A s, t \in Slots : t = s \/ t = Other(s)
BY DEF Slots, Other

LEMMA SamePath ==
    ASSUME NEW s \in Slots
    PROVE  isSamePath <=> creds[s] # None /\ creds[s] = creds[Other(s)]
BY DEF isSamePath, Slots, Other

LEMMA FreshIsOrderly == Fresh /\ alive => Orderly
<1> SUFFICES ASSUME Fresh, alive PROVE Orderly
  OBVIOUS
<1> USE DEF Fresh, MonitorOff, RetryOff
<1>1. ~isSamePath
  BY TwoSlots DEF isSamePath
<1>2. SlotsOrderly /\ MonitorsOrderly /\ FoundOrderly
  BY <1>1
     DEF SlotsOrderly, IdleIsEmpty, LoopMounts, NoneOverdue, CredsAreShare, Gone,
         MonitorsOrderly, OneMonitor, OneForBoth, NoneMeansReconnecting,
         NoneWhileMounting, TakenOver, Polls, FoundOrderly, HungIsMounted, AbsentIsGone,
         MarkIsEarly
<1>3. RetriesOrderly /\ EarlyOrderly /\ LateOrderly
  BY <1>1
     DEF RetriesOrderly, OneRetry, BothIfSame, Handles, EarlyOrderly,
         StartIsMounted, UnmountIsMounted, SleepIsGone, FirstThenSecond,
         EarlyIsFirst, EarlyOnlyMarks, LateOrderly, SecondIsGone,
         LateHasShare, LatePolls, LateIsWatched, CredsInUse, FirstIsCleared,
         Early, Late
<1>4. FlagsOwned /\ SharesWatched
  BY DEF FlagsOwned, SharesWatched
<1> QED
  BY <1>2, <1>3, <1>4 DEF Orderly

-----------------------------------------------------------------------------
(* The main loop.  What depends on the threads and their memory alone.     *)

LEMMA ThreadFrame ==
    ASSUME Orderly,
           UNCHANGED <<creds, retryThreadCreated, isReconnecting, threadVars>>
    PROVE  /\ OneMonitor' /\ OneForBoth' /\ NoneMeansReconnecting'
           /\ MarkIsEarly' /\ OneRetry' /\ BothIfSame' /\ EarlyIsFirst'
           /\ EarlyOnlyMarks' /\ CredsInUse' /\ FirstIsCleared' /\ FlagsOwned'
<1>1. /\ OneMonitor' /\ OneForBoth' /\ NoneMeansReconnecting'
  BY DEF Orderly, MonitorsOrderly, OneMonitor, OneForBoth,
         NoneMeansReconnecting, Polls, isSamePath, threadVars
<1>2. MarkIsEarly' /\ OneRetry' /\ BothIfSame' /\ FlagsOwned'
  BY DEF Orderly, FoundOrderly, MarkIsEarly, RetriesOrderly, OneRetry,
         BothIfSame, FlagsOwned, Handles, Early, isSamePath, threadVars
<1>3. EarlyIsFirst' /\ EarlyOnlyMarks' /\ CredsInUse' /\ FirstIsCleared'
  BY DEF Orderly, EarlyOrderly, EarlyIsFirst, EarlyOnlyMarks, LateOrderly,
         CredsInUse, FirstIsCleared, Handles, Polls, Early, Late, isSamePath,
         threadVars
<1> QED
  BY <1>1, <1>2, <1>3

(* A slot that was not mounted becomes idle: a mount fails, an unmount     *)
(* ends.                                                                   *)
LEMMA BecomesIdle ==
    ASSUME TypeOK, Orderly, NEW s \in Slots,
           phase[s] # "mounted", MountFails(s), loop' = None,
           UNCHANGED <<alive, overdue, creds, retryThreadCreated,
                       isReconnecting, threadVars>>
    PROVE  Orderly'
<1>1. /\ phase'[s] = "idle" /\ share'[s] = None
      /\ \A t \in Slots : t # s => phase'[t] = phase[t] /\ share'[t] = share[t]
  BY DEF MountFails, TypeOK
<1>2. \A t \in Slots : /\ phase'[t] = "mounted" <=> phase[t] = "mounted"
                       /\ Gone(t) => Gone(t)'
                       /\ phase'[t] = "mounting" => phase[t] = "mounting"
                       /\ ~Gone(t)' => ~Gone(t) /\ share'[t] = share[t]
                       /\ share[t] = None => share'[t] = None
  BY <1>1 DEF Gone
<1>3. /\ \A r \in Retries, t \in Slots : Handles(r, t)' <=> Handles(r, t)
      /\ \A m \in Monitors, t \in Slots : Polls(m, t)' <=> Polls(m, t)
      /\ \A r \in Retries : /\ Early(r)' <=> Early(r)
                            /\ Late(r)' <=> Late(r)
      /\ isSamePath' <=> isSamePath
      /\ monitor' = monitor /\ retry' = retry
      /\ \A m \in Monitors : monitor[m].slot \in Slots
      /\ \A r \in Retries : retry[r].slot \in Slots
  BY DEF Handles, Polls, Early, Late, isSamePath, threadVars, TypeOK
<1>4. SlotsOrderly'
  <2>1. IdleIsEmpty' /\ LoopMounts' /\ NoneOverdue'
    BY <1>1 DEF Orderly, SlotsOrderly, IdleIsEmpty, LoopMounts, NoneOverdue
  <2>2. CredsAreShare'
    BY <1>2 DEF Orderly, SlotsOrderly, CredsAreShare
  <2> QED
    BY <2>1, <2>2 DEF SlotsOrderly
<1>5. NoneWhileMounting' /\ TakenOver'
  BY <1>2, <1>3 DEF Orderly, MonitorsOrderly, NoneWhileMounting, TakenOver
<1>6. HungIsMounted' /\ AbsentIsGone'
  BY <1>2, <1>3, TwoSlots
     DEF Orderly, FoundOrderly, HungIsMounted, AbsentIsGone
<1>7. StartIsMounted' /\ UnmountIsMounted' /\ SleepIsGone' /\ FirstThenSecond'
  BY <1>2, <1>3, TwoSlots
     DEF Orderly, EarlyOrderly, StartIsMounted, UnmountIsMounted, SleepIsGone,
         FirstThenSecond
<1>8. SecondIsGone' /\ LateHasShare' /\ LatePolls' /\ LateIsWatched'
  <2>1. SecondIsGone'
    BY <1>2, <1>3, TwoSlots DEF Orderly, LateOrderly, SecondIsGone
  <2>3. LateHasShare'
    BY <1>2, <1>3 DEF Orderly, LateOrderly, LateHasShare
  <2>4. LatePolls'
    BY <1>2, <1>3 DEF Orderly, LateOrderly, LatePolls
  <2>2. LateIsWatched'
    BY <1>2, <1>3, TwoSlots DEF Orderly, LateOrderly, LateIsWatched
  <2> QED
    BY <2>1, <2>2, <2>3, <2>4
<1>9. SharesWatched'
  BY <1>1, <1>2, <1>3, TwoSlots DEF Orderly, SharesWatched, IsWatched
<1> QED
  BY <1>4, <1>5, <1>6, <1>7, <1>8, <1>9, ThreadFrame
     DEF Orderly, MonitorsOrderly, FoundOrderly, RetriesOrderly, EarlyOrderly,
         LateOrderly

(* A retry thread gets on with what it is at; the slots stay as they are.  *)
LEMMA GetsOn ==
    ASSUME TypeOK, Orderly,
           \A q \in Retries :
              /\ retry'[q].slot = retry[q].slot
              /\ retry'[q].both = retry[q].both
              /\ retry'[q] = retry[q] \/ (Late(q) /\ Late(q)'),
           LoopMounts', CredsInUse',
           UNCHANGED <<alive, phase, share, overdue, creds, retryThreadCreated,
                       isReconnecting, monitor>>
    PROVE  Orderly'
<1>1. /\ \A q \in Retries, t \in Slots : Handles(q, t)' <=> Handles(q, t)
      /\ \A m \in Monitors, t \in Slots : Polls(m, t)' <=> Polls(m, t)
      /\ isSamePath' <=> isSamePath
  <2>1. isSamePath' <=> isSamePath
    BY DEF isSamePath
  <2>2. \A q \in Retries : /\ retry'[q].at = "off" <=> retry[q].at = "off"
                           /\ retry'[q].at = "start" <=> retry[q].at = "start"
    BY DEF Late
  <2> QED
    BY <2>1, <2>2 DEF Handles, Polls
<1>2. \A q \in Retries : /\ Early(q)' <=> Early(q)
                         /\ Late(q)' <=> Late(q)
                         /\ Early(q) => retry'[q] = retry[q]
  BY DEF Early, Late
<1>3. \A t \in Slots : Gone(t)' <=> Gone(t)
  BY DEF Gone
<1>4. SlotsOrderly' /\ MonitorsOrderly'
  <2>1. SlotsOrderly'
    BY <1>3 DEF Orderly, SlotsOrderly, IdleIsEmpty, CredsAreShare,
                     NoneOverdue
  <2>2. MonitorsOrderly'
    BY <1>1
       DEF Orderly, MonitorsOrderly, OneMonitor, OneForBoth,
           NoneMeansReconnecting, NoneWhileMounting, TakenOver
  <2> QED
    BY <2>1, <2>2
<1>5. FoundOrderly' /\ RetriesOrderly'
  <2>1. HungIsMounted' /\ AbsentIsGone'
    BY <1>1 DEF Orderly, FoundOrderly, HungIsMounted, AbsentIsGone, TypeOK
  <2>2. MarkIsEarly'
    BY <1>1, <1>2 DEF Orderly, FoundOrderly, MarkIsEarly, TypeOK
  <2>3. OneRetry'
    BY <1>1 DEF Orderly, RetriesOrderly, OneRetry
  <2>4. BothIfSame'
    BY <1>1, <1>2 DEF Orderly, RetriesOrderly, BothIfSame, Late
  <2> QED
    BY <2>1, <2>2, <2>3, <2>4 DEF FoundOrderly, RetriesOrderly
<1>6. EarlyOrderly'
  <2>1. \A q \in Retries :
           retry'[q].at \in {"start", "unmount", "sleep"} => retry'[q] = retry[q]
    BY <1>2 DEF Early
  <2>2. StartIsMounted' /\ UnmountIsMounted'
    BY <1>1, <2>1 DEF Orderly, EarlyOrderly, StartIsMounted, UnmountIsMounted
  <2>3. SleepIsGone' /\ FirstThenSecond'
    BY <1>3, <2>1, TwoSlots DEF Orderly, EarlyOrderly, SleepIsGone,
                                FirstThenSecond, TypeOK
  <2>4. EarlyIsFirst'
    BY <1>2 DEF Orderly, EarlyOrderly, EarlyIsFirst
  <2>5. EarlyOnlyMarks'
    BY <1>1, <1>2 DEF Orderly, EarlyOrderly, EarlyOnlyMarks
  <2> QED
    BY <2>2, <2>3, <2>4, <2>5 DEF EarlyOrderly
<1>7. LateOrderly'
  <2>1. SecondIsGone' /\ FirstIsCleared'
    BY <1>2, <1>3, TwoSlots
       DEF Orderly, LateOrderly, SecondIsGone, FirstIsCleared
  <2>2. LateHasShare'
    BY <1>1, <1>2, <1>3 DEF Orderly, LateOrderly, LateHasShare
  <2>3. LatePolls'
    BY <1>1, <1>2 DEF Orderly, LateOrderly, LatePolls
  <2>4. LateIsWatched'
    BY <1>1, <1>2, TwoSlots DEF Orderly, LateOrderly, LateIsWatched
  <2> QED
    BY <2>1, <2>2, <2>3, <2>4 DEF LateOrderly
<1>8. FlagsOwned'
  BY <1>1 DEF Orderly, FlagsOwned
<1>9. SharesWatched'
  BY <1>1, TwoSlots DEF Orderly, SharesWatched, IsWatched
<1> QED
  BY <1>4, <1>5, <1>6, <1>7, <1>8, <1>9 DEF Orderly

LEMMA ThreadViews ==
    ASSUME TypeOK, UNCHANGED <<creds, threadVars>>
    PROVE  /\ \A r \in Retries, t \in Slots : Handles(r, t)' <=> Handles(r, t)
           /\ \A m \in Monitors, t \in Slots : Polls(m, t)' <=> Polls(m, t)
           /\ \A r \in Retries : /\ Early(r)' <=> Early(r)
                                 /\ Late(r)' <=> Late(r)
           /\ isSamePath' <=> isSamePath
           /\ monitor' = monitor /\ retry' = retry
           /\ \A m \in Monitors : monitor[m].slot \in Slots
           /\ \A r \in Retries : retry[r].slot \in Slots
BY DEF Handles, Polls, Early, Late, isSamePath, threadVars, TypeOK

(* Every retry thread that runs handles its own slot, and with both slots  *)
(* on one server every one handles both.                                   *)
LEMMA HandlesOwn ==
    ASSUME TypeOK, BothIfSame, NEW r \in Retries, retry[r].at # "off"
    PROVE  /\ retry[r].slot \in Slots
           /\ Handles(r, retry[r].slot)
           /\ isSamePath \/ retry[r].both => \A s \in Slots : Handles(r, s)
           /\ Early(r) \/ Late(r)
BY DEF Handles, BothIfSame, TypeOK, Early, Late, RetrySteps

LEMMA UnmountsQuietly ==
    ASSUME TypeOK, Orderly, NEW s \in Slots, SlotUnmounts(s), quiet'
    PROVE  Orderly'
<1>1. /\ phase[s] = "mounted" /\ phase' = [phase EXCEPT ![s] = "unmounting"]
      /\ loop = None
      /\ UNCHANGED <<alive, share, loop, overdue, creds, retryThreadCreated,
                     isReconnecting, threadVars>>
  BY DEF SlotUnmounts, LeaveMounted, LoopRuns, threadVars
<1>2. /\ \A r \in Retries : ~Handles(r, s)
      /\ \A m \in Monitors : monitor[m].slot = s \/ isSamePath
                             => monitor[m].at \notin {"hung", "mark"}
  BY DEF SlotUnmounts, Disturb
<1>3. phase'[s] = "unmounting" /\ \A t \in Slots : t # s => phase'[t] = phase[t]
  BY <1>1 DEF TypeOK
<1>4. \A t \in Slots : /\ Gone(t) => Gone(t)'
                       /\ ~Gone(t)' => ~Gone(t)
                       /\ phase'[t] = "mounted" => phase[t] = "mounted"
                       /\ phase'[t] \in {"idle", "mounting"} => phase'[t] = phase[t]
  BY <1>3 DEF Gone
<1>5. SlotsOrderly'
  <2>1. IdleIsEmpty' /\ LoopMounts' /\ NoneOverdue'
    BY <1>1, <1>4 DEF Orderly, SlotsOrderly, IdleIsEmpty, LoopMounts, NoneOverdue
  <2>2. CredsAreShare'
    BY <1>1, <1>4 DEF Orderly, SlotsOrderly, CredsAreShare
  <2> QED
    BY <2>1, <2>2 DEF SlotsOrderly
<1>6. NoneWhileMounting' /\ TakenOver'
  BY <1>1, <1>4, ThreadViews DEF Orderly, MonitorsOrderly, NoneWhileMounting, TakenOver
<1>7. HungIsMounted' /\ AbsentIsGone'
  BY <1>1, <1>2, <1>3, ThreadViews, TwoSlots
     DEF Orderly, FoundOrderly, HungIsMounted, AbsentIsGone
<1>8. \A r \in Retries : retry[r].at # "off"
         => ~isSamePath /\ ~retry[r].both /\ retry[r].slot # s
  BY <1>2, HandlesOwn DEF Orderly, RetriesOrderly
<1>9. StartIsMounted' /\ UnmountIsMounted'
  BY <1>1, <1>3, <1>8, ThreadViews
     DEF Orderly, EarlyOrderly, StartIsMounted, UnmountIsMounted
<1>10. SleepIsGone' /\ FirstThenSecond'
  BY <1>1, <1>4, <1>8, ThreadViews, TwoSlots
     DEF Orderly, EarlyOrderly, SleepIsGone, FirstThenSecond
<1>11. SecondIsGone' /\ LateHasShare'
  BY <1>1, <1>4, ThreadViews, TwoSlots
     DEF Orderly, LateOrderly, SecondIsGone, LateHasShare
<1>12. LatePolls'
  BY <1>1, <1>2, <1>3, ThreadViews DEF Orderly, LateOrderly, LatePolls
<1>13. LateIsWatched'
  BY <1>1, <1>4, ThreadViews, TwoSlots DEF Orderly, LateOrderly, LateIsWatched
<1>14. SharesWatched'
  BY <1>1, <1>4, ThreadViews, TwoSlots DEF Orderly, SharesWatched, IsWatched
<1>15. alive'
  BY <1>1 DEF Orderly
<1> QED
  BY <1>1, <1>5, <1>6, <1>7, <1>9, <1>10, <1>11, <1>12, <1>13, <1>14, <1>15,
     ThreadFrame
     DEF Orderly, MonitorsOrderly, FoundOrderly, RetriesOrderly, EarlyOrderly,
         LateOrderly

(* What an early retry thread handles is not being mounted.                *)
LEMMA EarlyPhases ==
    ASSUME TypeOK, Orderly, NEW r \in Retries, NEW s \in Slots,
           Early(r), Handles(r, s)
    PROVE  phase[s] # "mounting"
<1>1. retry[r].slot \in Slots
  BY DEF TypeOK
<1>2. CASE retry[r].at = "start"
  BY <1>1, <1>2, TwoSlots
     DEF Orderly, EarlyOrderly, StartIsMounted, Handles
<1>3. CASE retry[r].at \in {"unmount", "sleep"}
  <2>1. phase[retry[r].slot] # "mounting"
    BY <1>3 DEF Orderly, EarlyOrderly, UnmountIsMounted, SleepIsGone, Gone
  <2>2. retry[r].slot # s => retry[r].both
    BY <1>3 DEF Handles
  <2>3. retry[r].both => phase[Other(retry[r].slot)] # "mounting"
    BY <1>1, <1>3, TwoSlots DEF Orderly, EarlyOrderly, FirstThenSecond, Gone
  <2> QED
    BY <1>1, <2>1, <2>2, <2>3, TwoSlots
<1> QED
  BY <1>2, <1>3 DEF Early

(* A share is there: a monitor is started, unless the one of the other     *)
(* slot watches its server.                                                *)
LEMMA ActivatesQuietly ==
    ASSUME TypeOK, Orderly, NEW s \in Slots, Activate(s), quiet'
    PROVE  Orderly'
<1>1. /\ phase[s] = "mounting" /\ loop = None
      /\ UNCHANGED <<alive, loop, overdue, creds, retryThreadCreated, retry>>
  BY DEF Activate, LoopRuns
<1>2. \/ phase' = [phase EXCEPT ![s] = "mounted"] /\ share' = share
      \/ MountFails(s) /\ \A r \in Retries : ~Handles(r, s)
  BY DEF Activate, Disturb
<1>3. /\ phase'[s] \in {"mounted", "idle"}
      /\ phase'[s] = "mounted" => share'[s] = share[s]
      /\ phase'[s] = "idle" =>
            share'[s] = None /\ \A r \in Retries : ~Handles(r, s)
      /\ \A t \in Slots : t # s => phase'[t] = phase[t] /\ share'[t] = share[t]
  BY <1>2 DEF MountFails, TypeOK
<1>4. \A t \in Slots : /\ Gone(t) => Gone(t)'
                       /\ ~Gone(t)' => ~Gone(t) /\ share'[t] = share[t]
                       /\ phase[t] = "mounted" => phase'[t] = "mounted"
                       /\ phase'[t] = "mounting" => phase[t] = "mounting" /\ t # s
                       /\ share[t] = None => share'[t] = None
                       /\ phase'[t] = "idle" => phase[t] = "idle" \/ t = s
  BY <1>1, <1>3 DEF Gone
<1>5. /\ isSamePath' <=> isSamePath
      /\ \A r \in Retries, t \in Slots : Handles(r, t)' <=> Handles(r, t)
      /\ \A r \in Retries : /\ Early(r)' <=> Early(r)
                            /\ Late(r)' <=> Late(r)
      /\ \A r \in Retries : retry[r].slot \in Slots
      /\ \A m \in Monitors : monitor[m].slot \in Slots
  BY <1>1 DEF isSamePath, Handles, Early, Late, TypeOK
<1>6. creds[s] # None => \A m \in Monitors : ~Polls(m, s)
  BY <1>1 DEF Orderly, MonitorsOrderly, NoneWhileMounting, TakenOver
(* The monitor that is started, if any.                                    *)
<1> DEFINE Starts(m) ==
             /\ creds[s] # None /\ (~isSamePath \/ isReconnecting)
             /\ monitor[m].at = "off"
             /\ monitor'[m].at = "poll" /\ monitor'[m].slot = s
             /\ ~isReconnecting'
             /\ \A n \in Monitors : n # m => monitor'[n] = monitor[n]
<1>7. \/ \E m \in Monitors : Starts(m)
      \/ /\ creds[s] = None \/ (isSamePath /\ ~isReconnecting)
         /\ UNCHANGED <<isReconnecting, monitor>>
  <2>1. CASE creds[s] # None /\ (~isSamePath \/ isReconnecting)
    <3>1. PICK m \in Monitors :
             /\ TakesFree(s, m, Monitors, monitor)
             /\ monitor' = [monitor EXCEPT ![m] = [at |-> "poll", slot |-> s]]
      BY <2>1 DEF Activate, StartMonitor
    <3>2. isReconnecting' = FALSE
      BY <2>1 DEF Activate, StartMonitor
    <3> QED
      BY <2>1, <3>1, <3>2 DEF TakesFree, TypeOK
  <2>2. CASE ~(creds[s] # None /\ (~isSamePath \/ isReconnecting))
    BY <2>2 DEF Activate, StartMonitor, TypeOK
  <2> QED
    BY <2>1, <2>2
<1>8. \A n \in Monitors : /\ monitor'[n].at \in {"hung", "absent", "mark"}
                             => monitor'[n] = monitor[n]
                          /\ monitor'[n].slot \in Slots
                          /\ \A t \in Slots : Polls(n, t) => Polls(n, t)'
  BY <1>5, <1>7 DEF Polls
<1>9. \A n \in Monitors, t \in Slots :
         Polls(n, t)' => Polls(n, t) \/ (t = s /\ monitor'[n].at = "poll")
  BY <1>7 DEF Polls
<1>10. SlotsOrderly'
  <2>1. IdleIsEmpty' /\ LoopMounts' /\ NoneOverdue'
    BY <1>1, <1>3, <1>4 DEF Orderly, SlotsOrderly, IdleIsEmpty, LoopMounts, NoneOverdue
  <2>2. CredsAreShare'
    BY <1>1, <1>4 DEF Orderly, SlotsOrderly, CredsAreShare
  <2> QED
    BY <2>1, <2>2 DEF SlotsOrderly
<1>11. MonitorsOrderly'
  <2>1. OneMonitor'
    BY <1>6, <1>7 DEF Orderly, MonitorsOrderly, OneMonitor, Polls
  <2>2. OneForBoth'
    BY <1>5, <1>7
       DEF Orderly, MonitorsOrderly, OneForBoth, NoneMeansReconnecting
  <2>3. NoneMeansReconnecting'
    BY <1>5, <1>7 DEF Orderly, MonitorsOrderly, NoneMeansReconnecting
  <2>4. NoneWhileMounting' /\ TakenOver'
    BY <1>1, <1>4, <1>8, <1>9
       DEF Orderly, MonitorsOrderly, NoneWhileMounting, TakenOver
  <2> QED
    BY <2>1, <2>2, <2>3, <2>4 DEF MonitorsOrderly
<1>12. FoundOrderly'
  <2>1. HungIsMounted' /\ AbsentIsGone'
    BY <1>4, <1>5, <1>8, TwoSlots
       DEF Orderly, FoundOrderly, HungIsMounted, AbsentIsGone
  <2>2. MarkIsEarly'
    BY <1>5, <1>8 DEF Orderly, FoundOrderly, MarkIsEarly
  <2> QED
    BY <2>1, <2>2 DEF FoundOrderly
<1>13. RetriesOrderly' /\ FlagsOwned'
  BY <1>1, <1>5
     DEF Orderly, RetriesOrderly, OneRetry, BothIfSame, FlagsOwned
<1>14. EarlyOrderly'
  <2>1. StartIsMounted' /\ UnmountIsMounted'
    BY <1>1, <1>4, <1>5, TwoSlots
       DEF Orderly, EarlyOrderly, StartIsMounted, UnmountIsMounted
  <2>2. SleepIsGone' /\ FirstThenSecond'
    BY <1>1, <1>4, <1>5, TwoSlots
       DEF Orderly, EarlyOrderly, SleepIsGone, FirstThenSecond
  <2>3. EarlyIsFirst'
    BY <1>1, <1>5 DEF Orderly, EarlyOrderly, EarlyIsFirst
  <2>4. EarlyOnlyMarks'
    <3> SUFFICES ASSUME NEW r \in Retries, NEW t \in Slots, NEW n \in Monitors,
                        Early(r), Handles(r, t), Polls(n, t)'
                 PROVE  monitor'[n].at = "mark"
      BY <1>5 DEF EarlyOnlyMarks
    <3>1. t # s
      BY <1>1, EarlyPhases
    <3>2. Polls(n, t) /\ monitor[n].at = "mark"
      BY <1>9, <3>1 DEF Orderly, EarlyOrderly, EarlyOnlyMarks
    <3> QED
      BY <1>7, <3>2
  <2> QED
    BY <2>1, <2>2, <2>3, <2>4 DEF EarlyOrderly
<1>15. ASSUME phase'[s] = "mounted", share[s] # None
       PROVE  \E m \in Monitors :
                 Polls(m, s)' \/ (isSamePath' /\ Polls(m, Other(s))')
  <2>1. CASE creds[s] = None
    BY <1>1, <1>8, <1>15, <2>1 DEF Orderly, MonitorsOrderly, TakenOver
  <2>2. CASE \E m \in Monitors : Starts(m)
    BY <2>2 DEF Polls
  <2>3. CASE isSamePath /\ ~isReconnecting
    <3>1. PICK m \in Monitors : monitor[m].at # "off"
      BY <2>3 DEF Orderly, MonitorsOrderly, NoneMeansReconnecting
    <3>2. Polls(m, s) \/ Polls(m, Other(s))
      BY <1>5, <3>1, TwoSlots DEF Polls
    <3> QED
      BY <1>5, <1>8, <2>3, <3>2, TwoSlots
  <2> QED
    BY <1>7, <2>1, <2>2, <2>3
<1>16. LateOrderly'
  <2>1. SecondIsGone' /\ FirstIsCleared'
    BY <1>1, <1>4, <1>5, TwoSlots
       DEF Orderly, LateOrderly, SecondIsGone, FirstIsCleared
  <2>2. LateHasShare'
    BY <1>4, <1>5 DEF Orderly, LateOrderly, LateHasShare
  <2>3. LatePolls'
    <3> SUFFICES ASSUME NEW r \in Retries, NEW t \in Slots, NEW n \in Monitors,
                        Late(r), Handles(r, t), Polls(n, t)'
                 PROVE  monitor'[n].at = "poll" /\ phase'[t] = "mounted"
      BY <1>5 DEF LatePolls
    <3>1. CASE Polls(n, t)
      BY <1>4, <1>7, <3>1 DEF Orderly, LateOrderly, LatePolls
    <3>2. CASE t = s /\ monitor'[n].at = "poll"
      BY <1>3, <3>2
    <3> QED
      BY <1>9, <3>1, <3>2
  <2>4. LateIsWatched'
    <3> SUFFICES ASSUME NEW r \in Retries, NEW t \in Slots,
                        Late(r), Handles(r, t), phase'[t] = "mounted"
                 PROVE  \E m \in Monitors :
                           Polls(m, t)' \/ (isSamePath' /\ Polls(m, Other(t))')
      BY <1>5 DEF LateIsWatched
    <3>1. CASE t = s
      <4>1. share[s] # None
        BY <1>1, <3>1 DEF Orderly, LateOrderly, LateHasShare, Gone
      <4> QED
        BY <1>15, <3>1, <4>1
    <3>2. CASE t # s
      BY <1>3, <1>5, <1>8, <3>2, TwoSlots
         DEF Orderly, LateOrderly, LateIsWatched
    <3> QED
      BY <3>1, <3>2
  <2>5. CredsInUse'
    BY <1>1 DEF Orderly, LateOrderly, CredsInUse
  <2> QED
    BY <2>1, <2>2, <2>3, <2>4, <2>5 DEF LateOrderly
<1>17. SharesWatched'
  <2> SUFFICES ASSUME NEW t \in Slots, phase'[t] = "mounted", share'[t] # None
               PROVE  IsWatched(t)'
    BY DEF SharesWatched
  <2>1. CASE t = s
    BY <1>3, <1>15, <2>1 DEF IsWatched
  <2>2. CASE t # s
    BY <1>3, <1>5, <1>8, <2>2, TwoSlots DEF Orderly, SharesWatched, IsWatched
  <2> QED
    BY <2>1, <2>2
<1>18. alive'
  BY <1>1 DEF Orderly
<1> QED
  BY <1>10, <1>11, <1>12, <1>13, <1>14, <1>16, <1>17, <1>18 DEF Orderly

(* A client mounts: no thread has the slot, and if the other slot has the  *)
(* server already it is only watched.                                      *)
LEMMA MountsQuietly ==
    ASSUME TypeOK, Orderly, NEW s \in Slots, NEW image,
           image \in Servers \cup {Web}, ClientMounts(s, image), quiet'
    PROVE  Orderly'
<1> DEFINE o == Other(s)
<1>1. /\ phase[s] = "idle" /\ loop = None
      /\ phase' = [phase EXCEPT ![s] = "mounting"]
      /\ UNCHANGED <<alive, overdue, retryThreadCreated, isReconnecting,
                     monitor, retry>>
      /\ \/ image = Web /\ UNCHANGED <<creds, share, loop>>
         \/ /\ image \in Servers
            /\ creds' = [creds EXCEPT ![s] = image]
            /\ share' = [share EXCEPT ![s] = image]
            /\ loop' = s
  BY DEF ClientMounts, BeginMount, LoopRuns, threadVars
<1>2. /\ \A r \in Retries : ~Handles(r, s)
      /\ \A m \in Monitors : ~Polls(m, s)
      /\ creds[o] = image => ~isReconnecting /\ OnlyWatched(o)
  BY DEF ClientMounts, Disturb
<1>3. /\ phase'[s] = "mounting"
      /\ \A t \in Slots : t # s =>
            phase'[t] = phase[t] /\ share'[t] = share[t] /\ creds'[t] = creds[t]
      /\ \/ /\ share'[s] = None /\ creds' = creds /\ loop' = None
         \/ /\ image \in Servers /\ share'[s] = image /\ creds'[s] = image
            /\ loop' = s
  BY <1>1 DEF TypeOK, Orderly, SlotsOrderly, IdleIsEmpty
<1>4. /\ \A t \in Slots : /\ phase'[t] = "mounted" <=> phase[t] = "mounted"
                          /\ phase[t] = "mounted" => t = o /\ Other(t) = s
                          /\ t # s => (Gone(t)' <=> Gone(t))
                          /\ phase'[t] = "idle" => phase[t] = "idle" /\ t # s
      /\ o \in Slots /\ o # s /\ \A t \in Slots : t = s \/ t = o
  BY <1>1, <1>3, TwoSlots DEF Gone
<1>5. \A r \in Retries : retry[r].at # "off" =>
         /\ retry[r].slot = o /\ ~retry[r].both /\ ~isSamePath
         /\ Handles(r, o)
  BY <1>2, <1>4, HandlesOwn DEF Orderly, RetriesOrderly
<1>6. /\ \A n \in Monitors, t \in Slots : Polls(n, t)' <=> Polls(n, t)
      /\ \A q \in Retries : /\ Early(q)' <=> Early(q)
                            /\ Late(q)' <=> Late(q)
      /\ \A n \in Monitors : monitor[n].slot \in Slots
      /\ \A n \in Monitors : monitor[n].at # "off" => monitor[n].slot = o
      /\ \A q \in Retries : Early(q) \/ Late(q) => retry[q].at # "off"
  <2>1. \A n \in Monitors : monitor[n].slot \in Slots
    BY DEF TypeOK
  <2> QED
    BY <1>1, <1>2, <1>4, <2>1 DEF Polls, Early, Late
<1>7. /\ SlotsOrderly' /\ OneMonitor' /\ NoneWhileMounting' /\ TakenOver'
      /\ EarlyIsFirst' /\ alive'
  <2>1. IdleIsEmpty' /\ LoopMounts' /\ NoneOverdue'
    BY <1>1, <1>3, <1>4
       DEF Orderly, SlotsOrderly, IdleIsEmpty, LoopMounts, NoneOverdue
  <2>2. CredsAreShare'
    BY <1>3, <1>4 DEF Orderly, SlotsOrderly, CredsAreShare
  <2>3. OneMonitor' /\ NoneWhileMounting' /\ TakenOver'
    BY <1>1, <1>2, <1>3, <1>6
       DEF Orderly, MonitorsOrderly, OneMonitor, NoneWhileMounting, TakenOver
  <2>4. EarlyIsFirst' /\ alive'
    BY <1>1, <1>6 DEF Orderly, EarlyOrderly, EarlyIsFirst
  <2> QED
    BY <2>1, <2>2, <2>3, <2>4 DEF SlotsOrderly
(* The slots do not come to share a server.                                *)
<1>8. CASE isSamePath' => isSamePath
  <2>1. \A q \in Retries, t \in Slots : Handles(q, t)' <=> Handles(q, t)
    BY <1>1, <1>5, <1>8 DEF Handles
  <2>2. MonitorsOrderly'
    BY <1>1, <1>7, <1>8
       DEF Orderly, MonitorsOrderly, OneForBoth, NoneMeansReconnecting
  <2>3. FoundOrderly'
    <3>1. HungIsMounted'
      BY <1>1, <1>4, <1>6, <1>8, <2>1 DEF Orderly, FoundOrderly, HungIsMounted
    <3>2. AbsentIsGone'
      BY <1>1, <1>3, <1>4, <1>6, <2>1 DEF Orderly, FoundOrderly, AbsentIsGone
    <3>3. MarkIsEarly'
      BY <1>1, <1>6, <2>1 DEF Orderly, FoundOrderly, MarkIsEarly
    <3> QED
      BY <3>1, <3>2, <3>3 DEF FoundOrderly
  <2>4. RetriesOrderly' /\ FlagsOwned'
    BY <1>1, <1>8, <2>1
       DEF Orderly, RetriesOrderly, OneRetry, BothIfSame, FlagsOwned
  <2>5. EarlyOrderly'
    <3>1. StartIsMounted' /\ UnmountIsMounted'
      BY <1>1, <1>4, <1>5, <1>8
         DEF Orderly, EarlyOrderly, StartIsMounted, UnmountIsMounted
    <3>2. SleepIsGone' /\ FirstThenSecond'
      BY <1>1, <1>4, <1>5
         DEF Orderly, EarlyOrderly, SleepIsGone, FirstThenSecond
    <3>3. EarlyOnlyMarks'
      BY <1>1, <1>6, <2>1 DEF Orderly, EarlyOrderly, EarlyOnlyMarks
    <3> QED
      BY <1>7, <3>1, <3>2, <3>3 DEF EarlyOrderly
  <2>6. LateOrderly'
    <3>1. SecondIsGone' /\ FirstIsCleared'
      BY <1>1, <1>5, <1>6
         DEF Orderly, LateOrderly, SecondIsGone, FirstIsCleared
    <3>2. LateHasShare'
      BY <1>2, <1>3, <1>4, <1>6, <2>1 DEF Orderly, LateOrderly, LateHasShare
    <3>3. LatePolls'
      BY <1>1, <1>4, <1>6, <2>1 DEF Orderly, LateOrderly, LatePolls
    <3>4. LateIsWatched'
      BY <1>2, <1>4, <1>6, <2>1 DEF Orderly, LateOrderly, LateIsWatched
    <3>5. CredsInUse'
      BY <1>1, <1>3, <1>4, <1>5 DEF Orderly, LateOrderly, CredsInUse
    <3> QED
      BY <3>1, <3>2, <3>3, <3>4, <3>5 DEF LateOrderly
  <2>7. SharesWatched'
    BY <1>2, <1>3, <1>4, <1>6, <2>1 DEF Orderly, SharesWatched, IsWatched
  <2> QED
    BY <1>7, <2>2, <2>3, <2>4, <2>5, <2>6, <2>7 DEF Orderly
(* The monitor of the other slot will watch both.                          *)
<1>9. CASE isSamePath' /\ ~isSamePath
  <2>1. creds[o] = image
    <3>1. creds'[2] # None /\ creds'[2] = creds'[3] /\ creds' # creds
      BY <1>9 DEF isSamePath
    <3>2. creds'[s] = image /\ creds'[o] = creds[o]
      BY <1>3, <1>4, <3>1
    <3> QED
      BY <1>4, <3>1, <3>2, TwoSlots
  <2>2. ~isReconnecting /\ \A r \in Retries : retry[r].at = "off"
    BY <1>2, <1>5, <2>1 DEF OnlyWatched
  <2>3. PICK m \in Monitors :
           /\ monitor[m].at = "poll" /\ monitor[m].slot = o
           /\ \A n \in Monitors : n # m => monitor[n].at = "off"
    <3>1. PICK m \in Monitors : monitor[m].at = "poll" /\ monitor[m].slot = o
      BY <1>2, <2>1 DEF OnlyWatched
    <3>2. \A n \in Monitors : monitor[n].at # "off" => n = m
      BY <1>4, <1>6, <3>1 DEF Orderly, MonitorsOrderly, OneMonitor, Polls
    <3> QED
      BY <3>1, <3>2
  <2>4. \A q \in Retries, t \in Slots : ~Handles(q, t) /\ ~Handles(q, t)'
    BY <1>1, <2>2 DEF Handles
  <2>5. MonitorsOrderly'
    <3>1. OneForBoth' /\ NoneMeansReconnecting'
      BY <1>1, <2>2, <2>3 DEF OneForBoth, NoneMeansReconnecting
    <3> QED
      BY <1>7, <3>1 DEF MonitorsOrderly
  <2>6. FoundOrderly'
    BY <1>1, <2>3 DEF FoundOrderly, HungIsMounted, AbsentIsGone, MarkIsEarly
  <2>7. RetriesOrderly' /\ FlagsOwned'
    BY <1>1, <2>2, <2>4
       DEF Orderly, RetriesOrderly, OneRetry, BothIfSame, FlagsOwned
  <2>8. EarlyOrderly'
    BY <1>1, <1>7, <2>2, <2>4
       DEF EarlyOrderly, StartIsMounted, UnmountIsMounted, SleepIsGone,
           FirstThenSecond, EarlyOnlyMarks
  <2>9. LateOrderly'
    BY <1>1, <1>6, <2>2, <2>4
       DEF LateOrderly, SecondIsGone, LateHasShare, LatePolls, LateIsWatched,
           CredsInUse, FirstIsCleared
  <2>10. SharesWatched'
    <3>1. Polls(m, o)'
      BY <1>1, <2>3 DEF Polls
    <3> QED
      BY <1>4, <3>1 DEF SharesWatched, IsWatched
  <2> QED
    BY <1>7, <2>5, <2>6, <2>7, <2>8, <2>9, <2>10 DEF Orderly
<1> QED
  BY <1>8, <1>9

-----------------------------------------------------------------------------
(* The retry threads.  What depends only on which slots they handle.       *)

LEMMA RetryFrame ==
    ASSUME Orderly,
           \A q \in Retries, t \in Slots : Handles(q, t)' <=> Handles(q, t),
           UNCHANGED <<creds, retryThreadCreated, isReconnecting, monitor>>
    PROVE  /\ OneMonitor' /\ OneForBoth' /\ NoneMeansReconnecting'
           /\ OneRetry' /\ FlagsOwned'
           /\ isSamePath' <=> isSamePath
           /\ \A m \in Monitors, t \in Slots : Polls(m, t)' <=> Polls(m, t)
<1>1. isSamePath' <=> isSamePath
  BY DEF isSamePath
<1>2. \A m \in Monitors, t \in Slots : Polls(m, t)' <=> Polls(m, t)
  BY DEF Polls
<1>3. OneMonitor' /\ OneForBoth' /\ NoneMeansReconnecting'
  BY <1>1, <1>2
     DEF Orderly, MonitorsOrderly, OneMonitor, OneForBoth,
         NoneMeansReconnecting
<1>4. OneRetry' /\ FlagsOwned'
  BY DEF Orderly, RetriesOrderly, OneRetry, FlagsOwned
<1> QED
  BY <1>1, <1>2, <1>3, <1>4

(* A thread that runs shares no slot with another.                         *)
LEMMA OthersElsewhere ==
    ASSUME TypeOK, Orderly, NEW r \in Retries, retry[r].at # "off",
           NEW q \in Retries, q # r, retry[q].at # "off"
    PROVE  /\ ~Handles(q, retry[r].slot)
           /\ retry[q].slot # retry[r].slot
           /\ ~isSamePath /\ ~retry[q].both
<1>1. Handles(r, retry[r].slot) /\ retry[r].slot \in Slots
  BY HandlesOwn DEF Orderly, RetriesOrderly
<1>2. ~Handles(q, retry[r].slot)
  BY <1>1 DEF Orderly, RetriesOrderly, OneRetry
<1> QED
  BY <1>1, <1>2, HandlesOwn DEF Orderly, RetriesOrderly

LEMMA UnmountsForRetry ==
    ASSUME TypeOK, Orderly, NEW r \in Retries, RetryUnmounts(r)
    PROVE  Orderly'
<1> DEFINE s == retry[r].slot
<1>1. /\ s \in Slots /\ loop = None /\ retry[r].at = "unmount"
      /\ phase[s] = "mounted" /\ phase' = [phase EXCEPT ![s] = "unmounting"]
      /\ UNCHANGED <<alive, share, loop, overdue, creds, retryThreadCreated,
                     isReconnecting, monitor>>
  BY DEF RetryUnmounts, LeaveMounted, LoopRuns, At, TypeOK
<1>2. /\ retry'[r].at = "sleep" /\ retry'[r].slot = s
      /\ retry'[r].both = retry[r].both /\ retry'[r].tries = retry[r].tries
      /\ \A q \in Retries : q # r => retry'[q] = retry[q]
  BY DEF RetryUnmounts, Goto, TypeOK
<1>3. phase'[s] = "unmounting" /\ \A t \in Slots : t # s => phase'[t] = phase[t]
  BY <1>1 DEF TypeOK
<1>4. \A t \in Slots : /\ Gone(t) => Gone(t)'
                       /\ ~Gone(t)' => ~Gone(t)
                       /\ phase'[t] = "mounted" => phase[t] = "mounted"
                       /\ phase'[t] \in {"idle", "mounting"} => phase'[t] = phase[t]
  BY <1>3 DEF Gone
<1>5. /\ \A q \in Retries, t \in Slots : Handles(q, t)' <=> Handles(q, t)
      /\ \A q \in Retries : /\ Early(q)' <=> Early(q)
                            /\ Late(q)' <=> Late(q)
  BY <1>1, <1>2 DEF Handles, isSamePath, Early, Late
<1>6. \A q \in Retries : q # r /\ retry[q].at # "off" =>
         /\ ~Handles(q, s) /\ retry[q].slot # s
         /\ ~isSamePath /\ ~retry[q].both
  BY <1>1, OthersElsewhere
<1>7. Handles(r, s) /\ (isSamePath => \A t \in Slots : Handles(r, t))
  BY <1>1, HandlesOwn DEF Orderly, RetriesOrderly
<1>8. /\ \A m \in Monitors : monitor[m].slot \in Slots
      /\ \A q \in Retries : retry[q].slot \in Slots
  BY DEF TypeOK
<1>9. SlotsOrderly'
  <2>1. IdleIsEmpty' /\ LoopMounts' /\ NoneOverdue'
    BY <1>1, <1>4 DEF Orderly, SlotsOrderly, IdleIsEmpty, LoopMounts, NoneOverdue
  <2>2. CredsAreShare'
    BY <1>1, <1>4 DEF Orderly, SlotsOrderly, CredsAreShare
  <2> QED
    BY <2>1, <2>2 DEF SlotsOrderly
<1>10. MonitorsOrderly'
  <2>1. NoneWhileMounting' /\ TakenOver'
    BY <1>1, <1>4, <1>5, RetryFrame
       DEF Orderly, MonitorsOrderly, NoneWhileMounting, TakenOver
  <2> QED
    BY <1>1, <1>5, <2>1, RetryFrame DEF MonitorsOrderly
<1>11. FoundOrderly'
  <2>1. HungIsMounted' /\ AbsentIsGone'
    BY <1>1, <1>3, <1>5, <1>7, <1>8, RetryFrame, TwoSlots
       DEF Orderly, FoundOrderly, HungIsMounted, AbsentIsGone
  <2>2. MarkIsEarly'
    BY <1>1, <1>5, <1>8 DEF Orderly, FoundOrderly, MarkIsEarly
  <2> QED
    BY <2>1, <2>2 DEF FoundOrderly
<1>12. RetriesOrderly'
  <2>1. BothIfSame'
    BY <1>1, <1>2, <1>5, RetryFrame DEF Orderly, RetriesOrderly, BothIfSame
  <2> QED
    BY <1>1, <1>5, <2>1, RetryFrame DEF RetriesOrderly
<1>13. EarlyOrderly'
  <2>1. StartIsMounted' /\ UnmountIsMounted'
    BY <1>1, <1>2, <1>3, <1>5, <1>6, <1>8, RetryFrame
       DEF Orderly, EarlyOrderly, StartIsMounted, UnmountIsMounted
  <2>2. SleepIsGone'
    BY <1>2, <1>3, <1>4, <1>8 DEF Orderly, EarlyOrderly, SleepIsGone, Gone
  <2>3. FirstThenSecond'
    BY <1>1, <1>2, <1>3, <1>4, <1>6, TwoSlots
       DEF Orderly, EarlyOrderly, FirstThenSecond
  <2>4. EarlyIsFirst' /\ EarlyOnlyMarks'
    BY <1>1, <1>2, <1>5, RetryFrame
       DEF Orderly, EarlyOrderly, EarlyIsFirst, EarlyOnlyMarks
  <2> QED
    BY <2>1, <2>2, <2>3, <2>4 DEF EarlyOrderly
<1>14. LateOrderly'
  <2>1. \A q \in Retries : Late(q) => q # r /\ retry'[q] = retry[q]
    BY <1>1, <1>2 DEF Late
  <2>2. SecondIsGone' /\ FirstIsCleared'
    BY <1>1, <1>4, <1>5, <2>1, TwoSlots
       DEF Orderly, LateOrderly, SecondIsGone, FirstIsCleared
  <2>3. LateHasShare'
    BY <1>1, <1>4, <1>5 DEF Orderly, LateOrderly, LateHasShare
  <2>4. \A q \in Retries : Late(q) => ~Handles(q, s)
    BY <1>6, <2>1 DEF Late
  <2>5. LatePolls'
    BY <1>1, <1>3, <1>5, <2>4, RetryFrame DEF Orderly, LateOrderly, LatePolls
  <2>6. LateIsWatched'
    BY <1>1, <1>4, <1>5, RetryFrame, TwoSlots
       DEF Orderly, LateOrderly, LateIsWatched
  <2>7. CredsInUse'
    BY <1>1, <1>2 DEF Orderly, LateOrderly, CredsInUse
  <2> QED
    BY <2>2, <2>3, <2>5, <2>6, <2>7 DEF LateOrderly
<1>15. SharesWatched'
  BY <1>1, <1>4, <1>5, RetryFrame, TwoSlots
     DEF Orderly, SharesWatched, IsWatched
<1>16. alive' /\ FlagsOwned'
  BY <1>1, <1>5, RetryFrame DEF Orderly
<1> QED
  BY <1>9, <1>10, <1>11, <1>12, <1>13, <1>14, <1>15, <1>16 DEF Orderly

(* The slots stay as they are: what does not depend on the retry threads.  *)
LEMMA SlotFrame ==
    ASSUME Orderly, UNCHANGED <<alive, phase, share, loop, overdue, creds, monitor>>
    PROVE  /\ alive' /\ SlotsOrderly' /\ NoneWhileMounting' /\ TakenOver'
           /\ \A t \in Slots : Gone(t)' <=> Gone(t)
BY DEF Orderly, SlotsOrderly, IdleIsEmpty, LoopMounts, NoneOverdue, CredsAreShare, Gone,
       MonitorsOrderly, NoneWhileMounting, TakenOver, Polls

LEMMA ChoosesSlots ==
    ASSUME TypeOK, Orderly, NEW r \in Retries, ChooseSlots(r)
    PROVE  Orderly'
<1>1. /\ retry[r].at = "start"
      /\ UNCHANGED <<alive, phase, share, loop, overdue, creds, retryThreadCreated,
                     isReconnecting, monitor>>
  BY DEF ChooseSlots, At, slotVars
<1>2. /\ retry'[r].at = "unmount" /\ retry'[r].tries = 1
      /\ retry'[r].both <=> isSamePath
      /\ retry'[r].slot = IF isSamePath THEN 2 ELSE retry[r].slot
      /\ \A q \in Retries : q # r => retry'[q] = retry[q]
  BY DEF ChooseSlots, TypeOK
<1>3. /\ retry[r].slot \in Slots /\ ~retry[r].both
      /\ phase[retry[r].slot] = "mounted"
      /\ isSamePath => phase[2] = "mounted" /\ phase[3] = "mounted"
  <2>1. retry[r].slot \in Slots
    BY DEF TypeOK
  <2> QED
    BY <1>1, <2>1, TwoSlots DEF Orderly, EarlyOrderly, StartIsMounted
<1>4. \A t \in Slots : Handles(r, t)' <=> Handles(r, t)
  BY <1>1, <1>2, <1>3 DEF Handles
<1>5. \A q \in Retries, t \in Slots : Handles(q, t)' <=> Handles(q, t)
  BY <1>1, <1>2, <1>4 DEF Handles, isSamePath
<1>6. \A q \in Retries : /\ Early(q)' <=> Early(q)
                         /\ Late(q)' <=> Late(q)
                         /\ Late(q) => q # r
  BY <1>1, <1>2 DEF Early, Late
<1>7. \A m \in Monitors : monitor[m].slot \in Slots
  BY DEF TypeOK
<1>8. FoundOrderly'
  <2>1. HungIsMounted' /\ AbsentIsGone'
    BY <1>1, <1>5, <1>7, RetryFrame
       DEF Orderly, FoundOrderly, HungIsMounted, AbsentIsGone
  <2>2. MarkIsEarly'
    BY <1>1, <1>5, <1>6, <1>7 DEF Orderly, FoundOrderly, MarkIsEarly
  <2> QED
    BY <2>1, <2>2 DEF FoundOrderly
<1>9. BothIfSame'
  BY <1>1, <1>2, <1>5, RetryFrame DEF Orderly, RetriesOrderly, BothIfSame
<1>10. EarlyOrderly'
  <2>1. StartIsMounted' /\ UnmountIsMounted'
    BY <1>1, <1>2, <1>3, <1>5, RetryFrame
       DEF Orderly, EarlyOrderly, StartIsMounted, UnmountIsMounted
  <2>2. SleepIsGone' /\ FirstThenSecond'
    BY <1>1, <1>2, <1>3, SlotFrame, TwoSlots
       DEF Orderly, EarlyOrderly, SleepIsGone, FirstThenSecond, Gone
  <2>3. EarlyIsFirst'
    BY <1>2, <1>6 DEF Orderly, EarlyOrderly, EarlyIsFirst
  <2>4. EarlyOnlyMarks'
    BY <1>1, <1>5, <1>6, RetryFrame DEF Orderly, EarlyOrderly, EarlyOnlyMarks
  <2> QED
    BY <2>1, <2>2, <2>3, <2>4 DEF EarlyOrderly
<1>11. LateOrderly'
  <2>1. SecondIsGone' /\ FirstIsCleared'
    BY <1>1, <1>2, <1>6, SlotFrame, TwoSlots
       DEF Orderly, LateOrderly, SecondIsGone, FirstIsCleared
  <2>2. LateHasShare'
    BY <1>1, <1>5, <1>6, SlotFrame DEF Orderly, LateOrderly, LateHasShare
  <2>3. LatePolls'
    BY <1>1, <1>5, <1>6, RetryFrame DEF Orderly, LateOrderly, LatePolls
  <2>4. LateIsWatched'
    BY <1>1, <1>5, <1>6, RetryFrame, TwoSlots
       DEF Orderly, LateOrderly, LateIsWatched
  <2>5. CredsInUse'
    BY <1>1, <1>2 DEF Orderly, LateOrderly, CredsInUse
  <2> QED
    BY <2>1, <2>2, <2>3, <2>4, <2>5 DEF LateOrderly
<1>12. SharesWatched'
  BY <1>1, <1>5, RetryFrame, TwoSlots DEF Orderly, SharesWatched, IsWatched
<1> QED
  BY <1>1, <1>5, <1>8, <1>9, <1>10, <1>11, <1>12, RetryFrame, SlotFrame
     DEF Orderly, MonitorsOrderly, RetriesOrderly

(* The sleep ends: the second slot is next, or the attempts begin.         *)
LEMMA WakesUp ==
    ASSUME TypeOK, Orderly, NEW r \in Retries, SleepEnds(r)
    PROVE  Orderly'
<1> DEFINE toSecond == retry[r].both /\ retry[r].slot = 2
<1>1. /\ retry[r].at = "sleep"
      /\ UNCHANGED <<alive, phase, share, loop, overdue, creds, retryThreadCreated,
                     isReconnecting, monitor>>
      /\ \A m \in Monitors :
            Handles(r, monitor[m].slot) => monitor[m].at # "mark"
  BY DEF SleepEnds, At, slotVars
<1>2. /\ retry'[r].both = retry[r].both /\ retry'[r].tries = retry[r].tries
      /\ retry'[r].at = IF toSecond THEN "unmount" ELSE "attempt"
      /\ retry'[r].slot = IF retry[r].both THEN Other(retry[r].slot)
                          ELSE retry[r].slot
      /\ \A q \in Retries : q # r => retry'[q] = retry[q]
  BY DEF SleepEnds, TypeOK
<1>3. /\ retry[r].slot \in Slots /\ retry[r].tries = 1
      /\ retry[r].both \in BOOLEAN /\ (isSamePath => retry[r].both)
      /\ Gone(retry[r].slot)
      /\ retry[r].both /\ retry[r].slot = 2 => phase[3] = "mounted"
      /\ retry[r].both /\ retry[r].slot = 3 => Gone(2)
  BY <1>1, TwoSlots
     DEF Orderly, EarlyOrderly, SleepIsGone, FirstThenSecond, EarlyIsFirst,
         Early, RetriesOrderly, BothIfSame, TypeOK
<1>4. \A t \in Slots : Handles(r, t)' <=> Handles(r, t)
  BY <1>1, <1>2, <1>3 DEF Handles
<1>5. \A q \in Retries, t \in Slots : Handles(q, t)' <=> Handles(q, t)
  BY <1>1, <1>2, <1>4 DEF Handles, isSamePath
<1>6. /\ \A q \in Retries : q # r => /\ Early(q)' <=> Early(q)
                                     /\ Late(q)' <=> Late(q)
      /\ Early(r) /\ ~Late(r)
      /\ Early(r)' <=> toSecond
      /\ Late(r)' <=> ~toSecond
  BY <1>1, <1>2 DEF Early, Late
<1>7. \A t \in Slots : Late(r)' /\ Handles(r, t) => Gone(t)
  BY <1>1, <1>3, <1>6, TwoSlots DEF Handles
<1>8. \A t \in Slots, m \in Monitors : Handles(r, t) => ~Polls(m, t)
  <2> SUFFICES ASSUME NEW t \in Slots, NEW m \in Monitors,
                      Handles(r, t), Polls(m, t)
               PROVE  FALSE
    OBVIOUS
  <2>1. monitor[m].at = "mark" /\ monitor[m].slot = t
    BY <1>6 DEF Orderly, EarlyOrderly, EarlyOnlyMarks, Polls
  <2> QED
    BY <1>1, <2>1
<1>9. \A m \in Monitors : monitor[m].slot \in Slots
  BY DEF TypeOK
<1>10. FoundOrderly'
  <2>1. HungIsMounted' /\ AbsentIsGone'
    BY <1>1, <1>5, <1>9, RetryFrame
       DEF Orderly, FoundOrderly, HungIsMounted, AbsentIsGone
  <2>2. MarkIsEarly'
    BY <1>1, <1>5, <1>6, <1>9 DEF Orderly, FoundOrderly, MarkIsEarly
  <2> QED
    BY <2>1, <2>2 DEF FoundOrderly
<1>11. BothIfSame'
  BY <1>1, <1>2, <1>3, <1>5, RetryFrame
     DEF Orderly, RetriesOrderly, BothIfSame
<1>12. EarlyOrderly'
  <2>1. StartIsMounted' /\ UnmountIsMounted'
    BY <1>1, <1>2, <1>3, <1>5, RetryFrame, TwoSlots
       DEF Orderly, EarlyOrderly, StartIsMounted, UnmountIsMounted
  <2>2. SleepIsGone'
    BY <1>1, <1>2 DEF Orderly, EarlyOrderly, SleepIsGone, Gone
  <2>3. FirstThenSecond'
    BY <1>1, <1>2, <1>3, SlotFrame, TwoSlots
       DEF Orderly, EarlyOrderly, FirstThenSecond
  <2>4. EarlyIsFirst'
    BY <1>2, <1>3, <1>6 DEF Orderly, EarlyOrderly, EarlyIsFirst
  <2>5. EarlyOnlyMarks'
    BY <1>1, <1>5, <1>6, RetryFrame DEF Orderly, EarlyOrderly, EarlyOnlyMarks
  <2> QED
    BY <2>1, <2>2, <2>3, <2>4, <2>5 DEF EarlyOrderly
<1>13. LateOrderly'
  <2>1. SecondIsGone' /\ FirstIsCleared'
    BY <1>1, <1>2, <1>3, <1>6, SlotFrame, TwoSlots
       DEF Orderly, LateOrderly, SecondIsGone, FirstIsCleared
  <2>2. LateHasShare'
    BY <1>1, <1>5, <1>6, <1>7, SlotFrame DEF Orderly, LateOrderly, LateHasShare
  <2>3. LatePolls'
    BY <1>1, <1>5, <1>6, <1>8, RetryFrame DEF Orderly, LateOrderly, LatePolls
  <2>4. LateIsWatched'
    <3>1. \A t \in Slots : Gone(t) => phase[t] # "mounted"
      BY DEF Gone
    <3> QED
      BY <1>1, <1>5, <1>6, <1>7, <3>1, RetryFrame, TwoSlots
         DEF Orderly, LateOrderly, LateIsWatched
  <2>5. CredsInUse'
    BY <1>1, <1>2, <1>3 DEF Orderly, LateOrderly, CredsInUse
  <2> QED
    BY <2>1, <2>2, <2>3, <2>4, <2>5 DEF LateOrderly
<1>14. SharesWatched'
  BY <1>1, <1>5, RetryFrame, TwoSlots DEF Orderly, SharesWatched, IsWatched
<1> QED
  BY <1>1, <1>5, <1>10, <1>11, <1>12, <1>13, <1>14, RetryFrame, SlotFrame
     DEF Orderly, MonitorsOrderly, RetriesOrderly

(* An attempt goes on, fails or is found to have succeeded.                *)
LEMMA Attempts ==
    ASSUME TypeOK, Orderly, NEW r \in Retries,
           \/ BeginAttempt(r) \/ RetryMountRefused(r)
           \/ RetrySucceeds(r) \/ RetryGivesUpWaiting(r)
    PROVE  Orderly'
<1>1. /\ retry[r].at \in {"attempt", "call", "wait"}
      /\ UNCHANGED <<alive, phase, share, loop, overdue, creds, retryThreadCreated,
                     isReconnecting, monitor>>
  BY DEF BeginAttempt, RetryMountRefused, RetrySucceeds, RetryGivesUpWaiting,
         At, slotVars
<1>2. /\ retry'[r].at \in {"attempt", "call", "exhausted", "clear"}
      /\ retry'[r].slot = retry[r].slot /\ retry'[r].both = retry[r].both
      /\ \A q \in Retries : q # r => retry'[q] = retry[q]
  BY DEF BeginAttempt, RetryMountRefused, RetrySucceeds, RetryGivesUpWaiting,
         NextAttempt, Goto, TypeOK
<1>3. retry'[r].at \in {"attempt", "call"} => creds[retry[r].slot] # None
  <2>1. CredsInUse
    BY DEF Orderly, LateOrderly
  <2>2. CASE BeginAttempt(r)
    <3>1. retry[r].tries \in Int
      BY MaxAttemptsAssumption DEF TypeOK, MaxAttemptsAssumption
    <3>2. retry'[r].at \in {"attempt", "call"}
             => retry[r].tries > 1 \/ creds[retry[r].slot] # None
      BY <2>2 DEF BeginAttempt, Goto, TypeOK
    <3> QED
      BY <2>1, <2>2, <3>2 DEF CredsInUse, BeginAttempt, At
  <2>3. CASE RetryMountRefused(r)
    BY <2>3 DEF RetryMountRefused
  <2>4. CASE RetrySucceeds(r)
    BY <2>4 DEF RetrySucceeds, TypeOK
  <2>5. CASE RetryGivesUpWaiting(r)
    BY <2>1, <2>5 DEF CredsInUse, RetryGivesUpWaiting, At
  <2> QED
    BY <2>2, <2>3, <2>4, <2>5
<1>4. CredsInUse'
  BY <1>1, <1>2, <1>3 DEF Orderly, LateOrderly, CredsInUse
<1>5. Late(r) /\ Late(r)'
  BY <1>1, <1>2 DEF Late
<1> QED
  BY <1>1, <1>2, <1>4, <1>5, GetsOn, SlotFrame DEF SlotsOrderly

(* An attempt mounts the slot again.                                       *)
LEMMA MountsForRetry ==
    ASSUME TypeOK, Orderly, NEW r \in Retries, RetryMounts(r)
    PROVE  Orderly'
<1> DEFINE s == retry[r].slot
<1>1. /\ s \in Slots /\ loop = None /\ retry[r].at = "call"
      /\ phase[s] = "idle" /\ creds[s] \in Servers
      /\ phase' = [phase EXCEPT ![s] = "mounting"]
      /\ creds' = [creds EXCEPT ![s] = creds[s]]
      /\ share' = [share EXCEPT ![s] = creds[s]]
      /\ loop' = s
      /\ UNCHANGED <<alive, overdue, retryThreadCreated, isReconnecting,
                     monitor>>
  BY ServersAssumption
     DEF ServersAssumption, RetryMounts, BeginMount, LoopRuns, At, TypeOK, Maybe
<1>2. /\ retry'[r].at = "wait" /\ retry'[r].slot = s
      /\ retry'[r].both = retry[r].both /\ retry'[r].tries = retry[r].tries
      /\ \A q \in Retries : q # r => retry'[q] = retry[q]
  BY DEF RetryMounts, Goto, TypeOK
<1>3. /\ creds' = creds /\ creds[s] # None
      /\ phase'[s] = "mounting" /\ share'[s] = creds[s]
      /\ \A t \in Slots : t # s => phase'[t] = phase[t] /\ share'[t] = share[t]
  BY <1>1, ServersAssumption DEF TypeOK, ServersAssumption
<1>4. \A t \in Slots : /\ phase'[t] = "mounted" => phase[t] = "mounted" /\ t # s
                       /\ phase'[t] = "idle" => phase[t] = "idle" /\ t # s
                       /\ t # s => (Gone(t)' <=> Gone(t))
  BY <1>3 DEF Gone
<1>5. /\ \A q \in Retries, t \in Slots : Handles(q, t)' <=> Handles(q, t)
      /\ \A q \in Retries : /\ Early(q)' <=> Early(q)
                            /\ Late(q)' <=> Late(q)
      /\ Late(r)
  BY <1>1, <1>2, <1>3 DEF Handles, isSamePath, Early, Late
<1>6. \A q \in Retries : q # r /\ retry[q].at # "off" =>
         /\ ~Handles(q, s) /\ retry[q].slot # s
         /\ ~isSamePath /\ ~retry[q].both
  BY <1>1, OthersElsewhere
<1>7. Handles(r, s) /\ (isSamePath => \A t \in Slots : Handles(r, t))
  BY <1>1, HandlesOwn DEF Orderly, RetriesOrderly
<1>8. \A m \in Monitors : ~Polls(m, s)
  BY <1>1, <1>5, <1>7 DEF Orderly, LateOrderly, LatePolls
<1>9. /\ \A m \in Monitors : monitor[m].slot \in Slots
      /\ \A q \in Retries : retry[q].slot \in Slots
  BY DEF TypeOK
<1>10. SlotsOrderly'
  <2>1. IdleIsEmpty' /\ LoopMounts' /\ NoneOverdue'
    BY <1>1, <1>3, <1>4 DEF Orderly, SlotsOrderly, IdleIsEmpty, LoopMounts, NoneOverdue
  <2>2. CredsAreShare'
    BY <1>3, <1>4 DEF Orderly, SlotsOrderly, CredsAreShare
  <2> QED
    BY <2>1, <2>2 DEF SlotsOrderly
<1>11. MonitorsOrderly'
  <2>1. NoneWhileMounting' /\ TakenOver'
    BY <1>1, <1>3, <1>5, <1>8, RetryFrame
       DEF Orderly, MonitorsOrderly, NoneWhileMounting, TakenOver
  <2> QED
    BY <1>1, <1>3, <1>5, <2>1, RetryFrame DEF MonitorsOrderly
<1>12. FoundOrderly'
  <2>1. HungIsMounted'
    BY <1>1, <1>3, <1>5, <1>7, <1>9, RetryFrame, TwoSlots
       DEF Orderly, FoundOrderly, HungIsMounted
  <2>2. AbsentIsGone'
    BY <1>1, <1>3, <1>5, <1>7, <1>9, RetryFrame, TwoSlots
       DEF Orderly, FoundOrderly, AbsentIsGone
  <2>3. MarkIsEarly'
    BY <1>1, <1>5, <1>9 DEF Orderly, FoundOrderly, MarkIsEarly
  <2> QED
    BY <2>1, <2>2, <2>3 DEF FoundOrderly
<1>13. RetriesOrderly'
  <2>1. BothIfSame'
    BY <1>1, <1>2, <1>3, <1>5, RetryFrame
       DEF Orderly, RetriesOrderly, BothIfSame
  <2> QED
    BY <1>1, <1>3, <1>5, <2>1, RetryFrame DEF RetriesOrderly
<1>14. EarlyOrderly'
  <2>1. \A q \in Retries : retry'[q].at \in {"start", "unmount", "sleep"} =>
           /\ q # r /\ retry'[q] = retry[q]
           /\ retry[q].slot # s /\ ~isSamePath /\ ~retry[q].both
    BY <1>2, <1>6
  <2>2. StartIsMounted'
    BY <1>1, <1>3, <1>5, <1>9, <2>1, RetryFrame
       DEF Orderly, EarlyOrderly, StartIsMounted
  <2>3. UnmountIsMounted'
    BY <1>1, <1>3, <1>5, <1>9, <2>1, RetryFrame
       DEF Orderly, EarlyOrderly, UnmountIsMounted
  <2>4. SleepIsGone' /\ FirstThenSecond'
    BY <1>4, <1>9, <2>1
       DEF Orderly, EarlyOrderly, SleepIsGone, FirstThenSecond
  <2>5. EarlyIsFirst' /\ EarlyOnlyMarks'
    BY <1>1, <1>2, <1>3, <1>5, RetryFrame
       DEF Orderly, EarlyOrderly, EarlyIsFirst, EarlyOnlyMarks
  <2> QED
    BY <2>2, <2>3, <2>4, <2>5 DEF EarlyOrderly
<1>15. LateOrderly'
  <2>1. SecondIsGone' /\ FirstIsCleared'
    <3>1. \A q \in Retries : q # r => retry'[q] = retry[q]
      BY <1>2
    <3>2. \A q \in Retries : /\ retry'[q].slot = retry[q].slot
                             /\ retry'[q].both = retry[q].both
                             /\ Late(q) => retry[q].at # "off"
      BY <1>2 DEF Late
    <3>3. \A q \in Retries : Late(q) /\ retry[q].both => q = r
      BY <1>6, <3>2
    <3>4. SecondIsGone'
      BY <1>4, <1>5, <3>2, <3>3, TwoSlots DEF Orderly, LateOrderly, SecondIsGone
    <3>5. FirstIsCleared'
      BY <1>1, <1>5, <3>2 DEF Orderly, LateOrderly, FirstIsCleared
    <3> QED
      BY <3>4, <3>5
  <2>2. LateHasShare'
    BY <1>3, <1>4, <1>5 DEF Orderly, LateOrderly, LateHasShare
  <2>3. LatePolls'
    BY <1>1, <1>3, <1>5, <1>8, RetryFrame DEF Orderly, LateOrderly, LatePolls
  <2>4. LateIsWatched'
    BY <1>1, <1>3, <1>4, <1>5, RetryFrame, TwoSlots
       DEF Orderly, LateOrderly, LateIsWatched
  <2>5. CredsInUse'
    BY <1>2, <1>3 DEF Orderly, LateOrderly, CredsInUse
  <2> QED
    BY <2>1, <2>2, <2>3, <2>4, <2>5 DEF LateOrderly
<1>16. SharesWatched'
  BY <1>1, <1>3, <1>4, <1>5, RetryFrame, TwoSlots
     DEF Orderly, SharesWatched, IsWatched
<1>17. alive' /\ FlagsOwned'
  BY <1>1, <1>3, <1>5, RetryFrame DEF Orderly
<1> QED
  BY <1>10, <1>11, <1>12, <1>13, <1>14, <1>15, <1>16, <1>17 DEF Orderly

(* The attempts are exhausted and the slot is still down: the credentials  *)
(* go.                                                                     *)
LEMMA ExhaustsQuietly ==
    ASSUME TypeOK, Orderly, NEW r \in Retries, Exhaust(r), quiet'
    PROVE  Orderly'
<1> DEFINE s == retry[r].slot
<1>1. /\ s \in Slots /\ retry[r].at = "exhausted"
      /\ creds' = [creds EXCEPT ![s] = None]
      /\ Gone(s)
      /\ UNCHANGED <<alive, phase, share, loop, overdue,
                     retryThreadCreated, isReconnecting, monitor>>
  BY DEF Exhaust, Disturb, At, TypeOK, slotVars, Gone, Phases
<1>2. /\ retry'[r].at = "clear" /\ retry'[r].slot = s
      /\ retry'[r].both = retry[r].both /\ retry'[r].tries = retry[r].tries
      /\ \A q \in Retries : q # r => retry'[q] = retry[q]
  BY DEF Exhaust, Goto, TypeOK
<1>3. /\ creds'[s] = None
      /\ \A t \in Slots : t # s => creds'[t] = creds[t]
      /\ ~isSamePath'
  <2>1. creds'[s] = None /\ \A t \in Slots : t # s => creds'[t] = creds[t]
    BY <1>1 DEF TypeOK
  <2> QED
    BY <1>1, <2>1, TwoSlots DEF isSamePath
<1>4. /\ \A q \in Retries : q # r /\ retry[q].at # "off" =>
            ~Handles(q, s) /\ retry[q].slot # s /\ ~isSamePath
      /\ Handles(r, s) /\ (isSamePath => \A t \in Slots : Handles(r, t))
  BY <1>1, OthersElsewhere, HandlesOwn DEF Orderly, RetriesOrderly
<1>5. \A q \in Retries, t \in Slots : Handles(q, t)' <=> Handles(q, t)
  <2> SUFFICES ASSUME NEW q \in Retries, NEW t \in Slots
               PROVE  Handles(q, t)' <=> Handles(q, t)
    OBVIOUS
  <2>1. CASE q = r
    BY <1>1, <1>2, <2>1 DEF Handles
  <2>2. CASE q # r
    BY <1>2, <1>3, <1>4, <2>2 DEF Handles
  <2> QED
    BY <2>1, <2>2
<1>6. /\ \A q \in Retries : /\ Early(q)' <=> Early(q)
                            /\ Late(q)' <=> Late(q)
      /\ Late(r)
      /\ \A m \in Monitors, t \in Slots : Polls(m, t)' <=> Polls(m, t)
      /\ \A t \in Slots : Gone(t)' <=> Gone(t)
  BY <1>1, <1>2 DEF Early, Late, Polls, Gone
<1>7. /\ \A m \in Monitors : ~Polls(m, s)
      /\ \A t \in Slots : phase[t] = "mounted" => t # s
  BY <1>1, <1>4, <1>6 DEF Orderly, LateOrderly, LatePolls, Gone
<1>8. \A m \in Monitors : monitor[m].slot \in Slots
  BY DEF TypeOK
<1>9. SlotsOrderly'
  <2>1. IdleIsEmpty' /\ LoopMounts' /\ NoneOverdue'
    BY <1>1 DEF Orderly, SlotsOrderly, IdleIsEmpty, LoopMounts, NoneOverdue
  <2>2. CredsAreShare'
    BY <1>1, <1>3, <1>6 DEF Orderly, SlotsOrderly, CredsAreShare
  <2> QED
    BY <2>1, <2>2 DEF SlotsOrderly
<1>10. MonitorsOrderly'
  <2>1. OneMonitor' /\ OneForBoth' /\ NoneMeansReconnecting'
    BY <1>3, <1>6
       DEF Orderly, MonitorsOrderly, OneMonitor, OneForBoth,
           NoneMeansReconnecting
  <2>2. NoneWhileMounting' /\ TakenOver'
    BY <1>1, <1>3, <1>6
       DEF Orderly, MonitorsOrderly, NoneWhileMounting, TakenOver, Gone
  <2> QED
    BY <2>1, <2>2 DEF MonitorsOrderly
<1>11. FoundOrderly'
  BY <1>1, <1>3, <1>5, <1>6, <1>8
     DEF Orderly, FoundOrderly, HungIsMounted, AbsentIsGone, MarkIsEarly
<1>12. RetriesOrderly' /\ FlagsOwned'
  BY <1>1, <1>3, <1>5
     DEF Orderly, RetriesOrderly, OneRetry, BothIfSame, FlagsOwned
<1>13. EarlyOrderly'
  <2>1. StartIsMounted' /\ UnmountIsMounted'
    BY <1>1, <1>2, <1>3
       DEF Orderly, EarlyOrderly, StartIsMounted, UnmountIsMounted
  <2>2. SleepIsGone' /\ FirstThenSecond'
    BY <1>1, <1>2 DEF Orderly, EarlyOrderly, SleepIsGone, FirstThenSecond, Gone
  <2>3. EarlyIsFirst' /\ EarlyOnlyMarks'
    BY <1>1, <1>2, <1>5, <1>6
       DEF Orderly, EarlyOrderly, EarlyIsFirst, EarlyOnlyMarks
  <2> QED
    BY <2>1, <2>2, <2>3 DEF EarlyOrderly
<1>14. LateOrderly'
  <2>1. SecondIsGone' /\ FirstIsCleared'
    BY <1>1, <1>2, <1>6, TwoSlots
       DEF Orderly, LateOrderly, SecondIsGone, FirstIsCleared
  <2>2. LateHasShare'
    BY <1>1, <1>5, <1>6 DEF Orderly, LateOrderly, LateHasShare
  <2>3. LatePolls'
    BY <1>1, <1>5, <1>6 DEF Orderly, LateOrderly, LatePolls
  <2>4. LateIsWatched'
    BY <1>1, <1>5, <1>6, <1>7, TwoSlots DEF Orderly, LateOrderly, LateIsWatched
  <2>5. CredsInUse'
    BY <1>2, <1>3, <1>4, <1>8 DEF Orderly, LateOrderly, CredsInUse, TypeOK
  <2> QED
    BY <2>1, <2>2, <2>3, <2>4, <2>5 DEF LateOrderly
<1>15. SharesWatched'
  BY <1>1, <1>4, <1>5, <1>6, TwoSlots DEF Orderly, SharesWatched, IsWatched
<1>16. alive'
  BY <1>1 DEF Orderly
<1> QED
  BY <1>9, <1>10, <1>11, <1>12, <1>13, <1>14, <1>15, <1>16 DEF Orderly

(* A slot is done with: the second one is next, or the thread ends.        *)
LEMMA ClearsFlag ==
    ASSUME TypeOK, Orderly, NEW r \in Retries, ClearFlag(r)
    PROVE  Orderly'
<1> DEFINE s == retry[r].slot
           toSecond == retry[r].both /\ s = 2
<1>1. /\ s \in Slots /\ retry[r].at = "clear"
      /\ retryThreadCreated' = [retryThreadCreated EXCEPT ![s] = FALSE]
      /\ UNCHANGED <<alive, phase, share, loop, overdue, creds, isReconnecting, monitor>>
  BY DEF ClearFlag, At, TypeOK, slotVars
<1>2. \A q \in Retries : q # r => retry'[q] = retry[q]
  BY DEF ClearFlag, TypeOK
<1>3. /\ toSecond => /\ retry'[r].at = "attempt" /\ retry'[r].slot = 3
                     /\ retry'[r].tries = 1 /\ retry'[r].both = retry[r].both
      /\ ~toSecond => retry'[r].at = "off"
  <2>1. CASE toSecond
    <3>1. retry' = [retry EXCEPT ![r] =
                      [@ EXCEPT !.at = "attempt", !.slot = 3, !.tries = 1]]
      BY <2>1 DEF ClearFlag
    <3> QED
      BY <2>1, <3>1 DEF TypeOK
  <2>2. CASE ~toSecond
    <3>1. retry' = [retry EXCEPT ![r] = RetryOff]
      BY <2>2 DEF ClearFlag
    <3> QED
      BY <2>2, <3>1 DEF TypeOK, RetryOff
  <2> QED
    BY <2>1, <2>2
<1>4. /\ ~retryThreadCreated'[s]
      /\ \A t \in Slots : t # s => retryThreadCreated'[t] = retryThreadCreated[t]
      /\ \A t \in Slots : retryThreadCreated'[t] => t # s /\ retryThreadCreated[t]
  BY <1>1 DEF TypeOK
<1>5. /\ isSamePath' <=> isSamePath
      /\ \A m \in Monitors, t \in Slots : Polls(m, t)' <=> Polls(m, t)
      /\ \A t \in Slots : Gone(t)' <=> Gone(t)
      /\ \A m \in Monitors : monitor[m].slot \in Slots
  BY <1>1 DEF isSamePath, Polls, Gone, TypeOK
<1>6. \A q \in Retries, t \in Slots :
         /\ q # r => (Handles(q, t)' <=> Handles(q, t))
         /\ q = r => (Handles(q, t)' <=> toSecond)
         /\ q = r => (Handles(q, t) <=> t = s \/ retry[r].both)
         /\ Handles(q, t)' => Handles(q, t)
  <2>1. \A q \in Retries, t \in Slots :
           q # r => (Handles(q, t)' <=> Handles(q, t))
    BY <1>2, <1>5 DEF Handles
  <2>2. \A t \in Slots : Handles(r, t)' <=> toSecond
    BY <1>3 DEF Handles
  <2>3. \A t \in Slots : Handles(r, t) <=> t = s \/ retry[r].both
    BY <1>1 DEF Handles
  <2> QED
    BY <2>1, <2>2, <2>3
<1>7. /\ \A q \in Retries : q # r => /\ Early(q)' <=> Early(q)
                                     /\ Late(q)' <=> Late(q)
      /\ Late(r) /\ ~Early(r) /\ ~Early(r)'
      /\ Late(r)' <=> toSecond
      /\ \A q \in Retries : Late(q)' => Late(q)
  BY <1>1, <1>2, <1>3 DEF Early, Late
<1>8. SlotsOrderly' /\ MonitorsOrderly'
  <2>1. SlotsOrderly'
    BY <1>1, <1>5 DEF Orderly, SlotsOrderly, IdleIsEmpty, LoopMounts, NoneOverdue,
                      CredsAreShare
  <2>2. MonitorsOrderly'
    BY <1>1, <1>5
       DEF Orderly, MonitorsOrderly, OneMonitor, OneForBoth,
           NoneMeansReconnecting, NoneWhileMounting, TakenOver
  <2> QED
    BY <2>1, <2>2
<1>9. FoundOrderly'
  <2>1. HungIsMounted' /\ AbsentIsGone'
    BY <1>1, <1>5, <1>6 DEF Orderly, FoundOrderly, HungIsMounted, AbsentIsGone
  <2>2. MarkIsEarly'
    BY <1>1, <1>5, <1>6, <1>7 DEF Orderly, FoundOrderly, MarkIsEarly
  <2> QED
    BY <2>1, <2>2 DEF FoundOrderly
<1>10. RetriesOrderly'
  <2>1. OneRetry'
    BY <1>6 DEF Orderly, RetriesOrderly, OneRetry
  <2>2. BothIfSame'
    BY <1>1, <1>2, <1>3, <1>5 DEF Orderly, RetriesOrderly, BothIfSame
  <2> QED
    BY <2>1, <2>2 DEF RetriesOrderly
<1>11. EarlyOrderly'
  <2>1. \A q \in Retries :
           retry'[q].at \in {"start", "unmount", "sleep"} => retry'[q] = retry[q]
    BY <1>2, <1>3
  <2>2. StartIsMounted' /\ UnmountIsMounted'
    BY <1>1, <1>5, <2>1
       DEF Orderly, EarlyOrderly, StartIsMounted, UnmountIsMounted
  <2>3. SleepIsGone' /\ FirstThenSecond'
    BY <1>1, <2>1 DEF Orderly, EarlyOrderly, SleepIsGone, FirstThenSecond, Gone
  <2>4. EarlyIsFirst' /\ EarlyOnlyMarks'
    BY <1>1, <1>2, <1>5, <1>6, <1>7
       DEF Orderly, EarlyOrderly, EarlyIsFirst, EarlyOnlyMarks
  <2> QED
    BY <2>2, <2>3, <2>4 DEF EarlyOrderly
<1>12. LateOrderly'
  <2>1. SecondIsGone' /\ FirstIsCleared'
    BY <1>2, <1>3, <1>4, <1>5, <1>7, TwoSlots
       DEF Orderly, LateOrderly, SecondIsGone, FirstIsCleared
  <2>2. LateHasShare'
    BY <1>1, <1>5, <1>6, <1>7 DEF Orderly, LateOrderly, LateHasShare
  <2>3. LatePolls'
    BY <1>1, <1>5, <1>6, <1>7 DEF Orderly, LateOrderly, LatePolls
  <2>4. LateIsWatched'
    BY <1>1, <1>5, <1>6, <1>7, TwoSlots DEF Orderly, LateOrderly, LateIsWatched
  <2>5. CredsInUse'
    <3>1. \A q \in Retries :
             (\/ retry'[q].at \in {"call", "wait"}
              \/ retry'[q].at = "attempt" /\ retry'[q].tries > 1)
                 => q # r
      BY <1>3
    <3> QED
      BY <1>1, <1>2, <3>1 DEF Orderly, LateOrderly, CredsInUse
  <2> QED
    BY <2>1, <2>2, <2>3, <2>4, <2>5 DEF LateOrderly
<1>13. FlagsOwned'
  <2> SUFFICES ASSUME NEW t \in Slots, retryThreadCreated'[t]
               PROVE  \E q \in Retries : Handles(q, t)'
    BY DEF FlagsOwned
  <2>1. t # s /\ retryThreadCreated[t]
    BY <1>4
  <2>2. PICK q \in Retries : Handles(q, t)
    BY <2>1 DEF Orderly, FlagsOwned
  <2>3. CASE q # r
    BY <1>6, <2>2, <2>3
  <2>4. CASE q = r
    <3>1. retry[r].both
      BY <1>6, <2>1, <2>2, <2>4
    <3>2. s = 2
      BY <1>1, <1>7, <2>1, <3>1, TwoSlots DEF Orderly, LateOrderly, FirstIsCleared
    <3> QED
      BY <1>6, <3>1, <3>2
  <2> QED
    BY <2>3, <2>4
<1>14. SharesWatched'
  <2> SUFFICES ASSUME NEW t \in Slots, phase[t] = "mounted", share[t] # None
               PROVE  IsWatched(t)'
    BY <1>1 DEF SharesWatched
  <2>1. CASE \E m \in Monitors : Polls(m, t) \/ (isSamePath /\ Polls(m, Other(t)))
    BY <1>1, <1>5, <2>1, TwoSlots DEF IsWatched
  <2>2. CASE \E q \in Retries : q # r /\ Handles(q, t)
    BY <1>6, <2>2 DEF IsWatched
  <2>3. CASE Handles(r, t)
    BY <1>7, <2>1, <2>3 DEF Orderly, LateOrderly, LateIsWatched
  <2> QED
    BY <2>1, <2>2, <2>3 DEF Orderly, SharesWatched, IsWatched
<1>15. alive'
  BY <1>1 DEF Orderly
<1> QED
  BY <1>8, <1>9, <1>10, <1>11, <1>12, <1>13, <1>14, <1>15 DEF Orderly

-----------------------------------------------------------------------------
(* The monitor threads.                                                    *)

LEMMA PollsQuietly ==
    ASSUME TypeOK, Orderly, NEW m \in Monitors, Poll(m), quiet'
    PROVE  Orderly'
<1> DEFINE s == monitor[m].slot
<1>1. PICK answer \in Answers(s) :
         /\ monitor' = [monitor EXCEPT ![m].at = answer]
         /\ answer = "absent" => share[s] = None
         /\ answer = "hung" => /\ \A r \in Retries : ~Handles(r, s)
                               /\ phase[s] = "mounted"
                               /\ isSamePath => phase[Other(s)] = "mounted"
  BY DEF Poll, Disturb
<1>2. /\ answer \in {"hung", "absent"} /\ s \in Slots /\ monitor[m].at = "poll"
      /\ UNCHANGED <<alive, phase, share, loop, overdue, creds, retryThreadCreated,
                     isReconnecting, retry>>
  BY <1>1 DEF Answers, Poll, TypeOK, slotVars
<1>3. /\ monitor'[m].at = answer /\ monitor'[m].slot = s
      /\ \A n \in Monitors : n # m => monitor'[n] = monitor[n]
      /\ \A n \in Monitors : monitor'[n].slot = monitor[n].slot
      /\ \A n \in Monitors : monitor'[n].at = "off" <=> monitor[n].at = "off"
  BY <1>1, <1>2 DEF TypeOK
<1>4. /\ isSamePath' <=> isSamePath
      /\ \A n \in Monitors, t \in Slots : Polls(n, t)' <=> Polls(n, t)
      /\ \A r \in Retries, t \in Slots : Handles(r, t)' <=> Handles(r, t)
      /\ \A r \in Retries : /\ Early(r)' <=> Early(r)
                            /\ Late(r)' <=> Late(r)
      /\ \A t \in Slots : Gone(t)' <=> Gone(t)
      /\ \A n \in Monitors : monitor[n].slot \in Slots
  BY <1>2, <1>3 DEF isSamePath, Polls, Handles, Early, Late, Gone, TypeOK
<1>5. \A r \in Retries : ~Handles(r, s)
  <2> SUFFICES ASSUME NEW r \in Retries, Handles(r, s) PROVE FALSE
    OBVIOUS
  <2>1. answer = "absent" /\ share[s] = None
    BY <1>1, <1>2
  <2>2. Polls(m, s)
    BY <1>2 DEF Polls
  <2>3. Late(r)
    <3>1. ~Early(r)
      BY <1>2, <2>2 DEF Orderly, EarlyOrderly, EarlyOnlyMarks
    <3> QED
      BY <3>1, HandlesOwn DEF Handles, Orderly, RetriesOrderly
  <2>4. phase[s] = "mounted"
    BY <1>2, <2>2, <2>3 DEF Orderly, LateOrderly, LatePolls
  <2> QED
    BY <1>2, <2>1, <2>3, <2>4 DEF Orderly, LateOrderly, LateHasShare, Gone
<1>6. SlotsOrderly' /\ MonitorsOrderly'
  <2>1. SlotsOrderly'
    BY <1>2, <1>4 DEF Orderly, SlotsOrderly, IdleIsEmpty, LoopMounts, NoneOverdue,
                      CredsAreShare
  <2>2. MonitorsOrderly'
    BY <1>2, <1>3, <1>4
       DEF Orderly, MonitorsOrderly, OneMonitor, OneForBoth,
           NoneMeansReconnecting, NoneWhileMounting, TakenOver
  <2> QED
    BY <2>1, <2>2
<1>7. FoundOrderly'
  <2>1. HungIsMounted'
    BY <1>1, <1>2, <1>3, <1>4, <1>5 DEF Orderly, FoundOrderly, HungIsMounted
  <2>2. AbsentIsGone'
    BY <1>1, <1>2, <1>3, <1>4, <1>5 DEF Orderly, FoundOrderly, AbsentIsGone
  <2>3. MarkIsEarly'
    BY <1>2, <1>3, <1>4 DEF Orderly, FoundOrderly, MarkIsEarly
  <2> QED
    BY <2>1, <2>2, <2>3 DEF FoundOrderly
<1>8. RetriesOrderly' /\ FlagsOwned' /\ SharesWatched'
  <2>1. RetriesOrderly' /\ FlagsOwned'
    BY <1>2, <1>4
       DEF Orderly, RetriesOrderly, OneRetry, BothIfSame, FlagsOwned
  <2>2. SharesWatched'
    BY <1>2, <1>4, TwoSlots DEF Orderly, SharesWatched, IsWatched
  <2> QED
    BY <2>1, <2>2
<1>9. EarlyOrderly'
  <2>1. StartIsMounted' /\ UnmountIsMounted' /\ SleepIsGone' /\ FirstThenSecond'
    BY <1>2, <1>4
       DEF Orderly, EarlyOrderly, StartIsMounted, UnmountIsMounted,
           SleepIsGone, FirstThenSecond, Gone
  <2>2. EarlyIsFirst'
    BY <1>2, <1>4 DEF Orderly, EarlyOrderly, EarlyIsFirst
  <2>3. EarlyOnlyMarks'
    BY <1>3, <1>4, <1>5 DEF Orderly, EarlyOrderly, EarlyOnlyMarks, Polls
  <2> QED
    BY <2>1, <2>2, <2>3 DEF EarlyOrderly
<1>10. LateOrderly'
  <2>1. SecondIsGone' /\ LateHasShare' /\ CredsInUse' /\ FirstIsCleared'
    BY <1>2, <1>4, TwoSlots
       DEF Orderly, LateOrderly, SecondIsGone, LateHasShare, CredsInUse,
           FirstIsCleared
  <2>2. LatePolls'
    BY <1>2, <1>3, <1>4, <1>5 DEF Orderly, LateOrderly, LatePolls, Polls
  <2>3. LateIsWatched'
    BY <1>2, <1>4, TwoSlots DEF Orderly, LateOrderly, LateIsWatched
  <2> QED
    BY <2>1, <2>2, <2>3 DEF LateOrderly
<1>11. alive'
  BY <1>2 DEF Orderly
<1> QED
  BY <1>6, <1>7, <1>8, <1>9, <1>10, <1>11 DEF Orderly

(* An outage starts a retry thread: the slot had none.                     *)
LEMMA StartsRetry ==
    ASSUME TypeOK, Orderly, NEW m \in Monitors, StartRetry(m)
    PROVE  Orderly'
<1> DEFINE s == monitor[m].slot
<1>1. /\ s \in Slots /\ monitor[m].at = "hung"
      /\ UNCHANGED <<alive, phase, share, loop, overdue, creds, retryThreadCreated,
                     isReconnecting>>
  BY DEF StartRetry, TypeOK, slotVars
<1>2. /\ phase[s] = "mounted" /\ (isSamePath => phase[Other(s)] = "mounted")
      /\ \A q \in Retries : ~Handles(q, s)
  BY <1>1 DEF Orderly, FoundOrderly, HungIsMounted
<1>3. ~retryThreadCreated[s]
  BY <1>1, <1>2 DEF Orderly, FlagsOwned
<1>4. PICK r \in Retries :
         /\ retry[r].at = "off"
         /\ retry' = [retry EXCEPT ![r] = [RetryOff EXCEPT !.at = "start",
                                                           !.slot = s]]
  BY <1>3 DEF StartRetry, TakesFree
<1>5. monitor' = [monitor EXCEPT ![m].at = "mark"]
  BY <1>3 DEF StartRetry
<1>6. /\ monitor'[m].at = "mark" /\ monitor'[m].slot = s
      /\ \A n \in Monitors : n # m => monitor'[n] = monitor[n]
      /\ \A n \in Monitors : monitor'[n].slot = monitor[n].slot
      /\ \A n \in Monitors : monitor'[n].at = "off" <=> monitor[n].at = "off"
  BY <1>1, <1>5 DEF TypeOK
<1>7. /\ retry'[r].at = "start" /\ retry'[r].slot = s
      /\ ~retry'[r].both /\ retry'[r].tries = 1
      /\ \A q \in Retries : q # r => retry'[q] = retry[q]
  BY <1>4 DEF TypeOK, RetryOff
<1>8. /\ isSamePath' <=> isSamePath
      /\ \A n \in Monitors, t \in Slots : Polls(n, t)' <=> Polls(n, t)
      /\ \A t \in Slots : Gone(t)' <=> Gone(t)
      /\ \A n \in Monitors : monitor[n].slot \in Slots
      /\ Polls(m, s)
  BY <1>1, <1>6 DEF isSamePath, Polls, Gone, TypeOK
<1>9. /\ \A t \in Slots : Handles(r, t)' <=> t = s \/ isSamePath
      /\ \A t \in Slots : ~Handles(r, t)
      /\ \A q \in Retries, t \in Slots :
            q # r => (Handles(q, t)' <=> Handles(q, t))
      /\ \A q \in Retries, t \in Slots :
            Handles(q, t) => q # r /\ t # s /\ ~isSamePath /\ Handles(q, t)'
  <2>1. /\ \A t \in Slots : Handles(r, t)' <=> t = s \/ isSamePath
        /\ \A t \in Slots : ~Handles(r, t)
        /\ \A q \in Retries, t \in Slots :
              q # r => (Handles(q, t)' <=> Handles(q, t))
    BY <1>4, <1>7, <1>8 DEF Handles
  <2>2. \A q \in Retries, t \in Slots : Handles(q, t) /\ isSamePath => FALSE
    BY <1>1, <1>2, HandlesOwn DEF Handles, Orderly, RetriesOrderly
  <2> QED
    BY <1>2, <2>1, <2>2
<1>10. /\ \A q \in Retries : q # r => /\ Early(q)' <=> Early(q)
                                      /\ Late(q)' <=> Late(q)
       /\ ~Early(r) /\ ~Late(r) /\ Early(r)' /\ ~Late(r)'
  BY <1>4, <1>7 DEF Early, Late
<1>11. \A n \in Monitors, t \in Slots :
          Polls(n, t) /\ (t = s \/ isSamePath) => n = m
  BY <1>1, <1>8 DEF Orderly, MonitorsOrderly, OneMonitor, OneForBoth, Polls
<1>12. SlotsOrderly' /\ MonitorsOrderly'
  <2>1. SlotsOrderly'
    BY <1>1, <1>8 DEF Orderly, SlotsOrderly, IdleIsEmpty, LoopMounts, NoneOverdue,
                      CredsAreShare
  <2>2. MonitorsOrderly'
    BY <1>1, <1>6, <1>8
       DEF Orderly, MonitorsOrderly, OneMonitor, OneForBoth,
           NoneMeansReconnecting, NoneWhileMounting, TakenOver
  <2> QED
    BY <2>1, <2>2
<1>13. FoundOrderly'
  <2>1. HungIsMounted'
    <3> SUFFICES ASSUME NEW n \in Monitors, monitor'[n].at = "hung"
                 PROVE  /\ phase[monitor[n].slot] = "mounted"
                        /\ isSamePath => phase[Other(monitor[n].slot)] = "mounted"
                        /\ \A q \in Retries : ~Handles(q, monitor[n].slot)'
      BY <1>1, <1>6, <1>8, TwoSlots DEF HungIsMounted
    <3>1. n # m /\ monitor[n].at = "hung"
      BY <1>6
    <3>2. monitor[n].slot # s /\ ~isSamePath
      BY <1>8, <1>11, <3>1 DEF Polls
    <3> QED
      BY <1>8, <1>6, <1>9, <3>1, <3>2 DEF Orderly, FoundOrderly, HungIsMounted
  <2>2. AbsentIsGone'
    <3> SUFFICES ASSUME NEW n \in Monitors, monitor'[n].at = "absent"
                 PROVE  /\ share[monitor[n].slot] = None
                        /\ \A q \in Retries : ~Handles(q, monitor[n].slot)'
      BY <1>1, <1>6, <1>8 DEF AbsentIsGone
    <3>1. n # m /\ monitor[n].at = "absent"
      BY <1>6
    <3>2. monitor[n].slot # s /\ ~isSamePath
      BY <1>8, <1>11, <3>1 DEF Polls
    <3> QED
      BY <1>8, <1>6, <1>9, <3>1, <3>2 DEF Orderly, FoundOrderly, AbsentIsGone
  <2>3. MarkIsEarly'
    <3> SUFFICES ASSUME NEW n \in Monitors, monitor'[n].at = "mark"
                 PROVE  \E q \in Retries :
                           Early(q)' /\ Handles(q, monitor[n].slot)'
      BY <1>6, <1>8 DEF MarkIsEarly
    <3>1. CASE n = m
      BY <1>1, <1>6, <1>9, <1>10, <3>1
    <3>2. CASE n # m
      BY <1>6, <1>8, <1>9, <1>10, <3>2 DEF Orderly, FoundOrderly, MarkIsEarly
    <3> QED
      BY <3>1, <3>2
  <2> QED
    BY <2>1, <2>2, <2>3 DEF FoundOrderly
<1>14. RetriesOrderly'
  <2>1. OneRetry'
    BY <1>9 DEF Orderly, RetriesOrderly, OneRetry
  <2>2. BothIfSame'
    BY <1>7, <1>8 DEF Orderly, RetriesOrderly, BothIfSame
  <2> QED
    BY <2>1, <2>2 DEF RetriesOrderly
<1>15. EarlyOrderly'
  <2>1. StartIsMounted'
    BY <1>1, <1>2, <1>7, <1>8 DEF Orderly, EarlyOrderly, StartIsMounted
  <2>2. UnmountIsMounted' /\ SleepIsGone' /\ FirstThenSecond'
    BY <1>1, <1>7
       DEF Orderly, EarlyOrderly, UnmountIsMounted, SleepIsGone,
           FirstThenSecond, Gone
  <2>3. EarlyIsFirst'
    BY <1>7, <1>10 DEF Orderly, EarlyOrderly, EarlyIsFirst
  <2>4. EarlyOnlyMarks'
    BY <1>6, <1>8, <1>9, <1>10, <1>11 DEF Orderly, EarlyOrderly, EarlyOnlyMarks
  <2> QED
    BY <2>1, <2>2, <2>3, <2>4 DEF EarlyOrderly
<1>16. LateOrderly'
  <2>1. \A q \in Retries : Late(q)' => q # r /\ Late(q) /\ retry'[q] = retry[q]
    BY <1>7, <1>10
  <2>2. SecondIsGone' /\ CredsInUse' /\ FirstIsCleared'
    BY <1>1, <1>7, <1>8, <2>1, TwoSlots
       DEF Orderly, LateOrderly, SecondIsGone, CredsInUse, FirstIsCleared
  <2>3. LateHasShare'
    BY <1>1, <1>8, <1>9, <2>1 DEF Orderly, LateOrderly, LateHasShare
  <2>4. LatePolls'
    <3>1. \A q \in Retries, t \in Slots : Handles(q, t) => ~Polls(m, t)
      BY <1>9 DEF Polls
    <3> QED
      BY <1>1, <1>6, <1>8, <1>9, <2>1, <3>1 DEF Orderly, LateOrderly, LatePolls
  <2>5. LateIsWatched'
    BY <1>1, <1>8, <1>9, <2>1, TwoSlots DEF Orderly, LateOrderly, LateIsWatched
  <2> QED
    BY <2>2, <2>3, <2>4, <2>5 DEF LateOrderly
<1>17. FlagsOwned' /\ SharesWatched'
  <2>1. FlagsOwned'
    BY <1>1, <1>9 DEF Orderly, FlagsOwned
  <2>2. SharesWatched'
    BY <1>1, <1>8, <1>9, TwoSlots DEF Orderly, SharesWatched, IsWatched
  <2> QED
    BY <2>1, <2>2
<1>18. alive'
  BY <1>1 DEF Orderly
<1> QED
  BY <1>12, <1>13, <1>14, <1>15, <1>16, <1>17, <1>18 DEF Orderly

(* The flags are stored while the retry thread they are for still takes    *)
(* its slots down.                                                         *)
LEMMA MarksRetry ==
    ASSUME TypeOK, Orderly, NEW m \in Monitors, MarkRetry(m)
    PROVE  Orderly'
<1> DEFINE s == monitor[m].slot
<1>1. /\ s \in Slots /\ monitor[m].at = "mark" /\ isReconnecting'
      /\ monitor' = [monitor EXCEPT ![m] = MonitorOff]
      /\ UNCHANGED <<alive, phase, share, loop, overdue, creds, retry>>
  BY DEF MarkRetry, TypeOK, slotVars
<1>2. \A t \in Slots : retryThreadCreated'[t]
         => retryThreadCreated[t] \/ t = s \/ isSamePath
  BY DEF MarkRetry, TypeOK
<1>3. PICK r \in Retries : Early(r) /\ Handles(r, s)
  BY <1>1 DEF Orderly, FoundOrderly, MarkIsEarly
<1>4. /\ monitor'[m].at = "off"
      /\ \A n \in Monitors : n # m => monitor'[n] = monitor[n]
      /\ \A n \in Monitors : monitor'[n].at # "off"
            => n # m /\ monitor'[n] = monitor[n]
  BY <1>1 DEF TypeOK, MonitorOff
<1>5. /\ isSamePath' <=> isSamePath
      /\ \A n \in Monitors, t \in Slots : Polls(n, t)' <=> Polls(n, t) /\ n # m
      /\ \A q \in Retries, t \in Slots : Handles(q, t)' <=> Handles(q, t)
      /\ \A q \in Retries : /\ Early(q)' <=> Early(q)
                            /\ Late(q)' <=> Late(q)
      /\ \A t \in Slots : Gone(t)' <=> Gone(t)
      /\ \A n \in Monitors : monitor[n].slot \in Slots
  BY <1>1, <1>4 DEF isSamePath, Polls, Handles, Early, Late, Gone, TypeOK
<1>6. /\ isSamePath => \A t \in Slots : Handles(r, t)
      /\ \A q \in Retries, t \in Slots :
            Handles(q, t) /\ (t = s \/ isSamePath) => q = r
      /\ ~Late(r)
  <2>1. isSamePath => \A t \in Slots : Handles(r, t)
    BY <1>3, HandlesOwn DEF Early, Orderly, RetriesOrderly
  <2> QED
    BY <1>1, <1>3, <2>1 DEF Orderly, RetriesOrderly, OneRetry, Early, Late
<1>7. \A n \in Monitors : isSamePath => monitor'[n].at = "off"
  BY <1>1, <1>4 DEF Orderly, MonitorsOrderly, OneForBoth
<1>8. SlotsOrderly' /\ MonitorsOrderly'
  <2>1. SlotsOrderly'
    BY <1>1, <1>5 DEF Orderly, SlotsOrderly, IdleIsEmpty, LoopMounts, NoneOverdue,
                      CredsAreShare
  <2>2. OneMonitor' /\ NoneWhileMounting'
    BY <1>1, <1>5 DEF Orderly, MonitorsOrderly, OneMonitor, NoneWhileMounting
  <2>4. TakenOver'
    <3>1. phase[s] # "mounting"
      BY <1>1, <1>3, EarlyPhases
    <3>2. \A n \in Monitors, t \in Slots : Polls(n, t) /\ t # s => Polls(n, t)'
      BY <1>5 DEF Polls
    <3> QED
      BY <1>1, <3>1, <3>2 DEF Orderly, MonitorsOrderly, TakenOver
  <2>3. OneForBoth' /\ NoneMeansReconnecting'
    BY <1>1, <1>5, <1>7 DEF OneForBoth, NoneMeansReconnecting
  <2> QED
    BY <2>1, <2>2, <2>3, <2>4 DEF MonitorsOrderly
<1>9. FoundOrderly'
  <2>1. HungIsMounted' /\ AbsentIsGone'
    BY <1>1, <1>4, <1>5 DEF Orderly, FoundOrderly, HungIsMounted, AbsentIsGone
  <2>2. MarkIsEarly'
    BY <1>4, <1>5 DEF Orderly, FoundOrderly, MarkIsEarly
  <2> QED
    BY <2>1, <2>2 DEF FoundOrderly
<1>10. RetriesOrderly'
  BY <1>1, <1>5 DEF Orderly, RetriesOrderly, OneRetry, BothIfSame
<1>11. EarlyOrderly'
  <2>1. StartIsMounted' /\ UnmountIsMounted' /\ SleepIsGone' /\ FirstThenSecond'
    BY <1>1, <1>5
       DEF Orderly, EarlyOrderly, StartIsMounted, UnmountIsMounted,
           SleepIsGone, FirstThenSecond, Gone
  <2>2. EarlyIsFirst' /\ EarlyOnlyMarks'
    BY <1>1, <1>4, <1>5 DEF Orderly, EarlyOrderly, EarlyIsFirst, EarlyOnlyMarks
  <2> QED
    BY <2>1, <2>2 DEF EarlyOrderly
<1>12. LateOrderly'
  <2>1. SecondIsGone' /\ LateHasShare' /\ CredsInUse'
    BY <1>1, <1>5, TwoSlots
       DEF Orderly, LateOrderly, SecondIsGone, LateHasShare, CredsInUse
  <2>2. LatePolls'
    BY <1>1, <1>4, <1>5 DEF Orderly, LateOrderly, LatePolls
  <2>3. LateIsWatched'
    <3> SUFFICES ASSUME NEW q \in Retries, NEW t \in Slots,
                        Late(q), Handles(q, t), phase[t] = "mounted"
                 PROVE  \E n \in Monitors :
                           Polls(n, t)' \/ (isSamePath' /\ Polls(n, Other(t))')
      BY <1>1, <1>5 DEF LateIsWatched
    <3>1. t # s /\ ~isSamePath
      BY <1>6
    <3>2. PICK n \in Monitors : Polls(n, t)
      BY <3>1 DEF Orderly, LateOrderly, LateIsWatched
    <3>3. n # m
      BY <3>1, <3>2 DEF Polls
    <3> QED
      BY <1>5, <3>2, <3>3
  <2>4. FirstIsCleared'
    <3> SUFFICES ASSUME NEW q \in Retries,
                        Late(q), retry[q].both, retry[q].slot = 3
                 PROVE  ~retryThreadCreated'[2]
      BY <1>1, <1>5 DEF FirstIsCleared
    <3>1. \A t \in Slots : Handles(q, t)
      BY DEF Handles, Late
    <3>2. s # 2 /\ ~isSamePath
      BY <1>1, <1>6, <3>1, TwoSlots
    <3>3. ~retryThreadCreated[2]
      BY DEF Orderly, LateOrderly, FirstIsCleared
    <3> QED
      BY <1>2, <3>2, <3>3, TwoSlots
  <2> QED
    BY <2>1, <2>2, <2>3, <2>4 DEF LateOrderly
<1>13. FlagsOwned'
  <2> SUFFICES ASSUME NEW t \in Slots, retryThreadCreated'[t]
               PROVE  \E q \in Retries : Handles(q, t)
    BY <1>5 DEF FlagsOwned
  <2>1. CASE retryThreadCreated[t]
    BY <2>1 DEF Orderly, FlagsOwned
  <2>2. CASE t = s \/ isSamePath
    BY <1>3, <1>6, <2>2
  <2> QED
    BY <1>2, <2>1, <2>2
<1>14. SharesWatched'
  <2> SUFFICES ASSUME NEW t \in Slots, phase[t] = "mounted", share[t] # None
               PROVE  IsWatched(t)'
    BY <1>1 DEF SharesWatched
  <2>1. CASE t = s \/ isSamePath
    BY <1>3, <1>5, <1>6, <2>1 DEF IsWatched
  <2>2. CASE t # s /\ ~isSamePath
    <3>1. \A n \in Monitors : Polls(n, t) => Polls(n, t)'
      BY <1>5, <2>2 DEF Polls
    <3> QED
      BY <1>5, <2>2, <3>1 DEF Orderly, SharesWatched, IsWatched
  <2> QED
    BY <2>1, <2>2
<1>15. alive'
  BY <1>1 DEF Orderly
<1> QED
  BY <1>8, <1>9, <1>10, <1>11, <1>12, <1>13, <1>14, <1>15 DEF Orderly

(* The slot was unmounted, and the thread changes over to the other one on *)
(* its server: no other thread runs.                                       *)
LEMMA ChangesOver ==
    ASSUME TypeOK, Orderly, NEW m \in Monitors, ShareIsGone(m), isSamePath
    PROVE  Orderly'
<1> DEFINE s == monitor[m].slot
           o == Other(s)
<1>1. /\ s \in Slots /\ monitor[m].at = "absent"
      /\ UNCHANGED <<alive, phase, share, loop, overdue, retryThreadCreated,
                     isReconnecting, retry>>
  BY DEF ShareIsGone, TypeOK, slotVars
<1>2. share[s] = None /\ \A r \in Retries : ~Handles(r, s)
  BY <1>1 DEF Orderly, FoundOrderly, AbsentIsGone
<1>3. \A r \in Retries : retry[r].at = "off"
  BY <1>1, <1>2, HandlesOwn DEF Orderly, RetriesOrderly
<1>4. \A t \in Slots : ~retryThreadCreated[t]
  BY <1>3 DEF Orderly, FlagsOwned, Handles
<1>5. /\ monitor' = [monitor EXCEPT ![m] = [at |-> "poll", slot |-> o]]
      /\ creds' = [creds EXCEPT ![o] = None]
  BY <1>1, <1>4 DEF ShareIsGone
<1>6. /\ o \in Slots /\ \A t \in Slots : t # o => t = s
      /\ creds'[o] = None /\ creds'[s] = creds[s]
      /\ ~isSamePath'
  <2>1. o \in Slots /\ o # s /\ \A t \in Slots : t # o => t = s
    BY <1>1, TwoSlots
  <2>2. creds'[o] = None /\ creds'[s] = creds[s]
    BY <1>1, <1>5, <2>1 DEF TypeOK
  <2> QED
    BY <2>1, <2>2, TwoSlots DEF isSamePath
<1>7. /\ monitor'[m].at = "poll" /\ monitor'[m].slot = o
      /\ \A n \in Monitors : n # m => monitor'[n].at = "off"
  <2>1. \A n \in Monitors : n # m => monitor[n].at = "off"
    BY <1>1 DEF Orderly, MonitorsOrderly, OneForBoth
  <2> QED
    BY <1>5, <2>1 DEF TypeOK
<1>8. /\ \A n \in Monitors, t \in Slots : Polls(n, t)' <=> n = m /\ t = o
      /\ \A q \in Retries : /\ ~Early(q)' /\ ~Late(q)'
                            /\ retry'[q].at = "off"
      /\ \A q \in Retries, t \in Slots : ~Handles(q, t)'
  BY <1>1, <1>3, <1>7 DEF Polls, Early, Late, Handles
<1>9. SlotsOrderly'
  <2>1. IdleIsEmpty' /\ LoopMounts' /\ NoneOverdue'
    BY <1>1 DEF Orderly, SlotsOrderly, IdleIsEmpty, LoopMounts, NoneOverdue
  <2>2. CredsAreShare'
    BY <1>1, <1>2, <1>6 DEF CredsAreShare
  <2> QED
    BY <2>1, <2>2 DEF SlotsOrderly
<1>10. MonitorsOrderly'
  <2>1. OneMonitor' /\ OneForBoth' /\ NoneMeansReconnecting'
    BY <1>6, <1>8 DEF OneMonitor, OneForBoth, NoneMeansReconnecting
  <2>2. NoneWhileMounting' /\ TakenOver'
    BY <1>1, <1>2, <1>6, <1>8 DEF NoneWhileMounting, TakenOver
  <2> QED
    BY <2>1, <2>2 DEF MonitorsOrderly
<1>11. FoundOrderly'
  <2>1. \A n \in Monitors : monitor'[n].at \in {"poll", "off"}
    BY <1>7
  <2> QED
    BY <2>1 DEF FoundOrderly, HungIsMounted, AbsentIsGone, MarkIsEarly
<1>12. RetriesOrderly' /\ FlagsOwned'
  BY <1>1, <1>4, <1>6, <1>8
     DEF RetriesOrderly, OneRetry, BothIfSame, FlagsOwned
<1>13. EarlyOrderly' /\ LateOrderly'
  BY <1>8
     DEF EarlyOrderly, StartIsMounted, UnmountIsMounted, SleepIsGone,
         FirstThenSecond, EarlyIsFirst, EarlyOnlyMarks, LateOrderly,
         SecondIsGone, LateHasShare, LatePolls, LateIsWatched, CredsInUse,
         FirstIsCleared
<1>14. SharesWatched'
  BY <1>1, <1>2, <1>6, <1>8 DEF SharesWatched, IsWatched
<1>15. alive'
  BY <1>1 DEF Orderly
<1> QED
  BY <1>9, <1>10, <1>11, <1>12, <1>13, <1>14, <1>15 DEF Orderly

(* The slot was unmounted and shares no server: no other thread is         *)
(* interested in it.                                                       *)
LEMMA ShareGoesQuietly ==
    ASSUME TypeOK, Orderly, NEW m \in Monitors, ShareIsGone(m), ~isSamePath
    PROVE  Orderly'
<1> DEFINE s == monitor[m].slot
<1>1. /\ s \in Slots /\ monitor[m].at = "absent"
      /\ UNCHANGED <<alive, phase, share, loop, overdue,
                     retryThreadCreated, isReconnecting, retry>>
  BY DEF ShareIsGone, TypeOK, slotVars
<1>2. share[s] = None /\ \A r \in Retries : ~Handles(r, s)
  BY <1>1 DEF Orderly, FoundOrderly, AbsentIsGone
<1>3. ~retryThreadCreated[s]
  BY <1>1, <1>2 DEF Orderly, FlagsOwned
<1>4. /\ monitor' = [monitor EXCEPT ![m] = MonitorOff]
      /\ creds' = [creds EXCEPT ![s] = None]
  BY <1>3 DEF ShareIsGone
<1>5. /\ monitor'[m].at = "off"
      /\ \A n \in Monitors : n # m => monitor'[n] = monitor[n]
      /\ \A n \in Monitors : monitor'[n].at # "off"
            => n # m /\ monitor'[n] = monitor[n]
  BY <1>4 DEF TypeOK, MonitorOff
<1>6. /\ creds'[s] = None
      /\ \A t \in Slots : t # s => creds'[t] = creds[t]
  BY <1>1, <1>4 DEF TypeOK
<1>7. ~isSamePath'
  BY <1>1, <1>6, TwoSlots DEF isSamePath
<1>8. /\ \A n \in Monitors, t \in Slots : Polls(n, t)' <=> Polls(n, t) /\ n # m
      /\ \A q \in Retries, t \in Slots : Handles(q, t)' <=> Handles(q, t)
      /\ \A q \in Retries : /\ Early(q)' <=> Early(q)
                            /\ Late(q)' <=> Late(q)
      /\ \A t \in Slots : Gone(t)' <=> Gone(t)
      /\ \A n \in Monitors : monitor[n].slot \in Slots
  <2>1. \A n \in Monitors, t \in Slots : Polls(n, t)' <=> Polls(n, t) /\ n # m
    BY <1>5 DEF Polls
  <2>2. \A q \in Retries, t \in Slots : Handles(q, t)' <=> Handles(q, t)
    BY <1>1, <1>4, <1>7 DEF Handles
  <2> QED
    BY <1>1, <2>1, <2>2 DEF Early, Late, Gone, TypeOK
<1>9. \A n \in Monitors, t \in Slots : Polls(n, t) /\ t # s => Polls(n, t)'
  BY <1>8 DEF Polls
<1>10. SlotsOrderly' /\ MonitorsOrderly'
  <2>1. IdleIsEmpty' /\ LoopMounts' /\ NoneOverdue'
    BY <1>1 DEF Orderly, SlotsOrderly, IdleIsEmpty, LoopMounts, NoneOverdue
  <2>2. CredsAreShare'
    BY <1>1, <1>2, <1>6, <1>8 DEF Orderly, SlotsOrderly, CredsAreShare
  <2>3. OneMonitor' /\ NoneWhileMounting' /\ TakenOver'
    BY <1>1, <1>2, <1>6, <1>8, <1>9
       DEF Orderly, MonitorsOrderly, OneMonitor, NoneWhileMounting, TakenOver
  <2>4. OneForBoth' /\ NoneMeansReconnecting'
    BY <1>7 DEF OneForBoth, NoneMeansReconnecting
  <2> QED
    BY <2>1, <2>2, <2>3, <2>4 DEF SlotsOrderly, MonitorsOrderly
<1>11. FoundOrderly'
  <2>1. HungIsMounted' /\ AbsentIsGone'
    BY <1>1, <1>5, <1>7, <1>8
       DEF Orderly, FoundOrderly, HungIsMounted, AbsentIsGone
  <2>2. MarkIsEarly'
    BY <1>5, <1>8 DEF Orderly, FoundOrderly, MarkIsEarly
  <2> QED
    BY <2>1, <2>2 DEF FoundOrderly
<1>12. RetriesOrderly' /\ FlagsOwned'
  BY <1>1, <1>7, <1>8
     DEF Orderly, RetriesOrderly, OneRetry, BothIfSame, FlagsOwned
<1>13. EarlyOrderly'
  <2>1. StartIsMounted' /\ UnmountIsMounted' /\ SleepIsGone' /\ FirstThenSecond'
    BY <1>1, <1>7
       DEF Orderly, EarlyOrderly, StartIsMounted, UnmountIsMounted,
           SleepIsGone, FirstThenSecond, Gone
  <2>2. EarlyIsFirst' /\ EarlyOnlyMarks'
    BY <1>1, <1>5, <1>8 DEF Orderly, EarlyOrderly, EarlyIsFirst, EarlyOnlyMarks
  <2> QED
    BY <2>1, <2>2 DEF EarlyOrderly
<1>14. LateOrderly'
  <2>1. SecondIsGone' /\ LateHasShare' /\ FirstIsCleared'
    BY <1>1, <1>8, TwoSlots
       DEF Orderly, LateOrderly, SecondIsGone, LateHasShare, FirstIsCleared
  <2>2. LatePolls'
    BY <1>1, <1>5, <1>8 DEF Orderly, LateOrderly, LatePolls
  <2>3. LateIsWatched'
    <3>1. \A q \in Retries, t \in Slots : Handles(q, t) => t # s
      BY <1>2
    <3> QED
      BY <1>1, <1>4, <1>8, <1>9, <3>1 DEF Orderly, LateOrderly, LateIsWatched
  <2>4. CredsInUse'
    <3>1. \A q \in Retries : retry[q].at # "off"
             => retry[q].slot \in Slots /\ retry[q].slot # s
      BY <1>2, HandlesOwn DEF Orderly, RetriesOrderly
    <3> QED
      BY <1>1, <1>6, <3>1 DEF Orderly, LateOrderly, CredsInUse
  <2> QED
    BY <2>1, <2>2, <2>3, <2>4 DEF LateOrderly
<1>15. SharesWatched'
  BY <1>1, <1>2, <1>4, <1>8, <1>9 DEF Orderly, SharesWatched, IsWatched
<1>16. alive'
  BY <1>1 DEF Orderly
<1> QED
  BY <1>10, <1>11, <1>12, <1>13, <1>14, <1>15, <1>16 DEF Orderly

-----------------------------------------------------------------------------
(* Every step.                                                             *)

LEMMA LoopOrderly ==
    ASSUME TypeOK, Orderly, LoopSteps, quiet'
    PROVE  Orderly'
<1>1. PICK s \in Slots :
         \/ \E image \in Images[s] : ClientMounts(s, image)
         \/ MountReturns(s) \/ Activate(s) \/ ActivationFails(s)
         \/ SlotUnmounts(s) \/ UnmountEnds(s)
  BY DEF LoopSteps, Orderly, SlotsOrderly, NoneOverdue
<1>2. ASSUME NEW image \in Images[s], ClientMounts(s, image)
      PROVE  Orderly'
  <2>1. image \in Servers \cup {Web}
    BY ImagesAssumption DEF ImagesAssumption
  <2> QED
    BY <1>2, <2>1, MountsQuietly
<1>3. CASE MountReturns(s)
  <2>1. /\ phase[s] = "mounting" /\ loop' = None
        /\ UNCHANGED <<alive, creds, retryThreadCreated, isReconnecting,
                       threadVars, overdue>>
        /\ UNCHANGED <<phase, share>> \/ MountFails(s)
    BY <1>3, NoneAssumption
       DEF NoneAssumption, MountReturns, Orderly, SlotsOrderly, LoopMounts, NoneOverdue
  <2>2. CASE UNCHANGED <<phase, share>>
    <3>1. LoopMounts' /\ CredsInUse'
      BY <2>1, ThreadFrame DEF LoopMounts, NoneOverdue
    <3> QED
      BY <2>1, <2>2, <3>1, GetsOn DEF threadVars
  <2> QED
    BY <2>1, <2>2, BecomesIdle
<1>4. CASE ActivationFails(s)
  BY <1>4, BecomesIdle DEF ActivationFails, LoopRuns
<1>5. CASE UnmountEnds(s)
  BY <1>5, BecomesIdle DEF UnmountEnds, MountFails, LoopRuns
<1> QED
  BY <1>1, <1>2, <1>3, <1>4, <1>5, ActivatesQuietly, UnmountsQuietly

LEMMA MonitorOrderly ==
    ASSUME TypeOK, Orderly, NEW m \in Monitors, MonitorThread(m), quiet'
    PROVE  Orderly'
BY PollsQuietly, StartsRetry, MarksRetry, ChangesOver, ShareGoesQuietly
   DEF MonitorThread

LEMMA RetryOrderly ==
    ASSUME TypeOK, Orderly, NEW r \in Retries, RetryThread(r), quiet'
    PROVE  Orderly'
<1>1. ~RetryUnmountRefused(r)
  BY DEF RetryUnmountRefused, At, Orderly, EarlyOrderly, UnmountIsMounted
<1>2. ~UseCleared(r)
  BY DEF UseCleared, At, Orderly, LateOrderly, CredsInUse
<1>3. ~CallTimesOut(r) /\ ~MountTimesOut(r)
  BY DEF CallTimesOut, MountTimesOut, Disturb
<1> QED
  BY <1>1, <1>2, <1>3, ChoosesSlots, UnmountsForRetry, WakesUp, Attempts,
     MountsForRetry, ExhaustsQuietly, ClearsFlag
     DEF RetryThread

(* Only a start makes the service quiet again, and only its end stops it.  *)
LEMMA StepsOf ==
    ASSUME TypeOK, Next
    PROVE  /\ quiet' => quiet \/ Restart
           /\ (alive' /\ (alive \/ Restart)) \/ Die
<1>0. quiet \in BOOLEAN /\ alive \in BOOLEAN
  BY DEF TypeOK
<1>1. ASSUME NEW s \in Slots, NEW image, ClientMounts(s, image)
      PROVE  (quiet' => quiet) /\ alive /\ alive'
  BY <1>0, <1>1 DEF ClientMounts, Disturb, BeginMount, LoopRuns
<1>8. ASSUME NEW call \in overdue, ServeOverdue(call)
      PROVE  (quiet' => quiet) /\ alive /\ alive'
  BY <1>0, <1>8 DEF ServeOverdue, BeginMount, LoopRuns
<1>2. ASSUME NEW s \in Slots,
             MountReturns(s) \/ Activate(s) \/ ActivationFails(s)
             \/ SlotUnmounts(s) \/ UnmountEnds(s)
      PROVE  (quiet' => quiet) /\ alive /\ alive'
  <2>1. CASE MountReturns(s) \/ Activate(s)
    BY <1>0, <2>1 DEF MountReturns, Activate, Disturb, LoopRuns
  <2>2. CASE ActivationFails(s) \/ SlotUnmounts(s) \/ UnmountEnds(s)
    BY <1>0, <2>2
       DEF ActivationFails, SlotUnmounts, LeaveMounted, UnmountEnds, Disturb,
           LoopRuns
  <2> QED
    BY <1>2, <2>1, <2>2
<1>3. ASSUME NEW m \in Monitors, MonitorThread(m)
      PROVE  (quiet' => quiet) /\ alive /\ alive'
  BY <1>0, <1>3
     DEF MonitorThread, Poll, StartRetry, MarkRetry, ShareIsGone, Disturb
<1>4. ASSUME NEW r \in Retries, RetryThread(r)
      PROVE  (quiet' => quiet) /\ ((alive /\ alive') \/ Die)
  <2>1. CASE RetryUnmountRefused(r) \/ CallTimesOut(r) \/ UseCleared(r)
    BY <1>0, <2>1 DEF RetryUnmountRefused, CallTimesOut, UseCleared, Disturb
  <2>2. CASE ChooseSlots(r) \/ RetryUnmounts(r) \/ SleepEnds(r)
             \/ BeginAttempt(r) \/ RetryMounts(r)
    BY <1>0, <2>2
       DEF ChooseSlots, RetryUnmounts, LeaveMounted, SleepEnds, BeginAttempt,
           RetryMounts, BeginMount, At
  <2>3. CASE RetryMountRefused(r) \/ RetrySucceeds(r)
             \/ RetryGivesUpWaiting(r) \/ Exhaust(r) \/ ClearFlag(r)
             \/ MountTimesOut(r)
    BY <1>0, <2>3
       DEF MountTimesOut, RetryMountRefused, RetrySucceeds, RetryGivesUpWaiting, Exhaust,
           ClearFlag, Disturb, At
  <2> QED
    BY <1>4, <2>1, <2>2, <2>3 DEF RetryThread
<1>5. ASSUME NEW v \in Servers, ServerChanges(v)
      PROVE  (quiet' => quiet) /\ alive /\ alive'
  BY <1>0, <1>5 DEF ServerChanges
<1>6. CASE Kill
  BY <1>0, <1>6 DEF Kill, Disturb
<1>7. CASE Restart
  BY <1>7 DEF Restart
<1> QED
  BY <1>1, <1>2, <1>3, <1>4, <1>5, <1>6, <1>7, <1>8 DEF Next, LoopSteps

LEMMA InvInit == Init => Inv
<1> SUFFICES ASSUME Init PROVE Inv
  OBVIOUS
<1>1. Fresh /\ alive
  BY DEF Init, Fresh
<1> QED
  BY <1>1, InitTypes, FreshIsOrderly DEF Inv

LEMMA InvStep == Inv /\ [Next]_vars => Inv'
<1> SUFFICES ASSUME Inv, [Next]_vars PROVE Inv'
  OBVIOUS
<1>1. TypeOK /\ TypeOK'
  BY StepTypes DEF Inv
<1>2. CASE UNCHANGED vars
  <2> USE DEF Polls, Handles, isSamePath, Early, Late, Gone
  <2>1. UNCHANGED <<alive, phase, share, loop, overdue, creds, retryThreadCreated,
                    isReconnecting, monitor, retry, quiet>>
    BY <1>2 DEF vars, slotVars, threadVars
  <2>2. (~alive' => Fresh') /\ (quiet' => quiet)
    BY <2>1 DEF Inv, Fresh
  <2>3. SlotsOrderly => SlotsOrderly'
    BY <2>1 DEF SlotsOrderly, IdleIsEmpty, LoopMounts, NoneOverdue, CredsAreShare
  <2>4. MonitorsOrderly => MonitorsOrderly'
    BY <2>1 DEF MonitorsOrderly, OneMonitor, OneForBoth,
                NoneMeansReconnecting, NoneWhileMounting, TakenOver
  <2>5. FoundOrderly => FoundOrderly'
    BY <2>1 DEF FoundOrderly, HungIsMounted, AbsentIsGone, MarkIsEarly
  <2>6. RetriesOrderly => RetriesOrderly'
    BY <2>1 DEF RetriesOrderly, OneRetry, BothIfSame
  <2>7. EarlyOrderly => EarlyOrderly'
    BY <2>1 DEF EarlyOrderly, StartIsMounted, UnmountIsMounted, SleepIsGone,
                FirstThenSecond, EarlyIsFirst, EarlyOnlyMarks
  <2>8. LateOrderly => LateOrderly'
    BY <2>1 DEF LateOrderly, SecondIsGone, LateHasShare, LatePolls,
                LateIsWatched, CredsInUse, FirstIsCleared
  <2>9. /\ FlagsOwned => FlagsOwned'
        /\ SharesWatched => SharesWatched'
    BY <2>1 DEF FlagsOwned, SharesWatched, IsWatched
  <2>10. Orderly => Orderly'
    BY <2>1, <2>3, <2>4, <2>5, <2>6, <2>7, <2>8, <2>9 DEF Orderly
  <2> QED
    BY <1>1, <2>2, <2>10 DEF Inv
<1>3. CASE Next /\ ~Restart
  <2>1. ~alive' => Fresh'
    BY <1>1, <1>3, StepsOf DEF Die, Fresh
  <2>2. ASSUME quiet'
        PROVE  Orderly'
    <3>1. quiet /\ Orderly
      BY <1>1, <1>3, <2>2, StepsOf DEF Inv
    <3>2. ASSUME NEW v \in Servers, ServerChanges(v)
          PROVE  Orderly'
      <4>1. UNCHANGED <<alive, phase, share, loop, overdue, creds, retryThreadCreated,
                        isReconnecting, monitor, retry>>
        BY <3>2 DEF ServerChanges, slotVars, threadVars
      <4>2. LoopMounts' /\ CredsInUse'
        BY <3>1, <4>1
           DEF Orderly, SlotsOrderly, LoopMounts, NoneOverdue, LateOrderly, CredsInUse
      <4> QED
        BY <1>1, <3>1, <4>1, <4>2, GetsOn
    <3>3. ~Kill
      BY <2>2 DEF Kill, Disturb
    <3> QED
      BY <1>1, <1>3, <2>2, <3>1, <3>2, <3>3,
         LoopOrderly, MonitorOrderly, RetryOrderly
         DEF Next
  <2> QED
    BY <1>1, <2>1, <2>2 DEF Inv
<1>4. CASE Restart
  <2>1. alive' /\ Fresh'
    BY <1>4 DEF Inv, Restart, Fresh, slotVars, threadVars
  <2>2. (Fresh /\ alive => Orderly)'
    BY FreshIsOrderly, PTL
  <2> QED
    BY <1>1, <2>1, <2>2 DEF Inv
<1> QED
  BY <1>2, <1>3, <1>4

LEMMA InvAlways == Spec => []Inv
BY InvInit, InvStep, PTL DEF Spec

-----------------------------------------------------------------------------
\* No thread ends the service as long as nothing has happened that Disturb
\* remembers: no retry thread unmounts a slot that is not mounted or uses
\* credentials that another thread has cleared (system.hpp 643, 1096).
THEOREM SurvivesWhileQuiet == Spec => []QuietSurvives
<1>1. Inv => QuietSurvives
  BY DEF Inv, Orderly, QuietSurvives
<1> QED
  BY <1>1, InvAlways, PTL

\* A share that is mounted has a thread that watches it, and the credentials of
\* no other server, as long as nothing has happened that Disturb remembers: no
\* client unmounts or mounts a slot that a thread has, no second slot joins a
\* server before the first has its monitor, no attempt ends as exhausted while
\* its mount is still under way.  The change-over of the monitor thread to the
\* other slot is among the steps that keep it (system.hpp 1225, 1629).
THEOREM WatchedWhileQuiet == Spec => []MountedIsWatched
<1>1. Inv => MountedIsWatched
  BY DEF Inv, Orderly, SlotsOrderly, CredsAreShare, Gone, SharesWatched,
         MountedIsWatched
<1> QED
  BY <1>1, InvAlways, PTL

\* No slot has two monitor threads or two retry threads, although the flag that
\* is to prevent it is stored after the thread has started (system.hpp 1201), as
\* long as nothing has happened that Disturb remembers: neither a mount that
\* comes before the monitor thread of the last one has seen the slot unmounted,
\* nor one from the other slot's server while is_reconnecting is left over.
THEOREM OneOfEachWhileQuiet == Spec => []OneOfEach
<1>1. Inv => OneOfEach
  BY DEF Inv, Orderly, MonitorsOrderly, OneMonitor, RetriesOrderly, OneRetry,
         OneOfEach
<1> QED
  BY <1>1, InvAlways, PTL

\* No flag of a retry thread is left behind, which would make a later outage go
\* unheeded (system.hpp 1200), as long as nothing has happened that Disturb
\* remembers.
THEOREM FlagOwnedWhileQuiet == Spec => []FlagIsOwned
<1>1. Inv => FlagIsOwned
  BY DEF Inv, Orderly, FlagsOwned, FlagIsOwned
<1> QED
  BY <1>1, InvAlways, PTL
=============================================================================

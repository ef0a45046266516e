----------------------------- MODULE Inactivity -----------------------------
(***************************************************************************)
(* When an active slot is unmounted because the host does not use it       *)
(* (src/state/active_state.hpp 25-67): a handler runs a second after the   *)
(* last one, or later while the loop is busy, compares the statistics of   *)
(* the gadget with those it has seen, and posts an unmount.  MountPoint    *)
(* leaves open what the handler decides; this module says it.              *)
(*                                                                         *)
(* A time point t of the code is the age now - t here.  Ages are counted   *)
(* in steps finer than the seconds the code rounds to, up to Cap, beyond   *)
(* which no comparison tells them apart.                                   *)
(***************************************************************************)
EXTENDS Integers

CONSTANT Timeout    \* Configuration::inactivityTimeout; 0 if it is not set

ASSUME TimeoutAssumption == Timeout \in Nat

Second == 2                 \* steps of the clock
Cap == Second * (Timeout + 2)
Ages == 0..Cap

VARIABLES
    state,          \* of the slot
    lastStats,      \* an empty text, the one of now, or an older one
    sinceAccess,    \* the age of lastAccess
    sinceTick,      \* since the handler ran last, or was armed first
    remaining,      \* remainingInactivityTimeout, as clients read it
    posted,         \* emitUnmountEvent() is posted
    sinceUse,       \* history: since the host used the medium, or got it
    misread         \* history: the handler could not read the statistics

vars == <<state, lastStats, sinceAccess, sinceTick, remaining, posted,
          sinceUse, misread>>

TypeOK ==
    /\ state \in {"Ready", "Active", "Leaving"}
    /\ lastStats \in {"empty", "current", "older"}
    /\ sinceAccess \in Ages /\ sinceTick \in Ages /\ sinceUse \in Ages
    /\ remaining \in 0..Timeout
    /\ posted \in BOOLEAN /\ (posted => state = "Active")
    /\ misread \in BOOLEAN

Init ==
    /\ state = "Ready"
    /\ lastStats = "empty"
    /\ sinceAccess = 0 /\ sinceTick = 0 /\ sinceUse = 0
    /\ remaining = 0
    /\ posted = FALSE
    /\ misread = FALSE

(* The members of a new ActiveState: no text, and the epoch of the clock,  *)
(* which is when the system started.                                       *)
EnterActive ==
    /\ state = "Ready"
    /\ state' = "Active"
    /\ lastStats' = "empty"
    /\ sinceAccess' \in Ages
    /\ sinceTick' = 0 /\ sinceUse' = 0
    /\ UNCHANGED <<remaining, posted, misread>>

LeaveActive ==
    /\ state = "Active"
    /\ state' = "Leaving"
    /\ posted' = FALSE
    /\ misread' = FALSE
    /\ UNCHANGED <<lastStats, sinceAccess, sinceTick, remaining, sinceUse>>

EnterReady ==
    /\ state = "Leaving"
    /\ state' = "Ready"
    /\ remaining' = 0
    /\ UNCHANGED <<lastStats, sinceAccess, sinceTick, posted, sinceUse, misread>>

-----------------------------------------------------------------------------
(* Every access of the host counts up in the statistics.                   *)
HostUses ==
    /\ state = "Active"
    /\ lastStats' = IF lastStats = "current" THEN "older" ELSE lastStats
    /\ sinceUse' = 0
    /\ UNCHANGED <<state, sinceAccess, sinceTick, remaining, posted, misread>>

Older(age) == IF age < Cap THEN age + 1 ELSE age

TimePasses ==
    /\ state = "Active"
    /\ sinceAccess' = Older(sinceAccess)
    /\ sinceTick' = Older(sinceTick)
    /\ sinceUse' = Older(sinceUse)
    /\ UNCHANGED <<state, lastStats, remaining, posted, misread>>

(* getStats(): the text, an empty one when reading fails after opening, or *)
(* none.                                                                   *)
Readings == {"current", "empty", "none"}

CompareOnce(reading) ==
    IF reading # "none" /\ lastStats = "empty"
    THEN lastStats' = reading /\ sinceAccess' = 0
    ELSE UNCHANGED <<lastStats, sinceAccess>>

CompareForgets(reading) ==
    IF reading # "none" /\ reading # lastStats
    THEN UNCHANGED lastStats /\ sinceAccess' = 0
    ELSE UNCHANGED <<lastStats, sinceAccess>>

Compare(reading) ==
    IF reading # "none" /\ reading # lastStats
    THEN lastStats' = reading /\ sinceAccess' = 0
    ELSE UNCHANGED <<lastStats, sinceAccess>>

(* duration_cast drops what is less than a second.                         *)
Seconds(age) == age \div Second

LeftSwapped(age) == Seconds(age) - Timeout
LeftWhole(age) == Timeout
Left(age) == Timeout - Seconds(age)

Tick ==
    /\ state = "Active" /\ ~posted
    /\ sinceTick >= Second
    /\ \E reading \in Readings :
          /\ Compare(reading)
          /\ misread' = (reading # "current")
    /\ \/ /\ Seconds(sinceAccess') >= Timeout
          /\ posted' = TRUE
          /\ UNCHANGED <<sinceTick, remaining>>
       \/ /\ Seconds(sinceAccess') < Timeout
          /\ remaining' = Left(sinceAccess')
          /\ sinceTick' = 0
          /\ UNCHANGED posted
    /\ UNCHANGED <<state, sinceUse>>

Next ==
    \/ EnterActive
    \/ LeaveActive
    \/ EnterReady
    \/ HostUses
    \/ TimePasses
    \/ Tick

Spec == Init /\ [][Next]_vars

(* Time passes and the loop runs a handler whose time has come.            *)
Fairness == WF_vars(TimePasses) /\ WF_vars(Tick)

LiveSpec == Spec /\ Fairness

-----------------------------------------------------------------------------
(* Properties.                                                             *)

Unmounts == ~posted /\ posted'

(* No medium that the host has used within the time is unmounted, however  *)
(* late the handler notices an access, as long as it can read the          *)
(* statistics when it decides (active_state.hpp 35-42).                    *)
OnlyIdleUnmounts ==
    [][Unmounts /\ ~misread' => sinceUse >= Second * Timeout]_vars

(* What clients read is kept: no unmount comes earlier than the remaining  *)
(* time after it was computed, but for the second that is rounded off      *)
(* (active_state.hpp 56).                                                  *)
RemainingIsKept ==
    [][Unmounts => sinceTick > Second * (remaining - 1)]_vars

(* A medium that the host does not use is unmounted, if the statistics can *)
(* be read (active_state.hpp 42-52).                                       *)
IdleEnds ==
    []<>(state # "Active" \/ posted \/ misread \/ sinceUse < Second)
=============================================================================

------------------------- MODULE InactivityProofs --------------------------
(***************************************************************************)
(* Theorems about Inactivity, for every Timeout: the types, that a medium  *)
(* in use is not unmounted, and that the remaining time is kept.  Only     *)
(* IdleEnds, which needs fairness, is left to TLC.                         *)
(***************************************************************************)
EXTENDS Inactivity, TLAPS

USE DEF Second, Cap, Ages

(* lastAccess is not older than the last use that is still unnoticed, and  *)
(* the remaining time is at most what lastAccess leaves, rounded up.       *)
AccessNoticed ==
    state = "Active" /\ lastStats = "current" => sinceAccess <= sinceUse

RemainingFits ==
    /\ state = "Ready" => remaining = 0
    /\ state = "Active" =>
          \/ remaining = 0
          \/ sinceAccess <= Second * (Timeout - remaining) + 1 + sinceTick

(* What integer division gives for the two steps of a second.              *)
LEMMA SecondsFact ==
    ASSUME NEW age \in Nat
    PROVE  /\ Seconds(age) \in Nat
           /\ Second * Seconds(age) <= age
           /\ age <= Second * Seconds(age) + 1
BY DEF Seconds

LEMMA CompareFact ==
    ASSUME NEW reading \in Readings, TypeOK, Compare(reading)
    PROVE  /\ lastStats' \in {"empty", "current", "older"}
           /\ sinceAccess' \in Ages
           /\ sinceAccess' = sinceAccess \/ sinceAccess' = 0
           /\ reading = "current" =>
                 lastStats' = "current"
                 /\ (sinceAccess' = 0 \/ lastStats = "current")
BY TimeoutAssumption DEF Readings, TypeOK, Compare

LEMMA OlderFact ==
    ASSUME NEW age \in Ages
    PROVE  /\ Older(age) \in Ages
           /\ Older(age) = age + 1 \/ (age = Cap /\ Older(age) = Cap)
BY TimeoutAssumption DEF Older

-----------------------------------------------------------------------------
(* Every variable keeps its type; the remaining time stays between zero    *)
(* and the timeout (active_state.hpp 56).                                  *)
THEOREM TypeCorrect == Spec => []TypeOK
<1>1. Init => TypeOK
  <2> SUFFICES ASSUME Init PROVE TypeOK
    OBVIOUS
  <2>1. 0 \in Ages /\ 0 \in 0..Timeout
    BY TimeoutAssumption
  <2>2. posted = FALSE /\ misread = FALSE
    BY DEF Init
  <2>3. posted \in BOOLEAN /\ ~posted /\ misread \in BOOLEAN
    BY <2>2
  <2> QED
    BY <2>1, <2>3 DEF Init, TypeOK
<1>2. TypeOK /\ [Next]_vars => TypeOK'
  <2> SUFFICES ASSUME TypeOK, [Next]_vars PROVE TypeOK'
    OBVIOUS
  <2>1. CASE EnterActive
    BY <2>1, TimeoutAssumption DEF EnterActive, TypeOK
  <2>2. CASE LeaveActive
    BY <2>2 DEF LeaveActive, TypeOK
  <2>3. CASE EnterReady
    BY <2>3, TimeoutAssumption DEF EnterReady, TypeOK
  <2>4. CASE HostUses
    BY <2>4, TimeoutAssumption DEF HostUses, TypeOK
  <2>5. CASE TimePasses
    BY <2>5, OlderFact DEF TimePasses, TypeOK
  <2>6. CASE Tick
    <3>1. PICK reading \in Readings :
             Compare(reading) /\ misread' = (reading # "current")
      BY <2>6 DEF Tick
    <3>2. /\ lastStats' \in {"empty", "current", "older"}
          /\ sinceAccess' \in Ages
      BY <3>1, CompareFact
    <3>3. remaining' \in 0..Timeout
      <4>1. CASE UNCHANGED remaining
        BY <4>1 DEF TypeOK
      <4>2. CASE /\ Seconds(sinceAccess') < Timeout
                 /\ remaining' = Left(sinceAccess')
        <5>1. sinceAccess' \in Nat
          BY <3>2, TimeoutAssumption
        <5>2. Seconds(sinceAccess') \in Nat
          BY <5>1, SecondsFact
        <5> QED
          BY <4>2, <5>2, TimeoutAssumption DEF Left
      <4> QED
        BY <2>6, <4>1, <4>2 DEF Tick
    <3>4. sinceTick' \in Ages
      BY <2>6, TimeoutAssumption DEF Tick, TypeOK
    <3> QED
      BY <2>6, <3>1, <3>2, <3>3, <3>4 DEF Tick, TypeOK
  <2>7. CASE UNCHANGED vars
    BY <2>7 DEF vars, TypeOK
  <2> QED
    BY <2>1, <2>2, <2>3, <2>4, <2>5, <2>6, <2>7 DEF Next
<1> QED
  BY <1>1, <1>2, PTL DEF Spec

THEOREM NoticedAlways == Spec => []AccessNoticed
<1>1. Init => AccessNoticed
  BY DEF Init, AccessNoticed
<1>2. TypeOK /\ AccessNoticed /\ [Next]_vars => AccessNoticed'
  <2> SUFFICES ASSUME TypeOK, AccessNoticed, [Next]_vars
               PROVE  AccessNoticed'
    OBVIOUS
  <2>1. CASE EnterActive
    BY <2>1 DEF EnterActive, AccessNoticed
  <2>2. CASE LeaveActive \/ EnterReady
    BY <2>2 DEF LeaveActive, EnterReady, AccessNoticed
  <2>3. CASE HostUses
    BY <2>3 DEF HostUses, AccessNoticed
  <2>4. CASE TimePasses
    BY <2>4, OlderFact, TimeoutAssumption DEF TimePasses, TypeOK, AccessNoticed
  <2>5. CASE Tick
    <3>1. PICK reading \in Readings : Compare(reading)
      BY <2>5 DEF Tick
    <3>2. /\ UNCHANGED <<state, sinceUse>>
          /\ state = "Active"
      BY <2>5 DEF Tick
    <3> QED
      BY <3>1, <3>2 DEF Compare, Readings, TypeOK, AccessNoticed
  <2>6. CASE UNCHANGED vars
    BY <2>6 DEF vars, AccessNoticed
  <2> QED
    BY <2>1, <2>2, <2>3, <2>4, <2>5, <2>6 DEF Next
<1> QED
  BY <1>1, <1>2, TypeCorrect, PTL DEF Spec

THEOREM FitsAlways == Spec => []RemainingFits
<1>1. Init => RemainingFits
  BY DEF Init, RemainingFits
<1>2. TypeOK /\ RemainingFits /\ [Next]_vars => RemainingFits'
  <2> SUFFICES ASSUME TypeOK, RemainingFits, [Next]_vars
               PROVE  RemainingFits'
    OBVIOUS
  <2>1. CASE EnterActive \/ LeaveActive \/ EnterReady
    BY <2>1 DEF EnterActive, LeaveActive, EnterReady, RemainingFits
  <2>2. CASE HostUses
    BY <2>2 DEF HostUses, RemainingFits
  <2>3. CASE TimePasses
    BY <2>3, OlderFact, TimeoutAssumption
       DEF TimePasses, TypeOK, RemainingFits
  <2>4. CASE Tick
    <3>1. PICK reading \in Readings : Compare(reading)
      BY <2>4 DEF Tick
    <3>2. sinceAccess' = sinceAccess \/ sinceAccess' = 0
      BY <3>1, CompareFact
    <3>3. sinceAccess' \in Nat
      BY <3>1, CompareFact
    <3>4. CASE UNCHANGED <<sinceTick, remaining>>
      BY <2>4, <3>2, <3>4, TimeoutAssumption DEF Tick, TypeOK, RemainingFits
    <3>5. CASE remaining' = Left(sinceAccess') /\ sinceTick' = 0
      BY <2>4, <3>3, <3>5, SecondsFact, TimeoutAssumption
         DEF Tick, Left, RemainingFits
    <3> QED
      BY <2>4, <3>4, <3>5 DEF Tick
  <2>5. CASE UNCHANGED vars
    BY <2>5 DEF vars, RemainingFits
  <2> QED
    BY <2>1, <2>2, <2>3, <2>4, <2>5 DEF Next
<1> QED
  BY <1>1, <1>2, TypeCorrect, PTL DEF Spec

-----------------------------------------------------------------------------
(* Only Tick posts an unmount, and then the time since lastAccess is up.   *)
LEMMA UnmountFact ==
    ASSUME TypeOK, [Next]_vars, Unmounts
    PROVE  /\ state = "Active"
           /\ \E reading \in Readings :
                 Compare(reading) /\ misread' = (reading # "current")
           /\ sinceAccess' \in Nat
           /\ sinceAccess' >= Second * Timeout
           /\ UNCHANGED sinceUse
<1>1. Tick /\ posted'
  BY DEF Next, vars, Unmounts, TypeOK, EnterActive, LeaveActive, EnterReady,
         HostUses, TimePasses, Tick
<1>2. sinceAccess' \in Nat
  BY <1>1, CompareFact DEF Tick
<1>3. Seconds(sinceAccess') >= Timeout
  BY <1>1 DEF Tick, Unmounts
<1>4. sinceAccess' >= Second * Timeout
  BY <1>2, <1>3, SecondsFact, TimeoutAssumption
<1> QED
  BY <1>1, <1>2, <1>4 DEF Tick

(* No medium that the host has used within the time is unmounted, as long  *)
(* as the statistics can be read (active_state.hpp 35-42).                 *)
THEOREM OnlyIdle == Spec => OnlyIdleUnmounts
<1>1. TypeOK /\ AccessNoticed /\ [Next]_vars
      => [Unmounts /\ ~misread' => sinceUse >= Second * Timeout]_vars
  <2> SUFFICES ASSUME TypeOK, AccessNoticed, [Next]_vars, Unmounts, ~misread'
               PROVE  sinceUse >= Second * Timeout
    OBVIOUS
  <2>1. PICK reading \in Readings :
           Compare(reading) /\ misread' = (reading # "current")
    BY UnmountFact
  <2>2. sinceAccess' = 0 \/ (lastStats = "current" /\ sinceAccess' = sinceAccess)
    BY <2>1, CompareFact
  <2>3. sinceAccess' >= Second * Timeout /\ state = "Active"
    BY UnmountFact
  <2> QED
    BY <2>2, <2>3, TimeoutAssumption DEF TypeOK, AccessNoticed
<1> QED
  BY <1>1, TypeCorrect, NoticedAlways, PTL DEF Spec, OnlyIdleUnmounts

(* No unmount comes earlier than the remaining time that clients read, but *)
(* for the second that is rounded off (active_state.hpp 56).               *)
THEOREM KeepsRemaining == Spec => RemainingIsKept
<1>1. TypeOK /\ RemainingFits /\ [Next]_vars
      => [Unmounts => sinceTick > Second * (remaining - 1)]_vars
  <2> SUFFICES ASSUME TypeOK, RemainingFits, [Next]_vars, Unmounts
               PROVE  sinceTick > Second * (remaining - 1)
    OBVIOUS
  <2>1. PICK reading \in Readings : Compare(reading)
    BY UnmountFact
  <2>2. sinceAccess' = sinceAccess \/ sinceAccess' = 0
    BY <2>1, CompareFact
  <2>3. sinceAccess' >= Second * Timeout /\ state = "Active"
    BY UnmountFact
  <2> QED
    BY <2>2, <2>3, TimeoutAssumption DEF TypeOK, RemainingFits
<1> QED
  BY <1>1, TypeCorrect, FitsAlways, PTL DEF Spec, RemainingIsKept
=============================================================================

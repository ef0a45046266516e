------------------------- MODULE LocalServiceProofs -------------------------
(***************************************************************************)
(* Proofs about LocalService, for any number of slots, files and clients.  *)
(***************************************************************************)
EXTENDS LocalService, TLAPS

-----------------------------------------------------------------------------
(* Type correctness.                                                       *)

LEMMA AcceptTypes ==
    ASSUME TypeOK, NEW s, NEW url \in Urls \cup {None}, Accept(s, url)
    PROVE  /\ phase' \in [Slots -> {"idle", "mounting", "mounted", "unmounting"}]
           /\ target' \in [Slots -> Urls \cup {None}]
           /\ \A t \in Slots : phase'[t] = "idle" => target'[t] = None
BY DEF TypeOK, Accept

LEMMA StoreInfoTypes ==
    ASSUME TypeOK, NEW s, NEW i \in Infos, StoreInfo(s, i)
    PROVE  info' \in [Slots -> Infos \cup {LMEDIA, None}]
BY DEF TypeOK, StoreInfo

LEMMA MountTypes ==
    ASSUME TypeOK, NEW f \in LocalFiles, Mount(f)
    PROVE  TypeOK'
<1> DEFINE s == First(AvailableSlots)
<1> HIDE DEF s
<1>1. /\ info' = [info EXCEPT ![s] = LMEDIA]
      /\ asked' = [asked EXCEPT ![s] = LMEDIA]
      /\ Accept(s, f)
      /\ UNCHANGED <<waiting, files>>
  BY DEF Mount, s
<1>2. f \in Urls \cup {None}
  BY DEF Urls
<1> QED
  BY <1>1, <1>2, AcceptTypes DEF TypeOK

LEMMA SlotMountTypes ==
    ASSUME TypeOK, NEW s \in Slots, NEW url \in Urls \cup {None},
           NEW i \in Infos,
           StoreInfo(s, i),
           \/ Accept(s, url) /\ asked' = [asked EXCEPT ![s] = i]
           \/ UNCHANGED <<phase, target, asked>>,
           UNCHANGED <<waiting, files>>
    PROVE  TypeOK'
BY AcceptTypes, StoreInfoTypes DEF TypeOK

LEMMA ResumeTypes ==
    ASSUME TypeOK, NEW w \in waiting, LegacyMountResumes(w)
    PROVE  TypeOK'
<1>1. w.url \in Urls \cup {None}
  BY DEF TypeOK
<1>2. CASE Accept(w.slot, w.url) /\ asked' = [asked EXCEPT ![w.slot] = None]
  BY <1>1, <1>2, AcceptTypes DEF TypeOK, LegacyMountResumes
<1>3. CASE UNCHANGED <<phase, target, asked>>
  BY <1>3 DEF TypeOK, LegacyMountResumes
<1> QED
  BY <1>2, <1>3 DEF LegacyMountResumes

LEMMA LegacyUrlsAreUrls == LegacyUrls \subseteq Urls
BY DEF LegacyUrls, Urls

LEMMA InitTypes == Init => TypeOK
BY DEF Init, TypeOK

LEMMA StepTypes == TypeOK /\ [Next]_vars => TypeOK'
<1> SUFFICES ASSUME TypeOK, [Next]_vars
             PROVE  TypeOK'
  OBVIOUS
<1>1. ASSUME NEW f \in LocalFiles, Mount(f)
      PROVE  TypeOK'
  BY <1>1, MountTypes
<1>2. CASE Unmount
  BY <1>2 DEF TypeOK, Unmount
<1>3. ASSUME NEW s \in Slots, NEW i \in Infos, ProxyMount(s, i)
      PROVE  TypeOK'
  BY <1>3, SlotMountTypes DEF ProxyMount
<1>4. ASSUME NEW s \in Slots, NEW u \in LegacyUrls, NEW i \in Infos,
             LegacyMount(s, u, i)
      PROVE  TypeOK'
  <2>1. u \in Urls \cup {None}
    BY LegacyUrlsAreUrls
  <2> QED
    BY <1>4, <2>1, SlotMountTypes DEF LegacyMount
<1>5. ASSUME NEW s \in Slots, NEW u \in LegacyUrls, NEW i \in Infos,
             LegacyMountSuspends(s, u, i)
      PROVE  TypeOK'
  <2>1. [slot |-> s, url |-> u] \in [slot : Legacy, url : Urls]
    BY <1>5, LegacyUrlsAreUrls DEF LegacyMountSuspends
  <2> QED
    BY <1>5, <2>1, StoreInfoTypes DEF TypeOK, LegacyMountSuspends
<1>6. ASSUME NEW w \in waiting, LegacyMountResumes(w)
      PROVE  TypeOK'
  BY <1>6, ResumeTypes
<1>7. ASSUME NEW s \in Slots, SlotLeaves(s) \/ SlotSettles(s)
      PROVE  TypeOK'
  BY <1>7 DEF TypeOK, SlotLeaves, SlotSettles
<1>8. ASSUME NEW f \in LocalFiles, FileVanishes(f) \/ FileAppears(f)
      PROVE  TypeOK'
  BY <1>8 DEF TypeOK, FileVanishes, FileAppears
<1>9. CASE UNCHANGED vars
  BY <1>9 DEF TypeOK, vars
<1> QED
  BY <1>1, <1>2, <1>3, <1>4, <1>5, <1>6, <1>7, <1>8, <1>9 DEF Next

\* Every variable keeps its type, and a slot at rest has no target
\* (state_machine.hpp 172, ready_state.hpp 40).
THEOREM TypeCorrect == Spec => []TypeOK
<1> QED
  BY InitTypes, StepTypes, PTL DEF Spec

-----------------------------------------------------------------------------
(* InfoBelongs is inductive.                                               *)

LEMMA StepInfo == TypeOK /\ InfoBelongs /\ [Next]_vars => InfoBelongs'
<1> SUFFICES ASSUME TypeOK, InfoBelongs, [Next]_vars
             PROVE  InfoBelongs'
  OBVIOUS
<1>1. ASSUME NEW f \in LocalFiles, Mount(f)
      PROVE  InfoBelongs'
  <2> DEFINE s == First(AvailableSlots)
  <2> HIDE DEF s
  <2>1. /\ info' = [info EXCEPT ![s] = LMEDIA]
        /\ asked' = [asked EXCEPT ![s] = LMEDIA]
        /\ Accept(s, f)
    BY <1>1 DEF Mount, s
  <2> QED
    BY <2>1 DEF TypeOK, InfoBelongs, Accept
<1>2. CASE Unmount
  <2> DEFINE s == First(LocalSlots)
  <2> HIDE DEF s
  <2>1. /\ phase[s] = "mounted"
        /\ phase' = [phase EXCEPT ![s] = "unmounting"]
        /\ UNCHANGED <<info, asked>>
    BY <1>2 DEF Unmount, s
  <2> QED
    BY <2>1 DEF TypeOK, InfoBelongs
<1>3. ASSUME NEW s \in Slots, NEW i \in Infos,
             StoreInfo(s, i),
             \/ \E url : Accept(s, url) /\ asked' = [asked EXCEPT ![s] = i]
             \/ phase[s] # "idle" /\ UNCHANGED <<phase, asked>>
      PROVE  InfoBelongs'
  BY <1>3 DEF TypeOK, InfoBelongs, Accept, StoreInfo
<1>4. ASSUME NEW s \in Slots, NEW u \in LegacyUrls, NEW i \in Infos,
             LegacyMountSuspends(s, u, i)
      PROVE  InfoBelongs'
  BY <1>4 DEF TypeOK, InfoBelongs, LegacyMountSuspends, StoreInfo
<1>5. ASSUME NEW w \in waiting, LegacyMountResumes(w)
      PROVE  InfoBelongs'
  BY <1>5 DEF TypeOK, InfoBelongs, LegacyMountResumes, Accept
<1>6. ASSUME NEW s \in Slots, SlotLeaves(s) \/ SlotSettles(s)
      PROVE  InfoBelongs'
  BY <1>6 DEF TypeOK, InfoBelongs, SlotLeaves, SlotSettles
<1>7. CASE UNCHANGED <<phase, info, asked>>
  BY <1>7 DEF InfoBelongs
<1>8. ASSUME NEW s \in Slots, NEW i \in Infos, ProxyMount(s, i)
      PROVE  InfoBelongs'
  BY <1>3, <1>8 DEF ProxyMount
<1>9. ASSUME NEW s \in Slots, NEW u \in LegacyUrls, NEW i \in Infos,
             LegacyMount(s, u, i)
      PROVE  InfoBelongs'
  BY <1>3, <1>9 DEF LegacyMount
<1> QED
  BY <1>1, <1>2, <1>4, <1>5, <1>6, <1>7, <1>8, <1>9
     DEF Next, vars, FileVanishes, FileAppears

\* A mount runs with the additionalInfo of its own request, whatever was
\* refused meanwhile, unless it waited for a secret (initial_state.hpp 274).
THEOREM InfoIsOwn == Spec => []InfoBelongs
<1>1. Init => InfoBelongs
  BY DEF Init, InfoBelongs
<1> QED
  BY <1>1, TypeCorrect, StepInfo, PTL DEF Spec

-----------------------------------------------------------------------------
(* At most one slot has a local file that exists, as long as files do not  *)
(* reappear under a slot that names them and legacy slots get no local     *)
(* URLs: what the refinement of LocalDrive rests on.                       *)

\* Local targets come from the Local service only.
NotLocal(url) == url \notin LocalFiles

LegacyTargets ==
    \A w \in waiting : NotLocal(w.url)

AtMostOne ==
    \A s, t \in Slots : target[s] \in files /\ target[t] \in files => s = t

OneInv == TypeOK /\ LegacyTargets /\ AtMostOne

\* A target that is not local adds no local mount.
LEMMA AcceptAddsNone ==
    ASSUME TypeOK, AtMostOne, NEW s, NEW url, NotLocal(url), Accept(s, url),
           files' = files
    PROVE  AtMostOne'
BY DEF TypeOK, AtMostOne, Accept, NotLocal

LEMMA InitOne == Init => OneInv
BY InitTypes, UrlAssumption
   DEF Init, OneInv, LegacyTargets, AtMostOne, UrlAssumption

LEMMA StepOne ==
    ASSUME ~Reupload, ~LegacyLocal, OneInv, [Next]_vars
    PROVE  LegacyTargets' /\ AtMostOne'
<1> USE DEF OneInv
<1>1. NotLocal(None) /\ \A u \in LegacyUrls : NotLocal(u)
  BY UrlAssumption DEF UrlAssumption, LegacyUrls, NotLocal
<1>2. ASSUME NEW f \in LocalFiles, Mount(f)
      PROVE  LegacyTargets' /\ AtMostOne'
  <2> DEFINE s == First(AvailableSlots)
  <2> HIDE DEF s
  <2>1. Accept(s, f) /\ UNCHANGED <<waiting, files>>
    BY <1>2 DEF Mount, s
  <2>2. \A t \in Slots : target[t] \notin files
    BY <1>2 DEF Mount, LocalSlots
  <2> QED
    BY <2>1, <2>2 DEF TypeOK, LegacyTargets, AtMostOne, Accept
<1>3. CASE Unmount
  BY <1>3 DEF Unmount, LegacyTargets, AtMostOne
<1>4. ASSUME NEW s \in Slots, NEW i \in Infos, ProxyMount(s, i)
      PROVE  LegacyTargets' /\ AtMostOne'
  BY <1>1, <1>4, AcceptAddsNone DEF ProxyMount, LegacyTargets, AtMostOne
<1>5. ASSUME NEW s \in Slots, NEW u \in LegacyUrls, NEW i \in Infos,
             LegacyMount(s, u, i)
      PROVE  LegacyTargets' /\ AtMostOne'
  BY <1>1, <1>5, AcceptAddsNone DEF LegacyMount, LegacyTargets, AtMostOne
<1>6. ASSUME NEW s \in Slots, NEW u \in LegacyUrls, NEW i \in Infos,
             LegacyMountSuspends(s, u, i)
      PROVE  LegacyTargets' /\ AtMostOne'
  BY <1>1, <1>6 DEF LegacyMountSuspends, LegacyTargets, AtMostOne
<1>7. ASSUME NEW w \in waiting, LegacyMountResumes(w)
      PROVE  LegacyTargets' /\ AtMostOne'
  <2>1. NotLocal(w.url)
    BY <1>7 DEF LegacyTargets
  <2> QED
    BY <1>7, <2>1, AcceptAddsNone
       DEF LegacyMountResumes, LegacyTargets, AtMostOne
<1>8. ASSUME NEW s \in Slots, SlotLeaves(s) \/ SlotSettles(s)
      PROVE  LegacyTargets' /\ AtMostOne'
  BY <1>1, <1>8
     DEF SlotLeaves, SlotSettles, LegacyTargets, AtMostOne, TypeOK, NotLocal
<1>9. ASSUME NEW f \in LocalFiles, FileVanishes(f) \/ FileAppears(f)
      PROVE  LegacyTargets' /\ AtMostOne'
  BY <1>9 DEF FileVanishes, FileAppears, LegacyTargets, AtMostOne
<1>10. CASE UNCHANGED vars
  BY <1>10 DEF vars, LegacyTargets, AtMostOne
<1> QED
  BY <1>2, <1>3, <1>4, <1>5, <1>6, <1>7, <1>8, <1>9, <1>10 DEF Next

-----------------------------------------------------------------------------
(* The refinement of LocalDrive.                                           *)

\* GetCurrentMount without the choice of a first slot.
CurrentIsTheOne ==
    /\ LocalSlots = {} => GetCurrentMount = None
    /\ \A s \in Slots :
          target[s] \in files => GetCurrentMount = <<s, target[s]>>

LEMMA FirstOfOne ==
    ASSUME NEW s \in Slots
    PROVE  First({s}) = s
BY SlotsAssumption DEF First, Slots, SlotsAssumption

LEMMA TheOneIsCurrent == AtMostOne => CurrentIsTheOne
<1> SUFFICES ASSUME AtMostOne PROVE CurrentIsTheOne
  OBVIOUS
<1>1. LocalSlots = {} => GetCurrentMount = None
  BY DEF GetCurrentMount
<1>2. ASSUME NEW s \in Slots, target[s] \in files
      PROVE  GetCurrentMount = <<s, target[s]>>
  <2>1. LocalSlots = {s}
    BY <1>2 DEF LocalSlots, AtMostOne
  <2> QED
    BY <2>1, FirstOfOne DEF GetCurrentMount
<1> QED
  BY <1>1, <1>2 DEF CurrentIsTheOne

\* What clients see is the same when the local targets are.
LEMMA SameLocalTargets ==
    ASSUME files' = files,
           \A s \in Slots : target'[s] # target[s] =>
               target[s] \notin files /\ target'[s] \notin files,
           CurrentIsTheOne, CurrentIsTheOne'
    PROVE  UNCHANGED Drive!driveVars
<1>1. CASE LocalSlots = {}
  <2>1. LocalSlots' = {}
    BY <1>1 DEF LocalSlots
  <2> QED
    BY <1>1, <2>1 DEF CurrentIsTheOne, Drive!driveVars
<1>2. ASSUME NEW s \in Slots, target[s] \in files
      PROVE  UNCHANGED Drive!driveVars
  <2>1. target'[s] = target[s] /\ target'[s] \in files'
    BY <1>2
  <2> QED
    BY <1>2, <2>1 DEF CurrentIsTheOne, Drive!driveVars
<1> QED
  BY <1>1, <1>2 DEF LocalSlots

\* A request for anything but a local file leaves the drive alone.
LEMMA AcceptUnseen ==
    ASSUME TypeOK, NEW s, NEW url, NotLocal(url), Accept(s, url),
           files' = files, CurrentIsTheOne, CurrentIsTheOne'
    PROVE  UNCHANGED Drive!driveVars
<1>1. \A t \in Slots : target'[t] # target[t] =>
          target[t] \notin files /\ target'[t] \notin files
  BY UrlAssumption DEF TypeOK, Accept, NotLocal, UrlAssumption
<1> QED
  BY <1>1, SameLocalTargets

LEMMA MountInserts ==
    ASSUME TypeOK, NEW f \in LocalFiles, Mount(f),
           CurrentIsTheOne, CurrentIsTheOne'
    PROVE  Drive!Insert(f) \/ UNCHANGED Drive!driveVars
<1> DEFINE s == First(AvailableSlots)
<1> HIDE DEF s
<1>1. Accept(s, f) /\ f \in files /\ files' = files /\ LocalSlots = {}
  BY DEF Mount, s
<1>2. CASE UNCHANGED target
  BY <1>1, <1>2, SameLocalTargets
<1>3. CASE target' = [target EXCEPT ![s] = f]
  <2>1. CASE s \in Slots
    <3>1. target'[s] \in files'
      BY <1>1, <1>3, <2>1 DEF TypeOK
    <3>2. GetCurrentMount' = <<s, f>>
      BY <1>3, <2>1, <3>1 DEF TypeOK, CurrentIsTheOne
    <3> QED
      BY <1>1, <2>1, <3>2 DEF CurrentIsTheOne, Drive!Insert
  <2>2. CASE s \notin Slots
    BY <1>1, <1>3, <2>2, SameLocalTargets DEF TypeOK
  <2> QED
    BY <2>1, <2>2
<1> QED
  BY <1>1, <1>2, <1>3 DEF Accept

LEMMA SettlingEjects ==
    ASSUME TypeOK, NEW s \in Slots, SlotSettles(s),
           AtMostOne, CurrentIsTheOne, CurrentIsTheOne'
    PROVE  Drive!Eject \/ UNCHANGED Drive!driveVars
<1>1. files' = files
  BY DEF SlotSettles
<1>2. CASE UNCHANGED target \/ target[s] \notin files
  <2>1. \A t \in Slots : target'[t] # target[t] =>
            target[t] \notin files /\ target'[t] \notin files
    BY <1>2, UrlAssumption DEF SlotSettles, TypeOK, UrlAssumption
  <2> QED
    BY <1>1, <2>1, SameLocalTargets
<1>3. CASE target[s] \in files /\ target' = [target EXCEPT ![s] = None]
  <2>1. \A t \in Slots : target'[t] \notin files
    BY <1>3, UrlAssumption DEF TypeOK, AtMostOne, UrlAssumption
  <2>2. LocalSlots' = {}
    BY <1>1, <2>1 DEF LocalSlots
  <2> QED
    BY <1>1, <2>2 DEF CurrentIsTheOne, Drive!Eject
<1> QED
  BY <1>2, <1>3 DEF SlotSettles

LEMMA VanishingDeletes ==
    ASSUME NEW f \in LocalFiles, FileVanishes(f),
           AtMostOne, CurrentIsTheOne, CurrentIsTheOne'
    PROVE  Drive!Delete(f)
<1>1. files' = files \ {f} /\ target' = target
  BY DEF FileVanishes
<1>2. CASE LocalSlots = {}
  <2>1. LocalSlots' = {}
    BY <1>1, <1>2 DEF LocalSlots
  <2> QED
    BY <1>1, <1>2, <2>1 DEF CurrentIsTheOne, Drive!Delete
<1>3. ASSUME NEW s \in Slots, target[s] \in files
      PROVE  Drive!Delete(f)
  <2>1. GetCurrentMount = <<s, target[s]>>
    BY <1>3 DEF CurrentIsTheOne
  <2>2. CASE target[s] = f
    <3>1. LocalSlots' = {}
      BY <1>1, <1>3, <2>2 DEF LocalSlots, AtMostOne
    <3> QED
      BY <1>1, <2>1, <2>2, <3>1 DEF CurrentIsTheOne, Drive!Delete
  <2>3. CASE target[s] # f
    <3>1. GetCurrentMount' = GetCurrentMount
      BY <1>1, <1>3, <2>1, <2>3 DEF CurrentIsTheOne
    <3> QED
      BY <1>1, <2>1, <2>3, <3>1 DEF Drive!Delete
  <2> QED
    BY <2>2, <2>3
<1> QED
  BY <1>2, <1>3 DEF LocalSlots

LEMMA AppearingUploads ==
    ASSUME ~Reupload, NEW f \in LocalFiles, FileAppears(f),
           CurrentIsTheOne, CurrentIsTheOne'
    PROVE  Drive!Upload(f)
<1>1. /\ files' = files \cup {f} /\ target' = target
      /\ \A s \in Slots : target[s] # f
  BY DEF FileAppears
<1>2. CASE LocalSlots = {}
  <2>1. LocalSlots' = {}
    BY <1>1, <1>2 DEF LocalSlots
  <2> QED
    BY <1>1, <1>2, <2>1 DEF CurrentIsTheOne, Drive!Upload
<1>3. ASSUME NEW s \in Slots, target[s] \in files
      PROVE  Drive!Upload(f)
  BY <1>1, <1>3 DEF CurrentIsTheOne, Drive!Upload
<1> QED
  BY <1>2, <1>3 DEF LocalSlots

LEMMA DriveStep ==
    ASSUME ~Reupload, ~LegacyLocal, OneInv, OneInv', [Next]_vars
    PROVE  [Drive!Next]_(Drive!driveVars)
<1> USE DEF OneInv
<1>1. CurrentIsTheOne
  BY TheOneIsCurrent
<1>2. CurrentIsTheOne'
  BY TheOneIsCurrent, PTL
<1>3. NotLocal(None) /\ \A u \in LegacyUrls : NotLocal(u)
  BY UrlAssumption DEF UrlAssumption, LegacyUrls, NotLocal
<1>4. ASSUME UNCHANGED <<target, files>>
      PROVE  UNCHANGED Drive!driveVars
  BY <1>1, <1>2, <1>4, SameLocalTargets
<1>5. ASSUME NEW f \in LocalFiles, Mount(f)
      PROVE  [Drive!Next]_(Drive!driveVars)
  BY <1>1, <1>2, <1>5, MountInserts DEF Drive!Next
<1>6. CASE Unmount
  BY <1>4, <1>6 DEF Unmount
<1>7. ASSUME NEW s \in Slots, NEW i \in Infos, ProxyMount(s, i)
      PROVE  [Drive!Next]_(Drive!driveVars)
  BY <1>1, <1>2, <1>3, <1>4, <1>7, AcceptUnseen DEF ProxyMount
<1>8. ASSUME NEW s \in Slots, NEW u \in LegacyUrls, NEW i \in Infos,
             LegacyMount(s, u, i)
      PROVE  [Drive!Next]_(Drive!driveVars)
  BY <1>1, <1>2, <1>3, <1>4, <1>8, AcceptUnseen DEF LegacyMount
<1>9. ASSUME NEW s \in Slots, NEW u \in LegacyUrls, NEW i \in Infos,
             LegacyMountSuspends(s, u, i)
      PROVE  [Drive!Next]_(Drive!driveVars)
  BY <1>4, <1>9 DEF LegacyMountSuspends
<1>10. ASSUME NEW w \in waiting, LegacyMountResumes(w)
       PROVE  [Drive!Next]_(Drive!driveVars)
  <2>1. NotLocal(w.url)
    BY <1>10 DEF LegacyTargets
  <2> QED
    BY <1>1, <1>2, <1>4, <1>10, <2>1, AcceptUnseen DEF LegacyMountResumes
<1>11. ASSUME NEW s \in Slots, SlotLeaves(s) \/ SlotSettles(s)
       PROVE  [Drive!Next]_(Drive!driveVars)
  <2>1. CASE SlotLeaves(s)
    BY <1>4, <2>1 DEF SlotLeaves
  <2>2. CASE SlotSettles(s)
    BY <1>1, <1>2, <2>2, SettlingEjects DEF Drive!Next
  <2> QED
    BY <1>11, <2>1, <2>2
<1>12. ASSUME NEW f \in LocalFiles, FileVanishes(f) \/ FileAppears(f)
       PROVE  [Drive!Next]_(Drive!driveVars)
  BY <1>1, <1>2, <1>12, VanishingDeletes, AppearingUploads DEF Drive!Next
<1>13. CASE UNCHANGED vars
  BY <1>4, <1>13 DEF vars
<1> QED
  BY <1>5, <1>6, <1>7, <1>8, <1>9, <1>10, <1>11, <1>12, <1>13 DEF Next

\* Clients of GetCurrentMount see one drive, in which a medium is never
\* exchanged, moved or put back unasked (initial_state.hpp 409-577).
THEOREM ImplementsDrive == ~Reupload /\ ~LegacyLocal => (Spec => IsOneDrive)
<1> SUFFICES ASSUME ~Reupload, ~LegacyLocal
             PROVE  Spec => IsOneDrive
  OBVIOUS
<1>1. Init => OneInv
  BY InitOne
<1>2. OneInv /\ [Next]_vars => OneInv'
  BY StepTypes, StepOne DEF OneInv
<1>3. Init => Drive!Init
  BY UrlAssumption DEF Init, Drive!Init, GetCurrentMount, LocalSlots, UrlAssumption
<1>4. OneInv /\ OneInv' /\ [Next]_vars => [Drive!Next]_(Drive!driveVars)
  BY DriveStep
<1> QED
  BY <1>1, <1>2, <1>3, <1>4, PTL DEF Spec, IsOneDrive, Drive!Spec
=============================================================================

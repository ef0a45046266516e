-------------------------- MODULE UsbGadgetProofs --------------------------
(***************************************************************************)
(* Proofs about UsbGadget, for any slots, ports and sessions, on either    *)
(* hub, with and without failing calls.                                    *)
(***************************************************************************)
EXTENDS UsbGadget, SequenceTheorems, TLAPS

USE BoundsAssumption, GadgetNoneAssumption, GadgetLegacyAssumption
DEF BoundsAssumption, GadgetNoneAssumption, GadgetLegacyAssumption

-----------------------------------------------------------------------------
(* Types, part by part of configure().                                     *)

SlotsTypeOK ==
    /\ mounted \in [Slots -> BOOLEAN]
    /\ gadget \in [Slots -> {"none", "empty", "loaded"}]
    /\ port \in [Slots -> Ports \cup {None}]

SessionsTypeOK ==
    /\ activeSessons \in [Slots -> Ids \cup {None}]
    /\ registry \subseteq Ids
    /\ signals \in Seq(SUBSET Ids) /\ Len(signals) <= MaxSignals

ChildrenTypeOK ==
    /\ children \in [Slots -> 0..MaxChildren]
    /\ calls \in [Slots -> 0..MaxCalls]

LEMMA TypeParts == TypeOK <=> SlotsTypeOK /\ SessionsTypeOK /\ ChildrenTypeOK
BY DEF TypeOK, SlotsTypeOK, SessionsTypeOK, ChildrenTypeOK

LEMMA TypePartsNext ==
    ASSUME SlotsTypeOK', SessionsTypeOK', ChildrenTypeOK'
    PROVE  TypeOK'
BY DEF TypeOK, SlotsTypeOK, SessionsTypeOK, ChildrenTypeOK

LEMMA AnnounceTypes ==
    ASSUME SessionsTypeOK, NEW lists \in Seq(SUBSET Ids), Announce(lists)
    PROVE  signals' \in Seq(SUBSET Ids) /\ Len(signals') <= MaxSignals
<1>1. Len(signals \o lists) = Len(signals) + Len(lists)
  BY DEF SessionsTypeOK
<1> QED
  BY <1>1 DEF SessionsTypeOK, Announce

LEMMA AnnounceOne ==
    ASSUME SessionsTypeOK, NEW ids \in SUBSET Ids, Announce(<<ids>>)
    PROVE  signals' \in Seq(SUBSET Ids) /\ Len(signals') <= MaxSignals
<1>1. <<ids>> \in Seq(SUBSET Ids)
  OBVIOUS
<1> QED
  BY <1>1, AnnounceTypes

LEMMA AnnounceTwo ==
    ASSUME SessionsTypeOK, NEW ids \in SUBSET Ids, NEW others \in SUBSET Ids,
           Announce(<<ids, others>>)
    PROVE  signals' \in Seq(SUBSET Ids) /\ Len(signals') <= MaxSignals
<1>1. <<ids, others>> \in Seq(SUBSET Ids)
  OBVIOUS
<1> QED
  BY <1>1, AnnounceTypes

LEMMA ChildrenLookTypes ==
    ASSUME ChildrenTypeOK, NEW s \in Slots, NEW born \in {0, 1},
           NEW taken \in {0, 1}, taken = 0 \/ calls[s] > 0,
           ChildrenLook(s, born, taken)
    PROVE  ChildrenTypeOK'
<1>1. PICK k \in 0..children[s] :
        /\ children[s] + born - k <= MaxChildren
        /\ calls[s] + k - taken <= MaxCalls
        /\ children' = [children EXCEPT ![s] = children[s] + born - k]
        /\ calls' = [calls EXCEPT ![s] = calls[s] + k - taken]
  BY DEF ChildrenLook
<1>2. children[s] \in 0..MaxChildren /\ calls[s] \in 0..MaxCalls
  BY DEF ChildrenTypeOK
<1>3. /\ children[s] + born - k \in 0..MaxChildren
      /\ calls[s] + k - taken \in 0..MaxCalls
  BY <1>1, <1>2
<1> QED
  BY <1>1, <1>3 DEF ChildrenTypeOK

LEMMA RemoveGadgetTypes ==
    ASSUME SlotsTypeOK, NEW s \in Slots,
           NEW file \in {"none", "empty", "loaded"},
           RemoveGadget(s, file), mounted' \in [Slots -> BOOLEAN]
    PROVE  SlotsTypeOK'
BY DEF SlotsTypeOK, RemoveGadget, Leftovers

\* Whatever is left of the gadget, it is unbound, and others are not touched.
LEMMA RemoveGadgetUnbinds ==
    ASSUME TypeOK, NEW s \in Slots, NEW file, RemoveGadget(s, file)
    PROVE  /\ port'[s] = None
           /\ \A t \in Slots \ {s} : gadget'[t] = gadget[t] /\ port'[t] = port[t]
BY DEF TypeOK, RemoveGadget

LEMMA RegisterSessionTypes ==
    ASSUME SessionsTypeOK, NEW s \in Slots, RegisterSession(s)
    PROVE  SessionsTypeOK'
<1>1. ASSUME NEW id \in Ids \ registry,
             registry' = registry \cup {id},
             Announce(<<registry \cup {id}>>),
             Record(s, id)
      PROVE  SessionsTypeOK'
  <2>1. registry \cup {id} \in SUBSET Ids
    BY DEF SessionsTypeOK
  <2>2. signals' \in Seq(SUBSET Ids) /\ Len(signals') <= MaxSignals
    BY <1>1, <2>1, AnnounceOne
  <2> QED
    BY <1>1, <2>1, <2>2 DEF SessionsTypeOK, Record
<1>2. ASSUME NEW id \in Ids \ registry, NEW other \in Ids \ (registry \cup {id}),
             registry' = registry \cup {id, other},
             Announce(<<registry \cup {id}, registry \cup {id, other}>>),
             Record(s, other)
      PROVE  SessionsTypeOK'
  <2>1. /\ registry \cup {id} \in SUBSET Ids
        /\ registry \cup {id, other} \in SUBSET Ids
    BY DEF SessionsTypeOK
  <2>2. signals' \in Seq(SUBSET Ids) /\ Len(signals') <= MaxSignals
    BY <1>2, <2>1, AnnounceTwo
  <2> QED
    BY <1>2, <2>1, <2>2 DEF SessionsTypeOK, Record
<1>3. CASE UNCHANGED <<registry, signals, activeSessons>>
  BY <1>3 DEF SessionsTypeOK
<1> QED
  BY <1>1, <1>2, <1>3 DEF RegisterSession

LEMMA UnregisterSessionTypes ==
    ASSUME SessionsTypeOK, NEW s \in Slots, UnregisterSession(s)
    PROVE  SessionsTypeOK'
<1>1. registry' \in SUBSET Ids
  BY DEF UnregisterSession, SessionsTypeOK
<1>2. signals' \in Seq(SUBSET Ids) /\ Len(signals') <= MaxSignals
  BY <1>1, AnnounceOne DEF UnregisterSession, SessionsTypeOK
<1> QED
  BY <1>1, <1>2 DEF UnregisterSession, SessionsTypeOK

LEMMA TerminateTypes ==
    ASSUME TypeOK, NEW s \in Slots, NEW left \in {"none", "empty", "loaded"},
           Terminate(s, left), registry' \subseteq Ids
    PROVE  TypeOK'
<1>1. <<>> \in Seq(SUBSET Ids) /\ Len(<<>>) = 0
  OBVIOUS
<1>2. SessionsTypeOK'
  BY <1>1 DEF SessionsTypeOK, Terminate
<1>3. SlotsTypeOK' /\ ChildrenTypeOK'
  BY DEF TypeOK, SlotsTypeOK, ChildrenTypeOK, Terminate
<1> QED
  BY <1>2, <1>3, TypePartsNext

LEMMA ReleaseTypes ==
    ASSUME TypeOK, NEW s \in Slots, Release(s)
    PROVE  SlotsTypeOK' /\ SessionsTypeOK'
<1>1. SlotsTypeOK /\ SessionsTypeOK
  BY TypeParts
<1>2. mounted' \in [Slots -> BOOLEAN]
  BY <1>1 DEF Release, SlotsTypeOK
<1>3. SlotsTypeOK'
  BY <1>1, <1>2, RemoveGadgetTypes DEF Release, SlotsTypeOK
<1>4. SessionsTypeOK'
  BY <1>1, UnregisterSessionTypes DEF Release
<1> QED
  BY <1>3, <1>4

LEMMA ReleaseThrowsTypes ==
    ASSUME TypeOK, NEW s \in Slots, ReleaseThrows(s)
    PROVE  TypeOK'
<1>1. gadget[s] \in {"none", "empty", "loaded"} /\ registry' \subseteq Ids
  BY DEF TypeOK, ReleaseThrows
<1> QED
  BY <1>1, TerminateTypes DEF ReleaseThrows

-----------------------------------------------------------------------------
(* Type correctness.                                                       *)

LEMMA InitTypes == Init => TypeOK
<1>1. <<>> \in Seq(SUBSET Ids) /\ Len(<<>>) = 0
  OBVIOUS
<1> QED
  BY <1>1 DEF Init, TypeOK

LEMMA ConfigureTypes ==
    ASSUME TypeOK, NEW s \in Slots,
           \/ ConfigureFails(s) \/ ConfigureLosesSession(s)
           \/ ConfigureBinds(s) \/ ConfigureUndone(s) \/ ConfigureThrows(s)
    PROVE  TypeOK'
<1>1. SlotsTypeOK /\ SessionsTypeOK /\ ChildrenTypeOK
  BY TypeParts
<1>2. CASE ConfigureFails(s)
  <2>1. SlotsTypeOK'
    BY <1>1, <1>2, RemoveGadgetTypes DEF ConfigureFails, SlotsTypeOK
  <2>2. ChildrenTypeOK'
    BY <1>1, <1>2, ChildrenLookTypes DEF ConfigureFails
  <2>3. SessionsTypeOK'
    BY <1>1, <1>2 DEF ConfigureFails, SessionsTypeOK
  <2> QED
    BY <2>1, <2>2, <2>3, TypePartsNext
<1>3. CASE ConfigureLosesSession(s)
  <2>1. SlotsTypeOK'
    BY <1>1, <1>3, RemoveGadgetTypes DEF ConfigureLosesSession, SlotsTypeOK
  <2>2. ChildrenTypeOK'
    BY <1>1, <1>3, ChildrenLookTypes DEF ConfigureLosesSession
  <2>3. PICK id \in Ids \ registry :
          registry' = registry \cup {id} /\ Announce(<<registry \cup {id}>>)
    BY <1>3 DEF ConfigureLosesSession
  <2>4. registry \cup {id} \in SUBSET Ids
    BY <1>1 DEF SessionsTypeOK
  <2>5. signals' \in Seq(SUBSET Ids) /\ Len(signals') <= MaxSignals
    BY <1>1, <2>3, <2>4, AnnounceOne
  <2>6. SessionsTypeOK'
    BY <1>1, <1>3, <2>3, <2>4, <2>5 DEF ConfigureLosesSession, SessionsTypeOK
  <2> QED
    BY <2>1, <2>2, <2>6, TypePartsNext
<1>4. CASE ConfigureBinds(s)
  <2>1. port' \in [Slots -> Ports \cup {None}]
    BY <1>1, <1>4 DEF ConfigureBinds, BindPort, FreePorts, SlotsTypeOK
  <2>2. SlotsTypeOK'
    BY <1>1, <1>4, <2>1 DEF ConfigureBinds, SlotsTypeOK
  <2>3. ChildrenTypeOK'
    BY <1>1, <1>4, ChildrenLookTypes DEF ConfigureBinds
  <2>4. SessionsTypeOK'
    BY <1>1, <1>4, RegisterSessionTypes DEF ConfigureBinds
  <2> QED
    BY <2>2, <2>3, <2>4, TypePartsNext
<1>5. CASE ConfigureUndone(s)
  <2>1. SlotsTypeOK'
    <3>1. mounted' \in [Slots -> BOOLEAN]
      BY <1>1, <1>5 DEF ConfigureUndone, SlotsTypeOK
    <3> QED
      BY <1>1, <1>5, <3>1, RemoveGadgetTypes DEF ConfigureUndone
  <2>2. ChildrenTypeOK'
    BY <1>1, <1>5, ChildrenLookTypes DEF ConfigureUndone
  <2>3. signals' \in Seq(SUBSET Ids) /\ Len(signals') <= MaxSignals
    <3>1. ASSUME NEW id \in Ids \ registry,
                 Announce(<<registry \cup {id}, registry>>)
          PROVE  signals' \in Seq(SUBSET Ids) /\ Len(signals') <= MaxSignals
      <4>1. registry \cup {id} \in SUBSET Ids /\ registry \in SUBSET Ids
        BY <1>1 DEF SessionsTypeOK
      <4> QED
        BY <1>1, <3>1, <4>1, AnnounceTwo
    <3>2. CASE UNCHANGED signals
      BY <1>1, <3>2 DEF SessionsTypeOK
    <3> QED
      BY <1>5, <3>1, <3>2 DEF ConfigureUndone
  <2>4. SessionsTypeOK'
    BY <1>1, <1>5, <2>3 DEF ConfigureUndone, SessionsTypeOK
  <2> QED
    BY <2>1, <2>2, <2>4, TypePartsNext
<1>6. CASE ConfigureThrows(s)
  <2>1. registry' \subseteq Ids
    BY <1>1, <1>6 DEF ConfigureThrows, SessionsTypeOK
  <2> QED
    BY <1>6, <2>1, TerminateTypes DEF ConfigureThrows
<1> QED
  BY <1>2, <1>3, <1>4, <1>5, <1>6

LEMMA UnmountTypes ==
    ASSUME TypeOK, NEW s \in Slots, SlotLeaves(s) \/ UnmountArrives(s)
    PROVE  TypeOK'
<1>1. ChildrenTypeOK
  BY TypeParts
<1>2. CASE ReleaseThrows(s)
  BY <1>2, ReleaseThrowsTypes
<1>3. CASE Release(s) /\ ChildrenLook(s, 0, 0)
  BY <1>1, <1>3, ReleaseTypes, ChildrenLookTypes, TypePartsNext
<1>4. CASE Release(s) /\ ChildrenLook(s, 0, 1) /\ calls[s] > 0
  BY <1>1, <1>4, ReleaseTypes, ChildrenLookTypes, TypePartsNext
<1>5. CASE /\ calls[s] > 0
           /\ calls' = [calls EXCEPT ![s] = @ - 1]
           /\ UNCHANGED <<mounted, gadget, port, activeSessons, registry,
                          signals, children>>
  BY <1>5 DEF TypeOK
<1> QED
  BY <1>2, <1>3, <1>4, <1>5 DEF SlotLeaves, UnmountArrives

LEMMA BesideTypes ==
    ASSUME TypeOK
    PROVE  /\ \A s \in Slots : EjectChild(s) \/ HostEjects(s) => TypeOK'
           /\ SessionManager \/ HandleSessions => TypeOK'
<1>1. ASSUME NEW s \in Slots, EjectChild(s)
      PROVE  TypeOK'
  <2>1. children[s] - 1 \in 0..MaxChildren
    BY <1>1 DEF TypeOK, EjectChild
  <2>2. calls[s] < MaxCalls => calls[s] + 1 \in 0..MaxCalls
    BY DEF TypeOK
  <2>3. calls' \in [Slots -> 0..MaxCalls]
    BY <1>1, <2>2 DEF TypeOK, EjectChild
  <2> QED
    BY <1>1, <2>1, <2>3 DEF TypeOK, EjectChild
<1>2. ASSUME NEW s \in Slots, HostEjects(s)
      PROVE  TypeOK'
  BY <1>2 DEF TypeOK, HostEjects
<1>3. CASE SessionManager
  <2>1. registry' \in SUBSET Ids
    BY <1>3 DEF TypeOK, SessionManager
  <2>2. signals' \in Seq(SUBSET Ids) /\ Len(signals') <= MaxSignals
    BY <1>3, <2>1, AnnounceOne, TypeParts DEF SessionManager
  <2> QED
    BY <1>3, <2>1, <2>2 DEF TypeOK, SessionManager
<1>4. CASE HandleSessions
  <2>1. signals' \in Seq(SUBSET Ids) /\ Len(signals') <= MaxSignals
    BY <1>4, HeadTailProperties DEF TypeOK, HandleSessions
  <2>2. calls' \in [Slots -> 0..MaxCalls]
    BY <1>4 DEF TypeOK, HandleSessions
  <2>3. activeSessons' \in [Slots -> Ids \cup {None}]
    BY <1>4 DEF TypeOK, HandleSessions
  <2> QED
    BY <1>4, <2>1, <2>2, <2>3 DEF TypeOK, HandleSessions
<1> QED
  BY <1>1, <1>2, <1>3, <1>4

LEMMA StepTypes == TypeOK /\ [Next]_vars => TypeOK'
<1>1. ASSUME TypeOK, UNCHANGED vars
      PROVE  TypeOK'
  BY <1>1 DEF TypeOK, vars
<1> QED
  BY <1>1, ConfigureTypes, UnmountTypes, BesideTypes DEF Next

\* Every variable keeps its type: in particular a slot's session is one that
\* the session manager listed (system.hpp 1587-1616).
THEOREM TypeCorrect == Spec => []TypeOK
<1> QED
  BY InitTypes, StepTypes, PTL DEF Spec

-----------------------------------------------------------------------------
(* Nothing is held by a slot that is not mounted.                          *)

\* After an exception out of ~Gadget the next start unbinds what legacy slots
\* left.
LEMMA TerminateHolds ==
    ASSUME TypeOK, HeldOnlyWhileMounted, NEW s \in Slots, NEW left,
           Terminate(s, left)
    PROVE  HeldOnlyWhileMounted'
BY DEF TypeOK, HeldOnlyWhileMounted, Terminate

LEMMA ReleaseHolds ==
    ASSUME TypeOK, HeldOnlyWhileMounted, NEW s \in Slots, Release(s)
    PROVE  HeldOnlyWhileMounted'
BY RemoveGadgetUnbinds
   DEF TypeOK, HeldOnlyWhileMounted, Release, UnregisterSession

\* configure() leaves the slot with all of it, or with nothing.
LEMMA ConfigureHolds ==
    ASSUME TypeOK, HeldOnlyWhileMounted, NEW s \in Slots,
           \/ ConfigureFails(s) \/ ConfigureLosesSession(s)
           \/ ConfigureBinds(s) \/ ConfigureUndone(s) \/ ConfigureThrows(s)
    PROVE  HeldOnlyWhileMounted'
<1>1. CASE \/ ConfigureFails(s) \/ ConfigureLosesSession(s)
           \/ ConfigureUndone(s)
  <2>1. /\ port'[s] = None
        /\ \A t \in Slots \ {s} : gadget'[t] = gadget[t] /\ port'[t] = port[t]
    BY <1>1, RemoveGadgetUnbinds
       DEF ConfigureFails, ConfigureLosesSession, ConfigureUndone
  <2>2. /\ UNCHANGED activeSessons /\ ~mounted[s]
        /\ \A t \in Slots \ {s} : mounted'[t] = mounted[t]
    BY <1>1 DEF ConfigureFails, ConfigureLosesSession, ConfigureUndone, TypeOK
  <2> QED
    BY <2>1, <2>2 DEF HeldOnlyWhileMounted
<1>2. CASE ConfigureBinds(s)
  <2>1. \A t \in Slots \ {s} : activeSessons'[t] = activeSessons[t]
    BY <1>2 DEF ConfigureBinds, RegisterSession, Record, TypeOK
  <2>2. \A t \in Slots \ {s} : port'[t] = port[t]
    BY <1>2 DEF ConfigureBinds, BindPort, TypeOK
  <2> QED
    BY <1>2, <2>1, <2>2 DEF TypeOK, HeldOnlyWhileMounted, ConfigureBinds
<1>3. CASE ConfigureThrows(s)
  BY <1>3, TerminateHolds DEF ConfigureThrows
<1> QED
  BY <1>1, <1>2, <1>3

LEMMA StepHolds ==
    TypeOK /\ HeldOnlyWhileMounted /\ [Next]_vars => HeldOnlyWhileMounted'
<1> SUFFICES ASSUME TypeOK, HeldOnlyWhileMounted, [Next]_vars
             PROVE  HeldOnlyWhileMounted'
  OBVIOUS
<1>1. ASSUME NEW s \in Slots, SlotLeaves(s) \/ UnmountArrives(s)
      PROVE  HeldOnlyWhileMounted'
  <2>1. CASE Release(s)
    BY <2>1, ReleaseHolds
  <2>2. CASE ReleaseThrows(s)
    BY <2>2, TerminateHolds DEF ReleaseThrows
  <2>3. CASE UNCHANGED <<mounted, gadget, port, activeSessons>>
    BY <2>3 DEF HeldOnlyWhileMounted
  <2> QED
    BY <1>1, <2>1, <2>2, <2>3 DEF SlotLeaves, UnmountArrives
<1>2. ASSUME NEW s \in Slots, HostEjects(s)
      PROVE  HeldOnlyWhileMounted'
  BY <1>2 DEF TypeOK, HeldOnlyWhileMounted, HostEjects
<1>3. CASE HandleSessions
  BY <1>3 DEF TypeOK, HeldOnlyWhileMounted, HandleSessions
<1>4. CASE UNCHANGED <<mounted, gadget, port, activeSessons>>
  BY <1>4 DEF HeldOnlyWhileMounted
<1> QED
  BY <1>1, <1>2, <1>3, <1>4, ConfigureHolds
     DEF Next, vars, EjectChild, SessionManager

\* Every way out of configure() and ~Gadget gives back the session and the
\* port, also when a directory cannot be removed (system.hpp 1839-1920).
THEOREM NothingHeld == Spec => []HeldOnlyWhileMounted
<1>1. Init => HeldOnlyWhileMounted
  BY DEF Init, HeldOnlyWhileMounted
<1> QED
  BY <1>1, TypeCorrect, StepHolds, PTL DEF Spec

-----------------------------------------------------------------------------
(* A medium that can be ejected is watched.                                *)

\* A child that ends here has called Unmount: children and calls of a slot
\* are not both gone unless the slot is.
Watched(s) == children[s] > 0 \/ calls[s] > 0

LEMMA LookKeepsWatch ==
    ASSUME ChildrenTypeOK, NEW s \in Slots, NEW born \in {0, 1},
           NEW taken \in {0, 1}, ChildrenLook(s, born, taken)
    PROVE  /\ \A t \in Slots \ {s} : children'[t] = children[t]
                                     /\ calls'[t] = calls[t]
           /\ born = 1 /\ taken = 0 => Watched(s)'
<1>1. PICK k \in 0..children[s] :
        /\ children' = [children EXCEPT ![s] = children[s] + born - k]
        /\ calls' = [calls EXCEPT ![s] = calls[s] + k - taken]
  BY DEF ChildrenLook
<1>2. children[s] \in Nat /\ calls[s] \in Nat
  BY DEF ChildrenTypeOK
<1>3. \A t \in Slots \ {s} : children'[t] = children[t] /\ calls'[t] = calls[t]
  BY <1>1 DEF ChildrenTypeOK
<1>4. /\ children'[s] = children[s] + born - k
      /\ calls'[s] = calls[s] + k - taken
  BY <1>1 DEF ChildrenTypeOK
<1>5. born = 1 /\ taken = 0 => children'[s] > 0 \/ calls'[s] > 0
  BY <1>2, <1>4
<1> QED
  BY <1>3, <1>5 DEF Watched

LEMMA StepWatched == TypeOK /\ EjectIsWatched /\ [Next]_vars => EjectIsWatched'
<1> SUFFICES ASSUME TypeOK, EjectIsWatched, [Next]_vars,
                    NEW t \in Slots, mounted'[t], gadget'[t] # "none"
             PROVE  Watched(t)'
  BY DEF EjectIsWatched, Watched
<1>0. ChildrenTypeOK /\ (mounted[t] /\ gadget[t] # "none" => Watched(t))
  BY TypeParts DEF EjectIsWatched, Watched
<1>1. ASSUME NEW s \in Slots,
             ConfigureFails(s) \/ ConfigureLosesSession(s)
      PROVE  Watched(t)'
  <2>1. t # s /\ mounted[t] /\ gadget[t] # "none"
    BY <1>1, RemoveGadgetUnbinds
       DEF ConfigureFails, ConfigureLosesSession
  <2> QED
    BY <1>0, <1>1, <2>1, LookKeepsWatch
       DEF ConfigureFails, ConfigureLosesSession, Watched
<1>2. ASSUME NEW s \in Slots, ConfigureBinds(s) \/ ConfigureUndone(s)
      PROVE  Watched(t)'
  <2>1. CASE t = s
    BY <1>0, <1>2, <2>1, LookKeepsWatch DEF ConfigureBinds, ConfigureUndone
  <2>2. CASE t # s
    <3>1. mounted[t] /\ gadget[t] # "none"
      BY <1>2, <2>2, RemoveGadgetUnbinds
         DEF ConfigureBinds, ConfigureUndone, TypeOK
    <3> QED
      BY <1>0, <1>2, <2>2, <3>1, LookKeepsWatch
         DEF ConfigureBinds, ConfigureUndone, Watched
  <2> QED
    BY <2>1, <2>2
<1>3. ASSUME NEW s \in Slots, NEW left, Terminate(s, left)
      PROVE  FALSE
  BY <1>3 DEF Terminate
<1>4. ASSUME NEW s \in Slots, NEW taken \in {0, 1},
             Release(s), ChildrenLook(s, 0, taken)
      PROVE  Watched(t)'
  <2>1. t # s /\ mounted[t] /\ gadget[t] # "none"
    BY <1>4, RemoveGadgetUnbinds DEF Release, TypeOK
  <2> QED
    BY <1>0, <1>4, <2>1, LookKeepsWatch DEF Watched
<1>5. ASSUME NEW s \in Slots, SlotLeaves(s)
      PROVE  Watched(t)'
  BY <1>3, <1>4, <1>5 DEF SlotLeaves, ReleaseThrows
<1>6. ASSUME NEW s \in Slots, UnmountArrives(s)
      PROVE  Watched(t)'
  <2>1. CASE /\ ~mounted[s]
             /\ calls' = [calls EXCEPT ![s] = @ - 1]
             /\ UNCHANGED <<mounted, gadget, port, activeSessons, registry,
                            signals, children>>
    BY <1>0, <2>1 DEF TypeOK, Watched
  <2> QED
    BY <1>3, <1>4, <1>6, <2>1 DEF UnmountArrives, ReleaseThrows
<1>7. ASSUME NEW s \in Slots, EjectChild(s)
      PROVE  Watched(t)'
  BY <1>0, <1>7 DEF EjectChild, TypeOK, Watched
<1>8. ASSUME NEW s \in Slots, HostEjects(s)
      PROVE  Watched(t)'
  BY <1>0, <1>8 DEF HostEjects, TypeOK, Watched
<1>9. CASE HandleSessions
  BY <1>0, <1>9 DEF HandleSessions, TypeOK, Watched
<1>10. CASE UNCHANGED <<mounted, gadget, children, calls>>
  BY <1>0, <1>10 DEF Watched
<1> QED
  BY <1>1, <1>2, <1>3, <1>5, <1>6, <1>7, <1>8, <1>9, <1>10
     DEF Next, vars, SessionManager, ConfigureThrows

\* A gadget that the host can eject has a polling child, or an Unmount is on
\* its way, whatever children of earlier mounts did (system.hpp 1646-1688).
THEOREM EjectsAreWatched == Spec => []EjectIsWatched
<1>1. Init => EjectIsWatched
  BY DEF Init, EjectIsWatched
<1> QED
  BY <1>1, TypeCorrect, StepWatched, PTL DEF Spec

-----------------------------------------------------------------------------
(* A revoked session is announced.                                         *)

\* The list that waits last is the list as it is; when none waits, every
\* recorded session is in it.
SignalsAreCurrent ==
    /\ signals # <<>> => signals[Len(signals)] = registry
    /\ signals = <<>> =>
          \A s \in Slots : activeSessons[s] \in registry \cup {None}

LEMMA AnnouncedLast ==
    ASSUME SessionsTypeOK, NEW lists \in Seq(SUBSET Ids), lists # <<>>,
           Announce(lists), lists[Len(lists)] = registry'
    PROVE  SignalsAreCurrent'
<1>1. /\ signals' = signals \o lists
      /\ signals \in Seq(SUBSET Ids)
  BY DEF Announce, SessionsTypeOK
<1>2. Len(lists) \in Nat \ {0}
  BY EmptySeq, LenProperties
<1>3. Len(signals') = Len(signals) + Len(lists)
  BY <1>1
<1>4. signals'[Len(signals')] = lists[Len(lists)]
  BY <1>1, <1>2, <1>3
<1>5. signals' # <<>>
  BY <1>1, <1>2, <1>3
<1> QED
  BY <1>4, <1>5 DEF SignalsAreCurrent

LEMMA AnnouncedOne ==
    ASSUME SessionsTypeOK, registry' \in SUBSET Ids, Announce(<<registry'>>)
    PROVE  SignalsAreCurrent'
<1>1. /\ <<registry'>> \in Seq(SUBSET Ids)
      /\ <<registry'>> # <<>>
      /\ Len(<<registry'>>) = 1
      /\ <<registry'>>[1] = registry'
  OBVIOUS
<1> QED
  BY <1>1, AnnouncedLast

LEMMA AnnouncedTwo ==
    ASSUME SessionsTypeOK, registry' \in SUBSET Ids, NEW ids \in SUBSET Ids,
           Announce(<<ids, registry'>>)
    PROVE  SignalsAreCurrent'
<1>1. /\ <<ids, registry'>> \in Seq(SUBSET Ids)
      /\ <<ids, registry'>> # <<>>
      /\ Len(<<ids, registry'>>) = 2
      /\ <<ids, registry'>>[2] = registry'
  OBVIOUS
<1> QED
  BY <1>1, AnnouncedLast

\* Neither the list nor a record of it changes, but for records given up.
LEMMA NothingAnnounced ==
    ASSUME SignalsAreCurrent, UNCHANGED <<registry, signals>>,
           \A s \in Slots : activeSessons'[s] \in {activeSessons[s], None}
    PROVE  SignalsAreCurrent'
BY DEF SignalsAreCurrent

LEMMA TerminateAnnounces ==
    ASSUME NEW s, NEW left, Terminate(s, left)
    PROVE  SignalsAreCurrent'
BY DEF Terminate, SignalsAreCurrent

LEMMA RegisterAnnounces ==
    ASSUME SessionsTypeOK, SignalsAreCurrent, NEW s \in Slots,
           RegisterSession(s)
    PROVE  SignalsAreCurrent'
<1>1. registry' \in SUBSET Ids
  BY RegisterSessionTypes DEF SessionsTypeOK
<1>2. ASSUME NEW id \in Ids \ registry,
             registry' = registry \cup {id},
             Announce(<<registry \cup {id}>>)
      PROVE  SignalsAreCurrent'
  BY <1>1, <1>2, AnnouncedOne
<1>3. ASSUME NEW id \in Ids \ registry, NEW other \in Ids,
             registry' = registry \cup {id, other},
             Announce(<<registry \cup {id}, registry \cup {id, other}>>)
      PROVE  SignalsAreCurrent'
  <2>1. registry \cup {id} \in SUBSET Ids
    BY DEF SessionsTypeOK
  <2> QED
    BY <1>1, <1>3, <2>1, AnnouncedTwo
<1>4. CASE UNCHANGED <<registry, signals, activeSessons>>
  BY <1>4, NothingAnnounced
<1> QED
  BY <1>2, <1>3, <1>4 DEF RegisterSession

LEMMA ReleaseAnnounces ==
    ASSUME SessionsTypeOK, SignalsAreCurrent, NEW s \in Slots, Release(s)
    PROVE  SignalsAreCurrent'
<1>1. UnregisterSession(s)
  BY DEF Release
<1>2. CASE activeSessons[s] \in registry
  <2>1. Announce(<<registry'>>)
    BY <1>1, <1>2 DEF UnregisterSession
  <2>2. registry' \in SUBSET Ids
    BY <1>1 DEF UnregisterSession, SessionsTypeOK
  <2> QED
    BY <2>1, <2>2, AnnouncedOne
<1>3. CASE activeSessons[s] \notin registry
  <2>1. UNCHANGED <<registry, signals>>
    BY <1>1, <1>3 DEF UnregisterSession
  <2>2. \A t \in Slots : activeSessons'[t] \in {activeSessons[t], None}
    BY <1>1 DEF UnregisterSession, SessionsTypeOK
  <2> QED
    BY <2>1, <2>2, NothingAnnounced
<1> QED
  BY <1>2, <1>3

\* The list handled last is the current one: what it lacks is forgotten.
LEMMA HandlingAnnounces ==
    ASSUME SessionsTypeOK, SignalsAreCurrent, HandleSessions
    PROVE  SignalsAreCurrent'
<1>1. /\ signals \in Seq(SUBSET Ids) /\ signals # <<>>
      /\ signals' = Tail(signals) /\ registry' = registry
      /\ signals[Len(signals)] = registry
  BY DEF HandleSessions, SessionsTypeOK, SignalsAreCurrent
<1>2. Len(signals) \in Nat \ {0} /\ Len(signals') = Len(signals) - 1
  BY <1>1, EmptySeq, LenProperties
<1>3. CASE Len(signals) = 1
  <2>1. Head(signals) = registry
    BY <1>1, <1>3
  <2>2. signals' = <<>>
    BY <1>1, <1>2, <1>3
  <2>3. \A s \in Slots : activeSessons'[s] \in registry \cup {None}
    BY <2>1 DEF HandleSessions
  <2> QED
    BY <1>1, <2>2, <2>3 DEF SignalsAreCurrent
<1>4. CASE Len(signals) > 1
  <2>1. signals' # <<>>
    BY <1>1, <1>2, <1>4
  <2>2. signals'[Len(signals')] = signals[Len(signals)]
    BY <1>1, <1>2, <1>4
  <2> QED
    BY <1>1, <2>1, <2>2 DEF SignalsAreCurrent
<1> QED
  BY <1>2, <1>3, <1>4

LEMMA StepAnnounces ==
    TypeOK /\ SignalsAreCurrent /\ [Next]_vars => SignalsAreCurrent'
<1> SUFFICES ASSUME TypeOK, SignalsAreCurrent, [Next]_vars
             PROVE  SignalsAreCurrent'
  OBVIOUS
<1>1. SessionsTypeOK
  BY TypeParts
<1>2. CASE UNCHANGED <<registry, signals, activeSessons>>
  BY <1>2, NothingAnnounced
<1>3. ASSUME NEW s \in Slots, ConfigureLosesSession(s)
      PROVE  SignalsAreCurrent'
  <2>1. PICK id \in Ids \ registry :
          registry' = registry \cup {id} /\ Announce(<<registry'>>)
    BY <1>3 DEF ConfigureLosesSession
  <2>2. registry' \in SUBSET Ids
    BY <1>1, <2>1 DEF SessionsTypeOK
  <2> QED
    BY <1>1, <2>1, <2>2, AnnouncedOne
<1>4. ASSUME NEW s \in Slots, ConfigureBinds(s)
      PROVE  SignalsAreCurrent'
  BY <1>1, <1>4, RegisterAnnounces DEF ConfigureBinds
<1>5. ASSUME NEW s \in Slots, ConfigureUndone(s)
      PROVE  SignalsAreCurrent'
  <2>1. UNCHANGED <<registry, activeSessons>>
    BY <1>5 DEF ConfigureUndone
  <2>2. ASSUME NEW id \in Ids \ registry,
               Announce(<<registry \cup {id}, registry>>)
        PROVE  SignalsAreCurrent'
    <3>1. registry \cup {id} \in SUBSET Ids /\ registry' \in SUBSET Ids
      BY <1>1, <2>1 DEF SessionsTypeOK
    <3> QED
      BY <1>1, <2>1, <2>2, <3>1, AnnouncedTwo
  <2> QED
    BY <1>2, <1>5, <2>1, <2>2 DEF ConfigureUndone
<1>6. ASSUME NEW s \in Slots, ConfigureThrows(s)
      PROVE  SignalsAreCurrent'
  BY <1>6, TerminateAnnounces DEF ConfigureThrows
<1>7. ASSUME NEW s \in Slots, SlotLeaves(s) \/ UnmountArrives(s)
      PROVE  SignalsAreCurrent'
  BY <1>1, <1>2, <1>7, ReleaseAnnounces, TerminateAnnounces
     DEF SlotLeaves, UnmountArrives, ReleaseThrows
<1>8. CASE SessionManager
  <2>1. registry' \in SUBSET Ids /\ Announce(<<registry'>>)
    BY <1>1, <1>8 DEF SessionManager, SessionsTypeOK
  <2> QED
    BY <1>1, <2>1, AnnouncedOne
<1>9. CASE HandleSessions
  BY <1>1, <1>9, HandlingAnnounces
<1> QED
  BY <1>2, <1>3, <1>4, <1>5, <1>6, <1>7, <1>8, <1>9
     DEF Next, vars, ConfigureFails, EjectChild, HostEjects

LEMMA CurrentSignalsAnnounce ==
    TypeOK /\ SignalsAreCurrent => RevokedIsAnnounced
<1> SUFFICES ASSUME TypeOK, SignalsAreCurrent, NEW s \in Slots,
                    activeSessons[s] \notin registry \cup {None}
             PROVE  \E k \in 1..Len(signals) : activeSessons[s] \notin signals[k]
  BY DEF RevokedIsAnnounced
<1>1. signals \in Seq(SUBSET Ids) /\ signals # <<>>
  BY DEF TypeOK, SignalsAreCurrent
<1>2. Len(signals) \in 1..Len(signals)
  BY <1>1, EmptySeq, LenProperties
<1>3. activeSessons[s] \notin signals[Len(signals)]
  BY <1>1 DEF SignalsAreCurrent
<1> QED
  BY <1>2, <1>3

\* A list that lacks a revoked session waits for handleSessions as long as
\* the session is recorded (system.hpp 198-243).
THEOREM RevokedSessionsAreAnnounced == Spec => []RevokedIsAnnounced
<1>1. Init => SignalsAreCurrent
  BY DEF Init, SignalsAreCurrent
<1> QED
  BY <1>1, TypeCorrect, StepAnnounces, CurrentSignalsAnnounce, PTL DEF Spec
=============================================================================

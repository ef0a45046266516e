-------------------------- MODULE VmSettingsProofs --------------------------
(***************************************************************************)
(* Proofs about VmSettings, for any delivered file and any slots and URLs. *)
(***************************************************************************)
EXTENDS VmSettings, TLAPS

\* What the properties rest on: a file that is as the last successful write
\* left it says what clients see, and no write changes which mount points
\* there are.
Saved ==
    ~faulty =>
        /\ file # Torn
        /\ retry = <<file.count, file.interval>>
        /\ shown = file.url

SlotsKept == slots = SlotsOf(DeliveredFile)

Inv ==
    /\ TypeOK
    /\ FileIsWholeOrTorn
    /\ MemoryCanRepair
    /\ Saved
    /\ SlotsKept

-----------------------------------------------------------------------------
(* Lemmas.                                                                 *)

\* The delivered file is whole.
LEMMA DeliveredIsWhole ==
    DeliveredFile \in Content /\ Whole(DeliveredFile) /\ DeliveredFile # Torn
<1> USE DeliveredAssumption, NoneAssumption, TornAssumption
    DEF DeliveredAssumption, NoneAssumption, TornAssumption
<1>1. Delivered.count \in 3..6 /\ Delivered.interval \in 15..30
  BY DEF InRange
<1>2. DeliveredFile \in Content
  BY <1>1 DEF DeliveredFile, Content, Maybe
<1>3. Whole(DeliveredFile)
  BY <1>1 DEF DeliveredFile, Whole
<1> QED
  BY <1>2, <1>3

SetRetry(content, count, interval) ==
    [content EXCEPT !.count = count, !.interval = interval]
SetUrl(content, s, url) == [content EXCEPT !.url[s] = url]

\* A setting that is written into a whole text leaves it whole.
LEMMA RetryKeepsWhole ==
    ASSUME NEW content \in Content, Whole(content),
           NEW count, NEW interval, InRange(count, interval),
           NEW new, new = SetRetry(content, count, interval)
    PROVE  /\ new \in Content /\ Whole(new) /\ new # Torn
           /\ new.count = count /\ new.interval = interval
           /\ new.url = content.url
<1> USE DEF SetRetry, InRange
<1> USE NoneAssumption, TornAssumption DEF NoneAssumption, TornAssumption
<1>1. new \in Content
  BY DEF Content, Maybe
<1>2. /\ new.count = count /\ new.interval = interval
      /\ new.url = content.url /\ new.mounts = content.mounts
  BY DEF Content
<1>3. Whole(new)
  BY <1>2 DEF Whole
<1> QED
  BY <1>1, <1>2, <1>3

LEMMA UrlKeepsWhole ==
    ASSUME NEW content \in Content, Whole(content),
           NEW s \in UrlSlots, NEW url \in Urls,
           NEW new, new = SetUrl(content, s, url)
    PROVE  /\ new \in Content /\ Whole(new) /\ new # Torn
           /\ new.count = content.count /\ new.interval = content.interval
           /\ new.url \in [UrlSlots -> Urls]
<1> USE DEF SetUrl
<1> USE NoneAssumption, TornAssumption DEF NoneAssumption, TornAssumption
<1>1. /\ new.count = content.count /\ new.interval = content.interval
      /\ new.url = [content.url EXCEPT ![s] = url]
      /\ new.mounts = content.mounts
  BY DEF Content
<1>2. content.url \in [UrlSlots -> Urls]
  BY DEF Content, Maybe, Whole
<1>3. new.url \in [UrlSlots -> Urls]
  BY <1>1, <1>2
<1>4. new \in Content
  BY <1>3 DEF Content, Maybe
<1>5. Whole(new)
  BY <1>1, <1>3 DEF Whole
<1> QED
  BY <1>1, <1>3, <1>4, <1>5

\* A whole text names the slots of the delivered one.
LEMMA SameSlots ==
    ASSUME NEW content \in Content, Whole(content)
    PROVE  SlotsOf(content) = SlotsOf(DeliveredFile)
BY DeliveredIsWhole DEF Whole, SlotsOf

-----------------------------------------------------------------------------
(* The invariant.                                                          *)

LEMMA InitInv == Init => Inv
<1> SUFFICES ASSUME Init PROVE Inv
  OBVIOUS
<1> USE DeliveredIsWhole DEF Init
<1>1. Nothing \in Content
  BY DEF Nothing, Content, Maybe
<1>2. /\ Delivered.count \in 3..6 /\ Delivered.interval \in 15..30
      /\ Delivered.url \in Urls
  BY DeliveredAssumption DEF DeliveredAssumption, InRange
<1>3. slots \subseteq Names
  BY DEF SlotsOf, DeliveredFile
<1>4. TypeOK
  BY <1>1, <1>2, <1>3 DEF TypeOK
<1>5. Saved
  BY DEF Saved, DeliveredFile
<1> QED
  BY <1>4, <1>5 DEF Inv, FileIsWholeOrTorn, MemoryCanRepair, SlotsKept

LEMMA StartInv ==
    ASSUME Inv, Start
    PROVE  Inv'
<1> USE DEF Inv, Start
<1>1. file \in Content /\ Whole(file)
  BY DEF TypeOK, FileIsWholeOrTorn
<1>2. file.count \in 3..6 /\ file.interval \in 15..30
      /\ file.url \in [UrlSlots -> Urls]
  BY <1>1 DEF Content, Maybe, Whole
<1>3. slots' = SlotsOf(DeliveredFile)
  BY <1>1, SameSlots
<1>4. slots' \subseteq Names
  BY <1>3 DEF SlotsOf, DeliveredFile
<1>5. TypeOK'
  BY <1>1, <1>2, <1>4 DEF TypeOK
<1> QED
  BY <1>1, <1>3, <1>5
     DEF FileIsWholeOrTorn, MemoryCanRepair, Saved, SlotsKept, Whole

LEMMA SetAllInv ==
    ASSUME Inv, NEW count \in Counts, NEW interval \in Intervals,
           SetAll(count, interval)
    PROVE  Inv'
<1> USE DEF Inv
<1>1. running /\ count \in 3..6 /\ interval \in 15..30
  BY DEF SetAll, Changes, InRange
<1>2. Loaded \in Content /\ Whole(Loaded)
  BY <1>1 DEF TypeOK, Loaded, FileIsWholeOrTorn, MemoryCanRepair
<1>a. PICK new : new = WithRetry(count, interval)
  OBVIOUS
<1>3. /\ new \in Content /\ Whole(new) /\ new # Torn
      /\ new.count = count /\ new.interval = interval
      /\ new.url = Loaded.url
  <2>1. new = SetRetry(Loaded, count, interval)
    BY <1>a DEF WithRetry, SetRetry
  <2>2. InRange(count, interval)
    BY DEF SetAll, Changes
  <2> QED
    BY <1>2, <2>1, <2>2, RetryKeepsWhole
<1>4. /\ jsonData' = new /\ retry' = <<count, interval>>
      /\ running' = running /\ shown' = shown /\ slots' = slots
      /\ \/ file' = file /\ faulty' = faulty /\ new = Loaded
         \/ file' = new /\ faulty' = faulty
         \/ file' \in {file, Torn} /\ faulty' = TRUE
  <2>1. /\ retry' = <<count, interval>>
        /\ running' = running /\ shown' = shown /\ slots' = slots
    BY DEF SetAll
  <2>2. CASE /\ WithRetry(count, interval) = Loaded
             /\ jsonData' = Loaded
             /\ UNCHANGED <<file, faulty>>
    BY <1>a, <2>1, <2>2
  <2>3. CASE jsonData' = WithRetry(count, interval) /\ Write(new)
    BY <1>a, <2>1, <2>3 DEF Write
  <2> QED
    BY <1>a, <2>2, <2>3 DEF SetAll
<1>5. TypeOK'
  BY <1>1, <1>3, <1>4 DEF TypeOK
<1>6. FileIsWholeOrTorn'
  BY <1>3, <1>4 DEF FileIsWholeOrTorn
<1>7. Saved'
  <2> SUFFICES ASSUME ~faulty'
               PROVE  /\ file' # Torn
                      /\ retry' = <<file'.count, file'.interval>>
                      /\ shown' = file'.url
    BY DEF Saved
  <2>1. ~faulty
    BY <1>4 DEF TypeOK
  <2>2. file # Torn /\ Loaded = file /\ shown = file.url
    BY <2>1 DEF Saved, Loaded
  <2> QED
    BY <1>3, <1>4, <2>2
<1> QED
  BY <1>3, <1>4, <1>5, <1>6, <1>7 DEF MemoryCanRepair, SlotsKept, Whole

LEMMA SaveImageURLInv ==
    ASSUME Inv, NEW s \in UrlSlots, NEW url \in Urls, SaveImageURL(s, url)
    PROVE  Inv'
<1> USE DEF Inv
<1>1. file # Torn /\ file \in Content /\ Whole(file)
  BY DEF SaveImageURL, TypeOK, FileIsWholeOrTorn
<1>a. PICK new : new = WithUrl(s, url)
  OBVIOUS
<1>2. /\ new \in Content /\ Whole(new) /\ new # Torn
      /\ new.count = file.count /\ new.interval = file.interval
      /\ new.url \in [UrlSlots -> Urls]
  <2>1. new = SetUrl(file, s, url)
    BY <1>a DEF WithUrl, SetUrl
  <2> QED
    BY <1>1, <2>1, UrlKeepsWhole
<1>3. file.url \in [UrlSlots -> Urls]
  BY <1>1 DEF Content, Maybe, Whole
<1>4. /\ running' = running /\ retry' = retry /\ slots' = slots
      /\ jsonData' = (IF file' = Torn THEN new ELSE file')
      /\ shown' = (IF file' = Torn THEN shown ELSE file'.url)
      /\ \/ file' = new /\ faulty' = faulty
         \/ file' \in {file, Torn} /\ faulty' = TRUE
  BY <1>a DEF SaveImageURL, Write
<1>5. jsonData' \in Content /\ Whole(jsonData')
  BY <1>1, <1>2, <1>4
<1>6. TypeOK'
  BY <1>1, <1>2, <1>3, <1>4, <1>5 DEF TypeOK
<1>7. FileIsWholeOrTorn'
  BY <1>1, <1>2, <1>4 DEF FileIsWholeOrTorn
<1>8. Saved'
  BY <1>2, <1>4 DEF Saved, TypeOK
<1> QED
  BY <1>4, <1>5, <1>6, <1>7, <1>8 DEF MemoryCanRepair, SlotsKept, Whole

LEMMA StepInv == Inv /\ [Next]_vars => Inv'
<1> SUFFICES ASSUME Inv, [Next]_vars
             PROVE  Inv'
  OBVIOUS
<1>1. CASE Start
  BY <1>1, StartInv
<1>2. CASE Stop
  <2>1. Nothing \in Content
    BY DEF Nothing, Content, Maybe
  <2> QED
    BY <1>2, <2>1 DEF Inv, Stop, TypeOK, FileIsWholeOrTorn, MemoryCanRepair,
                      Saved, SlotsKept, Whole
<1>3. ASSUME NEW count \in Counts, NEW interval \in Intervals,
             SetAll(count, interval)
      PROVE  Inv'
  BY <1>3, SetAllInv
<1>4. ASSUME NEW s \in UrlSlots, NEW url \in Urls, SaveImageURL(s, url)
      PROVE  Inv'
  BY <1>4, SaveImageURLInv
<1>5. CASE DieWriting
  <2>1. Nothing \in Content
    BY DEF Nothing, Content, Maybe
  <2> QED
    BY <1>5, <2>1 DEF Inv, DieWriting, TypeOK, FileIsWholeOrTorn,
                      MemoryCanRepair, Saved, SlotsKept
<1>6. CASE Deliver
  BY <1>6, DeliveredIsWhole
     DEF Inv, Deliver, TypeOK, FileIsWholeOrTorn, MemoryCanRepair, Saved,
         SlotsKept, Whole
<1>7. CASE UNCHANGED vars
  BY <1>7 DEF Inv, vars, TypeOK, FileIsWholeOrTorn, MemoryCanRepair, Saved,
              SlotsKept, Whole
<1> QED
  BY <1>1, <1>2, <1>3, <1>4, <1>5, <1>6, <1>7 DEF Next

\* The conjunction is inductive (vm_interface.cpp 24-185, main.cpp 116-160).
THEOREM Invariance == Spec => []Inv
<1> QED
  BY InitInv, StepInv, PTL DEF Spec

\* Every variable keeps its type: the retry parameters stay within the
\* limits that SetAll checks (vm_interface.cpp 190-200).
THEOREM TypeCorrect == Spec => []TypeOK
<1>1. Inv => TypeOK
  BY DEF Inv
<1> QED
  BY <1>1, Invariance, PTL

\* No write drops the mount points or a setting (vm_interface.cpp 223).
THEOREM NoPartialFile == Spec => []FileIsWholeOrTorn
<1>1. Inv => FileIsWholeOrTorn
  BY DEF Inv
<1> QED
  BY <1>1, Invariance, PTL

\* A running service can write the file anew, whatever is left of it
\* (vm_interface.cpp 31).
THEOREM MemoryRepairs == Spec => []MemoryCanRepair
<1>1. Inv => MemoryCanRepair
  BY DEF Inv
<1> QED
  BY <1>1, Invariance, PTL

\* What clients read is in the file unless a write failed
\* (vm_interface.cpp 80, 221).
THEOREM AllIsSaved == Spec => []NothingUnsaved
<1>1. Inv => NothingUnsaved
  BY DEF Inv, Saved, NothingUnsaved
<1> QED
  BY <1>1, Invariance, PTL

\* Unless a write failed, a restart changes nothing that clients see
\* (vm_interface.cpp 57, configuration.hpp 121).
THEOREM RestartsKeep == Spec => RestartKeeps
<1>1. Inv /\ [Next]_vars =>
        [running' /\ ~running /\ ~faulty => UNCHANGED <<retry, shown, slots>>]_vars
  <2> SUFFICES ASSUME Inv, [Next]_vars, running', ~running, ~faulty
               PROVE  UNCHANGED <<retry, shown, slots>>
    OBVIOUS
  <2>1. CASE Start
    <3>1. slots' = slots
      BY <2>1, SameSlots DEF Start, Inv, SlotsKept, TypeOK, FileIsWholeOrTorn
    <3> QED
      BY <2>1, <3>1 DEF Start, Inv, Saved
  <2>2. CASE ~Start
    BY <2>2 DEF Next, vars, Stop, SetAll, Changes, SaveImageURL, DieWriting,
                Deliver
  <2> QED
    BY <2>1, <2>2
<1> QED
  BY <1>1, Invariance, PTL DEF Spec, RestartKeeps
=============================================================================

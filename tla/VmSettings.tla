----------------------------- MODULE VmSettings -----------------------------
(***************************************************************************)
(* The settings that outlive the service (src/vm_interface.cpp): the retry *)
(* parameters and the image URLs of the legacy slots.  They are kept in    *)
(* the very file that names the mount points (src/configuration.hpp), and  *)
(* that file is rewritten in place: opening it for writing empties it, and *)
(* neither that nor the writing has to succeed.                            *)
(*                                                                         *)
(* A handler is one step, unless the service dies while it writes.         *)
(***************************************************************************)
EXTENDS Integers

CONSTANTS
    Entries,    \* what the delivered file says of each mount point
    UrlSlots,   \* the slots whose image URL is kept: Slot_2 and Slot_3
    Urls,
    Counts,     \* the values clients try for RetryCount and RetryInterval
    Intervals,
    Delivered,  \* the retry parameters and the URL of the delivered file
    None,
    Torn        \* the content of a file that was emptied and not written

InRangeFromTwo(count, interval) == count \in 2..6 /\ interval \in 15..30
InRange(count, interval) == count \in 3..6 /\ interval \in 15..30

Fields == {"set", "absent", "invalid"}
Entry == [device : Fields, socket : Fields, endpoint : Fields,
          mode : {"proxy", "legacy", "absent", "invalid"}]
Names == DOMAIN Entries

ASSUME EntriesAssumption == Entries \in [Names -> Entry]
ASSUME DeliveredAssumption ==
    /\ DOMAIN Delivered = {"count", "interval", "url"}
    /\ InRange(Delivered.count, Delivered.interval)
    /\ Delivered.url \in Urls
ASSUME NoneAssumption == None \notin (3..6) \cup (15..30) \cup Urls

Maybe(S) == S \cup {None}

(* What a JSON text says, field by field; an empty object says nothing.    *)
Content == [count : Maybe(3..6), interval : Maybe(15..30),
            url : [UrlSlots -> Maybe(Urls)], mounts : SUBSET Names]
ASSUME TornAssumption == Torn \notin Content

Nothing == [count |-> None, interval |-> None,
            url |-> [s \in UrlSlots |-> None], mounts |-> {}]
DeliveredFile == [count |-> Delivered.count, interval |-> Delivered.interval,
                  url |-> [s \in UrlSlots |-> Delivered.url], mounts |-> Names]

Whole(content) ==
    /\ content.count # None /\ content.interval # None
    /\ \A s \in UrlSlots : content.url[s] # None
    /\ content.mounts = Names

VARIABLES
    running,    \* the service runs
    file,       \* the content of the file, or Torn
    jsonData,   \* the last text that was parsed, with later changes
    retry,      \* RetryCount and RetryInterval, as clients read them
    shown,      \* the URLs, as clients read them
    slots,      \* the mount points the service has made
    faulty      \* history: a write has failed since the last start

vars == <<running, file, jsonData, retry, shown, slots, faulty>>

TypeOK ==
    /\ running \in BOOLEAN
    /\ file \in Content \cup {Torn}
    /\ jsonData \in Content
    /\ retry \in (3..6) \X (15..30)
    /\ shown \in [UrlSlots -> Urls]
    /\ slots \subseteq Names
    /\ faulty \in BOOLEAN

(* setupVariables() skips a mount point with a field it cannot use or      *)
(* without a mode; a missing device, socket or endpoint is let through.    *)
Accepted(entry) ==
    /\ "invalid" \notin {entry.device, entry.socket, entry.endpoint}
    /\ entry.mode \in {"proxy", "legacy"}

SlotsOf(content) == {n \in content.mounts : Accepted(Entries[n])}

Init ==
    /\ running = FALSE
    /\ file = DeliveredFile
    /\ jsonData = Nothing
    /\ retry = <<Delivered.count, Delivered.interval>>
    /\ shown = [s \in UrlSlots |-> Delivered.url]
    /\ slots = SlotsOf(DeliveredFile)
    /\ faulty = FALSE

-----------------------------------------------------------------------------
(* loadJson(): a text that does not parse leaves jsonData as it was.       *)
LoadedOrNothing == IF file = Torn THEN Nothing ELSE file
Loaded == IF file = Torn THEN jsonData ELSE file

(* main() and addInterfaces(), for which the file is parsed and the retry  *)
(* parameters must be there.  While the service is down retry, shown and   *)
(* slots stay what clients saw last.                                       *)
StartUnloaded ==
    /\ ~running
    /\ file # Torn
    /\ file.count # None /\ file.interval # None
    /\ running' = TRUE
    /\ retry' = <<file.count, file.interval>>
    /\ shown' = file.url
    /\ slots' = SlotsOf(file)
    /\ faulty' = FALSE
    /\ UNCHANGED <<file, jsonData>>

Start ==
    /\ ~running
    /\ file # Torn
    /\ file.count # None /\ file.interval # None
    /\ running' = TRUE
    /\ jsonData' = file
    /\ retry' = <<file.count, file.interval>>
    /\ shown' = file.url
    /\ slots' = SlotsOf(file)
    /\ faulty' = FALSE
    /\ UNCHANGED file

(* The service dies between two handlers.                                  *)
Stop ==
    /\ running
    /\ running' = FALSE
    /\ jsonData' = Nothing
    /\ UNCHANGED <<file, retry, shown, slots, faulty>>

(* The file after "std::ofstream ... << content": it may not be opened, or *)
(* be emptied and not written.  Neither is noticed but in the log.         *)
Write(content) ==
    \/ file' = content /\ UNCHANGED faulty
    \/ file' = file /\ faulty' = TRUE
    \/ file' = Torn /\ faulty' = TRUE

(* SetAll() with other values than those in force; any others are refused, *)
(* or answered without a look at the file.                                 *)
Changes(count, interval) ==
    /\ running
    /\ InRange(count, interval)
    /\ retry # <<count, interval>>

WithRetryStale(count, interval) ==
    [Loaded EXCEPT !.count = retry[1], !.interval = retry[2]]

WithRetry(count, interval) ==
    [Loaded EXCEPT !.count = count, !.interval = interval]

SetAllIfBothDiffer(count, interval) ==
    /\ Changes(count, interval)
    /\ retry' = <<count, interval>>
    /\ \/ /\ Loaded.count = count \/ Loaded.interval = interval
          /\ jsonData' = Loaded
          /\ UNCHANGED <<file, faulty>>
       \/ /\ Loaded.count # count /\ Loaded.interval # interval
          /\ jsonData' = WithRetry(count, interval)
          /\ Write(WithRetry(count, interval))
    /\ UNCHANGED <<running, shown, slots>>

SetAll(count, interval) ==
    /\ Changes(count, interval)
    /\ retry' = <<count, interval>>
    /\ \/ /\ WithRetry(count, interval) = Loaded
          /\ jsonData' = Loaded
          /\ UNCHANGED <<file, faulty>>
       \/ /\ WithRetry(count, interval) # Loaded
          /\ jsonData' = WithRetry(count, interval)
          /\ Write(WithRetry(count, interval))
    /\ UNCHANGED <<running, shown, slots>>

(* saveImageURLToJson(), at every mount of a legacy slot: given up when    *)
(* the file does not parse, and followed by a reload of what was written.  *)
WithUrl(s, url) == [file EXCEPT !.url[s] = url]

SaveImageURL(s, url) ==
    /\ running
    /\ file # Torn
    /\ file.url[s] # None
    /\ Write(WithUrl(s, url))
    /\ jsonData' = IF file' = Torn THEN WithUrl(s, url) ELSE file'
    /\ shown' = IF file' = Torn THEN shown ELSE file'.url
    /\ UNCHANGED <<running, retry, slots>>

(* The service dies between the opening of the file and the writing.       *)
DieWriting ==
    /\ running
    /\ \/ \E count \in Counts, interval \in Intervals :
            /\ Changes(count, interval)
            /\ WithRetry(count, interval) # Loaded
       \/ file # Torn /\ \E s \in UrlSlots : file.url[s] # None
    /\ running' = FALSE
    /\ file' = Torn
    /\ jsonData' = Nothing
    /\ faulty' = TRUE
    /\ UNCHANGED <<retry, shown, slots>>

(* The file is delivered again, by hand or with an update of the firmware. *)
Deliver ==
    /\ ~running
    /\ file = Torn
    /\ file' = DeliveredFile
    /\ UNCHANGED <<running, jsonData, retry, shown, slots, faulty>>

Next ==
    \/ Start
    \/ Stop
    \/ \E count \in Counts, interval \in Intervals : SetAll(count, interval)
    \/ \E s \in UrlSlots, url \in Urls : SaveImageURL(s, url)
    \/ DieWriting
    \/ Deliver

Spec == Init /\ [][Next]_vars

-----------------------------------------------------------------------------
(* Properties.                                                             *)

(* However writes fail, the file is torn or has everything in it: no write *)
(* drops the mount points, which the next start needs, or a setting        *)
(* (vm_interface.cpp 223, configuration.hpp 121).                          *)
FileIsWholeOrTorn == file # Torn => Whole(file)

(* What a running service has in memory is whole, so that the next SetAll  *)
(* can repair a torn file (vm_interface.cpp 31, 223).                      *)
MemoryCanRepair == running => Whole(jsonData)

(* Unless a write has failed since the start, the file says what clients   *)
(* read (vm_interface.cpp 80, 221).                                        *)
NothingUnsaved ==
    running /\ ~faulty =>
        /\ file # Torn
        /\ retry = <<file.count, file.interval>>
        /\ shown = file.url

(* Unless a write has failed, a restart changes nothing that clients see:  *)
(* what a call was told to be saved is there, and so are the slots.        *)
RestartKeeps ==
    [][running' /\ ~running /\ ~faulty => UNCHANGED <<retry, shown, slots>>]_vars
=============================================================================

----------------------------- MODULE LocalDrive -----------------------------
(***************************************************************************)
(* What the Local service is to its clients: one drive, whose medium       *)
(* GetCurrentMount reports with the slot that has it.  LocalService        *)
(* implements it, unless files reappear under a slot or legacy slots get   *)
(* local URLs.                                                             *)
(*                                                                         *)
(* A medium is put into an empty drive only.  It is never exchanged for    *)
(* another or seen to move to another slot, and it is reported until it is *)
(* taken out or its file is deleted, after which it does not come back.    *)
(***************************************************************************)
CONSTANTS Drives, Files, None

VARIABLES
    current,    \* <<slot, file>>, or None
    present     \* the files that exist

driveVars == <<current, present>>

Init ==
    /\ current = None
    /\ present = Files

Insert(file) ==
    /\ current = None
    /\ file \in present
    /\ \E s \in Drives : current' = <<s, file>>
    /\ UNCHANGED present

Eject ==
    /\ current' = None
    /\ UNCHANGED present

Delete(file) ==
    /\ present' = present \ {file}
    /\ current' = IF \E s \in Drives : current = <<s, file>>
                  THEN None ELSE current

Upload(file) ==
    /\ present' = present \cup {file}
    /\ UNCHANGED current

Next ==
    \/ Eject
    \/ \E file \in Files : Insert(file) \/ Delete(file) \/ Upload(file)

Spec == Init /\ [][Next]_driveVars
=============================================================================

---------------------------- MODULE SlotService ----------------------------
(***************************************************************************)
(* What a mount point promises to its D-Bus client and to the host, with   *)
(* no word of processes, devices or events.  MountPoint implements it.     *)
(*                                                                         *)
(* A slot is idle or mounted, or on its way from one to the other.  It     *)
(* accepts a Mount only when idle and an Unmount only when mounted; an     *)
(* accepted request is answered at most once, when the slot is at rest     *)
(* again, and the answer may be lost.  A slot that has begun to unmount    *)
(* does not become mounted.  What the host sees appears when the slot      *)
(* becomes mounted and is gone as soon as it is not.                       *)
(***************************************************************************)
VARIABLES
    phase,      \* "down", "idle", "mounting", "mounted", "unmounting"
    owed,       \* an accepted request is still to be answered
    answer,     \* what the client knows of its last accepted request
    exposed     \* the host sees a medium

serviceVars == <<phase, owed, answer, exposed>>

Init ==
    /\ phase = "down"
    /\ owed = FALSE
    /\ answer = "none"
    /\ exposed = FALSE

(* The answer to the request under way, if one is still owed.              *)
Settle(outcome) ==
    /\ owed' = FALSE
    /\ answer' = IF owed THEN outcome ELSE answer

(* The host may be spared what an earlier run left, but sees nothing new.  *)
NothingNew == exposed' \in {exposed, FALSE}

StartUp ==
    /\ phase = "down"
    /\ phase' = "idle"
    /\ NothingNew
    /\ UNCHANGED <<owed, answer>>

Die ==
    /\ phase # "down"
    /\ phase' = "down"
    /\ owed' = FALSE
    /\ answer' = "none"
    /\ UNCHANGED exposed

AcceptMount ==
    /\ phase = "idle"
    /\ phase' = "mounting"
    /\ owed' = TRUE
    /\ answer' = "mount"
    /\ UNCHANGED exposed

(* A mount that is accepted and fails in the same step.                    *)
FailMount ==
    /\ phase = "idle"
    /\ owed' = FALSE
    /\ answer' = "error"
    /\ UNCHANGED <<phase, exposed>>

BecomeMounted ==
    /\ phase = "mounting"
    /\ phase' = "mounted"
    /\ Settle("ok")
    /\ exposed' \in BOOLEAN

AcceptUnmount ==
    /\ phase = "mounted"
    /\ phase' = "unmounting"
    /\ owed' = TRUE
    /\ answer' = "unmount"
    /\ exposed' = FALSE

(* The medium is lost: nobody asked, so nobody is answered.                *)
LoseMedium ==
    /\ phase = "mounted"
    /\ phase' = "unmounting"
    /\ exposed' = FALSE
    /\ UNCHANGED <<owed, answer>>

(* A mount that cannot succeed any more, and is taken back.                *)
GiveUp ==
    /\ phase = "mounting"
    /\ phase' = "unmounting"
    /\ UNCHANGED <<owed, answer, exposed>>

(* A mount that fails.                                                     *)
MountEnds ==
    /\ phase = "mounting"
    /\ phase' = "idle"
    /\ Settle("error")
    /\ NothingNew

UnmountEnds ==
    /\ phase = "unmounting"
    /\ phase' = "idle"
    /\ \E outcome \in {"ok", "error"} : Settle(outcome)
    /\ NothingNew

(* The time allowed for the request is over.                               *)
Forget ==
    /\ owed
    /\ owed' = FALSE
    /\ UNCHANGED <<phase, answer, exposed>>

Next ==
    \/ StartUp
    \/ Die
    \/ AcceptMount
    \/ FailMount
    \/ BecomeMounted
    \/ AcceptUnmount
    \/ LoseMedium
    \/ GiveUp
    \/ MountEnds
    \/ UnmountEnds
    \/ Forget

Spec == Init /\ [][Next]_serviceVars
=============================================================================

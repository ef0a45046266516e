---------------------------- MODULE MCReconnect ----------------------------
(* Two servers: the slots may share one or use one each, and Slot_3 may    *)
(* have an image that needs no share.                                      *)
EXTENDS Reconnect, TLC

CONSTANTS v1, v2

MCImages == (2 :> {v1}) @@ (3 :> {v1, v2, Web})
SameServer == (2 :> {v1}) @@ (3 :> {v1})

-----------------------------------------------------------------------------
(* The comment at system.hpp 1225: with both slots on one server "only one *)
(* monitor thread will be created based on which Slot comes first".        *)
SameServerIsWatched ==
    (\A s \in Slots : phase[s] = "mounted" /\ share[s] # None)
        /\ share[2] = share[3]
            => \E s \in Slots : (\E m \in Monitors : Polls(m, s))
                                \/ (\E r \in Retries : Handles(r, s))
=============================================================================

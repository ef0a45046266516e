---------------------------- MODULE MCUsbGadget ----------------------------
(* Two slots that compete for one port, one of each mode, and two session  *)
(* ids of which other clients take some.                                   *)
EXTENDS UsbGadget

-----------------------------------------------------------------------------
(* What a test says of handleSessions(): nothing is erased from            *)
(* activeSessons while the session manager still has the session.          *)
NothingRemovedNothingErased ==
    [][\A s \in Slots : HandleSessions /\ activeSessons[s] \in registry
                            => activeSessons'[s] = activeSessons[s]]_vars
=============================================================================

--------------------------- MODULE MCVmSettings ---------------------------
(* Two of the delivered slots, one without a device and one without a mode. *)
EXTENDS VmSettings, TLC

CONSTANTS u1, u2

Good(mode) == [device |-> "set", socket |-> "set", endpoint |-> "set",
               mode |-> mode]

MCEntries ==
    ("Slot_0" :> Good("proxy")) @@ ("Slot_2" :> Good("legacy"))
    @@ ("Slot_3" :> [Good("legacy") EXCEPT !.device = "absent"])
    @@ ("Slot_9" :> Good("absent"))

MCDelivered == [count |-> 3, interval |-> 15, url |-> u1]
=============================================================================

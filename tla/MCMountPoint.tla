---------------------------- MODULE MCMountPoint ----------------------------
(* Instances of MountPoint for TLC: two process objects at a time are the  *)
(* fewest with which a process of an earlier mount outlives its slot's     *)
(* return to Ready.                                                        *)
EXTENDS MountPoint, TLC

Symmetry == Permutations(Procs)

-----------------------------------------------------------------------------
(* What tests and the code itself say of the program, and it does not do.  *)

(* notificationStart(): a request whose target state is not reached in     *)
(* time is answered with device_or_resource_busy.                          *)
TimeoutAnswered == pending = "mount" ~> pending # "mount"

(* An expired inactivity timer unmounts gracefully: the posted event never *)
(* takes the service down.                                                 *)
InactivityIsGraceful ==
    [][PostedUnmount => state' = "Deactivating"]_vars

(* A Mount is answered with success only when the slot becomes Active.     *)
MountSuccessIsActive ==
    [][(pending = "mount" /\ pending' = "ok") => state' = "Active"]_vars
=============================================================================

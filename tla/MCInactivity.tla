---------------------------- MODULE MCInactivity ----------------------------
(* Three seconds: the handler may notice an access late and still re-arm.  *)
EXTENDS Inactivity
=============================================================================

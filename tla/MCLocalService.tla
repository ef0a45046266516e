--------------------------- MODULE MCLocalService ---------------------------
(* The slots of the shipped configuration, two proxy and two legacy; two   *)
(* files, so that one can be mounted after the other has been deleted.     *)
EXTENDS LocalService, TLC

Symmetry == Permutations(LocalFiles) \cup Permutations(Infos)
=============================================================================

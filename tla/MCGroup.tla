------------------------------- MODULE MCGroup --------------------------------
(* The instances of MCReconciler, seen from the group of the master role. *)
EXTENDS MCReconciler, GroupRefinement

MasterGroup == [role |-> "master", group |-> "default"]
==============================================================================

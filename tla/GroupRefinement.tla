--------------------------- MODULE GroupRefinement ----------------------------
(***************************************************************************)
(* What the reconcile loop looks like from one role group: of all that it  *)
(* does, only the group's StatefulSet and ConfigMap are seen.  This is the *)
(* operator that RoleGroupPod takes for granted.                           *)
(***************************************************************************)
EXTENDS HbaseReconciler, RoleGroup

GroupObjs == [id \in {Sts, Cm} |-> objs[id]]

OfGroup == INSTANCE ManagedCluster
    WITH views <- Views, Ids <- {Sts, Cm}, objs <- GroupObjs, Asked <- AskedOfGroup

(* Seen from a role group, the reconcile loop is the ManagedCluster that    *)
(* RoleGroupPod starts its pods in: the two objects change one at a time,   *)
(* each to what a version asks for that some manager still holds, and       *)
(* nothing that the reconcile does to other objects, or holds in memory,    *)
(* shows in the group.                                                      *)
GroupIsManaged == OfGroup!Spec
==============================================================================

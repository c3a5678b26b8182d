------------------------------ MODULE RoleGroup -------------------------------
(***************************************************************************)
(* One role group of the cluster: its StatefulSet, the ConfigMap that the  *)
(* pods of this StatefulSet mount, and what a cluster asks for of the two. *)
(***************************************************************************)
EXTENDS RoleResources

CONSTANT Pod            (* [role, group] of the role group                  *)

ASSUME PodAssumption == Pod \in [role : Roles, group : Groups]

Sts == [kind |-> "StatefulSet", role |-> Pod.role, name |-> Pod.group]
Cm  == ConfigMapOf(Sts)
AskedOfGroup(c) == {w \in Asked(c) : w.id \in {Sts, Cm}}
==============================================================================

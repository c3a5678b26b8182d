---------------------------- MODULE ManagedCluster ----------------------------
(***************************************************************************)
(* What the operator does to a cluster, seen from outside: the HbaseCluster *)
(* and the objects in the API server, and nothing of the managers but the   *)
(* versions of the cluster that they may still act on.                      *)
(*                                                                          *)
(* A version enters views when it is submitted, and once it has left them   *)
(* no object is ever made from it again.  HbaseReconciler implements this   *)
(* module; RoleGroupPod builds on it.                                       *)
(***************************************************************************)
EXTENDS Naturals

CONSTANTS Specs,        (* cluster specs a user may submit                  *)
          Ids,          (* names of the owned objects                       *)
          NoCluster,    (* the version that stands for no cluster           *)
          NoObject,     (* the value of a name that has no object           *)
          Edits(_),     (* what an object may be after an edit from outside *)
          Asked(_),     (* the objects, with their names, a version asks for *)
          MaxVersion    (* bound on the versions                            *)

VARIABLES cr,           (* the HbaseCluster                                 *)
          objs,         (* the owned objects                                *)
          views         (* the versions that may still be acted on          *)

vars == <<cr, objs, views>>

Init ==
    /\ cr = NoCluster
    /\ objs = [id \in Ids |-> NoObject]
    /\ views = {cr}

(* Managers move on: they may forget any version but the current one. *)
Forgotten == views' \in SUBSET views /\ cr \in views'

(* A user creates the cluster, edits it or deletes it. *)
NewVersion(uid, s) ==
    /\ cr.version < MaxVersion
    /\ cr' = [uid |-> uid, version |-> cr.version + 1, spec |-> s]
    /\ views' \in SUBSET (views \cup {cr'}) /\ cr' \in views'
    /\ UNCHANGED objs

Create == cr.uid = 0 /\ \E s \in Specs : NewVersion(cr.version + 1, s)
Edit   == cr.uid # 0 /\ \E s \in Specs \ {cr.spec} : NewVersion(cr.uid, s)
Delete == cr.uid # 0 /\ NewVersion(0, cr.spec)

(* An object is made to be what one of the versions asks for. *)
Write ==
    /\ \E v \in views : \E w \in Asked(v) : objs' = [objs EXCEPT ![w.id] = w.object]
    /\ Forgotten
    /\ UNCHANGED cr

(* A version is no longer acted on. *)
Forget ==
    /\ Forgotten
    /\ UNCHANGED <<cr, objs>>

(* An object whose owner is gone is deleted. *)
Collect ==
    /\ \E id \in Ids : /\ objs[id] # NoObject
                       /\ objs[id].owner \notin {0, cr.uid}
                       /\ objs' = [objs EXCEPT ![id] = NoObject]
    /\ UNCHANGED <<cr, views>>

(* Someone else deletes or edits an object. *)
Tamper ==
    /\ \E id \in Ids : /\ objs[id] # NoObject
                       /\ \E o \in {NoObject} \cup Edits(objs[id]) :
                             objs' = [objs EXCEPT ![id] = o]
    /\ UNCHANGED <<cr, views>>

Next == Forget \/ Write \/ Create \/ Edit \/ Delete \/ Collect \/ Tamper

Spec == Init /\ [][Next]_vars
==============================================================================

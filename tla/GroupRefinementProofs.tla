------------------------ MODULE GroupRefinementProofs -------------------------
(***************************************************************************)
(* The reconcile loop, seen from any one role group, implements the        *)
(* ManagedCluster of that group.  A step of the whole ManagedCluster that  *)
(* touches one of the group's two objects is the same step of the group's; *)
(* one that touches another object shows at most as a version forgotten.   *)
(***************************************************************************)
EXTENDS RefinementProofs, GroupRefinement

LEMMA GroupIds == {Sts, Cm} \subseteq Ids
<1> DEFINE k(kind) == [role |-> Pod.role, group |-> Pod.group, kind |-> kind]
<1>1. k("StatefulSet") \in Resources /\ k("ConfigMap") \in Resources
  BY PodAssumption DEF Resources, Kinds, RegisterResourceWithRoleGroup
<1>2. ObjectId(k("StatefulSet")) = Sts /\ ObjectId(k("ConfigMap")) = Cm
  BY DEF ObjectId, Sts, Cm, ConfigMapOf
<1>3. QED
  BY <1>1, <1>2, IdOfResource

(* A change of one object changes the group's part of them, or not at all. *)
LEMMA OneObject ==
    ASSUME TypeOK, NEW id, NEW o, objs' = [objs EXCEPT ![id] = o]
    PROVE  /\ id \in {Sts, Cm} => GroupObjs' = [GroupObjs EXCEPT ![id] = o]
           /\ id \notin {Sts, Cm} => GroupObjs' = GroupObjs
BY GroupIds DEF TypeOK, GroupObjs

LEMMA GroupReads == \A id \in {Sts, Cm} : GroupObjs[id] = objs[id]
BY DEF GroupObjs

LEMMA Projection ==
    TypeOK /\ [Managed!Next]_Managed!vars => [OfGroup!Next]_OfGroup!vars
<1>1. SUFFICES ASSUME TypeOK, [Managed!Next]_Managed!vars
               PROVE  [OfGroup!Next]_OfGroup!vars
  OBVIOUS
<1>2. ASSUME UNCHANGED <<cr, Views, GroupObjs>> PROVE UNCHANGED OfGroup!vars
  BY <1>2 DEF OfGroup!vars
<1>3. CASE UNCHANGED Managed!vars
  BY <1>2, <1>3 DEF Managed!vars, GroupObjs
<1>4. UNCHANGED objs => UNCHANGED GroupObjs
  BY DEF GroupObjs
<1>5. CASE Managed!Forget
  <2>1. OfGroup!Forget
    BY <1>4, <1>5 DEF Managed!Forget, OfGroup!Forget, Managed!Forgotten, OfGroup!Forgotten
  <2>2. QED
    BY <2>1 DEF OfGroup!Next
<1>6. CASE Managed!Write
  <2>1. PICK v \in Views : \E w \in Asked(v) : objs' = [objs EXCEPT ![w.id] = w.object]
    BY <1>6 DEF Managed!Write
  <2>2. PICK w \in Asked(v) : objs' = [objs EXCEPT ![w.id] = w.object]
    BY <2>1
  <2>3. OfGroup!Forgotten /\ cr' = cr
    BY <1>6 DEF Managed!Write, Managed!Forgotten, OfGroup!Forgotten
  <2>4. CASE w.id \in {Sts, Cm}
    <3>1. w \in AskedOfGroup(v) /\ GroupObjs' = [GroupObjs EXCEPT ![w.id] = w.object]
      BY <1>1, <2>2, <2>4, OneObject DEF AskedOfGroup
    <3>2. OfGroup!Write
      BY <2>3, <3>1 DEF OfGroup!Write
    <3>3. QED
      BY <3>2 DEF OfGroup!Next
  <2>5. CASE w.id \notin {Sts, Cm}
    <3>1. OfGroup!Forget
      BY <1>1, <2>2, <2>3, <2>5, OneObject DEF OfGroup!Forget
    <3>2. QED
      BY <3>1 DEF OfGroup!Next
  <2>6. QED
    BY <2>4, <2>5
<1>7. ASSUME NEW uid, NEW s, Managed!NewVersion(uid, s) PROVE OfGroup!NewVersion(uid, s)
  BY <1>4, <1>7 DEF Managed!NewVersion, OfGroup!NewVersion
<1>8. CASE Managed!Create \/ Managed!Edit \/ Managed!Delete
  <2>1. OfGroup!Create \/ OfGroup!Edit \/ OfGroup!Delete
    BY <1>7, <1>8 DEF Managed!Create, Managed!Edit, Managed!Delete,
                      OfGroup!Create, OfGroup!Edit, OfGroup!Delete
  <2>2. QED
    BY <2>1 DEF OfGroup!Next
<1>9. CASE Managed!Collect
  <2>1. PICK id \in Ids : /\ objs[id] # NoObject /\ objs[id].owner \notin {0, cr.uid}
                          /\ objs' = [objs EXCEPT ![id] = NoObject]
    BY <1>9 DEF Managed!Collect
  <2>2. UNCHANGED <<cr, Views>>
    BY <1>9 DEF Managed!Collect
  <2>3. CASE id \in {Sts, Cm}
    <3>1. OfGroup!Collect
      BY <1>1, <2>1, <2>2, <2>3, OneObject, GroupReads DEF OfGroup!Collect
    <3>2. QED
      BY <3>1 DEF OfGroup!Next
  <2>4. CASE id \notin {Sts, Cm}
    BY <1>1, <1>2, <2>1, <2>2, <2>4, OneObject
  <2>5. QED
    BY <2>3, <2>4
<1>10. CASE Managed!Tamper
  <2>1. PICK id \in Ids : /\ objs[id] # NoObject
                          /\ \E o \in {NoObject} \cup Edits(objs[id]) :
                               objs' = [objs EXCEPT ![id] = o]
    BY <1>10 DEF Managed!Tamper
  <2>2. UNCHANGED <<cr, Views>>
    BY <1>10 DEF Managed!Tamper
  <2>3. PICK o \in {NoObject} \cup Edits(objs[id]) : objs' = [objs EXCEPT ![id] = o]
    BY <2>1
  <2>4. CASE id \in {Sts, Cm}
    <3>1. GroupObjs[id] = objs[id] /\ GroupObjs' = [GroupObjs EXCEPT ![id] = o]
      BY <1>1, <2>3, <2>4, OneObject, GroupReads
    <3>2. /\ GroupObjs[id] # NoObject
          /\ \E e \in {NoObject} \cup Edits(GroupObjs[id]) :
               GroupObjs' = [GroupObjs EXCEPT ![id] = e]
      BY <2>1, <2>3, <3>1
    <3>3. OfGroup!Tamper
      BY <2>2, <2>4, <3>2 DEF OfGroup!Tamper
    <3>4. QED
      BY <3>3 DEF OfGroup!Next
  <2>5. CASE id \notin {Sts, Cm}
    BY <1>1, <1>2, <2>2, <2>3, <2>5, OneObject
  <2>6. QED
    BY <2>4, <2>5
<1>11. QED
  BY <1>1, <1>3, <1>5, <1>6, <1>8, <1>9, <1>10 DEF Managed!Next

LEMMA GroupInit == Init => OfGroup!Init
<1>1. SUFFICES ASSUME Init PROVE OfGroup!Init
  OBVIOUS
<1>2. GroupObjs = [id \in {Sts, Cm} |-> NoObject]
  BY <1>1, GroupIds DEF Init, GroupObjs
<1>3. QED
  BY <1>1, <1>2, InitImplements DEF Init, OfGroup!Init

(* For every role group, and any managers, specs, versions and faults: what *)
(* the operator does to the StatefulSet and the ConfigMap of the group is   *)
(* what RoleGroupPod assumes of it.                                         *)
THEOREM GroupImplements == Spec => GroupIsManaged
BY GroupInit, Projection, InitImplements, NextImplements, PassHasClusterNext,
   ReconcilerTypeCorrect, PTL
   DEF Spec, GroupIsManaged, OfGroup!Spec
==============================================================================

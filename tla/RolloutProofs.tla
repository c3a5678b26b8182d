---------------------------- MODULE RolloutProofs -----------------------------
(***************************************************************************)
(* What a write of the reconcile loop means for the cluster: whose object  *)
(* it makes, and what has been written before it.                          *)
(*                                                                         *)
(* Both rest on the uids.  The uid of a cluster is the version it was      *)
(* created with, so none that a manager or an object still carries can be  *)
(* the uid of a cluster created later.                                     *)
(***************************************************************************)
EXTENDS RefinementProofs

(* No uid is ahead of the versions, and every object has an owner. *)
Owned ==
    /\ \A v \in Views : v.uid <= cr.version
    /\ \A id \in Ids : Exists(id) => objs[id].owner \in 1..cr.version

LEMMA ViewTypes ==
    ASSUME TypeOK
    PROVE  /\ cr \in Views /\ cr.uid \in Nat /\ cr.version \in Nat
           /\ \A v \in Views : v.uid \in Nat
           /\ \A m \in Managers : InPass(m) => snap[m] \in Views
BY DEF TypeOK, Clusters, Views

(* Only a new version changes the cluster, and it leaves the objects. *)
LEMMA EnvironmentSubmits ==
    ASSUME TypeOK, Environment
    PROVE  \/ cr' = cr
           \/ /\ UNCHANGED <<objs, lapsed>>
              /\ cr'.version = cr.version + 1
              /\ \/ cr.uid = 0 /\ cr'.uid = cr.version + 1
                 \/ cr.uid # 0 /\ cr'.uid \in {0, cr.uid}
<1>1. ASSUME NEW uid, NEW s, NewVersion(uid, s)
      PROVE  /\ UNCHANGED <<objs, lapsed>>
             /\ cr'.version = cr.version + 1 /\ cr'.uid = uid
  BY <1>1 DEF NewVersion
<1>2. CASE UserCreate \/ UserEdit \/ UserDelete
  BY <1>1, <1>2 DEF UserCreate, UserEdit, UserDelete
<1>3. CASE GarbageCollect \/ PodsUp \/ PodsDown \/ Drift \/ InputChange
  BY <1>3 DEF GarbageCollect, PodsUp, PodsDown, Drift, InputChange
<1>4. QED
  BY <1>2, <1>3 DEF Environment

(* What others do to the objects of a cluster: one is deleted, by the       *)
(* garbage collector when its owner is gone, or loses its body and keeps    *)
(* its owner; unless the garbage collector did it, that is recorded.        *)
LEMMA EnvironmentTouches ==
    ASSUME TypeOK, Environment, NEW id \in Ids
    PROVE  \/ objs'[id] = objs[id]
           \/ objs'[id] = NoObject /\ objs[id].owner \notin {0, cr.uid} /\ cr' = cr
           \/ /\ objs'[id] = NoObject \/ (Exists(id) /\ objs'[id].owner = objs[id].owner)
              /\ id \in lapsed' /\ cr' = cr
<1>1. CASE UserCreate \/ UserEdit \/ UserDelete \/ PodsUp \/ PodsDown \/ InputChange
  BY <1>1 DEF UserCreate, UserEdit, UserDelete, NewVersion, PodsUp, PodsDown, InputChange
<1>2. CASE GarbageCollect
  <2>1. PICK i \in Ids : /\ objs[i].owner \notin {0, cr.uid}
                         /\ objs' = [objs EXCEPT ![i] = NoObject] /\ cr' = cr
    BY <1>2 DEF GarbageCollect
  <2>2. QED
    BY <2>1 DEF TypeOK
<1>3. CASE Drift
  <2>1. PICK i \in Ids : /\ Exists(i) /\ lapsed' = lapsed \cup {i} /\ cr' = cr
                         /\ \/ objs' = [objs EXCEPT ![i] = NoObject]
                            \/ \E o \in Edits(objs[i]) : objs' = [objs EXCEPT ![i] = o]
    BY <1>3 DEF Drift
  <2>2. CASE i # id
    BY <2>1, <2>2 DEF TypeOK
  <2>3. CASE i = id
    <3>1. objs'[id] = NoObject \/ objs'[id] \in Edits(objs[id])
      BY <2>1, <2>3 DEF TypeOK
    <3>2. \A o \in Edits(objs[id]) : o.owner = objs[id].owner
      BY DEF TypeOK, Objects, Edits
    <3>3. QED
      BY <2>1, <2>3, <3>1, <3>2
  <2>4. QED
    BY <2>2, <2>3
<1>4. QED
  BY <1>1, <1>2, <1>3 DEF Environment

(* What a manager does to them: it writes the object it is working on. *)
LEMMA ManagerTouches ==
    ASSUME TypeOK, NEW m \in Managers, ManagerStep(m), NEW id \in Ids
    PROVE  \/ objs'[id] = objs[id]
           \/ /\ pc[m] = "apply" /\ ObjectId(work[m].resource) = id
              /\ objs'[id] = work[m].object
<1>1. CASE ApplyWrite(m)
  <2>1. pc[m] = "apply" /\ objs' = [objs EXCEPT ![ObjectId(work[m].resource)] = work[m].object]
    BY <1>1 DEF ApplyWrite
  <2>2. QED
    BY <2>1 DEF TypeOK
<1>2. CASE ~ApplyWrite(m)
  BY <1>2, OnlyApplyWrites
<1>3. QED
  BY <1>1, <1>2

(* A reconcile's objects belong to a cluster that existed. *)
LEMMA WorkIsOwned ==
    ASSUME TypeOK, PassHasCluster, Owned, NEW m \in Managers, pc[m] = "apply"
    PROVE  work[m].object.owner = snap[m].uid /\ snap[m].uid \in 1..cr.version
<1>1. InPass(m) /\ snap[m].uid # 0
  BY DEF InPass, PassHasCluster
<1>2. QED
  BY <1>1, TypeWork, ViewTypes DEF Owned

LEMMA OwnedNext == TypeOK /\ PassHasCluster /\ Owned /\ [Next]_vars => Owned'
<1>1. SUFFICES ASSUME TypeOK, PassHasCluster, Owned, [Next]_vars PROVE Owned'
  OBVIOUS
<1>2. CASE UNCHANGED vars
  BY <1>1, <1>2 DEF vars, Owned, Views, InPass, Exists
<1>3. ASSUME NEW m \in Managers, ManagerStep(m) PROVE Owned'
  <2>1. cr' = cr /\ Views' \subseteq Views
    BY <1>1, <1>3, ViewsShrink
  <2>2. ASSUME NEW id \in Ids, Exists(id)' PROVE objs'[id].owner \in 1..cr'.version
    <3>1. CASE objs'[id] = objs[id]
      BY <1>1, <2>1, <2>2, <3>1 DEF Owned, Exists
    <3>2. CASE pc[m] = "apply" /\ objs'[id] = work[m].object
      BY <1>1, <2>1, <3>2, WorkIsOwned
    <3>3. QED
      BY <1>1, <1>3, <2>2, <3>1, <3>2, ManagerTouches
  <2>3. QED
    BY <1>1, <2>1, <2>2 DEF Owned
<1>4. CASE Environment
  <2>1. /\ cr.version \in Nat /\ cr.uid \in Nat /\ cr \in Views
        /\ \A v \in Views : v.uid \in Nat
    BY <1>1, ViewTypes
  <2>2. /\ cr'.version = cr.version \/ cr'.version = cr.version + 1
        /\ cr'.uid <= cr'.version
    BY <1>1, <1>4, <2>1, EnvironmentSubmits DEF Owned
  <2>3. Views' \subseteq Views \cup {cr'}
    BY <1>4, EnvironmentKeepsManagers DEF Views, InPass
  <2>4. \A v \in Views' : v.uid <= cr'.version
    BY <1>1, <2>1, <2>2, <2>3 DEF Owned
  <2>5. ASSUME NEW id \in Ids, Exists(id)' PROVE objs'[id].owner \in 1..cr'.version
    <3>1. objs'[id] # NoObject
      BY <2>5, NoObjectIsObject DEF Exists
    <3>2. Exists(id) /\ objs'[id].owner = objs[id].owner
      BY <1>1, <1>4, <2>5, <3>1, EnvironmentTouches DEF Exists
    <3>3. QED
      BY <1>1, <2>1, <2>2, <3>2 DEF Owned
  <2>6. QED
    BY <2>4, <2>5 DEF Owned
<1>5. QED
  BY <1>1, <1>2, <1>3, <1>4 DEF Next, ManagerStep

LEMMA OwnedInvariance == Spec => [](TypeOK /\ PassHasCluster /\ Owned)
<1>1. Init => PassHasCluster /\ Owned
  <2>1. SUFFICES ASSUME Init PROVE PassHasCluster /\ Owned
    OBVIOUS
  <2>2. Views = {cr} /\ cr.uid = 0 /\ cr.version = 0
    BY <2>1 DEF Init, Views, InPass, NoCluster
  <2>3. \A id \in Ids : ~Exists(id)
    BY <2>1, NoObjectIsObject DEF Init, Exists
  <2>4. QED
    BY <2>1, <2>2, <2>3 DEF Init, PassHasCluster, InPass, Owned
<1>2. QED
  BY <1>1, PassHasClusterNext, OwnedNext, ReconcilerTypeCorrect, PTL DEF Spec

-----------------------------------------------------------------------------
(* For any managers, specs and groups, and any number of versions and       *)
(* faults: what survives the garbage collector in a cluster was written by  *)
(* a reconcile of that cluster, not of one of the same name before it.      *)
THEOREM ClusterInheritsNothing == Spec => NothingInherited
<1> DEFINE Survives(id) ==
      Kept(id)' => \/ Kept(id) /\ cr'.uid = cr.uid
                   \/ \E m \in Managers : /\ pc[m] = "apply" /\ snap[m].uid = cr.uid
                                          /\ ObjectId(work[m].resource) = id
<1>1. ASSUME TypeOK, PassHasCluster, Owned, Next, NEW id \in Ids PROVE Survives(id)
  <2>1. SUFFICES ASSUME Kept(id)'
                 PROVE  \/ Kept(id) /\ cr'.uid = cr.uid
                        \/ \E m \in Managers : /\ pc[m] = "apply" /\ snap[m].uid = cr.uid
                                               /\ ObjectId(work[m].resource) = id
    OBVIOUS
  <2>2. ASSUME NEW m \in Managers, ManagerStep(m)
        PROVE  \/ Kept(id) /\ cr'.uid = cr.uid
               \/ /\ pc[m] = "apply" /\ snap[m].uid = cr.uid
                  /\ ObjectId(work[m].resource) = id
    <3>1. cr' = cr
      BY <1>1, <2>2, ViewsShrink
    <3>2. CASE objs'[id] = objs[id]
      BY <2>1, <3>1, <3>2 DEF Kept, Exists
    <3>3. CASE /\ pc[m] = "apply" /\ ObjectId(work[m].resource) = id
               /\ objs'[id] = work[m].object
      <4>1. objs'[id].owner \in {0, cr.uid}
        BY <2>1, <3>1 DEF Kept
      <4>2. objs'[id].owner = snap[m].uid /\ snap[m].uid # 0
        BY <1>1, <3>3, WorkIsOwned
      <4>3. QED
        BY <3>3, <4>1, <4>2
    <3>4. QED
      BY <1>1, <2>2, <3>2, <3>3, ManagerTouches
  <2>3. CASE Environment
    <3>1. objs'[id] # NoObject
      BY <2>1, NoObjectIsObject DEF Kept, Exists
    <3>2. Exists(id) /\ objs'[id].owner = objs[id].owner
      BY <1>1, <2>1, <2>3, <3>1, EnvironmentTouches DEF Kept, Exists
    <3>3. objs[id].owner \in 1..cr.version /\ cr.version \in Nat /\ cr.uid \in Nat
      BY <1>1, <3>2, ViewTypes DEF Owned
    <3>4. objs[id].owner \in {0, cr'.uid}
      BY <2>1, <3>2 DEF Kept
    <3>5. cr'.uid = cr.uid
      BY <1>1, <2>3, <3>3, <3>4, EnvironmentSubmits
    <3>6. QED
      BY <3>2, <3>4, <3>5 DEF Kept
  <2>4. QED
    BY <1>1, <2>2, <2>3 DEF Next, ManagerStep
<1>2. TypeOK /\ PassHasCluster /\ Owned /\ [Next]_vars => [\A id \in Ids : Survives(id)]_vars
  BY <1>1
<1>3. QED
  BY <1>2, OwnedInvariance, PTL DEF Spec, NothingInherited

-----------------------------------------------------------------------------
(* The order of a rollout.                                                  *)

(* Resource k of the reconcile that m is in is done, or was disturbed. *)
RolledOut(m, k) == ObjectId(k) \in lapsed \/ Applied(snap[m], k)

(* While the reconcile's cluster exists, what it has behind it is done; and *)
(* it works on the next resource.                                           *)
InOrder(m) ==
    /\ pc[m] \in {"build", "apply"} /\ snap[m].uid = cr.uid =>
         \A k \in RegisterResources(snap[m].spec) \ todo[m] : RolledOut(m, k)
    /\ pc[m] = "apply" => NextResource(todo[m], work[m].resource)

AllInOrder == \A m \in Managers : InOrder(m)

LEMMA BeforeIsAsymmetric ==
    /\ \A a, b \in Roles : ~(Before(RoleOrder, a, b) /\ Before(RoleOrder, b, a))
    /\ \A a, b \in Kinds :
         ~(/\ Before(RegisterResourceWithRoleGroup, a, b)
           /\ Before(RegisterResourceWithRoleGroup, b, a))
<1>1. ASSUME NEW a \in Roles PROVE Position(RoleOrder, a) \in 1..3
  <2>1. DOMAIN RoleOrder = 1..3 /\ \E i \in 1..3 : RoleOrder[i] = a
    BY <1>1 DEF Roles, RoleOrder
  <2>2. QED
    BY <2>1 DEF Position
<1>2. ASSUME NEW a \in Kinds PROVE Position(RegisterResourceWithRoleGroup, a) \in 1..4
  <2>1. /\ DOMAIN RegisterResourceWithRoleGroup = 1..4
        /\ \E i \in 1..4 : RegisterResourceWithRoleGroup[i] = a
    BY <1>2 DEF Kinds, RegisterResourceWithRoleGroup
  <2>2. QED
    BY <2>1 DEF Position
<1>3. QED
  BY <1>1, <1>2 DEF Before

(* What is registered before the next resource is not left to do. *)
LEMMA BeforeTheNext ==
    ASSUME NEW todos \in SUBSET Resources, NEW k \in Resources, NextResource(todos, k),
           NEW j \in Resources, RegisteredBefore(j, k)
    PROVE  j \notin todos
<1>1. j.role \in Roles /\ k.role \in Roles /\ j.kind \in Kinds /\ k.kind \in Kinds
  BY DEF Resources
<1>2. j # k
  BY <1>1, BeforeIsAsymmetric DEF RegisteredBefore
<1>3. ~Before(RoleOrder, k.role, j.role)
  BY <1>1, BeforeIsAsymmetric DEF RegisteredBefore
<1>4. j.role = k.role => /\ j.group = k.group
                         /\ ~Before(RegisterResourceWithRoleGroup, k.kind, j.kind)
  BY <1>1, BeforeIsAsymmetric DEF RegisteredBefore
<1>5. QED
  BY <1>2, <1>3, <1>4 DEF NextResource

(* The object just applied is rolled out, and so is every resource that     *)
(* shares it.                                                               *)
LEMMA FinishInOrder ==
    ASSUME TypeOK, NEW m \in Managers, pc[m] = "apply", InOrder(m),
           NextToBuild(m), cr' = cr,
           LET id == ObjectId(work[m].resource) IN
             /\ \A i \in Ids \ {id} : objs'[i] = objs[i]
             /\ \A i \in Ids \ {id} : i \in lapsed => i \in lapsed'
             /\ id \in lapsed' \/ objs'[id] = work[m].object
    PROVE  InOrder(m)'
<1> DEFINE k0 == work[m].resource
<1>1. snap' = snap /\ pc'[m] = "build" /\ todo'[m] = todo[m] \ {k0}
  BY DEF NextToBuild, TypeOK
<1>2. SUFFICES ASSUME snap[m].uid = cr.uid,
                      NEW k \in RegisterResources(snap[m].spec), k \notin todo[m] \/ k = k0
               PROVE  RolledOut(m, k)'
  BY <1>1 DEF InOrder
<1>3. CASE ObjectId(k) = ObjectId(k0)
  <2>1. k0 \in Sharing(snap[m].spec, k)
    BY <1>3, TypeWork DEF Sharing
  <2>2. ObjectId(k) \in lapsed' \/ objs'[ObjectId(k)] = work[m].object
    BY <1>3
  <2>3. QED
    BY <1>1, <2>1, <2>2, TypeWork DEF RolledOut, Applied
<1>4. CASE ObjectId(k) # ObjectId(k0)
  <2>1. ObjectId(k) \in Ids
    BY RegisteredAreResources, IdOfResource DEF TypeOK, Clusters
  <2>2. RolledOut(m, k)
    BY <1>2, <1>4 DEF InOrder
  <2>3. /\ objs'[ObjectId(k)] = objs[ObjectId(k)]
        /\ ObjectId(k) \in lapsed => ObjectId(k) \in lapsed'
    BY <1>4, <2>1
  <2>4. QED
    BY <1>1, <2>2, <2>3 DEF RolledOut, Applied
<1>5. QED
  BY <1>3, <1>4

LEMMA InOrderStep ==
    ASSUME TypeOK, NEW m \in Managers, InOrder(m), ManagerStep(m)
    PROVE  InOrder(m)'
<1>1. cr' = cr
  BY ViewsShrink
<1>2. ASSUME pc'[m] \notin {"build", "apply"} PROVE InOrder(m)'
  BY <1>2 DEF InOrder
<1>3. ASSUME NEW how, Return(m, how) PROVE InOrder(m)'
  BY <1>2, <1>3, TypeEndPass DEF Return
<1>4. CASE PanicRecovered(m) \/ ReconcileFails(m) \/ ApplyConflict(m)
           \/ ApplyFails(m) \/ ReadyEnd(m)
  BY <1>3, <1>4 DEF PanicRecovered, ReconcileFails, ApplyConflict, ApplyFails, ReadyEnd
<1>5. CASE ReconcileNotFound(m) \/ WatchCluster(m) \/ WatchObject(m) \/ Resync(m)
  <2>1. UNCHANGED <<pc, snap, todo, work, objs, lapsed>>
    BY <1>5 DEF ReconcileNotFound, WatchCluster, WatchObject, Resync, passVars, apiVars
  <2>2. QED
    BY <1>1, <2>1 DEF InOrder, RolledOut, Applied
<1>6. CASE ReconcilePanic(m) \/ ReadyBegin(m)
  BY <1>2, <1>6 DEF ReconcilePanic, ReadyBegin, TypeOK
<1>7. CASE Restart(m)
  BY <1>2, <1>7, TypeEndPass DEF Restart
<1>8. CASE Reconcile(m)
  BY <1>8 DEF Reconcile, TypeOK, InOrder
<1>9. CASE BuildResource(m)
  <2>1. PICK k \in todo[m] :
          /\ NextResource(todo[m], k)
          /\ \/ Return(m, "error")
             \/ /\ pc' = [pc EXCEPT ![m] = "apply"] /\ UNCHANGED <<snap, todo>>
                /\ work' = [work EXCEPT ![m] =
                              [resource |-> k,
                               object   |-> [owner |-> OwnerReference(snap[m]),
                                             body  |-> Build(snap[m].spec, k, input)]]]
    BY <1>9 DEF BuildResource
  <2>2. UNCHANGED <<objs, lapsed>> /\ pc[m] = "build"
    BY <1>9 DEF BuildResource, apiVars
  <2>3. CASE ~Return(m, "error")
    <3>1. work'[m].resource = k
      BY <2>1, <2>3 DEF TypeOK
    <3>2. QED
      BY <1>1, <2>1, <2>2, <2>3, <3>1 DEF InOrder, RolledOut, Applied
  <2>4. QED
    BY <1>3, <2>3
<1>10. CASE ApplyUnchanged(m)
  <2>1. /\ UNCHANGED objs /\ pc[m] = "apply" /\ NextToBuild(m)
        /\ lapsed' = IF objs[ObjectId(work[m].resource)] = work[m].object
                       THEN lapsed \ {ObjectId(work[m].resource)}
                       ELSE lapsed \cup {ObjectId(work[m].resource)}
    BY <1>10 DEF ApplyUnchanged, apiVars
  <2>2. QED
    BY <1>1, <2>1, FinishInOrder
<1>11. CASE ApplyWrite(m)
  <2>1. /\ pc[m] = "apply" /\ lapsed' = lapsed \ {ObjectId(work[m].resource)}
        /\ objs' = [objs EXCEPT ![ObjectId(work[m].resource)] = work[m].object]
        /\ NextToBuild(m) \/ Return(m, "requeue")
    BY <1>11 DEF ApplyWrite
  <2>2. /\ \A i \in Ids \ {ObjectId(work[m].resource)} : objs'[i] = objs[i]
        /\ objs'[ObjectId(work[m].resource)] = work[m].object
    BY <2>1, TypeWork DEF TypeOK
  <2>3. QED
    BY <1>1, <1>3, <2>1, <2>2, FinishInOrder
<1>12. CASE ReadyCheck(m)
  <2>1. pc[m] = "ready" /\ (UNCHANGED pc \/ \E how : Return(m, how))
    BY <1>12 DEF ReadyCheck
  <2>2. QED
    BY <1>2, <1>3, <2>1
<1>13. QED
  BY <1>4, <1>5, <1>6, <1>7, <1>8, <1>9, <1>10, <1>11, <1>12 DEF ManagerStep, Step

(* A new version has another uid or the same objects; others only touch     *)
(* objects that are recorded, or that belong to another cluster.            *)
LEMMA InOrderEnvironment ==
    ASSUME TypeOK, PassHasCluster, Owned, NEW m \in Managers, InOrder(m), Environment
    PROVE  InOrder(m)'
<1>1. UNCHANGED <<pc, snap, todo, work>>
  BY EnvironmentKeepsManagers
<1>2. lapsed \subseteq lapsed'
  BY DEF Environment, UserCreate, UserEdit, UserDelete, NewVersion, GarbageCollect, PodsUp,
         PodsDown, Drift, InputChange
<1>3. SUFFICES ASSUME pc[m] \in {"build", "apply"}, snap[m].uid = cr'.uid,
                      NEW k \in RegisterResources(snap[m].spec) \ todo[m]
               PROVE  RolledOut(m, k)'
  BY <1>1 DEF InOrder
<1>4. snap[m].uid \in 1..cr.version /\ cr.version \in Nat /\ cr.uid \in Nat
  <2>1. InPass(m) /\ snap[m].uid # 0
    BY <1>3 DEF InPass, PassHasCluster
  <2>2. QED
    BY <2>1, ViewTypes DEF Owned
<1>5. snap[m].uid = cr.uid
  BY <1>3, <1>4, EnvironmentSubmits
<1>6. RolledOut(m, k)
  BY <1>3, <1>5 DEF InOrder
<1>7. ObjectId(k) \in Ids
  BY RegisteredAreResources, IdOfResource DEF TypeOK, Clusters
<1>8. CASE ObjectId(k) \in lapsed'
  BY <1>8 DEF RolledOut
<1>9. CASE ObjectId(k) \notin lapsed'
  <2>1. Applied(snap[m], k)
    BY <1>2, <1>6, <1>9 DEF RolledOut
  <2>2. objs[ObjectId(k)].owner = cr.uid
    BY <1>5, <2>1 DEF Applied
  <2>3. objs'[ObjectId(k)] = objs[ObjectId(k)]
    BY <1>7, <1>9, <2>2, EnvironmentTouches
  <2>4. QED
    BY <1>1, <2>1, <2>3 DEF RolledOut, Applied
<1>10. QED
  BY <1>8, <1>9

(* A single copy of the manager, whatever the specs, groups, versions and   *)
(* faults, writes an object only when all that is registered before it is   *)
(* what this reconcile asks for.  (With two copies, the other one may have  *)
(* written an older version back in between.)                               *)
THEOREM LoneManagerRollsOutInOrder ==
    ASSUME NEW lone \in Managers, Managers = {lone}
    PROVE  Spec => RolledOutInOrder
<1> DEFINE Inv == TypeOK /\ PassHasCluster /\ Owned
<1>1. Init => AllInOrder
  BY DEF Init, InOrder, AllInOrder
<1>2. Inv /\ AllInOrder /\ [Next]_vars => AllInOrder'
  <2>1. SUFFICES ASSUME Inv, InOrder(lone), [Next]_vars PROVE InOrder(lone)'
    BY DEF AllInOrder
  <2>2. CASE UNCHANGED vars
    BY <2>1, <2>2 DEF vars, InOrder, RolledOut, Applied
  <2>3. CASE ManagerStep(lone)
    BY <2>1, <2>3, InOrderStep
  <2>4. CASE Environment
    BY <2>1, <2>4, InOrderEnvironment
  <2>5. QED
    BY <2>1, <2>2, <2>3, <2>4 DEF Next, ManagerStep
<1> DEFINE Written(m) ==
      pc[m] = "apply" /\ objs' # objs /\ pc' # pc /\ snap[m].uid = cr.uid =>
        \A j \in RegisterResources(snap[m].spec) :
          RegisteredBefore(j, work[m].resource) =>
            ObjectId(j) \in lapsed \/ Applied(snap[m], j)
<1>3. Inv /\ AllInOrder => \A m \in Managers : Written(m)
  <2>1. SUFFICES ASSUME Inv, InOrder(lone), pc[lone] = "apply", snap[lone].uid = cr.uid,
                        NEW j \in RegisterResources(snap[lone].spec),
                        RegisteredBefore(j, work[lone].resource)
                 PROVE  RolledOut(lone, j)
    BY DEF RolledOut, AllInOrder
  <2>2. /\ RegisterResources(snap[lone].spec) \subseteq Resources
        /\ todo[lone] \subseteq Resources
    BY <2>1, RegisteredAreResources DEF TypeOK, Clusters
  <2>3. work[lone].resource \in Resources /\ NextResource(todo[lone], work[lone].resource)
    BY <2>1, <2>2, TypeWork DEF InOrder
  <2>4. j \notin todo[lone]
    BY <2>1, <2>2, <2>3, BeforeTheNext
  <2>5. QED
    BY <2>1, <2>4 DEF InOrder
<1>4. Inv /\ AllInOrder => [\A m \in Managers : Written(m)]_vars
  BY <1>3
<1>5. QED
  BY <1>1, <1>2, <1>4, OwnedInvariance, PTL DEF Spec, RolledOutInOrder
==============================================================================

------------------------ MODULE HbaseReconcilerProofs -------------------------
(***************************************************************************)
(* The reconcile loop does not stop early, for any set of managers, specs, *)
(* role groups and inputs, and any number of versions and faults.          *)
(*                                                                         *)
(* QuietMeansConverged speaks of quiet states only, so it is not inductive.*)
(* What is: as long as a resource of the current cluster is not what it    *)
(* should be, some manager still owes it.  Either that manager will look   *)
(* at the cluster again (its key is queued, or its cache is behind), or it *)
(* is in a reconcile of exactly this version and has not come to the       *)
(* resource yet.                                                           *)
(***************************************************************************)
EXTENDS HbaseReconciler, TLAPS

(* A manager in the middle of a reconcile of an outdated cluster is called  *)
(* again: a new version moves the cache and queues the key in one step.     *)
Current == \A m \in Managers : InPass(m) /\ snap[m] # cached[m] => m \in queued

(* Manager m will read the cluster again. *)
Behind(m) == m \in queued \/ cached[m] # cr

(* Manager m has yet to apply k, or yet to find it ready. *)
Applying(m, k) == pc[m] \in {"build", "apply"} /\ snap[m] = cr /\ k \in todo[m]
Checking(m, k) ==
    /\ snap[m] = cr
    /\ pc[m] \in {"build", "apply"} \/ (pc[m] = "ready" /\ k \in todo[m])

OwedApplied(k) == \/ ObjectId(k) \in lapsed \/ Applied(cr, k)
                  \/ \E m \in Managers : Behind(m) \/ Applying(m, k)
OwedReady(k) == \/ ObjectId(k) \in lapsed \/ ObjectId(k) \in ready
                \/ \E m \in Managers : Behind(m) \/ Checking(m, k)

Owed == Sound(cr) => \A k \in RegisterResources(cr.spec) :
                        /\ OwedApplied(k)
                        /\ k.kind = "StatefulSet" => OwedReady(k)

IInv == TypeOK /\ Current /\ Owed

-----------------------------------------------------------------------------
(* Facts about the resources.                                               *)

(* What a spec registers are resources: its groups are role groups. *)
LEMMA RegisteredAreResources ==
    ASSUME NEW s \in Specs
    PROVE  RegisterResources(s) \subseteq Resources
<1>1. \A r \in DOMAIN s.roles : r \in Roles /\ DOMAIN s.roles[r] \subseteq Groups
  BY ConstantsAssumption DEF IsSpec
<1>2. ASSUME NEW role \in Roles PROVE RoleGroupResources(s, role) \subseteq Resources
  BY <1>1, <1>2 DEF RoleGroupResources, Resources
<1>3. QED
  BY <1>2 DEF RegisterResources, MasterResources, RegionServerResources,
              RestServerResources, Roles

LEMMA IdOfResource == ASSUME NEW k \in Resources PROVE ObjectId(k) \in Ids
BY DEF Ids

(* What a builder makes is an object, never its absence. *)
LEMMA BuiltIsObject ==
    ASSUME NEW s \in Specs, NEW k \in RegisterResources(s), NEW b \in Desired(s, k)
    PROVE  b \in Bodies /\ b.kind # "none"
<1>1. b \in Bodies
  BY DEF Bodies
<1>2. k.kind \in {"StatefulSet", "Service", "ConfigMap", "MetricsService"}
  <2>1. k \in Resources
    BY RegisteredAreResources
  <2>2. QED
    BY <2>1 DEF Resources, Kinds, RegisterResourceWithRoleGroup
<1>3. PICK in \in Inputs : b = Build(s, k, in)
  BY DEF Desired
<1>4. b.kind \in {"StatefulSet", "Service", "ConfigMap", "MetricsService"}
  BY <1>2, <1>3
     DEF Build, BuildStatefulSet, BuildService, BuildConfigMap, BuildMetricsService
<1>5. QED
  BY <1>1, <1>4

LEMMA NoClusterIsCluster == NoCluster \in Clusters
<1>1. (CHOOSE s \in Specs : TRUE) \in Specs
  BY ConstantsAssumption
<1>2. QED
  BY <1>1 DEF NoCluster, Clusters

LEMMA NoObjectIsObject == NoObject \in Objects /\ NoObject.body.kind = "none"
BY DEF NoObject, Objects, Bodies

-----------------------------------------------------------------------------
(* Type correctness.                                                        *)

LEMMA TypeInit == Init => TypeOK
<1>1. SUFFICES ASSUME Init PROVE TypeOK
  OBVIOUS
<1>2. cr \in Clusters /\ cr = NoCluster
  BY <1>1, NoClusterIsCluster DEF Init
<1>3. objs \in [Ids -> Objects] /\ objs = [id \in Ids |-> NoObject]
  BY <1>1, NoObjectIsObject DEF Init
<1>4. cr.version \in Nat /\ cr.version <= cr.version
  BY <1>2 DEF Clusters
<1>5. QED
  BY <1>1, <1>2, <1>3, <1>4, NoClusterIsCluster, ManagersAssumption DEF Init, TypeOK

(* The end of a reconcile leaves the four variables of the pass well typed. *)
LEMMA TypeEndPass ==
    ASSUME TypeOK, NEW m \in Managers, EndPass(m)
    PROVE  /\ pc' \in [Managers -> {"idle", "panic", "build", "apply", "ready"}]
           /\ snap' \in [Managers -> Clusters]
           /\ todo' \in [Managers -> SUBSET Resources]
           /\ DOMAIN work' = Managers
           /\ pc'[m] = "idle" /\ todo'[m] = {}
           /\ \A n \in Managers \ {m} : /\ pc'[n] = pc[n] /\ snap'[n] = snap[n]
                                        /\ todo'[n] = todo[n] /\ work'[n] = work[n]
BY NoClusterIsCluster DEF TypeOK, EndPass

LEMMA TypeReturn ==
    ASSUME TypeOK, NEW m \in Managers, NEW how, Return(m, how),
           UNCHANGED <<cr, objs, input, ready, cached, seen, lapsed>>,
           faults' \in 0..MaxFaults
    PROVE  TypeOK'
<1>1. EndPass(m) /\ queued' \subseteq Managers
  BY DEF Return, TypeOK
<1>2. \A n \in Managers : todo'[n] \subseteq RegisterResources(snap'[n].spec)
  BY <1>1, TypeEndPass DEF TypeOK
<1>3. QED
  BY <1>1, <1>2, TypeEndPass DEF TypeOK, Exists

(* What is being applied is a resource of the cluster read, and an object. *)
LEMMA TypeWork ==
    ASSUME TypeOK, NEW m \in Managers, pc[m] = "apply"
    PROVE  /\ work[m].resource \in RegisterResources(snap[m].spec)
           /\ ObjectId(work[m].resource) \in Ids
           /\ work[m].object \in Objects
           /\ work[m].object.body.kind # "none"
           /\ work[m].object.owner = snap[m].uid
           /\ work[m].object.body \in Desired(snap[m].spec, work[m].resource)
<1>1. snap[m].spec \in Specs /\ snap[m].uid \in Nat
  BY DEF TypeOK, Clusters
<1>2. work[m].resource \in RegisterResources(snap[m].spec)
  BY DEF TypeOK
<1>3. ObjectId(work[m].resource) \in Ids
  BY <1>1, <1>2, RegisteredAreResources, IdOfResource
<1>4. work[m].object.body \in Bodies /\ work[m].object.body.kind # "none"
  BY <1>1, <1>2, BuiltIsObject DEF TypeOK
<1>5. work[m].object = [owner |-> snap[m].uid, body |-> work[m].object.body]
  BY DEF TypeOK
<1>6. work[m].object \in Objects /\ work[m].object.owner = snap[m].uid
  BY <1>1, <1>4, <1>5 DEF Objects
<1>7. work[m].object.body \in Desired(snap[m].spec, work[m].resource)
  BY DEF TypeOK
<1>8. QED
  BY <1>2, <1>3, <1>4, <1>6, <1>7

LEMMA TypeNextToBuild ==
    ASSUME TypeOK, NEW m \in Managers, NextToBuild(m),
           cr' = cr, cached' = cached
    PROVE  /\ pc' \in [Managers -> {"idle", "panic", "build", "apply", "ready"}]
           /\ snap' \in [Managers -> Clusters]
           /\ todo' \in [Managers -> SUBSET Resources]
           /\ DOMAIN work' = Managers
           /\ \A n \in Managers :
                /\ todo'[n] \subseteq RegisterResources(snap'[n].spec)
                /\ n # m => pc'[n] = pc[n] /\ todo'[n] = todo[n] /\ work'[n] = work[n]
           /\ pc'[m] = "build"
BY DEF TypeOK, NextToBuild

LEMMA TypeNext == TypeOK /\ [Next]_vars => TypeOK'
<1>1. SUFFICES ASSUME TypeOK, [Next]_vars PROVE TypeOK'
  OBVIOUS
<1>2. ASSUME NEW m \in Managers, ReconcileNotFound(m) PROVE TypeOK'
  BY <1>1, <1>2 DEF TypeOK, ReconcileNotFound, passVars, apiVars, Exists
<1>3. ASSUME NEW m \in Managers, ReconcilePanic(m) PROVE TypeOK'
  BY <1>1, <1>3 DEF TypeOK, ReconcilePanic, apiVars, Exists
<1>4. ASSUME NEW m \in Managers, PanicRecovered(m) PROVE TypeOK'
  BY <1>1, <1>4, TypeReturn DEF TypeOK, PanicRecovered, apiVars
<1>5. ASSUME NEW m \in Managers, ReconcileFails(m) PROVE TypeOK'
  <2>1. faults' \in 0..MaxFaults
    BY <1>1, <1>5, ManagersAssumption DEF TypeOK, ReconcileFails, Fault
  <2>2. QED
    BY <1>1, <1>5, <2>1, TypeReturn DEF ReconcileFails, apiVars
<1>6. ASSUME NEW m \in Managers, Reconcile(m) PROVE TypeOK'
  <2>1. RegisterResources(cached[m].spec) \subseteq Resources
    BY <1>1, RegisteredAreResources DEF TypeOK, Clusters
  <2>2. QED
    BY <1>1, <1>6, <2>1 DEF TypeOK, Reconcile, apiVars, Exists
<1>7. ASSUME NEW m \in Managers, BuildResource(m) PROVE TypeOK'
  <2>1. PICK k \in todo[m] :
          \/ Return(m, "error")
          \/ /\ ~BuildFails(snap[m].spec, k, input)
             /\ pc' = [pc EXCEPT ![m] = "apply"]
             /\ work' = [work EXCEPT ![m] =
                           [resource |-> k,
                            object   |-> [owner |-> OwnerReference(snap[m]),
                                          body  |-> Build(snap[m].spec, k, input)]]]
             /\ UNCHANGED <<queued, snap, todo>>
    BY <1>7 DEF BuildResource
  <2>2. UNCHANGED <<cr, objs, input, ready, cached, seen, lapsed, faults>>
    BY <1>7 DEF BuildResource, apiVars
  <2>3. CASE Return(m, "error")
    BY <1>1, <2>2, <2>3, TypeReturn DEF TypeOK
  <2>4. CASE /\ ~BuildFails(snap[m].spec, k, input)
             /\ pc' = [pc EXCEPT ![m] = "apply"]
             /\ work' = [work EXCEPT ![m] =
                           [resource |-> k,
                            object   |-> [owner |-> OwnerReference(snap[m]),
                                          body  |-> Build(snap[m].spec, k, input)]]]
             /\ UNCHANGED <<queued, snap, todo>>
    <3>1. Build(snap[m].spec, k, input) \in Desired(snap[m].spec, k)
      BY <1>1, <2>4 DEF TypeOK, Desired
    <3>2. work'[m] = [resource |-> k,
                      object   |-> [owner |-> snap[m].uid,
                                    body  |-> Build(snap[m].spec, k, input)]]
      BY <1>1, <2>4 DEF TypeOK, OwnerReference
    <3>3. \A n \in Managers : n # m => work'[n] = work[n] /\ pc'[n] = pc[n]
      BY <1>1, <2>4 DEF TypeOK
    <3>4. QED
      BY <1>1, <2>2, <2>4, <3>1, <3>2, <3>3 DEF TypeOK, Exists
  <2>5. QED
    BY <2>1, <2>3, <2>4
<1>8. ASSUME NEW m \in Managers, ApplyUnchanged(m) PROVE TypeOK'
  <2>1. /\ pc[m] = "apply" /\ NextToBuild(m)
        /\ UNCHANGED <<cr, objs, input, ready, cached, faults, queued, snap>>
        /\ seen' = [seen EXCEPT ![m][ObjectId(work[m].resource)] = work[m].object]
        /\ lapsed' \subseteq lapsed \cup {ObjectId(work[m].resource)}
    BY <1>8 DEF ApplyUnchanged, NextToBuild, apiVars
  <2>2. seen' \in [Managers -> [Ids -> Objects]] /\ lapsed' \subseteq Ids
    BY <1>1, <2>1, TypeWork DEF TypeOK
  <2>3. QED
    BY <1>1, <2>1, <2>2, TypeNextToBuild DEF TypeOK, Exists
<1>9. ASSUME NEW m \in Managers, ApplyWrite(m) PROVE TypeOK'
  <2> DEFINE id == ObjectId(work[m].resource)
  <2>1. /\ pc[m] = "apply"
        /\ objs' = [objs EXCEPT ![id] = work[m].object]
        /\ seen' = [seen EXCEPT ![m][id] = objs[id]]
        /\ lapsed' = lapsed \ {id}
        /\ ready' \subseteq ready
        /\ UNCHANGED <<cr, input, cached, faults>>
    BY <1>9 DEF ApplyWrite
  <2>2. id \in Ids /\ work[m].object \in Objects /\ work[m].object.body.kind # "none"
    BY <1>1, <2>1, TypeWork
  <2>3. /\ objs' \in [Ids -> Objects]
        /\ seen' \in [Managers -> [Ids -> Objects]]
        /\ lapsed' \subseteq Ids
    BY <1>1, <2>1, <2>2 DEF TypeOK
  <2>4. ready' \subseteq {i \in Ids : objs'[i].body.kind # "none"}
    BY <1>1, <2>1, <2>2 DEF TypeOK, Exists
  <2>5. CASE NextToBuild(m)
    <3>1. UNCHANGED <<queued, snap>>
      BY <2>5 DEF NextToBuild
    <3>2. QED
      BY <1>1, <2>1, <2>3, <2>4, <2>5, <3>1, TypeNextToBuild DEF TypeOK, Exists
  <2>6. CASE Return(m, "requeue")
    <3>1. EndPass(m) /\ queued' \subseteq Managers
      BY <1>1, <2>6 DEF Return, TypeOK
    <3>2. \A n \in Managers : todo'[n] \subseteq RegisterResources(snap'[n].spec)
      BY <1>1, <3>1, TypeEndPass DEF TypeOK
    <3>3. \A n \in Managers : pc'[n] = "apply" =>
            pc[n] = "apply" /\ work'[n] = work[n] /\ todo'[n] = todo[n] /\ snap'[n] = snap[n]
      BY <1>1, <3>1, TypeEndPass
    <3>4. \A n \in Managers : pc'[n] = "apply" =>
            /\ work'[n].resource \in todo'[n]
            /\ work'[n].object = [owner |-> snap'[n].uid, body |-> work'[n].object.body]
            /\ work'[n].object.body \in Desired(snap'[n].spec, work'[n].resource)
      BY <1>1, <3>3 DEF TypeOK
    <3>5. /\ pc' \in [Managers -> {"idle", "panic", "build", "apply", "ready"}]
          /\ snap' \in [Managers -> Clusters]
          /\ todo' \in [Managers -> SUBSET Resources]
          /\ DOMAIN work' = Managers
      BY <1>1, <3>1, TypeEndPass
    <3>6. QED
      BY <1>1, <2>1, <2>3, <2>4, <3>1, <3>2, <3>4, <3>5 DEF TypeOK, Exists
  <2>7. QED
    BY <1>9, <2>5, <2>6 DEF ApplyWrite
<1>10. ASSUME NEW m \in Managers, ApplyConflict(m) PROVE TypeOK'
  BY <1>1, <1>10, TypeReturn DEF TypeOK, ApplyConflict, apiVars
<1>11. ASSUME NEW m \in Managers, ApplyFails(m) PROVE TypeOK'
  <2>1. faults' \in 0..MaxFaults
    BY <1>1, <1>11, ManagersAssumption DEF TypeOK, ApplyFails, Fault
  <2>2. QED
    BY <1>1, <1>11, <2>1, TypeReturn DEF ApplyFails, apiVars
<1>12. ASSUME NEW m \in Managers, ReadyBegin(m) PROVE TypeOK'
  <2>1. RegisterResources(snap[m].spec) \subseteq Resources
    BY <1>1, RegisteredAreResources DEF TypeOK, Clusters
  <2>2. QED
    BY <1>1, <1>12, <2>1 DEF TypeOK, ReadyBegin, apiVars, Exists
<1>13. ASSUME NEW m \in Managers, ReadyCheck(m) PROVE TypeOK'
  <2>1. UNCHANGED <<cr, objs, input, ready, cached, seen, lapsed, faults>>
    BY <1>13 DEF ReadyCheck, apiVars
  <2>2. CASE \E how : Return(m, how)
    BY <1>1, <2>1, <2>2, TypeReturn DEF TypeOK
  <2>3. CASE \E k \in todo[m] : /\ todo' = [todo EXCEPT ![m] = @ \ {k}]
                                /\ UNCHANGED <<pc, snap, work, queued>>
    <3>1. pc[m] = "ready"
      BY <1>13 DEF ReadyCheck
    <3>2. /\ todo' \in [Managers -> SUBSET Resources]
          /\ \A n \in Managers : todo'[n] \subseteq todo[n] /\ (n # m => todo'[n] = todo[n])
      BY <1>1, <2>3 DEF TypeOK
    <3>3. \A n \in Managers :
            /\ todo'[n] \subseteq RegisterResources(snap[n].spec)
            /\ pc[n] = "apply" => work[n].resource \in todo'[n]
      BY <1>1, <3>1, <3>2 DEF TypeOK
    <3>4. QED
      BY <1>1, <2>1, <2>3, <3>2, <3>3 DEF TypeOK, Exists
  <2>4. QED
    BY <1>13, <2>2, <2>3 DEF ReadyCheck
<1>14. ASSUME NEW m \in Managers, ReadyEnd(m) PROVE TypeOK'
  BY <1>1, <1>14, TypeReturn DEF TypeOK, ReadyEnd, apiVars
<1>15. ASSUME NEW m \in Managers, WatchCluster(m) PROVE TypeOK'
  BY <1>1, <1>15 DEF TypeOK, WatchCluster, passVars, apiVars, Exists, Clusters
<1>16. ASSUME NEW m \in Managers, WatchObject(m) PROVE TypeOK'
  BY <1>1, <1>16 DEF TypeOK, WatchObject, passVars, apiVars, Exists
<1>17. ASSUME NEW m \in Managers, Resync(m) PROVE TypeOK'
  BY <1>1, <1>17 DEF TypeOK, Resync, passVars, apiVars, Exists
<1>18. ASSUME NEW m \in Managers, Restart(m) PROVE TypeOK'
  <2>1. /\ EndPass(m) /\ UNCHANGED <<cr, objs, input, ready, lapsed>>
        /\ cached' = [cached EXCEPT ![m] = cr] /\ seen' = [seen EXCEPT ![m] = objs]
    BY <1>18 DEF Restart, apiVars
  <2>2. faults' \in 0..MaxFaults /\ queued' \subseteq Managers
    BY <1>1, <1>18, ManagersAssumption DEF TypeOK, Restart, Fault
  <2>3. /\ cached' \in [Managers -> Clusters] /\ seen' \in [Managers -> [Ids -> Objects]]
        /\ \A n \in Managers : cached'[n].version <= cr.version
    <3>1. cr.version <= cr.version
      BY <1>1 DEF TypeOK, Clusters
    <3>2. QED
      BY <1>1, <2>1, <3>1 DEF TypeOK
  <2>4. \A n \in Managers : todo'[n] \subseteq RegisterResources(snap'[n].spec)
    BY <1>1, <2>1, TypeEndPass DEF TypeOK
  <2>5. QED
    BY <1>1, <2>1, <2>2, <2>3, <2>4, TypeEndPass DEF TypeOK, Exists
<1>19. ASSUME NEW uid \in Nat, NEW s \in Specs, NewVersion(uid, s) PROVE TypeOK'
  <2>1. /\ cr' = [uid |-> uid, version |-> cr.version + 1, spec |-> s]
        /\ UNCHANGED <<objs, input, ready, cached, seen, queued, pc, snap, todo, work,
                       lapsed, faults>>
    BY <1>19 DEF NewVersion, envUnchanged, passVars
  <2>2. /\ cr.version \in Nat
        /\ \A n \in Managers : cached[n].version \in Nat /\ cached[n].version <= cr.version
    BY <1>1 DEF TypeOK, Clusters
  <2>3. cr' \in Clusters /\ cr'.version = cr.version + 1
    BY <2>1, <2>2 DEF Clusters
  <2>4. \A n \in Managers : cached[n].version <= cr'.version
    BY <2>2, <2>3
  <2>5. QED
    BY <1>1, <2>1, <2>3, <2>4 DEF TypeOK, Exists
<1>20. ASSUME UserCreate \/ UserEdit \/ UserDelete PROVE TypeOK'
  <2>1. cr.uid \in Nat /\ cr.version + 1 \in Nat /\ cr.spec \in Specs
    BY <1>1 DEF TypeOK, Clusters
  <2>2. QED
    BY <1>19, <1>20, <2>1 DEF UserCreate, UserEdit, UserDelete
<1>21. ASSUME GarbageCollect PROVE TypeOK'
  BY <1>1, <1>21, NoObjectIsObject
     DEF TypeOK, GarbageCollect, envUnchanged, passVars, Exists
<1>22. ASSUME PodsUp PROVE TypeOK'
  BY <1>1, <1>22 DEF TypeOK, PodsUp, envUnchanged, passVars, Exists
<1>23. ASSUME PodsDown PROVE TypeOK'
  BY <1>1, <1>23, ManagersAssumption DEF TypeOK, PodsDown, Fault, envUnchanged, passVars, Exists
<1>24. ASSUME Drift PROVE TypeOK'
  <2>1. PICK id \in Ids :
          /\ Exists(id)
          /\ \/ /\ objs' = [objs EXCEPT ![id] = NoObject]
                /\ ready' = ready \ {id}
             \/ /\ \E o \in Edits(objs[id]) : objs' = [objs EXCEPT ![id] = o]
                /\ UNCHANGED ready
          /\ lapsed' = lapsed \cup {id}
    BY <1>24 DEF Drift
  <2>2. UNCHANGED <<cr, input, cached, seen, queued, pc, snap, todo, work>>
    BY <1>24 DEF Drift, envUnchanged, passVars
  <2>3. faults' \in 0..MaxFaults
    BY <1>1, <1>24, ManagersAssumption DEF TypeOK, Drift, Fault
  <2>4. ASSUME NEW o \in Edits(objs[id]) PROVE o \in Objects /\ o.body.kind # "none"
    BY <1>1, <2>1, <2>4 DEF TypeOK, Edits, Exists, Objects, Bodies
  <2>5. objs' \in [Ids -> Objects]
    BY <1>1, <2>1, <2>4, NoObjectIsObject DEF TypeOK
  <2>6. ready' \subseteq {i \in Ids : objs'[i].body.kind # "none"}
    BY <1>1, <2>1, <2>4 DEF TypeOK, Exists
  <2>7. QED
    BY <1>1, <2>1, <2>2, <2>3, <2>5, <2>6 DEF TypeOK, Exists
<1>25. ASSUME InputChange PROVE TypeOK'
  BY <1>1, <1>25, ManagersAssumption
     DEF TypeOK, InputChange, Fault, envUnchanged, passVars, Exists
<1>26. ASSUME UNCHANGED vars PROVE TypeOK'
  BY <1>1, <1>26 DEF TypeOK, vars, Exists
<1>27. QED
  BY <1>1, <1>2, <1>3, <1>4, <1>5, <1>6, <1>7, <1>8, <1>9, <1>10, <1>11, <1>12, <1>13,
     <1>14, <1>15, <1>16, <1>17, <1>18, <1>20, <1>21, <1>22, <1>23, <1>24, <1>25, <1>26
     DEF Next, Step, Environment

-----------------------------------------------------------------------------
(* What a manager's step leaves alone: the cluster, and the other managers. *)
OthersKept(m) ==
    /\ cr' = cr
    /\ \A n \in Managers \ {m} :
         /\ pc'[n] = pc[n] /\ snap'[n] = snap[n] /\ todo'[n] = todo[n]
         /\ cached'[n] = cached[n]
         /\ n \in queued <=> n \in queued'

LEMMA ReturnKeepsOthers ==
    ASSUME TypeOK, NEW m \in Managers, NEW how, Return(m, how), UNCHANGED <<cr, cached>>
    PROVE  OthersKept(m) /\ pc'[m] = "idle"
BY TypeEndPass DEF OthersKept, Return

LEMMA StepKeepsOthers ==
    ASSUME TypeOK, NEW m \in Managers,
           \/ Step(m) \/ ReconcileFails(m) \/ ApplyFails(m)
           \/ WatchCluster(m) \/ WatchObject(m) \/ Resync(m) \/ Restart(m)
    PROVE  OthersKept(m)
<1>1. ASSUME ReconcileNotFound(m) PROVE OthersKept(m)
  BY <1>1 DEF TypeOK, OthersKept, ReconcileNotFound, passVars, apiVars
<1>2. ASSUME ReconcilePanic(m) PROVE OthersKept(m)
  BY <1>2 DEF TypeOK, OthersKept, ReconcilePanic, apiVars
<1>3. ASSUME PanicRecovered(m) \/ ReconcileFails(m) \/ ApplyConflict(m) \/ ApplyFails(m)
             \/ ReadyEnd(m)
      PROVE  OthersKept(m)
  BY <1>3, ReturnKeepsOthers
     DEF PanicRecovered, ReconcileFails, ApplyConflict, ApplyFails, ReadyEnd, apiVars
<1>4. ASSUME Reconcile(m) PROVE OthersKept(m)
  BY <1>4 DEF TypeOK, OthersKept, Reconcile, apiVars
<1>5. ASSUME BuildResource(m) PROVE OthersKept(m)
  <2>1. UNCHANGED <<cr, cached>>
    BY <1>5 DEF BuildResource, apiVars
  <2>2. CASE Return(m, "error")
    BY <2>1, <2>2, ReturnKeepsOthers
  <2>3. CASE pc' = [pc EXCEPT ![m] = "apply"] /\ UNCHANGED <<queued, snap, todo>>
    BY <2>1, <2>3 DEF TypeOK, OthersKept
  <2>4. QED
    BY <1>5, <2>2, <2>3 DEF BuildResource
<1>6. ASSUME NextToBuild(m), UNCHANGED <<cr, cached>> PROVE OthersKept(m)
  BY <1>6 DEF TypeOK, OthersKept, NextToBuild
<1>7. ASSUME ApplyUnchanged(m) \/ ApplyWrite(m) PROVE OthersKept(m)
  <2>1. UNCHANGED <<cr, cached>> /\ (NextToBuild(m) \/ Return(m, "requeue"))
    BY <1>7 DEF ApplyUnchanged, ApplyWrite, apiVars
  <2>2. QED
    BY <1>6, <2>1, ReturnKeepsOthers
<1>8. ASSUME ReadyBegin(m) PROVE OthersKept(m)
  BY <1>8 DEF TypeOK, OthersKept, ReadyBegin, apiVars
<1>9. ASSUME ReadyCheck(m) PROVE OthersKept(m)
  <2>1. UNCHANGED <<cr, cached>>
    BY <1>9 DEF ReadyCheck, apiVars
  <2>2. CASE \E how : Return(m, how)
    BY <2>1, <2>2, ReturnKeepsOthers
  <2>3. CASE \E k \in todo[m] : /\ todo' = [todo EXCEPT ![m] = @ \ {k}]
                                /\ UNCHANGED <<pc, snap, work, queued>>
    BY <2>1, <2>3 DEF TypeOK, OthersKept
  <2>4. QED
    BY <1>9, <2>2, <2>3 DEF ReadyCheck
<1>10. ASSUME WatchCluster(m) \/ WatchObject(m) \/ Resync(m) PROVE OthersKept(m)
  BY <1>10 DEF TypeOK, OthersKept, WatchCluster, WatchObject, Resync, passVars, apiVars
<1>11. ASSUME Restart(m) PROVE OthersKept(m)
  <2>1. /\ EndPass(m) /\ UNCHANGED cr /\ cached' = [cached EXCEPT ![m] = cr]
        /\ \A n \in Managers \ {m} : n \in queued <=> n \in queued'
    BY <1>11 DEF Restart, apiVars
  <2>2. QED
    BY <2>1, TypeEndPass DEF OthersKept, TypeOK
<1>12. QED
  BY <1>1, <1>2, <1>3, <1>4, <1>5, <1>7, <1>8, <1>9, <1>10, <1>11 DEF Step

(* The other steps leave every manager alone. *)
LEMMA EnvironmentKeepsManagers ==
    ASSUME Environment PROVE UNCHANGED <<pc, snap, todo, work, cached, queued>>
BY DEF Environment, UserCreate, UserEdit, UserDelete, NewVersion, GarbageCollect, PodsUp,
       PodsDown, Drift, InputChange, envUnchanged, passVars

LEMMA CurrentNext == TypeOK /\ Current /\ [Next]_vars => Current'
<1>1. SUFFICES ASSUME TypeOK, Current, [Next]_vars PROVE Current'
  OBVIOUS
<1>2. ASSUME NEW m \in Managers, OthersKept(m),
             ~InPass(m)' \/ snap'[m] = cached'[m] \/ m \in queued'
      PROVE  Current'
  BY <1>1, <1>2 DEF Current, OthersKept, InPass
<1>3. ASSUME NEW m \in Managers,
             \/ Step(m) \/ ReconcileFails(m) \/ ApplyFails(m)
             \/ WatchCluster(m) \/ WatchObject(m) \/ Resync(m) \/ Restart(m)
      PROVE  ~InPass(m)' \/ snap'[m] = cached'[m] \/ m \in queued'
  <2>1. CASE \E how : Return(m, how)
    BY <1>1, <2>1, TypeEndPass DEF Return, InPass
  <2>2. CASE ReconcileNotFound(m) \/ ReconcilePanic(m)
    BY <1>1, <2>2 DEF TypeOK, InPass, ReconcileNotFound, ReconcilePanic, passVars
  <2>3. CASE Reconcile(m)
    BY <1>1, <2>3 DEF TypeOK, Reconcile
  <2>4. CASE InPass(m) /\ UNCHANGED <<queued, snap, cached>>
    BY <1>1, <2>4 DEF Current
  <2>5. CASE WatchCluster(m) \/ Resync(m)
    BY <1>1, <2>5 DEF WatchCluster, Resync
  <2>6. CASE WatchObject(m)
    BY <1>1, <2>6 DEF WatchObject, passVars, InPass
  <2>7. CASE Restart(m)
    BY <1>1, <2>7, TypeEndPass DEF Restart, InPass
  <2>8. CASE ApplyUnchanged(m) \/ ApplyWrite(m)
    BY <2>1, <2>4, <2>8 DEF ApplyUnchanged, ApplyWrite, NextToBuild, InPass
  <2>9. CASE BuildResource(m) \/ ReadyBegin(m) \/ ReadyCheck(m)
    BY <2>1, <2>4, <2>9 DEF BuildResource, ReadyBegin, ReadyCheck, InPass
  <2>10. CASE PanicRecovered(m) \/ ReconcileFails(m) \/ ApplyConflict(m)
              \/ ApplyFails(m) \/ ReadyEnd(m)
    BY <2>1, <2>10 DEF PanicRecovered, ReconcileFails, ApplyConflict, ApplyFails, ReadyEnd
  <2>11. QED
    BY <1>3, <2>2, <2>3, <2>5, <2>6, <2>7, <2>8, <2>9, <2>10 DEF Step
<1>4. CASE Environment
  BY <1>1, <1>4, EnvironmentKeepsManagers DEF Current, InPass
<1>5. CASE UNCHANGED vars
  BY <1>1, <1>5 DEF Current, InPass, vars
<1>6. QED
  BY <1>1, <1>2, <1>3, <1>4, <1>5, StepKeepsOthers DEF Next

-----------------------------------------------------------------------------
(* Who owes what.                                                           *)

(* A manager that will look again owes everything. *)
LEMMA BehindOwes == ASSUME NEW m \in Managers, Behind(m)' PROVE Owed'
BY DEF Owed, OwedApplied, OwedReady

(* A reconcile of an outdated cluster is followed by another one. *)
LEMMA OutdatedIsBehind ==
    ASSUME Current, NEW m \in Managers, InPass(m), snap[m] # cr
    PROVE  Behind(m)
BY DEF Current, Behind

(* Owed is kept when the cluster is, and each debt of it is. *)
LEMMA OwedKept ==
    ASSUME Owed, cr' = cr,
           \A k \in RegisterResources(cr.spec) : Sound(cr) =>
              /\ OwedApplied(k) => OwedApplied(k)'
              /\ k.kind = "StatefulSet" /\ OwedApplied(k) /\ OwedReady(k) => OwedReady(k)'
    PROVE  Owed'
BY DEF Owed

(* The debts of the managers other than m are kept by a step of m. *)
LEMMA OthersOwe ==
    ASSUME NEW m \in Managers, OthersKept(m), NEW n \in Managers \ {m}, NEW k
    PROVE  /\ Behind(n) => Behind(n)'
           /\ Applying(n, k) => Applying(n, k)'
           /\ Checking(n, k) => Checking(n, k)'
BY DEF OthersKept, Behind, Applying, Checking

(* The step that finishes one resource, of either kind: it was skipped, or  *)
(* written.  The object is now what the reconcile wanted, or is recorded as *)
(* skipped on a stale read.                                                 *)
LEMMA FinishResource ==
    ASSUME TypeOK, Current, Owed,
           NEW m \in Managers, pc[m] = "apply", NextToBuild(m), OthersKept(m),
           UNCHANGED <<cached>>,
           LET id == ObjectId(work[m].resource) IN
             /\ \A i \in Ids \ {id} : objs'[i] = objs[i]
             /\ \A i \in Ids \ {id} : i \in lapsed => i \in lapsed'
             /\ \A i \in Ids \ {id} : i \in ready => i \in ready'
             /\ id \in lapsed' \/ objs'[id] = work[m].object
    PROVE  Owed'
<1> DEFINE k0 == work[m].resource
           id0 == ObjectId(work[m].resource)
<1>1. UNCHANGED <<queued, snap, cr>> /\ pc'[m] = "build" /\ todo'[m] = todo[m] \ {k0}
  BY DEF NextToBuild, OthersKept, TypeOK
<1>2. CASE snap[m] # cr
  BY <1>1, <1>2, OutdatedIsBehind, BehindOwes DEF InPass, Behind
<1>3. CASE snap[m] = cr
  <2>1. SUFFICES ASSUME Sound(cr), NEW k \in RegisterResources(cr.spec)
                 PROVE  /\ OwedApplied(k) => OwedApplied(k)'
                        /\ OwedReady(k)'
    BY <1>1, OwedKept
  <2>2. OwedReady(k)'
    BY <1>1, <1>3 DEF OwedReady, Checking
  <2>3. k0 \in RegisterResources(cr.spec)
    BY <1>3, TypeWork
  <2>4. CASE ObjectId(k) = id0
    <3>1. /\ work[m].object.owner = cr.uid
          /\ work[m].object.body \in Desired(cr.spec, k0)
      BY <1>3, TypeWork
    <3>2. k0 \in Sharing(cr.spec, k)
      BY <2>3, <2>4 DEF Sharing
    <3>3. ObjectId(k) \in lapsed' \/ objs'[ObjectId(k)] = work[m].object
      BY <2>4
    <3>4. ObjectId(k) \in lapsed' \/ Applied(cr, k)'
      BY <1>1, <3>1, <3>2, <3>3 DEF Applied
    <3>5. QED
      BY <2>2, <3>4 DEF OwedApplied
  <2>5. CASE ObjectId(k) # id0
    <3>1. ObjectId(k) \in Ids
      BY <2>1, RegisteredAreResources, IdOfResource DEF TypeOK, Clusters
    <3>2. Applied(cr, k) => Applied(cr, k)'
      BY <1>1, <2>5, <3>1 DEF Applied
    <3>3. ObjectId(k) \in lapsed => ObjectId(k) \in lapsed'
      BY <2>5, <3>1
    <3>4. /\ Behind(m) => Behind(m)'
          /\ Applying(m, k) => Applying(m, k)'
      BY <1>1, <1>3, <2>5 DEF Behind, Applying
    <3>5. QED
      BY <1>1, <2>2, <3>2, <3>3, <3>4, OthersOwe DEF OwedApplied
  <2>6. QED
    BY <2>2, <2>4, <2>5
<1>4. QED
  BY <1>2, <1>3

(* The other steps of a manager. *)
LEMMA OwedStep ==
    ASSUME TypeOK, Current, Owed, NEW m \in Managers, OthersKept(m),
           \/ Step(m) \/ ReconcileFails(m) \/ ApplyFails(m)
           \/ WatchCluster(m) \/ WatchObject(m) \/ Resync(m) \/ Restart(m)
    PROVE  Owed'
<1>1. cr' = cr
  BY DEF OthersKept
<1>2. CASE m \in queued'
  BY <1>2, BehindOwes DEF Behind
<1>3. CASE ReconcileNotFound(m) \/ ReconcilePanic(m)
  <2>1. UNCHANGED cached /\ (cached[m].uid = 0 \/ RegisterPanics(cached[m].spec))
    BY <1>3 DEF ReconcileNotFound, ReconcilePanic
  <2>2. CASE cached[m] = cr
    BY <1>1, <2>1, <2>2 DEF Owed, Sound
  <2>3. CASE cached[m] # cr
    BY <1>1, <2>1, <2>3, BehindOwes DEF Behind
  <2>4. QED
    BY <2>2, <2>3
<1>4. CASE Reconcile(m)
  <2>1. /\ UNCHANGED cached /\ pc'[m] = "build" /\ snap'[m] = cached[m]
        /\ todo'[m] = RegisterResources(cached[m].spec)
    BY <1>4 DEF Reconcile, TypeOK
  <2>2. CASE cached[m] = cr
    BY <1>1, <2>1, <2>2 DEF Owed, OwedApplied, OwedReady, Applying, Checking
  <2>3. CASE cached[m] # cr
    BY <1>1, <2>1, <2>3, BehindOwes DEF Behind
  <2>4. QED
    BY <2>2, <2>3
<1>5. ASSUME UNCHANGED <<objs, ready, lapsed>>,
             \A k \in RegisterResources(cr.spec) :
                /\ Behind(m) => Behind(m)'
                /\ Applying(m, k) => Applying(m, k)'
                /\ Checking(m, k) /\ k.kind = "StatefulSet"
                     => Checking(m, k)' \/ ObjectId(k) \in ready
      PROVE  Owed'
  <2>1. SUFFICES ASSUME NEW k \in RegisterResources(cr.spec)
                 PROVE  /\ OwedApplied(k) => OwedApplied(k)'
                        /\ k.kind = "StatefulSet" /\ OwedReady(k) => OwedReady(k)'
    BY <1>1, OwedKept
  <2>2. Applied(cr, k) => Applied(cr, k)'
    BY <1>1, <1>5 DEF Applied
  <2>3. OwedApplied(k) => OwedApplied(k)'
    BY <1>1, <1>5, <2>2, OthersOwe DEF OwedApplied
  <2>4. k.kind = "StatefulSet" /\ OwedReady(k) => OwedReady(k)'
    BY <1>1, <1>5, OthersOwe DEF OwedReady
  <2>5. QED
    BY <2>3, <2>4
<1>6. CASE BuildResource(m)
  <2>1. UNCHANGED <<objs, ready, lapsed, cached>>
    BY <1>6 DEF BuildResource, apiVars
  <2>2. CASE Return(m, "error")
    BY <1>2, <2>2 DEF Return
  <2>3. CASE pc' = [pc EXCEPT ![m] = "apply"] /\ UNCHANGED <<queued, snap, todo>>
    <3>1. pc'[m] = "apply" /\ pc[m] = "build"
      BY <1>6, <2>3 DEF TypeOK, BuildResource
    <3>2. QED
      BY <1>1, <1>5, <2>1, <2>3, <3>1 DEF Behind, Applying, Checking
  <2>4. QED
    BY <1>6, <2>2, <2>3 DEF BuildResource
<1>7. CASE ApplyUnchanged(m)
  <2>1. /\ UNCHANGED <<objs, ready, cached>> /\ pc[m] = "apply" /\ NextToBuild(m)
        /\ lapsed' = IF objs[ObjectId(work[m].resource)] = work[m].object
                       THEN lapsed \ {ObjectId(work[m].resource)}
                       ELSE lapsed \cup {ObjectId(work[m].resource)}
    BY <1>7 DEF ApplyUnchanged, apiVars
  <2>2. QED
    BY <2>1, FinishResource
<1>8. CASE ApplyWrite(m)
  <2>1. /\ pc[m] = "apply" /\ UNCHANGED cached
        /\ objs' = [objs EXCEPT ![ObjectId(work[m].resource)] = work[m].object]
        /\ lapsed' = lapsed \ {ObjectId(work[m].resource)}
        /\ ready' \in {ready, ready \ {ObjectId(work[m].resource)}}
    BY <1>8 DEF ApplyWrite
  <2>2. /\ \A i \in Ids \ {ObjectId(work[m].resource)} : objs'[i] = objs[i]
        /\ objs'[ObjectId(work[m].resource)] = work[m].object
    BY <2>1, TypeWork DEF TypeOK
  <2>3. CASE NextToBuild(m)
    BY <2>1, <2>2, <2>3, FinishResource
  <2>4. CASE Return(m, "requeue")
    BY <1>2, <2>4 DEF Return
  <2>5. QED
    BY <1>8, <2>3, <2>4 DEF ApplyWrite
<1>9. CASE ReadyBegin(m)
  <2>1. /\ UNCHANGED <<objs, ready, lapsed, cached, queued, snap>>
        /\ pc[m] = "build" /\ todo[m] = {} /\ pc'[m] = "ready"
        /\ todo'[m] = {k \in RegisterResources(snap[m].spec) : k.kind = "StatefulSet"}
    BY <1>9 DEF ReadyBegin, apiVars, TypeOK
  <2>2. QED
    BY <1>1, <1>5, <2>1 DEF Behind, Applying, Checking
<1>10. CASE ReadyCheck(m)
  <2>1. UNCHANGED <<objs, ready, lapsed, cached>> /\ pc[m] = "ready"
    BY <1>10 DEF ReadyCheck, apiVars
  <2>2. CASE Return(m, "requeue") \/ Return(m, "error")
    BY <1>2, <2>2 DEF Return
  <2>3. ASSUME NEW j \in todo[m], ObjectId(j) \in ready,
               todo' = [todo EXCEPT ![m] = @ \ {j}], UNCHANGED <<pc, snap, work, queued>>
        PROVE  Owed'
    <3>1. todo'[m] = todo[m] \ {j}
      BY <2>3 DEF TypeOK
    <3>2. QED
      BY <1>1, <1>5, <2>1, <2>3, <3>1 DEF Behind, Applying, Checking
  <2>4. QED
    BY <1>10, <2>2, <2>3 DEF ReadyCheck
<1>11. CASE ReadyEnd(m)
  <2>1. /\ UNCHANGED <<objs, ready, lapsed, cached, queued>>
        /\ pc[m] = "ready" /\ todo[m] = {}
    BY <1>11 DEF ReadyEnd, apiVars, Return
  <2>2. QED
    BY <1>1, <1>5, <2>1 DEF Behind, Applying, Checking
<1>12. CASE PanicRecovered(m) \/ ReconcileFails(m) \/ ApplyConflict(m) \/ ApplyFails(m)
  BY <1>2, <1>12 DEF PanicRecovered, ReconcileFails, ApplyConflict, ApplyFails, Return
<1>13. CASE WatchCluster(m) \/ Resync(m)
  BY <1>2, <1>13 DEF WatchCluster, Resync
<1>14. CASE WatchObject(m)
  <2>1. UNCHANGED <<objs, ready, lapsed, cached, queued, pc, snap, todo>>
    BY <1>14 DEF WatchObject, passVars, apiVars
  <2>2. QED
    BY <1>1, <1>5, <2>1 DEF Behind, Applying, Checking
<1>15. CASE Restart(m)
  <2>1. CASE cr.uid # 0
    BY <1>2, <1>15, <2>1 DEF Restart
  <2>2. CASE cr.uid = 0
    BY <1>1, <2>2 DEF Owed, Sound
  <2>3. QED
    BY <2>1, <2>2
<1>16. QED
  BY <1>3, <1>4, <1>6, <1>7, <1>8, <1>9, <1>10, <1>11, <1>12, <1>13, <1>14, <1>15 DEF Step

(* Users and the other controllers. *)
LEMMA OwedEnvironment == ASSUME TypeOK, Owed, Environment PROVE Owed'
<1>1. UNCHANGED <<pc, snap, todo, cached, queued>>
  BY EnvironmentKeepsManagers
<1>2. ASSUME NEW uid, NEW s, NewVersion(uid, s) PROVE Owed'
  <2>1. cr' = [uid |-> uid, version |-> cr.version + 1, spec |-> s]
    BY <1>2 DEF NewVersion
  <2>2. PICK m \in Managers : TRUE
    BY ManagersAssumption
  <2>3. cached[m].version <= cr.version /\ cached[m].version \in Nat /\ cr.version \in Nat
    BY DEF TypeOK, Clusters
  <2>4. cr'.version = cr.version + 1
    BY <2>1
  <2>5. cached'[m] # cr'
    BY <1>1, <2>3, <2>4
  <2>6. QED
    BY <2>5, BehindOwes DEF Behind
<1>3. CASE UserCreate \/ UserEdit \/ UserDelete
  BY <1>2, <1>3 DEF UserCreate, UserEdit, UserDelete
<1>4. ASSUME cr' = cr, NEW k PROVE /\ \A m \in Managers : Behind(m) => Behind(m)'
                                   /\ \A m \in Managers : Applying(m, k) => Applying(m, k)'
                                   /\ \A m \in Managers : Checking(m, k) => Checking(m, k)'
  BY <1>1, <1>4 DEF Behind, Applying, Checking
<1>5. CASE GarbageCollect
  <2>1. PICK id \in Ids : /\ objs[id].owner # cr.uid
                          /\ objs' = [objs EXCEPT ![id] = NoObject]
                          /\ ready' = ready \ {id}
    BY <1>5 DEF GarbageCollect
  <2>2. UNCHANGED <<cr, lapsed>>
    BY <1>5 DEF GarbageCollect
  <2>3. SUFFICES ASSUME NEW k \in RegisterResources(cr.spec)
                 PROVE  /\ OwedApplied(k) => OwedApplied(k)'
                        /\ OwedApplied(k) /\ OwedReady(k) => OwedReady(k)'
    BY <2>2, OwedKept
  <2>4. ObjectId(k) \in Ids
    BY RegisteredAreResources, IdOfResource DEF TypeOK, Clusters
  <2>5. Applied(cr, k) => Applied(cr, k)' /\ ObjectId(k) # id
    BY <2>1, <2>2, <2>4 DEF Applied, TypeOK
  <2>6. OwedApplied(k) => OwedApplied(k)'
    BY <1>4, <2>2, <2>5 DEF OwedApplied
  <2>7. \A m \in Managers : Applying(m, k) => Checking(m, k)
    BY DEF Applying, Checking
  <2>8. OwedApplied(k) /\ OwedReady(k) => OwedReady(k)'
    BY <1>4, <2>1, <2>2, <2>5, <2>7 DEF OwedApplied, OwedReady
  <2>9. QED
    BY <2>6, <2>8
<1>6. CASE PodsUp \/ PodsDown \/ Drift \/ InputChange
  <2>1. cr' = cr
    BY <1>6 DEF PodsUp, PodsDown, Drift, InputChange
  <2>2. /\ \A i \in Ids : i \in lapsed => i \in lapsed'
        /\ \A i \in Ids : i \in ready => i \in ready' \/ i \in lapsed'
        /\ \A i \in Ids : i \in lapsed' \/ objs'[i] = objs[i]
    BY <1>6 DEF PodsUp, PodsDown, Drift, InputChange, TypeOK
  <2>3. SUFFICES ASSUME NEW k \in RegisterResources(cr.spec)
                 PROVE  /\ OwedApplied(k) => OwedApplied(k)'
                        /\ OwedReady(k) => OwedReady(k)'
    BY <2>1, OwedKept
  <2>4. ObjectId(k) \in Ids
    BY RegisteredAreResources, IdOfResource DEF TypeOK, Clusters
  <2>5. Applied(cr, k) => Applied(cr, k)' \/ ObjectId(k) \in lapsed'
    BY <2>1, <2>2, <2>4 DEF Applied
  <2>6. OwedApplied(k) => OwedApplied(k)'
    BY <1>4, <2>1, <2>2, <2>4, <2>5 DEF OwedApplied
  <2>7. OwedReady(k) => OwedReady(k)'
    BY <1>4, <2>1, <2>2, <2>4 DEF OwedReady
  <2>8. QED
    BY <2>6, <2>7
<1>7. QED
  BY <1>3, <1>5, <1>6 DEF Environment

-----------------------------------------------------------------------------
LEMMA Invariance == Spec => []IInv
<1>1. Init => IInv
  <2>1. Init => Current
    BY DEF Init, Current, InPass
  <2>2. Init => Owed
    BY DEF Init, Owed, Sound, NoCluster
  <2>3. QED
    BY <2>1, <2>2, TypeInit DEF IInv
<1>2. IInv /\ [Next]_vars => IInv'
  <2>1. SUFFICES ASSUME TypeOK, Current, Owed, [Next]_vars PROVE Owed'
    BY TypeNext, CurrentNext DEF IInv
  <2>2. CASE UNCHANGED vars
    BY <2>1, <2>2 DEF vars, Owed, OwedApplied, OwedReady, Behind, Applying, Checking, Applied
  <2>3. CASE Next
    BY <2>1, <2>3, StepKeepsOthers, OwedStep, OwedEnvironment DEF Next
  <2>4. QED
    BY <2>1, <2>2, <2>3
<1>3. QED
  BY <1>1, <1>2, PTL DEF Spec

(* The state of the reconcile loop keeps its type: whatever a manager is    *)
(* applying was built from the cluster it read at the start of the pass.    *)
THEOREM ReconcilerTypeCorrect == Spec => []TypeOK
<1>1. IInv => TypeOK
  BY DEF IInv
<1>2. QED
  BY <1>1, Invariance, PTL

(* The operator does not stop early: once no manager is reconciling, queued *)
(* or behind, every object registered by the current spec is applied and    *)
(* every StatefulSet ready, but for objects disturbed from outside or       *)
(* skipped on a stale read.                                                 *)
THEOREM OperatorConverges == Spec => []QuietMeansConverged
<1>1. IInv => QuietMeansConverged
  <2>1. SUFFICES ASSUME IInv, AllQuiet, Sound(cr), NEW k \in RegisterResources(cr.spec)
                 PROVE  \/ ObjectId(k) \in lapsed
                        \/ /\ Applied(cr, k)
                           /\ k.kind = "StatefulSet" => ObjectId(k) \in ready
    BY DEF QuietMeansConverged
  <2>2. \A m \in Managers : ~Behind(m) /\ ~Applying(m, k) /\ ~Checking(m, k)
    BY <2>1 DEF AllQuiet, Quiet, Behind, Applying, Checking
  <2>3. OwedApplied(k) /\ (k.kind = "StatefulSet" => OwedReady(k))
    BY <2>1 DEF IInv, Owed
  <2>4. QED
    BY <2>2, <2>3 DEF OwedApplied, OwedReady
<1>2. QED
  BY <1>1, Invariance, PTL

-----------------------------------------------------------------------------
(* The two halves of a role group agree.                                    *)

(* The StatefulSet of a resource's group is registered by the same spec.  *)
LEMMA StatefulSetRegistered ==
    ASSUME NEW s \in Specs, NEW k \in RegisterResources(s)
    PROVE  [k EXCEPT !.kind = "StatefulSet"] \in RegisterResources(s)
<1>1. PICK role \in Roles : k \in RoleGroupResources(s, role)
  BY DEF RegisterResources, MasterResources, RegionServerResources,
         RestServerResources, Roles
<1>2. role \in DOMAIN s.roles
      /\ k \in [role : {role}, group : DOMAIN s.roles[role], kind : Kinds]
  BY <1>1 DEF RoleGroupResources
<1>3. "StatefulSet" \in Kinds
  BY DEF Kinds, RegisterResourceWithRoleGroup
<1>4. [k EXCEPT !.kind = "StatefulSet"] \in RoleGroupResources(s, role)
  BY <1>2, <1>3 DEF RoleGroupResources
<1>5. QED
  BY <1>4 DEF RegisterResources, MasterResources, RegionServerResources,
              RestServerResources, Roles

(* Only Services share their names. *)
LEMMA NotShared ==
    ASSUME NEW s \in Specs, NEW k \in RegisterResources(s),
           k.kind \in {"StatefulSet", "ConfigMap"}, NEW j \in Sharing(s, k)
    PROVE  j = k
<1>1. j \in Resources /\ k \in Resources /\ ObjectId(j) = ObjectId(k)
  BY RegisteredAreResources DEF Sharing
<1>2. j.kind = k.kind /\ j.role = k.role /\ j.group = k.group
  BY <1>1 DEF ObjectId
<1>3. QED
  BY <1>1, <1>2 DEF Resources

(* The affinity of every StatefulSet. *)
LEMMA TwoTermsSchedulable ==
    ASSUME NEW near, NEW apart, NEW role
    PROVE  /\ near.labels = {"instance", "name"} /\ near.weight = 20
           /\ apart.labels = {"instance", "name", role} /\ apart.weight = 70
           /\ near.topologyKey # "" /\ apart.topologyKey # ""
           => Schedulable([podAffinity     |-> [required |-> {}, preferred |-> {near}],
                           podAntiAffinity |-> [required |-> {}, preferred |-> {apart}]])
<1>1. near.labels = {"instance", "name"} /\ apart.labels = {"instance", "name", role}
      => near.labels \subseteq apart.labels
  OBVIOUS
<1>2. near.weight = 20 /\ apart.weight = 70
      => near.weight \in 1..100 /\ apart.weight \in 1..100 /\ near.weight < apart.weight
  OBVIOUS
<1>3. QED
  BY <1>1, <1>2 DEF Schedulable

LEMMA DefaultSchedulable ==
    ASSUME NEW role
    PROVE  Schedulable(buildPodAffinity(GetDefaultAffinityBuilder(role)))
<1> DEFINE near  == Weight(NewPodAffinity({"instance", "name"}, FALSE, FALSE), 20)
           apart == Weight(NewPodAffinity({"instance", "name", role}, FALSE, TRUE), 70)
           builder == {near, apart}
<1>1. /\ near.labels = {"instance", "name"} /\ near.weight = 20
      /\ near.affinityRequired = FALSE /\ near.anti = FALSE
      /\ apart.labels = {"instance", "name", role} /\ apart.weight = 70
      /\ apart.affinityRequired = FALSE /\ apart.anti = TRUE
  BY DEF NewPodAffinity, Weight
<1>2. GetDefaultAffinityBuilder(role) = builder
  BY DEF GetDefaultAffinityBuilder, NewAffinityBuilder
<1> HIDE DEF near, apart
<1>3. /\ {p \in builder : p.anti = FALSE /\ p.affinityRequired} = {}
      /\ {p \in builder : p.anti = TRUE /\ p.affinityRequired} = {}
      /\ {p \in builder : p.anti = FALSE /\ ~p.affinityRequired} = {near}
      /\ {p \in builder : p.anti = TRUE /\ ~p.affinityRequired} = {apart}
  BY <1>1
<1> HIDE DEF builder
<1>4. /\ Terms(builder, FALSE) = [required |-> {}, preferred |-> {PreferredTerm(near)}]
      /\ Terms(builder, TRUE) = [required |-> {}, preferred |-> {PreferredTerm(apart)}]
  BY <1>3 DEF Terms
<1>5. /\ PreferredTerm(near).labels = {"instance", "name"}
      /\ PreferredTerm(apart).labels = {"instance", "name", role}
      /\ PreferredTerm(near).weight = 20 /\ PreferredTerm(apart).weight = 70
      /\ PreferredTerm(near).topologyKey # "" /\ PreferredTerm(apart).topologyKey # ""
  BY <1>1 DEF PreferredTerm
<1>6. QED
  <2>1. buildPodAffinity(builder) =
          [podAffinity     |-> [required |-> {}, preferred |-> {PreferredTerm(near)}],
           podAntiAffinity |-> [required |-> {}, preferred |-> {PreferredTerm(apart)}]]
    BY <1>4 DEF buildPodAffinity
  <2>2. Schedulable(
          [podAffinity     |-> [required |-> {}, preferred |-> {PreferredTerm(near)}],
           podAntiAffinity |-> [required |-> {}, preferred |-> {PreferredTerm(apart)}]])
    BY <1>5, TwoTermsSchedulable, Zenon
  <2>3. QED
    BY <1>2, <2>1, <2>2, Zenon

(* Whatever inputs the two were built from. *)
LEMMA HalvesAgree ==
    ASSUME NEW s \in Specs, NEW k \in Resources, k.kind = "StatefulSet",
           NEW c, c.kind = "ConfigMap", NEW sts \in Desired(s, k), NEW cm \in Desired(s, c)
    PROVE  Coherent(sts, cm)
<1>1. PICK i \in Inputs : sts = BuildStatefulSet(s, k, i)
  BY DEF Desired, Build
<1>2. PICK j \in Inputs : cm = BuildConfigMap(s, c, j) /\ ~BuildFails(s, c, j)
  BY DEF Desired, Build
<1>3. cm.kerberos = ConfigMapKrb5(s) /\ cm.znode = j.zk
  BY <1>2 DEF BuildConfigMap
<1>4. j.zk \in Znodes
  BY <1>2, ConstantsAssumption DEF InputTypes, BuildFails, AddHbaseSiteFails
<1>5. ConfigMapKrb5(s) <=> KerberosVolumes \subseteq sts.volumes
  BY <1>1 DEF BuildStatefulSet, ConfigMapKrb5, StatefulSetKrb5, KerberosVolumes, getVolumes
<1>6. ConfigMapKrb5(s) <=> KerberosFiles \subseteq cm.files
  BY <1>2 DEF BuildConfigMap, KerberosFiles
<1>7. sts.vector <=> "vector.yaml" \in cm.files
  BY <1>1, <1>2 DEF BuildStatefulSet, BuildConfigMap, KerberosFiles
<1>8. ASSUME NEW x \in sts.proxy
      PROVE  /\ \E p \in sts.ports : p.port = x.env.UPSTREAM
             /\ \A p \in sts.ports, q \in x.ports : p.port # q.port /\ p.name # q.name
  <2>1. k.role \in {"master", "regionserver", "restserver"} /\ sts.ports = Ports(k.role)
    BY <1>1 DEF Resources, Roles, BuildStatefulSet
  <2>2. x.env.UPSTREAM = UpstreamPort(k.role) /\ x.ports = {OidcContainerPort}
    <3>1. x \in buildOidcContainer(s, k.role, i)
      BY <1>1, <1>8 DEF BuildStatefulSet
    <3>2. x = GetContainer(UpstreamPort(k.role), i.auth)
      BY <3>1 DEF buildOidcContainer
    <3>3. QED
      BY <3>2 DEF GetContainer, getEnvVars
  <2>3. Ports(k.role) \in {MasterPorts, RegionServerPorts, RestServerPorts}
    BY <2>1 DEF Ports
  <2>4. \E p \in Ports(k.role) : p.port = UpstreamPort(k.role)
    <3>1. \E p \in Ports(k.role) : p.name = "ui-http"
      <4>1. PICK n \in {16010, 16030, 8085} : Port("ui-http", n) \in Ports(k.role)
        BY <2>3 DEF MasterPorts, RegionServerPorts, RestServerPorts
      <4>2. Port("ui-http", n).name = "ui-http"
        BY DEF Port
      <4>3. QED
        BY <4>1, <4>2
    <3>2. QED
      BY <3>1 DEF UpstreamPort
  <2>5. \A p \in Ports(k.role) : p.port # OidcContainerPort.port
                                  /\ p.name # OidcContainerPort.name
    BY <2>3 DEF MasterPorts, RegionServerPorts, RestServerPorts, OidcContainerPort, Port
  <2>6. QED
    BY <2>1, <2>2, <2>4, <2>5
<1>9. Schedulable(sts.affinity)
  BY <1>1, DefaultSchedulable DEF BuildStatefulSet
<1>10. QED
  BY <1>3, <1>4, <1>5, <1>6, <1>7, <1>8, <1>9 DEF Coherent

(* Whichever of two Services that share a name was written last. *)
LEMMA ServiceExposes ==
    ASSUME NEW s \in Specs, NEW k \in Resources, k.kind = "StatefulSet",
           NEW v, v.kind \in {"Service", "MetricsService"}, v.role = k.role,
           NEW sts \in Desired(s, k), NEW svc \in Desired(s, v)
    PROVE  Exposes(svc, sts)
<1>1. /\ sts.ports = Ports(k.role)
      /\ k.role \in {"master", "regionserver", "restserver"}
  BY DEF Desired, Build, BuildStatefulSet, Resources, Roles
<1>2. CASE v.kind = "Service"
  <2>1. svc.ports = Ports(k.role)
    BY <1>2 DEF Desired, Build, BuildService
  <2>2. QED
    BY <1>1, <2>1 DEF Exposes
<1>3. CASE v.kind = "MetricsService"
  <2>1. svc = BuildMetricsService(s, v)
    BY <1>3 DEF Desired, Build
  <2>2. svc.ports = {Port("metrics", GetMetricsPort(k.role))} /\ svc.headless = TRUE
    BY <2>1 DEF BuildMetricsService
  <2>3. Port("ui-http", GetMetricsPort(k.role)) \in Ports(k.role)
    BY <1>1 DEF Ports, GetMetricsPort, MasterPorts, RegionServerPorts, RestServerPorts
  <2>4. Port("ui-http", GetMetricsPort(k.role)).port = Port("metrics", GetMetricsPort(k.role)).port
    BY DEF Port
  <2>5. QED
    BY <1>1, <2>2, <2>3, <2>4 DEF Exposes
<1>4. QED
  BY <1>2, <1>3

(* Once the operator is quiet, every role group's StatefulSet mounts what   *)
(* its ConfigMap names and listens where its Services lead: they agree on   *)
(* Kerberos, TLS, vector and ports, though they were written by different   *)
(* calls and perhaps different managers.                                    *)
THEOREM HalvesCoherent == Spec => []QuietMeansCoherent
<1>1. TypeOK /\ QuietMeansConverged => QuietMeansCoherent
  <2>1. SUFFICES ASSUME TypeOK, QuietMeansConverged, AllQuiet, Sound(cr),
                        NEW c \in RegisterResources(cr.spec),
                        {ObjectId(c), ObjectId([c EXCEPT !.kind = "StatefulSet"])}
                          \cap lapsed = {}
                 PROVE  LET sts == objs[ObjectId([c EXCEPT !.kind = "StatefulSet"])].body
                            body == objs[ObjectId(c)].body
                        IN  /\ c.kind = "ConfigMap" => Coherent(sts, body)
                            /\ c.kind \in {"Service", "MetricsService"} => Exposes(body, sts)
    BY DEF QuietMeansCoherent
  <2> DEFINE k == [c EXCEPT !.kind = "StatefulSet"]
  <2>2. cr.spec \in Specs
    BY <2>1 DEF TypeOK, Clusters
  <2>3. c \in Resources /\ k \in RegisterResources(cr.spec) /\ k \in Resources
    BY <2>1, <2>2, StatefulSetRegistered, RegisteredAreResources
  <2>4. k.kind = "StatefulSet" /\ k.role = c.role
    BY <2>3 DEF Resources
  <2>5. Applied(cr, k) /\ Applied(cr, c)
    BY <2>1, <2>3 DEF QuietMeansConverged
  <2>6. objs[ObjectId(k)].body \in Desired(cr.spec, k)
    BY <2>2, <2>3, <2>4, <2>5, NotShared DEF Applied
  <2>7. CASE c.kind = "ConfigMap"
    <3>1. objs[ObjectId(c)].body \in Desired(cr.spec, c)
      BY <2>1, <2>2, <2>5, <2>7, NotShared DEF Applied
    <3>2. Coherent(objs[ObjectId(k)].body, objs[ObjectId(c)].body)
      BY <2>2, <2>3, <2>4, <2>6, <2>7, <3>1, HalvesAgree
    <3>3. QED
      BY <2>7, <3>2
  <2>8. CASE c.kind \in {"Service", "MetricsService"}
    <3>1. PICK v \in Sharing(cr.spec, c) : objs[ObjectId(c)].body \in Desired(cr.spec, v)
      BY <2>5 DEF Applied
    <3>2. v \in Resources /\ ObjectId(v) = ObjectId(c)
      BY <2>2, RegisteredAreResources DEF Sharing
    <3>3. v.kind \in {"Service", "MetricsService"} /\ v.role = c.role
      BY <2>3, <2>8, <3>2 DEF ObjectId, Resources, Kinds, RegisterResourceWithRoleGroup
    <3>4. Exposes(objs[ObjectId(c)].body, objs[ObjectId(k)].body)
      <4> HIDE DEF k
      <4>1. QED
        BY <2>2, <2>3, <2>4, <2>6, <3>1, <3>3, ServiceExposes
    <3>5. QED
      BY <2>8, <3>4
  <2>9. QED
    BY <2>7, <2>8
<1>2. QED
  BY <1>1, ReconcilerTypeCorrect, OperatorConverges, PTL
==============================================================================

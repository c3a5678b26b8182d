--------------------------- MODULE HbaseReconciler ---------------------------
(***************************************************************************)
(* The reconcile loop of one HbaseCluster, run by one or more copies of    *)
(* the manager (the chart's replicaCount; leader election is off by        *)
(* default), against an API server that users, other controllers and the   *)
(* managers write.                                                         *)
(*                                                                         *)
(* A manager never reads the API server: the cluster, and the objects it   *)
(* compares with, come from its informer caches.  Only the cluster is      *)
(* watched for work (For in SetupWithManager, no Owns), so a change to an  *)
(* owned object or to an object the builders read wakes nobody.            *)
(***************************************************************************)
EXTENDS RoleResources

CONSTANTS Managers,     (* the running copies of the manager                *)
          UserOps,      (* what users do beside creating: "edit", "delete"  *)
          FaultKinds,   (* which faults may happen, a subset of AllFaults   *)
          MaxVersion,   (* bound on the versions of the HbaseCluster        *)
          MaxFaults     (* bound on the faults                              *)

AllFaults == {"restart", "fail", "drift", "input", "podsdown"}

ASSUME ManagersAssumption ==
    /\ Managers # {}
    /\ UserOps \subseteq {"edit", "delete"}
    /\ FaultKinds \subseteq AllFaults
    /\ MaxVersion \in Nat
    /\ MaxFaults \in Nat

VARIABLES
    cr,        (* the HbaseCluster: uid (0 when there is none), version, spec *)
    objs,      (* the owned objects, by kind and name                        *)
    input,     (* the objects the builders read                              *)
    ready,     (* StatefulSets whose ready replicas equal the wanted ones    *)
    cached,    (* per manager: the HbaseCluster in its cache                 *)
    seen,      (* per manager: the owned objects as its cache last had them  *)
    queued,    (* the managers whose work queue holds the cluster            *)
    pc,        (* per manager: where the reconcile stands                    *)
    snap,      (* per manager: the HbaseCluster this reconcile read          *)
    todo,      (* per manager: the resources left in this phase              *)
    work,      (* per manager: the resource being applied and its new body   *)
    lapsed,    (* history: objects left wrong from outside or by a stale read *)
    faults     (* the number of faults so far                                *)

passVars == <<pc, snap, todo, work>>
apiVars  == <<cr, objs, input, ready>>
vars == <<cr, objs, input, ready, cached, seen, queued, pc, snap, todo, work,
          lapsed, faults>>

NoWork == [resource |-> [kind |-> "none"], object |-> NoObject]

Exists(id) == objs[id].body.kind # "none"

(* Resource k's object is what a reconcile of cluster c would make of it,   *)
(* or of a resource it shares its name with.                                *)
Applied(c, k) ==
    /\ objs[ObjectId(k)].owner = c.uid
    /\ \E j \in Sharing(c.spec, k) : objs[ObjectId(k)].body \in Desired(c.spec, j)

(* What a read of manager m's cache may return for id: the state it had     *)
(* last, or the current one if the watch has delivered it by now.           *)
CacheHolds(m, id) == {seen[m][id], objs[id]}

-----------------------------------------------------------------------------
Init ==
    /\ cr = NoCluster
    /\ objs = [id \in Ids |-> NoObject]
    /\ input \in Inputs
    /\ ready = {}
    /\ cached = [m \in Managers |-> cr]
    /\ seen = [m \in Managers |-> objs]
    /\ queued = {}
    /\ pc = [m \in Managers |-> "idle"]
    /\ snap = [m \in Managers |-> NoCluster]
    /\ todo = [m \in Managers |-> {}]
    /\ work = [m \in Managers |-> NoWork]
    /\ lapsed = {}
    /\ faults = 0

-----------------------------------------------------------------------------
(* One reconcile.                                                           *)

(* What a reconcile holds in memory is gone when it ends. *)
EndPass(m) ==
    /\ pc' = [pc EXCEPT ![m] = "idle"]
    /\ snap' = [snap EXCEPT ![m] = NoCluster]
    /\ todo' = [todo EXCEPT ![m] = {}]
    /\ work' = [work EXCEPT ![m] = NoWork]

(* Mutations: an error, or a non-zero result, is swallowed. *)
ReturnForgetsErrors(m, how) ==
    /\ EndPass(m)
    /\ queued' = IF how = "requeue" THEN queued \cup {m} ELSE queued
ReturnForgetsRequeue(m, how) ==
    /\ EndPass(m)
    /\ queued' = IF how = "error" THEN queued \cup {m} ELSE queued

(* The request leaves the worker; how the reconcile ended decides whether   *)
(* it goes back into the queue: an error (a recovered panic is one) and a   *)
(* non-zero result do, a zero result does not.                              *)
Return(m, how) ==
    /\ EndPass(m)
    /\ queued' = IF how \in {"error", "requeue"} THEN queued \cup {m} ELSE queued

Fault(kind) ==
    /\ kind \in FaultKinds
    /\ faults < MaxFaults
    /\ faults' = faults + 1

(* A cluster that is gone ends the reconcile without an error. *)
ReconcileNotFound(m) ==
    /\ pc[m] = "idle" /\ m \in queued
    /\ cached[m].uid = 0
    /\ queued' = queued \ {m}
    /\ UNCHANGED <<passVars, apiVars, cached, seen, lapsed, faults>>

(* RegisterResources dereferences the spec of every role; controller-runtime *)
(* recovers the panic and queues the request again.                          *)
ReconcilePanic(m) ==
    /\ pc[m] = "idle" /\ m \in queued
    /\ cached[m].uid # 0 /\ RegisterPanics(cached[m].spec)
    /\ queued' = queued \ {m}
    /\ pc' = [pc EXCEPT ![m] = "panic"]
    /\ UNCHANGED <<apiVars, cached, seen, snap, todo, work, lapsed, faults>>

PanicRecovered(m) ==
    /\ pc[m] = "panic"
    /\ Return(m, "error")
    /\ UNCHANGED <<apiVars, cached, seen, lapsed, faults>>

(* Reading the cluster, or merging a role's config into a group's, fails. *)
ReconcileFails(m) ==
    /\ pc[m] = "idle" /\ m \in queued
    /\ Fault("fail")
    /\ Return(m, "error")
    /\ UNCHANGED <<apiVars, cached, seen, lapsed>>

(* The cluster is read and all resources are registered. *)
Reconcile(m) ==
    /\ pc[m] = "idle" /\ m \in queued
    /\ cached[m].uid # 0 /\ ~RegisterPanics(cached[m].spec)
    /\ queued' = queued \ {m}
    /\ pc' = [pc EXCEPT ![m] = "build"]
    /\ snap' = [snap EXCEPT ![m] = cached[m]]
    /\ todo' = [todo EXCEPT ![m] = RegisterResources(cached[m].spec)]
    /\ UNCHANGED <<apiVars, cached, seen, work, lapsed, faults>>

(* The owner reference that the client puts on everything it writes, and a  *)
(* mutation that leaves it out.                                             *)
NoOwnerReference(c) == 0
OwnerReference(c) == c.uid

(* The next resource's builder reads its inputs and makes the object.       *)
(* (The mutation reads the cluster again instead of keeping the copy that   *)
(* the resources were registered from.)                                     *)
BuildResourceFromCache(m) ==
    /\ pc[m] = "build"
    /\ \E k \in todo[m] \cap RegisterResources(cached[m].spec) :
         /\ NextResource(todo[m], k)
         /\ ~BuildFails(cached[m].spec, k, input)
         /\ pc' = [pc EXCEPT ![m] = "apply"]
         /\ work' = [work EXCEPT ![m] =
                       [resource |-> k,
                        object   |-> [owner |-> OwnerReference(snap[m]),
                                      body  |-> Build(cached[m].spec, k, input)]]]
    /\ UNCHANGED <<apiVars, cached, seen, queued, snap, todo, lapsed, faults>>

BuildResource(m) ==
    /\ pc[m] = "build"
    /\ \E k \in todo[m] :
         /\ NextResource(todo[m], k)
         /\ \/ /\ BuildFails(snap[m].spec, k, input)
               /\ Return(m, "error")
            \/ /\ ~BuildFails(snap[m].spec, k, input)
               /\ pc' = [pc EXCEPT ![m] = "apply"]
               /\ work' = [work EXCEPT ![m] =
                             [resource |-> k,
                              object   |-> [owner |-> OwnerReference(snap[m]),
                                            body  |-> Build(snap[m].spec, k, input)]]]
               /\ UNCHANGED <<queued, snap, todo>>
    /\ UNCHANGED <<apiVars, cached, seen, lapsed, faults>>

NextToBuild(m) ==
    /\ pc' = [pc EXCEPT ![m] = "build"]
    /\ todo' = [todo EXCEPT ![m] = @ \ {work[m].resource}]
    /\ work' = [work EXCEPT ![m] = NoWork]
    /\ UNCHANGED <<queued, snap>>

(* ResourceReconcile: the object equals the one in the cache, so nothing is *)
(* written, even if the cache is behind.                                    *)
ApplyUnchanged(m) ==
    LET id == ObjectId(work[m].resource) IN
    /\ pc[m] = "apply"
    /\ work[m].object \in CacheHolds(m, id)
    /\ seen' = [seen EXCEPT ![m][id] = work[m].object]
    /\ lapsed' = IF objs[id] = work[m].object THEN lapsed \ {id} ELSE lapsed \cup {id}
    /\ NextToBuild(m)
    /\ UNCHANGED <<apiVars, cached, faults>>

(* It differs and the cache is current: the object is created or updated.   *)
(* A StatefulSet that changes rolls its pods: they are seen to go at once,  *)
(* or its status lags and they go later, even after a reconcile has found   *)
(* them ready; that is PodsDown.                                            *)
(* The reconcile goes on or is queued again, as operator-go decides.        *)
ApplyWrite(m) ==
    LET id == ObjectId(work[m].resource) IN
    /\ pc[m] = "apply"
    /\ objs[id] # work[m].object
    /\ objs' = [objs EXCEPT ![id] = work[m].object]
    /\ seen' = [seen EXCEPT ![m][id] = objs[id]]
    /\ lapsed' = lapsed \ {id}
    /\ ready' \in {ready, ready \ {id}}
    /\ NextToBuild(m) \/ Return(m, "requeue")
    /\ UNCHANGED <<cr, input, cached, faults>>

(* It differs and the cache is behind: AlreadyExists, NotFound or Conflict. *)
ApplyConflict(m) ==
    LET id == ObjectId(work[m].resource) IN
    /\ pc[m] = "apply"
    /\ \E o \in CacheHolds(m, id) : o # work[m].object /\ o # objs[id]
    /\ Return(m, "error")
    /\ UNCHANGED <<apiVars, cached, seen, lapsed, faults>>

(* Any call of the API server may fail. *)
ApplyFails(m) ==
    /\ pc[m] \in {"apply", "ready"}
    /\ Fault("fail")
    /\ Return(m, "error")
    /\ UNCHANGED <<apiVars, cached, seen, lapsed>>

(* Everything is applied: the StatefulSets are checked, one at a time. *)
ReadyBegin(m) ==
    /\ pc[m] = "build" /\ todo[m] = {}
    /\ pc' = [pc EXCEPT ![m] = "ready"]
    /\ todo' = [todo EXCEPT ![m] =
                  {k \in RegisterResources(snap[m].spec) : k.kind = "StatefulSet"}]
    /\ UNCHANGED <<apiVars, cached, seen, queued, snap, work, lapsed, faults>>

(* The status is read from the cache.  One that is behind the pods is       *)
(* PodsDown coming after the check, or PodsUp; one that is behind the       *)
(* write, the ready that ApplyWrite may keep.                               *)
ReadyCheck(m) ==
    /\ pc[m] = "ready"
    /\ \E k \in todo[m] :
         \/ /\ ObjectId(k) \in ready
            /\ todo' = [todo EXCEPT ![m] = @ \ {k}]
            /\ UNCHANGED <<pc, snap, work, queued>>
         \/ /\ ObjectId(k) \notin ready
            /\ Return(m, IF Exists(ObjectId(k)) THEN "requeue" ELSE "error")
    /\ UNCHANGED <<apiVars, cached, seen, lapsed, faults>>

(* (The mutation asks to be called again although nothing is left to do.)   *)
ReadyEndRequeues(m) ==
    /\ pc[m] = "ready" /\ todo[m] = {}
    /\ Return(m, "requeue")
    /\ UNCHANGED <<apiVars, cached, seen, lapsed, faults>>

ReadyEnd(m) ==
    /\ pc[m] = "ready" /\ todo[m] = {}
    /\ Return(m, "done")
    /\ UNCHANGED <<apiVars, cached, seen, lapsed, faults>>

Step(m) ==
    \/ ReconcileNotFound(m) \/ ReconcilePanic(m) \/ PanicRecovered(m)
    \/ Reconcile(m)
    \/ BuildResource(m)
    \/ ApplyUnchanged(m) \/ ApplyWrite(m) \/ ApplyConflict(m)
    \/ ReadyBegin(m) \/ ReadyCheck(m) \/ ReadyEnd(m)

-----------------------------------------------------------------------------
(* The manager's runtime.                                                   *)

(* A watch event of the HbaseCluster: the cache moves, the key is queued.   *)
(* A key whose reconcile is running is queued again after it.               *)
(* (The mutation drops the key while its reconcile is running.)             *)
WatchClusterWhenIdle(m) ==
    /\ cached[m] # cr
    /\ cached' = [cached EXCEPT ![m] = cr]
    /\ queued' = IF pc[m] = "idle" THEN queued \cup {m} ELSE queued
    /\ UNCHANGED <<passVars, apiVars, seen, lapsed, faults>>

WatchCluster(m) ==
    /\ cached[m] # cr
    /\ cached' = [cached EXCEPT ![m] = cr]
    /\ queued' = queued \cup {m}
    /\ UNCHANGED <<passVars, apiVars, seen, lapsed, faults>>

(* The watch events of owned objects move the cache and queue nothing.      *)
(* Those that arrive during a reconcile are CacheHolds' second choice.      *)
WatchObject(m) ==
    /\ pc[m] = "idle" /\ seen[m] # objs
    /\ seen' = [seen EXCEPT ![m] = objs]
    /\ UNCHANGED <<passVars, apiVars, cached, queued, lapsed, faults>>

(* The informer's periodic resync queues the cluster again.  (During a      *)
(* reconcile it comes to the same as right after it.)                       *)
Resync(m) ==
    /\ pc[m] = "idle" /\ cached[m].uid # 0 /\ m \notin queued
    /\ queued' = queued \cup {m}
    /\ UNCHANGED <<passVars, apiVars, cached, seen, lapsed, faults>>

(* The process dies, at any point, and a new one lists everything. *)
Restart(m) ==
    /\ Fault("restart")
    /\ cached' = [cached EXCEPT ![m] = cr]
    /\ seen' = [seen EXCEPT ![m] = objs]
    /\ queued' = IF cr.uid # 0 THEN queued \cup {m} ELSE queued \ {m}
    /\ EndPass(m)
    /\ UNCHANGED <<apiVars, lapsed>>

-----------------------------------------------------------------------------
(* Users and the other controllers of Kubernetes.                           *)

envUnchanged == <<passVars, cached, seen, queued>>

NewVersion(uid, s) ==
    /\ cr.version < MaxVersion
    /\ cr' = [uid |-> uid, version |-> cr.version + 1, spec |-> s]
    /\ UNCHANGED <<envUnchanged, objs, input, ready, lapsed, faults>>

UserCreate ==
    cr.uid = 0 /\ \E s \in Specs : NewVersion(cr.version + 1, s)
UserEdit ==
    "edit" \in UserOps /\ cr.uid # 0 /\ \E s \in Specs \ {cr.spec} : NewVersion(cr.uid, s)
UserDelete ==
    "delete" \in UserOps /\ cr.uid # 0 /\ NewVersion(0, cr.spec)

(* An object whose owner is gone is deleted. *)
GarbageCollect ==
    /\ \E id \in Ids :
         /\ Exists(id) /\ objs[id].owner \notin {0, cr.uid}
         /\ objs' = [objs EXCEPT ![id] = NoObject]
         /\ ready' = ready \ {id}
    /\ UNCHANGED <<envUnchanged, cr, input, lapsed, faults>>

(* A StatefulSet without replicas has all of them.  Other pods start once   *)
(* their ConfigMap can be mounted, and are ready when the port named by the *)
(* probe is one of the container's and answers.                             *)
PodsUp ==
    /\ \E id \in Ids \ ready :
         /\ Exists(id) /\ objs[id].body.kind = "StatefulSet"
         /\ \/ objs[id].body.replicas = 0
            \/ /\ Exists(ConfigMapOf(id))
               /\ \E p \in objs[id].body.ports : p.name = objs[id].body.probe
         /\ ready' = ready \cup {id}
    /\ UNCHANGED <<envUnchanged, cr, objs, input, lapsed, faults>>

(* Pods fail, or a rollout begins that the status did not show before. *)
PodsDown ==
    /\ Fault("podsdown")
    /\ \E id \in ready : ready' = ready \ {id} /\ lapsed' = lapsed \cup {id}
    /\ UNCHANGED <<envUnchanged, cr, objs, input>>

(* Someone else deletes or edits an owned object. *)
Drift ==
    /\ Fault("drift")
    /\ \E id \in Ids :
         /\ Exists(id)
         /\ \/ /\ objs' = [objs EXCEPT ![id] = NoObject]
               /\ ready' = ready \ {id}
            \/ /\ \E o \in Edits(objs[id]) : objs' = [objs EXCEPT ![id] = o]
               /\ UNCHANGED ready
         /\ lapsed' = lapsed \cup {id}
    /\ UNCHANGED <<envUnchanged, cr, input>>

(* One of the objects the builders read appears, changes or disappears. *)
InputChange ==
    /\ Fault("input")
    /\ input' \in Inputs \ {input}
    /\ UNCHANGED <<envUnchanged, cr, objs, ready, lapsed>>

Environment ==
    \/ UserCreate \/ UserEdit \/ UserDelete
    \/ GarbageCollect \/ PodsUp \/ PodsDown \/ Drift \/ InputChange

Next ==
    \/ \E m \in Managers :
          \/ Step(m) \/ ReconcileFails(m) \/ ApplyFails(m)
          \/ WatchCluster(m) \/ WatchObject(m) \/ Resync(m) \/ Restart(m)
    \/ Environment

Spec == Init /\ [][Next]_vars

(* A worker that has work does it, a watch delivers, the resync timer and   *)
(* the garbage collector run, pods that can start do.  Nothing else is fair.*)
(* (WatchObject is strongly fair because it waits for the reconcile to end: *)
(* the real delivery does not.)                                             *)
Fairness ==
    /\ \A m \in Managers : /\ WF_vars(Step(m))
                           /\ WF_vars(WatchCluster(m))
                           /\ SF_vars(WatchObject(m))
                           /\ WF_vars(Resync(m))
    /\ WF_vars(GarbageCollect)
    /\ WF_vars(PodsUp)

FairSpec == Spec /\ Fairness

-----------------------------------------------------------------------------
(* Properties.                                                              *)

Clusters == [uid : Nat, version : Nat, spec : Specs]
Bodies == {[kind |-> "none"]} \cup Foreign \cup
          UNION {UNION {Desired(s, k) : k \in RegisterResources(s)} : s \in Specs}
Objects == [owner : Nat, body : Bodies]

(* Every variable keeps its shape: what is being applied belongs to the     *)
(* cluster that was read (BuildResource), what is left to do is registered  *)
(* by it (Reconcile, ReadyBegin), only existing objects are ready, and no   *)
(* cache is ahead of the API server.                                        *)
TypeOK ==
    /\ cr \in Clusters
    /\ objs \in [Ids -> Objects]
    /\ input \in Inputs
    /\ ready \subseteq {id \in Ids : Exists(id)}
    /\ cached \in [Managers -> Clusters]
    /\ seen \in [Managers -> [Ids -> Objects]]
    /\ queued \subseteq Managers
    /\ pc \in [Managers -> {"idle", "panic", "build", "apply", "ready"}]
    /\ snap \in [Managers -> Clusters]
    /\ todo \in [Managers -> SUBSET Resources]
    /\ DOMAIN work = Managers
    /\ lapsed \subseteq Ids
    /\ faults \in 0..MaxFaults
    /\ \A m \in Managers :
         /\ cached[m].version <= cr.version
         /\ todo[m] \subseteq RegisterResources(snap[m].spec)
         /\ pc[m] = "apply" =>
              /\ work[m].resource \in todo[m]
              /\ work[m].object = [owner |-> snap[m].uid,
                                   body  |-> work[m].object.body]
              /\ work[m].object.body \in Desired(snap[m].spec, work[m].resource)

(* The cluster exists and all its roles are given. *)
Sound(c) == c.uid # 0 /\ ~RegisterPanics(c.spec)

Quiet(m) == pc[m] = "idle" /\ m \notin queued /\ cached[m] = cr
AllQuiet == \A m \in Managers : Quiet(m)

(* When no manager is reconciling, queued or behind on the cluster, every   *)
(* registered object is what the current spec asks for and every            *)
(* StatefulSet is ready, unless it was disturbed from outside (Drift,       *)
(* PodsDown) or skipped on a stale read (ApplyUnchanged) since the operator *)
(* last looked.  In particular no error, conflict, restart, late event or   *)
(* second manager working from an older spec makes the operator stop early. *)
(* An object that two resources of the spec share holds one of the two.     *)
QuietMeansConverged ==
    AllQuiet /\ Sound(cr) =>
      \A k \in RegisterResources(cr.spec) :
        \/ ObjectId(k) \in lapsed
        \/ /\ Applied(cr, k)
           /\ k.kind = "StatefulSet" => ObjectId(k) \in ready

(* A role group's StatefulSet and ConfigMap agree on Kerberos and on vector: *)
(* files that hbase-site.xml names are mounted, and the reverse.  The proxy  *)
(* forwards to a port of the server, and takes none of its ports.  The pods  *)
(* can be scheduled.                                                         *)
Coherent(sts, cm) ==
    /\ cm.kerberos <=> KerberosVolumes \subseteq sts.volumes
    /\ cm.kerberos <=> KerberosFiles \subseteq cm.files
    /\ sts.vector <=> "vector.yaml" \in cm.files
    /\ cm.znode \in Znodes
    /\ Schedulable(sts.affinity)
    /\ \A c \in sts.proxy :
          /\ \E p \in sts.ports : p.port = c.env.UPSTREAM
          /\ \A p \in sts.ports, q \in c.ports : p.port # q.port /\ p.name # q.name

(* A Service sends its port on to the container port of that name; the name *)
(* of a headless one stands for the pods themselves, whose port is the one  *)
(* asked for.  Either way the server must be listening there.               *)
Exposes(svc, sts) ==
    \A p \in svc.ports : \E q \in sts.ports :
       q.port = p.port /\ (svc.headless \/ q.name = p.name)

(* NewStatefulSetBuilder and NewConfigMapBuilder decide separately whether  *)
(* Kerberos is on, the ports of a group are told to four builders, and each *)
(* object is applied by a call of its own that can fail: once the operator  *)
(* is quiet, the parts of each group fit together.                          *)
QuietMeansCoherent ==
    AllQuiet /\ Sound(cr) =>
      \A k \in RegisterResources(cr.spec) :
        LET id  == ObjectId(k)
            sts == ObjectId([k EXCEPT !.kind = "StatefulSet"])
        IN  {id, sts} \cap lapsed = {} =>
              /\ k.kind = "ConfigMap" => Coherent(objs[sts].body, objs[id].body)
              /\ k.kind \in {"Service", "MetricsService"} =>
                   Exposes(objs[id].body, objs[sts].body)

(* Resource j comes before k whatever the order of the role groups. *)
RegisteredBefore(j, k) ==
    \/ Before(RoleOrder, j.role, k.role)
    \/ /\ j.role = k.role /\ j.group = k.group
       /\ Before(RegisterResourceWithRoleGroup, j.kind, k.kind)

(* Resources are rolled out in the order they are registered: when a lone   *)
(* manager writes an object, every object of the roles before it, and those *)
(* before it in its own group, already are what this reconcile asks for.    *)
(* (Excepted are objects disturbed from outside or skipped on a stale read, *)
(* and a reconcile that outlives its cluster.)  In particular a new         *)
(* StatefulSet comes before the ConfigMap its pods mount.                   *)
RolledOutInOrder ==
    [][\A m \in Managers :
         pc[m] = "apply" /\ objs' # objs /\ pc' # pc /\ snap[m].uid = cr.uid =>
           \A j \in RegisterResources(snap[m].spec) :
             RegisteredBefore(j, work[m].resource) =>
               ObjectId(j) \in lapsed \/ Applied(snap[m], j)]_vars

(* Every spec that the custom resource definition accepts is reconciled     *)
(* without a panic.  The definition marks master, regionServer and          *)
(* restServer optional.                                                     *)
NeverPanics == \A m \in Managers : pc[m] # "panic"

(* Every object is built from the current inputs, every StatefulSet ready. *)
Settled ==
    \A k \in RegisterResources(cr.spec) :
       /\ objs[ObjectId(k)] = [owner |-> cr.uid, body |-> Build(cr.spec, k, input)]
       /\ k.kind = "StatefulSet" => ObjectId(k) \in ready

(* The cluster can be registered, named apart and built. *)
CanSettle == Sound(cr) /\ CollisionFree(cr.spec) /\ Buildable(cr.spec, input)

(* Once versions, inputs and faults stop changing, a cluster that can be    *)
(* built and whose names do not collide is brought to what its spec and the *)
(* current inputs ask for, and its pods become ready; drift, objects        *)
(* skipped on a stale read and inputs that changed after they were read are *)
(* repaired by the resync.  The operator then does not spin: every          *)
(* reconcile ends with a zero result and its queue runs empty.              *)
Converges ==
    /\ <>[](CanSettle => Settled)
    /\ \A m \in Managers : []<>(CanSettle => Quiet(m))

(* A deleted cluster leaves nothing behind: even objects that a reconcile   *)
(* still running wrote after the deletion carry the owner reference and are *)
(* collected.                                                               *)
NothingLeftBehind == <>[](cr.uid = 0 => \A id \in Ids : ~Exists(id))

(* An object that the garbage collector would leave. *)
Kept(id) == Exists(id) /\ objs[id].owner \in {0, cr.uid}

(* A cluster that is deleted and created again under its name inherits      *)
(* nothing: an object survives only if it was the same cluster's before, or *)
(* is being written by a reconcile of that very cluster.  A reconcile that  *)
(* outlives its cluster writes nothing that the next one would keep, nor    *)
(* anything that stays where there is no cluster.                           *)
NothingInherited ==
    [][\A id \in Ids : Kept(id)' =>
         \/ Kept(id) /\ cr'.uid = cr.uid
         \/ \E m \in Managers : /\ pc[m] = "apply" /\ snap[m].uid = cr.uid
                                /\ ObjectId(work[m].resource) = id]_vars

-----------------------------------------------------------------------------
(* The versions of the cluster that a manager may still act on. *)
InPass(m) == pc[m] \in {"build", "apply", "ready"}
Views == {cr} \cup {cached[m] : m \in Managers}
              \cup {snap[m] : m \in {n \in Managers : InPass(n)}}

Managed == INSTANCE ManagedCluster WITH views <- Views

(* Caches, queues, snapshots, conflicts, retries and restarts hide a simple *)
(* thing, ManagedCluster: one object at a time moves to what some version   *)
(* of the cluster asks for that a manager still has in its cache or in a    *)
(* running reconcile, with that version's owner; a version that no manager  *)
(* has any more never comes back; the rest is done by others.               *)
ImplementsManagedCluster == Managed!Spec
==============================================================================

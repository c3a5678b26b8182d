# A TLA+ verification of hbase-operator

hbase-operator runs HBase on Kubernetes: a user writes an `HbaseCluster`, and the
operator keeps a StatefulSet, two Services and a ConfigMap for every role group of
the cluster's three roles.  This directory models what it does with them, how they
reach a pod, and the script it starts HBase with; TLC checks the models on small instances, and TLAPS
proves every safety property of them, and the two refinements, for all instances.

Paths below are relative to the repository; `operator-go` and `controller-runtime`
are libraries it uses and are modelled from how it uses them.

## 1. Inventory

| Part | State | Operations | Talks to |
|---|---|---|---|
| Controller, `internal/controller/hbasecluster_controller.go` | a work queue; per reconcile the copy of the cluster that was read | `Reconcile`: read, register, reconcile, check ready; the request goes back into the queue on an error or a non-zero result.  `SetupWithManager`: watches only the HbaseCluster | informer caches, API server |
| Cluster and roles, `cluster/cluster.go`, `{master,regionserver,restserver}/role.go` | lists of resources, in memory | `RegisterResources`, `RegisterResourceWithRoleGroup`; `GetImage` | the builders |
| Builders, `common/{statefulset,configmap,service}.go`, `authz/` | none | make one object from the spec; on the way read the AuthenticationClass, the ZooKeeper ConfigMap and the vector ConfigMap | API server |
| Applying (`operator-go`) | none | compare with the cached object; create or update it | caches, API server |
| ZooKeeper settings, `common/zookeeper.go` | a ConfigMap | `AddData`, four getters | `AddHbaseSite` |
| Start script, `GetMainContainerCommanArgs` in `common/statefulset.go`, `GetContainerCommands` in `authz/krb5.go` | the configuration directory; trap, `term_child_pid`, `term_kill_needed` | copy the mounted files, fill in the Kerberos realm, start HBase, wait; the TERM trap | HBase, kubelet, the HDFS operator's ConfigMap |
| Manager process, `cmd/main.go` | everything above, in memory | start, die, restart; one or more copies (leader election is off by default, and the Helm chart has a replica count and does not turn it on) | Kubernetes |
| Affinity builder, `common/affinity.go`; OIDC proxy, `authz/oidc.go` | none | make a part of the StatefulSet | |
| API types, image, version, generated code | none | data | |

What is hard here:

* **Stale reads.**  Every read goes to a cache.  A reconcile works on the cluster
  the cache had when it began; the objects it compares with may be old.
* **Partial progress.**  A pass is a series of writes, each of which can fail; the
  process may die between two of them, and records nothing of how far it came.
* **Who wakes the controller.**  Only the HbaseCluster is watched.  Pods that come
  up, owned objects that are edited, a ZooKeeper ConfigMap that changes: none of
  them does.  The returned error, the non-zero result and the resync are all there is.
* **Two managers** with different versions of the spec.
* **Deletion and re-creation** under a running reconcile.
* **Decisions taken twice** (Kerberos, by the StatefulSet and the ConfigMap builder).
* **Several hands on one pod.**  The operator writes two objects, the StatefulSet
  controller replaces the pod, the kubelet replaces the mounted files, the HDFS operator
  makes its own ConfigMap, and the script copies what it finds, one file at a time.
* **Names that have to meet**: object names, port names, between packages.
* **Signals** that arrive between any two commands of the start script.

`PROJECT.json` lists these under `hazards`, each at its line.

What makes each part correct:

* controller: it never stops while something is left to do, it does finish, it does
  not spin, and what it made goes away with the cluster;
* roles and builders: resources are rolled out in the registered order; the halves
  of a role group agree; every spec that the definition accepts can be registered;
* pod: HBase runs with one configuration, never without the Kerberos that was asked for,
  and does come up;
* start script: HBase gets its SIGTERM and its time to stop; the container ends when
  HBase does and not before;
* ZooKeeper settings: a site file comes from one connection string.

## 2. Modules

```
Affinity                       the terms of a pod's affinity
  └ RoleResources              what a spec asks for: resources, order, names, objects
      ├ HbaseReconciler        the reconcile loop, its managers and its environment
      │   │                      (implements ManagedCluster)
      │   ├ MCReconciler       instances for TLC
      │   └ HbaseReconcilerProofs
      │       └ RefinementProofs
      │           └ RolloutProofs
      └ RoleGroup              the StatefulSet and the ConfigMap of one role group
          ├ RoleGroupPod       a pod of the group and the start script up to HBase
          │   │                  (built on ManagedCluster)
          │   ├ MCPod          instances for TLC
          │   └ RoleGroupPodProofs
          └ GroupRefinement    HbaseReconciler seen from the group
              │                  (implements the ManagedCluster of RoleGroupPod)
              ├ MCGroup        instance for TLC
              └ GroupRefinementProofs
                  └ OperatedPod  the reconcile loop and the pod together
ManagedCluster                 what the operator does, seen from outside
Entrypoint                     the start script from the traps on
  └ EntrypointProofs
Znode                          AddData and its getters
  └ ZnodeProofs
```

**RoleResources** has no state.  A spec is a record of the fields that the control
flow looks at (roles and replicas, stopped, the two secret classes, the
AuthenticationClass, OIDC, vector).  `RegisterResources` is the set that the three
roles register, and `NextResource` their order: roles in the order of
`cluster.go`, groups in any order (Go's map iteration), the four kinds as they are
appended.  `Build` and `BuildFails` are the builders: an object is abstracted to the
choices that depend on the spec or on inputs (replicas, ports, probe port, volumes,
containers, files, the ZooKeeper settings).  Two resources may have the same object
name (`ObjectId`): the metrics service of group `g` and the service of group
`g-metrics`.  A Service has its ports and whether it is headless.  `Foreign` is a parameter: the
bodies, of the types that the API server takes, which somebody else may give an object of their kind
(`Edits`); the operator's own bodies are never in question there.  The OIDC container keeps its port, its upstream port and its provider; the
affinity is **Affinity**'s, the set of terms that `buildPodAffinity` makes.

**HbaseReconciler** is the loop.  A manager is `idle`; `Reconcile` takes a snapshot
(`snap`) of the cached cluster and registers its resources (`todo`); `BuildResource`
and one of `ApplyUnchanged`, `ApplyWrite`, `ApplyConflict` handle one resource at a
time; `ReadyBegin`, `ReadyCheck`, `ReadyEnd` are the second half.  `Return` is the end
of a reconcile: an error or a non-zero result puts the key back.  `ReconcileNotFound`,
`ReconcilePanic`, `ReconcileFails`, `ApplyFails` are the other ways out.  The apply
actions are external (operator-go) and deliberately wide: after a write the reconcile
may go on or ask to be called again, and a read may return the state the cache last had
or the present one.  A body that a builder makes from an input uses the input at that
moment; `InputChange` may come between any two.

The environment: users create, edit and delete the cluster (`version` counts, `uid` tells
clusters apart); the garbage collector; pods that come up (only if the StatefulSet has no
replicas, or its ConfigMap exists and its probe names one of its ports) and go down; drift
(an object is deleted, or edited to one of `Edits`); changing inputs; death and restart of a manager, which lists everything anew.

Readiness is live, although the code reads a cached status.  The difference is one of time: a
status that is behind is a `PodsDown`, or a `PodsUp`, that comes after the check, and a rollout that shows only
after `Ready` has passed is `ready` kept by `ApplyWrite` and a later `PodsDown`.  It is counted as
lapsed, and `Converges` shows in `live` that the resync waits for it.

`lapsed` is a history variable: objects that were disturbed from outside, or skipped
because the cache was behind, since the operator last looked at them.  Nothing wakes the
operator for those; the safety properties make exactly this exception, and `Converges`
shows that the resync repairs them.

**ManagedCluster** is the abstract specification: the HbaseCluster, the objects, and
`views`, the versions that may still be acted on.  A user submits a version; `Write` makes one
object what one of the views asks for, with that view's owner; `Forget` drops views, never the
current one; the rest (`Collect`, `Tamper`) is done by others.  There is no manager, cache,
queue or error in it.  `HbaseReconciler` implements it with `views` the versions
that are in a cache or in a running reconcile (`ImplementsManagedCluster`).

**RoleGroupPod** takes ManagedCluster, for the StatefulSet and the ConfigMap of one role group,
as the environment of one pod.  That the loop really is such an environment is what
**GroupRefinement** states: `GroupIsManaged` maps the loop's objects to the two of the group
(`GroupObjs`) and keeps of what a cluster asks for only these two (`AskedOfGroup`); a write to any
other object shows at most as a `Forget`.  To it come the StatefulSet controller (`CreatePod`, `DeletePod`), the kubelet (`MountVolumes`, and
`Refresh`, which replaces the mounted files also under a running `cp`), the HDFS ConfigMap, which
may be missing or half there, and the script: `ListFiles` and `CopyFile` are the first `cp`
(the shell lists the files once, `cp` opens them one by one), `CopyHdfs` the second,
`GetContainerCommands` the `sed` lines.  A failing command ends the container, and `Restart`
starts it again with its mounts and with an empty configuration directory, which is not a volume.
HBase ends when its site file asks for a keytab that the pod does not have.  The two objects may be
edited by others, and the pod takes an edited object like any other: a ConfigMap with
other files or another site file is mounted and copied, a StatefulSet without the secret volumes makes a pod
without them.  Two history
variables say whether the mount moved under the script (`steady`) and whether a version without
Kerberos was ever submitted (`plain`).  The two forms of control flow that the script has, this
one and Entrypoint's, meet where HBase is started: nothing before the traps reacts to
SIGTERM, and nothing after them touches the files.

**OperatedPod** puts the two together: the whole reconcile loop on one side, the pod, its
controllers and the HDFS operator on the other, each moving in its own time and meeting in the
two objects.  It has no run of its own; its theorems carry what is proved of the parts over to
the whole.  `ready`, what the loop sees of pods, stays as open as it is in HbaseReconciler: it stands for all pods of all
groups, of which this is one.

**Entrypoint** has one action per command of the script, the trap, HBase and the
kubelet.  It keeps three facts about bash and the kernel that the script depends on: a
trap runs between commands or interrupts `wait`; an unset variable ends a `set -u`
shell; process 1 ignores an untrapped SIGTERM and takes everything with it when it
ends.

**Znode** treats a connection string as a sequence of words and separators.  `Split` is
`strings.Split`, written with the places where the string is cut rather than by recursion, so
that it can be reasoned about.

## 3. Runs

| Run | Question | Bounds |
|---|---|---|
| `crash` | Does a failed call, or a restart, anywhere in a pass lose work?  Do the halves of a group agree?  Is the loop, seen from a group, what `pods` takes it for? | 1 role group; plain, half and fully Kerberized specs; 4 input states; 2 versions; 1 fault |
| `roles` | Is the registered order kept?  What of colliding names, proxies and affinities? | 2 roles, 3 groups, two of them with colliding services; OIDC switched by an edit |
| `pair` | Do two managers at different versions settle on the last?  Is it a ManagedCluster? | 2 managers (symmetric), plain and stopped, 2 versions |
| `live` | Does it finish, and stop, whatever is disturbed? | restserver; one edited body of each kind; one spec that cannot be registered; 3 input states; 2 faults of any kind, 2 versions |
| `recreate` | Deletion, re-creation and the loss of a role group under a running pass | 3 versions (create, delete or edit, create or delete) |
| `pods` | What does a pod run with, and does it come up? | 1 pod, with and without Kerberos, 2 versions, 1 eviction or crash; HDFS missing, partial, present; objects deleted any number of times |
| `pods_edited` | What can an edit by others take from a pod of a cluster that always has Kerberos? | the same with Kerberos only, and any number of edits: a StatefulSet without secret volumes, a ConfigMap with a site file without Kerberos, without a site file, without files |
| `script` | Signals, crash and SIGKILL at any point | 3 SIGTERMs |
| `znode` | Repeated `AddData` | every string of up to 5 symbols over 2 words |
| `optional` | *violated*: a missing role panics | |
| `early_term` | *violated*: an early SIGTERM kills HBase | 1 SIGTERM |
| `znode_example` | *violated*: the documented string is refused | |

The bounds let the cases happen: two versions make a snapshot outdated in the middle of a
pass, three make a new cluster of the same name; one fault falls at every step, two
fall before and after each other; two versions of the ConfigMap make a copy torn, and
one of them without the files of the other makes `cp` fail; three SIGTERMs arrive before, during and after the first
wait; five symbols hold the three separators of an accepted string and two words.
(Edits are tried apart from changes of the spec: each run is small enough to be exhausted, and the
proof has them together.  Each run ends in less than three minutes.)
Deadlock is not checked for the reconciler, the pod and the script: an operator without work
and a container that has ended do stop.  Versions and faults are bounded by
`MaxVersion` and `MaxFaults`, signals by `MaxTerms`; the proofs have no such bound.

The properties:

* `QuietMeansConverged`: when no manager is reconciling, queued or behind, every
  object is what the current spec asks for and every StatefulSet is ready, save the
  lapsed ones.  An object that two resources share is what one of them asks for.
* `QuietMeansCoherent`: then the volumes of each StatefulSet and the files of its ConfigMap
  agree, a proxy forwards to a port of its pod and takes none of them, the affinity lets
  the pods be scheduled, apart rather than together, and every port of the group's Services leads to
  a port of the container: by name, or by number where the Service is headless.  (The metrics
  Service depends on being headless: its port's name is none of the master's and another port of the others'.)
* `RolledOutInOrder`: a write finds everything registered before it in place.
* `Converges`: if the cluster can be built, it finally is, from the current inputs, and
  every manager is quiet again and again.
* `NothingLeftBehind`: what a deleted cluster owned is finally gone.
* `NothingInherited`: an object that the garbage collector would keep was the same cluster's a
  step before, or is being written by a reconcile of this very cluster.  This is the safety side
  of re-creation: a reconcile that outlives its cluster leaves nothing to the next one.
* `ImplementsManagedCluster`: every step of the loop is a step of ManagedCluster or none.
* `GroupIsManaged`: the same of the two objects of one group, and nothing else of the loop shows there.
* `RunsOneConfig`: the files HBase runs with are those of the mounted ConfigMap, all of them
  and no others, unless the mount changed under the script.
* `SecuredFromTheStart`: if every version had Kerberos, a running server has its keytab,
  its Kerberos settings and its realm.  What it lacks was edited out by somebody else: the keytab out
  of the StatefulSet that the pod was made from, the settings out of the ConfigMap that the site file was
  copied from.  With `Foreign` empty, as in `pods`, it lacks nothing.
* `ComesUp`: when the two objects rest and agree and HDFS is there, the pod comes up and stays.
  This is what the fairness of `PodsUp` in the loop rests on.
* `NeverPanics`: every accepted spec can be registered.
* `StopsGracefully`, `OutlivesHbase`, `TakenTermEnds`, `CrashEnds`, `TrappedTermReachesHbase`: see Entrypoint.
* `SiteIsOneString`, `ExampleAccepted`: see Znode.

**Fairness.**  Weak fairness of a manager's own steps (its worker goroutine runs), of the
delivery of cluster events (a watch reconnects and relists), of the resync (a timer), of
the garbage collector and of pods that can start.  Delivery of object events is strongly
fair: the model delivers them between reconciles, an interval that may close again, while
the real cache moves during a reconcile too.  Failures, edits, drift and restarts are not
fair.  In `RoleGroupPod` the StatefulSet controller, the kubelet
and the shell are weakly fair, and so is the end of a server without keytab; nothing is assumed of
the operator, of the HDFS ConfigMap, of evictions or of crashes (`ComesUp` has the first two as
hypotheses, the others are bounded).  In `Entrypoint` the shell runs, and HBase stops once told; SIGKILL is not assumed.

## 4. Findings

1. **A missing role panics** (`optional`).  The definition marks `master`, `regionServer` and
   `restServer` optional; `RegisterResources` dereferences each (`role.go:51`).  The panic
   is recovered, and repeated on every retry; nothing of the cluster is deployed.
2. **An early SIGTERM kills HBase** (`early_term`).  Between the trap and `term_child_pid=$1`
   the handler reads an unset variable under `set -u`, and the shell ends.  The branch that
   would set `term_kill_needed`, and the check of it, are dead.
3. **The documented ZooKeeper string is refused** (`znode_example`): `AddData` wants two
   slashes, its example has one.  Nothing in the operator calls `AddData`.
Met on the way, without a line of the repository that says otherwise: a pod that started between
the two writes of an edit that turns Kerberos on keeps running without it, since the ConfigMap
is written second and nothing restarts the pod for it (`TypeOK` and the other invariants of
`pods` hold in such states; `SecuredFromTheStart` excludes them by `plain`).  In the same way a server that
copied an edited ConfigMap keeps it after the operator has repaired the object.

## 5. Proofs

**HbaseReconcilerProofs** needs `ConstantsAssumption` (specs name known roles and
groups, inputs and foreign bodies are well formed) and `ManagersAssumption`.  `QuietMeansConverged` speaks of quiet states, so
it is not inductive.  The invariant `IInv` adds

* `Current`: a manager whose running reconcile is of another version than its cache is
  queued (a new version moves the cache and queues the key in one step);
* `Owed`: for each resource of the current cluster, it is as it should be, or lapsed, or
  some manager still owes it: its key is queued, its cache is behind, or it is in a
  pass of exactly this version and has not reached the resource.

`Owed` is what makes two managers safe: a manager with an older spec that overwrites an
object is queued or behind itself, so it owes what it broke.  From it follow
`OperatorConverges` and, since both builders decide on Kerberos alike
(`HalvesAgree`) and every Service is told ports of its role (`ServiceExposes`), `HalvesCoherent`.  Type correctness is proved first
(`ReconcilerTypeCorrect`).

**RefinementProofs** proves `ReconcilerImplements`, that the loop implements ManagedCluster.
The mapping is a state function of the caches and snapshots, so no history is needed.  What
needs an invariant is that a pass works for a cluster (`PassHasCluster`) and that the object
being applied is one that its snapshot asks for (`WorkIsAsked`, from type correctness);
the rest is that no step brings a version into a cache or snapshot that was not in one
(`NoNewViews`, `ViewsShrink`).  `ManagerImplements` and `EnvironmentImplements` then go through
the actions.

**RolloutProofs** proves two action properties.  Both need `Owned`: no version that anyone holds has a
uid ahead of the versions, and every object has an owner.  A cluster's uid is the
version it was created with, so a uid that a running reconcile or an object carries is never that
of a cluster created later; `ClusterInheritsNothing` follows, with any number of managers.
`LoneManagerRollsOutInOrder` needs besides that the resources a pass has behind it are rolled out, or
lapsed, as long as its cluster exists, and that it works on the next one (`InOrder`).  The garbage
collector could break this, and does not, because by `Owned` it never takes an object of the
cluster that is there.  The theorem assumes one manager: with two, the other may write an older
version back in between (the runs that check `RolledOutInOrder` have one manager too).

**GroupRefinementProofs** proves `GroupImplements`, for any role group.  `Projection` takes a step of
the whole ManagedCluster, which RefinementProofs has shown the loop to make, to a step of the
group's: a step that touches one of the two objects is the same step there, one that touches another
is a `Forget` or is not seen.

**OperatedPod** proves that the composition is a behaviour of HbaseReconciler and of RoleGroupPod
(`OperatedImplements`).  The pod's steps leave the loop's variables alone.  A step of the loop is, by
`NextImplements` and `Projection`, a step of the group's ManagedCluster, which is the pod's
surroundings (`SameOperator`), or changes nothing the pod can see.  RoleGroupPod's constants satisfy
its assumptions (`PodInGroup`, `BoundsInGroup`, `ConstantsInGroup`), so that its theorems apply:
`OperatedPodIsSecured` and `OperatedPodRunsOneConfig` state them end to end, from stale caches and
crashing managers down to the files that HBase reads.

**RoleGroupPodProofs** needs `ConstantsAssumption`, `PodAssumption` and `BoundsAssumption`.  `RunsOneConfig` becomes
inductive with what is known while the script copies: the files still to be copied and those
already copied are together those of the mount, as long as it is steady.  `SecuredFromTheStart`
needs that, while `plain` is false, every view has Kerberos, hence every StatefulSet and every
ConfigMap that was ever written, hence every template and mount, and every file that was copied
from one; or else it is one of `Foreign`, or was made or copied from one.  That is carried along at each
station (`SecuredSts`, `SecuredCm`, `SecuredPod`), so that in a running server every missing part can be
traced to an edit.  Where the template does have the keytab, the `sed` lines make sure of the site file and
the realm, whoever wrote the ConfigMap.

**EntrypointProofs** needs `MaxTermsAssumption`.  `InStep` says what is known at each
command (the child exists from its start on, its pid is known in `wait_for_termination`,
nothing is ever remembered in `term_kill_needed`); `TypeOK` where the trap is in place.  With it `StopsGracefully` and
`OutlivesHbase` are inductive.

**ZnodeProofs** needs `WordsAssumption`.  The invariant `OfOneString` says that the ConfigMap is empty
or holds exactly the four keys of one accepted string.  The work is in `Split`: the cuts
of a string are numbered by how many lie before them (`CutIs`), hence the first piece is a string
(`FirstPiece`), and a string that is cut into two is its two pieces around the separator
(`JoinOfTwo`).  The bound on the length is a parameter; the theorem holds for all its values.

Every safety property that a passing run checks is stated by a theorem.  Only model-checked are the
liveness properties `Converges`, `NothingLeftBehind`, `ComesUp`, `TakenTermEnds` and `CrashEnds`:
fairness and ENABLED are out of the prover's reach.  So is the number of pieces that `Split` makes of a
string with n separators, which would need an induction over the string; nothing here depends on it.

## 6. Not modelled

Image names, product version, pull secret, probe timings, constant environment variables, log files
and the constant Kerberos settings: data that no property tells apart.  `AddPodAffinity`,
`NodeAffinity` and `GetDiscoveryConfig`: unused.  Flags, certificates and metrics of the
manager: I/O.  Leader election: controller-runtime's; with it the system is the
one-manager instance, without it `pair`, and a lease that expires under a running reconcile is
`pair` too.  Pod disruption budgets: made by operator-go.  Webhook methods: not registered.  Deep
copies: generated.  `clusterOperation.reconciliationPaused`, which the definition accepts: `cluster.go`
hands it to operator-go, and what that does with it is not in the repository.  The API server's refusal to
turn a headless Service into another: it could only show where names collide.  A nil map under
`AddData`, which would panic: nothing calls it.  The contents of the secret volumes: the secret operator's.  Removing objects of a
removed role group: the code does not.

## 7. Plan

Done, in this order: RoleResources, HbaseReconciler, Entrypoint, Znode and their proofs; Affinity and
the OIDC container; ManagedCluster and the refinement; RoleGroupPod and its proofs; the rollout order
and ownership; the view from one group and the composition with its pod; the proof of Znode.

Next:

1. *Lemmas under the liveness properties*: what each step of a pass leaves to do (`todo` and the phases only
   shrink until it ends), the variant on which `Converges` rests, as an action property that TLAPS can prove.
2. *Entrypoint in the pod*: the two halves of the script meet where HBase is started; a composition like
   OperatedPod would carry `StopsGracefully` over to an evicted pod.
3. *Several pods*: a rolling update of a StatefulSet whose pods start one after the other across an edit
   of the ConfigMap.

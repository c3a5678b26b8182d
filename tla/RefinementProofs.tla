--------------------------- MODULE RefinementProofs ---------------------------
(***************************************************************************)
(* HbaseReconciler implements ManagedCluster, for every value of the       *)
(* constants.  The refinement maps a state to its cluster, its objects and *)
(* the versions that are in some cache or some running reconcile (Views).  *)
(*                                                                         *)
(* Two facts carry it beside the types: a manager's step brings no version *)
(* into its views that was not there, and a reconcile only ever runs for a *)
(* cluster that existed when it was read.                                  *)
(***************************************************************************)
EXTENDS HbaseReconcilerProofs

(* A reconcile works for a cluster with an identity to put into the owner   *)
(* references.                                                              *)
PassHasCluster == \A m \in Managers : InPass(m) => snap[m].uid # 0

ManagerStep(m) ==
    \/ Step(m) \/ ReconcileFails(m) \/ ApplyFails(m)
    \/ WatchCluster(m) \/ WatchObject(m) \/ Resync(m) \/ Restart(m)

(* Where the versions that manager m has after a step come from. *)
NoNewViews(m) ==
    /\ cached'[m] \in {cached[m], cr}
    /\ InPass(m)' => \/ InPass(m) /\ snap'[m] = snap[m]
                     \/ snap'[m] = cached[m] /\ cached[m].uid # 0

LEMMA ReturnHasNoNewViews ==
    ASSUME TypeOK, NEW m \in Managers, NEW how, Return(m, how), UNCHANGED cached
    PROVE  NoNewViews(m)
BY TypeEndPass DEF Return, InPass, NoNewViews

LEMMA StepHasNoNewViews ==
    ASSUME TypeOK, NEW m \in Managers, ManagerStep(m)
    PROVE  NoNewViews(m)
<1>1. CASE ReconcileNotFound(m) \/ WatchObject(m) \/ Resync(m)
  BY <1>1 DEF ReconcileNotFound, WatchObject, Resync, passVars, InPass, NoNewViews
<1>2. CASE ReconcilePanic(m)
  BY <1>2 DEF TypeOK, ReconcilePanic, InPass, NoNewViews
<1>3. CASE PanicRecovered(m) \/ ReconcileFails(m) \/ ApplyConflict(m)
           \/ ApplyFails(m) \/ ReadyEnd(m)
  BY <1>3, ReturnHasNoNewViews
     DEF PanicRecovered, ReconcileFails, ApplyConflict, ApplyFails, ReadyEnd
<1>4. CASE Reconcile(m)
  BY <1>4 DEF TypeOK, Reconcile, NoNewViews
<1>5. ASSUME InPass(m), UNCHANGED <<snap, cached>> PROVE NoNewViews(m)
  BY <1>5 DEF NoNewViews
<1>6. CASE BuildResource(m)
  BY <1>5, <1>6, ReturnHasNoNewViews DEF BuildResource, InPass
<1>7. CASE ApplyUnchanged(m) \/ ApplyWrite(m)
  BY <1>5, <1>7, ReturnHasNoNewViews DEF ApplyUnchanged, ApplyWrite, NextToBuild, InPass
<1>8. CASE ReadyBegin(m) \/ ReadyCheck(m)
  BY <1>5, <1>8, ReturnHasNoNewViews DEF ReadyBegin, ReadyCheck, InPass
<1>9. CASE WatchCluster(m)
  BY <1>9 DEF TypeOK, WatchCluster, passVars, InPass, NoNewViews
<1>10. CASE Restart(m)
  BY <1>10, TypeEndPass DEF TypeOK, Restart, InPass, NoNewViews
<1>11. QED
  BY <1>1, <1>2, <1>3, <1>4, <1>6, <1>7, <1>8, <1>9, <1>10 DEF ManagerStep, Step

LEMMA PassHasClusterNext ==
    TypeOK /\ PassHasCluster /\ [Next]_vars => PassHasCluster'
<1>1. SUFFICES ASSUME TypeOK, PassHasCluster, [Next]_vars PROVE PassHasCluster'
  OBVIOUS
<1>2. ASSUME NEW m \in Managers, ManagerStep(m) PROVE PassHasCluster'
  <2>1. OthersKept(m) /\ NoNewViews(m)
    BY <1>1, <1>2, StepKeepsOthers, StepHasNoNewViews DEF ManagerStep
  <2>2. QED
    BY <1>1, <2>1 DEF PassHasCluster, OthersKept, NoNewViews, InPass
<1>3. CASE Environment
  BY <1>1, <1>3, EnvironmentKeepsManagers DEF PassHasCluster, InPass
<1>4. CASE UNCHANGED vars
  BY <1>1, <1>4 DEF PassHasCluster, InPass, vars
<1>5. QED
  BY <1>1, <1>2, <1>3, <1>4 DEF Next, ManagerStep

-----------------------------------------------------------------------------
(* A manager's step forgets versions, and never the current one. *)
LEMMA ViewsShrink ==
    ASSUME TypeOK, NEW m \in Managers, ManagerStep(m)
    PROVE  cr' = cr /\ Views' \in SUBSET Views /\ cr \in Views'
<1>1. OthersKept(m) /\ NoNewViews(m)
  BY StepKeepsOthers, StepHasNoNewViews DEF ManagerStep
<1>2. ASSUME NEW n \in Managers PROVE cached'[n] \in Views
  BY <1>1, <1>2 DEF Views, OthersKept, NoNewViews
<1>3. ASSUME NEW n \in Managers, InPass(n)' PROVE snap'[n] \in Views
  BY <1>1, <1>3 DEF Views, OthersKept, NoNewViews, InPass
<1>4. cr' = cr
  BY <1>1 DEF OthersKept
<1>5. Views' \subseteq Views /\ cr' \in Views'
  BY <1>2, <1>3, <1>4 DEF Views
<1>6. QED
  BY <1>4, <1>5

(* The objects only change in ApplyWrite, to what the reconcile's version   *)
(* asks for.                                                                *)
LEMMA OnlyApplyWrites ==
    ASSUME NEW m \in Managers, ManagerStep(m), ~ApplyWrite(m)
    PROVE  UNCHANGED objs
BY DEF ManagerStep, Step, ReconcileNotFound, ReconcilePanic, PanicRecovered, Reconcile,
       BuildResource, ApplyUnchanged, ApplyConflict, ReadyBegin, ReadyCheck, ReadyEnd,
       ReconcileFails, ApplyFails, WatchCluster, WatchObject, Resync, Restart, apiVars

LEMMA WorkIsAsked ==
    ASSUME TypeOK, PassHasCluster, NEW m \in Managers, pc[m] = "apply"
    PROVE  /\ snap[m] \in Views
           /\ [id |-> ObjectId(work[m].resource), object |-> work[m].object]
                \in Asked(snap[m])
<1> DEFINE k == work[m].resource
           b == work[m].object.body
<1>1. snap[m] \in Views
  BY DEF Views, InPass
<1>2. snap[m].uid # 0
  BY DEF PassHasCluster, InPass
<1>3. k \in RegisterResources(snap[m].spec) /\ b \in Desired(snap[m].spec, k)
  BY TypeWork
<1>4. work[m].object = [owner |-> snap[m].uid, body |-> b]
  BY DEF TypeOK
<1>5. [id |-> ObjectId(k), object |-> work[m].object] \in
        {[id |-> ObjectId(k), object |-> [owner |-> snap[m].uid, body |-> x]] :
           x \in Desired(snap[m].spec, k)}
  BY <1>3, <1>4
<1>6. QED
  BY <1>1, <1>2, <1>3, <1>5 DEF Asked

LEMMA ManagerImplements ==
    ASSUME TypeOK, PassHasCluster, NEW m \in Managers, ManagerStep(m)
    PROVE  Managed!Next
<1>1. cr' = cr /\ Managed!Forgotten
  BY ViewsShrink DEF Managed!Forgotten
<1>2. CASE UNCHANGED objs
  BY <1>1, <1>2 DEF Managed!Next, Managed!Forget
<1>3. CASE ApplyWrite(m)
  <2> DEFINE w == [id |-> ObjectId(work[m].resource), object |-> work[m].object]
  <2>1. pc[m] = "apply" /\ objs' = [objs EXCEPT ![w.id] = w.object]
    BY <1>3 DEF ApplyWrite
  <2>2. snap[m] \in Views /\ w \in Asked(snap[m])
    BY <2>1, WorkIsAsked
  <2>3. \E v \in Views : \E x \in Asked(v) : objs' = [objs EXCEPT ![x.id] = x.object]
    BY <2>1, <2>2
  <2>4. Managed!Write
    BY <1>1, <2>3 DEF Managed!Write
  <2>5. QED
    BY <2>4 DEF Managed!Next
<1>4. QED
  BY <1>2, <1>3, OnlyApplyWrites

LEMMA EnvironmentImplements ==
    ASSUME TypeOK, Environment
    PROVE  [Managed!Next]_Managed!vars
<1>1. UNCHANGED <<pc, snap, cached>>
  BY EnvironmentKeepsManagers
<1>2. Views' = (Views \ {cr}) \cup {cr'} \/ Views' = Views \cup {cr'}
  BY <1>1 DEF Views, InPass
<1>3. cr \in Views
  BY DEF Views
<1>4. ASSUME NEW uid, NEW s, NewVersion(uid, s) PROVE Managed!NewVersion(uid, s)
  <2>1. /\ cr.version < MaxVersion
        /\ cr' = [uid |-> uid, version |-> cr.version + 1, spec |-> s]
        /\ UNCHANGED objs
    BY <1>4 DEF NewVersion
  <2>2. QED
    BY <1>2, <2>1 DEF Managed!NewVersion
<1>5. CASE UserCreate
  <2>1. Managed!Create
    BY <1>4, <1>5 DEF UserCreate, Managed!Create
  <2>2. QED
    BY <2>1 DEF Managed!Next
<1>6. CASE UserEdit
  <2>1. Managed!Edit
    BY <1>4, <1>6 DEF UserEdit, Managed!Edit
  <2>2. QED
    BY <2>1 DEF Managed!Next
<1>7. CASE UserDelete
  <2>1. Managed!Delete
    BY <1>4, <1>7 DEF UserDelete, Managed!Delete
  <2>2. QED
    BY <2>1 DEF Managed!Next
<1>8. ASSUME cr' = cr PROVE Views' = Views
  BY <1>1, <1>8 DEF Views, InPass
<1>9. ASSUME NEW id \in Ids, Exists(id) PROVE objs[id] # NoObject
  BY <1>9, NoObjectIsObject DEF Exists
<1>10. CASE GarbageCollect
  <2>1. UNCHANGED <<cr, Views>>
    BY <1>8, <1>10 DEF GarbageCollect
  <2>2. Managed!Collect
    BY <1>9, <1>10, <2>1 DEF GarbageCollect, Managed!Collect
  <2>3. QED
    BY <2>2 DEF Managed!Next
<1>11. CASE Drift
  <2>1. UNCHANGED <<cr, Views>>
    BY <1>8, <1>11 DEF Drift
  <2>2. Managed!Tamper
    BY <1>9, <1>11, <2>1 DEF Drift, Managed!Tamper
  <2>3. QED
    BY <2>2 DEF Managed!Next
<1>12. CASE PodsUp \/ PodsDown \/ InputChange
  <2>1. UNCHANGED <<cr, objs>>
    BY <1>12 DEF PodsUp, PodsDown, InputChange
  <2>2. QED
    BY <1>8, <2>1 DEF Managed!vars
<1>13. QED
  BY <1>5, <1>6, <1>7, <1>10, <1>11, <1>12 DEF Environment

(* Every step of the reconcile loop is one of ManagedCluster, or none. *)
LEMMA NextImplements ==
    TypeOK /\ PassHasCluster /\ [Next]_vars => [Managed!Next]_Managed!vars
<1>1. SUFFICES ASSUME TypeOK, PassHasCluster, [Next]_vars
               PROVE  [Managed!Next]_Managed!vars
  OBVIOUS
<1>2. CASE UNCHANGED vars
  BY <1>2 DEF vars, Managed!vars, Views, InPass
<1>3. ASSUME NEW m \in Managers, ManagerStep(m) PROVE [Managed!Next]_Managed!vars
  BY <1>1, <1>3, ManagerImplements
<1>4. QED
  BY <1>1, <1>2, <1>3, EnvironmentImplements DEF Next, ManagerStep

LEMMA InitImplements == Init => PassHasCluster /\ Views = {cr} /\ Managed!Init
<1>1. SUFFICES ASSUME Init PROVE PassHasCluster /\ Views = {cr}
  BY DEF Init, Managed!Init
<1>2. QED
  BY <1>1 DEF Init, Views, InPass, PassHasCluster

(* The reconcile loop implements ManagedCluster: caches that lag, queues,   *)
(* conflicts, retries, restarts and other managers never make an object     *)
(* into anything but what one version of the cluster that some manager      *)
(* still holds asks for, with that version's owner, and no forgotten        *)
(* version comes back.                                                      *)
THEOREM ReconcilerImplements == Spec => ImplementsManagedCluster
BY InitImplements, NextImplements, PassHasClusterNext, ReconcilerTypeCorrect, PTL
   DEF Spec, ImplementsManagedCluster, Managed!Spec
==============================================================================

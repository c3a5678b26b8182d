----------------------------- MODULE OperatedPod ------------------------------
(***************************************************************************)
(* The whole system: the reconcile loop, with its managers, caches, queues *)
(* and faults, and a pod of one of the role groups it writes.  Each moves  *)
(* in its own time; they meet in the StatefulSet and the ConfigMap of the  *)
(* group, which the managers write and the pod's controllers read.  (What  *)
(* the reconcile sees of pods, ready, is not tied to this one: it is left  *)
(* as open as HbaseReconciler leaves it.)                                  *)
(***************************************************************************)
EXTENDS GroupRefinementProofs

VARIABLES hdfs, phase, template, mount, names, conf, realm, steady, plain,
          podFaults     (* the pod's part of RoleGroupPod, its faults apart *)

podOnly == <<hdfs, phase, template, mount, names, conf, realm, steady>>
operatedVars == <<vars, podOnly, plain, podFaults>>

InGroup == INSTANCE RoleGroupPodProofs
    WITH views <- Views, objs <- GroupObjs, faults <- podFaults

OperatedInit == Init /\ InGroup!Init

(* A step of the operator, of its users or of another controller. *)
OperatorStep ==
    /\ Next
    /\ InGroup!NotePlain
    /\ UNCHANGED <<podOnly, podFaults>>

(* A step of the pod, of its controllers or of the HDFS operator. *)
PodStep ==
    /\ UNCHANGED vars
    /\ InGroup!PodStep

OperatedNext == OperatorStep \/ PodStep

OperatedSpec == OperatedInit /\ [][OperatedNext]_operatedVars

-----------------------------------------------------------------------------
(* InGroup carries definitions of its own of all that RoleGroup defines;    *)
(* they say the same.                                                       *)

LEMMA SameResources ==
    /\ \A s : InGroup!RegisterResources(s) = RegisterResources(s)
    /\ \A k : InGroup!ObjectId(k) = ObjectId(k)
BY DEF RegisterResources, MasterResources, RegionServerResources, RestServerResources,
       RoleGroupResources, Kinds, RegisterResourceWithRoleGroup, ObjectId,
       CreateServiceMetricsName,
       InGroup!RegisterResources, InGroup!MasterResources, InGroup!RegionServerResources,
       InGroup!RestServerResources, InGroup!RoleGroupResources, InGroup!Kinds,
       InGroup!RegisterResourceWithRoleGroup, InGroup!ObjectId,
       InGroup!CreateServiceMetricsName

LEMMA SamePorts ==
    \A role : /\ InGroup!Ports(role) = Ports(role)
              /\ InGroup!UpstreamPort(role) = UpstreamPort(role)
              /\ InGroup!getProbeHandler(role) = getProbeHandler(role)
              /\ InGroup!GetMetricsPort(role) = GetMetricsPort(role)
BY DEF Ports, MasterPorts, RegionServerPorts, RestServerPorts, Port, UpstreamPort,
       getProbeHandler, GetMetricsPort,
       InGroup!Ports, InGroup!MasterPorts, InGroup!RegionServerPorts,
       InGroup!RestServerPorts, InGroup!Port, InGroup!UpstreamPort,
       InGroup!getProbeHandler, InGroup!GetMetricsPort

LEMMA SameAffinity ==
    \A role : InGroup!buildPodAffinity(InGroup!GetDefaultAffinityBuilder(role)) =
                buildPodAffinity(GetDefaultAffinityBuilder(role))
BY DEF buildPodAffinity, Terms, RequiredTerm, PreferredTerm, GetDefaultAffinityBuilder,
       NewAffinityBuilder, Weight, NewPodAffinity,
       InGroup!buildPodAffinity, InGroup!Terms, InGroup!RequiredTerm,
       InGroup!PreferredTerm, InGroup!GetDefaultAffinityBuilder,
       InGroup!NewAffinityBuilder, InGroup!Weight, InGroup!NewPodAffinity

LEMMA SameBuild ==
    ASSUME NEW s, NEW k, NEW in
    PROVE  /\ InGroup!Build(s, k, in) = Build(s, k, in)
           /\ InGroup!BuildFails(s, k, in) = BuildFails(s, k, in)
<1>1. InGroup!buildOidcContainer(s, k.role, in) = buildOidcContainer(s, k.role, in)
  <2>1. InGroup!ProviderHints = ProviderHints
    BY DEF ProviderHints, InGroup!ProviderHints
  <2>2. ASSUME NEW port, NEW hint
        PROVE  InGroup!GetContainer(port, hint) = GetContainer(port, hint)
    <3>1. InGroup!getEnvVars(port, hint) = getEnvVars(port, hint)
      BY Zenon DEF getEnvVars, InGroup!getEnvVars
    <3>2. InGroup!OidcContainerPort = OidcContainerPort
      BY DEF OidcContainerPort, Port, InGroup!OidcContainerPort, InGroup!Port
    <3>3. QED
      BY <3>1, <3>2 DEF GetContainer, InGroup!GetContainer
  <2>3. InGroup!UpstreamPort(k.role) = UpstreamPort(k.role)
    BY SamePorts
  <2>4. QED
    BY <2>1, <2>2, <2>3, Zenon DEF buildOidcContainer, InGroup!buildOidcContainer
<1>2. InGroup!BuildStatefulSet(s, k, in) = BuildStatefulSet(s, k, in)
  BY <1>1, SamePorts, SameAffinity
     DEF BuildStatefulSet, getVolumes, StatefulSetKrb5, KerberosVolumes,
         InGroup!BuildStatefulSet, InGroup!getVolumes, InGroup!StatefulSetKrb5,
         InGroup!KerberosVolumes
<1>3. InGroup!BuildService(s, k) = BuildService(s, k)
  BY SamePorts DEF BuildService, InGroup!BuildService
<1>4. InGroup!BuildMetricsService(s, k) = BuildMetricsService(s, k)
  BY SamePorts DEF BuildMetricsService, Port, InGroup!BuildMetricsService, InGroup!Port
<1>5. InGroup!BuildConfigMap(s, k, in) = BuildConfigMap(s, k, in)
  BY DEF BuildConfigMap, ConfigMapKrb5, KerberosFiles,
         InGroup!BuildConfigMap, InGroup!ConfigMapKrb5, InGroup!KerberosFiles
<1>6. InGroup!Build(s, k, in) = Build(s, k, in)
  BY <1>2, <1>3, <1>4, <1>5 DEF Build, InGroup!Build
<1>7. InGroup!BuildFails(s, k, in) = BuildFails(s, k, in)
  BY DEF BuildFails, buildOidcContainerFails, AddHbaseSiteFails, AddVectorConfigFails,
         InGroup!BuildFails, InGroup!buildOidcContainerFails, InGroup!AddHbaseSiteFails,
         InGroup!AddVectorConfigFails
<1>8. QED
  BY <1>6, <1>7

LEMMA SameGroup ==
    /\ InGroup!Sts = Sts /\ InGroup!Cm = Cm
    /\ InGroup!NoObject = NoObject /\ InGroup!NoCluster = NoCluster
    /\ \A o : InGroup!Edits(o) = Edits(o)
    /\ \A c : InGroup!AskedOfGroup(c) = AskedOfGroup(c)
<1>1. InGroup!Sts = Sts /\ InGroup!Cm = Cm
  BY DEF Sts, Cm, ConfigMapOf, InGroup!Sts, InGroup!Cm, InGroup!ConfigMapOf
<1>2. /\ InGroup!NoObject = NoObject /\ InGroup!NoCluster = NoCluster
      /\ \A o : InGroup!Edits(o) = Edits(o)
  BY DEF NoObject, NoCluster, Edits, InGroup!NoObject, InGroup!NoCluster, InGroup!Edits
<1>3. ASSUME NEW s, NEW k PROVE InGroup!Desired(s, k) = Desired(s, k)
  BY SameBuild DEF Desired, InGroup!Desired
<1>4. ASSUME NEW c PROVE InGroup!Asked(c) = Asked(c)
  BY <1>3, SameResources DEF Asked, InGroup!Asked
<1>5. ASSUME NEW c PROVE InGroup!AskedOfGroup(c) = AskedOfGroup(c)
  BY <1>1, <1>4 DEF AskedOfGroup, InGroup!AskedOfGroup
<1>6. QED
  BY <1>1, <1>2, <1>5

-----------------------------------------------------------------------------
(* The operator of RoleGroupPod is the one that GroupRefinement finds in    *)
(* the reconcile loop.                                                      *)

LEMMA SameOperator ==
    /\ OfGroup!Init => InGroup!Cluster!Init
    /\ OfGroup!Next => InGroup!Cluster!Next
<1>1. OfGroup!Init => InGroup!Cluster!Init
  BY SameGroup DEF OfGroup!Init, InGroup!Cluster!Init
<1>2. ASSUME NEW uid, NEW s, OfGroup!NewVersion(uid, s)
      PROVE  InGroup!Cluster!NewVersion(uid, s)
  BY <1>2 DEF OfGroup!NewVersion, InGroup!Cluster!NewVersion
<1>3. OfGroup!Forgotten => InGroup!Cluster!Forgotten
  BY DEF OfGroup!Forgotten, InGroup!Cluster!Forgotten
<1>4. OfGroup!Forget => InGroup!Cluster!Forget
  BY <1>3 DEF OfGroup!Forget, InGroup!Cluster!Forget
<1>5. OfGroup!Write => InGroup!Cluster!Write
  BY <1>3, SameGroup DEF OfGroup!Write, InGroup!Cluster!Write
<1>6. /\ OfGroup!Create => InGroup!Cluster!Create
      /\ OfGroup!Edit => InGroup!Cluster!Edit
      /\ OfGroup!Delete => InGroup!Cluster!Delete
  BY <1>2 DEF OfGroup!Create, OfGroup!Edit, OfGroup!Delete,
              InGroup!Cluster!Create, InGroup!Cluster!Edit, InGroup!Cluster!Delete
<1>7. OfGroup!Collect => InGroup!Cluster!Collect
  BY SameGroup DEF OfGroup!Collect, InGroup!Cluster!Collect
<1>8. OfGroup!Tamper => InGroup!Cluster!Tamper
  BY SameGroup DEF OfGroup!Tamper, InGroup!Cluster!Tamper
<1>9. OfGroup!Next => InGroup!Cluster!Next
  BY <1>4, <1>5, <1>6, <1>7, <1>8 DEF OfGroup!Next, InGroup!Cluster!Next
<1>10. QED
  BY <1>1, <1>9

(* What is needed of the states: the two invariants of the reconcile loop,  *)
(* and that the history variable is one, so that it stands still when the   *)
(* cluster does.                                                            *)
Noted == plain \in BOOLEAN

(* The operator's steps are steps of the pod's surroundings, or not seen by *)
(* the pod at all; the pod's steps are none of the operator.                *)
LEMMA OperatedInitImplements ==
    OperatedInit => Init /\ TypeOK /\ PassHasCluster /\ Noted /\ InGroup!Init
BY InitImplements, TypeInit DEF OperatedInit, Noted, InGroup!Init

LEMMA OperatedNextImplements ==
    TypeOK /\ PassHasCluster /\ Noted /\ [OperatedNext]_operatedVars =>
      /\ [Next]_vars
      /\ [InGroup!Next]_InGroup!vars
      /\ Noted'
<1>1. SUFFICES ASSUME TypeOK, PassHasCluster, Noted,
                      [OperatedNext]_operatedVars
               PROVE  /\ [Next]_vars /\ [InGroup!Next]_InGroup!vars
                      /\ Noted'
  OBVIOUS
<1>2. UNCHANGED vars => UNCHANGED <<cr, Views, GroupObjs>>
  BY DEF vars, Views, InPass, GroupObjs
<1>3. CASE OperatorStep
  <2>1. Next /\ InGroup!NotePlain /\ UNCHANGED <<podOnly, podFaults>>
    BY <1>3 DEF OperatorStep
  <2>2. Noted'
    BY <1>1, <2>1 DEF Noted, InGroup!NotePlain
  <2>3. [OfGroup!Next]_OfGroup!vars
    BY <1>1, <2>1, NextImplements, Projection
  <2>4. CASE OfGroup!Next
    <3>1. InGroup!Cluster!Next
      BY <2>4, SameOperator
    <3>2. InGroup!ClusterStep
      BY <2>1, <3>1 DEF InGroup!ClusterStep, InGroup!podVars, podOnly
    <3>3. QED
      BY <2>1, <2>2, <3>2 DEF InGroup!Next
  <2>5. CASE UNCHANGED OfGroup!vars
    <3>1. UNCHANGED <<cr, Views, GroupObjs>>
      BY <2>5 DEF OfGroup!vars
    <3>2. plain' = plain
      BY <1>1, <2>1, <3>1 DEF Noted, InGroup!NotePlain
    <3>3. UNCHANGED InGroup!vars
      BY <2>1, <3>1, <3>2 DEF InGroup!vars, podOnly
    <3>4. QED
      BY <2>1, <2>2, <3>3
  <2>6. QED
    BY <2>3, <2>4, <2>5
<1>4. CASE PodStep
  <2>1. UNCHANGED vars /\ InGroup!PodStep
    BY <1>4 DEF PodStep
  <2>2. plain' = plain
    BY <2>1 DEF InGroup!PodStep, InGroup!HdfsAppears, InGroup!CreatePod, InGroup!DeletePod,
                InGroup!Evict, InGroup!MountVolumes, InGroup!Refresh, InGroup!Script,
                InGroup!ListFiles, InGroup!CopyFile, InGroup!NothingListed,
                InGroup!CopyHdfs, InGroup!GetContainerCommands,
                InGroup!HbaseWithoutKeytab, InGroup!HbaseCrashes, InGroup!scriptUnchanged
  <2>3. QED
    BY <1>1, <2>1, <2>2 DEF Noted, InGroup!Next
<1>5. CASE UNCHANGED operatedVars
  <2>1. UNCHANGED <<vars, podOnly, plain, podFaults>>
    BY <1>5 DEF operatedVars
  <2>2. UNCHANGED InGroup!vars
    BY <1>2, <2>1 DEF InGroup!vars, podOnly
  <2>3. QED
    BY <1>1, <2>1, <2>2 DEF Noted
<1>6. QED
  BY <1>1, <1>3, <1>4, <1>5 DEF OperatedNext

(* The whole system is a reconcile loop and, for its pod, a role group as   *)
(* RoleGroupPod has it: what is proved of either holds of the two together. *)
THEOREM OperatedImplements == OperatedSpec => Spec /\ InGroup!Spec
<1>1. TypeOK /\ PassHasCluster /\ [Next]_vars => TypeOK' /\ PassHasCluster'
  BY TypeNext, PassHasClusterNext
<1>2. QED
  BY <1>1, OperatedInitImplements, OperatedNextImplements, PTL
     DEF OperatedSpec, Spec, InGroup!Spec

(* What RoleGroupPod assumes of its constants, the system's satisfy. *)
LEMMA PodInGroup == Pod \in [role : InGroup!Roles, group : Groups]
BY PodAssumption DEF Roles, InGroup!Roles

LEMMA BoundsInGroup == MaxVersion \in Nat /\ MaxFaults \in Nat
BY ManagersAssumption

LEMMA ConstantsInGroup ==
    /\ Groups \subseteq Names
    /\ MetricsName \in [Groups -> Names]
    /\ Inputs # {} /\ Inputs \subseteq InGroup!InputTypes
    /\ Specs # {}
    /\ \A s \in Specs : InGroup!IsSpec(s)
    /\ Foreign \subseteq InGroup!StatefulSetTypes \cup InGroup!ServiceTypes
                           \cup InGroup!ConfigMapTypes
<1>1. /\ InGroup!InputTypes = InputTypes
      /\ \A s \in Specs : InGroup!IsSpec(s)
  BY ConstantsAssumption DEF InputTypes, IsSpec, ProviderHints, Roles,
     InGroup!InputTypes, InGroup!IsSpec, InGroup!ProviderHints, InGroup!Roles
<1>2. InGroup!StatefulSetTypes = StatefulSetTypes
  <2>1. InGroup!PortTypes = PortTypes
    BY DEF PortTypes, InGroup!PortTypes
  <2>2. InGroup!ProxyTypes = ProxyTypes
    BY <2>1 DEF ProxyTypes, InGroup!ProxyTypes
  <2>3. InGroup!AffinityTypes = AffinityTypes
    BY DEF AffinityTypes, SideTypes, InGroup!AffinityTypes, InGroup!SideTypes
  <2>4. QED
    BY <2>1, <2>2, <2>3 DEF StatefulSetTypes, InGroup!StatefulSetTypes
<1>3. InGroup!ServiceTypes = ServiceTypes
  BY DEF ServiceTypes, PortTypes, InGroup!ServiceTypes, InGroup!PortTypes
<1>4. InGroup!ConfigMapTypes = ConfigMapTypes
  BY DEF ConfigMapTypes, FileNames, FileOrder,
         InGroup!ConfigMapTypes, InGroup!FileNames, InGroup!FileOrder
<1>5. QED
  BY <1>1, <1>2, <1>3, <1>4, ConstantsAssumption

(* Of any managers that reconcile a cluster which had Kerberos in every     *)
(* version, with their stale caches, conflicts, retries, crashes and late   *)
(* writes, no pod of any role group ever runs a server without Kerberos,    *)
(* without its realm or without its keytab, unless by way of an object that *)
(* somebody other than the operator had edited.                             *)
THEOREM OperatedPodIsSecured == OperatedSpec => []InGroup!SecuredFromTheStart
BY OperatedImplements, InGroup!PodSecuredFromTheStart,
   PodInGroup, BoundsInGroup, ConstantsInGroup, PTL

(* Whatever the operator writes while the start script copies, a server     *)
(* whose mount stood still runs with one ConfigMap and all of it.           *)
THEOREM OperatedPodRunsOneConfig == OperatedSpec => []InGroup!RunsOneConfig
BY OperatedImplements, InGroup!PodRunsOneConfig,
   PodInGroup, BoundsInGroup, ConstantsInGroup, PTL
==============================================================================

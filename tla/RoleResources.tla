---------------------------- MODULE RoleResources ----------------------------
(***************************************************************************)
(* What one HbaseCluster asks for: the resources that its roles register,  *)
(* in which order, under which names, and the object that each builder     *)
(* makes of the cluster's spec and of the objects it reads from the API    *)
(* server while it builds.  There is no state here; the reconcile loop     *)
(* that applies these objects is HbaseReconciler.                          *)
(*                                                                         *)
(* A cluster spec (IsSpec) is a record                                     *)
(*   roles     which roles are given (the field of an absent role is a nil *)
(*             pointer in Go), and for each the replicas of its groups     *)
(*   stopped   spec.clusterOperation.stopped                               *)
(*   krb5, tls the two secret class names, "" when unset                   *)
(*   authClass the AuthenticationClass to look up, "" when unset           *)
(*   oidc      whether authentication.oidc is given                        *)
(*   vector    whether a vector aggregator ConfigMap is named              *)
(***************************************************************************)
EXTENDS Naturals, Sequences, Affinity

CONSTANTS Groups,       (* role group names a user may choose               *)
          Names,        (* object names, the group part; Groups is a subset *)
          MetricsName,  (* [Groups -> Names]: the name with "-metrics" added *)
          Znodes,       (* complete contents of the ZooKeeper ConfigMap     *)
          Inputs,       (* states of the objects the builders read          *)
          Specs,        (* cluster specs a user may submit                  *)
          Foreign       (* bodies that others may give the objects          *)

Roles == {"master", "regionserver", "restserver"}

(* The four reconcilers of a role group, in the order they are appended. *)
RegisterResourceWithRoleGroup ==
    <<"StatefulSet", "Service", "ConfigMap", "MetricsService">>

Kinds == {RegisterResourceWithRoleGroup[i] :
            i \in DOMAIN RegisterResourceWithRoleGroup}

Resources == [role : Roles, group : Groups, kind : Kinds]

(* What the builders read from the API server: the ZooKeeper ConfigMap      *)
(* ("incomplete" when one of its keys is missing), the AuthenticationClass  *)
(* ("other" when its provider is not OIDC, the provider's hint when it is)  *)
(* and the vector ConfigMap.                                                *)
ProviderHints == {"keycloak", "oidc"}
InputTypes == [zk     : {"missing", "incomplete"} \cup Znodes,
               auth   : {"missing", "other"} \cup ProviderHints,
               vector : {"missing", "present"}]

(* What the custom resource definition accepts.  (It also accepts           *)
(* clusterOperation.reconciliationPaused, which is handed to operator-go    *)
(* and not modelled.)                                                       *)
IsSpec(s) ==
    /\ DOMAIN s.roles \subseteq Roles
    /\ \A r \in DOMAIN s.roles :
          /\ DOMAIN s.roles[r] \subseteq Groups
          /\ \A g \in DOMAIN s.roles[r] : s.roles[r][g] \in Nat
    /\ {s.krb5, s.tls, s.authClass} \subseteq STRING
    /\ {s.stopped, s.oidc, s.vector} \subseteq BOOLEAN

(* The bodies of the owned objects, as the API server takes them from       *)
(* anybody.  The files of a ConfigMap are in the order in which a shell     *)
(* lists them; others than these are not told apart.                        *)
FileOrder == <<"hbase-env.sh", "hbase-site.xml", "log4j.properties",
               "ssl-client.xml", "ssl-server.xml", "vector.yaml">>
FileNames == {FileOrder[i] : i \in DOMAIN FileOrder}

PortTypes == [name : STRING, port : Nat]
ProxyTypes == [name : STRING, ports : SUBSET PortTypes,
               env : [UPSTREAM : Nat, OAUTH2_PROXY_PROVIDER : STRING]]

StatefulSetTypes ==
    [kind     : {"StatefulSet"},     replicas : Nat,
     ports    : SUBSET PortTypes,    probe    : STRING,
     proxy    : SUBSET ProxyTypes,   vector   : BOOLEAN,
     affinity : AffinityTypes,       volumes  : SUBSET STRING]
ServiceTypes ==
    [kind : {"Service", "MetricsService"}, headless : BOOLEAN, ports : SUBSET PortTypes]
ConfigMapTypes ==
    [kind : {"ConfigMap"}, znode : STRING, kerberos : BOOLEAN, files : SUBSET FileNames]

ASSUME ConstantsAssumption ==
    /\ Groups \subseteq Names
    /\ MetricsName \in [Groups -> Names]
    /\ Inputs # {} /\ Inputs \subseteq InputTypes
    /\ Specs # {}
    /\ \A s \in Specs : IsSpec(s)
    /\ Foreign \subseteq StatefulSetTypes \cup ServiceTypes \cup ConfigMapTypes

-----------------------------------------------------------------------------
(* Registration.  It touches nothing but memory: a nil role is dereferenced *)
(* by the loop over its role groups, whichever of the three it is, before   *)
(* any resource has been reconciled.                                        *)

RegisterPanics(s) == Roles \ DOMAIN s.roles # {}

RoleGroupResources(s, role) ==
    IF role \in DOMAIN s.roles
      THEN [role : {role}, group : DOMAIN s.roles[role], kind : Kinds]
      ELSE {}

MasterResources(s)       == RoleGroupResources(s, "master")
RegionServerResources(s) == RoleGroupResources(s, "regionserver")
RestServerResources(s)   == RoleGroupResources(s, "restserver")

RegisterResources(s) ==
    MasterResources(s) \cup RegionServerResources(s) \cup RestServerResources(s)

(* The order of AddResource: master, regionserver, restserver.  Within a    *)
(* role the groups come in the order of a Go map, which is any order.       *)
RoleOrder == <<"master", "regionserver", "restserver">>

Position(seq, a) == CHOOSE i \in DOMAIN seq : seq[i] = a
Before(seq, a, b) == Position(seq, a) < Position(seq, b)

(* The next resource to reconcile when those in todo are left: of the first *)
(* role left, from a role group that is begun if there is one, and of the   *)
(* first kind left in that group.                                           *)
(* (The mutation goes through the registered resources in any order.)       *)
AnyResource(todo, k) == k \in todo

NextResource(todo, k) ==
    /\ k \in todo
    /\ \A j \in todo \ {k} :
          \/ Before(RoleOrder, k.role, j.role)
          \/ /\ j.role = k.role /\ j.group = k.group
             /\ Before(RegisterResourceWithRoleGroup, k.kind, j.kind)
          \/ /\ j.role = k.role /\ j.group # k.group
             /\ [j EXCEPT !.kind = RegisterResourceWithRoleGroup[1]] \in todo

-----------------------------------------------------------------------------
(* Names.  Both services of a group are Services of the API server; only    *)
(* the "-metrics" suffix keeps them apart.                                  *)

CreateServiceMetricsName(group) == MetricsName[group]

ObjectId(k) ==
    [kind |-> IF k.kind = "MetricsService" THEN "Service" ELSE k.kind,
     role |-> k.role,
     name |-> IF k.kind = "MetricsService"
                THEN CreateServiceMetricsName(k.group) ELSE k.group]

Ids == {ObjectId(k) : k \in Resources}

(* The resources of the spec that are written to the same object as k: the  *)
(* Service of a group called "g-metrics" is the metrics service of "g".     *)
Sharing(s, k) == {j \in RegisterResources(s) : ObjectId(j) = ObjectId(k)}

(* No two resources of the spec are written to the same object. *)
CollisionFree(s) == \A k \in RegisterResources(s) : Sharing(s, k) = {k}

-----------------------------------------------------------------------------
(* Ports: the container ports of a role, the port its probes name, and the  *)
(* port its metrics service publishes.                                      *)

Port(name, number) == [name |-> name, port |-> number]

MasterPorts       == {Port("master", 16000), Port("ui-http", 16010)}
RegionServerPorts == {Port("regionserver", 16020), Port("ui-http", 16030),
                      Port("metrics", 9100)}
RestServerPorts   == {Port("rest-http", 8080), Port("ui-http", 8085),
                      Port("metrics", 9100)}

Ports(role) == CASE role = "master"       -> MasterPorts
                 [] role = "regionserver" -> RegionServerPorts
                 [] role = "restserver"   -> RestServerPorts

(* Mutation: the role's name for every probe. *)
ProbeIsRole(role) == role

getProbeHandler(role) == IF role = "restserver" THEN "rest-http" ELSE role

GetMetricsPort(role) == CASE role = "master"       -> 16010
                          [] role = "regionserver" -> 16030
                          [] role = "restserver"   -> 8085

-----------------------------------------------------------------------------
(* Kerberos is on when both secret classes are named; the two builders      *)
(* decide it separately.  (Mutations: one of the two is enough; a builder   *)
(* that was not told.)                                                      *)
EitherClass(s) == s.krb5 # "" \/ s.tls # ""
NeverKrb5(s) == FALSE

StatefulSetKrb5(s) == s.krb5 # "" /\ s.tls # ""
ConfigMapKrb5(s)   == s.krb5 # "" /\ s.tls # ""

(* The class is fetched, and must exist, before the code looks whether OIDC *)
(* is wanted at all.                                                        *)
buildOidcContainerFails(s, in) == s.authClass # "" /\ in.auth = "missing"

(* The proxy: the port it listens on, the port of the same pod it forwards  *)
(* to, and the provider it is told to expect behind the issuer.  (The       *)
(* cookie secret is a hash of the cluster's uid, which is the object's      *)
(* owner here; the other variables are constant.)                           *)
OidcContainerPort == Port("oidc", 4180)

getEnvVars(upstream, hint) ==
    [UPSTREAM              |-> upstream,
     OAUTH2_PROXY_PROVIDER |-> IF hint = "keycloak" THEN "keycloak-oidc" ELSE hint]

GetContainer(upstream, hint) ==
    [name |-> "oidc", ports |-> {OidcContainerPort}, env |-> getEnvVars(upstream, hint)]

(* The UI's port; 0, the zero value, in a role that has none. *)
UpstreamPort(role) ==
    IF \E p \in Ports(role) : p.name = "ui-http"
      THEN (CHOOSE p \in Ports(role) : p.name = "ui-http").port
      ELSE 0

buildOidcContainer(s, role, in) ==
    IF s.authClass # "" /\ in.auth \in ProviderHints /\ s.oidc
      THEN {GetContainer(UpstreamPort(role), in.auth)} ELSE {}

(* The files of the HbaseKerberosConfig: the secret volumes on one side,    *)
(* the SSL settings and the Kerberos part of hbase-site.xml on the other.   *)
KerberosVolumes  == {"kerberos", "tls"}
KerberosFiles    == {"ssl-client.xml", "ssl-server.xml"}

getVolumes == {"hdfs-config", "hbase-config"}

BuildStatefulSet(s, k, in) ==
    [kind       |-> "StatefulSet",
     replicas   |-> IF s.stopped THEN 0 ELSE s.roles[k.role][k.group],
     ports      |-> Ports(k.role),
     probe      |-> getProbeHandler(k.role),
     proxy      |-> buildOidcContainer(s, k.role, in),
     vector     |-> s.vector,
     affinity   |-> buildPodAffinity(GetDefaultAffinityBuilder(k.role)),
     volumes    |-> getVolumes \cup
                      (IF StatefulSetKrb5(s) THEN KerberosVolumes ELSE {})]

BuildService(s, k) ==
    [kind |-> "Service", headless |-> FALSE, ports |-> Ports(k.role)]

(* (Mutation: a Service with an address of its own, the builder's default.) *)
NotHeadless(s, k) ==
    [kind |-> "MetricsService", headless |-> FALSE,
     ports |-> {Port("metrics", GetMetricsPort(k.role))}]

BuildMetricsService(s, k) ==
    [kind |-> "MetricsService", headless |-> TRUE,
     ports |-> {Port("metrics", GetMetricsPort(k.role))}]

AddHbaseSiteFails(in)       == in.zk \in {"missing", "incomplete"}
AddVectorConfigFails(s, in) == s.vector /\ in.vector = "missing"

BuildConfigMap(s, k, in) ==
    [kind     |-> "ConfigMap",
     znode    |-> in.zk,
     kerberos |-> ConfigMapKrb5(s),
     files    |-> {"hbase-site.xml", "hbase-env.sh", "log4j.properties"}
                    \cup (IF ConfigMapKrb5(s) THEN KerberosFiles ELSE {})
                    \cup (IF s.vector THEN {"vector.yaml"} ELSE {})]

(* Building stops at the first step that fails; nothing is applied then. *)
BuildFails(s, k, in) ==
    \/ k.kind = "StatefulSet" /\ buildOidcContainerFails(s, in)
    \/ k.kind = "ConfigMap" /\ (AddHbaseSiteFails(in) \/ AddVectorConfigFails(s, in))

Build(s, k, in) == CASE k.kind = "StatefulSet"    -> BuildStatefulSet(s, k, in)
                     [] k.kind = "Service"        -> BuildService(s, k)
                     [] k.kind = "ConfigMap"      -> BuildConfigMap(s, k, in)
                     [] k.kind = "MetricsService" -> BuildMetricsService(s, k)

(* Every object body that may be built for resource k of spec s. *)
Desired(s, k) == {Build(s, k, in) : in \in {i \in Inputs : ~BuildFails(s, k, i)}}

(* The inputs let every resource of the spec be built. *)
Buildable(s, in) == \A k \in RegisterResources(s) : ~BuildFails(s, k, in)

-----------------------------------------------------------------------------
(* Values of a cluster and of an object in the API server.  A cluster       *)
(* without uid is none, an object with owner 0 has no owner reference.      *)

NoCluster == [uid |-> 0, version |-> 0, spec |-> CHOOSE s \in Specs : TRUE]
NoObject == [owner |-> 0, body |-> [kind |-> "none"]]

(* What an object may be after somebody else has edited it: still an object *)
(* of its kind and the cluster's own, with a body that no builder made.     *)
Edits(o) == {[o EXCEPT !.body = b] : b \in {f \in Foreign : f.kind = o.body.kind}}

(* The ConfigMap that a StatefulSet's pods mount has the group's name. *)
ConfigMapOf(id) == [id EXCEPT !.kind = "ConfigMap"]

(* The objects, with their names, that cluster c asks for. *)
Asked(c) ==
    IF c.uid = 0 THEN {} ELSE
      UNION {{[id     |-> ObjectId(k),
               object |-> [owner |-> c.uid, body |-> b]] : b \in Desired(c.spec, k)} :
             k \in RegisterResources(c.spec)}
==============================================================================

---------------------------- MODULE RoleGroupPod ------------------------------
(***************************************************************************)
(* One pod of a role group: how the configuration that the operator writes *)
(* reaches the HBase server.  The StatefulSet and the ConfigMap of the     *)
(* group change as ManagedCluster lets them; the StatefulSet controller    *)
(* and the kubelet follow them, each in its own time; and the start script *)
(* copies what is mounted, file by file, before it starts HBase.           *)
(*                                                                         *)
(* The kubelet replaces the files of a mounted ConfigMap whenever it sees  *)
(* a new one, also between two files of one cp.  The directory the script  *)
(* copies to is not a volume: a container that is restarted finds it empty.*)
(***************************************************************************)
EXTENDS RoleGroup

CONSTANTS MaxVersion,   (* bound on the versions of the HbaseCluster        *)
          MaxFaults     (* bound on evictions and crashes                   *)

ASSUME BoundsAssumption == MaxVersion \in Nat /\ MaxFaults \in Nat

VARIABLES
    cr, objs, views,    (* ManagedCluster, for the two objects of the group  *)
    hdfs,               (* the HDFS ConfigMap                                *)
    phase,              (* what the pod and its start script are doing       *)
    template,           (* the StatefulSet that the pod was created from     *)
    mount,              (* the ConfigMap as the kubelet has mounted it       *)
    names,              (* the files that the first cp has yet to copy       *)
    conf,               (* the files copied, each with where it came from    *)
    realm,              (* ${env.KERBEROS_REALM} is replaced in the sites    *)
    steady,             (* history: the mount did not change under the script *)
    plain,              (* history: a version without Kerberos was submitted *)
    faults              (* the number of faults so far                       *)

clusterVars == <<cr, objs, views>>
podVars == <<phase, template, mount, names, conf, realm, steady>>
vars == <<cr, objs, views, hdfs, phase, template, mount, names, conf, realm,
          steady, plain, faults>>

Cluster == INSTANCE ManagedCluster WITH Ids <- {Sts, Cm}, Asked <- AskedOfGroup

Exists(id) == objs[id].body.kind # "none"

HdfsFiles == CASE hdfs = "present" -> {"core-site.xml", "hdfs-site.xml"}
               [] hdfs = "partial" -> {"core-site.xml"}
               [] hdfs = "missing" -> {}

NoBody == NoObject.body
NoConf == [f \in {} |-> NoBody]
Copied(files, from) ==
    [f \in files \cup DOMAIN conf |-> IF f \in files THEN from ELSE conf[f]]

Secured(body) == KerberosVolumes \subseteq body.volumes

-----------------------------------------------------------------------------
Init ==
    /\ Cluster!Init
    /\ hdfs \in {"missing", "partial", "present"}
    /\ phase = "none"
    /\ template = NoBody /\ mount = NoBody
    /\ names = {} /\ conf = NoConf /\ realm = FALSE
    /\ steady = TRUE /\ plain = FALSE /\ faults = 0

NotePlain == plain' = (plain \/ (cr' # cr /\ ~StatefulSetKrb5(cr'.spec)))

(* The cluster and the two objects, seen from outside the operator. *)
ClusterStep ==
    /\ Cluster!Next
    /\ NotePlain
    /\ UNCHANGED <<podVars, hdfs, faults>>

(* The HDFS operator creates its ConfigMap, perhaps in two steps. *)
HdfsAppears ==
    /\ hdfs # "present"
    /\ hdfs' \in {"partial", "present"} \ {hdfs}
    /\ UNCHANGED <<clusterVars, podVars, plain, faults>>

-----------------------------------------------------------------------------
(* The StatefulSet controller.                                              *)

Wanted == Exists(Sts) /\ objs[Sts].body.replicas > 0

(* The pod template is all of the StatefulSet but the replicas. *)
TemplateOf(body) == [body EXCEPT !.replicas = 0]

CreatePod ==
    /\ phase = "none" /\ Wanted
    /\ phase' = "pending"
    /\ template' = TemplateOf(objs[Sts].body)
    /\ UNCHANGED <<clusterVars, hdfs, mount, names, conf, realm, steady, plain, faults>>

PodGone ==
    /\ phase' = "none"
    /\ template' = NoBody /\ mount' = NoBody
    /\ names' = {} /\ conf' = NoConf /\ realm' = FALSE /\ steady' = TRUE

(* The pod goes when it is no longer wanted or its template is outdated. *)
DeletePod ==
    /\ phase # "none"
    /\ ~(Wanted /\ template = TemplateOf(objs[Sts].body))
    /\ PodGone
    /\ UNCHANGED <<clusterVars, hdfs, plain, faults>>

Fault == faults < MaxFaults /\ faults' = faults + 1

Evict ==
    /\ phase # "none" /\ Fault
    /\ PodGone
    /\ UNCHANGED <<clusterVars, hdfs, plain>>

-----------------------------------------------------------------------------
(* The kubelet.                                                             *)

(* The container starts once both ConfigMaps are there to mount. *)
MountVolumes ==
    /\ phase = "pending"
    /\ Exists(Cm) /\ hdfs # "missing"
    /\ phase' = "start"
    /\ mount' = objs[Cm].body
    /\ UNCHANGED <<clusterVars, hdfs, template, names, conf, realm, steady, plain, faults>>

(* The mounted files follow the ConfigMap; if it is deleted they stay. *)
Refresh ==
    /\ phase \notin {"none", "pending"}
    /\ Exists(Cm) /\ mount # objs[Cm].body
    /\ mount' = objs[Cm].body
    /\ steady' = (steady /\ phase = "start")
    /\ UNCHANGED <<clusterVars, hdfs, phase, template, names, conf, realm, plain, faults>>

(* The container ended and is restarted, with the mounts it has and nothing *)
(* of what it wrote.  (The mutation keeps the configuration directory, as   *)
(* an emptyDir volume would.)                                               *)
RestartKeepsFiles ==
    /\ phase' = "start"
    /\ names' = {} /\ realm' = FALSE /\ steady' = TRUE
    /\ UNCHANGED conf

Restart ==
    /\ phase' = "start"
    /\ names' = {} /\ conf' = NoConf /\ realm' = FALSE /\ steady' = TRUE

-----------------------------------------------------------------------------
(* The start script up to HBase, under set -e: a command that fails ends    *)
(* it.  What follows is Entrypoint.                                         *)

scriptUnchanged == <<clusterVars, hdfs, template, mount, plain, faults>>

(* cp of the mounted ConfigMap: the shell lists the files once, *)
ListFiles ==
    /\ phase = "start"
    /\ phase' = "copy"
    /\ names' = mount.files
    /\ UNCHANGED <<scriptUnchanged, conf, realm, steady>>

(* ... and cp opens one after the other, as they are then.  One that is no  *)
(* longer there makes cp fail, and so does a pattern that matches nothing.  *)
CopyFile ==
    /\ phase = "copy"
    /\ \E f \in names :
         /\ \A g \in names \ {f} : Before(FileOrder, f, g)
         /\ \/ /\ f \in mount.files
               /\ conf' = Copied({f}, mount)
               /\ names' = names \ {f}
               /\ phase' = IF names' = {} THEN "hdfs" ELSE phase
               /\ UNCHANGED <<realm, steady>>
            \/ /\ f \notin mount.files
               /\ Restart
    /\ UNCHANGED scriptUnchanged

NothingListed ==
    /\ phase = "copy" /\ names = {}
    /\ Restart
    /\ UNCHANGED scriptUnchanged

(* cp of the HDFS ConfigMap.  (The mutation has lost it.) *)
HdfsNotCopied ==
    /\ phase = "hdfs"
    /\ phase' = "krb5"
    /\ UNCHANGED <<scriptUnchanged, names, conf, realm, steady>>

CopyHdfs ==
    /\ phase = "hdfs"
    /\ phase' = "krb5"
    /\ conf' = Copied(HdfsFiles, [kind |-> "hdfs"])
    /\ UNCHANGED <<scriptUnchanged, names, realm, steady>>

(* With Kerberos the realm replaces ${env.KERBEROS_REALM} in three files,   *)
(* which have to be there; without it these lines are not in the script.    *)
(* Then HBase is started.  (The mutations leave the lines out, or in,       *)
(* always.)                                                                 *)
RealmIn == {"core-site.xml", "hdfs-site.xml", "hbase-site.xml"}

NoContainerCommands ==
    /\ phase = "krb5"
    /\ phase' = "running"
    /\ UNCHANGED <<scriptUnchanged, names, conf, realm, steady>>
AlwaysContainerCommands ==
    /\ phase = "krb5"
    /\ phase' = "running" /\ realm' = TRUE
    /\ UNCHANGED <<scriptUnchanged, names, conf, steady>>

GetContainerCommands ==
    /\ phase = "krb5"
    /\ \/ /\ ~Secured(template) \/ RealmIn \subseteq DOMAIN conf
          /\ phase' = "running"
          /\ realm' = Secured(template)
          /\ UNCHANGED <<names, conf, steady>>
       \/ /\ Secured(template) /\ ~(RealmIn \subseteq DOMAIN conf)
          /\ Restart
    /\ UNCHANGED scriptUnchanged

Script == ListFiles \/ CopyFile \/ NothingListed \/ CopyHdfs \/ GetContainerCommands

(* What GetHbaseSite puts into the site file: Kerberos, with the keytab of  *)
(* the kerberos volume and principals that name the realm.                  *)
SiteKerberos == "hbase-site.xml" \in DOMAIN conf /\ conf["hbase-site.xml"].kerberos

(* A server that has to log in and has no keytab ends; any other may. *)
HbaseWithoutKeytab ==
    /\ phase = "running"
    /\ SiteKerberos /\ ~Secured(template)
    /\ Restart
    /\ UNCHANGED scriptUnchanged

HbaseCrashes ==
    /\ phase = "running" /\ Fault
    /\ Restart
    /\ UNCHANGED <<clusterVars, hdfs, template, mount, plain>>

PodStep ==
    \/ HdfsAppears
    \/ CreatePod \/ DeletePod \/ Evict
    \/ MountVolumes \/ Refresh
    \/ Script \/ HbaseWithoutKeytab \/ HbaseCrashes

Next == ClusterStep \/ PodStep

Spec == Init /\ [][Next]_vars

(* The controllers, the kubelet and the shell do what they can.  Nothing is *)
(* assumed of the operator, of HDFS or of faults.                           *)
FairSpec ==
    /\ Spec
    /\ WF_vars(CreatePod) /\ WF_vars(DeletePod)
    /\ WF_vars(MountVolumes) /\ WF_vars(Refresh)
    /\ WF_vars(Script) /\ WF_vars(HbaseWithoutKeytab)

-----------------------------------------------------------------------------
(* Properties.                                                              *)

(* Only the files of the ConfigMap are copied (ListFiles), the mount is     *)
(* there once the script runs (MountVolumes), and the realm is only         *)
(* replaced where the template has Kerberos (GetContainerCommands).         *)
TypeOK ==
    /\ hdfs \in {"missing", "partial", "present"}
    /\ phase \in {"none", "pending", "start", "copy", "hdfs", "krb5", "running"}
    /\ phase \notin {"none", "pending"} => mount.kind = "ConfigMap"
    /\ phase # "none" => template.kind = "StatefulSet"
    /\ names \subseteq FileNames
    /\ DOMAIN conf \subseteq FileNames \cup RealmIn
    /\ realm \in BOOLEAN /\ steady \in BOOLEAN /\ plain \in BOOLEAN
    /\ realm => Secured(template)
    /\ faults \in 0..MaxFaults

(* What HBase runs with is the ConfigMap and nothing else, unless the       *)
(* kubelet changed the mount under the script: no file of an earlier        *)
(* ConfigMap, or of an earlier attempt of the script, is left in the        *)
(* directory, and none is missing.                                          *)
RunsOneConfig ==
    phase = "running" /\ steady =>
      /\ DOMAIN conf \ (RealmIn \ {"hbase-site.xml"}) = mount.files
      /\ \A f \in mount.files : conf[f] = mount

ForeignTemplates == {TemplateOf(b) : b \in {f \in Foreign : f.kind = "StatefulSet"}}

(* A cluster that had Kerberos in every version runs no server without it   *)
(* of the operator's making.  Its pod has the keytab, unless the            *)
(* StatefulSet it was made from had been edited by somebody else.  With the *)
(* keytab it has a site file, and the realm filled in.  And its site file   *)
(* has Kerberos, unless it was copied from a ConfigMap that somebody else   *)
(* had edited (such a server runs until something restarts it, also when    *)
(* the operator has repaired the ConfigMap).  Nothing else takes Kerberos   *)
(* away: not a start before the ConfigMap is there, or with half of the     *)
(* HDFS ConfigMap, or with objects of several versions, nor their deletion. *)
SecuredFromTheStart ==
    phase = "running" /\ ~plain =>
      /\ Secured(template) \/ template \in ForeignTemplates
      /\ Secured(template) => "hbase-site.xml" \in DOMAIN conf /\ realm
      /\ "hbase-site.xml" \in DOMAIN conf =>
           SiteKerberos \/ conf["hbase-site.xml"] \in Foreign

(* The two objects are there, agree on Kerberos and want the pod, whoever   *)
(* wrote them.                                                              *)
CanRun ==
    /\ Wanted /\ hdfs = "present"
    /\ Exists(Cm) /\ "hbase-site.xml" \in objs[Cm].body.files
    /\ objs[Cm].body.kerberos <=> Secured(objs[Sts].body)

(* Once the operator has brought the two objects to rest, and the HDFS      *)
(* ConfigMap is complete, the pod comes up with the current template and a  *)
(* configuration it can start with, whatever the script tripped over before. *)
(* (It need not be the current configuration: nothing restarts a server     *)
(* that copied the ConfigMap too early.)                                    *)
ComesUp ==
    <>[][FALSE]_objs /\ <>[]CanRun =>
      <>[](/\ phase = "running" /\ template = TemplateOf(objs[Sts].body)
           /\ SiteKerberos => Secured(template) /\ realm)
==============================================================================

-------------------------- MODULE RoleGroupPodProofs ---------------------------
(***************************************************************************)
(* What HBase runs with, for every set of specs, inputs and groups, and    *)
(* any number of versions and faults.                                      *)
(*                                                                         *)
(* RunsOneConfig and SecuredFromTheStart speak of running servers only.    *)
(* What is inductive follows a file on its way from the builder over the   *)
(* API server, the mount and the copy, in each phase of the start script.  *)
(***************************************************************************)
EXTENDS RoleGroupPod, TLAPS

(* What the two objects can be, however they came about. *)
StsBody(b) == b.kind \in {"none", "StatefulSet"}
CmBody(b) ==
    /\ b.kind \in {"none", "ConfigMap"}
    /\ b.kind = "ConfigMap" => b.files \subseteq FileNames

ObjsShape ==
    /\ objs = [id \in {Sts, Cm} |-> objs[id]]
    /\ StsBody(objs[Sts].body) /\ CmBody(objs[Cm].body)

(* Before the script lists the files, nothing is copied. *)
Phases ==
    /\ phase \notin {"none", "pending"} => CmBody(mount) /\ mount.kind # "none"
    /\ phase \in {"none", "pending", "start"} => conf = NoConf /\ ~realm
    /\ phase # "copy" => names = {}

(* While the mount stays, the files listed are copied or yet to be copied. *)
Fresh ==
    steady /\ phase \in {"copy", "hdfs", "krb5", "running"} =>
      /\ names \subseteq mount.files
      /\ DOMAIN conf \cap FileNames = mount.files \ names
      /\ \A f \in mount.files \ names : conf[f] = mount

FreshInv == TypeOK /\ ObjsShape /\ Phases /\ Fresh

-----------------------------------------------------------------------------
(* Facts about names and builders.                                          *)

LEMMA FileNamesAre ==
    FileNames = {"hbase-env.sh", "hbase-site.xml", "log4j.properties",
                 "ssl-client.xml", "ssl-server.xml", "vector.yaml"}
BY DEF FileNames, FileOrder

LEMMA IdsDiffer == Sts # Cm
BY DEF Sts, Cm, ConfigMapOf

(* The kind of an object tells which builder made it. *)
LEMMA AskedIs ==
    ASSUME NEW c, NEW w \in AskedOfGroup(c)
    PROVE  /\ c.uid # 0
           /\ w.id \in {Sts, Cm}
           /\ \E k, in : w.object.body = IF w.id = Sts THEN BuildStatefulSet(c.spec, k, in)
                                                       ELSE BuildConfigMap(c.spec, k, in)
<1>1. c.uid # 0 /\ w.id \in {Sts, Cm}
  BY DEF AskedOfGroup, Asked
<1>2. PICK k \in RegisterResources(c.spec) : \E b \in Desired(c.spec, k) :
        w = [id |-> ObjectId(k), object |-> [owner |-> c.uid, body |-> b]]
  BY <1>1 DEF AskedOfGroup, Asked
<1>3. PICK in \in Inputs : w.object.body = Build(c.spec, k, in)
  BY <1>2 DEF Desired
<1>4. k.kind \in {"StatefulSet", "Service", "ConfigMap", "MetricsService"}
  BY DEF RegisterResources, MasterResources, RegionServerResources, RestServerResources,
         RoleGroupResources, Kinds, RegisterResourceWithRoleGroup
<1>5. ObjectId(k) = w.id
  BY <1>2
<1>6. ObjectId(k).kind = IF k.kind = "MetricsService" THEN "Service" ELSE k.kind
  BY DEF ObjectId
<1>7. CASE w.id = Sts
  <2>1. k.kind = "StatefulSet"
    BY <1>4, <1>5, <1>6, <1>7 DEF Sts
  <2>2. QED
    BY <1>1, <1>3, <1>7, <2>1 DEF Build
<1>8. CASE w.id = Cm
  <2>1. k.kind = "ConfigMap"
    BY <1>4, <1>5, <1>6, <1>8 DEF Sts, Cm, ConfigMapOf
  <2>2. QED
    BY <1>1, <1>3, <1>8, <2>1, IdsDiffer DEF Build
<1>9. QED
  BY <1>1, <1>7, <1>8

LEMMA BuiltShape ==
    ASSUME NEW s, NEW k, NEW in
    PROVE  /\ StsBody(BuildStatefulSet(s, k, in))
           /\ CmBody(BuildConfigMap(s, k, in))
           /\ StatefulSetKrb5(s) => /\ Secured(BuildStatefulSet(s, k, in))
                                    /\ BuildConfigMap(s, k, in).kerberos = TRUE
<1>1. StsBody(BuildStatefulSet(s, k, in))
  BY DEF StsBody, BuildStatefulSet
<1>2. CmBody(BuildConfigMap(s, k, in))
  BY FileNamesAre DEF CmBody, BuildConfigMap, KerberosFiles
<1>3. StatefulSetKrb5(s) => Secured(BuildStatefulSet(s, k, in))
  BY DEF Secured, BuildStatefulSet
<1>4. StatefulSetKrb5(s) => BuildConfigMap(s, k, in).kerberos = TRUE
  BY DEF BuildConfigMap, StatefulSetKrb5, ConfigMapKrb5
<1>5. QED
  BY <1>1, <1>2, <1>3, <1>4

LEMMA EditedShape ==
    ASSUME NEW o, NEW e \in Edits(o)
    PROVE  /\ e.body \in Foreign
           /\ StsBody(o.body) => StsBody(e.body)
           /\ CmBody(o.body) => CmBody(e.body)
<1>1. PICK b \in Foreign : b.kind = o.body.kind /\ e = [o EXCEPT !.body = b]
  BY DEF Edits
<1>2. e.body = b
  BY <1>1
<1>3. b.kind = "ConfigMap" => b.files \subseteq FileNames
  BY ConstantsAssumption DEF StatefulSetTypes, ServiceTypes, ConfigMapTypes
<1>4. QED
  BY <1>1, <1>2, <1>3 DEF StsBody, CmBody

(* What a step of the cluster may do to the two objects. *)
LEMMA ObjsStep ==
    ASSUME ObjsShape, Cluster!Next
    PROVE  \/ UNCHANGED objs
           \/ \E id \in {Sts, Cm} : /\ objs' = [objs EXCEPT ![id] = NoObject]
                                    /\ UNCHANGED <<cr, views>>
           \/ \E id \in {Sts, Cm} : \E o \in Edits(objs[id]) :
                /\ objs' = [objs EXCEPT ![id] = o]
                /\ UNCHANGED <<cr, views>>
           \/ \E v \in views : \E w \in AskedOfGroup(v) :
                /\ objs' = [objs EXCEPT ![w.id] = w.object]
                /\ views' \in SUBSET views /\ UNCHANGED cr
BY DEF Cluster!Next, Cluster!Forget, Cluster!Write, Cluster!Create, Cluster!Edit,
       Cluster!Delete, Cluster!NewVersion, Cluster!Collect, Cluster!Tamper,
       Cluster!Forgotten

LEMMA ObjsShapeKept == ASSUME ObjsShape, Cluster!Next PROVE ObjsShape'
<1>1. ASSUME NEW id \in {Sts, Cm}, NEW o, objs' = [objs EXCEPT ![id] = o],
             id = Sts => StsBody(o.body), id = Cm => CmBody(o.body)
      PROVE  ObjsShape'
  BY <1>1, IdsDiffer DEF ObjsShape
<1>2. CASE UNCHANGED objs
  BY <1>2 DEF ObjsShape
<1>3. CASE \E id \in {Sts, Cm} : objs' = [objs EXCEPT ![id] = NoObject]
  BY <1>1, <1>3 DEF NoObject, StsBody, CmBody
<1>4. ASSUME NEW id \in {Sts, Cm}, NEW o \in Edits(objs[id]),
             objs' = [objs EXCEPT ![id] = o]
      PROVE  ObjsShape'
  <2>1. /\ id = Sts => StsBody(o.body)
        /\ id = Cm => CmBody(o.body)
    BY EditedShape DEF ObjsShape
  <2>2. QED
    BY <1>1, <1>4, <2>1
<1>5. ASSUME NEW v \in views, NEW w \in AskedOfGroup(v),
             objs' = [objs EXCEPT ![w.id] = w.object]
      PROVE  ObjsShape'
  <2>1. w.id \in {Sts, Cm} /\ (w.id = Sts => StsBody(w.object.body))
        /\ (w.id = Cm => CmBody(w.object.body))
    <3>1. PICK k, in : w.object.body = IF w.id = Sts THEN BuildStatefulSet(v.spec, k, in)
                                                     ELSE BuildConfigMap(v.spec, k, in)
      BY AskedIs
    <3>2. w.id \in {Sts, Cm}
      BY AskedIs
    <3>3. QED
      BY <3>1, <3>2, BuiltShape, IdsDiffer
  <2>2. QED
    BY <1>1, <1>5, <2>1
<1>6. QED
  BY <1>2, <1>3, <1>4, <1>5, ObjsStep

-----------------------------------------------------------------------------
(* Files on their way.                                                      *)

(* The steps that leave an empty directory behind. *)
LEMMA EmptyIsFresh ==
    ASSUME FreshInv, PodGone \/ Restart, phase # "none",
           PodGone \/ (phase # "pending" /\ UNCHANGED <<mount, template>>),
           hdfs' = hdfs, plain' = plain, objs' = objs, faults' \in 0..MaxFaults
    PROVE  FreshInv'
<1>1. DOMAIN NoConf = {}
  BY DEF NoConf
<1>2. ObjsShape' /\ Fresh'
  BY DEF FreshInv, ObjsShape, Fresh, PodGone, Restart
<1>3. Phases'
  BY DEF FreshInv, Phases, PodGone, Restart
<1>4. TypeOK'
  BY <1>1 DEF FreshInv, TypeOK, Phases, CmBody, PodGone, Restart
<1>5. QED
  BY <1>2, <1>3, <1>4 DEF FreshInv

LEMMA FreshInit == Init => FreshInv
<1>1. SUFFICES ASSUME Init PROVE FreshInv
  OBVIOUS
<1>2. ObjsShape
  BY <1>1, IdsDiffer DEF Init, Cluster!Init, ObjsShape, NoObject, StsBody, CmBody
<1>3. TypeOK
  <2>1. DOMAIN conf = {}
    BY <1>1 DEF Init, NoConf
  <2>2. faults \in 0..MaxFaults
    BY <1>1, BoundsAssumption DEF Init
  <2>3. QED
    BY <1>1, <2>1, <2>2 DEF Init, TypeOK
<1>4. QED
  BY <1>1, <1>2, <1>3 DEF Init, FreshInv, Phases, Fresh

LEMMA FreshNext == FreshInv /\ [Next]_vars => FreshInv'
<1>1. SUFFICES ASSUME FreshInv, [Next]_vars PROVE FreshInv'
  OBVIOUS
<1>2. CASE ClusterStep
  <2>1. ObjsShape'
    BY <1>1, <1>2, ObjsShapeKept DEF ClusterStep, FreshInv
  <2>2. UNCHANGED <<podVars, hdfs, faults>> /\ plain' \in BOOLEAN
    BY <1>1, <1>2 DEF ClusterStep, NotePlain
  <2>3. TypeOK' /\ Phases' /\ Fresh'
    BY <1>1, <2>2 DEF FreshInv, TypeOK, Phases, Fresh, podVars
  <2>4. QED
    BY <2>1, <2>3 DEF FreshInv
<1>3. CASE HdfsAppears
  BY <1>1, <1>3 DEF HdfsAppears, clusterVars, podVars, FreshInv, TypeOK, ObjsShape, Phases, Fresh
<1>4. CASE CreatePod
  <2>1. TemplateOf(objs[Sts].body).kind = "StatefulSet"
    BY <1>1, <1>4 DEF CreatePod, Wanted, Exists, FreshInv, ObjsShape, StsBody, TemplateOf
  <2>2. QED
    BY <1>1, <1>4, <2>1
       DEF CreatePod, clusterVars, FreshInv, TypeOK, ObjsShape, Phases, Fresh
<1>5. CASE DeletePod \/ Evict
  BY <1>1, <1>5, EmptyIsFresh, BoundsAssumption
     DEF DeletePod, Evict, Fault, clusterVars, FreshInv, TypeOK
<1>6. CASE MountVolumes
  BY <1>1, <1>6 DEF MountVolumes, Exists, clusterVars, FreshInv, TypeOK, ObjsShape, Phases,
                    Fresh, CmBody
<1>7. CASE Refresh
  BY <1>1, <1>7 DEF Refresh, Exists, clusterVars, FreshInv, TypeOK, ObjsShape, Phases,
                    Fresh, CmBody
<1>8. CASE ListFiles
  <2>1. mount.files \subseteq FileNames
    BY <1>1, <1>8 DEF ListFiles, FreshInv, Phases, CmBody
  <2>2. DOMAIN NoConf = {}
    BY DEF NoConf
  <2>3. QED
    BY <1>1, <1>8, <2>1, <2>2 DEF ListFiles, scriptUnchanged, clusterVars, FreshInv, TypeOK,
                                  ObjsShape, Phases, Fresh
<1>9. CASE CopyFile
  <2>1. PICK f \in names :
          \/ /\ f \in mount.files
             /\ conf' = Copied({f}, mount)
             /\ names' = names \ {f}
             /\ phase' = IF names' = {} THEN "hdfs" ELSE phase
             /\ UNCHANGED <<realm, steady>>
          \/ Restart
    BY <1>9 DEF CopyFile
  <2>2. phase = "copy" /\ UNCHANGED scriptUnchanged
    BY <1>9 DEF CopyFile
  <2>3. CASE Restart
    BY <1>1, <2>2, <2>3, EmptyIsFresh DEF scriptUnchanged, clusterVars, FreshInv, TypeOK
  <2>4. CASE /\ f \in mount.files
             /\ conf' = Copied({f}, mount)
             /\ names' = names \ {f}
             /\ phase' = IF names' = {} THEN "hdfs" ELSE phase
             /\ UNCHANGED <<realm, steady>>
    <3>1. /\ DOMAIN conf' = {f} \cup DOMAIN conf
          /\ conf'[f] = mount
          /\ \A g \in DOMAIN conf \ {f} : conf'[g] = conf[g]
      BY <2>4 DEF Copied
    <3>2. f \in FileNames
      BY <1>1 DEF FreshInv, TypeOK
    <3>3. Fresh'
      BY <1>1, <2>2, <2>4, <3>1, <3>2
         DEF FreshInv, Fresh, scriptUnchanged
    <3>4. TypeOK' /\ ObjsShape' /\ Phases'
      BY <1>1, <2>2, <2>4, <3>1, <3>2
         DEF FreshInv, TypeOK, ObjsShape, Phases, scriptUnchanged, clusterVars
    <3>5. QED
      BY <3>3, <3>4 DEF FreshInv
  <2>5. QED
    BY <2>1, <2>3, <2>4
<1>10. CASE NothingListed \/ HbaseWithoutKeytab \/ HbaseCrashes
  BY <1>1, <1>10, EmptyIsFresh, BoundsAssumption
     DEF NothingListed, HbaseWithoutKeytab, HbaseCrashes, Fault, scriptUnchanged,
         clusterVars, FreshInv, TypeOK
<1>11. CASE CopyHdfs
  <2>1. HdfsFiles \subseteq {"core-site.xml", "hdfs-site.xml"}
    BY <1>1 DEF FreshInv, TypeOK, HdfsFiles
  <2>2. /\ DOMAIN conf' = HdfsFiles \cup DOMAIN conf
        /\ \A g \in DOMAIN conf \ HdfsFiles : conf'[g] = conf[g]
    BY <1>11 DEF CopyHdfs, Copied
  <2>3. Fresh'
    BY <1>1, <1>11, <2>1, <2>2, FileNamesAre
       DEF CopyHdfs, FreshInv, Fresh, scriptUnchanged
  <2>4. TypeOK' /\ ObjsShape' /\ Phases'
    BY <1>1, <1>11, <2>1, <2>2 DEF CopyHdfs, FreshInv, TypeOK, ObjsShape, Phases, RealmIn,
                                   scriptUnchanged, clusterVars
  <2>5. QED
    BY <2>3, <2>4 DEF FreshInv
<1>12. CASE GetContainerCommands
  <2>1. phase = "krb5" /\ UNCHANGED scriptUnchanged
    BY <1>12 DEF GetContainerCommands
  <2>2. CASE Restart
    BY <1>1, <2>1, <2>2, EmptyIsFresh DEF scriptUnchanged, clusterVars, FreshInv, TypeOK
  <2>3. CASE /\ phase' = "running" /\ realm' = Secured(template)
             /\ UNCHANGED <<names, conf, steady>>
    BY <1>1, <2>1, <2>3 DEF FreshInv, TypeOK, ObjsShape, Phases, Fresh, scriptUnchanged,
                            clusterVars, Secured
  <2>4. QED
    BY <1>12, <2>2, <2>3 DEF GetContainerCommands
<1>13. CASE UNCHANGED vars
  BY <1>1, <1>13 DEF vars, FreshInv, TypeOK, ObjsShape, Phases, Fresh
<1>14. QED
  BY <1>1, <1>2, <1>3, <1>4, <1>5, <1>6, <1>7, <1>8, <1>9, <1>10, <1>11, <1>12, <1>13
     DEF Next, PodStep, Script

LEMMA FreshInvariance == Spec => []FreshInv
BY FreshInit, FreshNext, PTL DEF Spec

(* The pod's state keeps its type. *)
THEOREM PodTypeCorrect == Spec => []TypeOK
<1>1. FreshInv => TypeOK
  BY DEF FreshInv
<1>2. QED
  BY <1>1, FreshInvariance, PTL

(* A server whose ConfigMap did not change while the script copied it runs  *)
(* with exactly that ConfigMap.                                             *)
THEOREM PodRunsOneConfig == Spec => []RunsOneConfig
<1>1. FreshInv => RunsOneConfig
  <2>1. SUFFICES ASSUME FreshInv, phase = "running", steady
                 PROVE  /\ DOMAIN conf \ (RealmIn \ {"hbase-site.xml"}) = mount.files
                        /\ \A f \in mount.files : conf[f] = mount
    BY DEF RunsOneConfig
  <2>2. names = {} /\ DOMAIN conf \subseteq FileNames \cup RealmIn
    BY <2>1 DEF FreshInv, Phases, TypeOK
  <2>3. DOMAIN conf \cap FileNames = mount.files /\ \A f \in mount.files : conf[f] = mount
    BY <2>1, <2>2 DEF FreshInv, Fresh
  <2>4. QED
    BY <2>2, <2>3, FileNamesAre DEF RealmIn
<1>2. QED
  BY <1>1, FreshInvariance, PTL

-----------------------------------------------------------------------------
(* Kerberos, in a cluster that never was without it.                        *)

SecuredSts(b) == b.kind = "StatefulSet" => Secured(b) \/ b \in Foreign
SecuredCm(b)  == b.kind = "ConfigMap" => b.kerberos = TRUE \/ b \in Foreign

SecuredObjs == SecuredSts(objs[Sts].body) /\ SecuredCm(objs[Cm].body)

(* What is not secured was edited, at each station on its way. *)
SecuredPod ==
    /\ phase # "none" => Secured(template) \/ template \in ForeignTemplates
    /\ phase \notin {"none", "pending"} => SecuredCm(mount)
    /\ "hbase-site.xml" \in DOMAIN conf =>
          conf["hbase-site.xml"].kerberos = TRUE \/ conf["hbase-site.xml"] \in Foreign
    /\ phase = "running" /\ Secured(template) => "hbase-site.xml" \in DOMAIN conf /\ realm

SecuredInv ==
    /\ cr \in views
    /\ ~plain => /\ \A v \in views : v.uid # 0 => StatefulSetKrb5(v.spec)
                 /\ SecuredObjs
                 /\ SecuredPod

LEMMA SecuredObjsKept ==
    ASSUME ObjsShape, SecuredObjs, Cluster!Next,
           \A v \in views : v.uid # 0 => StatefulSetKrb5(v.spec)
    PROVE  SecuredObjs'
<1>1. ASSUME NEW id \in {Sts, Cm}, NEW o, objs' = [objs EXCEPT ![id] = o],
             id = Sts => SecuredSts(o.body), id = Cm => SecuredCm(o.body)
      PROVE  SecuredObjs'
  BY <1>1, IdsDiffer DEF SecuredObjs, ObjsShape
<1>2. CASE UNCHANGED objs
  BY <1>2 DEF SecuredObjs
<1>3. CASE \E id \in {Sts, Cm} : objs' = [objs EXCEPT ![id] = NoObject]
  BY <1>1, <1>3 DEF NoObject, SecuredSts, SecuredCm
<1>4. ASSUME NEW id \in {Sts, Cm}, NEW o \in Edits(objs[id]),
             objs' = [objs EXCEPT ![id] = o]
      PROVE  SecuredObjs'
  BY <1>1, <1>4, EditedShape DEF SecuredSts, SecuredCm
<1>5. ASSUME NEW v \in views, NEW w \in AskedOfGroup(v),
             objs' = [objs EXCEPT ![w.id] = w.object]
      PROVE  SecuredObjs'
  <2>1. PICK k, in : w.object.body = IF w.id = Sts THEN BuildStatefulSet(v.spec, k, in)
                                                   ELSE BuildConfigMap(v.spec, k, in)
    BY AskedIs
  <2>2. w.id \in {Sts, Cm} /\ StatefulSetKrb5(v.spec)
    BY AskedIs
  <2>3. /\ w.id = Sts => Secured(w.object.body)
        /\ w.id = Cm => w.object.body.kerberos = TRUE
    BY <2>1, <2>2, BuiltShape, IdsDiffer
  <2>4. QED
    BY <1>1, <1>5, <2>2, <2>3 DEF SecuredSts, SecuredCm
<1>6. QED
  BY <1>2, <1>3, <1>4, <1>5, ObjsStep

(* Versions: those that can still be acted on, after a step. *)
LEMMA ViewsStep ==
    ASSUME cr \in views, Cluster!Next
    PROVE  cr' \in views' /\ views' \subseteq views \cup {cr'}
BY DEF Cluster!Next, Cluster!Forget, Cluster!Write, Cluster!Create, Cluster!Edit,
       Cluster!Delete, Cluster!NewVersion, Cluster!Collect, Cluster!Tamper,
       Cluster!Forgotten

LEMMA SecuredNext == FreshInv /\ SecuredInv /\ [Next]_vars => SecuredInv'
<1>1. SUFFICES ASSUME FreshInv, SecuredInv, [Next]_vars PROVE SecuredInv'
  OBVIOUS
<1>2. CASE ClusterStep
  <2>1. /\ Cluster!Next /\ UNCHANGED podVars
        /\ ~plain' => ~plain /\ (cr' # cr => StatefulSetKrb5(cr'.spec))
    BY <1>2 DEF ClusterStep, NotePlain
  <2>2. cr' \in views' /\ views' \subseteq views \cup {cr'}
    BY <1>1, <2>1, ViewsStep DEF SecuredInv
  <2>3. SUFFICES ASSUME ~plain'
                 PROVE  /\ \A v \in views' : v.uid # 0 => StatefulSetKrb5(v.spec)
                        /\ SecuredObjs' /\ SecuredPod'
    BY <2>2 DEF SecuredInv
  <2>4. \A v \in views : v.uid # 0 => StatefulSetKrb5(v.spec)
    BY <1>1, <2>1, <2>3 DEF SecuredInv
  <2>5. \A v \in views' : v.uid # 0 => StatefulSetKrb5(v.spec)
    BY <1>1, <2>1, <2>2, <2>3, <2>4 DEF SecuredInv
  <2>6. SecuredObjs'
    BY <1>1, <2>1, <2>3, <2>4, SecuredObjsKept DEF SecuredInv, FreshInv
  <2>7. SecuredPod'
    BY <1>1, <2>1, <2>3 DEF SecuredInv, SecuredPod, podVars
  <2>8. QED
    BY <2>5, <2>6, <2>7
<1>3. SUFFICES ASSUME ~ClusterStep, SecuredObjs, SecuredPod,
                      UNCHANGED <<cr, objs, views, plain>>
               PROVE  SecuredPod'
  <2>1. CASE ~ClusterStep
    <3>1. UNCHANGED <<cr, objs, views, plain>>
      BY <1>1, <2>1
         DEF Next, PodStep, Script, HdfsAppears, CreatePod, DeletePod, Evict, MountVolumes,
         Refresh, ListFiles, CopyFile, NothingListed, CopyHdfs, GetContainerCommands,
         HbaseWithoutKeytab, HbaseCrashes, scriptUnchanged, clusterVars, vars
    <3>2. QED
      BY <1>1, <1>3, <2>1, <3>1 DEF SecuredInv, SecuredObjs
  <2>2. QED
    BY <1>2, <2>1
<1>4. DOMAIN NoConf = {}
  BY DEF NoConf
<1>5. CASE PodGone
  BY <1>4, <1>5 DEF PodGone, SecuredPod
<1>6. CASE Restart /\ UNCHANGED <<template, mount>> /\ phase \notin {"none", "pending"}
  BY <1>3, <1>4, <1>6 DEF Restart, SecuredPod
<1>7. CASE UNCHANGED podVars
  BY <1>3, <1>7 DEF podVars, SecuredPod
<1>8. CASE CreatePod
  <2>1. objs[Sts].body.kind = "StatefulSet"
    BY <1>1, <1>8 DEF CreatePod, Wanted, Exists, FreshInv, ObjsShape, StsBody
  <2>2. CASE Secured(objs[Sts].body)
    <3>1. Secured(TemplateOf(objs[Sts].body))
      BY <2>2 DEF Secured, TemplateOf
    <3>2. QED
      BY <1>3, <1>8, <3>1 DEF CreatePod, SecuredPod
  <2>3. CASE objs[Sts].body \in Foreign
    <3>1. TemplateOf(objs[Sts].body) \in ForeignTemplates
      BY <2>1, <2>3 DEF ForeignTemplates
    <3>2. QED
      BY <1>3, <1>8, <3>1 DEF CreatePod, SecuredPod
  <2>4. QED
    BY <1>3, <2>1, <2>2, <2>3 DEF SecuredObjs, SecuredSts
<1>9. CASE MountVolumes \/ Refresh
  BY <1>3, <1>9 DEF MountVolumes, Refresh, SecuredObjs, SecuredPod
<1>10. CASE ListFiles
  BY <1>3, <1>10 DEF ListFiles, scriptUnchanged, SecuredPod
<1>11. CASE CopyFile
  <2>1. phase = "copy" /\ UNCHANGED <<template, mount>>
    BY <1>11 DEF CopyFile, scriptUnchanged
  <2>2. ASSUME NEW f \in mount.files, conf' = Copied({f}, mount), UNCHANGED realm,
               phase' = IF names' = {} THEN "hdfs" ELSE phase
        PROVE  SecuredPod'
    <3>1. mount.kerberos = TRUE \/ mount \in Foreign
      BY <1>1, <1>3, <2>1 DEF FreshInv, TypeOK, SecuredPod, SecuredCm
    <3>2. /\ DOMAIN conf' = {f} \cup DOMAIN conf
          /\ conf'[f] = mount
          /\ \A g \in DOMAIN conf \ {f} : conf'[g] = conf[g]
      BY <2>2 DEF Copied
    <3>3. QED
      BY <1>3, <2>1, <2>2, <3>1, <3>2 DEF SecuredPod
  <2>3. QED
    BY <1>6, <1>11, <2>1, <2>2 DEF CopyFile
<1>12. CASE CopyHdfs
  <2>1. HdfsFiles \subseteq {"core-site.xml", "hdfs-site.xml"}
    BY <1>1 DEF FreshInv, TypeOK, HdfsFiles
  <2>2. /\ DOMAIN conf' = HdfsFiles \cup DOMAIN conf
        /\ \A g \in DOMAIN conf \ HdfsFiles : conf'[g] = conf[g]
    BY <1>12 DEF CopyHdfs, Copied
  <2>3. QED
    BY <1>3, <1>12, <2>1, <2>2 DEF CopyHdfs, scriptUnchanged, SecuredPod
<1>13. CASE GetContainerCommands
  <2>1. phase = "krb5" /\ UNCHANGED <<template, mount>>
    BY <1>13 DEF GetContainerCommands, scriptUnchanged
  <2>2. CASE /\ ~Secured(template) \/ RealmIn \subseteq DOMAIN conf
             /\ phase' = "running" /\ realm' = Secured(template) /\ UNCHANGED conf
    <3>1. Secured(template') <=> Secured(template)
      BY <2>1
    <3>2. Secured(template) => "hbase-site.xml" \in DOMAIN conf'
      BY <2>2 DEF RealmIn
    <3>3. QED
      BY <1>3, <2>1, <2>2, <3>1, <3>2 DEF SecuredPod
  <2>3. QED
    BY <1>6, <1>13, <2>1, <2>2 DEF GetContainerCommands
<1>14. QED
  BY <1>1, <1>3, <1>5, <1>6, <1>7, <1>8, <1>9, <1>10, <1>11, <1>12, <1>13
     DEF Next, PodStep, Script, HdfsAppears, DeletePod, Evict, NothingListed,
         HbaseWithoutKeytab, HbaseCrashes, scriptUnchanged, vars, podVars

(* A cluster that had Kerberos in every version runs a server without it    *)
(* only where somebody else edited it out of the StatefulSet that the pod   *)
(* was made from, or out of the ConfigMap that its site file was copied     *)
(* from; deletions, versions, timing and the HDFS ConfigMap never do it.    *)
THEOREM PodSecuredFromTheStart == Spec => []SecuredFromTheStart
<1>1. Init => SecuredInv
  <2>1. SUFFICES ASSUME Init PROVE SecuredInv
    OBVIOUS
  <2>2. views = {cr} /\ cr.uid = 0
    BY <2>1 DEF Init, Cluster!Init, NoCluster
  <2>3. SecuredObjs
    BY <2>1, IdsDiffer DEF Init, Cluster!Init, SecuredObjs, SecuredSts, SecuredCm, NoObject
  <2>4. SecuredPod
    BY <2>1 DEF Init, SecuredPod, NoConf
  <2>5. QED
    BY <2>2, <2>3, <2>4 DEF SecuredInv
<1>2. SecuredInv => SecuredFromTheStart
  BY DEF SecuredInv, SecuredPod, SecuredFromTheStart, SiteKerberos
<1>3. QED
  BY <1>1, <1>2, SecuredNext, FreshInvariance, PTL DEF Spec
==============================================================================

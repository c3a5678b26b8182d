-------------------------------- MODULE MCPod ---------------------------------
(***************************************************************************)
(* Instances of RoleGroupPod: the only group of the master role, with and  *)
(* without Kerberos as the user likes, and with Kerberos always but edited *)
(* by others.                                                              *)
(***************************************************************************)
EXTENDS RoleGroupPod

Group == {"default"}
MetricsNames == [g \in Group |-> "default-metrics"]
AllNames == Group \cup {"default-metrics"}
OnePod == [role |-> "master", group |-> "default"]

Base == [roles     |-> [r \in Roles |-> [g \in (IF r = "master" THEN Group ELSE {}) |-> 1]],
         stopped   |-> FALSE,
         krb5      |-> "", tls |-> "", authClass |-> "",
         oidc      |-> FALSE, vector |-> FALSE]
Secure == [Base EXCEPT !.krb5 = "class", !.tls = "class"]

PodSpecs == {Base, Secure}
SecureSpecs == {Secure}
ZkPresent == {[zk |-> "znode", auth |-> "missing", vector |-> "missing"]}

(* Others take the secret volumes out of the StatefulSet; of the ConfigMap  *)
(* they leave a site file without Kerberos, or no site file, or no file.    *)
Built(kind) == Build(Secure, [role |-> "master", group |-> "default", kind |-> kind],
                     CHOOSE i \in ZkPresent : TRUE)
EditedConfigMap(files) ==
    [Built("ConfigMap") EXCEPT !.kerberos = FALSE, !.files = files]
EditedPod ==
    {[Built("StatefulSet") EXCEPT !.volumes = getVolumes]} \cup
    {EditedConfigMap(files) : files \in {{"hbase-site.xml"}, {"hbase-env.sh"}, {}}}
==============================================================================

---------------------------- MODULE MCReconciler -----------------------------
(* Small instances of HbaseReconciler. *)
EXTENDS HbaseReconciler, TLC

(* Role group names, and the names of their metrics services.  The metrics  *)
(* service of one of the two wide groups has the other's name.              *)
WideGroup == {"default", "default-metrics"}
WideGroupNames == WideGroup \cup {"default-metrics-metrics"}
WideGroupMetricsName == [g \in WideGroup |->
    IF g = "default" THEN "default-metrics" ELSE "default-metrics-metrics"]

OneGroup == {"default"}
OneGroupNames == {"default", "default-metrics"}
OneGroupMetricsName == [g \in OneGroup |-> "default-metrics"]

Cluster(roles, stopped, krb5, tls, authClass, oidc, vector) ==
    [roles |-> roles, stopped |-> stopped, krb5 |-> krb5, tls |-> tls,
     authClass |-> authClass, oidc |-> oidc, vector |-> vector]

None == [g \in {} |-> 0]
One(n) == [g \in {"default"} |-> n]

RolesGiven(m, r, s) == [master |-> m, regionserver |-> r, restserver |-> s]

(* The default e2e cluster cut down to one role, and edits of it. *)
Plain   == Cluster(RolesGiven(One(1), None, None), FALSE, "", "", "", FALSE, FALSE)
Secure  == Cluster(RolesGiven(One(1), None, None), FALSE, "kerberos", "tls", "", FALSE, FALSE)
HalfSecure == Cluster(RolesGiven(One(1), None, None), FALSE, "kerberos", "", "class", FALSE, TRUE)
Bare    == Cluster(RolesGiven(None, None, None), FALSE, "", "", "", FALSE, FALSE)
Stopped == Cluster(RolesGiven(One(1), None, None), TRUE, "", "", "", FALSE, FALSE)

(* Two roles, with OIDC. *)
Two == [g \in WideGroup |-> 1]
TwoRoles == Cluster(RolesGiven(Two, One(1), None), FALSE, "", "", "", FALSE, FALSE)
TwoRolesOidc == Cluster(RolesGiven(Two, One(1), None), FALSE, "", "", "oidc", TRUE, FALSE)
RestOnly == Cluster(RolesGiven(None, None, One(1)), FALSE, "", "", "", FALSE, FALSE)

(* The custom resource definition requires only clusterConfig. *)
MasterOnly == Cluster([master |-> One(1)], FALSE, "", "", "", FALSE, FALSE)

Input(zk, auth, vector) == [zk |-> zk, auth |-> auth, vector |-> vector]
AllPresent == {Input("z1", "keycloak", "present")}
ZkMoves    == AllPresent \cup {Input("z2", "keycloak", "present"),
                              Input("missing", "keycloak", "present")}
Varied     == {Input("z1", "oidc", "present"), Input("z2", "other", "present"),
               Input("incomplete", "oidc", "missing"), Input("z1", "missing", "missing")}

SecuritySpecs == {Plain, Secure, HalfSecure}
StopSpecs     == {Plain, Stopped}
TwoRoleSpecs  == {TwoRoles, TwoRolesOidc}
LiveSpecs     == {RestOnly, MasterOnly}
OptionalSpecs == {Plain, MasterOnly}
RecreateSpecs == {Plain, Bare}

(* Others scale the group down, give the Services a port nobody listens on, *)
(* and lose a file.                                                         *)
RestBody(kind) == Build(RestOnly, [role |-> "restserver", group |-> "default", kind |-> kind],
                        CHOOSE i \in AllPresent : TRUE)
EditedRest == {[RestBody("StatefulSet") EXCEPT !.replicas = 0],
               [RestBody("Service") EXCEPT !.ports = {Port("rest-http", 80)}],
               [RestBody("MetricsService") EXCEPT !.ports = {Port("metrics", 80)}],
               [RestBody("ConfigMap") EXCEPT !.files = @ \ {"log4j.properties"}]}

ManagerSymmetry == Permutations(Managers)
==============================================================================

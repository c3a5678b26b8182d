------------------------------- MODULE Affinity -------------------------------
(***************************************************************************)
(* The builder of a pod's affinity: which terms it makes of the pod        *)
(* affinities it is given.  The order of the terms means nothing to the    *)
(* scheduler, so the builder is the set of its pod affinities.             *)
(***************************************************************************)
EXTENDS Naturals

NewPodAffinity(labels, required, anti) ==
    [labels |-> labels, affinityRequired |-> required, anti |-> anti, weight |-> 0]

(* (The mutation sets the weight of a copy.) *)
WeightOfCopy(p, weight) == p
Weight(p, weight) == [p EXCEPT !.weight = weight]

NewAffinityBuilder(podAffinity) == podAffinity

(* A required term names no topology. *)
RequiredTerm(pa) == [labels |-> pa.labels, topologyKey |-> ""]

(* A preferred one that was given no weight has the default, 1. *)
PreferredTerm(pa) ==
    [labels      |-> pa.labels,
     topologyKey |-> "kubernetes.io/hostname",
     weight      |-> IF pa.weight = 0 THEN 1 ELSE pa.weight]

(* The two lists of one side. *)
Terms(builder, anti) ==
    [required  |-> {RequiredTerm(pa) :
                      pa \in {p \in builder : p.anti = anti /\ p.affinityRequired}},
     preferred |-> {PreferredTerm(pa) :
                      pa \in {p \in builder : p.anti = anti /\ ~p.affinityRequired}}]

buildPodAffinity(builder) ==
    [podAffinity |-> Terms(builder, FALSE), podAntiAffinity |-> Terms(builder, TRUE)]

(* What a StatefulSet may say of its pods' affinity, whoever wrote it. *)
SideTypes ==
    [required  : SUBSET [labels : SUBSET STRING, topologyKey : STRING],
     preferred : SUBSET [labels : SUBSET STRING, topologyKey : STRING, weight : Nat]]
AffinityTypes == [podAffinity : SideTypes, podAntiAffinity : SideTypes]

(* A StatefulSet's affinity: near the cluster, and rather more apart from   *)
(* the pods of its own role.                                                *)
GetDefaultAffinityBuilder(role) ==
    NewAffinityBuilder(
      {Weight(NewPodAffinity({"instance", "name"}, FALSE, FALSE), 20),
       Weight(NewPodAffinity({"instance", "name", role}, FALSE, TRUE), 70)})

(* The API server takes the terms, all can be given up when nodes are few,  *)
(* and on a node with pods of the own role only, staying apart wins.        *)
Schedulable(affinity) ==
    LET near  == affinity.podAffinity
        apart == affinity.podAntiAffinity
    IN  /\ near.required = {} /\ apart.required = {}
        /\ apart.preferred # {}
        /\ \A t \in near.preferred \cup apart.preferred :
              t.weight \in 1..100 /\ t.topologyKey # ""
        /\ \A t \in near.preferred, u \in apart.preferred :
              t.labels \subseteq u.labels /\ t.weight < u.weight
==============================================================================

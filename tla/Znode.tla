------------------------------- MODULE Znode ---------------------------------
(***************************************************************************)
(* The ZooKeeper settings of a cluster: the ConfigMap that AddData fills   *)
(* from a connection string, key by key, and the getters that AddHbaseSite *)
(* reads it with.  A string is a sequence of words and separators.         *)
(***************************************************************************)
EXTENDS Naturals, Sequences, FiniteSets

CONSTANTS Words,    (* host names, ports and paths *)
          MaxLen    (* bound on the words and separators of a string *)

ASSUME WordsAssumption ==
    Words # {} /\ ":" \notin Words /\ "/" \notin Words /\ MaxLen \in Nat

Keys == {"ZOOKEEPER_HOSTS", "ZOOKEEPER_PORT", "ZOOKEEPER_CHROOT", "zookeeper"}
Characters == Words \cup {":", "/"}
Strings == UNION {[1..n -> Characters] : n \in 0..MaxLen}

VARIABLES data,     (* the keys set in the ConfigMap, and their values *)
          err       (* whether the last AddData returned an error      *)

vars == <<data, err>>

(* strings.Split: the pieces between the separators, empty ones included.   *)
(* Cuts are the separators and the two ends, the n-th has n cuts before it. *)
Cuts(s, sep) == {0, Len(s) + 1} \cup {i \in 1..Len(s) : s[i] = sep}
Cut(s, sep, n) ==
    CHOOSE c \in Cuts(s, sep) : Cardinality({d \in Cuts(s, sep) : d < c}) = n
Split(s, sep) ==
    [n \in 1..(Cardinality(Cuts(s, sep)) - 1) |->
       SubSeq(s, Cut(s, sep, n - 1) + 1, Cut(s, sep, n) - 1)]

Put(d, key, value) ==
    [k \in DOMAIN d \cup {key} |-> IF k = key THEN value ELSE d[k]]

(* The four keys of a connection string, one after the other. *)
PutAll(d, z) ==
    LET parts == Split(z, "/")
        hostAndPort == Split(parts[1], ":")
        d1 == Put(d,  "ZOOKEEPER_HOSTS",  hostAndPort[1])
        d2 == Put(d1, "ZOOKEEPER_PORT",   hostAndPort[2])
        d3 == Put(d2, "ZOOKEEPER_CHROOT", parts[3])
    IN  Put(d3, "zookeeper", z)

(* What AddData makes of the ConfigMap: both checks come before the first   *)
(* key is set, and what stands between the two slashes goes nowhere but     *)
(* into the whole string.  The ConfigMap's map is one that was made: with a *)
(* nil map the first assignment panics, and nothing in the repository calls *)
(* AddData to say which it is.  (The mutation sets a key as soon as its     *)
(* value is known.)                                                         *)
AddDataEagerly(d, z) ==
    LET parts == Split(z, "/")
        hostAndPort == Split(parts[1], ":")
    IN  IF Len(hostAndPort) # 2
          THEN [data |-> d, err |-> TRUE]
          ELSE IF Len(parts) # 3
            THEN [data |-> Put(d, "ZOOKEEPER_HOSTS", hostAndPort[1]), err |-> TRUE]
            ELSE [data |-> PutAll(d, z), err |-> FALSE]

AddData(d, z) ==
    LET parts == Split(z, "/")
    IN  IF Len(parts) # 3 \/ Len(Split(parts[1], ":")) # 2
          THEN [data |-> d, err |-> TRUE]
          ELSE [data |-> PutAll(d, z), err |-> FALSE]

(* A getter returns a value and whether it failed: its key is missing. *)
Get(d, key) == [value |-> IF key \in DOMAIN d THEN d[key] ELSE <<>>,
                err   |-> key \notin DOMAIN d]
GetQuorum(d)     == Get(d, "ZOOKEEPER_HOSTS")
GetClientPort(d) == Get(d, "ZOOKEEPER_PORT")
GetChroot(d)     == Get(d, "ZOOKEEPER_CHROOT")
GetZookeeper(d)  == Get(d, "zookeeper")

(* The three ZooKeeper properties of hbase-site.xml, unless a getter fails; *)
(* "/hbase" is the root below the chroot.                                   *)
AddHbaseSite(d) ==
    [quorum     |-> GetQuorum(d).value,
     parent     |-> GetChroot(d).value \o <<"/", "hbase">>,
     clientPort |-> GetClientPort(d).value,
     err        |-> GetQuorum(d).err \/ GetChroot(d).err \/ GetClientPort(d).err]

Init == data = [k \in {} |-> <<>>] /\ err = FALSE

Next == \E z \in Strings : /\ data' = AddData(data, z).data
                           /\ err' = AddData(data, z).err

Spec == Init /\ [][Next]_vars

-----------------------------------------------------------------------------
(* However often AddData is called, and however it fails, the site file is  *)
(* built from one connection string: its host, port and chroot are those of *)
(* the string that GetZookeeper returns, and a refused string changes none. *)
(* Before the first accepted string there is no site file.                  *)
SiteIsOneString ==
    LET z == GetZookeeper(data).value
        site == AddHbaseSite(data)
    IN  IF DOMAIN data = {} THEN site.err ELSE
        /\ DOMAIN data = Keys /\ ~site.err
        /\ site.quorum \o <<":">> \o site.clientPort = Split(z, "/")[1]
        /\ site.parent = Split(z, "/")[3] \o <<"/", "hbase">>

Example(z) == \E h, p, n \in Words : z = <<h, ":", p, "/", n>>

(* The connection string in the comment on AddData, one host with its port  *)
(* and one znode, is accepted.                                              *)
ExampleAccepted == \A z \in Strings : Example(z) => ~AddData(data, z).err
==============================================================================

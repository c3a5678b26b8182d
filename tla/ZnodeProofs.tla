----------------------------- MODULE ZnodeProofs ------------------------------
(***************************************************************************)
(* The ZooKeeper settings come from one connection string, whatever the    *)
(* words it is made of, its length and the strings tried before.           *)
(*                                                                         *)
(* strings.Split is the only algorithm here.  What the proof needs of it   *)
(* are two facts: the first piece is a string again, and two pieces joined *)
(* by the separator are the string that was split.                         *)
(***************************************************************************)
EXTENDS Znode, FiniteSetTheorems, SequenceTheorems, WellFoundedInduction, TLAPS

-----------------------------------------------------------------------------
(* Facts about Split.                                                       *)

(* The cuts of a string are finitely many, its two ends among them. *)
LEMMA CutsFinite ==
    ASSUME NEW S, NEW s \in Seq(S), NEW sep
    PROVE  /\ Len(s) \in Nat
           /\ Cuts(s, sep) \subseteq 0..(Len(s) + 1)
           /\ Cuts(s, sep) \subseteq Nat
           /\ IsFiniteSet(Cuts(s, sep))
           /\ 0 \in Cuts(s, sep) /\ Len(s) + 1 \in Cuts(s, sep)
<1>1. Len(s) \in Nat
  BY LenProperties
<1>2. Cuts(s, sep) \subseteq 0..(Len(s) + 1)
  BY <1>1 DEF Cuts
<1>3. IsFiniteSet(0..(Len(s) + 1))
  BY <1>1, FS_Interval
<1>4. IsFiniteSet(Cuts(s, sep))
  BY <1>2, <1>3, FS_Subset
<1>5. QED
  BY <1>1, <1>2, <1>4 DEF Cuts

(* The cut that has n cuts before it is the n-th: no other has as many. *)
LEMMA CutIs ==
    ASSUME NEW S, NEW s \in Seq(S), NEW sep, NEW c \in Cuts(s, sep), NEW n,
           Cardinality({d \in Cuts(s, sep) : d < c}) = n
    PROVE  Cut(s, sep, n) = c
<1> DEFINE C == Cuts(s, sep)
           below(e) == {d \in C : d < e}
<1>1. C \subseteq Nat /\ IsFiniteSet(C)
  BY CutsFinite
<1>2. ASSUME NEW a \in C, NEW b \in C, a < b
      PROVE  Cardinality(below(a)) # Cardinality(below(b))
  <2>1. below(a) \in SUBSET below(b) /\ a \in below(b) /\ a \notin below(a)
    BY <1>1, <1>2
  <2>2. IsFiniteSet(below(b))
    <3>1. below(b) \in SUBSET C
      OBVIOUS
    <3>2. QED
      BY <1>1, <3>1, FS_Subset
  <2>3. Cardinality(below(b)) = Cardinality(below(a)) => below(b) = below(a)
    BY <2>1, <2>2, FS_Subset
  <2>4. QED
    BY <2>1, <2>3
<1>3. ASSUME NEW e \in C, Cardinality(below(e)) = n PROVE e = c
  <2>1. ~(e < c) /\ ~(c < e)
    BY <1>2, <1>3
  <2>2. QED
    BY <1>1, <2>1
<1>4. \E e \in C : Cardinality(below(e)) = n
  OBVIOUS
<1>5. QED
  BY <1>3, <1>4 DEF Cut

(* The first two cuts. *)
LEMMA FirstCuts ==
    ASSUME NEW S, NEW s \in Seq(S), NEW sep
    PROVE  /\ Cut(s, sep, 0) = 0
           /\ Cut(s, sep, 1) \in Cuts(s, sep) \ {0}
           /\ \A d \in Cuts(s, sep) \ {0} : Cut(s, sep, 1) <= d
<1> DEFINE C == Cuts(s, sep)
<1>1. C \subseteq Nat /\ IsFiniteSet(C) /\ 0 \in C /\ Len(s) + 1 \in C /\ Len(s) \in Nat
  BY CutsFinite
<1>2. Cut(s, sep, 0) = 0
  <2>1. {d \in C : d < 0} = {}
    BY <1>1
  <2>2. Cardinality({d \in C : d < 0}) = 0
    BY <2>1, FS_EmptySet
  <2>3. QED
    BY <1>1, <2>2, CutIs
<1>3. PICK c \in C \ {0} : \A d \in C \ {0} : c <= d
  <2>1. C \ {0} \subseteq Nat /\ C \ {0} # {}
    BY <1>1
  <2>2. PICK c \in C \ {0} : \A d \in C \ {0} : ~(<<d, c>> \in OpToRel(<, Nat))
    BY <2>1, NatLessThanWellFounded, WFMin
  <2>3. ASSUME NEW d \in C \ {0} PROVE c <= d
    <3>1. d \in Nat /\ c \in Nat
      BY <2>1
    <3>2. ~(d < c)
      BY <2>2, <3>1 DEF OpToRel
    <3>3. QED
      BY <3>1, <3>2
  <2>4. QED
    BY <2>3
<1>4. Cut(s, sep, 1) = c
  <2>1. {d \in C : d < c} = {0}
    BY <1>1, <1>3
  <2>2. Cardinality({d \in C : d < c}) = 1
    BY <2>1, FS_Singleton
  <2>3. QED
    BY <2>2, CutIs
<1>5. QED
  BY <1>2, <1>3, <1>4

(* There is always a first piece, and it is a string. *)
LEMMA FirstPiece ==
    ASSUME NEW S, NEW s \in Seq(S), NEW sep
    PROVE  Split(s, sep)[1] \in Seq(S)
<1> DEFINE C == Cuts(s, sep)
           c == Cut(s, sep, 1)
<1>1. /\ C \subseteq 0..(Len(s) + 1) /\ C \subseteq Nat /\ IsFiniteSet(C)
      /\ 0 \in C /\ Len(s) + 1 \in C /\ Len(s) \in Nat
  BY CutsFinite
<1>2. Cardinality(C) \in Nat /\ Cardinality(C) >= 2
  <2>1. {0, Len(s) + 1} \in SUBSET C
    BY <1>1
  <2>2. Cardinality({0} \cup {Len(s) + 1}) = 2
    <3>1. Len(s) + 1 \notin {0}
      BY <1>1
    <3>2. IsFiniteSet({0}) /\ Cardinality({0}) = 1
      BY FS_Singleton
    <3>3. Cardinality({0} \cup {Len(s) + 1}) = Cardinality({0}) + 1
      BY <3>1, <3>2, FS_AddElement
    <3>4. ASSUME NEW a, NEW b, a = 1, b = a + 1 PROVE b = 2
      BY <3>4
    <3>5. QED
      BY <3>2, <3>3, <3>4
  <2>3. {0} \cup {Len(s) + 1} = {0, Len(s) + 1}
    OBVIOUS
  <2>4. QED
    BY <1>1, <2>1, <2>2, <2>3, FS_Subset, FS_CardinalityType
<1>3. c \in 1..(Len(s) + 1) /\ Cut(s, sep, 0) = 0
  BY <1>1, FirstCuts
<1>4. Split(s, sep)[1] = SubSeq(s, 1, c - 1)
  BY <1>2, <1>3 DEF Split
<1>5. \A i \in 1..(c - 1) : s[i] \in S
  BY <1>1, <1>3, LenProperties
<1>6. SubSeq(s, 1, c - 1) \in Seq(S)
  BY <1>1, <1>3, <1>5, SubSeqProperties
<1>7. QED
  BY <1>4, <1>6

(* A string with one separator is its two pieces around it. *)
LEMMA JoinOfTwo ==
    ASSUME NEW S, NEW s \in Seq(S), NEW sep \in S, Len(Split(s, sep)) = 2
    PROVE  Split(s, sep)[1] \o <<sep>> \o Split(s, sep)[2] = s
<1> DEFINE C == Cuts(s, sep)
           c == Cut(s, sep, 1)
           n == Len(s)
<1>1. /\ C \subseteq 0..(n + 1) /\ C \subseteq Nat /\ IsFiniteSet(C)
      /\ 0 \in C /\ n + 1 \in C /\ n \in Nat
  BY CutsFinite
<1>2. Cardinality(C) = 3
  <2>1. Cardinality(C) \in Nat
    BY <1>1, FS_CardinalityType
  <2>2. Cardinality(C) # 0
    BY <1>1, FS_EmptySet
  <2>3. Len(Split(s, sep)) = Cardinality(C) - 1
    BY <2>1, <2>2 DEF Split
  <2>4. QED
    BY <2>1, <2>3
<1>3. c \in C \ {0} /\ Cut(s, sep, 0) = 0 /\ \A d \in C \ {0} : c <= d
  BY FirstCuts
<1>4. Cardinality(C \ {n + 1}) = 2 /\ IsFiniteSet(C \ {n + 1})
  <2>1. IsFiniteSet(C \ {n + 1}) /\ Cardinality(C \ {n + 1}) = Cardinality(C) - 1
    BY <1>1, FS_RemoveElement
  <2>2. QED
    BY <1>2, <2>1
<1>5. c # n + 1
  <2>1. SUFFICES ASSUME c = n + 1 PROVE FALSE
    OBVIOUS
  <2>2. C \ {n + 1} = {0}
    BY <1>1, <1>3, <2>1
  <2>3. QED
    BY <1>4, <2>2, FS_Singleton
<1>6. Cut(s, sep, 2) = n + 1
  <2>1. {d \in C : d < n + 1} = C \ {n + 1}
    BY <1>1
  <2>2. QED
    BY <1>1, <1>4, <2>1, CutIs
<1>7. c \in 1..n /\ s[c] = sep
  BY <1>1, <1>3, <1>5 DEF Cuts
<1>8. /\ Split(s, sep)[1] = SubSeq(s, 1, c - 1)
      /\ Split(s, sep)[2] = SubSeq(s, c + 1, n)
  <2> DEFINE piece(i) == SubSeq(s, Cut(s, sep, i - 1) + 1, Cut(s, sep, i) - 1)
  <2>1. Split(s, sep) = [i \in 1..2 |-> piece(i)]
    BY <1>2 DEF Split
  <2>2. piece(1) = SubSeq(s, 1, c - 1)
    <3>1. 0 + 1 = 1 /\ 1 - 1 = 0
      OBVIOUS
    <3>2. QED
      BY <1>3, <3>1
  <2>3. piece(2) = SubSeq(s, c + 1, n)
    <3>1. (n + 1) - 1 = n /\ 2 - 1 = 1
      BY <1>1
    <3>2. QED
      BY <1>6, <3>1
  <2> HIDE DEF piece
  <2>4. Split(s, sep)[1] = piece(1) /\ Split(s, sep)[2] = piece(2)
    BY <2>1
  <2>5. QED
    BY <2>2, <2>3, <2>4
<1>9. SubSeq(s, 1, c - 1) \o <<sep>> = SubSeq(s, 1, c)
  BY <1>1, <1>7, SubSeqRecursiveSecond
<1>10. SubSeq(s, 1, c) \o SubSeq(s, c + 1, n) = SubSeq(s, 1, n)
  <2>1. 1 \in 1..n + 1 /\ c \in 1 - 1..n /\ n \in c..n
    BY <1>1, <1>7
  <2>2. QED
    BY <2>1, ConcatAdjacentSubSeq
<1>11. QED
  BY <1>8, <1>9, <1>10, SubSeqFull

-----------------------------------------------------------------------------
(* The invariant: the ConfigMap is empty, or it is all of what AddData      *)
(* makes of the string it accepted last.                                    *)
Accepted(z) == Len(Split(z, "/")) = 3 /\ Len(Split(Split(z, "/")[1], ":")) = 2

OfOneString ==
    \/ DOMAIN data = {}
    \/ \E z \in Strings :
         /\ Accepted(z)
         /\ DOMAIN data = Keys
         /\ data["ZOOKEEPER_HOSTS"]  = Split(Split(z, "/")[1], ":")[1]
         /\ data["ZOOKEEPER_PORT"]   = Split(Split(z, "/")[1], ":")[2]
         /\ data["ZOOKEEPER_CHROOT"] = Split(z, "/")[3]
         /\ data["zookeeper"]        = z

(* Setting the four keys leaves nothing of an earlier string. *)
LEMMA PutAllSets ==
    ASSUME NEW d, NEW z, DOMAIN d \in {{}, Keys}
    PROVE  /\ DOMAIN PutAll(d, z) = Keys
           /\ PutAll(d, z)["ZOOKEEPER_HOSTS"]  = Split(Split(z, "/")[1], ":")[1]
           /\ PutAll(d, z)["ZOOKEEPER_PORT"]   = Split(Split(z, "/")[1], ":")[2]
           /\ PutAll(d, z)["ZOOKEEPER_CHROOT"] = Split(z, "/")[3]
           /\ PutAll(d, z)["zookeeper"]        = z
<1> DEFINE parts == Split(z, "/")
           hostAndPort == Split(parts[1], ":")
           d1 == Put(d,  "ZOOKEEPER_HOSTS",  hostAndPort[1])
           d2 == Put(d1, "ZOOKEEPER_PORT",   hostAndPort[2])
           d3 == Put(d2, "ZOOKEEPER_CHROOT", parts[3])
           d4 == Put(d3, "zookeeper", z)
<1> HIDE DEF hostAndPort, parts
<1>1. PutAll(d, z) = d4
  BY DEF PutAll, hostAndPort, parts
<1>2. /\ DOMAIN d1 = DOMAIN d \cup {"ZOOKEEPER_HOSTS"}
      /\ d1["ZOOKEEPER_HOSTS"] = hostAndPort[1]
  BY DEF Put
<1> HIDE DEF d1
<1>3. /\ DOMAIN d2 = DOMAIN d1 \cup {"ZOOKEEPER_PORT"}
      /\ d2["ZOOKEEPER_HOSTS"] = hostAndPort[1]
      /\ d2["ZOOKEEPER_PORT"] = hostAndPort[2]
  BY <1>2 DEF Put
<1> HIDE DEF d2
<1>4. /\ DOMAIN d3 = DOMAIN d2 \cup {"ZOOKEEPER_CHROOT"}
      /\ d3["ZOOKEEPER_HOSTS"] = hostAndPort[1]
      /\ d3["ZOOKEEPER_PORT"] = hostAndPort[2]
      /\ d3["ZOOKEEPER_CHROOT"] = parts[3]
  BY <1>2, <1>3 DEF Put
<1> HIDE DEF d3
<1>5. /\ DOMAIN d4 = DOMAIN d3 \cup {"zookeeper"}
      /\ d4["ZOOKEEPER_HOSTS"] = hostAndPort[1]
      /\ d4["ZOOKEEPER_PORT"] = hostAndPort[2]
      /\ d4["ZOOKEEPER_CHROOT"] = parts[3]
      /\ d4["zookeeper"] = z
  BY <1>2, <1>3, <1>4 DEF Put
<1> HIDE DEF d4
<1>6. DOMAIN d4 = Keys
  BY <1>2, <1>3, <1>4, <1>5 DEF Keys
<1>7. QED
  BY <1>1, <1>5, <1>6 DEF hostAndPort, parts

LEMMA OfOneStringNext == OfOneString /\ [Next]_vars => OfOneString'
<1>1. SUFFICES ASSUME OfOneString, [Next]_vars PROVE OfOneString'
  OBVIOUS
<1>2. CASE UNCHANGED vars
  BY <1>1, <1>2 DEF OfOneString, vars
<1>3. ASSUME NEW z \in Strings, data' = AddData(data, z).data PROVE OfOneString'
  <2>1. CASE ~Accepted(z)
    <3>1. data' = data
      BY <1>3, <2>1 DEF AddData, Accepted
    <3>2. QED
      BY <1>1, <3>1 DEF OfOneString
  <2>2. CASE Accepted(z)
    <3>1. data' = PutAll(data, z)
      BY <1>3, <2>2 DEF AddData, Accepted
    <3>2. DOMAIN data \in {{}, Keys}
      BY <1>1 DEF OfOneString
    <3>3. QED
      BY <2>2, <3>1, <3>2, PutAllSets DEF OfOneString
  <2>3. QED
    BY <2>1, <2>2
<1>4. QED
  BY <1>1, <1>2, <1>3 DEF Next

LEMMA StringsAreSequences == ASSUME NEW z \in Strings PROVE z \in Seq(Characters)
<1>1. PICK n \in 0..MaxLen : z \in [1..n -> Characters]
  BY DEF Strings
<1>2. n \in Nat
  BY <1>1, WordsAssumption
<1>3. QED
  BY <1>1, <1>2, SeqDef

LEMMA OneStringMakesTheSite == OfOneString => SiteIsOneString
<1>1. CASE DOMAIN data = {}
  BY <1>1 DEF SiteIsOneString, AddHbaseSite, GetQuorum, Get
<1>2. ASSUME NEW z \in Strings, Accepted(z), DOMAIN data = Keys,
             data["ZOOKEEPER_HOSTS"]  = Split(Split(z, "/")[1], ":")[1],
             data["ZOOKEEPER_PORT"]   = Split(Split(z, "/")[1], ":")[2],
             data["ZOOKEEPER_CHROOT"] = Split(z, "/")[3],
             data["zookeeper"]        = z
      PROVE  SiteIsOneString
  <2>1. Split(z, "/")[1] \in Seq(Characters)
    BY StringsAreSequences, FirstPiece
  <2>2. data["ZOOKEEPER_HOSTS"] \o <<":">> \o data["ZOOKEEPER_PORT"] = Split(z, "/")[1]
    <3>1. ":" \in Characters /\ Len(Split(Split(z, "/")[1], ":")) = 2
      BY <1>2 DEF Accepted, Characters
    <3>2. Split(Split(z, "/")[1], ":")[1] \o <<":">> \o Split(Split(z, "/")[1], ":")[2]
            = Split(z, "/")[1]
      BY <2>1, <3>1, JoinOfTwo
    <3>3. QED
      BY <1>2, <3>2, Zenon
  <2>3. /\ GetQuorum(data)     = [value |-> data["ZOOKEEPER_HOSTS"],  err |-> FALSE]
        /\ GetClientPort(data) = [value |-> data["ZOOKEEPER_PORT"],   err |-> FALSE]
        /\ GetChroot(data)     = [value |-> data["ZOOKEEPER_CHROOT"], err |-> FALSE]
        /\ GetZookeeper(data)  = [value |-> data["zookeeper"],        err |-> FALSE]
    BY <1>2 DEF GetQuorum, GetClientPort, GetChroot, GetZookeeper, Get, Keys
  <2>4. /\ AddHbaseSite(data).quorum = data["ZOOKEEPER_HOSTS"]
        /\ AddHbaseSite(data).clientPort = data["ZOOKEEPER_PORT"]
        /\ AddHbaseSite(data).parent = data["ZOOKEEPER_CHROOT"] \o <<"/", "hbase">>
        /\ ~AddHbaseSite(data).err
    <3> DEFINE parent == data["ZOOKEEPER_CHROOT"] \o <<"/", "hbase">>
               fails == GetQuorum(data).err \/ GetChroot(data).err
                          \/ GetClientPort(data).err
    <3>1. parent = GetChroot(data).value \o <<"/", "hbase">>
      BY <2>3
    <3>2. fails = FALSE
      BY <2>3
    <3> HIDE DEF parent, fails
    <3>3. AddHbaseSite(data) =
            [quorum     |-> GetQuorum(data).value, parent |-> parent,
             clientPort |-> GetClientPort(data).value, err |-> fails]
      BY <3>1, Zenon DEF AddHbaseSite, fails
    <3>4. /\ AddHbaseSite(data).quorum = data["ZOOKEEPER_HOSTS"]
          /\ AddHbaseSite(data).clientPort = data["ZOOKEEPER_PORT"]
          /\ AddHbaseSite(data).parent = parent
          /\ AddHbaseSite(data).err = FALSE
      BY <2>3, <3>2, <3>3
    <3>5. QED
      BY <3>4 DEF parent
  <2>5. GetZookeeper(data).value = z
    BY <1>2, <2>3
  <2>6. DOMAIN data # {}
    BY <1>2 DEF Keys
  <2>7. QED
    BY <1>2, <2>2, <2>4, <2>5, <2>6 DEF SiteIsOneString
<1>3. QED
  BY <1>1, <1>2 DEF OfOneString

(* For any words and any bound on the length, and after any calls of        *)
(* AddData, accepted or refused: the site file that AddHbaseSite makes is   *)
(* one connection string's, the one that GetZookeeper returns, host and     *)
(* port in one piece and the chroot in another.                             *)
THEOREM ZnodeIsOneString == Spec => []SiteIsOneString
<1>1. Init => OfOneString
  BY DEF Init, OfOneString
<1>2. QED
  BY <1>1, OfOneStringNext, OneStringMakesTheSite, PTL DEF Spec
==============================================================================

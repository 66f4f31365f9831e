--------------------- MODULE TopologyDescriptionProofs ---------------------
(***************************************************************************)
(* Proofs about modules TopologyDescription and TopologySwings, for any    *)
(* hosts, set names, replies and bounds.                                   *)
(***************************************************************************)
EXTENDS TopologySwings, FiniteSetTheorems, TLAPS

ServerRec ==
  [address : Addresses, type : ServerTypes, set_version : Int, election_id : Int,
   modern : BOOLEAN, topology_version : {NoTopologyVersion}, generation : Nat]

Descr ==
  [type : TopologyTypes, set_name : {None} \cup SetNames,
   servers : UNION {[I -> ServerRec] : I \in SUBSET Nat},
   max_server_id : Nat, max_set_version : Int, max_election_id : Int]

-----------------------------------------------------------------------------
(* Lists of hosts.                                                         *)

\* A finite set can be listed: Listed enumerates it without repetition.
LEMMA ListedIsInjective ==
  ASSUME NEW S, IsFiniteSet(S)
  PROVE  /\ Cardinality(S) \in Nat
         /\ Listed(S) \in [1..Cardinality(S) -> S]
         /\ \A i, j \in 1..Cardinality(S) : Listed(S)[i] = Listed(S)[j] => i = j
<1>1. Cardinality(S) \in Nat /\ ExistsBijection(1..Cardinality(S), S)
  BY FS_CardinalityType
<1>2. PICK f \in Bijection(1..Cardinality(S), S) : TRUE
  BY <1>1 DEF ExistsBijection
<1>3. /\ f \in [1..Cardinality(S) -> S]
      /\ \A i, j \in DOMAIN f : f[i] = f[j] => i = j
  BY <1>2 DEF Bijection, Injection, IsInjective, Surjection
<1>4. /\ Listed(S) \in [1..Cardinality(S) -> S]
      /\ \A i, j \in DOMAIN Listed(S) : Listed(S)[i] = Listed(S)[j] => i = j
  BY <1>3 DEF Listed
<1> QED
  BY <1>1, <1>4

\* The hosts of a reply, new or not, are finitely many.
LEMMA HostsFinite ==
  ASSUME NEW H \in SUBSET Addresses
  PROVE  IsFiniteSet(H)
  BY FS_Subset, DescriptionAssumption

-----------------------------------------------------------------------------
(* What changes a description may make.                                    *)

IdsOK(d) ==
  /\ \A i \in DOMAIN d.servers : i <= d.max_server_id
  /\ \A i, j \in DOMAIN d.servers : d.servers[i].address = d.servers[j].address => i = j

(* Server s is what server t was, up to its type, which may also have      *)
(* been forgotten.                                                         *)
Kept(s, t) ==
  /\ s.address = t.address
  /\ \/ /\ s.type = t.type /\ s.modern = t.modern
        /\ s.election_id = t.election_id /\ s.set_version = t.set_version
     \/ s.type \in {"Unknown", "PossiblePrimary"}

(* e comes from d: ids are given out in ascending order, what is there was *)
(* there before or is new.                                                 *)
From(d, e) ==
  /\ e \in Descr
  /\ e.max_server_id >= d.max_server_id
  /\ \A i \in DOMAIN e.servers :
       \/ i \in DOMAIN d.servers /\ Kept(e.servers[i], d.servers[i])
       \/ i > d.max_server_id /\ e.servers[i].type \in {"Unknown", "PossiblePrimary"}
  /\ IdsOK(d) => IdsOK(e)

\* The servers of a description, one by one.
LEMMA ServersOf ==
  ASSUME NEW d \in Descr
  PROVE  /\ DOMAIN d.servers \subseteq Nat
         /\ d.servers \in [DOMAIN d.servers -> ServerRec]
         /\ \A i \in DOMAIN d.servers : d.servers[i] \in ServerRec
  BY DEF Descr

\* A description with other servers.
LEMMA WithServers ==
  ASSUME NEW d \in Descr, NEW I \in SUBSET Nat, NEW f \in [I -> ServerRec]
  PROVE  LET e == [d EXCEPT !.servers = f]
         IN  /\ e \in Descr
             /\ e.servers = f /\ DOMAIN e.servers = I
             /\ e.type = d.type /\ e.set_name = d.set_name
             /\ e.max_server_id = d.max_server_id
             /\ e.max_set_version = d.max_set_version
             /\ e.max_election_id = d.max_election_id
  BY DEF Descr

\* Changes add up.
LEMMA FromTransitive ==
  ASSUME NEW c \in Descr, NEW d \in Descr, NEW e, From(c, d), From(d, e)
  PROVE  From(c, e)
<1>1. c.max_server_id \in Nat /\ d.max_server_id \in Nat /\ e.max_server_id \in Nat
  BY DEF From, Descr
<1>2. ASSUME NEW i \in DOMAIN e.servers
      PROVE  \/ i \in DOMAIN c.servers /\ Kept(e.servers[i], c.servers[i])
             \/ /\ i > c.max_server_id
                /\ e.servers[i].type \in {"Unknown", "PossiblePrimary"}
  <2>1. i \in Nat
    BY <1>2, ServersOf DEF From
  <2>2. CASE /\ i > d.max_server_id
             /\ e.servers[i].type \in {"Unknown", "PossiblePrimary"}
    BY <1>1, <2>1, <2>2 DEF From
  <2>3. CASE i \in DOMAIN d.servers /\ Kept(e.servers[i], d.servers[i])
    <3>1. CASE i \in DOMAIN c.servers /\ Kept(d.servers[i], c.servers[i])
      BY <1>1, <2>3, <3>1 DEF From, Kept
    <3>2. CASE /\ i > c.max_server_id
               /\ d.servers[i].type \in {"Unknown", "PossiblePrimary"}
      BY <1>1, <2>3, <3>2 DEF From, Kept
    <3> QED BY <2>3, <3>1, <3>2 DEF From
  <2> QED BY <1>2, <2>2, <2>3 DEF From
<1> QED
  BY <1>1, <1>2 DEF From

-----------------------------------------------------------------------------
(* The operators that change the set of servers.                           *)

\* Servers are removed; the others stay as they are.
LEMMA RemoveServersFrom ==
  ASSUME NEW d \in Descr, NEW ids
  PROVE  LET e == RemoveServers(d, ids)
         IN  /\ From(d, e)
             /\ DOMAIN e.servers = DOMAIN d.servers \ ids
             /\ \A i \in DOMAIN e.servers : e.servers[i] = d.servers[i]
             /\ e.type = d.type /\ e.set_name = d.set_name
             /\ e.max_set_version = d.max_set_version
             /\ e.max_election_id = d.max_election_id
<1> DEFINE f == [i \in DOMAIN d.servers \ ids |-> d.servers[i]]
           e == [d EXCEPT !.servers = f]
<1>1. f \in [DOMAIN d.servers \ ids -> ServerRec] /\ DOMAIN d.servers \ ids \in SUBSET Nat
  BY ServersOf
<1>2. /\ e \in Descr
      /\ e.servers = f /\ DOMAIN e.servers = DOMAIN d.servers \ ids
      /\ e.type = d.type /\ e.set_name = d.set_name
      /\ e.max_server_id = d.max_server_id
      /\ e.max_set_version = d.max_set_version
      /\ e.max_election_id = d.max_election_id
  <2> HIDE DEF f
  <2> QED BY <1>1, WithServers
<1>3. From(d, e)
  <2> HIDE DEF e
  <2> QED BY <1>2 DEF From, Kept, IdsOK, Descr
<1> HIDE DEF e
<1>4. RemoveServers(d, ids) = e
  BY DEF RemoveServers, e
<1> QED
  BY <1>2, <1>3, <1>4

\* Hosts that are not listed yet get new ids and the type Unknown.
LEMMA AddServersFrom ==
  ASSUME NEW d \in Descr, NEW hosts \in SUBSET Addresses
  PROVE  LET e == AddServers(d, hosts)
         IN  /\ From(d, e)
             /\ \A i \in DOMAIN e.servers :
                  \/ i \in DOMAIN d.servers /\ e.servers[i] = d.servers[i]
                  \/ e.servers[i].type = "Unknown"
             /\ e.type = d.type /\ e.set_name = d.set_name
             /\ e.max_set_version = d.max_set_version
             /\ e.max_election_id = d.max_election_id
<1> DEFINE new == hosts \ AddressesOf(d)
           n == Cardinality(new)
           D == DOMAIN d.servers
           m == d.max_server_id
           I == D \cup (m + 1)..(m + n)
           f == [i \in I |-> IF i \in D THEN d.servers[i] ELSE NewServer(Listed(new)[i - m])]
           k == m + n
           e == [d EXCEPT !.max_server_id = k, !.servers = f]
<1>1. /\ n \in Nat /\ Listed(new) \in [1..n -> new]
      /\ \A i, j \in 1..n : Listed(new)[i] = Listed(new)[j] => i = j
  <2> HIDE DEF new
  <2>1. new \in SUBSET Addresses
    BY DEF new
  <2> QED BY <2>1, HostsFinite, ListedIsInjective
<1>2. m \in Nat /\ D \subseteq Nat /\ I \in SUBSET Nat
  BY <1>1, ServersOf DEF Descr
<1>3. ASSUME NEW i \in I, i \notin D
      PROVE  /\ i - m \in 1..n /\ i > m
             /\ f[i] = NewServer(Listed(new)[i - m])
             /\ Listed(new)[i - m] \in new
             /\ f[i].address = Listed(new)[i - m]
             /\ f[i].type = "Unknown"
  <2>1. i - m \in 1..n /\ i > m
    BY <1>1, <1>2, <1>3
  <2>2. f[i] = NewServer(Listed(new)[i - m])
    BY <1>3
  <2>3. Listed(new)[i - m] \in new
    BY <1>1, <2>1
  <2>4. \A a : NewServer(a).address = a /\ NewServer(a).type = "Unknown"
    BY DEF NewServer
  <2> HIDE DEF f, new
  <2> QED BY <2>1, <2>2, <2>3, <2>4
<1>4. f \in [I -> ServerRec]
  <2>1. \A a \in Addresses : NewServer(a) \in ServerRec
    BY DEF NewServer, ServerRec, ServerTypes, NoSetVersion, NoElectionId
  <2>2. ASSUME NEW i \in I PROVE f[i] \in ServerRec
    <3>1. CASE i \in D
      BY <3>1, ServersOf
    <3>2. CASE i \notin D
      <4>1. Listed(new)[i - m] \in Addresses /\ f[i] = NewServer(Listed(new)[i - m])
        BY <1>3, <3>2
      <4> QED BY <4>1, <2>1
    <3> QED BY <3>1, <3>2
  <2> QED BY <2>2
<1>5. /\ e \in Descr
      /\ e.servers = f /\ DOMAIN e.servers = I
      /\ e.max_server_id = k
      /\ e.type = d.type /\ e.set_name = d.set_name
      /\ e.max_set_version = d.max_set_version
      /\ e.max_election_id = d.max_election_id
  <2>1. k \in Nat
    BY <1>1, <1>2
  <2>2. I \in SUBSET Nat
    BY <1>2
  <2> HIDE DEF f, I, k, m, n, D, new
  <2> QED BY <1>4, <2>1, <2>2 DEF Descr
<1>6. ASSUME IdsOK(d) PROVE IdsOK(e)
  <2>1. \A i \in DOMAIN e.servers : i <= e.max_server_id
    <3> SUFFICES ASSUME NEW i \in I PROVE i <= m + n
      BY <1>5
    <3>1. CASE i \in D
      BY <1>1, <1>2, <1>6, <3>1 DEF IdsOK
    <3>2. CASE i \notin D
      BY <1>1, <1>2, <3>2
    <3> QED BY <3>1, <3>2
  <2>2. ASSUME NEW i \in I, NEW j \in I, f[i].address = f[j].address PROVE i = j
    <3>1. CASE i \in D /\ j \in D
      BY <1>6, <2>2, <3>1 DEF IdsOK
    <3>2. CASE i \notin D /\ j \notin D
      <4>1. i - m = j - m
        <5>1. Listed(new)[i - m] = Listed(new)[j - m] /\ i - m \in 1..n /\ j - m \in 1..n
          <6> HIDE DEF f, new, n, m, I
          <6> QED BY <1>3, <2>2, <3>2
        <5> HIDE DEF new, n, m
        <5> QED BY <1>1, <5>1
      <4> QED BY <4>1, <1>2
    <3>3. CASE i \in D /\ j \notin D
      BY <1>3, <2>2, <3>3 DEF AddressesOf
    <3>4. CASE i \notin D /\ j \in D
      BY <1>3, <2>2, <3>4 DEF AddressesOf
    <3> QED BY <3>1, <3>2, <3>3, <3>4
  <2> HIDE DEF e, f
  <2> QED BY <1>5, <2>1, <2>2 DEF IdsOK
<1>7. /\ From(d, e)
      /\ \A i \in DOMAIN e.servers :
           \/ i \in DOMAIN d.servers /\ e.servers[i] = d.servers[i]
           \/ e.servers[i].type = "Unknown"
  <2>1. ASSUME NEW i \in I
        PROVE  \/ i \in DOMAIN d.servers /\ f[i] = d.servers[i]
               \/ i > d.max_server_id /\ f[i].type = "Unknown"
    BY <1>3
  <2>2. e.max_server_id >= d.max_server_id
    <3> HIDE DEF e, n
    <3> QED BY <1>1, <1>2, <1>5
  <2> HIDE DEF e, f, I
  <2>3. ASSUME NEW i \in DOMAIN e.servers
        PROVE  \/ i \in DOMAIN d.servers /\ e.servers[i] = d.servers[i]
               \/ i > d.max_server_id /\ e.servers[i].type = "Unknown"
    BY <1>5, <2>1
  <2>4. \A s : Kept(s, s)
    BY DEF Kept
  <2>5. e \in Descr
    BY <1>5
  <2> HIDE DEF n, D, m, new
  <2> QED BY <1>6, <2>2, <2>3, <2>4, <2>5 DEF From
<1>8. AddServers(d, hosts) = e
  BY DEF AddServers
<1> HIDE DEF e
<1> QED
  BY <1>5, <1>7, <1>8

\* Servers keep their ids; some are known no more, or as possible primaries.
LEMMA SameIdsFrom ==
  ASSUME NEW d \in Descr, NEW f \in [DOMAIN d.servers -> ServerRec],
         \A i \in DOMAIN d.servers : Kept(f[i], d.servers[i])
  PROVE  LET e == [d EXCEPT !.servers = f]
         IN  From(d, e) /\ e.servers = f
<1> DEFINE e == [d EXCEPT !.servers = f]
<1>1. e \in Descr /\ e.servers = f /\ e.max_server_id = d.max_server_id
  <2>1. DOMAIN d.servers \in SUBSET Nat
    BY ServersOf
  <2> QED BY <2>1, WithServers
<1> HIDE DEF e
<1>2. From(d, e)
  BY <1>1 DEF From, Kept, IdsOK, Descr
<1> QED BY <1>1, <1>2 DEF e

\* A description with another type, name or election.
LEMMA OtherFieldsFrom ==
  ASSUME NEW d \in Descr, NEW e \in Descr, e.servers = d.servers,
         e.max_server_id = d.max_server_id
  PROVE  From(d, e)
<1>1. d.max_server_id \in Nat
  BY DEF Descr
<1> QED BY <1>1 DEF From, Kept, IdsOK

\* Setting the type keeps everything else.
LEMMA TypeFrom ==
  ASSUME NEW d \in Descr, NEW t \in TopologyTypes
  PROVE  LET e == [d EXCEPT !.type = t]
         IN  /\ From(d, e) /\ e.type = t /\ e.servers = d.servers
             /\ e.set_name = d.set_name
             /\ e.max_set_version = d.max_set_version
             /\ e.max_election_id = d.max_election_id
<1> DEFINE e == [d EXCEPT !.type = t]
<1>1. /\ e \in Descr /\ e.type = t /\ e.servers = d.servers
      /\ e.max_server_id = d.max_server_id
      /\ e.set_name = d.set_name
      /\ e.max_set_version = d.max_set_version
      /\ e.max_election_id = d.max_election_id
  BY DEF Descr
<1> HIDE DEF e
<1>2. From(d, e)
  BY <1>1, OtherFieldsFrom
<1> QED BY <1>1, <1>2 DEF e

\* UpdateRsType decides between the two types of replica set.
LEMMA UpdateRsTypeFrom ==
  ASSUME NEW d \in Descr
  PROVE  LET e == UpdateRsType(d)
         IN  /\ From(d, e) /\ e.servers = d.servers
             /\ e.type = IF HasPrimary(d) THEN "RSWithPrimary" ELSE "RSNoPrimary"
             /\ e.max_set_version = d.max_set_version
             /\ e.max_election_id = d.max_election_id
<1> DEFINE t == IF HasPrimary(d) THEN "RSWithPrimary" ELSE "RSNoPrimary"
<1>1. t \in TopologyTypes
  BY DEF TopologyTypes
<1>2. UpdateRsType(d) = [d EXCEPT !.type = t]
  BY DEF UpdateRsType
<1> HIDE DEF t
<1>3. /\ From(d, [d EXCEPT !.type = t]) /\ [d EXCEPT !.type = t].servers = d.servers
      /\ [d EXCEPT !.type = t].type = t
      /\ [d EXCEPT !.type = t].max_set_version = d.max_set_version
      /\ [d EXCEPT !.type = t].max_election_id = d.max_election_id
  BY <1>1, TypeFrom
<1> QED BY <1>2, <1>3 DEF t

\* A set name is taken over from a reply when there is none.
LEMMA NamedFrom ==
  ASSUME NEW d \in Descr, NEW h, h.set_name \in {None} \cup SetNames
  PROVE  LET e == Named(d, h)
         IN  /\ From(d, e) /\ e.servers = d.servers /\ e.type = d.type
             /\ e.max_set_version = d.max_set_version
             /\ e.max_election_id = d.max_election_id
<1>1. CASE d.set_name = None
  <2> DEFINE nm == h.set_name
             e == [d EXCEPT !.set_name = nm]
  <2> HIDE DEF nm
  <2>1. nm \in {None} \cup SetNames
    BY DEF nm
  <2>2. /\ e \in Descr /\ e.type = d.type /\ e.servers = d.servers
        /\ e.max_server_id = d.max_server_id
        /\ e.max_set_version = d.max_set_version
        /\ e.max_election_id = d.max_election_id
    BY <2>1 DEF Descr
  <2> HIDE DEF e
  <2>3. From(d, e)
    BY <2>2, OtherFieldsFrom
  <2>4. Named(d, h) = e
    BY <1>1 DEF Named, e, nm
  <2> QED BY <2>2, <2>3, <2>4
<1>2. CASE d.set_name # None
  <2>1. Named(d, h) = d
    BY <1>2 DEF Named
  <2> QED BY <2>1, OtherFieldsFrom
<1> QED BY <1>1, <1>2

\* A server that is no longer known keeps its address.
LEMMA ResetKept ==
  ASSUME NEW s \in ServerRec
  PROVE  Reset(s) \in ServerRec /\ Kept(Reset(s), s) /\ Reset(s).type = "Unknown"
<1>1. NoSetVersion \in Int /\ NoElectionId \in Int /\ "Unknown" \in ServerTypes
  BY DEF NoSetVersion, NoElectionId, ServerTypes
<1>2. Reset(s) \in ServerRec
  BY <1>1 DEF Reset, ServerRec
<1>3. Reset(s).address = s.address /\ Reset(s).type = "Unknown"
  BY DEF Reset, ServerRec
<1> QED BY <1>2, <1>3 DEF Kept

\* A host named as primary is labelled; the others stay as they are.
LEMMA LabelPossiblePrimaryFrom ==
  ASSUME NEW d \in Descr, NEW a
  PROVE  LET e == LabelPossiblePrimary(d, a)
         IN  /\ From(d, e) /\ e.type = d.type
             /\ e.max_set_version = d.max_set_version
             /\ e.max_election_id = d.max_election_id
<1> DEFINE f == [i \in DOMAIN d.servers |->
                   IF d.servers[i].address = a /\ d.servers[i].type = "Unknown"
                     THEN [d.servers[i] EXCEPT !.type = "PossiblePrimary"]
                     ELSE d.servers[i]]
           e == [d EXCEPT !.servers = f]
<1>1. \A s \in ServerRec : /\ [s EXCEPT !.type = "PossiblePrimary"] \in ServerRec
                           /\ Kept([s EXCEPT !.type = "PossiblePrimary"], s)
                           /\ Kept(s, s)
  BY DEF ServerRec, Kept, ServerTypes
<1>2. ASSUME NEW i \in DOMAIN d.servers
      PROVE  f[i] \in ServerRec /\ Kept(f[i], d.servers[i])
  <2>1. d.servers[i] \in ServerRec
    BY ServersOf
  <2>2. f[i] = d.servers[i] \/ f[i] = [d.servers[i] EXCEPT !.type = "PossiblePrimary"]
    OBVIOUS
  <2> HIDE DEF f
  <2> QED BY <1>1, <2>1, <2>2
<1>3. LabelPossiblePrimary(d, a) = e
  BY DEF LabelPossiblePrimary
<1>4. From(d, e)
  <2>1. f \in [DOMAIN d.servers -> ServerRec]
    BY <1>2
  <2> HIDE DEF f
  <2> QED BY <1>2, <2>1, SameIdsFrom
<1>5. e.type = d.type /\ e.max_set_version = d.max_set_version
      /\ e.max_election_id = d.max_election_id
  BY DEF Descr
<1> QED BY <1>3, <1>4, <1>5

\* After InvalidateOtherPrimaries only the server itself can be a primary.
LEMMA InvalidateOtherPrimariesFrom ==
  ASSUME NEW d \in Descr, NEW id
  PROVE  LET e == InvalidateOtherPrimaries(d, id)
         IN  /\ From(d, e) /\ e.type = d.type
             /\ \A i \in DOMAIN e.servers : e.servers[i].type = "RSPrimary" => i = id
             /\ e.max_set_version = d.max_set_version
             /\ e.max_election_id = d.max_election_id
<1> DEFINE f == [i \in DOMAIN d.servers |->
                   IF i # id /\ d.servers[i].type = "RSPrimary" THEN Reset(d.servers[i])
                                                                ELSE d.servers[i]]
           e == [d EXCEPT !.servers = f]
<1>1. /\ f \in [DOMAIN d.servers -> ServerRec]
      /\ \A i \in DOMAIN d.servers : Kept(f[i], d.servers[i])
  BY ResetKept, ServersOf DEF Kept
<1>2. \A i \in DOMAIN f : f[i].type = "RSPrimary" => i = id
  BY ResetKept, ServersOf
<1>3. InvalidateOtherPrimaries(d, id) = e
  BY DEF InvalidateOtherPrimaries
<1> HIDE DEF f
<1>4. From(d, e) /\ e.servers = f
  BY <1>1, SameIdsFrom
<1>5. e.type = d.type /\ e.max_set_version = d.max_set_version
      /\ e.max_election_id = d.max_election_id
  BY DEF Descr
<1> HIDE DEF e
<1> QED BY <1>2, <1>3, <1>4, <1>5

-----------------------------------------------------------------------------
(* What a good description looks like: the three invariants about types    *)
(* and elections, stated of any description d and, while the reply of one  *)
(* server is being handled, of all servers but those in X.                 *)

Fits(t, s) ==
  CASE t = "Unknown" -> s \in {"Unknown", "RSGhost"}
    [] t = "Sharded" -> s \in {"Unknown", "RSGhost", "Mongos"}
    [] t = "RSNoPrimary" -> s \notin {"RSPrimary", "Mongos", "Standalone"}
    [] t = "RSWithPrimary" -> s \notin {"Mongos", "Standalone"}
    [] t = "Single" -> TRUE

Newest(d, s) ==
  s.type = "RSPrimary" /\ (s.modern \/ HasElection(s)) =>
    s.election_id = d.max_election_id /\ s.set_version = d.max_set_version

OnePrimary(d, X) ==
  \A i, j \in DOMAIN d.servers \ X :
    d.servers[i].type = "RSPrimary" /\ d.servers[j].type = "RSPrimary" => i = j

GoodBut(d, X) ==
  /\ \A i \in DOMAIN d.servers \ X :
       Fits(d.type, d.servers[i].type) /\ Newest(d, d.servers[i])
  /\ OnePrimary(d, X)

Good(d) == d.type # "Single" => GoodBut(d, {})

\* The same for a replica set whose type is yet to be decided.
SetGood(d, X) ==
  /\ \A i \in DOMAIN d.servers \ X :
       /\ d.servers[i].type \notin {"Mongos", "Standalone"}
       /\ Newest(d, d.servers[i])
  /\ OnePrimary(d, X)

SameElection(d, e) ==
  /\ e.max_set_version = d.max_set_version
  /\ e.max_election_id = d.max_election_id

Lex(a, b, c, d) == a < c \/ (a = c /\ b <= d)

(* By the rule of modern servers (m) or of older ones the newest election  *)
(* has not gone back.                                                      *)
Forward(d, e, m) ==
  IF m
    THEN Lex(d.max_election_id, d.max_set_version, e.max_election_id, e.max_set_version)
    ELSE Lex(d.max_set_version, d.max_election_id, e.max_set_version, e.max_election_id)

\* An election that stays does not go back.
LEMMA SameIsForward ==
  ASSUME NEW m \in BOOLEAN, NEW d \in Descr, NEW e, SameElection(d, e)
  PROVE  Forward(d, e, m)
<1>1. d.max_set_version \in Int /\ d.max_election_id \in Int
  BY DEF Descr
<1> QED BY <1>1 DEF Forward, Lex, SameElection

\* A replica set of unknown or known type has the servers of a replica set.
LEMMA GoodIsSetGood ==
  ASSUME NEW d, NEW X, GoodBut(d, X),
         d.type \in {"Unknown", "RSNoPrimary", "RSWithPrimary"}
  PROVE  SetGood(d, X)
<1>1. ASSUME NEW s, Fits(d.type, s) PROVE s \notin {"Mongos", "Standalone"}
  BY <1>1 DEF Fits
<1> QED BY <1>1 DEF GoodBut, SetGood

(* Changes that only add unknown servers and forget what is known of some  *)
(* keep the servers of a replica set good, provided the exempted ones are  *)
(* gone or forgotten.                                                      *)
LEMMA SetGoodFrom ==
  ASSUME NEW d \in Descr, NEW e, NEW X, From(d, e), SetGood(d, X), SameElection(d, e),
         \A i \in DOMAIN e.servers :
           i \in X => e.servers[i].type \in {"Unknown", "PossiblePrimary"}
  PROVE  SetGood(e, {})
<1>1. ASSUME NEW i \in DOMAIN e.servers
      PROVE  \/ e.servers[i].type \in {"Unknown", "PossiblePrimary"}
             \/ /\ i \in DOMAIN d.servers \ X
                /\ e.servers[i].type = d.servers[i].type
                /\ e.servers[i].modern = d.servers[i].modern
                /\ e.servers[i].election_id = d.servers[i].election_id
                /\ e.servers[i].set_version = d.servers[i].set_version
  BY DEF From, Kept
<1>2. \A i \in DOMAIN e.servers : /\ e.servers[i].type \notin {"Mongos", "Standalone"}
                                  /\ Newest(e, e.servers[i])
  BY <1>1 DEF SetGood, Newest, SameElection, HasElection
<1>3. OnePrimary(e, {})
  BY <1>1 DEF SetGood, OnePrimary
<1> QED BY <1>2, <1>3 DEF SetGood

\* UpdateRsType then decides the type rightly.
LEMMA UpdateRsTypeGood ==
  ASSUME NEW d \in Descr, SetGood(d, {})
  PROVE  Good(UpdateRsType(d)) /\ SameElection(d, UpdateRsType(d))
<1> DEFINE e == UpdateRsType(d)
<1>1. /\ e.servers = d.servers
      /\ e.type = IF HasPrimary(d) THEN "RSWithPrimary" ELSE "RSNoPrimary"
      /\ SameElection(d, e)
  BY UpdateRsTypeFrom DEF SameElection
<1> HIDE DEF e
<1>2. \A i \in DOMAIN e.servers : Fits(e.type, e.servers[i].type)
  BY <1>1 DEF SetGood, Fits, HasPrimary
<1>3. \A i \in DOMAIN e.servers : Newest(e, e.servers[i])
  BY <1>1 DEF SetGood, Newest, SameElection
<1>4. OnePrimary(e, {})
  BY <1>1 DEF SetGood, OnePrimary
<1> QED BY <1>1, <1>2, <1>3, <1>4 DEF Good, GoodBut, e

\* Without a primary the type RSNoPrimary is right.
LEMMA NoPrimaryGood ==
  ASSUME NEW d, SetGood(d, {}), d.type = "RSNoPrimary",
         \A i \in DOMAIN d.servers : d.servers[i].type # "RSPrimary"
  PROVE  Good(d)
  BY DEF Good, GoodBut, SetGood, Fits

\* With the type RSWithPrimary a replica set is good with or without one.
LEMMA WithPrimaryGood ==
  ASSUME NEW d, SetGood(d, {}), d.type = "RSWithPrimary"
  PROVE  Good(d)
  BY DEF Good, GoodBut, SetGood, Fits

\* What hello replies have in common, the primaries being modern (m) or not.
Hi(h, m) ==
  /\ h.type \in {"Standalone", "Mongos", "RSGhost", "RSPrimary"} \cup MemberAll
  /\ h.set_name \in {None} \cup SetNames
  /\ h.hosts \in SUBSET Addresses
  /\ h.set_version \in Int /\ h.election_id \in Int
  /\ h.topology_version = NoTopologyVersion
  /\ h.modern \in BOOLEAN
  /\ h.type = "RSPrimary" => h.modern = m

\* All replies are of that form.
LEMMA HellosHi ==
  ASSUME NEW h \in Hellos
  PROVE  Hi(h, h.modern)
<1>1. /\ NoSetVersion \in Int /\ NoElectionId \in Int
      /\ SetVersions \subseteq Int /\ ElectionIds \subseteq Int
      /\ MemberTypes \subseteq MemberAll
      /\ \A hs \in HostLists : hs \in SUBSET Addresses
  BY DescriptionAssumption DEF NoSetVersion, NoElectionId, SetVersions, ElectionIds, MemberAll
<1>2. CASE h \in {Reply(t) : t \in {"Standalone", "Mongos", "RSGhost"}}
  <2>1. PICK t \in {"Standalone", "Mongos", "RSGhost"} : h = Reply(t)
    BY <1>2
  <2> QED BY <1>1, <2>1 DEF Reply, Hi
<1>3. CASE h \in PrimaryReplies
  <2>1. PICK n \in SetNames, hs \in HostLists, sv \in SetVersions, e \in ElectionIds,
             x \in BOOLEAN : h = PrimaryReply(n, hs, sv, e, x)
    BY <1>3 DEF PrimaryReplies
  <2> QED BY <1>1, <2>1 DEF PrimaryReply, Reply, Hi
<1>4. CASE h \in MemberReplies
  <2>1. PICK t \in MemberTypes, n \in SetNames, hs \in HostLists, me \in BOOLEAN,
             p \in {None} \cup Addresses : h = MemberReply(t, n, hs, me, p)
    BY <1>4 DEF MemberReplies
  <2> QED BY <1>1, <2>1 DEF MemberReply, Reply, Hi
<1> QED BY <1>2, <1>3, <1>4 DEF Hellos

-----------------------------------------------------------------------------
(* The handlers.                                                           *)

\* The types of deployment whose hosts SRV polling keeps up to date.
Eligible == {"Unknown", "Sharded"}

(* e follows d without a DNS answer: a description that is still eligible  *)
(* was so before and has no server that was not there.                     *)
NothingAdded(d, e) ==
  e.type \in Eligible => /\ d.type \in Eligible
                         /\ DOMAIN e.servers \subseteq DOMAIN d.servers

Handled(d, e, m) == From(d, e) /\ Good(e) /\ Forward(d, e, m) /\ NothingAdded(d, e)

\* Without a change nothing is added.
LEMMA SameAddsNothing ==
  ASSUME NEW d
  PROVE  NothingAdded(d, d)
  BY DEF NothingAdded

\* Nothing matters of a description that SRV polling leaves alone.
LEMMA OtherTypeAddsNothing ==
  ASSUME NEW d, NEW e, e.type \notin Eligible
  PROVE  NothingAdded(d, e)
  BY DEF NothingAdded

\* A description that comes from another is one.
LEMMA FromDescr ==
  ASSUME NEW d, NEW e, From(d, e)
  PROVE  e \in Descr
  BY DEF From

(* A claim that is not stale is remembered; then it is the newest, and the *)
(* newest election has not gone back.                                      *)
LEMMA RememberElectionForward ==
  ASSUME NEW d \in Descr, NEW h, NEW m \in BOOLEAN, Hi(h, m), h.type = "RSPrimary",
         ~Stale(d, h)
  PROVE  LET e == RememberElection(d, h)
         IN  /\ From(d, e) /\ e.servers = d.servers /\ e.type = d.type
             /\ Forward(d, e, m)
             /\ h.modern \/ HasElection(h) =>
                  e.max_election_id = h.election_id /\ e.max_set_version = h.set_version
<1> DEFINE me == IF h.modern \/ HasElection(h) THEN h.election_id ELSE d.max_election_id
           ms == IF h.modern \/ h.set_version > d.max_set_version
                   THEN h.set_version ELSE d.max_set_version
           e == [d EXCEPT !.max_election_id = me, !.max_set_version = ms]
<1>1. /\ d.max_set_version \in Int /\ d.max_election_id \in Int
      /\ h.set_version \in Int /\ h.election_id \in Int /\ h.modern = m
  BY DEF Descr, Hi
<1>2. me \in Int /\ ms \in Int
  BY <1>1
<1>3. RememberElection(d, h) = e
  BY <1>1 DEF RememberElection
<1>4. /\ e \in Descr /\ e.type = d.type /\ e.servers = d.servers
      /\ e.max_server_id = d.max_server_id
      /\ e.max_election_id = me /\ e.max_set_version = ms
  <2> HIDE DEF me, ms
  <2> QED BY <1>2 DEF Descr
<1>5. h.modern \/ HasElection(h) => me = h.election_id /\ ms = h.set_version
  BY <1>1 DEF Stale, StaleOld, HasElection
<1>6. IF m THEN Lex(d.max_election_id, d.max_set_version, me, ms)
           ELSE Lex(d.max_set_version, d.max_election_id, ms, me)
  <2>1. CASE m
    BY <1>1, <2>1 DEF Stale, StaleModern, Lex
  <2>2. CASE ~m
    BY <1>1, <2>2 DEF Stale, StaleOld, HasElection, Lex
  <2> QED BY <2>1, <2>2
<1> HIDE DEF e, me, ms
<1>7. From(d, e)
  BY <1>4, OtherFieldsFrom
<1> QED BY <1>3, <1>4, <1>5, <1>6, <1>7 DEF Forward

\* Resetting one server.
LEMMA ResetOneFrom ==
  ASSUME NEW d \in Descr, NEW id \in DOMAIN d.servers
  PROVE  LET e == [d EXCEPT !.servers[id] = Reset(@)]
         IN  /\ From(d, e) /\ SameElection(d, e) /\ e.type = d.type
             /\ DOMAIN e.servers = DOMAIN d.servers
             /\ e.servers[id].type = "Unknown"
             /\ \A i \in DOMAIN d.servers : i # id => e.servers[i] = d.servers[i]
<1> DEFINE f == [d.servers EXCEPT ![id] = Reset(d.servers[id])]
           e == [d EXCEPT !.servers = f]
<1>1. /\ f \in [DOMAIN d.servers -> ServerRec]
      /\ \A i \in DOMAIN d.servers : Kept(f[i], d.servers[i])
      /\ \A i \in DOMAIN d.servers : i # id => f[i] = d.servers[i]
      /\ f[id].type = "Unknown"
  BY ServersOf, ResetKept DEF Kept
<1>2. [d EXCEPT !.servers[id] = Reset(@)] = e
  OBVIOUS
<1> HIDE DEF f
<1>3. From(d, e) /\ e.servers = f
  BY <1>1, SameIdsFrom
<1>4. e.type = d.type /\ SameElection(d, e)
  BY DEF Descr, SameElection
<1> HIDE DEF e
<1>5. DOMAIN f = DOMAIN d.servers
  BY <1>1
<1> QED BY <1>1, <1>2, <1>3, <1>4, <1>5

\* An invalidated server is known no more; nothing else is changed but the type.
LEMMA InvalidateFrom ==
  ASSUME NEW d \in Descr, NEW id \in DOMAIN d.servers
  PROVE  LET e == Invalidate(d, id)
         IN  /\ From(d, e) /\ SameElection(d, e)
             /\ id \in DOMAIN e.servers => e.servers[id].type = "Unknown"
<1> DEFINE x == [d EXCEPT !.servers[id] = Reset(@)]
<1>1. /\ From(d, x) /\ SameElection(d, x) /\ x.type = d.type
      /\ x.servers[id].type = "Unknown"
  BY ResetOneFrom
<1>2. Invalidate(d, id) = IF d.type = "RSWithPrimary" THEN UpdateRsType(x) ELSE x
  BY DEF Invalidate
<1> HIDE DEF x
<1>3. x \in Descr
  BY <1>1, FromDescr
<1>4. /\ From(x, UpdateRsType(x)) /\ UpdateRsType(x).servers = x.servers
      /\ SameElection(x, UpdateRsType(x))
  BY <1>3, UpdateRsTypeFrom DEF SameElection
<1>5. From(d, UpdateRsType(x))
  BY <1>1, <1>3, <1>4, FromTransitive
<1> QED BY <1>1, <1>2, <1>4, <1>5 DEF SameElection

\* Good descriptions stay good when a server is invalidated.
LEMMA InvalidateGood ==
  ASSUME NEW d \in Descr, NEW id, Good(d)
  PROVE  LET e == Invalidate(d, id)
         IN  From(d, e) /\ Good(e) /\ SameElection(d, e)
<1>1. CASE id \notin DOMAIN d.servers
  <2>1. Invalidate(d, id) = d
    BY <1>1 DEF Invalidate
  <2> QED BY <2>1, OtherFieldsFrom DEF SameElection
<1>2. CASE id \in DOMAIN d.servers
  <2> DEFINE x == [d EXCEPT !.servers[id] = Reset(@)]
  <2>1. /\ From(d, x) /\ SameElection(d, x) /\ x.type = d.type
        /\ DOMAIN x.servers = DOMAIN d.servers
        /\ x.servers[id].type = "Unknown"
        /\ \A i \in DOMAIN d.servers : i # id => x.servers[i] = d.servers[i]
    BY <1>2, ResetOneFrom
  <2>2. Invalidate(d, id) = IF d.type = "RSWithPrimary" THEN UpdateRsType(x) ELSE x
    BY <1>2 DEF Invalidate
  <2> HIDE DEF x
  <2>3. x \in Descr
    BY <2>1, FromDescr
  <2>4. CASE d.type = "RSWithPrimary"
    <3>1. SetGood(d, {})
      BY <2>4, GoodIsSetGood DEF Good
    <3>2. SetGood(x, {})
      BY <2>1, <3>1, SetGoodFrom
    <3> QED BY <2>2, <2>3, <2>4, <3>2, UpdateRsTypeGood, InvalidateFrom, <1>2
  <2>5. CASE d.type # "RSWithPrimary"
    <3>1. Good(x)
      <4>1. CASE d.type = "Single"
        BY <2>1, <4>1 DEF Good
      <4>2. CASE d.type # "Single"
        <5>1. Fits(x.type, "Unknown")
          <6>1. d.type \in TopologyTypes
            BY DEF Descr
          <6> QED BY <2>1, <6>1 DEF Fits, TopologyTypes
        <5>2. \A i \in DOMAIN x.servers :
                Fits(x.type, x.servers[i].type) /\ Newest(x, x.servers[i])
          BY <2>1, <4>2, <5>1 DEF Good, GoodBut, Newest, SameElection
        <5>3. OnePrimary(x, {})
          BY <2>1, <4>2 DEF Good, GoodBut, OnePrimary
        <5> QED BY <5>2, <5>3 DEF Good, GoodBut
      <4> QED BY <4>1, <4>2
    <3> QED BY <2>1, <2>2, <2>5, <3>1
  <2> QED BY <2>4, <2>5
<1> QED BY <1>1, <1>2

(* Changes of a replica set followed by UpdateRsType: the common end of    *)
(* several handlers.                                                       *)
LEMMA ThenUpdateRsType ==
  ASSUME NEW m \in BOOLEAN, NEW c \in Descr, NEW x, NEW X, From(c, x), SetGood(c, X), SameElection(c, x),
         \A i \in DOMAIN x.servers :
           i \in X => x.servers[i].type \in {"Unknown", "PossiblePrimary"}
  PROVE  Handled(c, UpdateRsType(x), m)
<1>1. x \in Descr
  BY FromDescr
<1>2. SetGood(x, {})
  BY SetGoodFrom
<1>3. Good(UpdateRsType(x)) /\ SameElection(x, UpdateRsType(x))
  BY <1>1, <1>2, UpdateRsTypeGood
<1>4. From(c, UpdateRsType(x))
  BY <1>1, UpdateRsTypeFrom, FromTransitive
<1>5. Forward(c, UpdateRsType(x), m)
  BY <1>3, SameIsForward DEF SameElection
<1>6. NothingAdded(c, UpdateRsType(x))
  BY <1>1, UpdateRsTypeFrom, OtherTypeAddsNothing DEF Eligible
<1> QED BY <1>3, <1>4, <1>5, <1>6 DEF Handled

\* Removing the server whose reply is handled leaves a good description.
LEMMA RemovedGood ==
  ASSUME NEW m \in BOOLEAN, NEW c \in Descr, NEW id, GoodBut(c, {id})
  PROVE  Handled(c, RemoveServers(c, {id}), m)
<1> DEFINE e == RemoveServers(c, {id})
<1>1. /\ From(c, e) /\ DOMAIN e.servers = DOMAIN c.servers \ {id}
      /\ \A i \in DOMAIN e.servers : e.servers[i] = c.servers[i]
      /\ e.type = c.type /\ SameElection(c, e)
  BY RemoveServersFrom DEF SameElection
<1> HIDE DEF e
<1>2. Good(e)
  BY <1>1 DEF Good, GoodBut, OnePrimary, Newest, SameElection
<1>3. Forward(c, e, m)
  BY <1>1, SameIsForward
<1>4. NothingAdded(c, e)
  BY <1>1 DEF NothingAdded
<1> QED BY <1>1, <1>2, <1>3, <1>4 DEF Handled, e

\* The reply of a primary.
LEMMA UpdateRsFromPrimaryHandled ==
  ASSUME NEW c \in Descr, NEW id \in DOMAIN c.servers, NEW h, NEW m \in BOOLEAN, Hi(h, m),
         SetGood(c, {id}), c.servers[id].type = "RSPrimary",
         h.type = "RSPrimary", c.servers[id].modern = h.modern,
         c.servers[id].election_id = h.election_id,
         c.servers[id].set_version = h.set_version
  PROVE  Handled(c, UpdateRsFromPrimary(c, id, h), m)
<1> DEFINE n == Named(c, h)
           r == RememberElection(n, h)
           e == InvalidateOtherPrimaries(r, id)
           a == AddServers(e, h.hosts)
           u == RemoveUnreported(a, h.hosts)
<1>0. h.hosts \in SUBSET Addresses /\ h.set_name \in {None} \cup SetNames
  BY DEF Hi
<1>1. /\ From(c, n) /\ n.servers = c.servers /\ n.type = c.type /\ SameElection(c, n)
      /\ n \in Descr
  BY <1>0, NamedFrom, FromDescr DEF SameElection
<1>2. UpdateRsFromPrimary(c, id, h) =
        IF n.set_name # h.set_name THEN UpdateRsType(RemoveServers(c, {id}))
        ELSE IF Stale(n, h) THEN UpdateRsType(Invalidate(n, id))
        ELSE UpdateRsType(u)
  BY DEF UpdateRsFromPrimary
<1> HIDE DEF n
<1>3. CASE n.set_name # h.set_name
  <2> DEFINE x == RemoveServers(c, {id})
  <2>1. From(c, x) /\ SameElection(c, x) /\ id \notin DOMAIN x.servers
    BY RemoveServersFrom DEF SameElection
  <2> HIDE DEF x
  <2>2. Handled(c, UpdateRsType(x), m)
    BY <2>1, ThenUpdateRsType
  <2> QED BY <1>2, <1>3, <2>2 DEF x
<1>4. CASE n.set_name = h.set_name /\ Stale(n, h)
  <2> DEFINE x == Invalidate(n, id)
  <2>1. /\ From(n, x) /\ SameElection(n, x)
        /\ id \in DOMAIN x.servers => x.servers[id].type = "Unknown"
    BY <1>1, InvalidateFrom
  <2> HIDE DEF x
  <2>2. From(c, x) /\ SameElection(c, x)
    BY <1>1, <2>1, FromTransitive DEF SameElection
  <2>3. Handled(c, UpdateRsType(x), m)
    BY <2>1, <2>2, ThenUpdateRsType
  <2> QED BY <1>2, <1>4, <2>3 DEF x
<1>5. CASE n.set_name = h.set_name /\ ~Stale(n, h)
  <2>1. /\ From(n, r) /\ r.servers = n.servers /\ Forward(n, r, m) /\ r \in Descr
        /\ h.modern \/ HasElection(h) =>
             r.max_election_id = h.election_id /\ r.max_set_version = h.set_version
    BY <1>1, <1>5, RememberElectionForward, FromDescr
  <2>2. From(c, r)
    BY <1>1, <2>1, FromTransitive
  <2> HIDE DEF r
  <2>3. /\ From(r, e) /\ SameElection(r, e) /\ e \in Descr
        /\ \A i \in DOMAIN e.servers : e.servers[i].type = "RSPrimary" => i = id
    BY <2>1, InvalidateOtherPrimariesFrom, FromDescr DEF SameElection
  <2>4. From(c, e)
    BY <2>1, <2>2, <2>3, FromTransitive
  <2> HIDE DEF e
  <2>5. SetGood(e, {})
    <3>1. ASSUME NEW i \in DOMAIN e.servers
          PROVE  \/ e.servers[i].type \in {"Unknown", "PossiblePrimary"}
                 \/ /\ i \in DOMAIN c.servers
                    /\ e.servers[i].type = c.servers[i].type
                    /\ e.servers[i].modern = c.servers[i].modern
                    /\ e.servers[i].election_id = c.servers[i].election_id
                    /\ e.servers[i].set_version = c.servers[i].set_version
      BY <2>4 DEF From, Kept
    <3>2. ASSUME NEW i \in DOMAIN e.servers
          PROVE  e.servers[i].type \notin {"Mongos", "Standalone"}
      BY <3>1 DEF SetGood
    <3>3. ASSUME NEW i \in DOMAIN e.servers PROVE Newest(e, e.servers[i])
      <4>1. SUFFICES ASSUME e.servers[i].type = "RSPrimary",
                            e.servers[i].modern \/ HasElection(e.servers[i])
                     PROVE  /\ e.servers[i].election_id = e.max_election_id
                            /\ e.servers[i].set_version = e.max_set_version
        BY DEF Newest
      <4>2. i = id
        BY <2>3, <4>1
      <4>3. /\ e.servers[i].election_id = h.election_id
            /\ e.servers[i].set_version = h.set_version
            /\ e.servers[i].modern = h.modern
        BY <3>1, <4>1, <4>2
      <4>4. h.modern \/ HasElection(h)
        BY <4>1, <4>3 DEF HasElection
      <4> QED BY <2>1, <2>3, <4>3, <4>4 DEF SameElection
    <3>4. OnePrimary(e, {})
      BY <2>3 DEF OnePrimary
    <3> QED BY <3>2, <3>3, <3>4 DEF SetGood
  <2>6. From(e, a) /\ SameElection(e, a) /\ a \in Descr
    BY <1>0, <2>3, AddServersFrom, FromDescr DEF SameElection
  <2> HIDE DEF a
  <2>7. From(a, u) /\ SameElection(a, u)
    BY <2>6, RemoveServersFrom DEF RemoveUnreported, SameElection
  <2> HIDE DEF u
  <2>8. From(e, u) /\ SameElection(e, u)
    BY <2>3, <2>6, <2>7, FromTransitive DEF SameElection
  <2>9. Handled(e, UpdateRsType(u), m)
    BY <2>3, <2>5, <2>8, ThenUpdateRsType
  <2>10. From(c, UpdateRsType(u)) /\ Good(UpdateRsType(u))
    BY <2>3, <2>4, <2>9, FromTransitive DEF Handled
  <2>11. SameElection(u, UpdateRsType(u))
    <3>1. u \in Descr
      BY <2>8, FromDescr
    <3> QED BY <3>1, UpdateRsTypeFrom DEF SameElection
  <2>12. Forward(c, UpdateRsType(u), m)
    BY <1>1, <2>1, <2>3, <2>8, <2>11 DEF Forward, SameElection
  <2>13. NothingAdded(c, UpdateRsType(u))
    <3>1. u \in Descr
      BY <2>8, FromDescr
    <3> QED BY <3>1, UpdateRsTypeFrom, OtherTypeAddsNothing DEF Eligible
  <2> QED BY <1>2, <1>5, <2>10, <2>12, <2>13 DEF Handled
<1> QED BY <1>3, <1>4, <1>5

(* Changes of a replica set without a primary leave it one without.        *)
LEMMA NoPrimaryHandled ==
  ASSUME NEW m \in BOOLEAN, NEW c \in Descr, NEW e, From(c, e), SetGood(c, {}), SameElection(c, e),
         e.type = "RSNoPrimary",
         \A i \in DOMAIN c.servers : c.servers[i].type # "RSPrimary"
  PROVE  Handled(c, e, m)
<1>1. SetGood(e, {})
  BY SetGoodFrom
<1>2. \A i \in DOMAIN e.servers : e.servers[i].type # "RSPrimary"
  BY DEF From, Kept
<1>3. Good(e)
  BY <1>1, <1>2, NoPrimaryGood
<1>4. Forward(c, e, m)
  BY SameIsForward
<1> QED BY <1>3, <1>4, OtherTypeAddsNothing DEF Handled, Eligible

\* The reply of another member while no primary is known.
LEMMA UpdateRsWithoutPrimaryHandled ==
  ASSUME NEW m \in BOOLEAN, NEW c \in Descr, NEW id, NEW h, Hi(h, m), c.type = "RSNoPrimary", SetGood(c, {}),
         \A i \in DOMAIN c.servers : c.servers[i].type # "RSPrimary"
  PROVE  Handled(c, UpdateRsWithoutPrimary(c, id, h), m)
<1> DEFINE n == Named(c, h)
           e == AddServers(n, h.hosts)
           l == LabelPossiblePrimary(e, h.primary)
           f == IF h.primary = None THEN e ELSE l
           g == RemoveServers(f, {id})
<1>0. h.hosts \in SUBSET Addresses /\ h.set_name \in {None} \cup SetNames
  BY DEF Hi
<1>1. From(c, n) /\ n.type = c.type /\ SameElection(c, n) /\ n \in Descr
  BY <1>0, NamedFrom, FromDescr DEF SameElection
<1>2. UpdateRsWithoutPrimary(c, id, h) =
        IF n.set_name # h.set_name THEN RemoveServers(c, {id})
        ELSE IF ~h.matches_me THEN g ELSE f
  BY DEF UpdateRsWithoutPrimary
<1> HIDE DEF n
<1>3. From(c, e) /\ e.type = c.type /\ SameElection(c, e) /\ e \in Descr
  <2>1. From(n, e) /\ e.type = n.type /\ SameElection(n, e) /\ e \in Descr
    BY <1>0, <1>1, AddServersFrom, FromDescr DEF SameElection
  <2> HIDE DEF e
  <2> QED BY <1>1, <2>1, FromTransitive DEF SameElection
<1> HIDE DEF e
<1>4. From(c, l) /\ l.type = c.type /\ SameElection(c, l)
  <2>1. From(e, l) /\ l.type = e.type /\ SameElection(e, l)
    BY <1>3, LabelPossiblePrimaryFrom DEF SameElection
  <2> HIDE DEF l
  <2> QED BY <1>3, <2>1, FromTransitive DEF SameElection
<1> HIDE DEF l
<1>5. From(c, f) /\ f.type = c.type /\ SameElection(c, f) /\ f \in Descr
  BY <1>3, <1>4, FromDescr
<1> HIDE DEF f
<1>6. From(c, g) /\ g.type = c.type /\ SameElection(c, g)
  <2>1. From(f, g) /\ g.type = f.type /\ SameElection(f, g)
    BY <1>5, RemoveServersFrom DEF SameElection
  <2> HIDE DEF g
  <2> QED BY <1>5, <2>1, FromTransitive DEF SameElection
<1> HIDE DEF g
<1>7. /\ From(c, RemoveServers(c, {id})) /\ RemoveServers(c, {id}).type = c.type
      /\ SameElection(c, RemoveServers(c, {id}))
  BY RemoveServersFrom DEF SameElection
<1> QED BY <1>2, <1>5, <1>6, <1>7, NoPrimaryHandled

\* The reply of another member while a primary is known.
LEMMA UpdateRsWithPrimaryFromMemberHandled ==
  ASSUME NEW m \in BOOLEAN, NEW c \in Descr, NEW id, NEW h, c.type = "RSWithPrimary", SetGood(c, {})
  PROVE  Handled(c, UpdateRsWithPrimaryFromMember(c, id, h), m)
<1> DEFINE x == RemoveServers(c, {id})
           b == [c EXCEPT !.type = "RSNoPrimary"]
           l == LabelPossiblePrimary(b, h.primary)
<1>1. UpdateRsWithPrimaryFromMember(c, id, h) =
        IF c.set_name # h.set_name THEN UpdateRsType(x)
        ELSE IF ~h.matches_me THEN x
        ELSE IF ~HasPrimary(c) /\ h.primary # None THEN l ELSE c
  BY DEF UpdateRsWithPrimaryFromMember
<1>2. From(c, x) /\ SameElection(c, x) /\ x.type = c.type
  BY RemoveServersFrom DEF SameElection
<1>3. From(c, b) /\ SameElection(c, b) /\ b.type = "RSNoPrimary" /\ b \in Descr
  BY TypeFrom, FromDescr DEF SameElection, TopologyTypes
<1> HIDE DEF x, b
<1>4. From(c, l) /\ SameElection(c, l) /\ l.type = "RSNoPrimary"
  <2>1. From(b, l) /\ l.type = b.type /\ SameElection(b, l)
    BY <1>3, LabelPossiblePrimaryFrom DEF SameElection
  <2> HIDE DEF l
  <2> QED BY <1>3, <2>1, FromTransitive DEF SameElection
<1> HIDE DEF l
<1>5. Handled(c, UpdateRsType(x), m)
  BY <1>2, ThenUpdateRsType
<1>6. Handled(c, x, m)
  <2>1. SetGood(x, {})
    BY <1>2, SetGoodFrom
  <2> QED BY <1>2, <2>1, WithPrimaryGood, SameIsForward, OtherTypeAddsNothing
       DEF Handled, Eligible
<1>7. ~HasPrimary(c) => Handled(c, l, m)
  BY <1>4, NoPrimaryHandled DEF HasPrimary
<1>8. Handled(c, c, m)
  BY WithPrimaryGood, SameIsForward, OtherFieldsFrom, SameAddsNothing
     DEF Handled, SameElection
<1> QED BY <1>1, <1>5, <1>6, <1>7, <1>8

\* Every handler of the transition table keeps a good description good.
LEMMA TransitionHandled ==
  ASSUME NEW c \in Descr, NEW id \in DOMAIN c.servers, NEW h, NEW m \in BOOLEAN, Hi(h, m),
         c.type # "Single", GoodBut(c, {id}), c.servers[id].type = h.type,
         c.servers[id].modern = h.modern,
         c.servers[id].election_id = h.election_id,
         c.servers[id].set_version = h.set_version
  PROVE  Handled(c, Transition(c, id, h), m)
<1> DEFINE e == Transition(c, id, h)
           s == c.servers[id].type
<1>0. /\ c.type \in {"Unknown", "Sharded", "RSNoPrimary", "RSWithPrimary"}
      /\ s \in {"Standalone", "Mongos", "RSGhost", "RSPrimary"} \cup MemberAll
  BY DEF Descr, TopologyTypes, Hi
<1>1. ASSUME Fits(c.type, s), s # "RSPrimary"
      PROVE  Good(c) /\ Handled(c, c, m)
  <2>1. Good(c)
    BY <1>1 DEF Good, GoodBut, OnePrimary, Newest
  <2> QED BY <2>1, SameIsForward, OtherFieldsFrom, SameAddsNothing
      DEF Handled, SameElection
<1>2. Handled(c, RemoveServers(c, {id}), m)
  BY RemovedGood
<1>3. CASE c.type = "Unknown"
  <2>1. CASE s = "Standalone"
    <3> DEFINE x == [c EXCEPT !.type = "Single"]
    <3>1. From(c, x) /\ SameElection(c, x) /\ x.type = "Single"
      BY TypeFrom DEF SameElection, TopologyTypes
    <3>2. e = RemoveServers(c, {id}) \/ e = x
      BY <1>3, <2>1 DEF Transition, UpdateUnknownWithStandalone, MemberAll
    <3> HIDE DEF x, e
    <3>3. Handled(c, x, m)
      BY <3>1, SameIsForward, OtherTypeAddsNothing DEF Handled, Good, Eligible
    <3> QED BY <1>2, <3>2, <3>3 DEF e
  <2>2. CASE s = "Mongos"
    <3> DEFINE x == [c EXCEPT !.type = "Sharded"]
    <3>1. From(c, x) /\ SameElection(c, x) /\ x.type = "Sharded" /\ x.servers = c.servers
      BY TypeFrom DEF SameElection, TopologyTypes
    <3>2. e = x
      BY <1>3, <2>2 DEF Transition, MemberAll
    <3> HIDE DEF x, e
    <3>3. ASSUME NEW i \in DOMAIN c.servers
          PROVE  Fits("Sharded", c.servers[i].type) /\ c.servers[i].type # "RSPrimary"
      BY <1>3, <2>2 DEF GoodBut, Fits
    <3>4. Good(x)
      BY <3>1, <3>3 DEF Good, GoodBut, OnePrimary, Newest
    <3>5. NothingAdded(c, x)
      BY <1>3, <3>1 DEF NothingAdded, Eligible
    <3> QED BY <3>1, <3>2, <3>4, <3>5, SameIsForward DEF Handled, e
  <2>3. CASE s = "RSPrimary"
    <3>1. e = UpdateRsFromPrimary(c, id, h)
      BY <1>3, <2>3 DEF Transition, MemberAll
    <3> QED BY <1>3, <2>3, <3>1, GoodIsSetGood, UpdateRsFromPrimaryHandled
  <2>4. CASE s \in MemberAll
    <3> DEFINE x == [c EXCEPT !.type = "RSNoPrimary"]
    <3>1. /\ From(c, x) /\ SameElection(c, x) /\ x.type = "RSNoPrimary"
          /\ x.servers = c.servers /\ x \in Descr
      BY TypeFrom, FromDescr DEF SameElection, TopologyTypes
    <3>2. e = UpdateRsWithoutPrimary(x, id, h)
      BY <1>3, <2>4 DEF Transition, MemberAll
    <3> HIDE DEF x, e
    <3>3. ASSUME NEW i \in DOMAIN c.servers
          PROVE  c.servers[i].type \notin {"RSPrimary", "Mongos", "Standalone"}
      BY <1>3, <2>4 DEF GoodBut, Fits, MemberAll
    <3>4. SetGood(x, {})
      BY <3>1, <3>3 DEF SetGood, OnePrimary, Newest
    <3>5. Handled(x, e, m)
      BY <3>1, <3>2, <3>3, <3>4, UpdateRsWithoutPrimaryHandled
    <3>6. From(c, e)
      BY <3>1, <3>5, FromTransitive DEF Handled
    <3>7. Forward(c, e, m)
      BY <3>1, <3>5 DEF Handled, Forward, SameElection
    <3>8. NothingAdded(c, e)
      BY <3>1, <3>5 DEF Handled, NothingAdded, Eligible
    <3> QED BY <3>5, <3>6, <3>7, <3>8 DEF Handled, e
  <2>5. CASE s = "RSGhost"
    <3>1. e = c
      BY <1>3, <2>5 DEF Transition, MemberAll
    <3> QED BY <1>1, <1>3, <2>5, <3>1 DEF Fits
  <2> QED BY <1>0, <2>1, <2>2, <2>3, <2>4, <2>5
<1>4. CASE c.type = "Sharded"
  <2>1. CASE s = "Mongos"
    <3>1. e = c
      BY <1>4, <2>1 DEF Transition, MemberAll
    <3> QED BY <1>1, <1>4, <2>1, <3>1 DEF Fits
  <2>2. CASE s # "Mongos"
    <3>1. e = RemoveServers(c, {id})
      BY <1>0, <1>4, <2>2 DEF Transition, MemberAll
    <3> QED BY <1>2, <3>1
  <2> QED BY <2>1, <2>2
<1>5. CASE c.type = "RSNoPrimary"
  <2>1. CASE s \in {"Standalone", "Mongos"}
    <3>1. e = RemoveServers(c, {id})
      BY <1>5, <2>1 DEF Transition, MemberAll
    <3> QED BY <1>2, <3>1
  <2>2. CASE s = "RSPrimary"
    <3>1. e = UpdateRsFromPrimary(c, id, h)
      BY <1>5, <2>2 DEF Transition, MemberAll
    <3> QED BY <1>5, <2>2, <3>1, GoodIsSetGood, UpdateRsFromPrimaryHandled
  <2>3. CASE s \in MemberAll
    <3>1. e = UpdateRsWithoutPrimary(c, id, h)
      BY <1>5, <2>3 DEF Transition, MemberAll
    <3>2. Fits(c.type, s) /\ s # "RSPrimary"
      BY <1>5, <2>3 DEF Fits, MemberAll
    <3>3. GoodBut(c, {})
      BY <1>1, <3>2 DEF Good
    <3>4. \A i \in DOMAIN c.servers : c.servers[i].type # "RSPrimary"
      BY <1>5, <3>3 DEF GoodBut, Fits
    <3>5. SetGood(c, {})
      BY <1>5, <3>3, GoodIsSetGood
    <3> QED BY <1>5, <3>1, <3>4, <3>5, UpdateRsWithoutPrimaryHandled
  <2>4. CASE s = "RSGhost"
    <3>1. e = c
      BY <1>5, <2>4 DEF Transition, MemberAll
    <3> QED BY <1>1, <1>5, <2>4, <3>1 DEF Fits
  <2> QED BY <1>0, <2>1, <2>2, <2>3, <2>4
<1>6. CASE c.type = "RSWithPrimary"
  <2>0. SetGood(c, {id})
    BY <1>6, GoodIsSetGood
  <2>1. CASE s \in {"Standalone", "Mongos"}
    <3> DEFINE x == RemoveServers(c, {id})
    <3>1. e = UpdateRsType(x)
      BY <1>6, <2>1 DEF Transition, MemberAll
    <3>2. From(c, x) /\ SameElection(c, x) /\ id \notin DOMAIN x.servers
      BY RemoveServersFrom DEF SameElection
    <3> HIDE DEF x, e
    <3>3. Handled(c, UpdateRsType(x), m)
      BY <2>0, <3>2, ThenUpdateRsType
    <3> QED BY <3>1, <3>3 DEF e
  <2>2. CASE s = "RSPrimary"
    <3>1. e = UpdateRsFromPrimary(c, id, h)
      BY <1>6, <2>2 DEF Transition, MemberAll
    <3> QED BY <2>0, <2>2, <3>1, UpdateRsFromPrimaryHandled
  <2>3. CASE s \in MemberAll \cup {"RSGhost"}
    <3>1. Fits(c.type, s) /\ s # "RSPrimary"
      BY <1>6, <2>3 DEF Fits, MemberAll
    <3>2. SetGood(c, {})
      BY <1>1, <1>6, <3>1, GoodIsSetGood DEF Good
    <3>3. CASE s \in MemberAll
      <4>1. e = UpdateRsWithPrimaryFromMember(c, id, h)
        BY <1>6, <3>3 DEF Transition, MemberAll
      <4> QED BY <1>6, <3>2, <4>1, UpdateRsWithPrimaryFromMemberHandled
    <3>4. CASE s = "RSGhost"
      <4>1. e = UpdateRsType(c)
        BY <1>6, <3>4 DEF Transition, MemberAll
      <4>2. From(c, c) /\ SameElection(c, c)
        BY OtherFieldsFrom DEF SameElection
      <4>3. Handled(c, UpdateRsType(c), m)
        BY <3>2, <4>2, ThenUpdateRsType
      <4> QED BY <4>1, <4>3
    <3> QED BY <2>3, <3>3, <3>4
  <2> QED BY <1>0, <2>1, <2>2, <2>3
<1> QED BY <1>0, <1>3, <1>4, <1>5, <1>6

(* What a step may do to a description: From without the server whose      *)
(* reply is handled being Kept.                                            *)
Moved(d, e, m) ==
  /\ e \in Descr
  /\ e.max_server_id >= d.max_server_id
  /\ \A i \in DOMAIN e.servers : i \in DOMAIN d.servers \/ i > d.max_server_id
  /\ IdsOK(d) => IdsOK(e)
  /\ Good(e)
  /\ Forward(d, e, m)

\* Changes that keep the description good are such a move.
LEMMA FromIsMoved ==
  ASSUME NEW m \in BOOLEAN, NEW d, NEW e, From(d, e), Good(e), Forward(d, e, m)
  PROVE  Moved(d, e, m)
  BY DEF From, Moved

\* So is what a handler does.
LEMMA HandledIsMoved ==
  ASSUME NEW m \in BOOLEAN, NEW d, NEW e, Handled(d, e, m)
  PROVE  Moved(d, e, m)
  BY FromIsMoved DEF Handled

\* A reply changes what is known of one server first.
LEMMA WithServer ==
  ASSUME NEW d \in Descr, NEW id \in DOMAIN d.servers, NEW x \in ServerRec,
         x.address = d.servers[id].address
  PROVE  LET c == [d EXCEPT !.servers[id] = x]
         IN  /\ c \in Descr /\ c.type = d.type /\ SameElection(d, c)
             /\ c.max_server_id = d.max_server_id
             /\ DOMAIN c.servers = DOMAIN d.servers
             /\ c.servers[id] = x
             /\ \A i \in DOMAIN d.servers : i # id => c.servers[i] = d.servers[i]
             /\ IdsOK(d) => IdsOK(c)
<1> DEFINE f == [d.servers EXCEPT ![id] = x]
           c == [d EXCEPT !.servers = f]
<1>1. /\ f \in [DOMAIN d.servers -> ServerRec] /\ f[id] = x
      /\ \A i \in DOMAIN d.servers : i # id => f[i] = d.servers[i]
  BY ServersOf
<1>2. [d EXCEPT !.servers[id] = x] = c
  OBVIOUS
<1> HIDE DEF f
<1>3. DOMAIN d.servers \in SUBSET Nat
  BY ServersOf
<1>4. /\ c \in Descr /\ c.type = d.type /\ SameElection(d, c)
      /\ c.max_server_id = d.max_server_id
      /\ c.servers = f /\ DOMAIN c.servers = DOMAIN d.servers
  BY <1>1, <1>3, WithServers DEF SameElection
<1> HIDE DEF c
<1>5. IdsOK(d) => IdsOK(c)
  BY <1>1, <1>4 DEF IdsOK
<1> QED BY <1>1, <1>2, <1>4, <1>5

\* A hello reply, of whichever server and in whichever order it arrives.
LEMMA HandleHelloMoves ==
  ASSUME NEW d \in Descr, NEW id, NEW h, NEW m \in BOOLEAN, Hi(h, m), Good(d)
  PROVE  Moved(d, HandleHello(d, id, h), m) /\ NothingAdded(d, HandleHello(d, id, h))
<1>1. CASE id \notin DOMAIN d.servers
  <2>1. HandleHello(d, id, h) = d
    BY <1>1 DEF HandleHello
  <2>2. From(d, d) /\ Forward(d, d, m)
    BY OtherFieldsFrom, SameIsForward DEF SameElection
  <2> QED BY <2>1, <2>2, FromIsMoved, SameAddsNothing
<1>2. CASE id \in DOMAIN d.servers
  <2> DEFINE l == Learn(d.servers[id], h)
             wrong == d.set_name # None /\ d.type = "Single" /\ h.set_name # d.set_name
             x == IF wrong THEN Reset(l) ELSE l
             c == [d EXCEPT !.servers[id] = x]
             e == Transition(c, id, h)
  <2>1. d.servers[id] \in ServerRec
    BY <1>2, ServersOf
  <2>2. /\ l \in ServerRec /\ l.address = d.servers[id].address /\ l.type = h.type
        /\ l.modern = h.modern
        /\ l.election_id = h.election_id /\ l.set_version = h.set_version
    <3>1. /\ h.type \in ServerTypes /\ h.set_version \in Int /\ h.election_id \in Int
          /\ h.topology_version = NoTopologyVersion /\ h.modern \in BOOLEAN
      BY DEF Hi, ServerTypes, MemberAll
    <3> QED BY <2>1, <3>1 DEF Learn, ServerRec
  <2>3. HandleHello(d, id, h) = e
    <3>1. ~VersionLater(d.servers[id].topology_version, h.topology_version)
      BY DEF VersionLater, Hi
    <3> QED BY <1>2, <3>1 DEF HandleHello
  <2> HIDE DEF l
  <2>4. x \in ServerRec /\ x.address = d.servers[id].address
    BY <2>2, ResetKept DEF Kept
  <2>5. d.type # "Single" => x = l
    OBVIOUS
  <2> HIDE DEF x
  <2>6. /\ c \in Descr /\ c.type = d.type /\ SameElection(d, c)
        /\ c.max_server_id = d.max_server_id
        /\ DOMAIN c.servers = DOMAIN d.servers
        /\ c.servers[id] = x
        /\ \A i \in DOMAIN d.servers : i # id => c.servers[i] = d.servers[i]
        /\ IdsOK(d) => IdsOK(c)
    BY <1>2, <2>4, WithServer
  <2> HIDE DEF c
  <2>7. Handled(c, e, m)
    <3>1. CASE c.type = "Single"
      <4>1. e = c
        BY <3>1 DEF Transition
      <4>2. Handled(c, c, m)
        BY <2>6, <3>1, OtherFieldsFrom, SameIsForward, SameAddsNothing
           DEF Handled, Good, SameElection
      <4> QED BY <4>1, <4>2
    <3>2. CASE c.type # "Single"
      <4>1. GoodBut(c, {id})
        BY <2>6, <3>2 DEF Good, GoodBut, OnePrimary, Newest, SameElection
      <4>2. /\ c.servers[id].type = h.type /\ c.servers[id].modern = h.modern
            /\ c.servers[id].election_id = h.election_id
            /\ c.servers[id].set_version = h.set_version
        BY <2>2, <2>5, <2>6, <3>2
      <4>3. id \in DOMAIN c.servers
        BY <1>2, <2>6
      <4> QED BY <2>6, <3>2, <4>1, <4>2, <4>3, TransitionHandled
    <3> QED BY <3>1, <3>2
  <2> HIDE DEF e
  <2>8. Moved(c, e, m)
    BY <2>7, HandledIsMoved
  <2>9. NothingAdded(d, e)
    BY <2>6, <2>7 DEF Handled, NothingAdded
  <2>10. Moved(d, e, m)
    BY <2>6, <2>8 DEF Moved, Forward, SameElection
  <2> QED BY <2>3, <2>9, <2>10
<1> QED BY <1>1, <1>2

\* A DNS answer, whatever the description has become since the query.
LEMMA ReconcileMoves ==
  ASSUME NEW m \in BOOLEAN, NEW d \in Descr, NEW hosts, NEW N \in SUBSET Addresses, Good(d)
  PROVE  Moved(d, Reconcile(d, hosts, N), m)
<1> DEFINE a == AddServers(d, N)
           M == Missing(d, hosts)
           e == RemoveServers(a, M)
<1>1. /\ From(d, a) /\ a.type = d.type /\ SameElection(d, a) /\ a \in Descr
      /\ \A i \in DOMAIN a.servers :
           \/ i \in DOMAIN d.servers /\ a.servers[i] = d.servers[i]
           \/ a.servers[i].type = "Unknown"
  BY AddServersFrom, FromDescr DEF SameElection
<1>2. Reconcile(d, hosts, N) = e
  BY DEF Reconcile
<1> HIDE DEF a, M
<1>3. /\ From(a, e) /\ e.type = a.type /\ SameElection(a, e)
      /\ DOMAIN e.servers \subseteq DOMAIN a.servers
      /\ \A i \in DOMAIN e.servers : e.servers[i] = a.servers[i]
  BY <1>1, RemoveServersFrom DEF SameElection
<1> HIDE DEF e
<1>4. From(d, e) /\ SameElection(d, e)
  BY <1>1, <1>3, FromTransitive DEF SameElection
<1>5. ASSUME d.type # "Single" PROVE GoodBut(e, {})
  <2>1. Fits(e.type, "Unknown")
    <3>1. d.type \in TopologyTypes
      BY DEF Descr
    <3> QED BY <1>1, <1>3, <3>1 DEF Fits, TopologyTypes
  <2>2. ASSUME NEW i \in DOMAIN e.servers
        PROVE  \/ i \in DOMAIN d.servers /\ e.servers[i] = d.servers[i]
               \/ e.servers[i].type = "Unknown"
    BY <1>1, <1>3
  <2>3. ASSUME NEW i \in DOMAIN e.servers
        PROVE  Fits(e.type, e.servers[i].type) /\ Newest(e, e.servers[i])
    BY <1>1, <1>3, <1>4, <1>5, <2>1, <2>2 DEF Good, GoodBut, Newest, SameElection
  <2>4. OnePrimary(e, {})
    BY <1>5, <2>2 DEF Good, GoodBut, OnePrimary
  <2> QED BY <2>3, <2>4 DEF GoodBut
<1>6. Good(e)
  BY <1>1, <1>3, <1>5 DEF Good
<1>7. Forward(d, e, m)
  BY <1>4, SameIsForward
<1> QED BY <1>2, <1>4, <1>6, <1>7, FromIsMoved

-----------------------------------------------------------------------------
(* The specification.                                                      *)

Inv == td \in Descr /\ IdsOK(td) /\ Good(td)

\* The description made from the URI is good.
LEMMA InitInv == Init => Inv
<1> SUFFICES ASSUME Init PROVE Inv
  OBVIOUS
<1>1. PICK hosts \in (SUBSET Seeds) \ {{}}, name \in {None} \cup SetNames,
           type \in {"Unknown", "RSNoPrimary", "Single"} :
             td = AddServers(Blank(type, name), hosts)
  BY DEF Init
<1> DEFINE b == Blank(type, name)
<1>2. /\ b \in Descr /\ DOMAIN b.servers = {} /\ b.type = type
  <2>1. [i \in {} |-> 0] \in [{} -> ServerRec] /\ {} \in SUBSET Nat
    OBVIOUS
  <2>2. type \in TopologyTypes /\ NoSetVersion \in Int /\ NoElectionId \in Int
    BY DEF TopologyTypes, NoSetVersion, NoElectionId
  <2> QED BY <2>1, <2>2 DEF Blank, Descr
<1> HIDE DEF b
<1>3. hosts \in SUBSET Addresses
  BY DescriptionAssumption
<1>4. /\ From(b, td) /\ td.type = b.type
      /\ \A i \in DOMAIN td.servers : td.servers[i].type = "Unknown"
  BY <1>1, <1>2, <1>3, AddServersFrom DEF b
<1>5. td \in Descr /\ IdsOK(td)
  BY <1>2, <1>4 DEF From, IdsOK
<1>6. Good(td)
  BY <1>2, <1>4 DEF Good, GoodBut, Fits, Newest, OnePrimary
<1> QED BY <1>5, <1>6 DEF Inv

\* A reply is a move by the rule its server follows, if it is a primary.
LEMMA HelloMoves ==
  ASSUME Inv, NEW m \in BOOLEAN, NEW id, NEW H \in SUBSET Hellos, Hello(id, H),
         \A h \in H : h.type = "RSPrimary" => h.modern = m
  PROVE  Moved(td, td', m) /\ NothingAdded(td, td')
<1>1. PICK h \in H : td' = HandleHello(td, id, h)
  BY DEF Hello
<1>2. h \in Hellos
  OBVIOUS
<1>3. Hi(h, m)
  <2>1. Hi(h, h.modern)
    BY <1>2, HellosHi
  <2> QED BY <2>1 DEF Hi
<1> QED BY <1>1, <1>3, HandleHelloMoves DEF Inv

\* Whatever else happens is a move by either rule.
LEMMA OtherMoves ==
  ASSUME Inv, NEW m \in BOOLEAN,
         (\E id : NetworkError(id)) \/ SrvPolling \/ UNCHANGED vars
  PROVE  Moved(td, td', m)
<1>1. td \in Descr /\ Good(td)
  BY DEF Inv
<1>2. ASSUME NEW e, e = td PROVE Moved(td, e, m)
  <2>1. From(td, td) /\ Forward(td, td, m)
    BY <1>1, OtherFieldsFrom, SameIsForward DEF SameElection
  <2> QED BY <1>1, <1>2, <2>1, FromIsMoved
<1>3. ASSUME NEW id, NetworkError(id) PROVE Moved(td, td', m)
  <2>1. /\ From(td, Invalidate(td, id)) /\ Good(Invalidate(td, id))
        /\ SameElection(td, Invalidate(td, id))
    BY <1>1, InvalidateGood
  <2>2. Moved(td, Invalidate(td, id), m)
    BY <1>1, <2>1, SameIsForward, FromIsMoved
  <2> QED BY <1>3, <2>2 DEF NetworkError
<1>4. CASE SrvAnswer
  <2>0. PICK hosts \in (SUBSET Addresses) \ {{}} :
          \E N \in Draws(td, hosts) : td' = Reconcile(td, hosts, N) \/ td' = td
    BY <1>4 DEF SrvAnswer
  <2>1. PICK N \in Draws(td, hosts) : td' = Reconcile(td, hosts, N) \/ td' = td
    BY <2>0
  <2>2. N \in SUBSET Addresses
    BY <2>0, <2>1 DEF Draws
  <2>3. Moved(td, Reconcile(td, hosts, N), m)
    BY <1>1, <2>2, ReconcileMoves
  <2> QED BY <1>2, <2>1, <2>3
<1>5. CASE SrvCheck \/ SrvStart \/ SrvFails \/ UNCHANGED vars
  BY <1>2, <1>5 DEF SrvCheck, SrvStart, SrvFails, vars
<1> QED BY <1>3, <1>4, <1>5 DEF SrvPolling

\* Every step is a move by one of the rules.
LEMMA NextMoves ==
  ASSUME Inv, [Next]_vars
  PROVE  \E m \in BOOLEAN : Moved(td, td', m)
<1>1. ASSUME NEW id \in ServerIds, Hello(id, Hellos)
      PROVE  \E m \in BOOLEAN : Moved(td, td', m)
  <2>1. PICK h \in Hellos : Hello(id, {h})
    BY <1>1 DEF Hello
  <2>2. h.modern \in BOOLEAN
    BY HellosHi DEF Hi
  <2>3. \A g \in {h} : g.type = "RSPrimary" => g.modern = h.modern
    OBVIOUS
  <2>4. Moved(td, td', h.modern)
    BY <2>1, <2>2, <2>3, HelloMoves
  <2> QED BY <2>2, <2>4
<1>2. ASSUME (\E id : NetworkError(id)) \/ SrvPolling \/ UNCHANGED vars
      PROVE  \E m \in BOOLEAN : Moved(td, td', m)
  <2>1. ASSUME NEW m \in BOOLEAN PROVE Moved(td, td', m)
    BY <1>2, <2>1, OtherMoves
  <2> QED BY <2>1
<1> QED BY <1>1, <1>2 DEF Next

\* A move keeps the invariant, whichever rule it follows.
LEMMA MovedInv ==
  ASSUME Inv, NEW m \in BOOLEAN, Moved(td, td', m)
  PROVE  Inv'
  BY DEF Inv, Moved, Good, GoodBut, OnePrimary, Newest

\* So every step keeps the invariant.
LEMMA NextInv ==
  ASSUME Inv, [Next]_vars
  PROVE  Inv'
  BY NextMoves, MovedInv

\* The invariant holds throughout.
LEMMA SpecInv == Spec => []Inv
  BY InitInv, NextInv, PTL DEF Spec

(* Whatever servers claim and in whatever order their replies arrive       *)
(* (mongoc_topology_description_handle_hello), the client never believes   *)
(* in two primaries.                                                       *)
THEOREM OnePrimaryAlways == Spec => []AtMostOnePrimary
<1>1. Inv => AtMostOnePrimary
  BY DEF Inv, Good, GoodBut, OnePrimary, AtMostOnePrimary
<1> QED BY <1>1, SpecInv, PTL

(* The type of the deployment and those of its servers always agree, DNS   *)
(* answers and errors included.                                            *)
THEOREM TypesAlwaysAgree == Spec => []TypesAgree
<1>1. Inv => TypesAgree
  <2> SUFFICES ASSUME Inv, NEW i \in DOMAIN td.servers
               PROVE  Fits(td.type, td.servers[i].type)
    BY DEF TypesAgree, Fits
  <2>1. CASE td.type = "Single"
    BY <2>1 DEF Fits
  <2>2. CASE td.type # "Single"
    BY <2>2 DEF Inv, Good, GoodBut
  <2> QED BY <2>1, <2>2
<1> QED BY <1>1, SpecInv, PTL

(* The primary believed in is the one of the newest election seen          *)
(* (the staleness rules of _update_rs_from_primary), in both orders in     *)
(* which electionId and setVersion are compared.                           *)
THEOREM PrimaryAlwaysNewest == Spec => []PrimaryIsNewest
<1>1. Inv => PrimaryIsNewest
  BY DEF Inv, Good, GoodBut, Newest, PrimaryIsNewest
<1> QED BY <1>1, SpecInv, PTL

\* A host is listed once (mongoc_topology_description_add_server).
THEOREM AlwaysOneIdPerAddress == Spec => []OneIdPerAddress
<1>1. Inv => OneIdPerAddress
  BY DEF Inv, IdsOK, OneIdPerAddress
<1> QED BY <1>1, SpecInv, PTL

(* The id of a removed server is never given out again, so that a late     *)
(* reply or error names no other server.                                   *)
THEOREM IdsNeverReused == Spec => RemovedStaysRemoved
<1>1. Inv /\ [Next]_vars =>
        [/\ td'.max_server_id >= td.max_server_id
         /\ \A i \in DOMAIN td'.servers :
              i \in DOMAIN td.servers \/ i > td.max_server_id]_vars
  BY NextMoves DEF Moved
<1> QED BY <1>1, SpecInv, PTL DEF Spec, RemovedStaysRemoved

(* Writes can go to exactly the primary reads with mode primary go to: the *)
(* type of the deployment never lags behind (mongoc_topology_description   *)
(* _suitable_servers).                                                     *)
THEOREM PrimaryAlwaysSelectable == Spec => []PrimarySelectable
<1>1. Inv => PrimarySelectable
  <2> SUFFICES ASSUME Inv, td.type \in {"Unknown", "RSNoPrimary", "RSWithPrimary"},
                      NEW mode \in ReadModes
               PROVE  /\ Suitable(td, "write", mode) = OfType(td, {"RSPrimary"})
                      /\ td.type # "Unknown" =>
                           Suitable(td, "write", mode) = Suitable(td, "read", "primary")
    BY DEF PrimarySelectable
  <2>1. \A i \in DOMAIN td.servers : Fits(td.type, td.servers[i].type)
    BY DEF Inv, Good, GoodBut
  <2>2. CASE td.type = "Unknown"
    <3>1. OfType(td, {"RSPrimary"}) = {}
      BY <2>1, <2>2 DEF OfType, Fits
    <3> QED BY <2>2, <3>1 DEF Suitable
  <2>3. CASE td.type = "RSNoPrimary"
    <3>1. OfType(td, {"RSPrimary"}) = {}
      BY <2>1, <2>3 DEF OfType, Fits
    <3> QED BY <2>3, <3>1 DEF Suitable, SuitableForRead
  <2>4. CASE td.type = "RSWithPrimary"
    <3>1. OfType(td, {"RSPrimary", "Standalone"}) = OfType(td, {"RSPrimary"})
      BY <2>1, <2>4 DEF OfType, Fits
    <3> QED BY <2>4, <3>1 DEF Suitable, SuitableForRead
  <2> QED BY <2>2, <2>3, <2>4
<1> QED BY <1>1, SpecInv, PTL

-----------------------------------------------------------------------------
(* SRV polling.  While the deployment may still be a sharded cluster, only *)
(* DNS answers add hosts, and they respect srvMaxHosts.                    *)

\* The ids that are in use are finitely many.
LEMMA ServersFinite ==
  ASSUME NEW d \in Descr, IdsOK(d)
  PROVE  IsFiniteSet(DOMAIN d.servers) /\ Cardinality(DOMAIN d.servers) \in Nat
<1>1. DOMAIN d.servers \in SUBSET Nat /\ d.max_server_id \in Nat
  BY ServersOf DEF Descr
<1>2. \A i \in DOMAIN d.servers : i <= d.max_server_id
  BY DEF IdsOK
<1>3. IsFiniteSet(DOMAIN d.servers)
  BY <1>1, <1>2, FS_BoundedSetOfNaturals
<1> QED
  BY <1>3, FS_CardinalityType

\* The ids after hosts were added.
LEMMA AddServersIds ==
  ASSUME NEW d \in Descr, NEW hosts
  PROVE  DOMAIN AddServers(d, hosts).servers =
           DOMAIN d.servers \cup
             (d.max_server_id + 1)..(d.max_server_id + Cardinality(hosts \ AddressesOf(d)))
BY DEF AddServers, Descr

\* As many consecutive ids as there are hosts.
LEMMA IdsGivenOut ==
  ASSUME NEW m \in Nat, NEW n \in Nat
  PROVE  IsFiniteSet((m + 1)..(m + n)) /\ Cardinality((m + 1)..(m + n)) = n
<1>1. m + 1 \in Int /\ m + n \in Int
  OBVIOUS
<1>2. /\ IsFiniteSet((m + 1)..(m + n))
      /\ Cardinality((m + 1)..(m + n)) =
           IF m + 1 > m + n THEN 0 ELSE m + n - (m + 1) + 1
  BY <1>1, FS_Interval
<1> QED
  BY <1>2

(* The servers that are kept have different addresses, all of them in the  *)
(* answer.                                                                 *)
LEMMA KeptAreListed ==
  ASSUME NEW d \in Descr, IdsOK(d), NEW hosts \in SUBSET Addresses
  PROVE  LET K == DOMAIN d.servers \ Missing(d, hosts)
             new == hosts \ AddressesOf(d)
         IN  Cardinality(K) + Cardinality(new) <= Cardinality(hosts)
<1> DEFINE K == DOMAIN d.servers \ Missing(d, hosts)
           old == hosts \cap AddressesOf(d)
           new == hosts \ AddressesOf(d)
           f == [i \in K |-> d.servers[i].address]
<1>1. IsFiniteSet(hosts) /\ IsFiniteSet(old) /\ Cardinality(old) \in Nat
      /\ Cardinality(hosts) \in Nat
  BY HostsFinite, FS_Intersection, FS_CardinalityType
<1>2. Cardinality(new) = Cardinality(hosts) - Cardinality(old)
  BY <1>1, FS_Difference
<1>3. f \in [K -> old]
  BY DEF Missing, AddressesOf
<1>4. \A i, j \in K : f[i] = f[j] => i = j
  BY DEF IdsOK
<1>5. f \in Injection(K, old)
  BY <1>3, <1>4 DEF Injection, IsInjective
<1>6. IsFiniteSet(K) /\ Cardinality(K) <= Cardinality(old)
  BY <1>1, <1>5, FS_Injection
<1>7. Cardinality(K) \in Nat
  BY <1>6, FS_CardinalityType
<1> QED
  BY <1>1, <1>2, <1>6, <1>7

(* The assertions of mongoc_topology_description_reconcile hold when the   *)
(* limit held before: room is granted for what is about to be removed and  *)
(* no more.                                                                *)
LEMMA ReconcileMeetsLimit ==
  ASSUME NEW d \in Descr, IdsOK(d), NEW hosts \in SUBSET Addresses,
         NEW N \in Draws(d, hosts),
         MaxHosts # 0 => Cardinality(DOMAIN d.servers) <= MaxHosts
  PROVE  ReconcileAsserts(d, hosts, N)
<1> DEFINE D == DOMAIN d.servers
           M == Missing(d, hosts)
           K == D \ M
           new == hosts \ AddressesOf(d)
           m == d.max_server_id
           ids == (m + 1)..(m + Cardinality(N))
<1>0. CASE MaxHosts = 0
  BY <1>0 DEF ReconcileAsserts, Limited
<1>1. CASE MaxHosts # 0
  <2>1. MaxHosts \in Nat /\ m \in Nat
    BY DescriptionAssumption DEF Descr
  <2>2. IsFiniteSet(D) /\ Cardinality(D) \in Nat
    BY ServersFinite
  <2>3. N \subseteq new /\ N \subseteq Addresses
    BY DEF Draws
  <2>4. IsFiniteSet(N) /\ Cardinality(N) \in Nat
    BY <2>3, HostsFinite, FS_CardinalityType
  <2>5. M \subseteq D
    BY DEF Missing
  <2>6. /\ IsFiniteSet(M) /\ Cardinality(M) \in Nat
        /\ IsFiniteSet(K) /\ Cardinality(K) \in Nat
        /\ Cardinality(K) = Cardinality(D) - Cardinality(M)
    <3>1. IsFiniteSet(M) /\ Cardinality(M) \in Nat
      BY <2>2, <2>5, FS_Subset, FS_CardinalityType
    <3>2. D \cap M = M
      BY <2>5
    <3>3. IsFiniteSet(K) /\ Cardinality(K) = Cardinality(D) - Cardinality(D \cap M)
      BY <2>2, FS_Difference
    <3>4. Cardinality(K) \in Nat
      BY <3>3, FS_CardinalityType
    <3> QED
      BY <3>1, <3>2, <3>3, <3>4
  <2>7. DOMAIN Reconcile(d, hosts, N).servers \subseteq K \cup ids
    <3> DEFINE a == AddServers(d, N)
    <3>1. N \ AddressesOf(d) = N
      BY <2>3
    <3>2. DOMAIN a.servers = D \cup ids
      BY <3>1, AddServersIds
    <3>3. a \in Descr
      BY <2>3, AddServersFrom DEF From
    <3> HIDE DEF a
    <3>4. DOMAIN RemoveServers(a, M).servers = DOMAIN a.servers \ M
      BY <3>3, RemoveServersFrom
    <3>5. Reconcile(d, hosts, N) = RemoveServers(a, M)
      BY DEF Reconcile, a
    <3> QED
      BY <3>2, <3>4, <3>5
  <2>8. IsFiniteSet(ids) /\ Cardinality(ids) = Cardinality(N)
    BY <2>1, <2>4, IdsGivenOut
  <2> DEFINE X == DOMAIN Reconcile(d, hosts, N).servers
  <2>9. Cardinality(X) <= Cardinality(K) + Cardinality(N)
    <3> HIDE DEF X, K, ids
    <3>1. /\ IsFiniteSet(K \cup ids)
          /\ Cardinality(K \cup ids) =
               Cardinality(K) + Cardinality(ids) - Cardinality(K \cap ids)
      BY <2>6, <2>8, FS_Union
    <3>2. Cardinality(K \cap ids) \in Nat
      BY <2>6, FS_Intersection, FS_CardinalityType
    <3>3. IsFiniteSet(X) /\ Cardinality(X) <= Cardinality(K \cup ids)
      BY <2>7, <3>1, FS_Subset DEF X
    <3>4. Cardinality(X) \in Nat
      BY <3>3, FS_CardinalityType
    <3> QED
      BY <2>4, <2>6, <2>8, <3>1, <3>2, <3>3, <3>4
  <2>10. Cardinality(X) \in Nat
    <3> HIDE DEF X, K, ids
    <3>1. IsFiniteSet(K \cup ids)
      BY <2>6, <2>8, FS_Union
    <3> QED
      BY <2>7, <3>1, FS_Subset, FS_CardinalityType DEF X
  <2>11. CASE Limited(hosts)
    <3>1. Room(d, hosts) = MaxHosts + Cardinality(M) - Cardinality(D)
      BY DEF Room
    <3>2. ~(Room(d, hosts) < 0)
      BY <1>1, <2>1, <2>2, <2>6, <3>1
    <3>3. Cardinality(N) = Room(d, hosts)
      BY <2>11, <3>2 DEF Draws
    <3>4. Cardinality(X) <= MaxHosts
      <4> HIDE DEF X, K, D, M
      <4> QED
        BY <2>1, <2>2, <2>4, <2>6, <2>9, <2>10, <3>1, <3>3
    <3> QED
      BY <3>3, <3>4 DEF ReconcileAsserts
  <2>12. CASE ~Limited(hosts)
    <3>1. N = new
      BY <2>12 DEF Draws
    <3>2. IsFiniteSet(hosts) /\ Cardinality(hosts) \in Nat
      BY HostsFinite, FS_CardinalityType
    <3>3. Cardinality(hosts) <= MaxHosts
      BY <1>1, <2>1, <2>12, <3>2 DEF Limited
    <3>4. Cardinality(K) + Cardinality(N) <= Cardinality(hosts)
      BY <3>1, KeptAreListed
    <3>5. Cardinality(X) <= MaxHosts
      <4> HIDE DEF X, K, D, M
      <4> QED
        BY <2>1, <2>4, <2>6, <2>9, <2>10, <3>2, <3>3, <3>4
    <3> QED
      BY <2>12, <3>5 DEF ReconcileAsserts
  <2> QED
    BY <2>11, <2>12
<1> QED
  BY <1>0, <1>1

\* An error forgets what is known of a server and adds none.
LEMMA InvalidateAddsNothing ==
  ASSUME NEW d \in Descr, NEW id
  PROVE  NothingAdded(d, Invalidate(d, id))
<1>1. CASE id \notin DOMAIN d.servers
  BY <1>1 DEF Invalidate, NothingAdded
<1>2. CASE id \in DOMAIN d.servers
  <2> DEFINE e == [d EXCEPT !.servers[id] = Reset(@)]
  <2>1. e.type = d.type /\ DOMAIN e.servers = DOMAIN d.servers
    BY DEF Descr
  <2>2. CASE d.type = "RSWithPrimary"
    <3>1. Invalidate(d, id).type \in {"RSWithPrimary", "RSNoPrimary"}
      BY <1>2, <2>2 DEF Invalidate, UpdateRsType, Descr
    <3> QED
      BY <3>1 DEF NothingAdded, Eligible
  <2>3. CASE d.type # "RSWithPrimary"
    <3>1. Invalidate(d, id) = e
      BY <1>2, <2>3 DEF Invalidate
    <3> QED
      BY <2>1, <3>1 DEF NothingAdded
  <2> QED
    BY <2>2, <2>3
<1> QED
  BY <1>1, <1>2

(* While the SRV polling thread runs on an eligible deployment, the limit  *)
(* is met.                                                                 *)
SrvInv ==
  /\ srv \in {"off", "idle", "due", "query", "aborted"}
  /\ /\ srv \in {"idle", "due", "query"}
     /\ td.type \in Eligible
     /\ MaxHosts # 0
     => Cardinality(DOMAIN td.servers) <= MaxHosts
  /\ SrvSafeWhenSharded

\* The hosts of the first DNS answer meet the limit.
LEMMA InitSrvInv == Init => SrvInv
<1> SUFFICES ASSUME Init PROVE SrvInv
  OBVIOUS
<1>1. PICK hosts \in (SUBSET Seeds) \ {{}}, name \in {None} \cup SetNames,
           type \in {"Unknown", "RSNoPrimary", "Single"} :
             /\ td = AddServers(Blank(type, name), hosts)
             /\ srv = "off" \/ srv = "idle"
             /\ srv = "idle" /\ MaxHosts # 0 => Cardinality(hosts) <= MaxHosts
  BY DEF Init
<1> DEFINE b == Blank(type, name)
<1>2. b \in Descr /\ DOMAIN b.servers = {} /\ b.max_server_id = 0
  <2>1. [i \in {} |-> 0] \in [{} -> ServerRec] /\ {} \in SUBSET Nat
    OBVIOUS
  <2>2. type \in TopologyTypes /\ NoSetVersion \in Int /\ NoElectionId \in Int
    BY DEF TopologyTypes, NoSetVersion, NoElectionId
  <2> QED BY <2>1, <2>2 DEF Blank, Descr
<1> HIDE DEF b
<1>3. IsFiniteSet(hosts) /\ Cardinality(hosts) \in Nat
  BY HostsFinite, FS_CardinalityType, DescriptionAssumption
<1>4. hosts \ AddressesOf(b) = hosts
  BY <1>2 DEF AddressesOf
<1>5. DOMAIN td.servers = (0 + 1)..(0 + Cardinality(hosts))
  <2>1. td = AddServers(b, hosts)
    BY <1>1 DEF b
  <2>2. b \in Descr /\ DOMAIN b.servers = {} /\ b.max_server_id = 0
    BY <1>2 DEF b
  <2>3. DOMAIN AddServers(b, hosts).servers =
          DOMAIN b.servers \cup
            (b.max_server_id + 1)..(b.max_server_id + Cardinality(hosts \ AddressesOf(b)))
    BY <2>2, AddServersIds
  <2> QED
    BY <1>4, <2>1, <2>2, <2>3
<1>6. Cardinality(DOMAIN td.servers) = Cardinality(hosts)
  BY <1>3, <1>5, IdsGivenOut
<1> QED
  BY <1>1, <1>6 DEF SrvInv, SrvSafeWhenSharded

\* Only a DNS answer adds servers, and it meets the limit.
LEMMA NextSrvInv ==
  ASSUME Inv, SrvInv, [Next]_vars
  PROVE  SrvInv'
<1>1. td \in Descr /\ IdsOK(td) /\ Good(td)
  BY DEF Inv
<1>2. ASSUME NothingAdded(td, td'), srv # "aborted", srv' = srv
      PROVE  SrvInv'
  <2>1. IsFiniteSet(DOMAIN td.servers) /\ Cardinality(DOMAIN td.servers) \in Nat
    BY <1>1, ServersFinite
  <2>2. ASSUME td'.type \in Eligible
        PROVE  /\ td.type \in Eligible
               /\ Cardinality(DOMAIN td'.servers) \in Nat
               /\ Cardinality(DOMAIN td'.servers) <= Cardinality(DOMAIN td.servers)
    <3>1. td.type \in Eligible /\ DOMAIN td'.servers \subseteq DOMAIN td.servers
      BY <1>2, <2>2 DEF NothingAdded
    <3> QED
      BY <2>1, <3>1, FS_Subset, FS_CardinalityType
  <2>3. MaxHosts \in Nat
    BY DescriptionAssumption
  <2>4. srv \in {"idle", "due", "query"} /\ td'.type \in Eligible /\ MaxHosts # 0
        => Cardinality(DOMAIN td'.servers) <= MaxHosts
    BY <2>1, <2>2, <2>3 DEF SrvInv
  <2> QED
    BY <1>2, <2>4 DEF SrvInv, SrvSafeWhenSharded
<1>3. ASSUME NEW id \in ServerIds, Hello(id, Hellos) PROVE SrvInv'
  <2>1. PICK h \in Hellos : td' = HandleHello(td, id, h)
    BY <1>3 DEF Hello
  <2>2. Hi(h, h.modern) /\ h.modern \in BOOLEAN
    BY HellosHi DEF Hi
  <2>3. NothingAdded(td, HandleHello(td, id, h))
    BY <1>1, <2>2, HandleHelloMoves
  <2> QED
    BY <1>2, <1>3, <2>1, <2>3 DEF Hello
<1>4. ASSUME NEW id \in ServerIds, NetworkError(id) PROVE SrvInv'
  <2>1. NothingAdded(td, Invalidate(td, id))
    BY <1>1, InvalidateAddsNothing
  <2> QED
    BY <1>2, <1>4, <2>1 DEF NetworkError
<1>5. CASE SrvAnswer
  <2>1. PICK hosts \in (SUBSET Addresses) \ {{}} : \E N \in Draws(td, hosts) :
          IF ReconcileAsserts(td, hosts, N)
            THEN td' = Reconcile(td, hosts, N) /\ srv' = "idle"
            ELSE td' = td /\ srv' = "aborted"
    BY <1>5 DEF SrvAnswer
  <2>2. PICK N \in Draws(td, hosts) :
          IF ReconcileAsserts(td, hosts, N)
            THEN td' = Reconcile(td, hosts, N) /\ srv' = "idle"
            ELSE td' = td /\ srv' = "aborted"
    BY <2>1
  <2>3. CASE ReconcileAsserts(td, hosts, N)
    <3>1. td' = Reconcile(td, hosts, N) /\ srv' = "idle"
      BY <2>2, <2>3
    <3>2. MaxHosts # 0 => Cardinality(DOMAIN td'.servers) <= MaxHosts
      BY <2>3, <3>1 DEF ReconcileAsserts
    <3> QED
      BY <3>1, <3>2 DEF SrvInv, SrvSafeWhenSharded
  <2>4. CASE ~ReconcileAsserts(td, hosts, N)
    <3>1. td.type \notin Eligible
      <4> SUFFICES ASSUME td.type \in Eligible PROVE FALSE
        OBVIOUS
      <4>1. MaxHosts # 0 => Cardinality(DOMAIN td.servers) <= MaxHosts
        BY <1>5 DEF SrvInv, SrvAnswer
      <4>2. ReconcileAsserts(td, hosts, N)
        BY <1>1, <4>1, ReconcileMeetsLimit
      <4> QED
        BY <2>4, <4>2
    <3> QED
      BY <2>2, <2>4, <3>1 DEF SrvInv, SrvSafeWhenSharded, ShouldRescanSrv, Eligible
  <2> QED
    BY <2>3, <2>4
<1>6. CASE SrvCheck \/ SrvStart \/ SrvFails \/ UNCHANGED vars
  BY <1>6 DEF SrvCheck, SrvStart, SrvFails, vars, SrvInv, SrvSafeWhenSharded,
              ShouldRescanSrv, Eligible
<1> QED
  BY <1>3, <1>4, <1>5, <1>6 DEF Next, SrvPolling

(* As long as the deployment may be a sharded cluster, no assertion of     *)
(* mongoc_topology_rescan_srv or mongoc_topology_description_reconcile     *)
(* fails, for any hosts, any answers and any srvMaxHosts.                  *)
THEOREM SrvNeverAbortsSharded == Spec => []SrvSafeWhenSharded
<1>1. Inv /\ SrvInv /\ [Next]_vars => SrvInv'
  BY NextSrvInv
<1>2. SrvInv => SrvSafeWhenSharded
  BY DEF SrvInv
<1> QED
  BY <1>1, <1>2, InitSrvInv, SpecInv, PTL DEF Spec

-----------------------------------------------------------------------------
(* The elections believed in.  While all servers follow one rule (m), that *)
(* rule orders the elections: the newest one seen never goes back, every   *)
(* election given up is older, and the one believed in is the newest.      *)

NewestElection(d) == <<d.max_set_version, d.max_election_id>>

AtMost(c, d, m) ==
  IF m THEN Lex(c[2], c[1], d.max_election_id, d.max_set_version)
       ELSE Lex(c[1], c[2], d.max_set_version, d.max_election_id)

Older(c, d, m) == AtMost(c, d, m) /\ c # NewestElection(d)

Ordered(m) ==
  /\ last # None => last \in Int \X Int /\ AtMost(last, td, m)
  /\ \A c \in past : c \in Int \X Int /\ Older(c, td, m)
  /\ last \notin past

Uniform(m) == rules = {m}

SwingInv ==
  /\ Inv /\ rules \in (SUBSET BOOLEAN) \ {{}}
  /\ \A m \in BOOLEAN : Uniform(m) => Ordered(m)

\* What was not newer, or older, before a move forward is so after it.
LEMMA StaysOlder ==
  ASSUME NEW m \in BOOLEAN, NEW d \in Descr, NEW e \in Descr, Forward(d, e, m),
         NEW c \in Int \X Int
  PROVE  /\ AtMost(c, d, m) => AtMost(c, e, m)
         /\ Older(c, d, m) => Older(c, e, m)
<1>1. /\ d.max_set_version \in Int /\ d.max_election_id \in Int
      /\ e.max_set_version \in Int /\ e.max_election_id \in Int
  BY DEF Descr
<1>2. c[1] \in Int /\ c[2] \in Int /\ c = <<c[1], c[2]>>
  OBVIOUS
<1>3. ASSUME NEW x \in Descr
      PROVE  c = NewestElection(x) <=> c[1] = x.max_set_version /\ c[2] = x.max_election_id
  BY <1>2 DEF NewestElection
<1>4. CASE m
  BY <1>1, <1>2, <1>3, <1>4 DEF Forward, AtMost, Older, Lex
<1>5. CASE ~m
  BY <1>1, <1>2, <1>3, <1>5 DEF Forward, AtMost, Older, Lex
<1> QED BY <1>4, <1>5

\* An election that is believed in is the newest.
LEMMA BelievedIsNewest ==
  ASSUME NEW d \in Descr, Good(d), NEW c \in Believed(d), NEW m \in BOOLEAN
  PROVE  c = NewestElection(d) /\ c \in Int \X Int /\ AtMost(c, d, m)
<1>1. PICK i \in DOMAIN d.servers :
        /\ d.type # "Single" /\ d.servers[i].type = "RSPrimary"
        /\ HasElection(d.servers[i])
        /\ c = <<d.servers[i].set_version, d.servers[i].election_id>>
  BY DEF Believed
<1>2. /\ d.servers[i].election_id = d.max_election_id
      /\ d.servers[i].set_version = d.max_set_version
  BY <1>1 DEF Good, GoodBut, Newest
<1>3. d.max_set_version \in Int /\ d.max_election_id \in Int
  BY DEF Descr
<1>4. c = <<d.max_set_version, d.max_election_id>>
  BY <1>1, <1>2
<1> QED BY <1>3, <1>4 DEF NewestElection, AtMost, Lex

\* What is remembered stays in order as the description moves on.
LEMMA RememberOrdered ==
  ASSUME NEW m \in BOOLEAN, Inv, Inv', Forward(td, td', m), Uniform(m), Remember,
         Ordered(m)
  PROVE  Ordered(m)'
<1>1. td \in Descr /\ td' \in Descr /\ Good(td')
  BY DEF Inv
<1>2. /\ last # None => last \in Int \X Int /\ AtMost(last, td', m)
      /\ \A c \in past : c \in Int \X Int /\ Older(c, td', m)
  BY <1>1, StaysOlder DEF Ordered
<1>3. CASE Believed(td') \subseteq {last}
  BY <1>2, <1>3 DEF Remember, Ordered, AtMost, Older, NewestElection
<1>4. CASE ~(Believed(td') \subseteq {last})
  <2>1. /\ last' \in Believed(td')
        /\ past' = IF last = None THEN past ELSE past \cup {last}
    <3>1. rules # BOOLEAN
      BY DEF Uniform
    <3> QED BY <1>4, <3>1 DEF Remember
  <2>2. last' = NewestElection(td') /\ last' \in Int \X Int /\ AtMost(last', td', m)
    BY <1>1, <2>1, BelievedIsNewest
  <2>3. last # NewestElection(td')
    <3> SUFFICES ASSUME last = NewestElection(td') PROVE FALSE
      OBVIOUS
    <3>1. \A c \in Believed(td') : c = NewestElection(td')
      BY <1>1, BelievedIsNewest
    <3> QED BY <1>4, <3>1
  <2>4. \A c \in past' : c \in Int \X Int /\ Older(c, td', m)
    BY <1>2, <2>1, <2>3 DEF Older
  <2>5. last' \notin past'
    BY <2>2, <2>4 DEF Older
  <2> QED BY <2>2, <2>4, <2>5 DEF Ordered, AtMost, Older, NewestElection
<1> QED BY <1>3, <1>4

\* Every step of a set whose servers follow one rule is a move by that rule.
LEMMA SwingNextMoves ==
  ASSUME Inv, NEW m \in BOOLEAN, Uniform(m), SwingNext
  PROVE  Moved(td, td', m)
<1>1. ASSUME NEW id \in ServerIds, Hello(id, Replies(rules))
      PROVE  Moved(td, td', m)
  <2> DEFINE H == Replies(rules)
  <2>1. H \in SUBSET Hellos /\ \A h \in H : h.type = "RSPrimary" => h.modern = m
    BY DEF Replies, Uniform
  <2>2. Hello(id, H)
    BY <1>1
  <2> HIDE DEF H
  <2> QED BY <2>1, <2>2, HelloMoves
<1>2. ASSUME (\E id : NetworkError(id)) \/ SrvPolling
      PROVE  Moved(td, td', m)
  BY <1>2, OtherMoves
<1> QED BY <1>1, <1>2 DEF SwingNext

\* A step of a mixed set is still one of the specification.
LEMMA SwingNextInv ==
  ASSUME Inv, SwingNext
  PROVE  Inv'
<1>1. ASSUME NEW id \in ServerIds, Hello(id, Replies(rules))
      PROVE  \E m \in BOOLEAN : Moved(td, td', m)
  <2>1. PICK h \in Hellos : Hello(id, {h})
    BY <1>1 DEF Hello, Replies
  <2>2. h.modern \in BOOLEAN
    BY HellosHi DEF Hi
  <2>3. \A g \in {h} : g.type = "RSPrimary" => g.modern = h.modern
    OBVIOUS
  <2>4. Moved(td, td', h.modern)
    BY <2>1, <2>2, <2>3, HelloMoves
  <2> QED BY <2>2, <2>4
<1>2. ASSUME (\E id : NetworkError(id)) \/ SrvPolling
      PROVE  \E m \in BOOLEAN : Moved(td, td', m)
  <2>1. ASSUME NEW m \in BOOLEAN PROVE Moved(td, td', m)
    BY <1>2, <2>1, OtherMoves
  <2> QED BY <2>1
<1>3. \E m \in BOOLEAN : Moved(td, td', m)
  BY <1>1, <1>2 DEF SwingNext
<1> QED BY <1>3, MovedInv

\* The invariant of the elections holds at first and is kept.
LEMMA SwingInvHolds == SwingSpec => []SwingInv
<1>1. SwingInit => SwingInv
  BY InitInv DEF SwingInit, SwingInv, Ordered
<1>2. ASSUME SwingInv, [SwingNext]_swingVars PROVE SwingInv'
  <2>1. CASE UNCHANGED swingVars
    BY <1>2, <2>1 DEF swingVars, vars, SwingInv, Inv, IdsOK, Good, GoodBut, OnePrimary,
                      Newest, Uniform, Ordered, AtMost, Older, NewestElection
  <2>2. CASE SwingNext
    <3>1. Inv /\ Inv'
      BY <1>2, <2>2, SwingNextInv DEF SwingInv
    <3>2. rules' = rules /\ Remember
      BY <2>2 DEF SwingNext
    <3>3. ASSUME NEW m \in BOOLEAN, Uniform(m)' PROVE Ordered(m)'
      <4>1. Uniform(m) /\ Ordered(m)
        BY <1>2, <3>2, <3>3 DEF SwingInv, Uniform
      <4>2. Forward(td, td', m)
        BY <2>2, <3>1, <4>1, SwingNextMoves DEF Moved
      <4> QED BY <3>1, <3>2, <4>1, <4>2, RememberOrdered
    <3> QED BY <1>2, <3>1, <3>2, <3>3 DEF SwingInv
  <2> QED BY <1>2, <2>1, <2>2
<1> QED BY <1>1, <1>2, PTL DEF SwingSpec

(* As long as all servers of the set are compared by one rule of           *)
(* _update_rs_from_primary, the client never returns to a primary whose    *)
(* election it has given up for another.                                   *)
THEOREM NeverBackToOldPrimary == SwingSpec => []NeverOscillates
<1>1. SwingInv => NeverOscillates
  <2> SUFFICES ASSUME SwingInv, rules # BOOLEAN
               PROVE  last \notin past
    BY DEF NeverOscillates
  <2>1. rules = {TRUE} \/ rules = {FALSE}
    BY DEF SwingInv
  <2> QED BY <2>1 DEF SwingInv, Ordered, Uniform
<1> QED BY <1>1, SwingInvHolds, PTL
=============================================================================

--------------------------- MODULE TopologyProofs ---------------------------
(***************************************************************************)
(* Proofs about module Topology, for any number of threads, restarts and   *)
(* faults: the generation of the pool and the topologyVersion keep late    *)
(* news out.                                                               *)
(***************************************************************************)
EXTENDS Topology, FiniteSetTheorems, TLAPS

Name == CHOOSE n \in SetNames : TRUE

Versions == [process : Nat \cup {None}, counter : Nat]

\* The versions that a server reports.
Reported == [process : Nat, counter : Nat]

ServerRec ==
  [address : Addresses, type : ServerTypes, set_version : Int, election_id : Int,
   modern : BOOLEAN, topology_version : Versions, generation : Nat]

\* A description of the replica set with its one server.
Descr ==
  [type : {"RSNoPrimary", "RSWithPrimary"}, set_name : {Name},
   servers : [{Id} -> ServerRec], max_server_id : {1},
   max_set_version : Int, max_election_id : Int]

\* What the server answers.
Replies ==
  [type : {"RSPrimary", "RSSecondary"}, set_name : {Name}, hosts : {Addresses},
   matches_me : {TRUE}, primary : {None}, set_version : Int, election_id : Int,
   topology_version : Reported, modern : {TRUE}]

Errors == [topology_version : Versions, shutdown : BOOLEAN]

-----------------------------------------------------------------------------
(* The description keeps its one server.                                   *)

\* There is one host, and the set has a name.
LEMMA OneHost ==
  /\ \E a : Addresses = {a}
  /\ Name \in SetNames /\ Name # None
<1>1. \E a : Addresses = {a}
  BY TopologyAssumption, DescriptionAssumption, FS_Singleton
<1>2. SetNames # {}
  BY TopologyAssumption, FS_EmptySet
<1>3. Name \in SetNames
  BY <1>2 DEF Name
<1> QED BY <1>1, <1>3, DescriptionAssumption

\* e is a description that knows what d knew of the server's counters.
Keeps(d, e) ==
  /\ e \in Descr
  /\ e.servers[Id].generation = d.servers[Id].generation
  /\ e.servers[Id].topology_version = d.servers[Id].topology_version

\* Other servers' fields than the two counters may change.
LEMMA KeepsServer ==
  ASSUME NEW d \in Descr, NEW f \in [{Id} -> ServerRec],
         f[Id].generation = d.servers[Id].generation,
         f[Id].topology_version = d.servers[Id].topology_version
  PROVE  Keeps(d, [d EXCEPT !.servers = f])
BY DEF Keeps, Descr

\* The fields of the description.
LEMMA DescrFields ==
  ASSUME NEW d \in Descr
  PROVE  /\ d.servers \in [{Id} -> ServerRec] /\ d.servers[Id] \in ServerRec
         /\ DOMAIN d.servers = {Id}
         /\ d.set_name = Name /\ d.max_server_id = 1
         /\ d.type \in {"RSNoPrimary", "RSWithPrimary"}
         /\ d.max_set_version \in Int /\ d.max_election_id \in Int
BY DEF Descr

\* The one host is known already: adding it changes nothing,
LEMMA AddKnown ==
  ASSUME NEW d \in Descr
  PROVE  AddServers(d, Addresses) = d
<1>1. Addresses \ AddressesOf(d) = {}
  <2>1. d.servers[Id].address \in AddressesOf(d) /\ d.servers[Id].address \in Addresses
    BY DescrFields DEF AddressesOf, ServerRec
  <2> QED BY <2>1, OneHost
<1>2. Cardinality(Addresses \ AddressesOf(d)) = 0
  BY <1>1, FS_EmptySet
<1> DEFINE new == Addresses \ AddressesOf(d)
           n == Cardinality(new)
           k == d.max_server_id + n
           f == [i \in DOMAIN d.servers \cup (d.max_server_id + 1)..(d.max_server_id + n) |->
                   IF i \in DOMAIN d.servers THEN d.servers[i]
                   ELSE NewServer(Listed(new)[i - d.max_server_id])]
<1>3. k = 1 /\ k = d.max_server_id
  BY <1>2, DescrFields
<1>4. DOMAIN d.servers \cup (d.max_server_id + 1)..(d.max_server_id + n) = {Id}
  BY <1>2, DescrFields
<1>5. f = d.servers
  <2> HIDE DEF n
  <2> QED BY <1>4, DescrFields
<1>6. AddServers(d, Addresses) = [d EXCEPT !.max_server_id = k, !.servers = f]
  BY DEF AddServers
<1> HIDE DEF k, f
<1> QED BY <1>3, <1>5, <1>6 DEF Descr

\* no server is unlisted,
LEMMA NoneUnreported ==
  ASSUME NEW d \in Descr
  PROVE  RemoveUnreported(d, Addresses) = d
<1>1. {i \in DOMAIN d.servers : d.servers[i].address \notin Addresses} = {}
  BY DescrFields DEF ServerRec
<1>2. [i \in DOMAIN d.servers \ {} |-> d.servers[i]] = d.servers
  BY DescrFields
<1> QED BY <1>1, <1>2 DEF RemoveUnreported, RemoveServers, Descr

\* and there is no other primary.
LEMMA NoOtherPrimary ==
  ASSUME NEW d \in Descr
  PROVE  InvalidateOtherPrimaries(d, Id) = d
<1> DEFINE f == [i \in DOMAIN d.servers |->
                  IF i # Id /\ d.servers[i].type = "RSPrimary" THEN Reset(d.servers[i])
                                                               ELSE d.servers[i]]
<1>1. f = d.servers
  BY DescrFields
<1>2. InvalidateOtherPrimaries(d, Id) = [d EXCEPT !.servers = f]
  BY DEF InvalidateOtherPrimaries
<1> HIDE DEF f
<1> QED BY <1>1, <1>2 DEF Descr

\* The type of the set, the elections and forgetting the server.
LEMMA UpdateRsTypeKeeps ==
  ASSUME NEW d \in Descr
  PROVE  Keeps(d, UpdateRsType(d))
<1> DEFINE t == IF HasPrimary(d) THEN "RSWithPrimary" ELSE "RSNoPrimary"
<1>1. t \in {"RSNoPrimary", "RSWithPrimary"}
  OBVIOUS
<1>2. UpdateRsType(d) = [d EXCEPT !.type = t]
  BY DEF UpdateRsType
<1> HIDE DEF t
<1> QED BY <1>1, <1>2 DEF Keeps, Descr

LEMMA RememberElectionKeeps ==
  ASSUME NEW d \in Descr, NEW h \in Replies
  PROVE  Keeps(d, RememberElection(d, h))
<1>1. h.modern /\ h.election_id \in Int /\ h.set_version \in Int
  BY DEF Replies
<1>2. RememberElection(d, h) =
        [d EXCEPT !.max_election_id = h.election_id, !.max_set_version = h.set_version]
  BY <1>1 DEF RememberElection
<1> QED BY <1>1, <1>2 DEF Keeps, Descr

LEMMA KeepsTransitive ==
  ASSUME NEW c, NEW d, NEW e, Keeps(c, d), Keeps(d, e)
  PROVE  Keeps(c, e)
BY DEF Keeps

LEMMA InvalidateKeeps ==
  ASSUME NEW d \in Descr
  PROVE  Keeps(d, Invalidate(d, Id))
<1> DEFINE s == Reset(d.servers[Id])
           f == [d.servers EXCEPT ![Id] = s]
           e == [d EXCEPT !.servers = f]
<1>1. /\ s \in ServerRec
      /\ s.generation = d.servers[Id].generation
      /\ s.topology_version = d.servers[Id].topology_version
  <2>1. d.servers[Id] \in ServerRec
    BY DescrFields
  <2>2. NoSetVersion \in Int /\ NoElectionId \in Int /\ "Unknown" \in ServerTypes
    BY DEF NoSetVersion, NoElectionId, ServerTypes
  <2> QED BY <2>1, <2>2 DEF Reset, ServerRec
<1>2. f \in [{Id} -> ServerRec] /\ f[Id] = s
  <2> HIDE DEF s
  <2> QED BY <1>1, DescrFields
<1>3. Keeps(d, e)
  <2> HIDE DEF f, s
  <2> QED BY <1>1, <1>2, KeepsServer
<1>4. e \in Descr
  BY <1>3 DEF Keeps
<1>5. Invalidate(d, Id) = e \/ Invalidate(d, Id) = UpdateRsType(e)
  BY DescrFields DEF Invalidate
<1> HIDE DEF e
<1> QED BY <1>3, <1>4, <1>5, UpdateRsTypeKeeps, KeepsTransitive

-----------------------------------------------------------------------------
(* What replies and errors do to the description.                          *)

\* A description with one field of the server changed.
LEMMA WithServer ==
  ASSUME NEW d \in Descr, NEW s \in ServerRec
  PROVE  LET e == [d EXCEPT !.servers[Id] = s]
         IN  e \in Descr /\ e.servers[Id] = s /\ e.type = d.type /\ e.set_name = d.set_name
<1> DEFINE f == [d.servers EXCEPT ![Id] = s]
<1>1. f \in [{Id} -> ServerRec] /\ f[Id] = s
  BY DescrFields
<1>2. [d EXCEPT !.servers[Id] = s] = [d EXCEPT !.servers = f]
  OBVIOUS
<1> HIDE DEF f
<1> QED BY <1>1, <1>2 DEF Descr

\* What the server said is believed, except for an outdated primary.
LEMMA TransitionKeeps ==
  ASSUME NEW d \in Descr, NEW h \in Replies, d.servers[Id].type = h.type
  PROVE  Keeps(d, Transition(d, Id, h))
<1>1. /\ h.type \in {"RSPrimary", "RSSecondary"} /\ h.set_name = Name
      /\ h.hosts = Addresses /\ h.matches_me /\ h.primary = None
  BY DEF Replies
<1>2. d.type \in {"RSNoPrimary", "RSWithPrimary"} /\ d.set_name = Name
  BY DescrFields
<1>3. Named(d, h) = d /\ ~(d.set_name # h.set_name)
  BY <1>1, <1>2, OneHost DEF Named
<1>4. CASE h.type = "RSPrimary"
  <2>1. Transition(d, Id, h) = UpdateRsFromPrimary(d, Id, h)
    BY <1>2, <1>4 DEF Transition, MemberAll
  <2>2. CASE Stale(d, h)
    <3> DEFINE e == Invalidate(d, Id)
    <3>1. UpdateRsFromPrimary(d, Id, h) = UpdateRsType(e)
      BY <1>3, <2>2 DEF UpdateRsFromPrimary
    <3>2. Keeps(d, e) /\ e \in Descr
      BY InvalidateKeeps DEF Keeps
    <3> HIDE DEF e
    <3> QED BY <2>1, <3>1, <3>2, UpdateRsTypeKeeps, KeepsTransitive
  <2>3. CASE ~Stale(d, h)
    <3> DEFINE e == RememberElection(d, h)
    <3>1. Keeps(d, e) /\ e \in Descr
      BY RememberElectionKeeps DEF Keeps
    <3>2. UpdateRsFromPrimary(d, Id, h) =
            UpdateRsType(RemoveUnreported(
              AddServers(InvalidateOtherPrimaries(e, Id), Addresses), Addresses))
      BY <1>1, <1>3, <2>3 DEF UpdateRsFromPrimary
    <3> HIDE DEF e
    <3>3. UpdateRsFromPrimary(d, Id, h) = UpdateRsType(e)
      BY <3>1, <3>2, NoOtherPrimary, AddKnown, NoneUnreported
    <3> QED BY <2>1, <3>1, <3>3, UpdateRsTypeKeeps, KeepsTransitive
  <2> QED BY <2>2, <2>3
<1>5. CASE h.type = "RSSecondary"
  <2>1. CASE d.type = "RSNoPrimary"
    <3>1. Transition(d, Id, h) = UpdateRsWithoutPrimary(d, Id, h)
      BY <1>5, <2>1 DEF Transition, MemberAll
    <3>2. UpdateRsWithoutPrimary(d, Id, h) = AddServers(d, Addresses)
      BY <1>1, <1>3 DEF UpdateRsWithoutPrimary
    <3> QED BY <3>1, <3>2, AddKnown DEF Keeps
  <2>2. CASE d.type = "RSWithPrimary"
    <3>1. Transition(d, Id, h) = UpdateRsWithPrimaryFromMember(d, Id, h)
      BY <1>5, <2>2 DEF Transition, MemberAll
    <3>2. UpdateRsWithPrimaryFromMember(d, Id, h) = d
      BY <1>1, <1>3 DEF UpdateRsWithPrimaryFromMember
    <3> QED BY <3>1, <3>2 DEF Keeps
  <2> QED BY <1>2, <2>1, <2>2
<1> QED BY <1>1, <1>4, <1>5

\* A reply never touches the generation, nor takes the version back.
LEMMA HandleHelloDoes ==
  ASSUME NEW d \in Descr, NEW h \in Replies
  PROVE  LET e == HandleHello(d, Id, h)
         IN  /\ e \in Descr
             /\ e.servers[Id].generation = d.servers[Id].generation
             /\ e.servers[Id].topology_version =
                  IF VersionLater(d.servers[Id].topology_version, h.topology_version)
                    THEN d.servers[Id].topology_version
                    ELSE h.topology_version
<1>0. d.servers[Id] \in ServerRec /\ DOMAIN d.servers = {Id}
  BY DescrFields
<1>1. CASE VersionLater(d.servers[Id].topology_version, h.topology_version)
  BY <1>1 DEF HandleHello
<1>2. CASE ~VersionLater(d.servers[Id].topology_version, h.topology_version)
  <2> DEFINE s == Learn(d.servers[Id], h)
             c == [d EXCEPT !.servers[Id] = s]
  <2>1. HandleHello(d, Id, h) = Transition(c, Id, h)
    BY <1>0, <1>2, DescrFields DEF HandleHello
  <2>2. /\ s \in ServerRec /\ s.type = h.type
        /\ s.generation = d.servers[Id].generation
        /\ s.topology_version = h.topology_version
    <3>1. /\ h.type \in ServerTypes /\ h.set_version \in Int /\ h.election_id \in Int
          /\ h.modern \in BOOLEAN /\ h.topology_version \in Versions
      BY DEF Replies, Reported, Versions, ServerTypes, MemberAll
    <3> QED BY <1>0, <3>1 DEF Learn, ServerRec
  <2> HIDE DEF s
  <2>3. c \in Descr /\ c.servers[Id] = s
    BY <2>2, WithServer
  <2> HIDE DEF c
  <2>4. Keeps(c, Transition(c, Id, h))
    BY <2>2, <2>3, TransitionKeeps
  <2> QED BY <1>2, <2>1, <2>2, <2>3, <2>4 DEF Keeps
<1> QED BY <1>1, <1>2

\* Clearing the pool counts the generation up and touches nothing else.
LEMMA ClearDoes ==
  ASSUME NEW d \in Descr
  PROVE  LET e == ClearConnectionPool(d, Id)
         IN  /\ e \in Descr
             /\ e.servers[Id].generation = d.servers[Id].generation + 1
             /\ e.servers[Id].topology_version = d.servers[Id].topology_version
<1> DEFINE g == d.servers[Id].generation + 1
           s == [d.servers[Id] EXCEPT !.generation = g]
<1>0. d.servers[Id] \in ServerRec /\ DOMAIN d.servers = {Id}
  BY DescrFields
<1>1. g \in Nat
  BY <1>0 DEF ServerRec
<1>2. ClearConnectionPool(d, Id) = [d EXCEPT !.servers[Id] = s]
  BY <1>0 DEF ClearConnectionPool
<1>3. s \in ServerRec /\ s.generation = g
      /\ s.topology_version = d.servers[Id].topology_version
  <2> HIDE DEF g
  <2> QED BY <1>0, <1>1 DEF ServerRec
<1> HIDE DEF s
<1> QED BY <1>2, <1>3, WithServer

\* A network error forgets the server and clears the pool.
LEMMA NetworkErrorDoes ==
  ASSUME NEW d \in Descr
  PROVE  LET e == ClearConnectionPool(Invalidate(d, Id), Id)
         IN  /\ e \in Descr
             /\ e.servers[Id].generation = d.servers[Id].generation + 1
             /\ e.servers[Id].topology_version = d.servers[Id].topology_version
<1> DEFINE i == Invalidate(d, Id)
<1>1. Keeps(d, i) /\ i \in Descr
  BY InvalidateKeeps DEF Keeps
<1> HIDE DEF i
<1>2. LET e == ClearConnectionPool(i, Id)
      IN  /\ e \in Descr
          /\ e.servers[Id].generation = i.servers[Id].generation + 1
          /\ e.servers[Id].topology_version = i.servers[Id].topology_version
  BY <1>1, ClearDoes
<1> QED BY <1>1, <1>2 DEF Keeps, i

\* A command error sets the version, forgets the server and may clear the pool.
LEMMA CommandErrorDoes ==
  ASSUME NEW d \in Descr, NEW tv \in Versions, NEW shutdown
  PROVE  LET v == [d EXCEPT !.servers[Id].topology_version = tv]
             c == IF shutdown THEN ClearConnectionPool(v, Id) ELSE v
             e == Invalidate(c, Id)
         IN  /\ e \in Descr
             /\ e.servers[Id].generation = IF shutdown THEN d.servers[Id].generation + 1
                                                       ELSE d.servers[Id].generation
             /\ e.servers[Id].topology_version = tv
<1> DEFINE s == [d.servers[Id] EXCEPT !.topology_version = tv]
           v == [d EXCEPT !.servers[Id].topology_version = tv]
           c == IF shutdown THEN ClearConnectionPool(v, Id) ELSE v
<1>0. d.servers[Id] \in ServerRec /\ DOMAIN d.servers = {Id}
  BY DescrFields
<1>1. s \in ServerRec /\ s.generation = d.servers[Id].generation /\ s.topology_version = tv
  BY <1>0 DEF ServerRec
<1>2. v = [d EXCEPT !.servers[Id] = s]
  OBVIOUS
<1> HIDE DEF s, v
<1>3. v \in Descr /\ v.servers[Id] = s
  BY <1>1, <1>2, WithServer
<1>4. /\ c \in Descr
      /\ c.servers[Id].generation = IF shutdown THEN s.generation + 1 ELSE s.generation
      /\ c.servers[Id].topology_version = tv
  BY <1>1, <1>3, ClearDoes
<1> HIDE DEF c
<1>5. Keeps(c, Invalidate(c, Id))
  BY <1>4, InvalidateKeeps
<1> QED BY <1>1, <1>4, <1>5 DEF Keeps, v, c

-----------------------------------------------------------------------------
(* The inductive invariant.  A connection's label is a generation read     *)
(* before the connection was opened, so it is never above the generation   *)
(* at that time; the label is what the code compares, and that is enough.  *)

Places == {"idle", "stream", "connect", "hello", "handshake", "run", "network_error",
           "network_lock", "command_error", "command_lock", "failed"}

Connections == [generation : Nat, process : Nat, born : Nat]

AppRec ==
  [pc : Places, generation : Nat, handshake : BOOLEAN, connection : Connections,
   reply : Replies \cup Errors]

ServerState ==
  [process : Nat, counter : Nat, type : {"RSPrimary", "RSSecondary"}, election : Nat,
   changes : Nat]

MonitorRec ==
  [pc : {"check", "update", "clear", "invalidate"}, process : Nat,
   reply : Replies \cup Errors]

\* A thread a whose client may see generation g.
Fine(a, g) ==
  /\ a.connection.generation <= a.connection.born /\ a.connection.born <= g
  /\ a.generation <= g
  /\ a.pc \in {"hello", "handshake", "run"} => a.generation <= a.connection.born
  /\ a.pc = "handshake" => a.reply \in Replies

Inv ==
  /\ td \in Descr
  /\ server \in ServerState
  /\ app \in [Threads -> AppRec]
  /\ \A t \in Threads : Fine(app[t], Generation)
  /\ monitor \in MonitorRec /\ (monitor.pc = "update" => monitor.reply \in Replies)

\* The version known of a process does not get older.
VersionKept(d, e) ==
  LET old == d.servers[Id].topology_version
      new == e.servers[Id].topology_version
  IN  old.process = new.process => old.counter <= new.counter

\* What any step does to the description.
Forward ==
  /\ td' \in Descr
  /\ Generation' >= Generation
  /\ VersionKept(td, td')

LEMMA GenerationType ==
  ASSUME td \in Descr
  PROVE  /\ Generation \in Nat
         /\ td.servers[Id].topology_version \in Versions
<1>1. td.servers[Id] \in ServerRec
  BY DescrFields
<1> QED BY <1>1 DEF ServerRec, Generation

LEMMA SameForward ==
  ASSUME td \in Descr, UNCHANGED td
  PROVE  Forward
<1>1. td.servers[Id].topology_version.counter \in Nat /\ Generation \in Nat
  BY GenerationType DEF Versions
<1> QED BY <1>1 DEF Forward, VersionKept, Generation

\* A version that a server reports is one.
LEMMA ReportedVersion ==
  ASSUME NEW v \in Reported
  PROVE  v \in Versions /\ v # NoTopologyVersion
  BY TopologyAssumption DEF Reported, Versions, NoTopologyVersion

LEMMA HelloForward ==
  ASSUME td \in Descr, NEW h \in Replies, td' = HandleHello(td, Id, h)
  PROVE  Forward /\ Generation' = Generation
<1> DEFINE old == td.servers[Id].topology_version
           new == td'.servers[Id].topology_version
<1>0. h.topology_version \in Versions /\ h.topology_version # NoTopologyVersion
  BY ReportedVersion DEF Replies
<1>1. /\ td' \in Descr
      /\ td'.servers[Id].generation = td.servers[Id].generation
      /\ \/ new = old
         \/ new = h.topology_version /\ new # NoTopologyVersion /\ ~VersionLater(old, new)
  BY <1>0, HandleHelloDoes
<1>2. /\ Generation' = Generation /\ Generation \in Nat
      /\ old \in Versions
  BY <1>1, GenerationType DEF Generation
<1>3. new \in Versions
  BY <1>0, <1>1, <1>2
<1>4. old.counter \in Nat /\ new.counter \in Nat
  BY <1>2, <1>3 DEF Versions
<1>5. old = NoTopologyVersion => old.counter = 0
  BY DEF NoTopologyVersion
<1> HIDE DEF old, new
<1>6. old.process = new.process => old.counter <= new.counter
  BY <1>1, <1>4, <1>5 DEF VersionLater
<1> QED BY <1>1, <1>2, <1>6 DEF Forward, VersionKept, old, new

LEMMA ClearForward ==
  ASSUME td \in Descr,
         \/ td' = ClearConnectionPool(td, Id)
         \/ td' = Invalidate(td, Id)
         \/ td' = ClearConnectionPool(Invalidate(td, Id), Id)
  PROVE  Forward
<1>1. /\ td' \in Descr
      /\ td'.servers[Id].generation \in {td.servers[Id].generation,
                                         td.servers[Id].generation + 1}
      /\ td'.servers[Id].topology_version = td.servers[Id].topology_version
  BY ClearDoes, InvalidateKeeps, NetworkErrorDoes DEF Keeps
<1>2. td.servers[Id].generation \in Nat /\ td.servers[Id].topology_version.counter \in Nat
  BY GenerationType DEF Versions, Generation
<1> QED BY <1>1, <1>2 DEF Forward, VersionKept, Generation

\* A thread stays fine when the generation grows.
LEMMA FineGrows ==
  ASSUME NEW a \in AppRec, NEW g \in Nat, NEW h \in Nat, h >= g, Fine(a, g)
  PROVE  Fine(a, h)
<1>1. /\ a.connection.generation \in Nat /\ a.connection.born \in Nat
      /\ a.generation \in Nat
  BY DEF AppRec, Connections
<1> QED BY <1>1 DEF Fine

\* The initial states satisfy the invariant.
LEMMA InitInv == TopologyInit => Inv /\ Generation = 0
<1> SUFFICES ASSUME TopologyInit PROVE Inv /\ Generation = 0
  OBVIOUS
<1>1. td \in Descr /\ td.servers[Id].generation = 0
  <2> DEFINE d == Blank("RSNoPrimary", Name)
  <2>1. /\ d.servers = [i \in {} |-> 0] /\ DOMAIN d.servers = {} /\ d.max_server_id = 0
    BY DEF Blank
  <2>2. Addresses \ AddressesOf(d) = Addresses
    BY <2>1 DEF AddressesOf
  <2>3. Cardinality(Addresses) = 1
    BY TopologyAssumption
  <2>4. Listed(Addresses) \in [1..1 -> Addresses]
    <3>1. PICK a : Addresses = {a}
      BY OneHost
    <3>2. [i \in 1..1 |-> a] \in [1..1 -> Addresses]
      BY <3>1
    <3>3. \A i, j \in DOMAIN [i \in 1..1 |-> a] : i = j
      OBVIOUS
    <3> QED BY <2>3, <3>2, <3>3 DEF Listed
  <2> DEFINE f == [i \in {1} |-> NewServer(Listed(Addresses)[1])]
  <2>5. AddServers(d, Addresses) = [d EXCEPT !.max_server_id = 1, !.servers = f]
    <3> HIDE DEF d
    <3>1. 0 + 1 = 1 /\ (0 + 1)..(0 + 1) = {1} /\ 1 - 0 = 1
      OBVIOUS
    <3>2. \A i \in {1} : i - 0 = 1
      OBVIOUS
    <3> DEFINE g == [i \in DOMAIN d.servers \cup (d.max_server_id + 1)..(d.max_server_id + 1) |->
                       IF i \in DOMAIN d.servers THEN d.servers[i]
                       ELSE NewServer(Listed(Addresses)[i - d.max_server_id])]
    <3>3. AddServers(d, Addresses) =
            [d EXCEPT !.max_server_id = d.max_server_id + 1, !.servers = g]
      BY <2>2, <2>3 DEF AddServers
    <3>4. g = f
      BY <2>1, <3>1, <3>2
    <3> QED BY <2>1, <3>1, <3>3, <3>4
  <2>6. NewServer(Listed(Addresses)[1]) \in ServerRec
        /\ NewServer(Listed(Addresses)[1]).generation = 0
    <3>1. Listed(Addresses)[1] \in Addresses
      BY <2>4
    <3>2. NoTopologyVersion \in Versions
      BY DEF NoTopologyVersion, Versions
    <3> QED BY <3>1, <3>2 DEF NewServer, ServerRec, ServerTypes, NoSetVersion, NoElectionId
  <2>7. f \in [{Id} -> ServerRec] /\ f[Id].generation = 0
    BY <2>6 DEF Id
  <2>8. td = [d EXCEPT !.max_server_id = 1, !.servers = f]
    BY <2>5 DEF TopologyInit, Name
  <2> HIDE DEF f
  <2>9. /\ d = [type |-> "RSNoPrimary", set_name |-> Name, servers |-> [i \in {} |-> 0],
                max_server_id |-> 0, max_set_version |-> -1, max_election_id |-> 0]
    BY DEF Blank, NoSetVersion, NoElectionId
  <2>10. td = [type |-> "RSNoPrimary", set_name |-> Name, servers |-> f,
               max_server_id |-> 1, max_set_version |-> -1, max_election_id |-> 0]
    <3> HIDE DEF d
    <3> QED BY <2>8, <2>9
  <2> QED BY <2>7, <2>10 DEF Descr
<1>2. Generation = 0
  BY <1>1 DEF Generation
<1>3. NoError \in Errors /\ NoConnection \in Connections
  BY DEF NoError, Errors, Versions, NoTopologyVersion, NoConnection, Connections
<1>4. app \in [Threads -> AppRec] /\ \A t \in Threads : Fine(app[t], 0)
  <2> DEFINE a == [pc |-> "idle", generation |-> 0, handshake |-> FALSE,
                   connection |-> NoConnection, reply |-> NoError]
  <2>1. a \in AppRec
    BY <1>3 DEF AppRec, Places
  <2>2. Fine(a, 0)
    BY DEF Fine, NoConnection
  <2>3. app = [t \in Threads |-> a]
    BY DEF TopologyInit
  <2> HIDE DEF a
  <2> QED BY <2>1, <2>2, <2>3
<1>5. server \in ServerState
  BY DEF TopologyInit, ServerState
<1>6. monitor \in MonitorRec /\ monitor.pc # "update"
  BY <1>3 DEF TopologyInit, MonitorRec
<1> QED BY <1>1, <1>2, <1>4, <1>5, <1>6 DEF Inv

\* What the server says now is a reply.
LEMMA HelloNowType ==
  ASSUME Inv
  PROVE  HelloNow \in Replies /\ VersionNow \in Versions
<1>1. /\ server.type \in {"RSPrimary", "RSSecondary"} /\ server.election \in Nat
      /\ server.process \in Nat /\ server.counter \in Nat
  BY DEF Inv, ServerState
<1>2. VersionNow \in Reported /\ VersionNow \in Versions
  BY <1>1 DEF VersionNow, Versions, Reported
<1> DEFINE sv == IF server.type = "RSPrimary" THEN 1 ELSE NoSetVersion
           ei == IF server.type = "RSPrimary" THEN server.election ELSE NoElectionId
<1>3. sv \in Int /\ ei \in Int
  BY <1>1 DEF NoSetVersion, NoElectionId
<1>4. ASSUME NEW yes
      PROVE  [[type |-> server.type, set_name |-> None, hosts |-> {}, matches_me |-> yes,
               primary |-> None, set_version |-> NoSetVersion,
               election_id |-> NoElectionId, topology_version |-> NoTopologyVersion,
               modern |-> FALSE]
                EXCEPT !.set_name = Name, !.hosts = Addresses, !.set_version = sv,
                       !.election_id = ei, !.topology_version = VersionNow,
                       !.modern = yes]
             \in [type : {"RSPrimary", "RSSecondary"}, set_name : {Name},
                  hosts : {Addresses}, matches_me : {yes}, primary : {None},
                  set_version : Int, election_id : Int, topology_version : Reported,
                  modern : {yes}]
  <2> HIDE DEF sv, ei
  <2> QED BY <1>1, <1>2, <1>3
<1>5. HelloNow =
        [[type |-> server.type, set_name |-> None, hosts |-> {}, matches_me |-> TRUE,
          primary |-> None, set_version |-> NoSetVersion, election_id |-> NoElectionId,
          topology_version |-> NoTopologyVersion, modern |-> FALSE]
           EXCEPT !.set_name = Name, !.hosts = Addresses, !.set_version = sv,
                  !.election_id = ei, !.topology_version = VersionNow, !.modern = TRUE]
  BY <1>1 DEF HelloNow, Reply, Name
<1> HIDE DEF sv, ei
<1> QED BY <1>2, <1>4, <1>5 DEF Replies

-----------------------------------------------------------------------------
(* The steps of a thread.                                                  *)

OnlyThread(t) == \A u \in Threads \ {t} : app'[u] = app[u]

\* A step that leaves thread t as a, which is fine.
LEMMA ThreadMoves ==
  ASSUME Inv, Forward, NEW t \in Threads, NEW a \in AppRec,
         app' = [app EXCEPT ![t] = a], Fine(a, Generation'),
         UNCHANGED <<server, monitor, srv>>
  PROVE  Inv' /\ Forward /\ OnlyThread(t)
<1>1. app \in [Threads -> AppRec] /\ td \in Descr /\ td' \in Descr
  BY DEF Inv, Forward
<1>2. app' \in [Threads -> AppRec] /\ app'[t] = a /\ OnlyThread(t)
  BY <1>1 DEF OnlyThread
<1>3. Generation \in Nat /\ Generation' \in Nat
  BY <1>1, DescrFields DEF Generation, ServerRec
<1>4. ASSUME NEW u \in Threads PROVE Fine(app'[u], Generation')
  <2>1. CASE u = t
    BY <1>2, <2>1
  <2>2. CASE u # t
    <3>1. app[u] \in AppRec /\ Fine(app[u], Generation) /\ Generation' >= Generation
      BY <1>1 DEF Inv, Forward
    <3>2. Fine(app[u], Generation')
      BY <1>3, <3>1, FineGrows
    <3> QED BY <1>2, <2>2, <3>2 DEF OnlyThread
  <2> QED BY <2>1, <2>2
<1>5. /\ server' \in ServerState /\ monitor' \in MonitorRec
      /\ monitor'.pc = "update" => monitor'.reply \in Replies
  BY DEF Inv
<1> QED BY <1>1, <1>2, <1>4, <1>5 DEF Inv

\* The fields of a thread, and of what its connection is labelled with.
LEMMA AppFields ==
  ASSUME Inv, NEW t \in Threads
  PROVE  /\ app[t] \in AppRec /\ Fine(app[t], Generation)
         /\ app[t].generation \in Nat /\ app[t].connection \in Connections
         /\ app[t].connection.generation \in Nat /\ app[t].connection.born \in Nat
         /\ app[t].connection.process \in Nat
         /\ app[t].reply \in Replies \cup Errors
         /\ app[t].reply.topology_version \in Versions
         /\ td \in Descr /\ Generation \in Nat
<1>1. app[t] \in AppRec /\ Fine(app[t], Generation) /\ td \in Descr
  BY DEF Inv
<1>2. /\ app[t].generation \in Nat /\ app[t].connection \in Connections
      /\ app[t].reply \in Replies \cup Errors
  BY <1>1 DEF AppRec
<1>3. /\ app[t].connection.generation \in Nat /\ app[t].connection.born \in Nat
      /\ app[t].connection.process \in Nat
  BY <1>2 DEF Connections
<1>4. app[t].reply.topology_version \in Versions
  BY <1>2, ReportedVersion DEF Replies, Errors
<1> QED BY <1>1, <1>2, <1>3, <1>4, GenerationType

\* Nothing of the description changes, and the thread goes elsewhere.
LEMMA GotoDoes ==
  ASSUME Inv, NEW t \in Threads, NEW pc \in Places \ {"hello", "handshake", "run"},
         Goto(t, pc), UNCHANGED <<td, server, monitor, srv>>
  PROVE  Inv' /\ Forward /\ OnlyThread(t)
<1> DEFINE a == [app[t] EXCEPT !.pc = pc]
<1>1. app' = [app EXCEPT ![t] = a]
  BY DEF Goto
<1>2. a \in AppRec /\ a.pc = pc /\ a.generation = app[t].generation
      /\ a.connection = app[t].connection
  BY AppFields DEF AppRec
<1> HIDE DEF a
<1>3. Generation' = Generation /\ Forward
  BY SameForward DEF Generation, Inv
<1>4. Fine(a, Generation)
  BY <1>2, AppFields DEF Fine
<1> QED BY <1>1, <1>2, <1>3, <1>4, ThreadMoves

\* The operation is over, with the connection the thread had or with none.
LEMMA DoneDoes ==
  ASSUME Inv, Forward, NEW t \in Threads, NEW c \in {app[t].connection, NoConnection},
         Done(t, c), UNCHANGED <<server, monitor, srv>>
  PROVE  Inv' /\ Forward /\ OnlyThread(t)
<1> DEFINE a == [app[t] EXCEPT !.pc = "idle", !.generation = 0, !.connection = c]
<1>1. app' = [app EXCEPT ![t] = a]
  BY DEF Done
<1>2. c \in Connections /\ c.generation <= c.born /\ c.born <= Generation'
  <2>1. Generation' >= Generation /\ Generation' \in Nat
    BY DescrFields DEF Forward, Generation, ServerRec
  <2>2. CASE c = app[t].connection
    BY <2>1, <2>2, AppFields DEF Fine
  <2>3. CASE c = NoConnection
    BY <2>1, <2>3 DEF NoConnection, Connections
  <2> QED BY <2>2, <2>3
<1>3. a \in AppRec /\ a.pc = "idle" /\ a.generation = 0 /\ a.connection = c
  BY <1>2, AppFields DEF AppRec, Places
<1> HIDE DEF a
<1>4. Fine(a, Generation')
  <2>1. Generation' \in Nat
    BY DescrFields DEF Forward, Generation, ServerRec
  <2> QED BY <1>2, <1>3, <2>1 DEF Fine
<1> QED BY <1>1, <1>3, <1>4, ThreadMoves

\* The same after an error; a failed handshake is reported once more.
LEMMA AfterErrorDoes ==
  ASSUME Inv, Forward, NEW t \in Threads, NEW c \in {app[t].connection, NoConnection},
         AfterError(t, c), UNCHANGED <<server, monitor, srv>>
  PROVE  Inv' /\ Forward /\ OnlyThread(t)
<1> DEFINE p == IF app[t].handshake THEN "failed" ELSE "idle"
           a == [app[t] EXCEPT !.pc = p, !.generation = 0, !.handshake = FALSE,
                               !.connection = c, !.reply = NoError]
<1>1. app' = [app EXCEPT ![t] = a]
  BY DEF AfterError
<1>0. Generation' >= Generation /\ Generation' \in Nat
  BY DescrFields DEF Forward, Generation, ServerRec
<1>2. c \in Connections /\ c.generation <= c.born /\ c.born <= Generation'
  <2>2. CASE c = app[t].connection
    BY <1>0, <2>2, AppFields DEF Fine
  <2>3. CASE c = NoConnection
    BY <1>0, <2>3 DEF NoConnection, Connections
  <2> QED BY <2>2, <2>3
<1>3. p \in {"failed", "idle"} /\ p \in Places
  BY DEF Places
<1>4. NoError \in Errors /\ FALSE \in BOOLEAN
  BY DEF NoError, Errors, Versions, NoTopologyVersion
<1> HIDE DEF p
<1>5. a \in AppRec /\ a.pc = p /\ a.generation = 0 /\ a.connection = c
  BY <1>2, <1>3, <1>4, AppFields DEF AppRec
<1> HIDE DEF a
<1>6. Fine(a, Generation')
  BY <1>0, <1>2, <1>3, <1>5 DEF Fine
<1> QED BY <1>1, <1>5, <1>6, ThreadMoves

\* A usable connection is at least as young as the pool, so the operation runs.
LEMMA UseDoes ==
  ASSUME Inv, NEW t \in Threads, Usable(t),
         app' = [app EXCEPT ![t] = [app[t] EXCEPT !.pc = "run", !.generation = Generation]],
         UNCHANGED <<td, server, monitor, srv>>
  PROVE  Inv' /\ Forward /\ OnlyThread(t)
<1> DEFINE a == [app[t] EXCEPT !.pc = "run", !.generation = Generation]
<1>1. a \in AppRec /\ a.pc = "run" /\ a.generation = Generation
      /\ a.connection = app[t].connection
  BY AppFields DEF AppRec, Places
<1> HIDE DEF a
<1>2. Generation' = Generation /\ Forward
  BY SameForward DEF Generation, Inv
<1>3. /\ app[t].connection.generation >= Generation
      /\ app[t].connection.generation <= app[t].connection.born
      /\ app[t].connection.born <= Generation
  BY AppFields DEF Usable, Fine
<1>4. Fine(a, Generation)
  BY <1>1, <1>3, AppFields DEF Fine
<1> QED BY <1>1, <1>2, <1>4, ThreadMoves DEF a

\* The connection is dropped: another is opened, or the operation fails.
LEMMA DropDoes ==
  ASSUME Inv, NEW t \in Threads, NEW p \in {"connect", "failed"},
         NEW g \in {Generation, app[t].generation},
         app' = [app EXCEPT ![t] =
                   [app[t] EXCEPT !.pc = p, !.generation = g, !.connection = NoConnection]],
         UNCHANGED <<td, server, monitor, srv>>
  PROVE  Inv' /\ Forward /\ OnlyThread(t)
<1> DEFINE a == [app[t] EXCEPT !.pc = p, !.generation = g, !.connection = NoConnection]
<1>1. /\ NoConnection \in Connections
      /\ NoConnection.generation = 0 /\ NoConnection.born = 0
  BY DEF NoConnection, Connections
<1>2. g \in Nat /\ g <= Generation /\ p \in Places
  BY AppFields DEF Fine, Places
<1>3. a \in AppRec /\ a.pc = p /\ a.generation = g /\ a.connection = NoConnection
  BY <1>1, <1>2, AppFields DEF AppRec
<1> HIDE DEF a
<1>4. Generation' = Generation /\ Forward
  BY SameForward DEF Generation, Inv
<1>5. Fine(a, Generation)
  BY <1>1, <1>2, <1>3, AppFields DEF Fine
<1> QED BY <1>3, <1>4, <1>5, ThreadMoves DEF a

\* _cluster_fetch_stream_pooled and killCursors.
LEMMA FetchStreamDoes ==
  ASSUME Inv, NEW t \in Threads, FetchStream(t) \/ KillCursor(t)
  PROVE  Inv' /\ Forward /\ OnlyThread(t)
<1>1. UNCHANGED <<td, server, monitor, srv>>
  BY DEF FetchStream, KillCursor
<1>2. CASE Usable(t)
  <2>1. app' = [app EXCEPT ![t] = [app[t] EXCEPT !.pc = "run", !.generation = Generation]]
    BY <1>2 DEF FetchStream, KillCursor
  <2> QED BY <1>1, <1>2, <2>1, UseDoes
<1>3. CASE ~Usable(t) /\ FetchStream(t)
  <2>1. app' = [app EXCEPT ![t] =
          [app[t] EXCEPT !.pc = "connect", !.generation = Generation,
                         !.connection = NoConnection]]
    BY <1>3 DEF FetchStream
  <2> QED BY <1>1, <2>1, DropDoes
<1>4. CASE ~Usable(t) /\ KillCursor(t)
  <2> DEFINE a == [app[t] EXCEPT !.pc = "failed", !.connection = NoConnection]
             b == [app[t] EXCEPT !.pc = "failed", !.generation = app[t].generation,
                                 !.connection = NoConnection]
  <2>1. app' = [app EXCEPT ![t] = a]
    BY <1>4 DEF KillCursor
  <2>2. a = b
    BY AppFields DEF AppRec
  <2> HIDE DEF a
  <2>3. app' = [app EXCEPT ![t] = b]
    BY <2>1, <2>2
  <2> QED BY <1>1, <2>3, DropDoes
<1> QED BY <1>2, <1>3, <1>4

\* _cluster_add_node: the label was read earlier, the connection is born now.
LEMMA ConnectDoes ==
  ASSUME Inv, NEW t \in Threads, Connect(t)
  PROVE  Inv' /\ Forward /\ OnlyThread(t)
<1> DEFINE c == [generation |-> app[t].generation, process |-> server.process,
                 born |-> Generation]
           a == [app[t] EXCEPT !.pc = "hello", !.handshake = TRUE, !.connection = c]
<1>1. app' = [app EXCEPT ![t] = a] /\ UNCHANGED <<td, server, monitor, srv>>
  BY DEF Connect
<1>2. c \in Connections /\ c.generation = app[t].generation /\ c.born = Generation
  <2>1. server.process \in Nat
    BY DEF Inv, ServerState
  <2> QED BY <2>1, AppFields DEF Connections
<1> HIDE DEF c
<1>3. TRUE \in BOOLEAN /\ "hello" \in Places
  BY DEF Places
<1>4. a \in AppRec /\ a.pc = "hello" /\ a.generation = app[t].generation
      /\ a.connection = c
  BY <1>2, <1>3, AppFields DEF AppRec
<1> HIDE DEF a
<1>5. Generation' = Generation /\ Forward
  BY <1>1, SameForward DEF Generation, Inv
<1>6. Fine(a, Generation)
  BY <1>2, <1>4, AppFields DEF Fine
<1> QED BY <1>1, <1>4, <1>5, <1>6, ThreadMoves

\* _stream_run_hello gets its reply, or an error.
LEMMA HandshakeHelloDoes ==
  ASSUME Inv, NEW t \in Threads, HandshakeHello(t)
  PROVE  Inv' /\ Forward /\ OnlyThread(t)
<1>1. UNCHANGED <<td, server, monitor, srv>> /\ app[t].pc = "hello"
  BY DEF HandshakeHello
<1>2. CASE Broken(t)
  <2>1. Goto(t, "network_error") /\ "network_error" \in Places
    BY <1>2 DEF HandshakeHello, Goto, Places
  <2> QED BY <1>1, <2>1, GotoDoes
<1>3. CASE ~Broken(t)
  <2> DEFINE a == [app[t] EXCEPT !.pc = "handshake", !.reply = HelloNow]
  <2>1. app' = [app EXCEPT ![t] = a]
    BY <1>3 DEF HandshakeHello
  <2>2. HelloNow \in Replies /\ "handshake" \in Places
    BY HelloNowType DEF Places
  <2>3. a \in AppRec /\ a.pc = "handshake" /\ a.generation = app[t].generation
        /\ a.connection = app[t].connection /\ a.reply = HelloNow
    BY <2>2, AppFields DEF AppRec
  <2> HIDE DEF a
  <2>4. Generation' = Generation /\ Forward
    BY <1>1, SameForward DEF Generation, Inv
  <2>5. Fine(a, Generation)
    BY <1>1, <2>2, <2>3, AppFields DEF Fine
  <2> QED BY <1>1, <2>1, <2>3, <2>4, <2>5, ThreadMoves
<1> QED BY <1>2, <1>3

\* _mongoc_topology_update_from_handshake applies the reply.
LEMMA UpdateFromHandshakeDoes ==
  ASSUME Inv, NEW t \in Threads, UpdateFromHandshake(t)
  PROVE  Inv' /\ Forward /\ OnlyThread(t)
<1> DEFINE a == [app[t] EXCEPT !.pc = "run", !.handshake = FALSE, !.reply = NoError]
<1>1. /\ app[t].pc = "handshake" /\ app' = [app EXCEPT ![t] = a]
      /\ td' = HandleHello(td, Id, app[t].reply)
      /\ UNCHANGED <<server, monitor, srv>>
  BY DEF UpdateFromHandshake
<1>2. app[t].reply \in Replies
  BY <1>1, AppFields DEF Fine
<1>3. Forward /\ Generation' = Generation
  BY <1>1, <1>2, HelloForward DEF Inv
<1>4. NoError \in Errors /\ FALSE \in BOOLEAN /\ "run" \in Places
  BY DEF NoError, Errors, Versions, NoTopologyVersion, Places
<1>5. a \in AppRec /\ a.pc = "run" /\ a.generation = app[t].generation
      /\ a.connection = app[t].connection
  BY <1>4, AppFields DEF AppRec
<1> HIDE DEF a
<1>6. Fine(a, Generation)
  BY <1>1, <1>5, AppFields DEF Fine
<1> QED BY <1>1, <1>3, <1>5, <1>6, ThreadMoves

\* The command succeeds, breaks off, or is refused.
LEMMA RunCommandDoes ==
  ASSUME Inv, NEW t \in Threads, RunCommand(t)
  PROVE  Inv' /\ Forward /\ OnlyThread(t)
<1>1. UNCHANGED <<td, server, monitor, srv>>
  BY DEF RunCommand
<1>2. Generation' = Generation /\ Forward
  BY <1>1, SameForward DEF Generation, Inv
<1>3. CASE Goto(t, "network_error")
  BY <1>1, <1>3, GotoDoes DEF Places
<1>4. CASE Done(t, app[t].connection)
  BY <1>1, <1>2, <1>4, DoneDoes
<1>5. ASSUME NEW shutdown \in BOOLEAN,
             app' = [app EXCEPT ![t].pc = "command_error", ![t].reply =
                       [topology_version |-> VersionNow, shutdown |-> shutdown]]
      PROVE  Inv' /\ Forward /\ OnlyThread(t)
  <2> DEFINE e == [topology_version |-> VersionNow, shutdown |-> shutdown]
             a == [app[t] EXCEPT !.pc = "command_error", !.reply = e]
  <2>1. e \in Errors /\ "command_error" \in Places
    BY HelloNowType DEF Errors, Places
  <2>2. app' = [app EXCEPT ![t] = a]
    BY <1>5
  <2> HIDE DEF e
  <2>3. a \in AppRec /\ a.pc = "command_error" /\ a.generation = app[t].generation
        /\ a.connection = app[t].connection
    BY <2>1, AppFields DEF AppRec
  <2> HIDE DEF a
  <2>4. Fine(a, Generation)
    BY <2>3, AppFields DEF Fine
  <2> QED BY <1>1, <1>2, <2>2, <2>3, <2>4, ThreadMoves
<1> QED BY <1>3, <1>4, <1>5 DEF RunCommand

\* A network error, looked at without the lock and then with it.
LEMMA NetworkErrorStep ==
  ASSUME Inv, NEW t \in Threads, CheckNetworkError(t) \/ HandleNetworkError(t)
  PROVE  Inv' /\ Forward /\ OnlyThread(t)
<1>1. CASE CheckNetworkError(t)
  <2>1. UNCHANGED <<td, server, monitor, srv>>
    BY <1>1 DEF CheckNetworkError
  <2>2. Forward
    BY <2>1, SameForward DEF Inv
  <2>3. AfterError(t, NoConnection) \/ Goto(t, "network_lock")
    BY <1>1 DEF CheckNetworkError
  <2> QED BY <2>1, <2>2, <2>3, AfterErrorDoes, GotoDoes DEF Places
<1>2. CASE HandleNetworkError(t)
  <2>1. /\ AfterError(t, NoConnection) /\ UNCHANGED <<server, monitor, srv>>
        /\ td' = td \/ td' = ClearConnectionPool(Invalidate(td, Id), Id)
    BY <1>2 DEF HandleNetworkError
  <2>2. Forward
    BY <2>1, SameForward, ClearForward DEF Inv
  <2> QED BY <2>1, <2>2, AfterErrorDoes
<1> QED BY <1>1, <1>2

\* An error reply, looked at without the lock and then with it.
LEMMA CommandErrorStep ==
  ASSUME Inv, NEW t \in Threads, CheckCommandError(t) \/ HandleCommandError(t)
  PROVE  Inv' /\ Forward /\ OnlyThread(t)
<1>1. CASE CheckCommandError(t)
  <2>1. UNCHANGED <<td, server, monitor, srv>>
    BY <1>1 DEF CheckCommandError
  <2>2. Forward
    BY <2>1, SameForward DEF Inv
  <2>3. AfterError(t, app[t].connection) \/ Goto(t, "command_lock")
    BY <1>1 DEF CheckCommandError
  <2> QED BY <2>1, <2>2, <2>3, AfterErrorDoes, GotoDoes DEF Places
<1>2. CASE HandleCommandError(t)
  <2> DEFINE tv == app[t].reply.topology_version
             shutdown == app[t].reply.shutdown
             v == [td EXCEPT !.servers[Id].topology_version = tv]
             c == IF shutdown THEN ClearConnectionPool(v, Id) ELSE v
  <2>1. UNCHANGED <<server, monitor, srv>>
    BY <1>2 DEF HandleCommandError
  <2>2. CASE KnownVersion(tv) \/ ErrorGeneration(t) < Generation
    <3>1. td' = td /\ AfterError(t, app[t].connection)
      BY <1>2, <2>2 DEF HandleCommandError
    <3> QED BY <2>1, <3>1, SameForward, AfterErrorDoes DEF Inv
  <2>3. CASE ~(KnownVersion(tv) \/ ErrorGeneration(t) < Generation)
    <3>1. /\ td' = Invalidate(c, Id)
          /\ AfterError(t, IF shutdown THEN NoConnection ELSE app[t].connection)
      BY <1>2, <2>3 DEF HandleCommandError
    <3>2. td \in Descr /\ tv \in Versions /\ td.servers[Id].topology_version \in Versions
      BY AppFields, GenerationType
    <3>3. /\ td' \in Descr
          /\ td'.servers[Id].generation \in {td.servers[Id].generation,
                                             td.servers[Id].generation + 1}
          /\ td'.servers[Id].topology_version = tv
      <4> HIDE DEF tv, shutdown
      <4> QED BY <3>1, <3>2, CommandErrorDoes
    <3>4. Generation' >= Generation
      BY <3>3, AppFields DEF Generation
    <3>5. VersionKept(td, td')
      <4>1. tv.counter \in Nat /\ td.servers[Id].topology_version.counter \in Nat
        BY <3>2 DEF Versions
      <4> HIDE DEF tv
      <4> QED BY <2>3, <3>3, <4>1 DEF VersionKept, KnownVersion
    <3>6. Forward
      BY <3>3, <3>4, <3>5 DEF Forward
    <3> QED BY <2>1, <3>1, <3>6, AfterErrorDoes
  <2> QED BY <2>2, <2>3
<1> QED BY <1>1, <1>2

\* Every step of a thread.
ThreadStep(t) == Proceed(t) \/ ConnectFails(t) \/ KillCursor(t) \/ Timeout(t)

LEMMA ThreadStepDoes ==
  ASSUME Inv, NEW t \in Threads, ThreadStep(t)
  PROVE  Inv' /\ Forward /\ OnlyThread(t)
<1>1. CASE Select(t)
  BY <1>1, GotoDoes DEF Select, Places
<1>2. CASE ConnectFails(t)
  BY <1>2, GotoDoes DEF ConnectFails, Places
<1>3. CASE Timeout(t)
  BY <1>3, SameForward, DoneDoes DEF Timeout, Inv
<1>4. CASE StreamFailed(t)
  BY <1>4, ClearForward, DoneDoes DEF StreamFailed, Inv
<1> QED
  BY <1>1, <1>2, <1>3, <1>4, FetchStreamDoes, ConnectDoes, HandshakeHelloDoes,
     UpdateFromHandshakeDoes, RunCommandDoes, NetworkErrorStep, CommandErrorStep
     DEF ThreadStep, Proceed

-----------------------------------------------------------------------------
(* The server and the monitor.                                             *)

\* A step of neither changes a thread.
LEMMA OthersMove ==
  ASSUME Inv, Forward, UNCHANGED <<app, srv>>, server' \in ServerState,
         monitor' \in MonitorRec, monitor'.pc = "update" => monitor'.reply \in Replies
  PROVE  Inv'
<1>1. Generation \in Nat /\ Generation' \in Nat
  BY DescrFields DEF Inv, Forward, Generation, ServerRec
<1>2. ASSUME NEW t \in Threads PROVE Fine(app[t], Generation')
  <2>1. app[t] \in AppRec /\ Fine(app[t], Generation) /\ Generation' >= Generation
    BY DEF Inv, Forward
  <2> QED BY <1>1, <2>1, FineGrows
<1> QED BY <1>2 DEF Inv, Forward

\* The server changes; the client does not know yet.
LEMMA EnvironmentDoes ==
  ASSUME Inv, Environment
  PROVE  Inv' /\ Forward
<1>1. UNCHANGED <<td, app, monitor, srv>> /\ server \in ServerState
  BY DEF Environment, ChangeRole, Restart, Inv
<1>2. Forward
  BY <1>1, SameForward DEF Inv
<1>3. server' \in ServerState
  <2>1. CASE ChangeRole
    <3> DEFINE c == server.counter + 1
               n == server.changes + 1
               y == IF server.type = "RSPrimary" THEN "RSSecondary" ELSE "RSPrimary"
               e == IF server.type = "RSPrimary" THEN server.election ELSE server.election + 1
    <3>1. c \in Nat /\ n \in Nat /\ y \in {"RSPrimary", "RSSecondary"} /\ e \in Nat
      BY <1>1 DEF ServerState
    <3>2. server' = [server EXCEPT !.counter = c, !.changes = n, !.type = y, !.election = e]
      BY <2>1 DEF ChangeRole
    <3> HIDE DEF c, n, y, e
    <3> QED BY <1>1, <3>1, <3>2 DEF ServerState
  <2>2. CASE Restart
    <3> DEFINE p == server.process + 1
               n == server.changes + 1
    <3>1. p \in Nat /\ n \in Nat
      BY <1>1 DEF ServerState
    <3>2. server' = [server EXCEPT !.process = p, !.counter = 0, !.changes = n,
                                   !.type = "RSSecondary"]
      BY <2>2 DEF Restart
    <3> HIDE DEF p, n
    <3> QED BY <1>1, <3>1, <3>2 DEF ServerState
  <2> QED BY <2>1, <2>2 DEF Environment
<1> QED BY <1>1, <1>2, <1>3, OthersMove DEF Inv

\* The monitor learns something, and tells it later.
LEMMA MonitorDoes ==
  ASSUME Inv, MonitorStep \/ MonitorFails
  PROVE  Inv' /\ Forward
<1>0. /\ td \in Descr /\ monitor \in MonitorRec /\ server \in ServerState
      /\ server.process \in Nat
  BY DEF Inv, ServerState
<1>1. UNCHANGED <<app, server, srv>>
  BY DEF MonitorStep, MonitorCheck, MonitorCancelled, MonitorUpdate, MonitorClear,
         MonitorInvalidate, MonitorFails
<1>2. NoError \in Errors
  BY DEF NoError, Errors, Versions, NoTopologyVersion
<1>3. Forward
  <2>1. CASE MonitorUpdate
    BY <1>0, <2>1, HelloForward DEF MonitorUpdate, Inv
  <2>2. CASE MonitorClear \/ MonitorInvalidate
    BY <1>0, <2>2, ClearForward DEF MonitorClear, MonitorInvalidate
  <2>3. CASE MonitorCheck \/ MonitorCancelled \/ MonitorFails
    BY <1>0, <2>3, SameForward DEF MonitorCheck, MonitorCancelled, MonitorFails
  <2> QED BY <2>1, <2>2, <2>3 DEF MonitorStep
<1>4. monitor' \in MonitorRec /\ (monitor'.pc = "update" => monitor'.reply \in Replies)
  <2>1. CASE MonitorCheck
    <3>1. HelloNow \in Replies
      BY HelloNowType
    <3>2. \/ monitor' = [pc |-> "update", process |-> server.process, reply |-> HelloNow]
          \/ monitor' = [pc |-> "clear", process |-> 0, reply |-> NoError]
      BY <2>1 DEF MonitorCheck
    <3> QED BY <1>0, <1>2, <3>1, <3>2 DEF MonitorRec
  <2>2. CASE MonitorCancelled
    BY <1>0, <2>2 DEF MonitorCancelled, MonitorRec
  <2>3. CASE MonitorUpdate
    BY <1>0, <1>2, <2>3 DEF MonitorUpdate, MonitorRec
  <2>4. CASE MonitorClear \/ MonitorInvalidate
    BY <1>0, <2>4 DEF MonitorClear, MonitorInvalidate, MonitorRec
  <2>5. CASE MonitorFails
    BY <1>2, <2>5 DEF MonitorFails, MonitorRec
  <2> QED BY <2>1, <2>2, <2>3, <2>4, <2>5 DEF MonitorStep
<1> QED BY <1>0, <1>1, <1>3, <1>4, OthersMove

-----------------------------------------------------------------------------
\* Every step keeps the invariant and takes no counter back.
LEMMA StepDoes ==
  Inv /\ [TopologyNext]_topologyVars => Inv' /\ Forward
<1> SUFFICES ASSUME Inv, [TopologyNext]_topologyVars PROVE Inv' /\ Forward
  OBVIOUS
<1>1. CASE UNCHANGED topologyVars
  <2>1. UNCHANGED <<td, app, monitor, server, srv>>
    BY <1>1 DEF topologyVars
  <2>2. Forward
    BY <2>1, SameForward DEF Inv
  <2> QED BY <2>1, <2>2, OthersMove DEF Inv
<1>2. ASSUME NEW t \in Threads, ThreadStep(t) PROVE Inv' /\ Forward
  BY <1>2, ThreadStepDoes
<1> QED BY <1>1, <1>2, EnvironmentDoes, MonitorDoes DEF TopologyNext, ThreadStep

LEMMA Invariance == TopologySpec => []Inv
BY InitInv, StepDoes, PTL DEF TopologySpec

(* The generation test of _cluster_fetch_stream_pooled is enough: although *)
(* a connection is labelled with what an earlier snapshot said, it is never *)
(* used by an operation that began after a clear it did not see.           *)
THEOREM NeverStale == TopologySpec => []NoStaleConnection
<1>1. Inv => NoStaleConnection
  BY DEF Inv, Fine, NoStaleConnection
<1> QED BY <1>1, Invariance, PTL

(* _mongoc_topology_handle_app_error clears the pool for a network error   *)
(* only if it was not cleared since the connection was opened, however     *)
(* many threads see their connections break at once.                       *)
THEOREM OneClear == TopologySpec => OneClearPerOutage
<1> DEFINE A == \A t \in Threads :
                  /\ app[t].pc = "network_lock" /\ ~app[t].handshake
                  /\ Generation' > Generation /\ app'[t].pc # app[t].pc
                  => app[t].connection.born = Generation
<1>1. Inv /\ [TopologyNext]_topologyVars => [A]_topologyVars
  <2> SUFFICES ASSUME Inv, TopologyNext, NEW t \in Threads,
                      app[t].pc = "network_lock", ~app[t].handshake,
                      Generation' > Generation, app'[t].pc # app[t].pc
               PROVE  app[t].connection.born = Generation
    OBVIOUS
  <2>1. HandleNetworkError(t)
    <3>1. PICK u \in Threads : ThreadStep(u)
      <4>1. ~Environment /\ ~MonitorStep /\ ~MonitorFails
        BY DEF Environment, ChangeRole, Restart, MonitorStep, MonitorCheck,
               MonitorCancelled, MonitorUpdate, MonitorClear, MonitorInvalidate,
               MonitorFails
      <4> QED BY <4>1 DEF TopologyNext, ThreadStep
    <3>2. u = t
      BY <3>1, ThreadStepDoes DEF OnlyThread
    <3> QED BY <3>1, <3>2
          DEF ThreadStep, Proceed, Select, FetchStream, Connect, HandshakeHello,
              UpdateFromHandshake, RunCommand, CheckNetworkError, CheckCommandError,
              HandleCommandError, StreamFailed, ConnectFails, KillCursor, Timeout
  <2>2. ~(app[t].connection.generation < Generation)
    <3> SUFFICES ASSUME app[t].connection.generation < Generation PROVE FALSE
      OBVIOUS
    <3>1. td' = td
      BY <2>1 DEF HandleNetworkError, ErrorGeneration
    <3>2. Generation' = Generation /\ Generation \in Nat
      BY <3>1, AppFields DEF Generation
    <3> QED BY <3>2
  <2>3. /\ app[t].connection.generation <= app[t].connection.born
        /\ app[t].connection.born <= Generation
    BY AppFields DEF Fine
  <2> QED BY <2>2, <2>3, AppFields
<1> QED BY <1>1, Invariance, PTL DEF TopologySpec, OneClearPerOutage

(* Hello replies and error replies are applied in any order, under the     *)
(* lock or after a look without it; the topologyVersion of one server      *)
(* process never goes back.                                                *)
THEOREM VersionsForward == TopologySpec => VersionNeverBack
<1>1. Inv /\ [TopologyNext]_topologyVars => VersionKept(td, td')
  BY StepDoes DEF Forward
<1>2. Inv /\ [TopologyNext]_topologyVars =>
        [LET old == td.servers[Id].topology_version
             new == td'.servers[Id].topology_version
         IN  old.process = new.process => old.counter <= new.counter]_topologyVars
  BY <1>1 DEF VersionKept
<1> QED BY <1>2, Invariance, PTL DEF TopologySpec, VersionNeverBack

-----------------------------------------------------------------------------
(* How often the pool is cleared.  Whatever can lead to a clear is counted *)
(* before it happens.                                                      *)

Version == td.servers[Id].topology_version

Outdated(tv) == tv.process # server.process \/ tv.counter < server.counter

(* These threads have no stream or will lose it in the handshake.  Each    *)
(* clears the pool once more, whoever else has cleared it meanwhile; or it *)
(* brings a reply of a process that is gone.                               *)
Committed ==
  {t \in Threads : app[t].pc = "failed" \/ (app[t].handshake /\ Broken(t))}

(* These may clear the pool for an error of their connection, but only one *)
(* of them: then the connections of all others are no longer usable.       *)
Able(t) ==
  /\ Usable(t) /\ app[t].pc # "failed"
  /\ IF app[t].handshake
       THEN /\ app[t].pc = "handshake" /\ ~Broken(t)
            /\ Outdated(app[t].reply.topology_version)
       ELSE Broken(t) \/ Outdated(Version)

Ready == \E t \in Threads : Able(t)

\* The monitor has lost its connection, or is about to say so;
MonitorDue == monitor.pc = "clear" \/ monitor.process \notin {0, server.process}

\* it has a reply of a process that is gone.
LateReply == monitor.pc = "update" /\ monitor.process # server.process

Bit(b) == IF b THEN 1 ELSE 0

Budget ==
  (server.process - 1) * (Cardinality(Threads) + 1) + (server.changes + 1) + faults

(* The last bit: while the generation is 0, the generation 0 that stands   *)
(* for a handshake's does not look old, and its failure clears twice.      *)
Charged ==
  Generation + Cardinality(Committed) + Bit(Ready) + Bit(MonitorDue) + Bit(LateReply)
    + Bit(Generation = 0) <= Budget

\* What a thread's place says of its connection and of the reply it holds.
Sound(a) ==
  /\ a.connection.process <= server.process
  /\ a.connection.process = 0 => a.connection = NoConnection
  /\ a.handshake => a.pc \in {"hello", "handshake", "network_error", "network_lock"}
  /\ a.pc \in {"hello", "handshake"} => a.handshake
  /\ a.pc \notin {"idle", "stream", "connect", "failed"} => a.connection.process # 0
  /\ a.pc \in {"network_error", "network_lock"} => a.connection.process # server.process
  /\ a.pc \in {"handshake", "command_error", "command_lock"} =>
       /\ a.reply.topology_version.process = a.connection.process
       /\ a.connection.process = server.process =>
            a.reply.topology_version.counter <= server.counter

MonitorSound ==
  /\ monitor.pc = "update" =>
       monitor.process # 0 /\ monitor.reply.topology_version.process = monitor.process
  /\ monitor.pc = "clear" => monitor.process = 0

Control ==
  /\ server.process >= 1 /\ faults \in Nat
  /\ \A t \in Threads : Sound(app[t])
  /\ MonitorSound

\* The counts are numbers.
LEMMA Counts ==
  ASSUME Inv, Control
  PROVE  /\ Generation \in Nat /\ Cardinality(Committed) \in Nat /\ Budget \in Int
         /\ Cardinality(Threads) \in Nat /\ Version \in Versions
         /\ server.process \in Nat /\ server.counter \in Nat /\ server.changes \in Nat
         /\ faults \in Nat
<1>1. Generation \in Nat /\ Version \in Versions
  BY GenerationType DEF Inv, Version
<1>2. Cardinality(Committed) \in Nat /\ Cardinality(Threads) \in Nat
  <2>1. IsFiniteSet(Threads) /\ Committed \subseteq Threads
    BY TopologyAssumption DEF Committed
  <2> QED BY <2>1, FS_Subset, FS_CardinalityType
<1>3. server.process \in Nat /\ server.changes \in Nat /\ server.counter \in Nat
      /\ faults \in Nat
  BY DEF Inv, ServerState, Control
<1>4. Budget \in Int
  BY <1>2, <1>3 DEF Budget
<1> QED BY <1>1, <1>2, <1>3, <1>4

\* A smaller set of threads counts less.
LEMMA FewerThreads ==
  ASSUME NEW S \in SUBSET Threads, NEW T \in SUBSET S
  PROVE  /\ Cardinality(S) \in Nat /\ Cardinality(T) \in Nat
         /\ Cardinality(T) <= Cardinality(S)
         /\ \A t \in S \ T : Cardinality(T) + 1 <= Cardinality(S)
         /\ \A t \in Threads : Cardinality(S \cup {t}) <= Cardinality(S) + 1
<1>1. IsFiniteSet(S) /\ IsFiniteSet(T)
  BY TopologyAssumption, FS_Subset
<1>2. Cardinality(S) \in Nat /\ Cardinality(T) \in Nat /\ Cardinality(T) <= Cardinality(S)
  BY <1>1, FS_Subset, FS_CardinalityType
<1>3. ASSUME NEW t \in S \ T PROVE Cardinality(T) + 1 <= Cardinality(S)
  <2>1. T \cup {t} \subseteq S
    OBVIOUS
  <2>2. Cardinality(T \cup {t}) = Cardinality(T) + 1
    BY <1>1, <1>3, FS_AddElement
  <2> QED BY <1>1, <2>1, <2>2, FS_Subset
<1>4. ASSUME NEW t \in Threads PROVE Cardinality(S \cup {t}) <= Cardinality(S) + 1
  <2>1. CASE t \in S
    <3>1. S \cup {t} = S
      BY <2>1
    <3> QED BY <1>2, <3>1
  <2>2. CASE t \notin S
    <3>1. Cardinality(S \cup {t}) = Cardinality(S) + 1
      BY <1>1, <2>2, FS_AddElement
    <3> QED BY <1>2, <3>1
  <2> QED BY <2>1, <2>2
<1> QED BY <1>2, <1>3, <1>4

\* The same after a step.
LEMMA NextCounts ==
  ASSUME Inv, Control, Inv'
  PROVE  /\ Generation \in Nat /\ Generation' \in Nat
         /\ Cardinality(Committed) \in Nat /\ Cardinality(Committed)' \in Nat
         /\ Budget \in Int /\ Version' \in Versions
<1>1. Generation \in Nat /\ Cardinality(Committed) \in Nat /\ Budget \in Int
  BY Counts
<1>2. Committed' \in SUBSET Threads
  BY DEF Committed
<1>3. Cardinality(Committed') \in Nat
  BY <1>2, FewerThreads
<1>4. td' \in Descr
  BY DEF Inv
<1>5. td'.servers[Id] \in ServerRec
  BY <1>4, DescrFields
<1> QED BY <1>1, <1>3, <1>5 DEF Generation, Version, ServerRec

\* Nothing is added to what is due.
LEMMA NothingDue ==
  ASSUME Inv, Control, Inv', Control', Charged, Committed' \subseteq Committed,
         Ready' => Ready, MonitorDue' => MonitorDue, LateReply' => LateReply,
         Generation' = Generation, Budget' = Budget
  PROVE  Charged'
<1>1. Cardinality(Committed') <= Cardinality(Committed)
  BY FewerThreads DEF Committed
<1>2. /\ Cardinality(Committed) \in Nat /\ Cardinality(Committed)' \in Nat
      /\ Generation \in Nat /\ Budget \in Int
  BY NextCounts
<1> QED BY <1>1, <1>2 DEF Charged, Bit

\* The other threads of a step of thread t.
LEMMA OtherThreads ==
  ASSUME Inv, Control, Inv', NEW t \in Threads, OnlyThread(t), server' = server,
         Outdated(Version)' => Outdated(Version), Generation' >= Generation,
         NEW u \in Threads \ {t}
  PROVE  /\ u \in Committed' <=> u \in Committed
         /\ Able(u)' => Able(u)
<1>1. app'[u] = app[u]
  BY DEF OnlyThread
<1>2. Usable(u)' => Usable(u)
  BY <1>1, AppFields, NextCounts DEF Usable
<1>3. Broken(u)' <=> Broken(u)
  BY <1>1 DEF Broken
<1>4. Outdated(app[u].reply.topology_version)' <=> Outdated(app[u].reply.topology_version)
  BY <1>1 DEF Outdated
<1> QED BY <1>1, <1>2, <1>3, <1>4 DEF Able, Committed

LEMMA ControlStays ==
  ASSUME Inv, Control, NEW t \in Threads, OnlyThread(t), UNCHANGED <<server, monitor>>,
         faults' \in {faults, faults + 1}, Sound(app'[t])
  PROVE  Control'
<1>1. ASSUME NEW u \in Threads PROVE Sound(app[u])'
  <2>1. CASE u = t
    BY <2>1 DEF Sound
  <2>2. CASE u # t
    BY <2>2 DEF Sound, Control, OnlyThread
  <2> QED BY <2>1, <2>2
<1>2. faults' \in Nat
  BY DEF Control
<1>3. MonitorSound'
  BY DEF Control, MonitorSound
<1> QED BY <1>1, <1>2, <1>3 DEF Control

(* Thread t goes on, knowing perhaps more of the server, and without a new *)
(* reason to clear the pool.                                               *)
LEMMA QuietStep ==
  ASSUME Inv, Control, Charged, Inv', NEW t \in Threads, OnlyThread(t),
         UNCHANGED <<server, monitor, faults>>, Sound(app'[t]),
         Generation' = Generation, Outdated(Version)' => Outdated(Version),
         t \in Committed' => t \in Committed, Able(t)' => Able(t)
  PROVE  Control' /\ Charged'
<1>1. Control'
  BY ControlStays
<1>2. \A u \in Threads \ {t} : (u \in Committed' <=> u \in Committed) /\ (Able(u)' => Able(u))
  BY OtherThreads, Counts
<1>3. Committed' \subseteq Committed
  BY <1>2 DEF Committed
<1>4. Ready' => Ready
  BY <1>2 DEF Ready
<1>5. (MonitorDue' => MonitorDue) /\ (LateReply' => LateReply) /\ Budget' = Budget
  BY DEF MonitorDue, LateReply, Budget
<1> QED BY <1>1, <1>3, <1>4, <1>5, NothingDue

LEMMA FaultBudget ==
  ASSUME Inv, Control, server' = server, faults' = faults + 1
  PROVE  Budget' = Budget + 1
<1> DEFINE k == (server.process - 1) * (Cardinality(Threads) + 1) + (server.changes + 1)
<1>1. k \in Int /\ faults \in Nat
  BY Counts
<1>2. Budget = k + faults /\ Budget' = k + (faults + 1)
  BY DEF Budget
<1> HIDE DEF k
<1> QED BY <1>1, <1>2

\* The same with a fault, which pays for one clear.
LEMMA FaultStep ==
  ASSUME Inv, Control, Charged, Inv', NEW t \in Threads, OnlyThread(t),
         UNCHANGED <<td, server, monitor>>, faults' = faults + 1, Sound(app'[t]),
         Able(t)' => Able(t)
  PROVE  Control' /\ Charged'
<1>1. Control'
  BY ControlStays
<1>2. Generation' = Generation /\ Version' = Version
  BY DEF Generation, Version
<1>3. Outdated(Version)' => Outdated(Version)
  BY <1>2 DEF Outdated
<1>4. \A u \in Threads \ {t} : (u \in Committed' <=> u \in Committed) /\ (Able(u)' => Able(u))
  BY <1>2, <1>3, OtherThreads, Counts
<1>5. Cardinality(Committed') <= Cardinality(Committed) + 1
  <2>1. Committed' \subseteq Committed \cup {t}
    BY <1>4 DEF Committed
  <2>2. /\ Committed \in SUBSET Threads /\ Committed \cup {t} \in SUBSET Threads
        /\ Committed' \in SUBSET (Committed \cup {t})
    BY <2>1 DEF Committed
  <2>3. Cardinality(Committed') <= Cardinality(Committed \cup {t})
        /\ Cardinality(Committed') \in Nat /\ Cardinality(Committed \cup {t}) \in Nat
    BY <2>2, FewerThreads
  <2>4. /\ Cardinality(Committed \cup {t}) <= Cardinality(Committed) + 1
        /\ Cardinality(Committed) \in Nat
    BY <2>2, FewerThreads
  <2> QED BY <2>3, <2>4
<1>6. Ready' => Ready
  BY <1>4 DEF Ready
<1>7. (MonitorDue' <=> MonitorDue) /\ (LateReply' <=> LateReply)
  BY DEF MonitorDue, LateReply
<1>8. /\ Cardinality(Committed) \in Nat /\ Cardinality(Committed)' \in Nat
      /\ Generation \in Nat /\ Budget \in Int
  BY NextCounts
<1>9. Budget' = Budget + 1
  BY FaultBudget
<1> QED BY <1>1, <1>2, <1>5, <1>6, <1>7, <1>8, <1>9 DEF Charged, Bit

(* Thread t takes the description back to an older process.  It was        *)
(* committed to a clear it will not make, or one was to be expected anyway. *)
LEMMA LateStep ==
  ASSUME Inv, Control, Charged, Inv', NEW t \in Threads, OnlyThread(t),
         UNCHANGED <<server, monitor, faults>>, Sound(app'[t]),
         Generation' = Generation, t \notin Committed', t \in Committed \/ Ready
  PROVE  Control' /\ Charged'
<1>1. Control'
  BY ControlStays
<1>2. Committed' \subseteq Committed
  BY DEF Committed, OnlyThread, Broken
<1>3. Committed' \in SUBSET Committed /\ Committed \in SUBSET Threads
  BY <1>2 DEF Committed
<1>4. Cardinality(Committed') + Bit(Ready') <= Cardinality(Committed) + Bit(Ready)
  <2>1. CASE t \in Committed
    <3>1. Cardinality(Committed') + 1 <= Cardinality(Committed)
      BY <1>3, <2>1, FewerThreads
    <3> QED BY <1>3, <3>1, FewerThreads DEF Bit
  <2>2. CASE Ready
    BY <1>3, <2>2, FewerThreads DEF Bit
  <2> QED BY <2>1, <2>2
<1>5. (MonitorDue' <=> MonitorDue) /\ (LateReply' <=> LateReply) /\ Budget' = Budget
  BY DEF MonitorDue, LateReply, Budget
<1>6. /\ Cardinality(Committed) \in Nat /\ Cardinality(Committed)' \in Nat
      /\ Generation \in Nat /\ Budget \in Int
  BY NextCounts
<1> QED BY <1>1, <1>4, <1>5, <1>6 DEF Charged, Bit

\* After a clear nobody has a usable connection.
LEMMA NobodyAble ==
  ASSUME Inv, Inv', Generation' = Generation + 1,
         \A u \in Threads : app'[u].connection \in {app[u].connection, NoConnection}
  PROVE  ~Ready'
<1> SUFFICES ASSUME NEW u \in Threads, Usable(u)' PROVE FALSE
  BY DEF Ready, Able
<1>1. app'[u].connection = app[u].connection /\ app[u].connection.generation >= Generation + 1
  BY DEF Usable
<1>2. /\ app[u].connection.generation \in Nat /\ app[u].connection.born \in Nat
      /\ Generation \in Nat
      /\ app[u].connection.generation <= app[u].connection.born
      /\ app[u].connection.born <= Generation
  BY AppFields DEF Fine
<1> QED BY <1>1, <1>2

\* Thread t clears the pool, and that was counted.
LEMMA ClearStep ==
  ASSUME Inv, Control, Charged, Inv', NEW t \in Threads, OnlyThread(t),
         UNCHANGED <<server, monitor, faults>>, Sound(app'[t]),
         Generation' = Generation + 1, app'[t].connection = NoConnection,
         \/ t \in Committed /\ t \notin Committed'
         \/ Able(t) /\ t \notin Committed'
         \/ t \in Committed /\ Generation = 0
  PROVE  Control' /\ Charged'
<1>1. Control'
  BY ControlStays
<1>2. ~Ready'
  BY NobodyAble DEF OnlyThread
<1>3. Committed' \in SUBSET Committed /\ Committed \in SUBSET Threads
  BY DEF Committed, OnlyThread, Broken
<1>4. /\ Cardinality(Committed) \in Nat /\ Cardinality(Committed)' \in Nat
      /\ Generation \in Nat /\ Budget \in Int
  BY NextCounts
<1>5. Cardinality(Committed') + 1
        <= Cardinality(Committed) + Bit(Ready) + Bit(Generation = 0)
  <2>1. CASE t \in Committed /\ t \notin Committed'
    BY <1>3, <1>4, <2>1, FewerThreads DEF Bit
  <2>2. CASE Able(t)
    BY <1>3, <1>4, <2>2, FewerThreads DEF Bit, Ready
  <2>3. CASE Generation = 0
    BY <1>3, <1>4, <2>3, FewerThreads DEF Bit
  <2> QED BY <2>1, <2>2, <2>3
<1>6. (MonitorDue' <=> MonitorDue) /\ (LateReply' <=> LateReply) /\ Budget' = Budget
  BY DEF MonitorDue, LateReply, Budget
<1> QED BY <1>1, <1>2, <1>4, <1>5, <1>6 DEF Charged, Bit

\* What is left of thread t after its step.
Becomes(t, pc, handshake, connection, reply) ==
  /\ app'[t].pc = pc /\ app'[t].handshake = handshake
  /\ app'[t].connection = connection /\ app'[t].reply = reply

LEMMA GotoBecomes ==
  ASSUME Inv, NEW t \in Threads, NEW pc, Goto(t, pc)
  PROVE  Becomes(t, pc, app[t].handshake, app[t].connection, app[t].reply)
<1>1. app[t] \in AppRec /\ app \in [Threads -> AppRec]
  BY DEF Inv
<1> QED BY <1>1 DEF Goto, Becomes, AppRec

LEMMA DoneBecomes ==
  ASSUME Inv, NEW t \in Threads, NEW c, Done(t, c)
  PROVE  Becomes(t, "idle", app[t].handshake, c, app[t].reply)
<1>1. app[t] \in AppRec /\ app \in [Threads -> AppRec]
  BY DEF Inv
<1> QED BY <1>1 DEF Done, Becomes, AppRec

LEMMA AfterErrorBecomes ==
  ASSUME Inv, NEW t \in Threads, NEW c, AfterError(t, c)
  PROVE  Becomes(t, IF app[t].handshake THEN "failed" ELSE "idle", FALSE, c, NoError)
<1>1. app[t] \in AppRec /\ app \in [Threads -> AppRec]
  BY DEF Inv
<1> DEFINE p == IF app[t].handshake THEN "failed" ELSE "idle"
<1>2. app' = [app EXCEPT ![t] = [app[t] EXCEPT !.pc = p, !.generation = 0,
                !.handshake = FALSE, !.connection = c, !.reply = NoError]]
  BY DEF AfterError
<1> HIDE DEF p
<1>3. Becomes(t, p, FALSE, c, NoError)
  BY <1>1, <1>2 DEF Becomes, AppRec
<1> QED BY <1>3 DEF p

\* A thread without a connection has no error to report.
LEMMA NoneUnable ==
  ASSUME NEW t \in Threads, app'[t].connection = NoConnection
  PROVE  ~Able(t)'
BY DEF Able, Usable

\* A thread that keeps its connection has no new reason.
LEMMA SameUnable ==
  ASSUME NEW t \in Threads, ~app[t].handshake, ~app'[t].handshake, app[t].pc # "failed",
         app'[t].connection = app[t].connection, UNCHANGED <<td, server>>
  PROVE  /\ Able(t)' => Able(t)
         /\ app'[t].pc # "failed" => t \notin Committed'
<1>1. Usable(t)' <=> Usable(t)
  BY DEF Usable, Generation
<1>2. (Broken(t)' <=> Broken(t)) /\ (Outdated(Version)' <=> Outdated(Version))
  BY DEF Broken, Outdated, Version
<1> QED BY <1>1, <1>2 DEF Able, Committed

\* Being without a connection is sound between operations.
LEMMA NoneSound ==
  ASSUME Inv, Control, NEW a, a.connection = NoConnection, ~a.handshake,
         a.pc \in {"idle", "stream", "connect", "failed"}
  PROVE  Sound(a)
<1>1. NoConnection.process = 0 /\ server.process \in Nat
  BY Counts DEF NoConnection
<1> QED BY <1>1 DEF Sound

\* The same description, as the lemmas above want it.
LEMMA SameTd ==
  ASSUME Inv, Control, UNCHANGED <<td, server>>
  PROVE  /\ Generation' = Generation /\ Version' = Version
         /\ Outdated(Version)' => Outdated(Version)
BY DEF Generation, Version, Outdated

LEMMA SelectCharged ==
  ASSUME Inv, Control, Charged, NEW t \in Threads, Select(t)
  PROVE  Control' /\ Charged'
<1>1. Inv' /\ OnlyThread(t)
  BY ThreadStepDoes DEF ThreadStep, Proceed
<1>2. app[t].pc = "idle" /\ UNCHANGED <<td, server, monitor, faults>> /\ Goto(t, "stream")
  BY DEF Select
<1>3. Becomes(t, "stream", app[t].handshake, app[t].connection, app[t].reply)
  BY <1>2, GotoBecomes
<1>4. Sound(app[t])
  BY DEF Control
<1>5. ~app[t].handshake
  BY <1>2, <1>4 DEF Sound
<1>6. Sound(app'[t])
  BY <1>2, <1>3, <1>4, <1>5 DEF Sound, Becomes
<1>7. (Able(t)' => Able(t)) /\ t \notin Committed'
  BY <1>2, <1>3, <1>5, SameUnable DEF Becomes
<1> QED BY <1>1, <1>2, <1>6, <1>7, QuietStep, SameTd

LEMMA FetchStreamCharged ==
  ASSUME Inv, Control, Charged, NEW t \in Threads, FetchStream(t) \/ KillCursor(t)
  PROVE  Control' /\ Charged'
<1>1. Inv' /\ OnlyThread(t)
  BY ThreadStepDoes DEF ThreadStep, Proceed
<1>2. /\ app[t].pc \in {"idle", "stream"} /\ UNCHANGED <<td, server, monitor>>
      /\ FetchStream(t) => faults' = faults
      /\ KillCursor(t) => faults' = faults + 1
  BY DEF FetchStream, KillCursor
<1>3. Sound(app[t]) /\ app[t] \in AppRec /\ app \in [Threads -> AppRec]
  BY DEF Control, Inv
<1>4. ~app[t].handshake
  BY <1>2, <1>3 DEF Sound
<1>5. CASE Usable(t)
  <2>1. app' = [app EXCEPT ![t] = [app[t] EXCEPT !.pc = "run", !.generation = Generation]]
    BY <1>5 DEF FetchStream, KillCursor
  <2>2. Becomes(t, "run", app[t].handshake, app[t].connection, app[t].reply)
    BY <1>3, <2>1 DEF Becomes, AppRec
  <2>3. Sound(app'[t])
    BY <1>3, <1>4, <1>5, <2>2 DEF Sound, Becomes, Usable
  <2>4. (Able(t)' => Able(t)) /\ t \notin Committed'
    BY <1>2, <1>4, <2>2, SameUnable DEF Becomes
  <2> QED BY <1>1, <1>2, <2>3, <2>4, QuietStep, FaultStep, SameTd
<1>6. CASE ~Usable(t)
  <2>1. /\ app'[t].connection = NoConnection /\ app'[t].handshake = app[t].handshake
        /\ app'[t].pc \in {"connect", "failed"}
        /\ FetchStream(t) => app'[t].pc = "connect"
    <3>1. CASE FetchStream(t)
      <4>1. app' = [app EXCEPT ![t] =
              [app[t] EXCEPT !.pc = "connect", !.generation = Generation,
                             !.connection = NoConnection]]
        BY <1>6, <3>1 DEF FetchStream
      <4> QED BY <1>3, <4>1 DEF AppRec
    <3>2. CASE KillCursor(t) /\ ~FetchStream(t)
      <4>1. app' = [app EXCEPT ![t] =
              [app[t] EXCEPT !.pc = "failed", !.connection = NoConnection]]
        BY <1>6, <3>2 DEF KillCursor
      <4> QED BY <1>3, <3>2, <4>1 DEF AppRec
    <3> QED BY <3>1, <3>2
  <2>2. Sound(app'[t]) /\ ~Able(t)'
    BY <1>4, <2>1, NoneSound, NoneUnable
  <2>3. CASE FetchStream(t)
    <3>1. t \notin Committed'
      BY <1>4, <2>1, <2>3 DEF Committed
    <3> QED BY <1>1, <1>2, <2>2, <2>3, <3>1, QuietStep, SameTd
  <2>4. CASE KillCursor(t)
    BY <1>1, <1>2, <2>2, <2>4, FaultStep
  <2> QED BY <2>3, <2>4
<1> QED BY <1>5, <1>6

LEMMA ConnectCharged ==
  ASSUME Inv, Control, Charged, NEW t \in Threads, Connect(t) \/ ConnectFails(t)
  PROVE  Control' /\ Charged'
<1>1. Inv' /\ OnlyThread(t)
  BY ThreadStepDoes DEF ThreadStep, Proceed
<1>2. /\ app[t].pc = "connect" /\ UNCHANGED <<td, server, monitor>>
      /\ Connect(t) => faults' = faults
      /\ ConnectFails(t) => faults' = faults + 1
  BY DEF Connect, ConnectFails
<1>3. Sound(app[t]) /\ app[t] \in AppRec /\ app \in [Threads -> AppRec]
  BY DEF Control, Inv
<1>4. ~app[t].handshake
  BY <1>2, <1>3 DEF Sound
<1>5. CASE Connect(t)
  <2> DEFINE c == [generation |-> app[t].generation, process |-> server.process,
                   born |-> Generation]
  <2>1. Becomes(t, "hello", TRUE, c, app[t].reply)
    BY <1>3, <1>5 DEF Connect, Becomes, AppRec
  <2>2. c.process = server.process /\ server.process \in Nat /\ server.process >= 1
    BY Counts DEF Control
  <2> HIDE DEF c
  <2>3. Sound(app'[t])
    BY <2>1, <2>2 DEF Sound, Becomes
  <2>4. ~Able(t)' /\ t \notin Committed'
    BY <1>2, <2>1, <2>2 DEF Able, Committed, Becomes, Broken
  <2> QED BY <1>1, <1>2, <1>5, <2>3, <2>4, QuietStep, SameTd
<1>6. CASE ConnectFails(t)
  <2>1. Becomes(t, "failed", app[t].handshake, app[t].connection, app[t].reply)
    BY <1>6, GotoBecomes DEF ConnectFails
  <2>2. Sound(app'[t])
    BY <1>2, <1>3, <1>4, <2>1 DEF Sound, Becomes
  <2>3. ~Able(t)'
    BY <2>1 DEF Able, Becomes
  <2> QED BY <1>1, <1>2, <1>6, <2>2, <2>3, FaultStep
<1> QED BY <1>5, <1>6

LEMMA HandshakeHelloCharged ==
  ASSUME Inv, Control, Charged, NEW t \in Threads, HandshakeHello(t)
  PROVE  Control' /\ Charged'
<1>1. Inv' /\ OnlyThread(t)
  BY ThreadStepDoes DEF ThreadStep, Proceed
<1>2. app[t].pc = "hello" /\ UNCHANGED <<td, server, monitor, faults>>
  BY DEF HandshakeHello
<1>3. Sound(app[t]) /\ app[t] \in AppRec /\ app \in [Threads -> AppRec]
  BY DEF Control, Inv
<1>4. app[t].handshake
  BY <1>2, <1>3 DEF Sound
<1>5. CASE Broken(t)
  <2>1. Becomes(t, "network_error", app[t].handshake, app[t].connection, app[t].reply)
    BY <1>3, <1>5 DEF HandshakeHello, Becomes, AppRec
  <2>2. Sound(app'[t])
    BY <1>2, <1>3, <1>4, <1>5, <2>1 DEF Sound, Becomes, Broken
  <2>3. ~Able(t)' /\ t \in Committed
    BY <1>4, <1>5, <2>1 DEF Able, Becomes, Committed
  <2> QED BY <1>1, <1>2, <2>2, <2>3, QuietStep, SameTd
<1>6. CASE ~Broken(t)
  <2>1. Becomes(t, "handshake", app[t].handshake, app[t].connection, HelloNow)
    BY <1>3, <1>6 DEF HandshakeHello, Becomes, AppRec
  <2>2. HelloNow.topology_version = VersionNow /\ server.counter \in Nat
    BY Counts DEF HelloNow, Reply
  <2>3. VersionNow.process = server.process /\ VersionNow.counter = server.counter
    BY DEF VersionNow
  <2>4. Sound(app'[t])
    BY <1>2, <1>3, <1>4, <1>6, <2>1, <2>2, <2>3 DEF Sound, Becomes, Broken
  <2>5. ~Able(t)'
    BY <1>2, <1>4, <2>1, <2>2, <2>3 DEF Able, Becomes, Outdated
  <2>6. t \notin Committed'
    BY <1>2, <1>6, <2>1 DEF Committed, Becomes, Broken
  <2> QED BY <1>1, <1>2, <2>4, <2>5, <2>6, QuietStep, SameTd
<1> QED BY <1>5, <1>6

\* What the description knows of a reply's process once the reply is applied.
LEMMA HelloLearns ==
  ASSUME Inv, Control, NEW h \in Replies, h.topology_version.process \in Nat,
         td' = HandleHello(td, Id, h)
  PROVE  /\ Generation' = Generation
         /\ Version'.process = h.topology_version.process
         /\ Version'.counter >= h.topology_version.counter
         /\ Version.process = h.topology_version.process => Version'.counter >= Version.counter
<1>1. h.topology_version # NoTopologyVersion
  BY TopologyAssumption DEF NoTopologyVersion
<1>2. /\ td'.servers[Id].generation = td.servers[Id].generation
      /\ td'.servers[Id].topology_version =
           IF VersionLater(td.servers[Id].topology_version, h.topology_version)
             THEN td.servers[Id].topology_version ELSE h.topology_version
  BY <1>1, HandleHelloDoes DEF Inv
<1>3. Generation' = Generation
      /\ Version' = IF VersionLater(Version, h.topology_version)
                      THEN Version ELSE h.topology_version
  BY <1>2 DEF Generation, Version
<1>4. /\ Version \in Versions /\ h.topology_version \in Versions
      /\ Version.counter \in Nat /\ h.topology_version.counter \in Nat
  BY Counts, ReportedVersion DEF Replies, Versions, Reported
<1>5. Version = NoTopologyVersion => Version.process \notin Nat
  BY TopologyAssumption DEF NoTopologyVersion
<1>6. CASE VersionLater(Version, h.topology_version)
  BY <1>3, <1>4, <1>6 DEF VersionLater
<1>7. CASE ~VersionLater(Version, h.topology_version)
  <2>1. Version' = h.topology_version
    BY <1>3, <1>7
  <2>2. Version.process = h.topology_version.process =>
          h.topology_version.counter >= Version.counter
    BY <1>1, <1>4, <1>5, <1>7 DEF VersionLater
  <2> QED BY <1>3, <1>4, <2>1, <2>2
<1> QED BY <1>6, <1>7

LEMMA UpdateFromHandshakeCharged ==
  ASSUME Inv, Control, Charged, NEW t \in Threads, UpdateFromHandshake(t)
  PROVE  Control' /\ Charged'
<1>1. Inv' /\ OnlyThread(t)
  BY ThreadStepDoes DEF ThreadStep, Proceed
<1>2. /\ app[t].pc = "handshake" /\ UNCHANGED <<server, monitor, faults>>
      /\ td' = HandleHello(td, Id, app[t].reply)
  BY DEF UpdateFromHandshake
<1>3. Sound(app[t]) /\ app[t] \in AppRec /\ app \in [Threads -> AppRec]
  BY DEF Control, Inv
<1>4. app[t].handshake
  BY <1>2, <1>3 DEF Sound
<1>5. Becomes(t, "run", FALSE, app[t].connection, NoError)
  BY <1>3 DEF UpdateFromHandshake, Becomes, AppRec
<1>6. Sound(app'[t])
  BY <1>2, <1>3, <1>5 DEF Sound, Becomes
<1>7. /\ app[t].reply \in Replies
      /\ app[t].reply.topology_version.process = app[t].connection.process
      /\ app[t].connection.process \in Nat
  BY <1>2, <1>3, AppFields DEF Fine, Sound
<1> DEFINE tv == app[t].reply.topology_version
<1>8. /\ Generation' = Generation
      /\ Version'.process = tv.process
      /\ Version'.counter >= tv.counter
      /\ Version.process = tv.process => Version'.counter >= Version.counter
  BY <1>2, <1>7, HelloLearns
<1>9. t \notin Committed'
  BY <1>5 DEF Committed, Becomes
<1>10. CASE Broken(t)
  <2>1. t \in Committed
    BY <1>4, <1>10 DEF Committed
  <2> QED BY <1>1, <1>2, <1>6, <1>8, <1>9, <2>1, LateStep
<1>11. CASE ~Broken(t)
  <2>1. tv.process = server.process
    BY <1>7, <1>11 DEF Broken
  <2>2. /\ Version \in Versions /\ tv \in Versions /\ server.counter \in Nat
        /\ Version' \in Versions
    BY <1>1, AppFields, Counts, NextCounts
  <2>3. /\ Version.counter \in Nat /\ tv.counter \in Nat /\ Version'.counter \in Nat
    BY <2>2 DEF Versions
  <2> HIDE DEF tv
  <2>4. Outdated(Version)' => Outdated(Version)
    BY <1>2, <1>8, <2>1, <2>2, <2>3 DEF Outdated
  <2>5. Outdated(Version)' => Outdated(tv)
    BY <1>2, <1>8, <2>1, <2>2, <2>3 DEF Outdated
  <2>6. Able(t)' => Able(t)
    <3>1. Usable(t)' => Usable(t)
      BY <1>5, <1>8 DEF Usable, Becomes
    <3>2. ~Broken(t)'
      BY <1>2, <1>5, <1>11 DEF Broken, Becomes
    <3>3. ~app'[t].handshake
      BY <1>5 DEF Becomes
    <3> QED BY <1>2, <1>4, <1>11, <2>5, <3>1, <3>2, <3>3 DEF Able, tv
  <2> QED BY <1>1, <1>2, <1>6, <1>8, <1>9, <2>4, <2>6, QuietStep
<1> QED BY <1>10, <1>11

LEMMA RunCommandCharged ==
  ASSUME Inv, Control, Charged, NEW t \in Threads, RunCommand(t) \/ Timeout(t)
  PROVE  Control' /\ Charged'
<1>1. Inv' /\ OnlyThread(t)
  BY ThreadStepDoes DEF ThreadStep, Proceed
<1>2. app[t].pc = "run" /\ UNCHANGED <<td, server, monitor, faults>>
  BY DEF RunCommand, Timeout
<1>3. Sound(app[t]) /\ app[t] \in AppRec /\ app \in [Threads -> AppRec]
  BY DEF Control, Inv
<1>4. ~app[t].handshake
  BY <1>2, <1>3 DEF Sound
<1>5. CASE Timeout(t)
  <2>1. Becomes(t, "idle", app[t].handshake, NoConnection, app[t].reply)
    BY <1>5, DoneBecomes DEF Timeout
  <2>2. Sound(app'[t]) /\ ~Able(t)'
    BY <1>4, <2>1, NoneSound, NoneUnable DEF Becomes
  <2>3. t \notin Committed'
    BY <1>4, <2>1 DEF Committed, Becomes
  <2> QED BY <1>1, <1>2, <2>2, <2>3, QuietStep, SameTd
<1>6. CASE RunCommand(t)
  <2>1. ASSUME Sound(app'[t]), ~app'[t].handshake, app'[t].pc # "failed",
               app'[t].connection = app[t].connection
        PROVE  Control' /\ Charged'
    <3>1. (Able(t)' => Able(t)) /\ t \notin Committed'
      BY <1>2, <1>4, <2>1, SameUnable
    <3> QED BY <1>1, <1>2, <2>1, <3>1, QuietStep, SameTd
  <2>2. CASE Broken(t) /\ Goto(t, "network_error")
    <3>1. Becomes(t, "network_error", app[t].handshake, app[t].connection, app[t].reply)
      BY <2>2, GotoBecomes
    <3>2. Sound(app'[t])
      BY <1>2, <1>3, <1>4, <2>2, <3>1 DEF Sound, Becomes, Broken
    <3> QED BY <1>4, <2>1, <3>1, <3>2 DEF Becomes
  <2>3. CASE Done(t, app[t].connection)
    <3>1. Becomes(t, "idle", app[t].handshake, app[t].connection, app[t].reply)
      BY <2>3, DoneBecomes
    <3>2. Sound(app'[t])
      BY <1>2, <1>3, <1>4, <3>1 DEF Sound, Becomes
    <3> QED BY <1>4, <2>1, <3>1, <3>2 DEF Becomes
  <2>4. ASSUME ~Broken(t), NEW shutdown \in BOOLEAN,
               app' = [app EXCEPT ![t].pc = "command_error", ![t].reply =
                         [topology_version |-> VersionNow, shutdown |-> shutdown]]
        PROVE  Control' /\ Charged'
    <3> DEFINE e == [topology_version |-> VersionNow, shutdown |-> shutdown]
    <3>1. Becomes(t, "command_error", app[t].handshake, app[t].connection, e)
      BY <1>3, <2>4 DEF Becomes, AppRec
    <3>2. /\ e.topology_version.process = server.process
          /\ e.topology_version.counter = server.counter /\ server.counter \in Nat
      BY Counts DEF VersionNow
    <3> HIDE DEF e
    <3>3. Sound(app'[t])
      BY <1>2, <1>3, <1>4, <2>4, <3>1, <3>2 DEF Sound, Becomes, Broken
    <3> QED BY <1>4, <2>1, <3>1, <3>3 DEF Becomes
  <2> QED BY <1>6, <2>2, <2>3, <2>4 DEF RunCommand
<1> QED BY <1>5, <1>6

LEMMA StreamFailedCharged ==
  ASSUME Inv, Control, Charged, NEW t \in Threads, StreamFailed(t)
  PROVE  Control' /\ Charged'
<1>1. Inv' /\ OnlyThread(t)
  BY ThreadStepDoes DEF ThreadStep, Proceed
<1>2. /\ app[t].pc = "failed" /\ UNCHANGED <<server, monitor, faults>>
      /\ td' = ClearConnectionPool(Invalidate(td, Id), Id) /\ Done(t, NoConnection)
  BY DEF StreamFailed
<1>3. ~app[t].handshake
  BY <1>2 DEF Control, Sound
<1>4. Generation' = Generation + 1
  BY <1>2, NetworkErrorDoes DEF Inv, Generation
<1>5. Becomes(t, "idle", app[t].handshake, NoConnection, app[t].reply)
  BY <1>2, DoneBecomes
<1>6. Sound(app'[t])
  BY <1>3, <1>5, NoneSound DEF Becomes
<1>7. t \in Committed /\ t \notin Committed'
  BY <1>2, <1>3, <1>5 DEF Committed, Becomes
<1> QED BY <1>1, <1>2, <1>4, <1>5, <1>6, <1>7, ClearStep DEF Becomes

LEMMA NetworkErrorCharged ==
  ASSUME Inv, Control, Charged, NEW t \in Threads,
         CheckNetworkError(t) \/ HandleNetworkError(t)
  PROVE  Control' /\ Charged'
<1>1. Inv' /\ OnlyThread(t)
  BY ThreadStepDoes DEF ThreadStep, Proceed
<1>2. /\ app[t].pc \in {"network_error", "network_lock"}
      /\ UNCHANGED <<server, monitor, faults>>
  BY DEF CheckNetworkError, HandleNetworkError
<1>3. Sound(app[t]) /\ app[t].handshake \in BOOLEAN
  BY AppFields DEF Control, AppRec
<1>4. Broken(t) /\ app[t].connection # NoConnection
  <2>1. app[t].connection.process # server.process /\ app[t].connection.process # 0
    BY <1>2, <1>3 DEF Sound
  <2> QED BY <2>1 DEF Broken, NoConnection
<1>5. app[t].handshake => t \in Committed
  BY <1>4 DEF Committed
<1>6. CASE Goto(t, "network_lock") /\ td' = td
  <2>1. Becomes(t, "network_lock", app[t].handshake, app[t].connection, app[t].reply)
    BY <1>6, GotoBecomes
  <2>2. Sound(app'[t])
    BY <1>2, <1>3, <1>4, <2>1 DEF Sound, Becomes, Broken
  <2>3. CASE app[t].handshake
    <3>1. ~Able(t)'
      BY <2>1, <2>3 DEF Able, Becomes
    <3> QED BY <1>1, <1>2, <1>5, <1>6, <2>2, <2>3, <3>1, QuietStep, SameTd
  <2>4. CASE ~app[t].handshake
    <3>1. (Able(t)' => Able(t)) /\ t \notin Committed'
      BY <1>2, <1>6, <2>1, <2>4, SameUnable DEF Becomes
    <3> QED BY <1>1, <1>2, <1>6, <2>2, <3>1, QuietStep, SameTd
  <2> QED BY <2>3, <2>4
<1>7. ASSUME AfterError(t, NoConnection)
      PROVE  /\ app'[t].connection = NoConnection /\ Sound(app'[t]) /\ ~Able(t)'
             /\ ~app[t].handshake => t \notin Committed'
  <2>1. Becomes(t, IF app[t].handshake THEN "failed" ELSE "idle", FALSE, NoConnection, NoError)
    BY <1>7, AfterErrorBecomes
  <2>2. app'[t].connection = NoConnection /\ app'[t].handshake = FALSE
        /\ app'[t].pc \in {"idle", "failed"}
        /\ (~app[t].handshake => app'[t].pc = "idle")
    BY <2>1 DEF Becomes
  <2>3. Sound(app'[t]) /\ ~Able(t)'
    BY <2>2, NoneSound, NoneUnable
  <2>4. ~app[t].handshake => t \notin Committed'
    BY <2>2 DEF Committed
  <2> QED BY <2>2, <2>3, <2>4
<1>8. CASE AfterError(t, NoConnection) /\ td' = td
  <2>1. t \in Committed' => t \in Committed
    BY <1>5, <1>7, <1>8
  <2> QED BY <1>1, <1>2, <1>7, <1>8, <2>1, QuietStep, SameTd
<1>9. CASE /\ AfterError(t, NoConnection) /\ ~(ErrorGeneration(t) < Generation)
           /\ td' = ClearConnectionPool(Invalidate(td, Id), Id)
  <2>1. Generation' = Generation + 1
    BY <1>9, NetworkErrorDoes DEF Inv, Generation
  <2>2. CASE app[t].handshake
    <3>1. Generation = 0
      BY <1>9, <2>2, Counts DEF ErrorGeneration
    <3> QED BY <1>1, <1>2, <1>5, <1>7, <1>9, <2>1, <2>2, <3>1, ClearStep
  <2>3. CASE ~app[t].handshake
    <3>1. app[t].connection.generation >= Generation
      BY <1>9, <2>3, AppFields DEF ErrorGeneration
    <3>2. Able(t)
      BY <1>2, <1>4, <2>3, <3>1 DEF Able, Usable
    <3> QED BY <1>1, <1>2, <1>7, <1>9, <2>1, <2>3, <3>2, ClearStep
  <2> QED BY <2>2, <2>3
<1>10. CASE CheckNetworkError(t)
  BY <1>6, <1>8, <1>10 DEF CheckNetworkError
<1>11. CASE HandleNetworkError(t)
  BY <1>8, <1>9, <1>11 DEF HandleNetworkError
<1> QED BY <1>10, <1>11

LEMMA CommandErrorCharged ==
  ASSUME Inv, Control, Charged, NEW t \in Threads,
         CheckCommandError(t) \/ HandleCommandError(t)
  PROVE  Control' /\ Charged'
<1>1. Inv' /\ OnlyThread(t)
  BY ThreadStepDoes DEF ThreadStep, Proceed
<1>2. /\ app[t].pc \in {"command_error", "command_lock"}
      /\ UNCHANGED <<server, monitor, faults>>
  BY DEF CheckCommandError, HandleCommandError
<1>3. Sound(app[t])
  BY DEF Control
<1>4. ~app[t].handshake /\ app[t].connection.process # 0
  BY <1>2, <1>3 DEF Sound
<1>5. ASSUME NEW c \in {app[t].connection, NoConnection}, AfterError(t, c)
      PROVE  /\ app'[t].connection = c /\ Sound(app'[t])
             /\ ~app'[t].handshake /\ app'[t].pc = "idle" /\ t \notin Committed'
  <2>1. Becomes(t, "idle", FALSE, c, NoError)
    BY <1>4, <1>5, AfterErrorBecomes
  <2>2. Sound(app'[t])
    <3>1. CASE c = NoConnection
      BY <2>1, <3>1, NoneSound DEF Becomes
    <3>2. CASE c = app[t].connection
      BY <1>3, <2>1, <3>2 DEF Becomes, Sound
    <3> QED BY <3>1, <3>2
  <2> QED BY <2>1, <2>2 DEF Becomes, Committed
<1>6. CASE AfterError(t, app[t].connection) /\ td' = td
  <2>1. Able(t)' => Able(t)
    BY <1>2, <1>4, <1>5, <1>6, SameUnable
  <2> QED BY <1>1, <1>2, <1>5, <1>6, <2>1, QuietStep, SameTd
<1>7. CASE Goto(t, "command_lock") /\ td' = td
  <2>1. Becomes(t, "command_lock", app[t].handshake, app[t].connection, app[t].reply)
    BY <1>7, GotoBecomes
  <2>2. Sound(app'[t])
    BY <1>2, <1>3, <1>4, <2>1 DEF Sound, Becomes
  <2>3. (Able(t)' => Able(t)) /\ t \notin Committed'
    BY <1>2, <1>4, <1>7, <2>1, SameUnable DEF Becomes
  <2> QED BY <1>1, <1>2, <1>7, <2>2, <2>3, QuietStep, SameTd
<1>8. CASE CheckCommandError(t)
  BY <1>6, <1>7, <1>8 DEF CheckCommandError
<1>9. CASE HandleCommandError(t)
  <2> DEFINE tv == app[t].reply.topology_version
             shutdown == app[t].reply.shutdown
             v == [td EXCEPT !.servers[Id].topology_version = tv]
             c == IF shutdown THEN ClearConnectionPool(v, Id) ELSE v
  <2>1. CASE KnownVersion(tv) \/ ErrorGeneration(t) < Generation
    <3>1. td' = td /\ AfterError(t, app[t].connection)
      BY <1>9, <2>1 DEF HandleCommandError
    <3> QED BY <1>6, <3>1
  <2>2. CASE ~(KnownVersion(tv) \/ ErrorGeneration(t) < Generation)
    <3>1. /\ td' = Invalidate(c, Id)
          /\ AfterError(t, IF shutdown THEN NoConnection ELSE app[t].connection)
      BY <1>9, <2>2 DEF HandleCommandError
    <3>2. tv \in Versions /\ tv.counter \in Nat /\ Version.counter \in Nat
      BY AppFields, Counts DEF Versions
    <3>3. Generation' = IF shutdown THEN Generation + 1 ELSE Generation
      <4> HIDE DEF tv, shutdown
      <4> QED BY <3>1, <3>2, CommandErrorDoes DEF Inv, Generation
    <3>4. Usable(t)
      BY <1>4, <2>2, AppFields DEF Usable, ErrorGeneration, NoConnection
    <3>5. Broken(t) \/ Outdated(Version)
      <4>1. CASE app[t].connection.process = server.process
        <5>1. tv.process = server.process /\ tv.counter <= server.counter
          BY <1>2, <1>3, <4>1 DEF Sound
        <5>2. Version.process # tv.process \/ ~(Version.counter >= tv.counter)
          BY <2>2 DEF KnownVersion, Version
        <5> HIDE DEF tv
        <5> QED BY <3>2, <5>1, <5>2, Counts DEF Outdated
      <4> QED BY <4>1 DEF Broken
    <3>6. Able(t)
      BY <1>2, <1>4, <3>4, <3>5 DEF Able
    <3>7. CASE shutdown
      BY <1>1, <1>2, <1>5, <3>1, <3>3, <3>6, <3>7, ClearStep
    <3>8. CASE ~shutdown
      BY <1>1, <1>2, <1>5, <3>1, <3>3, <3>6, <3>8, LateStep DEF Ready
    <3> QED BY <3>7, <3>8
  <2> QED BY <2>1, <2>2
<1> QED BY <1>8, <1>9

LEMMA ThreadStepCharged ==
  ASSUME Inv, Control, Charged, NEW t \in Threads, ThreadStep(t)
  PROVE  Control' /\ Charged'
BY SelectCharged, FetchStreamCharged, ConnectCharged, HandshakeHelloCharged,
   UpdateFromHandshakeCharged, RunCommandCharged, StreamFailedCharged, NetworkErrorCharged,
   CommandErrorCharged DEF ThreadStep, Proceed

\* A change of role makes one clear possible, and counts as a change.
LEMMA ChangeRoleCharged ==
  ASSUME Inv, Control, Charged, ChangeRole
  PROVE  Control' /\ Charged'
<1>1. /\ UNCHANGED <<td, app, monitor, faults>> /\ Inv'
      /\ server \in ServerState
  BY EnvironmentDoes DEF Environment, ChangeRole, Inv
<1>2. /\ server'.process = server.process /\ server'.counter = server.counter + 1
      /\ server'.changes = server.changes + 1
  BY <1>1 DEF ChangeRole, ServerState
<1>3. ASSUME NEW t \in Threads PROVE Sound(app[t])'
  <2>1. Sound(app[t]) /\ server.counter \in Nat /\ app[t].reply.topology_version.counter \in Nat
    BY AppFields, Counts DEF Control, Versions
  <2> QED BY <1>1, <1>2, <2>1 DEF Sound
<1>4. Control'
  BY <1>1, <1>2, <1>3 DEF Control, MonitorSound
<1>5. Committed' = Committed /\ Generation' = Generation
  BY <1>1, <1>2 DEF Committed, Broken, Generation
<1>6. (MonitorDue' <=> MonitorDue) /\ (LateReply' <=> LateReply)
  BY <1>1, <1>2 DEF MonitorDue, LateReply
<1>7. Budget' = Budget + 1
  <2>1. Budget' = (server.process - 1) * (Cardinality(Threads) + 1)
                    + ((server.changes + 1) + 1) + faults
    BY <1>1, <1>2 DEF Budget
  <2> DEFINE k == (server.process - 1) * (Cardinality(Threads) + 1)
  <2>2. k \in Int
    BY Counts
  <2> HIDE DEF k
  <2>3. Budget' = k + ((server.changes + 1) + 1) + faults
        /\ Budget = k + (server.changes + 1) + faults
    BY <2>1 DEF Budget, k
  <2> QED BY <2>2, <2>3, Counts
<1> QED BY <1>4, <1>5, <1>6, <1>7, Counts DEF Charged, Bit

(* A restart breaks all connections: each thread either is in a handshake, *)
(* which commits it, or can at most be the one that clears.                *)
LEMMA RestartCharged ==
  ASSUME Inv, Control, Charged, Restart
  PROVE  Control' /\ Charged'
<1>1. /\ UNCHANGED <<td, app, monitor, faults>> /\ Inv'
      /\ server \in ServerState
  BY EnvironmentDoes DEF Environment, Restart, Inv
<1>2. /\ server'.process = server.process + 1 /\ server'.counter = 0
      /\ server'.changes = server.changes + 1
  BY <1>1 DEF Restart, ServerState
<1>3. ASSUME NEW t \in Threads
      PROVE  Sound(app[t])' /\ app[t].connection.process # server'.process
  <2>1. /\ Sound(app[t]) /\ server.process \in Nat /\ app[t].connection.process \in Nat
        /\ app[t].connection.process <= server.process
    BY AppFields, Counts DEF Control, Sound
  <2>2. app[t].connection.process # server'.process
        /\ app[t].connection.process <= server'.process
    BY <1>2, <2>1
  <2> QED BY <1>1, <2>1, <2>2 DEF Sound
<1>4. Control'
  <2>1. server'.process >= 1
    BY <1>2, Counts
  <2> QED BY <1>1, <1>3, <2>1 DEF Control, MonitorSound
<1>5. Generation' = Generation
  BY <1>1 DEF Generation
<1>6. Cardinality(Committed') + Bit(Ready') <= Cardinality(Threads)
  <2>0. Committed' \in SUBSET Threads /\ Threads \in SUBSET Threads
    BY DEF Committed
  <2>1. CASE ~Ready'
    BY <2>0, <2>1, FewerThreads DEF Bit
  <2>2. CASE Ready'
    <3>1. PICK u \in Threads : Able(u)'
      BY <2>2 DEF Ready
    <3>2. Broken(u)'
      BY <1>1, <1>3 DEF Broken
    <3>3. u \notin Committed'
      BY <3>1, <3>2 DEF Able, Committed
    <3> QED BY <2>0, <2>2, <3>3, FewerThreads DEF Bit
  <2> QED BY <2>1, <2>2
<1>7. Budget' = Budget + Cardinality(Threads) + 2
  <2> DEFINE n == Cardinality(Threads) + 1
             p == server.process
             k == (p - 1) * n
             l == ((p + 1) - 1) * n
  <2>1. n \in Nat /\ p \in Nat
    BY Counts
  <2>2. Budget = k + (server.changes + 1) + faults
        /\ Budget' = l + ((server.changes + 1) + 1) + faults
    BY <1>1, <1>2 DEF Budget
  <2>3. n = Cardinality(Threads) + 1
    OBVIOUS
  <2> HIDE DEF n, p
  <2>4. k \in Int /\ l = k + n
    BY <2>1
  <2> HIDE DEF k, l
  <2> QED BY <2>2, <2>3, <2>4, Counts
<1>8. /\ Cardinality(Committed) \in Nat /\ Cardinality(Committed)' \in Nat
      /\ Generation \in Nat /\ Budget \in Int /\ Cardinality(Threads) \in Nat
  BY <1>1, NextCounts, Counts
<1> QED BY <1>4, <1>5, <1>6, <1>7, <1>8 DEF Charged, Bit

\* The monitor's reply, its clear and what goes before them.
LEMMA MonitorCharged ==
  ASSUME Inv, Control, Charged, MonitorStep \/ MonitorFails
  PROVE  Control' /\ Charged'
<1>1. Inv' /\ UNCHANGED <<app, server>>
  BY MonitorDoes DEF MonitorStep, MonitorCheck, MonitorCancelled, MonitorUpdate,
                     MonitorClear, MonitorInvalidate, MonitorFails
<1>2. /\ monitor \in MonitorRec /\ MonitorSound
      /\ server.process \in Nat /\ server.process >= 1 /\ faults \in Nat
      /\ Cardinality(Committed) \in Nat /\ Generation \in Nat /\ Budget \in Int
  BY Counts DEF Inv, Control
<1>3. Committed' = Committed
  BY <1>1 DEF Committed, Broken
<1>4. ASSUME MonitorSound', faults' \in Nat PROVE Control'
  BY <1>1, <1>4 DEF Control, Sound
<1>5. ASSUME Version' = Version, Generation' = Generation
      PROVE  Ready' => Ready
  <2>1. \A t \in Threads : Able(t)' => Able(t)
    BY <1>1, <1>5 DEF Able, Usable, Broken, Outdated
  <2> QED BY <2>1 DEF Ready
<1>6. CASE MonitorCheck
  <2>1. /\ monitor.pc = "check" /\ UNCHANGED <<td, faults>>
        /\ monitor' =
             IF monitor.process \in {0, server.process}
               THEN [pc |-> "update", process |-> server.process, reply |-> HelloNow]
               ELSE [pc |-> "clear", process |-> 0, reply |-> NoError]
    BY <1>6 DEF MonitorCheck
  <2>2. Version' = Version /\ Generation' = Generation /\ Budget' = Budget
    BY <1>1, <2>1 DEF Version, Generation, Budget
  <2>3. HelloNow.topology_version.process = server.process
    BY DEF HelloNow, Reply, VersionNow
  <2>4. MonitorSound' /\ ~LateReply' /\ (MonitorDue' => MonitorDue)
    <3>1. CASE monitor.process \in {0, server.process}
      <4>1. /\ monitor'.pc = "update" /\ monitor'.process = server.process
            /\ monitor'.reply = HelloNow
        BY <2>1, <3>1
      <4> QED BY <1>1, <1>2, <2>3, <4>1 DEF MonitorSound, LateReply, MonitorDue
    <3>2. CASE monitor.process \notin {0, server.process}
      <4>1. monitor'.pc = "clear" /\ monitor'.process = 0
        BY <2>1, <3>2
      <4> QED BY <1>1, <3>2, <4>1 DEF MonitorSound, LateReply, MonitorDue
    <3> QED BY <3>1, <3>2
  <2> QED BY <1>1, <1>2, <1>3, <1>4, <1>5, <2>1, <2>2, <2>4, NothingDue
<1>7. CASE MonitorFails
  <2>1. /\ monitor.pc = "check" /\ UNCHANGED td /\ faults' = faults + 1
        /\ monitor' = [pc |-> "clear", process |-> 0, reply |-> NoError]
    BY <1>7 DEF MonitorFails
  <2>2. monitor'.pc = "clear" /\ monitor'.process = 0
    BY <2>1
  <2>3. MonitorSound' /\ ~LateReply'
    BY <2>2 DEF MonitorSound, LateReply
  <2>4. Version' = Version /\ Generation' = Generation
    BY <2>1 DEF Version, Generation
  <2>5. Budget' = Budget + 1
    BY <1>1, <2>1, FaultBudget
  <2> QED BY <1>2, <1>3, <1>4, <1>5, <2>1, <2>3, <2>4, <2>5 DEF Charged, Bit
<1>8. CASE MonitorCancelled \/ MonitorInvalidate
  <2>1. /\ monitor'.pc = "check" /\ monitor'.process \in {0, monitor.process}
        /\ faults' = faults
    BY <1>2, <1>8 DEF MonitorCancelled, MonitorInvalidate, MonitorRec
  <2>2. MonitorSound' /\ ~LateReply' /\ (MonitorDue' => MonitorDue)
    BY <1>1, <2>1 DEF MonitorSound, LateReply, MonitorDue
  <2>3. Version' = Version /\ Generation' = Generation
    BY <1>8, InvalidateKeeps
       DEF Version, Generation, MonitorCancelled, MonitorInvalidate, Keeps, Inv
  <2>4. Budget' = Budget
    BY <1>1, <2>1 DEF Budget
  <2> QED BY <1>1, <1>2, <1>3, <1>4, <1>5, <2>1, <2>2, <2>3, <2>4, NothingDue
<1>9. CASE MonitorClear
  <2>1. /\ monitor.pc = "clear" /\ monitor.process = 0
        /\ monitor'.pc = "invalidate" /\ monitor'.process = 0 /\ faults' = faults
    BY <1>2, <1>9 DEF MonitorClear, MonitorRec, MonitorSound
  <2>2. MonitorSound' /\ ~LateReply' /\ ~MonitorDue' /\ MonitorDue /\ ~LateReply
    BY <2>1 DEF MonitorSound, LateReply, MonitorDue
  <2>3. Generation' = Generation + 1
    BY <1>9, ClearDoes DEF Generation, MonitorClear, Inv
  <2>4. ~Ready'
    BY <1>1, <2>3, NobodyAble
  <2>5. Budget' = Budget
    BY <1>1, <2>1 DEF Budget
  <2> QED BY <1>2, <1>3, <1>4, <2>1, <2>2, <2>3, <2>4, <2>5 DEF Charged, Bit
<1>10. CASE MonitorUpdate
  <2> DEFINE tv == monitor.reply.topology_version
  <2>1. /\ monitor.pc = "update" /\ monitor'.pc = "check"
        /\ monitor'.process = monitor.process /\ faults' = faults
        /\ td' = HandleHello(td, Id, monitor.reply)
    BY <1>2, <1>10 DEF MonitorUpdate, MonitorRec
  <2>2. /\ MonitorSound' /\ ~LateReply' /\ (MonitorDue' => MonitorDue)
        /\ tv.process = monitor.process /\ monitor.process \in Nat
        /\ monitor.reply \in Replies
    BY <1>1, <1>2, <2>1 DEF MonitorSound, LateReply, MonitorDue, MonitorRec, Inv
  <2>3. /\ Generation' = Generation
        /\ Version'.process = tv.process /\ Version'.counter >= tv.counter
        /\ Version.process = tv.process => Version'.counter >= Version.counter
    BY <2>1, <2>2, HelloLearns
  <2>4. Budget' = Budget
    BY <1>1, <2>1 DEF Budget
  <2>5. CASE LateReply
    BY <1>2, <1>3, <1>4, <2>1, <2>2, <2>3, <2>4, <2>5 DEF Charged, Bit
  <2>6. CASE ~LateReply
    <3>1. tv.process = server.process
      BY <2>1, <2>2, <2>6 DEF LateReply
    <3>2. Version.counter \in Nat /\ Version'.counter \in Nat /\ server.counter \in Nat
      BY <1>1, Counts, NextCounts DEF Versions
    <3> HIDE DEF tv
    <3>3. Outdated(Version)' => Outdated(Version)
      BY <1>1, <2>3, <3>1, <3>2 DEF Outdated
    <3>4. Ready' => Ready
      <4>1. \A t \in Threads : Able(t)' => Able(t)
        BY <1>1, <2>3, <3>3 DEF Able, Usable, Broken, Outdated
      <4> QED BY <4>1 DEF Ready
    <3> QED BY <1>1, <1>2, <1>3, <1>4, <2>1, <2>2, <2>3, <2>4, <3>4, NothingDue
  <2> QED BY <2>5, <2>6
<1> QED BY <1>6, <1>7, <1>8, <1>9, <1>10 DEF MonitorStep

LEMMA InitCharged == TopologyInit => Control /\ Charged
<1> SUFFICES ASSUME TopologyInit PROVE Control /\ Charged
  OBVIOUS
<1>1. Inv
  BY InitInv
<1>2. /\ server.process = 1 /\ server.changes = 0 /\ server.counter = 1 /\ faults = 0
      /\ monitor.pc = "check" /\ monitor.process = 0
      /\ \A t \in Threads : /\ app[t].pc = "idle" /\ app[t].handshake = FALSE
                            /\ app[t].connection = NoConnection
  BY DEF TopologyInit
<1>3. Control
  <2>1. NoConnection.process = 0
    BY DEF NoConnection
  <2> QED BY <1>2, <2>1 DEF Control, Sound, MonitorSound
<1>4. Committed = {} /\ Cardinality(Committed) = 0
  BY <1>2, FS_EmptySet DEF Committed
<1>5. ~Ready /\ ~MonitorDue /\ ~LateReply
  BY <1>2 DEF Ready, Able, Usable, MonitorDue, LateReply
<1>6. Generation = 0
  BY InitInv
<1>7. Budget = 1
  BY <1>1, <1>2, <1>3, Counts DEF Budget
<1> QED BY <1>3, <1>4, <1>5, <1>6, <1>7 DEF Charged, Bit

(* However the threads, the monitor and the server's restarts interleave,  *)
(* mongoc_topology_t clears the pool of a server at most so often as there *)
(* were failures to answer for: the threads do not go on invalidating each *)
(* other's connections.                                                    *)
THEOREM ClearsPaid == TopologySpec => []ClearsBounded
<1>1. Inv /\ Control /\ Charged /\ [TopologyNext]_topologyVars => Control' /\ Charged'
  <2> SUFFICES ASSUME Inv, Control, Charged, [TopologyNext]_topologyVars
               PROVE  Control' /\ Charged'
    OBVIOUS
  <2>1. CASE UNCHANGED topologyVars
    BY <2>1 DEF topologyVars, Control, Sound, MonitorSound, Charged, Generation, Committed,
                Ready, Able, Usable, Broken, Outdated, Version, MonitorDue, LateReply, Budget
  <2>2. ASSUME NEW t \in Threads, ThreadStep(t) PROVE Control' /\ Charged'
    BY <2>2, ThreadStepCharged
  <2> QED BY <2>1, <2>2, ChangeRoleCharged, RestartCharged, MonitorCharged
          DEF TopologyNext, Environment, ThreadStep
<1>2. Inv /\ Control /\ Charged => ClearsBounded
  BY Counts DEF Charged, Bit, Budget, ClearsBounded
<1> QED BY <1>1, <1>2, InitCharged, Invariance, PTL DEF TopologySpec
=============================================================================

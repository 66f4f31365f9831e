------------------------ MODULE TopologyDescription ------------------------
(***************************************************************************)
(* mongoc_topology_description_t of the vendored C driver: what a client   *)
(* believes about its deployment, and how every hello reply, error and DNS *)
(* answer changes it (mongoc-topology-description.c, with the server       *)
(* descriptions of mongoc-server-description.c).  All changes are made to  *)
(* a private copy under one mutex and then published, so each is one step. *)
(*                                                                         *)
(* Left out: load-balanced mode (the description never changes there) and  *)
(* the fields no rule below reads (tags, sizes, round trip times, session  *)
(* timeout, cluster time, compatibility error).                            *)
(*                                                                         *)
(* An operator whose name starts with Mutant is a broken variant of the    *)
(* definition that follows it; no specification uses it.                   *)
(***************************************************************************)
EXTENDS Integers, FiniteSets, TLC

CONSTANTS
  Addresses,    \* host names
  Seeds,        \* the hosts of the URI
  SetNames,     \* replica set names
  None,         \* no name, no address
  HostLists,    \* the sets of hosts that replies list
  MemberTypes,  \* which of the member types hello replies report
  MaxElection,  \* bound on setVersion and electionId
  MaxServerId,  \* bound on the server ids given out
  MaxHosts      \* srvMaxHosts, 0 for no limit

ASSUME DescriptionAssumption ==
  /\ Seeds \subseteq Addresses /\ Seeds # {}
  /\ HostLists \subseteq SUBSET Addresses
  /\ IsFiniteSet(Addresses)
  /\ None \notin Addresses \cup SetNames
  /\ MemberTypes \subseteq {"RSSecondary", "RSArbiter", "RSOther"}
  /\ MaxElection \in Nat /\ MaxServerId \in Nat /\ MaxHosts \in Nat

VARIABLES
  td,       \* the published description
  srv       \* the SRV polling thread: "off", "idle", "due", "query", "aborted"

vars == <<td, srv>>

NoSetVersion == -1
NoElectionId == 0
NoTopologyVersion == [process |-> None, counter |-> 0]

MemberAll == {"RSSecondary", "RSArbiter", "RSOther"}
ServerTypes == MemberAll \cup
  {"Unknown", "Standalone", "Mongos", "PossiblePrimary", "RSPrimary", "RSGhost"}
TopologyTypes == {"Unknown", "Sharded", "RSNoPrimary", "RSWithPrimary", "Single"}
ServerIds   == 1..MaxServerId
SetVersions == {NoSetVersion} \cup 1..MaxElection
ElectionIds == {NoElectionId} \cup 1..MaxElection

-----------------------------------------------------------------------------
(* Server descriptions.  Of the wire versions only this is kept: modern    *)
(* says that max_wire_version is that of MongoDB 6.0 or later.             *)

NewServer(a) ==
  [address |-> a, type |-> "Unknown", set_version |-> NoSetVersion,
   election_id |-> NoElectionId, modern |-> FALSE,
   topology_version |-> NoTopologyVersion, generation |-> 0]

\* mongoc_server_description_reset keeps topology_version and generation.
Reset(s) ==
  [s EXCEPT !.type = "Unknown", !.set_version = NoSetVersion,
            !.election_id = NoElectionId, !.modern = FALSE]

(* mongoc_server_description_handle_hello, for a reply h; one without a    *)
(* topologyVersion makes the client forget the version that was known.     *)
Learn(s, h) ==
  [s EXCEPT !.type = h.type, !.set_version = h.set_version,
            !.election_id = h.election_id, !.modern = h.modern,
            !.topology_version = h.topology_version]

MutantVersionLater(tv1, tv2) ==
  /\ tv1 # NoTopologyVersion /\ tv2 # NoTopologyVersion
  /\ tv1.process = tv2.process
  /\ tv1.counter >= tv2.counter

(* mongoc_server_description_topology_version_cmp(tv1, tv2) == 1: only     *)
(* versions of one server process can be compared.                         *)
VersionLater(tv1, tv2) ==
  /\ tv1 # NoTopologyVersion /\ tv2 # NoTopologyVersion
  /\ tv1.process = tv2.process
  /\ tv1.counter > tv2.counter

-----------------------------------------------------------------------------
(* The set of servers.                                                     *)

AddressesOf(d) == {d.servers[i].address : i \in DOMAIN d.servers}

HasPrimary(d) ==
  \E i \in DOMAIN d.servers : d.servers[i].type \in {"RSPrimary", "Standalone"}

UpdateRsType(d) ==
  [d EXCEPT !.type = IF HasPrimary(d) THEN "RSWithPrimary" ELSE "RSNoPrimary"]

MutantRemoveServers(d, ids) ==
  [d EXCEPT !.servers = [i \in DOMAIN d.servers \ ids |-> d.servers[i]],
            !.max_server_id = Cardinality(DOMAIN d.servers \ ids)]

RemoveServers(d, ids) ==
  [d EXCEPT !.servers = [i \in DOMAIN d.servers \ ids |-> d.servers[i]]]

\* The order in which the hosts of a reply are listed.
Listed(S) == CHOOSE f \in [1..Cardinality(S) -> S] :
               \A i, j \in DOMAIN f : f[i] = f[j] => i = j

MutantAddServers(d, hosts) ==
  LET n == Cardinality(hosts)
  IN  [d EXCEPT !.max_server_id = @ + n,
         !.servers = [i \in DOMAIN d.servers \cup (d.max_server_id + 1)..(d.max_server_id + n) |->
           IF i \in DOMAIN d.servers THEN d.servers[i]
                                     ELSE NewServer(Listed(hosts)[i - d.max_server_id])]]

\* "add" is an upsert: a host that is there keeps its description and its id.
AddServers(d, hosts) ==
  LET new == hosts \ AddressesOf(d)
      n   == Cardinality(new)
  IN  [d EXCEPT !.max_server_id = @ + n,
         !.servers = [i \in DOMAIN d.servers \cup (d.max_server_id + 1)..(d.max_server_id + n) |->
           IF i \in DOMAIN d.servers THEN d.servers[i]
                                     ELSE NewServer(Listed(new)[i - d.max_server_id])]]

\* Remove what the primary does not list, possibly the primary itself.
RemoveUnreported(d, hosts) ==
  RemoveServers(d, {i \in DOMAIN d.servers : d.servers[i].address \notin hosts})

LabelPossiblePrimary(d, a) ==
  [d EXCEPT !.servers = [i \in DOMAIN d.servers |->
     IF d.servers[i].address = a /\ d.servers[i].type = "Unknown"
       THEN [d.servers[i] EXCEPT !.type = "PossiblePrimary"]
       ELSE d.servers[i]]]

MutantInvalidateOtherPrimaries(d, id) == d

InvalidateOtherPrimaries(d, id) ==
  [d EXCEPT !.servers = [i \in DOMAIN d.servers |->
     IF i # id /\ d.servers[i].type = "RSPrimary" THEN Reset(d.servers[i])
                                                  ELSE d.servers[i]]]

-----------------------------------------------------------------------------
(* mongoc_topology_description_invalidate_server: a NULL hello.            *)

Invalidate(d, id) ==
  IF id \notin DOMAIN d.servers THEN d
  ELSE LET e == [d EXCEPT !.servers[id] = Reset(@)]
       IN  IF d.type = "RSWithPrimary" THEN UpdateRsType(e) ELSE e

-----------------------------------------------------------------------------
(* Is this primary's claim older than one already believed?  Of a server   *)
(* of 6.0 or later the electionId counts first, of an older one the        *)
(* setVersion.  A set that is being upgraded has servers of both kinds.    *)

MutantStaleModern(d, h) == h.election_id < d.max_election_id

StaleModern(d, h) ==
  ~ (\/ h.election_id > d.max_election_id
     \/ h.election_id = d.max_election_id /\ h.set_version >= d.max_set_version)

HasElection(h) == h.set_version # NoSetVersion /\ h.election_id # NoElectionId

StaleOld(d, h) ==
  /\ HasElection(h)
  /\ \/ d.max_set_version > h.set_version
     \/ d.max_set_version = h.set_version /\ d.max_election_id > h.election_id

MutantStale(d, h) == h.modern /\ StaleModern(d, h)

Stale(d, h) == IF h.modern THEN StaleModern(d, h) ELSE StaleOld(d, h)

RememberElection(d, h) ==
  IF h.modern
    THEN [d EXCEPT !.max_election_id = h.election_id,
                   !.max_set_version = h.set_version]
    ELSE [d EXCEPT
            !.max_election_id = IF HasElection(h) THEN h.election_id ELSE @,
            !.max_set_version = IF h.set_version > @ THEN h.set_version ELSE @]

-----------------------------------------------------------------------------
(* The handlers of gSDAMTransitionTable.  h is the reply of server id,     *)
(* which d already holds.                                                  *)

Named(d, h) == IF d.set_name = None THEN [d EXCEPT !.set_name = h.set_name] ELSE d

MutantUpdateRsFromPrimary(d, id, h) ==
  LET n == Named(d, h)
  IN  IF n.set_name # h.set_name THEN UpdateRsType(RemoveServers(d, {id}))
      ELSE IF Stale(n, h) THEN UpdateRsType(Invalidate(n, id))
      ELSE LET e == InvalidateOtherPrimaries(RememberElection(n, h), id)
           IN  RemoveUnreported(AddServers(e, h.hosts), h.hosts)

UpdateRsFromPrimary(d, id, h) ==
  LET n == Named(d, h)
  IN  IF n.set_name # h.set_name THEN UpdateRsType(RemoveServers(d, {id}))
      ELSE IF Stale(n, h) THEN UpdateRsType(Invalidate(n, id))
      ELSE LET e == InvalidateOtherPrimaries(RememberElection(n, h), id)
           IN  UpdateRsType(RemoveUnreported(AddServers(e, h.hosts), h.hosts))

UpdateRsWithoutPrimary(d, id, h) ==
  LET n == Named(d, h)
      e == AddServers(n, h.hosts)
      f == IF h.primary = None THEN e ELSE LabelPossiblePrimary(e, h.primary)
  IN  IF n.set_name # h.set_name THEN RemoveServers(d, {id})
      ELSE IF ~h.matches_me THEN RemoveServers(f, {id})
      ELSE f

MutantUpdateRsWithPrimaryFromMember(d, id, h) ==
  IF d.set_name # h.set_name THEN UpdateRsType(RemoveServers(d, {id}))
  ELSE IF ~h.matches_me THEN RemoveServers(d, {id})
  ELSE IF h.primary # None
    THEN LabelPossiblePrimary([d EXCEPT !.type = "RSNoPrimary"], h.primary)
  ELSE d

\* Here no host is added, and the type is not always brought up to date.
UpdateRsWithPrimaryFromMember(d, id, h) ==
  IF d.set_name # h.set_name THEN UpdateRsType(RemoveServers(d, {id}))
  ELSE IF ~h.matches_me THEN RemoveServers(d, {id})
  ELSE IF ~HasPrimary(d) /\ h.primary # None
    THEN LabelPossiblePrimary([d EXCEPT !.type = "RSNoPrimary"], h.primary)
  ELSE d

UpdateUnknownWithStandalone(d, id) ==
  IF \E i \in DOMAIN d.servers : i # id THEN RemoveServers(d, {id})
                                        ELSE [d EXCEPT !.type = "Single"]

\* state_transitions[server type][topology type]; Single has no entries.
Transition(d, id, h) ==
  LET s == d.servers[id].type
      t == d.type
  IN  CASE t = "Unknown" /\ s = "Standalone" -> UpdateUnknownWithStandalone(d, id)
        [] t = "Unknown" /\ s = "Mongos" -> [d EXCEPT !.type = "Sharded"]
        [] t \in {"Unknown", "RSNoPrimary", "RSWithPrimary"} /\ s = "RSPrimary" ->
             UpdateRsFromPrimary(d, id, h)
        [] t = "Unknown" /\ s \in MemberAll ->
             UpdateRsWithoutPrimary([d EXCEPT !.type = "RSNoPrimary"], id, h)
        [] t = "Sharded" /\ s \notin {"Unknown", "Mongos", "PossiblePrimary"} ->
             RemoveServers(d, {id})
        [] t = "RSNoPrimary" /\ s \in {"Standalone", "Mongos"} ->
             RemoveServers(d, {id})
        [] t = "RSNoPrimary" /\ s \in MemberAll -> UpdateRsWithoutPrimary(d, id, h)
        [] t = "RSWithPrimary" /\ s \in {"Unknown", "RSGhost"} -> UpdateRsType(d)
        [] t = "RSWithPrimary" /\ s \in {"Standalone", "Mongos"} ->
             UpdateRsType(RemoveServers(d, {id}))
        [] t = "RSWithPrimary" /\ s \in MemberAll ->
             UpdateRsWithPrimaryFromMember(d, id, h)
        [] OTHER -> d

(* mongoc_topology_description_handle_hello.  A reply of a server that was *)
(* removed, or older than what the server already said, changes nothing.   *)
HandleHello(d, id, h) ==
  IF \/ id \notin DOMAIN d.servers
     \/ VersionLater(d.servers[id].topology_version, h.topology_version)
    THEN d
  ELSE LET s == Learn(d.servers[id], h)
           wrong == d.set_name # None /\ d.type = "Single" /\ h.set_name # d.set_name
       IN  Transition([d EXCEPT !.servers[id] = IF wrong THEN Reset(s) ELSE s], id, h)

\* _mongoc_topology_description_clear_connection_pool
ClearConnectionPool(d, id) ==
  IF id \in DOMAIN d.servers THEN [d EXCEPT !.servers[id].generation = @ + 1] ELSE d

-----------------------------------------------------------------------------
(* mongoc_topology_description_reconcile with the hosts of a DNS answer.   *)
(* Under a limit the hosts to add are drawn at random, room for those      *)
(* about to be removed included; N is the draw.                            *)

Missing(d, hosts) == {i \in DOMAIN d.servers : d.servers[i].address \notin hosts}

Limited(hosts) == MaxHosts # 0 /\ MaxHosts < Cardinality(hosts)

MutantRoom(d, hosts) ==
  MaxHosts + Cardinality(Missing(d, hosts)) - Cardinality(DOMAIN d.servers) + 1

Room(d, hosts) ==
  MaxHosts + Cardinality(Missing(d, hosts)) - Cardinality(DOMAIN d.servers)

Draws(d, hosts) ==
  LET new == hosts \ AddressesOf(d)
  IN  IF ~Limited(hosts) THEN {new}
      ELSE {N \in SUBSET new :
              IF Room(d, hosts) < 0 THEN N = {} ELSE Cardinality(N) = Room(d, hosts)}

Reconcile(d, hosts, N) ==
  RemoveServers(AddServers(d, N), Missing(d, hosts))

\* The two BSON_ASSERTs: the limit is met before and after the removals.
ReconcileAsserts(d, hosts, N) ==
  /\ Limited(hosts) => Cardinality(N) = Room(d, hosts)
  /\ MaxHosts # 0 => Cardinality(DOMAIN Reconcile(d, hosts, N).servers) <= MaxHosts

-----------------------------------------------------------------------------
(* mongoc_topology_description_select: the servers an operation may be     *)
(* sent to, before staleness, tags, deprioritized servers and the latency  *)
(* window narrow them down.                                                *)

OfType(d, types) == {i \in DOMAIN d.servers : d.servers[i].type \in types}

ReadModes == {"primary", "primaryPreferred", "secondary", "secondaryPreferred", "nearest"}

SuitableForRead(d, mode) ==
  LET primary   == OfType(d, {"RSPrimary"})
      secondary == OfType(d, {"RSSecondary"})
  IN  CASE mode = "primary" -> primary
        [] mode = "primaryPreferred" -> IF primary # {} THEN primary ELSE secondary
        [] mode = "secondary" -> secondary
        [] mode = "secondaryPreferred" -> IF secondary # {} THEN secondary ELSE primary
        [] mode = "nearest" -> primary \cup secondary

Suitable(d, op, mode) ==
  CASE d.type = "Unknown" -> {}
    [] d.type = "Single" ->
         {i \in DOMAIN d.servers : /\ d.servers[i].type # "Unknown"
                                   /\ \A j \in DOMAIN d.servers : i <= j}
    [] d.type = "Sharded" -> OfType(d, {"Mongos"})
    [] d.type = "RSWithPrimary" /\ op = "write" -> OfType(d, {"RSPrimary", "Standalone"})
    [] d.type = "RSNoPrimary" /\ op = "write" -> {}
    [] OTHER -> SuitableForRead(d, mode)

-----------------------------------------------------------------------------
(* The environment: replies of any server, well configured or not.  No     *)
(* rule reads the release of a server that is not a primary.               *)

Reply(type) ==
  [type |-> type, set_name |-> None, hosts |-> {}, matches_me |-> TRUE,
   primary |-> None, set_version |-> NoSetVersion, election_id |-> NoElectionId,
   topology_version |-> NoTopologyVersion, modern |-> FALSE]

PrimaryReply(name, hosts, sv, e, m) ==
  [Reply("RSPrimary") EXCEPT !.set_name = name, !.hosts = hosts,
                             !.set_version = sv, !.election_id = e, !.modern = m]

MemberReply(type, name, hosts, me, p) ==
  [Reply(type) EXCEPT !.set_name = name, !.hosts = hosts, !.matches_me = me,
                      !.primary = p]

PrimaryReplies ==
  {PrimaryReply(n, hs, sv, e, m) :
     n \in SetNames, hs \in HostLists, sv \in SetVersions, e \in ElectionIds,
     m \in BOOLEAN}

MemberReplies ==
  {MemberReply(t, n, hs, me, p) :
     t \in MemberTypes, n \in SetNames, hs \in HostLists, me \in BOOLEAN,
     p \in {None} \cup Addresses}

(* A reply that is an error or cannot be read counts as a NetworkError.    *)
Hellos ==
  {Reply(t) : t \in {"Standalone", "Mongos", "RSGhost"}} \cup PrimaryReplies
    \cup MemberReplies

\* mongoc_topology_new: what the URI says of the deployment.
Blank(type, name) ==
  [type |-> type, set_name |-> name, servers |-> [i \in {} |-> 0],
   max_server_id |-> 0, max_set_version |-> NoSetVersion,
   max_election_id |-> NoElectionId]

Init ==
  \E hosts \in (SUBSET Seeds) \ {{}}, name \in {None} \cup SetNames,
     type \in {"Unknown", "RSNoPrimary", "Single"} :
    /\ td = AddServers(Blank(type, name), hosts)
    /\ \/ /\ srv = "off"
          /\ type = "Single" => Cardinality(hosts) = 1
          /\ type = "RSNoPrimary" => name # None
          /\ type = "Unknown" => name = None
       \/ /\ srv = "idle"
          /\ type = "Unknown"
          /\ MaxHosts # 0 => name = None /\ Cardinality(hosts) <= MaxHosts

\* One of the replies H arrives from server id.
Hello(id, H) ==
  /\ srv # "aborted"
  /\ \E h \in H : td' = HandleHello(td, id, h)
  /\ td'.max_server_id <= MaxServerId
  /\ UNCHANGED srv

NetworkError(id) ==
  /\ srv # "aborted"
  /\ td' = Invalidate(td, id)
  /\ UNCHANGED srv

ShouldRescanSrv(d) == d.type \in {"Sharded", "Unknown"}

\* srv_polling_run looks at the type before it calls mongoc_topology_rescan_srv
SrvCheck ==
  /\ srv = "idle"
  /\ srv' = IF ShouldRescanSrv(td) THEN "due" ELSE "off"
  /\ UNCHANGED td

\* which asserts that the type is still the right one
SrvStart ==
  /\ srv = "due"
  /\ srv' = IF ShouldRescanSrv(td) THEN "query" ELSE "aborted"
  /\ UNCHANGED td

\* Too early for another query, no answer, or no valid host in it.
SrvFails ==
  /\ srv = "query"
  /\ srv' = "idle"
  /\ UNCHANGED td

(* The answer is applied to whatever the description has become since; a   *)
(* failed assertion ends the process.                                      *)
SrvAnswer ==
  /\ srv = "query"
  /\ \E hosts \in (SUBSET Addresses) \ {{}} : \E N \in Draws(td, hosts) :
       IF ReconcileAsserts(td, hosts, N)
         THEN td' = Reconcile(td, hosts, N) /\ srv' = "idle"
         ELSE td' = td /\ srv' = "aborted"
  /\ td'.max_server_id <= MaxServerId

\* Set names are only ever compared with each other.
Symmetry == Permutations(SetNames)

SrvPolling == SrvCheck \/ SrvStart \/ SrvFails \/ SrvAnswer

Next ==
  \/ \E id \in ServerIds : Hello(id, Hellos) \/ NetworkError(id)
  \/ SrvPolling

Spec == Init /\ [][Next]_vars

-----------------------------------------------------------------------------
(* The client never believes in two primaries, whatever the servers claim  *)
(* and in whatever order their replies arrive.                             *)
AtMostOnePrimary ==
  td.type # "Single" => \A i, j \in DOMAIN td.servers :
    td.servers[i].type = "RSPrimary" /\ td.servers[j].type = "RSPrimary" => i = j

(* What the client believes of the deployment and of its servers agree: no *)
(* mongos or standalone inside a replica set, no member of a replica set   *)
(* in a sharded cluster, no primary in a set said to have none.  (A single  *)
(* server is excepted: a DNS answer that was under way when the type became *)
(* Single still adds its hosts.)                                           *)
TypesAgree ==
  \A i \in DOMAIN td.servers :
    CASE td.type = "Unknown" -> td.servers[i].type \in {"Unknown", "RSGhost"}
      [] td.type = "Sharded" -> td.servers[i].type \in {"Unknown", "RSGhost", "Mongos"}
      [] td.type = "RSNoPrimary" ->
           td.servers[i].type \notin {"RSPrimary", "Mongos", "Standalone"}
      [] td.type = "RSWithPrimary" -> td.servers[i].type \notin {"Mongos", "Standalone"}
      [] td.type = "Single" -> TRUE

(* The primary believed in won the newest election seen so far: a server   *)
(* that lost its role during a partition is not taken back.                *)
PrimaryIsNewest ==
  \A i \in DOMAIN td.servers :
    LET s == td.servers[i]
    IN  td.type # "Single" /\ s.type = "RSPrimary" /\ (s.modern \/ HasElection(s)) =>
          s.election_id = td.max_election_id /\ s.set_version = td.max_set_version

(* A host is listed once, however often and by whomever it is reported.    *)
OneIdPerAddress ==
  \A i, j \in DOMAIN td.servers : td.servers[i].address = td.servers[j].address => i = j

(* The id of a server that was removed is never given out again: a late    *)
(* reply or error for it cannot touch the server that was added under the  *)
(* same address since.                                                     *)
RemovedStaysRemoved ==
  [][/\ td'.max_server_id >= td.max_server_id
     /\ \A i \in DOMAIN td'.servers :
          i \in DOMAIN td.servers \/ i > td.max_server_id]_vars

(* A primary that is known can be written to: the type of the deployment,  *)
(* on which the selection for writes depends and that for reads does not,  *)
(* never lags behind.                                                      *)
PrimarySelectable ==
  td.type \in {"Unknown", "RSNoPrimary", "RSWithPrimary"} =>
    \A mode \in ReadModes :
      /\ Suitable(td, "write", mode) = OfType(td, {"RSPrimary"})
      /\ td.type # "Unknown" =>
           Suitable(td, "write", mode) = Suitable(td, "read", "primary")

(* As long as the deployment is a sharded cluster no assertion of the SRV  *)
(* polling thread fails: the hosts of DNS alone never exceed srvMaxHosts,  *)
(* although room for those about to be removed is granted on the way.      *)
SrvSafeWhenSharded ==
  srv = "aborted" => ~ShouldRescanSrv(td)

(* The assertions of the SRV polling thread hold: the type it has checked  *)
(* is still eligible when mongoc_topology_rescan_srv starts, and the limit *)
(* can be met when the answer is there.                                    *)
SrvAssertionsHold == srv # "aborted"
=============================================================================

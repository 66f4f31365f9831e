------------------------------ MODULE Topology ------------------------------
(***************************************************************************)
(* A pooled topology at work: application threads, each with a client and  *)
(* a connection of its own, and the monitor of the server change the       *)
(* shared description of module TopologyDescription (mongoc-topology.c,    *)
(* mongoc-cluster.c, mongoc-server-monitor.c).  A thread reads the         *)
(* description from a snapshot it took without a lock; what it learns is   *)
(* applied later, to what the description has become.                      *)
(*                                                                         *)
(* Two counters keep late news out: the generation of the server's         *)
(* connection pool, which each connection is labelled with, and the        *)
(* topologyVersion, which replies and errors carry.  Both are per server,  *)
(* so one server is enough here.  It changes its role, and it restarts,    *)
(* which breaks the connections to it.                                     *)
(*                                                                         *)
(* An operator whose name starts with Mutant is a broken variant of the    *)
(* definition that follows it; no specification uses it.                   *)
(***************************************************************************)
EXTENDS TopologyDescription

CONSTANTS
  Threads,      \* application threads
  MaxProcess,   \* bound on the processes of the server
  MaxChanges,   \* bound on its restarts and role changes
  MaxFaults     \* bound on the faults

ASSUME TopologyAssumption ==
  /\ Cardinality(Addresses) = 1 /\ Cardinality(SetNames) = 1
  /\ IsFiniteSet(Threads) /\ None \notin Nat
  /\ MaxProcess \in Nat \ {0} /\ MaxChanges \in Nat /\ MaxFaults \in Nat
  /\ MaxElection > MaxChanges \div 2 /\ MaxServerId = 1

VARIABLES
  server,   \* the server itself
  app,      \* the threads, with the connection each one holds
  monitor,  \* the monitor thread of the server
  cancel,   \* shared.cancel_requested of the monitor
  faults    \* connections refused, checks failed and cursors killed so far

topologyVars == <<td, server, app, monitor, cancel, faults, srv>>

Id == 1
Generation == td.servers[Id].generation

(* A connection: the generation it is labelled with, the process it was    *)
(* opened to and, for the properties alone, the generation at that time.   *)
NoConnection == [generation |-> 0, process |-> 0, born |-> 0]

NoError == [topology_version |-> NoTopologyVersion, shutdown |-> FALSE]

VersionNow == [process |-> server.process, counter |-> server.counter]

HelloNow ==
  [Reply(server.type) EXCEPT
     !.set_name = CHOOSE n \in SetNames : TRUE,
     !.hosts = Addresses,
     !.set_version = IF server.type = "RSPrimary" THEN 1 ELSE NoSetVersion,
     !.election_id = IF server.type = "RSPrimary" THEN server.election ELSE NoElectionId,
     !.topology_version = VersionNow, !.modern = TRUE]

TopologyInit ==
  /\ td = AddServers(Blank("RSNoPrimary", CHOOSE n \in SetNames : TRUE), Addresses)
  /\ srv = "off"
  /\ server = [process |-> 1, counter |-> 1, type |-> "RSPrimary", election |-> 1,
               changes |-> 0]
  /\ app = [t \in Threads |-> [pc |-> "idle", generation |-> 0, handshake |-> FALSE,
                               connection |-> NoConnection, reply |-> NoError]]
  /\ monitor = [pc |-> "check", process |-> 0, reply |-> NoError]
  /\ cancel = FALSE /\ faults = 0

-----------------------------------------------------------------------------
(* The server.                                                             *)

ChangeRole ==
  /\ server.changes < MaxChanges
  /\ server' = [server EXCEPT
       !.counter = @ + 1, !.changes = @ + 1,
       !.type = IF @ = "RSPrimary" THEN "RSSecondary" ELSE "RSPrimary",
       !.election = IF server.type = "RSPrimary" THEN @ ELSE @ + 1]
  /\ UNCHANGED <<td, app, monitor, cancel, faults, srv>>

Restart ==
  /\ server.process < MaxProcess /\ server.changes < MaxChanges
  /\ server' = [server EXCEPT !.process = @ + 1, !.counter = 0, !.changes = @ + 1,
                              !.type = "RSSecondary"]
  /\ UNCHANGED <<td, app, monitor, cancel, faults, srv>>

-----------------------------------------------------------------------------
(* The application threads.                                                *)

Goto(t, pc) == app' = [app EXCEPT ![t].pc = pc]

\* The operation is over; the client keeps this connection.
Done(t, connection) ==
  app' = [app EXCEPT ![t].pc = "idle", ![t].generation = 0, ![t].connection = connection]

\* mongoc_topology_select_server_id finds the primary; otherwise it waits.
Select(t) ==
  /\ app[t].pc = "idle"
  /\ Id \in Suitable(td, "write", "primary")
  /\ Goto(t, "stream")
  /\ UNCHANGED <<td, server, monitor, cancel, faults, srv>>

Usable(t) ==
  /\ app[t].connection # NoConnection
  /\ app[t].connection.generation >= Generation

(* _cluster_fetch_stream_pooled, on a snapshot: keep the connection if the *)
(* pool has not been cleared since, else open another.                     *)
FetchStream(t) ==
  /\ app[t].pc = "stream"
  /\ app' = [app EXCEPT ![t] =
       IF Usable(t)
         THEN [@ EXCEPT !.pc = "run", !.generation = Generation]
         ELSE [@ EXCEPT !.pc = "connect", !.generation = Generation,
                        !.connection = NoConnection]]
  /\ UNCHANGED <<td, server, monitor, cancel, faults, srv>>

(* A cursor on the server is destroyed: killCursors goes over the client's *)
(* connection.  If that is gone or stale no other is opened.               *)
KillCursor(t) ==
  /\ app[t].pc = "idle"
  /\ faults < MaxFaults
  /\ faults' = faults + 1
  /\ app' = [app EXCEPT ![t] =
       IF Usable(t)
         THEN [@ EXCEPT !.pc = "run", !.generation = Generation]
         ELSE [@ EXCEPT !.pc = "failed", !.connection = NoConnection]]
  /\ UNCHANGED <<td, server, monitor, cancel, srv>>

\* _cluster_add_node opens a stream; what the snapshot says is its label.
Connect(t) ==
  /\ app[t].pc = "connect"
  /\ app' = [app EXCEPT ![t].pc = "hello", ![t].handshake = TRUE,
               ![t].connection = [generation |-> app[t].generation,
                                  process |-> server.process, born |-> Generation]]
  /\ UNCHANGED <<td, server, monitor, cancel, faults, srv>>

\* The stream cannot be opened.
ConnectFails(t) ==
  /\ app[t].pc = "connect"
  /\ faults < MaxFaults
  /\ faults' = faults + 1
  /\ Goto(t, "failed")
  /\ UNCHANGED <<td, server, monitor, cancel, srv>>

Broken(t) == app[t].connection.process # server.process

\* _stream_run_hello up to the reply.
HandshakeHello(t) ==
  /\ app[t].pc = "hello"
  /\ app' = [app EXCEPT ![t] =
       IF Broken(t) THEN [@ EXCEPT !.pc = "network_error"]
                    ELSE [@ EXCEPT !.pc = "handshake", !.reply = HelloNow]]
  /\ UNCHANGED <<td, server, monitor, cancel, faults, srv>>

MutantUpdateFromHandshake(t) ==
  /\ app[t].pc = "handshake"
  /\ td' = HandleHello(td, Id, app[t].reply)
  /\ app' = [app EXCEPT ![t].pc = "run", ![t].handshake = FALSE, ![t].reply = NoError,
                        ![t].connection.generation = Generation]
  /\ UNCHANGED <<server, monitor, cancel, faults, srv>>

\* _mongoc_topology_update_from_handshake
UpdateFromHandshake(t) ==
  /\ app[t].pc = "handshake"
  /\ td' = HandleHello(td, Id, app[t].reply)
  /\ app' = [app EXCEPT ![t].pc = "run", ![t].handshake = FALSE, ![t].reply = NoError]
  /\ UNCHANGED <<server, monitor, cancel, faults, srv>>

(* The command runs.  A server that is not the primary, or is about to     *)
(* stop, answers with an error.                                            *)
RunCommand(t) ==
  /\ app[t].pc = "run"
  /\ \/ Broken(t) /\ Goto(t, "network_error")
     \/ ~Broken(t) /\ server.type = "RSPrimary" /\ Done(t, app[t].connection)
     \/ /\ ~Broken(t)
        /\ \E shutdown \in BOOLEAN :
             /\ shutdown => server.process < MaxProcess
             /\ shutdown \/ server.type # "RSPrimary"
             /\ app' = [app EXCEPT ![t].pc = "command_error", ![t].reply =
                          [topology_version |-> VersionNow, shutdown |-> shutdown]]
  /\ UNCHANGED <<td, server, monitor, cancel, faults, srv>>

\* A timeout after the handshake: the connection is closed, no more.
Timeout(t) ==
  /\ app[t].pc = "run"
  /\ Done(t, NoConnection)
  /\ UNCHANGED <<td, server, monitor, cancel, faults, srv>>

-----------------------------------------------------------------------------
(* _mongoc_topology_handle_app_error.  The generation of a connection      *)
(* whose handshake is under way is not known yet and counts as 0.          *)

ErrorGeneration(t) ==
  IF app[t].handshake THEN 0 ELSE app[t].connection.generation

\* A failed handshake leaves no stream; otherwise the operation is over.
AfterError(t, connection) ==
  app' = [app EXCEPT ![t] =
    [@ EXCEPT !.pc = IF app[t].handshake THEN "failed" ELSE "idle", !.generation = 0,
              !.handshake = FALSE, !.connection = connection, !.reply = NoError]]

\* The first look, without the lock.
CheckNetworkError(t) ==
  /\ app[t].pc = "network_error"
  /\ IF ErrorGeneration(t) < Generation THEN AfterError(t, NoConnection)
                                        ELSE Goto(t, "network_lock")
  /\ UNCHANGED <<td, server, monitor, cancel, faults, srv>>

MutantHandleNetworkError(t) ==
  /\ app[t].pc = "network_lock"
  /\ td' = ClearConnectionPool(Invalidate(td, Id), Id)
  /\ cancel' = TRUE
  /\ AfterError(t, NoConnection)
  /\ UNCHANGED <<server, monitor, faults, srv>>

\* Under the lock.  The connection is closed whatever comes of it.
HandleNetworkError(t) ==
  /\ app[t].pc = "network_lock"
  /\ IF ErrorGeneration(t) < Generation
       THEN UNCHANGED <<td, cancel>>
       ELSE td' = ClearConnectionPool(Invalidate(td, Id), Id) /\ cancel' = TRUE
  /\ AfterError(t, NoConnection)
  /\ UNCHANGED <<server, monitor, faults, srv>>

\* topology_version_cmp(the server's, the error's) >= 0
KnownVersion(tv) ==
  /\ td.servers[Id].topology_version.process = tv.process
  /\ td.servers[Id].topology_version.counter >= tv.counter

CheckCommandError(t) ==
  /\ app[t].pc = "command_error"
  /\ IF \/ ErrorGeneration(t) < Generation
        \/ KnownVersion(app[t].reply.topology_version)
       THEN AfterError(t, app[t].connection)
       ELSE Goto(t, "command_lock")
  /\ UNCHANGED <<td, server, monitor, cancel, faults, srv>>

MutantHandleCommandError(t) ==
  /\ app[t].pc = "command_lock"
  /\ LET e == app[t].reply
     IN  td' = LET v == [td EXCEPT !.servers[Id].topology_version = e.topology_version]
                   c == IF e.shutdown THEN ClearConnectionPool(v, Id) ELSE v
               IN  Invalidate(c, Id)
  /\ AfterError(t, IF app[t].reply.shutdown THEN NoConnection ELSE app[t].connection)
  /\ UNCHANGED <<server, monitor, cancel, faults, srv>>

(* _handle_sdam_app_error_command, under the lock.  The scan it requests   *)
(* is the monitor's next check.                                            *)
HandleCommandError(t) ==
  /\ app[t].pc = "command_lock"
  /\ LET e == app[t].reply
         v == [td EXCEPT !.servers[Id].topology_version = e.topology_version]
         c == IF e.shutdown THEN ClearConnectionPool(v, Id) ELSE v
     IN  IF KnownVersion(e.topology_version) \/ ErrorGeneration(t) < Generation
           THEN UNCHANGED td /\ AfterError(t, app[t].connection)
           ELSE /\ td' = Invalidate(c, Id)
                /\ AfterError(t, IF e.shutdown THEN NoConnection ELSE app[t].connection)
  /\ UNCHANGED <<server, monitor, cancel, faults, srv>>

\* _mongoc_cluster_stream_for_server has no stream, for whatever reason.
StreamFailed(t) ==
  /\ app[t].pc = "failed"
  /\ td' = ClearConnectionPool(Invalidate(td, Id), Id)
  /\ Done(t, NoConnection)
  /\ cancel' = TRUE
  /\ UNCHANGED <<server, monitor, faults, srv>>

-----------------------------------------------------------------------------
(* The monitor thread.                                                     *)

MutantMonitorCheck ==
  /\ monitor.pc = "check"
  /\ monitor' =
       IF monitor.process \in {0, server.process}
         THEN [pc |-> "update", process |-> server.process, reply |-> HelloNow]
         ELSE [monitor EXCEPT !.pc = "clear"]
  /\ UNCHANGED <<td, server, app, cancel, faults, srv>>

\* _server_monitor_check_server: a reply, or an error that ends the connection
MonitorCheck ==
  /\ monitor.pc = "check"
  /\ monitor' =
       IF monitor.process \in {0, server.process}
         THEN [pc |-> "update", process |-> server.process, reply |-> HelloNow]
         ELSE [pc |-> "clear", process |-> 0, reply |-> NoError]
  /\ UNCHANGED <<td, server, app, cancel, faults, srv>>

\* or none of a server that is there: a failed check, or a reply with ok: 0,
MonitorFails ==
  /\ monitor.pc = "check"
  /\ faults < MaxFaults
  /\ faults' = faults + 1
  /\ monitor' = [pc |-> "clear", process |-> 0, reply |-> NoError]
  /\ UNCHANGED <<td, server, app, cancel, srv>>

\* or it is cancelled while it waits: the connection goes, nothing is said.
MonitorCancelled ==
  /\ monitor.pc = "check" /\ monitor.process # 0
  /\ cancel /\ cancel' = FALSE
  /\ monitor' = [monitor EXCEPT !.process = 0]
  /\ UNCHANGED <<td, server, app, faults, srv>>

\* _update_topology_description
MonitorUpdate ==
  /\ monitor.pc = "update"
  /\ td' = HandleHello(td, Id, monitor.reply)
  /\ monitor' = [monitor EXCEPT !.pc = "check", !.reply = NoError]
  /\ UNCHANGED <<server, app, cancel, faults, srv>>

MonitorClear ==
  /\ monitor.pc = "clear"
  /\ td' = ClearConnectionPool(td, Id)
  /\ monitor' = [monitor EXCEPT !.pc = "invalidate"]
  /\ UNCHANGED <<server, app, cancel, faults, srv>>

MonitorInvalidate ==
  /\ monitor.pc = "invalidate"
  /\ td' = Invalidate(td, Id)
  /\ monitor' = [monitor EXCEPT !.pc = "check"]
  /\ UNCHANGED <<server, app, cancel, faults, srv>>

Environment == ChangeRole \/ Restart

Proceed(t) ==
  \/ Select(t) \/ FetchStream(t) \/ Connect(t) \/ HandshakeHello(t)
  \/ UpdateFromHandshake(t) \/ RunCommand(t)
  \/ CheckNetworkError(t) \/ HandleNetworkError(t)
  \/ CheckCommandError(t) \/ HandleCommandError(t) \/ StreamFailed(t)

MonitorStep ==
  MonitorCheck \/ MonitorCancelled \/ MonitorUpdate \/ MonitorClear \/ MonitorInvalidate

TopologyNext ==
  \/ Environment
  \/ \E t \in Threads : Proceed(t) \/ ConnectFails(t) \/ KillCursor(t) \/ Timeout(t)
  \/ MonitorStep \/ MonitorFails

(* Threads and monitor keep running: every wait in them has a timeout, and *)
(* the lock is never held across one.  This is weak fairness of Proceed(t) *)
(* and of MonitorStep, written with the variables that only they change.   *)
(* The server need not change, and no fault need occur.                    *)
Busy(t) == app[t].pc # "idle" \/ Id \in Suitable(td, "write", "primary")

Fairness ==
  /\ []<><<TRUE>>_monitor
  /\ \A t \in Threads : []<>~Busy(t) \/ []<><<TRUE>>_(app[t])

TopologySpec == TopologyInit /\ [][TopologyNext]_topologyVars /\ Fairness

-----------------------------------------------------------------------------
(* An operation that began after the pool was cleared never runs on a      *)
(* connection that was opened before.                                      *)
NoStaleConnection ==
  \A t \in Threads :
    app[t].pc = "run" => app[t].generation <= app[t].connection.born

(* However many connections break with a server, the first thread to       *)
(* notice clears the pool, and the errors of the other connections of that *)
(* time do not clear it again under the connections opened since.          *)
OneClearPerOutage ==
  [][\A t \in Threads :
       /\ app[t].pc = "network_lock" /\ ~app[t].handshake
       /\ Generation' > Generation /\ app'[t].pc # app[t].pc
       => app[t].connection.born = Generation]_topologyVars

(* What is known of a server process never gets older, although replies    *)
(* and errors are applied in another order than they were sent.            *)
VersionNeverBack ==
  [][LET old == td.servers[Id].topology_version
         new == td'.servers[Id].topology_version
     IN  old.process = new.process => old.counter <= new.counter]_topologyVars

(* Once the server stays as it is the client comes to know its role, and   *)
(* no late error makes it forget again for good.                           *)
Converges == <>[](td.servers[Id].type = server.type)

(* Every time the pool is cleared something has failed: a restart costs    *)
(* one clear for the monitor and one for each thread at most, a new        *)
(* version of the server one more, which a shutdown error or a reply that  *)
(* comes too late may cause, and a refused connection, a failed check or a *)
(* killed cursor one.  The threads do not go on closing each other's       *)
(* connections.                                                            *)
ClearsBounded ==
  Generation <= (server.process - 1) * (Cardinality(Threads) + 1)
                  + (server.changes + 1) + faults
=============================================================================

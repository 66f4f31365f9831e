----------------------------- MODULE PoolWarmup -----------------------------
(***************************************************************************)
(* investigations/minpoolsize/main.c on top of ClientPool:                 *)
(* client_pool_warmup pings once to discover the servers, then checks out  *)
(* num_clients clients, pings every discovered server on each of them, and *)
(* only then returns all of them to the pool.  The background monitors may *)
(* change the topology at any time.                                        *)
(***************************************************************************)
EXTENDS ClientPool

CONSTANTS
  WarmupThread,  \* the only thread that uses the pool
  NumClients     \* 20 in the code

ASSUME WarmupAssumption ==
  /\ WarmupThread \in Threads
  /\ NumClients \in Nat
  /\ \A n \in InitialSizes : NumClients <= n

VARIABLES
  pc,          \* where client_pool_warmup, then main, is
  clients,     \* clients[], up to the first NULL
  server_ids,  \* the server ids found by the discovery ping
  todo,        \* servers still to be pinged on the last of `clients'
  ok           \* what client_pool_warmup returns

warmupOwn  == <<pc, clients, server_ids, todo, ok>>
warmupVars == <<allPoolVars, warmupOwn>>

WarmupInit ==
  /\ PoolInit
  /\ pc = "discoverPop"
  /\ clients = <<>>
  /\ server_ids = {}
  /\ todo = {}
  /\ ok = FALSE

(* mongoc_client_pool_pop by the only thread.  Where it would have to wait *)
(* nobody could ever wake it, and the model deadlocks instead.             *)
Pop ==
  /\ TakeHead(WarmupThread) \/ CreateClient(WarmupThread)
  /\ UNCHANGED <<max_pool_size, last_known_serverids, freed, conns, destroyed,
                 topoVars>>

PoppedClient == CHOOSE c \in held'[WarmupThread] : c \notin held[WarmupThread]

DiscoverPop ==
  /\ pc = "discoverPop"
  /\ Pop
  /\ pc' = "discoverPing"
  /\ UNCHANGED <<clients, server_ids, todo, ok>>

(* The discovery ping goes to some server and pops nothing else; then the  *)
(* descriptions are read and the client is pushed, in two steps between    *)
(* which the topology may change.                                          *)
DiscoverPing ==
  /\ pc = "discoverPing"
  /\ \E c \in held[WarmupThread], s \in servers : Connect(WarmupThread, c, s)
  /\ pc' = "discoverRead"
  /\ UNCHANGED <<clients, server_ids, todo, ok>>

DiscoverFails ==
  /\ pc = "discoverPing"
  /\ \E c \in held[WarmupThread] : Push(WarmupThread, c)
  /\ pc' = "release"
  /\ UNCHANGED <<clients, server_ids, todo, ok>>

DiscoverRead ==
  /\ pc = "discoverRead"
  /\ server_ids' = servers
  /\ pc' = "discoverPush"
  /\ UNCHANGED <<allPoolVars, clients, todo, ok>>

DiscoverPush ==
  /\ pc = "discoverPush"
  /\ \E c \in held[WarmupThread] : Push(WarmupThread, c)
  /\ pc' = "pop"
  /\ UNCHANGED <<clients, server_ids, todo, ok>>

WarmPop ==
  /\ pc = "pop"
  /\ Len(clients) < NumClients
  /\ Pop
  /\ clients' = Append(clients, PoppedClient)
  /\ todo' = server_ids
  /\ pc' = "ping"
  /\ UNCHANGED <<server_ids, ok>>

MutantNextClient ==
  /\ todo = {}
  /\ Push(WarmupThread, clients[Len(clients)])
  /\ pc' = "pop"
  /\ UNCHANGED <<clients, server_ids, todo, ok>>

\* Every server was pinged on this client: go on with the next one.
NextClient ==
  /\ todo = {}
  /\ pc' = "pop"
  /\ UNCHANGED <<allPoolVars, clients, server_ids, todo, ok>>

MutantPingNext ==
  \E s \in todo :
    /\ \A u \in todo : s <= u
    /\ \/ /\ Connect(WarmupThread, clients[Len(clients)], s)
          /\ todo' = todo \ {s}
       \/ UNCHANGED <<allPoolVars, todo>>
    /\ pc' = "ping"
    /\ UNCHANGED <<clients, server_ids, ok>>

(* Ping the next server.  A server that has left the topology cannot be    *)
(* reached by its id; one that is there may answer or not.                 *)
PingNext ==
  \E s \in todo :
    /\ \A u \in todo : s <= u
    /\ \/ /\ Connect(WarmupThread, clients[Len(clients)], s)
          /\ todo' = todo \ {s}
          /\ pc' = "ping"
       \/ /\ pc' = "release"
          /\ UNCHANGED <<allPoolVars, todo>>
    /\ UNCHANGED <<clients, server_ids, ok>>

WarmPing == pc = "ping" /\ (PingNext \/ NextClient)

WarmDone ==
  /\ pc = "pop"
  /\ Len(clients) = NumClients
  /\ ok' = TRUE
  /\ pc' = "release"
  /\ UNCHANGED <<allPoolVars, clients, server_ids, todo>>

(* The loop at label done: pushes clients[0], clients[1], ... up to the    *)
(* first NULL.  Then the function returns.                                 *)
Release ==
  /\ pc = "release"
  /\ LET left == {i \in 1..Len(clients) : clients[i] \in held[WarmupThread]}
     IN  \/ /\ \E i \in left :
                 (\A j \in left : i <= j) /\ Push(WarmupThread, clients[i])
            /\ pc' = "release"
         \/ /\ left = {}
            /\ pc' = "returned"
            /\ UNCHANGED allPoolVars
  /\ UNCHANGED <<clients, server_ids, todo, ok>>

(* main destroys the pool.  If there are sessions to end, the head of the  *)
(* pool is popped and pushed back first; with no other thread about, that  *)
(* leaves the pool as it was.                                              *)
WarmupDestroy ==
  /\ pc = "returned"
  /\ DrainAndFree
  /\ pc' = "done"
  /\ UNCHANGED <<clients, server_ids, todo, ok>>

WarmupTopology == ~freed /\ TopologyStep /\ UNCHANGED warmupOwn

WarmupTerminated == pc = "done" /\ UNCHANGED warmupVars

Main ==
  \/ DiscoverPop \/ DiscoverPing \/ DiscoverFails \/ DiscoverRead
  \/ DiscoverPush \/ WarmPop \/ WarmPing \/ WarmDone \/ Release
  \/ WarmupDestroy

WarmupNext == Main \/ WarmupTopology \/ WarmupTerminated

WarmupSpec == WarmupInit /\ [][WarmupNext]_warmupVars /\ WF_warmupVars(Main)

-----------------------------------------------------------------------------
(* When client_pool_warmup returns true, num_clients different clients are *)
(* in the pool, each with a connection to every server it found that the   *)
(* pool still knows.  Were a client pushed before the next one is popped,  *)
(* the pool would hand out the same one again.                             *)
WarmedUp ==
  pc = "returned" /\ ok =>
    NumClients <=
      Cardinality({c \in Pooled : server_ids \cap last_known_serverids
                                    \subseteq conns[c]})

(* The warm-up never blocks in pop as long as num_clients does not exceed  *)
(* maxPoolSize, and main ends.  Whichever ping fails, every client is back *)
(* by then: destroy frees all of them.                                     *)
WarmupEnds == <>(pc = "done" /\ destroyed = 1..size)
=============================================================================

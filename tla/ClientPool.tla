----------------------------- MODULE ClientPool -----------------------------
(***************************************************************************)
(* mongoc_client_pool_t, the pool every multi-threaded program of the      *)
(* repository draws its clients from.  The source is the driver copy kept  *)
(* beside print-invalid-arrays (mongoc-client-pool.c, mongoc-queue.c).     *)
(*                                                                         *)
(* All of pop, try_pop, push and max_size run with the pool's mutex held,  *)
(* so each pass through the mutex is one action.  A thread inside pop is   *)
(* "trying" when it is about to run the code at label `again' and          *)
(* "waiting" while it sleeps on the pool's condition variable.             *)
(*                                                                         *)
(* An operator whose name starts with Mutant is a broken variant of the    *)
(* definition that follows it; no specification uses it.                   *)
(***************************************************************************)
EXTENDS Integers, Sequences, FiniteSets

CONSTANTS
  Threads,           \* threads that use the pool
  MaxPoolSize,       \* bound on max_pool_size: the largest value it is set to
  InitialSizes,      \* the values of max_pool_size the pool may be created with
  WaitQueueTimeout,  \* TRUE iff the URI sets waitQueueTimeoutMS > 0
  Seeds,             \* number of servers the topology starts with
  MaxServers         \* bound on the number of server ids ever given out

ASSUME PoolAssumption ==
  /\ IsFiniteSet(Threads)
  /\ MaxPoolSize \in Nat
  /\ InitialSizes \subseteq 1..MaxPoolSize
  /\ WaitQueueTimeout \in BOOLEAN
  /\ Seeds \in Nat /\ MaxServers \in Nat /\ Seeds <= MaxServers

\* Clients are numbered in the order the pool creates them.
Clients   == 1..MaxPoolSize
\* Server ids are never used twice.
ServerIds == 1..MaxServers

VARIABLES
  queue,                 \* clients in the pool, head first
  size,                  \* clients created so far
  max_pool_size,
  last_known_serverids,
  freed,                 \* the pool has been destroyed
  call,                  \* per thread: where it is in mongoc_client_pool_pop
  held,                  \* per thread: the clients it has checked out
  conns,                 \* per client: the servers it has a connection to
  destroyed,             \* clients that were destroyed with the pool
  servers,               \* the servers of the topology
  maxId                  \* largest server id given out

poolVars == <<queue, size, max_pool_size, last_known_serverids, freed, call,
              held, conns, destroyed>>
topoVars == <<servers, maxId>>
allPoolVars == <<poolVars, topoVars>>

Pooled == {queue[i] : i \in 1..Len(queue)}
Waiting == {t \in Threads : call[t] = "waiting"}
Trying == {t \in Threads : call[t] = "trying"}

PoolInit ==
  /\ queue = <<>>
  /\ size = 0
  /\ max_pool_size \in InitialSizes
  /\ last_known_serverids = {}
  /\ freed = FALSE
  /\ call = [t \in Threads |-> "idle"]
  /\ held = [t \in Threads |-> {}]
  /\ conns = [c \in Clients |-> {}]
  /\ destroyed = {}
  /\ servers = 1..Seeds
  /\ maxId = Seeds

-----------------------------------------------------------------------------
(* mongoc_client_pool_pop and mongoc_client_pool_try_pop.                  *)

CheckOut(t, c) ==
  /\ held' = [held EXCEPT ![t] = @ \cup {c}]
  /\ call' = [call EXCEPT ![t] = "idle"]

TakeHead(t) ==
  /\ queue # <<>>
  /\ queue' = Tail(queue)
  /\ CheckOut(t, Head(queue))
  /\ UNCHANGED size

MutantCreateClient(t) ==
  /\ size < max_pool_size
  /\ size' = size + 1
  /\ CheckOut(t, size + 1)
  /\ UNCHANGED queue

\* A client is created only when none is pooled and the limit allows it.
CreateClient(t) ==
  /\ queue = <<>>
  /\ size < max_pool_size
  /\ size' = size + 1
  /\ CheckOut(t, size + 1)
  /\ UNCHANGED queue

Exhausted == queue = <<>> /\ size >= max_pool_size

CallPop(t) ==
  /\ call[t] = "idle"
  /\ call' = [call EXCEPT ![t] = "trying"]
  /\ UNCHANGED <<queue, size, max_pool_size, last_known_serverids, freed, held,
                 conns, destroyed, topoVars>>

PopSucceeds(t) ==
  /\ call[t] = "trying"
  /\ TakeHead(t) \/ CreateClient(t)
  /\ UNCHANGED <<max_pool_size, last_known_serverids, freed, conns, destroyed,
                 topoVars>>

PopWaits(t) ==
  /\ call[t] = "trying"
  /\ Exhausted
  /\ call' = [call EXCEPT ![t] = "waiting"]
  /\ UNCHANGED <<queue, size, max_pool_size, last_known_serverids, freed, held,
                 conns, destroyed, topoVars>>

(* The wait runs into waitQueueTimeoutMS, or a woken thread finds nothing  *)
(* and its time used up: pop returns NULL.                                 *)
PopTimesOut(t) ==
  /\ WaitQueueTimeout
  /\ call[t] = "waiting" \/ (call[t] = "trying" /\ Exhausted)
  /\ call' = [call EXCEPT ![t] = "idle"]
  /\ UNCHANGED <<queue, size, max_pool_size, last_known_serverids, freed, held,
                 conns, destroyed, topoVars>>

\* A condition variable may wake a waiter for no reason.
SpuriousWakeup(t) ==
  /\ call[t] = "waiting"
  /\ call' = [call EXCEPT ![t] = "trying"]
  /\ UNCHANGED <<queue, size, max_pool_size, last_known_serverids, freed, held,
                 conns, destroyed, topoVars>>

\* try_pop never waits; when the pool is exhausted it returns NULL.
TryPop(t) ==
  /\ call[t] = "idle"
  /\ TakeHead(t) \/ CreateClient(t)
  /\ UNCHANGED <<max_pool_size, last_known_serverids, freed, conns, destroyed,
                 topoVars>>

-----------------------------------------------------------------------------
(* mongoc_client_pool_push.                                                *)

MutantSignal == call' = call

\* mongoc_cond_signal: one waiter, if there is one, goes back to `again'.
Signal ==
  IF Waiting = {}
    THEN call' = call
    ELSE \E w \in Waiting : call' = [call EXCEPT ![w] = "trying"]

MutantPrunedBy(c) == IF servers # last_known_serverids THEN Pooled \cup {c} ELSE {}

(* The clients a push of c prunes: all pooled ones if the servers changed  *)
(* since the last push, and the incoming one in any case.                  *)
PrunedBy(c) ==
  IF servers # last_known_serverids THEN Pooled \cup {c} ELSE {c}

MutantPush(t, c) ==
  /\ call[t] = "idle"
  /\ c \in held[t]
  /\ last_known_serverids' = servers
  /\ conns' = [d \in Clients |->
                 IF d \in PrunedBy(c) THEN conns[d] \cap servers ELSE conns[d]]
  /\ queue' = <<c>> \o queue
  /\ Signal
  /\ UNCHANGED <<size, max_pool_size, freed, held, destroyed, topoVars>>

Push(t, c) ==
  /\ call[t] = "idle"
  /\ c \in held[t]
  /\ last_known_serverids' = servers
  /\ conns' = [d \in Clients |->
                 IF d \in PrunedBy(c) THEN conns[d] \cap servers ELSE conns[d]]
  /\ queue' = <<c>> \o queue
  /\ held' = [held EXCEPT ![t] = @ \ {c}]
  /\ Signal
  /\ UNCHANGED <<size, max_pool_size, freed, destroyed, topoVars>>

-----------------------------------------------------------------------------
\* mongoc_client_pool_max_size wakes nobody, even when it raises the limit.
MaxSize(n) ==
  /\ max_pool_size' = n
  /\ UNCHANGED <<queue, size, last_known_serverids, freed, call, held, conns,
                 destroyed, topoVars>>

(* The end of mongoc_client_pool_destroy: the pooled clients are destroyed *)
(* and the pool is freed.                                                  *)
DrainAndFree ==
  /\ destroyed' = destroyed \cup Pooled
  /\ queue' = <<>>
  /\ freed' = TRUE
  /\ UNCHANGED <<size, max_pool_size, last_known_serverids, call, held, conns,
                 topoVars>>

-----------------------------------------------------------------------------
(* The topology, updated by the background monitors, and the connections a *)
(* client opens when its holder runs a command on a server (external).     *)

AddServer ==
  /\ maxId < MaxServers
  /\ maxId' = maxId + 1
  /\ servers' = servers \cup {maxId'}
  /\ UNCHANGED poolVars

RemoveServer(s) ==
  /\ s \in servers
  /\ servers' = servers \ {s}
  /\ UNCHANGED <<poolVars, maxId>>

Connect(t, c, s) ==
  /\ call[t] = "idle"
  /\ c \in held[t]
  /\ s \in servers
  /\ conns' = [conns EXCEPT ![c] = @ \cup {s}]
  /\ UNCHANGED <<queue, size, max_pool_size, last_known_serverids, freed, call,
                 held, destroyed, topoVars>>

-----------------------------------------------------------------------------
(* Any program that keeps to the documented contract: a client is pushed   *)
(* by the thread that holds it, and the pool is destroyed when no thread   *)
(* is inside it and every client has been returned.                        *)

ThreadStep(t) ==
  \/ CallPop(t) \/ PopSucceeds(t) \/ PopWaits(t) \/ PopTimesOut(t)
  \/ SpuriousWakeup(t) \/ TryPop(t)
  \/ \E c \in Clients : Push(t, c)
  \/ \E c \in Clients, s \in ServerIds : Connect(t, c, s)

DestroyPool ==
  /\ \A t \in Threads : call[t] = "idle" /\ held[t] = {}
  /\ DrainAndFree

TopologyStep == AddServer \/ \E s \in ServerIds : RemoveServer(s)

PoolNext ==
  \/ ~freed /\ \E t \in Threads : ThreadStep(t)
  \/ ~freed /\ \E n \in 0..MaxPoolSize : MaxSize(n)
  \/ ~freed /\ DestroyPool
  \/ ~freed /\ TopologyStep

PoolSpec == PoolInit /\ [][PoolNext]_allPoolVars

-----------------------------------------------------------------------------
\* Type correctness of the pool, of its users and of the topology.
PoolTypeOK ==
  /\ queue \in Seq(Clients)
  /\ size \in 0..MaxPoolSize
  /\ max_pool_size \in 0..MaxPoolSize
  /\ last_known_serverids \subseteq ServerIds
  /\ freed \in BOOLEAN
  /\ call \in [Threads -> {"idle", "trying", "waiting"}]
  /\ held \in [Threads -> SUBSET Clients]
  /\ conns \in [Clients -> SUBSET ServerIds]
  /\ destroyed \subseteq Clients
  /\ servers \subseteq ServerIds
  /\ maxId \in 0..MaxServers

(* Every client the pool created is in exactly one place: pooled once,     *)
(* checked out by one thread, or destroyed.  No interleaving of pop and    *)
(* push gives one client to two threads, pools it twice or forgets it.     *)
OneOwner ==
  /\ \A c \in Clients :
       c <= size <=> \/ c \in Pooled \cup destroyed
                     \/ \E t \in Threads : c \in held[t]
  /\ \A i, j \in 1..Len(queue) : queue[i] = queue[j] => i = j
  /\ \A t \in Threads : held[t] \cap (Pooled \cup destroyed) = {}
  /\ \A t, u \in Threads : t # u => held[t] \cap held[u] = {}
  /\ Pooled \cap destroyed = {}

(* A pooled client keeps no connection to a server that was gone at the    *)
(* last push, even if the topology changed while it was checked out.       *)
PooledConnectionsKnown ==
  \A c \in Pooled : conns[c] \subseteq last_known_serverids

(* While threads sleep in pop, every pooled client has a woken thread on   *)
(* its way to it: no push signal is lost, whoever barges in.               *)
NoStrandedClient ==
  Waiting # {} => Len(queue) <= Cardinality(Trying)
=============================================================================

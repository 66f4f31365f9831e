-------------------------- MODULE ClientPoolProofs --------------------------
(***************************************************************************)
(* Proofs about ClientPool for any number of threads, clients and servers: *)
(* every client has exactly one owner, a pooled client keeps no connection *)
(* to a server that was gone at the last push, and no thread sleeps beside *)
(* a pooled client that nobody is about to take.                           *)
(***************************************************************************)
EXTENDS ClientPool, FiniteSetTheorems, TLAPS

-----------------------------------------------------------------------------
(* What taking the head of the queue and pushing a new head do to the set  *)
(* of its elements.                                                        *)

Elements(q) == {q[i] : i \in 1..Len(q)}

NoRepeats(q) == \A i, j \in 1..Len(q) : q[i] = q[j] => i = j

LEMMA TailOfQueue ==
  ASSUME NEW S, NEW q \in Seq(S), q # <<>>, NoRepeats(q)
  PROVE  /\ Tail(q) \in Seq(S)
         /\ Head(q) \in Elements(q)
         /\ Elements(Tail(q)) = Elements(q) \ {Head(q)}
         /\ NoRepeats(Tail(q))
  <1>1. /\ Len(q) \in Nat \ {0}
        /\ Len(Tail(q)) = Len(q) - 1
        /\ Tail(q) \in Seq(S)
        /\ Head(q) = q[1]
        /\ \A i \in 1..Len(Tail(q)) : Tail(q)[i] = q[i + 1]
    OBVIOUS
  <1>2. Head(q) \in Elements(q)
    BY <1>1 DEF Elements
  <1>3. Elements(Tail(q)) \subseteq Elements(q) \ {Head(q)}
    BY <1>1 DEF Elements, NoRepeats
  <1>4. ASSUME NEW x \in Elements(q), x # Head(q)
        PROVE  x \in Elements(Tail(q))
    <2>1. PICK i \in 1..Len(q) : x = q[i]
      BY DEF Elements
    <2>2. i - 1 \in 1..Len(Tail(q)) /\ Tail(q)[i - 1] = x
      BY <1>1, <1>4, <2>1
    <2> QED
      BY <2>2 DEF Elements
  <1>5. NoRepeats(Tail(q))
    BY <1>1 DEF NoRepeats
  <1> QED
    BY <1>1, <1>2, <1>3, <1>4, <1>5

LEMMA PushOnQueue ==
  ASSUME NEW S, NEW q \in Seq(S), NEW c \in S, c \notin Elements(q), NoRepeats(q)
  PROVE  /\ <<c>> \o q \in Seq(S)
         /\ Elements(<<c>> \o q) = Elements(q) \cup {c}
         /\ NoRepeats(<<c>> \o q)
  <1> DEFINE r == <<c>> \o q
  <1>1. /\ r \in Seq(S)
        /\ Len(q) \in Nat
        /\ Len(r) = Len(q) + 1
        /\ r[1] = c
        /\ \A i \in 2..Len(r) : r[i] = q[i - 1]
    OBVIOUS
  <1>2. ASSUME NEW i \in 1..Len(q) PROVE i + 1 \in 2..Len(r) /\ r[i + 1] = q[i]
    BY <1>1
  <1> HIDE DEF r
  <1>3. Elements(r) \subseteq Elements(q) \cup {c}
    <2> SUFFICES ASSUME NEW i \in 1..Len(r) PROVE r[i] \in Elements(q) \cup {c}
      BY DEF Elements
    <2>1. CASE i = 1
      BY <1>1, <2>1
    <2>2. CASE i # 1
      <3>1. i - 1 \in 1..Len(q) /\ r[i] = q[i - 1]
        BY <1>1, <2>2
      <3> QED
        BY <3>1 DEF Elements
    <2> QED
      BY <2>1, <2>2
  <1>4. Elements(q) \cup {c} \subseteq Elements(r)
    <2>1. c \in Elements(r)
      <3>1. 1 \in 1..Len(r)
        BY <1>1
      <3> QED
        BY <1>1, <3>1 DEF Elements
    <2>2. ASSUME NEW i \in 1..Len(q) PROVE q[i] \in Elements(r)
      <3>1. i + 1 \in 1..Len(r) /\ r[i + 1] = q[i]
        BY <1>1, <1>2
      <3> QED
        BY <3>1 DEF Elements
    <2> QED
      BY <2>1, <2>2 DEF Elements
  <1>5. NoRepeats(r)
    <2> SUFFICES ASSUME NEW i \in 1..Len(r), NEW j \in 1..Len(r), r[i] = r[j]
                 PROVE  i = j
      BY DEF NoRepeats
    <2>1. ASSUME NEW k \in 1..Len(r), k # 1
          PROVE  k - 1 \in 1..Len(q) /\ r[k] = q[k - 1] /\ r[k] # c
      <3>1. k - 1 \in 1..Len(q) /\ r[k] = q[k - 1]
        BY <1>1, <2>1
      <3> QED
        BY <3>1 DEF Elements
    <2>2. CASE i = 1 \/ j = 1
      BY <1>1, <2>1, <2>2
    <2>3. CASE i # 1 /\ j # 1
      <3>1. q[i - 1] = q[j - 1] /\ i - 1 \in 1..Len(q) /\ j - 1 \in 1..Len(q)
        BY <2>1, <2>3
      <3>2. i - 1 = j - 1
        BY <3>1 DEF NoRepeats
      <3> QED
        BY <1>1, <3>2
    <2> QED
      BY <2>2, <2>3
  <1> QED
    BY <1>1, <1>3, <1>4, <1>5 DEF r

-----------------------------------------------------------------------------
(* The inductive invariant.  OneOwner makes PooledConnectionsKnown         *)
(* inductive: a connection is opened on a client that is held, and a held  *)
(* client is not pooled.                                                   *)
PoolInv == PoolTypeOK /\ OneOwner /\ PooledConnectionsKnown

LEMMA PoolInitInv == PoolInit => PoolInv
  <1> SUFFICES ASSUME PoolInit PROVE PoolInv
    OBVIOUS
  <1>1. Pooled = {}
    BY DEF PoolInit, Pooled
  <1>2. PoolTypeOK
    <2>1. size \in 0..MaxPoolSize /\ max_pool_size \in 0..MaxPoolSize
      BY PoolAssumption DEF PoolInit
    <2>2. servers \subseteq ServerIds /\ maxId \in 0..MaxServers
      BY PoolAssumption DEF PoolInit, ServerIds
    <2>3. /\ call \in [Threads -> {"idle", "trying", "waiting"}]
          /\ held \in [Threads -> SUBSET Clients]
          /\ conns \in [Clients -> SUBSET ServerIds]
      BY DEF PoolInit
    <2>4. queue \in Seq(Clients)
      BY DEF PoolInit
    <2>5. last_known_serverids \subseteq ServerIds /\ destroyed \subseteq Clients
      BY DEF PoolInit
    <2>6. freed \in BOOLEAN
      BY DEF PoolInit
    <2> QED
      BY <2>1, <2>2, <2>3, <2>4, <2>5, <2>6 DEF PoolTypeOK
  <1>3. OneOwner
    BY <1>1 DEF PoolInit, OneOwner, Clients
  <1> QED
    BY <1>1, <1>2, <1>3 DEF PoolInv, PooledConnectionsKnown

(* A step that moves no client and opens or closes no connection.          *)
LEMMA NoClientMoves ==
  ASSUME PoolInv, PoolTypeOK',
         UNCHANGED <<queue, size, last_known_serverids, held, conns, destroyed>>
  PROVE  PoolInv'
  BY DEF PoolInv, OneOwner, PooledConnectionsKnown, Pooled

(* A thread gets the head of the queue.                                    *)
LEMMA TakeHeadInv ==
  ASSUME PoolInv, NEW t \in Threads, TakeHead(t),
         UNCHANGED <<max_pool_size, last_known_serverids, freed, conns,
                     destroyed, topoVars>>
  PROVE  PoolInv'
  <1> USE DEF TakeHead, CheckOut
  <1>1. /\ NoRepeats(queue) /\ Pooled = Elements(queue)
        /\ Pooled' = Elements(queue')
    BY DEF PoolInv, OneOwner, NoRepeats, Pooled, Elements
  <1>2. /\ Tail(queue) \in Seq(Clients)
        /\ Head(queue) \in Pooled
        /\ Pooled' = Pooled \ {Head(queue)}
        /\ NoRepeats(queue')
    BY <1>1, TailOfQueue DEF PoolInv, PoolTypeOK
  <1>3. Head(queue) \in Clients
    BY DEF PoolInv, PoolTypeOK
  <1>4. PoolTypeOK'
    BY <1>2, <1>3 DEF PoolInv, PoolTypeOK, topoVars
  <1>5. held' = [held EXCEPT ![t] = held[t] \cup {Head(queue)}]
    OBVIOUS
  <1>6. OneOwner'
    <2>1. /\ held'[t] = held[t] \cup {Head(queue)}
          /\ \A u \in Threads : u # t => held'[u] = held[u]
      BY <1>5 DEF PoolInv, PoolTypeOK
    <2>2. ASSUME NEW d
          PROVE  (\E u \in Threads : d \in held'[u])
                   <=> d = Head(queue) \/ \E u \in Threads : d \in held[u]
      BY <2>1
    <2>3. \A d \in Clients :
            d <= size' <=> \/ d \in Pooled' \cup destroyed'
                           \/ \E u \in Threads : d \in held'[u]
      BY <1>2, <2>2 DEF PoolInv, OneOwner
    <2>4. \A u \in Threads : held'[u] \cap (Pooled' \cup destroyed') = {}
      BY <1>2, <2>1 DEF PoolInv, OneOwner
    <2>5. \A u, v \in Threads : u # v => held'[u] \cap held'[v] = {}
      BY <1>2, <2>1 DEF PoolInv, OneOwner
    <2>6. Pooled' \cap destroyed' = {}
      BY <1>2 DEF PoolInv, OneOwner
    <2> QED
      BY <1>2, <2>3, <2>4, <2>5, <2>6 DEF OneOwner, NoRepeats
  <1>7. PooledConnectionsKnown'
    BY <1>2 DEF PoolInv, PooledConnectionsKnown
  <1> QED
    BY <1>4, <1>6, <1>7 DEF PoolInv

(* A thread gets a client nobody had before.                               *)
LEMMA CreateClientInv ==
  ASSUME PoolInv, NEW t \in Threads, CreateClient(t),
         UNCHANGED <<max_pool_size, last_known_serverids, freed, conns,
                     destroyed, topoVars>>
  PROVE  PoolInv'
  <1> USE DEF CreateClient, CheckOut
  <1>1. size \in Nat /\ size + 1 \in Clients /\ size + 1 \in 0..MaxPoolSize
    BY PoolAssumption DEF PoolInv, PoolTypeOK, Clients
  <1>2. PoolTypeOK'
    BY <1>1 DEF PoolInv, PoolTypeOK, topoVars
  <1>3. OneOwner'
    <2>1. Pooled' = Pooled
      BY DEF Pooled
    <2>2. /\ held'[t] = held[t] \cup {size + 1}
          /\ \A u \in Threads : u # t => held'[u] = held[u]
      BY DEF PoolInv, PoolTypeOK
    <2>3. ~(size + 1 <= size)
      BY <1>1
    <2>4. /\ size + 1 \notin Pooled
          /\ size + 1 \notin destroyed
          /\ \A u \in Threads : size + 1 \notin held[u]
      BY <1>1, <2>3 DEF PoolInv, OneOwner
    <2>5. ASSUME NEW d
          PROVE  (\E u \in Threads : d \in held'[u])
                   <=> d = size + 1 \/ \E u \in Threads : d \in held[u]
      BY <2>2
    <2>6. \A d \in Clients :
            d <= size' <=> \/ d \in Pooled' \cup destroyed'
                           \/ \E u \in Threads : d \in held'[u]
      <3> SUFFICES ASSUME NEW d \in Clients
                   PROVE  d <= size' <=> \/ d \in Pooled' \cup destroyed'
                                         \/ \E u \in Threads : d \in held'[u]
        OBVIOUS
      <3>1. d <= size' <=> d <= size \/ d = size + 1
        BY <1>1 DEF Clients
      <3> QED
        BY <2>1, <2>5, <3>1 DEF PoolInv, OneOwner
    <2>7. \A u \in Threads : held'[u] \cap (Pooled' \cup destroyed') = {}
      BY <2>1, <2>2, <2>4 DEF PoolInv, OneOwner
    <2>8. \A u, v \in Threads : u # v => held'[u] \cap held'[v] = {}
      BY <2>2, <2>4 DEF PoolInv, OneOwner
    <2> QED
      BY <2>1, <2>6, <2>7, <2>8 DEF PoolInv, OneOwner
  <1>4. PooledConnectionsKnown'
    BY DEF PoolInv, PooledConnectionsKnown, Pooled
  <1> QED
    BY <1>2, <1>3, <1>4 DEF PoolInv

(* A thread gives a client back: everything pooled is pruned against the   *)
(* servers known from now on.                                              *)
LEMMA PushInv ==
  ASSUME PoolInv, NEW t \in Threads, NEW c \in Clients, Push(t, c)
  PROVE  PoolInv'
  <1> USE DEF Push
  <1>1. /\ c \in held[t] /\ c \notin Pooled /\ c \notin destroyed
        /\ \A u \in Threads : u # t => c \notin held[u]
    BY DEF PoolInv, OneOwner
  <1>2. /\ NoRepeats(queue) /\ Pooled = Elements(queue)
        /\ Pooled' = Elements(queue')
    BY DEF PoolInv, OneOwner, NoRepeats, Pooled, Elements
  <1>3. /\ queue' \in Seq(Clients)
        /\ Pooled' = Pooled \cup {c}
        /\ NoRepeats(queue')
    BY <1>1, <1>2, PushOnQueue DEF PoolInv, PoolTypeOK
  <1>4. call' \in [Threads -> {"idle", "trying", "waiting"}]
    BY DEF PoolInv, PoolTypeOK, Signal, Waiting
  <1>5. PoolTypeOK'
    BY <1>3, <1>4 DEF PoolInv, PoolTypeOK, topoVars
  <1>6. OneOwner'
    <2>1. /\ held'[t] = held[t] \ {c}
          /\ \A u \in Threads : u # t => held'[u] = held[u]
      BY DEF PoolInv, PoolTypeOK
    <2>2. ASSUME NEW d
          PROVE  (\E u \in Threads : d \in held[u])
                   <=> d = c \/ \E u \in Threads : d \in held'[u]
      BY <1>1, <2>1
    <2>3. \A d \in Clients :
            d <= size' <=> \/ d \in Pooled' \cup destroyed'
                           \/ \E u \in Threads : d \in held'[u]
      BY <1>3, <2>2 DEF PoolInv, OneOwner
    <2>4. ASSUME NEW u \in Threads
          PROVE  held'[u] \cap (Pooled' \cup destroyed') = {}
      <3>1. held[u] \cap Pooled = {} /\ held[u] \cap destroyed = {}
        BY DEF PoolInv, OneOwner
      <3>2. held'[u] \subseteq held[u] /\ c \notin held'[u]
        BY <1>1, <2>1
      <3> QED
        BY <1>3, <3>1, <3>2
    <2>5. \A u, v \in Threads : u # v => held'[u] \cap held'[v] = {}
      BY <2>1 DEF PoolInv, OneOwner
    <2>6. Pooled' \cap destroyed' = {}
      BY <1>1, <1>3 DEF PoolInv, OneOwner
    <2> QED
      BY <1>3, <2>3, <2>4, <2>5, <2>6 DEF OneOwner, NoRepeats
  <1>7. PooledConnectionsKnown'
    <2> SUFFICES ASSUME NEW d \in Pooled'
                 PROVE  conns'[d] \subseteq last_known_serverids'
      BY DEF PooledConnectionsKnown
    <2>1. d \in Clients
      BY <1>3 DEF PoolInv, PoolTypeOK, Pooled
    <2>2. CASE d \in PrunedBy(c)
      BY <2>1, <2>2
    <2>3. CASE d \notin PrunedBy(c)
      <3>1. servers = last_known_serverids /\ d \in Pooled
        BY <1>3, <2>3 DEF PrunedBy
      <3> QED
        BY <2>1, <2>3, <3>1 DEF PoolInv, PooledConnectionsKnown
    <2> QED
      BY <2>2, <2>3
  <1> QED
    BY <1>5, <1>6, <1>7 DEF PoolInv

LEMMA DrainInv == ASSUME PoolInv, DrainAndFree PROVE PoolInv'
  <1> USE DEF DrainAndFree
  <1>1. Pooled' = {}
    BY DEF Pooled
  <1>2. Pooled \subseteq Clients
    BY DEF PoolInv, PoolTypeOK, Pooled
  <1>3. PoolTypeOK'
    BY <1>2 DEF PoolInv, PoolTypeOK, topoVars
  <1>4. OneOwner'
    <2>1. NoRepeats(queue')
      BY DEF NoRepeats
    <2>2. Pooled' \cup destroyed' = Pooled \cup destroyed
      BY <1>1
    <2> QED
      BY <1>1, <2>1, <2>2 DEF PoolInv, OneOwner, NoRepeats
  <1> QED
    BY <1>1, <1>3, <1>4 DEF PoolInv, PooledConnectionsKnown

(* A connection is opened on a client in somebody's hands.                 *)
LEMMA ConnectInv ==
  ASSUME PoolInv, NEW t \in Threads, NEW c \in Clients, NEW s \in ServerIds,
         Connect(t, c, s)
  PROVE  PoolInv'
  <1> USE DEF Connect
  <1>1. PoolTypeOK'
    BY DEF PoolInv, PoolTypeOK, topoVars
  <1>2. Pooled' = Pooled /\ c \notin Pooled
    BY DEF PoolInv, OneOwner, Pooled
  <1>3. OneOwner'
    BY <1>2 DEF PoolInv, OneOwner
  <1>4. PooledConnectionsKnown'
    BY <1>2 DEF PoolInv, PoolTypeOK, PooledConnectionsKnown
  <1> QED
    BY <1>1, <1>3, <1>4 DEF PoolInv

LEMMA PoolStepInv == PoolInv /\ [PoolNext]_allPoolVars => PoolInv'
  <1> SUFFICES ASSUME PoolInv, [PoolNext]_allPoolVars PROVE PoolInv'
    OBVIOUS
  <1> USE DEF topoVars, poolVars
  <1>1. ASSUME NEW t \in Threads, ThreadStep(t) PROVE PoolInv'
    <2>1. CASE CallPop(t) \/ PopWaits(t) \/ PopTimesOut(t) \/ SpuriousWakeup(t)
      <3>1. PoolTypeOK'
        BY <2>1 DEF CallPop, PopWaits, PopTimesOut, SpuriousWakeup, PoolInv,
                    PoolTypeOK
      <3> QED
        BY <2>1, <3>1, NoClientMoves
           DEF CallPop, PopWaits, PopTimesOut, SpuriousWakeup
    <2>2. CASE PopSucceeds(t) \/ TryPop(t)
      BY <2>2, TakeHeadInv, CreateClientInv DEF PopSucceeds, TryPop
    <2>3. ASSUME NEW c \in Clients, Push(t, c) PROVE PoolInv'
      BY <2>3, PushInv
    <2>4. ASSUME NEW c \in Clients, NEW s \in ServerIds, Connect(t, c, s)
          PROVE  PoolInv'
      BY <2>4, ConnectInv
    <2> QED
      BY <1>1, <2>1, <2>2, <2>3, <2>4 DEF ThreadStep
  <1>2. ASSUME NEW n \in 0..MaxPoolSize, MaxSize(n) PROVE PoolInv'
    <2>1. PoolTypeOK'
      BY <1>2 DEF MaxSize, PoolInv, PoolTypeOK
    <2> QED
      BY <1>2, <2>1, NoClientMoves DEF MaxSize
  <1>3. CASE DestroyPool
    BY <1>3, DrainInv DEF DestroyPool
  <1>4. CASE TopologyStep
    <2>1. servers' \subseteq ServerIds /\ maxId' \in 0..MaxServers
      <3>1. CASE AddServer
        <4>1. maxId + 1 \in ServerIds /\ maxId + 1 \in 0..MaxServers
          BY <3>1, PoolAssumption DEF AddServer, PoolInv, PoolTypeOK, ServerIds
        <4> QED
          BY <3>1, <4>1 DEF AddServer, PoolInv, PoolTypeOK
      <3>2. CASE ~AddServer
        BY <1>4, <3>2 DEF TopologyStep, RemoveServer, PoolInv, PoolTypeOK
      <3> QED
        BY <3>1, <3>2
    <2>2. UNCHANGED poolVars
      BY <1>4 DEF TopologyStep, AddServer, RemoveServer
    <2>3. PoolTypeOK'
      BY <2>1, <2>2 DEF PoolInv, PoolTypeOK
    <2> QED
      BY <2>2, <2>3, NoClientMoves
  <1>5. CASE UNCHANGED allPoolVars
    <2>1. PoolTypeOK'
      BY <1>5 DEF allPoolVars, PoolInv, PoolTypeOK
    <2> QED
      BY <1>5, <2>1, NoClientMoves DEF allPoolVars
  <1> QED
    BY <1>1, <1>2, <1>3, <1>4, <1>5 DEF PoolNext

-----------------------------------------------------------------------------
LEMMA PoolInvariance == PoolSpec => []PoolInv
  BY PoolInitInv, PoolStepInv, PTL DEF PoolSpec

(* Any number of threads may pop and push: a client the pool created is    *)
(* pooled once, held by one thread or destroyed, and never two of these.   *)
THEOREM ExclusiveOwnership == PoolSpec => []OneOwner
  <1>1. PoolInv => OneOwner
    BY DEF PoolInv
  <1> QED
    BY <1>1, PoolInvariance, PTL

(* No client is handed out of the pool with a connection to a server that  *)
(* was gone at the last push.                                              *)
THEOREM PruningWorks == PoolSpec => []PooledConnectionsKnown
  <1>1. PoolInv => PooledConnectionsKnown
    BY DEF PoolInv
  <1> QED
    BY <1>1, PoolInvariance, PTL

-----------------------------------------------------------------------------
(* No client is stranded.  Every step changes the number of pooled clients *)
(* and the number of woken threads by one at most, so what counts is which *)
(* of the two changes with the other.                                      *)

\* A thread that enters pop or is woken counts among those that try,
LEMMA StartsTrying ==
  ASSUME PoolTypeOK, NEW t \in Threads, call' = [call EXCEPT ![t] = "trying"]
  PROVE  /\ Cardinality(Trying) \in Nat
         /\ call[t] = "trying" => Cardinality(Trying') = Cardinality(Trying)
         /\ call[t] # "trying" => Cardinality(Trying') = Cardinality(Trying) + 1
         /\ Waiting' \subseteq Waiting
<1>1. IsFiniteSet(Trying)
  BY PoolAssumption, FS_Subset DEF Trying
<1>2. Trying' = Trying \cup {t} /\ (t \in Trying <=> call[t] = "trying")
  BY DEF Trying, PoolTypeOK
<1>3. Waiting' \subseteq Waiting
  BY DEF Waiting, PoolTypeOK
<1> QED
  BY <1>1, <1>2, <1>3, FS_AddElement, FS_CardinalityType

\* and one that leaves pop no longer does.
LEMMA StopsTrying ==
  ASSUME PoolTypeOK, NEW t \in Threads, call' = [call EXCEPT ![t] = "idle"]
  PROVE  /\ Cardinality(Trying) \in Nat /\ Cardinality(Trying') \in Nat
         /\ call[t] = "trying" => Cardinality(Trying') = Cardinality(Trying) - 1
         /\ call[t] # "trying" => Cardinality(Trying') = Cardinality(Trying)
         /\ Waiting' \subseteq Waiting
<1>1. IsFiniteSet(Trying)
  BY PoolAssumption, FS_Subset DEF Trying
<1>2. Trying' = Trying \ {t} /\ (t \in Trying <=> call[t] = "trying")
  BY DEF Trying, PoolTypeOK
<1>3. Waiting' \subseteq Waiting
  BY DEF Waiting, PoolTypeOK
<1>4. /\ IsFiniteSet(Trying')
      /\ Cardinality(Trying') = IF t \in Trying THEN Cardinality(Trying) - 1
                                ELSE Cardinality(Trying)
  BY <1>1, <1>2, FS_RemoveElement
<1> QED
  BY <1>1, <1>2, <1>3, <1>4, FS_CardinalityType

\* A step that touches neither the queue nor the threads.
LEMMA NobodyMoves ==
  ASSUME NoStrandedClient, UNCHANGED <<queue, call>>
  PROVE  NoStrandedClient'
  BY DEF NoStrandedClient, Waiting, Trying

\* Getting a client takes one woken thread away, and one pooled client.
LEMMA GetsClientStrandsNone ==
  ASSUME PoolTypeOK, NoStrandedClient, NEW t \in Threads,
         call[t] # "waiting", TakeHead(t) \/ CreateClient(t)
  PROVE  NoStrandedClient'
<1>1. call' = [call EXCEPT ![t] = "idle"]
  BY DEF TakeHead, CreateClient, CheckOut
<1>2. /\ Cardinality(Trying) \in Nat /\ Cardinality(Trying') \in Nat
      /\ Cardinality(Trying') = Cardinality(Trying) - 1
           \/ Cardinality(Trying') = Cardinality(Trying)
      /\ Waiting' \subseteq Waiting
  BY <1>1, StopsTrying
<1>3. CASE queue = <<>>
  <2>1. Len(queue') = 0
    BY <1>3 DEF TakeHead, CreateClient
  <2> QED
    BY <1>2, <2>1 DEF NoStrandedClient
<1>4. CASE queue # <<>>
  <2>1. Len(queue) \in Nat /\ Len(queue') = Len(queue) - 1
    BY <1>4 DEF TakeHead, CreateClient, PoolTypeOK
  <2> QED
    BY <1>2, <2>1 DEF NoStrandedClient
<1> QED
  BY <1>3, <1>4

\* The signal of a push wakes a thread for the client it brings.
LEMMA PushStrandsNone ==
  ASSUME PoolTypeOK, NoStrandedClient, NEW t \in Threads, NEW c \in Clients, Push(t, c)
  PROVE  NoStrandedClient'
<1>1. Len(queue) \in Nat /\ Len(queue') = Len(queue) + 1
  BY DEF Push, PoolTypeOK
<1>2. CASE Waiting = {}
  <2>1. call' = call
    BY <1>2 DEF Push, Signal
  <2> QED
    BY <1>2, <2>1 DEF NoStrandedClient, Waiting
<1>3. CASE Waiting # {}
  <2>1. PICK w \in Waiting : call' = [call EXCEPT ![w] = "trying"]
    BY <1>3 DEF Push, Signal
  <2>2. w \in Threads /\ call[w] # "trying"
    BY DEF Waiting
  <2>3. Cardinality(Trying) \in Nat /\ Cardinality(Trying') = Cardinality(Trying) + 1
    BY <2>1, <2>2, StartsTrying
  <2> QED
    BY <1>1, <1>3, <2>3 DEF NoStrandedClient
<1> QED
  BY <1>2, <1>3

\* Every step of a thread that is inside pop, or enters or leaves it.
LEMMA ThreadStrandsNone ==
  ASSUME PoolTypeOK, NoStrandedClient, NEW t \in Threads, ThreadStep(t)
  PROVE  NoStrandedClient'
<1>1. CASE CallPop(t) \/ SpuriousWakeup(t)
  <2>1. call' = [call EXCEPT ![t] = "trying"] /\ queue' = queue
    BY <1>1 DEF CallPop, SpuriousWakeup
  <2>2. /\ Cardinality(Trying) \in Nat
        /\ Cardinality(Trying') = Cardinality(Trying)
             \/ Cardinality(Trying') = Cardinality(Trying) + 1
        /\ Waiting' \subseteq Waiting
    BY <2>1, StartsTrying
  <2> QED
    BY <2>1, <2>2 DEF NoStrandedClient, PoolTypeOK
<1>2. CASE PopSucceeds(t) \/ TryPop(t)
  BY <1>2, GetsClientStrandsNone DEF PopSucceeds, TryPop
<1>3. CASE (PopWaits(t) \/ PopTimesOut(t)) /\ queue = <<>>
  <2>1. Len(queue') = 0
    BY <1>3 DEF PopWaits, PopTimesOut
  <2>2. Cardinality(Trying') \in Nat
    BY PoolAssumption, FS_Subset, FS_CardinalityType DEF Trying
  <2> QED
    BY <2>1, <2>2 DEF NoStrandedClient
<1>4. CASE PopTimesOut(t) /\ call[t] = "waiting"
  <2>1. call' = [call EXCEPT ![t] = "idle"] /\ queue' = queue
    BY <1>4 DEF PopTimesOut
  <2>2. /\ Cardinality(Trying) \in Nat /\ Cardinality(Trying') = Cardinality(Trying)
        /\ Waiting' \subseteq Waiting
    BY <1>4, <2>1, StopsTrying
  <2> QED
    BY <2>1, <2>2 DEF NoStrandedClient
<1>5. ASSUME NEW c \in Clients, Push(t, c) PROVE NoStrandedClient'
  BY <1>5, PushStrandsNone
<1>6. ASSUME NEW c \in Clients, NEW s \in ServerIds, Connect(t, c, s)
      PROVE  NoStrandedClient'
  BY <1>6, NobodyMoves DEF Connect
<1> QED
  BY <1>1, <1>2, <1>3, <1>4, <1>5, <1>6
  DEF ThreadStep, PopWaits, PopTimesOut, Exhausted

\* Every step of the pool.
LEMMA StepStrandsNone ==
  PoolInv /\ NoStrandedClient /\ [PoolNext]_allPoolVars => NoStrandedClient'
<1> SUFFICES ASSUME PoolInv, NoStrandedClient, [PoolNext]_allPoolVars
             PROVE  NoStrandedClient'
  OBVIOUS
<1>1. PoolTypeOK
  BY DEF PoolInv
<1>2. ASSUME NEW t \in Threads, ThreadStep(t) PROVE NoStrandedClient'
  BY <1>1, <1>2, ThreadStrandsNone
<1>3. CASE DestroyPool
  <2>1. Len(queue') = 0
    BY <1>3 DEF DestroyPool, DrainAndFree
  <2>2. Cardinality(Trying') \in Nat
    BY PoolAssumption, FS_Subset, FS_CardinalityType DEF Trying
  <2> QED
    BY <2>1, <2>2 DEF NoStrandedClient
<1>4. ASSUME NEW n \in 0..MaxPoolSize, MaxSize(n) PROVE NoStrandedClient'
  BY <1>4, NobodyMoves DEF MaxSize
<1>5. CASE TopologyStep \/ UNCHANGED allPoolVars
  BY <1>5, NobodyMoves
  DEF TopologyStep, AddServer, RemoveServer, allPoolVars, poolVars
<1> QED
  BY <1>2, <1>3, <1>4, <1>5 DEF PoolNext

(* However many threads pop, barge in, time out and push: while one sleeps *)
(* in mongoc_client_pool_pop there are at least as many threads on their   *)
(* way out of the wait as there are pooled clients.                        *)
THEOREM NobodySleepsBesideClient == PoolSpec => []NoStrandedClient
<1>1. PoolInit => NoStrandedClient
  BY DEF PoolInit, NoStrandedClient, Waiting
<1> QED
  BY <1>1, StepStrandsNone, PoolInvariance, PTL DEF PoolSpec
=============================================================================

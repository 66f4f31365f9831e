------------------------- MODULE PoolProgramsProofs --------------------------
(***************************************************************************)
(* Proofs about the two programs that run on ClientPool, for any topology. *)
(*                                                                         *)
(* PoolWorkers, for any number of workers and any maxPoolSize: the program *)
(* keeps the pool's contract, the pool never holds more clients than there *)
(* are workers, and every client is back when main destroys the pool.      *)
(*                                                                         *)
(* PoolWarmup, for any num_clients: the program keeps the pool's contract, *)
(* and a warm-up that succeeds leaves num_clients connected clients in the *)
(* pool.  Each theorem is about one of the two: their specifications have  *)
(* nothing in common but the pool.                                         *)
(***************************************************************************)
EXTENDS PoolWorkers, PoolWarmup, ClientPoolProofs

-----------------------------------------------------------------------------
(* PoolWorkers.  The inductive invariant: where the threads are in their   *)
(* code says what they are doing with the pool.  abort ends the process    *)
(* wherever it is.                                                         *)

Labels == {"unborn", "check", "call", "pop", "update", "push", "exit"}
Ending == {"endSessionsPop", "endSessionsPush", "drain", "final", "done"}

OwnTypeOK ==
  /\ mpc \in {"start", "sample", "join", "aborted"} \cup Ending
  /\ joined \in 0..NumWorkers
  /\ wpc \in [Workers -> Labels]
  /\ client \in [Workers -> Clients \cup {NoClient}]

\* A worker is inside pop, or holds one client, or has nothing of the pool.
WorkerOK(w) ==
  /\ wpc[w] \in {"unborn", "check", "call", "exit"} => call[w] = "idle" /\ held[w] = {}
  /\ wpc[w] = "pop" => call[w] \in {"trying", "waiting"} /\ held[w] = {}
  /\ wpc[w] \in {"update", "push"} => call[w] = "idle" /\ held[w] = {client[w]}

\* main uses the pool only to end the sessions.
MainOK ==
  /\ mpc = "endSessionsPop" => call[MainThread] = "trying" /\ size > 0
  /\ mpc # "endSessionsPop" => call[MainThread] = "idle"
  /\ mpc = "endSessionsPush" => \E c \in Clients : held[MainThread] = {c}
  /\ mpc # "endSessionsPush" => held[MainThread] = {}

\* Workers are created in order, joined in order, and gone at the end.
Phases ==
  /\ mpc = "start" => \A w \in Workers : w > joined => wpc[w] = "unborn"
  /\ mpc = "sample" => joined = 0
  /\ mpc = "join" => \A w \in Workers : w <= joined => wpc[w] = "exit"
  /\ mpc \in Ending => \A w \in Workers : wpc[w] = "exit"

\* The pool is there until main frees it, and then has freed every client.
PoolThere ==
  /\ mpc \notin {"final", "done"} => ~freed /\ destroyed = {}
  /\ mpc \in {"final", "done"} => destroyed = 1..size
  /\ sessions => size > 0

Control == (\A w \in Workers : WorkerOK(w)) /\ MainOK /\ Phases /\ PoolThere

Inv ==
  /\ OwnTypeOK /\ PoolInv
  /\ size <= NumWorkers
  /\ mpc # "aborted" => Control

-----------------------------------------------------------------------------
(* What the pool's operations do to the threads.                           *)

\* No thread but t is moved by the step, except that a sleeper may be woken.
OthersStay(t) ==
  \A u \in Threads \ {t} :
    /\ held'[u] = held[u]
    /\ call'[u] = call[u] \/ (call[u] = "waiting" /\ call'[u] = "trying")

\* Entering pop, falling asleep in it and being woken touch one thread.
LEMMA PopMoves ==
  ASSUME PoolTypeOK, NEW t \in Threads,
         CallPop(t) \/ PopWaits(t) \/ SpuriousWakeup(t)
  PROVE  /\ OthersStay(t) /\ held'[t] = held[t]
         /\ call'[t] \in {"trying", "waiting"}
         /\ CallPop(t) => call'[t] = "trying"
         /\ UNCHANGED <<size, freed, destroyed>>
BY DEF PoolTypeOK, CallPop, PopWaits, SpuriousWakeup, OthersStay

\* Getting a client gives the thread one more, pooled or new.
LEMMA PopGives ==
  ASSUME PoolTypeOK, NEW t \in Threads, PopSucceeds(t)
  PROVE  /\ OthersStay(t) /\ call'[t] = "idle"
         /\ \E c : held'[t] = held[t] \cup {c}
         /\ UNCHANGED <<freed, destroyed>>
<1>1. PICK c : CheckOut(t, c)
  BY DEF PopSucceeds, TakeHead, CreateClient
<1>2. OthersStay(t) /\ call'[t] = "idle" /\ held'[t] = held[t] \cup {c}
  BY <1>1 DEF PoolTypeOK, CheckOut, OthersStay
<1> QED BY <1>2 DEF PopSucceeds

\* A push takes the client from the thread and may wake one sleeper.
LEMMA PushTakes ==
  ASSUME PoolTypeOK, NEW t \in Threads, NEW c, Push(t, c)
  PROVE  /\ OthersStay(t) /\ call'[t] = "idle" /\ held'[t] = held[t] \ {c}
         /\ UNCHANGED <<size, freed, destroyed>>
<1>1. held' = [held EXCEPT ![t] = @ \ {c}] /\ call[t] = "idle"
  BY DEF Push
<1>2. call' = call \/ \E w \in Waiting : call' = [call EXCEPT ![w] = "trying"]
  BY DEF Push, Signal
<1>3. OthersStay(t) /\ call'[t] = "idle" /\ held'[t] = held[t] \ {c}
  BY <1>1, <1>2 DEF PoolTypeOK, OthersStay, Waiting
<1> QED BY <1>3 DEF Push

-----------------------------------------------------------------------------
(* Counting clients.                                                       *)

\* The first n numbers are n.
LEMMA FirstNumbers ==
  ASSUME NEW n \in Nat
  PROVE  IsFiniteSet(1..n) /\ Cardinality(1..n) = n
<1>1. IsFiniteSet(1..n) /\ Cardinality(1..n) = IF 1 > n THEN 0 ELSE n - 1 + 1
  BY FS_Interval
<1> QED BY <1>1

\* When nobody holds a client and none is destroyed, all are in the queue.
LEMMA AllInQueue ==
  ASSUME PoolInv, destroyed = {}, \A t \in Threads : held[t] = {}
  PROVE  Pooled = 1..size /\ Len(queue) = size
<1>1. PoolTypeOK /\ OneOwner
  BY DEF PoolInv
<1>2. Pooled = 1..size
  <2>1. Pooled \subseteq Clients
    BY <1>1 DEF Pooled, PoolTypeOK
  <2>2. \A c \in Clients : c <= size <=> c \in Pooled
    BY <1>1 DEF OneOwner
  <2>3. 1..size \subseteq Clients /\ size \in Nat
    BY <1>1, PoolAssumption DEF Clients, PoolTypeOK
  <2>4. \A c \in Clients : c <= size <=> c \in 1..size
    BY <2>3, PoolAssumption DEF Clients
  <2> QED BY <2>1, <2>2, <2>3, <2>4
<1>3. queue \in Bijection(1..Len(queue), 1..size)
  <2>1. queue \in [1..Len(queue) -> 1..size]
    BY <1>1, <1>2 DEF Pooled, PoolTypeOK
  <2>2. IsInjective(queue)
    BY <1>1, <2>1 DEF OneOwner, IsInjective
  <2>3. \A c \in 1..size : \E n \in 1..Len(queue) : queue[n] = c
    BY <1>2 DEF Pooled
  <2> QED BY <2>1, <2>2, <2>3 DEF Bijection, Injection, Surjection
<1>4. /\ Len(queue) \in Nat /\ size \in Nat
      /\ IsFiniteSet(1..Len(queue)) /\ Cardinality(1..Len(queue)) = Len(queue)
      /\ Cardinality(1..size) = size
  BY <1>1, FirstNumbers, PoolAssumption DEF PoolTypeOK
<1>5. Cardinality(1..size) = Cardinality(1..Len(queue))
  BY <1>3, <1>4, FS_Bijection DEF ExistsBijection
<1> QED BY <1>2, <1>4, <1>5

(* When the queue is empty, every client is held by a worker, each of which *)
(* holds one at most: a worker without a client makes room for another one. *)
LEMMA RoomForOne ==
  ASSUME PoolInv, queue = <<>>, destroyed = {}, held[MainThread] = {},
         \A u \in Workers : WorkerOK(u), wpc \in [Workers -> Labels],
         NEW w \in Workers, held[w] = {}
  PROVE  size < NumWorkers
<1>1. PoolTypeOK /\ OneOwner
  BY DEF PoolInv
<1>2. size \in Nat /\ 1..size \subseteq Clients
  BY <1>1, PoolAssumption DEF PoolTypeOK, Clients
<1>3. Pooled = {}
  BY DEF Pooled
<1>4. \A c \in 1..size : \E u \in Workers \ {w} : c \in held[u]
  <2> SUFFICES ASSUME NEW c \in 1..size PROVE \E u \in Workers \ {w} : c \in held[u]
    OBVIOUS
  <2>1. \E t \in Threads : c \in held[t]
    BY <1>1, <1>2, <1>3 DEF OneOwner
  <2> QED BY <2>1, WorkersAssumption
<1>5. \A u \in Workers : \A c, d \in held[u] : c = d
  BY DEF WorkerOK, Labels
<1> DEFINE f == [c \in 1..size |-> CHOOSE u \in Workers \ {w} : c \in held[u]]
<1>6. \A c \in 1..size : f[c] \in Workers \ {w} /\ c \in held[f[c]]
  BY <1>4
<1>7. f \in Injection(1..size, Workers \ {w})
  <2>1. f \in [1..size -> Workers \ {w}]
    BY <1>6
  <2>2. IsInjective(f)
    <3> HIDE DEF f
    <3> QED BY <1>5, <1>6, <2>1 DEF IsInjective
  <2> QED BY <2>1, <2>2 DEF Injection
<1>8. /\ IsFiniteSet(Workers) /\ Cardinality(Workers) = NumWorkers
      /\ Cardinality(1..size) = size
  BY <1>2, FirstNumbers, WorkersAssumption DEF Workers
<1>9. /\ IsFiniteSet(Workers \ {w})
      /\ Cardinality(Workers \ {w}) = NumWorkers - 1
  BY <1>8, FS_RemoveElement
<1>10. Cardinality(1..size) <= Cardinality(Workers \ {w})
  BY <1>7, <1>9, FS_Injection
<1> QED BY <1>2, <1>8, <1>9, <1>10, WorkersAssumption

-----------------------------------------------------------------------------
(* The program keeps the pool's contract, step by step.                    *)

\* A worker that has something to do runs while the pool is there.
LEMMA WorkerHasPool ==
  ASSUME Inv, mpc # "aborted", NEW w \in Workers, wpc[w] # "exit"
  PROVE  ~freed /\ destroyed = {} /\ mpc \in {"start", "sample", "join"}
BY DEF Inv, OwnTypeOK, Control, Phases, PoolThere, Ending

\* What a worker holds is a client.
LEMMA WorkerClient ==
  ASSUME Inv, mpc # "aborted", NEW w \in Workers, wpc[w] \in {"update", "push"}
  PROVE  client[w] \in Clients /\ held[w] = {client[w]} /\ size > 0
<1>1. held[w] = {client[w]} /\ w \in Threads
  BY WorkersAssumption DEF Inv, Control, WorkerOK
<1>2. client[w] \in Clients
  BY <1>1 DEF Inv, PoolInv, PoolTypeOK
<1>3. client[w] <= size
  BY <1>1, <1>2 DEF Inv, PoolInv, OneOwner
<1> QED BY <1>1, <1>2, <1>3, PoolAssumption DEF Clients, Inv, PoolInv, PoolTypeOK

\* Every step of a worker is one the pool's contract allows.
LEMMA WorkerKeepsContract ==
  ASSUME Inv, mpc # "aborted", NEW w \in Workers, WorkerSteps(w)
  PROVE  [PoolNext]_allPoolVars
<1>1. w \in Threads
  BY WorkersAssumption
<1>2. CASE CheckRunning(w) \/ UpdateFails(w)
  BY <1>2 DEF CheckRunning, UpdateFails
<1>3. ASSUME ThreadStep(w), wpc[w] # "exit" PROVE PoolNext
  BY <1>1, <1>3, WorkerHasPool DEF PoolNext
<1>4. CASE WorkerCallPop(w) \/ WorkerPop(w) \/ WorkerWait(w) \/ WorkerPopNull(w)
  BY <1>3, <1>4 DEF WorkerCallPop, WorkerPop, WorkerWait, WorkerPopNull, ThreadStep
<1>5. CASE Update(w)
  <2>1. PICK s \in servers : Connect(w, client[w], s)
    BY <1>5 DEF Update
  <2>2. s \in ServerIds /\ client[w] \in Clients
    BY <1>5, WorkerClient DEF Update, Inv, PoolInv, PoolTypeOK
  <2> QED BY <1>3, <1>5, <2>1, <2>2 DEF Update, ThreadStep
<1>6. CASE WorkerPush(w)
  <2>1. client[w] \in Clients /\ Push(w, client[w])
    BY <1>6, WorkerClient DEF WorkerPush
  <2> QED BY <1>3, <1>6, <2>1 DEF WorkerPush, ThreadStep
<1> QED BY <1>2, <1>4, <1>5, <1>6 DEF WorkerSteps

\* At the end of main nobody holds a client or is inside the pool.
LEMMA NobodyInPool ==
  ASSUME Inv, mpc \in {"drain", "endSessionsPop"}
  PROVE  /\ \A t \in Threads : held[t] = {}
         /\ mpc = "drain" => \A t \in Threads : call[t] = "idle"
         /\ ~freed /\ destroyed = {}
<1>1. Control
  BY DEF Inv
<1>2. \A w \in Workers : call[w] = "idle" /\ held[w] = {}
  BY <1>1 DEF Control, Phases, Ending, WorkerOK
<1>3. held[MainThread] = {} /\ (mpc = "drain" => call[MainThread] = "idle")
  BY <1>1 DEF Control, MainOK
<1>4. ~freed /\ destroyed = {}
  BY <1>1 DEF Control, PoolThere
<1> QED BY <1>2, <1>3, <1>4, WorkersAssumption

\* Every step of main is one the pool's contract allows.
LEMMA MainKeepsContract ==
  ASSUME Inv, mpc # "aborted", MainSteps
  PROVE  [PoolNext]_allPoolVars
<1>1. MainThread \in Threads
  BY WorkersAssumption
<1>2. CASE StartWorker \/ StartSampling \/ SampleFails \/ StopWorkers \/ JoinWorker
           \/ Finish
  BY <1>2 DEF StartWorker, StartSampling, SampleFails, StopWorkers, JoinWorker, Finish
<1>3. ASSUME ThreadStep(MainThread), mpc \notin {"final", "done"} PROVE PoolNext
  BY <1>1, <1>3 DEF PoolNext, Inv, Control, PoolThere
<1>4. CASE Destroy
  BY <1>3, <1>4 DEF Destroy, ThreadStep
<1>5. CASE DestroyPop
  BY <1>3, <1>5 DEF DestroyPop, ThreadStep
<1>6. CASE DestroyPush
  <2>1. PICK c \in held[MainThread] : Push(MainThread, c)
    BY <1>6 DEF DestroyPush
  <2>2. c \in Clients
    BY <1>1 DEF Inv, PoolInv, PoolTypeOK
  <2> QED BY <1>3, <1>6, <2>1, <2>2 DEF DestroyPush, ThreadStep
<1>7. CASE DestroyDrain
  BY <1>7, NobodyInPool DEF DestroyDrain, DestroyPool, PoolNext
<1> QED BY <1>2, <1>4, <1>5, <1>6, <1>7 DEF MainSteps

\* Every step of the program is one the pool's contract allows.
LEMMA StepKeepsContract == Inv /\ [Next]_vars => [PoolNext]_allPoolVars
<1> SUFFICES ASSUME Inv, [Next]_vars PROVE [PoolNext]_allPoolVars
  OBVIOUS
<1>1. CASE UNCHANGED vars \/ Terminated
  BY <1>1 DEF vars, Terminated
<1>2. CASE mpc # "aborted" /\ Topology
  BY <1>2 DEF Topology, PoolNext
<1> QED BY <1>1, <1>2, WorkerKeepsContract, MainKeepsContract DEF Next

-----------------------------------------------------------------------------
(* The invariant is inductive.                                             *)

\* The initial states satisfy it.
LEMMA InitInv == Init => Inv
<1> SUFFICES ASSUME Init PROVE Inv
  OBVIOUS
<1>1. PoolInv
  BY PoolInitInv DEF Init
<1>2. OwnTypeOK
  BY WorkersAssumption DEF Init, OwnTypeOK, Labels
<1>3. \A w \in Workers : WorkerOK(w)
  BY WorkersAssumption DEF Init, PoolInit, WorkerOK
<1>4. MainOK
  BY WorkersAssumption DEF Init, PoolInit, MainOK
<1>5. Phases /\ PoolThere
  BY DEF Init, PoolInit, Phases, PoolThere, Ending
<1>6. size <= NumWorkers
  BY WorkersAssumption DEF Init, PoolInit
<1> QED BY <1>1, <1>2, <1>3, <1>4, <1>5, <1>6 DEF Inv, Control

\* A step of which the process dies, or that changes nothing.
LEMMA AbortInv ==
  ASSUME Inv, PoolInv', size' = size,
         (Abort /\ UNCHANGED <<joined, wpc, client>>) \/ UNCHANGED vars
  PROVE  Inv'
<1>1. CASE Abort /\ UNCHANGED <<joined, wpc, client>>
  BY <1>1 DEF Abort, Inv, OwnTypeOK
<1>2. CASE UNCHANGED vars
  BY <1>2 DEF vars, allPoolVars, poolVars, topoVars, ownVars, Inv, OwnTypeOK, Control,
              WorkerOK, MainOK, Phases, PoolThere
<1> QED BY <1>1, <1>2

\* A worker whose own variables stay keeps its place when a sleeper is woken.
LEMMA WorkerStays ==
  ASSUME NEW u \in Workers, WorkerOK(u), wpc[u] \in Labels,
         wpc'[u] = wpc[u], client'[u] = client[u], held'[u] = held[u],
         call'[u] = call[u] \/ (call[u] = "waiting" /\ call'[u] = "trying")
  PROVE  WorkerOK(u)'
BY DEF WorkerOK, Labels

\* A worker goes from one place in its code to the next.
LEMMA WorkerMoves ==
  ASSUME Inv, PoolInv', mpc # "aborted", NEW w \in Workers, NEW l \in Labels,
         wpc[w] \notin {"unborn", "exit"}, Goto(w, l), OthersStay(w), WorkerOK(w)',
         client' \in [Workers -> Clients \cup {NoClient}],
         \A u \in Workers \ {w} : client'[u] = client[u],
         size' <= NumWorkers, sessions' => size' > 0,
         UNCHANGED <<mpc, joined, freed, destroyed>>
  PROVE  Inv'
<1>1. Control /\ OwnTypeOK
  BY DEF Inv
<1>2. OwnTypeOK'
  BY <1>1 DEF OwnTypeOK, Goto
<1>3. mpc \in {"start", "sample", "join"}
  BY WorkerHasPool
<1>4. \A u \in Workers \ {w} : wpc'[u] = wpc[u]
  BY <1>1 DEF OwnTypeOK, Goto
<1>5. ASSUME NEW u \in Workers PROVE WorkerOK(u)'
  <2>1. CASE u = w
    BY <2>1
  <2>2. CASE u # w
    <3>1. u \in Threads \ {w}
      BY <2>2, WorkersAssumption
    <3>2. /\ WorkerOK(u) /\ wpc[u] \in Labels
          /\ wpc'[u] = wpc[u] /\ client'[u] = client[u]
          /\ held'[u] = held[u]
          /\ call'[u] = call[u] \/ (call[u] = "waiting" /\ call'[u] = "trying")
      BY <1>1, <1>4, <2>2, <3>1 DEF Control, OwnTypeOK, OthersStay
    <3> QED BY <3>2, WorkerStays
  <2> QED BY <2>1, <2>2
<1>6. MainOK'
  <2>1. MainThread \in Threads \ {w}
    BY WorkersAssumption
  <2>2. call[MainThread] = "idle" /\ held[MainThread] = {}
    BY <1>1, <1>3 DEF Control, MainOK
  <2>3. call'[MainThread] = "idle" /\ held'[MainThread] = {}
    BY <2>1, <2>2 DEF OthersStay
  <2> QED BY <1>3, <2>3 DEF MainOK
<1>7. Phases'
  BY <1>1, <1>3, <1>4 DEF Control, Phases, Ending
<1>8. PoolThere'
  BY <1>1, <1>3 DEF Control, PoolThere
<1> QED BY <1>2, <1>5, <1>6, <1>7, <1>8 DEF Inv, Control

\* The steps of a worker.
LEMMA WorkerStepsInv ==
  ASSUME Inv, PoolInv', mpc # "aborted", NEW w \in Workers, WorkerSteps(w)
  PROVE  Inv'
<1>1. /\ Control /\ OwnTypeOK /\ PoolInv /\ PoolTypeOK /\ WorkerOK(w) /\ w \in Threads
      /\ size <= NumWorkers /\ (sessions => size > 0)
  BY WorkersAssumption DEF Inv, Control, PoolInv, PoolThere
<1>2. CASE UpdateFails(w)
  BY <1>2, AbortInv DEF UpdateFails, allPoolVars, poolVars
<1>3. CASE WorkerPopNull(w)
  BY <1>3, AbortInv DEF WorkerPopNull, PopTimesOut
<1>4. CASE CheckRunning(w)
  <2>1. PICK l \in {"call", "exit"} : Goto(w, l)
    BY <1>4 DEF CheckRunning
  <2>2. /\ wpc[w] = "check" /\ wpc'[w] \in {"call", "exit"} /\ call' = call /\ held' = held
        /\ UNCHANGED <<mpc, joined, freed, destroyed, client, size, sessions>>
    BY <1>1, <1>4, <2>1 DEF CheckRunning, allPoolVars, poolVars, OwnTypeOK, Goto
  <2>3. WorkerOK(w)'
    BY <1>1, <2>2 DEF WorkerOK
  <2>4. OthersStay(w) /\ l \in Labels
    BY <2>2 DEF OthersStay, Labels
  <2> QED BY <1>1, <2>1, <2>2, <2>3, <2>4, WorkerMoves DEF OwnTypeOK
<1>5. CASE WorkerCallPop(w)
  <2>1. /\ OthersStay(w) /\ held'[w] = held[w] /\ call'[w] = "trying"
        /\ UNCHANGED <<size, freed, destroyed>>
    BY <1>1, <1>5, PopMoves DEF WorkerCallPop
  <2>2. /\ wpc[w] = "call" /\ Goto(w, "pop") /\ wpc'[w] = "pop" /\ "pop" \in Labels
        /\ UNCHANGED <<mpc, joined, client, sessions>>
    BY <1>1, <1>5 DEF WorkerCallPop, OwnTypeOK, Goto, Labels
  <2>3. WorkerOK(w)'
    BY <1>1, <2>1, <2>2 DEF WorkerOK
  <2> QED BY <1>1, <2>1, <2>2, <2>3, WorkerMoves DEF OwnTypeOK
<1>6. CASE WorkerPop(w)
  <2>0. /\ wpc[w] = "pop" /\ PopSucceeds(w) /\ Goto(w, "update") /\ wpc'[w] = "update"
        /\ client' = [client EXCEPT ![w] = CHOOSE c \in held'[w] : TRUE]
        /\ "update" \in Labels
        /\ UNCHANGED <<mpc, joined, sessions>>
    BY <1>1, <1>6 DEF WorkerPop, OwnTypeOK, Goto, Labels
  <2>1. PICK c : held'[w] = held[w] \cup {c}
    BY <1>1, <2>0, PopGives
  <2>2. held[w] = {} /\ held'[w] = {c} /\ client' = [client EXCEPT ![w] = c]
    BY <1>1, <2>0, <2>1 DEF WorkerOK
  <2>3. OthersStay(w) /\ call'[w] = "idle" /\ UNCHANGED <<freed, destroyed>>
    BY <1>1, <2>0, PopGives
  <2>4. c \in Clients
    BY <1>1, <2>2 DEF PoolInv, PoolTypeOK
  <2>5. /\ client' \in [Workers -> Clients \cup {NoClient}]
        /\ client'[w] = c
        /\ \A u \in Workers \ {w} : client'[u] = client[u]
    BY <1>1, <2>2, <2>4 DEF OwnTypeOK
  <2>6. WorkerOK(w)'
    BY <2>0, <2>2, <2>3, <2>5 DEF WorkerOK
  <2>7. size \in Nat /\ NumWorkers \in Nat
    BY <1>1, WorkersAssumption DEF PoolTypeOK
  <2>8. size' = size \/ (size' = size + 1 /\ size < NumWorkers)
    <3>1. CASE TakeHead(w)
      BY <3>1 DEF TakeHead
    <3>2. CASE CreateClient(w)
      <4>1. destroyed = {} /\ mpc \in {"start", "sample", "join"}
        BY <2>0, WorkerHasPool
      <4>2. held[MainThread] = {}
        BY <1>1, <4>1 DEF Control, MainOK
      <4>3. size < NumWorkers
        BY <1>1, <2>2, <3>2, <4>1, <4>2, RoomForOne DEF CreateClient, Control, OwnTypeOK
      <4> QED BY <3>2, <4>3 DEF CreateClient
    <3> QED BY <2>0, <3>1, <3>2 DEF PopSucceeds
  <2>9. size' <= NumWorkers /\ (sessions' => size' > 0)
    BY <1>1, <2>0, <2>7, <2>8
  <2> QED BY <1>1, <2>0, <2>3, <2>5, <2>6, <2>9, WorkerMoves
<1>7. CASE WorkerWait(w)
  <2>1. /\ OthersStay(w) /\ held'[w] = held[w] /\ call'[w] \in {"trying", "waiting"}
        /\ UNCHANGED <<size, freed, destroyed>>
    BY <1>1, <1>7, PopMoves DEF WorkerWait
  <2>2. /\ wpc[w] = "pop" /\ Goto(w, "pop") /\ wpc'[w] = "pop" /\ "pop" \in Labels
        /\ UNCHANGED <<mpc, joined, client, sessions>>
    BY <1>1, <1>7 DEF WorkerWait, OwnTypeOK, Goto, Labels, ownVars
  <2>3. WorkerOK(w)'
    BY <1>1, <2>1, <2>2 DEF WorkerOK
  <2> QED BY <1>1, <2>1, <2>2, <2>3, WorkerMoves DEF OwnTypeOK
<1>8. CASE Update(w)
  <2>1. UNCHANGED <<call, held, size, freed, destroyed>>
    BY <1>8 DEF Update, Connect
  <2>2. /\ wpc[w] = "update" /\ Goto(w, "push") /\ wpc'[w] = "push" /\ "push" \in Labels
        /\ UNCHANGED <<mpc, joined, client>>
    BY <1>1, <1>8 DEF Update, OwnTypeOK, Goto, Labels
  <2>3. size > 0
    BY <2>2, WorkerClient
  <2>4. WorkerOK(w)'
    BY <1>1, <2>1, <2>2 DEF WorkerOK
  <2>5. OthersStay(w)
    BY <2>1 DEF OthersStay
  <2> QED BY <1>1, <2>1, <2>2, <2>3, <2>4, <2>5, WorkerMoves DEF OwnTypeOK
<1>9. CASE WorkerPush(w)
  <2>1. /\ wpc[w] = "push" /\ Goto(w, "check") /\ wpc'[w] = "check" /\ "check" \in Labels
        /\ Push(w, client[w]) /\ client' = [client EXCEPT ![w] = NoClient]
        /\ UNCHANGED <<mpc, joined, sessions>>
    BY <1>1, <1>9 DEF WorkerPush, OwnTypeOK, Goto, Labels
  <2>2. /\ OthersStay(w) /\ call'[w] = "idle" /\ held'[w] = held[w] \ {client[w]}
        /\ UNCHANGED <<size, freed, destroyed>>
    BY <1>1, <2>1, PushTakes
  <2>3. held'[w] = {}
    BY <1>1, <2>1, <2>2 DEF WorkerOK
  <2>4. WorkerOK(w)'
    BY <2>1, <2>2, <2>3 DEF WorkerOK
  <2>5. /\ client' \in [Workers -> Clients \cup {NoClient}]
        /\ \A u \in Workers \ {w} : client'[u] = client[u]
    BY <1>1, <2>1 DEF OwnTypeOK
  <2> QED BY <1>1, <2>1, <2>2, <2>4, <2>5, WorkerMoves
<1> QED BY <1>2, <1>3, <1>4, <1>5, <1>6, <1>7, <1>8, <1>9 DEF WorkerSteps

\* The steps of main that leave the pool alone.
LEMMA MainAloneInv ==
  ASSUME Inv, PoolInv', mpc # "aborted",
         StartWorker \/ StartSampling \/ StopWorkers \/ JoinWorker \/ Finish
  PROVE  Inv'
<1> USE WorkersAssumption
<1>1. Control /\ OwnTypeOK
  BY DEF Inv
<1>2. UNCHANGED <<size, freed, destroyed, call, held, client, sessions>>
  BY DEF StartWorker, StartSampling, StopWorkers, JoinWorker, Finish, allPoolVars,
         poolVars
<1>3. CASE StartWorker
  <2>1. /\ mpc = "start" /\ joined + 1 \in Workers /\ joined' = joined + 1
        /\ wpc' = [wpc EXCEPT ![joined + 1] = "check"] /\ mpc' = mpc
    BY <1>1, <1>3 DEF StartWorker, OwnTypeOK, Goto, Workers
  <2>2. OwnTypeOK'
    BY <1>1, <1>2, <2>1 DEF OwnTypeOK, Workers, Labels
  <2>3. \A w \in Workers : WorkerOK(w)'
    <3>1. wpc[joined + 1] = "unborn"
      BY <1>1, <2>1 DEF Control, Phases, OwnTypeOK
    <3> QED BY <1>1, <1>2, <2>1, <3>1 DEF Control, WorkerOK, OwnTypeOK
  <2>4. MainOK' /\ PoolThere'
    BY <1>1, <1>2, <2>1 DEF Control, MainOK, PoolThere
  <2>5. \A w \in Workers : w > joined' => wpc'[w] = "unborn"
    BY <1>1, <2>1 DEF Control, Phases, OwnTypeOK, Workers
  <2>6. Phases'
    BY <2>1, <2>5 DEF Phases, Ending
  <2> QED BY <1>2, <2>2, <2>3, <2>4, <2>6 DEF Inv, Control
<1>4. CASE StartSampling \/ StopWorkers \/ JoinWorker \/ Finish
  <2>1. wpc' = wpc
    BY <1>4 DEF StartSampling, StopWorkers, JoinWorker, Finish
  <2>2. \A w \in Workers : WorkerOK(w)'
    BY <1>1, <1>2, <2>1 DEF Control, WorkerOK
  <2>3. OwnTypeOK' /\ Phases'
    <3>1. CASE StartSampling
      BY <1>1, <1>2, <2>1, <3>1 DEF StartSampling, OwnTypeOK, Phases, Ending
    <3>2. CASE StopWorkers
      <4>1. joined = 0
        BY <1>1, <3>2 DEF StopWorkers, Control, Phases
      <4> QED
        BY <1>1, <1>2, <2>1, <3>2, <4>1 DEF StopWorkers, OwnTypeOK, Phases, Ending, Workers
    <3>3. CASE JoinWorker
      <4>1. \A w \in Workers : w <= joined + 1 => w <= joined \/ w = joined + 1
        BY <1>1 DEF OwnTypeOK, Workers
      <4>2. OwnTypeOK'
        BY <1>1, <1>2, <2>1, <3>3 DEF JoinWorker, OwnTypeOK
      <4>3. Phases'
        BY <1>1, <2>1, <3>3, <4>1 DEF JoinWorker, Control, Phases, Ending
      <4> QED BY <4>2, <4>3
    <3>4. CASE Finish
      BY <1>1, <1>2, <2>1, <3>4 DEF Finish, OwnTypeOK, Control, Phases, Ending
    <3> QED BY <1>4, <3>1, <3>2, <3>3, <3>4
  <2>4. MainOK' /\ PoolThere'
    BY <1>1, <1>2, <1>4 DEF StartSampling, StopWorkers, JoinWorker, Finish, Control,
                            MainOK, PoolThere
  <2> QED BY <1>2, <2>2, <2>3, <2>4 DEF Inv, Control
<1> QED BY <1>3, <1>4

\* A step of main inside mongoc_client_pool_destroy: the workers are gone.
LEMMA MainMoves ==
  ASSUME Inv, PoolInv', mpc # "aborted", OthersStay(MainThread) \/ UNCHANGED <<call, held>>,
         \A w \in Workers : wpc[w] = "exit",
         mpc' \in Ending, MainOK', PoolThere', size' = size,
         UNCHANGED <<joined, wpc, client>>
  PROVE  Inv'
<1>1. Control /\ OwnTypeOK
  BY DEF Inv
<1>2. OwnTypeOK'
  BY <1>1 DEF OwnTypeOK
<1>3. ASSUME NEW w \in Workers PROVE WorkerOK(w)'
  <2>1. w \in Threads \ {MainThread}
    BY WorkersAssumption
  <2>2. WorkerOK(w) /\ wpc[w] = "exit"
    BY <1>1 DEF Control
  <2> QED BY <2>1, <2>2 DEF OthersStay, WorkerOK
<1>4. Phases'
  BY DEF Phases, Ending
<1> QED BY <1>2, <1>3, <1>4 DEF Inv, Control

\* The steps of main inside mongoc_client_pool_destroy.
LEMMA MainDestroyInv ==
  ASSUME Inv, PoolInv', mpc # "aborted", Destroy \/ DestroyPop \/ DestroyPush \/ DestroyDrain
  PROVE  Inv'
<1>1. /\ Control /\ OwnTypeOK /\ PoolInv /\ PoolTypeOK
      /\ MainThread \in Threads
      /\ MainOK /\ PoolThere /\ Phases
  BY WorkersAssumption DEF Inv, Control, PoolInv
<1>2. \A w \in Workers : wpc[w] = "exit"
  BY <1>1 DEF Phases, Ending, Destroy, DestroyPop, DestroyPush, DestroyDrain, Workers
<1>3. UNCHANGED <<joined, wpc, client>>
  BY DEF Destroy, DestroyPop, DestroyPush, DestroyDrain
<1>4. CASE Destroy
  <2>1. mpc = "join" /\ sessions' = sessions
    BY <1>4 DEF Destroy
  <2>2. CASE sessions
    <3>1. CallPop(MainThread) /\ mpc' = "endSessionsPop"
      BY <1>4, <2>2 DEF Destroy
    <3>2. /\ OthersStay(MainThread) /\ held'[MainThread] = held[MainThread]
          /\ call'[MainThread] = "trying"
          /\ UNCHANGED <<size, freed, destroyed>>
      BY <1>1, <3>1, PopMoves
    <3>3. MainOK' /\ PoolThere' /\ mpc' \in Ending
      BY <1>1, <2>1, <2>2, <3>1, <3>2 DEF MainOK, PoolThere, Ending
    <3> QED BY <1>2, <1>3, <3>2, <3>3, MainMoves
  <2>3. CASE ~sessions
    <3>1. mpc' = "drain" /\ UNCHANGED <<call, held, size, freed, destroyed>>
      BY <1>4, <2>3 DEF Destroy, allPoolVars, poolVars
    <3>2. MainOK' /\ PoolThere' /\ mpc' \in Ending
      BY <1>1, <2>1, <3>1 DEF MainOK, PoolThere, Ending
    <3> QED BY <1>2, <1>3, <3>1, <3>2, MainMoves
  <2> QED BY <2>2, <2>3
<1>5. CASE DestroyPop
  <2>1. /\ mpc = "endSessionsPop" /\ mpc' = "endSessionsPush" /\ sessions' = sessions
        /\ PopSucceeds(MainThread)
    BY <1>5 DEF DestroyPop
  <2>2. Len(queue) = size /\ size > 0
    BY <1>1, <2>1, AllInQueue, NobodyInPool DEF MainOK
  <2>3. size' = size
    BY <2>1, <2>2 DEF PopSucceeds, TakeHead, CreateClient
  <2>4. PICK c : held'[MainThread] = held[MainThread] \cup {c}
    BY <1>1, <2>1, PopGives
  <2>5. OthersStay(MainThread) /\ call'[MainThread] = "idle" /\ UNCHANGED <<freed, destroyed>>
    BY <1>1, <2>1, PopGives
  <2>6. held'[MainThread] = {c} /\ c \in Clients
    BY <1>1, <2>1, <2>4 DEF MainOK, PoolInv, PoolTypeOK
  <2>7. MainOK' /\ PoolThere' /\ mpc' \in Ending
    BY <1>1, <2>1, <2>3, <2>5, <2>6 DEF MainOK, PoolThere, Ending
  <2> QED BY <1>2, <1>3, <2>3, <2>5, <2>7, MainMoves
<1>6. CASE DestroyPush
  <2>1. mpc = "endSessionsPush" /\ mpc' = "drain" /\ sessions' = FALSE
    BY <1>6 DEF DestroyPush
  <2>2. PICK c \in held[MainThread] : Push(MainThread, c)
    BY <1>6 DEF DestroyPush
  <2>3. /\ OthersStay(MainThread) /\ call'[MainThread] = "idle"
        /\ held'[MainThread] = held[MainThread] \ {c}
        /\ UNCHANGED <<size, freed, destroyed>>
    BY <1>1, <2>2, PushTakes
  <2>4. held'[MainThread] = {}
    BY <1>1, <2>1, <2>2, <2>3 DEF MainOK
  <2>5. MainOK' /\ PoolThere' /\ mpc' \in Ending
    BY <1>1, <2>1, <2>3, <2>4 DEF MainOK, PoolThere, Ending
  <2> QED BY <1>2, <1>3, <2>3, <2>5, MainMoves
<1>7. CASE DestroyDrain
  <2>1. /\ mpc = "drain" /\ mpc' = "final" /\ sessions' = sessions
        /\ UNCHANGED <<call, held, size>>
        /\ destroyed' = destroyed \cup Pooled
    BY <1>7 DEF DestroyDrain, DrainAndFree
  <2>2. destroyed' = 1..size
    BY <1>1, <2>1, AllInQueue, NobodyInPool
  <2>3. MainOK' /\ PoolThere' /\ mpc' \in Ending
    BY <1>1, <2>1, <2>2 DEF MainOK, PoolThere, Ending
  <2> QED BY <1>2, <1>3, <2>1, <2>3, MainMoves
<1> QED BY <1>4, <1>5, <1>6, <1>7

\* A server joins or leaves the topology.
LEMMA TopologyInv ==
  ASSUME Inv, PoolInv', Topology
  PROVE  Inv'
<1>1. UNCHANGED poolVars /\ UNCHANGED ownVars
  BY DEF Topology, TopologyStep, AddServer, RemoveServer
<1> QED
  BY <1>1 DEF poolVars, ownVars, Inv, OwnTypeOK, Control, WorkerOK, MainOK, Phases,
              PoolThere

\* Every step of the program keeps the invariant.
LEMMA StepInv == Inv /\ [Next]_vars => Inv'
<1> SUFFICES ASSUME Inv, [Next]_vars PROVE Inv'
  OBVIOUS
<1>1. PoolInv'
  BY StepKeepsContract, PoolStepInv DEF Inv
<1>2. CASE UNCHANGED vars \/ Terminated
  BY <1>1, <1>2, AbortInv DEF Terminated, vars, allPoolVars, poolVars
<1>3. ASSUME mpc # "aborted", MainSteps PROVE Inv'
  <2>1. CASE SampleFails
    BY <1>1, <2>1, AbortInv DEF SampleFails, allPoolVars, poolVars
  <2> QED BY <1>1, <1>3, <2>1, MainAloneInv, MainDestroyInv DEF MainSteps
<1>4. ASSUME mpc # "aborted", NEW w \in Workers, WorkerSteps(w) PROVE Inv'
  BY <1>1, <1>4, WorkerStepsInv
<1>5. ASSUME Topology PROVE Inv'
  BY <1>1, <1>5, TopologyInv
<1> QED BY <1>2, <1>3, <1>4, <1>5 DEF Next

LEMMA Invariance == Spec => []Inv
BY InitInv, StepInv, PTL DEF Spec

-----------------------------------------------------------------------------
(* worker_thread and main keep the pool's contract, whatever the number of *)
(* workers: every behaviour of the program is one of PoolSpec, so what is  *)
(* proved of the pool holds in it.                                         *)
THEOREM ContractKept == Spec => KeepsPoolContract
<1>1. Init => PoolInit
  BY DEF Init
<1> QED BY <1>1, Invariance, StepKeepsContract, PTL DEF Spec, PoolSpec, KeepsPoolContract

(* So the program, for any number of workers, inherits what is proved of   *)
(* the pool: no client is with two threads, and no worker sleeps in pop    *)
(* beside a client nobody is on its way to.                                *)
COROLLARY WorkersSharePool == Spec => [](OneOwner /\ NoStrandedClient)
BY ContractKept, ExclusiveOwnership, NobodySleepsBesideClient, PTL DEF KeepsPoolContract

(* The pool creates a client only when every one it has is with another    *)
(* worker, so it never creates more than there are workers, whatever       *)
(* maxPoolSize is.                                                         *)
THEOREM ClientPerWorker == Spec => []NoMoreClientsThanWorkers
<1>1. Inv => NoMoreClientsThanWorkers
  BY DEF Inv, NoMoreClientsThanWorkers
<1> QED BY <1>1, Invariance, PTL

(* mongoc_client_pool_destroy finds every client in the queue when it pops *)
(* one for endSessions, so it does not block, and frees all of them.       *)
THEOREM AllReturned == Spec => []AllReturnedAtDestroy
<1>1. Inv => AllReturnedAtDestroy
  <2> SUFFICES ASSUME Inv PROVE AllReturnedAtDestroy
    OBVIOUS
  <2>1. ASSUME mpc = "endSessionsPop" PROVE Len(queue) = size /\ size > 0
    <3>1. PoolInv /\ MainOK
      BY <2>1 DEF Inv, Control
    <3>2. destroyed = {} /\ \A t \in Threads : held[t] = {}
      BY <2>1, NobodyInPool
    <3> QED BY <2>1, <3>1, <3>2, AllInQueue DEF MainOK
  <2>2. ASSUME mpc \in {"final", "done"} PROVE destroyed = 1..size
    BY <2>2 DEF Inv, Control, PoolThere
  <2> QED BY <2>1, <2>2 DEF AllReturnedAtDestroy
<1> QED BY <1>1, Invariance, PTL

-----------------------------------------------------------------------------
(* PoolWarmup.  The inductive invariant: what the only thread holds, and   *)
(* which of clients[] are connected to which servers.                      *)

WarmupLabels ==
  {"discoverPop", "discoverPing", "discoverRead", "discoverPush", "pop", "ping",
   "release", "returned", "done"}

WarmupTypeOK ==
  /\ pc \in WarmupLabels
  /\ clients \in Seq(Clients) /\ NoRepeats(clients)
  /\ server_ids \subseteq ServerIds
  /\ ok \in BOOLEAN

\* Nobody else is in the pool, which is there until main destroys it.
WarmupAlone ==
  /\ \A t \in Threads : call[t] = "idle" /\ (t # WarmupThread => held[t] = {})
  /\ pc # "done" => ~freed

\* What the thread has checked out: the discovery's client, then clients[].
WarmupHolds ==
  /\ pc \in {"discoverPop", "returned", "done"} => held[WarmupThread] = {}
  /\ pc \in {"discoverPing", "discoverRead", "discoverPush"} =>
       \E c \in Clients : held[WarmupThread] = {c}
  /\ pc \in {"discoverPop", "discoverPing", "discoverRead", "discoverPush"} =>
       clients = <<>>
  /\ pc \in {"pop", "ping"} => held[WarmupThread] = Elements(clients)
  /\ pc = "release" => held[WarmupThread] \subseteq Elements(clients)
  /\ ok => pc \in {"release", "returned", "done"} /\ Len(clients) = NumClients

(* An id is not used again, so a server that was found and is still there  *)
(* was there at the last push.                                             *)
WarmupKnown ==
  /\ servers \subseteq 1..maxId /\ server_ids \subseteq 1..maxId
  /\ pc # "discoverPush" => server_ids \cap servers \subseteq last_known_serverids

\* The client reaches the servers found: all, or those the pool still knows.
Reaches(c, S) == S \subseteq conns[c]

\* Which of clients[] reach which servers.
WarmupReach ==
  \A i \in 1..Len(clients) :
    /\ pc = "pop" => Reaches(clients[i], server_ids)
    /\ pc = "ping" =>
         Reaches(clients[i], IF i < Len(clients) THEN server_ids
                             ELSE server_ids \ todo)
    /\ pc \in {"release", "returned"} /\ ok =>
         \/ clients[i] \in held[WarmupThread] /\ Reaches(clients[i], server_ids)
         \/ clients[i] \in Pooled
              /\ Reaches(clients[i], server_ids \cap last_known_serverids)

WarmupControl == WarmupAlone /\ WarmupHolds /\ WarmupKnown /\ WarmupReach

WarmupInv == PoolInv /\ WarmupTypeOK /\ WarmupControl

-----------------------------------------------------------------------------
(* What the thread's pop and push do.                                      *)

\* A pop gives the thread a client it did not have.
LEMMA WarmupPopGives ==
  ASSUME PoolInv, Pop
  PROVE  \E c \in Clients :
           /\ c \notin held[WarmupThread] /\ PoppedClient = c
           /\ held' = [held EXCEPT ![WarmupThread] = @ \cup {c}]
           /\ call' = [call EXCEPT ![WarmupThread] = "idle"]
           /\ UNCHANGED <<last_known_serverids, freed, conns, servers, maxId>>
<1> USE WarmupAssumption
<1>1. PICK c \in Clients : c \notin held[WarmupThread] /\ CheckOut(WarmupThread, c)
  <2>1. CASE TakeHead(WarmupThread)
    <3>1. Head(queue) \in Pooled /\ Head(queue) \in Clients
      BY <2>1 DEF TakeHead, PoolInv, PoolTypeOK, Pooled
    <3> QED BY <2>1, <3>1 DEF TakeHead, PoolInv, OneOwner
  <2>2. CASE CreateClient(WarmupThread)
    <3>1. size \in Nat /\ size + 1 \in Clients /\ ~(size + 1 <= size)
      BY <2>2, PoolAssumption DEF CreateClient, PoolInv, PoolTypeOK, Clients
    <3>2. size + 1 \notin held[WarmupThread]
      BY <3>1 DEF PoolInv, OneOwner
    <3> QED BY <2>2, <3>1, <3>2 DEF CreateClient
  <2> QED BY <2>1, <2>2 DEF Pop
<1>2. /\ held' = [held EXCEPT ![WarmupThread] = @ \cup {c}]
      /\ call' = [call EXCEPT ![WarmupThread] = "idle"]
  BY <1>1 DEF CheckOut
<1>3. held'[WarmupThread] = held[WarmupThread] \cup {c}
  BY <1>2 DEF PoolInv, PoolTypeOK
<1>4. PoppedClient = c
  BY <1>1, <1>3 DEF PoppedClient
<1> QED BY <1>1, <1>2, <1>4 DEF Pop, topoVars

(* A push wakes nobody, since nobody waits.  It takes connections only     *)
(* from the pooled clients and its own, and only those to servers that are *)
(* gone.                                                                   *)
LEMMA WarmupPushTakes ==
  ASSUME PoolInv, WarmupAlone, NEW c, Push(WarmupThread, c)
  PROVE  /\ c \in Clients /\ c \in held[WarmupThread] /\ call' = call
         /\ held' = [held EXCEPT ![WarmupThread] = @ \ {c}]
         /\ Pooled' = Pooled \cup {c}
         /\ last_known_serverids' = servers
         /\ \A d \in Clients : conns[d] \cap servers \subseteq conns'[d]
         /\ \A d \in Clients : d \in Pooled \cup {c} \/ conns'[d] = conns[d]
         /\ UNCHANGED <<freed, servers, maxId>>
<1>1. c \in held[WarmupThread] /\ c \in Clients
  BY WarmupAssumption DEF Push, PoolInv, PoolTypeOK
<1>2. call' = call
  BY DEF Push, Signal, Waiting, WarmupAlone
<1>3. Pooled' = Pooled \cup {c}
  <2>1. c \notin Elements(queue) /\ NoRepeats(queue) /\ queue \in Seq(Clients)
    BY <1>1, WarmupAssumption DEF PoolInv, OneOwner, PoolTypeOK, Elements, NoRepeats, Pooled
  <2>2. Elements(<<c>> \o queue) = Elements(queue) \cup {c}
    BY <1>1, <2>1, PushOnQueue
  <2>3. Pooled = Elements(queue) /\ Pooled' = Elements(queue')
    BY DEF Pooled, Elements
  <2> QED BY <2>2, <2>3 DEF Push
<1>4. \A d \in Clients : conns[d] \cap servers \subseteq conns'[d]
  BY DEF Push
<1>5. \A d \in Clients : d \in Pooled \cup {c} \/ conns'[d] = conns[d]
  BY DEF Push, PrunedBy
<1> QED BY <1>1, <1>2, <1>3, <1>4, <1>5 DEF Push, topoVars

\* Appending a new client to clients[].
LEMMA AppendClient ==
  ASSUME NEW S, NEW q \in Seq(S), NEW c \in S, c \notin Elements(q), NoRepeats(q)
  PROVE  /\ Append(q, c) \in Seq(S) /\ NoRepeats(Append(q, c))
         /\ Elements(Append(q, c)) = Elements(q) \cup {c}
         /\ Len(Append(q, c)) = Len(q) + 1
         /\ \A i \in 1..Len(q) : Append(q, c)[i] = q[i]
<1> DEFINE r == Append(q, c)
<1>1. /\ r \in Seq(S) /\ Len(q) \in Nat /\ Len(r) = Len(q) + 1
      /\ r[Len(q) + 1] = c
      /\ \A i \in 1..Len(q) : r[i] = q[i]
  OBVIOUS
<1> HIDE DEF r
<1>2. \A i \in 1..Len(r) : i \in 1..Len(q) \/ i = Len(q) + 1
  BY <1>1
<1>3. \A i \in 1..Len(q) : i \in 1..Len(r) /\ r[i] # c
  BY <1>1 DEF Elements
<1>4. NoRepeats(r)
  BY <1>1, <1>2, <1>3 DEF NoRepeats
<1>5. Elements(r) \subseteq Elements(q) \cup {c}
  BY <1>1, <1>2 DEF Elements
<1>6. Elements(q) \subseteq Elements(r)
  BY <1>1, <1>3 DEF Elements
<1>7. Len(q) + 1 \in 1..Len(r)
  BY <1>1
<1>8. c \in Elements(r)
  BY <1>1, <1>7 DEF Elements
<1> QED BY <1>1, <1>4, <1>5, <1>6, <1>8 DEF r

-----------------------------------------------------------------------------
(* The warm-up keeps the pool's contract, step by step.                    *)

\* Every step of client_pool_warmup and main is one the contract allows.
LEMMA WarmupMainKeepsContract ==
  ASSUME WarmupInv, Main
  PROVE  [PoolNext]_allPoolVars
<1> USE WarmupAssumption
<1>1. /\ PoolInv /\ WarmupAlone /\ WarmupHolds /\ call[WarmupThread] = "idle"
      /\ held[WarmupThread] \subseteq Clients /\ servers \subseteq ServerIds
  BY DEF WarmupInv, WarmupControl, WarmupAlone, PoolInv, PoolTypeOK
<1>2. ASSUME ThreadStep(WarmupThread), pc # "done" PROVE PoolNext
  BY <1>1, <1>2 DEF PoolNext, WarmupAlone
<1>3. ASSUME Pop PROVE ThreadStep(WarmupThread)
  BY <1>1, <1>3 DEF Pop, TryPop, ThreadStep
<1>4. ASSUME NEW c, Push(WarmupThread, c) PROVE ThreadStep(WarmupThread)
  BY <1>1, <1>4, WarmupPushTakes DEF ThreadStep
<1>5. ASSUME NEW c, NEW s, Connect(WarmupThread, c, s) PROVE ThreadStep(WarmupThread)
  <2>1. c \in Clients /\ s \in ServerIds
    BY <1>1, <1>5 DEF Connect
  <2> QED BY <1>5, <2>1 DEF ThreadStep
<1>6. CASE DiscoverPop \/ WarmPop
  BY <1>2, <1>3, <1>6 DEF DiscoverPop, WarmPop
<1>7. CASE DiscoverPing
  BY <1>2, <1>5, <1>7 DEF DiscoverPing
<1>8. CASE DiscoverFails \/ DiscoverPush
  BY <1>2, <1>4, <1>8 DEF DiscoverFails, DiscoverPush
<1>9. CASE DiscoverRead \/ WarmDone
  BY <1>9 DEF DiscoverRead, WarmDone
<1>10. CASE WarmPing
  BY <1>2, <1>5, <1>10 DEF WarmPing, PingNext, NextClient
<1>11. CASE Release
  BY <1>2, <1>4, <1>11 DEF Release
<1>12. CASE WarmupDestroy
  <2>1. \A t \in Threads : call[t] = "idle" /\ held[t] = {}
    BY <1>1, <1>12 DEF WarmupDestroy, WarmupHolds, WarmupAlone
  <2>2. ~freed
    BY <1>1, <1>12 DEF WarmupDestroy, WarmupAlone
  <2> QED BY <1>12, <2>1, <2>2 DEF WarmupDestroy, DestroyPool, PoolNext
<1> QED BY <1>6, <1>7, <1>8, <1>9, <1>10, <1>11, <1>12 DEF Main

\* Every step of the program is one the pool's contract allows.
LEMMA WarmupStepKeepsContract ==
  WarmupInv /\ [WarmupNext]_warmupVars => [PoolNext]_allPoolVars
<1> SUFFICES ASSUME WarmupInv, [WarmupNext]_warmupVars PROVE [PoolNext]_allPoolVars
  OBVIOUS
<1>1. CASE UNCHANGED warmupVars \/ WarmupTerminated
  BY <1>1 DEF warmupVars, WarmupTerminated
<1>2. CASE WarmupTopology
  BY <1>2 DEF WarmupTopology, PoolNext
<1> QED BY <1>1, <1>2, WarmupMainKeepsContract DEF WarmupNext

-----------------------------------------------------------------------------
(* The invariant of the warm-up is inductive.                              *)

\* The initial states satisfy it.
LEMMA WarmupInitInv == WarmupInit => WarmupInv
<1> SUFFICES ASSUME WarmupInit PROVE WarmupInv
  OBVIOUS
<1>1. PoolInv
  BY PoolInitInv DEF WarmupInit
<1>2. WarmupTypeOK
  <2>1. clients = <<>> /\ NoRepeats(clients)
    BY DEF WarmupInit, NoRepeats
  <2>2. clients \in Seq(Clients)
    BY <2>1
  <2>3. pc \in WarmupLabels /\ server_ids \subseteq ServerIds /\ ok \in BOOLEAN
    BY DEF WarmupInit, WarmupLabels
  <2> QED BY <2>1, <2>2, <2>3 DEF WarmupTypeOK
<1>3. WarmupAlone
  BY DEF WarmupInit, PoolInit, WarmupAlone
<1>4. WarmupHolds
  BY WarmupAssumption DEF WarmupInit, PoolInit, WarmupHolds
<1>5. WarmupKnown
  BY DEF WarmupInit, PoolInit, WarmupKnown
<1>6. WarmupReach
  BY DEF WarmupInit, WarmupReach
<1> QED BY <1>1, <1>2, <1>3, <1>4, <1>5, <1>6 DEF WarmupInv, WarmupControl

\* Only the thread's own entries change, and it is outside pop afterwards.
LEMMA StaysAlone ==
  ASSUME PoolTypeOK, WarmupAlone, pc # "done", freed' = freed,
         call' = call \/ call' = [call EXCEPT ![WarmupThread] = "idle"],
         NEW S, held' = [held EXCEPT ![WarmupThread] = S] \/ held' = held
  PROVE  WarmupAlone'
BY WarmupAssumption DEF PoolTypeOK, WarmupAlone

\* While the servers and what is known of them stay, so does what is known.
LEMMA StaysKnown ==
  ASSUME WarmupKnown, pc # "discoverPush",
         UNCHANGED <<servers, maxId, server_ids, last_known_serverids>>
  PROVE  WarmupKnown'
BY DEF WarmupKnown

\* A push learns the servers anew.
LEMMA PushKnows ==
  ASSUME WarmupKnown, last_known_serverids' = servers,
         UNCHANGED <<servers, maxId, server_ids>>
  PROVE  WarmupKnown'
BY DEF WarmupKnown

\* The steps of the discovery.
LEMMA DiscoveryInv ==
  ASSUME WarmupInv, PoolInv',
         DiscoverPop \/ DiscoverPing \/ DiscoverFails \/ DiscoverRead \/ DiscoverPush
  PROVE  WarmupInv'
<1> USE WarmupAssumption
<1>1. /\ PoolInv /\ PoolTypeOK /\ WarmupTypeOK /\ WarmupAlone /\ WarmupHolds
      /\ WarmupKnown /\ pc # "done"
  BY DEF WarmupInv, WarmupControl, PoolInv, DiscoverPop, DiscoverPing, DiscoverFails,
         DiscoverRead, DiscoverPush
<1>2. clients = <<>> /\ ok = FALSE /\ clients' = clients /\ ok' = ok
  BY <1>1 DEF DiscoverPop, DiscoverPing, DiscoverFails, DiscoverRead, DiscoverPush,
              WarmupHolds, WarmupTypeOK
<1>3. WarmupReach' /\ Elements(clients') = {}
  BY <1>2 DEF WarmupReach, Elements
<1>4. CASE DiscoverPop
  <2>1. PICK c \in Clients :
          /\ held' = [held EXCEPT ![WarmupThread] = @ \cup {c}]
          /\ call' = [call EXCEPT ![WarmupThread] = "idle"]
          /\ UNCHANGED <<last_known_serverids, freed, conns, servers, maxId>>
    BY <1>1, <1>4, WarmupPopGives DEF DiscoverPop
  <2>2. pc = "discoverPop" /\ pc' = "discoverPing" /\ server_ids' = server_ids
    BY <1>4 DEF DiscoverPop
  <2>3. held'[WarmupThread] = {c}
    BY <1>1, <2>1, <2>2 DEF WarmupHolds, PoolTypeOK
  <2>4. WarmupTypeOK'
    BY <1>1, <1>2, <2>2 DEF WarmupTypeOK, WarmupLabels
  <2>5. WarmupAlone'
    BY <1>1, <2>1, StaysAlone
  <2>6. WarmupHolds'
    BY <1>2, <2>2, <2>3 DEF WarmupHolds
  <2>7. WarmupKnown'
    BY <1>1, <2>1, <2>2, StaysKnown
  <2> QED BY <1>3, <2>4, <2>5, <2>6, <2>7 DEF WarmupInv, WarmupControl
<1>5. CASE DiscoverPing
  <2>1. /\ UNCHANGED <<last_known_serverids, freed, call, held, servers, maxId>>
        /\ pc = "discoverPing" /\ pc' = "discoverRead" /\ server_ids' = server_ids
    BY <1>5 DEF DiscoverPing, Connect, topoVars
  <2>2. WarmupTypeOK'
    BY <1>1, <1>2, <2>1 DEF WarmupTypeOK, WarmupLabels
  <2>3. WarmupAlone'
    BY <1>1, <2>1, StaysAlone
  <2>4. WarmupHolds'
    BY <1>1, <1>2, <2>1 DEF WarmupHolds
  <2>5. WarmupKnown'
    BY <1>1, <2>1, StaysKnown
  <2> QED BY <1>3, <2>2, <2>3, <2>4, <2>5 DEF WarmupInv, WarmupControl
<1>6. CASE DiscoverFails \/ DiscoverPush
  <2>1. /\ pc \in {"discoverPing", "discoverPush"} /\ pc' \in {"release", "pop"}
        /\ server_ids' = server_ids
    BY <1>6 DEF DiscoverFails, DiscoverPush
  <2>2. PICK c : Push(WarmupThread, c)
    BY <1>6 DEF DiscoverFails, DiscoverPush
  <2>3. /\ c \in held[WarmupThread] /\ call' = call
        /\ held' = [held EXCEPT ![WarmupThread] = @ \ {c}]
        /\ last_known_serverids' = servers
        /\ UNCHANGED <<freed, servers, maxId>>
    BY <1>1, <2>2, WarmupPushTakes
  <2>4. held'[WarmupThread] = {}
    <3>1. PICK d : held[WarmupThread] = {d}
      BY <1>1, <2>1 DEF WarmupHolds
    <3> QED BY <1>1, <2>3, <3>1 DEF PoolTypeOK
  <2>5. WarmupTypeOK'
    BY <1>1, <1>2, <2>1 DEF WarmupTypeOK, WarmupLabels
  <2>6. WarmupAlone'
    BY <1>1, <2>3, StaysAlone
  <2>7. WarmupHolds'
    BY <1>2, <1>3, <2>1, <2>4 DEF WarmupHolds
  <2>8. WarmupKnown'
    BY <1>1, <2>1, <2>3, PushKnows
  <2> QED BY <1>3, <2>5, <2>6, <2>7, <2>8 DEF WarmupInv, WarmupControl
<1>7. CASE DiscoverRead
  <2>1. /\ UNCHANGED <<freed, call, held, servers, maxId>>
        /\ pc = "discoverRead" /\ pc' = "discoverPush" /\ server_ids' = servers
    BY <1>7 DEF DiscoverRead, allPoolVars, poolVars, topoVars
  <2>2. WarmupTypeOK'
    BY <1>1, <1>2, <2>1 DEF WarmupTypeOK, WarmupLabels, PoolTypeOK
  <2>3. WarmupAlone'
    BY <1>1, <2>1, StaysAlone
  <2>4. WarmupHolds'
    BY <1>1, <1>2, <2>1 DEF WarmupHolds
  <2>5. WarmupKnown'
    BY <1>1, <2>1 DEF WarmupKnown
  <2> QED BY <1>3, <2>2, <2>3, <2>4, <2>5 DEF WarmupInv, WarmupControl
<1> QED BY <1>4, <1>5, <1>6, <1>7

(* The steps of the loop over num_clients.  A client popped is connected   *)
(* to none of the servers to be pinged, and to all of them when the next   *)
(* one is popped.                                                          *)
LEMMA WarmLoopInv ==
  ASSUME WarmupInv, PoolInv', WarmPop \/ WarmPing \/ WarmDone
  PROVE  WarmupInv'
<1> USE WarmupAssumption
<1>1. /\ PoolInv /\ PoolTypeOK /\ WarmupTypeOK /\ WarmupAlone /\ WarmupHolds
      /\ WarmupKnown /\ WarmupReach /\ pc \in {"pop", "ping"}
  BY DEF WarmupInv, WarmupControl, PoolInv, WarmPop, WarmPing, WarmDone
<1>2. /\ ok = FALSE /\ held[WarmupThread] = Elements(clients)
      /\ server_ids' = server_ids /\ Len(clients) \in Nat
  BY <1>1 DEF WarmPop, WarmPing, PingNext, NextClient, WarmDone, WarmupHolds, WarmupTypeOK
<1>3. CASE WarmPop
  <2>1. /\ pc = "pop" /\ pc' = "ping" /\ clients' = Append(clients, PoppedClient)
        /\ todo' = server_ids /\ ok' = ok
    BY <1>3 DEF WarmPop
  <2>2. PICK c \in Clients :
          /\ c \notin held[WarmupThread] /\ PoppedClient = c
          /\ held' = [held EXCEPT ![WarmupThread] = @ \cup {c}]
          /\ call' = [call EXCEPT ![WarmupThread] = "idle"]
          /\ UNCHANGED <<last_known_serverids, freed, conns, servers, maxId>>
    BY <1>1, <1>3, WarmupPopGives DEF WarmPop
  <2>3. /\ clients' \in Seq(Clients) /\ NoRepeats(clients')
        /\ Elements(clients') = Elements(clients) \cup {c}
        /\ Len(clients') = Len(clients) + 1
        /\ \A i \in 1..Len(clients) : clients'[i] = clients[i]
    BY <1>1, <1>2, <2>1, <2>2, AppendClient DEF WarmupTypeOK
  <2>4. held'[WarmupThread] = Elements(clients')
    BY <1>1, <1>2, <2>2, <2>3 DEF PoolTypeOK
  <2>5. WarmupTypeOK'
    BY <1>1, <1>2, <2>1, <2>3 DEF WarmupTypeOK, WarmupLabels
  <2>6. WarmupAlone'
    BY <1>1, <2>2, StaysAlone
  <2>7. WarmupHolds'
    BY <1>2, <2>1, <2>4 DEF WarmupHolds
  <2>8. WarmupKnown'
    BY <1>1, <1>2, <2>2, StaysKnown
  <2>9. WarmupReach'
    <3> SUFFICES ASSUME NEW i \in 1..Len(clients')
                 PROVE  (i < Len(clients) => Reaches(clients[i], server_ids))'
      BY <1>2, <2>1 DEF WarmupReach, Reaches
    <3>1. CASE i < Len(clients')
      <4>1. i \in 1..Len(clients) /\ clients'[i] = clients[i]
        BY <1>2, <2>3, <3>1
      <4>2. Reaches(clients[i], server_ids)
        BY <1>1, <2>1, <4>1 DEF WarmupReach
      <4> QED BY <1>2, <2>2, <4>1, <4>2 DEF Reaches
    <3>2. CASE ~(i < Len(clients'))
      BY <3>2
    <3> QED BY <3>1, <3>2
  <2> QED BY <2>5, <2>6, <2>7, <2>8, <2>9 DEF WarmupInv, WarmupControl
<1>4. CASE WarmPing /\ pc' = "ping"
  <2>1. PICK s \in todo : /\ Connect(WarmupThread, clients[Len(clients)], s)
                          /\ todo' = todo \ {s}
    BY <1>4 DEF WarmPing, PingNext, NextClient
  <2>2. /\ pc = "ping" /\ clients' = clients /\ ok' = ok
        /\ UNCHANGED <<last_known_serverids, freed, call, held, servers, maxId>>
    BY <1>4, <2>1 DEF WarmPing, PingNext, NextClient, Connect, topoVars
  <2>3. WarmupTypeOK'
    BY <1>1, <1>2, <1>4, <2>2 DEF WarmupTypeOK
  <2>4. WarmupAlone'
    BY <1>1, <2>2, StaysAlone
  <2>5. WarmupHolds'
    BY <1>2, <1>4, <2>2 DEF WarmupHolds
  <2>6. WarmupKnown'
    BY <1>1, <1>2, <2>2, StaysKnown
  <2>7. WarmupReach'
    <3>1. /\ \A d \in Clients : conns[d] \subseteq conns'[d]
          /\ clients[Len(clients)] \in Clients =>
               conns'[clients[Len(clients)]] = conns[clients[Len(clients)]] \cup {s}
      BY <1>1, <2>1 DEF Connect, PoolTypeOK
    <3> SUFFICES ASSUME NEW i \in 1..Len(clients)
                 PROVE  Reaches(clients[i], IF i < Len(clients) THEN server_ids
                                            ELSE server_ids \ todo)'
      BY <1>2, <1>4, <2>2 DEF WarmupReach
    <3>2. clients[i] \in Clients
      BY <1>1 DEF WarmupTypeOK
    <3>3. Reaches(clients[i], IF i < Len(clients) THEN server_ids
                              ELSE server_ids \ todo)
      BY <1>1, <2>2 DEF WarmupReach
    <3>4. CASE i < Len(clients)
      BY <1>2, <2>2, <3>1, <3>2, <3>3, <3>4 DEF Reaches
    <3>5. CASE ~(i < Len(clients))
      <4>1. i = Len(clients)
        BY <1>2, <3>5
      <4>2. server_ids \ todo \subseteq conns[clients[i]]
        BY <3>3, <3>5 DEF Reaches
      <4>3. server_ids' \ todo' \subseteq conns'[clients'[i]]
        BY <1>2, <2>1, <2>2, <3>1, <3>2, <4>1, <4>2
      <4> QED BY <2>2, <3>5, <4>3 DEF Reaches
    <3> QED BY <3>4, <3>5
  <2> QED BY <2>3, <2>4, <2>5, <2>6, <2>7 DEF WarmupInv, WarmupControl
<1>5. CASE (WarmPing /\ pc' # "ping") \/ WarmDone
  <2>1. /\ pc' \in {"pop", "release"} /\ clients' = clients
        /\ UNCHANGED <<last_known_serverids, freed, call, held, conns, servers, maxId>>
    BY <1>5 DEF WarmPing, PingNext, NextClient, WarmDone, allPoolVars, poolVars, topoVars
  <2>2. ok' \in BOOLEAN /\ (ok' => pc = "pop" /\ pc' = "release" /\ Len(clients) = NumClients)
    BY <1>2, <1>5 DEF WarmPing, PingNext, NextClient, WarmDone
  <2>3. pc' = "pop" => pc = "ping" /\ todo = {}
    BY <1>5 DEF WarmPing, PingNext, NextClient, WarmDone
  <2>4. WarmupTypeOK'
    BY <1>1, <1>2, <2>1, <2>2 DEF WarmupTypeOK, WarmupLabels
  <2>5. WarmupAlone'
    BY <1>1, <2>1, StaysAlone
  <2>6. WarmupHolds'
    BY <1>2, <2>1, <2>2 DEF WarmupHolds
  <2>7. WarmupKnown'
    BY <1>1, <1>2, <2>1, StaysKnown
  <2>8. WarmupReach'
    <3> SUFFICES ASSUME NEW i \in 1..Len(clients), pc' = "pop" \/ ok'
                 PROVE  Reaches(clients[i], server_ids) /\ clients[i] \in held[WarmupThread]
      BY <1>2, <2>1, <2>2 DEF WarmupReach, Reaches
    <3>1. clients[i] \in held[WarmupThread]
      BY <1>2 DEF Elements
    <3>2. CASE ok'
      BY <1>1, <2>2, <3>1, <3>2 DEF WarmupReach
    <3>3. CASE pc' = "pop"
      <4>1. server_ids \ todo = server_ids
        BY <2>3, <3>3
      <4> QED BY <1>1, <2>3, <3>1, <3>3, <4>1 DEF WarmupReach
    <3> QED BY <3>2, <3>3
  <2> QED BY <2>4, <2>5, <2>6, <2>7, <2>8 DEF WarmupInv, WarmupControl
<1> QED BY <1>3, <1>4, <1>5

(* The loop at label done.  A client that is pushed keeps its connections  *)
(* to the servers that are still there, and so do those pushed before it.  *)
LEMMA ReleaseInv ==
  ASSUME WarmupInv, PoolInv', Release
  PROVE  WarmupInv'
<1> USE WarmupAssumption
<1>1. /\ PoolInv /\ PoolTypeOK /\ WarmupTypeOK /\ WarmupAlone /\ WarmupHolds
      /\ WarmupKnown /\ WarmupReach /\ pc = "release"
      /\ UNCHANGED <<clients, server_ids, ok>>
  BY DEF WarmupInv, WarmupControl, PoolInv, Release
<1>2. ASSUME pc' = "release", NEW k \in 1..Len(clients), Push(WarmupThread, clients[k])
      PROVE  WarmupInv'
  <2>1. /\ clients[k] \in Clients /\ clients[k] \in held[WarmupThread] /\ call' = call
        /\ held' = [held EXCEPT ![WarmupThread] = @ \ {clients[k]}]
        /\ Pooled' = Pooled \cup {clients[k]}
        /\ last_known_serverids' = servers
        /\ \A d \in Clients : conns[d] \cap servers \subseteq conns'[d]
        /\ \A d \in Clients : d \in Pooled \cup {clients[k]} \/ conns'[d] = conns[d]
        /\ UNCHANGED <<freed, servers, maxId>>
    BY <1>1, <1>2, WarmupPushTakes
  <2>2. held'[WarmupThread] = held[WarmupThread] \ {clients[k]}
    BY <1>1, <2>1 DEF PoolTypeOK
  <2>3. WarmupTypeOK'
    BY <1>1, <1>2 DEF WarmupTypeOK
  <2>4. WarmupAlone'
    BY <1>1, <2>1, StaysAlone
  <2>5. WarmupHolds'
    BY <1>1, <1>2, <2>2 DEF WarmupHolds
  <2>6. WarmupKnown'
    BY <1>1, <2>1, PushKnows
  <2>7. WarmupReach'
    <3> SUFFICES ASSUME NEW i \in 1..Len(clients), ok
                 PROVE  \/ /\ clients[i] \in held'[WarmupThread]
                           /\ server_ids \subseteq conns'[clients[i]]
                        \/ /\ clients[i] \in Pooled'
                           /\ server_ids \cap servers \subseteq conns'[clients[i]]
      BY <1>1, <1>2, <2>1 DEF WarmupReach, Reaches
    <3>1. clients[i] \in Clients
      BY <1>1 DEF WarmupTypeOK
    <3>2. \/ /\ clients[i] \in held[WarmupThread] /\ clients[i] \notin Pooled
             /\ server_ids \subseteq conns[clients[i]]
          \/ /\ clients[i] \in Pooled
             /\ server_ids \cap last_known_serverids \subseteq conns[clients[i]]
      BY <1>1 DEF WarmupReach, Reaches, PoolInv, OneOwner
    <3>3. CASE clients[i] \in held[WarmupThread] /\ clients[i] # clients[k]
                 /\ clients[i] \notin Pooled /\ server_ids \subseteq conns[clients[i]]
      BY <2>1, <2>2, <3>1, <3>3
    <3>4. CASE clients[i] = clients[k] /\ server_ids \subseteq conns[clients[i]]
      BY <2>1, <3>1, <3>4
    <3>5. CASE clients[i] \in Pooled
                 /\ server_ids \cap last_known_serverids \subseteq conns[clients[i]]
      <4>1. server_ids \cap servers \subseteq last_known_serverids
        BY <1>1 DEF WarmupKnown
      <4> QED BY <2>1, <3>1, <3>5, <4>1
    <3> QED BY <3>2, <3>3, <3>4, <3>5
  <2> QED BY <2>3, <2>4, <2>5, <2>6, <2>7 DEF WarmupInv, WarmupControl
<1>3. ASSUME pc' = "returned", UNCHANGED allPoolVars,
             {i \in 1..Len(clients) : clients[i] \in held[WarmupThread]} = {}
      PROVE  WarmupInv'
  <2>1. /\ UNCHANGED <<queue, last_known_serverids, freed, call, held, conns, servers,
                       maxId>>
        /\ Pooled' = Pooled
    BY <1>3 DEF allPoolVars, poolVars, topoVars, Pooled
  <2>2. held[WarmupThread] = {}
    BY <1>1, <1>3 DEF WarmupHolds, Elements
  <2>3. WarmupTypeOK'
    BY <1>1, <1>3 DEF WarmupTypeOK, WarmupLabels
  <2>4. WarmupAlone'
    BY <1>1, <2>1, StaysAlone
  <2>5. WarmupHolds'
    BY <1>1, <1>3, <2>1, <2>2 DEF WarmupHolds
  <2>6. WarmupKnown'
    BY <1>1, <2>1, StaysKnown
  <2>7. WarmupReach'
    BY <1>1, <1>3, <2>1 DEF WarmupReach, Reaches
  <2> QED BY <2>3, <2>4, <2>5, <2>6, <2>7 DEF WarmupInv, WarmupControl
<1> QED BY <1>2, <1>3 DEF Release

\* The pool is destroyed.
LEMMA WarmupDestroyInv ==
  ASSUME WarmupInv, PoolInv', WarmupDestroy
  PROVE  WarmupInv'
<1>1. /\ WarmupTypeOK /\ WarmupAlone /\ WarmupHolds /\ WarmupKnown
      /\ pc = "returned" /\ pc' = "done"
      /\ UNCHANGED <<clients, server_ids, ok, last_known_serverids, call, held, servers,
                     maxId>>
  BY DEF WarmupInv, WarmupControl, WarmupDestroy, DrainAndFree, topoVars
<1>2. WarmupTypeOK'
  BY <1>1 DEF WarmupTypeOK, WarmupLabels
<1>3. WarmupAlone'
  BY <1>1 DEF WarmupAlone
<1>4. WarmupHolds'
  BY <1>1 DEF WarmupHolds
<1>5. WarmupKnown'
  BY <1>1, StaysKnown
<1>6. WarmupReach'
  BY <1>1 DEF WarmupReach
<1> QED BY <1>2, <1>3, <1>4, <1>5, <1>6 DEF WarmupInv, WarmupControl

\* A server joins, with an id that was never used, or leaves the topology.
LEMMA WarmupTopologyInv ==
  ASSUME WarmupInv, PoolInv', WarmupTopology
  PROVE  WarmupInv'
<1>1. /\ UNCHANGED <<queue, last_known_serverids, freed, call, held, conns>>
      /\ UNCHANGED <<pc, clients, server_ids, todo, ok>>
      /\ Pooled' = Pooled
  BY DEF WarmupTopology, TopologyStep, AddServer, RemoveServer, warmupOwn, poolVars, Pooled
<1>2. WarmupKnown'
  <2>1. WarmupKnown /\ maxId \in Nat
    BY DEF WarmupInv, WarmupControl, PoolInv, PoolTypeOK
  <2>2. CASE AddServer
    <3>1. maxId' = maxId + 1 /\ servers' = servers \cup {maxId + 1}
      BY <2>2 DEF AddServer
    <3>2. 1..maxId \subseteq 1..maxId' /\ maxId + 1 \in 1..maxId' /\ maxId + 1 \notin 1..maxId
      BY <2>1, <3>1
    <3>3. servers' \subseteq 1..maxId' /\ server_ids' \subseteq 1..maxId'
      BY <1>1, <2>1, <3>1, <3>2 DEF WarmupKnown
    <3>4. server_ids' \cap servers' = server_ids \cap servers
      BY <1>1, <2>1, <3>1, <3>2 DEF WarmupKnown
    <3> QED BY <1>1, <2>1, <3>3, <3>4 DEF WarmupKnown
  <2>3. CASE \E s \in ServerIds : RemoveServer(s)
    BY <1>1, <2>1, <2>3 DEF RemoveServer, WarmupKnown
  <2> QED BY <2>2, <2>3 DEF WarmupTopology, TopologyStep
<1>3. WarmupTypeOK' /\ WarmupAlone' /\ WarmupHolds'
  BY <1>1 DEF WarmupInv, WarmupControl, WarmupTypeOK, WarmupAlone, WarmupHolds
<1>4. WarmupReach'
  BY <1>1 DEF WarmupInv, WarmupControl, WarmupReach, Reaches
<1> QED BY <1>2, <1>3, <1>4 DEF WarmupInv, WarmupControl

\* Every step of the program keeps the invariant.
LEMMA WarmupStepInv == WarmupInv /\ [WarmupNext]_warmupVars => WarmupInv'
<1> SUFFICES ASSUME WarmupInv, [WarmupNext]_warmupVars PROVE WarmupInv'
  OBVIOUS
<1>1. PoolInv'
  BY WarmupStepKeepsContract, PoolStepInv DEF WarmupInv
<1>2. CASE UNCHANGED warmupVars \/ WarmupTerminated
  <2>1. /\ UNCHANGED <<queue, last_known_serverids, freed, call, held, conns, servers,
                       maxId>>
        /\ UNCHANGED <<pc, clients, server_ids, todo, ok>>
        /\ Pooled' = Pooled
    BY <1>2 DEF WarmupTerminated, warmupVars, warmupOwn, allPoolVars, poolVars, topoVars,
                Pooled
  <2>2. WarmupTypeOK' /\ WarmupAlone' /\ WarmupHolds' /\ WarmupKnown'
    BY <2>1 DEF WarmupInv, WarmupControl, WarmupTypeOK, WarmupAlone, WarmupHolds,
                WarmupKnown
  <2>3. WarmupReach'
    BY <2>1 DEF WarmupInv, WarmupControl, WarmupReach, Reaches
  <2> QED BY <1>1, <2>2, <2>3 DEF WarmupInv, WarmupControl
<1>3. CASE WarmupTopology
  BY <1>1, <1>3, WarmupTopologyInv
<1>4. CASE Main
  BY <1>1, <1>4, DiscoveryInv, WarmLoopInv, ReleaseInv, WarmupDestroyInv DEF Main
<1> QED BY <1>2, <1>3, <1>4 DEF WarmupNext

LEMMA WarmupInvariance == WarmupSpec => []WarmupInv
BY WarmupInitInv, WarmupStepInv, PTL DEF WarmupSpec

-----------------------------------------------------------------------------
(* client_pool_warmup keeps the pool's contract on every path through its  *)
(* gotos: it pushes only what it popped, each client once, and main        *)
(* destroys the pool when all are back.                                    *)
THEOREM WarmupContractKept == WarmupSpec => PoolSpec
<1>1. WarmupInit => PoolInit
  BY DEF WarmupInit
<1> QED
  BY <1>1, WarmupInvariance, WarmupStepKeepsContract, PTL
  DEF WarmupSpec, PoolSpec

(* A warm-up that returns true leaves num_clients different clients in the *)
(* pool, each connected to all servers it found that the pool still knows, *)
(* however the topology changes meanwhile.                                 *)
THEOREM WarmupWorks == WarmupSpec => []WarmedUp
<1>1. WarmupInv => WarmedUp
  <2> SUFFICES ASSUME WarmupInv, pc = "returned", ok PROVE WarmedUp
    BY DEF WarmedUp
  <2> DEFINE warm == {c \in Pooled : server_ids \cap last_known_serverids \subseteq conns[c]}
  <2>1. /\ PoolTypeOK /\ WarmupTypeOK /\ Len(clients) = NumClients
        /\ held[WarmupThread] = {} /\ WarmupReach
    BY DEF WarmupInv, WarmupControl, PoolInv, WarmupHolds
  <2>2. clients \in Injection(1..NumClients, warm)
    <3>1. \A i \in 1..NumClients : clients[i] \in warm
      BY <2>1 DEF WarmupReach, Reaches
    <3>2. clients \in [1..NumClients -> Clients]
      BY <2>1 DEF WarmupTypeOK
    <3>3. clients \in [1..NumClients -> warm]
      BY <3>1, <3>2
    <3>4. IsInjective(clients)
      BY <2>1, <3>2 DEF WarmupTypeOK, NoRepeats, IsInjective
    <3> QED BY <3>3, <3>4 DEF Injection
  <2>3. IsFiniteSet(warm)
    <3>1. warm \subseteq Clients
      BY <2>1 DEF PoolTypeOK, Pooled
    <3>2. IsFiniteSet(Clients)
      BY FirstNumbers, PoolAssumption DEF Clients
    <3> QED BY <3>1, <3>2, FS_Subset
  <2>4. Cardinality(1..NumClients) = NumClients
    BY FirstNumbers, WarmupAssumption
  <2> HIDE DEF warm
  <2>5. Cardinality(1..NumClients) <= Cardinality(warm)
    BY <2>2, <2>3, FS_Injection
  <2>6. NumClients <= Cardinality(warm)
    BY <2>4, <2>5
  <2> QED BY <2>6 DEF warm, WarmedUp
<1> QED BY <1>1, WarmupInvariance, PTL
=============================================================================

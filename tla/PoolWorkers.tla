----------------------------- MODULE PoolWorkers -----------------------------
(***************************************************************************)
(* investigations/HELP-59749/main.c on top of ClientPool: worker threads   *)
(* pop a client, run an update and push the client while is_running is     *)
(* set; main starts them, samples the server's connection count, clears    *)
(* is_running, joins the workers and destroys the pool.                    *)
(*                                                                         *)
(* is_running is a volatile int that one thread writes once and the others *)
(* read; on the platforms the program is built for each access is a single *)
(* load or store, so a worker sees the old or the new value.  abort ends   *)
(* the whole process.                                                      *)
(***************************************************************************)
EXTENDS ClientPool

CONSTANTS
  MainThread,  \* the thread that runs main
  NumWorkers,  \* 3 in the code
  NoClient     \* a worker's client between its iterations

Workers == 1..NumWorkers

ASSUME WorkersAssumption ==
  /\ NumWorkers \in Nat
  /\ Threads = Workers \cup {MainThread}
  /\ MainThread \notin Workers

VARIABLES
  mpc,         \* where main is
  joined,      \* workers created (while starting) or joined (while joining)
  is_running,
  wpc,         \* where each worker is
  client,      \* each worker's client
  sessions     \* the topology's pool of server sessions is not empty

ownVars == <<mpc, joined, is_running, wpc, client, sessions>>
vars    == <<allPoolVars, ownVars>>

Init ==
  /\ PoolInit
  /\ mpc = "start"
  /\ joined = 0
  /\ is_running = FALSE
  /\ wpc = [w \in Workers |-> "unborn"]
  /\ client = [w \in Workers |-> NoClient]
  /\ sessions = FALSE

Abort == mpc' = "aborted"

Goto(w, l) == wpc' = [wpc EXCEPT ![w] = l]

-----------------------------------------------------------------------------
(* worker_thread.                                                          *)

CheckRunning(w) ==
  /\ wpc[w] = "check"
  /\ Goto(w, IF is_running THEN "call" ELSE "exit")
  /\ UNCHANGED <<allPoolVars, mpc, joined, is_running, client, sessions>>

WorkerCallPop(w) ==
  /\ wpc[w] = "call"
  /\ CallPop(w)
  /\ Goto(w, "pop")
  /\ UNCHANGED <<mpc, joined, is_running, client, sessions>>

WorkerPop(w) ==
  /\ wpc[w] = "pop"
  /\ PopSucceeds(w)
  /\ client' = [client EXCEPT ![w] = CHOOSE c \in held'[w] : TRUE]
  /\ Goto(w, "update")
  /\ UNCHANGED <<mpc, joined, is_running, sessions>>

WorkerWait(w) ==
  /\ wpc[w] = "pop"
  /\ PopWaits(w) \/ SpuriousWakeup(w)
  /\ UNCHANGED ownVars

\* pop returned NULL: mongoc_client_get_collection asserts that it did not.
WorkerPopNull(w) ==
  /\ wpc[w] = "pop"
  /\ PopTimesOut(w)
  /\ Abort
  /\ UNCHANGED <<joined, is_running, wpc, client, sessions>>

(* The update picks a server, connects if it must, and leaves its implicit *)
(* session in the session pool.                                            *)
Update(w) ==
  /\ wpc[w] = "update"
  /\ \E s \in servers : Connect(w, client[w], s)
  /\ sessions' = TRUE
  /\ Goto(w, "push")
  /\ UNCHANGED <<mpc, joined, is_running, client>>

UpdateFails(w) ==
  /\ wpc[w] = "update"
  /\ Abort
  /\ UNCHANGED <<allPoolVars, joined, is_running, wpc, client, sessions>>

MutantWorkerPush(w) ==
  /\ wpc[w] = "push"
  /\ IF is_running
       THEN Push(w, client[w]) /\ Goto(w, "check")
       ELSE UNCHANGED allPoolVars /\ Goto(w, "exit")
  /\ client' = [client EXCEPT ![w] = NoClient]
  /\ UNCHANGED <<mpc, joined, is_running, sessions>>

WorkerPush(w) ==
  /\ wpc[w] = "push"
  /\ Push(w, client[w])
  /\ client' = [client EXCEPT ![w] = NoClient]
  /\ Goto(w, "check")
  /\ UNCHANGED <<mpc, joined, is_running, sessions>>

-----------------------------------------------------------------------------
(* main.                                                                   *)

StartWorker ==
  /\ mpc = "start"
  /\ is_running' = TRUE
  /\ joined < NumWorkers
  /\ joined' = joined + 1
  /\ Goto(joined + 1, "check")
  /\ UNCHANGED <<allPoolVars, mpc, client, sessions>>

StartSampling ==
  /\ mpc = "start"
  /\ joined = NumWorkers
  /\ mpc' = "sample"
  /\ joined' = 0
  /\ UNCHANGED <<allPoolVars, is_running, wpc, client, sessions>>

\* get_current_connection_count aborts when serverStatus fails.
SampleFails ==
  /\ mpc \in {"sample", "final"} \/ (mpc = "start" /\ joined = 0)
  /\ Abort
  /\ UNCHANGED <<allPoolVars, joined, is_running, wpc, client, sessions>>

\* The last sample, after ten seconds.
StopWorkers ==
  /\ mpc = "sample"
  /\ is_running' = FALSE
  /\ mpc' = "join"
  /\ UNCHANGED <<allPoolVars, joined, wpc, client, sessions>>

MutantJoinWorker ==
  /\ mpc = "join"
  /\ joined < NumWorkers
  /\ joined' = joined + 1
  /\ UNCHANGED <<allPoolVars, mpc, is_running, wpc, client, sessions>>

JoinWorker ==
  /\ mpc = "join"
  /\ joined < NumWorkers
  /\ wpc[joined + 1] = "exit"
  /\ joined' = joined + 1
  /\ UNCHANGED <<allPoolVars, mpc, is_running, wpc, client, sessions>>

(* mongoc_client_pool_destroy: when there are sessions to end, a client is *)
(* popped, used for endSessions and pushed again; then the pool is drained. *)
(* Nobody is left to push a client, so if the pop had to wait it would     *)
(* wait for ever, and the model would deadlock here.                       *)
Destroy ==
  /\ mpc = "join"
  /\ joined = NumWorkers
  /\ IF sessions
       THEN CallPop(MainThread) /\ mpc' = "endSessionsPop"
       ELSE UNCHANGED allPoolVars /\ mpc' = "drain"
  /\ UNCHANGED <<joined, is_running, wpc, client, sessions>>

DestroyPop ==
  /\ mpc = "endSessionsPop"
  /\ PopSucceeds(MainThread)
  /\ mpc' = "endSessionsPush"
  /\ UNCHANGED <<joined, is_running, wpc, client, sessions>>

DestroyPush ==
  /\ mpc = "endSessionsPush"
  /\ \E c \in held[MainThread] : Push(MainThread, c)
  /\ sessions' = FALSE
  /\ mpc' = "drain"
  /\ UNCHANGED <<joined, is_running, wpc, client>>

DestroyDrain ==
  /\ mpc = "drain"
  /\ DrainAndFree
  /\ mpc' = "final"
  /\ UNCHANGED <<joined, is_running, wpc, client, sessions>>

Finish ==
  /\ mpc = "final"
  /\ mpc' = "done"
  /\ UNCHANGED <<allPoolVars, joined, is_running, wpc, client, sessions>>

-----------------------------------------------------------------------------
Topology == ~freed /\ TopologyStep /\ UNCHANGED ownVars

Terminated == mpc \in {"done", "aborted"} /\ UNCHANGED vars

WorkerSteps(w) ==
  \/ CheckRunning(w) \/ WorkerCallPop(w) \/ WorkerPop(w) \/ WorkerWait(w)
  \/ WorkerPopNull(w) \/ Update(w) \/ UpdateFails(w) \/ WorkerPush(w)

MainSteps ==
  \/ StartWorker \/ StartSampling \/ SampleFails \/ StopWorkers \/ JoinWorker
  \/ Destroy \/ DestroyPop \/ DestroyPush \/ DestroyDrain \/ Finish

Next ==
  \/ mpc # "aborted" /\ (MainSteps \/ \E w \in Workers : WorkerSteps(w))
  \/ mpc # "aborted" /\ Topology
  \/ Terminated

Spec == Init /\ [][Next]_vars

(* Fairness: every thread that can run does.  An update is answered, well  *)
(* or badly, and ten seconds pass.  Nothing makes a waiter wake            *)
(* spuriously, and a waiter gets no preference over threads that barge in. *)
Progress(w) ==
  mpc # "aborted" /\
  (\/ CheckRunning(w) \/ WorkerCallPop(w) \/ WorkerPop(w)
   \/ (wpc[w] = "pop" /\ PopWaits(w) /\ UNCHANGED ownVars)
   \/ Update(w) \/ UpdateFails(w) \/ WorkerPush(w))

FairSpec ==
  /\ Spec
  /\ WF_vars(mpc # "aborted" /\ MainSteps)
  /\ \A w \in Workers : WF_vars(Progress(w))

-----------------------------------------------------------------------------
(* The program keeps the pool's contract: it pushes only what it popped,   *)
(* destroys the pool when every client is back and no thread is inside it, *)
(* and never touches it afterwards.                                        *)
KeepsPoolContract == PoolSpec

(* However large maxPoolSize is, the pool never holds more clients than    *)
(* there are workers: pop reuses before it creates, and the client popped  *)
(* by mongoc_client_pool_destroy is a pooled one.                          *)
NoMoreClientsThanWorkers == size <= NumWorkers

(* When main reaches mongoc_client_pool_destroy every client the pool ever *)
(* created has been pushed back, so destroy cannot block in its own pop    *)
(* and frees all of them.                                                  *)
AllReturnedAtDestroy ==
  /\ mpc = "endSessionsPop" => Len(queue) = size /\ size > 0
  /\ mpc \in {"final", "done"} => destroyed = 1..size

(* Once is_running is cleared the program ends: no worker is left asleep   *)
(* in pop for a client that somebody has pushed.                           *)
Ends == <>(mpc \in {"done", "aborted"})
=============================================================================

------------------------------- MODULE DbQueue -------------------------------
(***************************************************************************)
(* hello-mongoac/db-queue.cpp: a main thread that awaits requests, starts  *)
(* each one on the driver and hands its future to a worker thread through  *)
(* a vector guarded by a mutex, and a worker thread that drives the        *)
(* driver's runtime, moves the completed futures out of the vector and     *)
(* reports them, until shutdown has been requested and the vector is       *)
(* empty.                                                                  *)
(*                                                                         *)
(* Each critical section of mtx is one action: no code path blocks or      *)
(* calls out while it holds the mutex, except cv.wait_for, which releases  *)
(* it and is the state "waiting".  Everything outside the mutex (starting  *)
(* an operation, notifying, driving the runtime, handling one result) is   *)
(* an action of its own.                                                   *)
(*                                                                         *)
(* A request is identified by its position in the script.  Only the main   *)
(* thread pushes, in script order, and the worker keeps that order when it *)
(* moves elements, so the vectors `inflight', `pending' and `completed'    *)
(* always list their requests in ascending order and are modelled as sets. *)
(*                                                                         *)
(* An operator whose name starts with Mutant is a broken variant of the    *)
(* definition that follows it; no specification uses it.                   *)
(***************************************************************************)
EXTENDS Integers

CONSTANTS
  NumValues,   \* length of values[] in make_request_stream (16 in the code)
  Seeded,      \* inserts before counting starts (10 in the code)
  MaxLeftover  \* bound: documents an earlier run may have left behind

ASSUME StreamAssumption ==
  /\ NumValues \in Nat
  /\ Seeded \in Nat
  /\ Seeded <= NumValues
  /\ MaxLeftover \in Nat

-----------------------------------------------------------------------------
(* The script of db-requests.hpp.  make_request_stream pushes one insert   *)
(* per value, and from value number Seeded on a count after it, so the     *)
(* script alternates insert and count once the collection is seeded.  It   *)
(* closes with a Shutdown request, which is also what await_request would  *)
(* answer past the end.  main leaves its loop at the first one, so the two *)
(* are not told apart and the index stops there.                           *)

StreamLength == Seeded + 2 * (NumValues - Seeded)

Requests == 1..StreamLength

Op(r) == IF r <= Seeded \/ (r - Seeded) % 2 = 1 THEN "Insert" ELSE "Count"

-----------------------------------------------------------------------------
VARIABLES
  mpc,        \* where the main thread is
  next,       \* await_request's static index: the next request to hand out
  error,      \* main's Error object, written by its driver calls
  fut,        \* state of each request's future
  outcome,    \* what a resolved future holds: an answer ...
  result,     \* ... and for a count the number it carries
  docs,       \* number of documents in demo.numbers on the server
  inflight,   \* the shared vector, guarded by mtx
  shutdown_requested,
  wpc,        \* where the worker thread is
  pending,    \* the handles the worker copied
  completed,  \* the futures the worker moved out of inflight
  err,        \* the worker's Error object
  reported    \* what handle_result printed for each request

mainVars   == <<mpc, next, error>>
futVars    == <<fut, outcome, result, docs>>
sharedVars == <<inflight, shutdown_requested>>
workVars   == <<wpc, pending, completed, err, reported>>
vars       == <<mainVars, futVars, sharedVars, workVars>>

MainPCs   == {"create", "drop", "await", "start", "push", "notify", "stop",
              "stopNotify", "join", "shutdown", "done", "failed"}
WorkerPCs == {"unborn", "top", "waiting", "drive", "harvest", "handle",
              "exited"}
FutStates == {"none", "running", "ready", "destroyed"}
Answers   == {"ok", "error"}

\* The request the main thread holds between await_request and notify_one.
cur == next - 1

Init ==
  /\ mpc = "create"
  /\ next = 1
  /\ error = "ok"
  /\ fut = [r \in Requests |-> "none"]
  /\ outcome = [r \in Requests |-> "none"]
  /\ result = [r \in Requests |-> 0]
  /\ docs \in 0..MaxLeftover
  /\ inflight = {}
  /\ shutdown_requested = FALSE
  /\ wpc = "unborn"
  /\ pending = {}
  /\ completed = {}
  /\ err = "ok"
  /\ reported = [r \in Requests |-> "none"]

-----------------------------------------------------------------------------
(* The main thread.                                                        *)

CreateClient ==
  /\ mpc = "create"
  /\ \E a \in Answers :
       /\ error' = a
       /\ mpc' = IF a = "ok" THEN "drop" ELSE "failed"
  /\ UNCHANGED <<next, futVars, sharedVars, workVars>>

(* blockOn(coll.drop(error), error): the collection may or may not be      *)
(* emptied when the call fails, and the code goes on either way.  Then the *)
(* worker thread is started.                                               *)
DropCollection ==
  /\ mpc = "drop"
  /\ error' \in Answers
  /\ docs' \in {0} \cup (IF error' = "error" THEN {docs} ELSE {})
  /\ mpc' = "await"
  /\ wpc' = "top"
  /\ UNCHANGED <<next, fut, outcome, result, sharedVars, pending, completed,
                 err, reported>>

MutantStreamExhausted == next > StreamLength + 1

\* await_request has handed out the whole script and answers Shutdown.
StreamExhausted == next > StreamLength

AwaitRequest ==
  /\ mpc = "await"
  /\ IF StreamExhausted
       THEN mpc' = "stop" /\ next' = next
       ELSE mpc' = "start" /\ next' = next + 1
  /\ UNCHANGED <<error, futVars, sharedVars, workVars>>

(* coll.insertOne or coll.countDocuments: returns a future and puts the    *)
(* operation under way.  The start itself is assumed to succeed: the code  *)
(* does not look at `error' here.                                          *)
StartOperation ==
  /\ mpc = "start"
  /\ fut' = [fut EXCEPT ![cur] = "running"]
  /\ error' = "ok"
  /\ mpc' = "push"
  /\ UNCHANGED <<next, outcome, result, docs, sharedVars, workVars>>

PushInFlight ==
  /\ mpc = "push"
  /\ inflight' = inflight \cup {cur}
  /\ mpc' = "notify"
  /\ UNCHANGED <<next, error, futVars, shutdown_requested, workVars>>

MutantNotifyOne == wpc' = wpc

(* cv.notify_one: wakes the worker if it waits, and is lost otherwise.  A  *)
(* woken worker evaluates the predicate again under the mutex, which is    *)
(* what it does at "top".                                                  *)
NotifyOne == wpc' = IF wpc = "waiting" THEN "top" ELSE wpc

NotifyWork ==
  /\ mpc = "notify"
  /\ NotifyOne
  /\ mpc' = "await"
  /\ UNCHANGED <<next, error, futVars, sharedVars, pending, completed, err,
                 reported>>

RequestShutdown ==
  /\ mpc = "stop"
  /\ shutdown_requested' = TRUE
  /\ mpc' = "stopNotify"
  /\ UNCHANGED <<next, error, futVars, inflight, workVars>>

NotifyShutdown ==
  /\ mpc = "stopNotify"
  /\ NotifyOne
  /\ mpc' = "join"
  /\ UNCHANGED <<next, error, futVars, sharedVars, pending, completed, err,
                 reported>>

JoinWorker ==
  /\ mpc = "join"
  /\ wpc = "exited"
  /\ mpc' = "shutdown"
  /\ UNCHANGED <<next, error, futVars, sharedVars, workVars>>

(* client.shutdown(error): a failure is printed, and then every handle is  *)
(* destroyed at scope exit.                                                *)
ShutdownClient ==
  /\ mpc = "shutdown"
  /\ error' \in Answers
  /\ mpc' = "done"
  /\ UNCHANGED <<next, futVars, sharedVars, workVars>>

-----------------------------------------------------------------------------
(* The worker thread.                                                      *)

MutantWorkArrived == inflight # {}

\* The predicate given to cv.wait_for.
WorkArrived == inflight # {} \/ shutdown_requested

MutantLeaveOrCopy ==
  IF shutdown_requested
    THEN wpc' = "exited" /\ pending' = pending
    ELSE wpc' = "drive" /\ pending' = pending \cup inflight

(* What the worker does with the mutex held once wait_for has returned:    *)
(* leave when there is nothing left to wait for, or copy the handles.      *)
LeaveOrCopy ==
  IF inflight = {} /\ shutdown_requested
    THEN wpc' = "exited" /\ pending' = pending
    ELSE wpc' = "drive" /\ pending' = pending \cup inflight

WaitForWork ==
  /\ wpc = "top"
  /\ IF WorkArrived
       THEN LeaveOrCopy
       ELSE wpc' = "waiting" /\ pending' = pending
  /\ UNCHANGED <<mainVars, futVars, sharedVars, completed, err, reported>>

\* The 10 ms of cv.wait_for are over: it returns whatever the predicate says.
WaitTimeout ==
  /\ wpc = "waiting"
  /\ LeaveOrCopy
  /\ UNCHANGED <<mainVars, futVars, sharedVars, completed, err, reported>>

\* A condition variable may wake its waiter for no reason.
SpuriousWakeup ==
  /\ wpc = "waiting"
  /\ wpc' = "top"
  /\ UNCHANGED <<mainVars, futVars, sharedVars, pending, completed, err,
                 reported>>

\* blockOnAnyWithTimeout returns because one of the futures has resolved.
BlockOnAnyReady ==
  /\ wpc = "drive"
  /\ \E r \in pending : fut[r] = "ready"
  /\ err' = "ok"
  /\ wpc' = "harvest"
  /\ UNCHANGED <<mainVars, futVars, sharedVars, pending, completed, reported>>

MutantBlockOnAnyTimeout ==
  /\ FALSE
  /\ UNCHANGED vars

\* ... or because its 10 ms are over; the error is then set to a timeout.
BlockOnAnyTimeout ==
  /\ wpc = "drive"
  /\ pending # {}
  /\ err' = "timeout"
  /\ wpc' = "harvest"
  /\ UNCHANGED <<mainVars, futVars, sharedVars, pending, completed, reported>>

MakeProgress ==
  /\ wpc = "drive"
  /\ pending = {}
  /\ wpc' = "harvest"
  /\ UNCHANGED <<mainVars, futVars, sharedVars, pending, completed, err,
                 reported>>

MutantMoveCompletedClear ==
  /\ wpc = "harvest"
  /\ completed' = {r \in inflight : fut[r] = "ready"}
  /\ inflight' = {}
  /\ wpc' = "handle"
  /\ UNCHANGED <<mainVars, futVars, shutdown_requested, pending, err,
                 reported>>

(* Under the mutex: every ready future, whether it was in `pending' or     *)
(* arrived since, is moved to `completed' and erased from `inflight'.      *)
MoveCompleted ==
  /\ wpc = "harvest"
  /\ completed' = {r \in inflight : fut[r] = "ready"}
  /\ inflight' = {r \in inflight : fut[r] # "ready"}
  /\ wpc' = "handle"
  /\ UNCHANGED <<mainVars, futVars, shutdown_requested, pending, err,
                 reported>>

MutantHandleResult(r) ==
  /\ wpc = "handle"
  /\ r \in completed
  /\ reported[r] = "none"
  /\ \A q \in completed : q < r => reported[q] # "none"
  /\ err' = outcome[r]
  /\ reported' = [reported EXCEPT ![r] = IF err = "ok" THEN "ok" ELSE "error"]
  /\ UNCHANGED <<mainVars, futVars, sharedVars, wpc, pending, completed>>

(* handle_result for the next element of `completed'.  getVoid and         *)
(* getInt32 overwrite err, which may still hold the timeout of the last    *)
(* blockOnAnyWithTimeout, and the answer printed is read back from err.    *)
HandleResult(r) ==
  /\ wpc = "handle"
  /\ r \in completed
  /\ reported[r] = "none"
  /\ \A q \in completed : q < r => reported[q] # "none"
  /\ err' = outcome[r]
  /\ reported' = [reported EXCEPT ![r] = IF err' = "ok" THEN "ok" ELSE "error"]
  /\ UNCHANGED <<mainVars, futVars, sharedVars, wpc, pending, completed>>

MutantEndIteration ==
  /\ wpc = "handle"
  /\ \A r \in completed : reported[r] # "none"
  /\ fut' = [r \in Requests |-> IF r \in completed THEN "destroyed" ELSE fut[r]]
  /\ completed' = {}
  /\ wpc' = "top"
  /\ UNCHANGED <<mainVars, outcome, result, docs, sharedVars, pending, err,
                 reported>>

\* The end of the loop body: `completed' and `pending' go out of scope.
EndIteration ==
  /\ wpc = "handle"
  /\ \A r \in completed : reported[r] # "none"
  /\ fut' = [r \in Requests |-> IF r \in completed THEN "destroyed" ELSE fut[r]]
  /\ completed' = {}
  /\ pending' = {}
  /\ wpc' = "top"
  /\ UNCHANGED <<mainVars, outcome, result, docs, sharedVars, err, reported>>

-----------------------------------------------------------------------------
(* The driver's runtime and the server (external).  An operation advances  *)
(* only while some thread drives the runtime; once the worker exists only  *)
(* the worker does.  Every operation under way may advance, handed over or *)
(* not.  A failed insert may or may not have taken effect.                 *)
Resolve(r) ==
  /\ wpc = "drive"
  /\ fut[r] = "running"
  /\ fut' = [fut EXCEPT ![r] = "ready"]
  /\ \E a \in Answers :
       /\ outcome' = [outcome EXCEPT ![r] = a]
       /\ IF Op(r) = "Insert"
            THEN /\ docs' \in {docs + 1} \cup (IF a = "error" THEN {docs} ELSE {})
                 /\ result' = result
            ELSE /\ docs' = docs
                 /\ result' = IF a = "ok" THEN [result EXCEPT ![r] = docs]
                                          ELSE result
  /\ UNCHANGED <<mainVars, sharedVars, workVars>>

\* The process has exited: nothing happens any more.
Terminated ==
  /\ mpc \in {"done", "failed"}
  /\ UNCHANGED vars

Main ==
  \/ CreateClient \/ DropCollection \/ AwaitRequest \/ StartOperation
  \/ PushInFlight \/ NotifyWork \/ RequestShutdown \/ NotifyShutdown
  \/ JoinWorker \/ ShutdownClient

Worker ==
  \/ WaitForWork \/ WaitTimeout \/ SpuriousWakeup \/ BlockOnAnyReady
  \/ BlockOnAnyTimeout \/ MakeProgress \/ MoveCompleted
  \/ (\E r \in Requests : HandleResult(r)) \/ EndIteration

Next == Main \/ Worker \/ (\E r \in Requests : Resolve(r)) \/ Terminated

Spec == Init /\ [][Next]_vars

-----------------------------------------------------------------------------
(* Safety.                                                                 *)

\* Type correctness of the threads' locals, the shared vector and the futures.
TypeOK ==
  /\ mpc \in MainPCs
  /\ next \in 1..(StreamLength + 1)
  /\ error \in Answers
  /\ fut \in [Requests -> FutStates]
  /\ outcome \in [Requests -> Answers \cup {"none"}]
  /\ result \in [Requests -> Nat]
  /\ docs \in Nat
  /\ inflight \subseteq Requests
  /\ shutdown_requested \in BOOLEAN
  /\ wpc \in WorkerPCs
  /\ pending \subseteq Requests
  /\ completed \subseteq Requests
  /\ err \in Answers \cup {"timeout"}
  /\ reported \in [Requests -> Answers \cup {"none"}]

\* Where a request can be: not started, in main's hands, or past the worker.
Started(r) == r < next /\ ~(mpc = "start" /\ r = cur)
InHand(r)  == mpc = "push" /\ r = cur
Done(r)    == reported[r] # "none" /\ r \notin completed

(* No request is lost on its way from coll.insertOne / countDocuments to   *)
(* handle_result: whatever the two threads do around the mutex, one that   *)
(* was started is in main's hands, in the shared vector, in the worker's   *)
(* batch or reported.                                                      *)
NothingLost ==
  \A r \in Requests : Started(r) =>
    InHand(r) \/ r \in inflight \/ r \in completed \/ Done(r)

(* And none is in two places: move-and-erase never leaves a copy behind,   *)
(* so no future is owned, reported or destroyed twice.                     *)
NothingTwice ==
  \A r \in Requests :
    /\ InHand(r) => r \notin inflight \cup completed
    /\ r \in inflight => r \notin completed
    /\ InHand(r) \/ r \in inflight => reported[r] = "none"

(* The raw handles the worker passes to blockOnAnyWithTimeout without      *)
(* holding the mutex belong to futures that are still alive and in the     *)
(* vector, however many elements main pushes meanwhile.                    *)
HandlesAlive ==
  wpc = "drive" =>
    \A r \in pending : r \in inflight /\ fut[r] \in {"running", "ready"}

(* The worker sleeps in cv.wait_for although there is work, or a shutdown  *)
(* to see, only while a notify_one that will wake it is still to come.     *)
NoLostWakeup ==
  wpc = "waiting" /\ WorkArrived => mpc \in {"notify", "stopNotify"}

(* When main shuts the client down and destroys its handles, the worker is *)
(* gone, every request of the script was reported and its future freed: no *)
(* operation is under way on the client being destroyed.                   *)
DrainedBeforeShutdown ==
  mpc \in {"shutdown", "done"} =>
    /\ wpc = "exited"
    /\ \A r \in Requests : fut[r] = "destroyed" /\ reported[r] # "none"

-----------------------------------------------------------------------------
(* Refinement: the two threads implement RequestService.  A request is     *)
(* accepted when its operation is started, the service closes when         *)
(* shutdown_requested is set and is closed when the worker has been joined. *)

ServicePhase ==
  IF mpc = "failed" THEN "failed"
  ELSE IF mpc \in {"shutdown", "done"} THEN "closed"
  ELSE IF shutdown_requested THEN "closing"
  ELSE "open"

ServiceAccepted == {r \in Requests : fut[r] # "none"}

Service == INSTANCE RequestService WITH
             phase <- ServicePhase, accepted <- ServiceAccepted

(* Every answer of the database is printed once, as it was given, even if  *)
(* err still held a timeout; and join returns only when all are printed.   *)
ImplementsService == Service!Spec

-----------------------------------------------------------------------------
(* Fairness.  Both threads are scheduled, and blockOnAnyWithTimeout comes  *)
(* back after its timeout.  The 10 ms timeout of cv.wait_for and spurious  *)
(* wakeups are left out on purpose: the notifications alone have to keep   *)
(* the worker going.                                                       *)
WorkerSteps ==
  \/ WaitForWork \/ BlockOnAnyReady \/ BlockOnAnyTimeout \/ MakeProgress
  \/ MoveCompleted \/ (\E r \in Requests : HandleResult(r)) \/ EndIteration

FairSpec ==
  /\ Spec
  /\ WF_vars(Main)
  /\ WF_vars(WorkerSteps)

(* Under FairSpec, every answer that arrives is reported even if other     *)
(* operations are never answered (the 10 ms timeout of                     *)
(* blockOnAnyWithTimeout keeps a slow one from starving the others), and   *)
(* the service finishes once everything is reported.                       *)
ImplementsFairService == Service!FairSpec

(* If every operation is answered when the runtime is driven often enough  *)
(* (driving comes and goes, hence strong fairness) the program ends: main  *)
(* leaves its loop, the worker sees the shutdown after it drained, join    *)
(* returns.                                                                *)
Termination ==
  (\A r \in Requests : SF_vars(Resolve(r))) => <>(mpc \in {"done", "failed"})
=============================================================================

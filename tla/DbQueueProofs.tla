---------------------------- MODULE DbQueueProofs ----------------------------
(***************************************************************************)
(* Proofs about DbQueue for a script of any length: the safety properties  *)
(* the runs check on short scripts, and the refinement of RequestService.  *)
(***************************************************************************)
EXTENDS DbQueue, TLAPS

-----------------------------------------------------------------------------
(* The inductive invariant.  NothingLost, HandlesAlive and the rest are    *)
(* not inductive by themselves: they need to know how the two program      *)
(* counters constrain each other (Control), what each place says of the    *)
(* state of a future (Futures), and that what is printed is what the       *)
(* future held (Reports).                                                  *)

Control ==
  /\ mpc \in {"create", "drop", "failed"} <=> wpc = "unborn"
  /\ mpc \in {"create", "drop", "failed"} => next = 1
  /\ mpc \in {"start", "push", "notify"} => next > 1
  /\ mpc \in {"stop", "stopNotify", "join", "shutdown", "done"}
       => next = StreamLength + 1
  /\ shutdown_requested <=> mpc \in {"stopNotify", "join", "shutdown", "done"}
  /\ mpc \in {"shutdown", "done"} => wpc = "exited"
  /\ wpc = "exited" => shutdown_requested /\ inflight = {}
  /\ wpc # "handle" => completed = {}
  /\ wpc \in {"unborn", "top", "waiting"} => pending = {}
  /\ wpc = "drive" => pending \subseteq inflight

Futures ==
  \A r \in Requests :
    /\ fut[r] = "none" <=> ~Started(r)
    /\ InHand(r) \/ r \in inflight => fut[r] \in {"running", "ready"}
    /\ r \in completed => fut[r] = "ready"
    /\ Done(r) <=> fut[r] = "destroyed"

Reports ==
  \A r \in Requests :
    /\ outcome[r] = "none" <=> fut[r] \in {"none", "running"}
    /\ reported[r] \in {"none", outcome[r]}

IInv ==
  /\ TypeOK
  /\ Control
  /\ Futures
  /\ Reports
  /\ NothingLost
  /\ NothingTwice
  /\ NoLostWakeup

-----------------------------------------------------------------------------
LEMMA StreamType == StreamLength \in Nat
  BY StreamAssumption DEF StreamLength

LEMMA InitIInv == Init => IInv
  <1> SUFFICES ASSUME Init PROVE IInv
    OBVIOUS
  <1> USE StreamType DEF Init
  <1>1. TypeOK
    <2>1. docs \in Nat
      BY StreamAssumption
    <2>2. next \in 1..(StreamLength + 1)
      OBVIOUS
    <2>3. outcome \in [Requests -> Answers \cup {"none"}]
      OBVIOUS
    <2>4. fut \in [Requests -> FutStates]
      BY DEF FutStates
    <2> QED
      BY <2>1, <2>2, <2>3, <2>4 DEF TypeOK, MainPCs, WorkerPCs, Answers
  <1>2. Control
    BY DEF Control
  <1>3. Futures /\ Reports /\ NothingLost /\ NothingTwice
    BY DEF Futures, Reports, NothingLost, NothingTwice, Started, InHand, Done,
           cur, Requests
  <1>4. NoLostWakeup
    BY DEF NoLostWakeup
  <1> QED
    BY <1>1, <1>2, <1>3, <1>4 DEF IInv

-----------------------------------------------------------------------------
(* A step that neither moves a request nor takes main into or out of the   *)
(* window between await_request and push_back keeps all that is said of    *)
(* individual requests.                                                    *)
LEMMA RequestsUntouched ==
  ASSUME Futures, Reports, NothingLost, NothingTwice,
         UNCHANGED <<next, fut, outcome, inflight, completed, reported>>,
         mpc' = mpc \/ {mpc, mpc'} \cap {"start", "push"} = {}
  PROVE  Futures' /\ Reports' /\ NothingLost' /\ NothingTwice'
  BY DEF Futures, Reports, NothingLost, NothingTwice, Started, InHand, Done, cur

(* Every step of the main thread preserves the invariant. *)
LEMMA MainStep == IInv /\ Main => IInv'
  <1> SUFFICES ASSUME IInv, Main PROVE IInv'
    OBVIOUS
  <1> USE StreamType DEF IInv, mainVars, futVars, sharedVars, workVars
  <1>1. CASE CreateClient
    <2> USE <1>1 DEF CreateClient
    <2>1. TypeOK'
      BY DEF TypeOK, MainPCs
    <2>2. Control'
      BY DEF Control
    <2>3. NoLostWakeup'
      BY DEF NoLostWakeup, WorkArrived
    <2>4. Futures' /\ Reports' /\ NothingLost' /\ NothingTwice'
      BY RequestsUntouched
    <2> QED
      BY <2>1, <2>2, <2>3, <2>4 DEF IInv
  <1>2. CASE DropCollection
    <2> USE <1>2 DEF DropCollection
    <2>1. TypeOK'
      BY DEF TypeOK, MainPCs, WorkerPCs
    <2>2. Control'
      BY DEF Control
    <2>3. NoLostWakeup'
      BY DEF NoLostWakeup, WorkArrived
    <2>4. Futures' /\ Reports' /\ NothingLost' /\ NothingTwice'
      BY RequestsUntouched
    <2> QED
      BY <2>1, <2>2, <2>3, <2>4 DEF IInv
  <1>3. CASE AwaitRequest
    <2> USE <1>3 DEF AwaitRequest, StreamExhausted
    <2>1. TypeOK'
      BY DEF TypeOK, MainPCs
    <2>2. Control'
      BY DEF Control, TypeOK
    <2>3. NoLostWakeup'
      BY DEF NoLostWakeup, WorkArrived
    <2>4. Futures' /\ Reports' /\ NothingLost' /\ NothingTwice'
      BY DEF Futures, Reports, NothingLost, NothingTwice, Control, TypeOK,
           Started, InHand, Done, cur, Requests
    <2> QED
      BY <2>1, <2>2, <2>3, <2>4 DEF IInv
  <1>4. CASE StartOperation
    <2> USE <1>4 DEF StartOperation
    <2>1. TypeOK'
      BY DEF TypeOK, MainPCs, FutStates, Answers
    <2>2. Control'
      BY DEF Control
    <2>3. NoLostWakeup'
      BY DEF NoLostWakeup, WorkArrived
    <2>4. Futures'
      BY DEF Futures, TypeOK, Started, InHand, Done, cur
    <2>5. Reports'
      BY DEF Reports, Futures, Started
    <2>6. NothingLost' /\ NothingTwice'
      BY DEF NothingLost, NothingTwice, Futures, Started, InHand, Done, cur
    <2> QED
      BY <2>1, <2>2, <2>3, <2>4, <2>5, <2>6 DEF IInv
  <1>5. CASE PushInFlight
    <2> USE <1>5 DEF PushInFlight
    <2>1. TypeOK'
      BY DEF TypeOK, MainPCs, Control, cur, Requests
    <2>2. Control'
      BY DEF Control
    <2>3. NoLostWakeup'
      BY DEF NoLostWakeup
    <2>4. Futures'
      BY DEF Futures, Started, InHand, Done, cur
    <2>5. Reports'
      BY DEF Reports
    <2>6. NothingLost' /\ NothingTwice'
      BY DEF NothingLost, NothingTwice, Started, InHand, Done, cur
    <2> QED
      BY <2>1, <2>2, <2>3, <2>4, <2>5, <2>6 DEF IInv
  <1>6. CASE NotifyWork
    <2> USE <1>6 DEF NotifyWork, NotifyOne
    <2>1. TypeOK'
      BY DEF TypeOK, MainPCs, WorkerPCs
    <2>2. Control'
      BY DEF Control
    <2>3. NoLostWakeup'
      BY DEF NoLostWakeup
    <2>4. Futures' /\ Reports' /\ NothingLost' /\ NothingTwice'
      BY RequestsUntouched
    <2> QED
      BY <2>1, <2>2, <2>3, <2>4 DEF IInv
  <1>7. CASE RequestShutdown
    <2> USE <1>7 DEF RequestShutdown
    <2>1. TypeOK'
      BY DEF TypeOK, MainPCs
    <2>2. Control'
      BY DEF Control
    <2>3. NoLostWakeup'
      BY DEF NoLostWakeup
    <2>4. Futures' /\ Reports' /\ NothingLost' /\ NothingTwice'
      BY RequestsUntouched
    <2> QED
      BY <2>1, <2>2, <2>3, <2>4 DEF IInv
  <1>8. CASE NotifyShutdown
    <2> USE <1>8 DEF NotifyShutdown, NotifyOne
    <2>1. TypeOK'
      BY DEF TypeOK, MainPCs, WorkerPCs
    <2>2. Control'
      BY DEF Control
    <2>3. NoLostWakeup'
      BY DEF NoLostWakeup
    <2>4. Futures' /\ Reports' /\ NothingLost' /\ NothingTwice'
      BY RequestsUntouched
    <2> QED
      BY <2>1, <2>2, <2>3, <2>4 DEF IInv
  <1>9. CASE JoinWorker
    <2> USE <1>9 DEF JoinWorker
    <2>1. TypeOK'
      BY DEF TypeOK, MainPCs
    <2>2. Control'
      BY DEF Control
    <2>3. NoLostWakeup'
      BY DEF NoLostWakeup, WorkArrived, Control
    <2>4. Futures' /\ Reports' /\ NothingLost' /\ NothingTwice'
      BY RequestsUntouched
    <2> QED
      BY <2>1, <2>2, <2>3, <2>4 DEF IInv
  <1>10. CASE ShutdownClient
    <2> USE <1>10 DEF ShutdownClient
    <2>1. TypeOK'
      BY DEF TypeOK, MainPCs
    <2>2. Control'
      BY DEF Control
    <2>3. NoLostWakeup'
      BY DEF NoLostWakeup, WorkArrived
    <2>4. Futures' /\ Reports' /\ NothingLost' /\ NothingTwice'
      BY RequestsUntouched
    <2> QED
      BY <2>1, <2>2, <2>3, <2>4 DEF IInv
  <1> QED
    BY <1>1, <1>2, <1>3, <1>4, <1>5, <1>6, <1>7, <1>8, <1>9, <1>10 DEF Main

(* And so does every step of the worker thread. *)
LEMMA WorkerStep == IInv /\ Worker => IInv'
  <1> SUFFICES ASSUME IInv, Worker PROVE IInv'
    OBVIOUS
  <1> USE StreamType DEF IInv, mainVars, futVars, sharedVars, workVars
  <1>1. CASE WaitForWork
    <2> USE <1>1 DEF WaitForWork, WorkArrived, LeaveOrCopy
    <2>1. TypeOK'
      BY DEF TypeOK, WorkerPCs
    <2>2. Control'
      BY DEF Control
    <2>3. NoLostWakeup'
      BY DEF NoLostWakeup, WorkArrived
    <2>4. Futures' /\ Reports' /\ NothingLost' /\ NothingTwice'
      BY RequestsUntouched
    <2> QED
      BY <2>1, <2>2, <2>3, <2>4 DEF IInv
  <1>2. CASE WaitTimeout
    <2> USE <1>2 DEF WaitTimeout, LeaveOrCopy
    <2>1. TypeOK'
      BY DEF TypeOK, WorkerPCs
    <2>2. Control'
      BY DEF Control
    <2>3. NoLostWakeup'
      BY DEF NoLostWakeup
    <2>4. Futures' /\ Reports' /\ NothingLost' /\ NothingTwice'
      BY RequestsUntouched
    <2> QED
      BY <2>1, <2>2, <2>3, <2>4 DEF IInv
  <1>3. CASE SpuriousWakeup
    <2> USE <1>3 DEF SpuriousWakeup
    <2>1. TypeOK'
      BY DEF TypeOK, WorkerPCs
    <2>2. Control'
      BY DEF Control
    <2>3. NoLostWakeup'
      BY DEF NoLostWakeup
    <2>4. Futures' /\ Reports' /\ NothingLost' /\ NothingTwice'
      BY RequestsUntouched
    <2> QED
      BY <2>1, <2>2, <2>3, <2>4 DEF IInv
  <1>4. CASE BlockOnAnyReady
    <2> USE <1>4 DEF BlockOnAnyReady
    <2>1. TypeOK'
      BY DEF TypeOK, WorkerPCs, Answers
    <2>2. Control'
      BY DEF Control
    <2>3. NoLostWakeup'
      BY DEF NoLostWakeup
    <2>4. Futures' /\ Reports' /\ NothingLost' /\ NothingTwice'
      BY RequestsUntouched
    <2> QED
      BY <2>1, <2>2, <2>3, <2>4 DEF IInv
  <1>5. CASE BlockOnAnyTimeout
    <2> USE <1>5 DEF BlockOnAnyTimeout
    <2>1. TypeOK'
      BY DEF TypeOK, WorkerPCs
    <2>2. Control'
      BY DEF Control
    <2>3. NoLostWakeup'
      BY DEF NoLostWakeup
    <2>4. Futures' /\ Reports' /\ NothingLost' /\ NothingTwice'
      BY RequestsUntouched
    <2> QED
      BY <2>1, <2>2, <2>3, <2>4 DEF IInv
  <1>6. CASE MakeProgress
    <2> USE <1>6 DEF MakeProgress
    <2>1. TypeOK'
      BY DEF TypeOK, WorkerPCs
    <2>2. Control'
      BY DEF Control
    <2>3. NoLostWakeup'
      BY DEF NoLostWakeup
    <2>4. Futures' /\ Reports' /\ NothingLost' /\ NothingTwice'
      BY RequestsUntouched
    <2> QED
      BY <2>1, <2>2, <2>3, <2>4 DEF IInv
  <1>7. CASE MoveCompleted
    <2> USE <1>7 DEF MoveCompleted
    <2>1. TypeOK'
      BY DEF TypeOK, WorkerPCs
    <2>2. Control'
      BY DEF Control
    <2>3. NoLostWakeup'
      BY DEF NoLostWakeup
    <2>4. Futures'
      BY DEF Futures, NothingTwice, Control, Started, InHand, Done, cur
    <2>5. Reports'
      BY DEF Reports
    <2>6. NothingLost' /\ NothingTwice'
      BY DEF NothingLost, NothingTwice, Control, TypeOK, Futures, Started, InHand, Done, cur
    <2> QED
      BY <2>1, <2>2, <2>3, <2>4, <2>5, <2>6 DEF IInv
  <1>8. ASSUME NEW r \in Requests, HandleResult(r) PROVE IInv'
    <2> USE <1>8 DEF HandleResult
    <2>1. TypeOK'
      BY DEF TypeOK, Answers, Futures, Reports
    <2>2. Control'
      BY DEF Control
    <2>3. NoLostWakeup'
      BY DEF NoLostWakeup
    <2>4. Futures'
      BY DEF Futures, TypeOK, Started, InHand, Done, cur
    <2>5. Reports'
      BY DEF Reports, Futures, TypeOK, Answers
    <2>6. NothingLost' /\ NothingTwice'
      BY DEF NothingLost, NothingTwice, Futures, TypeOK, Started, InHand, Done, cur
    <2> QED
      BY <2>1, <2>2, <2>3, <2>4, <2>5, <2>6 DEF IInv
  <1>9. CASE EndIteration
    <2> USE <1>9 DEF EndIteration
    <2>1. TypeOK'
      BY DEF TypeOK, WorkerPCs, FutStates
    <2>2. Control'
      BY DEF Control
    <2>3. NoLostWakeup'
      BY DEF NoLostWakeup
    <2>4. Futures'
      BY DEF Futures, NothingTwice, TypeOK, Started, InHand, Done, cur
    <2>5. Reports'
      BY DEF Reports, Futures, TypeOK
    <2>6. NothingLost' /\ NothingTwice'
      BY DEF NothingLost, NothingTwice, Futures, TypeOK, Started, InHand, Done, cur
    <2> QED
      BY <2>1, <2>2, <2>3, <2>4, <2>5, <2>6 DEF IInv
  <1> QED
    BY <1>1, <1>2, <1>3, <1>4, <1>5, <1>6, <1>7, <1>8, <1>9 DEF Worker

(* The runtime may resolve any started future, wherever it is. *)
LEMMA ResolveStep == ASSUME NEW r \in Requests, IInv, Resolve(r) PROVE IInv'
  <1> USE DEF IInv, Resolve, mainVars, futVars, sharedVars, workVars
  <1>1. TypeOK'
    <2>1. fut' \in [Requests -> FutStates]
      BY DEF TypeOK, FutStates
    <2>2. outcome' \in [Requests -> Answers \cup {"none"}]
      BY DEF TypeOK
    <2>3. docs' \in Nat /\ result' \in [Requests -> Nat]
      BY DEF TypeOK
    <2> QED
      BY <2>1, <2>2, <2>3 DEF TypeOK
  <1>2. Control' /\ NoLostWakeup'
    BY DEF Control, NoLostWakeup
  <1>3. Futures'
    BY DEF Futures, TypeOK, Started, InHand, Done, cur
  <1>4. Reports'
    BY DEF Reports, Futures, TypeOK, Answers
  <1>5. NothingLost' /\ NothingTwice'
    BY DEF NothingLost, NothingTwice, Started, InHand, Done, cur
  <1> QED
    BY <1>1, <1>2, <1>3, <1>4, <1>5

LEMMA IInvStep == IInv /\ [Next]_vars => IInv'
  <1> SUFFICES ASSUME IInv, [Next]_vars PROVE IInv'
    OBVIOUS
  <1>1. CASE Main
    BY <1>1, MainStep
  <1>2. CASE Worker
    BY <1>2, WorkerStep
  <1>3. ASSUME NEW r \in Requests, Resolve(r) PROVE IInv'
    BY <1>3, ResolveStep
  <1>4. CASE UNCHANGED vars
    <2> USE <1>4 DEF IInv, vars, mainVars, futVars, sharedVars, workVars
    <2>1. TypeOK' /\ Control' /\ NoLostWakeup'
      BY DEF TypeOK, Control, NoLostWakeup, WorkArrived
    <2> QED
      BY <2>1, RequestsUntouched
  <1> QED
    BY <1>1, <1>2, <1>3, <1>4 DEF Next, Terminated

-----------------------------------------------------------------------------
(* The inductive invariant holds throughout every behaviour. *)
THEOREM Invariance == Spec => []IInv
  BY InitIInv, IInvStep, PTL DEF Spec

(* The variables of the two threads, of the shared vector and of the       *)
(* futures keep their types.                                               *)
THEOREM TypeCorrect == Spec => []TypeOK
  <1>1. IInv => TypeOK
    BY DEF IInv
  <1> QED
    BY <1>1, Invariance, PTL

(* No request is lost between starting its operation and reporting it, and *)
(* none is in two places, for a script of any length.                      *)
THEOREM Conservation == Spec => [](NothingLost /\ NothingTwice)
  <1>1. IInv => NothingLost /\ NothingTwice
    BY DEF IInv
  <1> QED
    BY <1>1, Invariance, PTL

(* The handles the worker drives outside the mutex are alive. *)
THEOREM DriveIsSafe == Spec => []HandlesAlive
  <1>1. IInv => HandlesAlive
    BY DEF IInv, HandlesAlive, Control, Futures, TypeOK
  <1> QED
    BY <1>1, Invariance, PTL

(* No notification is lost: the worker sleeps on work only while the       *)
(* notify_one for it is still to come.                                     *)
THEOREM WakeupsArrive == Spec => []NoLostWakeup
  <1>1. IInv => NoLostWakeup
    BY DEF IInv
  <1> QED
    BY <1>1, Invariance, PTL

(* The client is shut down and destroyed only after every request was      *)
(* reported and its future destroyed.                                      *)
LEMMA DrainedFromInvariant == IInv => DrainedBeforeShutdown
  <1> SUFFICES ASSUME IInv, mpc \in {"shutdown", "done"}
               PROVE  /\ wpc = "exited"
                      /\ \A r \in Requests :
                           fut[r] = "destroyed" /\ reported[r] # "none"
    BY DEF DrainedBeforeShutdown
  <1>1. wpc = "exited" /\ inflight = {} /\ completed = {}
    BY DEF IInv, Control
  <1>2. ASSUME NEW r \in Requests
        PROVE  fut[r] = "destroyed" /\ reported[r] # "none"
    <2>1. Started(r) /\ ~InHand(r)
      BY StreamType DEF IInv, Control, Started, InHand, Requests, TypeOK
    <2>2. Done(r)
      BY <1>1, <2>1 DEF IInv, NothingLost
    <2> QED
      BY <2>2 DEF IInv, Futures, Done
  <1> QED
    BY <1>1, <1>2

THEOREM CleanShutdown == Spec => []DrainedBeforeShutdown
  BY DrainedFromInvariant, Invariance, PTL

-----------------------------------------------------------------------------
(* Refinement.  A step that changes neither ServicePhase, the started      *)
(* requests, an answer nor a report is a stuttering step of the service.   *)
LEMMA ServiceStutter ==
  ASSUME UNCHANGED <<fut, outcome, reported, shutdown_requested>>,
         mpc' = mpc \/ {mpc, mpc'} \cap {"failed", "shutdown", "done"} = {}
  PROVE  UNCHANGED Service!vars
  BY DEF Service!vars, ServicePhase, ServiceAccepted

LEMMA ServiceInit == Init => Service!Init
  BY DEF Init, Service!Init, ServicePhase, ServiceAccepted

LEMMA ServiceMain == IInv /\ Main => Service!Next \/ UNCHANGED Service!vars
  <1> SUFFICES ASSUME IInv, Main
               PROVE  Service!Next \/ UNCHANGED Service!vars
    OBVIOUS
  <1> USE DEF mainVars, futVars, sharedVars, workVars
  <1>1. CASE CreateClient
    <2>1. CASE mpc' = "failed"
      <3>1. ServiceAccepted = {}
        BY <1>1 DEF CreateClient, IInv, Control, Futures, TypeOK, Started,
                    ServiceAccepted, Requests
      <3>2. Service!Fail
        BY <1>1, <2>1, <3>1 DEF CreateClient, IInv, Control, Service!Fail,
                                ServicePhase, ServiceAccepted
      <3> QED
        BY <3>2 DEF Service!Next
    <2> QED
      BY <1>1, <2>1, ServiceStutter DEF CreateClient
  <1>2. CASE StartOperation
    <2>1. cur \in Requests /\ cur \notin ServiceAccepted
      BY <1>2, StreamType DEF StartOperation, IInv, Control, Futures, TypeOK,
                  Started, cur, Requests, ServiceAccepted
    <2>2. Service!Accept(cur)
      BY <1>2, <2>1 DEF StartOperation, IInv, Control, TypeOK, cur,
                        Service!Accept, ServicePhase, ServiceAccepted
    <2> QED
      BY <2>1, <2>2 DEF Service!Next
  <1>3. CASE RequestShutdown
    <2>1. Service!Close
      BY <1>3 DEF RequestShutdown, IInv, Control, Service!Close, ServicePhase,
                  ServiceAccepted
    <2> QED
      BY <2>1 DEF Service!Next
  <1>4. CASE JoinWorker
    <2>1. \A r \in ServiceAccepted : reported[r] # "none"
      BY <1>4 DEF JoinWorker, IInv, Control, Futures, NothingLost, InHand, Done,
                  ServiceAccepted
    <2>2. Service!Finish
      BY <1>4, <2>1 DEF JoinWorker, IInv, Control, Service!Finish, ServicePhase,
                        ServiceAccepted
    <2> QED
      BY <2>2 DEF Service!Next
  <1>5. CASE ShutdownClient
    BY <1>5 DEF ShutdownClient, Service!vars, ServicePhase, ServiceAccepted
  <1>6. CASE \/ DropCollection \/ AwaitRequest \/ PushInFlight \/ NotifyWork
             \/ NotifyShutdown
    BY <1>6, ServiceStutter
       DEF DropCollection, AwaitRequest, PushInFlight, NotifyWork,
           NotifyShutdown
  <1> QED
    BY <1>1, <1>2, <1>3, <1>4, <1>5, <1>6 DEF Main

LEMMA ServiceWorker ==
  IInv /\ Worker => Service!Next \/ UNCHANGED Service!vars
  <1> SUFFICES ASSUME IInv, Worker
               PROVE  Service!Next \/ UNCHANGED Service!vars
    OBVIOUS
  <1> USE DEF mainVars, futVars, sharedVars, workVars
  <1>1. ASSUME NEW r \in Requests, HandleResult(r) PROVE Service!Next
    <2>1. outcome[r] \in {"ok", "error"}
      BY <1>1 DEF HandleResult, IInv, Futures, Reports, TypeOK, Answers
    <2>2. Service!Report(r)
      BY <1>1, <2>1 DEF HandleResult, Service!Report, ServicePhase,
                        ServiceAccepted
    <2> QED
      BY <2>2 DEF Service!Next
  <1>2. CASE EndIteration
    <2>1. ServiceAccepted' = ServiceAccepted
      BY <1>2 DEF EndIteration, IInv, Futures, TypeOK, ServiceAccepted
    <2> QED
      BY <1>2, <2>1 DEF EndIteration, Service!vars, ServicePhase
  <1>3. CASE \/ WaitForWork \/ WaitTimeout \/ SpuriousWakeup
             \/ BlockOnAnyReady \/ BlockOnAnyTimeout \/ MakeProgress
             \/ MoveCompleted
    BY <1>3, ServiceStutter
       DEF WaitForWork, WaitTimeout, SpuriousWakeup, BlockOnAnyReady,
           BlockOnAnyTimeout, MakeProgress, MoveCompleted
  <1> QED
    BY <1>1, <1>2, <1>3 DEF Worker

LEMMA ServiceResolve ==
  ASSUME IInv, NEW r \in Requests, Resolve(r) PROVE Service!Next
  <1> USE DEF mainVars, futVars, sharedVars, workVars
  <1>1. r \in ServiceAccepted /\ outcome[r] = "none"
    BY DEF Resolve, IInv, Reports, ServiceAccepted
  <1>2. ServiceAccepted' = ServiceAccepted
    BY DEF Resolve, IInv, TypeOK, ServiceAccepted
  <1>3. Service!Execute(r)
    BY <1>1, <1>2 DEF Resolve, Service!Execute, Service!Answers, Answers,
                      ServicePhase
  <1> QED
    BY <1>3 DEF Service!Next

(* The two threads implement the request service: started requests are     *)
(* executed and reported once each with the database's own answer, and     *)
(* main goes past join only when every accepted request was reported.      *)
THEOREM Refinement == Spec => ImplementsService
  <1>1. IInv /\ [Next]_vars => [Service!Next]_(Service!vars)
    <2> SUFFICES ASSUME IInv, [Next]_vars
                 PROVE  Service!Next \/ UNCHANGED Service!vars
      OBVIOUS
    <2>1. CASE UNCHANGED vars
      BY <2>1, ServiceStutter
         DEF vars, mainVars, futVars, sharedVars, workVars
    <2> QED
      BY <2>1, ServiceMain, ServiceWorker, ServiceResolve DEF Next, Terminated
  <1> QED
    BY <1>1, ServiceInit, Invariance, PTL DEF Spec, ImplementsService,
                                              Service!Spec
=============================================================================

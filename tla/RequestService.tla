--------------------------- MODULE RequestService ---------------------------
(***************************************************************************)
(* What hello-mongoac/db-queue.cpp promises its caller, with no thread,    *)
(* lock, queue or timeout in sight.  A service accepts requests while it   *)
(* is open.  The database executes each accepted request at most once, in  *)
(* any order.  The service reports the true outcome of every executed      *)
(* request exactly once, and it finishes only when it has been closed and  *)
(* every request it accepted has been reported.                            *)
(***************************************************************************)
CONSTANT Requests       \* the requests that can ever arrive

VARIABLES
  phase,     \* "open", "closing" (shutdown asked for), "closed", "failed"
  accepted,  \* requests handed to the database
  outcome,   \* what the database answered, or "none"
  reported   \* what the service printed, or "none"

vars == <<phase, accepted, outcome, reported>>

Answers == {"ok", "error"}

Init ==
  /\ phase = "open"
  /\ accepted = {}
  /\ outcome = [r \in Requests |-> "none"]
  /\ reported = [r \in Requests |-> "none"]

\* The service could not be brought up: it never accepts anything.
Fail ==
  /\ phase = "open"
  /\ accepted = {}
  /\ phase' = "failed"
  /\ UNCHANGED <<accepted, outcome, reported>>

Accept(r) ==
  /\ phase = "open"
  /\ r \notin accepted
  /\ accepted' = accepted \cup {r}
  /\ UNCHANGED <<phase, outcome, reported>>

Execute(r) ==
  /\ r \in accepted
  /\ outcome[r] = "none"
  /\ \E a \in Answers : outcome' = [outcome EXCEPT ![r] = a]
  /\ UNCHANGED <<phase, accepted, reported>>

Report(r) ==
  /\ outcome[r] # "none"
  /\ reported[r] = "none"
  /\ reported' = [reported EXCEPT ![r] = outcome[r]]
  /\ UNCHANGED <<phase, accepted, outcome>>

Close ==
  /\ phase = "open"
  /\ phase' = "closing"
  /\ UNCHANGED <<accepted, outcome, reported>>

Finish ==
  /\ phase = "closing"
  /\ \A r \in accepted : reported[r] # "none"
  /\ phase' = "closed"
  /\ UNCHANGED <<accepted, outcome, reported>>

Next ==
  \/ Fail
  \/ \E r \in Requests : Accept(r) \/ Execute(r) \/ Report(r)
  \/ Close
  \/ Finish

Spec == Init /\ [][Next]_vars

(* The service itself never sits on an answer it has, and it finishes when *)
(* it may.  Nothing is promised about the database: a request may never be *)
(* executed.                                                               *)
FairSpec ==
  /\ Spec
  /\ \A r \in Requests : WF_vars(Report(r))
  /\ WF_vars(Finish)
=============================================================================

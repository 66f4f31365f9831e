---------------------------- MODULE DbQueueCounts ----------------------------
(***************************************************************************)
(* The counts that db-queue.cpp reports.  main's Error object is written   *)
(* again by the calls that follow the drop, so this module remembers,      *)
(* beside the program's state, whether the drop succeeded.                 *)
(***************************************************************************)
EXTENDS DbQueue, FiniteSets

VARIABLE dropped  \* history: what blockOn(coll.drop(error), error) left in error

countVars == <<vars, dropped>>

CountInit == Init /\ dropped = "none"

CountNext ==
  /\ Next
  /\ dropped' = IF mpc = "drop" THEN error' ELSE dropped

CountSpec == CountInit /\ [][CountNext]_countVars

-----------------------------------------------------------------------------
(* A comment in main promises: "Start from a clean collection so the       *)
(* reported counts are deterministic."  The number of inserts before a     *)
(* count in the script is the only candidate for a fixed answer.  It is    *)
(* stated for runs in which the drop succeeds and no insert fails.         *)
InsertsBefore(r) == Cardinality({q \in 1..(r - 1) : Op(q) = "Insert"})

CountsDeterministic ==
  /\ dropped = "ok"
  /\ \A r \in Requests : Op(r) = "Insert" => outcome[r] # "error"
  => \A r \in Requests :
       Op(r) = "Count" /\ reported[r] = "ok" => result[r] = InsertsBefore(r)
=============================================================================

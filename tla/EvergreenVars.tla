---------------------------- MODULE EvergreenVars ----------------------------
(***************************************************************************)
(* tools/replace-evergreen-vars/replace-evergreen-vars.py: reads the       *)
(* variables of an Evergreen project with a GET, looks up for each         *)
(* replacement the one variable that has the old value, and writes only    *)
(* the variables found with a PATCH.  Between the two requests anybody may *)
(* edit the project.                                                       *)
(*                                                                         *)
(* An operator whose name starts with Mutant is a broken variant of the    *)
(* definition that follows it; no specification uses it.                   *)
(***************************************************************************)
EXTENDS Integers, Sequences, FiniteSets

CONSTANTS
  Keys,      \* names of project variables
  Values,    \* values of project variables
  MaxRepls,  \* bound: entries in the replacements file
  MaxEdits   \* bound: edits by other users while the tool runs

ASSUME EvergreenAssumption ==
  IsFiniteSet(Keys) /\ MaxRepls \in Nat /\ MaxEdits \in Nat

Replacement == [old : Values, new : Values]

\* A dict of variables: a function from some of the keys to values.
Dicts == UNION {[S -> Values] : S \in SUBSET Keys}

\* A PATCH merges: it sets the variables it names and keeps the others.
Merge(d, e) ==
  [k \in DOMAIN d \cup DOMAIN e |-> IF k \in DOMAIN e THEN e[k] ELSE d[k]]

VARIABLES
  pc,        \* "get", "match", "patch", "done", "raised"
  project,   \* the variables kept by Evergreen
  repls,     \* replacements of the file
  dry_run,
  vars_old,  \* what the GET returned
  vars_new,  \* what the PATCH will set
  i,         \* the replacement being matched
  edits      \* what other users wrote since the GET

vars == <<pc, project, repls, dry_run, vars_old, vars_new, i, edits>>

Empty == [k \in {} |-> 0]

Init ==
  /\ pc = "get"
  /\ project \in Dicts
  /\ repls \in UNION {[1..n -> Replacement] : n \in 0..MaxRepls}
  /\ dry_run \in BOOLEAN
  /\ vars_old = Empty
  /\ vars_new = Empty
  /\ i = 1
  /\ edits = Empty

-----------------------------------------------------------------------------
ProjectGet ==
  /\ pc = "get"
  /\ \/ vars_old' = project /\ pc' = "match"
     \/ vars_old' = vars_old /\ pc' = "raised"   \* status is not 200
  /\ UNCHANGED <<project, repls, dry_run, vars_new, i, edits>>

MutantMatches(repl) ==
  {k \in DOMAIN vars_old : Merge(vars_old, vars_new)[k] = repl.old}

\* The keys that had the old value when the project was read.
Matches(repl) == {k \in DOMAIN vars_old : vars_old[k] = repl.old}

MutantAmbiguous(repl) == Matches(repl) = {}

\* The tool does not guess: anything but one match is an error.
Ambiguous(repl) == Cardinality(Matches(repl)) # 1

MatchNext ==
  /\ pc = "match"
  /\ i <= Len(repls)
  /\ IF Ambiguous(repls[i])
       THEN pc' = "raised" /\ UNCHANGED <<vars_new, i>>
       ELSE /\ LET key == CHOOSE k \in Matches(repls[i]) : TRUE
               IN  vars_new' = Merge(vars_new, [k \in {key} |-> repls[i].new])
            /\ i' = i + 1
            /\ pc' = pc
  /\ UNCHANGED <<project, repls, dry_run, vars_old, edits>>

MatchDone ==
  /\ pc = "match"
  /\ i > Len(repls)
  /\ pc' = IF dry_run THEN "done" ELSE "patch"
  /\ UNCHANGED <<project, repls, dry_run, vars_old, vars_new, i, edits>>

MutantPayload == Merge(vars_old, vars_new)

\* The variables the PATCH names.
Payload == vars_new

\* A PATCH that fails may have been applied before its answer was lost.
ProjectPatch ==
  /\ pc = "patch"
  /\ \/ project' = Merge(project, Payload) /\ pc' \in {"done", "raised"}
     \/ project' = project /\ pc' = "raised"
  /\ UNCHANGED <<repls, dry_run, vars_old, vars_new, i, edits>>

\* Another user sets a variable (external).
Edit ==
  /\ pc \in {"match", "patch"}
  /\ Cardinality(DOMAIN edits) < MaxEdits
  /\ \E k \in Keys \ DOMAIN edits, v \in Values :
       /\ project' = Merge(project, [x \in {k} |-> v])
       /\ edits' = Merge(edits, [x \in {k} |-> v])
  /\ UNCHANGED <<pc, repls, dry_run, vars_old, vars_new, i>>

Next == ProjectGet \/ MatchNext \/ MatchDone \/ ProjectPatch \/ Edit

Spec == Init /\ [][Next]_vars

-----------------------------------------------------------------------------
\* The new values the file gives for a variable, judged by its value at GET.
NewValues(k) ==
  {repls[n].new : n \in {m \in 1..Len(repls) :
                           k \in DOMAIN vars_old /\ repls[m].old = vars_old[k]}}

(* Success means every replacement of the file was carried out at once on  *)
(* the project as it was read: a variable that had a value to be replaced  *)
(* ends with a new value the file gives for it, even when one entry's new  *)
(* value is another's old value, and a variable nobody named is unchanged. *)
Replaced ==
  pc = "done" /\ ~dry_run =>
    \A k \in DOMAIN vars_old :
      IF NewValues(k) # {} THEN project[k] \in NewValues(k)
      ELSE k \notin DOMAIN edits => project[k] = vars_old[k]

(* What another user writes to a variable the file does not replace while  *)
(* the tool runs is still there after the PATCH.                           *)
EditsElsewhereSurvive ==
  \A k \in DOMAIN edits : NewValues(k) = {} => project[k] = edits[k]

(* The tool raises on an old value with no match or several before it      *)
(* writes anything: it never guesses and never applies part of the file.   *)
NoGuess ==
  [][project' # project /\ edits' = edits =>
       \A j \in 1..Len(repls) :
         Cardinality({k \in DOMAIN vars_old : vars_old[k] = repls[j].old}) = 1]_vars
=============================================================================

------------------------- MODULE EvergreenVarsProofs -------------------------
(***************************************************************************)
(* Proofs about module EvergreenVars, for any project, any replacements    *)
(* and any edits by other users.                                           *)
(***************************************************************************)
EXTENDS EvergreenVars, FiniteSetTheorems, TLAPS

\* The entries of the file that were matched so far, and those for variable k.
Matched == {n \in 1..Len(repls) : n < i}

For(k) == {n \in Matched : k \in DOMAIN vars_old /\ repls[n].old = vars_old[k]}

TypeOK ==
  /\ pc \in {"get", "match", "patch", "done", "raised"}
  /\ project \in Dicts /\ vars_old \in Dicts /\ vars_new \in Dicts /\ edits \in Dicts
  /\ repls \in Seq(Replacement)
  /\ i \in Nat \ {0}

\* Every entry that was matched had exactly one variable to replace.
Unambiguous == \A n \in Matched : Cardinality(Matches(repls[n])) = 1

\* What is to be written: the variables of the matched entries, and no other.
PayloadRight ==
  /\ \A k \in Keys : k \in DOMAIN vars_new <=> For(k) # {}
  /\ \A k \in DOMAIN vars_new : \E n \in For(k) : vars_new[k] = repls[n].new

\* The project is what was read with the edits made since, or that patched.
Before == project = Merge(vars_old, edits)
After  == project = Merge(Merge(vars_old, edits), vars_new)

ProjectRight ==
  /\ pc = "get" => vars_old = Empty /\ vars_new = Empty /\ edits = Empty /\ i = 1
  /\ pc \in {"match", "patch"} => Before
  /\ pc = "patch" => ~dry_run
  /\ pc \in {"patch", "done"} => i > Len(repls)
  /\ pc = "done" => IF dry_run THEN Before ELSE After
  /\ pc = "raised" => edits = Empty \/ Before \/ After

Inv == TypeOK /\ Unambiguous /\ PayloadRight /\ ProjectRight

-----------------------------------------------------------------------------
(* What merging dicts does.                                                *)

\* A dict is a function from some of the keys to values.
LEMMA DictIs ==
  ASSUME NEW d \in Dicts
  PROVE  /\ DOMAIN d \subseteq Keys
         /\ d = [k \in DOMAIN d |-> d[k]]
         /\ \A k \in DOMAIN d : d[k] \in Values
BY DEF Dicts

\* Merging dicts gives a dict.
LEMMA MergeType ==
  ASSUME NEW d \in Dicts, NEW e \in Dicts
  PROVE  Merge(d, e) \in Dicts
<1>1. Merge(d, e) \in [DOMAIN d \cup DOMAIN e -> Values]
  BY DictIs DEF Merge
<1>2. DOMAIN d \cup DOMAIN e \in SUBSET Keys
  BY DictIs
<1> QED BY <1>1, <1>2 DEF Dicts

\* A dict with one variable.
LEMMA SingleType ==
  ASSUME NEW k \in Keys, NEW v \in Values
  PROVE  [x \in {k} |-> v] \in Dicts
<1>1. {k} \in SUBSET Keys /\ [x \in {k} |-> v] \in [{k} -> Values]
  OBVIOUS
<1> QED BY <1>1 DEF Dicts

\* The empty dict is one, and merging it changes nothing.
LEMMA MergeEmpty ==
  /\ Empty \in Dicts
  /\ \A d \in Dicts : Merge(d, Empty) = d
<1>1. Empty \in [{} -> Values] /\ DOMAIN Empty = {}
  BY DEF Empty
<1>2. ASSUME NEW d \in Dicts PROVE Merge(d, Empty) = d
  BY <1>1, DictIs DEF Merge
<1> QED BY <1>1, <1>2 DEF Dicts

\* Edits made one after the other add up to one edit.
LEMMA MergeAssoc ==
  ASSUME NEW d, NEW e, NEW f
  PROVE  Merge(Merge(d, e), f) = Merge(d, Merge(e, f))
<1> DEFINE D == DOMAIN d \cup DOMAIN e \cup DOMAIN f
           g == [k \in D |-> IF k \in DOMAIN f THEN f[k]
                             ELSE IF k \in DOMAIN e THEN e[k] ELSE d[k]]
<1>1. Merge(Merge(d, e), f) = g
  BY DEF Merge
<1>2. Merge(d, Merge(e, f)) = g
  BY DEF Merge
<1> QED BY <1>1, <1>2

-----------------------------------------------------------------------------
(* The inductive invariant.                                                *)

\* Nothing was matched yet: the file's entries and the payload are empty.
LEMMA NothingMatched ==
  TypeOK /\ i = 1 /\ vars_new = Empty => Unambiguous /\ PayloadRight
<1> SUFFICES ASSUME TypeOK, i = 1, vars_new = Empty
             PROVE  Unambiguous /\ PayloadRight
  OBVIOUS
<1>1. Matched = {}
  BY DEF Matched, TypeOK
<1>2. DOMAIN vars_new = {}
  BY DEF Empty
<1> QED BY <1>1, <1>2 DEF Unambiguous, PayloadRight, For

\* The initial states satisfy the invariant.
LEMMA InitInv == Init => Inv
<1> SUFFICES ASSUME Init PROVE Inv
  OBVIOUS
<1>1. PICK n \in 0..MaxRepls : repls \in [1..n -> Replacement]
  BY DEF Init
<1>2. repls \in Seq(Replacement)
  BY <1>1, EvergreenAssumption
<1>3. TypeOK
  BY <1>2, MergeEmpty DEF Init, TypeOK
<1>4. Unambiguous /\ PayloadRight
  BY <1>3, NothingMatched DEF Init
<1> QED BY <1>3, <1>4 DEF Inv, ProjectRight, Init

\* Reading the project: nothing is matched, and the project is as read.
LEMMA ProjectGetInv == Inv /\ ProjectGet => Inv'
<1> SUFFICES ASSUME Inv, ProjectGet PROVE Inv'
  OBVIOUS
<1>1. (i = 1 /\ vars_new = Empty /\ edits = Empty)'
  BY DEF Inv, ProjectRight, ProjectGet
<1>2. TypeOK'
  BY DEF Inv, TypeOK, ProjectGet
<1>3. (Unambiguous /\ PayloadRight)'
  BY <1>1, <1>2, NothingMatched, PTL
<1>4. pc' = "match" => Before'
  BY <1>1, <1>2, MergeEmpty DEF ProjectGet, Before, TypeOK
<1>5. pc' \in {"match", "raised"}
  BY DEF ProjectGet
<1>6. ProjectRight'
  BY <1>1, <1>4, <1>5 DEF ProjectRight
<1> QED BY <1>2, <1>3, <1>6 DEF Inv

\* A variable found for an entry is the only one with the old value.
LEMMA OnlyMatch ==
  ASSUME TypeOK, NEW n \in 1..Len(repls), ~Ambiguous(repls[n])
  PROVE  \E key \in DOMAIN vars_old :
           Matches(repls[n]) = {key} /\ vars_old[key] = repls[n].old
<1>1. IsFiniteSet(Matches(repls[n]))
  <2>1. Matches(repls[n]) \subseteq Keys
    BY DictIs DEF TypeOK, Matches
  <2> QED BY <2>1, FS_Subset, EvergreenAssumption
<1>2. PICK key : Matches(repls[n]) = {key}
  BY <1>1, FS_Singleton DEF Ambiguous
<1> QED BY <1>2 DEF Matches

\* Looking up one entry adds its variable to the payload, or ends the tool.
LEMMA MatchNextInv == Inv /\ MatchNext => Inv'
<1> SUFFICES ASSUME Inv, MatchNext PROVE Inv'
  OBVIOUS
<1>0. TypeOK /\ Unambiguous /\ PayloadRight /\ Before
  BY DEF Inv, MatchNext, ProjectRight
<1>a. CASE Ambiguous(repls[i])
  <2>1. UNCHANGED <<project, repls, vars_old, vars_new, edits, i>> /\ pc' = "raised"
    BY <1>a DEF MatchNext
  <2>2. TypeOK'
    BY <1>0, <2>1 DEF TypeOK
  <2>3. (Unambiguous /\ PayloadRight)'
    BY <1>0, <2>1 DEF Unambiguous, PayloadRight, For, Matched, Matches
  <2>4. ProjectRight'
    BY <1>0, <2>1 DEF ProjectRight, Before
  <2> QED BY <2>2, <2>3, <2>4 DEF Inv
<1>b. CASE ~Ambiguous(repls[i])
  <2> DEFINE r == repls[i]
  <2>1. i \in 1..Len(repls) /\ r \in Replacement
    BY <1>0 DEF TypeOK, MatchNext
  <2>2. PICK key \in DOMAIN vars_old : Matches(r) = {key} /\ vars_old[key] = r.old
    BY <1>0, <1>b, <2>1, OnlyMatch
  <2> DEFINE e == [k \in {key} |-> r.new]
  <2>3. /\ vars_new' = Merge(vars_new, e)
        /\ i' = i + 1 /\ pc' = "match"
        /\ UNCHANGED <<project, repls, vars_old, edits>>
    BY <1>b, <2>2 DEF MatchNext
  <2>4. key \in Keys /\ e \in Dicts
    BY <1>0, <2>1, SingleType, DictIs DEF TypeOK, Replacement
  <2>5. TypeOK'
    BY <1>0, <2>3, <2>4, MergeType DEF TypeOK
  <2>6. Matched' = Matched \cup {i}
    BY <1>0, <2>1, <2>3 DEF Matched, TypeOK
  <2>7. Unambiguous'
    BY <1>0, <1>b, <2>3, <2>6 DEF Unambiguous, Ambiguous, Matches
  <2>8. \A k : For(k)' = IF k = key THEN For(k) \cup {i} ELSE For(k)
    <3> SUFFICES ASSUME NEW k PROVE For(k)' = IF k = key THEN For(k) \cup {i} ELSE For(k)
      OBVIOUS
    <3>1. For(k)' = {n \in Matched \cup {i} :
                       k \in DOMAIN vars_old /\ repls[n].old = vars_old[k]}
      BY <2>3, <2>6 DEF For
    <3>2. (k \in DOMAIN vars_old /\ repls[i].old = vars_old[k]) <=> k = key
      BY <2>2 DEF Matches
    <3> QED BY <3>1, <3>2 DEF For
  <2>9. /\ DOMAIN vars_new' = DOMAIN vars_new \cup {key}
        /\ vars_new'[key] = r.new
        /\ \A k \in DOMAIN vars_new \ {key} : vars_new'[k] = vars_new[k]
    BY <2>3 DEF Merge
  <2>10. PayloadRight'
    <3>1. \A k \in Keys : k \in DOMAIN vars_new' <=> For(k)' # {}
      BY <1>0, <2>8, <2>9 DEF PayloadRight
    <3>2. ASSUME NEW k \in DOMAIN vars_new'
          PROVE  \E n \in For(k)' : vars_new'[k] = repls'[n].new
      <4>1. CASE k = key
        BY <4>1, <2>3, <2>8, <2>9
      <4>2. CASE k # key
        BY <4>2, <1>0, <2>3, <2>8, <2>9 DEF PayloadRight
      <4> QED BY <4>1, <4>2
    <3> QED BY <3>1, <3>2 DEF PayloadRight
  <2>11. ProjectRight'
    BY <1>0, <2>3 DEF ProjectRight, Before
  <2> QED BY <2>5, <2>7, <2>10, <2>11 DEF Inv
<1> QED BY <1>a, <1>b

\* The payload is complete; a dry run ends here.
LEMMA MatchDoneInv == Inv /\ MatchDone => Inv'
<1> SUFFICES ASSUME Inv, MatchDone PROVE Inv'
  OBVIOUS
<1>1. UNCHANGED <<project, repls, dry_run, vars_old, vars_new, i, edits>>
  BY DEF MatchDone
<1>2. TypeOK'
  BY <1>1 DEF Inv, TypeOK, MatchDone
<1>3. (Unambiguous /\ PayloadRight)'
  BY <1>1 DEF Inv, Unambiguous, PayloadRight, For, Matched, Matches
<1>4. ProjectRight'
  BY <1>1 DEF Inv, ProjectRight, MatchDone, Before
<1> QED BY <1>2, <1>3, <1>4 DEF Inv

\* The PATCH is applied whole or not at all.
LEMMA ProjectPatchInv == Inv /\ ProjectPatch => Inv'
<1> SUFFICES ASSUME Inv, ProjectPatch PROVE Inv'
  OBVIOUS
<1>1. UNCHANGED <<repls, dry_run, vars_old, vars_new, i, edits>>
  BY DEF ProjectPatch
<1>2. TypeOK'
  BY <1>1, MergeType DEF Inv, TypeOK, ProjectPatch, Payload
<1>3. (Unambiguous /\ PayloadRight)'
  BY <1>1 DEF Inv, Unambiguous, PayloadRight, For, Matched, Matches
<1>4. ProjectRight'
  <2>1. Before /\ i > Len(repls)
    BY DEF Inv, ProjectRight, ProjectPatch
  <2>2. CASE project' = Merge(project, Payload) /\ pc' \in {"done", "raised"}
    <3>1. After'
      BY <1>1, <2>1, <2>2 DEF After, Before, Payload
    <3>2. pc' = "done" => ~dry_run'
      BY <1>1 DEF Inv, ProjectRight, ProjectPatch
    <3> QED BY <1>1, <2>1, <2>2, <3>1, <3>2 DEF ProjectRight
  <2>3. CASE project' = project /\ pc' = "raised"
    BY <1>1, <2>1, <2>3 DEF ProjectRight, Before
  <2> QED BY <2>2, <2>3 DEF ProjectPatch
<1> QED BY <1>2, <1>3, <1>4 DEF Inv

\* Another user's edit changes the project and nothing the tool keeps.
LEMMA EditInv == Inv /\ Edit => Inv'
<1> SUFFICES ASSUME Inv, Edit PROVE Inv'
  OBVIOUS
<1>1. UNCHANGED <<pc, repls, dry_run, vars_old, vars_new, i>> /\ pc \in {"match", "patch"}
  BY DEF Edit
<1>2. PICK k \in Keys, v \in Values :
        /\ project' = Merge(project, [x \in {k} |-> v])
        /\ edits' = Merge(edits, [x \in {k} |-> v])
  BY DEF Edit
<1>3. TypeOK'
  BY <1>1, <1>2, MergeType, SingleType DEF Inv, TypeOK
<1>4. (Unambiguous /\ PayloadRight)'
  BY <1>1 DEF Inv, Unambiguous, PayloadRight, For, Matched, Matches
<1>5. Before'
  BY <1>1, <1>2, MergeAssoc DEF Inv, ProjectRight, Before
<1>6. ProjectRight'
  BY <1>1, <1>5 DEF Inv, ProjectRight
<1> QED BY <1>3, <1>4, <1>6 DEF Inv

\* The invariant holds in every reachable state.
THEOREM EvergreenInv == Spec => []Inv
<1>1. Inv /\ UNCHANGED vars => Inv'
  BY DEF vars, Inv, TypeOK, Unambiguous, PayloadRight, ProjectRight, For, Matched,
         Matches, Before, After
<1>2. Inv /\ [Next]_vars => Inv'
  BY <1>1, ProjectGetInv, MatchNextInv, MatchDoneInv, ProjectPatchInv, EditInv DEF Next
<1> QED BY InitInv, <1>2, PTL DEF Spec

-----------------------------------------------------------------------------
(* What the tool promises.                                                 *)

\* The values in the payload are new values the file gives.
LEMMA PayloadFromFile ==
  ASSUME Inv
  PROVE  \A k \in DOMAIN vars_new : vars_new[k] \in NewValues(k)
BY DEF Inv, PayloadRight, For, Matched, NewValues

\* Once every entry is matched, the payload names the variables to replace.
LEMMA PayloadComplete ==
  ASSUME Inv, i > Len(repls), NEW k \in DOMAIN vars_old
  PROVE  k \in DOMAIN vars_new <=> NewValues(k) # {}
<1>1. k \in Keys
  BY DictIs DEF Inv, TypeOK
<1>2. Matched = 1..Len(repls)
  BY DEF Matched, Inv, TypeOK
<1>3. For(k) # {} <=> NewValues(k) # {}
  BY <1>2 DEF For, NewValues
<1> QED BY <1>1, <1>3 DEF Inv, PayloadRight

(* Success of project_patch means that every variable with an old value    *)
(* of the file has a new value the file gives for it, and that the others  *)
(* are as the project_get returned them or as somebody else wrote them.    *)
THEOREM FileCarriedOut == Spec => []Replaced
<1>1. Inv => Replaced
  <2> SUFFICES ASSUME Inv, pc = "done", ~dry_run, NEW k \in DOMAIN vars_old
               PROVE  IF NewValues(k) # {} THEN project[k] \in NewValues(k)
                      ELSE k \notin DOMAIN edits => project[k] = vars_old[k]
    BY DEF Replaced
  <2>1. After /\ i > Len(repls)
    BY DEF Inv, ProjectRight
  <2>2. k \in DOMAIN vars_new <=> NewValues(k) # {}
    BY <2>1, PayloadComplete
  <2>3. CASE k \in DOMAIN vars_new
    BY <2>1, <2>2, <2>3, PayloadFromFile DEF After, Merge
  <2>4. CASE k \notin DOMAIN vars_new
    <3>1. project[k] = Merge(vars_old, edits)[k]
      BY <2>1, <2>4 DEF After, Merge
    <3> QED BY <3>1, <2>2, <2>4 DEF Merge
  <2> QED BY <2>3, <2>4
<1> QED BY <1>1, EvergreenInv, PTL

(* Whatever the tool does, and wherever it stops, an edit by another user  *)
(* to a variable the file does not replace is still in the project.        *)
THEOREM EditsKept == Spec => []EditsElsewhereSurvive
<1>1. Inv => EditsElsewhereSurvive
  <2> SUFFICES ASSUME Inv, NEW k \in DOMAIN edits, NewValues(k) = {}
               PROVE  project[k] = edits[k]
    BY DEF EditsElsewhereSurvive
  <2>1. k \notin DOMAIN vars_new
    BY PayloadFromFile
  <2>2. edits # Empty
    BY DEF Empty
  <2>3. Before \/ After
    BY <2>2 DEF Inv, TypeOK, ProjectRight
  <2>4. Merge(vars_old, edits)[k] = edits[k]
    BY DEF Merge
  <2> QED BY <2>1, <2>3, <2>4 DEF Before, After, Merge
<1> QED BY <1>1, EvergreenInv, PTL

(* The tool writes to the project only when every entry of the file had    *)
(* exactly one match: what it raises on, it raises on before any write.    *)
THEOREM NeverGuesses == Spec => NoGuess
<1> DEFINE A == project' # project /\ edits' = edits =>
                  \A j \in 1..Len(repls) :
                    Cardinality({k \in DOMAIN vars_old : vars_old[k] = repls[j].old}) = 1
<1>1. Inv /\ [Next]_vars => [A]_vars
  <2> SUFFICES ASSUME Inv, Next, project' # project, edits' = edits,
                      NEW j \in 1..Len(repls)
               PROVE  Cardinality(Matches(repls[j])) = 1
    BY DEF Matches
  <2>1. ~Edit
    <3> SUFFICES ASSUME Edit PROVE FALSE
      OBVIOUS
    <3>1. PICK k \in Keys \ DOMAIN edits, v \in Values :
            edits' = Merge(edits, [x \in {k} |-> v])
      BY DEF Edit
    <3>2. k \in DOMAIN edits'
      BY <3>1 DEF Merge
    <3> QED BY <3>1, <3>2
  <2>2. ProjectPatch
    BY <2>1 DEF Next, ProjectGet, MatchNext, MatchDone
  <2>3. i > Len(repls)
    BY <2>2 DEF ProjectPatch, Inv, ProjectRight
  <2>4. j \in Matched
    BY <2>3 DEF Matched, Inv, TypeOK
  <2> QED BY <2>4 DEF Inv, Unambiguous
<1> QED BY <1>1, EvergreenInv, PTL DEF Spec, NoGuess
=============================================================================

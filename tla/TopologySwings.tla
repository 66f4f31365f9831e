--------------------------- MODULE TopologySwings ---------------------------
(***************************************************************************)
(* The primaries a client has believed in, one after the other.  The rule  *)
(* by which _mongoc_topology_description_update_rs_from_primary distrusts  *)
(* a primary is there so that the client does not go back and forth        *)
(* between an old and a new one.  Whether it does cannot be told from the  *)
(* description alone, so this module remembers, beside it, the elections   *)
(* won by the primaries that were believed in.                             *)
(*                                                                         *)
(* The primaries that reply are all of 6.0 or later, all older, or of      *)
(* either kind, as while a set is being upgraded.  In the last case every  *)
(* behaviour of TopologyDescription is one of this module's, and nothing   *)
(* is remembered: the client does swing then.                              *)
(***************************************************************************)
EXTENDS TopologyDescription

VARIABLES
  rules,  \* the values of `modern' that primaries reply with
  last,   \* history: the election last believed in, None before the first
  past    \* history: the elections given up for another

swingVars == <<vars, rules, last, past>>

(* The elections of the primaries that d believes in.  A primary that does *)
(* not report both numbers has none.                                       *)
Believed(d) ==
  {<<d.servers[i].set_version, d.servers[i].election_id>> :
     i \in {j \in DOMAIN d.servers : /\ d.type # "Single"
                                     /\ d.servers[j].type = "RSPrimary"
                                     /\ HasElection(d.servers[j])}}

SwingInit ==
  /\ Init
  /\ rules \in (SUBSET BOOLEAN) \ {{}}
  /\ last = None /\ past = {}

Remember ==
  IF rules = BOOLEAN \/ Believed(td') \subseteq {last}
    THEN UNCHANGED <<last, past>>
    ELSE /\ last' \in Believed(td')
         /\ past' = IF last = None THEN past ELSE past \cup {last}

Replies(R) == {h \in Hellos : h.type = "RSPrimary" => h.modern \in R}

SwingNext ==
  /\ \/ \E id \in ServerIds : Hello(id, Replies(rules)) \/ NetworkError(id)
     \/ SrvPolling
  /\ Remember
  /\ UNCHANGED rules

SwingSpec == SwingInit /\ [][SwingNext]_swingVars

-----------------------------------------------------------------------------
(* As long as all primaries follow one rule, whichever it is, the client   *)
(* never returns to one whose election it has given up for another: it     *)
(* does not swing between an old and a new primary as their replies        *)
(* alternate.  (Primaries before 6.0 that report no electionId are not     *)
(* ordered by any rule: between them the client follows whoever replied    *)
(* last.)                                                                  *)
NeverOscillates == rules # BOOLEAN => last \notin past
=============================================================================

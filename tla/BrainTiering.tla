---------------------------- MODULE BrainTiering ----------------------------
(***************************************************************************)
(* server/brain/jobs: the nightly jobs that move every indexed object      *)
(* between tiers by age and links and archive the ones of resolved markets *)
(* (tiering), and mark the old ones (staleness).  Both read all objects    *)
(* first and work on what they read.                                       *)
(***************************************************************************)
EXTENDS Naturals, Sequences, FiniteSets, SequencesExt

CONSTANTS Markets,
          Kinds,          \* kinds of objects
          StaleAfter,     \* kind -> days, 0 for never
          HotDays, WarmDays,
          MaxObjects, MaxDays, MaxNights

VARIABLES objects,      \* brain_objects, oldest first
          resolved,     \* AETHER_TIERING__RESOLVED_MARKETS
          days, nights,
          dropFailed    \* the vector store did not delete what it was told to

vars == <<objects, resolved, days, nights, dropFailed>>

Init ==
  /\ objects = <<>> /\ resolved = {} /\ days = 0 /\ nights = 0 /\ dropFailed = FALSE

\* index.run() of a new object; its vectors are there before.
Indexed ==
  /\ Len(objects) < MaxObjects
  /\ \E kind \in Kinds, markets \in SUBSET Markets :
       objects' = Append(objects, [kind |-> kind, age |-> 0, markets |-> markets, tier |-> "hot",
                                   vectors |-> TRUE, stale |-> FALSE, synthesis |-> FALSE])
  /\ UNCHANGED <<resolved, days, nights, dropFailed>>

DayPasses ==
  /\ days < MaxDays /\ days' = days + 1
  /\ objects' = [i \in DOMAIN objects |-> [objects[i] EXCEPT !.age = @ + 1]]
  /\ UNCHANGED <<resolved, nights, dropFailed>>

Resolves ==
  /\ \E m \in Markets \ resolved : resolved' = resolved \cup {m}
  /\ UNCHANGED <<objects, days, nights, dropFailed>>

-----------------------------------------------------------------------------
\* Mutant: what is linked to a market is tiered by age all the same.
TargetByAge(o) ==
  CASE o.age <= HotDays -> "hot" [] o.age < WarmDays -> "warm" [] OTHER -> "cold"

\* _compute_target_tier().
Target(o) ==
  CASE o.age <= HotDays \/ o.markets # {} -> "hot" [] o.age < WarmDays -> "warm" [] OTHER -> "cold"

\* Mutant: the vectors stay.
RetierOnly(o, works) == [o EXCEPT !.tier = Target(o)]

\* An object that moves to cold loses its vectors, if the store works.
Retier(o, works) ==
  [o EXCEPT !.tier = Target(o),
            !.vectors = @ /\ ~(Target(o) = "cold" /\ o.tier # "cold" /\ works)]

\* _run_resolved_market_rollup() asks for the tier the object had before.
Archive(o, before, works) ==
  IF o.markets \cap resolved # {} /\ before.tier # "cold"
    THEN [o EXCEPT !.tier = "cold", !.vectors = @ /\ ~works]
    ELSE o

\* One more object for each resolved market of an object.
Syntheses ==
  LET rolled == {m \in resolved : \E i \in DOMAIN objects : m \in objects[i].markets}
  IN SetToSeq({[kind |-> "report", age |-> 0, markets |-> {m}, tier |-> "cold", vectors |-> FALSE,
                stale |-> FALSE, synthesis |-> TRUE] : m \in rolled})

\* run_tiering_job().
Tiering ==
  /\ nights < MaxNights /\ nights' = nights + 1
  /\ \E works \in BOOLEAN :
       /\ objects' = [i \in DOMAIN objects |->
                        Archive(Retier(objects[i], works), objects[i], works)] \o Syntheses
       /\ dropFailed' = (dropFailed \/ ~works)
  /\ UNCHANGED <<resolved, days>>

\* run_staleness_job().
Staleness ==
  /\ objects' = [i \in DOMAIN objects |->
                   LET o == objects[i] IN
                     IF StaleAfter[o.kind] = 0 THEN o
                     ELSE [o EXCEPT !.stale = @ \/ o.age >= StaleAfter[o.kind]]]
  /\ UNCHANGED <<resolved, days, nights, dropFailed>>

Next == Indexed \/ DayPasses \/ Resolves \/ Tiering \/ Staleness

Spec == Init /\ [][Next]_vars

-----------------------------------------------------------------------------
Sources == {i \in DOMAIN objects : ~objects[i].synthesis}

\* Whatever nights an object goes through, while it has nothing to do with a
\* resolved market it is cold only when it is old and linked to nothing, it
\* can be found by its vectors until then and, if the vector store did its
\* part, not after; and nothing young is stale.
TiersSound ==
  \A i \in Sources :
    LET o == objects[i] IN
      /\ o.markets \cap resolved = {} =>
           /\ o.tier = "cold" => o.age >= WarmDays /\ o.markets = {}
           /\ o.tier # "cold" => o.vectors
           /\ o.tier = "cold" => ~o.vectors \/ dropFailed
      /\ o.stale => o.age >= StaleAfter[o.kind]

\* "HOT = accessed <= 7d OR linked to open markets -> keep hot" (tiering.py).
OpenMarketsStayHot ==
  [][Tiering => \A i \in Sources : objects[i].markets \ resolved # {} => objects'[i].tier = "hot"]_vars

\* "objects linked only to resolved markets get archival roll-up (one synthesis
\* per market) and go cold" (tiering.py): the second night finds a cold object
\* with a market, makes it hot, and does not ask again.
ResolvedGoCold ==
  [][Tiering => \A i \in Sources :
       objects[i].markets # {} /\ objects[i].markets \subseteq resolved
         => objects'[i].tier = "cold"]_vars
OneSynthesis ==
  \A m \in Markets : Cardinality({i \in DOMAIN objects : objects[i].synthesis /\ m \in objects[i].markets}) <= 1
=============================================================================

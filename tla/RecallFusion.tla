---------------------------- MODULE RecallFusion ----------------------------
(***************************************************************************)
(* server/brain/recall: one call of recall() asks the vector store, looks  *)
(* the hits up in Postgres, asks the full-text index, fuses the two        *)
(* rankings, and then tries within a budget to enhance the result with     *)
(* neighbours from the graph and with weights, falling back to what it had.*)
(* The rows change while the call is under way.                            *)
(*                                                                         *)
(* The filters of the call are abstracted to the set of objects whose row  *)
(* passes them now.                                                        *)
(***************************************************************************)
EXTENDS Naturals, SequencesExt

CONSTANTS MaxObject,    \* objects are 1 .. MaxObject, in the order of their ids
          Ks,           \* numbers of results asked for
          Weights,      \* decay times reliability, in percent
          MaxChanges    \* bound on changes of rows during a call

Objects == 1 .. MaxObject
RrfConstant == 60

VARIABLES call,         \* where the call is, k, and what it has found so far
          admitted,     \* objects whose rows pass the filters
          ever,         \* those that passed at some moment of the call
          changes

vars == <<call, admitted, ever, changes>>

\* Rankings: a store answers with some objects, each once.
Rankings(S) == {s \in UNION {[1 .. n -> S] : n \in 0 .. MaxObject} : IsInjective(s)}

Init ==
  /\ \E k \in Ks : call = [at |-> "vector", k |-> k, vector |-> <<>>, words |-> <<>>,
                           v1 |-> <<>>, answer |-> <<>>]
  /\ admitted \in SUBSET Objects
  /\ ever = admitted /\ changes = 0

Found(updates) == call' = updates /\ UNCHANGED <<admitted, ever, changes>>

\* The tiering job, a new summary, or another change of a row.
RowChanges ==
  /\ changes < MaxChanges /\ changes' = changes + 1 /\ call.at # "answered"
  /\ \E o \in Objects : admitted' = (admitted \ {o}) \cup ({o} \ admitted)
  /\ ever' = ever \cup admitted'
  /\ UNCHANGED call

-----------------------------------------------------------------------------
(* Rank fusion.                                                            *)

\* 1 / (rank + 60), in millionths; nothing from a list an object is not in.
Points(ranking, o, weight) ==
  IF o \in ToSet(ranking)
    THEN (10000 * weight) \div ((CHOOSE i \in DOMAIN ranking : ranking[i] = o) + RrfConstant)
    ELSE 0

\* Highest first, ties by id.
ByScore(S, Score(_)) ==
  SetToSortSeq(S, LAMBDA a, b : Score(a) > Score(b) \/ (Score(a) = Score(b) /\ a < b))

Cut(ranking, k) == SubSeq(ranking, 1, IF Len(ranking) < k THEN Len(ranking) ELSE k)

\* Mutant: a hit of the vector store hides the one of the index.
FusedScoreFirst(vector, words, o) ==
  IF o \in ToSet(vector) THEN Points(vector, o, 100) ELSE Points(words, o, 100)

FusedScore(vector, words, o) == Points(vector, o, 100) + Points(words, o, 100)

RrfFuse(vector, words) ==
  ByScore(ToSet(vector) \cup ToSet(words), LAMBDA o : FusedScore(vector, words, o))

-----------------------------------------------------------------------------
(* recall_v1().                                                            *)

\* _qdrant_search(); an error is an empty answer.
Search ==
  /\ call.at = "vector"
  /\ \E hits \in Rankings(Objects) : Found([call EXCEPT !.at = "filter", !.vector = hits])

\* _filter_qdrant_results(), or its error.
Passing(ranking) == SelectSeq(ranking, LAMBDA o : o \in admitted)

Filter ==
  /\ call.at = "filter"
  /\ \E hits \in {Passing(call.vector), <<>>} :
       Found([call EXCEPT !.at = "words", !.vector = hits])

\* _fts_search(): the filters are part of the query.
Words ==
  /\ call.at = "words"
  /\ \E hits \in Rankings(admitted) :
       LET fused == RrfFuse(call.vector, hits) IN
         Found([call EXCEPT !.at = IF fused = <<>> THEN "answered" ELSE "enhance",
                            !.words = hits, !.v1 = fused])

-----------------------------------------------------------------------------
(* _enhance_v2(), or the fallback.                                         *)

\* Mutant: the neighbours are not looked up.
NeighboursUnfiltered(hits) == hits

\* Neighbours of what was found, filtered like the hits of the vector store;
\* without a graph, or after an error, there are none.
Neighbours(hits) == Passing(hits)

Enhance ==
  /\ call.at = "enhance"
  /\ \E hits \in Rankings(Objects \ ToSet(call.v1)), weight \in [Objects -> Weights] :
       LET near == Neighbours(hits)
           Score(o) == weight[o] * (FusedScore(call.vector, call.words, o) + Points(near, o, 15))
       IN Found([call EXCEPT !.at = "rerank",
                             !.answer = Cut(ByScore(ToSet(call.v1) \cup ToSet(near), Score), call.k)])

\* rerank_with_budget(): the encoder's order, if it scored all candidates in time.
Rerank ==
  /\ call.at = "rerank"
  /\ \E order \in {s \in Rankings(ToSet(call.answer)) : Len(s) = Len(call.answer)} :
       Found([call EXCEPT !.at = "answered", !.answer = order])

\* The budget is used up before or during the enhancement, or it fails.
FallBack ==
  /\ call.at \in {"enhance", "rerank"}
  /\ Found([call EXCEPT !.at = "fallback", !.answer = Cut(call.v1, call.k)])

Next == RowChanges \/ Search \/ Filter \/ Words \/ Enhance \/ Rerank \/ FallBack

Spec == Init /\ [][Next]_vars

-----------------------------------------------------------------------------
\* Absent is the last place.
Place(ranking, o) ==
  IF o \in ToSet(ranking) THEN CHOOSE i \in DOMAIN ranking : ranking[i] = o ELSE MaxObject + 1

Dominates(a, b) ==
  /\ Place(call.vector, a) <= Place(call.vector, b) /\ Place(call.words, a) <= Place(call.words, b)
  /\ a # b

\* What recall answers are at most k different objects, each of which passed
\* the filters at some moment of the call, by whatever source it was found;
\* and when the enhancement does not come about, an object that both sources
\* rank before another comes before it.
RecallSound ==
  /\ call.at \in {"answered", "fallback"} =>
       /\ Len(call.answer) <= call.k /\ IsInjective(call.answer)
       /\ ToSet(call.answer) \subseteq ever
  /\ \A i, j \in DOMAIN call.v1 : Dominates(call.v1[i], call.v1[j]) => i < j
=============================================================================

---------------------------- MODULE SwarmBudget ----------------------------
(***************************************************************************)
(* server/swarm: one launch of research workers on a question.  Every      *)
(* worker reserves its share of the budget before it calls the model and   *)
(* commits or aborts the reservation after (budget, worker); two waves of  *)
(* workers run until they are done or the time is up, and what they found  *)
(* becomes one packet (orchestrator, packet, scratchpad).                  *)
(*                                                                         *)
(* Costs are tokens times Price, the ceiling a reservation is priced with. *)
(***************************************************************************)
EXTENDS Naturals, FiniteSets, FiniteSetsExt

CONSTANTS MaxWorkers,   \* workers are 1 .. MaxWorkers
          Limits,       \* [calls, tokens, cost] of the request
          Price,        \* configured ceiling of the cost of a token
          Inputs,       \* sizes of a worker's prompt
          Charges       \* [tokens, cost] a provider may report or charge

Workers == 1 .. MaxWorkers

VARIABLES worker,       \* where each worker is
          reserved,     \* worker -> its reservation, in tokens
          used,         \* calls, tokens and cost that were committed
          spent,        \* what the providers charged
          overcharged,  \* one of them more than was reserved
          truncated,    \* truncated_dimension is set
          denied,       \* some worker did not get to finish for want of budget
          findings,     \* workers with cited findings
          packet

vars == <<worker, reserved, used, spent, overcharged, truncated, denied, findings, packet>>

None == [tokens |-> 0, cost |-> 0]

Init ==
  /\ worker = [w \in Workers |-> "waiting"] /\ reserved = [w \in Workers |-> 0]
  /\ used = [calls |-> 0, tokens |-> 0, cost |-> 0] /\ spent = None /\ overcharged = FALSE
  /\ truncated = FALSE /\ denied = FALSE /\ findings = {} /\ packet = "none"

\* The first wave is done before the second begins.
Wave(w) == IF w <= (MaxWorkers + 1) \div 2 THEN 1 ELSE 2
Lower(a, b) == IF a < b THEN a ELSE b
\* The same for every call: the shares of all calls are within the limits.
Allowance ==
  LET share == (Limits.cost \div Limits.calls) \div Price
      tokens == Limits.tokens \div Limits.calls
  IN Lower(share, IF tokens = 0 THEN 1 ELSE tokens)

Goto(w, at) == worker' = [worker EXCEPT ![w] = at]
Running == {w \in Workers : reserved[w] # 0}

-----------------------------------------------------------------------------
(* A worker.                                                               *)

\* Mutant: calls under way are not counted.
FitsCommitted(tokens) ==
  /\ used.calls + 1 <= Limits.calls
  /\ used.tokens + tokens <= Limits.tokens
  /\ used.cost + tokens * Price <= Limits.cost

ReservedTokens == MapThenSumSet(LAMBDA w : reserved[w], Workers)

\* reserve(): all dimensions at once, under the lock.
Fits(tokens) ==
  /\ used.calls + Cardinality(Running) + 1 <= Limits.calls
  /\ used.tokens + ReservedTokens + tokens <= Limits.tokens
  /\ used.cost + (ReservedTokens + tokens) * Price <= Limits.cost

\* research(): what was recalled decides the size of the prompt; without
\* evidence there is nothing to do, and without budget it ends here.
Start(w) ==
  /\ worker[w] = "waiting" /\ packet = "none"
  /\ \A v \in Workers : Wave(v) < Wave(w) => worker[v] = "done"
  /\ \/ Goto(w, "done") /\ UNCHANGED <<reserved, truncated, denied>>
     \/ \E input \in Inputs :
          IF Allowance > input /\ Fits(Allowance)
            THEN /\ Goto(w, "calling") /\ reserved' = [reserved EXCEPT ![w] = Allowance]
                 /\ UNCHANGED <<truncated, denied>>
            ELSE /\ Goto(w, "done") /\ truncated' = TRUE /\ denied' = TRUE
                 /\ UNCHANGED reserved
  /\ UNCHANGED <<used, spent, overcharged, findings, packet>>

\* The provider charges for a call, whatever comes of it.
Exceeds(w, charge) == charge.tokens > reserved[w] \/ charge.cost > reserved[w] * Price
Charge(charge) ==
  /\ spent' = [tokens |-> spent.tokens + MapThenSumSet(LAMBDA w : charge[w].tokens, DOMAIN charge),
               cost |-> spent.cost + MapThenSumSet(LAMBDA w : charge[w].cost, DOMAIN charge)]
  /\ overcharged' = (overcharged \/ \E w \in DOMAIN charge : Exceeds(w, charge[w]))

Release(w) == reserved' = [reserved EXCEPT ![w] = 0]

\* commit(): usage above the reservation is cut off, and the worker fails.
Answered(w) ==
  /\ worker[w] = "calling" /\ Goto(w, "done") /\ Release(w)
  /\ \E charge \in Charges :
       LET over == Exceeds(w, charge) IN
         /\ Charge([v \in {w} |-> charge])
         /\ used' = [calls |-> used.calls + 1,
                     tokens |-> used.tokens + Lower(charge.tokens, reserved[w]),
                     cost |-> used.cost + Lower(charge.cost, reserved[w] * Price)]
         /\ truncated' = (truncated \/ over) /\ denied' = (denied \/ over)
         /\ \/ ~over /\ findings' = findings \cup {w}
            \/ UNCHANGED findings
  /\ UNCHANGED packet

\* Mutant: the call is given back with its reservation.
FailedCancels(w) ==
  /\ worker[w] = "calling" /\ Goto(w, "done") /\ Release(w)
  /\ \E charge \in [{w} -> Charges \cup {None}] : Charge(charge)
  /\ UNCHANGED <<used, truncated, denied, findings, packet>>

\* The router or the connection to it fails: its answer has no usage and is
\* committed as such, or the call is aborted.
Failed(w) ==
  /\ worker[w] = "calling" /\ Goto(w, "done") /\ Release(w)
  /\ \E charge \in [{w} -> Charges \cup {None}] : Charge(charge)
  /\ used' = [used EXCEPT !.calls = @ + 1]
  /\ UNCHANGED <<truncated, denied, findings, packet>>

-----------------------------------------------------------------------------
(* launch().                                                               *)

\* asyncio.timeout() cancels what is still running: each call is aborted.
TimeIsUp ==
  /\ packet = "none" /\ \E w \in Workers : worker[w] # "done"
  /\ worker' = [w \in Workers |-> "done"] /\ reserved' = [w \in Workers |-> 0]
  /\ used' = [used EXCEPT !.calls = @ + Cardinality(Running)]
  /\ \E charge \in [Running -> Charges \cup {None}] : Charge(charge)
  /\ truncated' = TRUE /\ denied' = TRUE
  /\ UNCHANGED <<findings, packet>>

\* build_packet(), or there is no evidence to build one from.
Converge ==
  /\ packet = "none" /\ \A w \in Workers : worker[w] = "done"
  /\ packet' = IF findings = {} THEN "no evidence" ELSE IF truncated THEN "truncated" ELSE "whole"
  /\ UNCHANGED <<worker, reserved, used, spent, overcharged, truncated, denied, findings>>

Next ==
  \/ \E w \in Workers : Start(w) \/ Answered(w) \/ Failed(w)
  \/ TimeIsUp \/ Converge

Spec == Init /\ [][Next]_vars

-----------------------------------------------------------------------------
\* What is committed and what is reserved stay within every limit together,
\* however many workers reserve at once and whatever the providers report; a
\* call that failed or was cancelled keeps its place among the calls, so that
\* even what it may have cost is within the limits as long as no provider takes
\* more than was reserved; and a packet that does not say so was not cut short.
BudgetSound ==
  /\ used.calls + Cardinality(Running) <= Limits.calls
  /\ used.tokens + ReservedTokens <= Limits.tokens
  /\ used.cost + ReservedTokens * Price <= Limits.cost
  /\ ~overcharged => spent.tokens <= Limits.tokens /\ spent.cost <= Limits.cost
  /\ packet = "whole" => ~denied
=============================================================================

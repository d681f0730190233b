----------------------------- MODULE PaperRisk -----------------------------
(***************************************************************************)
(* Paper orders of one actor in one market: the action service turns the   *)
(* legs of an opportunity into fully snapshotted requests                  *)
(* (server/actions/service.py), execute-paper runs them one after another  *)
(* through the router, whose risk engine (connectors/execution/            *)
(* risk-engine) judges every request by its snapshot, and the fills go to  *)
(* the tables that the next snapshot is taken from.                        *)
(*                                                                         *)
(* Calls are of distinct opportunities; that a leg is executed once per    *)
(* opportunity is the subject of PaperExecution.  Grants, approvals, caps, *)
(* quotes and markets are other components' and change at any time.        *)
(***************************************************************************)
EXTENDS EdgeDecomposition

CONSTANTS Calls,     \* execute_paper() calls
          LegShapes, \* [side, size, limit] of a leg, size 0 for none
          Quotes,    \* [bid, ask, size, age, open, enabled] of a market
          CapsSet    \* [order, daily] of a caps version

VARIABLES grant, approval, caps, held, spent, call

vars == <<grant, approval, caps, held, spent, call>>

Free == 4 * Unit             \* paper_balances, which nothing draws from
HardPerOrder == 3 * Unit
MaxStaleness == 5
MaxFutureSkew == 1
MaxDriftPercent == 2
NoCaps == [order |-> -1, daily |-> -1]
Tiers == {0, 3, 5}           \* 0: no current grant, or none for this scope
Idle == [stage |-> "idle", requests |-> << >>, approved |-> FALSE]

Init ==
  /\ grant \in {3, 5} /\ approval = [c \in Calls |-> "consumed"]
  /\ caps \in CapsSet \cup {NoCaps}
  /\ held = [yes |-> 0, no |-> 0] \* contracts, whose sum is side_exposure
  /\ spent = 0                   \* orders of the day, by the actor
  /\ call = [c \in Calls |-> Idle]

-----------------------------------------------------------------------------
(* checks.rs                                                               *)

AtLeastZero(price) == IF price > 0 THEN price ELSE 0

\* executable_price(), 0 when there is none.
ExecutablePrice(quote, side) ==
  CASE side = "buy" -> quote.ask
    [] side = "sell" -> quote.bid
    [] side = "buy_no" /\ quote.bid # 0 -> AtLeastZero(Unit - quote.bid)
    [] side = "sell_no" /\ quote.ask # 0 -> AtLeastZero(Unit - quote.ask)
    [] OTHER -> 0

CheckLiveness(order, quote) ==
  /\ quote.open
  /\ quote.age <= MaxStaleness /\ quote.age >= -MaxFutureSkew
  /\ ExecutablePrice(quote, order.side) > 0

\* Only adverse drift of a limit counts.
CheckPriceDrift(order, quote) ==
  LET reference == ExecutablePrice(quote, order.side)
      adverse == IF order.side \in Buys THEN order.limit - reference ELSE reference - order.limit
  IN order.limit = 0 \/ (reference > 0 /\ adverse * 100 <= MaxDriftPercent * reference)

\* Mutant: an order is valued at its limit.
ValuationPriceLimit(order, quote) ==
  IF order.limit # 0 THEN order.limit ELSE ExecutablePrice(quote, order.side)

\* The greater of the executable price and the limit.
ValuationPrice(order, quote) ==
  LET price == ExecutablePrice(quote, order.side) IN
    IF order.limit > price THEN order.limit ELSE price

CheckBalance(order, notional, position) ==
  IF order.side \in Buys THEN Free >= notional ELSE position # -1 /\ position >= order.size

\* Mutant: the day's orders are not counted.
CheckCapsOrderOnly(notional, active, daily) ==
  notional <= Min({HardPerOrder, active.order}) /\ notional <= active.daily

\* The intent's caps are the active ones at the time of the snapshot.
CheckCaps(notional, active, daily) ==
  /\ notional <= Min({HardPerOrder, active.order})
  /\ daily + notional <= active.daily

\* RiskEngine::evaluate() of a paper intent: allow.
Evaluate(order, quote, position, active, daily) ==
  LET notional == ValuationPrice(order, quote) * order.size IN
    /\ CheckLiveness(order, quote)
    /\ CheckPriceDrift(order, quote)
    /\ CheckBalance(order, notional, position)
    /\ quote.enabled
    /\ CheckCaps(notional, active, daily)

-----------------------------------------------------------------------------
(* The action service.                                                     *)

\* The position of a market is one row, given for the outcome of the leg's side.
Exposure == held.yes + held.no
Position == IF Exposure < 0 THEN -Exposure ELSE Exposure

\* The one level of the snapshot's book has the ask's size on both sides.
BookOf(quote, order) ==
  LET size == IF quote.size # 0 THEN quote.size ELSE order.size
      level(price) == IF price = 0 THEN << >> ELSE <<[price |-> price, size |-> size]>>
  IN [bids |-> level(quote.bid), asks |-> level(quote.ask)]

Request(order, quote) ==
  [order |-> order, book |-> BookOf(quote, order), daily |-> spent, caps |-> caps,
   value |-> ValuationPrice(order, quote) * order.size,
   allow |-> Evaluate(order, quote, Position, caps, spent)]

Fails(c) == call' = [call EXCEPT ![c] = [Idle EXCEPT !.stage = "failed"]]

\* execute_paper() up to its first commit: the grant, the approval when one is
\* given, the state of the opportunity (see OpportunityLifecycle), and the
\* snapshots of all legs, taken at once.
Begin(c) ==
  /\ call[c].stage = "idle"
  /\ UNCHANGED <<grant, approval, caps, held, spent>>
  /\ IF \/ grant < 3
        \/ approval[c] = "expired"
        \/ grant < 5 /\ approval[c] # "consumed"
        \/ caps = NoCaps
     THEN Fails(c)
     ELSE \E first, second \in LegShapes, quote \in Quotes :
            IF first.size = 0 \/ second.size = 0 THEN Fails(c)
            ELSE call' = [call EXCEPT ![c] =
                   [stage |-> "run", requests |-> <<Request(first, quote), Request(second, quote)>>,
                    approved |-> grant < 5]]

-----------------------------------------------------------------------------
(* execute-paper                                                           *)

Leg(c) == Head(call[c].requests)

\* validate_approval(): consumed for this opportunity, and not expired.
Confirmed(c) == call[c].approved /\ approval[c] = "consumed"

\* load_current_grant(), the approval below tier 5, and authorization in the
\* router.
Admitted(c) == grant >= 5 \/ (grant >= 3 /\ Confirmed(c))

Filled(c) == Walk(Leg(c).book, Leg(c).order, DefaultFill)

Outcome(side) == IF side \in {"buy", "sell"} THEN "yes" ELSE "no"
Signed(order, n) == IF order.side \in Buys THEN n ELSE -n

\* One leg: admission and verdict, the walk, and the transaction that writes
\* the order and the position.
RunLeg(c) ==
  /\ call[c].stage = "run" /\ call[c].requests # << >>
  /\ UNCHANGED <<grant, approval, caps>>
  /\ LET leg == Leg(c)
         fills == Filled(c).fills
         n == Signed(leg.order, SizeOf(fills))
     IN IF ~Admitted(c) \/ ~leg.allow \/ fills = << >>
        THEN Fails(c) /\ UNCHANGED <<held, spent>>
        ELSE /\ held' = [held EXCEPT ![Outcome(leg.order.side)] = @ + n]
             /\ spent' = spent + CostOf(fills)
             /\ call' = [call EXCEPT ![c].requests = Tail(@)]

\* The process times out, is killed, or its answer is lost.
LegFails(c) ==
  /\ call[c].stage = "run" /\ call[c].requests # << >>
  /\ Fails(c)
  /\ UNCHANGED <<grant, approval, caps, held, spent>>

Complete(c) ==
  /\ call[c].stage = "run" /\ call[c].requests = << >>
  /\ call' = [call EXCEPT ![c] = [Idle EXCEPT !.stage = "done"]]
  /\ UNCHANGED <<grant, approval, caps, held, spent>>

\* Other components.
Change ==
  /\ \/ grant' \in Tiers /\ UNCHANGED <<approval, caps>>
     \/ \E c \in Calls : approval' = [approval EXCEPT ![c] = "expired"] /\ UNCHANGED <<grant, caps>>
     \/ caps' \in CapsSet /\ UNCHANGED <<grant, approval>>
  /\ UNCHANGED <<held, spent, call>>

Next == Change \/ \E c \in Calls : Begin(c) \/ RunLeg(c) \/ LegFails(c) \/ Complete(c)

Spec == Init /\ [][Next]_vars

-----------------------------------------------------------------------------
\* What a YES order with a limit pays is covered by what it was valued at, the
\* balance and the order cap of its snapshot; and unless another order came in
\* between, the day's orders stay within the daily cap.
RiskHeldStep ==
  \A c \in Calls :
    (spent' > spent /\ call'[c] # call[c]
       /\ Leg(c).order.limit # 0 /\ Outcome(Leg(c).order.side) = "yes") =>
    /\ spent' - spent <= Leg(c).value
    /\ Leg(c).order.side = "buy" => spent' - spent <= Free
    /\ spent' - spent <= Leg(c).caps.order
    /\ Leg(c).daily = spent => spent' <= Leg(c).caps.daily

\* As a property of behaviours.
PaperRiskHeld == [][RiskHeldStep]_vars

\* "Use the greater of the executable quote and limit so caps/balance never
\* underestimate the cash value that an accepted order permits"
\* (engine.rs): the walk goes on beyond the visible depth at a worse price.
NeverUnderestimated ==
  [][\A c \in Calls :
       (spent' > spent /\ call'[c] # call[c]) => spent' - spent <= Leg(c).value]_vars

\* "Keeping YES and NO separate prevents a YES position from authorizing a NO
\* sale" (engine.rs): the snapshot gives the market's one position to either.
InventoryCovered == held.yes >= 0 /\ held.no >= 0
=============================================================================

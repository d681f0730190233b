------------------------- MODULE EdgeDecomposition -------------------------
(***************************************************************************)
(* What a trade costs: crates/aether-fillmodel, what an order gets from a  *)
(* book (the paper router, the simulator and the scanner all walk a book   *)
(* this way), and crates/aether-decompose, the net edge of a pair of legs  *)
(* as the gross spread minus eight components, with the fee schedules of   *)
(* the venue packs and the mismatch table.                                 *)
(*                                                                         *)
(* Prices and amounts are in units of 1/Unit, ages in half multiples of    *)
(* tick_stale_ms, sizes are small numbers.  A book is [bids, asks], each a *)
(* sequence of [price, size], best level first.  An order is [side, size,  *)
(* limit], where limit 0 is a market order.  A configuration is [touch,    *)
(* multiplier]: whether only the best level is taken, and the percentage   *)
(* applied to the worst visible price for what the visible levels do not   *)
(* cover.  The fill model's own fees are linear and are left out.          *)
(***************************************************************************)
EXTENDS Integers, Sequences, SequencesExt

-----------------------------------------------------------------------------
(* The fill model *)

Unit == 10000
Buys == {"buy", "buy_no"}
Sells == {"sell", "sell_no"}

LevelsFor(book, side) == IF side \in Buys THEN book.asks ELSE book.bids

\* The price is beyond the order's limit.
Beyond(order, price) ==
  /\ order.limit # 0
  /\ IF order.side \in Buys THEN price > order.limit ELSE price < order.limit

\* Mutant: the price of invisible depth is raised for sells too.
ExhaustionPriceUp(side, worst, multiplier) == (worst * multiplier) \div 100

\* Pessimism moves buys upward and sells downward.
ExhaustionPrice(side, worst, multiplier) ==
  IF side \in Buys THEN (worst * multiplier) \div 100
  ELSE (worst * 100) \div multiplier

\* One level: it is skipped once the order is filled, once a level was beyond
\* the limit, and after the first fill at touch.
TakeLevel(order, config, walk, level) ==
  LET n == Min({walk.left, level.size}) IN
    IF walk.left = 0 \/ walk.beyond \/ (config.touch /\ walk.fills # << >>) THEN walk
    ELSE IF level.price <= 0 \/ level.size <= 0 THEN [walk EXCEPT !.error = "invalid_input"]
    ELSE IF Beyond(order, level.price) THEN [walk EXCEPT !.beyond = TRUE]
    ELSE [walk EXCEPT !.fills = Append(@, [price |-> level.price, size |-> n]), !.left = @ - n]

\* The size beyond the visible levels.
TakeExhausted(order, config, walk, levels) ==
  LET price == ExhaustionPrice(order.side, levels[Len(levels)].price, config.multiplier) IN
    IF walk.left = 0 \/ walk.beyond \/ config.touch THEN walk
    ELSE IF Beyond(order, price) THEN [walk EXCEPT !.beyond = TRUE]
    ELSE [walk EXCEPT !.fills = Append(@, [price |-> price, size |-> walk.left]), !.left = 0]

\* walk_book(): fills, or the reason why there are none.
Walk(book, order, config) ==
  LET levels == LevelsFor(book, order.side)
      start == [fills |-> << >>, left |-> order.size, beyond |-> FALSE, error |-> "none"]
      visible == FoldLeft(LAMBDA w, l : TakeLevel(order, config, w, l), start, levels)
      walk == TakeExhausted(order, config, visible, levels)
  IN IF config.multiplier < 100 \/ order.size <= 0 THEN [start EXCEPT !.error = "invalid_input"]
     ELSE IF levels = << >> THEN [start EXCEPT !.error = "no_liquidity"]
     ELSE IF visible.error # "none" THEN [visible EXCEPT !.fills = << >>]
     ELSE IF walk.fills # << >> THEN walk
     ELSE [walk EXCEPT !.error = IF walk.beyond THEN "limit_violation" ELSE "insufficient_depth"]

SumSeq(s) == FoldLeft(LAMBDA a, b : a + b, 0, s)
SizeOf(fills) == SumSeq([i \in DOMAIN fills |-> fills[i].size])
CostOf(fills) == SumSeq([i \in DOMAIN fills |-> fills[i].price * fills[i].size])

\* compute_slippage(): |average - best| / best, in units.
Slippage(fills, side, book) ==
  LET best == LevelsFor(book, side)[1].price
      gap == CostOf(fills) - best * SizeOf(fills)
  IN ((IF gap < 0 THEN -gap ELSE gap) * Unit) \div (best * SizeOf(fills))

DefaultFill == [touch |-> FALSE, multiplier |-> 105]

\* walk_leg(): a market order through a book.
WalkLeg(book, side, size, config) ==
  Walk(book, [side |-> side, size |-> size, limit |-> 0], config)

-----------------------------------------------------------------------------
(* The decomposition *)

Stale == 2
DefaultBridge == 50    \* 0.5%

Positive(x) == IF x > 0 THEN x ELSE 0
Clamp(x, top) == IF x > top THEN top ELSE Positive(x)

GrossSpread(buy, sell, kind) ==
  LET gap == sell - buy IN
    CASE buy <= 0 \/ sell <= 0 -> 0
      [] buy > 0 /\ sell > 0 /\ kind = "probability" -> Positive(gap)
      [] OTHER -> ((IF gap < 0 THEN -gap ELSE gap) * 2 * Unit) \div (buy + sell)

\* FeeCatalog: the schedules of the packs' fees.toml, in percent; a venue
\* without one, or a read-only one, cannot form an opportunity.
FeeError(v) ==
  CASE v = "openbb" -> "read_only_venue" [] v = "template" -> "missing_venue" [] OTHER -> "none"

EstimateLeg(v, price, size) ==
  LET p == Clamp(price, Unit) IN
    CASE v \in {"kalshi", "polymarket"} -> (size * 7 * p * (Unit - p)) \div (100 * Unit)
      [] v = "hyperliquid" -> (size * price * 7) \div Unit
      [] v = "alpaca" -> (size * price * 25) \div Unit

\* MismatchConfig: the same venue has none, an unlisted pair the default.
DiscountFor(a, b) ==
  CASE a = b \/ {a, b} = {"alpaca", "hyperliquid"} -> 0
    [] {a, b} = {"kalshi", "polymarket"} -> 15
    [] OTHER -> 25

BridgeCost(size, crossChain) == IF crossChain THEN size * DefaultBridge ELSE 0

LiquidityHaircut(size, depth) ==
  IF depth <= 0 \/ size <= depth THEN 0 ELSE ((size - depth) * (Unit \div 200)) \div depth

\* Mutant: a stale quote is not penalized beyond twice the limit.
StalenessPenaltyWindow(age) ==
  IF age <= Stale \/ age > 2 * Stale THEN 0
  ELSE (Clamp(age - Stale, Stale) * (Unit \div 100)) \div Stale

\* Zero up to tick_stale_ms, then growing, capped at the double.
StalenessPenalty(age) ==
  IF age <= Stale THEN 0
  ELSE (Clamp(age - Stale, Stale) * (Unit \div 100)) \div Stale

ConfidencePenalty(gross, confidence) == ((Unit - Clamp(confidence, Unit)) * Positive(gross)) \div Unit

\* decompose() and with_slippage(): gross minus the sum of the others.  Gas is
\* only asked for legs on a chain, which no caller has.
Decompose(a, size, age, depth, slippage) ==
  LET gross == GrossSpread(a.buy, a.sell, a.kind)
      costs == <<EstimateLeg(a.venues[1], a.buy, size) + EstimateLeg(a.venues[2], a.sell, size),
                 Positive(slippage),
                 a.funding,
                 BridgeCost(size, a.crossChain),
                 (gross * DiscountFor(a.venues[1], a.venues[2])) \div 100,
                 LiquidityHaircut(size, depth),
                 StalenessPenalty(age),
                 ConfidencePenalty(gross, a.confidence)>>
  IN [gross |-> gross, costs |-> costs, net |-> gross - SumSeq(costs)]
=============================================================================

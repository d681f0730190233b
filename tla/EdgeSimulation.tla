--------------------------- MODULE EdgeSimulation ---------------------------
(***************************************************************************)
(* The simulator (connectors/execution/simulator) and its callers, the     *)
(* action service and the MCP tool (server/actions/service.py,             *)
(* server/mcp/simulator.py).  One request is made and answered.            *)
(***************************************************************************)
EXTENDS EdgeDecomposition

CONSTANTS Prices, Sizes, Ages, Books

VARIABLES stage, ask, told

vars == <<stage, ask, told>>

-----------------------------------------------------------------------------
(* Simulator.                                                              *)

\* validate_input()
Invalid(a) ==
  \/ a.buy <= 0 \/ a.sell <= 0 \/ a.size <= 0
  \/ a.confidence \notin 0 .. Unit \/ a.age < 0 \/ a.stale <= 0
  \/ ~a.booksMatch

Legs(a, size) ==
  <<WalkLeg(a.book, "buy", size, DefaultFill), WalkLeg(a.book, "sell", size, DefaultFill)>>

SlippageOf(a, legs) ==
  Slippage(legs[1].fills, "buy", a.book) + Slippage(legs[2].fills, "sell", a.book)

Depth(a) == (SizeOf(a.book.asks) + SizeOf(a.book.bids)) \div 2

\* SensitivityTable::compute(): a row for every size (in halves of the one
\* asked for) and age.
Rows(a) ==
  [half \in 1 .. 4, age \in Ages |->
     LET size == (a.size * half) \div 2
         legs == Legs(a, size)
     IN IF size = 0 THEN [net |-> 0]
        ELSE [net |-> Decompose(a, size, age, Depth(a), SlippageOf(a, legs)).net]]

\* simulate(): its own decomposition has no depth, and so no haircut.
Simulate(a) ==
  LET legs == Legs(a, a.size) IN
    CASE Invalid(a) -> [status |-> "insufficient_data"]
      [] ~Invalid(a) /\ \E i \in 1 .. 2 : FeeError(a.venues[i]) # "none" -> [status |-> "fee_error"]
      [] OTHER ->
           IF \E i \in 1 .. 2 : legs[i].fills = << >> THEN [status |-> "fill_error"]
           ELSE [status |-> "ok", legs |-> legs, rows |-> Rows(a),
                 edge |-> Decompose(a, a.size, a.age, 0, SlippageOf(a, legs))]

-----------------------------------------------------------------------------
(* Requests.                                                               *)

\* What the MCP tool may be given.
Payloads ==
  [buy : Prices, sell : Prices, kind : {"probability", "currency"}, size : Sizes,
   book : Books, funding : {0}, age : Ages, stale : {0, Stale}, confidence : {Unit \div 2, Unit},
   crossChain : BOOLEAN, venues : {<<"kalshi", "kalshi">>, <<"kalshi", "hyperliquid">>,
   <<"hyperliquid", "openbb">>, <<"template", "kalshi">>}, booksMatch : BOOLEAN]

\* The quotes the database has for the two legs of an opportunity, and the
\* side of each leg.
Sides == Buys \cup Sells
QuoteRows == [bid : Prices \cup {0}, ask : Prices \cup {0}, bidSize : {0, 2}, askSize : {0, 2},
              age : Ages, contract : BOOLEAN]

\* _simulation_payload(): the first buying and the first selling leg, each with
\* its executable price, and a book of one level whose size serves both sides.
LevelSize(row) == IF row.askSize # 0 THEN row.askSize ELSE row.bidSize
Priced(side, row) == IF side \in {"buy", "buy_no"} THEN row.ask ELSE row.bid
OneLevel(price, row) == IF price = 0 THEN << >> ELSE <<[price |-> price, size |-> LevelSize(row)]>>

SimulationPayload(sides, row, size) ==
  IF \/ Priced(sides[1], row) = 0 \/ Priced(sides[2], row) = 0
     \/ sides[1] \notin Buys \/ sides[2] \notin Sells
     \/ size = 0 \/ LevelSize(row) = 0
  THEN [rejected |-> TRUE]
  ELSE [rejected |-> FALSE, buy |-> row.ask, sell |-> row.bid,
        kind |-> IF row.contract THEN "probability" ELSE "currency", size |-> size,
        book |-> [bids |-> OneLevel(row.bid, row), asks |-> OneLevel(row.ask, row)],
        funding |-> 0, age |-> row.age, stale |-> Stale, confidence |-> Unit,
        crossChain |-> FALSE, venues |-> <<"kalshi", "kalshi">>, booksMatch |-> TRUE]

Init == stage = "idle" /\ ask = << >> /\ told = << >>

ToolCall ==
  /\ stage = "idle" /\ stage' = "simulate"
  /\ \E a \in Payloads : ask' = a
  /\ UNCHANGED told

\* ActionService.simulate(): a grant of tier 2 first.
ActionCall ==
  /\ stage = "idle"
  /\ \E sides \in Sides \X Sides, row \in QuoteRows, size \in Sizes, granted \in BOOLEAN :
       LET payload == IF granted THEN SimulationPayload(sides, row, size) ELSE [rejected |-> TRUE] IN
         /\ ask' = payload
         /\ stage' = IF payload.rejected THEN "done" ELSE "simulate"
         /\ told' = IF payload.rejected THEN [status |-> "rejected"] ELSE told

\* run_simulation(): the simulator is a process of its own, which may be
\* missing, time out or answer something incomplete.
Answer ==
  /\ stage = "simulate" /\ stage' = "done"
  /\ LET result == Simulate(ask) IN
       told' \in {[status |-> "unavailable"],
                  IF result.status = "ok" THEN result ELSE [status |-> "rejected"]}
  /\ UNCHANGED ask

Next == ToolCall \/ ActionCall \/ Answer

Spec == Init /\ [][Next]_vars

-----------------------------------------------------------------------------
Simulated == stage = "done" /\ told.status = "ok"

\* Both legs are filled with the size asked for, level by level at prices that
\* only become worse, so a simulation promises no size that only one leg gets.
LegsFilledAlike ==
  Simulated => \A i \in 1 .. 2 :
    LET fills == told.legs[i].fills IN
      /\ SizeOf(fills) = ask.size
      /\ \A j \in 1 .. Len(fills) - 1 :
           IF i = 1 THEN fills[j].price <= fills[j + 1].price
           ELSE fills[j].price >= fills[j + 1].price

\* A larger size or an older quote never improves the edge in the sensitivity
\* table, where fees, slippage, bridge and haircut are computed anew per row.
EdgeNeverImproves ==
  Simulated => \A h, k \in 1 .. 4, a, b \in Ages :
    (h <= k /\ a <= b /\ (ask.size * h) \div 2 > 0) => told.rows[k, b].net <= told.rows[h, a].net

\* What is told of a simulated edge and what its table says of the same size
\* and age differ by the haircut for depth only.
TableAgrees ==
  Simulated => told.edge.net - told.rows[2, ask.age].net = LiquidityHaircut(ask.size, Depth(ask))

SimulationSound == LegsFilledAlike /\ EdgeNeverImproves /\ TableAgrees

\* "monotone in max quote age across legs, zero below venue tick_stale_ms,
\* steep past 2x" (SPEC-012): the code's penalty is constant past 2x.
SteepPastTwice ==
  (Simulated /\ ask.age > 2 * Stale) => StalenessPenalty(ask.age) > StalenessPenalty(2 * Stale)
=============================================================================

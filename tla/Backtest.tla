------------------------------ MODULE Backtest ------------------------------
(***************************************************************************)
(* Backtester::run of crates/aether-agents: a threshold strategy over the  *)
(* recorded ticks of a capture, one tick per step.  The hashes of the      *)
(* report are left out.                                                    *)
(***************************************************************************)
EXTENDS Integers, Sequences, SequencesExt

CONSTANTS Prices, MaxTicks, Thresholds, Rates

VARIABLES strategy, ticks, entry, book, report

vars == <<strategy, ticks, entry, book, report>>

\* bps_cost rounds a fee or a slippage up to the minor unit.
BpsCost(value, bps) == (value * bps + 9999) \div 10000

\* validate_strategy.
Valid(s) ==
  /\ s.buy > 0 /\ s.sell > s.buy
  /\ s.fee \in 0 .. 10000 /\ s.slip \in 0 .. 10000

NoEntry == 0
Empty == [gross |-> 0, fees |-> 0, slippage |-> 0, trips |-> 0, forced |-> 0]

Init ==
  /\ strategy \in {s \in [buy : Thresholds, sell : Thresholds, fee : Rates, slip : Rates] : Valid(s)}
  /\ ticks = << >> /\ entry = NoEntry /\ book = Empty /\ report = "running"

\* Mutant: the entry's side of the costs is left out.
ClosedExitOnly(b, from, to) ==
  [b EXCEPT !.gross = @ + to - from,
            !.fees = @ + BpsCost(to, strategy.fee),
            !.slippage = @ + BpsCost(to, strategy.slip),
            !.trips = @ + 1]

\* A round trip pays its fee and its slippage on both sides.
Closed(b, from, to) ==
  [b EXCEPT !.gross = @ + to - from,
            !.fees = @ + BpsCost(from, strategy.fee) + BpsCost(to, strategy.fee),
            !.slippage = @ + BpsCost(from, strategy.slip) + BpsCost(to, strategy.slip),
            !.trips = @ + 1]

Exits(price) == entry # NoEntry /\ price >= strategy.sell
Enters(price) == entry = NoEntry /\ price <= strategy.buy

Tick ==
  /\ report = "running" /\ Len(ticks) < MaxTicks
  /\ \E price \in Prices :
       /\ ticks' = Append(ticks, price)
       /\ entry' = IF Enters(price) THEN price ELSE IF Exits(price) THEN NoEntry ELSE entry
       /\ book' = IF Exits(price) THEN Closed(book, entry, price) ELSE book
  /\ UNCHANGED <<strategy, report>>

\* After the last tick an open position is closed at its price.
Finish ==
  /\ report = "running" /\ ticks # << >>
  /\ book' = IF entry = NoEntry THEN book
             ELSE [Closed(book, entry, Last(ticks)) EXCEPT !.forced = 1]
  /\ report' = "done" /\ entry' = NoEntry
  /\ UNCHANGED <<strategy, ticks>>

Next == Tick \/ Finish
Spec == Init /\ [][Next]_vars

-----------------------------------------------------------------------------
\* The reference: the position after each tick, and the two prices of each
\* change of it.
HeldAfter ==
  LET held[k \in 0 .. Len(ticks)] ==
        IF k = 0 THEN FALSE
        ELSE IF held[k - 1] THEN ticks[k] < strategy.sell ELSE ticks[k] <= strategy.buy
  IN held

Trades ==
  LET held == HeldAfter IN
    {k \in DOMAIN ticks : held[k] # held[k - 1]}

SumOver(S, Op(_)) == FoldSet(LAMBDA k, sum : sum + Op(k), 0, S)

\* The report's profit is that of every purchase and sale, the position left
\* at the end sold at the last price, and no side of a trade free of costs
\* (backtest.rs, run).
ReportExact ==
  report = "done" =>
    LET held == HeldAfter
        last == Last(ticks)
        open == IF held[Len(ticks)] THEN 1 ELSE 0
        cost(price, bps) == BpsCost(price, bps)
        Flow(k) == IF held[k] THEN -ticks[k] ELSE ticks[k]
        Fee(k) == cost(ticks[k], strategy.fee)
        Slip(k) == cost(ticks[k], strategy.slip)
    IN /\ book.gross = SumOver(Trades, Flow) + open * last
       /\ book.fees = SumOver(Trades, Fee) + open * cost(last, strategy.fee)
       /\ book.slippage = SumOver(Trades, Slip) + open * cost(last, strategy.slip)
       /\ book.forced = open
=============================================================================

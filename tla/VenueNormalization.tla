------------------------- MODULE VenueNormalization -------------------------
(***************************************************************************)
(* How the venue packs turn a venue's quotes, books and markets into the   *)
(* canonical ones: normalize.rs of Kalshi, Polymarket, Alpaca and          *)
(* Hyperliquid, normalize.py of OpenBB.                                    *)
(*                                                                         *)
(* A numeric field of a message is Absent, Bad (it does not parse) or a    *)
(* number; One stands for probability 1.  A name is its letters and their  *)
(* case, since packs fold it.  A mid is kept doubled, to stay an integer.  *)
(*                                                                         *)
(* The state is one message and what became of it: the module is checked   *)
(* over all messages of the input sets.                                    *)
(***************************************************************************)
EXTENDS Integers, Sequences, SequencesExt, FiniteSetsExt

CONSTANTS Numbers,       \* the numbers a field can hold
          One,
          MaxLevels      \* levels on a side of a book

VARIABLES message, result

vars == <<message, result>>

Absent == -100
Bad    == -99
Fields == Numbers \cup {Absent, Bad}
Given(f) == f # Absent

Refused == [ok |-> FALSE]
NotYet  == [ok |-> FALSE, pending |-> TRUE]

-----------------------------------------------------------------------------
(* Decoding a field.                                                       *)

\* A field that has to satisfy a bound when it is there.
Checked(f, Valid(_)) == IF Given(f) /\ (f = Bad \/ ~Valid(f)) THEN Bad ELSE f

Anything(n) == TRUE

\* parse_optional_decimal(): prices are positive, sizes are not negative.
OptionalPrice(f) == Checked(f, LAMBDA n : n > 0)
OptionalSize(f)  == Checked(f, LAMBDA n : n >= 0)

\* parse_probability() and parse_size().
Probability(f) == Checked(f, LAMBDA n : n \in 0 .. One)
Size(f)        == Checked(f, LAMBDA n : n >= 0)

FirstGiven(f, g) == IF Given(f) THEN f ELSE g

Mid2(bid, ask) == IF Given(bid) /\ Given(ask) THEN bid + ask ELSE Absent

Quote(bid, ask, mid2, last) ==
  [ok |-> TRUE, kind |-> "quote", bid |-> bid, ask |-> ask, mid2 |-> mid2, last |-> last]

QuoteUnless(bad, q) == IF bad THEN Refused ELSE q

-----------------------------------------------------------------------------
(* Quotes.                                                                 *)

\* Kalshi: dollars before cents; a price is needed, nothing is compared.
KalshiTick(m) ==
  LET price == FirstGiven(Checked(m.dollars, Anything), m.cents)
      bid   == FirstGiven(Checked(m.bid, Anything), m.bid_cents)
      ask   == Checked(m.ask, Anything)
      size  == Checked(m.size, Anything)
  IN QuoteUnless(Bad \in {price, bid, ask, size} \/ ~Given(price) \/ ~m.named \/ ~m.timed,
                 Quote(bid, ask, Absent, price))

\* Polymarket: a trade has a price; the other events the best bid and ask,
\* which must not cross.
PolymarketTick(m) ==
  LET price == Probability(m.price)
      bid   == Probability(m.bid)
      ask   == Probability(m.ask)
      top   == /\ Bad \notin {bid, ask}
               /\ Given(bid) \/ Given(ask)
               /\ Given(bid) /\ Given(ask) => bid <= ask
  IN IF Size(m.size) = Bad \/ ~m.named THEN Refused
     ELSE IF m.event = "last_trade_price"
          THEN QuoteUnless(price = Bad \/ ~Given(price), Quote(Absent, Absent, Absent, price))
     ELSE IF m.event \in {"price_change", "best_bid_ask"}
          THEN QuoteUnless(~top, Quote(bid, ask, Mid2(bid, ask), Absent))
     ELSE Refused

\* Alpaca: positive prices, at least one of them.
AlpacaSnapshot(m) ==
  LET bid  == OptionalPrice(m.bid)
      ask  == OptionalPrice(m.ask)
      last == OptionalPrice(m.price)
  IN QuoteUnless(\/ Bad \in {bid, ask, last, OptionalSize(m.size)} \/ ~m.named
                 \/ ~Given(bid) /\ ~Given(ask) /\ ~Given(last),
                 Quote(bid, ask, Mid2(bid, ask), last))

\* Hyperliquid: only a mid, which is positive.
HyperliquidMid(m) ==
  QuoteUnless(~m.named \/ m.price \in {Absent, Bad} \/ m.price <= 0,
              Quote(Absent, Absent, 2 * m.price, Absent))

\* OpenBB: last_price unless it is missing or zero, then last; a quote
\* without any price is a quote.
OpenbbQuote(m) ==
  LET last == Checked(IF m.dollars \in {Absent, 0} THEN m.cents ELSE m.dollars, Anything)
      bid  == Checked(m.bid, Anything)
      ask  == Checked(m.ask, Anything)
  IN QuoteUnless(Bad \in {bid, ask, last, Checked(m.size, Anything)},
                 Quote(bid, ask, Mid2(bid, ask), last))

\* OpenBB's option contracts, which need their own symbol.
OpenbbOptionQuote(m) == IF m.named THEN OpenbbQuote(m) ELSE Refused

-----------------------------------------------------------------------------
(* Books: sides are sequences of [price, size].                            *)

Descending(s) == \A i \in 1 .. Len(s) - 1 : s[i].price > s[i + 1].price
Ascending(s)  == \A i \in 1 .. Len(s) - 1 : s[i].price < s[i + 1].price

\* OrderBook::new().
OrderBook(bids, asks) ==
  IF Descending(bids) /\ Ascending(asks)
  THEN [ok |-> TRUE, kind |-> "book", bids |-> bids, asks |-> asks]
  ELSE Refused

\* Polymarket sorts the sides it is sent.
PolymarketBook(m) ==
  IF m.named /\ \A l \in ToSet(m.bids \o m.asks) : Bad \notin {Probability(l.price), Size(l.size)}
  THEN OrderBook(SortSeq(m.bids, LAMBDA a, b : a.price > b.price),
                 SortSeq(m.asks, LAMBDA a, b : a.price < b.price))
  ELSE Refused

\* Mutant: the last size sent at a price is its size.
KalshiBookLast(m) ==
  LET asks == m.asks \o [i \in DOMAIN m.no |-> [m.no[i] EXCEPT !.price = One - @]]
      SizeAt(s, p) == FoldSeq(LAMBDA l, n : IF l.price = p THEN l.size ELSE n, 0, s)
      Merged(s) == {[price |-> p, size |-> SizeAt(s, p)] : p \in {l.price : l \in ToSet(s)}}
  IN IF ~m.named \/ \E l \in ToSet(m.bids \o m.no) : Bad \in {l.price, l.size}
     THEN Refused
     ELSE OrderBook(SetToSortSeq(Merged(m.bids), LAMBDA a, b : a.price > b.price),
                    SetToSortSeq(Merged(asks), LAMBDA a, b : a.price < b.price))

\* Kalshi adds up what it is sent at a price, as asks in cents or as bids for
\* No: a bid for No at p is an ask at One - p.  Nothing bounds a number.
KalshiBook(m) ==
  LET asks == m.asks \o [i \in DOMAIN m.no |-> [m.no[i] EXCEPT !.price = One - @]]
      SizeAt(s, p) == FoldSeq(LAMBDA l, n : IF l.price = p THEN n + l.size ELSE n, 0, s)
      Merged(s) == {[price |-> p, size |-> SizeAt(s, p)] : p \in {l.price : l \in ToSet(s)}}
  IN IF ~m.named \/ \E l \in ToSet(m.bids \o m.no) : Bad \in {l.price, l.size}
     THEN Refused
     ELSE OrderBook(SetToSortSeq(Merged(m.bids), LAMBDA a, b : a.price > b.price),
                    SetToSortSeq(Merged(asks), LAMBDA a, b : a.price < b.price))

\* Hyperliquid takes them as they come, levels strictly positive.
HyperliquidBook(m) ==
  IF m.named /\ \A l \in ToSet(m.bids \o m.asks) : Bad \notin {OptionalPrice(l.price), OptionalPrice(l.size)}
  THEN OrderBook(m.bids, m.asks)
  ELSE Refused

-----------------------------------------------------------------------------
(* Markets.                                                                *)

Lower(name) == [name EXCEPT !.case = "lower"]
Markets(s)  == [ok |-> TRUE, kind |-> "markets", markets |-> s]
Market(key, kind, status) == [key |-> key, kind |-> kind, status |-> status]

\* Statuses a venue may send, and what they become.
KalshiStatus == [open |-> "open", closed |-> "closed", settled |-> "resolved"]
AlpacaStatus == [active |-> "open", inactive |-> "closed"]

KalshiMarket(m) ==
  IF m.name.letters # "" /\ m.status \in DOMAIN KalshiStatus
  THEN Markets(<<Market(Lower(m.name), "binary", KalshiStatus[m.status])>>)
  ELSE Refused

AlpacaAsset(m) ==
  IF m.name.letters # "" /\ m.status \in DOMAIN AlpacaStatus
  THEN Markets(<<Market(Lower(m.name), "equity", AlpacaStatus[m.status])>>)
  ELSE Refused

HyperliquidMarket(m) ==
  IF m.name.letters # ""
  THEN Markets(<<Market(Lower(m.name), "perp",
                        IF m.status = "delisted" THEN "closed" ELSE "open")>>)
  ELSE Refused

HyperliquidSpot(m) ==
  IF m.name.letters # "" /\ Len(m.tokens) = 2
  THEN Markets(<<Market([letters |-> "@", case |-> "none"], "spot", "open")>>)
  ELSE Refused

OpenbbMarket(m) ==
  IF m.status # "" THEN Markets(<<Market(Lower(m.name), "equity", "open")>>) ELSE Refused

OpenbbContract(m) ==
  IF m.name.letters # "" THEN Markets(<<Market(Lower(m.name), "option", "open")>>) ELSE Refused

PolymarketStatus(active, closed) ==
  IF closed THEN "closed" ELSE IF active THEN "open" ELSE "halted"

\* Mutant: the tokens are paired with the prices, not counted against the
\* outcomes.
PolymarketMarketsUncounted(m) ==
  IF /\ m.named /\ Len(m.tokens) > 0 /\ Len(m.prices) >= Len(m.tokens)
     /\ \A t \in ToSet(m.tokens) : t # ""
     /\ \A p \in ToSet(m.prices) : Probability(p) # Bad
  THEN Markets([i \in DOMAIN m.tokens |->
         Market([letters |-> m.tokens[i], case |-> "none"],
                IF m.outcomes = 2 THEN "binary" ELSE "categorical",
                PolymarketStatus(m.active, m.closed))])
  ELSE Refused

\* One market per outcome, keyed by its token: all of them or none.
PolymarketMarkets(m) ==
  IF /\ m.named /\ m.outcomes > 0
     /\ m.outcomes = Len(m.tokens) /\ m.outcomes = Len(m.prices)
     /\ \A t \in ToSet(m.tokens) : t # ""
     /\ \A p \in ToSet(m.prices) : Probability(p) # Bad
  THEN Markets([i \in 1 .. m.outcomes |->
         Market([letters |-> m.tokens[i], case |-> "none"],
                IF m.outcomes = 2 THEN "binary" ELSE "categorical",
                PolymarketStatus(m.active, m.closed))])
  ELSE Refused

-----------------------------------------------------------------------------
(* Messages.                                                               *)

Sizes == {Absent, Bad, 0, 1}
QuoteVenues == {"kalshi", "polymarket", "alpaca", "hyperliquid", "openbb", "option"}
Events == {"last_trade_price", "price_change", "best_bid_ask", "book"}

\* Cents are integers: they cannot fail to parse.  Fields of other venues are
\* left out of a message.
Cents == Numbers \cup {Absent}

QuoteMessages ==
  [venue : {"kalshi"}, dollars : Fields, cents : Cents, bid : Fields, bid_cents : {Absent, 1},
   ask : Fields, size : Sizes, named : BOOLEAN, timed : BOOLEAN]
  \cup [venue : {"polymarket"}, event : Events, price : Fields, bid : Fields, ask : Fields,
        size : Sizes, named : BOOLEAN]
  \cup [venue : {"alpaca"}, price : Fields, bid : Fields, ask : Fields, size : Sizes,
        named : BOOLEAN]
  \cup [venue : {"hyperliquid"}, price : Fields, named : BOOLEAN]
  \cup [venue : {"openbb", "option"}, dollars : Fields, cents : Fields, bid : Fields,
        ask : Fields, size : Sizes, named : BOOLEAN]

Levels == [price : Fields \ {Absent}, size : {Bad, 0, 1}]
Sides  == BoundedSeq(Levels, MaxLevels)

\* Levels in cents are integers.  A book that is not named lacks its market
\* (or, at Hyperliquid, one of its two sides).
BookMessages ==
  [venue : {"polymarket-book", "hyperliquid-book"}, named : BOOLEAN, bids : Sides, asks : Sides]
  \cup [venue : {"kalshi-book"}, named : BOOLEAN, bids : Sides, no : BoundedSeq(Levels, 1),
        asks : BoundedSeq([price : Numbers, size : {0, 1}], 1)]

NormalizeQuote(m) ==
  CASE m.venue = "kalshi"      -> KalshiTick(m)
    [] m.venue = "polymarket"  -> PolymarketTick(m)
    [] m.venue = "alpaca"      -> AlpacaSnapshot(m)
    [] m.venue = "hyperliquid" -> HyperliquidMid(m)
    [] m.venue = "openbb"      -> OpenbbQuote(m)
    [] m.venue = "option"      -> OpenbbOptionQuote(m)

NormalizeBook(m) ==
  CASE m.venue = "polymarket-book"  -> PolymarketBook(m)
    [] m.venue = "hyperliquid-book" -> HyperliquidBook(m)
    [] m.venue = "kalshi-book"      -> KalshiBook(m)

Names == [letters : {"", "X", "Y"}, case : {"upper", "mixed"}]

MarketMessages ==
  [venue : {"kalshi-market", "alpaca-asset", "perp", "openbb-profile", "contract"}, name : Names,
   status : {"open", "closed", "settled", "active", "inactive", "delisted", ""}]
  \cup [venue : {"spot"}, name : Names, tokens : BoundedSeq({"t", "u"}, 2)]
  \cup [venue : {"gamma"}, named : BOOLEAN, active : BOOLEAN, closed : BOOLEAN, outcomes : 0 .. 3,
        tokens : BoundedSeq({"", "t", "u"}, 3), prices : BoundedSeq({Bad, 0, One, One + 1}, 3)]

NormalizeMarket(m) ==
  CASE m.venue = "kalshi-market"  -> KalshiMarket(m)
    [] m.venue = "alpaca-asset"   -> AlpacaAsset(m)
    [] m.venue = "perp"           -> HyperliquidMarket(m)
    [] m.venue = "spot"           -> HyperliquidSpot(m)
    [] m.venue = "openbb-profile" -> OpenbbMarket(m)
    [] m.venue = "contract"       -> OpenbbContract(m)
    [] m.venue = "gamma"          -> PolymarketMarkets(m)

Init == message = [venue |-> "none"] /\ result = NotYet

Quotes == \E m \in QuoteMessages : message' = m /\ result' = NormalizeQuote(m)
Books  == \E m \in BookMessages : message' = m /\ result' = NormalizeBook(m)
Listed == \E m \in MarketMessages : message' = m /\ result' = NormalizeMarket(m)

Next == message.venue = "none" /\ (Quotes \/ Books \/ Listed)

Spec == Init /\ [][Next]_vars

-----------------------------------------------------------------------------
Accepted(kind) == result.ok /\ result.kind = kind

\* The prices a venue's rules read from a message.
PricesRead ==
  CASE message.venue = "kalshi" -> {message.dollars, message.bid, message.ask}
    [] message.venue = "polymarket" ->
         IF message.event = "last_trade_price" THEN {message.price}
         ELSE {message.bid, message.ask}
    [] message.venue = "alpaca" -> {message.price, message.bid, message.ask}
    [] message.venue = "hyperliquid" -> {message.price}
    [] message.venue \in {"openbb", "option"} ->
         {message.bid, message.ask,
          IF message.dollars \in {Absent, 0} THEN message.cents ELSE message.dollars}

\* A quote is never made from a message with a price that does not parse, and
\* every price it does have is one the venue sent; where a pack refuses crossed
\* quotes, a mid lies between its bid and ask.
QuotesExact ==
  Accepted("quote") =>
    /\ Bad \notin PricesRead
    /\ {result.bid, result.ask, result.last} \ {Absent} \subseteq
         PricesRead \cup {message[f] : f \in {"cents", "bid_cents"} \cap DOMAIN message}
    /\ Given(result.mid2) /\ message.venue = "polymarket" =>
         result.mid2 \in 2 * result.bid .. 2 * result.ask

\* A side is what the venue sent for it: every price once, the best first, with
\* the sizes sent at it.
SideExact(side, sent) ==
  /\ {l.price : l \in ToSet(side)} = {l.price : l \in ToSet(sent)}
  /\ \A l \in ToSet(side) :
       l.size = MapThenSumSet(LAMBDA i : sent[i].size, {i \in DOMAIN sent : sent[i].price = l.price})

\* The asks of a message, a bid for No being one.
AsksSent ==
  message.asks \o IF message.venue # "kalshi-book" THEN << >>
                  ELSE [i \in DOMAIN message.no |->
                          [price |-> One - message.no[i].price, size |-> message.no[i].size]]

\* A book that is accepted is the one the venue sent: no level is lost, split
\* or made up, and the best of each side comes first.
BooksExact ==
  Accepted("book") =>
    /\ SideExact(result.bids, message.bids) /\ Descending(result.bids)
    /\ SideExact(result.asks, AsksSent) /\ Ascending(result.asks)
    /\ \A l \in ToSet(result.bids \o result.asks) : Bad \notin {l.price, l.size}

\* A market of Polymarket becomes one canonical market for each of its
\* outcomes, or none at all.
OutcomesComplete ==
  (Accepted("markets") /\ message.venue = "gamma") =>
    /\ Len(result.markets) = message.outcomes
    /\ \A mk \in ToSet(result.markets) : mk.kind = "binary" <=> message.outcomes = 2

NormalizedExactly == QuotesExact /\ BooksExact /\ OutcomesComplete
=============================================================================

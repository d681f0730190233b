--------------------------- MODULE PaperAccounts ---------------------------
(***************************************************************************)
(* The paper ledger's accounts of one market: orders, fills, the position  *)
(* and its profit and loss in memory (ledger.rs, positions.rs, pnl.rs of   *)
(* src/connectors/execution/paper-ledger/src), the fill outbox in memory   *)
(* (service.rs, submit and flush_outbox) and the durable position row that *)
(* the same arithmetic writes (persistence.rs).  What walk_book returns    *)
(* for an intent is a member of Walks: EdgeDecomposition has the walk.     *)
(*                                                                         *)
(* Prices are integers that the averages divide exactly; the durable       *)
(* protocol around the row is the subject of PaperExecution.               *)
(***************************************************************************)
EXTENDS Integers, Sequences

CONSTANTS
    Orders,         \* intent identifiers
    Intents,        \* payloads: side and size
    Walks,          \* fill sequences of [price, size, fee]
    Mids,           \* quote midpoints
    MaxFailures     \* bound: sends that fail

VARIABLES
    orders,         \* PaperLedger.orders
    fills,          \* PaperLedger.fills
    position,       \* the market's Position
    mark,           \* PnLCalculator.current_mark_prices of the market
    totalFees,      \* PnLCalculator.total_fees
    outbox,         \* PaperExecutionService.outbox
    published,      \* orders.fills, as the broker received it
    failures,
    row,            \* the durable positions row
    latest,         \* quotes_latest.mid of the market; only ever read here
    opportunity,    \* the accepted opportunity the orders may serve
    attributed      \* its attribution row: how often it was written
vars == <<orders, fills, position, mark, totalFees, outbox, published,
          failures, row, latest, opportunity, attributed>>

NoMark == 0
NoPosition == [net |-> 0, avg |-> 0, realized |-> 0, fees |-> 0, count |-> 0]

Init ==
    /\ orders = [o \in {} |-> 0]
    /\ fills = <<>>
    /\ position = NoPosition
    /\ mark = NoMark
    /\ totalFees = 0
    /\ outbox = <<>> /\ published = <<>> /\ failures = 0
    /\ row = [net |-> 0, avg |-> 0, realized |-> 0, unrealized |-> 0]
    /\ latest \in Mids \cup {NoMark}
    /\ opportunity = [state |-> "accepted", order |-> 0, partial |-> FALSE]
    /\ attributed = 0

-----------------------------------------------------------------------------
(* Position arithmetic *)

Sign(n) == IF n > 0 THEN 1 ELSE IF n < 0 THEN -1 ELSE 0
Abs(n) == IF n < 0 THEN -n ELSE n
Least(a, b) == IF a < b THEN a ELSE b

\* YES and NO are not told apart.
SizeDelta(f) == IF f.side \in {"buy", "buy_no"} THEN f.size ELSE -f.size

\* Mutant: a position that flips keeps the average of the side it left.
AverageAfterFlipKept(p, f) ==
    LET delta == SizeDelta(f) new == p.net + delta IN
    IF p.net = 0 THEN f.price
    ELSE IF Sign(p.net) = Sign(delta)
    THEN (p.avg * Abs(p.net) + f.price * Abs(delta)) \div Abs(new)
    ELSE IF new = 0 THEN 0 ELSE p.avg

AverageAfter(p, f) ==
    LET delta == SizeDelta(f) new == p.net + delta IN
    IF p.net = 0 THEN f.price
    ELSE IF Sign(p.net) = Sign(delta)
    THEN (p.avg * Abs(p.net) + f.price * Abs(delta)) \div Abs(new)
    ELSE IF new = 0 THEN 0
    ELSE IF Sign(new) # Sign(p.net) THEN f.price ELSE p.avg

\* Only the quantity that closes is realized.
RealizedBy(p, f) ==
    IF p.net = 0 \/ Sign(p.net) = Sign(SizeDelta(f)) THEN 0
    ELSE (f.price - p.avg) * Least(Abs(p.net), f.size) * Sign(p.net)

ApplyFill(p, f) ==
    [net |-> p.net + SizeDelta(f), avg |-> AverageAfter(p, f),
     realized |-> p.realized - f.fee + RealizedBy(p, f),
     fees |-> p.fees + f.fee, count |-> p.count + 1]

Applied(p, s) ==
    LET after[i \in 0..Len(s)] ==
            IF i = 0 THEN p ELSE ApplyFill(after[i - 1], s[i])
    IN after[Len(s)]

Total(s, Value(_)) ==
    LET sum[i \in 0..Len(s)] == IF i = 0 THEN 0 ELSE sum[i - 1] + Value(s[i])
    IN sum[Len(s)]

-----------------------------------------------------------------------------
(* The ledger and its service *)

FilledBy(o, intent, walk) ==
    [i \in DOMAIN walk |->
        [order |-> o, side |-> intent.side, price |-> walk[i].price,
         size |-> walk[i].size, fee |-> walk[i].fee]]

StatusOf(intent, walk) ==
    IF Total(walk, LAMBDA w : w.size) >= intent.size
    THEN "filled" ELSE "partially_filled"

\* persist_execution writes the row from the row it locked, at the cached
\* quote's mark or else at the last fill's price.
RowAfter(new) ==
    LET held == Applied([NoPosition EXCEPT !.net = row.net, !.avg = row.avg,
                                           !.realized = row.realized], new)
        rowMark == IF latest = NoMark THEN new[Len(new)].price ELSE latest
    IN [net |-> held.net, avg |-> held.avg, realized |-> held.realized,
        unrealized |-> (rowMark - held.avg) * held.net]

\* A new intent: everything is computed on copies and then recorded.
Execute(o, intent, walk) ==
    /\ o \notin DOMAIN orders
    /\ LET new == FilledBy(o, intent, walk)
       IN /\ orders' = [q \in DOMAIN orders \cup {o} |->
                           IF q = o THEN [intent |-> intent,
                                          status |-> StatusOf(intent, walk)]
                           ELSE orders[q]]
          /\ fills' = fills \o new
          /\ position' = Applied(position, new)
          /\ mark' = new[Len(new)].price
          /\ totalFees' = totalFees + Total(new, LAMBDA f : f.fee)
          /\ outbox' = outbox \o new
          /\ row' = RowAfter(new)
    /\ UNCHANGED <<published, failures, latest, opportunity, attributed>>

\* A known intent answers with its fills and changes nothing; another
\* payload under its identifier is rejected.
Replay(o, intent) ==
    /\ o \in DOMAIN orders
    /\ orders[o].intent = intent
    /\ UNCHANGED vars

Send ==
    /\ outbox # <<>>
    /\ outbox' = Tail(outbox)
    /\ published' = Append(published, Head(outbox))
    /\ UNCHANGED <<orders, fills, position, mark, totalFees, failures, row,
                   latest, opportunity, attributed>>

\* The producer errs, with or without the broker having taken the fill.
SendFails(arrives) ==
    /\ outbox # <<>>
    /\ failures < MaxFailures
    /\ failures' = failures + 1
    /\ published' = IF arrives THEN Append(published, Head(outbox))
                    ELSE published
    /\ UNCHANGED <<orders, fills, position, mark, totalFees, outbox, row,
                   latest, opportunity, attributed>>

Cancel(o) ==
    /\ o \in DOMAIN orders
    /\ orders[o].status = "partially_filled"
    /\ orders' = [orders EXCEPT ![o].status = "cancelled"]
    /\ UNCHANGED <<fills, position, mark, totalFees, outbox, published,
                   failures, row, latest, opportunity, attributed>>

\* In memory.
UpdateQuote(mid) ==
    /\ mark' = mid
    /\ UNCHANGED <<orders, fills, position, totalFees, outbox, published,
                   failures, row, latest, opportunity, attributed>>

\* In the database, from every book the consumer reads.
UpdateMark(mid) ==
    /\ row' = [row EXCEPT !.unrealized = (mid - row.avg) * row.net]
    /\ UNCHANGED <<orders, fills, position, mark, totalFees, outbox,
                   published, failures, latest, opportunity, attributed>>

-----------------------------------------------------------------------------
(* The opportunity behind an order *)

\* opportunity_state() locks the row and reads its state, for the transaction.
StateIs(expected) == opportunity.state \in expected

\* transition_opportunity() appends the event that a trigger applies.
Moved(to) == [opportunity EXCEPT !.state = to]

\* A second transaction after the execution's, and again from every replay:
\* an opportunity that is executed already is left alone.
RecordExecution(o) ==
    /\ o \in DOMAIN orders
    /\ StateIs({"accepted"})
    /\ opportunity' =
         [Moved("executed") EXCEPT !.order = o,
          !.partial = Total(SelectSeq(fills, LAMBDA f : f.order = o),
                            LAMBDA f : f.size) < orders[o].intent.size]
    /\ UNCHANGED <<orders, fills, position, mark, totalFees, outbox,
                   published, failures, row, latest, attributed>>

\* Attribution and closure are one transaction; the row is replaced when the
\* opportunity is closed again.
CloseOpportunity ==
    /\ StateIs({"executed", "closed"})
    /\ attributed < MaxFailures + 1
    /\ attributed' = attributed + 1
    /\ opportunity' = Moved("closed")
    /\ UNCHANGED <<orders, fills, position, mark, totalFees, outbox,
                   published, failures, row, latest>>

Next ==
    \/ \E o \in Orders, intent \in Intents, walk \in Walks :
          Execute(o, intent, walk)
    \/ \E o \in Orders, intent \in Intents : Replay(o, intent)
    \/ Send
    \/ \E arrives \in BOOLEAN : SendFails(arrives)
    \/ \E o \in Orders : Cancel(o) \/ RecordExecution(o)
    \/ CloseOpportunity
    \/ \E mid \in Mids : UpdateQuote(mid) \/ UpdateMark(mid)

Spec == Init /\ [][Next]_vars

-----------------------------------------------------------------------------
(* Properties *)

\* What the fills paid in and out.
Cash == Total(fills, LAMBDA f : -SizeDelta(f) * f.price - f.fee)

\* compute_summary: the unrealized part at a mark.
Unrealized(m) == IF m = NoMark THEN 0 ELSE (m - position.avg) * position.net

\* Profit and loss is what the fills paid plus what the position is worth at
\* the mark, through every partial close and flip; the fees are counted once.
ProfitExact ==
    /\ position.net = Total(fills, SizeDelta)
    /\ mark # NoMark =>
          position.realized + Unrealized(mark) = Cash + position.net * mark
    /\ position.fees = totalFees
    /\ totalFees = Total(fills, LAMBDA f : f.fee)
    /\ position.count = Len(fills)

\* The durable row says what memory says, and values its position at a price
\* that was quoted or traded.
RowAgrees ==
    /\ row.net = position.net /\ row.avg = position.avg
    /\ row.realized = position.realized
    /\ \E m \in Mids \cup {fills[i].price : i \in DOMAIN fills} :
          row.unrealized = (m - row.avg) * row.net

\* The sequence without what repeats the element before it.
WithoutRepeats(s) ==
    LET kept[i \in 0..Len(s)] ==
            IF i = 0 THEN <<>>
            ELSE IF i > 1 /\ s[i] = s[i - 1] THEN kept[i - 1]
            ELSE Append(kept[i - 1], s[i])
    IN kept[Len(s)]

\* Every fill is on the bus or waits for it, in the order of the executions;
\* only the fill whose send failed can be there twice.
FillsInOrder == WithoutRepeats(published \o outbox) = WithoutRepeats(fills)

\* An opportunity is executed by an order that is durable, is partial exactly
\* when that order was, and is attributed exactly when it is closed.
OpportunityFollows ==
    /\ opportunity.state # "accepted" =>
          /\ opportunity.order \in DOMAIN orders
          /\ opportunity.partial <=>
                StatusOf(orders[opportunity.order].intent,
                         SelectSeq(fills, LAMBDA f : f.order = opportunity.order))
                  = "partially_filled"
    /\ attributed > 0 <=> opportunity.state = "closed"

\* The accounts of the ledger's documentation: a fill moves the position, the
\* profit and the bus once, whatever was closed, flipped, replayed, cancelled
\* or sent again.
AccountsSound ==
    ProfitExact /\ RowAgrees /\ FillsInOrder /\ OpportunityFollows
=============================================================================

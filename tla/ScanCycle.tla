------------------------------ MODULE ScanCycle ------------------------------
(***************************************************************************)
(* The scanner's incremental cycle (connectors/execution/scanner): quotes  *)
(* and books mark their market dirty, a cycle looks at the pairs a dirty   *)
(* market touches, detects, scores, walks the books, decomposes and emits. *)
(* What it emits enters the life cycle of OpportunityLifecycle.            *)
(*                                                                         *)
(* Markets are numbered in the order of their keys.  Amounts are in units  *)
(* of 1/Unit, ages in halves of max_quote_age_ms (which is tick_stale_ms,  *)
(* so that no candidate pays a penalty for staleness).                     *)
(***************************************************************************)
EXTENDS EdgeDecomposition, FiniteSets

CONSTANTS N,            \* markets 1 .. N
          Venue,        \* the venue of each market
          Event,        \* its kind and canonical event
          Quotes,       \* the quotes a venue may send, [bid, ask]
          Books,        \* the books a venue may send
          MaxPairs,     \* max_pairs_per_cycle
          ShedLevels,   \* the shed levels that the last cycle's length may ask for
          MaxArrivals, MaxTime   \* bounds

VARIABLES known, quotes, books, dirty, shed, cyclesShed, now, arrivals,
          emitted,      \* pairs emitted since the data of their legs changed last
          cut           \* pairs given up unseen since then

vars == <<known, quotes, books, dirty, shed, cyclesShed, now, arrivals, emitted, cut>>

Markets == 1 .. N
Pairs == {p \in Markets \X Markets : p[1] < p[2]}
Legs(p) == {p[1], p[2]}
Without(pairs, m) == {p \in pairs : m \notin Legs(p)}
None == [bid |-> 0, ask |-> 0, at |-> 0]
NoBook == [bids |-> << >>, asks |-> << >>]

\* main(): the open markets of the database, all of them to be looked at.
Init ==
  /\ known = Markets /\ dirty = Markets
  /\ quotes = [m \in Markets |-> None] /\ books = [m \in Markets |-> NoBook]
  /\ shed = 0 /\ cyclesShed = 0 /\ now = 0 /\ arrivals = 0
  /\ emitted = {} /\ cut = {}

Touch(m) ==
  /\ arrivals < MaxArrivals /\ arrivals' = arrivals + 1
  /\ dirty' = dirty \cup {m}
  /\ emitted' = Without(emitted, m) /\ cut' = Without(cut, m)

\* apply_quote_envelope(): what is not a complete quote takes the old one away.
QuoteArrives(m) ==
  /\ Touch(m)
  /\ \E q \in Quotes, at \in 0 .. now :
       quotes' = [quotes EXCEPT ![m] =
         IF q.bid <= 0 \/ q.ask <= 0 \/ q.bid > q.ask THEN None
         ELSE [bid |-> q.bid, ask |-> q.ask, at |-> at]]
  /\ UNCHANGED <<known, books, shed, cyclesShed, now>>

\* Mutant: a book alone is no reason to look again.
BookArrivesQuietly(m) ==
  /\ arrivals < MaxArrivals /\ arrivals' = arrivals + 1
  /\ emitted' = Without(emitted, m) /\ cut' = Without(cut, m)
  /\ \E b \in Books : books' = [books EXCEPT ![m] = b]
  /\ UNCHANGED <<known, quotes, dirty, shed, cyclesShed, now>>

\* apply_book_envelope(): no check of the book, or of its age later.
BookArrives(m) ==
  /\ Touch(m)
  /\ \E b \in Books : books' = [books EXCEPT ![m] = b]
  /\ UNCHANGED <<known, quotes, shed, cyclesShed, now>>

\* refresh_markets(): quotes and books of a closed market stay.
ReplaceMarkets ==
  /\ arrivals < MaxArrivals /\ arrivals' = arrivals + 1
  /\ \E open \in {Markets, Markets \ {1}} : known' = open /\ dirty' = dirty \cup open
  /\ UNCHANGED <<quotes, books, shed, cyclesShed, now, emitted, cut>>

-----------------------------------------------------------------------------
(* One cycle.                                                              *)

Before(p, q) == p[1] < q[1] \/ (p[1] = q[1] /\ p[2] < q[2])
First(pairs, n) == {p \in pairs : Cardinality({q \in pairs : Before(q, p)}) < n}

\* The cap counts every touched pair, before the cheap filters.
Touched == {p \in Pairs : Legs(p) \subseteq known /\ Legs(p) \cap dirty # {}}

Age(m) == now - quotes[m].at
QuoteAge(p) == IF Age(p[1]) > Age(p[2]) THEN Age(p[1]) ELSE Age(p[2])

\* The direction of a candidate, buying at the ask and selling at the bid.
\* Quotes are not crossed, so only one of the two can be one.
Gap(buy, sell) == quotes[sell].bid - quotes[buy].ask
Directed(p) == IF Gap(p[1], p[2]) > 0 THEN p ELSE <<p[2], p[1]>>
Spread(d) == (Gap(d[1], d[2]) * Unit) \div quotes[d[1]].ask

\* detect_bounded_inner(): min_gross_spread is 1%.
Detected(p) ==
  /\ Venue[p[1]] # Venue[p[2]] /\ Event[p[1]] = Event[p[2]]
  /\ \A m \in Legs(p) : quotes[m] # None /\ Age(m) <= Stale
  /\ LET d == Directed(p) IN Gap(d[1], d[2]) > 0 /\ Spread(d) >= Unit \div 100

\* Scorer::score() for two venues and without evidence, which nothing replaces.
Confidence(d, age) ==
  (IF Spread(d) < 200 THEN 8 ELSE 10) * (IF age > Stale \div 2 THEN 7 ELSE 10) * 75
MinConfidence == 5000

WalkOf(d, i) == WalkLeg(books[d[i]], <<"buy", "sell">>[i], 1, DefaultFill)
SlippageOf(d, i) == Slippage(WalkOf(d, i).fills, <<"buy", "sell">>[i], books[d[i]])

\* The price is taken for a probability whatever the markets are.
NetEdge(d, age) ==
  Decompose([buy |-> quotes[d[1]].ask, sell |-> quotes[d[2]].bid, kind |-> "probability",
             venues |-> <<Venue[d[1]], Venue[d[2]]>>, funding |-> 0, crossChain |-> FALSE,
             confidence |-> Confidence(d, age)],
            1, age, (SizeOf(books[d[1]].asks) + SizeOf(books[d[2]].bids)) \div 2,
            SlippageOf(d, 1) + SlippageOf(d, 2)).net

\* A detected candidate becomes an opportunity; min_net_edge is 0.1%.
Emits(p) ==
  LET d == Directed(p)  age == QuoteAge(p) IN
    /\ Confidence(d, age) >= MinConfidence
    /\ \A i \in 1 .. 2 : FeeError(Venue[d[i]]) = "none" /\ WalkOf(d, i).fills # << >>
    /\ NetEdge(d, age) >= Unit \div 1000

\* How many candidates the shed level leaves.
CandidateLimit(n) ==
  CASE shed = 0 -> n [] shed = 1 -> (3 * n + 3) \div 4 [] shed = 2 -> (n + 1) \div 2
    [] shed = 3 -> (n + 3) \div 4 [] OTHER -> Min({n, 1})

\* A market of a venue without fees makes the cycle, and the process, fail.
Fails(taken) ==
  \E p \in taken : /\ Confidence(Directed(p), QuoteAge(p)) >= MinConfidence
                   /\ \E m \in Legs(p) : FeeError(Venue[m]) = "missing_venue"

\* run_due(), scan_impl(): begin_cycle() judges by how long the last one took.
Cycle ==
  /\ dirty # {}
  /\ LET seen == First(Touched, MaxPairs)
         candidates == {p \in seen : Detected(p)}
         taken == First(candidates, CandidateLimit(Cardinality(candidates)))
     IN /\ ~Fails(taken)
        /\ emitted' = (emitted \ seen) \cup {p \in taken : Emits(p)}
        /\ cut' = (cut \ seen) \cup (Touched \ seen) \cup (candidates \ taken)
  /\ cyclesShed' = IF shed > 0 THEN 1 ELSE cyclesShed
  /\ shed' \in ShedLevels
  /\ dirty' = {}
  /\ UNCHANGED <<known, quotes, books, now, arrivals>>

\* Any error of a task ends the process; the new one knows only the markets.
Restart ==
  /\ dirty' = known
  /\ quotes' = [m \in Markets |-> None] /\ books' = [m \in Markets |-> NoBook]
  /\ shed' = 0 /\ cyclesShed' = 0 /\ emitted' = {} /\ cut' = {}
  /\ UNCHANGED <<known, now, arrivals>>

Tick == now < MaxTime /\ now' = now + 1
        /\ UNCHANGED <<known, quotes, books, dirty, shed, cyclesShed, arrivals, emitted, cut>>

Next ==
  \/ \E m \in Markets : QuoteArrives(m) \/ BookArrives(m)
  \/ ReplaceMarkets \/ Cycle \/ Restart \/ Tick

Spec == Init /\ [][Next]_vars

-----------------------------------------------------------------------------
\* Looking only at what changed misses nothing: a pair that a full scan would
\* emit now has been emitted since its quotes and books changed last, or a
\* market of it waits for the next cycle, or the pair has been cut.
NothingMissed ==
  \A p \in Pairs :
    p \in emitted \cup cut \/ Legs(p) \cap dirty # {}
      \/ ~(Legs(p) \subseteq known /\ Detected(p) /\ Emits(p))

\* "A cycle overrunning sheds the expensive tail first and increments a shed
\* counter" (SPEC-012): pairs above the cap are given up without one.
CutsCounted == cut # {} => cyclesShed > 0
=============================================================================

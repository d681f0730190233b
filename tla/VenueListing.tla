---------------------------- MODULE VenueListing ----------------------------
(***************************************************************************)
(* ListMarkets and GetMarket of the venue packs (the five VenueAdapter     *)
(* services): pages of raw markets are fetched, and a task of its own      *)
(* normalizes them one by one, sends the good ones to the caller and puts  *)
(* the malformed ones in quarantine.                                       *)
(*                                                                         *)
(* A raw market is "ok" or "malformed" (VenueNormalization says which);    *)
(* the catalogue is what the venue (external) lists, and Polymarket's may  *)
(* shrink between two pages, which its offsets do not notice.              *)
(***************************************************************************)
EXTENDS Integers, Sequences, FiniteSetsExt

CONSTANTS MaxMarkets, PageSize, MaxPayout

VARIABLES venue, catalogue, removed, phase, offset, todo, sent, quarantined,
          missed, told, listening, payouts, asked, degraded, market, reply, answer

listing == <<phase, offset, todo, sent, quarantined, missed, told, listening>>
chain   == <<payouts, asked, degraded, market>>
lookup  == <<chain, reply, answer>>
vars    == <<venue, catalogue, removed, listing, lookup>>

Venues == {"kalshi", "polymarket", "alpaca", "hyperliquid", "openbb"}
Kinds  == {"ok", "malformed"}
Raw    == [id : 1 .. MaxMarkets, kind : Kinds]

\* Payouts of a Polymarket condition on chain: a denominator, zero until it is
\* resolved, and a numerator for each of two outcomes.
Conditions == {<<d, a, b>> \in (0 .. MaxPayout) \X (0 .. MaxPayout) \X (0 .. MaxPayout) : a + b = d}
Unasked == -1
None    == -1

Init ==
  /\ venue \in Venues
  /\ \E n \in 0 .. MaxMarkets : catalogue \in [1 .. n -> Raw]
  /\ \A i \in DOMAIN catalogue : catalogue[i].id = i
  /\ removed = {}
  /\ phase = "fetch" /\ offset = 0 /\ todo = << >> /\ sent = {}
  /\ quarantined = {} /\ missed = {} /\ told = "ok" /\ listening = TRUE
  /\ payouts \in (IF venue = "polymarket" THEN Conditions ELSE {<<0, 0, 0>>})
  /\ asked = Unasked /\ degraded = FALSE
  /\ market = [status |-> "open", outcome |-> None]
  /\ reply = "none" /\ answer = [status |-> "none", preserved |-> FALSE]

-----------------------------------------------------------------------------
(* Fetching.                                                               *)

\* What the venue lists now, from an offset on.
Listed    == SelectSeq(catalogue, LAMBDA r : r.id \notin removed)
Page(o)   == [i \in 1 .. Min({PageSize, Max({0, Len(Listed) - o})}) |-> Listed[o + i]]
Perps     == Len(catalogue) \div 2
IsPerp(r) == r.id <= Perps

\* Mutant: the page that fills the limit is taken for the last one.
FetchPolymarketStopsEarly ==
  /\ phase = "fetch" /\ venue = "polymarket"
  /\ todo' = todo \o Page(offset)
  /\ phase' = IF Len(Page(offset)) <= PageSize THEN "task" ELSE "fetch"
  /\ offset' = offset + Len(Page(offset))
  /\ UNCHANGED <<venue, catalogue, removed, sent, quarantined, missed, told, listening, lookup>>

\* Polymarket: pages by offset, until one is not full.
FetchPolymarket ==
  /\ phase = "fetch" /\ venue = "polymarket"
  /\ todo' = todo \o Page(offset)
  /\ phase' = IF Len(Page(offset)) < PageSize THEN "task" ELSE "fetch"
  /\ offset' = offset + Len(Page(offset))
  /\ UNCHANGED <<venue, catalogue, removed, sent, quarantined, missed, told, listening, lookup>>

\* Kalshi: pages by cursor, until the venue gives none; it may give one to
\* nothing.
FetchKalshi ==
  /\ phase = "fetch" /\ venue = "kalshi"
  /\ todo' = todo \o Page(offset)
  /\ \/ /\ offset + PageSize < Len(catalogue) \/ Len(Page(offset)) = PageSize
        /\ phase' = "fetch" /\ offset' = offset + PageSize
     \/ /\ offset + PageSize >= Len(catalogue)
        /\ phase' = "task" /\ UNCHANGED offset
  /\ UNCHANGED <<venue, catalogue, removed, sent, quarantined, missed, told, listening, lookup>>

\* Alpaca: all assets at once.
FetchAlpaca ==
  /\ phase = "fetch" /\ venue = "alpaca"
  /\ todo' = catalogue /\ phase' = "task"
  /\ UNCHANGED <<venue, catalogue, removed, offset, sent, quarantined, missed, told, listening,
                 lookup>>

\* Hyperliquid: two requests, the perpetuals and then the spot pairs.
FetchHyperliquid ==
  /\ phase = "fetch" /\ venue = "hyperliquid"
  /\ offset' = offset + 1
  /\ \/ offset = 0 /\ todo' = SelectSeq(catalogue, IsPerp) /\ UNCHANGED phase
     \/ offset = 1 /\ todo' = todo \o SelectSeq(catalogue, LAMBDA r : ~IsPerp(r)) /\ phase' = "task"
  /\ UNCHANGED <<venue, catalogue, removed, sent, quarantined, missed, told, listening, lookup>>

\* OpenBB asks for one symbol at a time; what it cannot fetch is not listed.
FetchOpenbb ==
  /\ phase = "fetch" /\ venue = "openbb" /\ offset < Len(catalogue)
  /\ offset' = offset + 1
  /\ \/ /\ todo' = Append(todo, catalogue[offset + 1])
        /\ phase' = "task" /\ UNCHANGED missed
     \/ /\ missed' = missed \cup {offset + 1} /\ UNCHANGED <<todo, phase>>
  /\ UNCHANGED <<venue, catalogue, removed, sent, quarantined, told, listening, lookup>>

OpenbbEnds ==
  /\ phase = "fetch" /\ venue = "openbb" /\ offset = Len(catalogue) /\ phase' = "done"
  /\ UNCHANGED <<venue, catalogue, removed, offset, todo, sent, quarantined, missed,
                 told, listening, lookup>>

\* A request that fails fails the call.  (A body that does not parse is put in
\* quarantine first, except by Hyperliquid.)
FetchFails ==
  /\ phase = "fetch" /\ venue # "openbb"
  /\ phase' = "done" /\ told' \in {"unavailable", "internal"}
  /\ UNCHANGED <<venue, catalogue, removed, offset, todo, sent, quarantined, missed,
                 listening, lookup>>

\* The venue closes a market between two pages.
Removes ==
  /\ phase = "fetch" /\ venue = "polymarket" /\ removed = {}
  /\ \E i \in DOMAIN catalogue : removed' = {i}
  /\ UNCHANGED <<venue, catalogue, listing, lookup>>

-----------------------------------------------------------------------------
(* The task that answers.                                                  *)

CallerLeaves ==
  /\ listening /\ phase = "task" /\ listening' = FALSE
  /\ UNCHANGED <<venue, catalogue, removed, phase, offset, todo, sent, quarantined,
                 missed, told, lookup>>

\* After the last one: OpenBB goes on to its next symbol.
AfterTask(rest) ==
  IF rest # << >> THEN "task" ELSE IF venue = "openbb" THEN "fetch" ELSE "done"

SendMarket ==
  /\ phase = "task" /\ todo # << >> /\ Head(todo).kind = "ok"
  /\ sent' = IF listening THEN sent \cup {Head(todo).id} ELSE sent
  /\ todo' = Tail(todo) /\ phase' = AfterTask(Tail(todo))
  /\ UNCHANGED <<venue, catalogue, removed, offset, quarantined, missed, told, listening,
                 lookup>>

QuarantineMarket ==
  /\ phase = "task" /\ todo # << >> /\ Head(todo).kind = "malformed"
  /\ quarantined' = quarantined \cup {Head(todo).id}
  /\ todo' = Tail(todo) /\ phase' = AfterTask(Tail(todo))
  /\ UNCHANGED <<venue, catalogue, removed, offset, sent, missed, told, listening, lookup>>

\* A market that cannot be put in quarantine ends the listing with an error;
\* at Hyperliquid it ends that of the perpetuals or of the pairs only.
QuarantineFails ==
  /\ phase = "task" /\ todo # << >> /\ Head(todo).kind = "malformed"
  /\ told' = "internal"
  /\ todo' = IF venue = "hyperliquid" /\ IsPerp(Head(todo))
             THEN SelectSeq(todo, LAMBDA r : ~IsPerp(r)) ELSE << >>
  /\ phase' = IF todo' = << >> THEN "done" ELSE "task"
  /\ UNCHANGED <<venue, catalogue, removed, offset, sent, quarantined, missed, listening,
                 lookup>>

TaskEnds ==
  /\ phase = "task" /\ todo = << >> /\ phase' = "done"
  /\ UNCHANGED <<venue, catalogue, removed, offset, todo, sent, quarantined, missed,
                 told, listening, lookup>>

-----------------------------------------------------------------------------
(* GetMarket.  The venue's reply to the request a market key becomes, and  *)
(* what the caller is told.                                                *)

Replies == {"unreachable", "unparsable", "absent", "malformed", "ok"}

Answers(s, kept) == [status : s, preserved : kept]

\* Quarantine::publish before the error is returned; when it fails, so does
\* the call.
Preserved(s) == Answers({s}, {TRUE}) \cup Answers({"internal"}, {FALSE})

\* Kalshi and Alpaca: one request by ticker or symbol.
GetByName(r) ==
  CASE r \in {"unreachable", "absent"} -> Answers({"unavailable"}, {FALSE})
    [] r = "unparsable" -> Preserved("unavailable")
    [] r = "malformed"  -> Preserved("internal")
    [] r = "ok"         -> Answers({"ok"}, {FALSE})

\* Polymarket: the market of a token; outcomes that do not parse are refused
\* before the normalization that would preserve them.
GetByToken(r) ==
  CASE r = "unreachable" -> Answers({"unavailable"}, {FALSE})
    [] r = "unparsable"  -> Preserved("unavailable")
    [] r = "absent"      -> Answers({"not_found"}, {FALSE})
    [] r = "malformed"   -> Preserved("internal") \cup Answers({"internal"}, {FALSE})
    [] r = "ok"          -> Answers({"ok"}, {FALSE})

\* Hyperliquid: a coin or a spot index is looked up in the whole universe; a
\* body that does not parse is not preserved.
GetFromUniverse(r) ==
  CASE r \in {"unreachable", "unparsable"} -> Answers({"unavailable"}, {FALSE})
    [] r = "absent"    -> Answers({"not_found"}, {FALSE})
    [] r = "malformed" -> Preserved("internal")
    [] r = "ok"        -> Answers({"ok"}, {FALSE})

\* OpenBB: the profile, or else the option chains of the watchlist; what fails
\* counts as empty, and what is malformed raises.
GetFromOpenbb(r) ==
  CASE r \in {"unreachable", "unparsable", "absent"} -> Answers({"not_found"}, {FALSE})
    [] r = "malformed" -> Answers({"unknown"}, {FALSE})
    [] r = "ok"        -> Answers({"ok"}, {FALSE})

GetMarket(r) ==
  CASE venue \in {"kalshi", "alpaca"} -> GetByName(r)
    [] venue = "polymarket"           -> GetByToken(r)
    [] venue = "hyperliquid"          -> GetFromUniverse(r)
    [] venue = "openbb"               -> GetFromOpenbb(r)

Gets ==
  /\ phase = "done" /\ reply = "none"
  /\ \E r \in Replies : reply' = r /\ answer' \in GetMarket(r)
  /\ UNCHANGED <<venue, catalogue, removed, listing, chain>>

-----------------------------------------------------------------------------
(* GetMarket of Polymarket also reads the chain: the denominator, then the *)
(* numerator of each outcome.                                              *)

ReadsChain == venue = "polymarket" /\ answer.status = "ok" /\ market.status = "open"
Numerator(i) == payouts[i + 2]

\* The condition (external) may be resolved at any time, once.
Resolves ==
  /\ ReadsChain /\ payouts[1] = 0
  /\ \E c \in Conditions : c[1] > 0 /\ payouts' = c
  /\ UNCHANGED <<venue, catalogue, removed, listing, asked, degraded, market, reply, answer>>

\* get_payout_denominator(): zero means the market is as Gamma says.
AskDenominator ==
  /\ ReadsChain /\ asked \in {Unasked, 0}
  /\ asked' = payouts[1]
  /\ degraded' = IF payouts[1] = 0 THEN FALSE ELSE degraded
  /\ UNCHANGED <<venue, catalogue, removed, listing, payouts, market, reply, answer>>

\* check_resolution(): the outcome whose numerator is all of the denominator.
Winner(d) ==
  IF \E i \in {0, 1} : Numerator(i) = d THEN CHOOSE i \in {0, 1} : Numerator(i) = d ELSE None

AskNumerators ==
  /\ ReadsChain /\ asked > 0
  /\ market' = [status |-> "resolved", outcome |-> Winner(asked)]
  /\ degraded' = FALSE /\ asked' = Unasked
  /\ UNCHANGED <<venue, catalogue, removed, listing, payouts, reply, answer>>

\* A read that fails leaves the market as it was and the venue degraded.
AskFails ==
  /\ ReadsChain /\ degraded' = TRUE /\ asked' = Unasked
  /\ UNCHANGED <<venue, catalogue, removed, listing, payouts, market, reply, answer>>

Next ==
  \/ FetchPolymarket \/ FetchKalshi \/ FetchAlpaca \/ FetchHyperliquid \/ FetchOpenbb \/ OpenbbEnds
  \/ FetchFails \/ Removes
  \/ CallerLeaves \/ SendMarket \/ QuarantineMarket \/ QuarantineFails \/ TaskEnds
  \/ Gets \/ Resolves \/ AskDenominator \/ AskNumerators \/ AskFails

Spec == Init /\ [][Next]_vars

-----------------------------------------------------------------------------
\* A caller who was told of no error has seen every market the venue listed
\* throughout, or it is preserved in quarantine.  (With Polymarket's offsets
\* only while the list does not move; OpenBB lists what it could fetch.)
ListingComplete ==
  (phase = "done" /\ told = "ok" /\ listening /\ removed = {}) =>
     /\ DOMAIN catalogue = sent \cup quarantined \cup missed
     /\ venue # "openbb" => missed = {}

\* A market is reported resolved, with its winner, only as the chain has it.
ResolutionTrue ==
  market.status = "resolved" =>
    /\ payouts[1] > 0
    /\ market.outcome # None => Numerator(market.outcome) = payouts[1]
    /\ market.outcome = None => \A i \in {0, 1} : Numerator(i) < payouts[1]

\* Of Kalshi and Alpaca, a reply that is refused is in quarantine unless the
\* caller is told that the service itself failed.
RefusalsPreserved ==
  (venue \in {"kalshi", "alpaca"} /\ reply \in {"unparsable", "malformed"}) =>
     answer.preserved \/ answer.status = "internal"

ListingsSound == ListingComplete /\ ResolutionTrue /\ RefusalsPreserved
=============================================================================

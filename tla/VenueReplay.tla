----------------------------- MODULE VenueReplay -----------------------------
(***************************************************************************)
(* Recording a venue's feed and replaying it: bin/record.rs and replay.rs  *)
(* of Kalshi, Polymarket, Alpaca and Hyperliquid.  The recorder appends    *)
(* each message to a file with the time it arrived; replay_jsonl() turns   *)
(* the file into normalized events, or into an error; replay_to_bus()      *)
(* publishes the events.                                                   *)
(*                                                                         *)
(* As in KalshiStream the venue numbers the changes of its book, and a     *)
(* book is the set of the changes it accounts for.  The messages of a      *)
(* Polymarket or Alpaca frame and the mids of a Hyperliquid one are items  *)
(* of their own.  An item is "usable", "skipped" (no symbol, a mid that is *)
(* no string) or "bad" (it does not parse or does not normalize).          *)
(***************************************************************************)
EXTENDS Integers, Sequences, SequencesExt

CONSTANTS MaxChanges,   \* changes the venue makes
          MaxItems,     \* items of the file
          MaxRuns,      \* runs of the recorder, all into the same file
          MaxLost,      \* messages the venue skips, items that cannot be used
          MaxSends      \* attempts to publish

VARIABLES venue, author, changes, number, run, recording, faults, joined, bus, sends

vars == <<venue, author, changes, number, run, recording, faults, joined, bus, sends>>

Venues == {"kalshi", "polymarket", "alpaca", "hyperliquid"}

Running == run.on

\* The testdata of the repository is written by hand, with RFC 3339 times and
\* the books of Hyperliquid as bids and asks.
Init ==
  /\ venue \in Venues /\ author \in {"recorder", "hand"}
  /\ changes = 0 /\ number = [sid \in {1, 2} |-> 0]
  /\ run = [on |-> FALSE, count |-> 0, asked |-> FALSE]
  /\ recording = << >> /\ faults = 0 /\ joined = FALSE
  /\ bus = << >> /\ sends = 0

-----------------------------------------------------------------------------
(* The recorder.                                                           *)

\* How a change of the book is told: Kalshi sends the change, Polymarket and
\* Hyperliquid the whole book, Alpaca a quote.
Tells == CASE venue = "kalshi" -> "delta"
           [] venue = "alpaca" -> "tick"
           [] OTHER            -> "book"

Uses(kind) == {"usable", "bad"} \cup
  IF kind = "tick" /\ venue \in {"alpaca", "hyperliquid"} THEN {"skipped"} ELSE {}

Sid(kind) == IF kind = "tick" THEN 1 ELSE 2

\* scrub_value(): fields that name the account lose their value.
Scrubbed(item) == [item EXCEPT !.private = FALSE]

\* The Hyperliquid recorder stamps a frame with the time of its file names,
\* which is no RFC 3339 time, and keeps the levels of a book as they came.
Stamped(item) ==
  [item EXCEPT !.dated  = (author = "hand" \/ venue # "hyperliquid"),
               !.shaped = (author = "hand" \/ venue # "hyperliquid" \/ item.kind # "book")]

\* The venue sends an item: it is recorded, or the venue skips its number.
Arrives(kind, to, use, arrived) ==
  LET sid  == Sid(kind)
      item == [kind |-> kind, sid |-> sid, seq |-> number[sid] + 1, to |-> to, use |-> use,
               private |-> kind = "other", dated |-> TRUE, shaped |-> TRUE]
  IN /\ Len(recording) < MaxItems
     /\ number' = [number EXCEPT ![sid] = @ + 1]
     /\ faults' = faults + IF arrived /\ use = "usable" THEN 0 ELSE 1
     /\ faults' <= MaxLost
     /\ recording' = IF arrived THEN Append(recording, Stamped(Scrubbed(item))) ELSE recording
     /\ joined' = (joined \/ (~arrived /\ kind = "book" /\ venue = "kalshi"))

\* A run opens the file for appending, connects and subscribes; the numbers of
\* a subscription begin with the connection.
Start ==
  /\ ~Running /\ run.count < MaxRuns
  /\ run' = [on |-> TRUE, count |-> run.count + 1, asked |-> venue = "kalshi"]
  /\ number' = [sid \in {1, 2} |-> 0]
  /\ UNCHANGED <<venue, author, changes, recording, faults, joined, bus, sends>>

\* Kalshi answers a subscription to the book with a snapshot of it.
Answered ==
  /\ Running /\ run.asked
  /\ \E use \in {"usable", "bad"}, arrived \in BOOLEAN : Arrives("book", changes, use, arrived)
  /\ run' = [run EXCEPT !.asked = FALSE]
  /\ UNCHANGED <<venue, author, changes, bus, sends>>

\* The book changes, and the run hears of it when it is on.
Change ==
  /\ changes < MaxChanges
  /\ changes' = changes + 1
  /\ IF Running
     THEN /\ ~run.asked
          /\ \E use \in Uses(Tells), arrived \in BOOLEAN : Arrives(Tells, changes + 1, use, arrived)
     ELSE UNCHANGED <<number, recording, faults, joined>>
  /\ UNCHANGED <<venue, author, run, bus, sends>>

Tick ==
  /\ Running /\ ~run.asked
  /\ \E use \in Uses("tick"), arrived \in BOOLEAN : Arrives("tick", changes, use, arrived)
  /\ UNCHANGED <<venue, author, changes, run, bus, sends>>

Other ==
  /\ Running /\ ~run.asked
  /\ Arrives("other", changes, "usable", TRUE)
  /\ UNCHANGED <<venue, author, changes, run, bus, sends>>

\* The time is over, the venue closes, the connection fails or a message is
\* no JSON.
Stop ==
  /\ Running
  /\ run' = [run EXCEPT !.on = FALSE]
  /\ UNCHANGED <<venue, author, changes, number, recording, faults, joined, bus, sends>>

-----------------------------------------------------------------------------
(* replay_jsonl(): a fold over the items, until the first error.           *)

NoBook == {-1}

Start0 == [ok |-> TRUE, last |-> [sid \in {1, 2} |-> 0], book |-> NoBook, events |-> << >>]

Fails(s) == [s EXCEPT !.ok = FALSE]

\* An event shows a book, or a price: the last change the venue had made.
Shows(s, item, book) ==
  [s EXCEPT !.events = Append(@, [kind |-> item.kind, to |-> item.to, book |-> book])]

\* Mutant: the numbers of a subscription are not compared.
FollowsAny(s, item) == TRUE

\* The first number of a subscription, or the one after its last.
Follows(s, item) == s.last[item.sid] = 0 \/ item.seq = s.last[item.sid] + 1

KalshiItem(s, item) ==
  LET t == [s EXCEPT !.last[item.sid] = item.seq]
      changed == s.book \cup {item.to}
  IN IF ~Follows(s, item) THEN Fails(s)
     ELSE IF item.kind = "other" THEN t
     ELSE IF item.use = "bad" THEN Fails(s)
     ELSE CASE item.kind = "tick" -> Shows(t, item, {})
            [] item.kind = "book" -> Shows([t EXCEPT !.book = 1 .. item.to], item, 1 .. item.to)
            [] OTHER -> IF s.book = NoBook THEN Fails(s)
                        ELSE Shows([t EXCEPT !.book = changed], item, changed)

\* Each book stands for itself; an item without a time gets the recorder's.
PolymarketItem(s, item) ==
  CASE item.kind = "other" -> s
    [] item.use = "bad"    -> Fails(s)
    [] OTHER -> Shows(s, item, IF item.kind = "book" THEN 1 .. item.to ELSE {})

\* Trades and quotes; one without a symbol is left out.
AlpacaItem(s, item) ==
  CASE item.kind = "other" \/ item.use = "skipped" -> s
    [] item.use = "bad" -> Fails(s)
    [] OTHER            -> Shows(s, item, {})

\* The time is parsed before the kind is looked at; a book has to come as bids
\* and asks, and a mid that is no string is left out.
HyperliquidItem(s, item) ==
  CASE ~item.dated \/ ~item.shaped -> Fails(s)
    [] item.use = "skipped"        -> s
    [] OTHER                       -> PolymarketItem(s, item)

ReplayItem(s, item) ==
  IF ~s.ok THEN s
  ELSE CASE venue = "kalshi"      -> KalshiItem(s, item)
         [] venue = "polymarket"  -> PolymarketItem(s, item)
         [] venue = "alpaca"      -> AlpacaItem(s, item)
         [] venue = "hyperliquid" -> HyperliquidItem(s, item)

Replay == FoldLeft(ReplayItem, Start0, recording)

\* replay_to_bus(): nothing before the whole file has been replayed, then one
\* event after the other up to the first that the producer refuses.
ReplayToBus ==
  /\ sends < MaxSends /\ sends' = sends + 1
  /\ LET replay == Replay IN
       /\ replay.ok
       /\ \E n \in 0 .. Len(replay.events) : bus' = bus \o SubSeq(replay.events, 1, n)
  /\ UNCHANGED <<venue, author, changes, number, run, recording, faults, joined>>

Next == Start \/ Answered \/ Change \/ Tick \/ Other \/ Stop \/ ReplayToBus

Spec == Init /\ [][Next]_vars

-----------------------------------------------------------------------------
(* Properties.                                                             *)

Exact(e) == e.book = IF e.kind = "tick" THEN {} ELSE 1 .. e.to

Priced(item) == item.kind # "other" /\ item.use = "usable"

(***************************************************************************)
(* A book published from a recording is the book the venue had when it     *)
(* sent the message: messages the venue skipped make the replay fail       *)
(* (replay.rs:61-68), they are not stepped over.  A recording that replays *)
(* gives one event for every item that can be used, in the order of the    *)
(* file, and no item of it names the account.  Left out: a file in which a *)
(* run's first snapshot of the book is missing.                            *)
(***************************************************************************)
ReplaySound ==
  /\ ~joined => \A i \in DOMAIN bus : Exact(bus[i])
  /\ LET replay == Replay
         items == SelectSeq(recording, Priced)
     IN replay.ok =>
          /\ Len(items) = Len(replay.events)
          /\ \A i \in DOMAIN items : items[i].to = replay.events[i].to
  /\ \A i \in DOMAIN recording : ~recording[i].private

(***************************************************************************)
(* What the recorder wrote can be replayed (record.rs:3-5) when nothing    *)
(* was skipped and every item can be used.  False of Hyperliquid, whose    *)
(* recorder writes a time and a book its replay does not read, and of a    *)
(* Kalshi file to which a second run has been appended.                    *)
(***************************************************************************)
RecordedReplays == author = "recorder" /\ faults = 0 => Replay.ok
=============================================================================

-------------------------- MODULE PolymarketStream --------------------------
(***************************************************************************)
(* The websocket tasks of connectors/venues/polymarket/src/stream.rs, for  *)
(* one asset, in a role: "ticks" or "books".  The venue reports the        *)
(* absolute size of a level, so a book is a function from levels to sizes. *)
(* One message may change several levels and each change is published on   *)
(* its own; a message also carries, for the properties, the book the venue *)
(* had after it.                                                           *)
(*                                                                         *)
(* The circuit breaker of aether-bus is kept in its three states, with     *)
(* "half_open" standing for a probe that was sent; the time in it passes   *)
(* by Elapse, and the error-rate trigger may open it at any failure.       *)
(***************************************************************************)
EXTENDS Integers, Sequences, SequencesExt

CONSTANTS Levels,       \* price levels of the asset
          MaxMessages,  \* messages the venue sends
          MaxFaulty     \* messages that cannot be used

VARIABLES role, conn, breaker, attempt, book, todo, seen, published, missed,
          venueBook, wire, messages, faulty

task  == <<role, conn, breaker, attempt, book, todo, seen, published, missed>>
venue == <<venueBook, wire, messages, faulty>>
vars  == <<task, venue>>

Sizes  == 0 .. 1
Garble == 2   \* stands for a size of a snapshot that does not parse
Books  == [Levels -> Sizes \cup {Garble}]
NoBook == [l \in Levels |-> -1]
Changes == [level : Levels, size : Sizes, ok : BOOLEAN]

Init ==
  /\ role \in {"ticks", "books"}
  /\ conn = "down" /\ breaker = "closed" /\ attempt = 0
  /\ book = NoBook /\ todo = << >> /\ seen = NoBook
  /\ published = NoBook /\ missed = FALSE
  /\ venueBook = [l \in Levels |-> 0] /\ wire = << >>
  /\ messages = 0 /\ faulty = 0

-----------------------------------------------------------------------------
(* The venue (external).  A faulty message is not JSON ("json"), is a      *)
(* snapshot of no asset ("asset") or with a size that does not parse       *)
(* ("level"), or one of its changes has a price, size or side that does    *)
(* not parse.                                                              *)

After(b, c) == [b EXCEPT ![c.level] = c.size]

\* The next message comes when the task has taken the last: the task reads
\* them in order, and those it has not read go with the connection.
CanSend == conn = "live" /\ wire = << >> /\ messages < MaxMessages

Sends(kind, cs, fault) ==
  /\ messages' = messages + 1
  /\ faulty' = faulty + IF fault = "none" /\ \A k \in DOMAIN cs : cs[k].ok
                        THEN 0 ELSE 1
  /\ faulty' <= MaxFaulty
  /\ venueBook' = FoldSeq(LAMBDA c, bk : After(bk, c), venueBook, cs)
  /\ wire' = << [kind |-> kind, fault |-> fault, changes |-> cs,
                 after |-> venueBook'] >>

SendsBook ==
  /\ CanSend
  /\ \E fault \in {"none", "json", "asset", "level"} : Sends("book", << >>, fault)
  /\ UNCHANGED task

\* A message changes one level, or moves size from one level to another.
SendsChanges ==
  /\ CanSend
  /\ \E c \in Changes, fault \in {"none", "json"} :
       \/ Sends("price_change", <<c>>, fault)
       \/ \E d \in Changes : /\ d.level # c.level
                             /\ Sends("price_change", <<c, d>>, fault)
  /\ UNCHANGED task

-----------------------------------------------------------------------------
(* The breaker, as the loop uses it.                                       *)

RecordFailure(b) == IF b = "half_open" THEN {"open"}
                    ELSE IF b = "closed" THEN {"closed", "open"} ELSE {b}
RecordSuccess(b) == IF b = "half_open" THEN "closed" ELSE b

\* allow_request() is true and leaves a probe behind an elapsed breaker;
\* while it is false the loop sleeps a second and asks again.
Allowed == conn = "down" /\ breaker \in {"closed", "elapsed"}
AfterAllow == IF breaker = "elapsed" THEN "half_open" ELSE breaker

\* The reset time of an open breaker passes.
Elapse ==
  /\ breaker = "open" /\ breaker' = "elapsed"
  /\ UNCHANGED <<role, conn, attempt, book, todo, seen, published, missed, venue>>

-----------------------------------------------------------------------------
(* Connecting.                                                             *)

\* Mutant: a connection starts with the books of the one before.
BooksAfterConnectKept == book

BooksAfterConnect == NoBook

Connect ==
  /\ Allowed
  /\ breaker' = AfterAllow
  /\ conn' = "connected" /\ attempt' = 0
  /\ book' = IF role = "books" THEN BooksAfterConnect ELSE book
  /\ missed' = FALSE /\ seen' = NoBook /\ wire' = << >>
  /\ UNCHANGED <<role, todo, published, venueBook, messages, faulty>>

Refused ==
  /\ Allowed
  /\ breaker' \in RecordFailure(AfterAllow)
  /\ attempt' = 1
  /\ UNCHANGED <<role, conn, book, todo, seen, published, missed, venue>>

Subscribe ==
  /\ conn = "connected" /\ conn' = "live"
  /\ UNCHANGED <<role, breaker, attempt, book, todo, seen, published, missed, venue>>

SubscribeFails ==
  /\ conn = "connected" /\ conn' = "down"
  /\ breaker' \in RecordFailure(breaker)
  /\ UNCHANGED <<role, attempt, book, todo, seen, published, missed, venue>>

\* The PING or the Pong cannot be sent, the stream ends or fails, or the venue
\* closes it; only then are the books dropped at once.  Nobody tells the
\* breaker.
ConnectionLost ==
  /\ conn = "live" /\ todo = << >>
  /\ conn' = "down" /\ attempt' = 1
  /\ book' \in {book, NoBook}
  /\ UNCHANGED <<role, breaker, todo, seen, published, missed, venue>>

-----------------------------------------------------------------------------
(* Messages.                                                               *)

Ready(m) == conn = "live" /\ todo = << >> /\ wire # << >> /\ m = Head(wire)

Quarantined == UNCHANGED conn \/ conn' = "stopped"

Publish(what) ==
  \/ published' = what /\ UNCHANGED conn
  \/ conn' = "stopped" /\ UNCHANGED published

OnInvalidJson(m) ==
  /\ Ready(m) /\ m.fault = "json"
  /\ Quarantined
  /\ missed' = TRUE /\ wire' = Tail(wire) /\ seen' = m.after
  /\ UNCHANGED <<role, breaker, attempt, book, todo, published,
                 venueBook, messages, faulty>>

\* normalize_book() needs every level to parse.
Normalizes(b) == \A l \in Levels : b[l] # Garble

PublishBook(b) ==
  IF Normalizes(b) THEN Publish(b) ELSE Quarantined /\ UNCHANGED published

\* A "book" message without an asset goes to quarantine, and any other
\* replaces the book of its asset, also when that does not normalize.
OnBook(m) ==
  /\ Ready(m) /\ m.fault # "json" /\ m.kind = "book"
  /\ breaker' = RecordSuccess(breaker)
  /\ seen' = m.after /\ wire' = Tail(wire)
  /\ \/ role = "ticks" /\ UNCHANGED <<book, missed, conn, published>>
     \/ /\ role = "books" /\ m.fault = "asset"
        /\ missed' = TRUE /\ Quarantined /\ UNCHANGED <<book, published>>
     \/ /\ role = "books" /\ m.fault = "level"
        /\ \E l \in Levels : book' = [m.after EXCEPT ![l] = Garble]
        /\ missed' = TRUE /\ PublishBook(book')
     \/ /\ role = "books" /\ m.fault = "none"
        /\ book' = m.after /\ missed' = FALSE /\ PublishBook(book')
  /\ UNCHANGED <<role, attempt, todo, venueBook, messages, faulty>>

\* The changes of a message are applied one after the other.
OnChanges(m) ==
  /\ Ready(m) /\ m.fault = "none" /\ m.kind = "price_change"
  /\ breaker' = RecordSuccess(breaker)
  /\ todo' = m.changes /\ seen' = m.after /\ wire' = Tail(wire)
  /\ UNCHANGED <<role, conn, attempt, book, published, missed,
                 venueBook, messages, faulty>>

\* Mutant: a size is added to the level.
ApplyPriceChangeAdds(b, c) ==
  [b EXCEPT ![c.level] = IF c.size = 0 THEN 0 ELSE (@ + c.size) % 2]

\* apply_price_change(): the level takes the size it is given, and a level of
\* size zero goes.
ApplyPriceChange(b, c) == [b EXCEPT ![c.level] = c.size]

\* One change of a book, and its publication.  Without a snapshot it is
\* dropped; one that does not parse goes to quarantine, and so does what a
\* book with a level that does not parse has become.
BookChange ==
  /\ role = "books" /\ conn = "live" /\ todo # << >>
  /\ todo' = Tail(todo)
  /\ LET c == Head(todo) IN
       \/ /\ book = NoBook
          /\ UNCHANGED <<book, missed, conn, published>>
       \/ /\ book # NoBook /\ c.ok
          /\ book' = ApplyPriceChange(book, c)
          /\ PublishBook(book') /\ UNCHANGED missed
       \/ /\ book # NoBook /\ ~c.ok
          /\ missed' = TRUE /\ Quarantined
          /\ UNCHANGED <<book, published>>
  /\ UNCHANGED <<role, breaker, attempt, seen, venue>>

\* One tick: ticks_from_ws and normalize_tick, then the bus or quarantine.
TickChange ==
  /\ role = "ticks" /\ conn = "live" /\ todo # << >>
  /\ todo' = Tail(todo)
  /\ LET c == Head(todo) IN
       \/ c.ok /\ Publish([published EXCEPT ![c.level] = c.size])
       \/ ~c.ok /\ Quarantined /\ UNCHANGED published
  /\ UNCHANGED <<role, breaker, attempt, book, seen, missed, venue>>

OnMessage(m) == OnInvalidJson(m) \/ OnBook(m) \/ OnChanges(m)

Work ==
  \/ Connect \/ Refused \/ Subscribe \/ SubscribeFails
  \/ wire # << >> /\ OnMessage(Head(wire))
  \/ BookChange \/ TickChange

Next == SendsBook \/ SendsChanges \/ Elapse \/ ConnectionLost \/ Work

Spec == Init /\ [][Next]_vars

\* The loop goes on and time passes.  Nothing makes the venue send, accept
\* or close.
FairSpec == Spec /\ WF_vars(Elapse) /\ WF_vars(Work)

-----------------------------------------------------------------------------
TypeOK ==
  /\ conn \in {"down", "connected", "live", "stopped"}
  /\ breaker \in {"closed", "open", "elapsed", "half_open"}
  /\ attempt \in {0, 1} /\ messages \in 0 .. MaxMessages
  /\ {book, published, seen} \subseteq Books \cup {NoBook} \cup [Levels -> -1 .. 1]
  /\ \A k \in DOMAIN todo : todo[k] \in Changes

\* When the changes of a message are done, the book of an asset is the one
\* the venue had after that message, across reconnections, unless a message
\* of this connection went to quarantine since the last snapshot: sizes are
\* absolute, but a level that was missed stays wrong until it changes again.
BookCatchesUp ==
  (role = "books" /\ conn = "live" /\ todo = << >> /\ book # NoBook /\ ~missed)
     => book = seen

\* "On disconnect, back off and reconnect": a task that is down is at some
\* time allowed to connect.
Reconnects == conn = "down" ~> (Allowed \/ conn # "down")
=============================================================================

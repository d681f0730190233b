---------------------------- MODULE KalshiStream ----------------------------
(***************************************************************************)
(* The websocket tasks of connectors/venues/kalshi/src/stream.rs.  One     *)
(* task follows one market in a role, "ticks" or "books": it connects,     *)
(* subscribes, follows sequence numbers and publishes to the bus.          *)
(*                                                                         *)
(* The venue numbers the changes of its book 1, 2, ...; a book is the set  *)
(* of the changes it accounts for, so that a delta that was missed or      *)
(* applied to the wrong book stays visible.  Messages arrive in order,     *)
(* some are lost, and some cannot be used: "json" is not JSON, "data" is   *)
(* JSON without the fields of its kind, "late" is a delta whose timestamp  *)
(* is found invalid after its levels have been changed.                    *)
(***************************************************************************)
EXTENDS Integers, Sequences

CONSTANTS MaxChanges,   \* changes the venue makes
          MaxLost,      \* messages that never arrive
          MaxFaulty,    \* messages that cannot be used
          MaxSessions,  \* connections the venue accepts
          Threshold     \* BREAKER_THRESHOLD, 5 in the code

VARIABLES role, conn, attempt, failures, last, book, published, blind,
          changes, wire, sent, lost, faulty, sessions

task  == <<role, conn, attempt, failures, last, book, published, blind>>
venue == <<changes, wire, sent, lost, faulty, sessions>>
vars  == <<task, venue>>

NoBook == {-1}
Faults == {"none", "json", "data", "late"}
Msg == [kind : {"snapshot", "delta", "tick"}, seq : 1 .. MaxChanges + MaxSessions + MaxLost + 1,
        to : 0 .. MaxChanges, fault : Faults]

Init ==
  /\ role \in {"ticks", "books"}
  /\ conn = "down" /\ attempt = 0 /\ failures = 0 /\ last = 0
  /\ book = NoBook /\ published = {} /\ blind = FALSE
  /\ changes = 0 /\ wire = << >> /\ sent = 0
  /\ lost = 0 /\ faulty = 0 /\ sessions = 0

-----------------------------------------------------------------------------
(* The venue (external): it answers a subscription to the book with a      *)
(* snapshot, reports every change, and some messages do not arrive.        *)

Feed(kind, to, fault) ==
  /\ wire' = Append(wire, [kind |-> kind, seq |-> sent + 1, to |-> to, fault |-> fault])
  /\ sent' = sent + 1
  /\ faulty' = faulty + IF fault = "none" THEN 0 ELSE 1
  /\ faulty' <= MaxFaulty

Answered ==
  IF role = "books"
  THEN \E fault \in Faults \ {"late"} : Feed("snapshot", changes, fault)
  ELSE UNCHANGED <<wire, sent, faulty>>

Change ==
  /\ conn = "live" /\ changes < MaxChanges
  /\ changes' = changes + 1
  /\ \/ role = "books" /\ \E fault \in Faults : Feed("delta", changes + 1, fault)
     \/ role = "ticks" /\ \E fault \in Faults \ {"late"} : Feed("tick", changes + 1, fault)
  /\ UNCHANGED <<task, lost, sessions>>

\* A snapshot that is lost before the tracker has seen any number of its
\* session leaves no gap behind it.
Lose ==
  /\ wire # << >> /\ lost < MaxLost
  /\ lost' = lost + 1 /\ wire' = Tail(wire)
  /\ blind' = (blind \/ (last = 0 /\ Head(wire).kind = "snapshot"))
  /\ UNCHANGED <<role, conn, attempt, failures, last, book, published,
                 changes, sent, faulty, sessions>>

-----------------------------------------------------------------------------
(* Connecting.  Once the breaker is open the task ends.                    *)

\* record_failure(): the task ends when the threshold is reached.
RecordFailure == failures' = failures + 1

Connect ==
  /\ conn = "down" /\ sessions < MaxSessions
  /\ sessions' = sessions + 1
  /\ conn' = "connected" /\ attempt' = 0 /\ failures' = 0 /\ last' = 0
  /\ wire' = << >> /\ sent' = 0
  /\ UNCHANGED <<role, book, published, blind, changes, lost, faulty>>

Refused ==
  /\ conn = "down"
  /\ RecordFailure
  /\ attempt' = 2
  /\ conn' = IF failures' >= Threshold THEN "stopped" ELSE "down"
  /\ UNCHANGED <<role, last, book, published, blind, venue>>

Subscribe ==
  /\ conn = "connected"
  /\ conn' = "live"
  /\ Answered
  /\ UNCHANGED <<role, attempt, failures, last, book, published, blind,
                 changes, lost, sessions>>

\* The error of record_failure is dropped and the attempt is not counted: the
\* loop goes on without a delay, and the next connection forgets the failure.
SubscribeFails ==
  /\ conn = "connected"
  /\ conn' = "down"
  /\ RecordFailure
  /\ UNCHANGED <<role, attempt, last, book, published, blind, venue>>

StreamEnds ==
  /\ conn = "live"
  /\ conn' = "down" /\ attempt' = 1
  /\ UNCHANGED <<role, failures, last, book, published, blind, venue>>

-----------------------------------------------------------------------------
(* Messages.                                                               *)

\* SeqTracker::observe(): only a number beyond the next one is a gap.
Gap(seq) == last # 0 /\ seq > last + 1

Receive(m) == conn = "live" /\ wire # << >> /\ m = Head(wire)

\* The payload goes to quarantine; a quarantine that fails ends the task.
Quarantined(m) ==
  /\ \/ UNCHANGED conn
     \/ conn' = "stopped"
  /\ UNCHANGED published

\* The message goes to the bus; a bus that fails ends the task.
Publish(what) ==
  \/ published' = what /\ UNCHANGED conn
  \/ conn' = "stopped" /\ UNCHANGED published

\* Text that is not JSON has no number to observe.
OnInvalidJson(m) ==
  /\ Receive(m) /\ m.fault = "json"
  /\ Quarantined(m)
  /\ wire' = Tail(wire)
  /\ blind' = (blind \/ (last = 0 /\ m.kind = "snapshot"))
  /\ UNCHANGED <<role, attempt, failures, last, book, changes, sent, lost, faulty, sessions>>

\* Mutant: the book survives a gap.
BookAfterGapKept == book

BookAfterGap == NoBook

\* A gap: the books are dropped, and the message that showed it with them.
OnGap(m) ==
  /\ Receive(m) /\ m.fault # "json" /\ Gap(m.seq)
  /\ book' = IF role = "books" THEN BookAfterGap ELSE book
  /\ \/ /\ last' = 0
        /\ \/ /\ role = "books"
              /\ \E fault \in Faults \ {"late"} :
                   /\ wire' = Append(Tail(wire), [kind |-> "snapshot", seq |-> sent + 1,
                                                  to |-> changes, fault |-> fault])
                   /\ faulty' = faulty + IF fault = "none" THEN 0 ELSE 1
                   /\ faulty' <= MaxFaulty /\ sent' = sent + 1
           \/ role = "ticks" /\ wire' = Tail(wire) /\ UNCHANGED <<sent, faulty>>
        /\ UNCHANGED <<conn, attempt>>
     \/ /\ last' = m.seq /\ conn' = "down" /\ attempt' = 1
        /\ wire' = Tail(wire) /\ UNCHANGED <<sent, faulty>>
  /\ UNCHANGED <<role, failures, published, blind, changes, lost, sessions>>

Observed(m) ==
  /\ Receive(m) /\ m.fault # "json" /\ ~Gap(m.seq)
  /\ last' = m.seq /\ wire' = Tail(wire)
  /\ UNCHANGED <<role, attempt, failures, changes, sent, lost, faulty, sessions>>

\* A tick becomes a quote, or goes to quarantine when a field is missing.
OnTick(m) ==
  /\ m.kind = "tick" /\ Observed(m)
  /\ IF m.fault = "none" THEN Publish({m.to}) ELSE Quarantined(m)
  /\ UNCHANGED <<book, blind>>

\* A snapshot replaces the book; one that is not understood leaves the old.
OnSnapshot(m) ==
  /\ m.kind = "snapshot" /\ Observed(m)
  /\ \/ m.fault = "none" /\ book' = 1 .. m.to /\ blind' = FALSE /\ Publish(book')
     \/ m.fault = "data" /\ UNCHANGED book /\ blind' = TRUE /\ Quarantined(m)

\* apply_delta(): the level changes before the timestamp is parsed.
ApplyDelta(b, m) == IF m.fault = "data" THEN b ELSE b \cup {m.to}

\* A delta changes the book it finds; there is none before the snapshot.
OnDelta(m) ==
  /\ m.kind = "delta" /\ Observed(m)
  /\ \/ /\ book = NoBook
        /\ UNCHANGED book /\ UNCHANGED blind
        /\ IF m.fault = "data" THEN Quarantined(m) ELSE UNCHANGED <<conn, published>>
     \/ /\ book # NoBook
        /\ book' = ApplyDelta(book, m)
        /\ blind' = (blind \/ m.fault = "data")
        /\ IF m.fault = "none" THEN Publish(book') ELSE Quarantined(m)

OnMessage(m) == OnInvalidJson(m) \/ OnGap(m) \/ OnTick(m) \/ OnSnapshot(m) \/ OnDelta(m)

Next ==
  \/ Change \/ Lose
  \/ Connect \/ Refused \/ Subscribe \/ SubscribeFails \/ StreamEnds
  \/ wire # << >> /\ OnMessage(Head(wire))

Spec == Init /\ [][Next]_vars

-----------------------------------------------------------------------------
TypeOK ==
  /\ role \in {"ticks", "books"}
  /\ conn \in {"down", "connected", "live", "stopped"}
  /\ attempt \in 0 .. 2 /\ failures \in 0 .. Threshold
  /\ wire \in Seq(Msg)
  /\ changes \in 0 .. MaxChanges
  /\ (book = NoBook \/ book \in SUBSET (1 .. MaxChanges))

\* A book that reaches the bus is one the venue had: messages are lost, the
\* connection is lost, subscriptions are repeated, and still every published
\* book accounts for a prefix of the venue's changes.  Two messages escape
\* the sequence numbers and are excepted until the next snapshot ("blind"): a
\* delta or snapshot whose number was observed but whose contents went to
\* quarantine, and a snapshot lost as the first message of its session, when
\* the books of the session before are still there.
FaithfulStep ==
  (role = "books" /\ published' # published /\ ~blind')
    => \E n \in 0 .. changes : published' = 1 .. n

\* As a property of behaviours.
BooksFaithful == [][FaithfulStep]_vars
=============================================================================

---------------------------- MODULE AlpacaStream ----------------------------
(***************************************************************************)
(* The websocket task of connectors/venues/alpaca/src/ws.rs: connect,      *)
(* authenticate, subscribe, publish the trades and quotes of each frame.   *)
(*                                                                         *)
(* A frame is a batch of items.  An item belongs to a symbol and is "ok",  *)
(* lacks its symbol or has a field of the wrong type ("field"), or has a   *)
(* value that normalization refuses ("value").  Items are numbered, so a   *)
(* quote names the item whose values it carries.                           *)
(***************************************************************************)
EXTENDS Integers, Sequences, SequencesExt

CONSTANTS Symbols, MaxItems, MaxBatch, Threshold,
          Welcomes       \* whether the venue may greet a connection

VARIABLES conn, attempt, failures, inbox, todo, frame, items, published, preserved,
          refused

vars == <<conn, attempt, failures, inbox, todo, frame, items, published, preserved,
          refused>>

Kinds == {"ok", "field", "value"}
AuthAnswers == {"connected", "authenticated", "error", "other"}
Item == [id : 1 .. MaxItems, sym : Symbols, kind : Kinds]

Init ==
  /\ conn = "down" /\ attempt = 0 /\ failures = 0
  /\ inbox = << >> /\ todo = << >> /\ frame = << >> /\ items = 0
  /\ published = {} /\ preserved = {} /\ refused = {}

-----------------------------------------------------------------------------
(* Connecting.  The venue (external) may greet, then accepts or refuses    *)
(* the credentials; it may also send other things first, or say nothing.   *)

\* record_failure() of a failed connection: at the threshold the task ends.
\* The error rate of the window may end it before.
FailedAttempt ==
  /\ failures' = failures + 1 /\ attempt' = 2
  /\ conn' \in IF failures + 1 >= Threshold THEN {"stopped"} ELSE {"down", "stopped"}

Dial ==
  /\ conn = "down" /\ conn' = "auth"
  /\ \E accepts \in {"authenticated", "error"}, first \in {"connected", "other", "none"} :
       /\ first = "connected" => Welcomes
       /\ inbox' = (IF first = "none" THEN << >> ELSE <<first>>) \o <<accepts>>
  /\ UNCHANGED <<attempt, failures, todo, frame, items, published, preserved, refused>>

DialFails ==
  /\ conn = "down"
  /\ FailedAttempt
  /\ UNCHANGED <<inbox, todo, frame, items, published, preserved, refused>>

\* check_auth_response(): the greeting is an answer too.
AuthResponse(m) ==
  IF m \in {"authenticated", "connected", "error"} THEN m ELSE "none"

\* A text frame while the task waits for the verdict.  Any answer but
\* "authenticated" fails the connection; "refused" keeps what the venue had
\* still to say.
OnAuthFrame ==
  /\ conn = "auth" /\ inbox # << >>
  /\ LET answer == AuthResponse(Head(inbox)) IN
       \/ /\ answer = "authenticated"
          /\ conn' = "up" /\ attempt' = 0 /\ failures' = 0
          /\ inbox' = Tail(inbox) /\ UNCHANGED refused
       \/ /\ answer = "none"
          /\ inbox' = Tail(inbox)
          /\ UNCHANGED <<conn, attempt, failures, refused>>
       \/ /\ answer \in {"connected", "error"}
          /\ FailedAttempt
          /\ refused' = refused \cup {Last(inbox)} /\ inbox' = << >>
  /\ UNCHANGED <<todo, frame, items, published, preserved>>

\* No verdict in ten seconds, or the socket closes or fails.
AuthFails ==
  /\ conn = "auth" /\ FailedAttempt /\ inbox' = << >>
  /\ UNCHANGED <<todo, frame, items, published, preserved, refused>>

\* subscribe_all(): a failure counts, but its verdict is dropped.
Subscribe ==
  /\ conn = "up"
  /\ \/ conn' = "live" /\ UNCHANGED failures
     \/ conn' = "down" /\ failures' = failures + 1
  /\ UNCHANGED <<attempt, inbox, todo, frame, items, published, preserved, refused>>

StreamEnds ==
  /\ conn = "live" /\ todo = << >>
  /\ conn' = "down" /\ attempt' = 1 /\ inbox' = << >>
  /\ UNCHANGED <<failures, todo, frame, items, published, preserved, refused>>

-----------------------------------------------------------------------------
(* Frames.                                                                 *)

Batches(n) ==
  {f \in UNION {[1 .. k -> [id : 1 .. MaxItems, sym : Symbols, kind : Kinds]]
                  : k \in 1 .. MaxBatch} :
     Len(f) + n <= MaxItems /\ \A k \in DOMAIN f : f[k].id = n + k}

SendsFrame ==
  /\ conn = "live" /\ inbox = << >> /\ todo = << >>
  /\ \E f \in Batches(items) :
       /\ inbox' = <<f>> /\ items' = items + Len(f)
  /\ UNCHANGED <<conn, attempt, failures, todo, frame, published, preserved, refused>>

Quotes(f) == [k \in DOMAIN f |-> [item |-> f[k].id, sym |-> f[k].sym, kind |-> f[k].kind]]

\* Mutant: the items of a frame are merged into one snapshot.
SnapshotsCoalesced(f) ==
  <<[item |-> Last(f).id, sym |-> Head(f).sym, kind |-> Last(f).kind]>>

\* handle_ws_message(): one snapshot for each trade or quote.
Snapshots(f) == Quotes(f)

\* A field that cannot be read fails the whole frame, which is preserved.
OnFrame ==
  /\ conn = "live" /\ inbox # << >>
  /\ LET f == Head(inbox) IN
       \/ /\ \A k \in DOMAIN f : f[k].kind # "field"
          /\ todo' = Snapshots(f)
          /\ UNCHANGED <<conn, preserved>>
       \/ /\ \E k \in DOMAIN f : f[k].kind = "field"
          /\ \/ /\ preserved' = preserved \cup {f[k].id : k \in DOMAIN f}
                /\ UNCHANGED conn
             \/ conn' = "stopped" /\ UNCHANGED preserved
          /\ UNCHANGED todo
  /\ inbox' = << >> /\ frame' = Head(inbox)
  /\ UNCHANGED <<attempt, failures, items, published, refused>>

\* One snapshot: to the bus, or to quarantine; when either fails the task ends.
OnSnapshot ==
  /\ conn = "live" /\ todo # << >>
  /\ todo' = Tail(todo)
  /\ \/ /\ Head(todo).kind = "ok"
        /\ published' = published \cup {Head(todo)} /\ UNCHANGED <<preserved, conn>>
     \/ /\ Head(todo).kind # "ok"
        /\ preserved' = preserved \cup {Head(todo).item} /\ UNCHANGED <<published, conn>>
     \/ conn' = "stopped" /\ UNCHANGED <<published, preserved>>
  /\ UNCHANGED <<attempt, failures, inbox, frame, items, refused>>

Next ==
  \/ Dial \/ DialFails \/ OnAuthFrame \/ AuthFails
  \/ Subscribe \/ StreamEnds
  \/ SendsFrame \/ OnFrame \/ OnSnapshot

Spec == Init /\ [][Next]_vars

-----------------------------------------------------------------------------
\* Nothing the venue reported disappears or changes hands: when a frame has
\* been dealt with, each of its items was published, under its own symbol and
\* with its own values, or is preserved in quarantine.
ItemsAccountedFor ==
  (conn = "live" /\ inbox = << >> /\ todo = << >>) =>
     \A k \in DOMAIN frame :
        \/ frame[k].id \in preserved
        \/ \E q \in published : q.item = frame[k].id /\ q.sym = frame[k].sym

\* "It might be the connected message, keep waiting": a connection that the
\* venue is about to accept is not refused.
GreetingIsNoRefusal == "authenticated" \notin refused
=============================================================================

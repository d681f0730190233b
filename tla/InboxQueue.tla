----------------------------- MODULE InboxQueue -----------------------------
(***************************************************************************)
(* server/inbox: pushes of the mail providers are queued durably (webhooks,*)
(* queue) and leased to workers that fetch the messages behind them and    *)
(* file the message and its attachments (processing, fetch, filing), once  *)
(* per content (dedup).  A Gmail push names a place in the history of the  *)
(* mailbox and the worker lists what lies between the cursor and it; a     *)
(* Graph push names one message.                                           *)
(*                                                                         *)
(* Time is abstract: the backoff of a failed notification and the lease of *)
(* a claimed one end at some moment.                                       *)
(***************************************************************************)
EXTENDS Naturals, Sequences, SequencesExt

CONSTANTS MaxMail,      \* the messages the Gmail mailbox gets are 1 .. MaxMail
          Graph,        \* messages announced by Microsoft Graph
          Parts,        \* message -> sequence of what is filed: itself, its attachments
          Hash,         \* message -> hash of its content
          Poisons,      \* sets of parts: what the parsers fail on is one of them
          PageSize,     \* most messages Gmail lists in one answer
          Workers,      \* processes with a worker
          MaxFaults     \* bound on failures, crashes and leases that run out

Mail == 1 .. MaxMail
Messages == Mail \cup Graph

VARIABLES poison,       \* parts whose parser fails
          mailbox,      \* the last message that arrived
          queue,        \* notifications, by id
          cursor,       \* provider_cursors
          seen,         \* seen_content
          filed,        \* parts in the brain
          skipped,      \* history: what the cursor passed on a further page
          worker, faults

vars == <<poison, mailbox, queue, cursor, seen, filed, skipped, worker, faults>>

\* beyond: the mail of the further pages of the worker's listing.
Idle == [at |-> "idle", id |-> 0, todo |-> <<>>, parts |-> <<>>, beyond |-> {}]

Init ==
  /\ poison \in Poisons /\ skipped = {}
  /\ mailbox = 0 /\ queue = <<>> /\ cursor = 0 /\ seen = {} /\ filed = {} /\ faults = 0
  /\ worker = [w \in Workers |-> Idle]

Fault == faults < MaxFaults /\ faults' = faults + 1

-----------------------------------------------------------------------------
Arrives ==
  /\ mailbox < MaxMail /\ mailbox' = mailbox + 1
  /\ UNCHANGED <<poison, queue, cursor, seen, filed, skipped, worker, faults>>

\* enqueue(): a push is delivered until it is answered, in any order; one with
\* a known key is ignored.
Push(about) ==
  /\ about \in Graph \cup 1 .. mailbox
  /\ \A i \in DOMAIN queue : queue[i].about # about
  /\ queue' = Append(queue, [about |-> about, status |-> "pending"])
  /\ UNCHANGED <<poison, mailbox, cursor, seen, filed, skipped, worker, faults>>

Status(id, status) == queue' = [queue EXCEPT ![id].status = status]

\* available_ts, or lease_until, is past.
Due(id) ==
  /\ queue[id].status = "delayed" /\ Status(id, "pending")
  /\ UNCHANGED <<poison, mailbox, cursor, seen, filed, skipped, worker, faults>>

\* A lease runs out while its worker is still busy, or is gone.
Overdue(id) ==
  /\ queue[id].status = "processing"
  /\ IF \E w \in Workers : worker[w].id = id THEN Fault ELSE UNCHANGED faults
  /\ Status(id, "overdue")
  /\ UNCHANGED <<poison, mailbox, cursor, seen, filed, skipped, worker>>

-----------------------------------------------------------------------------
Goto(w, state) == worker' = [worker EXCEPT ![w] = state]

\* claim(): the first one that may be had.
Claimable == {i \in DOMAIN queue : queue[i].status \in {"pending", "overdue"}}

Claim(w) ==
  /\ worker[w].at = "idle"
  /\ \E id \in Claimable :
       /\ \A other \in Claimable : id <= other
       /\ Status(id, "processing")
       /\ Goto(w, [Idle EXCEPT !.at = "list", !.id = id])
  /\ UNCHANGED <<poison, mailbox, cursor, seen, filed, skipped, faults>>

\* _gmail_message_ids(): the history after the cursor, of which the first page
\* is read and nextPageToken is not; a Graph notification names its message.
List(w) ==
  LET s == worker[w]
      about == queue[s.id].about
      Listed(n) == SelectSeq([i \in 1 .. n |-> cursor + i], LAMBDA m : m <= mailbox)
  IN /\ s.at = "list"
     /\ IF about \in Graph THEN Goto(w, [s EXCEPT !.at = "message", !.todo = <<about>>])
        ELSE \E n \in 1 .. PageSize :
               Goto(w, [s EXCEPT !.at = "message", !.todo = Listed(n),
                                 !.beyond = cursor + n + 1 .. mailbox])
     /\ UNCHANGED <<poison, mailbox, queue, cursor, seen, filed, skipped, faults>>

\* Mutant: the content is claimed before it is filed, as fetch_message() does
\* by default.
CheckClaims(w) ==
  LET s == worker[w] IN
    /\ s.at = "message" /\ s.todo # <<>>
    /\ IF Hash[Head(s.todo)] \in seen THEN Goto(w, [s EXCEPT !.todo = Tail(@)])
       ELSE Goto(w, [s EXCEPT !.at = "file", !.parts = Parts[Head(s.todo)]])
    /\ seen' = seen \cup {Hash[Head(s.todo)]}
    /\ UNCHANGED <<poison, mailbox, queue, cursor, filed, skipped, faults>>

\* The message is fetched; known content is not filed again.
Check(w) ==
  LET s == worker[w] IN
    /\ s.at = "message" /\ s.todo # <<>>
    /\ IF Hash[Head(s.todo)] \in seen THEN Goto(w, [s EXCEPT !.todo = Tail(@)])
       ELSE Goto(w, [s EXCEPT !.at = "file", !.parts = Parts[Head(s.todo)]])
    /\ UNCHANGED <<poison, mailbox, queue, cursor, seen, filed, skipped, faults>>

\* file_to_brain(), which is idempotent by content.
File(w) ==
  LET s == worker[w] IN
    /\ s.at = "file" /\ s.parts # <<>> /\ Head(s.parts) \notin poison
    /\ filed' = filed \cup {Head(s.parts)}
    /\ Goto(w, [s EXCEPT !.parts = Tail(@)])
    /\ UNCHANGED <<poison, mailbox, queue, cursor, seen, skipped, faults>>

MarkSeen(w) ==
  LET s == worker[w] IN
    /\ s.at = "file" /\ s.parts = <<>>
    /\ seen' = seen \cup {Hash[Head(s.todo)]}
    /\ Goto(w, [s EXCEPT !.at = "message", !.todo = Tail(@)])
    /\ UNCHANGED <<poison, mailbox, queue, cursor, filed, skipped, faults>>

\* set_cursor(), to the place the push named, though a later one may have gone
\* further.
SetCursor(w) ==
  LET s == worker[w]
      about == queue[s.id].about
  IN /\ s.at = "message" /\ s.todo = <<>>
     /\ IF about \in Graph THEN UNCHANGED <<cursor, skipped>>
        ELSE cursor' = about /\ skipped' = skipped \cup (s.beyond \cap 1 .. about)
     /\ Goto(w, [s EXCEPT !.at = "done"])
     /\ UNCHANGED <<poison, mailbox, queue, seen, filed, faults>>

\* complete() and fail() do not ask whether the lease is still held.
Complete(w) ==
  /\ worker[w].at = "done"
  /\ Status(worker[w].id, "complete") /\ Goto(w, Idle)
  /\ UNCHANGED <<poison, mailbox, cursor, seen, filed, skipped, faults>>

Released(w) == Status(worker[w].id, "delayed") /\ Goto(w, Idle)

\* fail(): the notification comes back after a backoff, without end, also when
\* it is the content that makes it fail.
ParserFails(w) ==
  /\ worker[w].at = "file" /\ worker[w].parts # <<>> /\ Head(worker[w].parts) \in poison
  /\ Released(w)
  /\ UNCHANGED <<poison, mailbox, cursor, seen, filed, skipped, faults>>

Fail(w) ==
  /\ worker[w].at \notin {"idle", "done"} /\ Fault /\ Released(w)
  /\ UNCHANGED <<poison, mailbox, cursor, seen, filed, skipped>>

Crash(w) ==
  /\ worker[w].at # "idle" /\ Fault /\ Goto(w, Idle)
  /\ UNCHANGED <<poison, mailbox, queue, cursor, seen, filed, skipped>>

\* The backoff or the lease of a notification ends.
TimePasses(id) == id \in DOMAIN queue /\ (Due(id) \/ Overdue(id))

Process(w) ==
  \/ Claim(w) \/ List(w) \/ Check(w) \/ File(w) \/ ParserFails(w)
  \/ MarkSeen(w) \/ SetCursor(w) \/ Complete(w)

ClaimOf(w, id) == Claim(w) /\ worker'[w].id = id

Next ==
  \/ Arrives
  \/ \E about \in Messages : Push(about)
  \/ \E id \in DOMAIN queue : Due(id) \/ Overdue(id)
  \/ \E w \in Workers : Process(w) \/ Fail(w) \/ Crash(w)

Spec == Init /\ [][Next]_vars

\* The providers deliver a push until it is answered, backoffs and leases end,
\* a worker goes on with what it has claimed, and takes a notification whose
\* turn comes again and again.
FairSpec ==
  /\ Spec
  /\ \A about \in Messages : WF_vars(Push(about))
  /\ \A id \in 1 .. Cardinality(Messages) : WF_vars(TimePasses(id))
  /\ \A w \in Workers : WF_vars(Process(w))
  /\ \A w \in Workers, id \in 1 .. Cardinality(Messages) : SF_vars(ClaimOf(w, id))

-----------------------------------------------------------------------------
IsFiled(m) == ToSet(Parts[m]) \subseteq filed
IsSkipped(m) == m \in skipped

\* Content that is marked as seen, a mailbox up to its cursor, and what a
\* completed notification announced are in the brain with all attachments:
\* no failure, crash or second worker makes the next attempt skip a part
\* (processing, "preserving retries").  The one exception is mail on a further
\* page of the history, which the cursor passes unread.
InboxSound ==
  /\ \A m \in Messages : Hash[m] \in seen => IsFiled(m)
  /\ \A m \in 1 .. cursor : IsFiled(m) \/ IsSkipped(m)
  /\ \A i \in DOMAIN queue :
       queue[i].status = "complete" => IsFiled(queue[i].about) \/ IsSkipped(queue[i].about)

HasArrived(m) == m \in Graph \/ m <= mailbox

\* A message no parser can read is tried for ever, and the mail behind it in
\* its mailbox waits for it.
Unparsable(m) == ToSet(Parts[m]) \cap poison # {}
Blocked(m) == \E p \in Messages : Unparsable(p) /\ (p = m \/ ({p, m} \subseteq Mail /\ p < m))

\* The notifications that fail for ever are all in their backoff, which grows
\* to five minutes: the moment at which a later notification gets its turn.
Rested ==
  \A i \in DOMAIN queue :
    (\E p \in Messages : Unparsable(p) /\ (p = queue[i].about \/ {p, queue[i].about} \subseteq Mail))
      => queue[i].status \in {"delayed", "complete"}

\* Every message that arrives is filed, however its notifications are delayed,
\* repeated or fail on the way, unless a message before it, or itself, cannot
\* be parsed or the cursor passed it on a further page: as long as what fails
\* for ever is not so much that some of it is always claimed first, it holds
\* up no other mailbox, and nothing else holds up anything.
MailFiled ==
  []<>Rested =>
    \A m \in Messages :
      (HasArrived(m) /\ ~Blocked(m)) ~> (IsFiled(m) \/ IsSkipped(m))
=============================================================================

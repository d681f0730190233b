---------------------------- MODULE IngestFleet ----------------------------
(***************************************************************************)
(* The ingestion fleet of server/ingest: a poller fetches the due sources  *)
(* into a bounded queue, workers store each batch in the Brain and only    *)
(* then save the source's cursor.  A worker waits half a second for a job  *)
(* and its processing together, so a slow batch is cut off in the middle.  *)
(* Items are numbered in the order a source publishes them.                *)
(***************************************************************************)
EXTENDS Integers, Sequences, FiniteSets, SequencesExt

CONSTANTS Sources, Fleets, Workers, Capacity, BatchSize, Interval, MaxDelay,
          MaxItems, MaxTime, MaxFaults, Refused

VARIABLES kind, now, published, approved, enabled, stored, state, queue, inflight,
          worker, faults,
          passed        \* history: what the saved batches of a source left out

vars == <<kind, now, published, approved, enabled, stored, state, queue, inflight,
          worker, faults, passed>>

Idle == [pc |-> "idle"]
Least(a, b) == IF a <= b THEN a ELSE b

\* The least of a set of numbers, up to a batch.
FirstOf(S) == {i \in S : Cardinality({j \in S : j < i}) < BatchSize}
Largest(S) == CHOOSE i \in S : \A j \in S : j <= i

-----------------------------------------------------------------------------
(* Sources.                                                                *)

\* What register() makes of the health of a source that is already known.
Registered(health, isEnabled) ==
  IF health = "disabled" \/ ~isEnabled THEN "disabled" ELSE "unknown"

\* A fleet gives each source the kind of its adapter.
Init ==
  /\ kind \in Fleets
  /\ now = 0
  /\ published = [s \in Sources |-> 0]
  /\ approved = [s \in Sources |-> {}]
  /\ enabled = [s \in Sources |-> TRUE]
  /\ stored = [s \in Sources |-> {}]
  /\ state = [s \in Sources |->
                [cursor |-> 0, health |-> "unknown", failures |-> 0, next |-> 0]]
  /\ queue = << >> /\ inflight = {}
  /\ worker = [w \in Workers |-> Idle]
  /\ faults = 0
  /\ passed = [s \in Sources |-> {}]

\* A feed publishes; a document is submitted for review, or is a crawled path.
Publish(s) ==
  /\ published[s] < MaxItems
  /\ published' = [published EXCEPT ![s] = @ + 1]
  /\ UNCHANGED <<kind, now, approved, enabled, stored, state, queue,
                 inflight, worker, faults, passed>>

\* review(): a pending document is approved; a rejected one is left out.
Approve(s, i) ==
  /\ kind[s] = "review" /\ i \in 1 .. published[s] /\ i \notin approved[s]
  /\ approved' = [approved EXCEPT ![s] = @ \cup {i}]
  /\ UNCHANGED <<kind, now, published, enabled, stored, state, queue,
                 inflight, worker, faults, passed>>

\* A batch leaves out what is behind the cursor it brings and not among its items,
\* for the reason that the adapter has.

\* RssSitemapAdapter: the document lists the newest first, up to the link the
\* cursor names; the cursor becomes the newest link, and what does not fit is left.
FetchRss(s, cursor) ==
  LET new == cursor + 1 .. published[s]
      old == {i \in new : i <= published[s] - BatchSize}
  IN [items |-> new \ old, next |-> published[s], left |-> old]

\* ManualReviewAdapter: the first approved documents after the cursor; those that
\* are not approved yet are left.
FetchReview(s, cursor) ==
  LET rows == FirstOf({i \in approved[s] : i > cursor})
      next == IF rows = {} THEN cursor ELSE Largest(rows)
  IN [items |-> rows, next |-> next, left |-> (cursor + 1 .. next) \ approved[s]]

\* RobotsCrawlAdapter: the paths after the cursor that robots.txt allows.
FetchCrawl(s, cursor) ==
  LET allowed == FirstOf({i \in cursor + 1 .. published[s] : i \notin Refused})
      full == Cardinality(allowed) = BatchSize
  IN [items |-> allowed, next |-> IF full THEN Largest(allowed) ELSE published[s],
      left |-> {}]

\* JsonFeedAdapter: the server pages by its own cursor.
FetchJson(s, cursor) ==
  LET last == Least(cursor + BatchSize, published[s]) IN
    [items |-> cursor + 1 .. last, next |-> last, left |-> {}]

Fetch(s, cursor) ==
  CASE kind[s] = "rss" -> FetchRss(s, cursor)
    [] kind[s] = "review" -> FetchReview(s, cursor)
    [] kind[s] = "crawl" -> FetchCrawl(s, cursor)
    [] kind[s] = "json" -> FetchJson(s, cursor)

-----------------------------------------------------------------------------
(* The scheduler.                                                          *)

Delay(failures) == Least(Interval * 2^failures, MaxDelay)

\* The delay is that of the failures before this one.
Failed(st) ==
  [st EXCEPT !.health = "degraded", !.failures = @ + 1, !.next = now + Delay(st.failures)]

Succeeded(st, next) ==
  [st EXCEPT !.cursor = next, !.health = "healthy", !.failures = 0, !.next = now + Interval]

\* Mutant: a source may be polled again while its batch is processed.
PollableTwice(s) ==
  /\ enabled[s] /\ state[s].health # "disabled" /\ state[s].next <= now

Pollable(s) ==
  /\ s \notin inflight /\ enabled[s]
  /\ state[s].health # "disabled" /\ state[s].next <= now

\* One source's turn in poll_due().
Poll(s) ==
  /\ Len(queue) < Capacity /\ Pollable(s)
  /\ queue' = Append(queue, [source |-> s, batch |-> Fetch(s, state[s].cursor)])
  /\ inflight' = inflight \cup {s}
  /\ UNCHANGED <<kind, now, published, approved, enabled, stored, state, worker, faults, passed>>

\* The same turn when the source does not answer.
PollFails(s) ==
  /\ Len(queue) < Capacity /\ Pollable(s) /\ faults < MaxFaults
  /\ faults' = faults + 1
  /\ state' = [state EXCEPT ![s] = Failed(@)]
  /\ UNCHANGED <<kind, now, published, approved, enabled, stored, queue, inflight, worker, passed>>

Take(w) ==
  /\ worker[w] = Idle /\ queue # << >>
  /\ worker' = [worker EXCEPT ![w] = [pc |-> "storing", source |-> Head(queue).source,
                                      todo |-> Head(queue).batch.items,
                                      next |-> Head(queue).batch.next,
                                      left |-> Head(queue).batch.left]]
  /\ queue' = Tail(queue)
  /\ UNCHANGED <<kind, now, published, approved, enabled, stored, state, inflight, faults, passed>>

\* store_draft() of the batch's next item; storing it again changes nothing.
StoreItem(w) ==
  /\ worker[w].pc = "storing" /\ worker[w].todo # {}
  /\ \E i \in worker[w].todo :
       /\ stored' = [stored EXCEPT ![worker[w].source] = @ \cup {i}]
       /\ worker' = [worker EXCEPT ![w].todo = @ \ {i}]
  /\ UNCHANGED <<kind, now, published, approved, enabled, state, queue, inflight, faults, passed>>

\* Mutant: an item that could not be stored is passed over.
AllStoredAnyway(w) == worker[w].pc = "storing"

AllStored(w) == worker[w].pc = "storing" /\ worker[w].todo = {}

Leave(w) ==
  /\ worker' = [worker EXCEPT ![w] = Idle]
  /\ inflight' = inflight \ {worker[w].source}

MarkSuccess(w) ==
  /\ AllStored(w)
  /\ state' = [state EXCEPT ![worker[w].source] = Succeeded(@, worker[w].next)]
  /\ passed' = [passed EXCEPT ![worker[w].source] = @ \cup worker[w].left]
  /\ Leave(w)
  /\ UNCHANGED <<kind, now, published, approved, enabled, stored, queue, faults>>

\* An item could not be stored: the source backs off.
MarkFailure(w) ==
  /\ worker[w].pc = "storing" /\ faults < MaxFaults
  /\ faults' = faults + 1
  /\ state' = [state EXCEPT ![worker[w].source] = Failed(@)]
  /\ Leave(w)
  /\ UNCHANGED <<kind, now, published, approved, enabled, stored, queue, passed>>

\* wait_for() cancels process_one() after half a second: the job is dropped, and
\* neither a success nor a failure is written.
CutOff(w) ==
  /\ worker[w].pc = "storing" /\ Leave(w)
  /\ UNCHANGED <<kind, now, published, approved, enabled, stored, state, queue, faults, passed>>

Tick ==
  /\ now < MaxTime /\ now' = now + 1
  /\ UNCHANGED <<kind, published, approved, enabled, stored, state, queue,
                 inflight, worker, faults, passed>>

\* The service stops and starts again, a source perhaps switched on or off; a
\* batch in the queue or in a worker is lost.
Restart ==
  /\ faults < MaxFaults /\ faults' = faults + 1
  /\ enabled' \in [Sources -> BOOLEAN]
  /\ state' = [s \in Sources |-> [state[s] EXCEPT !.health = Registered(@, enabled'[s])]]
  /\ queue' = << >> /\ inflight' = {} /\ worker' = [w \in Workers |-> Idle]
  /\ UNCHANGED <<kind, now, published, approved, stored, passed>>

WorkerStep(w) ==
  Take(w) \/ StoreItem(w) \/ MarkSuccess(w) \/ MarkFailure(w) \/ CutOff(w)

Next ==
  \/ Tick \/ Restart
  \/ \E s \in Sources : Publish(s) \/ Poll(s) \/ PollFails(s)
  \/ \E s \in Sources, i \in 1 .. MaxItems : Approve(s, i)
  \/ \E w \in Workers : WorkerStep(w)

Spec == Init /\ [][Next]_vars

\* The loops of the poller and of the workers go on as long as the process runs.
Fairness ==
  /\ WF_vars(Tick)
  /\ \A s \in Sources : WF_vars(Poll(s))
  /\ \A w \in Workers : WF_vars(Take(w) \/ StoreItem(w) \/ MarkSuccess(w))

FairSpec == Spec /\ Fairness

-----------------------------------------------------------------------------
JobsOf(s) ==
  Cardinality({k \in DOMAIN queue : queue[k].source = s})
  + Cardinality({w \in Workers : worker[w] # Idle /\ worker[w].source = s})

\* A source has at most one batch on its way, and the poller knows it.
OneJob ==
  /\ Len(queue) <= Capacity
  /\ \A s \in Sources : JobsOf(s) = IF s \in inflight THEN 1 ELSE 0

\* Everything up to a cursor is in the Brain, whichever batches were cut off,
\* failed or came twice: but for the paths robots.txt refuses, the news that did
\* not fit into the batch of a feed when it was read, and the documents that
\* were not approved when a later one was taken.
CursorCovered ==
  \A s \in Sources :
    1 .. state[s].cursor \subseteq
      stored[s] \cup (CASE kind[s] = "json" -> {}
                       [] kind[s] = "crawl" -> Refused
                       [] kind[s] \in {"rss", "review"} -> passed[s])

\* A review queue passes on nothing that was not approved.
OnlyApproved ==
  \A s \in Sources : kind[s] = "review" => stored[s] \subseteq approved[s]

\* The rules of the ingestion fleet (scheduler.py, poll_due and process_one).
IngestSound == OneJob /\ CursorCovered /\ OnlyApproved

\* A cursor never goes back, though two workers finish batches in any order and
\* a cut-off one leaves its work to the next (scheduler.py, _inflight).
ForwardStep == \A s \in Sources : state'[s].cursor >= state[s].cursor

\* As a property of behaviours.
CursorForward == [][ForwardStep]_vars

\* Nothing that was published and approved is left behind the cursor.  Not so: an
\* RSS document with more news than a batch, and a document approved after a
\* later one, are passed over.
NothingSkipped ==
  \A s \in Sources :
    (IF kind[s] = "review" THEN approved[s] ELSE 1 .. published[s])
      \cap (1 .. state[s].cursor)
    \subseteq stored[s] \cup (IF kind[s] = "crawl" THEN Refused ELSE {})

\* A batch that was fetched is stored in the end.  Not so: a batch that takes
\* longer than half a second is cut off every time.
BatchesStored ==
  \A s \in Sources :
    (kind[s] = "json" /\ published[s] > 0) ~> (1 \in stored[s])
=============================================================================

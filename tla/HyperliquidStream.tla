-------------------------- MODULE HyperliquidStream --------------------------
(***************************************************************************)
(* The polling tasks of connectors/venues/hyperliquid/src/stream.rs: a     *)
(* round fetches all mids, or the book of each ticker, publishes what it   *)
(* got, and tells the circuit breaker of aether-bus how it went.  A round  *)
(* takes one unit of the breaker's time, or two when it is slow.           *)
(***************************************************************************)
EXTENDS CircuitBreaker

CONSTANTS Tickers, MaxTime

VARIABLES role, pc, breaker, attempt, now, todo, anyOk, rounds

vars == <<role, pc, breaker, attempt, now, todo, anyOk, rounds>>

Init ==
  /\ role \in {"mids", "books"}
  /\ pc = "poll" /\ breaker = NewBreaker /\ attempt = 0 /\ now = 0
  /\ todo = {} /\ anyOk = FALSE
  /\ rounds = << >>

-----------------------------------------------------------------------------
Rounds(ok) == Append(rounds, [at |-> now, err |-> ~ok])

\* is_open(), at the head of the loop too: by then record_failure() has ended the
\* task if the breaker is open, so that the check there ends none.
IsOpen(b) == ~AllowRequest(b, now)

\* record_failure() and its immediate allow_request().
FailedRound ==
  LET b == RecordFailure(breaker, now) IN
    /\ breaker' = AfterAllow(b, now)
    /\ pc' = IF IsOpen(b) THEN "stopped" ELSE "poll"
    /\ attempt' = 1
    /\ rounds' = Rounds(FALSE)

GoodRound ==
  /\ breaker' = RecordSuccess(breaker, now)
  /\ attempt' = 0
  /\ rounds' = Rounds(TRUE)

\* get_all_mids(): the tickers of the answer are emitted; the others are skipped.
PollMids ==
  /\ role = "mids" /\ pc = "poll" /\ ~IsOpen(breaker)
  /\ \/ /\ FailedRound /\ now < MaxTime /\ now' = now + 1
        /\ UNCHANGED todo
     \/ /\ GoodRound /\ pc' = "emit" /\ UNCHANGED now
        /\ todo' \in SUBSET Tickers
  /\ UNCHANGED <<role, anyOk>>

\* The round over the books begins.
BeginBooks ==
  /\ role = "books" /\ pc = "poll" /\ ~IsOpen(breaker)
  /\ pc' = "emit" /\ todo' = Tickers /\ anyOk' = FALSE
  /\ UNCHANGED <<role, breaker, attempt, now, rounds>>

\* One ticker: what was fetched is published or quarantined; when that fails
\* the task ends.  A book that cannot be fetched is only logged.
Emit(t) ==
  /\ pc = "emit" /\ t \in todo
  /\ todo' = todo \ {t}
  /\ \/ /\ anyOk' = (anyOk \/ role = "books") /\ UNCHANGED pc
     \/ role = "books" /\ UNCHANGED <<anyOk, pc>>
     \/ pc' = "ended" /\ UNCHANGED anyOk
  /\ UNCHANGED <<role, breaker, attempt, now, rounds>>

\* The end of a round: the task sleeps for the interval, in which time passes.
EndRound ==
  /\ pc = "emit" /\ todo = {} /\ now < MaxTime
  /\ \/ /\ role = "mids" \/ anyOk
        /\ IF role = "books" THEN GoodRound ELSE UNCHANGED <<breaker, attempt, rounds>>
        /\ pc' = "poll"
     \/ role = "books" /\ ~anyOk /\ FailedRound
  /\ \E d \in 1 .. 2 : now' = now + d
  /\ UNCHANGED <<role, todo, anyOk>>

Next ==
  \/ PollMids \/ BeginBooks \/ EndRound
  \/ \E t \in Tickers : Emit(t)

Spec == Init /\ [][Next]_vars

-----------------------------------------------------------------------------
\* Rounds of the error window that ended by time t.
Recent(t) == {k \in DOMAIN rounds : rounds[k].at >= t - ErrorWindow}
Failed(ks) == {k \in ks : rounds[k].err}

\* A feed is given up only when it is bad: the breaker ends the task only
\* after as many rounds as its threshold failed one after the other, or when
\* of at least as many rounds in the window more than half failed - by exact
\* count, in windows of odd and even size.
StopsOnlyWhenBad ==
  pc = "stopped" =>
    LET n == Len(rounds)
        window == Recent(rounds[n].at)
    IN  \/ n >= Threshold /\ \A k \in n - Threshold + 1 .. n : rounds[k].err
        \/ /\ Cardinality(window) >= Threshold
           /\ 2 * Cardinality(Failed(window)) > Cardinality(window)
=============================================================================

--------------------------- MODULE CircuitBreaker ---------------------------
(***************************************************************************)
(* The per-stream circuit breaker of crates/aether-bus/src/retry.rs: its   *)
(* record and its three operations, as functions of the breaker and the    *)
(* current instant.  Every caller in the repository keeps the breaker      *)
(* behind a mutex, so each operation is one atomic step of the modules     *)
(* that use it.                                                            *)
(***************************************************************************)
EXTENDS Integers, Sequences, FiniteSets

CONSTANTS Threshold,      \* SPEC_DEFAULT_THRESHOLD, 5 in the code
          ErrorWindow,    \* SPEC_ERROR_WINDOW, 30 s in the code
          ResetTimeout    \* SPEC_DEFAULT_RESET, 15 s in the code

ASSUME BreakerAssumption ==
  /\ Threshold \in Nat \ {0}
  /\ ErrorWindow \in Nat \ {0}
  /\ ResetTimeout \in Nat \ {0}

NoTime == -1                                  \* Option<Instant>::None

BreakerStates == {"closed", "open", "half_open"}

Instant == Nat \cup {NoTime}

Breaker ==
  [state : BreakerStates, failures : Nat, windowStart : Instant,
   openedAt : Instant, probe : BOOLEAN,
   recent : Seq([at : Nat, err : BOOLEAN])]

NewBreaker ==
  [state |-> "closed", failures |-> 0, windowStart |-> NoTime,
   openedAt |-> NoTime, probe |-> FALSE, recent |-> << >>]

\* Entries are pushed in time order, so the ones that popping the front while
\* it is older than the cutoff removes are all the older ones.
PushOutcome(b, t, wasError) ==
  LET old == {k \in DOMAIN b.recent : b.recent[k].at < t - ErrorWindow}
  IN  [b EXCEPT !.recent =
         Append(SubSeq(@, Cardinality(old) + 1, Len(@)),
                [at |-> t, err |-> wasError])]

\* Mutant: half of the outcomes are enough.
ErrorRateExceededAtHalf(recent) ==
  LET errors == Cardinality({k \in DOMAIN recent : recent[k].err})
  IN  Len(recent) >= Threshold /\ errors >= Len(recent) \div 2

\* More than half of at least Threshold outcomes are errors.
ErrorRateExceeded(recent) ==
  LET errors == Cardinality({k \in DOMAIN recent : recent[k].err})
  IN  Len(recent) >= Threshold /\ errors > Len(recent) \div 2

\* Mutant: a success in half-open is only counted.
RecordSuccessIgnoredHalfOpen(breaker, t) ==
  LET b == PushOutcome(breaker, t, FALSE)
  IN  IF b.state = "closed"
      THEN [b EXCEPT !.failures = 0, !.windowStart = NoTime] ELSE b

RecordSuccess(breaker, t) ==
  LET b == PushOutcome(breaker, t, FALSE)
  IN  CASE b.state = "half_open" ->
             [b EXCEPT !.state = "closed", !.failures = 0,
                       !.windowStart = NoTime, !.probe = FALSE]
        [] b.state = "closed" ->
             [b EXCEPT !.failures = 0, !.windowStart = NoTime]
        [] OTHER -> b

\* In half-open a failure reopens at once.  Otherwise the consecutive count
\* restarts when its window has elapsed, grows by one (in Open too), and
\* either trigger opens a closed breaker.
RecordFailure(breaker, t) ==
  LET b       == PushOutcome(breaker, t, TRUE)
      elapsed == b.windowStart # NoTime /\ t - b.windowStart >= ErrorWindow
      count   == (IF elapsed THEN 0 ELSE b.failures) + 1
      start   == IF elapsed \/ b.windowStart = NoTime THEN t ELSE b.windowStart
      counted == [b EXCEPT !.failures = count, !.windowStart = start]
  IN  IF b.state = "half_open"
      THEN [b EXCEPT !.state = "open", !.openedAt = t, !.failures = 0,
                     !.probe = FALSE]
      ELSE IF b.state = "closed"
              /\ (count >= Threshold \/ ErrorRateExceeded(b.recent))
           THEN [counted EXCEPT !.state = "open", !.openedAt = t]
           ELSE counted

ResetElapsed(b, t) == b.openedAt # NoTime /\ t - b.openedAt >= ResetTimeout

\* allow_request(): the value it returns ...
AllowRequest(b, t) ==
  \/ b.state = "closed"
  \/ b.state = "open" /\ ResetElapsed(b, t)
  \/ b.state = "half_open" /\ ~b.probe

\* ... and the breaker it leaves behind: an admitted request of an open or
\* half-open breaker is the probe.
AfterAllow(b, t) ==
  IF AllowRequest(b, t) /\ b.state # "closed"
  THEN [b EXCEPT !.state = "half_open", !.probe = TRUE]
  ELSE b
=============================================================================

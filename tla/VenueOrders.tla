---------------------------- MODULE VenueOrders ----------------------------
(***************************************************************************)
(* The REST client of a venue pack that takes orders (client.rs and        *)
(* orders.rs of Kalshi and Alpaca; the read-only packs' clients have the   *)
(* same loop): the requests of a client draw on its token bucket, a 429 is *)
(* retried, and too many of them stop the client - a count at Kalshi, the  *)
(* circuit breaker of aether-bus at the others.  A pack builds two clients *)
(* (main.rs), one for market data and one for orders, each with a bucket   *)
(* and a breaker or count of its own.                                      *)
(*                                                                         *)
(* One unit of time refills Rate tokens.  The venue (external) knows an    *)
(* order by the client order id, which is the intent's.                    *)
(***************************************************************************)
EXTENDS CircuitBreaker

CONSTANTS Requests, Capacity, Rate, MaxRetries, MaxTime, MaxSends

\* A bucket holds a number of tokens, and so many come back in a unit of time.
OrdersAssumption == Capacity \in Nat /\ Rate \in Nat

VARIABLES venue, breaker, failures, bucket, now, req, taken, sends

vars == <<venue, breaker, failures, bucket, now, req, taken, sends>>

Venues  == {"kalshi", "alpaca"}
Clients == {"market", "orders"}
Idle   == [stage |-> "idle", kind |-> "none", attempt |-> 0, wake |-> 0, answer |-> "none"]

Init ==
  /\ venue \in Venues
  /\ breaker = [c \in Clients |-> NewBreaker] /\ failures = [c \in Clients |-> 0]
  /\ bucket = [c \in Clients |-> [tokens |-> Capacity, at |-> 0]]
  /\ now = 0
  /\ req = [r \in Requests |-> Idle]
  /\ taken = [r \in Requests |-> 0]             \* times the venue took the order
  /\ sends = [c \in Clients |-> << >>]          \* history: when requests were sent

-----------------------------------------------------------------------------
(* What is checked before a request is made.                               *)

Orders == [sandbox : BOOLEAN, paper : BOOLEAN, key : {"valid", "invalid"},
           side : {"buy", "sell", "buy_no"}, size : {"positive", "zero"},
           price : {"none", "zero", "inside", "one"}]

\* proto_order_to_intent(): Kalshi has every order a limit order for the day;
\* at Alpaca an order without a price is a market order.
IsMarket(o) == venue = "alpaca" /\ o.price = "none"

\* submit_order(): check_demo(), the market key, the price, the side and the
\* size; only Alpaca asks for a paper intent, and only Kalshi bounds the price.
PriceOk(o) ==
  CASE venue = "kalshi" -> o.price = "inside"
    [] venue = "alpaca" -> o.price \in {"inside", "one"} \/ IsMarket(o)

Checked(o) ==
  CASE o.key = "invalid"                                -> "invalid_argument"
    [] o.key = "valid" /\ ~o.sandbox                    -> "precondition"
    [] o.key = "valid" /\ o.sandbox /\ venue = "alpaca" /\ ~o.paper -> "precondition"
    [] OTHER -> IF o.side = "buy_no" \/ o.size = "zero" \/ ~PriceOk(o)
                THEN "invalid_argument" ELSE "go"

\* map_order_error(); Kalshi tells every refusal of its own as internal.
Told(checked) == IF venue = "kalshi" /\ checked = "precondition" THEN "internal" ELSE checked

Verdicts == {Told(Checked(o)) : o \in Orders}

Submit(r) ==
  /\ req[r].stage = "idle"
  /\ \E verdict \in Verdicts :
       req' = [req EXCEPT ![r] =
         IF verdict = "go" THEN [Idle EXCEPT !.stage = "gate", !.kind = "submit"]
         ELSE [Idle EXCEPT !.stage = "done", !.kind = "submit", !.answer = verdict]]
  /\ UNCHANGED <<venue, breaker, failures, bucket, now, taken, sends>>

\* cancel_order() and get_balances(), and the market data: the former need the
\* sandbox, and a reference to cancel.
Ask(r) ==
  /\ req[r].stage = "idle"
  /\ \E kind \in {"account", "data"}, ok \in BOOLEAN :
       /\ kind = "data" => ok
       /\ req' = [req EXCEPT ![r] =
            IF ok THEN [Idle EXCEPT !.stage = "gate", !.kind = kind]
            ELSE [Idle EXCEPT !.stage = "done", !.kind = kind, !.answer = Told("precondition")]]
  /\ UNCHANGED <<venue, breaker, failures, bucket, now, taken, sends>>

-----------------------------------------------------------------------------
(* One attempt.                                                            *)

HasBreaker == venue = "alpaca"

\* The client that makes a request.
ClientOf(r) == IF req[r].kind = "data" THEN "market" ELSE "orders"

Gate(r) ==
  LET c == ClientOf(r) IN
    /\ req[r].stage = "gate"
    /\ IF HasBreaker /\ ~AllowRequest(breaker[c], now)
       THEN req' = [req EXCEPT ![r].stage = "done", ![r].answer = "breaker"] /\ UNCHANGED breaker
       ELSE /\ req' = [req EXCEPT ![r].stage = "token"]
            /\ breaker' = IF HasBreaker THEN [breaker EXCEPT ![c] = AfterAllow(@, now)] ELSE breaker
    /\ UNCHANGED <<venue, failures, bucket, now, taken, sends>>

\* Mutant: an idle bucket fills without end.
RefillUncapped(b, t) == [tokens |-> b.tokens + Rate * (t - b.at), at |-> t]

\* TokenBucket::refill().
Refill(b, t) ==
  LET filled == b.tokens + Rate * (t - b.at)
  IN  [tokens |-> IF filled < Capacity THEN filled ELSE Capacity, at |-> t]

\* acquire_rate_token(), and the request goes out.
Send(r) ==
  /\ req[r].stage = "token" /\ Len(sends[ClientOf(r)]) < MaxSends
  /\ LET b == Refill(bucket[ClientOf(r)], now) IN
       /\ b.tokens >= 1
       /\ bucket' = [bucket EXCEPT ![ClientOf(r)] = [b EXCEPT !.tokens = @ - 1]]
  /\ sends' = [sends EXCEPT ![ClientOf(r)] = Append(@, now)]
  /\ req' = [req EXCEPT ![r].stage = "sent"]
  /\ UNCHANGED <<venue, breaker, failures, now, taken>>

\* What the venue made of it.
Takes(r) == taken' = [taken EXCEPT ![r] = @ + 1]

Ends(r, answer) == req' = [req EXCEPT ![r].stage = "done", ![r].answer = answer]

\* Mutant: whatever goes wrong is tried again.
RetriesAny(r, status) == req[r].attempt < MaxRetries

\* Only a 429 is tried again.
Retries(r, status) == status = 429 /\ req[r].attempt < MaxRetries

\* The failure of an attempt: after a backoff there is another, or the caller
\* is told.
Fails(r, status) ==
  IF Retries(r, status)
  THEN req' = [req EXCEPT ![r].stage = "backoff", ![r].attempt = @ + 1, ![r].wake = now + 1]
  ELSE Ends(r, "unavailable")

\* Success: the count or the breaker hears of it; an answer that does not
\* parse, or that names another order, is an error for the caller.
Succeeds(r) ==
  /\ req[r].stage = "sent"
  /\ breaker' = IF HasBreaker THEN [breaker EXCEPT ![ClientOf(r)] = RecordSuccess(@, now)] ELSE breaker
  /\ failures' = [failures EXCEPT ![ClientOf(r)] = 0]
  /\ IF req[r].kind = "submit" THEN Takes(r) ELSE UNCHANGED taken
  /\ \E answer \in {"ok", "unparsable"} : Ends(r, answer)
  /\ UNCHANGED <<venue, bucket, now, sends>>

\* 429: the order was not taken.  Kalshi's count ends the request at once when
\* it reaches the threshold; it goes down only with a success.
Limited(r) ==
  /\ req[r].stage = "sent"
  /\ IF HasBreaker
     THEN /\ breaker' = [breaker EXCEPT ![ClientOf(r)] = RecordFailure(@, now)]
          /\ UNCHANGED failures /\ Fails(r, 429)
     ELSE /\ UNCHANGED breaker
          /\ failures' = [failures EXCEPT ![ClientOf(r)] = IF @ < Threshold THEN @ + 1 ELSE @]
          /\ IF failures[ClientOf(r)] + 1 >= Threshold THEN Ends(r, "breaker") ELSE Fails(r, 429)
  /\ UNCHANGED <<venue, bucket, now, taken, sends>>

\* Another status, or no answer at all: the venue may have taken the order,
\* and neither the count nor the breaker hears of it.
Lost(r) ==
  /\ req[r].stage = "sent"
  /\ IF req[r].kind = "submit" THEN Takes(r) \/ UNCHANGED taken ELSE UNCHANGED taken
  /\ Fails(r, 500)
  /\ UNCHANGED <<venue, breaker, failures, bucket, now, sends>>

Wake(r) ==
  /\ req[r].stage = "backoff" /\ now >= req[r].wake
  /\ req' = [req EXCEPT ![r].stage = "gate"]
  /\ UNCHANGED <<venue, breaker, failures, bucket, now, taken, sends>>

\* The caller of a read comes again.
Again(r) ==
  /\ req[r].stage = "done" /\ req[r].kind = "data"
  /\ req' = [req EXCEPT ![r] = Idle]
  /\ UNCHANGED <<venue, breaker, failures, bucket, now, taken, sends>>

Tick ==
  /\ now < MaxTime /\ now' = now + 1
  /\ UNCHANGED <<venue, breaker, failures, bucket, req, taken, sends>>

Step(r) == Gate(r) \/ Send(r) \/ Succeeds(r) \/ Limited(r) \/ Lost(r) \/ Wake(r)

Next ==
  \/ \E r \in Requests : Submit(r) \/ Ask(r) \/ Again(r) \/ Step(r)
  \/ Tick

Spec == Init /\ [][Next]_vars

-----------------------------------------------------------------------------
\* What left a client in a stretch of time is no more than its bucket holds and
\* what it gained meanwhile.
WithinBudget(times) ==
  \A i, j \in DOMAIN times :
    i <= j => j - i + 1 <= Capacity + Rate * (times[j] - times[i])

\* However requests are retried and wait for each other, each client of a pack
\* keeps the budget.  The pack does not: two clients may send twice as much.
BudgetHeld == \A c \in Clients : WithinBudget(sends[c])

\* The client never sends an order again that the venue may have taken: only a
\* caller, who has the answer, may.  And one it refused itself never left.
SentOnce ==
  \A r \in Requests :
    /\ taken[r] <= 1
    /\ req[r].answer \in {"precondition", "invalid_argument", "internal"} => taken[r] = 0
    /\ req[r].kind = "submit" /\ req[r].answer = "ok" => taken[r] = 1

\* SPEC-006:27 has a half-open probe every 15 s: when no request is on its way
\* that could settle a half-open breaker, it lets another one through in time.
ProbeAgain ==
  \A c \in Clients :
    /\ breaker[c].state = "half_open"
    /\ \A r \in Requests : ClientOf(r) = c => req[r].stage \notin {"token", "sent"}
    => AllowRequest(breaker[c], now + ResetTimeout)
=============================================================================

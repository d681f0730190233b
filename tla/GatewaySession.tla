--------------------------- MODULE GatewaySession ---------------------------
(***************************************************************************)
(* The websocket of crates/aether-gateway: upgrades authenticated against  *)
(* the sessions and grants tables, the frames of a connection, order       *)
(* intents and their single-use confirmations, and the broadcast feed.     *)
(* Orders are not submitted here: the gateway only answers whether they    *)
(* are authorized.  One user; each connection is its own task.             *)
(***************************************************************************)
EXTENDS Authorization, Sequences, FiniteSets

CONSTANTS Conns,         \* connections
          MaxTime,       \* the clock stops here
          Validity,      \* CONFIRMATION_VALIDITY_SECS
          IdleExpiry,    \* 30 days of the sessions table
          FeedCapacity,  \* messages the broadcast channel holds
          MaxIssued      \* confirmations issued or orders authorized

\* Connections can be counted.
GatewayAssumption == IsFiniteSet(Conns)

VARIABLES now, session, grants, conns, connectionCount, subscriptionCount,
         issued, authorized

db       == <<session, grants>>
counters == <<connectionCount, subscriptionCount>>
log      == <<issued, authorized>>
vars     == <<now, db, conns, counters, log>>

Actor  == "alice"
NoInfo == [grant |-> 0, kind |-> "none", tier |-> 0, scopes |-> {}, restricted |-> FALSE]
NoConn == [state |-> "new", info |-> NoInfo, subscribed |-> FALSE, unread |-> 0,
           pending |-> {}]

Init ==
  /\ now = 1
  /\ \E who \in {<<"human", 1>>, <<"human", 3>>, <<"agent", 4>>} :
       session = [kind |-> who[1], tier |-> who[2], revoked |-> FALSE,
                  expires |-> MaxTime + 1, idleExpires |-> IdleExpiry]
  /\ grants = << Grant(Actor, session.kind, 3, {}, FALSE, 0),
                 Grant(Actor, session.kind, 4, {"Subscribe", "SubmitPaperOrder"}, TRUE, 2) >>
  /\ conns = [c \in Conns |-> NoConn]
  /\ connectionCount = 0 /\ subscriptionCount = 0
  /\ issued = << >> /\ authorized = << >>

-----------------------------------------------------------------------------
(* Authentication.                                                         *)

LiveGrants == {g \in DOMAIN grants : grants[g].actor = Actor
                 /\ grants[g].kind = session.kind /\ IsActive(grants[g], now)}

\* ORDER BY tier DESC, expires_ts DESC NULLS FIRST, id.
Before(g, h) ==
  LET Expiry(x) == IF grants[x].expiry = 0 THEN MaxTime + 2 ELSE grants[x].expiry
  IN  \/ grants[g].tier > grants[h].tier
      \/ grants[g].tier = grants[h].tier /\ Expiry(g) > Expiry(h)
      \/ grants[g].tier = grants[h].tier /\ Expiry(g) = Expiry(h) /\ g < h
BestGrant == CHOOSE g \in LiveGrants : \A h \in LiveGrants \ {g} : Before(g, h)

SessionLive == session.expires > now /\ session.idleExpires > now /\ ~session.revoked

\* validate_token(): the touch is kept even when no grant joins the session.
TouchedSession ==
  IF SessionLive
  THEN [session EXCEPT !.idleExpires = IF session.expires <= now + IdleExpiry
                                       THEN session.expires ELSE now + IdleExpiry]
  ELSE session

SessionInfo ==
  LET g == grants[BestGrant]
  IN  [grant |-> BestGrant, kind |-> session.kind, scopes |-> g.scopes,
       restricted |-> g.restricted, tier |-> LowerTier(session.tier, g.tier)]

\* An upgrade: the session it finds serves the connection to its end.
Upgrade(c) ==
  /\ conns[c].state = "new"
  /\ session' = TouchedSession
  /\ IF SessionLive /\ LiveGrants # {}
     THEN /\ conns' = [conns EXCEPT ![c] =
                        [NoConn EXCEPT !.state = "open", !.info = SessionInfo]]
          /\ connectionCount' = connectionCount + 1
     ELSE UNCHANGED <<conns, connectionCount>>
  /\ UNCHANGED <<now, grants, subscriptionCount, log>>

\* POST /auth/validate.
Validate ==
  /\ session' = TouchedSession
  /\ UNCHANGED <<now, grants, conns, counters, log>>

-----------------------------------------------------------------------------
(* The end of a step of connection c: it goes on as conn, or the answer    *)
(* could not be sent, the loop breaks and the counters are taken back.     *)

\* Mutant: a connection that ends while subscribed stays counted.
ContinueLeavesCount(c, conn) ==
  \E sent \in BOOLEAN :
    /\ conns' = [conns EXCEPT ![c] = IF sent THEN conn ELSE [NoConn EXCEPT !.state = "closed"]]
    /\ connectionCount' = connectionCount - IF sent THEN 0 ELSE 1
    /\ subscriptionCount' = subscriptionCount
         + (IF conn.subscribed THEN 1 ELSE 0) - (IF conns[c].subscribed THEN 1 ELSE 0)

Continue(c, conn) ==
  \E sent \in BOOLEAN :
    /\ conns' = [conns EXCEPT ![c] = IF sent THEN conn ELSE [NoConn EXCEPT !.state = "closed"]]
    /\ connectionCount' = connectionCount - IF sent THEN 0 ELSE 1
    /\ subscriptionCount' = subscriptionCount
         + (IF conn.subscribed /\ sent THEN 1 ELSE 0) - (IF conns[c].subscribed THEN 1 ELSE 0)

Open(c) == conns[c].state = "open"

\* authorize(): the captured grant and, for a human, the same tier as session.
Authorize(info, action, confirmed) ==
  Evaluate(Actor, info.kind,
           Grant(Actor, info.kind, info.tier, info.scopes, info.restricted, 0), action,
           Context(now, IF info.kind = "human" THEN info.tier ELSE 0, confirmed, FALSE))

\* The flag is set before dispatch authorizes, and whatever it answers.
Subscribe(c) ==
  /\ Open(c)
  /\ Continue(c, IF conns[c].subscribed THEN conns[c]
                 ELSE [conns[c] EXCEPT !.subscribed = TRUE, !.unread = 0])
  /\ UNCHANGED <<now, db, log>>

Unsubscribe(c) ==
  /\ Open(c)
  /\ Continue(c, [conns[c] EXCEPT !.subscribed = FALSE])
  /\ UNCHANGED <<now, db, log>>

\* Command, ping, a frame that does not parse: an answer and nothing else.
OtherFrame(c) ==
  /\ Open(c) /\ Continue(c, conns[c])
  /\ UNCHANGED <<now, db, log>>

Disconnect(c) ==
  /\ Open(c)
  /\ conns' = [conns EXCEPT ![c] = [NoConn EXCEPT !.state = "closed"]]
  /\ connectionCount' = connectionCount - 1
  /\ subscriptionCount' = subscriptionCount - IF conns[c].subscribed THEN 1 ELSE 0
  /\ UNCHANGED <<now, db, log>>

-----------------------------------------------------------------------------
(* Order intents.                                                          *)

GoodBody == [parses |-> TRUE, type |-> "limit", limit |-> "price", size |-> "positive",
             quoteMatches |-> TRUE, paper |-> TRUE]
Bodies ==
  {GoodBody, [GoodBody EXCEPT !.paper = FALSE], [GoodBody EXCEPT !.parses = FALSE],
   [GoodBody EXCEPT !.type = "market"], [GoodBody EXCEPT !.limit = "absent"],
   [GoodBody EXCEPT !.type = "market", !.limit = "absent"],
   [GoodBody EXCEPT !.size = "zero"], [GoodBody EXCEPT !.quoteMatches = FALSE]}

\* ClientOrderIntentBody: its fields parse, and what validate() checks.
ValidBody(b) ==
  /\ b.parses /\ b.size = "positive" /\ b.quoteMatches
  /\ b.limit = IF b.type = "limit" THEN "price" ELSE "absent"

Authorized(c, ref, action) ==
  authorized' = Append(authorized,
    [conn |-> c, ref |-> ref, action |-> action, at |-> now,
     live |-> SessionLive /\ IsActive(grants[conns[c].info.grant], now)])

OrderAction(b) == IF b.paper THEN "SubmitPaperOrder" ELSE "SubmitLiveOrder"

\* A body that is not valid, a verdict that denies, and a live order the policy
\* would let through all end in an error.
Refuses(c, b) ==
  \/ ~ValidBody(b) \/ ~b.paper
  \/ Authorize(conns[c].info, OrderAction(b), FALSE) \in {"Deny", "StepUpRequired"}

OrderRefused(c) ==
  /\ Open(c) /\ {b \in Bodies : Refuses(c, b)} # {}
  /\ Continue(c, conns[c])
  /\ UNCHANGED <<now, db, log>>

OrderIntent(c) ==
  /\ Open(c) /\ Len(issued) + Len(authorized) < MaxIssued
  /\ \E action \in {OrderAction(b) : b \in {b \in Bodies : ~Refuses(c, b)}} :
       LET ref == Len(issued) + 1
       IN  IF Authorize(conns[c].info, action, FALSE) = "Allow"
           THEN Continue(c, conns[c]) /\ Authorized(c, 0, action) /\ UNCHANGED issued
           ELSE /\ issued' = Append(issued, [conn |-> c, action |-> action, at |-> now])
                /\ Continue(c, [conns[c] EXCEPT !.pending = @ \cup
                     {[ref |-> ref, action |-> action, expires |-> now + Validity]}])
                /\ UNCHANGED authorized
  /\ UNCHANGED <<now, db>>

\* Mutant: the reference is looked up and left in place.
ConfirmKeepsReference(c) ==
  /\ Open(c)
  /\ \E ref \in DOMAIN issued :
       LET found == {p \in conns[c].pending : p.ref = ref} IN
         \/ /\ \A p \in found : now >= p.expires \/ Authorize(conns[c].info, p.action, TRUE) # "Allow"
            /\ Continue(c, conns[c]) /\ UNCHANGED authorized
         \/ \E p \in found :
              /\ now < p.expires /\ Authorize(conns[c].info, p.action, TRUE) = "Allow"
              /\ Len(authorized) <= MaxIssued
              /\ Continue(c, conns[c]) /\ Authorized(c, ref, p.action)
  /\ UNCHANGED <<now, db, issued>>

\* A confirmation takes its reference off first, whatever follows; a reference
\* of another connection is not found.
Confirm(c) ==
  /\ Open(c)
  /\ \E ref \in DOMAIN issued :
       LET found == {p \in conns[c].pending : p.ref = ref}
           after == [conns[c] EXCEPT !.pending = @ \ found]
       IN  \/ /\ \A p \in found : now >= p.expires
                                  \/ Authorize(conns[c].info, p.action, TRUE) # "Allow"
              /\ Continue(c, after) /\ UNCHANGED authorized
           \/ \E p \in found :
                /\ now < p.expires /\ Authorize(conns[c].info, p.action, TRUE) = "Allow"
                /\ Continue(c, after) /\ Authorized(c, ref, p.action)
  /\ UNCHANGED <<now, db, issued>>

-----------------------------------------------------------------------------
(* The feed.  A receiver of the broadcast channel has messages to read; the  *)
(* channel keeps the last FeedCapacity, so a count above that is a lag.      *)

Lagged(conn) == conn.unread > FeedCapacity

Surface ==
  /\ conns' = [c \in Conns |->
       IF Open(c) /\ conns[c].subscribed /\ ~Lagged(conns[c])
       THEN [conns[c] EXCEPT !.unread = @ + 1] ELSE conns[c]]
  /\ UNCHANGED <<now, db, counters, log>>

\* recv(): a receiver that lags loses the oldest messages and goes on.
Push(c) ==
  /\ Open(c) /\ conns[c].subscribed /\ conns[c].unread > 0
  /\ IF Lagged(conns[c])
     THEN conns' = [conns EXCEPT ![c].unread = FeedCapacity] /\ UNCHANGED counters
     ELSE Continue(c, [conns[c] EXCEPT !.unread = @ - 1])
  /\ UNCHANGED <<now, db, log>>

-----------------------------------------------------------------------------
(* The tables are written by others; the clock.                            *)

RevokeSession ==
  /\ ~session.revoked /\ session' = [session EXCEPT !.revoked = TRUE]
  /\ UNCHANGED <<now, grants, conns, counters, log>>

RevokeGrant(g) ==
  /\ ~grants[g].revoked /\ grants' = [grants EXCEPT ![g].revoked = TRUE]
  /\ UNCHANGED <<now, session, conns, counters, log>>

Tick ==
  /\ now < MaxTime /\ now' = now + 1
  /\ UNCHANGED <<db, conns, counters, log>>

Next ==
  \/ \E c \in Conns : \/ Upgrade(c) \/ Subscribe(c) \/ Unsubscribe(c) \/ OtherFrame(c)
                      \/ Disconnect(c) \/ OrderRefused(c)
                      \/ OrderIntent(c) \/ Confirm(c) \/ Push(c)
  \/ \E g \in DOMAIN grants : RevokeGrant(g)
  \/ Validate \/ Surface \/ RevokeSession \/ Tick

Spec == Init /\ [][Next]_vars

-----------------------------------------------------------------------------
\* The health counters are the connections and subscriptions there are, however
\* a connection ends: by the client, or by an answer that could not be sent.
CountersExact ==
  /\ connectionCount = Cardinality({c \in Conns : Open(c)})
  /\ subscriptionCount = Cardinality({c \in Conns : Open(c) /\ conns[c].subscribed})

\* An order is confirmed at most once for each confirmation asked of it, on the
\* connection it was asked on and before that went stale; a live order is never
\* authorized, directly or by way of a confirmation.
ConfirmationsSound ==
  \A k \in DOMAIN authorized : LET a == authorized[k] IN
    /\ a.action = "SubmitPaperOrder"
    /\ a.ref # 0 => /\ issued[a.ref].conn = a.conn /\ issued[a.ref].action = a.action
                    /\ a.at < issued[a.ref].at + Validity
                    /\ \A j \in DOMAIN authorized : authorized[j].ref = a.ref => j = k

\* "so revocation is also immediate": no order is authorized once the session
\* or the grant behind it has been revoked or has expired.
RevocationImmediate == \A k \in DOMAIN authorized : authorized[k].live
=============================================================================

--------------------------- MODULE GuardianAccess ---------------------------
(***************************************************************************)
(* Who may act at the wallet guardian's gRPC boundary, and on what         *)
(* (src/connectors/execution/wallet-guardian/src/grpc.rs): the service     *)
(* token and operator sessions, the permission grant behind a caller, the  *)
(* allowlist read at start, the reference price, the policy's verdict and  *)
(* the step-up of an approval.  Spending limits, the broadcast worker and  *)
(* the chain are the subject of WalletGuardian.                            *)
(*                                                                         *)
(* A call reads session, grant, scopes and price with one query each; only *)
(* its last step is a transaction, which reads grant and session again     *)
(* under lock.  A call whose query finds nothing or the wrong thing, or    *)
(* whose client goes away, ends without effect (Reject).                   *)
(***************************************************************************)
EXTENDS Integers, Sequences, FiniteSetTheorems, TLAPS

CONSTANTS
    Calls,          \* gRPC calls served at the same time
    Grants,         \* permission_grants rows, numbered so that of two with
                    \* one tier the query takes the lower
    Grant,          \* [Grants -> [actor, kind, tier, scopes]]
    Sessions,
    Session,        \* [Sessions -> [user, tier, origin]]
    ServiceActors,  \* [actor, kind] that the service token's holder names
    Transactions,   \* wire transactions: amount is what the data (or, without
                    \* data, the value) moves, wei is tx.value
    Proposals, References,
    Listings,       \* allowlist entries an operator may write: [to, data]
    Installed,      \* those written a cooldown before the first start
    Decimals,       \* the reference asset's precision
    Usd,            \* prices that may be observed
    Cooldown,       \* 24 h
    PriceMaxAge,    \* 60 s
    ReferenceTtl, ProposalTtl, ApprovalTtl,     \* 10 min, 60 s for the last two
    MaxReferences,  \* 3 an hour for one actor; no run is that long
    Chains, MaxFee, MaxAutoApprove,             \* PolicyConfig
    MaxWrongCodes,  \* 5
    MaxTime,        \* bound: the last instant
    MaxChanges      \* bound: grants and sessions ended, listings, restarts

VARIABLES
    now,
    serving,        \* the process is up
    entries,        \* the environment's allowlist: [to, data, at]
    allowed,        \* the allowlist the process parsed when it started
    ended,          \* grants and sessions revoked or expired
    price,          \* the latest guardian_reference_prices row
    proposal,       \* guardian_proposals; until is expires_ts of a pending
                    \* one, approval_expires_at of an approved one
    ref,            \* approval_references with their step_up_challenges
    wrong,          \* approval_attempts of a reference with a wrong code
    call,
    log,            \* guardian_proposal_events, and what ended in between
    changes
store == <<entries, ended, price, proposal, ref, wrong, log, changes>>
vars == <<now, serving, allowed, call, store>>

None == [none |-> TRUE]
NoSession == "no session"
NoGrant == 0
Propose == "guardian.transfer"
Approve == "guardian.approve"
Idle == [stage |-> "idle"]

\* A map with one more entry.
Extended(f, k, v) == [q \in DOMAIN f \cup {k} |-> IF q = k THEN v ELSE f[q]]

Init ==
    /\ now = 0
    /\ serving = TRUE
    /\ entries = {[to |-> l.to, data |-> l.data, at |-> -Cooldown] : l \in Installed}
    /\ allowed = entries
    /\ ended = {}
    /\ price \in [usd : Usd, at : {0}]
    /\ proposal = [p \in {} |-> None]
    /\ ref = [r \in {} |-> None]
    /\ wrong = [r \in References |-> 0]
    /\ call = [c \in Calls |-> Idle]
    /\ log = <<>>
    /\ changes = 0

-----------------------------------------------------------------------------
(* Configuration *)

\* Mutant: the activation time is parsed and not compared.
ActivatedAnyTime(entry) == TRUE

\* require_allowlist_cooldown
Activated(entry) == entry.at <= now /\ now - entry.at >= Cooldown

\* The server starts with every entry of the environment activated, or not
\* at all.
Restart ==
    /\ changes < MaxChanges
    /\ changes' = changes + 1
    /\ serving' = \A entry \in entries : Activated(entry)
    /\ allowed' = IF \A entry \in entries : Activated(entry)
                  THEN entries ELSE {}
    /\ call' = [c \in Calls |-> Idle]
    /\ UNCHANGED <<now, entries, ended, price, proposal, ref, wrong, log>>

\* The operator writes an entry with the present time, or takes it out.
EditAllowlist(l) ==
    /\ changes < MaxChanges
    /\ changes' = changes + 1
    /\ entries' = LET old == {e \in entries : e.to = l.to /\ e.data = l.data} IN
                  IF old # {} THEN entries \ old
                  ELSE entries \cup {[to |-> l.to, data |-> l.data, at |-> now]}
    /\ UNCHANGED <<now, serving, allowed, ended, price, proposal, ref, wrong,
                   call, log>>

-----------------------------------------------------------------------------
(* Authentication and authority *)

ScopeAllowed(scopes, scope) == scopes = {} \/ scope \in scopes

Begin(c, who, request) ==
    /\ serving
    /\ call[c] = Idle
    /\ call' = [call EXCEPT ![c] = [stage |-> "grant", who |-> who,
                                    request |-> request, at |-> now,
                                    value |-> 0]]
    /\ UNCHANGED <<now, serving, allowed, store>>

\* The service token's holder names the actor; a session must be live and a
\* person's.
AuthenticateService(c, who, request) ==
    /\ who.kind \in {"human", "agent", "automation"}
    /\ Begin(c, [actor |-> who.actor, kind |-> who.kind, session |-> NoSession,
                 tier |-> 9, grant |-> NoGrant], request)

AuthenticateSession(c, s, request) ==
    /\ s \notin ended
    /\ Session[s].origin = "human"
    /\ Begin(c, [actor |-> Session[s].user, kind |-> "human", session |-> s,
                 tier |-> Session[s].tier, grant |-> NoGrant], request)

Lesser(a, b) == IF a < b THEN a ELSE b

\* The grant of the highest tier, of those the one that lasts longest, of
\* those the one with the least id.
CurrentGrant(c) ==
    /\ call[c].stage = "grant"
    /\ LET who == call[c].who
           mine == {g \in Grants \ ended : Grant[g].actor = who.actor
                                           /\ Grant[g].kind = who.kind}
       IN \E g \in mine :
             /\ \A h \in mine : \/ Grant[g].tier > Grant[h].tier
                                \/ Grant[g].tier = Grant[h].tier /\ g <= h
             /\ call' = [call EXCEPT ![c] = [@ EXCEPT !.stage = "scope", !.who =
                   [who EXCEPT !.grant = g, !.tier = Lesser(@, Grant[g].tier)]]]
    /\ UNCHANGED <<now, serving, allowed, store>>

\* The scope and tier a request asks for; reading a proposal is checked here
\* for people only.
RequestScope(request, kind) ==
    IF request.op = "propose" \/ (request.op = "get" /\ kind # "human")
    THEN Propose ELSE Approve

\* grant_scopes reads the row whether it is current or not.
ReadScopes(c) ==
    /\ call[c].stage = "scope"
    /\ LET who == call[c].who request == call[c].request IN
       /\ request.op = "approve" => who.kind = "human" /\ who.session # NoSession
       /\ \/ request.op = "get" /\ who.kind # "human"
          \/ /\ who.tier >= 4
             /\ ScopeAllowed(Grant[who.grant].scopes,
                             RequestScope(request, who.kind))
    /\ call' = [call EXCEPT ![c] = [@ EXCEPT !.at = now,
                  !.stage = IF call[c].request.op = "propose" THEN "price"
                            ELSE "commit"]]
    /\ UNCHANGED <<now, serving, allowed, store>>

\* Mutant: the transaction trusts what the call read before.
RevalidatedBefore(who, scope, needsSession) == TRUE

\* revalidate_principal, inside the transaction and with the rows locked.
Revalidated(who, scope, needsSession) ==
    /\ who.grant \notin ended
    /\ who.session = NoSession => ~needsSession
    /\ who.session # NoSession => who.session \notin ended
    /\ (IF who.session = NoSession THEN Grant[who.grant].tier
        ELSE Lesser(Session[who.session].tier, Grant[who.grant].tier)) >= 4
    /\ ScopeAllowed(Grant[who.grant].scopes, scope)

Event(id, to, who) == [id |-> id, to |-> to, grant |-> who.grant,
                       session |-> who.session]
Ends(what) ==
    [id |-> "ended", grant |-> IF what \in Grants THEN what ELSE NoGrant,
     session |-> IF what \in Sessions THEN what ELSE "none"]

\* A call that ends without effect, or with an approval_attempts row alone.
Reject(c) ==
    /\ call[c] # Idle
    /\ call' = [call EXCEPT ![c] = Idle]
    /\ UNCHANGED <<now, serving, allowed, store>>

-----------------------------------------------------------------------------
(* propose_transaction *)

\* parse_wire_tx and the asset's identity; the other formats are in ok.
Parsed(tx) ==
    /\ tx.ok
    /\ tx.tip <= tx.fee
    /\ tx.decimals <= 28
    /\ tx.asset = IF tx.data = "none" THEN "native" ELSE "token"

\* requested_value_usd knows transfers, approvals and plain value.
Valued(tx) == tx.data \in {"none", "transfer", "approve"}
ValueUsd(tx, usd) == tx.amount * usd

ReadPrice(c) ==
    /\ call[c].stage = "price"
    /\ LET tx == call[c].request.tx IN
       /\ Parsed(tx)
       /\ price.at <= now /\ now - price.at <= PriceMaxAge
       /\ tx.decimals = Decimals
       /\ Valued(tx)
       /\ call' = [call EXCEPT ![c] = [@ EXCEPT !.stage = "commit",
                     !.value = ValueUsd(tx, price.usd)]]
    /\ UNCHANGED <<now, serving, allowed, store>>

\* Mutant: only value makes a withdrawal.
WithdrawalByValue(tx, value) == value > 0

Withdrawal(tx, value) == value > 0 \/ tx.data # "none"

AllowedTransaction(tx) ==
    \E entry \in allowed : entry.to = tx.to /\ entry.data = tx.data

\* evaluate_with_simulation: simulates and within stand for the chain's
\* answer and the limits.
Verdict(tx, value, tier, simulates, within) ==
    IF \/ tx.chain \notin Chains \/ ~AllowedTransaction(tx)
       \/ ~simulates \/ ~within \/ tx.fee > MaxFee
       \/ tx.wei > 0 /\ value <= 0
    THEN "denied"
    ELSE IF Withdrawal(tx, value) \/ value > MaxAutoApprove \/ tier < 4
    THEN "pending"
    ELSE "auto_approved"

CommitPropose(c, p, simulates, within) ==
    /\ call[c].stage = "commit" /\ call[c].request.op = "propose"
    /\ p \notin DOMAIN proposal
    /\ LET who == call[c].who tx == call[c].request.tx
           state == Verdict(tx, call[c].value, who.tier, simulates, within)
       IN /\ Revalidated(who, Propose, FALSE)
          /\ proposal' = Extended(proposal, p, [tx |-> tx, state |-> state,
                until |-> now + IF state = "auto_approved" THEN ApprovalTtl
                                ELSE ProposalTtl])
          /\ log' = Append(log, Event(p, state, who))
    /\ call' = [call EXCEPT ![c] = Idle]
    /\ UNCHANGED <<now, serving, allowed, entries, ended, price, ref, wrong,
                   changes>>

-----------------------------------------------------------------------------
(* approve_proposal and get_proposal *)

\* The alerts service makes a reference and its challenge for one actor and
\* one proposal, unless one is pending that has not run out.
IssueReference(r, actor, p) ==
    LET mine == {q \in DOMAIN ref : ref[q].actor = actor}
        pending == {q \in mine : ref[q].target = p /\ ref[q].status = "pending"}
        over == {q \in pending : ref[q].expires <= now}
    IN
    /\ r \notin DOMAIN ref
    /\ Cardinality(mine) < MaxReferences
    /\ pending = over
    /\ ref' = Extended([q \in DOMAIN ref |-> IF q \in over
                          THEN [ref[q] EXCEPT !.status = "expired"] ELSE ref[q]],
                 r, [actor |-> actor, target |-> p, status |-> "pending",
                     expires |-> now + ReferenceTtl, consumed |-> FALSE])
    /\ UNCHANGED <<now, serving, allowed, call, entries, ended, price,
                   proposal, wrong, log, changes>>

Bound(r, who, p, at) ==
    /\ ref[r].actor = who.actor
    /\ ref[r].target = p
    /\ ref[r].status = "pending" /\ ref[r].expires > at
    /\ ~ref[r].consumed

\* Deadlines are compared with the clock read before the transaction.
Current(p, at) == proposal[p].until > at

\* The transaction of approve_proposal, as far as the row locks.
Approving(c) ==
    LET request == call[c].request who == call[c].who IN
    /\ call[c].stage = "commit" /\ request.op = "approve"
    /\ Revalidated(who, Approve, TRUE)
    /\ request.id \in DOMAIN proposal
    /\ proposal[request.id].state = "pending"
    /\ Current(request.id, call[c].at)
    /\ request.hash = proposal[request.id].tx
    /\ request.reference \in DOMAIN ref
    /\ call' = [call EXCEPT ![c] = Idle]

CommitApprove(c) ==
    LET request == call[c].request who == call[c].who IN
    /\ Approving(c)
    /\ Bound(request.reference, who, request.id, call[c].at)
    /\ proposal' = [proposal EXCEPT ![request.id].state = "approved",
                                   ![request.id].until = now + ApprovalTtl]
    /\ ref' = [ref EXCEPT ![request.reference] =
                  [@ EXCEPT !.status = "approved", !.consumed = TRUE]]
    /\ log' = Append(log, Event(request.id, "approved", who))
    /\ UNCHANGED <<now, serving, allowed, entries, ended, price, wrong, changes>>

\* The last wrong code uses up the challenge and fails the reference.
WrongCode(c) ==
    LET r == call[c].request.reference IN
    /\ Approving(c)
    /\ Bound(r, call[c].who, call[c].request.id, call[c].at)
    /\ wrong' = [wrong EXCEPT ![r] = @ + 1]
    /\ ref' = IF wrong[r] >= MaxWrongCodes - 1
              THEN [ref EXCEPT ![r] =
                      [@ EXCEPT !.status = "failed", !.consumed = TRUE]]
              ELSE ref
    /\ UNCHANGED <<now, serving, allowed, entries, ended, price, proposal, log,
                   changes>>

Expire(p, who) ==
    /\ proposal' = [proposal EXCEPT ![p].state = "expired"]
    /\ log' = Append(log, Event(p, "expired", who))

\* A proposal past its deadline is expired by whoever reads it or tries to
\* approve it.  (The broadcast worker's jobs, which keep an approved proposal
\* from expiring, are WalletGuardian's.)
CommitExpiry(c) ==
    LET p == call[c].request.id who == call[c].who IN
    /\ call[c].stage = "commit" /\ call[c].request.op \in {"get", "approve"}
    /\ Revalidated(who, RequestScope(call[c].request, who.kind),
                   who.kind = "human")
    /\ p \in DOMAIN proposal
    /\ \/ /\ call[c].request.op = "approve"
          /\ proposal[p].state = "pending"
          /\ ~Current(p, call[c].at)
       \/ /\ call[c].request.op = "get"
          /\ proposal[p].state \in {"pending", "approved", "auto_approved"}
          /\ ~Current(p, now)
    /\ Expire(p, who)
    /\ call' = [call EXCEPT ![c] = Idle]
    /\ UNCHANGED <<now, serving, allowed, entries, ended, price, ref, wrong,
                   changes>>

-----------------------------------------------------------------------------
(* The environment *)

\* A grant or a session is revoked or runs out.
End(what) ==
    /\ what \notin ended
    /\ changes < MaxChanges
    /\ changes' = changes + 1
    /\ ended' = ended \cup {what}
    /\ log' = Append(log, Ends(what))
    /\ UNCHANGED <<now, serving, allowed, call, entries, price, proposal, ref,
                   wrong>>

ObservePrice(usd) ==
    /\ price' = [usd |-> usd, at |-> now]
    /\ price' # price
    /\ UNCHANGED <<now, serving, allowed, call, entries, ended, proposal, ref,
                   wrong, log, changes>>

Tick ==
    /\ now < MaxTime
    /\ now' = now + 1
    /\ UNCHANGED <<serving, allowed, call, store>>

Requests ==
    [op : {"propose"}, tx : Transactions] \cup [op : {"get"}, id : Proposals]
      \cup [op : {"approve"}, id : Proposals, reference : References,
            hash : Transactions]

Next ==
    \/ \E c \in Calls, request \in Requests :
          \/ \E who \in ServiceActors : AuthenticateService(c, who, request)
          \/ \E s \in Sessions : AuthenticateSession(c, s, request)
    \/ \E c \in Calls :
          \/ CurrentGrant(c) \/ ReadScopes(c) \/ ReadPrice(c) \/ Reject(c)
          \/ CommitApprove(c) \/ WrongCode(c) \/ CommitExpiry(c)
    \/ \E c \in Calls, p \in Proposals, simulates, within \in BOOLEAN :
          CommitPropose(c, p, simulates, within)
    \/ \E r \in References, p \in Proposals,
          actor \in {Session[s].user : s \in Sessions} : IssueReference(r, actor, p)
    \/ \E what \in Grants \cup Sessions : End(what)
    \/ \E l \in Listings : EditAllowlist(l)
    \/ Restart
    \/ \E usd \in Usd : ObservePrice(usd)
    \/ Tick

Spec == Init /\ [][Next]_vars

-----------------------------------------------------------------------------
(* Properties *)

Recorded == {i \in DOMAIN log : log[i].id # "ended"}

\* Nothing is recorded on the authority of a grant or a session after it has
\* ended, however long before the call had been authenticated; and only a
\* person's session approves.
AuthorityHeld ==
    \A i \in Recorded :
        /\ \A j \in DOMAIN log \ Recorded :
              j < i => /\ log[j].grant # log[i].grant
                       /\ log[j].session # log[i].session
        /\ log[i].to = "approved" =>
              /\ log[i].session # NoSession
              /\ ScopeAllowed(Grant[log[i].grant].scopes, Approve)

ApprovalEvents == {i \in Recorded : log[i].to = "approved"}
UsedReferences == {r \in DOMAIN ref : ref[r].status = "approved"}

\* Every approval used up one reference, made for that proposal and that
\* actor, and no reference served two.
ApprovedByReference ==
    /\ Cardinality(UsedReferences) = Cardinality(ApprovalEvents)
    /\ \A i \in ApprovalEvents : \E r \in UsedReferences :
          /\ ref[r].target = log[i].id
          /\ ref[r].actor = Grant[log[i].grant].actor

CodesBounded == \A r \in References : wrong[r] <= MaxWrongCodes

\* What is approved without a person moves neither value nor tokens, also
\* where the price says that it is worth nothing.
AutoApprovedMovesNothing ==
    \A p \in DOMAIN proposal :
        proposal[p].state = "auto_approved" =>
            proposal[p].tx.amount = 0 /\ proposal[p].tx.data = "none"

\* The allowlist in force was written a cooldown ago or earlier.
ListedLongEnough == \A entry \in allowed : now - entry.at >= Cooldown

\* The boundary's promises: authority is current when it is used, an
\* approval is one person's for one proposal, and no path around a person
\* moves anything.
GuardianAccessSound ==
    /\ AuthorityHeld
    /\ ApprovedByReference
    /\ CodesBounded
    /\ AutoApprovedMovesNothing
    /\ ListedLongEnough

-----------------------------------------------------------------------------
(* Theorem: GuardianAccessSound for any calls, grants, sessions and        *)
(* transactions, any deadlines and bounds.                                 *)

\* What the theorem assumes of the constants: markers are none of the things
\* they mark the absence of, amounts and deadlines are naturals, and where a
\* transaction has no data its amount is the value it sends.
AccessAssumption ==
    /\ NoGrant \notin Grants
    /\ NoSession \notin Sessions /\ "none" \notin Sessions
    /\ "ended" \notin Proposals
    /\ \A g \in Grants : Grant[g].tier \in Nat
    /\ \A s \in Sessions : Session[s].tier \in Nat
    /\ \A tx \in Transactions :
          /\ tx.amount \in Nat /\ tx.wei \in Nat
          /\ tx.data = "none" => tx.wei = tx.amount
    /\ Usd \subseteq Nat
    /\ Cooldown \in Nat
    /\ ReferenceTtl \in Nat /\ ProposalTtl \in Nat /\ ApprovalTtl \in Nat
    /\ MaxWrongCodes \in Nat \ {0}

Actors == {who.actor : who \in ServiceActors} \cup {Session[s].user : s \in Sessions}
Principals == [actor : Actors, kind : {"human", "agent", "automation"},
               session : Sessions \cup {NoSession}, tier : Nat,
               grant : Grants \cup {NoGrant}]
Served == [stage : {"grant", "scope", "price", "commit"}, who : Principals,
           request : Requests, at : Nat, value : Nat]
Verdicts == {"denied", "pending", "auto_approved", "approved", "expired"}
ProposalRows == [tx : Transactions, state : Verdicts, until : Nat]
ReferenceRows == [actor : Actors, target : Proposals,
                  status : {"pending", "approved", "failed", "expired"},
                  expires : Nat, consumed : BOOLEAN]
Events == [id : Proposals, to : Verdicts, grant : Grants,
           session : Sessions \cup {NoSession}]
Endings == [id : {"ended"}, grant : Grants \cup {NoGrant},
            session : Sessions \cup {"none"}]

\* A call past its grant has one, and it is the caller's own; only proposals
\* are priced.
Authorized(served) ==
    served.stage \in {"scope", "price", "commit"} =>
        /\ served.who.grant \in Grants
        /\ Grant[served.who.grant].actor = served.who.actor
        /\ served.stage = "price" => served.request.op = "propose"

TypeOK ==
    /\ now \in Nat
    /\ \A entry \in entries \cup allowed : entry.at \in Int
    /\ price.usd \in Nat
    /\ DOMAIN proposal \subseteq Proposals
    /\ proposal \in [DOMAIN proposal -> ProposalRows]
    /\ DOMAIN ref \subseteq References
    /\ ref \in [DOMAIN ref -> ReferenceRows]
    /\ wrong \in [References -> Nat]
    /\ call \in [Calls -> {Idle} \cup Served]
    /\ log \in Seq(Events \cup Endings)
    /\ \A c \in Calls : Authorized(call[c])

\* A step of a call before its transaction, or one that ends it.
CallStep(c) ==
    /\ \E next \in {Idle} \cup Served :
          Authorized(next) /\ call' = [call EXCEPT ![c] = next]
    /\ UNCHANGED <<now, serving, allowed, store>>

\* The steps of a call before its transaction have no other effect, and only
\* carry a current grant of the caller.
LEMMA CallStepIs ==
    ASSUME AccessAssumption, TypeOK, NEW c \in Calls,
           \/ \E request \in Requests :
                 \/ \E who \in ServiceActors : AuthenticateService(c, who, request)
                 \/ \E s \in Sessions : AuthenticateSession(c, s, request)
           \/ CurrentGrant(c) \/ ReadScopes(c) \/ ReadPrice(c) \/ Reject(c)
    PROVE  CallStep(c)
<1>0. call[c] \in {Idle} \cup Served /\ Idle.stage = "idle" /\ Authorized(call[c])
  BY DEF TypeOK, Idle
<1>1. CASE Reject(c)
  BY <1>0, <1>1 DEF Reject, CallStep, Authorized
<1>2. ASSUME NEW request \in Requests, NEW who \in Principals,
             Begin(c, who, request)
      PROVE  CallStep(c)
  <2> DEFINE next == [stage |-> "grant", who |-> who, request |-> request,
                      at |-> now, value |-> 0]
  <2>1. next \in Served /\ Authorized(next)
    BY DEF Served, Authorized, TypeOK
  <2>2. call' = [call EXCEPT ![c] = next] /\ UNCHANGED <<now, serving, allowed, store>>
    BY <1>2 DEF Begin
  <2> HIDE DEF next
  <2> QED  BY <2>1, <2>2 DEF CallStep
<1>3. ASSUME NEW request \in Requests, NEW who \in ServiceActors,
             AuthenticateService(c, who, request)
      PROVE  CallStep(c)
  <2> DEFINE principal == [actor |-> who.actor, kind |-> who.kind,
                           session |-> NoSession, tier |-> 9, grant |-> NoGrant]
  <2>1. principal \in Principals
    BY <1>3 DEF AuthenticateService, Principals, Actors
  <2>2. Begin(c, principal, request)
    BY <1>3 DEF AuthenticateService
  <2> QED  BY <1>2, <2>1, <2>2
<1>4. ASSUME NEW request \in Requests, NEW s \in Sessions,
             AuthenticateSession(c, s, request)
      PROVE  CallStep(c)
  <2> DEFINE principal == [actor |-> Session[s].user, kind |-> "human",
                           session |-> s, tier |-> Session[s].tier, grant |-> NoGrant]
  <2>1. principal \in Principals
    BY DEF Principals, Actors, AccessAssumption
  <2>2. Begin(c, principal, request)
    BY <1>4 DEF AuthenticateSession
  <2> QED  BY <1>2, <2>1, <2>2
<1>5. CASE CurrentGrant(c)
  <2>1. call[c] \in Served
    BY <1>0, <1>5 DEF CurrentGrant
  <2>2. PICK g \in Grants : /\ Grant[g].actor = call[c].who.actor
                            /\ call' = [call EXCEPT ![c] = [@ EXCEPT !.stage = "scope",
                                  !.who = [call[c].who EXCEPT !.grant = g,
                                             !.tier = Lesser(@, Grant[g].tier)]]]
    BY <1>5 DEF CurrentGrant
  <2> DEFINE who  == [call[c].who EXCEPT !.grant = g, !.tier = Lesser(@, Grant[g].tier)]
             next == [call[c] EXCEPT !.stage = "scope", !.who = who]
  <2>3. who \in Principals /\ who.grant = g /\ who.actor = call[c].who.actor
    BY <2>1 DEF Served, Principals, Lesser, AccessAssumption
  <2>4. call' = [call EXCEPT ![c] = next]
    BY <2>2 DEF TypeOK
  <2> HIDE DEF who
  <2>5. next \in Served /\ next.who = who /\ next.stage = "scope"
    BY <2>1, <2>3 DEF Served
  <2>6. UNCHANGED <<now, serving, allowed, store>>
    BY <1>5 DEF CurrentGrant
  <2> HIDE DEF next
  <2> QED  BY <2>2, <2>3, <2>4, <2>5, <2>6 DEF CallStep, Authorized
<1>6. CASE ReadScopes(c)
  <2>1. call[c] \in Served /\ call[c].stage = "scope"
    BY <1>0, <1>6 DEF ReadScopes
  <2> DEFINE next == [call[c] EXCEPT !.at = now,
                        !.stage = IF call[c].request.op = "propose" THEN "price"
                                  ELSE "commit"]
  <2>2. next \in Served /\ next.who = call[c].who /\ next.request = call[c].request
        /\ (next.stage = "price" => next.request.op = "propose")
    BY <2>1 DEF Served, TypeOK
  <2>3. call' = [call EXCEPT ![c] = next] /\ UNCHANGED <<now, serving, allowed, store>>
    BY <1>6 DEF ReadScopes, TypeOK
  <2> HIDE DEF next
  <2> QED  BY <1>0, <2>1, <2>2, <2>3 DEF CallStep, Authorized
<1>7. CASE ReadPrice(c)
  <2>1. call[c] \in Served /\ call[c].stage = "price"
    BY <1>0, <1>7 DEF ReadPrice
  <2> DEFINE value == ValueUsd(call[c].request.tx, price.usd)
             next == [call[c] EXCEPT !.stage = "commit", !.value = value]
  <2>2. value \in Nat
    <3>1. call[c].request \in Requests /\ call[c].request.op = "propose"
      BY <1>0, <2>1 DEF Authorized, Served
    <3>2. call[c].request.tx \in Transactions
      BY <3>1 DEF Requests
    <3> QED  BY <3>2 DEF AccessAssumption, ValueUsd, TypeOK
  <2> HIDE DEF value
  <2>3. next \in Served /\ next.who = call[c].who /\ next.stage = "commit"
    BY <2>1, <2>2 DEF Served
  <2>4. call' = [call EXCEPT ![c] = next] /\ UNCHANGED <<now, serving, allowed, store>>
    BY <1>7 DEF ReadPrice, TypeOK, value
  <2> HIDE DEF next
  <2> QED  BY <1>0, <2>1, <2>3, <2>4 DEF CallStep, Authorized
<1> QED  BY <1>1, <1>3, <1>4, <1>5, <1>6, <1>7

\* The steps of the boundary: those of calls before their transaction, the
\* transactions, and those of the environment.
LEMMA StepIs ==
    ASSUME AccessAssumption, TypeOK, [Next]_vars
    PROVE  \/ \E c \in Calls :
                 \/ CallStep(c) \/ CommitApprove(c) \/ WrongCode(c) \/ CommitExpiry(c)
                 \/ \E p \in Proposals, simulates, within \in BOOLEAN :
                       CommitPropose(c, p, simulates, within)
           \/ \E r \in References, p \in Proposals, actor \in Actors :
                 IssueReference(r, actor, p)
           \/ \E what \in Grants \cup Sessions : End(what)
           \/ \E l \in Listings : EditAllowlist(l)
           \/ Restart \/ Tick \/ UNCHANGED vars
           \/ \E usd \in Usd : ObservePrice(usd)
<1>1. {Session[s].user : s \in Sessions} \subseteq Actors
  BY DEF Actors
<1> QED  BY <1>1, CallStepIs DEF Next

\* What the steps of the boundary leave alone: the list in force except at a
\* start, proposals outside their transactions, references unless one is
\* issued or answered, the log unless something is recorded.
Recording ==
    \E c \in Calls :
        \/ CommitApprove(c) \/ CommitExpiry(c)
        \/ \E p \in Proposals, simulates, within \in BOOLEAN :
              CommitPropose(c, p, simulates, within)
Footprint ==
    /\ Restart \/ (allowed' = allowed /\ (now' = now \/ now' = now + 1))
    /\ UNCHANGED proposal \/ Recording
    /\ \/ UNCHANGED <<ref, wrong>>
       \/ \E c \in Calls : CommitApprove(c) \/ WrongCode(c)
       \/ \E r \in References, p \in Proposals, actor \in Actors :
             IssueReference(r, actor, p)
    /\ \/ UNCHANGED <<log, ended>>
       \/ \E what \in Grants \cup Sessions : End(what)
       \/ Recording

\* Each step keeps to that.
LEMMA LeftAlone ==
    ASSUME AccessAssumption, TypeOK, [Next]_vars PROVE Footprint
<1>1. ASSUME NEW c \in Calls, CallStep(c) PROVE Footprint
  BY <1>1 DEF Footprint, Recording, CallStep, store
<1>2. ASSUME NEW c \in Calls, CommitApprove(c) PROVE Footprint
  BY <1>2 DEF Footprint, Recording, CommitApprove
<1>3. ASSUME NEW c \in Calls, WrongCode(c) PROVE Footprint
  BY <1>3 DEF Footprint, Recording, WrongCode
<1>4. ASSUME NEW c \in Calls, CommitExpiry(c) PROVE Footprint
  BY <1>4 DEF Footprint, Recording, CommitExpiry
<1>5. ASSUME NEW c \in Calls, NEW p \in Proposals, NEW simulates \in BOOLEAN,
             NEW within \in BOOLEAN, CommitPropose(c, p, simulates, within)
      PROVE  Footprint
  BY <1>5 DEF Footprint, Recording, CommitPropose
<1>6. ASSUME NEW r \in References, NEW p \in Proposals, NEW actor \in Actors,
             IssueReference(r, actor, p)
      PROVE  Footprint
  BY <1>6 DEF Footprint, Recording, IssueReference
<1>7. ASSUME NEW what \in Grants \cup Sessions, End(what) PROVE Footprint
  BY <1>7 DEF Footprint, Recording, End
<1>8. ASSUME NEW l \in Listings, EditAllowlist(l) PROVE Footprint
  BY <1>8 DEF Footprint, Recording, EditAllowlist
<1>9. ASSUME NEW usd \in Usd, ObservePrice(usd) PROVE Footprint
  BY <1>9 DEF Footprint, Recording, ObservePrice
<1>10. CASE Restart
  BY <1>10 DEF Footprint, Recording, Restart
<1>11. CASE Tick
  BY <1>11 DEF Footprint, Recording, Tick, store
<1>12. CASE UNCHANGED vars
  BY <1>12 DEF Footprint, Recording, vars, store
<1> QED
  BY <1>1, <1>2, <1>3, <1>4, <1>5, <1>6, <1>7, <1>8, <1>9, <1>10, <1>11,
     <1>12, StepIs

\* At the start nobody calls and nothing is recorded.
LEMMA TypeInit == AccessAssumption /\ Init => TypeOK
<1> SUFFICES ASSUME AccessAssumption, Init PROVE TypeOK
  OBVIOUS
<1>1. proposal = [p \in {} |-> None] /\ ref = [r \in {} |-> None]
  BY DEF Init
<1>2. /\ DOMAIN proposal = {} /\ proposal \in [DOMAIN proposal -> ProposalRows]
      /\ DOMAIN ref = {} /\ ref \in [DOMAIN ref -> ReferenceRows]
  BY <1>1
<1>3. \A c \in Calls : call[c] = Idle
  BY DEF Init
<1>4. Authorized(Idle)
  BY DEF Authorized, Idle
<1>5. price.usd \in Nat
  BY DEF Init, AccessAssumption
<1>6. log \in Seq(Events \cup Endings) /\ now \in Nat /\ wrong \in [References -> Nat]
      /\ call \in [Calls -> {Idle} \cup Served]
  BY DEF Init
<1>7. \A entry \in entries \cup allowed : entry.at \in Int
  <2>1. -Cooldown \in Int
    BY DEF AccessAssumption
  <2>2. entries = {[to |-> l.to, data |-> l.data, at |-> -Cooldown] : l \in Installed}
        /\ allowed = entries
    BY DEF Init
  <2> QED  BY <2>1, <2>2
<1> QED  BY <1>2, <1>3, <1>4, <1>5, <1>6, <1>7 DEF TypeOK

\* A call that ends is idle, whatever it was.
LEMMA CallEnds ==
    ASSUME TypeOK, NEW c \in Calls, call' = [call EXCEPT ![c] = Idle]
    PROVE  /\ call' \in [Calls -> {Idle} \cup Served]
           /\ \A d \in Calls : Authorized(call'[d])
<1>1. Authorized(Idle)
  BY DEF Authorized, Idle
<1> QED  BY <1>1 DEF TypeOK

\* A reference whose challenge is used up, with the status it ends in.
LEMMA UsedUp ==
    ASSUME NEW row \in ReferenceRows, NEW status \in {"approved", "failed"},
           NEW after, after = [row EXCEPT !.status = status, !.consumed = TRUE]
    PROVE  /\ after \in ReferenceRows /\ after.status = status /\ after.consumed
           /\ after.actor = row.actor /\ after.target = row.target
<1>1. /\ row = [actor |-> row.actor, target |-> row.target, status |-> row.status,
                expires |-> row.expires, consumed |-> row.consumed]
      /\ row.actor \in Actors /\ row.target \in Proposals /\ row.expires \in Nat
  BY DEF ReferenceRows
<1>2. after = [actor |-> row.actor, target |-> row.target, status |-> status,
               expires |-> row.expires, consumed |-> TRUE]
  BY <1>1
<1> QED  BY <1>1, <1>2 DEF ReferenceRows

\* The caller of a transaction holds a grant and asks for something.
LEMMA CommitHolds ==
    ASSUME TypeOK, NEW c \in Calls, call[c].stage = "commit"
    PROVE  /\ call[c] \in Served
           /\ call[c].who \in Principals /\ call[c].request \in Requests
           /\ call[c].value \in Nat
           /\ call[c].who.grant \in Grants
           /\ call[c].who.session \in Sessions \cup {NoSession}
           /\ Grant[call[c].who.grant].actor = call[c].who.actor
<1>1. call[c] \in Served
  BY DEF TypeOK, Idle
<1> QED  BY <1>1 DEF TypeOK, Authorized, Served, Principals

\* Every step keeps the types.
LEMMA TypeNext == AccessAssumption /\ TypeOK /\ [Next]_vars => TypeOK'
<1> SUFFICES ASSUME AccessAssumption, TypeOK, [Next]_vars PROVE TypeOK'
  OBVIOUS
<1>1. ASSUME NEW c \in Calls, CallStep(c) PROVE TypeOK'
  <2>1. PICK next \in {Idle} \cup Served :
           Authorized(next) /\ call' = [call EXCEPT ![c] = next]
    BY <1>1 DEF CallStep
  <2>2. /\ call' \in [Calls -> {Idle} \cup Served]
        /\ \A d \in Calls : Authorized(call'[d])
    BY <2>1 DEF TypeOK
  <2> QED  BY <1>1, <2>2 DEF CallStep, TypeOK, store
<1>2. ASSUME NEW c \in Calls, NEW p \in Proposals, NEW simulates \in BOOLEAN,
             NEW within \in BOOLEAN, CommitPropose(c, p, simulates, within)
      PROVE  TypeOK'
  <2> DEFINE who   == call[c].who
             tx    == call[c].request.tx
             state == Verdict(tx, call[c].value, who.tier, simulates, within)
             until == now + IF state = "auto_approved" THEN ApprovalTtl ELSE ProposalTtl
             row   == [tx |-> tx, state |-> state, until |-> until]
  <2>1. who \in Principals /\ who.grant \in Grants /\ tx \in Transactions
    BY <1>2, CommitHolds DEF CommitPropose, Requests
  <2>2. state \in Verdicts
    BY DEF Verdict, Verdicts
  <2>3. until \in Nat
    BY DEF TypeOK, AccessAssumption
  <2>4. /\ proposal' = Extended(proposal, p, row)
        /\ log' = Append(log, Event(p, state, who))
        /\ call' = [call EXCEPT ![c] = Idle]
        /\ UNCHANGED <<now, serving, allowed, entries, ended, price, ref, wrong, changes>>
    BY <1>2 DEF CommitPropose
  <2> HIDE DEF state, until, tx
  <2>5. row \in ProposalRows
    BY <2>1, <2>2, <2>3 DEF ProposalRows
  <2>6. Event(p, state, who) \in Events
    BY <2>1, <2>2 DEF Event, Events, Principals
  <2> HIDE DEF row, who
  <2>7. DOMAIN proposal' \subseteq Proposals /\ proposal' \in [DOMAIN proposal' -> ProposalRows]
    <3>1. proposal \in [DOMAIN proposal -> ProposalRows] /\ DOMAIN proposal \subseteq Proposals
      BY DEF TypeOK
    <3>2. /\ DOMAIN Extended(proposal, p, row) = DOMAIN proposal \cup {p}
          /\ Extended(proposal, p, row) \in [DOMAIN Extended(proposal, p, row) -> ProposalRows]
      BY <2>5, <3>1 DEF Extended
    <3> QED  BY <2>4, <3>1, <3>2
  <2>8. log' \in Seq(Events \cup Endings)
    BY <2>4, <2>6 DEF TypeOK
  <2> QED  BY <2>4, <2>7, <2>8, CallEnds DEF TypeOK
<1>3. ASSUME NEW c \in Calls, CommitApprove(c) PROVE TypeOK'
  <2> DEFINE request == call[c].request
             who     == call[c].who
  <2>1. who \in Principals /\ who.grant \in Grants /\ request.id \in DOMAIN proposal
        /\ request.reference \in DOMAIN ref
    BY <1>3, CommitHolds DEF CommitApprove, Approving
  <2>2. /\ proposal' = [proposal EXCEPT ![request.id].state = "approved",
                                        ![request.id].until = now + ApprovalTtl]
        /\ ref' = [ref EXCEPT ![request.reference] =
                      [@ EXCEPT !.status = "approved", !.consumed = TRUE]]
        /\ log' = Append(log, Event(request.id, "approved", who))
        /\ call' = [call EXCEPT ![c] = Idle]
        /\ UNCHANGED <<now, serving, allowed, entries, ended, price, wrong, changes>>
    BY <1>3 DEF CommitApprove, Approving
  <2>3. now + ApprovalTtl \in Nat
    BY DEF TypeOK, AccessAssumption
  <2>4. DOMAIN proposal' = DOMAIN proposal /\ proposal' \in [DOMAIN proposal -> ProposalRows]
    BY <2>1, <2>2, <2>3 DEF TypeOK, ProposalRows, Verdicts
  <2>5. DOMAIN ref' = DOMAIN ref /\ ref' \in [DOMAIN ref -> ReferenceRows]
    <3>1. ref[request.reference] \in ReferenceRows
      BY <2>1 DEF TypeOK
    <3>2. ref'[request.reference]
            = [ref[request.reference] EXCEPT !.status = "approved", !.consumed = TRUE]
      BY <2>1, <2>2 DEF TypeOK
    <3>3. ref'[request.reference] \in ReferenceRows
      BY <3>1, <3>2, UsedUp
    <3> QED  BY <2>1, <2>2, <3>3 DEF TypeOK
  <2>6. Event(request.id, "approved", who) \in Events
    BY <2>1 DEF Event, Events, Principals, Verdicts, TypeOK
  <2>7. log' \in Seq(Events \cup Endings)
    BY <2>2, <2>6 DEF TypeOK
  <2> QED  BY <2>2, <2>4, <2>5, <2>7, CallEnds DEF TypeOK
<1>4. ASSUME NEW c \in Calls, WrongCode(c) PROVE TypeOK'
  <2> DEFINE r == call[c].request.reference
  <2>1. /\ r \in DOMAIN ref /\ call' = [call EXCEPT ![c] = Idle]
        /\ wrong' = [wrong EXCEPT ![r] = @ + 1]
        /\ \/ ref' = ref
           \/ ref' = [ref EXCEPT ![r] =
                         [@ EXCEPT !.status = "failed", !.consumed = TRUE]]
        /\ UNCHANGED <<now, serving, allowed, entries, ended, price, proposal, log, changes>>
    BY <1>4 DEF WrongCode, Approving
  <2>2. DOMAIN ref' = DOMAIN ref /\ ref' \in [DOMAIN ref -> ReferenceRows]
    <3>1. ref[r] \in ReferenceRows
      BY <2>1 DEF TypeOK
    <3>2. ref' = ref \/ ref'[r] \in ReferenceRows
      BY <2>1, <3>1, UsedUp
    <3> QED  BY <2>1, <3>2 DEF TypeOK
  <2>3. wrong' \in [References -> Nat]
    BY <2>1 DEF TypeOK
  <2> QED  BY <2>1, <2>2, <2>3, CallEnds DEF TypeOK
<1>5. ASSUME NEW c \in Calls, CommitExpiry(c) PROVE TypeOK'
  <2> DEFINE p   == call[c].request.id
             who == call[c].who
  <2>1. who \in Principals /\ who.grant \in Grants /\ p \in DOMAIN proposal
    BY <1>5, CommitHolds DEF CommitExpiry
  <2>2. /\ proposal' = [proposal EXCEPT ![p].state = "expired"]
        /\ log' = Append(log, Event(p, "expired", who))
        /\ call' = [call EXCEPT ![c] = Idle]
        /\ UNCHANGED <<now, serving, allowed, entries, ended, price, ref, wrong, changes>>
    BY <1>5 DEF CommitExpiry, Expire
  <2>3. DOMAIN proposal' = DOMAIN proposal /\ proposal' \in [DOMAIN proposal -> ProposalRows]
    BY <2>1, <2>2 DEF TypeOK, ProposalRows, Verdicts
  <2>4. Event(p, "expired", who) \in Events
    BY <2>1 DEF Event, Events, Principals, Verdicts, TypeOK
  <2>5. log' \in Seq(Events \cup Endings)
    BY <2>2, <2>4 DEF TypeOK
  <2> QED  BY <2>2, <2>3, <2>5, CallEnds DEF TypeOK
<1>6. ASSUME NEW r \in References, NEW p \in Proposals, NEW actor \in Actors,
             IssueReference(r, actor, p)
      PROVE  TypeOK'
  <2> DEFINE row == [actor |-> actor, target |-> p, status |-> "pending",
                     expires |-> now + ReferenceTtl, consumed |-> FALSE]
             over == {q \in DOMAIN ref : ref[q].status = "pending" /\ ref[q].expires <= now
                                         /\ ref[q].actor = actor /\ ref[q].target = p}
             kept == [q \in DOMAIN ref |-> IF q \in over
                        THEN [ref[q] EXCEPT !.status = "expired"] ELSE ref[q]]
  <2>1. ref' = Extended(kept, r, row)
        /\ UNCHANGED <<now, serving, allowed, call, entries, ended, price,
                       proposal, wrong, log, changes>>
    BY <1>6 DEF IssueReference
  <2>2. row \in ReferenceRows
    BY DEF ReferenceRows, TypeOK, AccessAssumption
  <2>3. DOMAIN kept = DOMAIN ref /\ kept \in [DOMAIN kept -> ReferenceRows]
    BY DEF TypeOK, ReferenceRows
  <2> HIDE DEF row, over, kept
  <2>4. DOMAIN ref' \subseteq References /\ ref' \in [DOMAIN ref' -> ReferenceRows]
    <3>1. DOMAIN ref \subseteq References
      BY DEF TypeOK
    <3>2. /\ DOMAIN Extended(kept, r, row) = DOMAIN kept \cup {r}
          /\ Extended(kept, r, row) \in [DOMAIN Extended(kept, r, row) -> ReferenceRows]
      BY <2>2, <2>3 DEF Extended
    <3> QED  BY <2>1, <2>3, <3>1, <3>2
  <2> QED  BY <2>1, <2>4 DEF TypeOK
<1>7. ASSUME NEW what \in Grants \cup Sessions, End(what) PROVE TypeOK'
  <2>1. log' = Append(log, Ends(what)) /\ Ends(what) \in Endings
    BY <1>7 DEF End, Ends, Endings
  <2>2. log' \in Seq(Events \cup Endings)
    BY <2>1 DEF TypeOK
  <2> QED  BY <1>7, <2>2 DEF End, TypeOK
<1>8. ASSUME NEW l \in Listings, EditAllowlist(l) PROVE TypeOK'
  <2>1. \A entry \in entries' : entry \in entries \/ entry.at = now
    BY <1>8 DEF EditAllowlist
  <2> QED  BY <1>8, <2>1 DEF EditAllowlist, TypeOK
<1>9. CASE Restart
  <2>1. Authorized(Idle)
    BY DEF Authorized, Idle
  <2> QED  BY <1>9, <2>1 DEF Restart, TypeOK
<1>10. CASE Tick
  BY <1>10 DEF Tick, TypeOK, store
<1>11. CASE UNCHANGED vars
  BY <1>11 DEF vars, store, TypeOK
<1>12. ASSUME NEW usd \in Usd, ObservePrice(usd) PROVE TypeOK'
  <2>1. usd \in Nat
    BY DEF AccessAssumption
  <2> QED  BY <1>12, <2>1 DEF ObservePrice, TypeOK
<1> QED
  BY <1>1, <1>2, <1>3, <1>4, <1>5, <1>6, <1>7, <1>8, <1>9, <1>10, <1>11,
     <1>12, StepIs

-----------------------------------------------------------------------------
(* the allowlist and what no person approves *)

\* The list in force only changes at a start, which looks at the clock.
LEMMA ListedNext ==
    AccessAssumption /\ TypeOK /\ ListedLongEnough /\ [Next]_vars => ListedLongEnough'
<1> SUFFICES ASSUME AccessAssumption, TypeOK, ListedLongEnough, [Next]_vars
             PROVE  ListedLongEnough'
  OBVIOUS
<1>1. \/ Restart
      \/ allowed' = allowed /\ now' \in Nat /\ now' >= now
  BY LeftAlone DEF Footprint, TypeOK
<1>2. CASE Restart
  BY <1>2 DEF Restart, Activated, ListedLongEnough
<1>3. CASE allowed' = allowed /\ now' \in Nat /\ now' >= now
  BY <1>3 DEF ListedLongEnough, TypeOK, AccessAssumption
<1> QED  BY <1>1, <1>2, <1>3

\* Policy alone approves only what has no amount: what is worth something or
\* has data is a withdrawal, and a value said to be worth nothing is denied.
LEMMA VerdictMovesNothing ==
    ASSUME AccessAssumption, NEW tx \in Transactions, NEW value \in Nat,
           NEW tier, NEW simulates, NEW within,
           Verdict(tx, value, tier, simulates, within) = "auto_approved"
    PROVE  tx.amount = 0 /\ tx.data = "none"
<1>1. ~Withdrawal(tx, value) /\ ~(tx.wei > 0 /\ value <= 0)
  BY DEF Verdict
<1>2. tx.data = "none" /\ ~(value > 0) /\ ~(tx.wei > 0)
  BY <1>1 DEF Withdrawal
<1>3. tx.wei \in Nat /\ tx.wei = tx.amount
  BY <1>2 DEF AccessAssumption
<1> QED  BY <1>2, <1>3

\* Proposals are only approved without a person by that verdict.
LEMMA AutoNext ==
    AccessAssumption /\ TypeOK /\ AutoApprovedMovesNothing /\ [Next]_vars
        => AutoApprovedMovesNothing'
<1> SUFFICES ASSUME AccessAssumption, TypeOK, AutoApprovedMovesNothing, [Next]_vars
             PROVE  AutoApprovedMovesNothing'
  OBVIOUS
<1>1. ASSUME NEW c \in Calls, NEW p \in Proposals, NEW simulates \in BOOLEAN,
             NEW within \in BOOLEAN, CommitPropose(c, p, simulates, within)
      PROVE  AutoApprovedMovesNothing'
  <2> DEFINE tx    == call[c].request.tx
             state == Verdict(tx, call[c].value, call[c].who.tier, simulates, within)
             until == now + IF state = "auto_approved" THEN ApprovalTtl ELSE ProposalTtl
             row   == [tx |-> tx, state |-> state, until |-> until]
  <2>1. tx \in Transactions /\ call[c].value \in Nat
    BY <1>1, CommitHolds DEF CommitPropose, Requests
  <2>2. state = "auto_approved" => tx.amount = 0 /\ tx.data = "none"
    BY <2>1, VerdictMovesNothing
  <2>3. proposal' = Extended(proposal, p, row)
    BY <1>1 DEF CommitPropose
  <2>4. row.tx = tx /\ row.state = state
    OBVIOUS
  <2> HIDE DEF row, state, tx, until
  <2> QED  BY <2>2, <2>3, <2>4 DEF AutoApprovedMovesNothing, Extended
<1>2. ASSUME proposal' = proposal \/ \E p \in DOMAIN proposal, s \in {"approved", "expired"} :
               /\ DOMAIN proposal' = DOMAIN proposal
               /\ proposal'[p].state = s
               /\ \A q \in DOMAIN proposal \ {p} : proposal'[q] = proposal[q]
      PROVE  AutoApprovedMovesNothing'
  BY <1>2 DEF AutoApprovedMovesNothing
<1>3. ASSUME NEW c \in Calls, CommitApprove(c) PROVE AutoApprovedMovesNothing'
  <2>1. call[c].request.id \in DOMAIN proposal
        /\ proposal' = [proposal EXCEPT ![call[c].request.id].state = "approved",
                                        ![call[c].request.id].until = now + ApprovalTtl]
    BY <1>3 DEF CommitApprove, Approving
  <2> QED  BY <1>2, <2>1 DEF TypeOK, ProposalRows
<1>4. ASSUME NEW c \in Calls, CommitExpiry(c) PROVE AutoApprovedMovesNothing'
  <2>1. call[c].request.id \in DOMAIN proposal
        /\ proposal' = [proposal EXCEPT ![call[c].request.id].state = "expired"]
    BY <1>4 DEF CommitExpiry, Expire
  <2> QED  BY <1>2, <2>1 DEF TypeOK, ProposalRows
<1> QED
  BY <1>1, <1>2, <1>3, <1>4, LeftAlone DEF Footprint, Recording

-----------------------------------------------------------------------------
(* codes *)

\* A reference that still waits has tries left, and one not issued had none.
TriesLeft ==
    \A r \in References :
        /\ r \notin DOMAIN ref => wrong[r] = 0
        /\ r \in DOMAIN ref /\ ref[r].status = "pending" => wrong[r] < MaxWrongCodes

CodesInv == TriesLeft /\ CodesBounded

\* The last try fails the reference.
LEMMA CodesNext == AccessAssumption /\ TypeOK /\ CodesInv /\ [Next]_vars => CodesInv'
<1> SUFFICES ASSUME AccessAssumption, TypeOK, CodesInv, [Next]_vars PROVE CodesInv'
  OBVIOUS
<1> USE DEF CodesInv
<1>1. ASSUME NEW c \in Calls, WrongCode(c) PROVE CodesInv'
  <2> DEFINE r == call[c].request.reference
  <2>1. /\ r \in DOMAIN ref /\ ref[r].status = "pending"
        /\ wrong' = [wrong EXCEPT ![r] = @ + 1]
        /\ ref' = IF wrong[r] >= MaxWrongCodes - 1
                  THEN [ref EXCEPT ![r] = [@ EXCEPT !.status = "failed", !.consumed = TRUE]]
                  ELSE ref
    BY <1>1 DEF WrongCode, Approving, Bound
  <2>2. r \in References /\ wrong[r] \in Nat /\ wrong[r] < MaxWrongCodes
        /\ MaxWrongCodes \in Nat
    BY <2>1 DEF TypeOK, TriesLeft, AccessAssumption
  <2> HIDE DEF r
  <2>3. /\ wrong'[r] = wrong[r] + 1
        /\ \A q \in References \ {r} : wrong'[q] = wrong[q]
        /\ DOMAIN ref' = DOMAIN ref
        /\ \A q \in DOMAIN ref \ {r} : ref'[q] = ref[q]
    BY <2>1, <2>2 DEF TypeOK
  <2>4. ref'[r].status = "pending" => wrong'[r] < MaxWrongCodes
    <3>1. CASE wrong[r] >= MaxWrongCodes - 1
      <4>1. ref[r] \in ReferenceRows
        BY <2>1 DEF TypeOK
      <4>2. ref'[r] = [ref[r] EXCEPT !.status = "failed", !.consumed = TRUE]
        BY <2>1, <3>1
      <4>3. ref'[r].status = "failed"
        BY <4>1, <4>2, UsedUp
      <4> QED  BY <4>3
    <3> QED  BY <2>2, <2>3, <3>1
  <2> QED  BY <2>1, <2>2, <2>3, <2>4 DEF TriesLeft, CodesBounded, TypeOK
<1>2. ASSUME wrong' = wrong, DOMAIN ref \subseteq DOMAIN ref',
             \A r \in DOMAIN ref : ref'[r].status = "pending" => ref[r].status = "pending"
      PROVE  CodesInv'
  BY <1>2 DEF TriesLeft, CodesBounded, AccessAssumption
<1>3. ASSUME NEW c \in Calls, CommitApprove(c) PROVE CodesInv'
  <2> DEFINE r == call[c].request.reference
  <2>1. r \in DOMAIN ref /\ wrong' = wrong
        /\ ref' = [ref EXCEPT ![r] = [@ EXCEPT !.status = "approved", !.consumed = TRUE]]
    BY <1>3 DEF CommitApprove, Approving
  <2>2. ref[r] \in ReferenceRows
    BY <2>1 DEF TypeOK
  <2>3. ref'[r] = [ref[r] EXCEPT !.status = "approved", !.consumed = TRUE]
    BY <2>1
  <2>4. ref'[r].status = "approved"
    BY <2>2, <2>3, UsedUp
  <2>5. DOMAIN ref' = DOMAIN ref /\ \A q \in DOMAIN ref \ {r} : ref'[q] = ref[q]
    BY <2>1 DEF TypeOK
  <2> QED  BY <1>2, <2>1, <2>4, <2>5
<1>4. ASSUME NEW r \in References, NEW p \in Proposals, NEW actor \in Actors,
             IssueReference(r, actor, p)
      PROVE  CodesInv'
  <2>1. DOMAIN ref' = DOMAIN ref \cup {r} /\ wrong' = wrong
    BY <1>4 DEF IssueReference, Extended
  <2>2. \A q \in DOMAIN ref : ref'[q].status = "pending" => ref[q].status = "pending"
    BY <1>4 DEF IssueReference, Extended, TypeOK, ReferenceRows
  <2> QED  BY <1>2, <2>1, <2>2
<1> QED
  BY <1>1, <1>2, <1>3, <1>4, LeftAlone DEF Footprint, Recording

-----------------------------------------------------------------------------
(* authority *)

\* What is logged as ended has ended, and stays so.
EndedLogged ==
    \A j \in DOMAIN log \ Recorded :
        /\ log[j].grant \in (ended \cap Grants) \cup {NoGrant}
        /\ log[j].session \in (ended \cap Sessions) \cup {"none"}

AuthorityInv == EndedLogged /\ AuthorityHeld

\* The log grows at its end.
LEMMA LogGrows ==
    ASSUME TypeOK, NEW entry, log' = Append(log, entry)
    PROVE  /\ Len(log) + 1 \notin DOMAIN log
           /\ DOMAIN log' = DOMAIN log \cup {Len(log) + 1}
           /\ \A i \in DOMAIN log : log'[i] = log[i] /\ i < Len(log) + 1
           /\ log'[Len(log) + 1] = entry
           /\ Recorded' = IF entry.id = "ended" THEN Recorded
                          ELSE Recorded \cup {Len(log) + 1}
<1>1. /\ Len(log) + 1 \notin DOMAIN log
      /\ DOMAIN log' = DOMAIN log \cup {Len(log) + 1}
      /\ \A i \in DOMAIN log : log'[i] = log[i] /\ i < Len(log) + 1
      /\ log'[Len(log) + 1] = entry
  BY DEF TypeOK
<1> QED  BY <1>1 DEF Recorded

\* What a transaction records it has looked up again: grant and session have
\* not ended, and an approval has a session and the scope.
Authorizes(entry) ==
    /\ entry \in Events
    /\ entry.grant \notin ended /\ entry.session \notin ended \cap Sessions
    /\ entry.to = "approved" =>
          /\ entry.session # NoSession
          /\ ScopeAllowed(Grant[entry.grant].scopes, Approve)

LEMMA RecordingAuthorizes ==
    ASSUME AccessAssumption, TypeOK, Recording
    PROVE  /\ \E entry : Authorizes(entry) /\ log' = Append(log, entry)
           /\ ended' = ended
<1>1. ASSUME NEW c \in Calls, call[c].stage = "commit",
             NEW p \in Proposals, NEW to \in Verdicts, NEW scope, NEW needs \in BOOLEAN,
             Revalidated(call[c].who, scope, needs),
             to = "approved" => needs /\ scope = Approve
      PROVE  Authorizes(Event(p, to, call[c].who))
  <2>1. /\ call[c].who.grant \in Grants
        /\ call[c].who.session \in Sessions \cup {NoSession}
    BY <1>1, CommitHolds
  <2>2. Event(p, to, call[c].who) \in Events
    BY <2>1 DEF Event, Events
  <2>3. /\ call[c].who.grant \notin ended
        /\ call[c].who.session \notin ended \cap Sessions
        /\ to = "approved" =>
              /\ call[c].who.session # NoSession
              /\ ScopeAllowed(Grant[call[c].who.grant].scopes, Approve)
    BY <1>1, <2>1 DEF Revalidated, AccessAssumption
  <2> QED  BY <2>2, <2>3 DEF Authorizes, Event
<1>2. ASSUME NEW c \in Calls, NEW p \in Proposals, NEW simulates \in BOOLEAN,
             NEW within \in BOOLEAN, CommitPropose(c, p, simulates, within)
      PROVE  \E entry : Authorizes(entry) /\ log' = Append(log, entry)
  <2> DEFINE state == Verdict(call[c].request.tx, call[c].value, call[c].who.tier,
                              simulates, within)
  <2>1. state \in Verdicts /\ state # "approved"
    BY DEF Verdict, Verdicts
  <2>2. /\ call[c].stage = "commit" /\ Revalidated(call[c].who, Propose, FALSE)
        /\ log' = Append(log, Event(p, state, call[c].who))
    BY <1>2 DEF CommitPropose
  <2> HIDE DEF state
  <2> QED  BY <1>1, <2>1, <2>2
<1>3. ASSUME NEW c \in Calls, CommitApprove(c)
      PROVE  \E entry : Authorizes(entry) /\ log' = Append(log, entry)
  <2>1. /\ call[c].stage = "commit" /\ Revalidated(call[c].who, Approve, TRUE)
        /\ call[c].request.id \in Proposals
        /\ log' = Append(log, Event(call[c].request.id, "approved", call[c].who))
    BY <1>3 DEF CommitApprove, Approving, TypeOK
  <2>2. "approved" \in Verdicts
    BY DEF Verdicts
  <2> QED  BY <1>1, <2>1, <2>2
<1>4. ASSUME NEW c \in Calls, CommitExpiry(c)
      PROVE  \E entry : Authorizes(entry) /\ log' = Append(log, entry)
  <2>1. /\ call[c].stage = "commit"
        /\ Revalidated(call[c].who, RequestScope(call[c].request, call[c].who.kind),
                       call[c].who.kind = "human")
        /\ call[c].request.id \in Proposals
        /\ log' = Append(log, Event(call[c].request.id, "expired", call[c].who))
    BY <1>4 DEF CommitExpiry, Expire, TypeOK
  <2>2. "expired" \in Verdicts /\ (call[c].who.kind = "human") \in BOOLEAN
    BY DEF Verdicts
  <2> QED  BY <1>1, <2>1, <2>2
<1>5. ended' = ended
  <2>1. ASSUME NEW c \in Calls, CommitApprove(c) \/ CommitExpiry(c)
        PROVE  ended' = ended
    BY <2>1 DEF CommitApprove, CommitExpiry
  <2>2. ASSUME NEW c \in Calls, NEW p \in Proposals, NEW simulates \in BOOLEAN,
               NEW within \in BOOLEAN, CommitPropose(c, p, simulates, within)
        PROVE  ended' = ended
    BY <2>2 DEF CommitPropose
  <2> QED  BY <2>1, <2>2 DEF Recording
<1> QED  BY <1>2, <1>3, <1>4, <1>5 DEF Recording

\* What ends is logged with its end, and what is recorded later had not.
LEMMA AuthorityNext ==
    AccessAssumption /\ TypeOK /\ AuthorityInv /\ [Next]_vars => AuthorityInv'
<1> SUFFICES ASSUME AccessAssumption, TypeOK, AuthorityInv, [Next]_vars
             PROVE  AuthorityInv'
  OBVIOUS
<1> USE DEF AuthorityInv
<1>1. CASE UNCHANGED <<log, ended>>
  BY <1>1 DEF EndedLogged, AuthorityHeld, Recorded
<1>2. ASSUME NEW what \in Grants \cup Sessions, End(what) PROVE AuthorityInv'
  <2>1. /\ log' = Append(log, Ends(what)) /\ ended' = ended \cup {what}
        /\ Ends(what).id = "ended"
        /\ Ends(what).grant \in ({what} \cap Grants) \cup {NoGrant}
        /\ Ends(what).session \in ({what} \cap Sessions) \cup {"none"}
    BY <1>2 DEF End, Ends
  <2>2. /\ Recorded' = Recorded
        /\ DOMAIN log' = DOMAIN log \cup {Len(log) + 1}
        /\ \A i \in DOMAIN log : log'[i] = log[i] /\ i < Len(log) + 1
        /\ log'[Len(log) + 1] = Ends(what)
    BY <2>1, LogGrows
  <2>3. Recorded \subseteq DOMAIN log /\ DOMAIN log \subseteq Nat /\ Len(log) \in Nat
    BY DEF Recorded, TypeOK
  <2>4. EndedLogged'
    BY <2>1, <2>2 DEF EndedLogged
  <2>5. AuthorityHeld'
    BY <2>2, <2>3 DEF AuthorityHeld
  <2> QED  BY <2>4, <2>5
<1>3. CASE Recording
  <2>1. PICK entry : Authorizes(entry) /\ log' = Append(log, entry)
    BY <1>3, RecordingAuthorizes
  <2>2. ended' = ended /\ entry.id # "ended"
    BY <1>3, <2>1, RecordingAuthorizes DEF Authorizes, Events, AccessAssumption
  <2>3. /\ Recorded' = Recorded \cup {Len(log) + 1}
        /\ DOMAIN log' = DOMAIN log \cup {Len(log) + 1}
        /\ \A i \in DOMAIN log : log'[i] = log[i] /\ i < Len(log) + 1
        /\ log'[Len(log) + 1] = entry
    BY <2>1, <2>2, LogGrows
  <2>4. Recorded \subseteq DOMAIN log
    BY DEF Recorded
  <2>5. EndedLogged'
    BY <2>2, <2>3, <2>4 DEF EndedLogged
  <2>6. \A j \in DOMAIN log \ Recorded :
           log[j].grant # entry.grant /\ log[j].session # entry.session
    <3>1. /\ entry.grant \in Grants /\ entry.grant \notin ended
          /\ entry.session \in Sessions \cup {NoSession}
          /\ entry.session \notin ended \cap Sessions
      BY <2>1 DEF Authorizes, Events
    <3>2. NoGrant \notin Grants /\ "none" \notin Sessions /\ NoSession # "none"
      BY DEF AccessAssumption, NoSession
    <3> QED  BY <3>1, <3>2 DEF EndedLogged
  <2>7. DOMAIN log' \ Recorded' = DOMAIN log \ Recorded
    BY <2>3, <2>4
  <2>8. AuthorityHeld'
    BY <2>1, <2>3, <2>4, <2>6, <2>7 DEF AuthorityHeld, Authorizes
  <2> QED  BY <2>5, <2>8
<1> QED  BY <1>1, <1>2, <1>3, LeftAlone DEF Footprint

-----------------------------------------------------------------------------
(* references *)

ReferenceInv ==
    /\ IsFiniteSet(UsedReferences) /\ IsFiniteSet(ApprovalEvents)
    /\ ApprovedByReference

\* An approval and the reference it uses up are recorded together; nothing
\* else records one or uses one up.
LEMMA ReferenceNext ==
    AccessAssumption /\ TypeOK /\ ReferenceInv /\ [Next]_vars => ReferenceInv'
<1> SUFFICES ASSUME AccessAssumption, TypeOK, ReferenceInv, [Next]_vars
             PROVE  ReferenceInv'
  OBVIOUS
<1>1. ASSUME NEW c \in Calls, CommitApprove(c) PROVE ReferenceInv'
  <2> DEFINE request == call[c].request
             r       == request.reference
             entry   == Event(request.id, "approved", call[c].who)
             n       == Len(log) + 1
  <2>1. /\ call[c].stage = "commit" /\ request.id \in Proposals
        /\ r \in DOMAIN ref /\ ref[r].status = "pending"
        /\ ref[r].actor = call[c].who.actor /\ ref[r].target = request.id
        /\ ref' = [ref EXCEPT ![r] = [@ EXCEPT !.status = "approved", !.consumed = TRUE]]
        /\ log' = Append(log, entry)
    BY <1>1 DEF CommitApprove, Approving, Bound, TypeOK
  <2>2. /\ entry.id = request.id /\ entry.to = "approved"
        /\ entry.grant = call[c].who.grant
        /\ entry.id # "ended"
    BY <2>1 DEF Event, AccessAssumption
  <2>3. Grant[entry.grant].actor = call[c].who.actor
    BY <2>1, <2>2, CommitHolds
  <2> HIDE DEF entry, r, request
  <2>4. /\ n \notin DOMAIN log
        /\ DOMAIN log' = DOMAIN log \cup {n}
        /\ \A i \in DOMAIN log : log'[i] = log[i]
        /\ log'[n] = entry
        /\ Recorded' = Recorded \cup {n}
    BY <2>1, <2>2, LogGrows
  <2> HIDE DEF n
  <2>5. ApprovalEvents' = ApprovalEvents \cup {n} /\ n \notin ApprovalEvents
    BY <2>2, <2>4 DEF ApprovalEvents, Recorded
  <2>6. /\ ref'[r].status = "approved" /\ ref'[r].actor = ref[r].actor
        /\ ref'[r].target = ref[r].target
    <3>1. ref[r] \in ReferenceRows
      BY <2>1 DEF TypeOK
    <3>2. ref'[r] = [ref[r] EXCEPT !.status = "approved", !.consumed = TRUE]
      BY <2>1 DEF TypeOK
    <3> QED  BY <3>1, <3>2, UsedUp
  <2>7. DOMAIN ref' = DOMAIN ref /\ \A q \in DOMAIN ref \ {r} : ref'[q] = ref[q]
    BY <2>1 DEF TypeOK
  <2>8. UsedReferences' = UsedReferences \cup {r} /\ r \notin UsedReferences
    BY <2>1, <2>6, <2>7 DEF UsedReferences
  <2>9. /\ IsFiniteSet(UsedReferences') /\ IsFiniteSet(ApprovalEvents')
        /\ Cardinality(UsedReferences') = Cardinality(ApprovalEvents')
    <3>1. /\ IsFiniteSet(UsedReferences) /\ IsFiniteSet(ApprovalEvents)
          /\ Cardinality(UsedReferences) = Cardinality(ApprovalEvents)
      BY DEF ReferenceInv, ApprovedByReference
    <3>2. /\ IsFiniteSet(UsedReferences \cup {r})
          /\ Cardinality(UsedReferences \cup {r}) = Cardinality(UsedReferences) + 1
      BY <2>8, <3>1, FS_AddElement
    <3>3. /\ IsFiniteSet(ApprovalEvents \cup {n})
          /\ Cardinality(ApprovalEvents \cup {n}) = Cardinality(ApprovalEvents) + 1
      BY <2>5, <3>1, FS_AddElement
    <3> QED  BY <2>5, <2>8, <3>1, <3>2, <3>3
  <2>10. \A i \in ApprovalEvents' : \E q \in UsedReferences' :
           ref'[q].target = log'[i].id /\ ref'[q].actor = Grant[log'[i].grant].actor
    <3>1. ASSUME NEW i \in ApprovalEvents
          PROVE  \E q \in UsedReferences' :
                    ref'[q].target = log'[i].id /\ ref'[q].actor = Grant[log'[i].grant].actor
      <4>1. PICK q \in UsedReferences :
                ref[q].target = log[i].id /\ ref[q].actor = Grant[log[i].grant].actor
        BY DEF ReferenceInv, ApprovedByReference
      <4>2. q \in UsedReferences' /\ ref'[q] = ref[q]
        BY <2>7, <2>8 DEF UsedReferences
      <4>3. log'[i] = log[i]
        BY <2>4 DEF ApprovalEvents, Recorded
      <4> QED  BY <4>1, <4>2, <4>3
    <3>2. ref'[r].target = log'[n].id /\ ref'[r].actor = Grant[log'[n].grant].actor
      BY <2>1, <2>2, <2>3, <2>4, <2>6
    <3> QED  BY <2>5, <2>8, <3>1, <3>2
  <2> QED  BY <2>9, <2>10 DEF ReferenceInv, ApprovedByReference
<1>2. ASSUME UsedReferences' = UsedReferences, ApprovalEvents' = ApprovalEvents,
             \A r \in UsedReferences : ref'[r] = ref[r],
             \A i \in ApprovalEvents : log'[i] = log[i]
      PROVE  ReferenceInv'
  BY <1>2 DEF ReferenceInv, ApprovedByReference
<1>3. CASE ~\E c \in Calls : CommitApprove(c)
  <2>1. UsedReferences' = UsedReferences /\ \A r \in UsedReferences : ref'[r] = ref[r]
    <3>1. CASE ref' = ref
      BY <3>1 DEF UsedReferences
    <3>2. ASSUME NEW c \in Calls, WrongCode(c)
          PROVE  UsedReferences' = UsedReferences /\ \A r \in UsedReferences : ref'[r] = ref[r]
      <4> DEFINE r == call[c].request.reference
      <4>1. /\ r \in DOMAIN ref /\ ref[r].status = "pending"
            /\ \/ ref' = ref
               \/ ref' = [ref EXCEPT ![r] = [@ EXCEPT !.status = "failed", !.consumed = TRUE]]
        BY <3>2 DEF WrongCode, Approving, Bound
      <4> HIDE DEF r
      <4>2. ref' = ref \/ ref'[r].status = "failed"
        <5>1. ref[r] \in ReferenceRows
          BY <4>1 DEF TypeOK
        <5>2. ref' = ref \/ ref'[r] = [ref[r] EXCEPT !.status = "failed", !.consumed = TRUE]
          BY <4>1 DEF TypeOK
        <5> QED  BY <5>1, <5>2, UsedUp
      <4>3. DOMAIN ref' = DOMAIN ref /\ \A q \in DOMAIN ref \ {r} : ref'[q] = ref[q]
        BY <4>1 DEF TypeOK
      <4> QED  BY <4>1, <4>2, <4>3 DEF UsedReferences
    <3>3. ASSUME NEW r \in References, NEW p \in Proposals, NEW actor \in Actors,
                 IssueReference(r, actor, p)
          PROVE  UsedReferences' = UsedReferences /\ \A q \in UsedReferences : ref'[q] = ref[q]
      <4>1. /\ r \notin DOMAIN ref /\ DOMAIN ref' = DOMAIN ref \cup {r}
            /\ ref'[r].status = "pending"
        BY <3>3 DEF IssueReference, Extended
      <4>2. ASSUME NEW q \in DOMAIN ref
            PROVE  \/ ref'[q] = ref[q]
                   \/ ref[q].status = "pending" /\ ref'[q].status = "expired"
        <5>1. \/ ref'[q] = ref[q]
              \/ /\ ref[q].status = "pending"
                 /\ ref'[q] = [ref[q] EXCEPT !.status = "expired"]
          BY <3>3, <4>1 DEF IssueReference, Extended
        <5>2. ref[q] \in ReferenceRows
          BY DEF TypeOK
        <5> QED  BY <5>1, <5>2 DEF ReferenceRows
      <4> QED  BY <4>1, <4>2 DEF UsedReferences
    <3> QED  BY <1>3, <3>1, <3>2, <3>3, LeftAlone DEF Footprint
  <2>2. ApprovalEvents' = ApprovalEvents /\ \A i \in ApprovalEvents : log'[i] = log[i]
    <3>1. CASE log' = log
      BY <3>1 DEF ApprovalEvents, Recorded
    <3>2. ASSUME NEW entry, log' = Append(log, entry),
                 entry.id = "ended" \/ entry.to # "approved"
          PROVE  ApprovalEvents' = ApprovalEvents /\ \A i \in ApprovalEvents : log'[i] = log[i]
      <4> DEFINE n == Len(log) + 1
      <4>1. /\ n \notin DOMAIN log
            /\ \A i \in DOMAIN log : log'[i] = log[i]
            /\ log'[n] = entry
            /\ Recorded' = IF entry.id = "ended" THEN Recorded ELSE Recorded \cup {n}
        BY <3>2, LogGrows
      <4> HIDE DEF n
      <4>2. Recorded \subseteq DOMAIN log
        BY DEF Recorded
      <4> QED  BY <3>2, <4>1, <4>2 DEF ApprovalEvents
    <3>3. ASSUME NEW what \in Grants \cup Sessions, End(what)
          PROVE  \E entry : log' = Append(log, entry) /\ entry.id = "ended"
      BY <3>3 DEF End, Ends
    <3>4. ASSUME NEW c \in Calls, CommitExpiry(c)
          PROVE  \E entry : log' = Append(log, entry) /\ entry.to = "expired"
      BY <3>4 DEF CommitExpiry, Expire, Event
    <3>5. ASSUME NEW c \in Calls, NEW p \in Proposals, NEW simulates \in BOOLEAN,
                 NEW within \in BOOLEAN, CommitPropose(c, p, simulates, within)
          PROVE  \E entry : log' = Append(log, entry) /\ entry.to # "approved"
      BY <3>5 DEF CommitPropose, Event, Verdict
    <3> QED
      BY <1>3, <3>1, <3>2, <3>3, <3>4, <3>5, LeftAlone DEF Footprint, Recording
  <2> QED  BY <1>2, <2>1, <2>2
<1> QED  BY <1>1, <1>3

-----------------------------------------------------------------------------
AccessInv ==
    /\ TypeOK
    /\ ListedLongEnough
    /\ AutoApprovedMovesNothing
    /\ CodesInv
    /\ AuthorityInv
    /\ ReferenceInv

LEMMA AccessInit == AccessAssumption /\ Init => AccessInv
<1> SUFFICES ASSUME AccessAssumption, Init PROVE AccessInv
  OBVIOUS
<1>1. DOMAIN log = {} /\ Recorded = {} /\ ApprovalEvents = {}
  BY DEF Init, Recorded, ApprovalEvents
<1>2. DOMAIN proposal = {} /\ DOMAIN ref = {} /\ UsedReferences = {}
  BY DEF Init, UsedReferences
<1>3. ReferenceInv
  BY <1>1, <1>2, FS_EmptySet DEF ReferenceInv, ApprovedByReference
<1>4. AuthorityInv
  BY <1>1 DEF AuthorityInv, EndedLogged, AuthorityHeld
<1>5. CodesInv /\ AutoApprovedMovesNothing
  BY <1>2 DEF Init, CodesInv, TriesLeft, CodesBounded, AutoApprovedMovesNothing,
     AccessAssumption
<1>6. ListedLongEnough
  BY DEF Init, ListedLongEnough, AccessAssumption
<1> QED  BY <1>3, <1>4, <1>5, <1>6, TypeInit DEF AccessInv

\* At the gRPC boundary authority is current when it is used, an approval is
\* one person's for one proposal, and no path around a person moves anything:
\* for any calls at once, whatever ends, is edited or runs out in between.
THEOREM AccessIsSound == AccessAssumption => (Spec => []GuardianAccessSound)
<1> SUFFICES ASSUME AccessAssumption PROVE Spec => []GuardianAccessSound
  OBVIOUS
<1>1. Init => AccessInv
  BY AccessInit
<1>2. AccessInv /\ [Next]_vars => AccessInv'
  BY TypeNext, ListedNext, AutoNext, CodesNext, AuthorityNext, ReferenceNext
     DEF AccessInv
<1>3. AccessInv => GuardianAccessSound
  BY DEF AccessInv, GuardianAccessSound, CodesInv, AuthorityInv, ReferenceInv
<1> QED  BY <1>1, <1>2, <1>3, PTL DEF Spec
=============================================================================

-------------------------- MODULE GuardianService --------------------------
(***************************************************************************)
(* The wallet guardian as a library: GuardianService with its in-memory    *)
(* proposal store, its nonce manager and the WalletConnect request         *)
(* builder (src/connectors/execution/wallet-guardian/src/service.rs,       *)
(* proposal.rs, broadcast.rs, nonce.rs, wc/).  The durable worker beside   *)
(* it is the subject of WalletGuardian.                                    *)
(*                                                                         *)
(* The service is called through &mut self: a broadcast holds it over its  *)
(* two RPC awaits, while time passes and the chain moves.  A transaction   *)
(* is a record of what the policy and the encoder tell apart; hashes,      *)
(* signatures, RLP and JSON are injective and so stand for their input.    *)
(* Node, chain and external wallet are modelled from how this code calls   *)
(* them.                                                                   *)
(***************************************************************************)
EXTENDS Integers, Sequences, FiniteSets

CONSTANTS
    Proposals,      \* the identifiers (Ulids) proposals get
    Transactions,   \* the specifications that may be proposed
    Topics,         \* WalletConnect pairing topics
    MaxTime,        \* bound: the last instant of the clock
    ProposalTtl,    \* 600 s
    ApprovalTtl,    \* 60 s
    Ether,          \* the wei that value_usd_from_hex_wei counts as one dollar
    MaxSends        \* bound: broadcasts begun

VARIABLES
    now,
    available,      \* the keystore holds its key
    proposal,       \* ProposalStore
    pending,        \* NonceManager.pending of the one chain, a Vec
    call,           \* the broadcast that waits for eth_sendRawTransaction
    sends,          \* broadcasts begun
    pool,           \* the node's pool: by nonce, the transaction it holds
    mined,          \* the account's transactions on the chain, in order
    client,         \* PairingClient: the session topic, or None
    wallet,         \* LocalOperatorWallet.paired_topic
    requests        \* WalletConnect requests built: proposal and instant
vars == <<now, available, proposal, pending, call, sends, pool, mined,
          client, wallet, requests>>

None == [none |-> TRUE]
Malformed == -1

\* Amounts of wei that are well-formed or not; a dollar is some wei.
ServiceAssumption ==
  /\ Ether \in Nat \ {0}
  /\ \A tx \in Transactions : /\ {tx.value, tx.fee, tx.tip} \subseteq Nat \cup {Malformed}
                              /\ {tx.permitted, tx.simulates} \subseteq BOOLEAN
  /\ ProposalTtl \in Nat /\ ApprovalTtl \in Nat

Init ==
    /\ now = 0
    /\ available = TRUE
    /\ proposal = [p \in {} |-> None]
    /\ pending = <<>>
    /\ call = None
    /\ sends = 0
    /\ pool = [n \in {} |-> None]
    /\ mined = <<>>
    /\ client = None /\ wallet = None
    /\ requests = {}

-----------------------------------------------------------------------------
(* The policy chain *)

\* Everything above one Ether counts as one dollar.
ValueUsd(tx) ==
    IF tx.value = Malformed THEN 0
    ELSE IF tx.value > Ether THEN Ether ELSE tx.value

IsWithdrawal(tx) == ValueUsd(tx) > 0

Allowed(tx) ==
    /\ tx.permitted
    /\ tx.simulates
    /\ tx.fee # Malformed /\ tx.tip # Malformed
    /\ tx.tip <= tx.fee

ProposedState(tx) ==
    IF ~Allowed(tx) THEN "denied"
    ELSE IF IsWithdrawal(tx) THEN "pending" ELSE "auto_approved"

ProposeTransaction(p, tx, custody) ==
    /\ call = None
    /\ available
    /\ p \notin DOMAIN proposal
    /\ LET s == ProposedState(tx)
           fresh == [tx |-> tx, custody |-> custody, state |-> s,
                     expires |-> now + ProposalTtl,
                     until |-> IF s = "auto_approved" THEN now + ApprovalTtl
                               ELSE Malformed,
                     nonce |-> Malformed]
       IN proposal' = [q \in DOMAIN proposal \cup {p} |->
                          IF q = p THEN fresh ELSE proposal[q]]
    /\ UNCHANGED <<now, available, pending, call, sends, pool, mined,
                   client, wallet, requests>>

-----------------------------------------------------------------------------
(* Approval *)

\* The hash covers the transaction and the custody mode, not the identifier.
ProposalHash(p) == <<proposal[p].tx, proposal[p].custody>>

ApproveProposal(p, hash) ==
    /\ call = None
    /\ available
    /\ p \in DOMAIN proposal
    /\ proposal[p].state = "pending"
    /\ ProposalHash(p) = hash
    /\ proposal' =
         IF now > proposal[p].expires
         THEN [proposal EXCEPT ![p].state = "expired"]
         ELSE [proposal EXCEPT ![p].state = "approved",
                               ![p].until = now + ApprovalTtl]
    /\ UNCHANGED <<now, available, pending, call, sends, pool, mined,
                   client, wallet, requests>>

PolicyApproved(p) == proposal[p].state \in {"approved", "auto_approved"}

-----------------------------------------------------------------------------
(* Broadcast *)

\* Mutant: a broadcast always takes the chain's next nonce.
ReservedNonceFresh == Len(mined)

\* lowest_pending is the first nonce ever reserved: nothing confirms one.
ReservedNonce == IF pending # <<>> THEN Head(pending) ELSE Len(mined)

MayBroadcast(p) ==
    /\ proposal[p].custody = "guardian"
    /\ PolicyApproved(p)
    /\ now <= proposal[p].until

Encodable(tx) == tx.value # Malformed /\ tx.fee # Malformed

\* Up to the second await: the nonce is reserved before the transaction is
\* built, and stays reserved when it cannot be.
BeginBroadcast(p) ==
    /\ call = None
    /\ available
    /\ sends < MaxSends
    /\ p \in DOMAIN proposal /\ MayBroadcast(p)
    /\ pending' = Append(pending, ReservedNonce)
    /\ sends' = sends + 1
    /\ call' = IF Encodable(proposal[p].tx)
               THEN [id |-> p, nonce |-> ReservedNonce, begun |-> now]
               ELSE None
    /\ UNCHANGED <<now, available, proposal, pool, mined, client, wallet,
                   requests>>

\* The node takes a transaction whose nonce is not used up, in place of one
\* it holds with that nonce.
NodeAccepts ==
    /\ call.nonce >= Len(mined)
    /\ pool' = [n \in DOMAIN pool \cup {call.nonce} |->
                   IF n = call.nonce
                   THEN [id |-> call.id, begun |-> call.begun] ELSE pool[n]]

\* transition(id, Broadcast), which looks at both deadlines again.
Recorded(p) ==
    IF now > proposal[p].expires \/ now > proposal[p].until
    THEN [proposal EXCEPT ![p].state = "expired"]
    ELSE [proposal EXCEPT ![p].state = "broadcast", ![p].nonce = call.nonce]

SendAnswered ==
    /\ call # None
    /\ NodeAccepts
    /\ proposal' = Recorded(call.id)
    /\ call' = None
    /\ UNCHANGED <<now, available, pending, sends, mined, client, wallet,
                   requests>>

\* The node refuses, or its answer is lost: the error leaves the proposal as
\* it was.
SendFails ==
    /\ call # None
    /\ NodeAccepts \/ UNCHANGED pool
    /\ call' = None
    /\ UNCHANGED <<now, available, proposal, pending, sends, mined, client,
                   wallet, requests>>

-----------------------------------------------------------------------------
(* WalletConnect *)

\* create_pairing makes a new key and leaves an old session paired.
CompletePairing(t) ==
    /\ call = None
    /\ client' = [topic |-> t]
    /\ UNCHANGED <<now, available, proposal, pending, call, sends, pool,
                   mined, wallet, requests>>

ScanPairing(t) ==
    /\ wallet' = [topic |-> t]
    /\ UNCHANGED <<now, available, proposal, pending, call, sends, pool,
                   mined, client, requests>>

\* The approval's deadline is not looked at.
Requestable(p) ==
    /\ proposal[p].custody = "walletconnect"
    /\ PolicyApproved(p)

BuildWalletConnectRequest(p) ==
    /\ call = None
    /\ p \in DOMAIN proposal
    /\ Requestable(p)
    /\ client # None
    /\ requests' = requests \cup {[id |-> p, tx |-> proposal[p].tx,
                                   built |-> now, approved |-> FALSE]}
    /\ UNCHANGED <<now, available, proposal, pending, call, sends, pool,
                   mined, client, wallet>>

\* The external wallet answers a request of the topic it scanned.
ApproveRequest(r) ==
    /\ client # None /\ wallet = client
    /\ requests' = (requests \ {r}) \cup {[r EXCEPT !.approved = TRUE]}
    /\ UNCHANGED <<now, available, proposal, pending, call, sends, pool,
                   mined, client, wallet>>

-----------------------------------------------------------------------------
(* The environment *)

Mine ==
    /\ Len(mined) \in DOMAIN pool
    /\ mined' = Append(mined, pool[Len(mined)])
    /\ pool' = [n \in DOMAIN pool \ {Len(mined)} |-> pool[n]]
    /\ UNCHANGED <<now, available, proposal, pending, call, sends, client,
                   wallet, requests>>

Lock ==
    /\ call = None
    /\ available' = FALSE
    /\ UNCHANGED <<now, proposal, pending, call, sends, pool, mined, client,
                   wallet, requests>>

Tick ==
    /\ now < MaxTime
    /\ now' = now + 1
    /\ UNCHANGED <<available, proposal, pending, call, sends, pool, mined,
                   client, wallet, requests>>

Next ==
    \/ \E p \in Proposals, tx \in Transactions,
          custody \in {"guardian", "walletconnect"} :
             ProposeTransaction(p, tx, custody)
    \/ \E p, q \in DOMAIN proposal : ApproveProposal(p, ProposalHash(q))
    \/ \E p \in Proposals :
          BeginBroadcast(p) \/ BuildWalletConnectRequest(p)
    \/ SendAnswered
    \/ SendFails
    \/ \E t \in Topics : CompletePairing(t) \/ ScanPairing(t)
    \/ \E r \in requests : ApproveRequest(r)
    \/ Mine
    \/ Lock
    \/ Tick

Spec == Init /\ [][Next]_vars

-----------------------------------------------------------------------------
(* Properties *)

\* What the account's key has signed away, waiting or mined.
OnTheWay == {pool[n] : n \in DOMAIN pool} \cup {mined[i] : i \in DOMAIN mined}

\* Whatever reached the node is a guardian-custody proposal the policy lets
\* through, with a well-formed fee, begun before its approval ran out; one
\* that moves value had a human's approval.
SentWithApproval ==
    \A t \in OnTheWay :
        LET q == proposal[t.id] IN
        /\ q.custody = "guardian"
        /\ q.tx.permitted /\ q.tx.simulates /\ q.tx.tip <= q.tx.fee
        /\ q.state # "pending" /\ q.state # "denied"
        /\ t.begun <= q.until
        /\ q.state = "auto_approved" => q.tx.value = 0

\* A proposal is mined at most once, however often its broadcast is retried
\* after an answer that was lost.
MinedOnce ==
    \A i, j \in DOMAIN mined : mined[i].id = mined[j].id => i = j

\* The external wallet is only asked about WalletConnect proposals that the
\* policy or a human approved, and with the transaction they approved.
AskedWithApproval ==
    \A r \in requests :
        /\ proposal[r.id].custody = "walletconnect"
        /\ PolicyApproved(r.id)
        /\ proposal[r.id].tx = r.tx

\* The promises of the service as a library: service.rs says that guardian
\* custody and WalletConnect pass the same policy and approval, and the nonce
\* is kept over a failed send so that a retry replaces and never repeats.
GuardianServiceSound == SentWithApproval /\ MinedOnce /\ AskedWithApproval

\* Two proposals recorded as broadcast hold different nonces.  False: nothing
\* calls NonceManager::confirm, so that the second broadcast takes the first
\* one's nonce, and replaces it or is refused for ever.
BroadcastNoncesDistinct ==
    \A p, q \in DOMAIN proposal :
        proposal[p].state = "broadcast" /\ proposal[q].state = "broadcast"
            /\ proposal[p].nonce = proposal[q].nonce => p = q

\* A WalletConnect request is built while the approval it rests on is alive.
\* False: Requestable looks at the state alone.
AskedInTime == \A r \in requests : r.built <= proposal[r.id].until

\* A transaction the node took is recorded as broadcast once the call is
\* over.  False when a deadline passes during the call.
TakenIsRecorded ==
    \A t \in OnTheWay : proposal[t.id].state # "expired"
=============================================================================

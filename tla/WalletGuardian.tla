--------------------------- MODULE WalletGuardian ---------------------------
(***************************************************************************)
(* The Wallet Guardian (connectors/execution/wallet-guardian): proposals   *)
(* with their spending limits, human approvals with step-up, and the       *)
(* broadcast workers that sign an approved transaction once, submit it and *)
(* reconcile it with the chain.                                            *)
(*                                                                         *)
(* The state is in Postgres and shared by the gRPC server and any number   *)
(* of worker processes.  A transaction that locks the rows it depends on   *)
(* is one step; what a process read earlier, and what it learns from the   *)
(* chain's RPC endpoint in between, is kept in its own variables and may   *)
(* be stale when used.  One chain is modelled: nonces of different chains  *)
(* are independent.                                                        *)
(*                                                                         *)
(* Deadlines are modelled by the sets of proposals whose 10 minutes (to be *)
(* approved) or 60 seconds (to be broadcast) have passed.  All proposals   *)
(* fall into one 24 h limit window.                                        *)
(***************************************************************************)
EXTENDS Naturals, FiniteSets, FiniteSetsExt, TLC

CONSTANTS Workers,       \* BroadcastWorker processes
          Proposals,
          Custodied,     \* custody_mode='guardian_custody'
          Automatic,     \* no withdrawal, under the threshold, tier 4 or 5
          Value,         \* value_delta_usd
          DailyMax,      \* PolicyConfig.daily_max_usd
          MaxWrongCodes, \* wrong TOTP codes that fail the reference
          MaxLost,       \* bound on submissions whose answer is lost
          MaxEvictions,  \* bound on transactions evicted from the pool
          MaxCrashes     \* bound on worker cycles cut short

NoProposal == "no proposal"

ASSUME GuardianAssumption ==
  /\ NoProposal \notin Proposals
  /\ IsFiniteSet(Proposals)
  /\ Custodied \subseteq Proposals
  /\ Automatic \subseteq Proposals
  /\ \A p \in Proposals : Value[p] \in Nat
  /\ DailyMax \in Nat
  /\ MaxWrongCodes \in Nat \ {0}
  /\ MaxLost \in Nat
  /\ MaxEvictions \in Nat
  /\ MaxCrashes \in Nat

ProposalStates == {"none", "denied", "pending", "approved", "auto_approved",
                   "expired", "broadcast", "confirmed", "failed"}
JobStates == {"none", "prepared", "submitted", "confirmed", "failed",
              "abandoned"}
ChainStates == {"none", "floating", "pool", "mined", "reverted"}
WorkerStages == {"idle", "prepare", "receipt", "known", "send", "mark",
                 "finish", "abandon"}

VARIABLES
  state,            \* guardian_proposals.state
  pendingDue,       \* proposals with expires_ts <= now
  approvalDue,      \* proposals with approval_expires_at <= now
  ref, wrong,       \* the approval reference of a proposal, its wrong codes
  evaluating, usage, \* proposals being evaluated, the usage each saw
  peek,             \* a get_proposal call: proposal and job state it read
  job, nonce,       \* guardian_broadcast_jobs
  nextNonce,        \* guardian_chain_nonces.next_nonce
  wpc, target, view, pendingNonce, \* per worker
  chain, chainNonce, \* transactions at the chain, transactions mined
  lost, evictions, crashes

approvalVars == <<ref, wrong>>
budgetVars == <<evaluating, usage>>
jobVars == <<job, nonce, nextNonce>>
workerVars == <<wpc, target, view, pendingNonce>>
deadlines == <<pendingDue, approvalDue>>
chainVars == <<chain, chainNonce, lost, evictions>>
vars == <<state, deadlines, approvalVars, budgetVars, peek, jobVars,
          workerVars, chainVars, crashes>>

NoView == [job |-> "none", proposal |-> "none"]
NoPeek == [proposal |-> NoProposal, job |-> "none"]

Init ==
  /\ state = [p \in Proposals |-> "none"]
  /\ pendingDue = {}
  /\ approvalDue = {}
  /\ ref = [p \in Proposals |-> "pending"]
  /\ wrong = [p \in Proposals |-> 0]
  /\ evaluating = {}
  /\ usage = [p \in Proposals |-> 0]
  /\ peek = NoPeek
  /\ job = [p \in Proposals |-> "none"]
  /\ nonce = [p \in Proposals |-> 0]
  /\ nextNonce = 0
  /\ wpc = [w \in Workers |-> "idle"]
  /\ target = [w \in Workers |-> NoProposal]
  /\ view = [w \in Workers |-> NoView]
  /\ pendingNonce = [w \in Workers |-> 0]
  /\ chain = [p \in Proposals |-> "none"]
  /\ chainNonce = 0
  /\ lost = 0
  /\ evictions = 0
  /\ crashes = 0

-----------------------------------------------------------------------------
(* propose_transaction, approve_proposal, get_proposal *)

\* States whose value counts against the daily limit.
Reserving == {"pending", "approved", "auto_approved", "broadcast", "confirmed"}

\* durable_usage()
Usage ==
  MapThenSumSet(LAMBDA p : Value[p], {p \in Proposals : state[p] \in Reserving})

\* Mutant: no advisory lock.
BudgetFreeAlways == TRUE

\* pg_advisory_xact_lock('guardian-limit-budget')
BudgetFree == evaluating = {}

\* The transaction of propose_transaction takes the lock and reads the usage.
BeginPropose(p) ==
  /\ state[p] = "none"
  /\ p \notin evaluating
  /\ BudgetFree
  /\ evaluating' = evaluating \cup {p}
  /\ usage' = [usage EXCEPT ![p] = Usage]
  /\ UNCHANGED <<state, deadlines, approvalVars, peek, jobVars, workerVars,
                 chainVars, crashes>>

\* check_limits against the usage read.
WithinLimit(p) == usage[p] + Value[p] <= DailyMax

\* The verdict and the insert: denied by any rule, by the limit, or routed.
Propose(p) ==
  /\ p \in evaluating
  /\ \/ state' = [state EXCEPT ![p] = "denied"]
     \/ /\ WithinLimit(p)
        /\ state' = [state EXCEPT ![p] =
                       IF p \in Automatic THEN "auto_approved" ELSE "pending"]
  /\ evaluating' = evaluating \ {p}
  /\ usage' = [usage EXCEPT ![p] = 0]
  /\ UNCHANGED <<deadlines, approvalVars, peek, jobVars, workerVars, chainVars,
                 crashes>>

Expire(p) == state' = [state EXCEPT ![p] = "expired"]

\* approve_proposal with a valid session, hash, reference and challenge: the
\* code is right and consumes the reference, or it is wrong.  The rows of
\* proposal and reference are locked from the reads to the commit, but the
\* time compared with expires_ts was taken before waiting for the locks: a
\* call that came in time may find the deadline passed and still approve.
ApproveProposal(p) ==
  /\ state[p] = "pending"
  /\ ref[p] = "pending"
  /\ state' = [state EXCEPT ![p] = "approved"]
  /\ ref' = [ref EXCEPT ![p] = "approved"]
  /\ UNCHANGED <<deadlines, wrong, budgetVars, peek, jobVars, workerVars,
                 chainVars, crashes>>

\* prior_invalid_attempts >= 4
IsLastAttempt(n) == n + 1 >= MaxWrongCodes

WrongCode(p) ==
  /\ state[p] = "pending"
  /\ ref[p] = "pending"
  /\ wrong' = [wrong EXCEPT ![p] = @ + 1]
  /\ ref' = IF IsLastAttempt(wrong[p]) THEN [ref EXCEPT ![p] = "failed"]
            ELSE ref
  /\ UNCHANGED <<state, deadlines, budgetVars, peek, jobVars, workerVars,
                 chainVars, crashes>>

\* approve_proposal of a proposal that was not approved in time.
ApproveTooLate(p) ==
  /\ state[p] = "pending"
  /\ p \in pendingDue
  /\ Expire(p)
  /\ UNCHANGED <<deadlines, approvalVars, budgetVars, peek, jobVars, workerVars,
                 chainVars, crashes>>

\* get_proposal locks the proposal but not its job: the job state is the one
\* its query saw before it waited for the lock.
PeekProposal(p) ==
  /\ peek = NoPeek
  /\ state[p] # "none"
  /\ peek' = [proposal |-> p, job |-> job[p]]
  /\ UNCHANGED <<state, deadlines, approvalVars, budgetVars, jobVars,
                 workerVars, chainVars, crashes>>

Approved(s) == s \in {"approved", "auto_approved"}

GetProposal ==
  LET p == peek.proposal IN
  /\ peek # NoPeek
  /\ IF \/ state[p] = "pending" /\ p \in pendingDue
        \/ /\ Approved(state[p])
           /\ p \in approvalDue
           /\ peek.job \notin {"prepared", "submitted"}
     THEN Expire(p)
     ELSE UNCHANGED state
  /\ peek' = NoPeek
  /\ UNCHANGED <<deadlines, approvalVars, budgetVars, jobVars, workerVars,
                 chainVars, crashes>>

-----------------------------------------------------------------------------
(* BroadcastWorker *)

Active == {p \in Proposals : job[p] \notin {"none", "abandoned"}}

Idle(w) ==
  /\ wpc' = [wpc EXCEPT ![w] = "idle"]
  /\ target' = [target EXCEPT ![w] = NoProposal]
  /\ view' = [view EXCEPT ![w] = NoView]
  /\ pendingNonce' = [pendingNonce EXCEPT ![w] = 0]

Goto(w, stage) ==
  /\ wpc' = [wpc EXCEPT ![w] = stage]
  /\ UNCHANGED <<target, view, pendingNonce>>

\* expire_unclaimed()
ExpireUnclaimed(w, p) ==
  /\ wpc[w] = "idle"
  /\ \/ state[p] = "pending" /\ p \in pendingDue
     \/ Approved(state[p]) /\ p \in approvalDue
  /\ job[p] = "none"
  /\ Expire(p)
  /\ UNCHANGED <<deadlines, approvalVars, budgetVars, peek, jobVars, workerVars,
                 chainVars, crashes>>

\* eth_getTransactionCount(address, "pending"): the first nonce not taken.
PendingNonce ==
  CHOOSE n \in chainNonce..(chainNonce + Cardinality(Proposals)) :
    /\ \A p \in Proposals : chain[p] = "pool" => nonce[p] # n
    /\ \A k \in chainNonce..(n - 1) :
         \E p \in Proposals : chain[p] = "pool" /\ nonce[p] = k

\* Mutant: a proposal waiting for approval is picked up.
IsCandidateEager(p) == state[p] \in {"pending", "approved", "auto_approved"}

\* The candidates of prepare_approved.
IsCandidate(p) == Approved(state[p])

\* prepare_one up to its transaction: the candidate and the chain's nonce.
FetchNonce(w, p) ==
  /\ wpc[w] = "idle"
  /\ p \in Custodied
  /\ IsCandidate(p)
  /\ job[p] = "none"
  /\ wpc' = [wpc EXCEPT ![w] = "prepare"]
  /\ target' = [target EXCEPT ![w] = p]
  /\ pendingNonce' = [pendingNonce EXCEPT ![w] = PendingNonce]
  /\ UNCHANGED <<view, state, deadlines, approvalVars, budgetVars, peek,
                 jobVars, chainVars, crashes>>

\* Mutant: the stored nonce is ignored.
AllocateFromChain(n) == n

\* durable_next.unwrap_or(pending_nonce).max(pending_nonce)
Allocate(n) == IF nextNonce > n THEN nextNonce ELSE n

\* The transaction of prepare_one, under the locks of the proposal and of
\* the chain: the signed transaction becomes durable before it is sent.
Prepare(w) ==
  LET p == target[w]
      n == Allocate(pendingNonce[w])
  IN
  /\ wpc[w] = "prepare"
  /\ \/ /\ IsCandidate(p)
        /\ p \in approvalDue
        /\ Expire(p)
        /\ UNCHANGED jobVars
     \/ /\ IsCandidate(p)
        /\ p \notin approvalDue
        /\ job[p] = "none"
        /\ \A q \in Proposals : job[q] # "prepared"
        /\ job' = [job EXCEPT ![p] = "prepared"]
        /\ nonce' = [nonce EXCEPT ![p] = n]
        /\ nextNonce' = IF n + 1 > nextNonce THEN n + 1 ELSE nextNonce
        /\ UNCHANGED state
     \/ /\ \/ ~IsCandidate(p)
           \/ p \notin approvalDue /\ job[p] # "none"
           \/ p \notin approvalDue /\ \E q \in Proposals : job[q] = "prepared"
        /\ UNCHANGED <<state, jobVars>>
  /\ Idle(w)
  /\ UNCHANGED <<deadlines, approvalVars, budgetVars, peek, chainVars, crashes>>

\* reconcile_one reads the job with its proposal ...
ReadJob(w, p) ==
  /\ wpc[w] = "idle"
  /\ job[p] \in {"prepared", "submitted"}
  /\ wpc' = [wpc EXCEPT ![w] = "receipt"]
  /\ target' = [target EXCEPT ![w] = p]
  /\ view' = [view EXCEPT ![w] = [job |-> job[p], proposal |-> state[p]]]
  /\ UNCHANGED <<pendingNonce, state, deadlines, approvalVars, budgetVars, peek,
                 jobVars, chainVars, crashes>>

\* ... asks for the receipt ...
Receipt(w) ==
  /\ wpc[w] = "receipt"
  /\ Goto(w, IF chain[target[w]] \in {"mined", "reverted"} THEN "finish"
             ELSE "known")
  /\ UNCHANGED <<state, deadlines, approvalVars, budgetVars, peek, jobVars,
                 chainVars, crashes>>

\* ... asks whether the transaction is known, and if not gives up an expired
\* approval, waits, or submits.
Known(w) ==
  LET p == target[w] IN
  /\ wpc[w] = "known"
  /\ \/ chain[p] \in {"pool", "mined", "reverted"} /\ Goto(w, "mark")
     \/ /\ chain[p] \in {"none", "floating"}
        /\ view[w].job = "prepared"
        /\ view[w].proposal = "expired" \/ p \in approvalDue
        /\ Goto(w, "abandon")
     \/ /\ chain[p] \in {"none", "floating"}
        /\ ~(view[w].job = "prepared"
               /\ (view[w].proposal = "expired" \/ p \in approvalDue))
        /\ IF Approved(view[w].proposal) \/ view[w].proposal = "broadcast"
           THEN Goto(w, "send")
           ELSE Idle(w)
  /\ UNCHANGED <<state, deadlines, approvalVars, budgetVars, peek, jobVars,
                 chainVars, crashes>>

\* The node takes a transaction whose nonce is neither used nor taken.
Admissible(p) ==
  /\ nonce[p] >= chainNonce
  /\ \A q \in Proposals : chain[q] = "pool" => nonce[q] # nonce[p]

\* eth_sendRawTransaction, and eth_getTransactionByHash after an error.
Send(w) ==
  LET p == target[w] IN
  /\ wpc[w] = "send"
  /\ \/ /\ chain[p] \in {"none", "floating"}
        /\ Admissible(p)
        /\ chain' = [chain EXCEPT ![p] = "pool"]
        /\ Goto(w, "mark")
        /\ UNCHANGED lost
     \/ /\ chain[p] \in {"pool", "mined", "reverted"}
        /\ Goto(w, "mark")
        /\ UNCHANGED <<chain, lost>>
     \/ /\ chain[p] = "none"
        /\ lost < MaxLost
        /\ lost' = lost + 1
        /\ chain' = [chain EXCEPT ![p] = "floating"]
        /\ Idle(w)
     \/ /\ chain[p] \in {"none", "floating"}
        /\ ~Admissible(p)
        /\ Idle(w)
        /\ UNCHANGED <<chain, lost>>
  /\ UNCHANGED <<state, deadlines, approvalVars, budgetVars, peek, jobVars,
                 chainNonce, evictions, crashes>>

\* transition_to_broadcast()
Broadcast(s) == IF Approved(s) THEN "broadcast" ELSE s

Open(p) == job[p] \in {"prepared", "submitted"}

MarkSubmitted(w) ==
  LET p == target[w] IN
  /\ wpc[w] = "mark"
  /\ IF Open(p)
     THEN /\ job' = [job EXCEPT ![p] = "submitted"]
          /\ state' = [state EXCEPT ![p] = Broadcast(@)]
     ELSE UNCHANGED <<job, state>>
  /\ Idle(w)
  /\ UNCHANGED <<deadlines, approvalVars, budgetVars, peek, nonce, nextNonce,
                 chainVars, crashes>>

\* Mutant: a reverted transaction is recorded as confirmed.
OutcomeOptimistic(p) == "confirmed"

\* The receipt's status.
Outcome(p) == IF chain[p] = "mined" THEN "confirmed" ELSE "failed"

FinishJob(w) ==
  LET p == target[w] IN
  /\ wpc[w] = "finish"
  /\ IF Open(p)
     THEN /\ job' = [job EXCEPT ![p] = Outcome(p)]
          /\ state' = [state EXCEPT ![p] =
                         IF Broadcast(@) = "broadcast" THEN Outcome(p) ELSE @]
     ELSE UNCHANGED <<job, state>>
  /\ Idle(w)
  /\ UNCHANGED <<deadlines, approvalVars, budgetVars, peek, nonce, nextNonce,
                 chainVars, crashes>>

\* Mutant: compared with the wrong state.
MayAbandonSubmitted(p) == job[p] = "submitted"

\* SELECT state ... FOR UPDATE
MayAbandon(p) == job[p] = "prepared"

\* Mutant: the nonce is not given back.
GivenBackNever(p) == nextNonce

\* The nonce is given back if it was the last one handed out.
GivenBack(p) ==
  IF /\ nextNonce = nonce[p] + 1
     /\ \A q \in Active \ {p} : nonce[q] <= nonce[p]
  THEN nonce[p] ELSE nextNonce

AbandonJob(w) ==
  LET p == target[w] IN
  /\ wpc[w] = "abandon"
  /\ IF MayAbandon(p)
     THEN /\ job' = [job EXCEPT ![p] = "abandoned"]
          /\ nextNonce' = GivenBack(p)
          /\ state' = [state EXCEPT ![p] = IF Approved(@) THEN "expired" ELSE @]
     ELSE UNCHANGED <<job, nextNonce, state>>
  /\ Idle(w)
  /\ UNCHANGED <<deadlines, approvalVars, budgetVars, peek, nonce, chainVars,
                 crashes>>

\* The RPC endpoint or the database fails (the job is deferred), or the
\* worker dies: the cycle ends and nothing but the backoff changed.
CutShort(w) ==
  /\ wpc[w] # "idle"
  /\ crashes < MaxCrashes
  /\ crashes' = crashes + 1
  /\ Idle(w)
  /\ UNCHANGED <<state, deadlines, approvalVars, budgetVars, peek, jobVars,
                 chainVars>>

-----------------------------------------------------------------------------
(* environment *)

PendingDeadline(p) ==
  /\ state[p] = "pending"
  /\ p \notin pendingDue
  /\ pendingDue' = pendingDue \cup {p}
  /\ UNCHANGED <<state, approvalDue, approvalVars, budgetVars, peek, jobVars,
                 workerVars, chainVars, crashes>>

ApprovalDeadline(p) ==
  /\ Approved(state[p])
  /\ p \notin approvalDue
  /\ approvalDue' = approvalDue \cup {p}
  /\ UNCHANGED <<state, pendingDue, approvalVars, budgetVars, peek, jobVars,
                 workerVars, chainVars, crashes>>

\* A block includes the transaction with the next nonce.
Mine(p) ==
  /\ chain[p] = "pool"
  /\ nonce[p] = chainNonce
  /\ \E s \in {"mined", "reverted"} : chain' = [chain EXCEPT ![p] = s]
  /\ chainNonce' = chainNonce + 1
  /\ UNCHANGED <<state, deadlines, approvalVars, budgetVars, peek, jobVars,
                 workerVars, lost, evictions, crashes>>

\* A submission whose answer was lost reaches the node late, or never.
Arrive(p) ==
  /\ chain[p] = "floating"
  /\ chain' = [chain EXCEPT ![p] = IF Admissible(p) THEN "pool" ELSE "none"]
  /\ UNCHANGED <<state, deadlines, approvalVars, budgetVars, peek, jobVars,
                 workerVars, chainNonce, lost, evictions, crashes>>

Evict(p) ==
  /\ chain[p] = "pool"
  /\ evictions < MaxEvictions
  /\ evictions' = evictions + 1
  /\ chain' = [chain EXCEPT ![p] = "none"]
  /\ UNCHANGED <<state, deadlines, approvalVars, budgetVars, peek, jobVars,
                 workerVars, chainNonce, lost, crashes>>

-----------------------------------------------------------------------------
Serve(p) ==
  \/ BeginPropose(p) \/ Propose(p) \/ ApproveProposal(p) \/ WrongCode(p)
  \/ ApproveTooLate(p) \/ PeekProposal(p)

Cycle(w) ==
  \/ Prepare(w) \/ Receipt(w) \/ Known(w) \/ Send(w) \/ MarkSubmitted(w)
  \/ FinishJob(w) \/ AbandonJob(w)

Pick(w, p) == ExpireUnclaimed(w, p) \/ FetchNonce(w, p) \/ ReadJob(w, p)

Environment(p) ==
  PendingDeadline(p) \/ ApprovalDeadline(p) \/ Mine(p) \/ Arrive(p) \/ Evict(p)

Next ==
  \/ \E p \in Proposals : Serve(p) \/ Environment(p)
  \/ GetProposal
  \/ \E w \in Workers : Cycle(w) \/ CutShort(w)
  \/ \E w \in Workers, p \in Proposals : Pick(w, p)

Spec == Init /\ [][Next]_vars

\* Each cycle of a worker visits every due proposal and job, deadlines pass
\* and blocks are made.  Nobody has to propose, approve or ask.
Fairness ==
  /\ \A p \in Proposals :
       /\ WF_vars(Propose(p))
       /\ WF_vars(PendingDeadline(p) \/ ApprovalDeadline(p))
       /\ WF_vars(Mine(p) \/ Arrive(p))
       /\ \A w \in Workers :
            /\ SF_vars(ExpireUnclaimed(w, p))
            /\ SF_vars(ReadJob(w, p))
  /\ \A w \in Workers : WF_vars(Cycle(w))

FairSpec == Spec /\ Fairness

-----------------------------------------------------------------------------
TypeOK ==
  /\ state \in [Proposals -> ProposalStates]
  /\ pendingDue \subseteq Proposals
  /\ approvalDue \subseteq Proposals
  /\ ref \in [Proposals -> {"pending", "approved", "failed"}]
  /\ wrong \in [Proposals -> 0..MaxWrongCodes]
  /\ evaluating \subseteq Proposals
  /\ usage \in [Proposals -> Nat]
  /\ peek \in [proposal : Proposals \cup {NoProposal}, job : JobStates]
  /\ job \in [Proposals -> JobStates]
  /\ nonce \in [Proposals -> Nat]
  /\ nextNonce \in Nat
  /\ wpc \in [Workers -> WorkerStages]
  /\ target \in [Workers -> Proposals \cup {NoProposal}]
  /\ view \in [Workers -> [job : JobStates, proposal : ProposalStates]]
  /\ pendingNonce \in [Workers -> Nat]
  /\ chain \in [Proposals -> ChainStates]
  /\ chainNonce \in Nat
  /\ lost \in 0..MaxLost
  /\ evictions \in 0..MaxEvictions
  /\ crashes \in 0..MaxCrashes

\* Concurrent proposals never reserve more than the daily limit together,
\* although each is checked against a sum it read earlier.
DailyLimitHeld == Usage <= DailyMax

\* No two live jobs share a nonce and the next nonce is beyond all of them,
\* whatever workers race, abandon and take over: the unique index on active
\* nonces never rejects a job.
NoncesDistinct ==
  /\ \A p, q \in Active : p # q => nonce[p] # nonce[q]
  /\ \A p \in Active : nonce[p] < nextNonce

\* A transaction is only ever signed and sent for a proposal that policy
\* approved or a human approved with a consumed step-up, and every proposal
\* that is not automatic needs the human.
ApprovedBeforeChain ==
  \A p \in Proposals :
    chain[p] # "none" \/ job[p] # "none" =>
      /\ state[p] \notin {"none", "denied", "pending"}
      /\ p \in Custodied
      /\ p \notin Automatic => ref[p] = "approved"

\* What the records say of a broadcast is what happened on the chain, and
\* proposal and job end alike: a stale worker never overwrites a final job.
RecordsMatchChain ==
  \A p \in Proposals :
    /\ job[p] = "confirmed" => chain[p] = "mined"
    /\ job[p] = "failed" => chain[p] = "reverted"
    /\ state[p] \in {"confirmed", "failed"} => job[p] = state[p]
    /\ state[p] = "broadcast" => job[p] = "submitted"

\* Abandoning leaves no hole in the nonces: every nonce below the next one is
\* that of a live job, was used on the chain, or is held there by the late
\* submission of an abandoned job.  Otherwise every later transaction would
\* be stuck behind a nonce nobody will ever use.  An eviction can open a
\* hole: a worker that read the chain's nonce before the transaction of an
\* abandoned job was evicted signs with a nonce beyond the one given back.
NoNonceGap ==
  evictions = 0 =>
    \A n \in 0..(nextNonce - 1) :
      \/ n < chainNonce
      \/ \E p \in Proposals :
           nonce[p] = n /\ (p \in Active \/ chain[p] = "pool")

\* EP-306: "proposal expiries prevent stale approvals from ever acting".
ExpiredNeverActs ==
  \A p \in Proposals :
    state[p] = "expired" => chain[p] \notin {"mined", "reverted"}

\* No proposal waits forever for an approval or a broadcast, and no prepared
\* job blocks the chain's nonces for good.
Waiting(p) == state[p] = "pending" \/ Approved(state[p]) \/ job[p] = "prepared"

ProposalsSettle == \A p \in Proposals : Waiting(p) ~> ~Waiting(p)

-----------------------------------------------------------------------------
(* Instances for TLC *)

\* Every proposal is worth the same; workers are interchangeable.
EqualValues == [p \in Proposals |-> 2]
WorkerSymmetry == Permutations(Workers)
=============================================================================

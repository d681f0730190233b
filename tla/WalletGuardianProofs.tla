------------------------ MODULE WalletGuardianProofs ------------------------
(***************************************************************************)
(* Theorems about WalletGuardian, for any number of workers and proposals, *)
(* any values and limits and any bounds.                                   *)
(***************************************************************************)
EXTENDS WalletGuardian, FiniteSetTheorems, TLAPS

-----------------------------------------------------------------------------
(* sums of values *)

\* The values of a set of proposals as a set of units, one per dollar: its
\* cardinality is their sum, and it grows with the set.
Units(S) == {u \in Proposals \X Nat : u[1] \in S /\ u[2] \in 1..Value[u[1]]}

\* Every non-empty set of subsets of a finite set has a smallest member.
LEMMA SmallestSubset ==
  ASSUME NEW S, IsFiniteSet(S), NEW C, C \subseteq SUBSET S, C # {}
  PROVE  \E s \in C : \A r \in C : r \subseteq s => r = s
<1>1. C \subseteq FiniteSubsetsOf(S)
  BY FS_FiniteSubsetsOfFinite
<1>2. PICK s \in C : \A r \in C : <<r, s>> \notin StrictSubsetOrdering(S)
  BY <1>1, FS_StrictSubsetOrderingWellFounded, WFMin
<1> QED  BY <1>2 DEF StrictSubsetOrdering

\* One more proposal adds its value.
LEMMA UnitsOfOneMore ==
  ASSUME NEW S \in SUBSET Proposals, NEW p \in Proposals, p \notin S,
         IsFiniteSet(Units(S))
  PROVE  /\ IsFiniteSet(Units(S \cup {p}))
         /\ Cardinality(Units(S \cup {p})) = Cardinality(Units(S)) + Value[p]
<1> DEFINE own == {p} \X (1..Value[p])
<1>1. Value[p] \in Nat
  BY GuardianAssumption
<1>2. IsFiniteSet(own) /\ Cardinality(own) = Value[p]
  <2>1. IsFiniteSet(1..Value[p]) /\ Cardinality(1..Value[p]) = Value[p]
    BY <1>1, FS_Interval
  <2>2. IsFiniteSet({p}) /\ Cardinality({p}) = 1
    BY FS_Singleton
  <2>3. /\ IsFiniteSet(own)
        /\ Cardinality(own) = Cardinality({p}) * Cardinality(1..Value[p])
    BY <2>1, <2>2, FS_Product
  <2>4. 1 * Value[p] = Value[p]
    BY <1>1
  <2> HIDE DEF own
  <2> QED  BY <2>1, <2>2, <2>3, <2>4
<1>3. Units(S \cup {p}) = Units(S) \cup own
  BY <1>1 DEF Units
<1>4. Units(S) \cap own = {}
  BY DEF Units
<1>5. Cardinality(Units(S)) \in Nat /\ Cardinality({}) = 0
  BY FS_CardinalityType, FS_EmptySet
<1>6. /\ IsFiniteSet(Units(S) \cup own)
      /\ Cardinality(Units(S) \cup own) =
           Cardinality(Units(S)) + Cardinality(own)
             - Cardinality(Units(S) \cap own)
  BY <1>2, FS_Union
<1> HIDE DEF own
<1>7. Cardinality(Units(S) \cap own) = 0
  BY <1>4, <1>5, Zenon
<1>8. Cardinality(Units(S) \cup own) = Cardinality(Units(S)) + Value[p]
  BY <1>1, <1>2, <1>5, <1>6, <1>7
<1> QED  BY <1>3, <1>6, <1>8, Zenon

\* The units of any proposals are finitely many.
LEMMA UnitsFinite ==
  ASSUME NEW S \in SUBSET Proposals
  PROVE  IsFiniteSet(Units(S)) /\ Cardinality(Units(S)) \in Nat
<1> DEFINE bad == {s \in SUBSET Proposals : ~IsFiniteSet(Units(s))}
<1>1. IsFiniteSet(Proposals)
  BY GuardianAssumption
<1>2. bad = {}
  <2> SUFFICES ASSUME bad # {} PROVE FALSE
    OBVIOUS
  <2>0. bad \subseteq SUBSET Proposals
    OBVIOUS
  <2>1. PICK s \in bad : \A r \in bad : r \subseteq s => r = s
    <3> HIDE DEF bad
    <3> QED  BY <1>1, <2>0, SmallestSubset
  <2>2. Units({}) = {}
    BY DEF Units
  <2>3. s # {}
    BY <2>1, <2>2, FS_EmptySet
  <2>4. PICK p \in s : TRUE
    BY <2>3
  <2>5. IsFiniteSet(Units(s \ {p}))
    BY <2>1, <2>4
  <2>6. IsFiniteSet(Units((s \ {p}) \cup {p}))
    BY <2>1, <2>4, <2>5, UnitsOfOneMore
  <2>7. (s \ {p}) \cup {p} = s
    BY <2>4
  <2> QED  BY <2>1, <2>6, <2>7
<1>3. IsFiniteSet(Units(S))
  BY <1>2
<1> QED  BY <1>3, FS_CardinalityType

\* The fold that sums the values visits the proposals in an order of its own;
\* it counts the units whatever that order is.
LEMMA SumCountsUnits ==
  ASSUME NEW S \in SUBSET Proposals
  PROVE  MapThenSumSet(LAMBDA p : Value[p], S) = Cardinality(Units(S))
<1> DEFINE first(s) == CHOOSE x \in s : TRUE
           Sums(f) == f = [s \in SUBSET S |->
                             IF s = {} THEN 0
                             ELSE Value[first(s)] + f[s \ {first(s)}]]
           count == [s \in SUBSET S |-> Cardinality(Units(s))]
<1>1. IsFiniteSet(S)
  BY GuardianAssumption, FS_Subset
<1>2. ASSUME NEW s \in SUBSET S, s # {}
      PROVE  count[s] = Value[first(s)] + count[s \ {first(s)}]
  <2>1. first(s) \in s /\ first(s) \in Proposals
    BY <1>2
  <2> HIDE DEF first
  <2>2. /\ s \ {first(s)} \in SUBSET Proposals
        /\ (s \ {first(s)}) \cup {first(s)} = s
        /\ first(s) \notin s \ {first(s)}
    BY <2>1
  <2>3. /\ IsFiniteSet(Units(s \ {first(s)}))
        /\ Cardinality(Units(s \ {first(s)})) \in Nat
    BY <2>2, UnitsFinite
  <2>4. Cardinality(Units(s)) =
          Cardinality(Units(s \ {first(s)})) + Value[first(s)]
    BY <2>1, <2>2, <2>3, UnitsOfOneMore
  <2>5. Value[first(s)] \in Nat
    BY <2>1, GuardianAssumption
  <2> QED  BY <2>3, <2>4, <2>5
<1>3. count[{}] = 0
  <2>1. Units({}) = {}
    BY DEF Units
  <2> QED  BY <2>1, FS_EmptySet
<1>4. Sums(count)
  <2> DEFINE step == [s \in SUBSET S |->
                        IF s = {} THEN 0
                        ELSE Value[first(s)] + count[s \ {first(s)}]]
  <2>1. \A s \in SUBSET S : count[s] = step[s]
    <3> TAKE s \in SUBSET S
    <3>1. CASE s = {}
      BY <3>1, <1>3
    <3>2. CASE s # {}
      <4> HIDE DEF count, first
      <4> QED  BY <3>2, <1>2
    <3> QED  BY <3>1, <3>2
  <2>2. count = step
    BY <2>1
  <2> HIDE DEF count
  <2> QED  BY <2>2
<1>5. ASSUME NEW f, Sums(f) PROVE f = count
  <2> DEFINE bad == {s \in SUBSET S : f[s] # count[s]}
  <2>1. bad = {}
    <3> SUFFICES ASSUME bad # {} PROVE FALSE
      OBVIOUS
    <3>0. bad \subseteq SUBSET S
      OBVIOUS
    <3>1. PICK s \in bad : \A r \in bad : r \subseteq s => r = s
      <4> HIDE DEF bad
      <4> QED  BY <1>1, <3>0, SmallestSubset
    <3>2. \A r \in SUBSET S :
            f[r] = IF r = {} THEN 0 ELSE Value[first(r)] + f[r \ {first(r)}]
      BY <1>5
    <3> HIDE DEF Sums, count
    <3>3. s # {}
      BY <3>1, <3>2, <1>3
    <3>4. first(s) \in s
      BY <3>3
    <3> HIDE DEF first
    <3>5. f[s \ {first(s)}] = count[s \ {first(s)}]
      BY <3>1, <3>4
    <3>6. f[s] = Value[first(s)] + f[s \ {first(s)}]
      BY <3>1, <3>2, <3>3
    <3>7. count[s] = Value[first(s)] + count[s \ {first(s)}]
      BY <3>1, <3>3, <1>2
    <3> QED  BY <3>1, <3>5, <3>6, <3>7
  <2>2. \A s \in SUBSET S : f[s] = count[s]
    BY <2>1
  <2>3. f = [s \in SUBSET S |-> f[s]]
    BY <1>5
  <2>4. count = [s \in SUBSET S |-> count[s]]
    OBVIOUS
  <2> HIDE DEF count, Sums
  <2> QED  BY <2>2, <2>3, <2>4
<1>6. (CHOOSE f : Sums(f)) = count
  <2> HIDE DEF Sums, count
  <2> QED  BY <1>4, <1>5
<1>7. MapThenSumSet(LAMBDA p : Value[p], S) = (CHOOSE f : Sums(f))[S]
  BY DEF MapThenSumSet, MapThenFoldSet
<1> QED  BY <1>6, <1>7

\* durable_usage() is the number of units of the reserving proposals.
Reserved == {p \in Proposals : state[p] \in Reserving}

LEMMA UsageCounts ==
  /\ Usage = Cardinality(Units(Reserved)) /\ Usage \in Nat
  /\ Usage' = Cardinality(Units(Reserved')) /\ Usage' \in Nat
<1>1. Reserved \in SUBSET Proposals /\ Reserved' \in SUBSET Proposals
  BY DEF Reserved
<1>2. Usage = MapThenSumSet(LAMBDA p : Value[p], Reserved)
  BY DEF Usage, Reserved
<1>3. Usage' = MapThenSumSet(LAMBDA p : Value[p], Reserved')
  BY DEF Usage, Reserved, MapThenSumSet, MapThenFoldSet
<1>4. Usage = Cardinality(Units(Reserved))
  BY <1>1, <1>2, SumCountsUnits
<1>5. Usage' = Cardinality(Units(Reserved'))
  BY <1>1, <1>3, SumCountsUnits
<1> QED  BY <1>1, <1>4, <1>5, UnitsFinite

\* A step after which no further proposal reserves does not raise the usage.
LEMMA UsageFalls ==
  ASSUME Reserved' \subseteq Reserved
  PROVE  Usage' <= Usage
<1>1. Reserved \in SUBSET Proposals
  BY DEF Reserved
<1>2. Units(Reserved') \in SUBSET Units(Reserved)
  BY DEF Units
<1>3. Cardinality(Units(Reserved')) <= Cardinality(Units(Reserved))
  BY <1>1, <1>2, UnitsFinite, FS_Subset
<1> QED  BY <1>3, UsageCounts

\* A proposal that starts to reserve adds its value.
LEMMA UsageRises ==
  ASSUME NEW p \in Proposals, p \notin Reserved, Reserved' = Reserved \cup {p}
  PROVE  Usage' = Usage + Value[p]
<1>1. Reserved \in SUBSET Proposals
  BY DEF Reserved
<1>2. Cardinality(Units(Reserved \cup {p}))
        = Cardinality(Units(Reserved)) + Value[p]
  BY <1>1, UnitsFinite, UnitsOfOneMore
<1> QED  BY <1>2, UsageCounts, Zenon

-----------------------------------------------------------------------------
(* the pending nonce *)

\* Every non-empty set of numbers has a least one.
LEMMA LeastNumber ==
  ASSUME NEW N \in SUBSET Nat, N # {}
  PROVE  \E n \in N : \A m \in N : n <= m
<1> DEFINE below == {0..n : n \in N}
<1>1. below \subseteq FiniteSubsetsOf(Nat)
  <2>1. \A n \in N : 0..n \in SUBSET Nat /\ IsFiniteSet(0..n)
    BY FS_Interval
  <2> QED  BY <2>1 DEF FiniteSubsetsOf
<1>2. below # {}
  OBVIOUS
<1>3. PICK s \in below :
        \A r \in below : <<r, s>> \notin StrictSubsetOrdering(Nat)
  <2> HIDE DEF below
  <2> QED  BY <1>1, <1>2, FS_StrictSubsetOrderingWellFounded, WFMin
<1>4. PICK n \in N : s = 0..n
  OBVIOUS
<1>5. ASSUME NEW m \in N, m < n PROVE FALSE
  <2>1. (0..m) \subseteq (0..n)
    BY <1>5
  <2>2. (0..m) # (0..n)
    <3>1. n \in 0..n /\ n \notin 0..m
      BY <1>5
    <3> QED  BY <3>1
  <2>3. <<0..m, 0..n>> \in StrictSubsetOrdering(Nat)
    BY <2>1, <2>2 DEF StrictSubsetOrdering
  <2> QED  BY <1>3, <1>4, <2>3
<1> QED  BY <1>5

\* There is a first nonce the pool does not hold, as the pool holds at most
\* one transaction per proposal; those before it are all held.
LEMMA PendingNonceFound ==
  ASSUME chainNonce \in Nat
  PROVE  /\ PendingNonce \in Nat
         /\ \A k \in chainNonce..(PendingNonce - 1) :
              \E p \in Proposals : chain[p] = "pool" /\ nonce[p] = k
<1> DEFINE range == chainNonce..(chainNonce + Cardinality(Proposals))
           held(n) == \E p \in Proposals : chain[p] = "pool" /\ nonce[p] = n
           free == {n \in range : ~held(n)}
<1>1. IsFiniteSet(Proposals) /\ Cardinality(Proposals) \in Nat
  BY GuardianAssumption, FS_CardinalityType
<1>2. range \in SUBSET Nat
  BY <1>1
<1>3. /\ IsFiniteSet(range)
      /\ Cardinality(Proposals) < Cardinality(range)
  BY <1>1, FS_Interval
<1>4. free # {}
  <2> SUFFICES ASSUME free = {} PROVE FALSE
    OBVIOUS
  <2>1. \A n \in range : \E p \in Proposals : nonce[p] = n
    OBVIOUS
  <2> DEFINE holder == [n \in range |-> CHOOSE p \in Proposals : nonce[p] = n]
  <2>2. \A n \in range : holder[n] \in Proposals /\ nonce[holder[n]] = n
    BY <2>1
  <2>3. holder \in [range -> Proposals]
    BY <2>2
  <2> HIDE DEF holder, range
  <2>4. \E m, n \in range : m # n /\ holder[m] = holder[n]
    BY <1>1, <1>3, <2>3, FS_PigeonHole
  <2> QED  BY <2>2, <2>4
<1>5. PICK n \in free : \A m \in free : n <= m
  <2>1. free \in SUBSET Nat
    BY <1>2
  <2> HIDE DEF free
  <2> QED  BY <1>4, <2>1, LeastNumber
<1>6. \A k \in chainNonce..(n - 1) : held(k)
  <2> TAKE k \in chainNonce..(n - 1)
  <2>1. n \in Nat /\ k \in range /\ k < n
    BY <1>1, <1>2
  <2> QED  BY <1>5, <2>1
<1> DEFINE first(m) == /\ \A p \in Proposals : chain[p] = "pool" => nonce[p] # m
                       /\ \A k \in chainNonce..(m - 1) : held(k)
<1>7. n \in range /\ first(n)
  BY <1>5, <1>6
<1>8. PendingNonce = CHOOSE m \in range : first(m)
  BY DEF PendingNonce
<1>9. PendingNonce \in range /\ first(PendingNonce)
  <2> HIDE DEF range, first
  <2> QED  BY <1>7, <1>8
<1> QED  BY <1>2, <1>9

-----------------------------------------------------------------------------
(* types *)

\* A worker in a cycle has a job to work on, a get_proposal call a proposal,
\* and an unanswered reference has attempts left.
TargetOK == \A w \in Workers : wpc[w] # "idle" => target[w] \in Proposals
PeekOK == peek # NoPeek => peek.proposal \in Proposals
AttemptsOK ==
  \A p \in Proposals : ref[p] = "pending" => wrong[p] < MaxWrongCodes

TypeInv == TypeOK /\ TargetOK /\ PeekOK /\ AttemptsOK

\* The tables are empty and the workers idle at the start.
LEMMA TypeInit == Init => TypeInv
<1> SUFFICES ASSUME Init PROVE TypeInv
  OBVIOUS
<1> USE GuardianAssumption DEF Init
<1>1. TypeOK
  BY DEF TypeOK, ProposalStates, JobStates, ChainStates, WorkerStages, NoView,
         NoPeek
<1>2. TargetOK /\ PeekOK /\ AttemptsOK
  BY DEF TargetOK, PeekOK, AttemptsOK
<1> QED  BY <1>1, <1>2 DEF TypeInv

\* Every request, stage of a cycle and event of the chain keeps the types.
LEMMA TypeNext == TypeInv /\ [Next]_vars => TypeInv'
<1> SUFFICES ASSUME TypeInv, [Next]_vars PROVE TypeInv'
  OBVIOUS
<1> USE GuardianAssumption
    DEF TypeInv, TypeOK, TargetOK, PeekOK, AttemptsOK, ProposalStates,
        JobStates, ChainStates, WorkerStages, NoView, NoPeek, approvalVars,
        budgetVars, jobVars, workerVars, deadlines, chainVars, Expire, Idle,
        Goto
<1>1. ASSUME NEW p \in Proposals, BeginPropose(p) PROVE TypeInv'
  BY <1>1, UsageCounts DEF BeginPropose
<1>2. ASSUME NEW p \in Proposals, Propose(p) PROVE TypeInv'
  BY <1>2 DEF Propose
<1>3. ASSUME NEW p \in Proposals, ApproveProposal(p) PROVE TypeInv'
  BY <1>3 DEF ApproveProposal
<1>4. ASSUME NEW p \in Proposals, WrongCode(p) PROVE TypeInv'
  BY <1>4 DEF WrongCode, IsLastAttempt
<1>5. ASSUME NEW p \in Proposals, ApproveTooLate(p) PROVE TypeInv'
  BY <1>5 DEF ApproveTooLate
<1>6. ASSUME NEW p \in Proposals, PeekProposal(p) PROVE TypeInv'
  BY <1>6 DEF PeekProposal
<1>7. CASE GetProposal
  BY <1>7 DEF GetProposal
<1>8. ASSUME NEW w \in Workers, NEW p \in Proposals, ExpireUnclaimed(w, p)
      PROVE  TypeInv'
  BY <1>8 DEF ExpireUnclaimed
<1>9. ASSUME NEW w \in Workers, NEW p \in Proposals, FetchNonce(w, p)
      PROVE  TypeInv'
  BY <1>9, PendingNonceFound DEF FetchNonce
<1>10. ASSUME NEW w \in Workers, NEW p \in Proposals, ReadJob(w, p)
       PROVE  TypeInv'
  BY <1>10 DEF ReadJob
<1>11. ASSUME NEW w \in Workers, Prepare(w) PROVE TypeInv'
  <2>1. target[w] \in Proposals /\ Allocate(pendingNonce[w]) \in Nat
    BY <1>11 DEF Prepare, Allocate
  <2>2. state' \in [Proposals -> ProposalStates]
    BY <1>11, <2>1 DEF Prepare
  <2>3. job' \in [Proposals -> JobStates]
    BY <1>11, <2>1 DEF Prepare
  <2>4. nonce' \in [Proposals -> Nat] /\ nextNonce' \in Nat
    BY <1>11, <2>1 DEF Prepare
  <2> QED  BY <1>11, <2>2, <2>3, <2>4 DEF Prepare
<1>12. ASSUME NEW w \in Workers, Receipt(w) PROVE TypeInv'
  BY <1>12 DEF Receipt
<1>13. ASSUME NEW w \in Workers, Known(w) PROVE TypeInv'
  <2>1. \/ \E stage \in {"mark", "abandon", "send"} : Goto(w, stage)
        \/ Idle(w)
    BY <1>13 DEF Known
  <2>2. /\ wpc[w] # "idle"
        /\ UNCHANGED <<state, deadlines, approvalVars, budgetVars, peek,
                       jobVars, chainVars, crashes>>
    BY <1>13 DEF Known
  <2>3. CASE \E stage \in {"mark", "abandon", "send"} : Goto(w, stage)
    BY <2>2, <2>3
  <2>4. CASE Idle(w)
    BY <2>2, <2>4
  <2> QED  BY <2>1, <2>3, <2>4
<1>14. ASSUME NEW w \in Workers, Send(w) PROVE TypeInv'
  <2>1. target[w] \in Proposals
    BY <1>14 DEF Send
  <2>2. chain' \in [Proposals -> ChainStates] /\ lost' \in 0..MaxLost
    <3>1. lost' \in {lost, lost + 1} /\ (lost' # lost => lost < MaxLost)
      BY <1>14 DEF Send
    <3>2. \/ chain' = chain
          \/ \E s \in {"pool", "floating"} :
               chain' = [chain EXCEPT ![target[w]] = s]
      BY <1>14 DEF Send
    <3>3. chain' \in [Proposals -> ChainStates]
      BY <2>1, <3>2
    <3>4. lost' \in 0..MaxLost
      BY <3>1
    <3> QED  BY <3>3, <3>4
  <2>3. Goto(w, "mark") \/ Idle(w)
    BY <1>14 DEF Send
  <2>4. /\ wpc' \in [Workers -> WorkerStages]
        /\ target' \in [Workers -> Proposals \cup {NoProposal}]
        /\ view' \in [Workers -> [job : JobStates, proposal : ProposalStates]]
        /\ pendingNonce' \in [Workers -> Nat]
        /\ TargetOK'
    <3>1. CASE Goto(w, "mark")
      BY <2>1, <3>1
    <3>2. CASE Idle(w)
      BY <3>2
    <3> QED  BY <2>3, <3>1, <3>2
  <2> QED  BY <1>14, <2>2, <2>4 DEF Send
<1>15. ASSUME NEW w \in Workers, MarkSubmitted(w) PROVE TypeInv'
  BY <1>15 DEF MarkSubmitted, Broadcast
<1>16. ASSUME NEW w \in Workers, FinishJob(w) PROVE TypeInv'
  BY <1>16 DEF FinishJob, Outcome
<1>17. ASSUME NEW w \in Workers, AbandonJob(w) PROVE TypeInv'
  <2>1. target[w] \in Proposals /\ GivenBack(target[w]) \in Nat
    BY <1>17 DEF AbandonJob, GivenBack
  <2>2. /\ job' \in [Proposals -> JobStates]
        /\ state' \in [Proposals -> ProposalStates]
        /\ nextNonce' \in Nat
    <3>1. CASE MayAbandon(target[w])
      <4>1. /\ job' = [job EXCEPT ![target[w]] = "abandoned"]
            /\ state' \in {state, [state EXCEPT ![target[w]] = "expired"]}
            /\ nextNonce' = GivenBack(target[w])
        BY <1>17, <3>1 DEF AbandonJob
      <4> QED  BY <2>1, <4>1
    <3>2. CASE ~MayAbandon(target[w])
      BY <1>17, <3>2 DEF AbandonJob
    <3> QED  BY <3>1, <3>2
  <2> QED  BY <1>17, <2>2 DEF AbandonJob
<1>18. ASSUME NEW w \in Workers, CutShort(w) PROVE TypeInv'
  BY <1>18 DEF CutShort
<1>19. ASSUME NEW p \in Proposals, PendingDeadline(p) PROVE TypeInv'
  BY <1>19 DEF PendingDeadline
<1>20. ASSUME NEW p \in Proposals, ApprovalDeadline(p) PROVE TypeInv'
  BY <1>20 DEF ApprovalDeadline
<1>21. ASSUME NEW p \in Proposals, Mine(p) PROVE TypeInv'
  BY <1>21 DEF Mine
<1>22. ASSUME NEW p \in Proposals, Arrive(p) PROVE TypeInv'
  BY <1>22 DEF Arrive
<1>23. ASSUME NEW p \in Proposals, Evict(p) PROVE TypeInv'
  BY <1>23 DEF Evict
<1>24. CASE UNCHANGED vars
  BY <1>24 DEF vars
<1> QED
  BY <1>1, <1>2, <1>3, <1>4, <1>5, <1>6, <1>7, <1>8, <1>9, <1>10, <1>11,
     <1>12, <1>13, <1>14, <1>15, <1>16, <1>17, <1>18, <1>19, <1>20, <1>21,
     <1>22, <1>23, <1>24
  DEF Next, Serve, Environment, Cycle, Pick

\* TypeOK holds in every reachable state, whatever the number of workers and
\* proposals: a step of a cycle always has a proposal to work on.
THEOREM GuardianTypes == Spec => []TypeOK
<1>1. TypeInv => TypeOK
  BY DEF TypeInv
<1> QED  BY <1>1, TypeInit, TypeNext, PTL DEF Spec

-----------------------------------------------------------------------------
(* approvals *)

\* A proposal being evaluated has no state yet.
EvaluatedNew == \A p \in evaluating : state[p] = "none"

\* An approved state was reached by a consumed reference or by policy.
ApprovalGiven ==
  \A p \in Proposals :
    /\ state[p] = "approved" => ref[p] = "approved"
    /\ state[p] = "auto_approved" => p \in Automatic

\* What the stage of a worker says about the job it works on: it only looks
\* for the transactions of jobs that exist and only finishes a job whose
\* transaction the chain has finished.
StageOK ==
  \A w \in Workers :
    /\ wpc[w] = "prepare" => target[w] \in Custodied
    /\ wpc[w] \notin {"idle", "prepare"} => job[target[w]] # "none"
    /\ wpc[w] = "finish" => chain[target[w]] \in {"mined", "reverted"}

OnChainHasJob == \A p \in Proposals : chain[p] # "none" => job[p] # "none"

ApprovedInv ==
  /\ EvaluatedNew
  /\ ApprovalGiven
  /\ StageOK
  /\ OnChainHasJob
  /\ ApprovedBeforeChain

\* At the start there are no jobs, no approvals and no transactions.
LEMMA ApprovedInit == Init => ApprovedInv
  BY DEF Init, ApprovedInv, StageOK, EvaluatedNew, ApprovalGiven,
         OnChainHasJob, ApprovedBeforeChain

\* Only the verdict gives a proposal its first state.
LEMMA EvaluatedNext ==
  TypeInv /\ EvaluatedNew /\ [Next]_vars => EvaluatedNew'
<1> SUFFICES ASSUME TypeInv, EvaluatedNew, [Next]_vars PROVE EvaluatedNew'
  OBVIOUS
<1> USE DEF TypeInv, TypeOK, TargetOK, PeekOK, EvaluatedNew, approvalVars,
        budgetVars, jobVars, workerVars, deadlines, chainVars, Expire, Approved
<1>1. ASSUME NEW p \in Proposals, BeginPropose(p) PROVE EvaluatedNew'
  BY <1>1 DEF BeginPropose
<1>2. ASSUME NEW p \in Proposals, Propose(p) PROVE EvaluatedNew'
  BY <1>2 DEF Propose
<1>3. ASSUME NEW p \in Proposals, ApproveProposal(p) PROVE EvaluatedNew'
  BY <1>3 DEF ApproveProposal
<1>4. ASSUME NEW p \in Proposals, ApproveTooLate(p) PROVE EvaluatedNew'
  BY <1>4 DEF ApproveTooLate
<1>5. CASE GetProposal
  BY <1>5 DEF GetProposal
<1>6. ASSUME NEW w \in Workers, NEW p \in Proposals, ExpireUnclaimed(w, p)
      PROVE  EvaluatedNew'
  BY <1>6 DEF ExpireUnclaimed
<1>7. ASSUME NEW w \in Workers, Prepare(w) PROVE EvaluatedNew'
  BY <1>7 DEF Prepare, IsCandidate
<1>8. ASSUME NEW w \in Workers, MarkSubmitted(w) PROVE EvaluatedNew'
  BY <1>8 DEF MarkSubmitted, Broadcast, Open
<1>9. ASSUME NEW w \in Workers, FinishJob(w) PROVE EvaluatedNew'
  BY <1>9 DEF FinishJob, Outcome, Open, Broadcast
<1>10. ASSUME NEW w \in Workers, AbandonJob(w) PROVE EvaluatedNew'
  BY <1>10 DEF AbandonJob, MayAbandon
<1>11. ASSUME NEW p \in Proposals,
              WrongCode(p) \/ PeekProposal(p) \/ PendingDeadline(p) \/
              ApprovalDeadline(p) \/ Mine(p) \/ Arrive(p) \/ Evict(p)
       PROVE  EvaluatedNew'
  BY <1>11 DEF WrongCode, PeekProposal, PendingDeadline, ApprovalDeadline,
       Mine, Arrive, Evict
<1>12. ASSUME NEW w \in Workers,
              Receipt(w) \/ Known(w) \/ Send(w) \/ CutShort(w)
       PROVE  EvaluatedNew'
  BY <1>12 DEF Receipt, Known, Send, CutShort
<1>13. ASSUME NEW w \in Workers, NEW p \in Proposals,
              FetchNonce(w, p) \/ ReadJob(w, p)
       PROVE  EvaluatedNew'
  BY <1>13 DEF FetchNonce, ReadJob
<1>14. CASE UNCHANGED vars
  BY <1>14 DEF vars
<1> QED
  BY <1>1, <1>2, <1>3, <1>4, <1>5, <1>6, <1>7, <1>8, <1>9, <1>10, <1>11,
       <1>12, <1>13, <1>14 DEF Next, Serve, Environment, Cycle, Pick

\* A reference that was consumed stays consumed.
LEMMA ApprovalNext ==
  TypeInv /\ ApprovalGiven /\ [Next]_vars => ApprovalGiven'
<1> SUFFICES ASSUME TypeInv, ApprovalGiven, [Next]_vars PROVE ApprovalGiven'
  OBVIOUS
<1> USE DEF TypeInv, TypeOK, TargetOK, PeekOK, ApprovalGiven, approvalVars,
        budgetVars, jobVars, workerVars, deadlines, chainVars, Expire, Approved
<1>1. ASSUME NEW p \in Proposals, Propose(p) PROVE ApprovalGiven'
  <2>1. \/ \E s \in {"denied", "pending"} : state' = [state EXCEPT ![p] = s]
        \/ p \in Automatic /\ state' = [state EXCEPT ![p] = "auto_approved"]
    BY <1>1 DEF Propose
  <2>2. ref' = ref
    BY <1>1 DEF Propose
  <2> QED  BY <2>1, <2>2
<1>2. ASSUME NEW p \in Proposals, ApproveProposal(p) PROVE ApprovalGiven'
  BY <1>2 DEF ApproveProposal
<1>3. ASSUME NEW p \in Proposals, WrongCode(p) PROVE ApprovalGiven'
  BY <1>3 DEF WrongCode
<1>4. ASSUME NEW p \in Proposals, ApproveTooLate(p) PROVE ApprovalGiven'
  BY <1>4 DEF ApproveTooLate
<1>5. CASE GetProposal
  BY <1>5 DEF GetProposal
<1>6. ASSUME NEW w \in Workers, NEW p \in Proposals, ExpireUnclaimed(w, p)
      PROVE  ApprovalGiven'
  BY <1>6 DEF ExpireUnclaimed
<1>7. ASSUME NEW w \in Workers, Prepare(w) PROVE ApprovalGiven'
  BY <1>7 DEF Prepare, IsCandidate
<1>8. ASSUME NEW w \in Workers, MarkSubmitted(w) PROVE ApprovalGiven'
  BY <1>8 DEF MarkSubmitted, Broadcast, Open
<1>9. ASSUME NEW w \in Workers, FinishJob(w) PROVE ApprovalGiven'
  BY <1>9 DEF FinishJob, Outcome, Open, Broadcast
<1>10. ASSUME NEW w \in Workers, AbandonJob(w) PROVE ApprovalGiven'
  BY <1>10 DEF AbandonJob, MayAbandon
<1>11. ASSUME NEW p \in Proposals,
              BeginPropose(p) \/ PeekProposal(p) \/ PendingDeadline(p) \/
              ApprovalDeadline(p) \/ Mine(p) \/ Arrive(p) \/ Evict(p)
       PROVE  ApprovalGiven'
  BY <1>11 DEF BeginPropose, PeekProposal, PendingDeadline, ApprovalDeadline,
       Mine, Arrive, Evict
<1>12. ASSUME NEW w \in Workers,
              Receipt(w) \/ Known(w) \/ Send(w) \/ CutShort(w)
       PROVE  ApprovalGiven'
  BY <1>12 DEF Receipt, Known, Send, CutShort
<1>13. ASSUME NEW w \in Workers, NEW p \in Proposals,
              FetchNonce(w, p) \/ ReadJob(w, p)
       PROVE  ApprovalGiven'
  BY <1>13 DEF FetchNonce, ReadJob
<1>14. CASE UNCHANGED vars
  BY <1>14 DEF vars
<1> QED
  BY <1>1, <1>2, <1>3, <1>4, <1>5, <1>6, <1>7, <1>8, <1>9, <1>10, <1>11,
       <1>12, <1>13, <1>14 DEF Next, Serve, Environment, Cycle, Pick

\* Jobs never disappear and the chain never takes a transaction back that it
\* mined.
LEMMA StageNext ==
  TypeInv /\ StageOK /\ OnChainHasJob /\ [Next]_vars
    => StageOK' /\ OnChainHasJob'
<1> SUFFICES ASSUME TypeInv, StageOK, OnChainHasJob, [Next]_vars
             PROVE  (StageOK /\ OnChainHasJob)'
  OBVIOUS
<1> USE DEF TypeInv, TypeOK, TargetOK, StageOK, OnChainHasJob, approvalVars,
        budgetVars, jobVars, workerVars, deadlines, chainVars, Goto, Idle
<1>1. ASSUME NEW w \in Workers, NEW p \in Proposals, FetchNonce(w, p)
      PROVE  (StageOK /\ OnChainHasJob)'
  BY <1>1 DEF FetchNonce, IsCandidate
<1>2. ASSUME NEW w \in Workers, NEW p \in Proposals, ReadJob(w, p)
      PROVE  (StageOK /\ OnChainHasJob)'
  BY <1>2 DEF ReadJob
<1>3. ASSUME NEW w \in Workers, Prepare(w) PROVE (StageOK /\ OnChainHasJob)'
  BY <1>3 DEF Prepare, IsCandidate
<1>4. ASSUME NEW w \in Workers, Receipt(w) PROVE (StageOK /\ OnChainHasJob)'
  BY <1>4 DEF Receipt
<1>5. ASSUME NEW w \in Workers, Known(w) PROVE (StageOK /\ OnChainHasJob)'
  BY <1>5 DEF Known
<1>6. ASSUME NEW w \in Workers, Send(w) PROVE (StageOK /\ OnChainHasJob)'
  BY <1>6 DEF Send
<1>7. ASSUME NEW w \in Workers, MarkSubmitted(w)
      PROVE  (StageOK /\ OnChainHasJob)'
  BY <1>7 DEF MarkSubmitted, Broadcast, Open
<1>8. ASSUME NEW w \in Workers, FinishJob(w) PROVE (StageOK /\ OnChainHasJob)'
  BY <1>8 DEF FinishJob, Outcome, Open, Broadcast
<1>9. ASSUME NEW w \in Workers, AbandonJob(w) PROVE (StageOK /\ OnChainHasJob)'
  BY <1>9 DEF AbandonJob, MayAbandon
<1>10. ASSUME NEW w \in Workers, CutShort(w) PROVE (StageOK /\ OnChainHasJob)'
  BY <1>10 DEF CutShort
<1>11. ASSUME NEW p \in Proposals, Mine(p) PROVE (StageOK /\ OnChainHasJob)'
  BY <1>11 DEF Mine
<1>12. ASSUME NEW p \in Proposals, Arrive(p) PROVE (StageOK /\ OnChainHasJob)'
  BY <1>12 DEF Arrive
<1>13. ASSUME NEW p \in Proposals, Evict(p) PROVE (StageOK /\ OnChainHasJob)'
  BY <1>13 DEF Evict
<1>14. ASSUME NEW p \in Proposals,
              BeginPropose(p) \/ Propose(p) \/ ApproveProposal(p) \/
              WrongCode(p) \/ ApproveTooLate(p) \/ PeekProposal(p) \/
              PendingDeadline(p) \/ ApprovalDeadline(p)
       PROVE  (StageOK /\ OnChainHasJob)'
  BY <1>14 DEF BeginPropose, Propose, ApproveProposal, WrongCode,
       ApproveTooLate, PeekProposal, PendingDeadline, ApprovalDeadline
<1>15. ASSUME NEW w \in Workers, NEW p \in Proposals,
              ExpireUnclaimed(w, p)
       PROVE  (StageOK /\ OnChainHasJob)'
  BY <1>15 DEF ExpireUnclaimed
<1>16. CASE GetProposal
  BY <1>16 DEF GetProposal
<1>17. CASE UNCHANGED vars
  BY <1>17 DEF vars
<1> QED
  BY <1>1, <1>2, <1>3, <1>4, <1>5, <1>6, <1>7, <1>8, <1>9, <1>10, <1>11,
       <1>12, <1>13, <1>14, <1>15, <1>16, <1>17 DEF Next, Serve, Environment,
       Cycle, Pick

\* A job is only created from an approved state, and no state a proposal can
\* reach after that takes the approval back.
JobApproved ==
  \A p \in Proposals : job[p] # "none" =>
    /\ state[p] \notin {"none", "denied", "pending"}
    /\ p \in Custodied
    /\ p \notin Automatic => ref[p] = "approved"

LEMMA JobApprovedNext ==
  TypeInv /\ EvaluatedNew /\ ApprovalGiven /\ StageOK /\ JobApproved
      /\ [Next]_vars
    => JobApproved'
<1> SUFFICES ASSUME TypeInv, EvaluatedNew, ApprovalGiven, StageOK, JobApproved,
                    [Next]_vars
             PROVE  JobApproved'
  OBVIOUS
<1>0. /\ state \in [Proposals -> ProposalStates]
      /\ ref \in [Proposals -> {"pending", "approved", "failed"}]
      /\ job \in [Proposals -> JobStates]
      /\ \A w \in Workers : wpc[w] # "idle" => target[w] \in Proposals
      /\ peek # NoPeek => peek.proposal \in Proposals
  BY DEF TypeInv, TypeOK, TargetOK, PeekOK
<1> USE <1>0 DEF EvaluatedNew, ApprovalGiven, StageOK, JobApproved,
        approvalVars, budgetVars, jobVars, workerVars, deadlines, chainVars,
        Expire, Approved
<1>1. ASSUME NEW p \in Proposals, Propose(p) PROVE JobApproved'
  <2>1. p \in evaluating /\ ref' = ref /\ job' = job
    BY <1>1 DEF Propose
  <2>2. \A q \in Proposals \ {p} : state'[q] = state[q]
    BY <1>1 DEF Propose
  <2>3. job[p] = "none"
    BY <2>1
  <2> QED  BY <2>1, <2>2, <2>3
<1>2. ASSUME NEW p \in Proposals, ApproveProposal(p) PROVE JobApproved'
  BY <1>2 DEF ApproveProposal
<1>3. ASSUME NEW p \in Proposals, WrongCode(p) PROVE JobApproved'
  BY <1>3 DEF WrongCode
<1>4. ASSUME NEW p \in Proposals, ApproveTooLate(p) PROVE JobApproved'
  BY <1>4 DEF ApproveTooLate
<1>5. CASE GetProposal
  <2>1. ref' = ref /\ job' = job /\ peek # NoPeek
    BY <1>5 DEF GetProposal
  <2>2. \/ state' = state
        \/ state' = [state EXCEPT ![peek.proposal] = "expired"]
           /\ \/ state[peek.proposal] = "pending"
              \/ Approved(state[peek.proposal])
    BY <1>5 DEF GetProposal
  <2> QED  BY <2>1, <2>2
<1>6. ASSUME NEW w \in Workers, NEW p \in Proposals, ExpireUnclaimed(w, p)
      PROVE  JobApproved'
  BY <1>6 DEF ExpireUnclaimed
<1>7. ASSUME NEW w \in Workers, Prepare(w) PROVE JobApproved'
  <2>1. ref' = ref /\ target[w] \in Proposals /\ target[w] \in Custodied
    BY <1>7 DEF Prepare
  <2>2. \/ UNCHANGED <<state, job>>
        \/ /\ IsCandidate(target[w])
           /\ state' = [state EXCEPT ![target[w]] = "expired"]
           /\ job' = job
        \/ /\ IsCandidate(target[w])
           /\ job' = [job EXCEPT ![target[w]] = "prepared"]
           /\ state' = state
    BY <1>7 DEF Prepare
  <2>3. CASE UNCHANGED <<state, job>>
    BY <2>1, <2>3
  <2>4. CASE /\ IsCandidate(target[w])
             /\ state' = [state EXCEPT ![target[w]] = "expired"]
             /\ job' = job
    BY <2>1, <2>4
  <2>5. CASE /\ IsCandidate(target[w])
             /\ job' = [job EXCEPT ![target[w]] = "prepared"]
             /\ state' = state
    BY <2>1, <2>5 DEF IsCandidate
  <2> QED  BY <2>2, <2>3, <2>4, <2>5
<1>8. ASSUME NEW w \in Workers, MarkSubmitted(w) PROVE JobApproved'
  <2>1. ref' = ref /\ target[w] \in Proposals /\ job[target[w]] # "none"
    BY <1>8 DEF MarkSubmitted
  <2>2. /\ \A q \in Proposals \ {target[w]} :
             state'[q] = state[q] /\ job'[q] = job[q]
        /\ state'[target[w]] \in {state[target[w]], "broadcast"}
    BY <1>8, <2>1 DEF MarkSubmitted, Broadcast
  <2> QED  BY <2>1, <2>2
<1>9. ASSUME NEW w \in Workers, FinishJob(w) PROVE JobApproved'
  <2>1. ref' = ref /\ target[w] \in Proposals /\ job[target[w]] # "none"
    BY <1>9 DEF FinishJob
  <2>2. /\ \A q \in Proposals \ {target[w]} :
             state'[q] = state[q] /\ job'[q] = job[q]
        /\ state'[target[w]] \in {state[target[w]], "confirmed", "failed"}
    BY <1>9, <2>1 DEF FinishJob, Outcome
  <2> QED  BY <2>1, <2>2
<1>10. ASSUME NEW w \in Workers, AbandonJob(w) PROVE JobApproved'
  <2>1. ref' = ref /\ target[w] \in Proposals /\ job[target[w]] # "none"
    BY <1>10 DEF AbandonJob
  <2>2. /\ \A q \in Proposals \ {target[w]} :
             state'[q] = state[q] /\ job'[q] = job[q]
        /\ state'[target[w]] \in {state[target[w]], "expired"}
    BY <1>10, <2>1 DEF AbandonJob
  <2> QED  BY <2>1, <2>2
<1>11. ASSUME NEW p \in Proposals,
              BeginPropose(p) \/ PeekProposal(p) \/ PendingDeadline(p) \/
              ApprovalDeadline(p) \/ Mine(p) \/ Arrive(p) \/ Evict(p)
       PROVE  JobApproved'
  BY <1>11 DEF BeginPropose, PeekProposal, PendingDeadline, ApprovalDeadline,
       Mine, Arrive, Evict
<1>12. ASSUME NEW w \in Workers,
              Receipt(w) \/ Known(w) \/ Send(w) \/ CutShort(w)
       PROVE  JobApproved'
  BY <1>12 DEF Receipt, Known, Send, CutShort
<1>13. ASSUME NEW w \in Workers, NEW p \in Proposals,
              FetchNonce(w, p) \/ ReadJob(w, p)
       PROVE  JobApproved'
  BY <1>13 DEF FetchNonce, ReadJob
<1>14. CASE UNCHANGED vars
  BY <1>14 DEF vars
<1> QED
  BY <1>1, <1>2, <1>3, <1>4, <1>5, <1>6, <1>7, <1>8, <1>9, <1>10, <1>11,
       <1>12, <1>13, <1>14 DEF Next, Serve, Environment, Cycle, Pick

LEMMA ApprovedNext == TypeInv /\ ApprovedInv /\ [Next]_vars => ApprovedInv'
<1> SUFFICES ASSUME TypeInv, ApprovedInv, [Next]_vars PROVE ApprovedInv'
  OBVIOUS
<1>1. JobApproved
  BY DEF ApprovedInv, ApprovedBeforeChain, JobApproved
<1>2. EvaluatedNew' /\ ApprovalGiven' /\ StageOK' /\ OnChainHasJob'
  BY EvaluatedNext, ApprovalNext, StageNext DEF ApprovedInv
<1>3. JobApproved'
  BY <1>1, JobApprovedNext DEF ApprovedInv
<1>4. ApprovedBeforeChain'
  BY <1>2, <1>3 DEF ApprovedBeforeChain, OnChainHasJob, JobApproved
<1> QED  BY <1>2, <1>4 DEF ApprovedInv

\* ApprovedBeforeChain holds in every reachable state: no interleaving of
\* requests, workers, deadlines and a stale get_proposal leads to a signed
\* transaction without an approval.
THEOREM ApprovalsPrecedeChain == Spec => []ApprovedBeforeChain
<1>1. ApprovedInv => ApprovedBeforeChain
  BY DEF ApprovedInv
<1> QED
  BY <1>1, TypeInit, TypeNext, ApprovedInit, ApprovedNext, PTL DEF Spec

-----------------------------------------------------------------------------
(* records and the chain *)

\* The records of proposal and job are changed together, and finished from
\* a receipt.
LEMMA RecordsNext ==
  TypeInv /\ EvaluatedNew /\ StageOK /\ RecordsMatchChain /\ [Next]_vars
    => RecordsMatchChain'
<1> SUFFICES ASSUME TypeInv, EvaluatedNew, StageOK, RecordsMatchChain,
                    [Next]_vars
             PROVE  RecordsMatchChain'
  OBVIOUS
<1>0. /\ state \in [Proposals -> ProposalStates]
      /\ job \in [Proposals -> JobStates]
      /\ chain \in [Proposals -> ChainStates]
      /\ \A w \in Workers : wpc[w] # "idle" => target[w] \in Proposals
      /\ peek # NoPeek => peek.proposal \in Proposals
  BY DEF TypeInv, TypeOK, TargetOK, PeekOK
<1> USE <1>0 DEF EvaluatedNew, StageOK, RecordsMatchChain, approvalVars,
        budgetVars, jobVars, workerVars, deadlines, chainVars, Expire, Approved
<1>1. ASSUME NEW p \in Proposals, Propose(p) PROVE RecordsMatchChain'
  BY <1>1 DEF Propose
<1>2. ASSUME NEW p \in Proposals, ApproveProposal(p) PROVE RecordsMatchChain'
  BY <1>2 DEF ApproveProposal
<1>3. ASSUME NEW p \in Proposals, ApproveTooLate(p) PROVE RecordsMatchChain'
  BY <1>3 DEF ApproveTooLate
<1>4. CASE GetProposal
  BY <1>4 DEF GetProposal
<1>5. ASSUME NEW w \in Workers, NEW p \in Proposals, ExpireUnclaimed(w, p)
      PROVE  RecordsMatchChain'
  BY <1>5 DEF ExpireUnclaimed
<1>6. ASSUME NEW w \in Workers, Prepare(w) PROVE RecordsMatchChain'
  BY <1>6 DEF Prepare, IsCandidate
<1>7. ASSUME NEW w \in Workers, Send(w) PROVE RecordsMatchChain'
  BY <1>7 DEF Send
<1>8. ASSUME NEW w \in Workers, MarkSubmitted(w) PROVE RecordsMatchChain'
  BY <1>8 DEF MarkSubmitted, Broadcast, Open
<1>9. ASSUME NEW w \in Workers, FinishJob(w) PROVE RecordsMatchChain'
  BY <1>9 DEF FinishJob, Outcome, Open, Broadcast
<1>10. ASSUME NEW w \in Workers, AbandonJob(w) PROVE RecordsMatchChain'
  BY <1>10 DEF AbandonJob, MayAbandon
<1>11. ASSUME NEW p \in Proposals, Mine(p) PROVE RecordsMatchChain'
  BY <1>11 DEF Mine
<1>12. ASSUME NEW p \in Proposals, Arrive(p) PROVE RecordsMatchChain'
  BY <1>12 DEF Arrive
<1>13. ASSUME NEW p \in Proposals, Evict(p) PROVE RecordsMatchChain'
  BY <1>13 DEF Evict
<1>14. ASSUME NEW p \in Proposals,
              BeginPropose(p) \/ WrongCode(p) \/ PeekProposal(p) \/
              PendingDeadline(p) \/ ApprovalDeadline(p)
       PROVE  RecordsMatchChain'
  BY <1>14 DEF BeginPropose, WrongCode, PeekProposal, PendingDeadline,
       ApprovalDeadline
<1>15. ASSUME NEW w \in Workers,
              Receipt(w) \/ Known(w) \/ CutShort(w)
       PROVE  RecordsMatchChain'
  BY <1>15 DEF Receipt, Known, CutShort
<1>16. ASSUME NEW w \in Workers, NEW p \in Proposals,
              FetchNonce(w, p) \/ ReadJob(w, p)
       PROVE  RecordsMatchChain'
  BY <1>16 DEF FetchNonce, ReadJob
<1>17. CASE UNCHANGED vars
  BY <1>17 DEF vars
<1> QED
  BY <1>1, <1>2, <1>3, <1>4, <1>5, <1>6, <1>7, <1>8, <1>9, <1>10, <1>11,
       <1>12, <1>13, <1>14, <1>15, <1>16, <1>17 DEF Next, Serve, Environment,
       Cycle, Pick

\* RecordsMatchChain holds in every reachable state: a worker that acts on
\* what it read before another one finished the job changes nothing.
THEOREM RecordsAreTrue == Spec => []RecordsMatchChain
<1>1. Init => RecordsMatchChain
  BY DEF Init, RecordsMatchChain
<1>2. TypeInv /\ ApprovedInv /\ RecordsMatchChain /\ [Next]_vars
        => RecordsMatchChain'
  BY RecordsNext DEF ApprovedInv
<1> QED
  BY <1>1, <1>2, TypeInit, TypeNext, ApprovedInit, ApprovedNext, PTL DEF Spec

-----------------------------------------------------------------------------
(* nonces *)

\* A prepared job holds the last nonce, as nothing else is prepared before it
\* is submitted or abandoned.
PreparedLast ==
  \A p \in Proposals : job[p] = "prepared" =>
    /\ nextNonce = nonce[p] + 1
    /\ \A q \in Proposals : job[q] = "prepared" => q = p

NonceInv == NoncesDistinct /\ PreparedLast

\* A new job is numbered beyond all others, and only the last number is taken
\* back.
LEMMA NonceNext == TypeInv /\ NonceInv /\ [Next]_vars => NonceInv'
<1> SUFFICES ASSUME TypeInv, NonceInv, [Next]_vars PROVE NonceInv'
  OBVIOUS
<1>0. /\ job \in [Proposals -> JobStates]
      /\ nonce \in [Proposals -> Nat]
      /\ nextNonce \in Nat
      /\ pendingNonce \in [Workers -> Nat]
      /\ \A w \in Workers : wpc[w] # "idle" => target[w] \in Proposals
  BY DEF TypeInv, TypeOK, TargetOK
<1> USE <1>0 DEF NonceInv, NoncesDistinct, PreparedLast, Active, approvalVars,
        budgetVars, jobVars, workerVars, deadlines, chainVars
<1>1. ASSUME NEW w \in Workers, Prepare(w) PROVE NonceInv'
  BY <1>1 DEF Prepare, Allocate
<1>2. ASSUME NEW w \in Workers, MarkSubmitted(w) PROVE NonceInv'
  BY <1>2 DEF MarkSubmitted, Open
<1>3. ASSUME NEW w \in Workers, FinishJob(w) PROVE NonceInv'
  BY <1>3 DEF FinishJob, Outcome, Open
<1>4. ASSUME NEW w \in Workers, AbandonJob(w) PROVE NonceInv'
  BY <1>4 DEF AbandonJob, MayAbandon, GivenBack
<1>5. ASSUME NEW p \in Proposals,
             BeginPropose(p) \/ Propose(p) \/ ApproveProposal(p) \/
             WrongCode(p) \/ ApproveTooLate(p) \/ PeekProposal(p) \/
             PendingDeadline(p) \/ ApprovalDeadline(p) \/ Mine(p) \/ Arrive(p)
             \/ Evict(p)
      PROVE  NonceInv'
  BY <1>5 DEF BeginPropose, Propose, ApproveProposal, WrongCode,
       ApproveTooLate, PeekProposal, PendingDeadline, ApprovalDeadline, Mine,
       Arrive, Evict
<1>6. ASSUME NEW w \in Workers,
             Receipt(w) \/ Known(w) \/ Send(w) \/ CutShort(w)
      PROVE  NonceInv'
  BY <1>6 DEF Receipt, Known, Send, CutShort
<1>7. ASSUME NEW w \in Workers, NEW p \in Proposals,
             ExpireUnclaimed(w, p) \/ FetchNonce(w, p) \/ ReadJob(w, p)
      PROVE  NonceInv'
  BY <1>7 DEF ExpireUnclaimed, FetchNonce, ReadJob
<1>8. CASE GetProposal
  BY <1>8 DEF GetProposal
<1>9. CASE UNCHANGED vars
  BY <1>9 DEF vars
<1> QED
  BY <1>1, <1>2, <1>3, <1>4, <1>5, <1>6, <1>7, <1>8, <1>9 DEF Next, Serve,
       Environment, Cycle, Pick

\* NoncesDistinct holds in every reachable state, however workers race.
THEOREM NoncesNeverShared == Spec => []NoncesDistinct
<1>1. Init => NonceInv
  BY DEF Init, NonceInv, NoncesDistinct, PreparedLast, Active
<1>2. NonceInv => NoncesDistinct
  BY DEF NonceInv
<1> QED  BY <1>1, <1>2, TypeInit, TypeNext, NonceNext, PTL DEF Spec

\* A nonce the chain has used or its pool holds.
Taken(n) ==
  n < chainNonce \/ \E p \in Proposals : chain[p] = "pool" /\ nonce[p] = n

\* A worker about to sign has read that all nonces before its own are taken,
\* and so they still are if nothing was evicted.
FetchedTaken ==
  evictions = 0 =>
    \A w \in Workers : wpc[w] = "prepare" =>
      \A n \in 0..(pendingNonce[w] - 1) : Taken(n)

\* Without evictions a transaction only leaves the pool to be mined.
TakenKept ==
  evictions' = 0 =>
    /\ evictions = 0
    /\ \A n \in Nat : Taken(n) => Taken(n)'

LEMMA TakenStays ==
  TypeInv /\ StageOK /\ OnChainHasJob /\ [Next]_vars => TakenKept
<1> SUFFICES ASSUME TypeInv, StageOK, OnChainHasJob, [Next]_vars
             PROVE  TakenKept
  OBVIOUS
<1>0. /\ job \in [Proposals -> JobStates]
      /\ nonce \in [Proposals -> Nat]
      /\ chain \in [Proposals -> ChainStates]
      /\ chainNonce \in Nat
      /\ evictions \in Nat
      /\ \A w \in Workers : wpc[w] # "idle" => target[w] \in Proposals
  BY DEF TypeInv, TypeOK, TargetOK
<1> USE <1>0 DEF StageOK, OnChainHasJob, TakenKept, Taken, approvalVars,
        budgetVars, jobVars, workerVars, deadlines, chainVars
<1>1. ASSUME NEW w \in Workers, Prepare(w) PROVE TakenKept
  BY <1>1 DEF Prepare, IsCandidate
<1>2. ASSUME NEW w \in Workers, Send(w) PROVE TakenKept
  BY <1>2 DEF Send
<1>3. ASSUME NEW p \in Proposals, Mine(p) PROVE TakenKept
  BY <1>3 DEF Mine
<1>4. ASSUME NEW p \in Proposals, Arrive(p) PROVE TakenKept
  BY <1>4 DEF Arrive
<1>5. ASSUME NEW p \in Proposals, Evict(p) PROVE TakenKept
  BY <1>5 DEF Evict
<1>6. ASSUME NEW p \in Proposals,
             BeginPropose(p) \/ Propose(p) \/ ApproveProposal(p) \/
             WrongCode(p) \/ ApproveTooLate(p) \/ PeekProposal(p) \/
             PendingDeadline(p) \/ ApprovalDeadline(p)
      PROVE  TakenKept
  BY <1>6 DEF BeginPropose, Propose, ApproveProposal, WrongCode,
       ApproveTooLate, PeekProposal, PendingDeadline, ApprovalDeadline
<1>7. ASSUME NEW w \in Workers,
             Receipt(w) \/ Known(w) \/ MarkSubmitted(w) \/ FinishJob(w) \/
             AbandonJob(w) \/ CutShort(w)
      PROVE  TakenKept
  BY <1>7 DEF Receipt, Known, MarkSubmitted, FinishJob, AbandonJob, CutShort
<1>8. ASSUME NEW w \in Workers, NEW p \in Proposals,
             ExpireUnclaimed(w, p) \/ FetchNonce(w, p) \/ ReadJob(w, p)
      PROVE  TakenKept
  BY <1>8 DEF ExpireUnclaimed, FetchNonce, ReadJob
<1>9. CASE GetProposal
  BY <1>9 DEF GetProposal
<1>10. CASE UNCHANGED vars
  BY <1>10 DEF vars
<1> QED
  BY <1>1, <1>2, <1>3, <1>4, <1>5, <1>6, <1>7, <1>8, <1>9, <1>10 DEF Next,
       Serve, Environment, Cycle, Pick

\* Only fetching the nonce brings a worker to the stage in which it signs.
LEMMA FetchedNext ==
  TypeInv /\ StageOK /\ OnChainHasJob /\ FetchedTaken /\ [Next]_vars
    => FetchedTaken'
<1> SUFFICES ASSUME TypeInv, StageOK, OnChainHasJob, FetchedTaken, [Next]_vars,
                    evictions' = 0, NEW w \in Workers, wpc'[w] = "prepare",
                    NEW n \in 0..(pendingNonce'[w] - 1)
             PROVE  Taken(n)'
  BY DEF FetchedTaken
<1>0. /\ wpc \in [Workers -> WorkerStages]
      /\ pendingNonce \in [Workers -> Nat]
      /\ chainNonce \in Nat
  BY DEF TypeInv, TypeOK
<1>1. /\ evictions = 0
      /\ \A k \in Nat : Taken(k) => Taken(k)'
  BY TakenStays DEF TakenKept
<1>2. CASE wpc[w] = "prepare" /\ pendingNonce'[w] = pendingNonce[w]
  BY <1>0, <1>1, <1>2 DEF FetchedTaken
<1>3. ASSUME NEW p \in Proposals, FetchNonce(w, p) PROVE Taken(n)'
  <2>1. PendingNonce \in Nat /\ pendingNonce'[w] = PendingNonce
    BY <1>0, <1>3, PendingNonceFound DEF FetchNonce
  <2>2. Taken(n)
    BY <1>0, <2>1, PendingNonceFound DEF Taken
  <2>3. n \in Nat
    BY <2>1
  <2> QED  BY <1>1, <2>2, <2>3
<1>4. \/ wpc[w] = "prepare" /\ pendingNonce'[w] = pendingNonce[w]
      \/ \E p \in Proposals : FetchNonce(w, p)
  <2> DEFINE fetched == \E p \in Proposals : FetchNonce(w, p)
             same == wpc[w] = "prepare" /\ pendingNonce'[w] = pendingNonce[w]
  <2> SUFFICES ASSUME ~fetched PROVE same
    OBVIOUS
  <2> USE <1>0 DEF approvalVars, budgetVars, jobVars, workerVars, deadlines,
          chainVars, Goto, Idle
  <2>1. ASSUME NEW v \in Workers, NEW p \in Proposals, FetchNonce(v, p)
        PROVE  same
    BY <2>1 DEF FetchNonce, IsCandidate
  <2>2. ASSUME NEW v \in Workers, NEW p \in Proposals, ReadJob(v, p)
        PROVE  same
    BY <2>2 DEF ReadJob
  <2>3. ASSUME NEW v \in Workers, Prepare(v) PROVE same
    BY <2>3 DEF Prepare, IsCandidate
  <2>4. ASSUME NEW v \in Workers, Receipt(v) PROVE same
    BY <2>4 DEF Receipt
  <2>5. ASSUME NEW v \in Workers, Known(v) PROVE same
    BY <2>5 DEF Known
  <2>6. ASSUME NEW v \in Workers, Send(v) PROVE same
    BY <2>6 DEF Send
  <2>7. ASSUME NEW v \in Workers, MarkSubmitted(v) PROVE same
    BY <2>7 DEF MarkSubmitted, Broadcast, Open
  <2>8. ASSUME NEW v \in Workers, FinishJob(v) PROVE same
    BY <2>8 DEF FinishJob, Outcome, Open, Broadcast
  <2>9. ASSUME NEW v \in Workers, AbandonJob(v) PROVE same
    BY <2>9 DEF AbandonJob, MayAbandon
  <2>10. ASSUME NEW v \in Workers, CutShort(v) PROVE same
    BY <2>10 DEF CutShort
  <2>11. ASSUME NEW p \in Proposals,
                BeginPropose(p) \/ Propose(p) \/ ApproveProposal(p) \/
                WrongCode(p) \/ ApproveTooLate(p) \/ PeekProposal(p) \/
                PendingDeadline(p) \/ ApprovalDeadline(p) \/ Mine(p) \/
                Arrive(p) \/ Evict(p)
         PROVE  same
    BY <2>11 DEF BeginPropose, Propose, ApproveProposal, WrongCode,
         ApproveTooLate, PeekProposal, PendingDeadline, ApprovalDeadline, Mine,
         Arrive, Evict
  <2>12. ASSUME NEW v \in Workers, NEW p \in Proposals,
                ExpireUnclaimed(v, p)
         PROVE  same
    BY <2>12 DEF ExpireUnclaimed
  <2>13. CASE GetProposal
    BY <2>13 DEF GetProposal
  <2>14. CASE UNCHANGED vars
    BY <2>14 DEF vars
  <2> QED
    BY <2>1, <2>2, <2>3, <2>4, <2>5, <2>6, <2>7, <2>8, <2>9, <2>10, <2>11,
         <2>12, <2>13, <2>14 DEF Next, Serve, Environment, Cycle, Pick
<1> QED  BY <1>2, <1>3, <1>4

\* A live job keeps its nonce; an abandoned one gives the last nonce back.
NonceKept ==
  \A p \in Active :
    \/ p \in Active' /\ nonce'[p] = nonce[p]
    \/ nextNonce' = nonce[p]

LEMMA NonceStays ==
  TypeInv /\ NonceInv /\ [Next]_vars => NonceKept
<1> SUFFICES ASSUME TypeInv, NonceInv, [Next]_vars PROVE NonceKept
  OBVIOUS
<1>0. /\ job \in [Proposals -> JobStates]
      /\ nonce \in [Proposals -> Nat]
      /\ nextNonce \in Nat
      /\ \A w \in Workers : wpc[w] # "idle" => target[w] \in Proposals
  BY DEF TypeInv, TypeOK, TargetOK
<1> USE <1>0 DEF NonceInv, NoncesDistinct, PreparedLast, Active, NonceKept,
        approvalVars, budgetVars, jobVars, workerVars, deadlines, chainVars
<1>1. ASSUME NEW w \in Workers, Prepare(w) PROVE NonceKept
  BY <1>1 DEF Prepare, Allocate
<1>2. ASSUME NEW w \in Workers, MarkSubmitted(w) PROVE NonceKept
  BY <1>2 DEF MarkSubmitted, Open
<1>3. ASSUME NEW w \in Workers, FinishJob(w) PROVE NonceKept
  BY <1>3 DEF FinishJob, Outcome, Open
<1>4. ASSUME NEW w \in Workers, AbandonJob(w) PROVE NonceKept
  BY <1>4 DEF AbandonJob, MayAbandon, GivenBack
<1>5. ASSUME NEW p \in Proposals,
             BeginPropose(p) \/ Propose(p) \/ ApproveProposal(p) \/
             WrongCode(p) \/ ApproveTooLate(p) \/ PeekProposal(p) \/
             PendingDeadline(p) \/ ApprovalDeadline(p) \/ Mine(p) \/ Arrive(p)
             \/ Evict(p)
      PROVE  NonceKept
  BY <1>5 DEF BeginPropose, Propose, ApproveProposal, WrongCode,
       ApproveTooLate, PeekProposal, PendingDeadline, ApprovalDeadline, Mine,
       Arrive, Evict
<1>6. ASSUME NEW w \in Workers,
             Receipt(w) \/ Known(w) \/ Send(w) \/ CutShort(w)
      PROVE  NonceKept
  BY <1>6 DEF Receipt, Known, Send, CutShort
<1>7. ASSUME NEW w \in Workers, NEW p \in Proposals,
             ExpireUnclaimed(w, p) \/ FetchNonce(w, p) \/ ReadJob(w, p)
      PROVE  NonceKept
  BY <1>7 DEF ExpireUnclaimed, FetchNonce, ReadJob
<1>8. CASE GetProposal
  BY <1>8 DEF GetProposal
<1>9. CASE UNCHANGED vars
  BY <1>9 DEF vars
<1> QED
  BY <1>1, <1>2, <1>3, <1>4, <1>5, <1>6, <1>7, <1>8, <1>9 DEF Next, Serve,
       Environment, Cycle, Pick

\* The next nonce only moves beyond that of a new job, which a worker chose
\* from what the table and the chain told it.
NonceIssued ==
  \/ nextNonce' <= nextNonce
  \/ \E w \in Workers :
       /\ wpc[w] = "prepare"
       /\ nextNonce' = Allocate(pendingNonce[w]) + 1
       /\ \E p \in Active' : nonce'[p] = Allocate(pendingNonce[w])

LEMMA NonceIsIssued == TypeInv /\ NonceInv /\ [Next]_vars => NonceIssued
<1> SUFFICES ASSUME TypeInv, NonceInv, [Next]_vars PROVE NonceIssued
  OBVIOUS
<1>0. /\ job \in [Proposals -> JobStates]
      /\ nonce \in [Proposals -> Nat]
      /\ nextNonce \in Nat
      /\ pendingNonce \in [Workers -> Nat]
      /\ \A w \in Workers : wpc[w] # "idle" => target[w] \in Proposals
  BY DEF TypeInv, TypeOK, TargetOK
<1> USE <1>0 DEF NonceInv, NoncesDistinct, PreparedLast, Active, NonceIssued,
        approvalVars, budgetVars, jobVars, workerVars, deadlines, chainVars
<1>1. ASSUME NEW w \in Workers, Prepare(w) PROVE NonceIssued
  BY <1>1 DEF Prepare, Allocate
<1>2. ASSUME NEW w \in Workers, AbandonJob(w) PROVE NonceIssued
  BY <1>2 DEF AbandonJob, MayAbandon, GivenBack
<1>3. ASSUME NEW p \in Proposals,
             BeginPropose(p) \/ Propose(p) \/ ApproveProposal(p) \/
             WrongCode(p) \/ ApproveTooLate(p) \/ PeekProposal(p) \/
             PendingDeadline(p) \/ ApprovalDeadline(p) \/ Mine(p) \/ Arrive(p)
             \/ Evict(p)
      PROVE  NonceIssued
  BY <1>3 DEF BeginPropose, Propose, ApproveProposal, WrongCode,
       ApproveTooLate, PeekProposal, PendingDeadline, ApprovalDeadline, Mine,
       Arrive, Evict
<1>4. ASSUME NEW w \in Workers,
             Receipt(w) \/ Known(w) \/ Send(w) \/ MarkSubmitted(w) \/
             FinishJob(w) \/ CutShort(w)
      PROVE  NonceIssued
  BY <1>4 DEF Receipt, Known, Send, MarkSubmitted, FinishJob, CutShort
<1>5. ASSUME NEW w \in Workers, NEW p \in Proposals,
             ExpireUnclaimed(w, p) \/ FetchNonce(w, p) \/ ReadJob(w, p)
      PROVE  NonceIssued
  BY <1>5 DEF ExpireUnclaimed, FetchNonce, ReadJob
<1>6. CASE GetProposal
  BY <1>6 DEF GetProposal
<1>7. CASE UNCHANGED vars
  BY <1>7 DEF vars
<1> QED
  BY <1>1, <1>2, <1>3, <1>4, <1>5, <1>6, <1>7 DEF Next, Serve, Environment,
       Cycle, Pick

\* Every nonce below the next one stays used, taken or that of a live job.
LEMMA NoGapNext ==
  TypeInv /\ StageOK /\ OnChainHasJob /\ NonceInv /\ FetchedTaken
      /\ NoNonceGap /\ [Next]_vars
    => NoNonceGap'
<1> SUFFICES ASSUME TypeInv, StageOK, OnChainHasJob, NonceInv, FetchedTaken,
                    NoNonceGap, [Next]_vars
             PROVE  NoNonceGap'
  OBVIOUS
<1>0. /\ nextNonce \in Nat
      /\ nextNonce' \in Nat
      /\ pendingNonce \in [Workers -> Nat]
  BY TypeNext DEF TypeInv, TypeOK
<1> SUFFICES ASSUME evictions' = 0, NEW n \in Nat, n < nextNonce', ~Taken(n)'
             PROVE  \E p \in Active' : nonce'[p] = n
  BY <1>0 DEF NoNonceGap, Taken, Active
<1>1. evictions = 0 /\ ~Taken(n)
  BY <1>0, TakenStays DEF TakenKept
<1>2. CASE n < nextNonce
  <2>1. PICK p \in Active : nonce[p] = n
    BY <1>0, <1>1, <1>2 DEF NoNonceGap, Taken, Active
  <2>2. NonceKept
    BY NonceStays
  <2>3. nextNonce' # nonce[p]
    BY <1>0, <2>1
  <2> QED  BY <2>1, <2>2, <2>3 DEF NonceKept
<1>3. CASE n >= nextNonce
  <2>1. PICK w \in Workers :
          /\ wpc[w] = "prepare"
          /\ nextNonce' = Allocate(pendingNonce[w]) + 1
          /\ \E p \in Active' : nonce'[p] = Allocate(pendingNonce[w])
    <3>1. NonceIssued
      BY NonceIsIssued
    <3>2. ~(nextNonce' <= nextNonce)
      BY <1>0, <1>3
    <3> QED  BY <3>1, <3>2 DEF NonceIssued
  <2>2. \A k \in 0..(pendingNonce[w] - 1) : Taken(k)
    BY <1>1, <2>1 DEF FetchedTaken
  <2>3. n = Allocate(pendingNonce[w])
    BY <1>0, <1>1, <1>3, <2>1, <2>2 DEF Allocate
  <2> QED  BY <2>1, <2>3
<1> QED  BY <1>0, <1>2, <1>3

\* NoNonceGap holds in every reachable state: as long as the pool has evicted
\* nothing, no sequence of races, late submissions and abandoned jobs leaves a
\* nonce that no transaction will ever use.
THEOREM NoncesWithoutGap == Spec => []NoNonceGap
<1> DEFINE GapInv == FetchedTaken /\ NoNonceGap
<1>1. Init => NonceInv /\ GapInv
  BY DEF Init, NonceInv, NoncesDistinct, PreparedLast, Active, FetchedTaken,
         NoNonceGap
<1>2. TypeInv /\ ApprovedInv /\ NonceInv /\ GapInv /\ [Next]_vars => GapInv'
  BY FetchedNext, NoGapNext DEF ApprovedInv
<1>3. GapInv => NoNonceGap
  OBVIOUS
<1> HIDE DEF GapInv
<1> QED
  BY <1>1, <1>2, <1>3, TypeInit, TypeNext, ApprovedInit, ApprovedNext,
     NonceNext, PTL DEF Spec

-----------------------------------------------------------------------------
(* the daily limit *)

\* A proposal only starts to reserve by its verdict, within the limit.
ReservesByVerdict ==
  \/ Reserved' \subseteq Reserved
  \/ \E p \in evaluating :
       /\ p \notin Reserved
       /\ Reserved' = Reserved \cup {p}
       /\ evaluating' = evaluating \ {p}
       /\ WithinLimit(p)

LEMMA ReservedNext ==
  TypeInv /\ EvaluatedNew /\ [Next]_vars => ReservesByVerdict
<1> SUFFICES ASSUME TypeInv, EvaluatedNew, [Next]_vars PROVE ReservesByVerdict
  OBVIOUS
<1>0. /\ state \in [Proposals -> ProposalStates]
      /\ job \in [Proposals -> JobStates]
      /\ \A w \in Workers : wpc[w] # "idle" => target[w] \in Proposals
      /\ peek # NoPeek => peek.proposal \in Proposals
  BY DEF TypeInv, TypeOK, TargetOK, PeekOK
<1> USE <1>0 DEF EvaluatedNew, ReservesByVerdict, Reserved, Reserving,
        approvalVars, budgetVars, jobVars, workerVars, deadlines, chainVars,
        Expire, Approved
<1>1. ASSUME NEW p \in Proposals, Propose(p) PROVE ReservesByVerdict
  BY <1>1 DEF Propose
<1>2. ASSUME NEW p \in Proposals, ApproveProposal(p) PROVE ReservesByVerdict
  BY <1>2 DEF ApproveProposal
<1>3. ASSUME NEW p \in Proposals, ApproveTooLate(p) PROVE ReservesByVerdict
  BY <1>3 DEF ApproveTooLate
<1>4. CASE GetProposal
  BY <1>4 DEF GetProposal
<1>5. ASSUME NEW w \in Workers, NEW p \in Proposals, ExpireUnclaimed(w, p)
      PROVE  ReservesByVerdict
  BY <1>5 DEF ExpireUnclaimed
<1>6. ASSUME NEW w \in Workers, Prepare(w) PROVE ReservesByVerdict
  BY <1>6 DEF Prepare, IsCandidate
<1>7. ASSUME NEW w \in Workers, MarkSubmitted(w) PROVE ReservesByVerdict
  BY <1>7 DEF MarkSubmitted, Broadcast, Open
<1>8. ASSUME NEW w \in Workers, FinishJob(w) PROVE ReservesByVerdict
  BY <1>8 DEF FinishJob, Outcome, Open, Broadcast
<1>9. ASSUME NEW w \in Workers, AbandonJob(w) PROVE ReservesByVerdict
  BY <1>9 DEF AbandonJob, MayAbandon
<1>10. ASSUME NEW p \in Proposals,
              BeginPropose(p) \/ WrongCode(p) \/ PeekProposal(p) \/
              PendingDeadline(p) \/ ApprovalDeadline(p) \/ Mine(p) \/
              Arrive(p) \/ Evict(p)
       PROVE  ReservesByVerdict
  BY <1>10 DEF BeginPropose, WrongCode, PeekProposal, PendingDeadline,
       ApprovalDeadline, Mine, Arrive, Evict
<1>11. ASSUME NEW w \in Workers,
              Receipt(w) \/ Known(w) \/ Send(w) \/ CutShort(w)
       PROVE  ReservesByVerdict
  BY <1>11 DEF Receipt, Known, Send, CutShort
<1>12. ASSUME NEW w \in Workers, NEW p \in Proposals,
              FetchNonce(w, p) \/ ReadJob(w, p)
       PROVE  ReservesByVerdict
  BY <1>12 DEF FetchNonce, ReadJob
<1>13. CASE UNCHANGED vars
  BY <1>13 DEF vars
<1> QED
  BY <1>1, <1>2, <1>3, <1>4, <1>5, <1>6, <1>7, <1>8, <1>9, <1>10, <1>11,
       <1>12, <1>13 DEF Next, Serve, Environment, Cycle, Pick

\* An evaluation begins alone, with the usage of that moment.
EvaluatesAlone ==
  \A p \in evaluating' :
    \/ p \in evaluating /\ usage'[p] = usage[p]
    \/ /\ evaluating = {}
       /\ evaluating' = {p}
       /\ usage'[p] = Usage
       /\ Reserved' = Reserved

LEMMA EvaluatingNext == TypeInv /\ [Next]_vars => EvaluatesAlone
<1> SUFFICES ASSUME TypeInv, [Next]_vars PROVE EvaluatesAlone
  OBVIOUS
<1>0. /\ usage \in [Proposals -> Nat]
      /\ evaluating \subseteq Proposals
  BY DEF TypeInv, TypeOK
<1> USE <1>0 DEF EvaluatesAlone, approvalVars, budgetVars, jobVars, workerVars,
        deadlines, chainVars
<1>1. ASSUME NEW p \in Proposals, BeginPropose(p) PROVE EvaluatesAlone
  BY <1>1 DEF BeginPropose, BudgetFree, Reserved
<1>2. ASSUME NEW p \in Proposals, Propose(p) PROVE EvaluatesAlone
  BY <1>2 DEF Propose
<1>3. ASSUME NEW p \in Proposals,
             ApproveProposal(p) \/ WrongCode(p) \/ ApproveTooLate(p) \/
             PeekProposal(p) \/ PendingDeadline(p) \/ ApprovalDeadline(p) \/
             Mine(p) \/ Arrive(p) \/ Evict(p)
      PROVE  EvaluatesAlone
  BY <1>3 DEF ApproveProposal, WrongCode, ApproveTooLate, PeekProposal,
       PendingDeadline, ApprovalDeadline, Mine, Arrive, Evict
<1>4. ASSUME NEW w \in Workers,
             Prepare(w) \/ Receipt(w) \/ Known(w) \/ Send(w) \/
             MarkSubmitted(w) \/ FinishJob(w) \/ AbandonJob(w) \/ CutShort(w)
      PROVE  EvaluatesAlone
  BY <1>4 DEF Prepare, Receipt, Known, Send, MarkSubmitted, FinishJob,
       AbandonJob, CutShort
<1>5. ASSUME NEW w \in Workers, NEW p \in Proposals,
             ExpireUnclaimed(w, p) \/ FetchNonce(w, p) \/ ReadJob(w, p)
      PROVE  EvaluatesAlone
  BY <1>5 DEF ExpireUnclaimed, FetchNonce, ReadJob
<1>6. CASE GetProposal
  BY <1>6 DEF GetProposal
<1>7. CASE UNCHANGED vars
  BY <1>7 DEF vars
<1> QED
  BY <1>1, <1>2, <1>3, <1>4, <1>5, <1>6, <1>7 DEF Next, Serve, Environment,
       Cycle, Pick

\* The proposal that is being evaluated, if any, is the only one, and the
\* usage it saw is no less than the usage now.
BudgetInv ==
  /\ \A p, q \in evaluating : p = q
  /\ \A p \in evaluating : Usage <= usage[p]
  /\ DailyLimitHeld

LEMMA BudgetNext ==
  TypeInv /\ EvaluatedNew /\ BudgetInv /\ [Next]_vars => BudgetInv'
<1> SUFFICES ASSUME TypeInv, EvaluatedNew, BudgetInv, [Next]_vars
             PROVE  BudgetInv'
  OBVIOUS
<1>1. /\ usage \in [Proposals -> Nat]
      /\ evaluating \subseteq Proposals
      /\ DailyMax \in Nat
      /\ \A p \in Proposals : Value[p] \in Nat
  BY GuardianAssumption DEF TypeInv, TypeOK
<1>2. Usage \in Nat /\ Usage' \in Nat
  BY UsageCounts
<1>3. EvaluatesAlone
  BY EvaluatingNext
<1>4. CASE Reserved' \subseteq Reserved
  <2>1. Usage' <= Usage
    BY <1>4, UsageFalls
  <2>2. DailyLimitHeld'
    BY <1>1, <1>2, <2>1 DEF BudgetInv, DailyLimitHeld
  <2>3. \A p \in evaluating' : Usage' <= usage'[p]
    BY <1>1, <1>2, <1>3, <2>1 DEF EvaluatesAlone, BudgetInv
  <2>4. \A p, q \in evaluating' : p = q
    BY <1>3 DEF EvaluatesAlone, BudgetInv
  <2> QED  BY <2>2, <2>3, <2>4 DEF BudgetInv
<1>5. ASSUME NEW p \in evaluating,
             p \notin Reserved, Reserved' = Reserved \cup {p},
             evaluating' = evaluating \ {p}, WithinLimit(p)
      PROVE  BudgetInv'
  <2>1. Usage' = Usage + Value[p]
    BY <1>1, <1>5, UsageRises
  <2>2. Usage <= usage[p] /\ usage[p] + Value[p] <= DailyMax
    BY <1>5 DEF BudgetInv, WithinLimit
  <2>3. DailyLimitHeld'
    BY <1>1, <1>2, <2>1, <2>2 DEF DailyLimitHeld
  <2>4. evaluating' = {}
    BY <1>5 DEF BudgetInv
  <2> QED  BY <2>3, <2>4 DEF BudgetInv
<1> QED  BY <1>4, <1>5, ReservedNext DEF ReservesByVerdict

\* DailyLimitHeld holds in every reachable state, for any values and any
\* limit: the advisory lock of propose_transaction is enough, whatever is
\* approved, expires, is broadcast or confirmed meanwhile.
THEOREM LimitNeverExceeded == Spec => []DailyLimitHeld
<1>1. Init => BudgetInv
  <2> SUFFICES ASSUME Init PROVE BudgetInv
    OBVIOUS
  <2>1. Reserved = {}
    BY DEF Init, Reserved, Reserving
  <2>2. Units(Reserved) = {}
    BY <2>1 DEF Units
  <2>3. Usage = 0
    BY <2>2, UsageCounts, FS_EmptySet, Zenon
  <2> QED
    BY <2>3, GuardianAssumption DEF Init, BudgetInv, DailyLimitHeld
<1>2. TypeInv /\ ApprovedInv /\ BudgetInv /\ [Next]_vars => BudgetInv'
  BY BudgetNext DEF ApprovedInv
<1>3. BudgetInv => DailyLimitHeld
  BY DEF BudgetInv
<1> QED
  BY <1>1, <1>2, <1>3, TypeInit, TypeNext, ApprovedInit, ApprovedNext, PTL
  DEF Spec
=============================================================================

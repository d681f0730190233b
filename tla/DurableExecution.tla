-------------------------- MODULE DurableExecution --------------------------
(***************************************************************************)
(* What paper execution promises to its callers and to the consumers of    *)
(* orders.fills, whatever processes, crashes and redeliveries there are:   *)
(* an intent is executed once, its fills reach the bus in their order, and *)
(* whoever asks is answered with that execution, after its last fill is on *)
(* the bus.  PaperExecution implements it.                                 *)
(***************************************************************************)
EXTENDS Naturals, TLAPS

CONSTANTS Intents,
          Sizes      \* how many fills an execution can have

VARIABLES executed,  \* per intent, the number of fills, 0 before
          onBus,     \* per intent, the fills sent to orders.fills
          answers    \* per intent, the numbers of fills callers were told

vars == <<executed, onBus, answers>>

Init ==
  /\ executed = [i \in Intents |-> 0]
  /\ onBus = [i \in Intents |-> {}]
  /\ answers = [i \in Intents |-> {}]

Execute(i) ==
  /\ executed[i] = 0
  /\ \E n \in Sizes : executed' = [executed EXCEPT ![i] = n]
  /\ UNCHANGED <<onBus, answers>>

\* The next fill, or one that was sent before.
Publish(i) ==
  /\ \E n \in 1..executed[i] :
       /\ 1..(n - 1) \subseteq onBus[i]
       /\ onBus' = [onBus EXCEPT ![i] = @ \cup {n}]
  /\ UNCHANGED <<executed, answers>>

Answer(i) ==
  /\ executed[i] # 0
  /\ onBus[i] = 1..executed[i]
  /\ answers' = [answers EXCEPT ![i] = @ \cup {executed[i]}]
  /\ UNCHANGED <<executed, onBus>>

Next == \E i \in Intents : Execute(i) \/ Publish(i) \/ Answer(i)

Spec == Init /\ [][Next]_vars

-----------------------------------------------------------------------------
TypeInv ==
  /\ executed \in [Intents -> Sizes \cup {0}]
  /\ onBus \in [Intents -> SUBSET Nat]
  /\ answers \in [Intents -> SUBSET Sizes]

\* All callers are told of the one execution, and by then it is on the bus
\* completely and nothing else is (flush before the answer).
AnsweredMeansPublished ==
  \A i \in Intents :
    /\ answers[i] \subseteq {executed[i]}
    /\ answers[i] # {} => onBus[i] = 1..executed[i]

Inv ==
  /\ TypeInv
  /\ AnsweredMeansPublished
  /\ \A i \in Intents : onBus[i] \subseteq 1..executed[i]

\* Every behaviour of the promise keeps its answers unique and behind its
\* events: what the callers of execute-paper and the consumers of
\* orders.fills rely on.
THEOREM Promise ==
  ASSUME Sizes \subseteq Nat \ {0}
  PROVE  Spec => []AnsweredMeansPublished
<1>1. Init => Inv
  BY DEF Init, Inv, TypeInv, AnsweredMeansPublished
<1>2. Inv /\ [Next]_vars => Inv'
  <2> SUFFICES ASSUME Inv, [Next]_vars PROVE Inv'
    OBVIOUS
  <2>0. /\ executed \in [Intents -> Nat]
        /\ onBus \in [Intents -> SUBSET Nat]
        /\ \A i \in Intents : onBus[i] \subseteq 1..executed[i]
    <3>1. Sizes \cup {0} \subseteq Nat
      OBVIOUS
    <3> QED  BY <3>1 DEF Inv, TypeInv
  <2>1. ASSUME NEW i \in Intents, Execute(i) PROVE Inv'
    <3>1. onBus[i] = {} /\ answers[i] = {}
      <4>1. 1..executed[i] = {} /\ answers[i] \subseteq {0}
        BY <2>1 DEF Execute, Inv, AnsweredMeansPublished
      <4>2. 0 \notin answers[i]
        BY DEF Inv, TypeInv
      <4> QED  BY <2>0, <4>1, <4>2
    <3> QED
      BY <2>1, <3>1 DEF Execute, Inv, TypeInv, AnsweredMeansPublished
  <2>2. ASSUME NEW i \in Intents, Publish(i) PROVE Inv'
    <3>1. PICK n \in 1..executed[i] : onBus' = [onBus EXCEPT ![i] = @ \cup {n}]
      BY <2>2 DEF Publish
    <3>2. executed' = executed /\ answers' = answers
      BY <2>2 DEF Publish
    <3>3. n \in Nat
      BY <2>0
    <3>4. \A j \in Intents :
            onBus'[j] = IF j = i THEN onBus[j] \cup {n} ELSE onBus[j]
      BY <2>0, <3>1
    <3>5. TypeInv'
      BY <2>0, <3>1, <3>2, <3>3 DEF Inv, TypeInv
    <3>6. \A j \in Intents :
            /\ onBus'[j] \subseteq 1..executed[j]
            /\ onBus[j] = 1..executed[j] => onBus'[j] = 1..executed[j]
      <4>1. n \in 1..executed[i]
        OBVIOUS
      <4> QED  BY <2>0, <3>4, <4>1, Zenon
    <3> QED
      BY <3>2, <3>5, <3>6 DEF Inv, AnsweredMeansPublished
  <2>3. ASSUME NEW i \in Intents, Answer(i) PROVE Inv'
    BY <2>3 DEF Answer, Inv, TypeInv, AnsweredMeansPublished
  <2>4. CASE UNCHANGED vars
    BY <2>4 DEF vars, Inv, TypeInv, AnsweredMeansPublished
  <2> QED  BY <2>1, <2>2, <2>3, <2>4 DEF Next
<1>3. Inv => AnsweredMeansPublished
  BY DEF Inv
<1> QED  BY <1>1, <1>2, <1>3, PTL DEF Spec
=============================================================================

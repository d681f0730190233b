------------------------ MODULE PaperExecutionProofs ------------------------
(* Theorems about PaperExecution, for any number of services, callers,     *)
(* intents and markets and any bounds.                                     *)
EXTENDS PaperExecution, TLAPS

\* What the stage of a process says about the intent it works on: only a
\* service that has just started drains the outbox for nobody.
StageOK ==
  \A p \in Procs :
    /\ pc[p] \in {"preflight", "execute", "insert", "read_position", "upsert",
                  "commit", "reread", "ack"} => job[p] \in Intents
    /\ pc[p] \in {"ready", "ack"} => p \in Services
    /\ pc[p] \in {"down", "ready"} => job[p] = NoIntent
    /\ pc[p] \in {"flush", "send", "mark"} /\ p \notin Services =>
         job[p] \in Intents

TypeInv == TypeOK /\ StageOK

\* Nothing runs and nothing is stored at the start.
LEMMA TypeInit == Init => TypeInv
<1> SUFFICES ASSUME Init PROVE TypeInv
  OBVIOUS
<1> USE PaperAssumption DEF Init
<1>1. TypeOK
  BY DEF TypeOK, Stages, NoPosition, Procs
<1>2. StageOK
  BY DEF StageOK
<1> QED  BY <1>1, <1>2 DEF TypeInv

\* An exiting process leaves a well-typed state and holds no intent.
LEMMA ExitType ==
  ASSUME TypeInv, NEW p \in Procs, Exit(p),
         UNCHANGED <<offset, fetched, rebalances, durable, sent, answers, tradable>>,
         crashes' \in 0..MaxCrashes
  PROVE  TypeInv'
<1> USE PaperAssumption DEF TypeInv, TypeOK, StageOK
<1>1. /\ pc' \in [Procs -> Stages]
      /\ job' \in [Procs -> Intents \cup {NoIntent}]
      /\ ledger' \in [Procs -> [Intents -> 0..MaxFills]]
      /\ result' \in [Procs -> 0..MaxFills]
      /\ seen' \in [Procs -> [Intents -> Nat]]
  BY DEF Exit, Stages, NoPosition
<1>2. /\ todo' \in [Procs -> SUBSET Events]
      /\ sending' \in [Procs -> SUBSET Events]
  BY DEF Exit
<1>3. /\ keyLock' \in [Intents -> Procs \cup {NoProc}]
      /\ rowLock' \in [Markets -> Procs \cup {NoProc}]
      /\ owner' \in Services \cup {NoProc}
  BY DEF Exit
<1>4. TypeOK'
  BY <1>1, <1>2, <1>3 DEF durable
<1>5. StageOK'
  BY DEF Exit
<1> QED  BY <1>4, <1>5

\* Every statement, send, commit and failure keeps the tables well typed and
\* the stages consistent with the intent at hand.
LEMMA TypeNext == TypeInv /\ [Next]_vars => TypeInv'
<1> SUFFICES ASSUME TypeInv, [Next]_vars PROVE TypeInv'
  OBVIOUS
<1> USE PaperAssumption
    DEF TypeInv, TypeOK, StageOK, Stages, Goto, groupVars, durable, locks,
        flushVars
<1>1. ASSUME NEW p \in Procs, Boot(p) PROVE TypeInv'
  BY <1>1 DEF Boot
<1>2. ASSUME NEW p \in Procs, Assign(p) PROVE TypeInv'
  <2>1. StageOK'
    BY <1>2 DEF Assign
  <2>2. /\ rebalances' \in 0..MaxRebalances
        /\ owner' \in Services \cup {NoProc}
        /\ fetched' \in [Services -> 0..Len(Topic)]
    BY <1>2 DEF Assign
  <2>3. TypeOK'
    BY <1>2, <2>2 DEF Assign
  <2> QED  BY <2>1, <2>3
<1>3. ASSUME NEW p \in Procs, Consume(p) PROVE TypeInv'
  <2>1. /\ Len(Topic) \in Nat
        /\ \A k \in 1..Len(Topic) : Topic[k] \in Intents
    BY ONLY PaperAssumption
  <2>2. /\ p \in Services
        /\ fetched[p] \in 0..Len(Topic)
        /\ fetched[p] < Len(Topic)
    BY <1>3 DEF Consume
  <2>3. /\ fetched[p] + 1 \in 0..Len(Topic)
        /\ Topic[fetched[p] + 1] \in Intents
    BY ONLY <2>1, <2>2
  <2>4. /\ fetched' \in [Services -> 0..Len(Topic)]
        /\ job' \in [Procs -> Intents \cup {NoIntent}]
    BY <1>3, <2>2, <2>3 DEF Consume
  <2> QED  BY <1>3, <2>3, <2>4 DEF Consume, OffsetAfterReceive
<1>4. ASSUME NEW p \in Procs, NEW i \in Intents, Request(p, i) PROVE TypeInv'
  BY <1>4 DEF Request
<1>5. ASSUME NEW p \in Procs, Preflight(p) PROVE TypeInv'
  BY <1>5 DEF Preflight
<1>6. ASSUME NEW p \in Procs, Execute(p) PROVE TypeInv'
  <2>0. job[p] \in Intents /\ ledger[p][job[p]] \in 0..MaxFills
    BY <1>6 DEF Execute
  <2>1. PICK n \in 0..MaxFills : ledger' = [ledger EXCEPT ![p][job[p]] = n]
    <3>1. CASE ledger[p][job[p]] # 0
      <4>1. ledger' = [ledger EXCEPT ![p][job[p]] = ledger[p][job[p]]]
        BY ONLY <1>6, <3>1 DEF Execute
      <4> QED  BY ONLY <2>0, <4>1
    <3>2. CASE ledger[p][job[p]] = 0
      <4>1. \E n \in 1..MaxFills : ledger' = [ledger EXCEPT ![p][job[p]] = n]
        BY ONLY <1>6, <3>2 DEF Execute
      <4>2. 1..MaxFills \subseteq 0..MaxFills
        OBVIOUS
      <4> QED  BY ONLY <4>1, <4>2
    <3> QED  BY <3>1, <3>2
  <2>2. ledger' \in [Procs -> [Intents -> 0..MaxFills]]
    BY <1>6, <2>1 DEF Execute
  <2> QED  BY <1>6, <2>2 DEF Execute
<1>7. ASSUME NEW p \in Procs, InsertOrder(p) PROVE TypeInv'
  <2>1. ledger' \in [Procs -> [Intents -> 0..MaxFills]]
    <3>1. ledger' \in {ledger, [ledger EXCEPT ![p][job[p]] = 0]}
      BY ONLY <1>7 DEF InsertOrder, Discard
    <3>2. job[p] \in Intents
      BY <1>7 DEF InsertOrder
    <3>3. [ledger EXCEPT ![p][job[p]] = 0]
            \in [Procs -> [Intents -> 0..MaxFills]]
      BY <3>2
    <3> QED  BY <3>1, <3>3
  <2>2. /\ pc' \in {[pc EXCEPT ![p] = "read_position"],
                    [pc EXCEPT ![p] = "reread"]}
        /\ keyLock' \in {keyLock, [keyLock EXCEPT ![job[p]] = p]}
        /\ job[p] \in Intents
    BY <1>7 DEF InsertOrder
  <2>3. /\ pc' \in [Procs -> Stages]
        /\ keyLock' \in [Intents -> Procs \cup {NoProc}]
    <3>1. /\ [pc EXCEPT ![p] = "read_position"] \in [Procs -> Stages]
          /\ [pc EXCEPT ![p] = "reread"] \in [Procs -> Stages]
      OBVIOUS
    <3>2. [keyLock EXCEPT ![job[p]] = p] \in [Intents -> Procs \cup {NoProc}]
      BY <2>2
    <3>3. keyLock \in [Intents -> Procs \cup {NoProc}]
      OBVIOUS
    <3> QED  BY ONLY <2>2, <3>1, <3>2, <3>3
  <2>4. TypeOK'
    BY <1>7, <2>1, <2>3 DEF InsertOrder
  <2>5. StageOK'
    <3>1. /\ pc[p] = "insert"
          /\ job' = job
          /\ StageOK
          /\ pc \in [Procs -> Stages]
      BY <1>7 DEF InsertOrder
    <3> QED  BY ONLY <2>2, <3>1 DEF StageOK
  <2> QED  BY <2>4, <2>5
<1>8. ASSUME NEW p \in Procs, ReadPosition(p) PROVE TypeInv'
  <2>1. /\ job[p] \in Intents
        /\ MarketOf[job[p]] \in Markets
    BY <1>8 DEF ReadPosition
  <2>2. rowLock' \in {rowLock, [rowLock EXCEPT ![MarketOf[job[p]]] = p]}
    BY <1>8 DEF ReadPosition, LockRow
  <2>3. seen' \in [Procs -> [Intents -> Nat]]
    BY <1>8, <2>1 DEF ReadPosition
  <2>4. rowLock' \in [Markets -> Procs \cup {NoProc}]
    BY <2>1, <2>2
  <2>5. pc' = [pc EXCEPT ![p] = "upsert"] /\ pc[p] = "read_position"
    BY <1>8 DEF ReadPosition
  <2>6. StageOK'
    BY <1>8, <2>1, <2>5 DEF ReadPosition
  <2> QED  BY <1>8, <2>3, <2>4, <2>5, <2>6 DEF ReadPosition
<1>9. ASSUME NEW p \in Procs, UpsertPosition(p) PROVE TypeInv'
  BY <1>9 DEF UpsertPosition
<1>10. ASSUME NEW p \in Procs, Commit(p) PROVE TypeInv'
  <2>1. /\ job[p] \in Intents
        /\ MarketOf[job[p]] \in Markets
        /\ ledger[p][job[p]] \in 0..MaxFills
    BY <1>10 DEF Commit
  <2>2. [seen[p] EXCEPT ![job[p]] = @ + ledger[p][job[p]]] \in [Intents -> Nat]
    BY <2>1
  <2>3. positions' \in [Markets -> [Intents -> Nat]]
    BY <1>10, <2>1, <2>2 DEF Commit
  <2>4. seen' \in [Procs -> [Intents -> Nat]]
    BY <1>10 DEF Commit, NoPosition
  <2> QED  BY <1>10, <2>1, <2>3, <2>4 DEF Commit
<1>11. ASSUME NEW p \in Procs, Reread(p) PROVE TypeInv'
  BY <1>11 DEF Reread, Authoritative
<1>12. ASSUME NEW p \in Procs, Flush(p) PROVE TypeInv'
  <2>1. Pending \subseteq Events
    BY DEF Pending
  <2> QED  BY <1>12, <2>1 DEF Flush
<1>13. ASSUME NEW p \in Procs, Send(p) PROVE TypeInv'
  <2>1. First(todo[p]) \subseteq Events
    BY DEF First
  <2>2. PICK e \in Events :
          /\ sent' = sent \cup {e}
          /\ sending' = [sending EXCEPT ![p] = {e}]
    BY <1>13, <2>1 DEF Send
  <2> QED  BY <1>13, <2>2 DEF Send
<1>14. ASSUME NEW p \in Procs, Mark(p) PROVE TypeInv'
  BY <1>14 DEF Mark, Marked
<1>15. ASSUME NEW p \in Procs, Return(p) PROVE TypeInv'
  <2>1. /\ ledger' \in [Procs -> [Intents -> 0..MaxFills]]
        /\ answers' \in [Intents -> SUBSET (0..MaxFills)]
    BY <1>15 DEF Return, NoPosition
  <2>2. /\ pc[p] = "send"
        /\ pc' = [pc EXCEPT ![p] = IF job[p] = NoIntent THEN "ready"
                                   ELSE IF p \in Services THEN "ack"
                                   ELSE "down"]
        /\ job' = IF p \in Services THEN job ELSE [job EXCEPT ![p] = NoIntent]
        /\ p \in Procs
    BY <1>15 DEF Return
  <2>3. StageOK'
    <3>1. /\ pc \in [Procs -> Stages]
          /\ job \in [Procs -> Intents \cup {NoIntent}]
          /\ StageOK
      OBVIOUS
    <3>2. CASE p \in Services
      BY ONLY <2>2, <3>1, <3>2 DEF StageOK
    <3>3. CASE p \notin Services
      <4>1. job[p] \in Intents /\ NoIntent \notin Intents
        BY ONLY <2>2, <3>1, <3>3, PaperAssumption DEF StageOK
      <4>2. /\ pc' = [pc EXCEPT ![p] = "down"]
            /\ job' = [job EXCEPT ![p] = NoIntent]
        BY ONLY <2>2, <3>3, <4>1
      <4> QED  BY ONLY <2>2, <3>1, <3>3, <4>2 DEF StageOK
    <3> QED  BY <3>2, <3>3
  <2>4. /\ pc' \in [Procs -> Stages]
        /\ job' \in [Procs -> Intents \cup {NoIntent}]
    BY <2>2
  <2>5. /\ result' \in [Procs -> 0..MaxFills]
        /\ UNCHANGED <<groupVars, seen, flushVars, durable, locks, sent,
                       tradable, crashes>>
    BY <1>15 DEF Return
  <2>6. TypeOK'
    <3>1. TypeOK
      OBVIOUS
    <3> QED
      BY ONLY <2>1, <2>4, <2>5, <3>1
         DEF TypeOK, groupVars, flushVars, durable, locks
  <2> QED  BY <2>3, <2>6
<1>16. ASSUME NEW p \in Procs, Ack(p) PROVE TypeInv'
  <2>1. CASE owner = p
    <3>1. p \in Services /\ fetched[p] \in 0..Len(Topic)
      BY <1>16 DEF Ack
    <3> QED  BY <1>16, <2>1, <3>1 DEF Ack, Acked
  <2>2. CASE owner # p
    BY <1>16, <2>2, ExitType DEF Ack
  <2> QED  BY <2>1, <2>2
<1>17. ASSUME NEW p \in Procs, Refuse(p) \/ Crash(p) PROVE TypeInv'
  <2>1. crashes' \in 0..MaxCrashes
    BY <1>17 DEF Refuse, Crash
  <2> QED  BY <1>17, <2>1, ExitType DEF Refuse, Crash
<1>18. CASE UNCHANGED vars
  BY <1>18 DEF vars
<1>19. CASE Requote
  BY <1>19 DEF Requote
<1> QED
  BY ONLY [Next]_vars, <1>1, <1>2, <1>3, <1>4, <1>5, <1>6, <1>7, <1>8, <1>9,
     <1>10, <1>11, <1>12, <1>13, <1>14, <1>15, <1>16, <1>17, <1>18, <1>19
     DEF Next, Work

\* Every reachable state of the paper execution is well typed.
THEOREM TypeCorrect == Spec => []TypeOK
<1>1. TypeInv => TypeOK
  BY DEF TypeInv
<1> QED  BY <1>1, TypeInit, TypeNext, PTL DEF Spec

-----------------------------------------------------------------------------
(* one durable execution *)

\* A process in the transaction has an execution to store and, once its
\* insert succeeded, holds the key of an intent that has none.
WriterOK ==
  \A p \in Procs :
    /\ \/ pc[p] \in {"insert", "read_position", "upsert", "commit"}
       \/ pc[p] = "preflight" /\ p \notin Services
       => ledger[p][job[p]] # 0
    /\ pc[p] \in {"read_position", "upsert", "commit"} =>
         keyLock[job[p]] = p /\ orders[job[p]] = 0

\* Whatever way a process took, what it will answer is the stored execution.
ResultOK ==
  \A p \in Procs :
    /\ pc[p] = "reread" => orders[job[p]] # 0
    /\ pc[p] \in {"flush", "send", "mark"} /\ job[p] # NoIntent =>
         orders[job[p]] # 0 /\ result[p] = orders[job[p]]

DurableInv == TypeInv /\ WriterOK /\ ResultOK

\* No process has work at the start.
LEMMA DurableInit == Init => DurableInv
BY TypeInit DEF Init, DurableInv, WriterOK, ResultOK

\* An exiting process takes only its own key and its own work with it.
LEMMA ExitDurable ==
  ASSUME DurableInv, NEW p \in Procs, Exit(p), UNCHANGED orders
  PROVE  WriterOK' /\ ResultOK'
BY PaperAssumption
   DEF DurableInv, TypeInv, TypeOK, StageOK, WriterOK, ResultOK, Exit

\* The key lock and the check of the insert make the execution unique, and
\* every way to an answer reads it.
LEMMA DurableNext == DurableInv /\ [Next]_vars => DurableInv'
<1> SUFFICES ASSUME DurableInv, [Next]_vars PROVE DurableInv'
  OBVIOUS
<1>0. TypeInv /\ TypeInv' /\ WriterOK /\ ResultOK
  BY TypeNext DEF DurableInv
<1> DEFINE Parts == WriterOK /\ ResultOK
<1>T. /\ pc \in [Procs -> Stages]
      /\ job \in [Procs -> Intents \cup {NoIntent}]
      /\ ledger \in [Procs -> [Intents -> 0..MaxFills]]
      /\ result \in [Procs -> 0..MaxFills]
      /\ orders \in [Intents -> 0..MaxFills]
      /\ keyLock \in [Intents -> Procs \cup {NoProc}]
      /\ NoProc \notin Procs
      /\ NoIntent \notin Intents
      /\ StageOK
  BY <1>0, PaperAssumption DEF TypeInv, TypeOK
<1> USE DEF Goto, groupVars, durable, locks, flushVars
<1>1. ASSUME NEW p \in Procs, Boot(p) PROVE Parts'
  <2>1. job[p] = NoIntent
    BY <1>1, <1>T DEF Boot, StageOK
  <2> QED  BY <1>0, <1>T, <1>1, <2>1 DEF Boot, WriterOK, ResultOK, StageOK
<1>2. ASSUME NEW p \in Procs, Assign(p) PROVE Parts'
  BY <1>0, <1>T, <1>2 DEF Assign, WriterOK, ResultOK, StageOK
<1>3. ASSUME NEW p \in Procs, Consume(p) PROVE Parts'
  BY <1>0, <1>T, <1>3 DEF Consume, WriterOK, ResultOK, StageOK
<1>4. ASSUME NEW p \in Procs, NEW i \in Intents, Request(p, i) PROVE Parts'
  BY <1>0, <1>T, <1>4 DEF Request, WriterOK, ResultOK, StageOK
<1>5. ASSUME NEW p \in Procs, Preflight(p) PROVE Parts'
  BY <1>0, <1>T, <1>5 DEF Preflight, WriterOK, ResultOK, StageOK
<1>6. ASSUME NEW p \in Procs, Execute(p) PROVE Parts'
  BY <1>0, <1>T, <1>6 DEF Execute, WriterOK, ResultOK, StageOK
<1>7. ASSUME NEW p \in Procs, InsertOrder(p) PROVE Parts'
  BY <1>0, <1>T, <1>7 DEF InsertOrder, IsFirst, Discard, WriterOK, ResultOK,
                          StageOK
<1>8. ASSUME NEW p \in Procs, ReadPosition(p) PROVE Parts'
  BY <1>0, <1>T, <1>8 DEF ReadPosition, WriterOK, ResultOK, StageOK
<1>9. ASSUME NEW p \in Procs, UpsertPosition(p) PROVE Parts'
  BY <1>0, <1>T, <1>9 DEF UpsertPosition, WriterOK, ResultOK, StageOK
<1>10. ASSUME NEW p \in Procs, Commit(p) PROVE Parts'
  BY <1>0, <1>T, <1>10 DEF Commit, WriterOK, ResultOK, StageOK
<1>11. ASSUME NEW p \in Procs, Reread(p) PROVE Parts'
  BY <1>0, <1>T, <1>11 DEF Reread, Authoritative, WriterOK, ResultOK, StageOK
<1>12. ASSUME NEW p \in Procs, Flush(p) PROVE Parts'
  BY <1>0, <1>T, <1>12 DEF Flush, WriterOK, ResultOK, StageOK
<1>13. ASSUME NEW p \in Procs, Send(p) PROVE Parts'
  BY <1>0, <1>T, <1>13 DEF Send, WriterOK, ResultOK, StageOK
<1>14. ASSUME NEW p \in Procs, Mark(p) PROVE Parts'
  BY <1>0, <1>T, <1>14 DEF Mark, WriterOK, ResultOK, StageOK
<1>15. ASSUME NEW p \in Procs, Return(p) PROVE Parts'
  BY <1>0, <1>T, <1>15 DEF Return, WriterOK, ResultOK, StageOK
<1>16. ASSUME NEW p \in Procs, Ack(p) PROVE Parts'
  <2>1. CASE owner = p
    <3>1. /\ pc' = [pc EXCEPT ![p] = "ready"]
          /\ job' = [job EXCEPT ![p] = NoIntent]
          /\ UNCHANGED <<ledger, result, orders, keyLock>>
          /\ p \in Services
      BY <1>T, <1>16, <2>1 DEF Ack, StageOK
    <3> QED  BY <1>0, <1>T, <3>1 DEF WriterOK, ResultOK
  <2>2. CASE owner # p
    BY <1>16, <2>2, ExitDurable DEF Ack
  <2> QED  BY <2>1, <2>2
<1>17. ASSUME NEW p \in Procs, Refuse(p) \/ Crash(p) PROVE Parts'
  BY <1>17, ExitDurable DEF Refuse, Crash
<1>18. ASSUME UNCHANGED vars PROVE Parts'
  BY <1>0, <1>18 DEF vars, WriterOK, ResultOK
<1>19. ASSUME Requote PROVE Parts'
  BY <1>0, <1>19 DEF Requote, WriterOK, ResultOK
<1> HIDE DEF Parts
<1>20. Parts'
  BY ONLY [Next]_vars, <1>1, <1>2, <1>3, <1>4, <1>5, <1>6, <1>7, <1>8, <1>9,
     <1>10, <1>11, <1>12, <1>13, <1>14, <1>15, <1>16, <1>17, <1>18, <1>19
     DEF Next, Work
<1> QED  BY <1>0, <1>20 DEF Parts, DurableInv

-----------------------------------------------------------------------------
(* the outbox *)

\* The earlier fills of the same execution.
Before(e) == {d \in Events : d[1] = e[1] /\ d[2] < e[2]}

\* Only committed fills are sent, in their order, and only sent ones marked.
SentOK ==
  /\ published \subseteq sent
  /\ \A e \in sent : e[2] <= orders[e[1]] /\ Before(e) \subseteq sent

\* What a flush read is committed, and what it did not read was sent already:
\* the fills its caller waits for, and those ahead of one it will send.
FlushOK ==
  \A p \in Procs :
    /\ sending[p] \subseteq sent
    /\ pc[p] \in {"send", "mark"} =>
         /\ \A e \in todo[p] : /\ e[2] <= orders[e[1]]
                               /\ Before(e) \subseteq todo[p] \cup sent
         /\ job[p] \in Intents =>
              \A n \in 1..orders[job[p]] : <<job[p], n>> \in todo[p] \cup sent

OutboxInv == DurableInv /\ SentOK /\ FlushOK

\* Nothing is stored, sent or read at the start.
LEMMA OutboxInit == Init => OutboxInv
BY DurableInit DEF Init, OutboxInv, SentOK, FlushOK

\* A step that neither commits nor sends, and changes what one process is
\* about at most by forgetting it, keeps the outbox as it was.
LEMMA OutboxKept ==
  ASSUME OutboxInv, NEW p \in Procs,
         UNCHANGED <<orders, published, sent>>,
         \A q \in Procs \ {p} : /\ pc'[q] = pc[q]
                                /\ job'[q] = job[q]
                                /\ todo'[q] = todo[q]
                                /\ sending'[q] = sending[q],
         pc'[p] \notin {"send", "mark"},
         sending'[p] \subseteq sending[p]
  PROVE  SentOK' /\ FlushOK'
<1>1. SentOK'
  BY DEF OutboxInv, SentOK, Before
<1>2. ASSUME NEW q \in Procs
      PROVE  /\ sending'[q] \subseteq sent'
             /\ pc'[q] \in {"send", "mark"} =>
                  /\ \A e \in todo'[q] :
                       /\ e[2] <= orders'[e[1]]
                       /\ Before(e) \subseteq todo'[q] \cup sent'
                  /\ job'[q] \in Intents =>
                       \A n \in 1..orders'[job'[q]] :
                         <<job'[q], n>> \in todo'[q] \cup sent'
  <2>1. CASE q = p
    BY <2>1 DEF OutboxInv, FlushOK
  <2>2. CASE q # p
    BY <2>2 DEF OutboxInv, FlushOK
  <2> QED  BY <2>1, <2>2
<1>3. FlushOK'
  BY <1>2 DEF FlushOK, Before
<1> QED  BY <1>1, <1>3

\* A commit writes the rows of an intent that had none, so it changes nothing
\* about any fill that was sent or read before; a send takes the first of the
\* fills a flush read.
LEMMA OutboxNext == OutboxInv /\ [Next]_vars => OutboxInv'
<1> SUFFICES ASSUME OutboxInv, [Next]_vars PROVE OutboxInv'
  OBVIOUS
<1>0. DurableInv /\ DurableInv' /\ SentOK /\ FlushOK
  BY DurableNext DEF OutboxInv
<1> DEFINE Parts == SentOK /\ FlushOK
<1>T. /\ pc \in [Procs -> Stages]
      /\ job \in [Procs -> Intents \cup {NoIntent}]
      /\ ledger \in [Procs -> [Intents -> 0..MaxFills]]
      /\ orders \in [Intents -> 0..MaxFills]
      /\ todo \in [Procs -> SUBSET Events]
      /\ sending \in [Procs -> SUBSET Events]
      /\ sent \subseteq Events
      /\ MaxFills \in Nat
      /\ NoIntent \notin Intents
      /\ StageOK /\ WriterOK /\ ResultOK
  BY <1>0, PaperAssumption DEF DurableInv, TypeInv, TypeOK
<1> USE DEF Goto, groupVars, durable, locks, flushVars
<1>1. ASSUME NEW p \in Procs, Boot(p) PROVE Parts'
  BY <1>T, <1>1, OutboxKept DEF Boot
<1>2. ASSUME NEW p \in Procs, Assign(p) PROVE Parts'
  BY <1>T, <1>2, OutboxKept DEF Assign
<1>3. ASSUME NEW p \in Procs, Consume(p) PROVE Parts'
  BY <1>T, <1>3, OutboxKept DEF Consume
<1>4. ASSUME NEW p \in Procs, NEW i \in Intents, Request(p, i) PROVE Parts'
  BY <1>T, <1>4, OutboxKept DEF Request
<1>5. ASSUME NEW p \in Procs, Preflight(p) PROVE Parts'
  BY <1>T, <1>5, OutboxKept DEF Preflight
<1>6. ASSUME NEW p \in Procs, Execute(p) PROVE Parts'
  BY <1>T, <1>6, OutboxKept DEF Execute
<1>7. ASSUME NEW p \in Procs, InsertOrder(p) PROVE Parts'
  BY <1>T, <1>7, OutboxKept DEF InsertOrder
<1>8. ASSUME NEW p \in Procs, ReadPosition(p) PROVE Parts'
  BY <1>T, <1>8, OutboxKept DEF ReadPosition
<1>9. ASSUME NEW p \in Procs, UpsertPosition(p) PROVE Parts'
  BY <1>T, <1>9, OutboxKept DEF UpsertPosition
<1>10. ASSUME NEW p \in Procs, Commit(p) PROVE Parts'
  <2>1. /\ job[p] \in Intents
        /\ orders[job[p]] = 0
        /\ orders' = [orders EXCEPT ![job[p]] = ledger[p][job[p]]]
        /\ pc[p] = "commit"
        /\ pc' = [pc EXCEPT ![p] = "flush"]
        /\ UNCHANGED <<job, todo, sending, published, sent>>
    BY <1>T, <1>10 DEF Commit, StageOK, WriterOK
  <2>2. \A e \in Events : e[1] \in Intents /\ e[2] \in 1..MaxFills
    BY DEF Events
  <2>3. \A e \in Events : e[2] <= orders[e[1]] => orders'[e[1]] = orders[e[1]]
    BY <1>T, <2>1, <2>2
  <2>4. SentOK'
    BY <1>0, <1>T, <2>1, <2>3 DEF SentOK, Before
  <2>5. ASSUME NEW q \in Procs, pc'[q] \in {"send", "mark"}
        PROVE  /\ \A e \in todo[q] : /\ e[2] <= orders'[e[1]]
                                     /\ Before(e) \subseteq todo[q] \cup sent
               /\ job[q] \in Intents =>
                    \A n \in 1..orders'[job[q]] :
                      <<job[q], n>> \in todo[q] \cup sent
    <3>1. q # p /\ pc[q] \in {"send", "mark"}
      BY <1>T, <2>1, <2>5
    <3>2. job[q] \in Intents => orders[job[q]] # 0
      BY <1>T, <3>1 DEF ResultOK
    <3>3. job[q] \in Intents => orders'[job[q]] = orders[job[q]]
      BY <1>T, <2>1, <3>2
    <3>4. \A e \in todo[q] : e \in Events
      BY <1>T
    <3> QED  BY <1>0, <2>3, <3>1, <3>3, <3>4 DEF FlushOK
  <2>6. FlushOK'
    BY <1>0, <2>1, <2>5 DEF FlushOK, Before
  <2> QED  BY <2>4, <2>6
<1>11. ASSUME NEW p \in Procs, Reread(p) PROVE Parts'
  BY <1>T, <1>11, OutboxKept DEF Reread
<1>12. ASSUME NEW p \in Procs, Flush(p) PROVE Parts'
  <2>1. /\ pc' = [pc EXCEPT ![p] = "send"]
        /\ todo' = [todo EXCEPT ![p] = Pending]
        /\ UNCHANGED <<job, sending, orders, published, sent>>
    BY <1>12 DEF Flush
  <2>2. SentOK'
    BY <1>0, <2>1 DEF SentOK, Before
  <2>3. /\ \A e \in Pending : /\ e[2] <= orders[e[1]]
                              /\ Before(e) \subseteq Pending \cup sent
        /\ job[p] \in Intents =>
             \A n \in 1..orders[job[p]] : <<job[p], n>> \in Pending \cup sent
    <3>1. \A e \in Events : e[2] <= orders[e[1]] => e \in Pending \cup sent
      BY <1>0 DEF Pending, SentOK
    <3>2. \A e \in Pending : e \in Events /\ e[2] <= orders[e[1]]
      BY DEF Pending
    <3>3. \A e \in Pending : Before(e) \subseteq Pending \cup sent
      BY <1>T, <3>1, <3>2 DEF Before, Events
    <3>4. job[p] \in Intents =>
            \A n \in 1..orders[job[p]] : <<job[p], n>> \in Pending \cup sent
      BY <1>T, <3>1 DEF Events
    <3> QED  BY <3>2, <3>3, <3>4
  <2>4. FlushOK'
    BY <1>0, <1>T, <2>1, <2>3 DEF FlushOK, Before
  <2> QED  BY <2>2, <2>4
<1>13. ASSUME NEW p \in Procs, Send(p) PROVE Parts'
  <2>1. PICK e \in First(todo[p]) :
          /\ sent' = sent \cup {e}
          /\ sending' = [sending EXCEPT ![p] = {e}]
    BY <1>13 DEF Send
  <2>2. /\ pc[p] = "send"
        /\ pc' = [pc EXCEPT ![p] = "mark"]
        /\ UNCHANGED <<job, todo, orders, published>>
    BY <1>13 DEF Send
  <2>3. /\ e \in todo[p]
        /\ \A f \in todo[p] : f[1] = e[1] => e[2] <= f[2]
        /\ e \in Events
        /\ e[2] <= orders[e[1]]
        /\ Before(e) \subseteq todo[p] \cup sent
    BY <1>0, <1>T, <2>1, <2>2 DEF First, FlushOK
  <2>4. Before(e) \subseteq sent
    BY <2>3 DEF Before, Events
  <2>5. SentOK'
    BY <1>0, <2>1, <2>2, <2>3, <2>4 DEF SentOK, Before
  <2>6. FlushOK'
    BY <1>0, <1>T, <2>1, <2>2 DEF FlushOK, Before
  <2> QED  BY <2>5, <2>6
<1>14. ASSUME NEW p \in Procs, Mark(p) PROVE Parts'
  <2>1. /\ pc[p] = "mark"
        /\ pc' = [pc EXCEPT ![p] = "send"]
        /\ published' = published \cup sending[p]
        /\ todo' = [todo EXCEPT ![p] = @ \ sending[p]]
        /\ sending' = [sending EXCEPT ![p] = {}]
        /\ sending[p] \subseteq sent
        /\ UNCHANGED <<job, orders, sent>>
    BY <1>0, <1>14 DEF Mark, Marked, FlushOK
  <2>2. SentOK'
    BY <1>0, <2>1 DEF SentOK, Before
  <2>3. FlushOK'
    BY <1>0, <1>T, <2>1 DEF FlushOK, Before
  <2> QED  BY <2>2, <2>3
<1>15. ASSUME NEW p \in Procs, Return(p) PROVE Parts'
  <2>1. pc'[p] \in {"ready", "ack", "down"}
    BY <1>T, <1>15 DEF Return
  <2> QED  BY <1>T, <1>15, <2>1, OutboxKept DEF Return
<1>16. ASSUME NEW p \in Procs, Ack(p) PROVE Parts'
  <2>1. CASE owner = p
    BY <1>T, <1>16, <2>1, OutboxKept DEF Ack
  <2>2. CASE owner # p
    BY <1>T, <1>16, <2>2, OutboxKept DEF Ack, Exit
  <2> QED  BY <2>1, <2>2
<1>17. ASSUME NEW p \in Procs, Refuse(p) \/ Crash(p) PROVE Parts'
  BY <1>T, <1>17, OutboxKept DEF Refuse, Crash, Exit
<1>18. ASSUME UNCHANGED vars PROVE Parts'
  BY <1>0, <1>18 DEF vars, SentOK, FlushOK, Before
<1>19. ASSUME Requote PROVE Parts'
  BY <1>0, <1>19 DEF Requote, SentOK, FlushOK, Before
<1> HIDE DEF Parts
<1>20. Parts'
  BY ONLY [Next]_vars, <1>1, <1>2, <1>3, <1>4, <1>5, <1>6, <1>7, <1>8, <1>9,
     <1>10, <1>11, <1>12, <1>13, <1>14, <1>15, <1>16, <1>17, <1>18, <1>19
     DEF Next, Work
<1> QED  BY <1>0, <1>20 DEF Parts, OutboxInv

\* Whatever crashes between a send and its mark, an event marked published
\* was sent, and only fills that are committed are ever sent.
THEOREM OutboxSoundAlways == Spec => []OutboxSound
<1>1. OutboxInv => OutboxSound
  BY DEF OutboxInv, SentOK, OutboxSound
<1> QED  BY <1>1, OutboxInit, OutboxNext, PTL DEF Spec

-----------------------------------------------------------------------------
(* the promise *)

\* The fills of an intent on the bus, as the promise sees them.
OnBus == [i \in Intents |-> {n \in 1..MaxFills : <<i, n>> \in sent}]

LEMMA RefinesInit == Init => Durable!Init
BY DEF Init, Durable!Init

\* A commit is the execution, a send is the publication, a return to a caller
\* is the answer; the promise does not see any other step.
LEMMA RefinesNext ==
  OutboxInv /\ [Next]_vars => [Durable!Next]_Durable!vars
<1> SUFFICES ASSUME OutboxInv, [Next]_vars
             PROVE  [Durable!Next]_Durable!vars
  OBVIOUS
<1> DEFINE Step == [Durable!Next]_Durable!vars
<1>T. /\ job \in [Procs -> Intents \cup {NoIntent}]
      /\ ledger \in [Procs -> [Intents -> 0..MaxFills]]
      /\ orders \in [Intents -> 0..MaxFills]
      /\ todo \in [Procs -> SUBSET Events]
      /\ sent \subseteq Events
      /\ answers \in [Intents -> SUBSET (0..MaxFills)]
      /\ MaxFills \in Nat
      /\ NoIntent \notin Intents
      /\ StageOK /\ WriterOK /\ ResultOK /\ SentOK /\ FlushOK
  BY PaperAssumption DEF OutboxInv, DurableInv, TypeInv, TypeOK
<1>S. UNCHANGED <<orders, sent, answers>> => Step
  BY DEF Durable!vars
<1>1. ASSUME NEW p \in Procs, Commit(p) PROVE Step
  <2>1. /\ job[p] \in Intents
        /\ orders[job[p]] = 0
        /\ orders' = [orders EXCEPT ![job[p]] = ledger[p][job[p]]]
        /\ ledger[p][job[p]] \in 1..MaxFills
        /\ UNCHANGED <<sent, answers>>
    BY <1>T, <1>1 DEF Commit, StageOK, WriterOK
  <2>2. Durable!Execute(job[p])
    BY <2>1 DEF Durable!Execute
  <2> QED  BY <2>1, <2>2 DEF Durable!Next
<1>2. ASSUME NEW p \in Procs, Send(p) PROVE Step
  <2>1. PICK e \in First(todo[p]) : sent' = sent \cup {e}
    BY <1>2 DEF Send
  <2>2. /\ pc[p] = "send"
        /\ UNCHANGED <<orders, answers>>
    BY <1>2 DEF Send, durable
  <2>3. /\ e \in todo[p]
        /\ \A f \in todo[p] : f[1] = e[1] => e[2] <= f[2]
        /\ e[2] <= orders[e[1]]
        /\ Before(e) \subseteq todo[p] \cup sent
    BY <1>T, <2>1, <2>2 DEF First, FlushOK
  <2>4. PICK i \in Intents, n \in 1..MaxFills : e = <<i, n>>
    BY <1>T, <2>3 DEF Events
  <2>5. n \in 1..orders[i]
    BY <1>T, <2>3, <2>4
  <2>6. \A m \in 1..(n - 1) : m \in 1..MaxFills /\ <<i, m>> \in sent
    <3>1. TAKE m \in 1..(n - 1)
    <3>2. m \in 1..MaxFills /\ <<i, m>> \in Events /\ m < n
      BY <1>T DEF Events
    <3>3. <<i, m>> \in todo[p] \cup sent
      BY <2>3, <2>4, <3>2 DEF Before
    <3>4. <<i, m>> \notin todo[p]
      BY <1>T, <2>3, <2>4, <3>2
    <3> QED  BY <3>2, <3>3, <3>4
  <2>7. 1..(n - 1) \subseteq OnBus[i]
    BY <2>6 DEF OnBus
  <2>8. OnBus' = [OnBus EXCEPT ![i] = @ \cup {n}]
    BY <2>1, <2>4 DEF OnBus
  <2>9. Durable!Publish(i)
    BY <2>2, <2>5, <2>7, <2>8 DEF Durable!Publish, OnBus
  <2> QED  BY <2>9 DEF Durable!Next
<1>3. ASSUME NEW p \in Procs, Return(p) PROVE Step
  <2>1. CASE job[p] = NoIntent
    BY <1>3, <1>S, <2>1 DEF Return, durable
  <2>2. CASE job[p] # NoIntent
    <3> DEFINE i == job[p]
    <3>1. /\ i \in Intents
          /\ pc[p] = "send"
          /\ todo[p] = {}
          /\ answers' = [answers EXCEPT ![i] = @ \cup {result[p]}]
          /\ UNCHANGED <<orders, sent>>
      BY <1>T, <1>3, <2>2 DEF Return, durable
    <3>2. orders[i] # 0 /\ result[p] = orders[i]
      BY <1>T, <2>2, <3>1 DEF ResultOK
    <3>3. \A n \in 1..orders[i] : n \in 1..MaxFills /\ <<i, n>> \in sent
      BY <1>T, <3>1 DEF FlushOK
    <3>4. \A n \in 1..MaxFills : <<i, n>> \in sent => n \in 1..orders[i]
      BY <1>T, <3>1 DEF SentOK
    <3>5. OnBus[i] = 1..orders[i]
      BY <3>1, <3>3, <3>4 DEF OnBus
    <3>6. Durable!Answer(i)
      BY <3>1, <3>2, <3>5 DEF Durable!Answer, OnBus
    <3> QED  BY <3>1, <3>6 DEF Durable!Next
  <2> QED  BY <2>1, <2>2
<1>4. ASSUME NEW p \in Procs,
             \/ Boot(p) \/ Assign(p) \/ Consume(p) \/ Preflight(p)
             \/ Execute(p) \/ InsertOrder(p) \/ ReadPosition(p)
             \/ UpsertPosition(p) \/ Reread(p) \/ Flush(p) \/ Mark(p)
             \/ Ack(p) \/ Refuse(p) \/ Crash(p) \/ \E i \in Intents : Request(p, i)
      PROVE  UNCHANGED <<orders, sent, answers>>
  BY <1>4 DEF durable, Boot, Assign, Consume, Preflight, Execute, InsertOrder,
              ReadPosition, UpsertPosition, Reread, Flush, Mark, Ack, Refuse, Crash,
              Request
<1>5. Requote \/ UNCHANGED vars => UNCHANGED <<orders, sent, answers>>
  BY DEF Requote, vars, durable
<1> HIDE DEF Step
<1>6. Step
  BY ONLY [Next]_vars, <1>S, <1>1, <1>2, <1>3, <1>4, <1>5 DEF Next, Work
<1> QED  BY <1>6 DEF Step

\* Services and execute-paper processes, crashes and rebalances together look
\* like one executor that executes an intent once, sends its fills in order
\* and answers with them when all are on the bus.
THEOREM Refinement == Spec => ImplementsDurableExecution
BY RefinesInit, RefinesNext, OutboxInit, OutboxNext, PTL
   DEF Spec, ImplementsDurableExecution, Durable!Spec

\* So whoever asked about an intent, of whichever process and as often as
\* they like, got the number of fills that were stored for it.
THEOREM OneAnswer == Spec => []Durable!AnsweredMeansPublished
<1>1. 1..MaxFills \subseteq Nat \ {0}
  BY PaperAssumption
<1>2. Durable!Spec => []Durable!AnsweredMeansPublished
  BY <1>1, Durable!Promise
<1> QED  BY <1>2, Refinement DEF ImplementsDurableExecution

-----------------------------------------------------------------------------
(* the ledgers and the positions *)

\* Nothing changes a stored execution.
LEMMA StoredStays ==
  DurableInv /\ [Next]_vars =>
    \A i \in Intents : orders[i] # 0 => orders'[i] = orders[i]
<1> SUFFICES ASSUME DurableInv, [Next]_vars, NEW i \in Intents, orders[i] # 0
             PROVE  orders'[i] = orders[i]
  OBVIOUS
<1>1. ASSUME NEW p \in Procs, Commit(p) PROVE orders'[i] = orders[i]
  BY <1>1 DEF Commit, DurableInv, WriterOK, TypeInv, TypeOK
<1>2. ASSUME NEW p \in Procs,
             \/ Boot(p) \/ Assign(p) \/ Consume(p) \/ Preflight(p)
             \/ Execute(p) \/ InsertOrder(p) \/ ReadPosition(p)
             \/ UpsertPosition(p) \/ Reread(p) \/ Flush(p) \/ Send(p)
             \/ Mark(p) \/ Return(p) \/ Ack(p) \/ Refuse(p) \/ Crash(p)
             \/ \E j \in Intents : Request(p, j)
      PROVE  orders'[i] = orders[i]
  BY <1>2 DEF durable, Boot, Assign, Consume, Preflight, Execute, InsertOrder,
              ReadPosition, UpsertPosition, Reread, Flush, Send, Mark, Return,
              Ack, Refuse, Crash, Request
<1>3. Requote \/ UNCHANGED vars => orders'[i] = orders[i]
  BY DEF Requote, vars, durable
<1> QED
  BY ONLY [Next]_vars, <1>1, <1>2, <1>3 DEF Next, Work

\* Except for the execution it is about to store, a service knows of none
\* that is not stored.
LedgerOK ==
  \A p \in Services, i \in Intents :
    \/ ledger[p][i] \in {0, orders[i]}
    \/ job[p] = i /\ pc[p] \in {"insert", "read_position", "upsert", "commit"}

LedgerInv == DurableInv /\ LedgerOK

\* The discard of the loser is what keeps the ledger in step.
LEMMA LedgerNext == LedgerInv /\ [Next]_vars => LedgerInv'
<1> SUFFICES ASSUME LedgerInv, [Next]_vars PROVE LedgerInv'
  OBVIOUS
<1>0. DurableInv /\ DurableInv' /\ LedgerOK
  BY DurableNext DEF LedgerInv
<1>S. \A i \in Intents : orders[i] # 0 => orders'[i] = orders[i]
  BY <1>0, StoredStays
<1>T. /\ pc \in [Procs -> Stages]
      /\ job \in [Procs -> Intents \cup {NoIntent}]
      /\ ledger \in [Procs -> [Intents -> 0..MaxFills]]
      /\ orders \in [Intents -> 0..MaxFills]
      /\ Services \subseteq Procs
      /\ StageOK /\ WriterOK
  BY <1>0 DEF DurableInv, TypeInv, TypeOK, Procs
<1> USE DEF Goto, groupVars, durable, locks, flushVars
<1>1. ASSUME NEW p \in Procs, Boot(p) PROVE LedgerOK'
  BY <1>0, <1>S, <1>T, <1>1
     DEF Boot, NoPosition, LedgerOK, StageOK
<1>2. ASSUME NEW p \in Procs, Assign(p) PROVE LedgerOK'
  BY <1>0, <1>S, <1>T, <1>2
     DEF Assign, NoPosition, LedgerOK, StageOK
<1>3. ASSUME NEW p \in Procs, Consume(p) PROVE LedgerOK'
  BY <1>0, <1>S, <1>T, <1>3
     DEF Consume, OffsetAfterReceive, NoPosition, LedgerOK, StageOK
<1>4. ASSUME NEW p \in Procs, NEW i \in Intents, Request(p, i) PROVE LedgerOK'
  BY <1>0, <1>S, <1>T, <1>4
     DEF Request, NoPosition, LedgerOK, StageOK
<1>5. ASSUME NEW p \in Procs, Preflight(p) PROVE LedgerOK'
  BY <1>0, <1>S, <1>T, <1>5
     DEF Preflight, NoPosition, LedgerOK, StageOK
<1>6. ASSUME NEW p \in Procs, Execute(p) PROVE LedgerOK'
  BY <1>0, <1>S, <1>T, <1>6
     DEF Execute, NoPosition, LedgerOK, StageOK
<1>7. ASSUME NEW p \in Procs, InsertOrder(p) PROVE LedgerOK'
  <2>1. /\ pc[p] = "insert"
        /\ job[p] \in Intents
        /\ UNCHANGED <<job, orders>>
    BY <1>T, <1>7 DEF InsertOrder, StageOK
  <2>2. CASE pc' = [pc EXCEPT ![p] = "read_position"] /\ ledger' = ledger
    BY <1>0, <1>T, <2>1, <2>2 DEF LedgerOK
  <2>3. CASE /\ pc' = [pc EXCEPT ![p] = "reread"]
             /\ ledger' = Discard(p)
    <3>1. ASSUME NEW q \in Services, NEW i \in Intents
          PROVE  ledger'[q][i] = IF q = p /\ i = job[p] THEN 0
                                 ELSE ledger[q][i]
      BY <1>T, <2>1, <2>3 DEF Discard
    <3> QED  BY <1>0, <1>T, <2>1, <2>3, <3>1 DEF LedgerOK
  <2> QED  BY <1>7, <2>2, <2>3 DEF InsertOrder
<1>8. ASSUME NEW p \in Procs, ReadPosition(p) PROVE LedgerOK'
  BY <1>0, <1>S, <1>T, <1>8
     DEF ReadPosition, LockRow, NoPosition, LedgerOK, StageOK
<1>9. ASSUME NEW p \in Procs, UpsertPosition(p) PROVE LedgerOK'
  BY <1>0, <1>S, <1>T, <1>9
     DEF UpsertPosition, NoPosition, LedgerOK, StageOK
<1>10. ASSUME NEW p \in Procs, Commit(p) PROVE LedgerOK'
  BY <1>0, <1>S, <1>T, <1>10
     DEF Commit, NoPosition, LedgerOK, StageOK
<1>11. ASSUME NEW p \in Procs, Reread(p) PROVE LedgerOK'
  BY <1>0, <1>S, <1>T, <1>11
     DEF Reread, Authoritative, NoPosition, LedgerOK, StageOK
<1>12. ASSUME NEW p \in Procs, Flush(p) PROVE LedgerOK'
  BY <1>0, <1>S, <1>T, <1>12
     DEF Flush, NoPosition, LedgerOK, StageOK
<1>13. ASSUME NEW p \in Procs, Send(p) PROVE LedgerOK'
  BY <1>0, <1>S, <1>T, <1>13
     DEF Send, NoPosition, LedgerOK, StageOK
<1>14. ASSUME NEW p \in Procs, Mark(p) PROVE LedgerOK'
  BY <1>0, <1>S, <1>T, <1>14
     DEF Mark, NoPosition, LedgerOK, StageOK
<1>15. ASSUME NEW p \in Procs, Return(p) PROVE LedgerOK'
  BY <1>0, <1>S, <1>T, <1>15
     DEF Return, NoPosition, LedgerOK, StageOK
<1>16. ASSUME NEW p \in Procs, Ack(p) PROVE LedgerOK'
  BY <1>0, <1>S, <1>T, <1>16
     DEF Ack, Acked, Exit, NoPosition, LedgerOK, StageOK
<1>17. ASSUME NEW p \in Procs, Refuse(p) \/ Crash(p) PROVE LedgerOK'
  BY <1>0, <1>S, <1>T, <1>17
     DEF Refuse, Crash, Exit, NoPosition, LedgerOK, StageOK
<1>18. ASSUME UNCHANGED vars PROVE LedgerOK'
  BY <1>0, <1>18 DEF vars, LedgerOK
<1>19. ASSUME Requote PROVE LedgerOK'
  BY <1>0, <1>19 DEF Requote, LedgerOK
<1>20. LedgerOK'
  BY ONLY [Next]_vars, <1>1, <1>2, <1>3, <1>4, <1>5, <1>6, <1>7, <1>8, <1>9,
     <1>10, <1>11, <1>12, <1>13, <1>14, <1>15, <1>16, <1>17, <1>18, <1>19
     DEF Next, Work
<1> QED  BY <1>0, <1>20 DEF LedgerInv

\* Between two intents the in-memory ledger of a service agrees with the
\* tables, whoever won the races for the intents it handled.
THEOREM LedgerAgreesAlways == Spec => []LedgerAgrees
<1>1. Init => LedgerInv
  BY DurableInit DEF Init, LedgerInv, LedgerOK, NoPosition, Procs
<1>2. LedgerInv => LedgerAgrees
  BY DEF LedgerInv, LedgerOK, LedgerAgrees
<1> QED  BY <1>1, <1>2, LedgerNext, PTL DEF Spec

\* The fills of an intent that belong to a market and are stored.
Due(m, i) == IF MarketOf[i] = m THEN orders[i] ELSE 0

\* Neither a position nor one read for an update counts more than is stored.
PositionOK ==
  /\ \A m \in Markets, i \in Intents : positions[m][i] <= Due(m, i)
  /\ \A p \in Procs, i \in Intents : pc[p] \in {"upsert", "commit"} =>
       seen[p][i] <= Due(MarketOf[job[p]], i)

PositionInv == DurableInv /\ PositionOK

\* A commit adds the fills of an intent that had none to a position that
\* cannot have counted it.
LEMMA PositionNext == PositionInv /\ [Next]_vars => PositionInv'
<1> SUFFICES ASSUME PositionInv, [Next]_vars PROVE PositionInv'
  OBVIOUS
<1>0. DurableInv /\ DurableInv' /\ PositionOK
  BY DurableNext DEF PositionInv
<1>T. /\ pc \in [Procs -> Stages]
      /\ job \in [Procs -> Intents \cup {NoIntent}]
      /\ ledger \in [Procs -> [Intents -> 0..MaxFills]]
      /\ orders \in [Intents -> 0..MaxFills]
      /\ seen \in [Procs -> [Intents -> Nat]]
      /\ positions \in [Markets -> [Intents -> Nat]]
      /\ MarketOf \in [Intents -> Markets]
      /\ MaxFills \in Nat
      /\ StageOK /\ WriterOK
  BY <1>0, PaperAssumption DEF DurableInv, TypeInv, TypeOK
<1> USE DEF Goto, groupVars, durable, locks, flushVars
<1>1. ASSUME NEW p \in Procs, Boot(p) PROVE PositionOK'
  BY <1>0, <1>T, <1>1
     DEF Boot, PositionOK, Due, StageOK
<1>2. ASSUME NEW p \in Procs, Assign(p) PROVE PositionOK'
  BY <1>0, <1>T, <1>2
     DEF Assign, PositionOK, Due, StageOK
<1>3. ASSUME NEW p \in Procs, Consume(p) PROVE PositionOK'
  BY <1>0, <1>T, <1>3
     DEF Consume, OffsetAfterReceive, PositionOK, Due, StageOK
<1>4. ASSUME NEW p \in Procs, NEW i \in Intents, Request(p, i) PROVE PositionOK'
  BY <1>0, <1>T, <1>4
     DEF Request, PositionOK, Due, StageOK
<1>5. ASSUME NEW p \in Procs, Preflight(p) PROVE PositionOK'
  BY <1>0, <1>T, <1>5
     DEF Preflight, PositionOK, Due, StageOK
<1>6. ASSUME NEW p \in Procs, Execute(p) PROVE PositionOK'
  BY <1>0, <1>T, <1>6
     DEF Execute, PositionOK, Due, StageOK
<1>7. ASSUME NEW p \in Procs, InsertOrder(p) PROVE PositionOK'
  BY <1>0, <1>T, <1>7
     DEF InsertOrder, PositionOK, Due, StageOK
<1>8. ASSUME NEW p \in Procs, ReadPosition(p) PROVE PositionOK'
  BY <1>0, <1>T, <1>8
     DEF ReadPosition, PositionOK, Due, StageOK
<1>9. ASSUME NEW p \in Procs, UpsertPosition(p) PROVE PositionOK'
  BY <1>0, <1>T, <1>9
     DEF UpsertPosition, PositionOK, Due, StageOK
<1>10. ASSUME NEW p \in Procs, Commit(p) PROVE PositionOK'
  <2>1. /\ pc[p] = "commit"
        /\ job[p] \in Intents
        /\ orders[job[p]] = 0
        /\ orders' = [orders EXCEPT ![job[p]] = ledger[p][job[p]]]
        /\ pc' = [pc EXCEPT ![p] = "flush"]
        /\ seen' = [seen EXCEPT ![p] = NoPosition]
        /\ job' = job
    BY <1>T, <1>10 DEF Commit, StageOK, WriterOK
  <2>2. \A m \in Markets, i \in Intents : Due(m, i) <= Due(m, i)'
    BY <1>T, <2>1 DEF Due
  <2>3. \A m \in Markets, i \in Intents :
          Due(m, i) \in Nat /\ Due(m, i)' \in Nat
    BY <1>T, <2>1 DEF Due
  <2>4. ASSUME NEW m \in Markets, NEW i \in Intents
        PROVE  positions'[m][i] <= Due(m, i)'
    <3> DEFINE j == job[p]
               own == MarketOf[j]
    <3>1. own \in Markets /\ j \in Intents
      BY <1>T, <2>1
    <3>2. positions' = [positions EXCEPT ![own] =
                          [seen[p] EXCEPT ![j] = @ + ledger[p][j]]]
      BY <1>10 DEF Commit
    <3>3. CASE m # own
      <4>1. positions'[m][i] = positions[m][i] /\ positions[m][i] \in Nat
        BY <1>T, <3>1, <3>2, <3>3
      <4> QED  BY <1>0, <2>2, <2>3, <4>1 DEF PositionOK
    <3>4. CASE m = own /\ i # j
      <4>1. positions'[m][i] = seen[p][i] /\ seen[p][i] \in Nat
        BY <1>T, <3>1, <3>2, <3>4
      <4>2. seen[p][i] <= Due(m, i)
        BY <1>0, <2>1, <3>4 DEF PositionOK
      <4> QED  BY <2>2, <2>3, <4>1, <4>2
    <3>5. CASE m = own /\ i = j
      <4>1. positions'[m][i] = seen[p][i] + ledger[p][i]
        BY <1>T, <3>1, <3>2, <3>5
      <4>2. seen[p][i] <= Due(m, i)
        BY <1>0, <2>1, <3>5 DEF PositionOK
      <4>3. Due(m, i) = 0 /\ Due(m, i)' = ledger[p][i]
        BY <1>T, <2>1, <3>1, <3>5 DEF Due
      <4>4. seen[p][i] \in Nat /\ ledger[p][i] \in Nat
        BY <1>T, <3>1, <3>5
      <4> QED  BY <4>1, <4>2, <4>3, <4>4
    <3> QED  BY <3>3, <3>4, <3>5
  <2>5. ASSUME NEW q \in Procs, NEW i \in Intents,
               pc'[q] \in {"upsert", "commit"}
        PROVE  seen'[q][i] <= Due(MarketOf[job[q]], i)'
    <3>1. /\ q # p
          /\ seen'[q][i] = seen[q][i]
          /\ seen[q][i] \in Nat
          /\ pc[q] \in {"upsert", "commit"}
          /\ job'[q] = job[q]
          /\ job[q] \in Intents
      BY <1>T, <2>1, <2>5 DEF StageOK
    <3>2. seen[q][i] <= Due(MarketOf[job[q]], i)
      BY <1>0, <3>1 DEF PositionOK
    <3> DEFINE m == MarketOf[job[q]]
    <3>3. m \in Markets
      BY <1>T, <3>1
    <3>4. Due(MarketOf[job[q]], i)' = IF MarketOf[i] = m THEN orders'[i]
                                      ELSE 0
      BY <3>1 DEF Due
    <3>5. (IF MarketOf[i] = m THEN orders[i] ELSE 0)
            <= (IF MarketOf[i] = m THEN orders'[i] ELSE 0)
      BY <1>T, <2>1
    <3>6. /\ orders'[i] \in Nat
          /\ orders[i] \in Nat
      BY <1>T, <2>1
    <3> QED  BY <3>1, <3>2, <3>4, <3>5, <3>6 DEF Due
  <2> QED  BY <2>4, <2>5 DEF PositionOK
<1>11. ASSUME NEW p \in Procs, Reread(p) PROVE PositionOK'
  BY <1>0, <1>T, <1>11
     DEF Reread, PositionOK, Due, StageOK
<1>12. ASSUME NEW p \in Procs, Flush(p) PROVE PositionOK'
  BY <1>0, <1>T, <1>12
     DEF Flush, PositionOK, Due, StageOK
<1>13. ASSUME NEW p \in Procs, Send(p) PROVE PositionOK'
  BY <1>0, <1>T, <1>13
     DEF Send, PositionOK, Due, StageOK
<1>14. ASSUME NEW p \in Procs, Mark(p) PROVE PositionOK'
  BY <1>0, <1>T, <1>14
     DEF Mark, PositionOK, Due, StageOK
<1>15. ASSUME NEW p \in Procs, Return(p) PROVE PositionOK'
  BY <1>0, <1>T, <1>15
     DEF Return, PositionOK, Due, StageOK
<1>16. ASSUME NEW p \in Procs, Ack(p) PROVE PositionOK'
  BY <1>0, <1>T, <1>16
     DEF Ack, Acked, Exit, PositionOK, Due, StageOK
<1>17. ASSUME NEW p \in Procs, Refuse(p) \/ Crash(p) PROVE PositionOK'
  BY <1>0, <1>T, <1>17
     DEF Refuse, Crash, Exit, PositionOK, Due, StageOK
<1>18. ASSUME UNCHANGED vars PROVE PositionOK'
  BY <1>0, <1>18 DEF vars, PositionOK, Due
<1>19. ASSUME Requote PROVE PositionOK'
  BY <1>0, <1>19 DEF Requote, PositionOK, Due
<1>20. PositionOK'
  BY ONLY [Next]_vars, <1>1, <1>2, <1>3, <1>4, <1>5, <1>6, <1>7, <1>8, <1>9,
     <1>10, <1>11, <1>12, <1>13, <1>14, <1>15, <1>16, <1>17, <1>18, <1>19
     DEF Next, Work
<1> QED  BY <1>0, <1>20 DEF PositionInv

\* Positions never count a fill twice, though two processes may execute the
\* same intent and read the same position.
THEOREM NoDoubleCountAlways == Spec => []NoDoubleCount
<1>1. Init => PositionInv
  BY DurableInit, PaperAssumption
     DEF Init, PositionInv, PositionOK, NoPosition, Due
<1>2. PositionInv => NoDoubleCount
  BY DEF PositionInv, PositionOK, NoDoubleCount, Due
<1> QED  BY <1>1, <1>2, PositionNext, PTL DEF Spec

\* A market with a position row from the start: the row is exact, and whoever
\* has read it for an update holds its lock and has read what it still says.
SeededOK ==
  /\ Seeded \subseteq rows
  /\ \A m \in Seeded, i \in Intents : positions[m][i] = Due(m, i)
  /\ \A p \in Procs :
       pc[p] \in {"upsert", "commit"} /\ MarketOf[job[p]] \in Seeded =>
         /\ rowLock[MarketOf[job[p]]] = p
         /\ seen[p] = positions[MarketOf[job[p]]]

SeededInv == DurableInv /\ SeededOK

\* The lock taken by the read is what makes the write of the commit a write
\* to the position as it is.
LEMMA SeededNext == SeededInv /\ [Next]_vars => SeededInv'
<1> SUFFICES ASSUME SeededInv, [Next]_vars PROVE SeededInv'
  OBVIOUS
<1>0. DurableInv /\ DurableInv' /\ SeededOK
  BY DurableNext DEF SeededInv
<1>T. /\ pc \in [Procs -> Stages]
      /\ job \in [Procs -> Intents \cup {NoIntent}]
      /\ ledger \in [Procs -> [Intents -> 0..MaxFills]]
      /\ orders \in [Intents -> 0..MaxFills]
      /\ seen \in [Procs -> [Intents -> Nat]]
      /\ positions \in [Markets -> [Intents -> Nat]]
      /\ rowLock \in [Markets -> Procs \cup {NoProc}]
      /\ MarketOf \in [Intents -> Markets]
      /\ Seeded \subseteq Markets
      /\ NoProc \notin Procs
      /\ StageOK /\ WriterOK
  BY <1>0, PaperAssumption DEF DurableInv, TypeInv, TypeOK
<1> USE DEF Goto, groupVars, durable, locks, flushVars
<1>1. ASSUME NEW p \in Procs, Boot(p) PROVE SeededOK'
  BY <1>0, <1>T, <1>1 DEF Boot, SeededOK, Due, StageOK
<1>2. ASSUME NEW p \in Procs, Assign(p) PROVE SeededOK'
  BY <1>0, <1>T, <1>2 DEF Assign, SeededOK, Due, StageOK
<1>3. ASSUME NEW p \in Procs, Consume(p) PROVE SeededOK'
  BY <1>0, <1>T, <1>3 DEF Consume, OffsetAfterReceive, SeededOK, Due, StageOK
<1>4. ASSUME NEW p \in Procs, NEW i \in Intents, Request(p, i) PROVE SeededOK'
  BY <1>0, <1>T, <1>4 DEF Request, SeededOK, Due, StageOK
<1>5. ASSUME NEW p \in Procs, Preflight(p) PROVE SeededOK'
  BY <1>0, <1>T, <1>5 DEF Preflight, SeededOK, Due, StageOK
<1>6. ASSUME NEW p \in Procs, Execute(p) PROVE SeededOK'
  BY <1>0, <1>T, <1>6 DEF Execute, SeededOK, Due, StageOK
<1>7. ASSUME NEW p \in Procs, InsertOrder(p) PROVE SeededOK'
  BY <1>0, <1>T, <1>7 DEF InsertOrder, SeededOK, Due, StageOK
<1>8. ASSUME NEW p \in Procs, ReadPosition(p) PROVE SeededOK'
  BY <1>0, <1>T, <1>8 DEF ReadPosition, LockRow, SeededOK, Due, StageOK
<1>9. ASSUME NEW p \in Procs, UpsertPosition(p) PROVE SeededOK'
  BY <1>0, <1>T, <1>9 DEF UpsertPosition, SeededOK, Due, StageOK
<1>10. ASSUME NEW p \in Procs, Commit(p) PROVE SeededOK'
  <2> DEFINE j == job[p]
             own == MarketOf[j]
  <2>1. /\ pc[p] = "commit"
        /\ j \in Intents /\ own \in Markets
        /\ orders[j] = 0
        /\ orders' = [orders EXCEPT ![j] = ledger[p][j]]
        /\ positions' = [positions EXCEPT ![own] =
                           [seen[p] EXCEPT ![j] = @ + ledger[p][j]]]
        /\ rows' = rows \cup {own}
        /\ rowLock' = [rowLock EXCEPT ![own] = NoProc]
        /\ pc' = [pc EXCEPT ![p] = "flush"]
        /\ seen' = [seen EXCEPT ![p] = NoPosition]
        /\ job' = job
    BY <1>T, <1>10 DEF Commit, StageOK, WriterOK
  <2>2. ASSUME NEW m \in Seeded, NEW i \in Intents
        PROVE  positions'[m][i] = Due(m, i)'
    <3>1. m \in Markets /\ positions[m][i] = Due(m, i)
      BY <1>0, <1>T DEF SeededOK
    <3>2. CASE m # own
      BY <1>T, <2>1, <3>1, <3>2 DEF Due
    <3>3. CASE m = own
      <4>1. seen[p] = positions[m]
        BY <1>0, <2>1, <3>3 DEF SeededOK
      <4>2. CASE i # j
        BY <1>T, <2>1, <3>1, <3>3, <4>1, <4>2 DEF Due
      <4>3. CASE i = j
        <5>1. positions'[m][i] = positions[m][i] + ledger[p][i]
          BY <1>T, <2>1, <3>1, <3>3, <4>1, <4>3
        <5>2. Due(m, i) = 0 /\ Due(m, i)' = ledger[p][i]
          BY <1>T, <2>1, <3>3, <4>3 DEF Due
        <5>3. ledger[p][i] \in Nat
          BY <1>T
        <5> QED  BY <3>1, <5>1, <5>2, <5>3
      <4> QED  BY <4>2, <4>3
    <3> QED  BY <3>2, <3>3
  <2>3. ASSUME NEW q \in Procs, pc'[q] \in {"upsert", "commit"},
               MarketOf[job[q]] \in Seeded
        PROVE  /\ rowLock'[MarketOf[job[q]]] = q
               /\ seen'[q] = positions'[MarketOf[job[q]]]
    <3>1. q # p /\ pc[q] \in {"upsert", "commit"}
      BY <1>T, <2>1, <2>3
    <3>2. rowLock[MarketOf[job[q]]] = q /\ seen[q] = positions[MarketOf[job[q]]]
      BY <1>0, <2>3, <3>1 DEF SeededOK
    <3>3. MarketOf[job[q]] # own
      BY <1>0, <2>1, <2>3, <3>1, <3>2 DEF SeededOK
    <3> QED  BY <1>T, <2>1, <2>3, <3>1, <3>2, <3>3
  <2>4. Seeded \subseteq rows'
    BY <1>0, <2>1 DEF SeededOK
  <2> QED  BY <2>1, <2>2, <2>3, <2>4 DEF SeededOK
<1>11. ASSUME NEW p \in Procs, Reread(p) PROVE SeededOK'
  BY <1>0, <1>T, <1>11 DEF Reread, SeededOK, Due, StageOK
<1>12. ASSUME NEW p \in Procs, Flush(p) PROVE SeededOK'
  BY <1>0, <1>T, <1>12 DEF Flush, SeededOK, Due, StageOK
<1>13. ASSUME NEW p \in Procs, Send(p) PROVE SeededOK'
  BY <1>0, <1>T, <1>13 DEF Send, SeededOK, Due, StageOK
<1>14. ASSUME NEW p \in Procs, Mark(p) PROVE SeededOK'
  BY <1>0, <1>T, <1>14 DEF Mark, SeededOK, Due, StageOK
<1>15. ASSUME NEW p \in Procs, Return(p) PROVE SeededOK'
  BY <1>0, <1>T, <1>15 DEF Return, SeededOK, Due, StageOK
<1>E. ASSUME NEW p \in Procs, Exit(p), UNCHANGED durable PROVE SeededOK'
  <2>1. \A q \in Procs : pc'[q] \in {"upsert", "commit"} =>
          q # p /\ pc'[q] = pc[q] /\ job'[q] = job[q] /\ seen'[q] = seen[q]
    BY <1>T, <1>E DEF Exit
  <2>2. \A q \in Procs, m \in Markets : q # p /\ rowLock[m] = q => rowLock'[m] = q
    BY <1>T, <1>E DEF Exit
  <2>3. \A q \in Procs : pc[q] \in {"upsert", "commit"} => MarketOf[job[q]] \in Markets
    BY <1>T, PaperAssumption DEF StageOK
  <2> QED  BY <1>0, <1>E, <2>1, <2>2, <2>3 DEF SeededOK, Due, durable
<1>16. ASSUME NEW p \in Procs, Ack(p) PROVE SeededOK'
  <2>1. CASE owner = p
    <3>1. pc' = [pc EXCEPT ![p] = "ready"] /\ job' = [job EXCEPT ![p] = NoIntent]
      BY <1>16, <2>1 DEF Ack
    <3>2. UNCHANGED <<rows, positions, orders, seen, rowLock>>
      BY <1>16, <2>1 DEF Ack
    <3> QED  BY <1>0, <1>T, <3>1, <3>2 DEF SeededOK, Due, StageOK
  <2>2. CASE owner # p
    BY <1>16, <2>2, <1>E DEF Ack
  <2> QED  BY <2>1, <2>2
<1>17. ASSUME NEW p \in Procs, Refuse(p) \/ Crash(p) PROVE SeededOK'
  BY <1>17, <1>E DEF Refuse, Crash
<1>18. ASSUME UNCHANGED vars PROVE SeededOK'
  BY <1>0, <1>18 DEF vars, SeededOK, Due
<1>19. ASSUME Requote PROVE SeededOK'
  BY <1>0, <1>19 DEF Requote, SeededOK, Due
<1>20. SeededOK'
  BY ONLY [Next]_vars, <1>1, <1>2, <1>3, <1>4, <1>5, <1>6, <1>7, <1>8, <1>9,
     <1>10, <1>11, <1>12, <1>13, <1>14, <1>15, <1>16, <1>17, <1>18, <1>19
     DEF Next, Work
<1> QED  BY <1>0, <1>20 DEF SeededInv

\* On a market that had a position row from the start the position accounts
\* for exactly the stored fills, however many processes execute at once: the
\* loss of an update that PositionsMatchFills finds needs a missing row.
THEOREM SeededPositionsAlways == Spec => []SeededPositionsExact
<1>1. Init => SeededInv
  BY DurableInit, PaperAssumption
     DEF Init, SeededInv, SeededOK, NoPosition, Due
<1>2. SeededInv => SeededPositionsExact
  BY DEF SeededInv, SeededOK, SeededPositionsExact, PositionsExact, Due
<1> QED  BY <1>1, <1>2, SeededNext, PTL DEF Spec

-----------------------------------------------------------------------------
(* the consumer offset *)

\* The execution of an intent is stored and all its fills are on the bus.
Complete(i) == orders[i] # 0 /\ \A n \in 1..orders[i] : <<i, n>> \in sent

\* The owner of the partition is idle at the committed offset, or works on
\* the record after it; a service acknowledges when its intent is complete.
OffsetOK ==
  /\ \A p \in Services : owner = p =>
       /\ pc[p] # "down"
       /\ job[p] = NoIntent => pc[p] = "ready" /\ fetched[p] = offset
       /\ job[p] # NoIntent => /\ fetched[p] = offset + 1
                               /\ fetched[p] \in 1..Len(Topic)
                               /\ job[p] = Topic[fetched[p]]
  /\ \A p \in Services : pc[p] = "ack" => Complete(job[p])
  /\ \A k \in 1..offset : Complete(Topic[k])

OffsetInv == OutboxInv /\ OffsetOK

\* What is complete stays complete.
LEMMA CompleteStays ==
  ASSUME OutboxInv, [Next]_vars, NEW i \in Intents, Complete(i)
  PROVE  Complete(i)'
<1>1. orders'[i] = orders[i]
  BY StoredStays DEF OutboxInv, Complete
<1>2. sent \subseteq sent'
  <2>1. ASSUME NEW p \in Procs, Send(p) PROVE sent \subseteq sent'
    BY <2>1 DEF Send
  <2>2. ASSUME NEW p \in Procs,
               \/ Boot(p) \/ Assign(p) \/ Consume(p) \/ Preflight(p)
               \/ Execute(p) \/ InsertOrder(p) \/ ReadPosition(p)
               \/ UpsertPosition(p) \/ Commit(p) \/ Reread(p) \/ Flush(p)
               \/ Mark(p) \/ Return(p) \/ Ack(p) \/ Refuse(p) \/ Crash(p)
               \/ \E j \in Intents : Request(p, j)
        PROVE  sent \subseteq sent'
    BY <2>2 DEF Boot, Assign, Consume, Preflight, Execute, InsertOrder,
                ReadPosition, UpsertPosition, Commit, Reread, Flush, Mark,
                Return, Ack, Refuse, Crash, Request
  <2>3. Requote \/ UNCHANGED vars => sent \subseteq sent'
    BY DEF Requote, vars
  <2> QED  BY ONLY [Next]_vars, <2>1, <2>2, <2>3 DEF Next, Work
<1> QED  BY <1>1, <1>2 DEF Complete

\* A step that leaves offset and owner alone, and moves one process that is
\* neither idle nor about to acknowledge within its intent, keeps the rest.
LEMMA OffsetKept ==
  ASSUME OffsetInv, NEW p \in Procs,
         \A i \in Intents : Complete(i) => Complete(i)',
         pc \in [Procs -> Stages], job \in [Procs -> Intents \cup {NoIntent}],
         offset \in 0..Len(Topic), Topic \in Seq(Intents), StageOK,
         NEW stage, pc' = [pc EXCEPT ![p] = stage],
         pc[p] \notin {"down", "ready"}, stage \notin {"down", "ready", "ack"},
         UNCHANGED <<offset, owner, fetched, job>>
  PROVE  OffsetOK'
<1>1. \A q \in Services : owner = q =>
        /\ pc'[q] # "down"
        /\ job[q] = NoIntent => pc'[q] = "ready" /\ fetched[q] = offset
        /\ job[q] # NoIntent => /\ fetched[q] = offset + 1
                                /\ fetched[q] \in 1..Len(Topic)
                                /\ job[q] = Topic[fetched[q]]
  BY DEF OffsetInv, OffsetOK, Procs
<1>2. \A q \in Services : pc'[q] = "ack" => Complete(job[q])'
  <2> SUFFICES ASSUME NEW q \in Services, pc'[q] = "ack"
               PROVE  Complete(job[q])'
    OBVIOUS
  <2>1. q # p /\ pc[q] = "ack" /\ q \in Procs
    BY DEF Procs
  <2>2. job[q] \in Intents /\ job'[q] = job[q] /\ Complete(job[q])
    BY <2>1 DEF OffsetInv, OffsetOK, StageOK
  <2> QED  BY <2>2 DEF Complete
<1>3. \A k \in 1..offset : Complete(Topic[k])'
  BY DEF OffsetInv, OffsetOK
<1> QED  BY <1>1, <1>2, <1>3 DEF OffsetOK

\* Only an acknowledging owner moves the offset, by the record it completed.
LEMMA OffsetNext == OffsetInv /\ [Next]_vars => OffsetInv'
<1> SUFFICES ASSUME OffsetInv, [Next]_vars PROVE OffsetInv'
  OBVIOUS
<1>0. OutboxInv /\ OutboxInv' /\ OffsetOK
  BY OutboxNext DEF OffsetInv
<1>C. \A i \in Intents : Complete(i) => Complete(i)'
  BY <1>0, CompleteStays
<1>T. /\ pc \in [Procs -> Stages]
      /\ job \in [Procs -> Intents \cup {NoIntent}]
      /\ fetched \in [Services -> 0..Len(Topic)]
      /\ offset \in 0..Len(Topic)
      /\ Topic \in Seq(Intents)
      /\ Services \subseteq Procs
      /\ NoProc \notin Procs
      /\ NoIntent \notin Intents
      /\ StageOK
  BY <1>0, PaperAssumption
     DEF OutboxInv, DurableInv, TypeInv, TypeOK, Procs
<1>K. /\ \A k \in 1..offset : Topic[k] \in Intents /\ Complete(Topic[k])
      /\ \A q \in Services : pc[q] = "ack" =>
           job[q] \in Intents /\ Complete(job[q])
  BY <1>0, <1>T DEF OffsetOK, StageOK
<1> USE DEF Goto, groupVars, durable, locks, flushVars
<1>1. ASSUME NEW p \in Procs, Boot(p) PROVE OffsetOK'
  BY <1>0, <1>T, <1>K, <1>1 DEF Boot, OffsetOK, Complete, StageOK
<1>2. ASSUME NEW p \in Procs, Assign(p) PROVE OffsetOK'
  BY <1>0, <1>T, <1>K, <1>2 DEF Assign, OffsetOK, Complete, StageOK
<1>3. ASSUME NEW p \in Procs, Consume(p) PROVE OffsetOK'
  <2>1. /\ p \in Services
        /\ owner = p
        /\ fetched[p] = offset
        /\ fetched[p] < Len(Topic)
        /\ fetched' = [fetched EXCEPT ![p] = @ + 1]
        /\ job' = [job EXCEPT ![p] = Topic[fetched[p] + 1]]
        /\ pc' = [pc EXCEPT ![p] = "preflight"]
        /\ UNCHANGED <<offset, owner, orders, sent>>
    BY <1>0, <1>T, <1>3
       DEF Consume, OffsetAfterReceive, OffsetOK, StageOK
  <2>2. fetched[p] + 1 \in 1..Len(Topic) /\ Topic[fetched[p] + 1] \in Intents
    BY <1>T, <2>1
  <2>3. owner' = p /\ p \in Procs
    BY <2>1
  <2> QED  BY <1>0, <1>T, <1>K, <2>1, <2>2, <2>3 DEF OffsetOK, Complete
<1>4. ASSUME NEW p \in Procs, NEW i \in Intents, Request(p, i) PROVE OffsetOK'
  BY <1>0, <1>T, <1>K, <1>4 DEF Request, OffsetOK, Complete, StageOK
<1>5. ASSUME NEW p \in Procs, Preflight(p) PROVE OffsetOK'
  BY <1>C, <1>T, <1>5, OffsetKept DEF Preflight
<1>6. ASSUME NEW p \in Procs, Execute(p) PROVE OffsetOK'
  BY <1>C, <1>T, <1>6, OffsetKept DEF Execute
<1>7. ASSUME NEW p \in Procs, InsertOrder(p) PROVE OffsetOK'
  BY <1>C, <1>T, <1>7, OffsetKept DEF InsertOrder
<1>8. ASSUME NEW p \in Procs, ReadPosition(p) PROVE OffsetOK'
  BY <1>C, <1>T, <1>8, OffsetKept DEF ReadPosition
<1>9. ASSUME NEW p \in Procs, UpsertPosition(p) PROVE OffsetOK'
  BY <1>C, <1>T, <1>9, OffsetKept DEF UpsertPosition
<1>10. ASSUME NEW p \in Procs, Commit(p) PROVE OffsetOK'
  BY <1>C, <1>T, <1>10, OffsetKept DEF Commit
<1>11. ASSUME NEW p \in Procs, Reread(p) PROVE OffsetOK'
  BY <1>C, <1>T, <1>11, OffsetKept DEF Reread
<1>12. ASSUME NEW p \in Procs, Flush(p) PROVE OffsetOK'
  BY <1>C, <1>T, <1>12, OffsetKept DEF Flush
<1>13. ASSUME NEW p \in Procs, Send(p) PROVE OffsetOK'
  BY <1>C, <1>T, <1>13, OffsetKept DEF Send
<1>14. ASSUME NEW p \in Procs, Mark(p) PROVE OffsetOK'
  BY <1>C, <1>T, <1>14, OffsetKept DEF Mark
<1>15. ASSUME NEW p \in Procs, Return(p) PROVE OffsetOK'
  <2>1. /\ pc[p] = "send"
        /\ todo[p] = {}
        /\ pc' = [pc EXCEPT ![p] = IF job[p] = NoIntent THEN "ready"
                                   ELSE IF p \in Services THEN "ack"
                                   ELSE "down"]
        /\ job' = IF p \in Services THEN job ELSE [job EXCEPT ![p] = NoIntent]
        /\ UNCHANGED <<offset, owner, fetched, orders, sent>>
    BY <1>15 DEF Return
  <2>2. p \in Services /\ owner = p => job[p] # NoIntent
    BY <1>0, <2>1 DEF OffsetOK
  <2>3. job[p] # NoIntent => job[p] \in Intents /\ Complete(job[p])
    BY <1>0, <1>T, <2>1
       DEF OutboxInv, DurableInv, ResultOK, FlushOK, Complete
  <2>4. CASE p \in Services
    BY <1>0, <1>T, <1>K, <2>1, <2>2, <2>3, <2>4 DEF OffsetOK, Complete
  <2>5. CASE p \notin Services
    BY <1>0, <1>T, <1>K, <2>1, <2>5 DEF OffsetOK, Complete
  <2> QED  BY <2>4, <2>5
<1>16. ASSUME NEW p \in Procs, Ack(p) PROVE OffsetOK'
  <2>1. pc[p] = "ack" /\ p \in Services /\ job[p] \in Intents
    BY <1>T, <1>16 DEF Ack, StageOK
  <2>2. CASE owner = p
    <3>1. /\ fetched[p] = offset + 1
          /\ job[p] = Topic[fetched[p]]
          /\ offset' = fetched[p]
          /\ job' = [job EXCEPT ![p] = NoIntent]
          /\ pc' = [pc EXCEPT ![p] = "ready"]
          /\ UNCHANGED <<owner, fetched, orders, sent>>
      BY <1>0, <1>T, <1>16, <2>1, <2>2 DEF Ack, Acked, OffsetOK
    <3>2. \A k \in 1..offset' : Complete(Topic[k])
      BY <1>T, <1>K, <2>1, <3>1
    <3> QED
      BY <1>0, <1>T, <1>K, <2>1, <2>2, <3>1, <3>2 DEF OffsetOK, Complete
  <2>3. CASE owner # p
    BY <1>0, <1>T, <1>K, <1>16, <2>1, <2>3 DEF Ack, Exit, OffsetOK, Complete
  <2> QED  BY <2>2, <2>3
<1>17. ASSUME NEW p \in Procs, Refuse(p) \/ Crash(p) PROVE OffsetOK'
  BY <1>0, <1>T, <1>K, <1>17 DEF Refuse, Crash, Exit, OffsetOK, Complete, StageOK
<1>18. ASSUME UNCHANGED vars PROVE OffsetOK'
  BY <1>0, <1>18 DEF vars, OffsetOK, Complete
<1>19. ASSUME Requote PROVE OffsetOK'
  BY <1>0, <1>19 DEF Requote, OffsetOK, Complete
<1>20. OffsetOK'
  BY ONLY [Next]_vars, <1>1, <1>2, <1>3, <1>4, <1>5, <1>6, <1>7, <1>8, <1>9,
     <1>10, <1>11, <1>12, <1>13, <1>14, <1>15, <1>16, <1>17, <1>18, <1>19
     DEF Next, Work
<1> QED  BY <1>0, <1>20 DEF OffsetInv

\* The committed consumer offset only passes intents whose execution is
\* stored and whose fills are on the bus, through crashes and rebalances.
THEOREM OffsetCoversFillsAlways == Spec => []OffsetCoversFills
<1>1. Init => OffsetInv
  BY OutboxInit, PaperAssumption DEF Init, OffsetInv, OffsetOK, Procs
<1>2. OffsetInv => OffsetCoversFills
  BY DEF OffsetInv, OffsetOK, Complete, OffsetCoversFills
<1> QED  BY <1>1, <1>2, OffsetNext, PTL DEF Spec
=============================================================================

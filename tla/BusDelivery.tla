---------------------------- MODULE BusDelivery ----------------------------
(***************************************************************************)
(* crates/aether-bus end to end: a sender's send_with_retry through the    *)
(* circuit breaker of BreakerProducer, the partition it writes, and a      *)
(* KafkaConsumer whose caller processes, acks and commits - the gateway's, *)
(* the scanner's and the paper ledger's loops and process_and_commit.      *)
(* consume() returns with its first envelope, so a batch is one message.   *)
(* An error ends the caller's loop.  Where the process ends with it (the   *)
(* scanner, the paper ledger), a supervisor starts it again and it goes on *)
(* from the commit; the gateway's loop is not started again.               *)
(*                                                                         *)
(* A breaker is kept in its three states: Elapse is its reset time, and    *)
(* "probe" a half-open one whose probe is out.                             *)
(***************************************************************************)
EXTENDS Integers, Sequences

CONSTANTS MaxSends,      \* calls of send_with_retry
          MaxAttempts,   \* RetryPolicy.max_attempts
          MaxCrashes,    \* stops of the consumer that are not its messages' doing
          RefusedSets    \* sets of offsets: what the caller cannot process is one

VARIABLES log, sends, sending, breaker, pc, position, pending, stored,
          committed, raw, meta, processed, crashes, refused

sender   == <<sends, sending>>
consumer == <<pc, position, pending, stored, committed, raw, meta, processed, crashes, refused>>
vars     == <<log, sender, breaker, consumer>>

None  == -1
Roles == {"sender", "quarantine"}
NoSend == [attempt |-> 0, valid |-> TRUE]

Init ==
  /\ log = << >> /\ sends = 0 /\ sending = NoSend
  /\ breaker = [r \in Roles |-> "closed"]
  /\ pc = "consume" /\ position = 1 /\ pending = None /\ stored = 1 /\ committed = 1
  /\ raw = {} /\ meta = {} /\ processed = {} /\ crashes = 0
  /\ refused \in RefusedSets

-----------------------------------------------------------------------------
(* BreakerProducer: the breaker is asked before and told after a send.     *)

AllowRequest(r) == breaker[r] \in {"closed", "half_open"}

\* A failure opens a closed breaker when it is one too many.
After(r, ok) ==
  IF ok THEN {"closed"} ELSE IF breaker[r] = "closed" THEN {"closed", "open"} ELSE {"open"}

Elapse(r) ==
  /\ breaker[r] = "open" /\ breaker' = [breaker EXCEPT ![r] = "half_open"]
  /\ UNCHANGED <<log, sender, consumer>>

-----------------------------------------------------------------------------
(* send_with_retry.                                                        *)

BeginSend ==
  /\ sending.attempt = 0 /\ sends < MaxSends
  /\ sends' = sends + 1
  /\ \E valid \in BOOLEAN : sending' = [attempt |-> 1, valid |-> valid]
  /\ UNCHANGED <<log, breaker, consumer>>

Delivered == log' = Append(log, sending.valid)

\* One attempt: sent; or an error, after which the broker may hold the message
\* all the same.  A retryable error is tried again while attempts are left;
\* an open breaker is not retryable.
Attempt ==
  /\ sending.attempt > 0
  /\ \/ /\ ~AllowRequest("sender") /\ sending' = NoSend /\ UNCHANGED <<log, breaker>>
     \/ /\ AllowRequest("sender") /\ Delivered /\ sending' = NoSend
        /\ breaker' = [breaker EXCEPT !["sender"] = "closed"]
     \/ /\ AllowRequest("sender") /\ (Delivered \/ UNCHANGED log)
        /\ \E b \in After("sender", FALSE), retryable \in BOOLEAN :
             /\ breaker' = [breaker EXCEPT !["sender"] = b]
             /\ sending' = IF retryable /\ sending.attempt < MaxAttempts
                           THEN [sending EXCEPT !.attempt = @ + 1] ELSE NoSend
  /\ UNCHANGED <<sends, consumer>>

-----------------------------------------------------------------------------
(* consume().                                                              *)

\* A valid message: the offset to resume from is remembered, not stored.
ReceiveValid ==
  /\ pc = "consume" /\ position <= Len(log) /\ log[position]
  /\ pending' = position + 1 /\ position' = position + 1 /\ pc' = "process"
  /\ UNCHANGED <<log, sender, breaker, stored, committed, raw, meta, processed, crashes, refused>>

\* Quarantine::publish: the raw bytes first, then the metadata.
ReceiveMalformed ==
  /\ pc = "consume" /\ position <= Len(log) /\ ~log[position]
  /\ raw' = raw \cup {position} /\ pc' = "publish"
  /\ UNCHANGED <<log, sender, breaker, position, pending, stored, committed, meta,
                 processed, crashes, refused>>

\* Mutant: the offset of what was quarantined is not stored.
PublishMetadataStoresNothing ==
  /\ pc = "publish" /\ AllowRequest("quarantine")
  /\ meta' = meta \cup {position}
  /\ breaker' = [breaker EXCEPT !["quarantine"] = "closed"]
  /\ position' = position + 1 /\ pc' = "commit" /\ stored' = stored
  /\ UNCHANGED <<log, sender, pending, committed, raw, processed, crashes, refused>>

\* The offset is stored and committed once the metadata is out.
PublishMetadata ==
  /\ pc = "publish" /\ AllowRequest("quarantine")
  /\ meta' = meta \cup {position}
  /\ breaker' = [breaker EXCEPT !["quarantine"] = "closed"]
  /\ position' = position + 1 /\ pc' = "commit" /\ stored' = position + 1
  /\ UNCHANGED <<log, sender, pending, committed, raw, processed, crashes, refused>>

Process ==
  /\ pc = "process" /\ position - 1 \notin refused
  /\ processed' = processed \cup {position - 1} /\ pc' = "ack"
  /\ UNCHANGED <<log, sender, breaker, position, pending, stored, committed, raw, meta, crashes, refused>>

Ack ==
  /\ pc = "ack" /\ stored' = pending /\ pending' = None /\ pc' = "commit"
  /\ UNCHANGED <<log, sender, breaker, position, committed, raw, meta, processed, crashes, refused>>

CommitSync ==
  /\ pc = "commit" /\ committed' = stored /\ pc' = "consume"
  /\ UNCHANGED <<log, sender, breaker, position, pending, stored, raw, meta, processed, crashes, refused>>

Ended   == pc' = "stopped" /\ pending' = None
Stopped == Ended /\ crashes' = crashes + 1

\* The caller cannot process the message, now or when it comes again: an intent
\* the paper ledger refuses.
Refuses ==
  /\ pc = "process" /\ position - 1 \in refused /\ Ended
  /\ UNCHANGED <<log, sender, breaker, position, stored, committed, raw, meta, processed,
                 crashes, refused>>

\* Mutant: the offset of what could not be quarantined is committed.
QuarantineFailsCommitted ==
  /\ pc = "publish" /\ crashes < MaxCrashes /\ Stopped
  /\ committed' = position + 1
  /\ \E b \in After("quarantine", FALSE) \cup {breaker["quarantine"]} :
       breaker' = [breaker EXCEPT !["quarantine"] = b]
  /\ UNCHANGED <<log, sender, position, stored, raw, meta, processed, refused>>

\* The metadata could not be sent, or the breaker was open.
QuarantineFails ==
  /\ pc = "publish" /\ crashes < MaxCrashes /\ Stopped
  /\ \E b \in After("quarantine", FALSE) \cup {breaker["quarantine"]} :
       breaker' = [breaker EXCEPT !["quarantine"] = b]
  /\ UNCHANGED <<log, sender, position, stored, committed, raw, meta, processed, refused>>

\* Any other error of the loop, or the end of the process: nothing is undone.
Stops ==
  /\ pc # "stopped" /\ crashes < MaxCrashes /\ Stopped
  /\ UNCHANGED <<log, sender, breaker, position, stored, committed, raw, meta, processed, refused>>

Restart ==
  /\ pc = "stopped" /\ pc' = "consume" /\ position' = committed /\ stored' = committed
  /\ breaker' = [breaker EXCEPT !["quarantine"] = "closed"]
  /\ UNCHANGED <<log, sender, pending, committed, raw, meta, processed, crashes, refused>>

Next ==
  \/ BeginSend \/ Attempt \/ \E r \in Roles : Elapse(r)
  \/ ReceiveValid \/ ReceiveMalformed \/ PublishMetadata \/ Process \/ Ack \/ CommitSync
  \/ Refuses \/ QuarantineFails \/ Stops \/ Restart

\* The consumer's loop goes on, and the quarantine topic takes a message that is
\* tried for ever.  Nothing is said of Restart.
Fairness ==
  /\ WF_vars(ReceiveValid) /\ WF_vars(ReceiveMalformed) /\ WF_vars(Process) /\ WF_vars(Ack)
  /\ WF_vars(CommitSync) /\ WF_vars(PublishMetadata) /\ WF_vars(Elapse("quarantine"))

Spec     == Init /\ [][Next]_vars
FairSpec == Spec /\ Fairness

-----------------------------------------------------------------------------
\* What the committed offset has passed was dealt with, whatever failed and
\* whenever the consumer was stopped: a valid message was processed, and of a
\* malformed one both the bytes and the metadata are in quarantine.
CommittedIsHandled ==
  \A o \in 1 .. committed - 1 :
    IF log[o] THEN o \in processed ELSE o \in raw \cap meta

IsLogged(o) == o <= Len(log)
IsCommitted(o) == committed > o
IsRunning == pc # "stopped"

\* The message, or one before it, is refused whenever it comes.
IsBlocked(o) == \E p \in refused : p <= o /\ log[p]

\* A consumer that is started again after each stop commits every message of the
\* partition in the end, malformed ones and duplicates too, up to the first one
\* that its caller refuses.
EverythingCommitted ==
  []<>IsRunning =>
    \A o \in 1 .. MaxSends * MaxAttempts :
      (IsLogged(o) /\ ~IsBlocked(o)) ~> IsCommitted(o)
=============================================================================

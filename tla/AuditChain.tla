----------------------------- MODULE AuditChain -----------------------------
(***************************************************************************)
(* The audit log of src/crates/aether-audit: a hash-linked chain of events *)
(* (chain.rs), the anchors placed along it (anchor.rs) and its two         *)
(* verifiers (verifier.rs).  A hash stands for what it is computed from,   *)
(* which makes it injective.  The stored events may be damaged, as the     *)
(* crate's tests do: the verifiers exist to notice it.                     *)
(***************************************************************************)
EXTENDS Integers, Sequences

CONSTANTS
    Actions,        \* what an event says (actor, action, subject)
    Payloads,
    MaxEvents,      \* bound: events after the genesis
    MaxAnchors      \* AnchorStore.max_anchors

VARIABLES
    events,         \* AuditChain.events
    nextSeq,        \* AuditChain.next_seq
    anchors,        \* AnchorStore.anchors
    damaged         \* the stored field that was damaged, or None
vars == <<events, nextSeq, anchors, damaged>>

None == [at |-> 0, field |-> "none"]

\* compute_hash: the payload's hash is not among what is hashed.
ComputeHash(e) == <<e.seq, e.prev, e.what>>

Sealed(e) == [e EXCEPT !.hash = ComputeHash(e)]

Event(seq, prev, what, payload) ==
    Sealed([seq |-> seq, prev |-> prev, what |-> what, payload |-> payload,
            hash |-> <<>>])

Init ==
    /\ events = <<Event(0, <<>>, "chain.genesis", "none")>>
    /\ nextSeq = 1
    /\ anchors = <<>>
    /\ damaged = None

Last == events[Len(events)]

AppendEvent(what, payload) ==
    /\ Len(events) <= MaxEvents
    /\ events' = Append(events, Event(nextSeq, Last.hash, what, payload))
    /\ nextSeq' = nextSeq + 1
    /\ UNCHANGED <<anchors, damaged>>

\* AnchorStore::anchor drops the oldest one when the store is full.
PlaceAnchor ==
    /\ anchors' = Append(IF Len(anchors) >= MaxAnchors /\ anchors # <<>>
                         THEN Tail(anchors) ELSE anchors,
                         [seq |-> Last.seq, hash |-> Last.hash])
    /\ UNCHANGED <<events, nextSeq, damaged>>

Damage(i, field) ==
    /\ damaged = None
    /\ damaged' = [at |-> i, field |-> field]
    /\ events' = CASE field = "what" -> [events EXCEPT ![i].what = "damaged"]
                   [] field = "payload" -> [events EXCEPT ![i].payload = "damaged"]
                   [] field = "prev" -> [events EXCEPT ![i].prev = <<>>]
                   [] field = "hash" -> [events EXCEPT ![i].hash = <<>>]
                   [] field = "seq" -> [events EXCEPT ![i].seq = @ + 1]
    /\ UNCHANGED <<nextSeq, anchors>>

Next ==
    \/ \E what \in Actions, payload \in Payloads : AppendEvent(what, payload)
    \/ PlaceAnchor
    \/ \E i \in DOMAIN events,
          field \in {"what", "payload", "prev", "hash", "seq"} : Damage(i, field)

Spec == Init /\ [][Next]_vars

-----------------------------------------------------------------------------
(* The verifiers *)

Linked(i) ==
    /\ events[i].seq = events[i - 1].seq + 1
    /\ events[i].prev = events[i - 1].hash

\* Mutant: the hashes are compared and not computed again.
VerifyFullLinks == \A i \in 2..Len(events) : Linked(i)

\* AuditChain::verify; the genesis is taken as it is.
VerifyFull ==
    \A i \in 2..Len(events) :
        Linked(i) /\ ComputeHash(events[i]) = events[i].hash

\* ChainVerifier::verify_incremental: the links after the latest anchor; an
\* anchor at or past the end of the chain is verified at once.
VerifyIncremental ==
    LET anchor == anchors[Len(anchors)] IN
    anchor.seq >= Len(events)
        \/ \A i \in (anchor.seq + 2)..Len(events) : Linked(i)

-----------------------------------------------------------------------------
(* Properties *)

\* An intact chain passes both verifications, at every length and from every
\* anchor; damage to any field the hash covers, in any event after the
\* genesis, is found by the full one; and where the full verification passes
\* the incremental one does too (lib.rs: a tamper-evident append-only log).
AuditSound ==
    /\ damaged = None => VerifyFull
    /\ damaged.at > 1 /\ damaged.field # "payload" => ~VerifyFull
    /\ anchors # <<>> /\ VerifyFull => VerifyIncremental

\* Damage to any field of an event after the genesis is found.  False:
\* compute_hash leaves payload_hash out.
DamageFound == damaged.at > 1 => ~VerifyFull

\* The incremental verification finds what happened to the events since the
\* anchor it starts from.  False: it computes no hash.
RecentDamageFound ==
    anchors # <<>> /\ damaged.at > anchors[Len(anchors)].seq + 1
        /\ damaged.field = "what" => ~VerifyIncremental
=============================================================================

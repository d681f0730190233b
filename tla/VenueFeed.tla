----------------------------- MODULE VenueFeed -----------------------------
(***************************************************************************)
(* The tasks behind StreamTicks, StreamBook and Health of a venue pack     *)
(* (main.rs of Kalshi, Polymarket, Alpaca and Hyperliquid): a source task  *)
(* turns the venue's messages into values, a relay task turns values into  *)
(* answers of the call, channels of bounded size between them and the      *)
(* caller, and one last-tick time for the whole pack, which Health reads.  *)
(*                                                                         *)
(* The unit of time is the staleness limit, and time starts above          *)
(* zero because the last-tick time zero means that there was none.         *)
(***************************************************************************)
EXTENDS Integers, Sequences

CONSTANTS Feeds,          \* calls of StreamTicks and StreamBook
          Books,          \* those of them that are StreamBook
          Capacity, MaxMessages, MaxTime

VARIABLES feed,           \* per call: how far the caller and the two tasks are
          value, answers, \* the two channels
          got,            \* what the caller has read
          made,           \* the values the source has sent
          lastTick, now,
          tickAt,         \* history: when a tick was last made (-1: never)
          probe, health

vars == <<feed, value, answers, got, made, lastTick, now, tickAt, probe, health>>

Fresh   == 1
Unknown == 1000

Init ==
  /\ feed = [f \in Feeds |-> [call |-> "idle", source |-> "off", relay |-> "off"]]
  /\ value = [f \in Feeds |-> << >>] /\ answers = [f \in Feeds |-> << >>]
  /\ got = [f \in Feeds |-> << >>] /\ made = [f \in Feeds |-> 0]
  /\ lastTick = 0 /\ now = 1 /\ tickAt = -1
  /\ probe = "none" /\ health = [status |-> "none", lag |-> Unknown]

-----------------------------------------------------------------------------
(* A call.                                                                 *)

\* A malformed or missing market key refuses the call; otherwise both tasks
\* are started.  Polymarket begins a book with the one of its REST interface.
Starts(f) ==
  /\ feed[f].call = "idle"
  /\ \/ feed' = [feed EXCEPT ![f].call = "refused"]
     \/ \E source \in {"on"} \cup IF f \in Books THEN {"first"} ELSE {} :
          feed' = [feed EXCEPT ![f] = [call |-> "open", source |-> source, relay |-> "on"]]
  /\ UNCHANGED <<value, answers, got, made, lastTick, now, tickAt, probe, health>>

\* Mutant: any value counts as a tick.
TickedAnyTopic(f) == now

\* GrpcProducer: the time of a tick is set before it is sent, whether or not
\* anyone is left to read it; the topic of a book leaves it alone.
Ticked(f) == IF f \in Books THEN lastTick ELSE now

\* The source's send waits for room; without a relay it fails, which ends the
\* source.
Produces(f) ==
  /\ feed[f].source = "on" /\ made[f] < MaxMessages
  /\ feed[f].relay = "on" => Len(value[f]) < Capacity
  /\ lastTick' = Ticked(f)
  /\ tickAt' = IF f \in Books THEN tickAt ELSE now
  /\ made' = [made EXCEPT ![f] = @ + 1]
  /\ IF feed[f].relay = "on"
     THEN value' = [value EXCEPT ![f] = Append(@, made[f] + 1)] /\ UNCHANGED feed
     ELSE feed' = [feed EXCEPT ![f].source = "off"] /\ UNCHANGED value
  /\ UNCHANGED <<answers, got, now, probe, health>>

\* A book that cannot be fetched, normalized or sent is only logged, and the
\* source goes on to the stream.
FirstBook(f) ==
  /\ feed[f].source = "first"
  /\ feed' = [feed EXCEPT ![f].source = "on"]
  /\ \/ UNCHANGED <<value, made>>
     \/ /\ feed[f].relay = "on" /\ Len(value[f]) < Capacity
        /\ made' = [made EXCEPT ![f] = @ + 1]
        /\ value' = [value EXCEPT ![f] = Append(@, made[f] + 1)]
  /\ UNCHANGED <<answers, got, lastTick, now, tickAt, probe, health>>

\* The venue's stream gives up (KalshiStream, PolymarketStream, AlpacaStream,
\* HyperliquidStream say when).
SourceEnds(f) ==
  /\ feed[f].source = "on"
  /\ feed' = [feed EXCEPT ![f].source = "off"]
  /\ UNCHANGED <<value, answers, got, made, lastTick, now, tickAt, probe, health>>

\* Mutant: it stops with the source.
DrainedAtEnd(f) == feed[f].source = "off"

\* A relay goes on until its channel is empty and has no sender.
Drained(f) == feed[f].source = "off" /\ value[f] = << >>

\* It takes a value when there is one, and stops when the caller is gone.
Relay(f) ==
  /\ feed[f].relay = "on"
  /\ IF Drained(f)
     THEN feed' = [feed EXCEPT ![f].relay = "off"] /\ UNCHANGED <<value, answers>>
     ELSE /\ value[f] # << >>
          /\ value' = [value EXCEPT ![f] = IF feed[f].call = "left" THEN << >> ELSE Tail(@)]
          /\ IF feed[f].call = "left"
             THEN feed' = [feed EXCEPT ![f].relay = "off"] /\ UNCHANGED answers
             ELSE /\ Len(answers[f]) < Capacity /\ UNCHANGED feed
                  /\ answers' = [answers EXCEPT ![f] = Append(@, Head(value[f]))]
  /\ UNCHANGED <<got, made, lastTick, now, tickAt, probe, health>>

CallerReads(f) ==
  /\ feed[f].call = "open"
  /\ IF answers[f] # << >>
     THEN /\ got' = [got EXCEPT ![f] = Append(@, Head(answers[f]))]
          /\ answers' = [answers EXCEPT ![f] = Tail(@)] /\ UNCHANGED feed
     ELSE /\ feed[f].relay = "off"
          /\ feed' = [feed EXCEPT ![f].call = "closed"] /\ UNCHANGED <<got, answers>>
  /\ UNCHANGED <<value, made, lastTick, now, tickAt, probe, health>>

CallerLeaves(f) ==
  /\ feed[f].call = "open"
  /\ feed' = [feed EXCEPT ![f].call = "left"]
  /\ answers' = [answers EXCEPT ![f] = << >>]
  /\ UNCHANGED <<value, got, made, lastTick, now, tickAt, probe, health>>

-----------------------------------------------------------------------------
(* Health.                                                                 *)

\* The probe of the venue's REST interface: one request.
Probe ==
  /\ probe = "none"
  /\ \E p \in {"ok", "degraded", "down"} : probe' = p
  /\ UNCHANGED <<feed, value, answers, got, made, lastTick, now, tickAt, health>>

\* apply_tick_health: whatever a live probe said, the last tick decides.
TickHealth == IF lastTick <= 0 THEN [status |-> "degraded", lag |-> Unknown]
              ELSE [status |-> IF now - lastTick <= Fresh THEN "ok" ELSE "degraded",
                    lag |-> now - lastTick]

\* The tick time and the clock are read after the probe's answer.
Health ==
  /\ probe # "none"
  /\ probe' = "none"
  /\ health' = IF probe = "down" THEN [status |-> "down", lag |-> 0] ELSE TickHealth
  /\ UNCHANGED <<feed, value, answers, got, made, lastTick, now, tickAt>>

Tick ==
  /\ now < MaxTime
  /\ now' = now + 1
  /\ UNCHANGED <<feed, value, answers, got, made, lastTick, tickAt, probe, health>>

Next ==
  \/ \E f \in Feeds : Starts(f) \/ FirstBook(f) \/ Produces(f) \/ SourceEnds(f) \/ Relay(f)
                      \/ CallerReads(f) \/ CallerLeaves(f)
  \/ Probe \/ Health \/ Tick

Spec == Init /\ [][Next]_vars

-----------------------------------------------------------------------------
TypeOK ==
  /\ feed \in [Feeds -> [call : {"idle", "refused", "open", "left", "closed"},
                         source : {"first", "on", "off"}, relay : {"on", "off"}]]
  /\ \A f \in Feeds : Len(value[f]) <= Capacity /\ Len(answers[f]) <= Capacity
  /\ made \in [Feeds -> 0 .. MaxMessages]
  /\ lastTick \in 0 .. MaxTime /\ tickAt \in -1 .. MaxTime /\ now \in 1 .. MaxTime

\* What the caller has read, then what waits in the two channels, is what the
\* source sent, in its order and with nothing missing; and a caller that sees
\* the end has read all of it, though the source ended before the relay did.
NothingLostOnTheWay ==
  \A f \in Feeds :
    /\ feed[f].call = "open" => got[f] \o answers[f] \o value[f] = [i \in 1 .. made[f] |-> i]
    /\ feed[f].call = "closed" => got[f] = [i \in 1 .. made[f] |-> i]

\* A pack never reports itself healthy unless a tick, and not only a book, was
\* made within the limit before the report, whichever of its feeds still run.
TruthfulStep ==
  health' # health /\ health'.status = "ok" => tickAt >= 0 /\ now - tickAt <= Fresh

\* As a property of behaviours.
HealthTruthful == [][TruthfulStep]_vars
=============================================================================

----------------------------- MODULE LlmRouting -----------------------------
(***************************************************************************)
(* server/llm_router: a completion is tried with the model policy it asks  *)
(* for and then with the fallbacks of that policy, as long as the errors   *)
(* are transient (fallback); each try looks into the prompt cache, checks  *)
(* that the provider is configured, calls it, caches the answer and writes *)
(* one accounting row (router, cache, accounting).  A caller waits for a   *)
(* time and, when it gives up, does not ask again for a while (client).    *)
(***************************************************************************)
EXTENDS Naturals, Sequences, FiniteSetsExt

CONSTANTS Requests,     \* completions with the same prompt and purpose
          Policies,
          Chain,          \* policy -> its fallbacks
          Configured,     \* policies whose provider has its key
          MaxFaults       \* bound on failures of the store and outages seen by a client

VARIABLES request, cache,
          redis,          \* _redis_available
          client,         \* FALSE while the caller's process backs off
          rows,           \* [policy, hit] -> accounting rows
          faults

vars == <<request, cache, redis, client, rows, faults>>

Init ==
  /\ request = [r \in Requests |-> [at |-> "new", todo |-> <<>>, tried |-> <<>>, answer |-> "none",
                                    by |-> "none", gone |-> FALSE]]
  /\ cache = [p \in Policies |-> "none"]
  /\ redis = "unknown" /\ client = TRUE
  /\ rows = [p \in Policies |-> [hit |-> 0, call |-> 0]] /\ faults = 0

Update(r, updates) == request' = [request EXCEPT ![r] = updates]
Current(r) == Head(request[r].todo)

\* complete_with_fallback() begins; a client that backs off does not ask.
Ask(r) ==
  /\ request[r].at = "new"
  /\ \E p \in Policies :
       Update(r, IF client THEN [request[r] EXCEPT !.at = "look", !.todo = <<p>> \o Chain[p]]
                 ELSE [request[r] EXCEPT !.at = "done", !.answer = "unavailable"])
  /\ UNCHANGED <<cache, redis, client, rows, faults>>

-----------------------------------------------------------------------------
\* Mutant: the key is that of the prompt alone.
CacheKeyPrompt(policy) == CHOOSE p \in Policies : TRUE

\* _cache_key(): the policy is part of it.
CacheKey(policy) == policy

Record(policy, kind) == rows' = [rows EXCEPT ![policy][kind] = @ + 1]

Answer(r, kind, by) ==
  Update(r, [request[r] EXCEPT !.at = "done", !.answer = kind, !.by = by])

\* get_cached_response(): Redis is tried once and, after an error, not again.
Look(r) ==
  LET p == Current(r) IN
    /\ request[r].at = "look"
    /\ \/ /\ redis # "down" /\ redis' = "up" /\ UNCHANGED faults
          /\ IF cache[CacheKey(p)] # "none"
               THEN Answer(r, "ok", cache[CacheKey(p)]) /\ Record(p, "hit")
               ELSE Update(r, [request[r] EXCEPT !.at = "call"]) /\ UNCHANGED rows
       \/ /\ IF redis = "down" THEN UNCHANGED faults
             ELSE faults < MaxFaults /\ faults' = faults + 1
          /\ redis' = "down"
          /\ Update(r, [request[r] EXCEPT !.at = "call"]) /\ UNCHANGED rows
    /\ UNCHANGED <<cache, client>>

\* Mutant: an error that will not go away is handed to the next provider.
ClassifyAllTransient(error) == "transient"

\* _classify_error() is given the name of the exception, in which it looks for
\* the words of a message: those of a context error are not in it.
Classify(error) == IF error \in {"auth", "no key"} THEN "fatal" ELSE "transient"

\* The next policy of the chain, or the end of it.
NextPolicy(r, error) ==
  LET s == request[r]
      tried == Append(s.tried, <<Current(r), error>>)
  IN IF Classify(error) = "fatal"
       THEN [s EXCEPT !.at = "done", !.answer = "refused", !.tried = tried]
       ELSE [s EXCEPT !.at = IF Len(s.todo) = 1 THEN "done" ELSE "look", !.todo = Tail(@),
                      !.tried = tried,
                      !.answer = IF Len(s.todo) = 1 THEN "exhausted" ELSE @]

\* acompletion(), or no key to call it with.
Call(r) ==
  LET p == Current(r) IN
    /\ request[r].at = "call"
    /\ \/ /\ p \in Configured /\ Update(r, [request[r] EXCEPT !.at = "store", !.by = p])
          /\ UNCHANGED rows
       \/ \E error \in IF p \in Configured THEN {"auth", "timeout", "context"} ELSE {"no key"} :
            Update(r, NextPolicy(r, error)) /\ Record(p, "call")
    /\ UNCHANGED <<cache, redis, client, faults>>

\* set_cached_response(), best effort, and then the row and the answer.
Store(r) ==
  LET p == Current(r) IN
    /\ request[r].at = "store"
    /\ cache' \in IF redis = "down" THEN {cache} ELSE {[cache EXCEPT ![CacheKey(p)] = p], cache}
    /\ Answer(r, "ok", p) /\ Record(p, "call")
    /\ UNCHANGED <<redis, client, faults>>

Expires ==
  /\ \E p \in Policies : cache[p] # "none" /\ cache' = [cache EXCEPT ![p] = "none"]
  /\ UNCHANGED <<request, redis, client, rows, faults>>

-----------------------------------------------------------------------------
\* The client gives up and backs off, for all its callers; the router goes on.
GivesUp(r) ==
  /\ request[r].at \notin {"new", "done"} /\ ~request[r].gone
  /\ faults < MaxFaults /\ faults' = faults + 1
  /\ Update(r, [request[r] EXCEPT !.gone = TRUE]) /\ client' = FALSE
  /\ UNCHANGED <<cache, redis, rows>>

BackoffEnds ==
  /\ ~client /\ client' = TRUE
  /\ UNCHANGED <<request, cache, redis, rows, faults>>

Next ==
  \/ \E r \in Requests : Ask(r) \/ Look(r) \/ Call(r) \/ Store(r) \/ GivesUp(r)
  \/ Expires \/ BackoffEnds

Spec == Init /\ [][Next]_vars

-----------------------------------------------------------------------------
Errors(r) == {request[r].tried[i][2] : i \in DOMAIN request[r].tried}

\* An answer, from the cache or not, was given by the provider of the policy
\* it is reported for, the first of the chain that did not fail; no provider is
\* tried after one that refused, and all of them before the request is called
\* exhausted; and every try has its accounting row.
RoutingSound ==
  /\ MapThenSumSet(LAMBDA p : rows[p].hit + rows[p].call, Policies)
       = MapThenSumSet(LAMBDA r : Len(request[r].tried) + IF request[r].answer = "ok" THEN 1 ELSE 0,
                       Requests)
  /\ \A r \in Requests :
    LET s == request[r] IN
      /\ s.answer = "ok" => s.by = Current(r)
      /\ Errors(r) \cap {"auth", "no key"} # {} =>
           s.answer = "refused" /\ s.tried[Len(s.tried)][2] \in {"auth", "no key"}
      /\ s.answer = "exhausted" => Len(s.tried) = 1 + Len(Chain[s.tried[1][1]])

\* "Context length exceeded - input too large, do NOT fallback" (fallback.py).
ContextEndsChain ==
  \A r \in Requests : \A i \in DOMAIN request[r].tried :
    request[r].tried[i][2] = "context" => i = Len(request[r].tried) /\ request[r].at = "done"
=============================================================================

---------------------------- MODULE Idempotency ----------------------------
(***************************************************************************)
(* pkg/middleware/idempotency.go as cmd/server/main.go composes it: POST   *)
(* and PUT requests that carry an X-Idempotency-Key go through an in-      *)
(* memory cache of 2xx responses. The cache is looked up BEFORE the        *)
(* handler runs and written AFTER it; nothing marks a key as being worked  *)
(* on. The gable client (packages/gable-client) sends the key and, when an *)
(* answer never comes, its caller may send the request again under the     *)
(* same key.                                                               *)
(*                                                                         *)
(* The cache keeps its promise only for a key it has vouched for without a *)
(* break. lapsed, a history variable, collects the keys for which it has   *)
(* not: two of their requests overlapped, or the response of one expired,  *)
(* was lost in a restart or found the cache full.                          *)
(***************************************************************************)
EXTENDS Integers, FiniteSets

CONSTANTS Requests,    \* HTTP requests, each sent at most once
          Caller,      \* Caller[r]: the principal of request r
          ClientKey,   \* ClientKey[r]: its X-Idempotency-Key
          Covered,     \* the requests that are POST or PUT and carry a key
          NoEntry,
          MaxEntries,  \* maxEntries
          MaxRestarts  \* bound: restarts of the process

ASSUME IdempotencyAssumption ==
    /\ Covered \subseteq Requests
    /\ NoEntry \notin Requests
    /\ MaxEntries \in Nat /\ MaxRestarts \in Nat

VARIABLES stage,    \* stage[r]: where request r is in the middleware
          entries,  \* entries[k]: the request whose response is cached under k
          expired,  \* the keys whose entry is past its TTL
          effects,  \* the requests whose handler ran to a 2xx response
          answer,   \* answer[r]: the request whose response r was given
          restarts,
          lapsed    \* history: the keys the cache could not vouch for

vars == <<stage, entries, expired, effects, answer, restarts, lapsed>>

\* principalScope(r) + "\x00" + clientKey. The auth middleware runs inside this
\* one, so principalScope finds neither claims nor tenant in the context and
\* answers "anon" whoever sends r: the key is the client's alone.
Key(r) == ClientKey[r]
Keys   == {Key(r) : r \in Requests}

Stages == {"unsent", "lookup", "handler", "store", "answered", "failed"}

Init == /\ stage    = [r \in Requests |-> "unsent"]
        /\ entries  = [k \in Keys |-> NoEntry]
        /\ expired  = {}
        /\ effects  = {}
        /\ answer   = [r \in Requests |-> NoEntry]
        /\ restarts = 0
        /\ lapsed   = {}

Moves(r, s) == stage' = [stage EXCEPT ![r] = s]

InFlight(r) == stage[r] \in {"lookup", "handler", "store"}

\* The covered requests in flight under the key of r.
Rivals(r) == {q \in Covered \ {r} : Key(q) = Key(r) /\ InFlight(q)}

\* The client sends r, whether or not another request with its key has ended.
Send(r) ==
    /\ stage[r] = "unsent"
    /\ Moves(r, IF r \in Covered THEN "lookup" ELSE "handler")
    /\ lapsed' = IF r \in Covered /\ Rivals(r) # {} THEN lapsed \cup {Key(r)} ELSE lapsed
    /\ UNCHANGED <<entries, expired, effects, answer, restarts>>

\* store.get and, on a hit, the replay.
Lookup(r) ==
    LET k == Key(r)
    IN  /\ stage[r] = "lookup"
        /\ IF entries[k] # NoEntry /\ k \notin expired
           THEN /\ answer' = [answer EXCEPT ![r] = entries[k]]
                /\ Moves(r, "answered")
           ELSE UNCHANGED answer /\ Moves(r, "handler")
        /\ UNCHANGED <<entries, expired, effects, restarts, lapsed>>

\* next.ServeHTTP with a 2xx response: the business transaction committed.
HandlerSucceeds(r) ==
    /\ stage[r] = "handler"
    /\ effects' = effects \cup {r}
    /\ answer'  = [answer EXCEPT ![r] = r]
    /\ Moves(r, IF r \in Covered THEN "store" ELSE "answered")
    /\ UNCHANGED <<entries, expired, restarts, lapsed>>

\* Mutant: a response is cached whatever its status.
HandlerFailsCached(r) ==
    /\ stage[r] = "handler"
    /\ Moves(r, IF r \in Covered THEN "store" ELSE "failed")
    /\ UNCHANGED <<entries, expired, effects, answer, restarts, lapsed>>

\* Any other status, that of a request the auth middleware refuses included:
\* not cached.
HandlerFails(r) ==
    /\ stage[r] = "handler"
    /\ Moves(r, "failed")
    /\ UNCHANGED <<entries, expired, effects, answer, restarts, lapsed>>

Cached == {k \in Keys : entries[k] # NoEntry}

\* Mutant: the last place of the cache is never used.
StoreShort(r) ==
    /\ stage[r] = "store"
    /\ IF Cardinality(Cached) + 1 >= MaxEntries
       THEN /\ lapsed' = IF Cardinality(Cached) >= MaxEntries THEN lapsed \cup {Key(r)} ELSE lapsed
            /\ UNCHANGED <<entries, expired>>
       ELSE /\ entries' = [entries EXCEPT ![Key(r)] = r]
            /\ expired' = expired \ {Key(r)}
            /\ UNCHANGED lapsed
    /\ Moves(r, "answered")
    /\ UNCHANGED <<effects, answer, restarts>>

\* store.set: silently skipped at capacity, even for a key already there.
Store(r) ==
    /\ stage[r] = "store"
    /\ IF Cardinality(Cached) >= MaxEntries
       THEN lapsed' = lapsed \cup {Key(r)} /\ UNCHANGED <<entries, expired>>
       ELSE /\ entries' = [entries EXCEPT ![Key(r)] = r]
            /\ expired' = expired \ {Key(r)}
            /\ UNCHANGED lapsed
    /\ Moves(r, "answered")
    /\ UNCHANGED <<effects, answer, restarts>>

\* 24 hours pass for the entry of k.
Expire(k) ==
    /\ k \in Cached \ expired
    /\ expired' = expired \cup {k}
    /\ lapsed'  = lapsed \cup {k}
    /\ UNCHANGED <<stage, entries, effects, answer, restarts>>

\* The sweep of the expired entries, every ten minutes.
Cleanup ==
    /\ expired # {}
    /\ entries' = [k \in Keys |-> IF k \in expired THEN NoEntry ELSE entries[k]]
    /\ expired' = {}
    /\ UNCHANGED <<stage, effects, answer, restarts, lapsed>>

\* The process restarts: the cache is gone and so are the requests in flight,
\* with or without their effect.
Restart ==
    /\ restarts < MaxRestarts
    /\ restarts' = restarts + 1
    /\ entries'  = [k \in Keys |-> NoEntry]
    /\ expired'  = {}
    /\ stage'    = [r \in Requests |-> IF InFlight(r) THEN "failed" ELSE stage[r]]
    /\ lapsed'   = lapsed \cup {Key(r) : r \in effects}
    /\ UNCHANGED <<effects, answer>>

Next == \/ \E r \in Requests : \/ Send(r) \/ Lookup(r)
                               \/ HandlerSucceeds(r) \/ HandlerFails(r) \/ Store(r)
        \/ \E k \in Keys : Expire(k)
        \/ Cleanup
        \/ Restart

Spec == Init /\ [][Next]_vars

-----------------------------------------------------------------------------
(* Properties.                                                             *)

TypeOK ==
    /\ stage \in [Requests -> Stages]
    /\ entries \in [Keys -> Requests \cup {NoEntry}]
    /\ expired \subseteq Cached
    /\ effects \subseteq Requests
    /\ answer \in [Requests -> Requests \cup {NoEntry}]
    /\ restarts \in Nat
    /\ lapsed \subseteq Keys

\* Requests that carry one key make gable do the work at most once, as long as
\* the cache vouched for the key: a retry sent after its predecessor ended, with
\* or without an answer, is never executed again after a success.
ExecutedOnce ==
    \A q, r \in effects \cap Covered : Key(q) = Key(r) /\ Key(r) \notin lapsed => q = r

\* Whatever expires, overlaps or restarts, a request is only ever given the
\* response of a request with its key that really succeeded, never a failure;
\* and all the requests of a key the cache vouched for are given the same one.
OneAnswer ==
    \A r \in Covered : answer[r] # NoEntry =>
        /\ answer[r] \in effects /\ Key(answer[r]) = Key(r)
        /\ \A q \in Covered :
              answer[q] # NoEntry /\ Key(q) = Key(r) /\ Key(r) \notin lapsed
                  => answer[q] = answer[r]

\* What the comment on principalScope promises: a caller is never given the
\* response of another caller who used the same key.
OwnResponse ==
    \A r \in Requests : answer[r] # NoEntry => Caller[answer[r]] = Caller[r]
=============================================================================

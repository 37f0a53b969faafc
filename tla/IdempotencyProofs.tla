------------------------- MODULE IdempotencyProofs -------------------------
(***************************************************************************)
(* What the idempotency cache guarantees for any number of requests, keys, *)
(* places in the cache and restarts, whatever overlaps and expires. It is  *)
(* an exactly-once cache for the keys it has vouched for without a break,  *)
(* and an honest one for all of them.                                      *)
(***************************************************************************)
EXTENDS Idempotency, TLAPS

\* The covered requests whose work was done.
Done == effects \cap Covered

\* A cached response, and one that a request was given, is of a request with
\* that key that succeeded; so is a response about to be stored.
Honest ==
    /\ \A k \in Keys : entries[k] # NoEntry => entries[k] \in Done /\ Key(entries[k]) = k
    /\ \A r \in Covered : answer[r] # NoEntry => answer[r] \in Done /\ Key(answer[r]) = Key(r)
    /\ \A r \in Covered : stage[r] = "store" => r \in effects
    /\ \A r \in Requests \ Covered : stage[r] \notin {"lookup", "store"}

\* Of a key the cache vouches for, one request is in flight; once its work is
\* done the response is about to be stored or is there and not past its TTL; and
\* a request goes on to its handler only while the work is not done.
Vouched ==
    /\ expired \subseteq lapsed
    /\ \A q, r \in Covered :
          InFlight(q) /\ InFlight(r) /\ Key(q) = Key(r) /\ Key(r) \notin lapsed => q = r
    /\ \A r \in Done : Key(r) \notin lapsed => stage[r] = "store" \/ entries[Key(r)] # NoEntry
    /\ \A r \in Covered : stage[r] = "handler" /\ Key(r) \notin lapsed
                              => \A q \in Done : Key(q) # Key(r)

IInv == /\ TypeOK
        /\ Honest
        /\ Vouched
        /\ ExecutedOnce

USE IdempotencyAssumption

-----------------------------------------------------------------------------
\* The initial state satisfies the invariant.
LEMMA InitIInv == Init => IInv
<1> QED
  BY DEF Init, IInv, TypeOK, Honest, Vouched, ExecutedOnce, Done, Stages, Cached, InFlight

\* A key belongs to the request that carries it, in every state.
LEMMA KeyFacts == /\ \A r \in Requests : Key(r) \in Keys
                  /\ \A r \in Requests : Key(r)' = Key(r)
<1> QED
  BY DEF Keys, Key

\* Every step of the middleware preserves the invariant.
LEMMA NextIInv == IInv /\ [Next]_vars => IInv'
<1> SUFFICES ASSUME IInv, [Next]_vars PROVE IInv'
  OBVIOUS
<1> USE KeyFacts DEF IInv
<1>1. ASSUME NEW r \in Requests, Send(r) PROVE IInv'
  <2> USE <1>1 DEF Send, Moves
  <2>1. TypeOK'
    BY DEF TypeOK, Cached, Stages
  <2>2. Honest'
    BY DEF TypeOK, Honest, Done
  <2>3. lapsed \subseteq lapsed'
    OBVIOUS
  \* Whoever is in flight under the key of r makes it lapse.
  <2>4. Vouched'
    BY <2>3 DEF TypeOK, Vouched, Done, Rivals, InFlight
  <2>5. ExecutedOnce'
    BY <2>3 DEF ExecutedOnce
  <2> QED
    BY <2>1, <2>2, <2>4, <2>5
<1>2. ASSUME NEW r \in Requests, Lookup(r) PROVE IInv'
  <2> USE <1>2 DEF Lookup, Moves
  <2>1. TypeOK'
    BY DEF TypeOK, Cached, Stages
  <2>2. Honest'
    BY DEF TypeOK, Honest, Done
  \* A miss under a key vouched for: its work is not done.
  <2>3. Vouched'
    BY DEF TypeOK, Honest, Vouched, Done, InFlight
  <2>4. ExecutedOnce'
    BY DEF ExecutedOnce
  <2> QED
    BY <2>1, <2>2, <2>3, <2>4
<1>3. ASSUME NEW r \in Requests, HandlerSucceeds(r) PROVE IInv'
  <2> USE <1>3 DEF HandlerSucceeds, Moves
  <2>1. TypeOK'
    BY DEF TypeOK, Cached, Stages
  <2>2. Honest'
    BY DEF TypeOK, Honest, Done
  <2>3. Vouched'
    BY DEF TypeOK, Vouched, Done, InFlight
  <2>4. ExecutedOnce'
    BY DEF ExecutedOnce, Vouched, Done
  <2> QED
    BY <2>1, <2>2, <2>3, <2>4
<1>4. ASSUME NEW r \in Requests, HandlerFails(r) PROVE IInv'
  <2> USE <1>4 DEF HandlerFails, Moves
  <2>1. TypeOK'
    BY DEF TypeOK, Cached, Stages
  <2>2. Honest'
    BY DEF TypeOK, Honest, Done
  <2>3. Vouched'
    BY DEF TypeOK, Vouched, Done, InFlight
  <2>4. ExecutedOnce'
    BY DEF ExecutedOnce
  <2> QED
    BY <2>1, <2>2, <2>3, <2>4
<1>5. ASSUME NEW r \in Requests, Store(r) PROVE IInv'
  <2> USE <1>5 DEF Store, Moves
  <2>1. TypeOK'
    BY DEF TypeOK, Cached, Stages
  <2>2. Honest'
    BY DEF TypeOK, Honest, Done
  \* The response is there now, or the key has lapsed for want of room.
  <2>3. Vouched'
    BY DEF TypeOK, Honest, Vouched, Done, InFlight
  <2>4. ExecutedOnce'
    BY DEF ExecutedOnce
  <2> QED
    BY <2>1, <2>2, <2>3, <2>4
<1>6. ASSUME NEW k \in Keys, Expire(k) PROVE IInv'
  <2> USE <1>6 DEF Expire
  <2>1. TypeOK' /\ Honest'
    BY DEF TypeOK, Cached, Honest, Done
  <2>2. Vouched' /\ ExecutedOnce'
    BY DEF Vouched, Done, InFlight, ExecutedOnce
  <2> QED
    BY <2>1, <2>2
<1>7. CASE Cleanup
  <2> USE <1>7 DEF Cleanup
  <2>1. TypeOK' /\ Honest'
    BY DEF TypeOK, Cached, Honest, Done
  <2>2. Vouched' /\ ExecutedOnce'
    BY DEF Vouched, Done, InFlight, ExecutedOnce
  <2> QED
    BY <2>1, <2>2
<1>8. CASE Restart
  <2> USE <1>8 DEF Restart
  <2>1. TypeOK' /\ Honest'
    BY DEF TypeOK, Cached, Honest, Done, Stages, InFlight
  <2>2. Vouched' /\ ExecutedOnce'
    BY DEF TypeOK, Vouched, Done, InFlight, ExecutedOnce
  <2> QED
    BY <2>1, <2>2
<1>9. CASE UNCHANGED vars
  BY <1>9 DEF vars, TypeOK, Cached, Honest, Vouched, Done, InFlight, ExecutedOnce
<1> QED
  BY <1>1, <1>2, <1>3, <1>4, <1>5, <1>6, <1>7, <1>8, <1>9 DEF Next

\* The invariant holds in every reachable state.
THEOREM IInvHolds == Spec => []IInv
<1> QED
  BY InitIInv, NextIInv, PTL DEF Spec

\* The variables have their types in every reachable state of the middleware.
THEOREM Typed == Spec => []TypeOK
<1> QED
  BY IInvHolds, PTL DEF IInv

\* Requests that carry one key make gable do the work at most once, as long as
\* no two of them overlap and the response of the first stays in the cache.
THEOREM ExecutedOnceHolds == Spec => []ExecutedOnce
<1> QED
  BY IInvHolds, PTL DEF IInv

\* A request is only ever given the response of a request with its key that
\* succeeded, and all those of a key the cache vouched for the same one.
THEOREM OneAnswerHolds == Spec => []OneAnswer
<1>1. IInv => OneAnswer
  <2> SUFFICES ASSUME IInv, NEW r \in Covered, answer[r] # NoEntry
               PROVE  /\ answer[r] \in effects /\ Key(answer[r]) = Key(r)
                      /\ \A q \in Covered :
                            answer[q] # NoEntry /\ Key(q) = Key(r) /\ Key(r) \notin lapsed
                                => answer[q] = answer[r]
    BY DEF OneAnswer
  <2>1. answer[r] \in Done /\ Key(answer[r]) = Key(r)
    BY DEF IInv, Honest
  <2>2. ASSUME NEW q \in Covered, answer[q] # NoEntry, Key(q) = Key(r), Key(r) \notin lapsed
        PROVE  answer[q] = answer[r]
    <3>1. answer[q] \in Done /\ Key(answer[q]) = Key(q)
      BY <2>2 DEF IInv, Honest
    <3> QED
      BY <2>1, <2>2, <3>1 DEF IInv, ExecutedOnce, Done
  <2> QED
    BY <2>1, <2>2 DEF Done
<1> QED
  BY <1>1, IInvHolds, PTL
=============================================================================

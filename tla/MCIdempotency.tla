--------------------------- MODULE MCIdempotency ---------------------------
(* Two callers that happen to use the same key, one of them with a retry,  *)
(* and a request that carries no key.                                      *)
EXTENDS Idempotency, TLC

CONSTANTS a1, a2, b1, b2, n1, alice, bob, key, other, none

mcCaller == (a1 :> alice) @@ (a2 :> alice) @@ (b1 :> bob) @@ (b2 :> bob) @@ (n1 :> alice)
mcClientKey == (a1 :> key) @@ (a2 :> key) @@ (b1 :> key) @@ (b2 :> other) @@ (n1 :> none)
=============================================================================

----------------------------- MODULE MCEventPub -----------------------------
(* A small instance of EventPub: more events than the queue holds.          *)
EXTENDS EventPub, TLC

Symmetry == Permutations(Events)
=============================================================================

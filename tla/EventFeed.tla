----------------------------- MODULE EventFeed -----------------------------
(***************************************************************************)
(* What the package comment of pkg/eventpub promises of the event backbone *)
(* (ADR 0001): publishing is at-most-once. An accepted event is appended   *)
(* to the collection once or lost. The events that are heard of on time    *)
(* are appended in the order they were accepted; one whose answer was not  *)
(* waited for may come late. Nothing else ever changes the collection.     *)
(***************************************************************************)
EXTENDS Sequences

CONSTANT Events     \* the events ever published, one per Publish call

VARIABLES accepted, \* the events that ever entered the publisher's queue
          pending,  \* the accepted events whose fate is open, oldest first
          late,     \* the events given up that may still be appended
          log       \* the documents of the collection, in insertion order

feedVars == <<accepted, pending, late, log>>

Init == accepted = {} /\ pending = <<>> /\ late = {} /\ log = <<>>

Accept(e) == /\ e \notin accepted
             /\ accepted' = accepted \cup {e}
             /\ pending'  = Append(pending, e)
             /\ UNCHANGED <<late, log>>

Deliver == /\ pending # <<>>
           /\ log'     = Append(log, Head(pending))
           /\ pending' = Tail(pending)
           /\ UNCHANGED <<accepted, late>>

\* The oldest event is given up: it is lost, or may come late.
GiveUp == /\ pending # <<>>
          /\ pending' = Tail(pending)
          /\ late' \in {late, late \cup {Head(pending)}}
          /\ UNCHANGED <<accepted, log>>

\* A restart gives up what is in memory; at most the oldest event had been sent.
GiveUpAll == /\ pending # <<>>
             /\ pending' = <<>>
             /\ late' \in {late, late \cup {Head(pending)}}
             /\ UNCHANGED <<accepted, log>>

ComesLate(e) == /\ e \in late
                /\ late' = late \ {e}
                /\ log'  = Append(log, e)
                /\ UNCHANGED <<accepted, pending>>

Next == \/ \E e \in Events : Accept(e) \/ ComesLate(e)
        \/ Deliver \/ GiveUp \/ GiveUpAll

Spec == Init /\ [][Next]_feedVars
=============================================================================

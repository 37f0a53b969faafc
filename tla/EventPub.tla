------------------------------ MODULE EventPub ------------------------------
(***************************************************************************)
(* The outbound publisher of pkg/eventpub: request goroutines call Publish, *)
(* one drainer goroutine posts the queued events to the Appwrite events     *)
(* collection, and Stop may be called while both run. The queue is a        *)
(* buffered Go channel; sending on a closed channel panics.                 *)
(***************************************************************************)
EXTENDS Integers, Sequences

CONSTANTS Events,     \* one per Publish call ever made
          NoEvent,
          QueueSize,  \* queueSize
          MayStop,    \* TRUE: somebody calls Stop
          MaxRestarts \* bound: restarts of the process

ASSUME EventPubAssumption ==
    /\ NoEvent \notin Events
    /\ QueueSize \in Nat \ {0}
    /\ MayStop \in BOOLEAN
    /\ MaxRestarts \in Nat

VARIABLES publish,  \* publish[e]: where the Publish call of e is
          queue,    \* the channel's buffer
          closed,   \* close(p.queue) was called
          stopped,  \* p.stopped
          stop,     \* where the Stop call is
          drainer,  \* where the drainer goroutine is
          posting,  \* the event in its hands
          sent, dropped, \* the counters of Stats
          log,      \* the documents created in the collection
          late,     \* events whose POST was given up; the collection may still act on it
          restarts

callVars  == <<publish, stop, restarts>>
chanVars  == <<queue, closed, stopped>>
drainVars == <<drainer, posting, sent, log, late>>
vars      == <<callVars, chanVars, drainVars, dropped>>

PublishStates == {"idle", "checked", "queued", "dropped", "ignored", "panicked", "lost"}

Init == /\ publish  = [e \in Events |-> "idle"]
        /\ queue    = <<>>
        /\ closed   = FALSE
        /\ stopped  = FALSE
        /\ stop     = "idle"
        /\ drainer  = "receiving"
        /\ posting  = NoEvent
        /\ sent     = 0
        /\ dropped  = 0
        /\ log      = <<>>
        /\ late     = {}
        /\ restarts = 0

Calls(e, state) == publish' = [publish EXCEPT ![e] = state]

-----------------------------------------------------------------------------
(* Publish, in two steps: p.stopped is loaded first, the select comes after *)
(* the envelope is built, and nothing excludes Stop in between.             *)

LoadStopped(e) ==
    /\ publish[e] = "idle"
    /\ Calls(e, IF stopped THEN "ignored" ELSE "checked")
    /\ UNCHANGED <<stop, restarts, chanVars, drainVars, dropped>>

Enqueue(e) ==
    /\ publish[e] = "checked"
    /\ ~closed
    /\ Len(queue) < QueueSize
    /\ queue' = Append(queue, e)
    /\ Calls(e, "queued")
    /\ UNCHANGED <<stop, restarts, closed, stopped, drainVars, dropped>>

\* The default case of the select.
Drop(e) ==
    /\ publish[e] = "checked"
    /\ ~closed
    /\ Len(queue) = QueueSize
    /\ dropped' = dropped + 1
    /\ Calls(e, "dropped")
    /\ UNCHANGED <<stop, restarts, chanVars, drainVars>>

SendOnClosed(e) ==
    /\ publish[e] = "checked"
    /\ closed
    /\ Calls(e, "panicked")
    /\ UNCHANGED <<stop, restarts, chanVars, drainVars, dropped>>

-----------------------------------------------------------------------------
(* drain and post.                                                          *)

\* Mutant: the newest event is posted first.
ReceiveNewest ==
    /\ drainer = "receiving"
    /\ queue # <<>>
    /\ posting' = queue[Len(queue)]
    /\ queue'   = SubSeq(queue, 1, Len(queue) - 1)
    /\ drainer' = "posting"
    /\ UNCHANGED <<callVars, closed, stopped, sent, log, late, dropped>>

Receive ==
    /\ drainer = "receiving"
    /\ queue # <<>>
    /\ posting' = Head(queue)
    /\ queue'   = Tail(queue)
    /\ drainer' = "posting"
    /\ UNCHANGED <<callVars, closed, stopped, sent, log, late, dropped>>

\* Mutant: the drainer exits as soon as the channel is closed.
DrainerExitsEarly ==
    /\ drainer = "receiving"
    /\ closed
    /\ drainer' = "exited"
    /\ UNCHANGED <<callVars, chanVars, posting, sent, log, late, dropped>>

\* The range loop ends once the channel is closed AND its buffer is empty.
DrainerExits ==
    /\ drainer = "receiving"
    /\ queue = <<>>
    /\ closed
    /\ drainer' = "exited"
    /\ UNCHANGED <<callVars, chanVars, posting, sent, log, late, dropped>>

\* Mutant: a POST whose answer is lost is tried again.
PostEndsRetrying(received, heard) ==
    /\ drainer = "posting"
    /\ heard => received
    /\ log'  = IF heard THEN Append(log, posting) ELSE log
    /\ late' = IF received /\ ~heard THEN late \cup {posting} ELSE late
    /\ sent' = IF heard THEN sent + 1 ELSE sent
    /\ posting' = IF heard THEN NoEvent ELSE posting
    /\ drainer' = IF heard THEN "receiving" ELSE "posting"
    /\ UNCHANGED <<callVars, chanVars, dropped>>

\* Mutant: a POST is counted whatever becomes of it.
PostEndsCounting(received, heard) ==
    /\ drainer = "posting"
    /\ heard => received
    /\ log'  = IF heard THEN Append(log, posting) ELSE log
    /\ late' = IF received /\ ~heard THEN late \cup {posting} ELSE late
    /\ sent' = sent + 1
    /\ posting' = NoEvent
    /\ drainer' = "receiving"
    /\ UNCHANGED <<callVars, chanVars, dropped>>

\* Mutant: the drainer returns on the first failed POST.
PostEndsForGood(received, heard) ==
    /\ drainer = "posting"
    /\ heard => received
    /\ log'  = IF heard THEN Append(log, posting) ELSE log
    /\ late' = IF received /\ ~heard THEN late \cup {posting} ELSE late
    /\ sent' = IF heard THEN sent + 1 ELSE sent
    /\ posting' = NoEvent
    /\ drainer' = IF heard THEN "receiving" ELSE "exited"
    /\ UNCHANGED <<callVars, chanVars, dropped>>

\* The POST ends: with a 2xx answer, with a failure, or without an answer (the
\* 5 s timeout, a broken connection) although the collection has the request.
\* There is no retry.
PostEnds(received, heard) ==
    /\ drainer = "posting"
    /\ heard => received
    /\ log'  = IF heard THEN Append(log, posting) ELSE log
    /\ late' = IF received /\ ~heard THEN late \cup {posting} ELSE late
    /\ sent' = IF heard THEN sent + 1 ELSE sent
    /\ posting' = NoEvent
    /\ drainer' = "receiving"
    /\ UNCHANGED <<callVars, chanVars, dropped>>

\* The collection acts on a request the drainer has given up: now, later, after
\* documents of later events, or never.
LateDocument(e) ==
    /\ e \in late
    /\ log'  = Append(log, e)
    /\ late' = late \ {e}
    /\ UNCHANGED <<callVars, chanVars, drainer, posting, sent, dropped>>

-----------------------------------------------------------------------------
(* Stop.                                                                    *)

SwapStopped ==
    /\ MayStop
    /\ stop = "idle"
    /\ stopped' = TRUE
    /\ stop' = "swapped"
    /\ UNCHANGED <<publish, restarts, queue, closed, drainVars, dropped>>

\* Mutant: Stop waits for the drainer without closing the channel.
CloseQueueForgotten ==
    /\ stop = "swapped"
    /\ stop' = "waiting"
    /\ UNCHANGED <<publish, restarts, chanVars, drainVars, dropped>>

CloseQueue ==
    /\ stop = "swapped"
    /\ closed' = TRUE
    /\ stop' = "waiting"
    /\ UNCHANGED <<publish, restarts, queue, stopped, drainVars, dropped>>

StopReturns ==
    /\ stop = "waiting"
    /\ drainer = "exited"
    /\ stop' = "returned"
    /\ UNCHANGED <<publish, restarts, chanVars, drainVars, dropped>>

\* The process restarts: queue, counters and calls are gone; a POST on the
\* wire may still reach the collection.
Restart ==
    /\ restarts < MaxRestarts
    /\ restarts' = restarts + 1
    /\ late'    = late \cup ({posting} \ {NoEvent})
    /\ publish' = [e \in Events |-> IF publish[e] = "checked" THEN "lost" ELSE publish[e]]
    /\ queue'   = <<>>
    /\ closed'  = FALSE
    /\ stopped' = FALSE
    /\ stop'    = "idle"
    /\ drainer' = "receiving"
    /\ posting' = NoEvent
    /\ sent'    = 0
    /\ dropped' = 0
    /\ UNCHANGED log

-----------------------------------------------------------------------------
Publish(e) == LoadStopped(e) \/ Enqueue(e) \/ Drop(e) \/ SendOnClosed(e)

Drain == Receive \/ DrainerExits \/ \E received, heard \in BOOLEAN : PostEnds(received, heard)

Stop == SwapStopped \/ CloseQueue \/ StopReturns

Next == \/ \E e \in Events : Publish(e)
        \/ Drain
        \/ Stop
        \/ Restart
        \/ \E e \in Events : LateDocument(e)

Spec == Init /\ [][Next]_vars

\* The scheduler runs a goroutine that can go on. Nothing makes anyone call
\* Publish or Stop, or the process restart. A POST ends: the client times out.
PublishersRun == \A e \in Events : WF_vars(Enqueue(e) \/ Drop(e) \/ SendOnClosed(e))
FairSpec == Spec /\ PublishersRun /\ WF_vars(Drain) /\ WF_vars(CloseQueue \/ StopReturns)

-----------------------------------------------------------------------------
(* Properties.                                                              *)

TypeOK ==
    /\ publish \in [Events -> PublishStates]
    /\ queue \in Seq(Events)
    /\ closed \in BOOLEAN /\ stopped \in BOOLEAN
    /\ stop \in {"idle", "swapped", "waiting", "returned"}
    /\ drainer \in {"receiving", "posting", "exited"}
    /\ posting \in Events \cup {NoEvent}
    /\ sent \in Nat /\ dropped \in Nat
    /\ log \in Seq(Events)
    /\ late \subseteq Events
    /\ restarts \in Nat

InHand == IF posting = NoEvent THEN <<>> ELSE <<posting>>

\* No event is in the collection twice, or in it and still on its way there, on
\* the wire or in the queue: no retry, restart or late answer makes a duplicate.
AtMostOnce ==
    LET all == log \o InHand \o queue
    IN  /\ \A i, j \in DOMAIN all : all[i] = all[j] => i = j
        /\ \A i \in DOMAIN all : all[i] \notin late

\* sent counts documents that exist; an event counted as dropped, or ignored
\* after Stop, never reaches the collection.
CountersHonest ==
    /\ sent <= Len(log)
    /\ \A i \in DOMAIN log : publish[log[i]] = "queued"

\* When Stop returns, every event that was queued has been posted.
StopDrains == stop = "returned" => queue = <<>> /\ posting = NoEvent

\* The publisher implements the at-most-once feed.
Feed == INSTANCE EventFeed WITH
            accepted <- {e \in Events : publish[e] = "queued"},
            pending  <- InHand \o queue

FeedSpec == Feed!Spec

\* Stop returns once called (unless the process restarts meanwhile).
StopEnds == stop = "swapped" ~> stop \in {"returned", "idle"}

\* A full queue empties: no event stays queued for ever.
QueueDrains == \A e \in Events : publish[e] = "queued" ~> e \notin {queue[i] : i \in DOMAIN queue}
=============================================================================

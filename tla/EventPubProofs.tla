--------------------------- MODULE EventPubProofs ---------------------------
(***************************************************************************)
(* What TLC checks of EventPub for three events and a queue of two,        *)
(* proved for every set of events, every queue size and any number of      *)
(* restarts. Everything follows from one inductive invariant: an event is  *)
(* in exactly one place, and only events that entered the queue are in any.*)
(***************************************************************************)
EXTENDS EventPub, SequenceTheorems, TLAPS

Distinct(s) == \A i, j \in 1 .. Len(s) : s[i] = s[j] => i = j

\* Events in the collection, in the drainer's hands, in the queue and given up
\* differ.
Places == /\ Distinct(log)
          /\ Distinct(queue)
          /\ \A i \in 1 .. Len(log) : \A j \in 1 .. Len(queue) : log[i] # queue[j]
          /\ \A i \in 1 .. Len(log)   : log[i] # posting
          /\ \A i \in 1 .. Len(queue) : queue[i] # posting
          /\ \A i \in 1 .. Len(log)   : log[i] \notin late
          /\ \A i \in 1 .. Len(queue) : queue[i] \notin late
          /\ posting \notin late

\* They all got there through Enqueue.
Entered == /\ \A i \in 1 .. Len(log)   : publish[log[i]] = "queued"
           /\ \A i \in 1 .. Len(queue) : publish[queue[i]] = "queued"
           /\ posting # NoEvent => publish[posting] = "queued"
           /\ \A e \in late : publish[e] = "queued"

\* The drainer holds an event exactly while it posts it; once it has left its
\* loop the channel is closed and empty, and the flags follow Stop's progress.
Control == /\ drainer = "posting" <=> posting # NoEvent
           /\ drainer = "exited" => queue = <<>> /\ closed
           /\ closed <=> stop \in {"waiting", "returned"}
           /\ stop = "returned" => drainer = "exited"

IInv == /\ TypeOK
        /\ Places
        /\ Entered
        /\ Control
        /\ sent <= Len(log)

USE EventPubAssumption

-----------------------------------------------------------------------------
\* The initial state satisfies the invariant.
LEMMA InitIInv == Init => IInv
<1> SUFFICES ASSUME Init PROVE IInv
  OBVIOUS
<1> USE DEF Init
<1>1. TypeOK
  BY EmptySeq DEF TypeOK, PublishStates
<1>2. Places /\ Entered /\ Control /\ sent <= Len(log)
  BY EmptySeq DEF Places, Entered, Control, Distinct
<1> QED
  BY <1>1, <1>2 DEF IInv

\* What creating the document of one more event does to the collection, when
\* that event was the one in the drainer's hands or one given up.
LEMMA Created ==
  ASSUME IInv, NEW e \in Events, e = posting \/ e \in late, log' = Append(log, e)
  PROVE  /\ log' \in Seq(Events)
         /\ Len(log') = Len(log) + 1
         /\ Distinct(log')
         /\ \A i \in 1 .. Len(log') :
               /\ \/ i \in 1 .. Len(log) /\ log'[i] = log[i]
                  \/ log'[i] = e
               /\ publish[log'[i]] = "queued"
               /\ \A j \in 1 .. Len(queue) : log'[i] # queue[j]
<1> USE DEF IInv, TypeOK, Places, Entered, Distinct
<1>1. /\ log' \in Seq(Events)
      /\ Len(log') = Len(log) + 1
      /\ \A i \in 1 .. Len(log) : log'[i] = log[i]
      /\ log'[Len(log) + 1] = e
  BY AppendProperties
<1>2. Len(log) \in Nat
  BY LenProperties
<1>3. \A i \in 1 .. Len(log') : i \in 1 .. Len(log) \/ i = Len(log) + 1
  BY <1>1, <1>2
<1>4. \A i \in 1 .. Len(log) : log[i] # e
  OBVIOUS
<1>5. Distinct(log')
  BY <1>1, <1>2, <1>3, <1>4
<1>6. \A i \in 1 .. Len(log') : publish[log'[i]] = "queued"
  BY <1>1, <1>3
<1>7. \A i \in 1 .. Len(log') : \A j \in 1 .. Len(queue) : log'[i] # queue[j]
  BY <1>1, <1>3
<1> QED
  BY <1>1, <1>3, <1>5, <1>6, <1>7

-----------------------------------------------------------------------------
\* Every step of Next, and every stuttering step, preserves the invariant.
LEMMA NextIInv == IInv /\ [Next]_vars => IInv'
<1> SUFFICES ASSUME IInv, [Next]_vars PROVE IInv'
  OBVIOUS
<1> USE DEF IInv
<1>0. Len(queue) \in Nat /\ Len(log) \in Nat
  BY LenProperties DEF TypeOK
<1>1. ASSUME NEW e \in Events, LoadStopped(e) PROVE IInv'
  <2> USE <1>1 DEF LoadStopped, Calls, chanVars, drainVars
  <2>1. TypeOK'
    BY DEF TypeOK, PublishStates
  <2>2. Places'
    BY DEF Places, Distinct
  <2>3. Entered'
    BY ElementOfSeq DEF Entered, TypeOK
  <2>4. Control' /\ (sent <= Len(log))'
    BY DEF Control
  <2> QED
    BY <2>1, <2>2, <2>3, <2>4
<1>2. ASSUME NEW e \in Events, Enqueue(e) PROVE IInv'
  <2> USE <1>2 DEF Enqueue, Calls, drainVars
  <2>1. TypeOK'
    BY AppendProperties DEF TypeOK, PublishStates
  <2>2. /\ Len(queue') = Len(queue) + 1
        /\ \A i \in 1 .. Len(queue) : queue'[i] = queue[i]
        /\ queue'[Len(queue) + 1] = e
    BY AppendProperties DEF TypeOK
  <2>3. \A i \in 1 .. Len(queue') : i \in 1 .. Len(queue) \/ i = Len(queue) + 1
    BY <1>0, <2>2
  \* e was not queued before, and everything that is in a place was.
  <2>4. /\ \A i \in 1 .. Len(log)   : log[i] # e
        /\ \A i \in 1 .. Len(queue) : queue[i] # e
        /\ posting # e
        /\ e \notin late
    BY DEF Entered
  <2>5. Places'
    <3>1. Distinct(queue')
      BY <1>0, <2>2, <2>3, <2>4 DEF Places, Distinct
    <3>2. \A i \in 1 .. Len(log) : \A j \in 1 .. Len(queue') : log[i] # queue'[j]
      BY <2>2, <2>3, <2>4 DEF Places
    <3>3. \A i \in 1 .. Len(queue') : queue'[i] # posting
      BY <2>2, <2>3, <2>4 DEF Places
    <3>4. \A i \in 1 .. Len(queue') : queue'[i] \notin late
      BY <2>2, <2>3, <2>4 DEF Places
    <3> QED
      BY <3>1, <3>2, <3>3, <3>4 DEF Places, Distinct
  <2>6. Entered'
    <3>1. \A i \in 1 .. Len(queue') : publish'[queue'[i]] = "queued"
      BY <2>2, <2>3, ElementOfSeq DEF Entered, TypeOK
    <3>2. \A i \in 1 .. Len(log) : publish'[log[i]] = "queued"
      BY ElementOfSeq DEF Entered, TypeOK
    <3>3. \A d \in late : publish'[d] = "queued"
      BY DEF Entered, TypeOK
    <3> QED
      BY <3>1, <3>2, <3>3 DEF Entered, TypeOK
  <2>7. Control' /\ (sent <= Len(log))'
    BY DEF Control, TypeOK
  <2> QED
    BY <2>1, <2>5, <2>6, <2>7
<1>3. ASSUME NEW e \in Events, Drop(e) \/ SendOnClosed(e) PROVE IInv'
  <2> USE <1>3 DEF Drop, SendOnClosed, Calls, chanVars, drainVars
  <2>1. TypeOK'
    BY DEF TypeOK, PublishStates
  <2>2. Places'
    BY DEF Places, Distinct
  <2>3. Entered'
    BY ElementOfSeq DEF Entered, TypeOK
  <2>4. Control' /\ (sent <= Len(log))'
    BY DEF Control
  <2> QED
    BY <2>1, <2>2, <2>3, <2>4
<1>4. CASE Receive
  <2> USE <1>4 DEF Receive, callVars
  <2>1. /\ posting' = queue[1] /\ posting' \in Events
        /\ queue' \in Seq(Events)
        /\ Len(queue') = Len(queue) - 1
        /\ \A i \in 1 .. Len(queue') : queue'[i] = queue[i + 1]
    BY HeadTailProperties DEF TypeOK
  <2>2. Len(queue) \in Nat \ {0}
    BY EmptySeq DEF TypeOK
  <2>3. 1 \in 1 .. Len(queue) /\ \A i \in 1 .. Len(queue') : i + 1 \in 1 .. Len(queue) /\ i + 1 # 1
    BY <2>1, <2>2
  <2>4. TypeOK'
    BY <2>1 DEF TypeOK
  <2>5. Places'
    <3>1. Distinct(queue')
      BY <2>1, <2>2, <2>3 DEF Places, Distinct
    <3>2. \A i \in 1 .. Len(log) : \A j \in 1 .. Len(queue') : log[i] # queue'[j]
      BY <2>1, <2>3 DEF Places
    <3>3. \A i \in 1 .. Len(log) : log[i] # posting'
      BY <2>1, <2>3 DEF Places
    <3>4. \A i \in 1 .. Len(queue') : queue'[i] # posting'
      BY <2>1, <2>3 DEF Places, Distinct
    <3>5. posting' \notin late /\ \A i \in 1 .. Len(queue') : queue'[i] \notin late
      BY <2>1, <2>3 DEF Places
    <3> QED
      BY <3>1, <3>2, <3>3, <3>4, <3>5 DEF Places, Distinct
  <2>6. Entered'
    BY <2>1, <2>3 DEF Entered
  <2>7. Control' /\ (sent <= Len(log))'
    BY <2>1 DEF Control
  <2> QED
    BY <2>4, <2>5, <2>6, <2>7
<1>5. CASE DrainerExits
  <2> USE <1>5 DEF DrainerExits, callVars, chanVars
  <2>1. TypeOK' /\ Places' /\ Entered'
    BY DEF TypeOK, Places, Distinct, Entered
  <2>2. Control' /\ (sent <= Len(log))'
    BY DEF Control
  <2> QED
    BY <2>1, <2>2
<1>6. ASSUME NEW received \in BOOLEAN, NEW heard \in BOOLEAN, PostEnds(received, heard)
      PROVE  IInv'
  <2> USE <1>6 DEF PostEnds, callVars, chanVars
  <2>1. posting \in Events /\ posting # NoEvent /\ posting' = NoEvent
    BY DEF Control, TypeOK
  <2>2. CASE heard
    <3>1. log' = Append(log, posting) /\ late' = late
      BY <2>2
    <3>2. /\ log' \in Seq(Events) /\ Len(log') = Len(log) + 1
          /\ Distinct(log')
          /\ \A i \in 1 .. Len(log') :
                /\ \/ i \in 1 .. Len(log) /\ log'[i] = log[i]
                   \/ log'[i] = posting
                /\ publish[log'[i]] = "queued"
                /\ \A j \in 1 .. Len(queue) : log'[i] # queue[j]
      BY <2>1, <3>1, Created
    <3>3. TypeOK'
      BY <2>2, <3>1, <3>2 DEF TypeOK
    <3>4. \A i \in 1 .. Len(log') : log'[i] \notin late
      BY <3>2 DEF Places
    <3>5. NoEvent \notin late
      BY DEF TypeOK
    <3>6. Places'
      BY <2>1, <3>1, <3>2, <3>3, <3>4, <3>5, ElementOfSeq DEF Places, Distinct, TypeOK
    <3>7. Entered' /\ Control'
      BY <2>1, <3>1, <3>2 DEF Entered, Control
    <3>8. (sent <= Len(log))'
      BY <1>0, <2>2, <3>2 DEF TypeOK
    <3> QED
      BY <3>3, <3>6, <3>7, <3>8
  <2>3. CASE ~heard
    <3>1. log' = log /\ sent' = sent /\ late' \in {late, late \cup {posting}}
      BY <2>3
    <3>2. TypeOK'
      BY <2>1, <3>1 DEF TypeOK
    <3>3. Places'
      BY <2>1, <3>1, ElementOfSeq DEF Places, Distinct, TypeOK
    <3>4. Entered' /\ Control' /\ (sent <= Len(log))'
      BY <2>1, <3>1 DEF Entered, Control
    <3> QED
      BY <3>2, <3>3, <3>4
  <2> QED
    BY <2>2, <2>3
<1>7. ASSUME NEW e \in Events, LateDocument(e) PROVE IInv'
  <2> USE <1>7 DEF LateDocument, callVars, chanVars
  <2>1. /\ log' \in Seq(Events) /\ Len(log') = Len(log) + 1
        /\ Distinct(log')
        /\ \A i \in 1 .. Len(log') :
              /\ \/ i \in 1 .. Len(log) /\ log'[i] = log[i]
                 \/ log'[i] = e
              /\ publish[log'[i]] = "queued"
              /\ \A j \in 1 .. Len(queue) : log'[i] # queue[j]
    BY Created
  <2>2. TypeOK'
    BY <2>1 DEF TypeOK
  <2>3. \A i \in 1 .. Len(log') : log'[i] \notin late' /\ log'[i] # posting
    BY <2>1 DEF Places
  <2>4. Places'
    BY <2>1, <2>3 DEF Places, Distinct
  <2>5. Entered' /\ Control'
    BY <2>1 DEF Entered, Control
  <2>6. (sent <= Len(log))'
    BY <1>0, <2>1 DEF TypeOK
  <2> QED
    BY <2>2, <2>4, <2>5, <2>6
<1>8. CASE Stop
  <2> USE <1>8 DEF Stop, SwapStopped, CloseQueue, StopReturns, drainVars, chanVars
  <2>1. TypeOK' /\ Places' /\ Entered'
    BY DEF TypeOK, Places, Distinct, Entered
  <2>2. Control' /\ (sent <= Len(log))'
    BY DEF Control, TypeOK
  <2> QED
    BY <2>1, <2>2
<1>9. CASE Restart
  <2> USE <1>9 DEF Restart
  <2>1. TypeOK'
    <3>1. publish' \in [Events -> PublishStates]
      BY DEF TypeOK, PublishStates
    <3>2. queue' \in Seq(Events) /\ restarts' \in Nat
      BY EmptySeq DEF TypeOK
    <3> QED
      BY <3>1, <3>2 DEF TypeOK
  <2>2. Len(queue') = 0 /\ posting' = NoEvent
    BY EmptySeq
  <2>3. Places'
    BY <2>1, <2>2, ElementOfSeq DEF Places, Distinct, TypeOK
  <2>4. Entered'
    BY <2>2, ElementOfSeq DEF Entered, TypeOK
  <2>5. Control'
    BY DEF Control
  <2>6. (sent <= Len(log))'
    BY <1>0
  <2> QED
    BY <2>1, <2>3, <2>4, <2>5, <2>6
<1>10. CASE UNCHANGED vars
  BY <1>10 DEF vars, callVars, chanVars, drainVars, TypeOK, Places, Distinct, Entered, Control
<1> QED
  BY <1>1, <1>2, <1>3, <1>4, <1>5, <1>6, <1>8, <1>9, <1>10, <1>7 DEF Next, Publish, Drain

\* The invariant holds in every reachable state.
THEOREM IInvHolds == Spec => []IInv
<1> QED
  BY InitIInv, NextIInv, PTL DEF Spec

-----------------------------------------------------------------------------
\* The variables have their types in every reachable state of the publisher.
THEOREM Typed == Spec => []TypeOK
<1> QED
  BY IInvHolds, PTL DEF IInv

\* The invariant says of the pieces what AtMostOnce says of their concatenation.
LEMMA PlacesDistinct == IInv => AtMostOnce
<1> SUFFICES ASSUME IInv PROVE AtMostOnce
  OBVIOUS
<1> USE DEF IInv, TypeOK
<1> DEFINE taken == log \o InHand
           all   == taken \o queue
<1>1. /\ InHand \in Seq(Events)
      /\ Len(InHand) = IF posting = NoEvent THEN 0 ELSE 1
      /\ \A i \in 1 .. Len(InHand) : InHand[i] = posting
  BY DEF InHand
<1>2. /\ taken \in Seq(Events)
      /\ Len(taken) = Len(log) + Len(InHand)
      /\ \A i \in 1 .. Len(taken) :
            taken[i] = IF i <= Len(log) THEN log[i] ELSE InHand[i - Len(log)]
  BY <1>1, ConcatProperties
<1>3. Len(log) \in Nat /\ Len(queue) \in Nat /\ Len(InHand) \in {0, 1}
  BY <1>1, LenProperties
<1>4. \A i \in 1 .. Len(taken) :
         \/ i \in 1 .. Len(log) /\ taken[i] = log[i]
         \/ i = Len(log) + 1 /\ taken[i] = posting
  BY <1>1, <1>2, <1>3
<1>5. Distinct(taken)
  BY <1>4 DEF Places, Distinct
<1>6. \A i \in 1 .. Len(taken) : \A j \in 1 .. Len(queue) : taken[i] # queue[j]
  BY <1>4 DEF Places
<1>7. /\ DOMAIN all = 1 .. (Len(taken) + Len(queue))
      /\ \A i \in 1 .. (Len(taken) + Len(queue)) :
            all[i] = IF i <= Len(taken) THEN taken[i] ELSE queue[i - Len(taken)]
  BY <1>2, ConcatProperties, LenProperties
<1> HIDE DEF taken, all
<1>8. Len(taken) \in Nat
  BY <1>2, LenProperties
<1>9. ASSUME NEW i \in DOMAIN all, NEW j \in DOMAIN all, all[i] = all[j]
      PROVE  i = j
  <2>1. CASE i <= Len(taken) /\ j <= Len(taken)
    BY <1>3, <1>5, <1>7, <1>8, <1>9, <2>1 DEF Distinct
  <2>2. CASE i <= Len(taken) /\ j > Len(taken)
    BY <1>3, <1>6, <1>7, <1>8, <1>9, <2>2
  <2>3. CASE i > Len(taken) /\ j <= Len(taken)
    BY <1>3, <1>6, <1>7, <1>8, <1>9, <2>3
  <2>4. CASE i > Len(taken) /\ j > Len(taken)
    BY <1>3, <1>7, <1>8, <1>9, <2>4 DEF Places, Distinct
  <2> QED
    BY <1>3, <1>7, <1>8, <2>1, <2>2, <2>3, <2>4
<1>10. ASSUME NEW i \in DOMAIN all PROVE all[i] \notin late
  <2>1. CASE i <= Len(taken)
    <3>1. taken[i] \in {log[k] : k \in 1 .. Len(log)} \cup {posting}
      BY <1>4, <1>7, <1>8, <2>1
    <3> QED
      BY <1>7, <1>8, <2>1, <3>1 DEF Places
  <2>2. CASE i > Len(taken)
    <3>1. i - Len(taken) \in 1 .. Len(queue)
      BY <1>3, <1>7, <1>8, <2>2
    <3> QED
      BY <1>7, <1>8, <2>2, <3>1 DEF Places
  <2> QED
    BY <1>3, <1>7, <1>8, <2>1, <2>2
<1> QED
  BY <1>9, <1>10 DEF AtMostOnce, all, taken

\* No event is ever in the collection twice, or in it and still to be posted.
THEOREM AtMostOnceHolds == Spec => []AtMostOnce
<1> QED
  BY IInvHolds, PlacesDistinct, PTL

\* The counters of Stats never claim an event the collection does not hold, and
\* no dropped or ignored event is in it.
THEOREM CountersHonestHolds == Spec => []CountersHonest
<1>1. IInv => CountersHonest
  BY LenProperties DEF IInv, TypeOK, Entered, CountersHonest
<1> QED
  BY <1>1, IInvHolds, PTL

\* When Stop returns, every event that was queued has been posted.
THEOREM StopDrainsHolds == Spec => []StopDrains
<1>1. IInv => StopDrains
  BY DEF IInv, Control, StopDrains
<1> QED
  BY <1>1, IInvHolds, PTL

-----------------------------------------------------------------------------
(* The publisher implements EventFeed.                                     *)

\* InHand \o queue as the abstract feed sees it: what it holds, its head and
\* its tail.
LEMMA PendingShape ==
  ASSUME IInv
  PROVE  /\ posting = NoEvent => InHand \o queue = queue
         /\ posting # NoEvent => /\ InHand \o queue # <<>>
                                 /\ Head(InHand \o queue) = posting
                                 /\ Tail(InHand \o queue) = queue
<1> USE DEF IInv, TypeOK
<1>1. CASE posting = NoEvent
  BY <1>1, ConcatEmptySeq DEF InHand
<1>2. CASE posting # NoEvent
  <2> DEFINE pend == InHand \o queue
  <2>1. /\ InHand \in Seq(Events) /\ Len(InHand) = 1 /\ InHand[1] = posting
    BY <1>2 DEF InHand
  <2>2. /\ pend \in Seq(Events)
        /\ Len(pend) = 1 + Len(queue)
        /\ \A i \in 1 .. 1 + Len(queue) : pend[i] = IF i <= 1 THEN InHand[i] ELSE queue[i - 1]
    <3> HIDE DEF TypeOK
    <3>1. queue \in Seq(Events)
      BY DEF TypeOK
    <3>2. /\ pend \in Seq(Events) /\ Len(pend) = Len(InHand) + Len(queue)
          /\ \A i \in 1 .. Len(InHand) + Len(queue) :
                pend[i] = IF i <= Len(InHand) THEN InHand[i] ELSE queue[i - Len(InHand)]
      BY ONLY <2>1, <3>1, ConcatProperties
    <3> QED
      BY ONLY <2>1, <3>2
  <2>3. Len(queue) \in Nat
    BY LenProperties
  <2> HIDE DEF pend
  <2>4. pend # <<>> /\ Head(pend) = posting
    BY <2>1, <2>2, <2>3
  <2>5. /\ Tail(pend) \in Seq(Events) /\ Len(Tail(pend)) = Len(queue)
        /\ \A i \in 1 .. Len(queue) : Tail(pend)[i] = queue[i]
    BY <2>2, <2>3, <2>4, HeadTailProperties
  <2>6. Tail(pend) = queue
    BY <2>5, SeqEqual
  <2> QED
    BY <1>2, <2>4, <2>6 DEF pend
<1> QED
  BY <1>1, <1>2

\* The publisher's initial states are the feed's.
LEMMA FeedInit == Init => Feed!Init
<1> SUFFICES ASSUME Init PROVE Feed!Init
  OBVIOUS
<1>1. InHand \o queue = <<>>
  BY EmptySeq, ConcatEmptySeq DEF Init, InHand
<1> QED
  BY <1>1 DEF Feed!Init, Init

\* Every step of the publisher is a step of the feed or leaves the feed alone:
\* Enqueue accepts, PostEnds delivers or gives up, LateDocument comes late, Restart
\* gives up all.
LEMMA FeedNext == IInv /\ [Next]_vars => [Feed!Next]_(Feed!feedVars)
<1> SUFFICES ASSUME IInv, [Next]_vars PROVE Feed!Next \/ UNCHANGED Feed!feedVars
  OBVIOUS
<1> DEFINE acc  == {e \in Events : publish[e] = "queued"}
           pend == InHand \o queue
           same == acc' = acc /\ pend' = pend /\ late' = late /\ log' = log
<1> USE DEF IInv
<1>0. IInv'
  BY NextIInv
<1>s. same => UNCHANGED Feed!feedVars
  BY DEF Feed!feedVars
<1>1. ASSUME NEW e \in Events, LoadStopped(e) \/ Drop(e) \/ SendOnClosed(e) PROVE same
  <2> USE <1>1 DEF LoadStopped, Drop, SendOnClosed, Calls, chanVars, drainVars, TypeOK
  <2>1. acc' = acc
    OBVIOUS
  <2>2. pend' = pend /\ late' = late /\ log' = log
    BY DEF InHand
  <2> QED
    BY <2>1, <2>2
<1>2. ASSUME NEW e \in Events, Enqueue(e) PROVE Feed!Next
  <2> USE <1>2 DEF Enqueue, Calls, drainVars
  <2>1. e \notin acc /\ acc' = acc \cup {e} /\ late' = late /\ log' = log
    BY DEF TypeOK
  <2>2. pend' = Append(pend, e)
    <3>1. queue \in Seq(Events) /\ InHand \in Seq(Events) /\ <<e>> \in Seq(Events)
      BY DEF TypeOK, InHand
    <3>2. pend \in Seq(Events)
      BY <3>1, ConcatProperties
    <3>3. InHand' = InHand /\ queue' = queue \o <<e>>
      BY <3>1, AppendIsConcat DEF InHand
    <3>4. Append(pend, e) = pend \o <<e>>
      BY <3>2, AppendIsConcat
    <3> QED
      BY <3>1, <3>3, <3>4, ConcatAssociative
  <2>3. Feed!Accept(e)
    BY <2>1, <2>2 DEF Feed!Accept
  <2> QED
    BY <2>3 DEF Feed!Next
<1>3. CASE Receive
  <2> USE <1>3 DEF Receive, callVars
  <2>1. acc' = acc /\ late' = late /\ log' = log
    OBVIOUS
  <2>2. pend = queue /\ pend' = queue
    <3>1. pend = queue
      BY PendingShape DEF Control
    <3>2. /\ queue \in Seq(Events) /\ queue # <<>>
          /\ InHand' = <<Head(queue)>> /\ queue' = Tail(queue)
      BY HeadTailProperties DEF TypeOK, InHand
    <3>3. <<Head(queue)>> \o Tail(queue) = queue
      <4>1. /\ Tail(queue) \in Seq(Events) /\ <<Head(queue)>> \in Seq(Events)
            /\ Len(Tail(queue)) = Len(queue) - 1
            /\ \A i \in 1 .. Len(Tail(queue)) : Tail(queue)[i] = queue[i + 1]
        BY <3>2, HeadTailProperties
      <4> DEFINE both == <<Head(queue)>> \o Tail(queue)
      <4>2. /\ both \in Seq(Events)
            /\ Len(both) = 1 + Len(Tail(queue))
            /\ \A i \in 1 .. 1 + Len(Tail(queue)) :
                  both[i] = IF i <= 1 THEN <<Head(queue)>>[i] ELSE Tail(queue)[i - 1]
        BY <4>1, ConcatProperties
      <4>3. Len(queue) \in Nat
        BY <3>2, LenProperties
      <4>4. Head(queue) = queue[1]
        BY <3>2
      <4> HIDE DEF both
      <4>5. Len(both) = Len(queue) /\ \A i \in 1 .. Len(both) : both[i] = queue[i]
        BY <4>1, <4>2, <4>3, <4>4
      <4>6. both = queue
        BY <3>2, <4>2, <4>5, SeqEqual
      <4> QED
        BY <4>6 DEF both
    <3> QED
      BY <3>1, <3>2, <3>3
  <2> QED
    BY <1>s, <2>1, <2>2
<1>4. CASE DrainerExits \/ Stop
  <2>1. UNCHANGED <<publish, queue, posting, late, log>>
    BY <1>4 DEF DrainerExits, Stop, SwapStopped, CloseQueue, StopReturns,
                callVars, chanVars, drainVars
  <2>2. same
    BY <2>1 DEF InHand
  <2> QED
    BY <1>s, <2>2
<1>5. ASSUME NEW received \in BOOLEAN, NEW heard \in BOOLEAN, PostEnds(received, heard)
      PROVE  Feed!Next
  <2> USE <1>5 DEF PostEnds, callVars, chanVars
  <2>1. pend # <<>> /\ Head(pend) = posting /\ Tail(pend) = queue
    BY PendingShape DEF Control
  <2>2. pend' = queue
    BY <1>0, PendingShape, ConcatEmptySeq DEF InHand, TypeOK
  <2>3. acc' = acc
    OBVIOUS
  <2>4. Feed!Deliver \/ Feed!GiveUp
    BY <2>1, <2>2, <2>3 DEF Feed!Deliver, Feed!GiveUp
  <2> QED
    BY <2>4 DEF Feed!Next
<1>6. CASE Restart
  <2> USE <1>6 DEF Restart
  <2>1. acc' = acc /\ log' = log
    BY DEF TypeOK
  <2>2. pend' = <<>>
    BY EmptySeq, ConcatEmptySeq DEF InHand
  <2>3. CASE posting = NoEvent /\ queue = <<>>
    <3>1. pend = <<>> /\ late' = late
      BY <2>3, PendingShape
    <3> QED
      BY <1>s, <2>1, <2>2, <3>1
  <2>4. CASE posting = NoEvent /\ queue # <<>>
    <3>1. pend # <<>> /\ late' = late
      BY <2>4, PendingShape
    <3>2. Feed!GiveUpAll
      BY <2>1, <2>2, <3>1 DEF Feed!GiveUpAll
    <3> QED
      BY <3>2 DEF Feed!Next
  <2>5. CASE posting # NoEvent
    <3>1. pend # <<>> /\ Head(pend) = posting /\ late' = late \cup {posting}
      BY <2>5, PendingShape
    <3>2. Feed!GiveUpAll
      BY <2>1, <2>2, <3>1 DEF Feed!GiveUpAll
    <3> QED
      BY <3>2 DEF Feed!Next
  <2> QED
    BY <2>3, <2>4, <2>5
<1>7. ASSUME NEW e \in Events, LateDocument(e) PROVE Feed!Next
  <2> USE <1>7 DEF LateDocument, callVars, chanVars
  <2>1. acc' = acc /\ pend' = pend
    BY DEF InHand
  <2>2. Feed!ComesLate(e)
    BY <2>1 DEF Feed!ComesLate
  <2> QED
    BY <2>2 DEF Feed!Next
<1>8. CASE UNCHANGED vars
  <2>1. UNCHANGED <<publish, queue, posting, late, log>>
    BY <1>8 DEF vars, callVars, chanVars, drainVars
  <2>2. same
    BY <2>1 DEF InHand
  <2> QED
    BY <1>s, <2>2
<1> QED
  BY <1>s, <1>1, <1>2, <1>3, <1>4, <1>5, <1>6, <1>8, <1>7 DEF Next, Publish, Drain

\* The publisher implements the at-most-once feed its package comment promises:
\* what was accepted is appended once, on time and in order or late, or is lost,
\* and nothing else ever touches the collection.
THEOREM Refinement == Spec => FeedSpec
<1> QED
  BY FeedInit, FeedNext, IInvHolds, PTL DEF Spec, FeedSpec, Feed!Spec
=============================================================================

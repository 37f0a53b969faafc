------------------------- MODULE GableEventsProofs -------------------------
(***************************************************************************)
(* What TLC checks of GableEvents for four events, proved for every set of *)
(* events, every backlog and any number of restarts, as long as a poll     *)
(* ends before the timer starts the next one.                              *)
(*                                                                         *)
(* The argument is about positions in the collection. The cursor is the    *)
(* position of lastSeenId; what was shown lies at or before it, what a     *)
(* poll is about to take for new lies behind it, and the answer a poll     *)
(* holds reaches at least as far as the cursor did when it was asked for.  *)
(***************************************************************************)
EXTENDS GableEvents, SequenceTheorems, TLAPS

\* A poll ends before the next one starts.
OnePoll == \A j, k \in Polls : j = k

Distinct(s) == \A i, j \in 1 .. Len(s) : s[i] = s[j] => i = j

Quiet(e) == shown[e] = 0 /\ \A k \in Polls : e \notin poll[k].batch

\* The collection holds no event twice, the cursor is in it, and so is, at or
\* before the cursor, all that was shown.
CursorInv ==
    /\ Distinct(log)
    /\ lastSeenId # NoEvent => lastSeenId \in ToSet(log)
    /\ \A e \in Events : shown[e] > 0 => e \in ToSet(log) /\ (lastSeenId # NoEvent => e \in Seen)

\* The answer a poll holds is a prefix of the collection that reaches as far as
\* the cursor; what it is about to put is new, and the cursor has passed it.
PollOK(r) ==
    /\ Len(r.docs) <= Len(log)
    /\ \A i \in 1 .. Len(r.docs) : r.docs[i] = log[i]
    /\ r.stage # "fetched" => r.docs = <<>>
    /\ r.stage # "putting" => r.batch = {}
    /\ r.stage = "fetched" =>
          /\ lastSeenId # NoEvent => lastSeenId \in ToSet(r.docs)
          /\ \A e \in Events : shown[e] > 0 => e \in ToSet(r.docs)
    /\ \A e \in r.batch : shown[e] = 0 /\ e \in Seen

ReplayInv == TypeOK /\ CursorInv /\ NoReplay /\ \A k \in Polls : PollOK(poll[k])

\* Until the first restart: nothing has happened yet, or the cursor has passed
\* the documents of the first answer and none of them was or will be put.
QuietInv ==
    restarts = 0 =>
       \/ lastSeenId = NoEvent /\ backlog = Events /\ \A e \in Events : Quiet(e)
       \/ \A e \in backlog : Quiet(e) /\ e \in Seen

\* The collection is never empty, so the first answer sets the cursor.
SkipInv == /\ log # <<>>
           /\ \A k \in Polls : poll[k].stage = "fetched" => poll[k].docs # <<>>
           /\ lastSeenId = NoEvent => backlog = Events
           /\ NothingSkipped

USE GableEventsAssumption

-----------------------------------------------------------------------------
(* The cursor.                                                             *)

\* Every poll and every operation keeps the types.
LEMMA NextTyped == TypeOK /\ [Next]_vars => TypeOK'
<1> SUFFICES ASSUME TypeOK, [Next]_vars PROVE TypeOK'
  OBVIOUS
<1> USE DEF TypeOK
<1>1. CASE UNCHANGED vars
  BY <1>1 DEF vars
<1>2. ASSUME NEW e \in Events, DocumentCreated(e) PROVE TypeOK'
  <2>1. log' \in Seq(Events)
    BY <1>2, AppendProperties DEF DocumentCreated
  <2> QED
    BY <1>2, <2>1 DEF DocumentCreated
<1>3. ASSUME NEW k \in Polls, FetchEvents(k) PROVE TypeOK'
  BY <1>3, EmptySeq DEF FetchEvents, Idle
<1>4. ASSUME NEW k \in Polls, HandleDocs(k) PROVE TypeOK'
  <2> DEFINE docs == poll[k].docs
  <2>1. docs \in Seq(Events) /\ WatchedOf(docs) \subseteq Events
    BY DEF WatchedOf
  <2>2. lastSeenId' \in Events \cup {NoEvent}
    <3>1. docs # <<>> => Last(docs) \in Events
      BY <2>1, ElementOfSeq, LenProperties, EmptySeq DEF Last
    <3> QED
      BY <1>4, <3>1 DEF HandleDocs
  <2>3. poll' \in [Polls -> [stage : {"idle", "fetched", "putting"}, docs : Seq(Events), batch : SUBSET Events]]
    BY <1>4, <2>1, EmptySeq DEF HandleDocs, Idle
  <2>4. backlog' \subseteq Events
    <3>1. ToSet(docs) \subseteq Events
      BY <2>1, ElementOfSeq, LenProperties DEF ToSet
    <3> QED
      BY <1>4, <3>1 DEF HandleDocs
  <2> QED
    BY <1>4, <2>2, <2>3, <2>4 DEF HandleDocs
<1>5. ASSUME NEW k \in Polls, PutMarker(k) PROVE TypeOK'
  BY <1>5, EmptySeq DEF PutMarker, Idle
<1>6. ASSUME NEW k \in Polls, PollError(k) PROVE TypeOK'
  BY <1>6, EmptySeq DEF PollError, Idle
<1>7. CASE Restart
  BY <1>7, EmptySeq DEF Restart, Idle
<1> QED
  BY <1>1, <1>2, <1>3, <1>4, <1>5, <1>6, <1>7 DEF Next, Poll

\* The type invariant holds in every reachable state.
THEOREM Typed == Spec => []TypeOK
<1>1. Init => TypeOK
  BY EmptySeq DEF Init, TypeOK, Idle
<1> QED
  BY <1>1, NextTyped, PTL DEF Spec

\* The documents up to one of them, by position.
LEMMA CutIs ==
  ASSUME NEW s \in Seq(Events), Distinct(s), NEW c \in 1 .. Len(s)
  PROVE  /\ s[c] # NoEvent
         /\ ToSet(SubSeq(s, 1, CHOOSE i \in DOMAIN s : s[i] = s[c])) = {s[i] : i \in 1 .. c}
<1>1. Len(s) \in Nat /\ DOMAIN s = 1 .. Len(s)
  BY LenProperties
<1>2. s[c] \in Events /\ s[c] # NoEvent
  BY <1>1, ElementOfSeq
<1>3. (CHOOSE i \in DOMAIN s : s[i] = s[c]) = c
  BY <1>1 DEF Distinct
<1>4. /\ DOMAIN SubSeq(s, 1, c) = 1 .. c
      /\ \A i \in 1 .. c : SubSeq(s, 1, c)[i] = s[i]
  <2>1. Len(SubSeq(s, 1, c)) = c /\ SubSeq(s, 1, c) \in Seq(Events)
    BY <1>1, SubSeqProperties
  <2> QED
    BY <1>1, <2>1, SubSeqProperties, LenProperties
<1> QED
  BY <1>2, <1>3, <1>4 DEF ToSet

\* What the cursor has passed, by position.
LEMMA SeenIs ==
  ASSUME TypeOK, Distinct(log), NEW c \in 1 .. Len(log), lastSeenId = log[c]
  PROVE  lastSeenId # NoEvent /\ Seen = {log[i] : i \in 1 .. c}
<1> QED
  BY CutIs DEF TypeOK, Seen

\* What a poll takes for new, by position.
LEMMA FreshIs ==
  ASSUME TypeOK, lastSeenId # NoEvent, NEW docs \in Seq(Events), Distinct(docs),
         NEW c \in 1 .. Len(docs), lastSeenId = docs[c]
  PROVE  ToSet(Fresh(docs)) = {docs[i] : i \in c + 1 .. Len(docs)}
<1>0. Len(docs) \in Nat
  BY LenProperties
<1>1. Len(docs) \in Nat /\ DOMAIN docs = 1 .. Len(docs)
  BY LenProperties
<1>2. lastSeenId \in ToSet(docs)
  BY <1>1 DEF ToSet
<1>3. (CHOOSE i \in 0 .. Len(docs) :
          IF lastSeenId \in ToSet(docs) THEN i > 0 /\ docs[i] = lastSeenId ELSE i = 0) = c
  BY <1>1, <1>2 DEF Distinct
<1>4. Fresh(docs) = SubSeq(docs, c + 1, Len(docs))
  BY <1>3 DEF Fresh
<1>5. /\ DOMAIN SubSeq(docs, c + 1, Len(docs)) = 1 .. (Len(docs) - c)
      /\ \A i \in 1 .. (Len(docs) - c) : SubSeq(docs, c + 1, Len(docs))[i] = docs[c + i]
  <2> DEFINE s == SubSeq(docs, c + 1, Len(docs))
  <2>1. /\ s \in Seq(Events)
        /\ Len(s) = IF c + 1 <= Len(docs) THEN Len(docs) - (c + 1) + 1 ELSE 0
        /\ \A i \in 1 .. Len(docs) - (c + 1) + 1 : s[i] = docs[c + 1 + i - 1]
    BY <1>1, SubSeqProperties
  <2>2. Len(s) = Len(docs) - c
    <3>1. c + 1 <= Len(docs) => Len(s) = Len(docs) - c
      <4> HIDE DEF s
      <4> QED
        BY <1>1, <2>1
    <3>2. c = Len(docs) => Len(s) = Len(docs) - c
      <4> HIDE DEF s
      <4> QED
        BY <1>1, <2>1
    <3>3. c + 1 <= Len(docs) \/ c = Len(docs)
      BY <1>0
    <3> QED
      BY <3>1, <3>2, <3>3
  <2>3. DOMAIN s = 1 .. (Len(docs) - c)
    BY <2>1, <2>2, LenProperties
  <2> QED
    BY <1>1, <2>1, <2>3
<1>6. ASSUME NEW i \in c + 1 .. Len(docs) PROVE docs[i] \in ToSet(Fresh(docs))
  <2>1. i - c \in 1 .. (Len(docs) - c) /\ c + (i - c) = i
    BY <1>1
  <2> QED
    BY <1>4, <1>5, <2>1 DEF ToSet
<1>7. ASSUME NEW e \in ToSet(Fresh(docs)) PROVE \E i \in c + 1 .. Len(docs) : e = docs[i]
  <2>1. PICK j \in 1 .. (Len(docs) - c) : e = docs[c + j]
    BY <1>4, <1>5 DEF ToSet
  <2>2. c + j \in c + 1 .. Len(docs)
    BY <1>1
  <2> QED
    BY <2>1, <2>2
<1> QED
  BY <1>6, <1>7

\* A document is created: positions and the cursor stay.
LEMMA LogGrows ==
  ASSUME TypeOK, CursorInv, NEW e \in Events, DocumentCreated(e)
  PROVE  /\ log' \in Seq(Events) /\ Len(log') = Len(log) + 1 /\ log' # <<>>
         /\ \A i \in 1 .. Len(log) : log'[i] = log[i]
         /\ Distinct(log)' /\ ToSet(log) \subseteq ToSet(log')
         /\ Seen' = Seen
<1>1. /\ log' = Append(log, e) /\ e \notin ToSet(log) /\ lastSeenId' = lastSeenId
      /\ log \in Seq(Events) /\ Len(log) \in Nat /\ DOMAIN log = 1 .. Len(log)
  BY LenProperties DEF DocumentCreated, TypeOK
<1>2. /\ log' \in Seq(Events) /\ Len(log') = Len(log) + 1 /\ log' # <<>>
      /\ \A i \in 1 .. Len(log) : log'[i] = log[i]
      /\ log'[Len(log) + 1] = e
  BY <1>1, AppendProperties
<1>3. DOMAIN log' = 1 .. (Len(log) + 1)
  BY <1>2, LenProperties
<1>4. \A i \in 1 .. (Len(log) + 1) : i \in 1 .. Len(log) \/ i = Len(log) + 1
  BY <1>1
<1>5. \A i \in 1 .. Len(log) : log[i] # e
  BY <1>1 DEF ToSet
<1>6. Distinct(log)'
  BY <1>2, <1>4, <1>5 DEF Distinct, CursorInv
<1>7. ToSet(log) \subseteq ToSet(log')
  BY <1>1, <1>2, <1>3, <1>4 DEF ToSet
<1>8. Seen' = Seen
  <2>1. CASE lastSeenId = NoEvent
    BY <1>1, <2>1 DEF Seen
  <2>2. CASE lastSeenId # NoEvent
    <3>1. PICK c \in 1 .. Len(log) : lastSeenId = log[c]
      BY <1>1, <2>2 DEF CursorInv, ToSet
    <3>2. Seen = {log[i] : i \in 1 .. c}
      BY <3>1, SeenIs DEF CursorInv
    <3>3. c \in 1 .. Len(log') /\ lastSeenId' = log'[c]
      BY <1>1, <1>2, <3>1
    <3>4. Seen' = {log'[i] : i \in 1 .. c}
      <4>1. Distinct(log')
        BY <1>6 DEF Distinct
      <4>2. /\ log'[c] # NoEvent
            /\ ToSet(SubSeq(log', 1, CHOOSE i \in DOMAIN log' : log'[i] = log'[c])) = {log'[i] : i \in 1 .. c}
        BY <1>2, <3>3, <4>1, CutIs
      <4> QED
        BY <3>3, <4>2 DEF Seen
    <3>5. \A i \in 1 .. c : log'[i] = log[i]
      BY <1>1, <1>2
    <3> QED
      BY <3>2, <3>4, <3>5
  <2> QED
    BY <2>1, <2>2
<1> QED
  BY <1>2, <1>6, <1>7, <1>8

\* What a poll finds in a non-empty answer: the cursor moves to its end, and
\* what is new is what the cursor moves across. The first answer brings nothing.
LEMMA AnswerIs ==
  ASSUME TypeOK, CursorInv, NEW k \in Polls, PollOK(poll[k]), HandleDocs(k),
         poll[k].docs # <<>>
  PROVE  /\ lastSeenId' \in ToSet(poll[k].docs) /\ lastSeenId' # NoEvent
         /\ ToSet(poll[k].docs) \subseteq ToSet(log)
         /\ Seen' = ToSet(poll[k].docs)
         /\ lastSeenId = NoEvent => WatchedOf(poll[k].docs) = {}
         /\ lastSeenId # NoEvent =>
               /\ Seen \subseteq Seen'
               /\ WatchedOf(poll[k].docs) = (Seen' \ Seen) \cap Watched
<1> DEFINE docs == poll[k].docs
<1>1. /\ docs \in Seq(Events) /\ Len(docs) \in Nat \ {0} /\ DOMAIN docs = 1 .. Len(docs)
      /\ log \in Seq(Events) /\ Len(log) \in Nat /\ DOMAIN log = 1 .. Len(log)
  BY LenProperties, EmptySeq DEF TypeOK
<1>2. /\ Len(docs) <= Len(log)
      /\ \A i \in 1 .. Len(docs) : i \in 1 .. Len(log) /\ docs[i] = log[i]
  BY <1>1 DEF PollOK
<1>3. Distinct(docs)
  BY <1>2 DEF CursorInv, Distinct
<1>4. lastSeenId' = log[Len(docs)] /\ Len(docs) \in 1 .. Len(log) /\ UNCHANGED log
  BY <1>1, <1>2 DEF HandleDocs, Last
<1>5. ToSet(docs) = {log[i] : i \in 1 .. Len(docs)}
  BY <1>1, <1>2 DEF ToSet
<1>6. Seen' = ToSet(docs) /\ lastSeenId' # NoEvent
  <2> DEFINE n == Len(docs)
  <2>1. n \in 1 .. Len(log) /\ lastSeenId' = log[n] /\ log' = log
    BY <1>4
  <2>2. /\ log[n] # NoEvent
        /\ ToSet(SubSeq(log, 1, CHOOSE i \in DOMAIN log : log[i] = log[n])) = {log[i] : i \in 1 .. n}
    <3> HIDE DEF n
    <3> QED
      BY <1>1, <2>1, CutIs DEF CursorInv
  <2> QED
    BY <1>5, <2>1, <2>2 DEF Seen
<1>7. ToSet(docs) \subseteq ToSet(log) /\ lastSeenId' \in ToSet(docs)
  <2>1. ToSet(log) = {log[i] : i \in 1 .. Len(log)}
    BY <1>1 DEF ToSet
  <2>2. ToSet(docs) \subseteq ToSet(log)
    BY <1>2, <1>5, <2>1
  <2>3. Len(docs) \in 1 .. Len(docs)
    BY <1>1
  <2> QED
    BY <1>4, <1>5, <2>2, <2>3
<1>8. ASSUME lastSeenId = NoEvent PROVE WatchedOf(docs) = {}
  <2>1. Fresh(docs) = <<>>
    BY <1>8 DEF Fresh
  <2> QED
    BY <2>1 DEF WatchedOf, ToSet
<1>9. ASSUME lastSeenId # NoEvent
      PROVE  Seen \subseteq ToSet(docs) /\ WatchedOf(docs) = (ToSet(docs) \ Seen) \cap Watched
  <2>1. PICK c \in 1 .. Len(docs) : lastSeenId = docs[c]
    BY <1>1, <1>9 DEF PollOK, ToSet, HandleDocs
  <2>2. c \in 1 .. Len(log) /\ lastSeenId = log[c]
    BY <1>2, <2>1
  <2>3. Seen = {log[i] : i \in 1 .. c}
    BY <2>2, SeenIs DEF CursorInv
  <2>4. ToSet(Fresh(docs)) = {docs[i] : i \in c + 1 .. Len(docs)}
    BY <1>1, <1>3, <1>9, <2>1, FreshIs
  <2>5. Seen \subseteq ToSet(docs)
    BY <1>1, <1>5, <2>3
  <2>6. ToSet(Fresh(docs)) = ToSet(docs) \ Seen
    <3>1. ASSUME NEW i \in c + 1 .. Len(docs) PROVE docs[i] \in ToSet(docs) \ Seen
      <4>1. i \in 1 .. Len(docs) /\ \A j \in 1 .. c : j # i /\ j \in 1 .. Len(log)
        BY <1>1, <1>2
      <4>2. docs[i] = log[i] /\ i \in 1 .. Len(log)
        BY <1>2, <4>1
      <4>3. \A j \in 1 .. c : log[j] # log[i]
        <5>1. \A j, k2 \in 1 .. Len(log) : j # k2 => log[j] # log[k2]
          BY <1>1 DEF CursorInv, Distinct
        <5> QED
          BY <4>1, <4>2, <5>1
      <4>4. docs[i] \in ToSet(docs)
        BY <1>5, <4>1, <4>2
      <4> QED
        BY <2>3, <4>2, <4>3, <4>4
    <3>2. ASSUME NEW e \in ToSet(docs) \ Seen PROVE \E i \in c + 1 .. Len(docs) : e = docs[i]
      <4>1. PICK i \in 1 .. Len(docs) : e = log[i]
        BY <1>5
      <4>2. i \notin 1 .. c
        BY <2>3, <4>1
      <4>3. i \in c + 1 .. Len(docs)
        BY <1>1, <4>2
      <4> QED
        BY <1>2, <4>1, <4>3
    <3> QED
      BY <2>4, <3>1, <3>2
  <2> QED
    BY <2>5, <2>6 DEF WatchedOf
<1> QED
  BY <1>6, <1>7, <1>8, <1>9

-----------------------------------------------------------------------------
(* One poll at a time.                                                     *)

\* Whether the poll k is all right, when it is the only one.
LEMMA PollsOK ==
  ASSUME OnePoll, NEW k \in Polls, PollOK(poll[k])'
  PROVE  (\A j \in Polls : PollOK(poll[j]))'
<1> QED
  BY DEF OnePoll

\* Every step keeps the answer of the poll and the cursor in step.
LEMMA ReplayNext == OnePoll /\ ReplayInv /\ [Next]_vars => ReplayInv'
<1> SUFFICES ASSUME OnePoll, ReplayInv, [Next]_vars PROVE ReplayInv'
  OBVIOUS
<1>1. /\ TypeOK /\ CursorInv /\ NoReplay /\ TypeOK'
      /\ \A k \in Polls : PollOK(poll[k])
  BY NextTyped DEF ReplayInv
<1>2. \A e \in Events : shown[e] \in Nat /\ shown[e] <= 1
  BY <1>1 DEF TypeOK, NoReplay
<1> SUFFICES CursorInv' /\ NoReplay' /\ (\A k \in Polls : PollOK(poll[k]))'
  BY <1>1 DEF ReplayInv
<1>3. CASE UNCHANGED vars
  BY <1>1, <1>3 DEF vars, CursorInv, NoReplay, PollOK, Distinct, Seen
<1>4. ASSUME NEW e \in Events, DocumentCreated(e)
      PROVE  CursorInv' /\ NoReplay' /\ (\A k \in Polls : PollOK(poll[k]))'
  <2>1. /\ UNCHANGED <<lastSeenId, poll, shown>>
        /\ Len(log') = Len(log) + 1 /\ \A i \in 1 .. Len(log) : log'[i] = log[i]
        /\ Distinct(log)' /\ ToSet(log) \subseteq ToSet(log') /\ Seen' = Seen
    BY <1>1, <1>4, LogGrows DEF DocumentCreated
  <2>2. CursorInv' /\ NoReplay'
    BY <1>1, <2>1 DEF CursorInv, NoReplay
  <2>3. ASSUME NEW k \in Polls PROVE PollOK(poll[k])'
    <3>1. Len(poll[k].docs) \in Nat /\ Len(log) \in Nat
      BY <1>1, LenProperties DEF TypeOK
    <3>2. PollOK(poll[k])
      BY <1>1
    <3> QED
      BY <2>1, <3>1, <3>2 DEF PollOK
  <2> QED
    BY <2>2, <2>3
<1>5. ASSUME NEW k \in Polls, FetchEvents(k)
      PROVE  CursorInv' /\ NoReplay' /\ (\A j \in Polls : PollOK(poll[j]))'
  <2>1. /\ UNCHANGED <<log, lastSeenId, shown>>
        /\ poll'[k].stage = "fetched" /\ poll'[k].docs = log /\ poll'[k].batch = {}
    BY <1>1, <1>5 DEF FetchEvents, TypeOK, Idle
  <2>2. CursorInv' /\ NoReplay'
    BY <1>1, <2>1 DEF CursorInv, NoReplay, Distinct, Seen
  <2>3. PollOK(poll[k])'
    <3>1. Len(log) \in Nat
      BY <1>1, LenProperties DEF TypeOK
    <3> QED
      BY <1>1, <2>1, <3>1 DEF PollOK, CursorInv
  <2> QED
    BY <2>2, <2>3, PollsOK
<1>6. ASSUME NEW k \in Polls, HandleDocs(k)
      PROVE  CursorInv' /\ NoReplay' /\ (\A j \in Polls : PollOK(poll[j]))'
  <2> DEFINE docs == poll[k].docs
  <2>1. /\ UNCHANGED <<log, shown>> /\ poll[k].stage = "fetched" /\ PollOK(poll[k])
        /\ poll' = [poll EXCEPT ![k] = IF docs = <<>> \/ WatchedOf(docs) = {} THEN Idle
                                       ELSE [Idle EXCEPT !.stage = "putting", !.batch = WatchedOf(docs)]]
    BY <1>1, <1>6 DEF HandleDocs
  <2>2. NoReplay'
    BY <1>1, <2>1 DEF NoReplay
  <2>3. CASE docs = <<>>
    <3>1. UNCHANGED lastSeenId /\ poll'[k] = Idle
      BY <1>1, <1>6, <2>1, <2>3 DEF HandleDocs, TypeOK
    <3>2. CursorInv'
      BY <1>1, <2>1, <3>1 DEF CursorInv, Distinct, Seen
    <3>3. PollOK(poll[k])'
      BY <1>1, <3>1, EmptySeq, LenProperties DEF PollOK, Idle, TypeOK
    <3> QED
      BY <2>2, <3>2, <3>3, PollsOK
  <2>4. CASE docs # <<>>
    <3>1. /\ lastSeenId' \in ToSet(docs) /\ lastSeenId' # NoEvent
          /\ ToSet(docs) \subseteq ToSet(log) /\ Seen' = ToSet(docs)
          /\ lastSeenId = NoEvent => WatchedOf(docs) = {}
          /\ lastSeenId # NoEvent => WatchedOf(docs) = (Seen' \ Seen) \cap Watched
      BY <1>1, <1>6, <2>1, <2>4, AnswerIs
    <3>2. \A e \in Events : shown[e] > 0 => e \in ToSet(docs)
      BY <2>1 DEF PollOK
    <3>3. CursorInv'
      BY <1>1, <2>1, <3>1, <3>2 DEF CursorInv, Distinct
    <3>4. /\ poll'[k].docs = <<>> /\ poll'[k].stage \in {"idle", "putting"}
          /\ poll'[k].batch \subseteq WatchedOf(docs)
          /\ poll'[k].stage = "idle" => poll'[k].batch = {}
      BY <1>1, <2>1 DEF Idle, TypeOK
    <3>5. \A e \in WatchedOf(docs) : shown[e] = 0 /\ e \in Seen'
      BY <1>1, <1>2, <3>1 DEF CursorInv
    <3>6. PollOK(poll[k])'
      <4>1. Len(log') \in Nat /\ Len(poll'[k].docs) = 0
        BY <1>1, <3>4, EmptySeq, LenProperties DEF TypeOK
      <4>2. \A e \in poll'[k].batch : shown'[e] = 0 /\ e \in Seen'
        BY <2>1, <3>4, <3>5
      <4> QED
        BY <3>4, <4>1, <4>2 DEF PollOK
    <3> QED
      BY <2>2, <3>3, <3>6, PollsOK
  <2> QED
    BY <2>3, <2>4
<1>7. ASSUME NEW k \in Polls, PutMarker(k)
      PROVE  CursorInv' /\ NoReplay' /\ (\A j \in Polls : PollOK(poll[j]))'
  <2>1. /\ UNCHANGED <<log, lastSeenId>> /\ poll'[k] = Idle /\ Seen' = Seen /\ PollOK(poll[k])
        /\ poll[k].stage = "putting"
        /\ \A e \in Events : shown'[e] = shown[e] + (IF e \in poll[k].batch THEN 1 ELSE 0)
    BY <1>1, <1>7 DEF PutMarker, TypeOK, Seen
  <2>2. \A e \in Events : shown'[e] \in Nat /\ shown'[e] <= 1
    BY <1>2, <2>1 DEF PollOK
  <2>3. NoReplay'
    BY <2>2 DEF NoReplay
  <2>4. \A e \in Events : shown'[e] > 0 => e \in ToSet(log) /\ (lastSeenId # NoEvent => e \in Seen)
    <3>1. ASSUME NEW e \in poll[k].batch PROVE e \in ToSet(log) /\ e \in Seen
      <4>1. e \in Seen
        BY <2>1 DEF PollOK
      <4>2. lastSeenId # NoEvent
        BY <4>1 DEF Seen
      <4>3. PICK c \in 1 .. Len(log) : lastSeenId = log[c]
        BY <1>1, <4>2, LenProperties DEF CursorInv, ToSet, TypeOK
      <4>4. Seen = {log[i] : i \in 1 .. c}
        BY <1>1, <4>3, SeenIs DEF CursorInv
      <4> QED
        BY <1>1, <4>1, <4>4, LenProperties DEF ToSet, TypeOK
    <3> QED
      BY <1>1, <1>2, <2>1, <3>1 DEF CursorInv
  <2>5. CursorInv'
    BY <1>1, <2>1, <2>4 DEF CursorInv, Distinct
  <2>6. PollOK(poll[k])'
    BY <1>1, <2>1, EmptySeq, LenProperties DEF PollOK, Idle, TypeOK
  <2> QED
    BY <2>3, <2>5, <2>6, PollsOK
<1>8. ASSUME NEW k \in Polls, PollError(k)
      PROVE  CursorInv' /\ NoReplay' /\ (\A j \in Polls : PollOK(poll[j]))'
  <2>1. UNCHANGED <<log, lastSeenId, shown>> /\ poll'[k] = Idle
    BY <1>1, <1>8 DEF PollError, TypeOK
  <2>2. CursorInv' /\ NoReplay'
    BY <1>1, <2>1 DEF CursorInv, NoReplay, Distinct, Seen
  <2>3. PollOK(poll[k])'
    BY <1>1, <2>1, EmptySeq, LenProperties DEF PollOK, Idle, TypeOK
  <2> QED
    BY <2>2, <2>3, PollsOK
<1>9. CASE Restart
  <2>1. /\ UNCHANGED <<log, shown>> /\ lastSeenId' = NoEvent
        /\ \A k \in Polls : poll'[k] = Idle
    BY <1>9 DEF Restart
  <2>2. CursorInv' /\ NoReplay'
    BY <1>1, <2>1 DEF CursorInv, NoReplay, Distinct
  <2>3. ASSUME NEW k \in Polls PROVE PollOK(poll[k])'
    BY <1>1, <2>1, EmptySeq, LenProperties DEF PollOK, Idle, TypeOK
  <2> QED
    BY <2>2, <2>3
<1> QED
  BY <1>3, <1>4, <1>5, <1>6, <1>7, <1>8, <1>9 DEF Next, Poll

\* The answer and the cursor stay in step.
LEMMA ReplayInvHolds == OnePoll => (Spec => []ReplayInv)
<1> SUFFICES ASSUME OnePoll PROVE Spec => []ReplayInv
  OBVIOUS
<1>1. Init => TypeOK
  BY EmptySeq DEF Init, TypeOK, Idle
<1>2. Init => ReplayInv
  <2> SUFFICES ASSUME Init PROVE CursorInv /\ NoReplay /\ \A k \in Polls : PollOK(poll[k])
    BY <1>1 DEF ReplayInv
  <2>1. /\ log = Backlog /\ lastSeenId = NoEvent
        /\ \A k \in Polls : poll[k] = Idle
        /\ \A e \in Events : shown[e] = 0
    BY DEF Init
  <2>2. Distinct(log)
    BY <2>1, LenProperties DEF Distinct, IsInjective
  <2>3. \A k \in Polls : PollOK(poll[k])
    BY <2>1, EmptySeq, LenProperties DEF PollOK, Idle
  <2> QED
    BY <2>1, <2>2, <2>3 DEF CursorInv, NoReplay
<1> QED
  BY <1>2, ReplayNext, PTL DEF Spec

\* While polls do not overlap, no event refreshes the clients twice: not even an
\* event shown before a restart, which the first poll after it steps over.
THEOREM NoReplayHolds == OnePoll => (Spec => []NoReplay)
<1>1. ReplayInv => NoReplay
  BY DEF ReplayInv
<1> QED
  BY <1>1, ReplayInvHolds, PTL

\* What was there on boot stays quiet.
LEMMA QuietNext == OnePoll /\ ReplayInv /\ QuietInv /\ [Next]_vars => QuietInv'
<1> SUFFICES ASSUME OnePoll, ReplayInv, QuietInv, [Next]_vars, restarts' = 0
             PROVE  \/ lastSeenId' = NoEvent /\ backlog' = Events /\ \A e \in Events : Quiet(e)'
                    \/ \A e \in backlog' : Quiet(e)' /\ e \in Seen'
  BY DEF QuietInv
<1> DEFINE Fresher == \/ lastSeenId' = NoEvent /\ backlog' = Events /\ \A e \in Events : Quiet(e)'
                      \/ \A e \in backlog' : Quiet(e)' /\ e \in Seen'
<1>1. /\ TypeOK /\ CursorInv /\ TypeOK' /\ \A k \in Polls : PollOK(poll[k])
      /\ backlog \subseteq Events
  BY NextTyped DEF ReplayInv, TypeOK
<1>2. restarts = 0 /\ ~Restart
  <2>1. restarts \in Nat /\ restarts' = 0
    BY <1>1 DEF TypeOK
  <2>2. Restart => FALSE
    BY <2>1 DEF Restart
  <2>3. ~Restart => restarts' = restarts
    BY DEF Next, vars, Poll, DocumentCreated, FetchEvents, HandleDocs, PutMarker, PollError
  <2> QED
    BY <2>1, <2>2, <2>3
<1>3. \/ lastSeenId = NoEvent /\ backlog = Events /\ \A e \in Events : Quiet(e)
      \/ \A e \in backlog : Quiet(e) /\ e \in Seen
  BY <1>2 DEF QuietInv
\* A step that moves neither the cursor nor a batch keeps what is quiet.
<1>4. ASSUME UNCHANGED <<lastSeenId, shown, backlog>>, Seen' = Seen,
             \A k \in Polls : poll'[k].batch \subseteq poll[k].batch
      PROVE  Fresher
  <2>1. \A e \in Events : Quiet(e) => Quiet(e)'
    BY <1>4 DEF Quiet
  <2> QED
    BY <1>1, <1>3, <1>4, <2>1
<1>5. CASE UNCHANGED vars
  BY <1>4, <1>5 DEF vars, Seen
<1>6. ASSUME NEW e \in Events, DocumentCreated(e) PROVE Fresher
  BY <1>1, <1>4, <1>6, LogGrows DEF DocumentCreated
<1>7. ASSUME NEW k \in Polls, FetchEvents(k) PROVE Fresher
  <2>1. \A j \in Polls : poll'[j].batch \subseteq poll[j].batch
    BY <1>1, <1>7 DEF FetchEvents, TypeOK, Idle
  <2> QED
    BY <1>4, <1>7, <2>1 DEF FetchEvents, Seen
<1>8. ASSUME NEW k \in Polls, PollError(k) PROVE Fresher
  <2>1. \A j \in Polls : poll'[j].batch \subseteq poll[j].batch
    BY <1>1, <1>8 DEF PollError, TypeOK, Idle
  <2> QED
    BY <1>4, <1>8, <2>1 DEF PollError, Seen
<1>9. ASSUME NEW k \in Polls, PutMarker(k) PROVE Fresher
  <2>1. /\ UNCHANGED <<lastSeenId, backlog>> /\ Seen' = Seen
        /\ \A j \in Polls : poll'[j].batch \subseteq poll[j].batch
        /\ \A e \in Events : shown'[e] = shown[e] + (IF e \in poll[k].batch THEN 1 ELSE 0)
    BY <1>1, <1>9 DEF PutMarker, TypeOK, Seen, Idle
  <2>2. \A e \in Events : Quiet(e) => Quiet(e)'
    BY <2>1 DEF Quiet
  <2> QED
    BY <1>1, <1>3, <2>1, <2>2
<1>10. ASSUME NEW k \in Polls, HandleDocs(k) PROVE Fresher
  <2> DEFINE docs == poll[k].docs
  <2>1. /\ UNCHANGED <<log, shown>> /\ PollOK(poll[k])
        /\ lastSeenId' = IF docs = <<>> THEN lastSeenId ELSE Last(docs)
        /\ poll'[k].batch \subseteq IF docs = <<>> THEN {} ELSE WatchedOf(docs)
        /\ backlog' = IF backlog = Events THEN ToSet(docs) ELSE backlog
        /\ \A j \in Polls : j = k
    BY <1>1, <1>10 DEF HandleDocs, TypeOK, Idle, OnePoll
  <2>2. CASE docs = <<>>
    <3>1. lastSeenId' = lastSeenId /\ Seen' = Seen /\ poll'[k].batch = {}
      BY <2>1, <2>2 DEF Seen
    <3>2. backlog' = {} \/ (backlog' = backlog /\ backlog # Events)
      <4>1. ToSet(docs) = {}
        BY <1>1, <2>2, EmptySeq, LenProperties DEF ToSet, TypeOK
      <4> QED
        BY <2>1, <4>1
    <3>3. \A e \in Events : Quiet(e) => Quiet(e)'
      BY <2>1, <3>1 DEF Quiet
    <3> QED
      BY <1>1, <1>3, <3>1, <3>2, <3>3
  <2>3. CASE docs # <<>>
    <3>1. /\ ToSet(docs) \subseteq ToSet(log) /\ Seen' = ToSet(docs)
          /\ lastSeenId = NoEvent => WatchedOf(docs) = {}
          /\ lastSeenId # NoEvent =>
                Seen \subseteq Seen' /\ WatchedOf(docs) = (Seen' \ Seen) \cap Watched
      BY <1>1, <1>10, <2>1, <2>3, AnswerIs
    <3>2. ToSet(docs) \subseteq Events
      BY <1>1, ElementOfSeq, LenProperties DEF ToSet, TypeOK
    <3>3. CASE lastSeenId = NoEvent /\ backlog = Events /\ \A e \in Events : Quiet(e)
      <4>1. \A e \in Events : Quiet(e)'
        BY <2>1, <2>3, <3>1, <3>3 DEF Quiet
      <4> QED
        BY <2>1, <3>1, <3>2, <3>3, <4>1
    <3>4. CASE \A e \in backlog : Quiet(e) /\ e \in Seen
      <4>1. ASSUME NEW e \in backlog PROVE Quiet(e)' /\ e \in Seen'
        <5>1. Quiet(e) /\ e \in Seen /\ lastSeenId # NoEvent
          BY <3>4 DEF Seen
        <5>2. e \notin WatchedOf(docs) /\ e \in Seen'
          BY <3>1, <5>1
        <5> QED
          BY <2>1, <2>3, <5>1, <5>2 DEF Quiet
      <4>2. backlog' \subseteq backlog
        BY <1>1, <2>1, <3>2
      <4> QED
        BY <4>1, <4>2
    <3> QED
      BY <1>3, <3>3, <3>4
  <2> QED
    BY <2>2, <2>3
<1> QED
  BY <1>2, <1>5, <1>6, <1>7, <1>8, <1>9, <1>10 DEF Next, Poll

\* While polls do not overlap, the backlog found on boot is never emitted before
\* a restart, whatever fails and whenever the first answer arrives.
THEOREM BacklogQuietHolds == OnePoll => (Spec => []BacklogQuiet)
<1> SUFFICES ASSUME OnePoll PROVE Spec => []BacklogQuiet
  OBVIOUS
<1>1. Init => QuietInv
  <2> SUFFICES ASSUME Init PROVE lastSeenId = NoEvent /\ backlog = Events /\ \A e \in Events : Quiet(e)
    BY DEF QuietInv
  <2> QED
    BY DEF Init, Quiet, Idle
<1>2. QuietInv => BacklogQuiet
  BY DEF QuietInv, BacklogQuiet, Quiet
<1> QED
  BY <1>1, <1>2, QuietNext, ReplayInvHolds, PTL DEF Spec

\* What the cursor passes is put, or was there on boot.
LEMMA SkipNext ==
  OnePoll /\ Failing \subseteq {"fetched"} /\ ReplayInv /\ SkipInv /\ [Next]_vars => SkipInv'
<1> SUFFICES ASSUME OnePoll, Failing \subseteq {"fetched"}, ReplayInv, SkipInv, [Next]_vars
             PROVE  SkipInv'
  OBVIOUS
<1>1. /\ TypeOK /\ CursorInv /\ TypeOK' /\ \A k \in Polls : PollOK(poll[k])
      /\ log # <<>> /\ NothingSkipped /\ (lastSeenId = NoEvent => backlog = Events)
      /\ \A k \in Polls : poll[k].stage = "fetched" => poll[k].docs # <<>>
  BY NextTyped DEF ReplayInv, SkipInv
\* A step that keeps the cursor, what was shown and the batches skips nothing.
<1>2. ASSUME UNCHANGED <<lastSeenId, shown, backlog>>, Seen' = Seen, log' # <<>>,
             \A k \in Polls : /\ poll[k].batch \subseteq poll'[k].batch
                              /\ poll'[k].stage = "fetched" => poll'[k].docs # <<>>
      PROVE  SkipInv'
  <2>1. NothingSkipped'
    BY <1>1, <1>2 DEF NothingSkipped
  <2> QED
    BY <1>1, <1>2, <2>1 DEF SkipInv
<1>3. CASE UNCHANGED vars
  BY <1>1, <1>2, <1>3 DEF vars, Seen
<1>4. ASSUME NEW e \in Events, DocumentCreated(e) PROVE SkipInv'
  BY <1>1, <1>2, <1>4, LogGrows DEF DocumentCreated
<1>5. ASSUME NEW k \in Polls, FetchEvents(k) PROVE SkipInv'
  <2>1. poll[k].batch = {}
    BY <1>1, <1>5 DEF FetchEvents, PollOK
  <2>2. poll'[k].docs = log /\ \A j \in Polls : j = k
    BY <1>1, <1>5 DEF FetchEvents, TypeOK, OnePoll, Idle
  <2> QED
    BY <1>1, <1>2, <1>5, <2>1, <2>2 DEF FetchEvents, Seen
<1>6. ASSUME NEW k \in Polls, PollError(k) PROVE SkipInv'
  <2>1. /\ poll[k].batch = {} /\ poll'[k] = Idle
        /\ \A j \in Polls : j = k
    BY <1>1, <1>6 DEF PollError, TypeOK, PollOK, OnePoll
  <2> QED
    BY <1>1, <1>2, <1>6, <2>1 DEF PollError, Seen, Idle
<1>7. ASSUME NEW k \in Polls, HandleDocs(k) PROVE SkipInv'
  <2> DEFINE docs == poll[k].docs
  <2>1. /\ UNCHANGED <<log, shown>> /\ poll[k].stage = "fetched" /\ docs # <<>>
        /\ poll'[k].stage # "fetched" /\ poll'[k].batch = WatchedOf(docs)
        /\ backlog' = IF backlog = Events THEN ToSet(docs) ELSE backlog
        /\ \A j \in Polls : j = k
    BY <1>1, <1>7 DEF HandleDocs, TypeOK, Idle, OnePoll
  <2>2. /\ lastSeenId' # NoEvent /\ Seen' = ToSet(docs)
        /\ lastSeenId # NoEvent => WatchedOf(docs) = (Seen' \ Seen) \cap Watched
    BY <1>1, <1>7, <2>1, AnswerIs
  <2>3. poll[k].batch = {}
    BY <1>1, <2>1 DEF PollOK
  <2>4. NothingSkipped'
    <3>1. CASE backlog = Events
      BY <2>1, <2>2, <3>1 DEF NothingSkipped
    <3>2. CASE backlog # Events
      <4>1. \A e \in (Seen' \cap Watched) \ backlog : shown[e] > 0 \/ e \in poll'[k].batch
        BY <1>1, <2>1, <2>2, <2>3, <3>2 DEF NothingSkipped
      <4> QED
        BY <2>1, <3>2, <4>1 DEF NothingSkipped
    <3> QED
      BY <3>1, <3>2
  <2> QED
    BY <1>1, <2>1, <2>2, <2>4 DEF SkipInv
<1>8. ASSUME NEW k \in Polls, PutMarker(k) PROVE SkipInv'
  <2>1. /\ UNCHANGED <<log, lastSeenId, backlog>> /\ Seen' = Seen
        /\ \A j \in Polls : j = k
        /\ poll'[k] = Idle
        /\ \A e \in Events : shown[e] \in Nat /\ shown'[e] = shown[e] + (IF e \in poll[k].batch THEN 1 ELSE 0)
    BY <1>1, <1>8 DEF PutMarker, TypeOK, Seen, OnePoll
  <2>2. \A e \in Events : shown[e] > 0 \/ e \in poll[k].batch => shown'[e] > 0
    BY <2>1
  <2>3. Watched \subseteq Events
    OBVIOUS
  <2>4. NothingSkipped'
    BY <1>1, <2>1, <2>2, <2>3 DEF NothingSkipped
  <2> QED
    BY <1>1, <2>1, <2>4 DEF SkipInv, Idle
<1>9. CASE Restart
  <2>1. /\ log' = log /\ lastSeenId' = NoEvent /\ backlog' = Events
        /\ \A k \in Polls : poll'[k] = Idle
    BY <1>9 DEF Restart
  <2> QED
    BY <1>1, <2>1 DEF SkipInv, NothingSkipped, Seen, Idle
<1> QED
  BY <1>3, <1>4, <1>5, <1>6, <1>7, <1>8, <1>9 DEF Next, Poll

\* While polls do not overlap, no put fails and the collection is not empty when
\* the plugin starts, no watched event is passed by the cursor and forgotten.
THEOREM NothingSkippedHolds ==
  OnePoll /\ Failing \subseteq {"fetched"} /\ Backlog # <<>> => (Spec => []NothingSkipped)
<1> SUFFICES ASSUME OnePoll, Failing \subseteq {"fetched"}, Backlog # <<>>
             PROVE  Spec => []NothingSkipped
  OBVIOUS
<1>1. Init => SkipInv
  BY DEF Init, SkipInv, NothingSkipped, Seen, Idle
<1>2. SkipInv => NothingSkipped
  BY DEF SkipInv
<1>3. ReplayInv /\ SkipInv /\ [Next]_vars => SkipInv'
  BY SkipNext
<1> QED
  BY <1>1, <1>2, <1>3, ReplayInvHolds, PTL DEF Spec
=============================================================================

---------------------------- MODULE GableEvents ----------------------------
(***************************************************************************)
(* server/plugins/gable-events.ts of the micro-UIs: every 30 seconds a     *)
(* poll fetches the whole events collection, works out which documents are *)
(* new from the id it saw last, and writes the watched ones to an          *)
(* application-state marker. setInterval starts a poll whether or not the  *)
(* previous one has ended, and a poll is three pieces of synchronous code  *)
(* separated by two awaits (the fetch and appStatePut).                    *)
(*                                                                         *)
(* The collection grows as EventFeed says: an event is appended at most    *)
(* once, and nothing is removed.                                           *)
(***************************************************************************)
EXTENDS Integers, Sequences, SequencesExt

CONSTANTS Events,
          Watched,    \* the events whose type has a watched prefix
          Backlog,    \* the collection when the plugin first starts
          NoEvent,
          Polls,      \* the polls that may be running at the same time
          Failing,    \* what may fail: "fetched" the fetch, "putting" appStatePut
          MaxRestarts \* bound: restarts of the micro-UI server

ASSUME GableEventsAssumption ==
    /\ Watched \subseteq Events
    /\ Backlog \in Seq(Events) /\ IsInjective(Backlog)
    /\ NoEvent \notin Events
    /\ Failing \subseteq {"fetched", "putting"}
    /\ MaxRestarts \in Nat

VARIABLES log,        \* the collection, oldest document first
          lastSeenId,
          poll,       \* poll[k]: the poll k: stage, docs it fetched, the
                      \* events of the batch it puts
          marker,     \* the events of the batch in the application state
          shown,      \* shown[e]: how many batches event e was put in
          backlog,    \* history: the documents the first answer since the start
                      \* held; all events until that answer arrives
          restarts

vars == <<log, lastSeenId, poll, marker, shown, backlog, restarts>>

Idle == [stage |-> "idle", docs |-> <<>>, batch |-> {}]

Init == /\ log        = Backlog
        /\ lastSeenId = NoEvent
        /\ poll       = [k \in Polls |-> Idle]
        /\ marker     = {}
        /\ shown      = [e \in Events |-> 0]
        /\ backlog    = Events
        /\ restarts   = 0

\* Gable's publisher creates a document.
DocumentCreated(e) ==
    /\ e \notin ToSet(log)
    /\ log' = Append(log, e)
    /\ UNCHANGED <<lastSeenId, poll, marker, shown, backlog, restarts>>

\* The timer starts a poll; the collection answers with its current documents.
\* The answer may take any time to arrive.
FetchEvents(k) ==
    /\ poll[k].stage = "idle"
    /\ poll' = [poll EXCEPT ![k] = [Idle EXCEPT !.stage = "fetched", !.docs = log]]
    /\ UNCHANGED <<log, lastSeenId, marker, shown, backlog, restarts>>

\* Mutant: the slice starts one too late.
FreshTooLate(docs) ==
    IF lastSeenId = NoEvent THEN <<>>
    ELSE SubSeq(docs, 2 + CHOOSE i \in DOMAIN docs : docs[i] = lastSeenId, Len(docs))

\* Mutant: the first poll takes everything for new.
FreshFromStart(docs) ==
    IF lastSeenId = NoEvent THEN docs
    ELSE SubSeq(docs, 1 + CHOOSE i \in DOMAIN docs : docs[i] = lastSeenId, Len(docs))

\* The documents after the last seen one; none on the first poll, all of them
\* when the last seen one is not in the answer.
Fresh(docs) ==
    IF lastSeenId = NoEvent THEN <<>>
    ELSE LET cut == CHOOSE i \in 0 .. Len(docs) :
                       IF lastSeenId \in ToSet(docs) THEN i > 0 /\ docs[i] = lastSeenId
                                                     ELSE i = 0
         IN  SubSeq(docs, cut + 1, Len(docs))

\* The fresh documents whose type has a watched prefix.
WatchedOf(docs) == ToSet(Fresh(docs)) \cap Watched

\* Mutant: the cursor stays where it is when there is something to show.
HandleDocsInPlace(k) ==
    LET docs    == poll[k].docs
        watched == WatchedOf(docs)
    IN  /\ poll[k].stage = "fetched"
        /\ lastSeenId' = IF docs = <<>> \/ watched # {} THEN lastSeenId ELSE Last(docs)
        /\ poll' = [poll EXCEPT ![k] =
                       IF docs = <<>> \/ watched = {} THEN Idle
                       ELSE [Idle EXCEPT !.stage = "putting", !.batch = watched]]
        /\ backlog' = IF backlog = Events THEN ToSet(docs) ELSE backlog
        /\ UNCHANGED <<log, marker, shown, restarts>>

\* From the answer to the call of appStatePut, without an await.
HandleDocs(k) ==
    LET docs    == poll[k].docs
        watched == WatchedOf(docs)
    IN  /\ poll[k].stage = "fetched"
        /\ lastSeenId' = IF docs = <<>> THEN lastSeenId ELSE Last(docs)
        /\ poll' = [poll EXCEPT ![k] =
                       IF docs = <<>> \/ watched = {} THEN Idle
                       ELSE [Idle EXCEPT !.stage = "putting", !.batch = watched]]
        /\ backlog' = IF backlog = Events THEN ToSet(docs) ELSE backlog
        /\ UNCHANGED <<log, marker, shown, restarts>>

\* appStatePut overwrites the marker.
PutMarker(k) ==
    LET batch == poll[k].batch
    IN  /\ poll[k].stage = "putting"
        /\ marker' = batch
        /\ shown'  = [e \in Events |-> shown[e] + IF e \in batch THEN 1 ELSE 0]
        /\ poll'   = [poll EXCEPT ![k] = Idle]
        /\ UNCHANGED <<log, lastSeenId, backlog, restarts>>

\* The fetch or the put throws; the poll logs a warning and ends.
PollError(k) ==
    /\ poll[k].stage \in Failing
    /\ poll' = [poll EXCEPT ![k] = Idle]
    /\ UNCHANGED <<log, lastSeenId, marker, shown, backlog, restarts>>

\* The micro-UI server restarts: lastSeenId is a local variable.
Restart ==
    /\ restarts < MaxRestarts
    /\ restarts'   = restarts + 1
    /\ lastSeenId' = NoEvent
    /\ poll'       = [k \in Polls |-> Idle]
    /\ backlog'    = Events
    /\ UNCHANGED <<log, marker, shown>>

Poll(k) == FetchEvents(k) \/ HandleDocs(k) \/ PutMarker(k)

Next == \/ \E e \in Events : DocumentCreated(e)
        \/ \E k \in Polls : Poll(k) \/ PollError(k)
        \/ Restart

Spec == Init /\ [][Next]_vars

\* The timer keeps firing and every await is answered; the collection is not
\* down for good, so not every fetch fails.
FairSpec == Spec /\ \A k \in Polls : WF_vars(Poll(k)) /\ SF_vars(HandleDocs(k))

-----------------------------------------------------------------------------
(* Properties.                                                             *)

TypeOK ==
    /\ log \in Seq(Events)
    /\ lastSeenId \in Events \cup {NoEvent}
    /\ poll \in [Polls -> [stage : {"idle", "fetched", "putting"}, docs : Seq(Events), batch : SUBSET Events]]
    /\ marker \subseteq Events
    /\ shown \in [Events -> Nat]
    /\ backlog \subseteq Events
    /\ restarts \in Nat

\* "dedupe client-side": no event refreshes the clients twice.
NoReplay == \A e \in Events : shown[e] <= 1

\* The backlog found on boot is never emitted (unless it was, before a restart).
BacklogQuiet == restarts = 0 /\ backlog # Events => \A e \in backlog : shown[e] = 0

Seen == IF lastSeenId = NoEvent THEN {}
        ELSE LET cut == CHOOSE i \in DOMAIN log : log[i] = lastSeenId
             IN  ToSet(SubSeq(log, 1, cut))

\* An event the cursor has passed is not forgotten: it was there on boot, or it
\* is in the marker's history, or a put of it is on its way.
NothingSkipped ==
    \A e \in (Seen \cap Watched) \ backlog :
        shown[e] > 0 \/ \E k \in Polls : e \in poll[k].batch

\* Every watched event appended while the plugin runs refreshes the clients.
EveryEventShown ==
    \A e \in Watched : e \in ToSet(log) \ backlog ~> shown[e] > 0 \/ e \in backlog
=============================================================================

----------------------------- MODULE RunLedger -----------------------------
(***************************************************************************)
(* The durable runs of the agent framework                                 *)
(* (src/agent-native/packages/core/src/agent).  A turn of a conversation   *)
(* is worked on by a chain of background runs: each is a row of agent_runs *)
(* and a log in agent_run_events; a producer that claims the row works     *)
(* until it finishes or reaches the boundary of its chunk, saves the       *)
(* thread, hands over to a successor it inserts, logs its last event and   *)
(* closes its row.  Pollers and sweepers read the same rows in other       *)
(* processes: they repair a row from its log, reap one that looks dead     *)
(* and insert a successor for it; a user may stop the turn at any time.    *)
(*                                                                         *)
(* One turn, background runs with their dispatch_payload.  A statement is  *)
(* a step; the transactions of a reaper and of a stop hold row locks.      *)
(***************************************************************************)
EXTENDS Naturals, FiniteSets

CONSTANTS
    Budget,    \* resolveTurnRunLedgerBudget: rows a turn may have
    StaleCap,  \* STALE_RUN_RECOVERY_MAX_SUCCESSORS_PER_TURN
    DeadLimit, \* STALE_RUN_RECOVERY_CONSECUTIVE_NO_PROGRESS_LIMIT
    Pollers,   \* readers that look after the run they read (reapIfStale)
    Sweepers,  \* timers that look after all runs (reapAllStaleRuns)
    MayStop,   \* whether the user may stop the turn
    MaxRuns    \* bound: rows inserted

ASSUME BoundsAssumption == /\ Budget \in Nat /\ StaleCap \in Nat
                           /\ DeadLimit \in Nat \ {0}
                           /\ MaxRuns \in Nat \ {0} /\ MayStop \in BOOLEAN
ASSUME ObserversAssumption == Pollers \cap Sweepers = {}

\* Runs are numbered in the order of started_at.
Runs == 1..MaxRuns
Observers == Pollers \cup Sweepers

VARIABLES
    row,      \* agent_runs: status, error_code (stale_run or another or none),
              \* terminal_reason, dispatch_mode
    log,      \* the terminal events in agent_run_events, in their order: two,
              \* and the checkpoint, whose reserved number sorts after them
    marker,   \* 0, or the place of the turn-abort markers among the rows: the
              \* run that starts after they were written
    entered,  \* runs with an invocation that has not claimed yet
    prod,     \* producers: where they stand, how the chunk ended, the
              \* successor they inserted
    stored,   \* runs whose part of the turn is in thread_data
    obs,      \* observers: where they stand and the run they look at
    stop,     \* the user's stop: where it stands, the running rows it selected
    misjudged \* history: a run was reaped while its producer lived

rows == <<row, log, marker>>
vars == <<rows, entered, prod, stored, obs, stop, misjudged>>

NoRow == [status |-> "none", code |-> "other", reason |-> "none", mode |-> "none"]
NewRow == [status |-> "running", code |-> "other", reason |-> "none", mode |-> "background"]
EmptyLog == [first |-> "none", second |-> "none", check |-> FALSE]
NoProducer == [pc |-> "none", out |-> "done", next |-> 0]
Idle == [pc |-> "idle", run |-> 0]
Over == [NoProducer EXCEPT !.pc = "gone"]

RowType == [status : {"none", "running", "completed", "truncated", "errored", "aborted"},
            code : {"stale", "other"},
            reason : {"none", "continue", "final"},
            mode : {"none", "background", "processing"}]
LogType == [first : {"none", "done", "error", "continue", "stale"},
            second : {"none", "done", "error", "continue"},
            check : BOOLEAN]
Stages == {"none", "claimed", "work", "mark", "store", "count", "insert", "relook",
           "dispatch", "hand", "handreason", "emit", "close", "gone"}
Outcomes == {"done", "error", "continue", "aborted"}
ProducerType == [pc : Stages, out : Outcomes, next : 0..MaxRuns]
ObserverType == [pc : {"idle", "reap", "reaping", "append"}, run : 0..MaxRuns]
StopType == [pc : {"idle", "ask", "wait", "told"}, of : SUBSET Runs]

TypeOK ==
    /\ row \in [Runs -> RowType] /\ log \in [Runs -> LogType]
    /\ marker \in 0..(MaxRuns + 1)
    /\ entered \subseteq Runs /\ stored \subseteq Runs
    /\ prod \in [Runs -> ProducerType]
    /\ obs \in [Observers -> ObserverType]
    /\ stop \in StopType
    /\ misjudged \in BOOLEAN

Init ==
    /\ row = [r \in Runs |-> NoRow]
    /\ log = [r \in Runs |-> EmptyLog]
    /\ marker = 0
    /\ entered = {}
    /\ prod = [r \in Runs |-> NoProducer]
    /\ stored = {} /\ misjudged = FALSE
    /\ obs = [o \in Observers |-> Idle]
    /\ stop = [pc |-> "idle", of |-> {}]

----------------------------------------------------------------------------
(* The rows and the log *)

Rows == {r \in Runs : row[r].status # "none"}
Fresh == Cardinality(Rows) + 1
Running(r) == row[r].status = "running"
Locked(r) == \E o \in Observers : obs[o].pc = "reaping" /\ obs[o].run = r
Stale(r) == row[r].status = "errored" /\ row[r].code = "stale"

\* The count of the turn's rows, the two markers among them.
RowsOfTurn == Cardinality(Rows) + IF marker = 0 THEN 0 ELSE 2

\* Mutant: the successor's own row is not counted.
ExhaustedBeyond == RowsOfTurn > Budget

\* turnRunLedgerExhausted: the turn must not be given another row.
Exhausted == RowsOfTurn >= Budget

HasTerminal(l) == l.check \/ l.first # "none"

\* insertRunEvent of a terminal event, at the sequence number its producer
\* counts: a row that does not run takes no event, and where another process
\* already wrote at that number the event is dropped.
Put(r, e) ==
    IF ~Running(r) THEN {log}
    ELSE IF log[r].first = "none" THEN {[log EXCEPT ![r].first = e]}
    ELSE {log, [log EXCEPT ![r].second = e]}

\* appendTerminalRunEvent: after the last event, unless that is terminal.
Appended(l, e) == IF HasTerminal(l) THEN l ELSE [l EXCEPT !.first = e]

\* getRunEventForReconciliation: a real failure, or else the latest terminal
\* event.
Verdict(l) ==
    IF "error" \in {l.first, l.second} THEN "error"
    ELSE IF l.check THEN "continue"
    ELSE IF l.second # "none" THEN l.second ELSE l.first

\* What an event says of its run: terminalStatusForEvent, its error code and
\* terminalReasonForEvent.
RowOf(e, old) ==
    [old EXCEPT !.status = CASE e = "done" -> "completed" [] e = "continue" -> "truncated"
                             [] OTHER -> "errored",
                !.code = IF e = "stale" THEN "stale" ELSE "other",
                !.reason = IF e = "continue" THEN "continue" ELSE "final"]

\* Mutant: only a reaped row is repaired.
ReconciledReaped(r) ==
    IF HasTerminal(log[r]) /\ Stale(r)
    THEN RowOf(Verdict(log[r]), row[r]) ELSE row[r]

\* reconcileTerminalRunFromEvents: only a running row, or one that was reaped.
Reconciled(r) ==
    IF HasTerminal(log[r]) /\ (Running(r) \/ Stale(r))
    THEN RowOf(Verdict(log[r]), row[r]) ELSE row[r]

\* The table with the columns of r written.
Written(r, s, c, why) ==
    [row EXCEPT ![r] = [status |-> s, code |-> c, reason |-> why, mode |-> @.mode]]

\* Mutant: without the status condition.
WithStatusAlways(r, s) == [row EXCEPT ![r].status = s]

\* updateRunStatusIfRunning.
WithStatus(r, s) == IF Running(r) THEN [row EXCEPT ![r].status = s] ELSE row

\* setRunTerminalReason: once on a terminal row, and a completed run that
\* stopped at a boundary was truncated.
WithReason(r, why) ==
    IF Running(r) \/ row[r].reason = "none"
    THEN Written(r, IF row[r].status = "completed" /\ why = "continue"
                   THEN "truncated" ELSE row[r].status, row[r].code, why)
    ELSE row

\* The running rows of S are aborted, and the logs of those in L take an event.
AbortingAndLogging(S, L) ==
    LET hit == {r \in S : Running(r)} IN
    /\ row' = [r \in Runs |-> IF r \in hit
                  THEN [row[r] EXCEPT !.status = "aborted", !.reason = "final"] ELSE row[r]]
    /\ log' = [r \in Runs |-> IF r \in hit \cap L THEN Appended(log[r], "done") ELSE log[r]]

\* markRunAborted.
Aborting(S) == AbortingAndLogging(S, S)

----------------------------------------------------------------------------
(* Dispatch and claim *)

\* tryClaimRunSlot for the user's request, under the lock of the run slot that
\* a stop holds too.  Every insert of a run is followed
\* by a dispatch; it may be slow, lost or delivered twice, and the sweep of
\* unclaimed runs (sweepUnclaimedBackgroundRuns) repeats it.
Post ==
    /\ Rows = {} /\ marker = 0 /\ stop.pc # "wait"
    /\ row' = [row EXCEPT ![1] = NewRow]
    /\ UNCHANGED <<log, marker, entered, prod, stored, obs, stop, misjudged>>

Claimable(r) == Running(r) /\ row[r].mode = "background"

\* claimBackgroundWorkerRunEarly up to its claim: a stopped turn is not entered.
Deliver(r) ==
    /\ Claimable(r) /\ r \notin entered /\ ~Locked(r)
    /\ IF marker # 0 THEN Aborting({r}) /\ entered' = entered
                     ELSE entered' = entered \cup {r} /\ UNCHANGED <<row, log>>
    /\ UNCHANGED <<marker, prod, stored, obs, stop, misjudged>>

\* claimBackgroundRun: of several invocations one wins, the others leave.
Claim(r) ==
    /\ r \in entered /\ ~Locked(r)
    /\ entered' = entered \ {r}
    /\ IF Claimable(r)
       THEN /\ row' = [row EXCEPT ![r].mode = "processing"]
            /\ prod' = [prod EXCEPT ![r] = [NoProducer EXCEPT !.pc = "claimed"]]
       ELSE UNCHANGED <<row, prod>>
    /\ UNCHANGED <<log, marker, stored, obs, stop, misjudged>>

\* reapUnclaimedBackgroundRun: a run nobody claimed is given up after a while.
ReapUnclaimed(r) ==
    /\ Claimable(r) /\ ~Locked(r)
    /\ row' = Written(r, "errored", "other", "final")
    /\ log' = [log EXCEPT ![r] = Appended(@, "error")]
    /\ UNCHANGED <<marker, entered, prod, stored, obs, stop, misjudged>>

----------------------------------------------------------------------------
(* The producer *)

At(r, pc) == prod[r].pc = pc
Go(r, pc) == prod' = [prod EXCEPT ![r].pc = pc]
GoWith(r, pc, out) == prod' = [prod EXCEPT ![r].pc = pc, ![r].out = out]

\* The last look at the marker before the agent starts.
Begin(r) ==
    /\ At(r, "claimed") /\ ~Locked(r)
    /\ IF marker # 0 THEN prod' = [prod EXCEPT ![r] = Over] /\ Aborting({r})
                     ELSE Go(r, "work") /\ UNCHANGED <<row, log>>
    /\ UNCHANGED <<marker, entered, stored, obs, stop, misjudged>>

\* checkSqlAbort: the row is not running any more.
Notice(r) ==
    /\ At(r, "work") /\ ~Running(r)
    /\ GoWith(r, "store", "aborted")
    /\ UNCHANGED <<rows, entered, stored, obs, stop, misjudged>>

\* The agent answers, fails or ends where it can be continued.
Conclude(r, out) ==
    /\ At(r, "work") /\ GoWith(r, "store", out)
    /\ UNCHANGED <<rows, entered, stored, obs, stop, misjudged>>

\* reachRunBoundary, checkpointRunBoundary: the boundary is logged at once
Checkpoint(r) ==
    /\ At(r, "work") /\ GoWith(r, "mark", "continue")
    /\ log' = [log EXCEPT ![r].check = Running(r)]
    /\ UNCHANGED <<row, marker, entered, stored, obs, stop, misjudged>>

\* and its reason stored with the run.
MarkBoundary(r) ==
    /\ At(r, "mark") /\ ~Locked(r) /\ Go(r, "store")
    /\ row' = WithReason(r, "continue")
    /\ UNCHANGED <<log, marker, entered, stored, obs, stop, misjudged>>

\* Mutant: a chunk is handed over, or ends, before the thread is saved.
AfterStoreLost(r) == stored

AfterStore(r) == stored \cup {r}

\* onComplete saves the thread; a chunk at a boundary then hands over.
Store(r) ==
    /\ At(r, "store")
    /\ Go(r, CASE prod[r].out = "continue" -> "count"
              [] prod[r].out = "aborted"  -> "close"
              [] OTHER                    -> "emit")
    /\ stored' = AfterStore(r)
    /\ UNCHANGED <<rows, entered, obs, stop, misjudged>>

\* A failed save fails the run, unless it was aborted.
StoreFails(r) ==
    /\ At(r, "store")
    /\ IF prod[r].out = "aborted" THEN Go(r, "close") ELSE GoWith(r, "emit", "error")
    /\ UNCHANGED <<rows, entered, stored, obs, stop, misjudged>>

\* chainServerDrivenContinuation: the turn has rows left and is not stopped,
CountRows(r) ==
    /\ At(r, "count") /\ ~Exhausted /\ ~Locked(r)
    /\ IF marker # 0 THEN Go(r, "emit") /\ Aborting({r})
                     ELSE Go(r, "insert") /\ UNCHANGED <<row, log>>
    /\ UNCHANGED <<marker, entered, stored, obs, stop, misjudged>>

\* or it has none, or no time, or the count cannot be read: stopTurn.
StopTurn(r) ==
    /\ At(r, "count") /\ ~Locked(r) /\ Go(r, "emit")
    /\ row' = IF Running(r) THEN Written(r, "errored", "other", "final") ELSE row
    /\ UNCHANGED <<log, marker, entered, stored, obs, stop, misjudged>>

\* insertRun of the successor.
Insert(r) ==
    /\ At(r, "insert") /\ Fresh \in Runs
    /\ row' = [row EXCEPT ![Fresh] = NewRow]
    /\ prod' = [prod EXCEPT ![r].pc = "relook", ![r].next = Fresh]
    /\ UNCHANGED <<log, marker, entered, stored, obs, stop, misjudged>>

Relook(r) ==
    /\ At(r, "relook") /\ ~Locked(r) /\ ~Locked(prod[r].next)
    /\ IF marker # 0 THEN /\ prod' = [prod EXCEPT ![r].pc = "emit", ![r].next = 0]
                          /\ Aborting({r, prod[r].next})
                     ELSE Go(r, "dispatch") /\ UNCHANGED <<row, log>>
    /\ UNCHANGED <<marker, entered, stored, obs, stop, misjudged>>

\* attemptContinuationDispatch succeeds, or the successor is left to the sweep
\* and the chunk is completed.
Dispatch(r) ==
    /\ At(r, "dispatch")
    /\ prod' = [prod EXCEPT ![r].pc = "hand", ![r].next = 0]
    /\ UNCHANGED <<rows, entered, stored, obs, stop, misjudged>>

Defer(r) ==
    /\ At(r, "dispatch") /\ ~Locked(r)
    /\ prod' = [prod EXCEPT ![r].pc = "emit", ![r].next = 0]
    /\ row' = IF Running(r) THEN Written(r, "completed", "other", "final") ELSE row
    /\ UNCHANGED <<log, marker, entered, stored, obs, stop, misjudged>>

\* The successor is neither inserted nor dispatched, or the marker cannot be
\* read again: the catch of chainServerDrivenContinuation.
ChainFails(r) ==
    /\ prod[r].pc \in {"insert", "relook"} /\ ~Locked(r)
    /\ prod' = [prod EXCEPT ![r].pc = "emit", ![r].next = 0]
    /\ row' = IF Running(r) THEN Written(r, "errored", "other", "final") ELSE row
    /\ UNCHANGED <<log, marker, entered, stored, obs, stop, misjudged>>

\* markBackgroundContinuationChunkTerminal: errored when the last event of the
\* chunk is an error, one the turn can be continued from.
Hand(r) ==
    /\ At(r, "hand") /\ ~Locked(r)
    /\ Go(r, IF Running(r) THEN "handreason" ELSE "emit")
    /\ \E s \in {"completed", "errored"} : row' = WithStatus(r, s)
    /\ UNCHANGED <<log, marker, entered, stored, obs, stop, misjudged>>

\* The reason is that error then, and that of the continuation otherwise.
HandReason(r) ==
    /\ At(r, "handreason") /\ ~Locked(r) /\ Go(r, "emit")
    /\ row' = WithReason(r, IF row[r].status = "errored" THEN "final" ELSE "continue")
    /\ UNCHANGED <<log, marker, entered, stored, obs, stop, misjudged>>

\* The last event; an aborted run logs none.
Emit(r) ==
    /\ At(r, "emit") /\ Go(r, "close")
    /\ log' \in Put(r, prod[r].out)
    /\ UNCHANGED <<row, marker, entered, stored, obs, stop, misjudged>>

FinalStatus(out) == CASE out = "done" -> "completed" [] out = "continue" -> "truncated"
                      [] out = "error" -> "errored"  [] out = "aborted" -> "aborted"

Diagnosed(r, rw) == IF prod[r].out = "error" THEN [rw EXCEPT !.code = "other"] ELSE rw

\* The row is closed with its reason, or repaired when another process closed
\* it first; setRunError then records a failure whatever the row says.
Close(r) ==
    /\ At(r, "close") /\ ~Locked(r)
    /\ prod' = [prod EXCEPT ![r] = Over]
    /\ row' = IF Running(r)
              THEN Written(r, FinalStatus(prod[r].out), "other",
                          IF prod[r].out = "continue" THEN "continue" ELSE "final")
              ELSE [row EXCEPT ![r] = Diagnosed(r, Reconciled(r))]
    /\ UNCHANGED <<log, marker, entered, stored, obs, stop, misjudged>>

Alive(r) == prod[r].pc \notin {"none", "gone"}

\* The process of a producer dies.
Crash(r) ==
    /\ Alive(r) /\ prod' = [prod EXCEPT ![r] = Over]
    /\ UNCHANGED <<rows, entered, stored, obs, stop, misjudged>>

----------------------------------------------------------------------------
(* Pollers and sweepers *)

\* reapIfStale, reapAllStaleRuns: the row is repaired from its log first; a
\* poll that repaired it is done.
Observe(o, r) ==
    /\ obs[o].pc = "idle" /\ Running(r) /\ ~Locked(r)
    /\ row' = [row EXCEPT ![r] = Reconciled(r)]
    /\ obs' = [obs EXCEPT ![o] = IF o \in Pollers /\ row' # row
                                 THEN @ ELSE [pc |-> "reap", run |-> r]]
    /\ UNCHANGED <<log, marker, entered, prod, stored, stop, misjudged>>

\* reapSingleStaleRun: a running row without a terminal event that looks dead.
\* A producer that lives may look dead, when its heartbeat does not land.
Reapable(r) == Running(r) /\ ~HasTerminal(log[r])

Reap(o) ==
    LET r == obs[o].run IN
    /\ obs[o].pc = "reap" /\ Reapable(r) /\ ~Locked(r)
    /\ obs' = [obs EXCEPT ![o].pc = "reaping"]
    /\ UNCHANGED <<rows, entered, prod, stored, stop, misjudged>>

\* Nothing to reap, or not stale yet, or not any more: a poll looks at the log
\* again, a sweep goes on to append.
Miss(o) ==
    LET r == obs[o].run IN
    /\ obs[o].pc = "reap" /\ ~Locked(r)
    /\ IF o \in Pollers
       THEN obs' = [obs EXCEPT ![o] = Idle] /\ row' = [row EXCEPT ![r] = Reconciled(r)]
       ELSE obs' = [obs EXCEPT ![o].pc = "append"] /\ row' = row
    /\ UNCHANGED <<log, marker, entered, prod, stored, stop, misjudged>>

\* Mutant: a successor whatever the turn has started since.
RecoverableAgain(r) ==
    /\ ~Exhausted
    /\ Cardinality({s \in Rows \ {r} : row[s].code = "stale"}) < StaleCap

\* attemptStaleRunRecovery: nothing newer in the turn, markers included, rows
\* left, and fewer reaped runs than the cap.
Recoverable(r) ==
    /\ \A s \in Rows : s <= r
    /\ marker <= r
    /\ ~Exhausted
    /\ Cardinality({s \in Rows \ {r} : row[s].code = "stale"}) < StaleCap

\* The last runs of the turn were all reaped, perhaps without any progress.
DeadOnArrival(r) ==
    \E S \in SUBSET Rows : /\ Cardinality(S) = DeadLimit
                           /\ \A s \in S, q \in Rows \ S : q < s
                           /\ \A s \in S \ {r} : row[s].code = "stale"

\* The rest of its transaction: the row is closed and, where the turn can be
\* recovered, a successor inserted.
Commit(o) ==
    LET r == obs[o].run
        closed == Written(r, "errored", "stale", "final")
    IN
    /\ obs[o].pc = "reaping"
    /\ obs' = [obs EXCEPT ![o].pc = "append"]
    /\ misjudged' = (misjudged \/ Alive(r))
    /\ \/ /\ Recoverable(r) /\ Fresh \in Runs
          /\ row' = [closed EXCEPT ![Fresh] = NewRow]
       \/ /\ Recoverable(r) => DeadOnArrival(r)
          /\ row' = closed
    /\ UNCHANGED <<log, marker, entered, prod, stored, stop>>

Append(o) ==
    /\ obs[o].pc = "append"
    /\ obs' = [obs EXCEPT ![o] = Idle]
    /\ log' = [log EXCEPT ![obs[o].run] = Appended(@, "stale")]
    /\ UNCHANGED <<row, marker, entered, prod, stored, stop, misjudged>>

----------------------------------------------------------------------------
(* The user's stop *)

\* abortTurnByRefDurably: the producers of this process stop.
StopTheTurn ==
    /\ MayStop /\ stop.pc = "idle"
    /\ stop' = [stop EXCEPT !.pc = "ask"]
    /\ \E local \in SUBSET {r \in Runs : At(r, "work")} :
          prod' = [r \in Runs |-> IF r \in local
                      THEN [prod[r] EXCEPT !.pc = "store", !.out = "aborted"] ELSE prod[r]]
    /\ UNCHANGED <<rows, entered, stored, obs, misjudged>>

\* The latest run ended where nothing continues it.
TurnOver ==
    /\ Rows # {}
    /\ LET last == Cardinality(Rows) IN
       /\ ~log[last].check /\ "continue" \notin {log[last].first, log[last].second}
       /\ row[last].reason # "continue"

\* markTurnAborted with the rows of S selected and locked: when one still runs,
\* everything that runs by now is aborted and the markers written, and what was
\* selected is logged; when none does, the latest run decides.
Decide(S) ==
    /\ stop' = [pc |-> "told", of |-> {}]
    /\ \/ /\ \E r \in S : Running(r)
          /\ \A r \in Runs : ~Locked(r)
          /\ AbortingAndLogging(Runs, S) /\ marker' = Fresh
       \/ /\ \A r \in S : ~Running(r)
          /\ ~TurnOver
          /\ marker' = Fresh /\ UNCHANGED <<row, log>>
       \/ /\ \A r \in S : ~Running(r)
          /\ TurnOver
          /\ UNCHANGED rows

\* SELECT ... FOR UPDATE of the running rows: at once, or after the transaction
\* that holds one of them; the statement does not see rows inserted meanwhile.
StopSelects ==
    /\ stop.pc = "ask"
    /\ LET S == {r \in Runs : Running(r)} IN
       IF \E r \in S : Locked(r)
       THEN stop' = [pc |-> "wait", of |-> S] /\ UNCHANGED rows
       ELSE Decide(S)
    /\ UNCHANGED <<entered, prod, stored, obs, misjudged>>

StopHasWaited ==
    /\ stop.pc = "wait" /\ \A r \in stop.of : ~Locked(r)
    /\ Decide(stop.of)
    /\ UNCHANGED <<entered, prod, stored, obs, misjudged>>

----------------------------------------------------------------------------
Produce(r) ==
    \/ Begin(r) \/ Notice(r) \/ Checkpoint(r) \/ MarkBoundary(r)
    \/ \E out \in {"done", "error", "continue"} : Conclude(r, out)
    \/ Store(r) \/ StoreFails(r) \/ CountRows(r) \/ StopTurn(r) \/ Insert(r)
    \/ Relook(r) \/ Dispatch(r) \/ Defer(r) \/ ChainFails(r)
    \/ Hand(r) \/ HandReason(r) \/ Emit(r) \/ Close(r)

Watch(o) == Reap(o) \/ Miss(o) \/ Commit(o) \/ Append(o)

Next ==
    \/ Post \/ StopTheTurn \/ StopSelects \/ StopHasWaited
    \/ \E r \in Runs : \/ Deliver(r) \/ Claim(r) \/ ReapUnclaimed(r)
                       \/ Produce(r) \/ Crash(r)
    \/ \E o \in Observers : Watch(o) \/ \E r \in Runs : Observe(o, r)

Spec == Init /\ [][Next]_vars

\* A producer that lives goes on, an observer finishes what it began; timers
\* and polls come round to every run, and do not find it fresh for ever.
Fairness ==
    /\ \A r \in Runs : WF_vars(Produce(r)) /\ WF_vars(Claim(r))
    /\ \A o \in Observers : WF_vars(Watch(o)) /\ SF_vars(Reap(o))
    /\ \A o \in Observers, r \in Runs : SF_vars(Observe(o, r))

FairSpec == Spec /\ Fairness

----------------------------------------------------------------------------
\* Every writer of a row respects how it ended: an aborted or failed run stays
\* so, a completed one can only turn out to have been truncated, and only the
\* verdict of a reaper is corrected, by the event the producer had logged.
StatusFinal ==
    [][\A r \in Runs :
          LET old == row[r].status  new == row'[r].status IN
          /\ old \notin {"none", "running"} /\ new # old
             => \/ old = "completed" /\ new = "truncated"
                \/ Stale(r) /\ new \in {"completed", "truncated", "errored"}
          /\ old # "none" => new # "none"]_vars

\* Readers take the answer from thread_data once a row says completed,
\* whichever process wrote that: by then it is there.
CompletedIsStored == \A r \in Runs : row[r].status = "completed" => r \in stored

\* As long as no live producer was taken for dead, one agent works on the turn.
OneProducer ==
    ~misjudged => \A r, s \in Runs : At(r, "work") /\ At(s, "work") => r = s

\* As long as no live producer was taken for dead, a turn that was continued
\* has no more rows than its budget, and what a producer counted before still
\* holds when it inserts its successor, whatever reapers insert meanwhile.
WithinBudget ==
    ~misjudged =>
        /\ Cardinality(Rows) <= 1 \/ Cardinality(Rows) <= Budget
        /\ \A r \in Runs : At(r, "insert") => Cardinality(Rows) < Budget

\* No run stays open: crashes, lost dispatches and wrong verdicts included.
EveryRunEnds == \A r \in Runs : Running(r) ~> ~Running(r)

\* Once a stop has been answered no agent works on a run that is still open.
StopStops ==
    stop.pc = "told" => \A r \in Runs : ~(At(r, "work") /\ Running(r))
=============================================================================

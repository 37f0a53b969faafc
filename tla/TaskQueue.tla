----------------------------- MODULE TaskQueue -----------------------------
(***************************************************************************)
(* The queue between the webhooks of a messaging platform and the agent    *)
(* (src/agent-native/packages/core/src/integrations).  A webhook stores a  *)
(* task and posts a dispatch; a fresh invocation of the processor claims   *)
(* the row, runs the agent, stages the answer in the row, sends it, stages *)
(* the receipt, stores the history and completes the row; a sweep finds    *)
(* rows that stood still.  The row is all that the invocations share: they *)
(* crash, stall and overlap as they like.                                  *)
(*                                                                         *)
(* The portable processor is modelled (no durable campaign), with tasks    *)
(* that carry a message or its answer.                                     *)
(***************************************************************************)
EXTENDS Naturals, FiniteSets

CONSTANTS
    Events,       \* events of the provider, each with an external_event_key
    Threads,      \* conversations (external_thread_id)
    ThreadOf,     \* the conversation of an event
    Workers,      \* slots for invocations of the processor
    NoOne,        \* a model value: no event, no thread
    MaxAttempts,  \* MAX_PENDING_TASK_ATTEMPTS
    Outlives,     \* may an invocation outlive the time the sweep allows it?
    MaxTasks,     \* bound: rows inserted
    MaxFaults     \* bound: crashes, lost dispatches and failed calls

ASSUME ThreadsAssumption == ThreadOf \in [Events -> Threads] /\ NoOne \notin Threads
ASSUME BoundsAssumption == /\ MaxAttempts \in Nat \ {0}
                           /\ MaxTasks \in Nat
                           /\ MaxFaults \in Nat
ASSUME OutlivesAssumption == Outlives \in BOOLEAN

\* Tasks are numbered in the order (created_at, id) in which rows are served,
\* which need not be the order in which they turn up in the table.
Tasks == 1..MaxTasks

VARIABLES
    status,     \* the rows of integration_pending_tasks: status,
    attempts,   \* attempts,
    payload,    \* payload: the message, the staged answer, the answer with
                \* its receipt, or "{}" once terminal
    thread,     \* external_thread_id
    eventKey,   \* external_event_key
    toFire,     \* tasks somebody is about to dispatch
    calls,      \* dispatches on their way to the processor
    worker,     \* the invocations of the processor
    seen,       \* the sweep's snapshot: the status it selected a row with
    moved,      \* rows updated since the sweep selected them
    ran,        \* history: agent runs of a task
    sent,       \* history: answers the provider accepted for a task
    brokeDown,  \* history: tasks whose agent broke down before an answer
    faults      \* faults so far

rows == <<status, attempts, payload, thread, eventKey>>
history == <<ran, sent, brokeDown>>
vars == <<rows, toFire, calls, worker, seen, moved, history, faults>>

Terminal == {"completed", "failed"}
Free == [pc |-> "idle", task |-> 0, from |-> "message", tries |-> 0, carry |-> "answer"]

\* Where an invocation stands, its task, the payload and the attempt it
\* claimed, and what it leaves for a delivery retry.
Invocations ==
    [pc : {"idle", "agent", "stage", "send", "receipt", "persist", "complete",
           "next", "catch", "checkpoint", "contain"},
     task : Tasks \cup {0}, from : {"message", "answer", "receipt"},
     tries : Nat, carry : {"answer", "receipt"}]

TypeOK ==
    /\ status \in [Tasks -> {"none", "pending", "processing", "completed", "failed"}]
    /\ attempts \in [Tasks -> Nat]
    /\ payload \in [Tasks -> {"message", "answer", "receipt", "scrubbed"}]
    /\ thread \in [Tasks -> Threads \cup {NoOne}]
    /\ eventKey \in [Tasks -> Events \cup {NoOne}]
    /\ toFire \subseteq Tasks /\ calls \subseteq Tasks /\ moved \subseteq Tasks
    /\ worker \in [Workers -> Invocations]
    /\ seen \in [Tasks -> {"none", "pending", "processing"}]
    /\ ran \in [Tasks -> Nat] /\ sent \in [Tasks -> Nat]
    /\ brokeDown \subseteq Tasks
    /\ faults \in 0..MaxFaults

Init ==
    /\ status = [t \in Tasks |-> "none"]
    /\ attempts = [t \in Tasks |-> 0]
    /\ payload = [t \in Tasks |-> "message"]
    /\ thread = [t \in Tasks |-> NoOne]
    /\ eventKey = [t \in Tasks |-> NoOne]
    /\ toFire = {} /\ calls = {} /\ moved = {}
    /\ worker = [w \in Workers |-> Free]
    /\ seen = [t \in Tasks |-> "none"]
    /\ ran = [t \in Tasks |-> 0] /\ sent = [t \in Tasks |-> 0]
    /\ brokeDown = {}
    /\ faults = 0

----------------------------------------------------------------------------
\* Something goes wrong: one of the bounded number of faults.
Fault == faults < MaxFaults /\ faults' = faults + 1
NoFault == faults' = faults

\* A row was written: a compare-and-swap on its updated_at now fails.
Touch(t) == moved' = IF seen[t] = "none" THEN moved ELSE moved \cup {t}

SameThread(t) == {s \in Tasks : status[s] # "none" /\ thread[s] = thread[t]}

\* getNextPendingTaskForThread: the oldest pending task of the conversation.
NextPending(t) ==
    {s \in SameThread(t) : /\ status[s] = "pending"
                           /\ \A r \in SameThread(t) : status[r] = "pending" => s <= r}

\* Mutants: every retry starts from the message; a receipt is sent again; a
\* stage that no code handles.
StartOfScratch(p) == "agent"
StartOfSending(p) == IF p = "message" THEN "agent" ELSE "send"
StartOfUnhandled(p) == IF p = "message" THEN "agent" ELSE "deliver"

\* Where the processor starts, by the payload it claimed.
StartOf(p) == CASE p = "message" -> "agent"
                [] p = "answer"  -> "send"
                [] p = "receipt" -> "persist"

MoveTo(w, pc) == worker' = [worker EXCEPT ![w].pc = pc]
Retry(w, staged) == worker' = [worker EXCEPT ![w].pc = "checkpoint", ![w].carry = staged]
Leave(w) == worker' = [worker EXCEPT ![w] = Free]

----------------------------------------------------------------------------
(* The webhook *)

\* handleWebhook, enqueueAndDispatch: the unique index on the event key turns
\* a second delivery away; otherwise the row is stored and then dispatched.
\* created_at is read before the INSERT, in one of many processes: a row may
\* turn up when a later one of its conversation has already been claimed.
Enqueue(e, t) ==
    /\ status[t] = "none"
    /\ \A s \in Tasks : eventKey[s] # e
    /\ status' = [status EXCEPT ![t] = "pending"]
    /\ thread' = [thread EXCEPT ![t] = ThreadOf[e]]
    /\ eventKey' = [eventKey EXCEPT ![t] = e]
    /\ toFire' = toFire \cup {t}
    /\ UNCHANGED <<attempts, payload, calls, worker, seen, moved, history, faults>>

\* dispatchPendingIntegrationTask: the post reaches the processor, or is lost
\* with the process that makes it.
Fire(t) ==
    /\ t \in toFire
    /\ toFire' = toFire \ {t}
    /\ \/ calls' = calls \cup {t} /\ NoFault
       \/ calls' = calls /\ Fault
    /\ UNCHANGED <<rows, worker, seen, moved, history>>

----------------------------------------------------------------------------
(* The processor *)

\* Mutant: only a processing task of the conversation is waited for.
ClaimableOutOfOrder(t) ==
    /\ status[t] = "pending"
    /\ \A s \in SameThread(t) \ {t} : status[s] # "processing"

\* The WHERE clause of claimPendingTask.
Claimable(t) ==
    /\ status[t] = "pending"
    /\ \A s \in SameThread(t) \ {t} :
         /\ status[s] # "processing"
         /\ s < t => status[s] # "pending"

\* process-task: the invocation claims its task, or leaves.
Claim(w, t) ==
    /\ t \in calls /\ worker[w].pc = "idle"
    /\ calls' = calls \ {t}
    /\ IF Claimable(t)
       THEN /\ status' = [status EXCEPT ![t] = "processing"]
            /\ attempts' = [attempts EXCEPT ![t] = @ + 1]
            /\ worker' = [worker EXCEPT ![w] =
                 [pc |-> StartOf(payload[t]), task |-> t, from |-> payload[t],
                  tries |-> attempts[t] + 1, carry |-> "answer"]]
            /\ Touch(t)
       ELSE UNCHANGED <<status, attempts, worker, moved>>
    /\ UNCHANGED <<payload, thread, eventKey, toFire, seen, history, faults>>

\* processIncomingMessage: the agent runs.  It fails before it starts, ends
\* with an answer (its own or a fallback text), or the completion handler
\* throws before there is an answer.  The apology it then tries to post may
\* reach nobody: an error of it is swallowed, its receipt is not looked at.
RunAgent(w) ==
    LET t == worker[w].task IN
    /\ worker[w].pc = "agent"
    /\ \/ /\ MoveTo(w, "catch") /\ Fault
          /\ UNCHANGED <<ran, brokeDown>>
       \/ /\ MoveTo(w, "stage") /\ NoFault
          /\ ran' = [ran EXCEPT ![t] = @ + 1]
          /\ UNCHANGED brokeDown
       \/ /\ MoveTo(w, "complete") /\ Fault
          /\ ran' = [ran EXCEPT ![t] = @ + 1]
          /\ brokeDown' = brokeDown \cup {t}
    /\ UNCHANGED <<rows, toFire, calls, seen, moved, sent>>

\* stageTaskDeliveryPayload: writes only while the row is processing, and
\* throws otherwise.  What is staged goes on to the next stage.
StageAs(w, staged, next) ==
    LET t == worker[w].task IN
    \/ /\ status[t] = "processing" /\ NoFault
       /\ payload' = [payload EXCEPT ![t] = staged]
       /\ Touch(t)
       /\ MoveTo(w, next)
    \/ /\ IF status[t] = "processing" THEN Fault ELSE NoFault
       /\ Retry(w, staged)
       /\ UNCHANGED <<payload, moved>>

\* The answer is staged before it is sent.
StageAnswer(w) ==
    /\ worker[w].pc = "stage"
    /\ StageAs(w, "answer", "send")
    /\ UNCHANGED <<status, attempts, thread, eventKey, toFire, calls, seen, history>>

\* Mutant: whatever the adapter returns counts as delivered.
SendFailedUnproved(w) == MoveTo(w, "receipt")

\* A send without delivery proof fails: a first answer is kept for a delivery
\* retry, a retried one goes to the handler of the processor.
SendFailed(w) ==
    IF worker[w].from = "message" THEN Retry(w, "answer") ELSE MoveTo(w, "catch")

\* adapter.sendResponse: delivered with proof; or no proof, delivered or not.
Send(w) ==
    LET t == worker[w].task
        delivered == sent' = [sent EXCEPT ![t] = @ + 1] IN
    /\ worker[w].pc = "send"
    /\ \/ delivered /\ MoveTo(w, "receipt") /\ NoFault
       \/ (delivered \/ sent' = sent) /\ SendFailed(w) /\ Fault
    /\ UNCHANGED <<rows, toFire, calls, seen, moved, ran, brokeDown>>

StageReceipt(w) ==
    /\ worker[w].pc = "receipt"
    /\ StageAs(w, "receipt", "persist")
    /\ UNCHANGED <<status, attempts, thread, eventKey, toFire, calls, seen, history>>

\* The history of the conversation is stored (persistThreadData, which stages
\* its message ids in the row, or recordIntegrationResponseDelivery).
Persist(w) ==
    LET t == worker[w].task IN
    /\ worker[w].pc = "persist"
    /\ IF worker[w].from = "message"
       THEN StageAs(w, "receipt", "complete")
       ELSE /\ \/ MoveTo(w, "complete") /\ NoFault
               \/ Retry(w, "receipt") /\ Fault
            /\ UNCHANGED <<payload, moved>>
    /\ UNCHANGED <<status, attempts, thread, eventKey, toFire, calls, seen, history>>

\* After the answer is confirmed, an error of a delivery task re-queues its
\* receipt; that of a message task goes to the handler of the processor.
LateError(w) ==
    IF worker[w].from = "message" THEN MoveTo(w, "catch") ELSE Retry(w, "receipt")

\* markTaskCompleted: by id alone, whatever the row's status.  The call may
\* fail with or without its effect.
Complete(w) ==
    LET t == worker[w].task
        done == /\ status' = [status EXCEPT ![t] = "completed"]
                /\ payload' = [payload EXCEPT ![t] = "scrubbed"]
                /\ Touch(t) IN
    /\ worker[w].pc = "complete"
    /\ \/ done /\ MoveTo(w, "next") /\ NoFault
       \/ (done \/ UNCHANGED <<status, payload, moved>>) /\ LateError(w) /\ Fault
    /\ UNCHANGED <<attempts, thread, eventKey, toFire, calls, seen, history>>

\* The next task of the conversation is dispatched.
DispatchNext(w) ==
    /\ worker[w].pc = "next"
    /\ \/ /\ toFire' = toFire \cup NextPending(worker[w].task)
          /\ Leave(w) /\ NoFault
       \/ LateError(w) /\ Fault /\ toFire' = toFire
    /\ UNCHANGED <<rows, calls, seen, moved, history>>

\* The catch block: markTaskFailed by id alone once the attempts are used up,
\* else markTaskRetryable, only while the row is processing.
Catch(w) ==
    LET t == worker[w].task IN
    /\ worker[w].pc = "catch"
    /\ IF worker[w].tries >= MaxAttempts
       THEN /\ status' = [status EXCEPT ![t] = "failed"]
            /\ payload' = [payload EXCEPT ![t] = "scrubbed"]
            /\ eventKey' = [eventKey EXCEPT ![t] = NoOne]
            /\ Touch(t)
       ELSE IF status[t] = "processing"
            THEN /\ status' = [status EXCEPT ![t] = "pending"]
                 /\ Touch(t)
                 /\ UNCHANGED <<payload, eventKey>>
            ELSE UNCHANGED <<status, payload, eventKey, moved>>
    /\ Leave(w)
    /\ UNCHANGED <<attempts, thread, toFire, calls, seen, history, faults>>

\* checkpointIntegrationDeliveryRetry: markTaskDeliveryRetryable puts the row
\* back with what is to be delivered, and it is dispatched again; the call
\* throws when the row is no longer processing.
Checkpoint(w) ==
    LET t == worker[w].task IN
    /\ worker[w].pc = "checkpoint"
    /\ \/ /\ status[t] = "processing" /\ NoFault
          /\ status' = [status EXCEPT ![t] = "pending"]
          /\ payload' = [payload EXCEPT ![t] = worker[w].carry]
          /\ toFire' = toFire \cup {t}
          /\ Touch(t)
          /\ Leave(w)
       \/ /\ IF status[t] = "processing" THEN Fault ELSE NoFault
          /\ MoveTo(w, "contain")
          /\ UNCHANGED <<status, payload, toFire, moved>>
    /\ UNCHANGED <<attempts, thread, eventKey, calls, seen, history>>

\* containFailedDeliveryTransition: the row fails if it is still processing,
\* and the next task of the conversation is dispatched.
Contain(w) ==
    LET t == worker[w].task IN
    /\ worker[w].pc = "contain"
    /\ IF status[t] = "processing"
       THEN /\ status' = [status EXCEPT ![t] = "failed"]
            /\ payload' = [payload EXCEPT ![t] = "scrubbed"]
            /\ toFire' = toFire \cup NextPending(t)
            /\ Touch(t)
       ELSE UNCHANGED <<status, payload, toFire, moved>>
    /\ Leave(w)
    /\ UNCHANGED <<attempts, thread, eventKey, calls, seen, history, faults>>

\* The host kills the invocation.
Crash(w) ==
    /\ worker[w].pc # "idle" /\ Fault
    /\ Leave(w)
    /\ UNCHANGED <<rows, toFire, calls, seen, moved, history>>

----------------------------------------------------------------------------
(* The sweep: retryStuckPendingTasks *)

\* Mutant: the sweep looks only for rows that were never claimed.
StoodStillPending(t) == status[t] = "pending"

\* A row stood still long enough: a pending one sooner or later, a processing
\* one when the time an invocation is given has passed.
StoodStill(t) ==
    \/ status[t] = "pending"
    \/ /\ status[t] = "processing"
       /\ Outlives \/ \A w \in Workers : worker[w].pc # "idle" => worker[w].task # t

SweepSelect(t) ==
    /\ seen[t] = "none" /\ StoodStill(t)
    /\ seen' = [seen EXCEPT ![t] = status[t]]
    /\ UNCHANGED <<rows, toFire, calls, worker, moved, history, faults>>

\* Mutants: the row is written by id; no attempt is the last.
UnmovedByID(t) == status[t] \in {"pending", "processing"}
UsedUpNever(t) == FALSE

\* The compare-and-swap on status and updated_at: the row is as it was selected.
Unmoved(t) == t \notin moved
UsedUp(t) == attempts[t] >= MaxAttempts

SweepRow(t) ==
    /\ seen[t] # "none"
    /\ seen' = [seen EXCEPT ![t] = "none"]
    /\ moved' = moved \ {t}
    /\ IF ~Unmoved(t)
       THEN UNCHANGED <<status, payload, eventKey, toFire>>
       ELSE IF UsedUp(t)
       THEN /\ status' = [status EXCEPT ![t] = "failed"]
            /\ payload' = [payload EXCEPT ![t] = "scrubbed"]
            /\ eventKey' = [eventKey EXCEPT ![t] = NoOne]
            /\ UNCHANGED toFire
       ELSE /\ status' = [status EXCEPT ![t] = "pending"]
            /\ toFire' = toFire \cup {t}
            /\ UNCHANGED <<payload, eventKey>>
    /\ UNCHANGED <<attempts, thread, calls, worker, history, faults>>

----------------------------------------------------------------------------
Step(w) == \/ RunAgent(w) \/ StageAnswer(w) \/ Send(w) \/ StageReceipt(w)
           \/ Persist(w) \/ Complete(w) \/ DispatchNext(w) \/ Catch(w)
           \/ Checkpoint(w) \/ Contain(w)

Next ==
    \/ \E e \in Events, t \in Tasks : Enqueue(e, t)
    \/ \E t \in Tasks : Fire(t) \/ SweepSelect(t) \/ SweepRow(t)
    \/ \E w \in Workers, t \in Tasks : Claim(w, t)
    \/ \E w \in Workers : Step(w) \/ Crash(w)

Spec == Init /\ [][Next]_vars

\* The platform runs what was posted, an invocation that is not killed runs
\* on, and the sweep's timer keeps firing.
FairSpec ==
    /\ Spec
    /\ \A t \in Tasks : /\ WF_vars(Fire(t))
                        /\ WF_vars(\E w \in Workers : Claim(w, t))
                        /\ WF_vars(SweepSelect(t)) /\ WF_vars(SweepRow(t))
    /\ \A w \in Workers : WF_vars(Step(w))

----------------------------------------------------------------------------
(* Properties *)

\* Task t is being processed although the earlier s of its conversation waits.
Overtakes(t, s) == /\ s < t /\ thread[s] = thread[t]
                   /\ status[t] = "processing" /\ status[s] \in {"pending", "processing"}

\* A conversation is served in order: a task only ever overtakes an earlier one
\* that turns up while it is being processed.  It is never claimed before those
\* that are there have ended, and while it is processed no retry, sweep or stray
\* invocation brings one back (claimPendingTask and all that write the row).
ThreadOrder ==
    [][\A s, t \in Tasks : Overtakes(t, s)' =>
          Overtakes(t, s) \/ (status[t] = "processing" /\ status[s] = "none")]_vars

\* Two invocations never work on one conversation at a time, let alone on one
\* task (process-task: "only one invocation gets to process this task").
Working == {w \in Workers : worker[w].pc \in
             {"agent", "stage", "send", "receipt", "persist", "complete"}}
OneInvocation ==
    \A v, w \in Working : v # w => thread[worker[v].task] # thread[worker[w].task]

\* A task completes only when the provider has accepted its answer, or when
\* the agent broke down before there was one: no retry, sweep or stray
\* invocation completes a task whose answer exists but went nowhere.
AnsweredBeforeCompleted ==
    \A t \in Tasks : status[t] = "completed" => sent[t] > 0 \/ t \in brokeDown

\* The agent, whose tools change things, runs for a task at most as often as
\* a task may be attempted, however the sweep and the invocations race.
AgentCapped == \A t \in Tasks : ran[t] <= MaxAttempts

\* Once an answer is staged in the row, no retry runs the agent again.
AgentNotRerun ==
    [][\A t \in Tasks : payload[t] \in {"answer", "receipt"} => ran'[t] = ran[t]]_vars

\* Once a receipt is staged in the row, no retry sends the answer again.
NotSentAgain ==
    [][\A t \in Tasks : payload[t] = "receipt" => sent'[t] = sent[t]]_vars

\* Every task that was stored ends, through lost dispatches and crashes: the
\* sweep never leaves a conversation standing behind a dead invocation.
EveryTaskEnds ==
    \A t \in Tasks : status[t] # "none" ~> status[t] \in Terminal

=============================================================================

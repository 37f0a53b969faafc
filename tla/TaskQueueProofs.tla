-------------------------- MODULE TaskQueueProofs --------------------------
(***************************************************************************)
(* Proved for any events, conversations, workers and bounds: types; a task *)
(* overtakes an earlier one of its conversation only when that turns up    *)
(* while it is being processed; a task completes only after its answer was *)
(* accepted or its agent broke down.  As long as no invocation outlives    *)
(* the time the sweep allows it (~Outlives): one invocation works on a     *)
(* conversation, the agent runs no more often than a task may be           *)
(* attempted, never after its answer is staged, and no answer is sent      *)
(* after its receipt is.                                                   *)
(*                                                                         *)
(* RowInv adds to the types that the sweep's snapshot is true of a row     *)
(* nobody has touched since (SnapshotHolds); OrderInv that one task of a   *)
(* conversation is processing; AnswerInv ties the stage of an invocation   *)
(* to what the provider has accepted (AnsweredBy); InvocationInv says that *)
(* a row somebody works on is his alone (OwnRow, Apart, Swept).            *)
(***************************************************************************)
EXTENDS TaskQueue, TLAPS

Busy(w) == worker[w].pc # "idle"

\* An invocation works on a stored row.
BusyOnTask == \A w \in Workers :
                Busy(w) => worker[w].task \in Tasks /\ status[worker[w].task] # "none"

\* A row that may be claimed again has its payload.
PayloadKept == \A t \in Tasks : status[t] \notin Terminal => payload[t] # "scrubbed"

\* A row nobody has touched since the sweep selected it is as the sweep saw it.
SnapshotHolds == \A t \in Tasks : seen[t] # "none" /\ t \notin moved => status[t] = seen[t]

RowInv == TypeOK /\ BusyOnTask /\ PayloadKept /\ SnapshotHolds

LEMMA RowInit == Init => RowInv
BY BoundsAssumption DEF Init, RowInv, TypeOK, Invocations, BusyOnTask, PayloadKept, SnapshotHolds, Busy, Free, Terminal

\* The next task is a task.
LEMMA NextPendingTasks == \A t : NextPending(t) \subseteq Tasks
BY DEF NextPending, SameThread

\* The invocation w goes on to the stage pc, holding c for a delivery retry.
After(w, pc, c) ==
    /\ worker' \in [Workers -> Invocations]
    /\ \A v \in Workers : v # w => worker'[v] = worker[v]
    /\ worker'[w].pc = pc /\ worker'[w].carry = c
    /\ worker'[w].task = worker[w].task /\ worker'[w].from = worker[w].from
    /\ worker'[w].tries = worker[w].tries

Gone(w) ==
    /\ worker' \in [Workers -> Invocations]
    /\ \A v \in Workers : v # w => worker'[v] = worker[v]
    /\ worker'[w].pc = "idle"

\* What the helpers do to the invocation.
LEMMA Moves ==
  ASSUME TypeOK, NEW w \in Workers
  PROVE  /\ \A pc \in {"stage", "send", "receipt", "persist", "complete", "next", "catch", "contain"} :
               MoveTo(w, pc) => After(w, pc, worker[w].carry)
         /\ \A c \in {"answer", "receipt"} : Retry(w, c) => After(w, "checkpoint", c)
         /\ Leave(w) => Gone(w)
         /\ LateError(w) =>
              \/ worker[w].from = "message" /\ After(w, "catch", worker[w].carry)
              \/ worker[w].from # "message" /\ After(w, "checkpoint", "receipt")
         /\ SendFailed(w) =>
              \/ worker[w].from = "message" /\ After(w, "checkpoint", "answer")
              \/ worker[w].from # "message" /\ After(w, "catch", worker[w].carry)
<1> USE DEF TypeOK, Invocations, MoveTo, Retry, After
<1>1. \A pc \in {"stage", "send", "receipt", "persist", "complete", "next", "catch", "contain"} :
        MoveTo(w, pc) => After(w, pc, worker[w].carry)
    OBVIOUS
<1>2. \A c \in {"answer", "receipt"} : Retry(w, c) => After(w, "checkpoint", c)
  <2> SUFFICES ASSUME NEW c \in {"answer", "receipt"}, Retry(w, c)
               PROVE  After(w, "checkpoint", c)
      OBVIOUS
  <2>1. worker[w] \in Invocations
      OBVIOUS
  <2>2. /\ \A v \in Workers : v # w => worker'[v] = worker[v]
        /\ worker'[w] = [worker[w] EXCEPT !.pc = "checkpoint", !.carry = c]
        /\ DOMAIN worker' = Workers /\ worker' = [v \in Workers |-> worker'[v]]
      OBVIOUS
  <2>3. worker'[w] = [pc |-> "checkpoint", task |-> worker[w].task, from |-> worker[w].from,
                      tries |-> worker[w].tries, carry |-> c]
      BY <2>1, <2>2
  <2> QED
      BY <2>1, <2>2, <2>3
<1>3. Leave(w) => Gone(w)
    BY DEF Leave, Free, Gone
<1> QED
    BY <1>1, <1>2, <1>3 DEF LateError, SendFailed

\* Staging writes the payload of a processing row, or nothing at all.
LEMMA StageEffect ==
  ASSUME TypeOK, NEW w \in Workers, NEW staged \in {"answer", "receipt"},
         NEW next \in {"send", "persist", "complete"}, StageAs(w, staged, next)
  PROVE  /\ faults' \in 0..MaxFaults
         /\ \/ /\ status[worker[w].task] = "processing"
               /\ payload' = [payload EXCEPT ![worker[w].task] = staged]
               /\ Touch(worker[w].task)
               /\ After(w, next, worker[w].carry)
            \/ UNCHANGED <<payload, moved>> /\ After(w, "checkpoint", staged)
BY Moves, BoundsAssumption DEF StageAs, TypeOK, Fault, NoFault

\* The row t is written, or none is; the invocation w moves on or leaves.
LEMMA RowInvKept ==
  ASSUME RowInv, NEW w \in Workers, Busy(w), worker[w].task \in Tasks,
         \/ Gone(w) \/ \E pc, c : After(w, pc, c),
         \/ /\ UNCHANGED <<status, payload, moved>>
         \/ /\ \E st \in {"pending", "processing", "completed", "failed"} :
                  status' = [status EXCEPT ![worker[w].task] = st]
            /\ \E p \in {"message", "answer", "receipt", "scrubbed"} :
                  payload' = [payload EXCEPT ![worker[w].task] = p]
            /\ status'[worker[w].task] \in Terminal \/ payload'[worker[w].task] # "scrubbed"
            /\ Touch(worker[w].task),
         UNCHANGED <<attempts, thread, calls, seen>>,
         eventKey' \in [Tasks -> Events \cup {NoOne}], toFire' \subseteq Tasks,
         ran' \in [Tasks -> Nat], sent' \in [Tasks -> Nat], brokeDown' \subseteq Tasks,
         faults' \in 0..MaxFaults
  PROVE  RowInv'
<1> DEFINE t == worker[w].task
<1> USE DEF RowInv, TypeOK
<1>1. /\ worker' \in [Workers -> Invocations]
      /\ \A v \in Workers : Busy(v)' => Busy(v) /\ worker'[v].task = worker[v].task
    BY DEF Busy, After, Gone
<1>2. CASE UNCHANGED <<status, payload, moved>>
    BY <1>1, <1>2 DEF BusyOnTask, PayloadKept, SnapshotHolds
<1>3. CASE /\ \E st \in {"pending", "processing", "completed", "failed"} :
                  status' = [status EXCEPT ![t] = st]
           /\ \E p \in {"message", "answer", "receipt", "scrubbed"} :
                  payload' = [payload EXCEPT ![t] = p]
           /\ status'[t] \in Terminal \/ payload'[t] # "scrubbed"
           /\ Touch(t)
  <2>1. /\ status' \in [Tasks -> {"none", "pending", "processing", "completed", "failed"}]
        /\ payload' \in [Tasks -> {"message", "answer", "receipt", "scrubbed"}]
        /\ moved' \subseteq Tasks
        /\ seen[t] # "none" => t \in moved'
        /\ \A u \in Tasks : u # t => /\ status'[u] = status[u] /\ payload'[u] = payload[u]
                                     /\ u \in moved' <=> u \in moved
        /\ status'[t] # "none"
      BY <1>3 DEF Touch
  <2>2. TypeOK'
      BY <1>1, <2>1
  <2>3. BusyOnTask'
      BY <1>1, <2>1 DEF BusyOnTask
  <2>4. PayloadKept'
      BY <1>3, <2>1 DEF PayloadKept
  <2>5. SnapshotHolds'
      BY <2>1 DEF SnapshotHolds
  <2> QED
      BY <2>2, <2>3, <2>4, <2>5
<1> QED
    BY <1>2, <1>3

LEMMA RowStep == RowInv /\ [Next]_vars => RowInv'
<1> SUFFICES ASSUME RowInv, [Next]_vars PROVE RowInv'
    OBVIOUS
<1> USE ThreadsAssumption, BoundsAssumption DEF RowInv
<1>a. \A w \in Workers : Busy(w) => worker[w].task \in Tasks
    BY DEF BusyOnTask
<1>b. \A t \in Tasks : status[t] = "processing" => payload[t] # "scrubbed"
    BY DEF PayloadKept, Terminal
<1>c. TypeOK
    OBVIOUS
<1>d. \A t \in Tasks : /\ payload = [payload EXCEPT ![t] = payload[t]]
                       /\ status = [status EXCEPT ![t] = status[t]]
    BY DEF TypeOK
<1>1. ASSUME NEW e \in Events, NEW t \in Tasks, Enqueue(e, t) PROVE RowInv'
    BY <1>1 DEF Enqueue, TypeOK, BusyOnTask, PayloadKept, SnapshotHolds, Busy, Terminal, history
<1>2. ASSUME NEW t \in Tasks, Fire(t) PROVE RowInv'
    BY <1>2 DEF Fire, TypeOK, BusyOnTask, PayloadKept, SnapshotHolds, Busy, Terminal,
                rows, history, Fault, NoFault
<1>3. ASSUME NEW t \in Tasks, SweepSelect(t) PROVE RowInv'
    BY <1>3 DEF SweepSelect, StoodStill, TypeOK, BusyOnTask, PayloadKept, SnapshotHolds,
                Busy, Terminal, rows, history
<1>4. ASSUME NEW t \in Tasks, SweepRow(t) PROVE RowInv'
  <2> USE DEF TypeOK
  <2>1. CASE ~Unmoved(t)
      BY <1>4, <2>1 DEF SweepRow, Unmoved, BusyOnTask, PayloadKept, SnapshotHolds, Busy, history
  <2>2. CASE Unmoved(t)
    <3>1. status[t] \in {"pending", "processing"}
        BY <1>4, <2>2 DEF SweepRow, Unmoved, SnapshotHolds
    <3>2. /\ UNCHANGED <<attempts, thread, calls, worker, history, faults>>
          /\ seen' = [seen EXCEPT ![t] = "none"] /\ moved' = moved \ {t}
          /\ \/ /\ status' = [status EXCEPT ![t] = "failed"]
                /\ payload' = [payload EXCEPT ![t] = "scrubbed"]
                /\ eventKey' = [eventKey EXCEPT ![t] = NoOne]
                /\ UNCHANGED toFire
             \/ /\ status' = [status EXCEPT ![t] = "pending"]
                /\ toFire' = toFire \cup {t}
                /\ UNCHANGED <<payload, eventKey>>
        BY <1>4, <2>2 DEF SweepRow
    <3> QED
        BY <3>1, <3>2 DEF BusyOnTask, PayloadKept, SnapshotHolds, Busy, Terminal, history
  <2> QED
      BY <2>1, <2>2
<1>5. ASSUME NEW w \in Workers, NEW t \in Tasks, Claim(w, t) PROVE RowInv'
  <2>1. CASE ~Claimable(t)
      BY <1>5, <2>1 DEF Claim, TypeOK, BusyOnTask, PayloadKept, SnapshotHolds, Busy, history
  <2>2. CASE Claimable(t)
    <3>1. status[t] = "pending" /\ payload[t] # "scrubbed"
        BY <2>2 DEF Claimable, PayloadKept, Terminal
    <3>2. StartOf(payload[t]) \in {"agent", "send", "persist"}
        BY <3>1 DEF StartOf, TypeOK
    <3>3. worker' \in [Workers -> Invocations]
      <4>1. /\ attempts[t] + 1 \in Nat
            /\ payload[t] \in {"message", "answer", "receipt"}
          BY <3>1 DEF TypeOK
      <4>2. [pc |-> StartOf(payload[t]), task |-> t, from |-> payload[t],
             tries |-> attempts[t] + 1, carry |-> "answer"] \in Invocations
          BY <3>2, <4>1 DEF Invocations
      <4> QED
          BY <1>5, <2>2, <4>2 DEF Claim, TypeOK
    <3>5. TypeOK'
        BY <1>5, <2>2, <3>1, <3>3 DEF Claim, TypeOK, Touch, history
    <3>4. BusyOnTask' /\ PayloadKept' /\ SnapshotHolds'
        BY <1>5, <2>2, <3>1, <3>2 DEF Claim, TypeOK, Touch, BusyOnTask, PayloadKept,
                                      SnapshotHolds, Busy, Terminal
    <3> QED
        BY <3>4, <3>5
  <2> QED
      BY <2>1, <2>2
<1>6. ASSUME NEW w \in Workers, RunAgent(w) PROVE RowInv'
  <2>1. Busy(w) /\ worker[w].task \in Tasks
      BY <1>6, <1>a DEF RunAgent, Busy
  <2>2. \/ Gone(w) \/ \E pc, c : After(w, pc, c)
      BY <1>6, <1>c, Moves DEF RunAgent
  <2> QED
      BY <1>6, <2>1, <2>2, RowInvKept DEF RunAgent, TypeOK, rows, Fault, NoFault
<1>7. ASSUME NEW w \in Workers, StageAnswer(w) PROVE RowInv'
  <2>1. Busy(w) /\ worker[w].task \in Tasks
      BY <1>7, <1>a DEF StageAnswer, Busy
  <2> QED
      BY <1>7, <1>c, <1>d, <2>1, StageEffect, RowInvKept DEF StageAnswer, TypeOK, history
<1>8. ASSUME NEW w \in Workers, Send(w) PROVE RowInv'
  <2>1. Busy(w) /\ worker[w].task \in Tasks
      BY <1>8, <1>a DEF Send, Busy
  <2>2. \/ Gone(w) \/ \E pc, c : After(w, pc, c)
      BY <1>8, <1>c, Moves DEF Send
  <2> QED
      BY <1>8, <2>1, <2>2, RowInvKept DEF Send, TypeOK, rows, Fault, NoFault
<1>9. ASSUME NEW w \in Workers, StageReceipt(w) PROVE RowInv'
  <2>1. Busy(w) /\ worker[w].task \in Tasks
      BY <1>9, <1>a DEF StageReceipt, Busy
  <2> QED
      BY <1>9, <1>c, <1>d, <2>1, StageEffect, RowInvKept DEF StageReceipt, TypeOK, history
<1>10. ASSUME NEW w \in Workers, Persist(w) PROVE RowInv'
  <2>1. Busy(w) /\ worker[w].task \in Tasks
      BY <1>10, <1>a DEF Persist, Busy
  <2>2. CASE worker[w].from = "message"
      BY <1>10, <1>c, <1>d, <2>1, <2>2, StageEffect, RowInvKept DEF Persist, TypeOK, history
  <2>3. CASE worker[w].from # "message"
    <3>1. \/ Gone(w) \/ \E pc, c : After(w, pc, c)
        BY <1>10, <1>c, <2>3, Moves DEF Persist
    <3> QED
        BY <1>10, <2>1, <2>3, <3>1, RowInvKept DEF Persist, TypeOK, history, Fault, NoFault
  <2> QED
      BY <2>2, <2>3
<1>11. ASSUME NEW w \in Workers, Complete(w) PROVE RowInv'
  <2>1. Busy(w) /\ worker[w].task \in Tasks
      BY <1>11, <1>a DEF Complete, Busy
  <2>2. \/ Gone(w) \/ \E pc, c : After(w, pc, c)
      BY <1>11, <1>c, Moves DEF Complete
  <2>3. \/ UNCHANGED <<status, payload, moved>>
        \/ /\ status' = [status EXCEPT ![worker[w].task] = "completed"]
           /\ payload' = [payload EXCEPT ![worker[w].task] = "scrubbed"]
           /\ status'[worker[w].task] \in Terminal
           /\ Touch(worker[w].task)
      BY <1>11, <2>1 DEF Complete, TypeOK, Terminal
  <2>4. faults' \in 0..MaxFaults
      BY <1>11 DEF Complete, TypeOK, Fault, NoFault
  <2>5. UNCHANGED <<attempts, thread, eventKey, toFire, calls, seen, history>>
      BY <1>11 DEF Complete
  <2> QED
      BY <2>1, <2>2, <2>3, <2>4, <2>5, RowInvKept DEF TypeOK, history
<1>12. ASSUME NEW w \in Workers, DispatchNext(w) PROVE RowInv'
  <2>1. Busy(w) /\ worker[w].task \in Tasks
      BY <1>12, <1>a DEF DispatchNext, Busy
  <2>2. \/ Gone(w) \/ \E pc, c : After(w, pc, c)
      BY <1>12, <1>c, Moves DEF DispatchNext
  <2> QED
      BY <1>12, <2>1, <2>2, NextPendingTasks, RowInvKept
         DEF DispatchNext, TypeOK, rows, history, Fault, NoFault
<1>13. ASSUME NEW w \in Workers, Catch(w) PROVE RowInv'
  <2>1. Busy(w) /\ worker[w].task \in Tasks
      BY <1>13, <1>a DEF Catch, Busy
  <2>2. Gone(w)
      BY <1>13, <1>c, Moves DEF Catch
  <2>3. \/ UNCHANGED <<status, payload, moved>>
        \/ /\ status' = [status EXCEPT ![worker[w].task] = "failed"]
           /\ payload' = [payload EXCEPT ![worker[w].task] = "scrubbed"]
           /\ status'[worker[w].task] \in Terminal
           /\ Touch(worker[w].task)
        \/ /\ status' = [status EXCEPT ![worker[w].task] = "pending"]
           /\ payload' = [payload EXCEPT ![worker[w].task] = payload[worker[w].task]]
           /\ payload'[worker[w].task] # "scrubbed"
           /\ Touch(worker[w].task)
      BY <1>13, <1>b, <1>d, <2>1 DEF Catch, TypeOK, Terminal
  <2>4. eventKey' \in [Tasks -> Events \cup {NoOne}]
      BY <1>13, <2>1 DEF Catch, TypeOK
  <2>5. UNCHANGED <<attempts, thread, toFire, calls, seen, history, faults>>
      BY <1>13 DEF Catch
  <2>6. \E p \in {"message", "answer", "receipt", "scrubbed"} : p = payload[worker[w].task]
      BY <2>1 DEF TypeOK
  <2> QED
      BY <2>1, <2>2, <2>3, <2>4, <2>5, <2>6, RowInvKept DEF TypeOK, history
<1>14. ASSUME NEW w \in Workers, Checkpoint(w) PROVE RowInv'
  <2>1. Busy(w) /\ worker[w].task \in Tasks
      BY <1>14, <1>a DEF Checkpoint, Busy
  <2>2. \/ Gone(w) \/ \E pc, c : After(w, pc, c)
      BY <1>14, <1>c, Moves DEF Checkpoint
  <2>3. worker[w].carry \in {"answer", "receipt"}
      BY DEF TypeOK, Invocations
  <2>4. \/ UNCHANGED <<status, payload, moved>>
        \/ /\ status' = [status EXCEPT ![worker[w].task] = "pending"]
           /\ payload' = [payload EXCEPT ![worker[w].task] = worker[w].carry]
           /\ payload'[worker[w].task] # "scrubbed"
           /\ Touch(worker[w].task)
      BY <1>14, <2>1, <2>3 DEF Checkpoint, TypeOK
  <2>5. toFire' \subseteq Tasks /\ faults' \in 0..MaxFaults
      BY <1>14, <2>1 DEF Checkpoint, TypeOK, Fault, NoFault
  <2>6. UNCHANGED <<attempts, thread, eventKey, calls, seen, history>>
      BY <1>14 DEF Checkpoint
  <2> QED
      BY <2>1, <2>2, <2>3, <2>4, <2>5, <2>6, RowInvKept DEF TypeOK, history
<1>15. ASSUME NEW w \in Workers, Contain(w) PROVE RowInv'
  <2>1. Busy(w) /\ worker[w].task \in Tasks
      BY <1>15, <1>a DEF Contain, Busy
  <2>2. Gone(w)
      BY <1>15, <1>c, Moves DEF Contain
  <2>3. \/ UNCHANGED <<status, payload, moved>>
        \/ /\ status' = [status EXCEPT ![worker[w].task] = "failed"]
           /\ payload' = [payload EXCEPT ![worker[w].task] = "scrubbed"]
           /\ status'[worker[w].task] \in Terminal
           /\ Touch(worker[w].task)
      BY <1>15, <2>1 DEF Contain, TypeOK, Terminal
  <2>4. toFire' \subseteq Tasks
      BY <1>15, NextPendingTasks DEF Contain, TypeOK
  <2>5. UNCHANGED <<attempts, thread, eventKey, calls, seen, history, faults>>
      BY <1>15 DEF Contain
  <2> QED
      BY <2>1, <2>2, <2>3, <2>4, <2>5, RowInvKept DEF TypeOK, history
<1>16. ASSUME NEW w \in Workers, Crash(w) PROVE RowInv'
  <2>1. Busy(w) /\ worker[w].task \in Tasks
      BY <1>16, <1>a DEF Crash, Busy
  <2>2. Gone(w)
      BY <1>16, <1>c, Moves DEF Crash
  <2> QED
      BY <1>16, <2>1, <2>2, RowInvKept DEF Crash, TypeOK, rows, history, Fault
<1>17. CASE UNCHANGED vars
    BY <1>17 DEF vars, rows, history, TypeOK, BusyOnTask, PayloadKept, SnapshotHolds, Busy
<1> QED
    BY <1>1, <1>2, <1>3, <1>4, <1>5, <1>6, <1>7, <1>8, <1>9, <1>10, <1>11,
       <1>12, <1>13, <1>14, <1>15, <1>16, <1>17 DEF Next, Step

\* Every variable keeps its type, for any number of workers, tasks and faults.
THEOREM TypeCorrect == Spec => []TypeOK
<1>1. Spec => []RowInv
    BY RowInit, RowStep, PTL DEF Spec
<1> QED
    BY <1>1, PTL DEF RowInv

----------------------------------------------------------------------------
\* Of the tasks of a conversation one is processing.
OneProcessing ==
    \A s, t \in Tasks : status[s] = "processing" /\ status[t] = "processing"
                          /\ thread[s] = thread[t] => s = t

OrderInv == RowInv /\ OneProcessing

\* What ThreadOrder says of one step, and what has to hold after it.
KeepsOrder ==
    \A s, t \in Tasks : Overtakes(t, s)' =>
        Overtakes(t, s) \/ (status[t] = "processing" /\ status[s] = "none")

Orderly == OneProcessing' /\ KeepsOrder

\* What a write to one row t may make of it for the others: a row that starts
\* to be processed is the first of its conversation that has not ended, and a
\* row that has ended stays ended.
LEMMA RowWritten ==
  ASSUME OrderInv, NEW t \in Tasks, NEW s \in {"pending", "processing", "completed", "failed"},
         status[t] # "none",
         status' = [status EXCEPT ![t] = s], thread' = thread,
         status[t] \in Terminal => s \in Terminal,
         \/ s \in Terminal \/ s = status[t]
         \/ s = "pending" /\ status[t] = "processing"
         \/ s = "processing" /\ Claimable(t)
  PROVE  Orderly
<1> USE DEF OrderInv, RowInv, TypeOK, OneProcessing, SameThread, Terminal, Claimable
<1>1. OneProcessing'
    OBVIOUS
<1>2. KeepsOrder
  <2> SUFFICES ASSUME NEW u \in Tasks, status'[u] = "processing",
                      NEW r \in Tasks, status'[r] \in {"pending", "processing"},
                      thread[r] = thread[u], r < u
               PROVE  /\ status[u] = "processing"
                      /\ status[r] \in {"none", "pending", "processing"}
      BY DEF KeepsOrder, Overtakes
  <2> Tasks \subseteq Nat
      BY BoundsAssumption DEF Tasks
  <2>1. CASE u = t
    <3>1. s = "processing" /\ status'[r] = status[r] /\ r # t
          BY <2>1
    <3>2. ~Claimable(t)
          BY <2>1, <3>1
    <3> QED
          BY <2>1, <3>1, <3>2
  <2>2. CASE u # t
    <3>1. status[u] = "processing"
          BY <2>2
    <3> QED
        BY <3>1
  <2> QED
      BY <2>1, <2>2
<1> QED
    BY <1>1, <1>2 DEF Orderly

\* A row that the sweep still finds unmoved is pending or processing.
LEMMA UnmovedRow ==
  ASSUME RowInv, NEW t \in Tasks, seen[t] # "none", Unmoved(t)
  PROVE  status[t] \in {"pending", "processing"}
BY DEF RowInv, TypeOK, SnapshotHolds, Unmoved

LEMMA OrderStep == OrderInv /\ [Next]_vars => OrderInv' /\ KeepsOrder
<1> SUFFICES ASSUME OrderInv, [Next]_vars PROVE OrderInv' /\ KeepsOrder
    OBVIOUS
<1>0. RowInv /\ RowInv' /\ OneProcessing
    BY RowStep DEF OrderInv
<1>a. ASSUME UNCHANGED <<status, thread>> PROVE Orderly
    BY <1>0, <1>a DEF Orderly, KeepsOrder, Overtakes, OneProcessing
<1>b. \A w \in Workers :
        Busy(w) => worker[w].task \in Tasks /\ status[worker[w].task] # "none"
    BY <1>0 DEF RowInv, BusyOnTask
<1>1. ASSUME NEW e \in Events, NEW t \in Tasks, Enqueue(e, t) PROVE Orderly
  <2> USE <1>0 DEF OrderInv, RowInv, TypeOK
  <2> Tasks \subseteq Nat
      BY BoundsAssumption DEF Tasks
  <2>1. /\ status' = [status EXCEPT ![t] = "pending"] /\ status[t] = "none"
        /\ \A r \in Tasks : r # t => thread'[r] = thread[r]
      BY <1>1 DEF Enqueue
  <2>2. OneProcessing'
      BY <2>1 DEF OneProcessing
  <2>3. KeepsOrder
      BY <2>1 DEF KeepsOrder, Overtakes
  <2> QED
      BY <2>2, <2>3 DEF Orderly
<1>2. ASSUME NEW t \in Tasks, Fire(t) PROVE Orderly
    BY <1>2, <1>a DEF Fire, rows
<1>3. ASSUME NEW t \in Tasks, SweepSelect(t) PROVE Orderly
    BY <1>3, <1>a DEF SweepSelect, rows
<1>4. ASSUME NEW t \in Tasks, SweepRow(t) PROVE Orderly
  <2>1. CASE ~Unmoved(t)
      BY <1>4, <1>a, <2>1 DEF SweepRow
  <2>2. CASE Unmoved(t)
    <3>1. status[t] \in {"pending", "processing"}
        BY <1>0, <1>4, <2>2, UnmovedRow DEF SweepRow
    <3>2. \/ status' = [status EXCEPT ![t] = "failed"]
          \/ status' = [status EXCEPT ![t] = "pending"]
        BY <1>4, <2>2 DEF SweepRow
    <3> QED
        BY <1>4, <3>1, <3>2, RowWritten DEF SweepRow, Terminal
  <2> QED
      BY <2>1, <2>2
<1>5. ASSUME NEW w \in Workers, NEW t \in Tasks, Claim(w, t) PROVE Orderly
    BY <1>5, <1>a, RowWritten DEF Claim, Claimable, Terminal
<1>6. ASSUME NEW w \in Workers, RunAgent(w) PROVE Orderly
    BY <1>6, <1>a DEF RunAgent, rows
<1>7. ASSUME NEW w \in Workers, StageAnswer(w) PROVE Orderly
    BY <1>7, <1>a DEF StageAnswer
<1>8. ASSUME NEW w \in Workers, Send(w) PROVE Orderly
    BY <1>8, <1>a DEF Send, rows
<1>9. ASSUME NEW w \in Workers, StageReceipt(w) PROVE Orderly
    BY <1>9, <1>a DEF StageReceipt
<1>10. ASSUME NEW w \in Workers, Persist(w) PROVE Orderly
    BY <1>10, <1>a DEF Persist
<1>12. ASSUME NEW w \in Workers, DispatchNext(w) PROVE Orderly
    BY <1>12, <1>a DEF DispatchNext, rows
<1>16. ASSUME NEW w \in Workers, Crash(w) PROVE Orderly
    BY <1>16, <1>a DEF Crash, rows
<1>17. ASSUME UNCHANGED vars PROVE Orderly
  <2>1. UNCHANGED <<status, thread>>
      BY <1>17 DEF vars, rows
  <2> QED
      BY <1>a, <2>1
\* The four writes by an invocation: by then its row is stored.
<1>c. ASSUME NEW w \in Workers, Busy(w),
             UNCHANGED thread,
             \/ status' = [status EXCEPT ![worker[w].task] = "completed"]
             \/ status' = [status EXCEPT ![worker[w].task] = "failed"]
             \/ /\ status[worker[w].task] = "processing"
                /\ status' = [status EXCEPT ![worker[w].task] = "pending"]
      PROVE  Orderly
    BY <1>0, <1>b, <1>c, RowWritten DEF Terminal
<1>11. ASSUME NEW w \in Workers, Complete(w) PROVE Orderly
    BY <1>11, <1>a, <1>c DEF Complete, Busy
<1>13. ASSUME NEW w \in Workers, Catch(w) PROVE Orderly
    BY <1>13, <1>a, <1>c DEF Catch, Busy
<1>14. ASSUME NEW w \in Workers, Checkpoint(w) PROVE Orderly
    BY <1>14, <1>a, <1>c DEF Checkpoint, Busy
<1>15. ASSUME NEW w \in Workers, Contain(w) PROVE Orderly
    BY <1>15, <1>a, <1>c DEF Contain, Busy
<1>18. Orderly
    BY <1>1, <1>2, <1>3, <1>4, <1>5, <1>6, <1>7, <1>8, <1>9, <1>10, <1>11,
       <1>12, <1>13, <1>14, <1>15, <1>16, <1>17 DEF Next, Step
<1> QED
    BY <1>0, <1>18 DEF OrderInv, Orderly

\* A task of a conversation overtakes an earlier one only when that turns up
\* while it is being processed, whoever stalls, crashes or is late.
THEOREM ServedInOrder == Spec => ThreadOrder
<1>1. Init => OrderInv
    BY RowInit DEF Init, OrderInv, OneProcessing
<1>2. OrderInv /\ [Next]_vars => OrderInv' /\ KeepsOrder
    BY OrderStep
<1>3. OrderInv /\ [Next]_vars =>
        [\A s, t \in Tasks : Overtakes(t, s)' =>
            Overtakes(t, s) \/ (status[t] = "processing" /\ status[s] = "none")]_vars
    BY <1>2 DEF KeepsOrder
<1> QED
    BY <1>1, <1>2, <1>3, PTL DEF Spec, ThreadOrder

----------------------------------------------------------------------------
\* An invocation that got past the provider's answer has been answered, or it
\* is the one whose agent broke down on a message.
AnsweredBy(w) ==
    LET t == worker[w].task IN
    /\ worker[w].pc = "agent" => worker[w].from = "message"
    /\ worker[w].pc \in {"receipt", "persist"} => sent[t] > 0
    /\ worker[w].pc \in {"complete", "next"} =>
         sent[t] > 0 \/ (t \in brokeDown /\ worker[w].from = "message")
    /\ worker[w].pc = "checkpoint" /\ worker[w].carry = "receipt" => sent[t] > 0

ReceiptKept == \A t \in Tasks : payload[t] = "receipt" => sent[t] > 0

AnswerInv == /\ RowInv
             /\ AnsweredBeforeCompleted
             /\ ReceiptKept
             /\ \A w \in Workers : AnsweredBy(w)

\* What is left to show when the invocation w moves and only its row is written.
LEMMA AnswerKept ==
  ASSUME AnswerInv, RowInv', NEW w \in Workers,
         \A v \in Workers : v # w => worker'[v] = worker[v],
         \A t \in Tasks : sent'[t] >= sent[t], brokeDown \subseteq brokeDown',
         \A t \in Tasks : status'[t] = "completed" =>
             status[t] = "completed" \/ sent'[t] > 0 \/ t \in brokeDown',
         \A t \in Tasks : payload'[t] = "receipt" => payload[t] = "receipt" \/ sent'[t] > 0,
         AnsweredBy(w)'
  PROVE  AnswerInv'
<1> USE DEF AnswerInv, RowInv
<1>0. sent \in [Tasks -> Nat] /\ sent' \in [Tasks -> Nat]
    BY DEF TypeOK
<1>1. AnsweredBeforeCompleted'
    BY <1>0 DEF AnsweredBeforeCompleted
<1>2. ReceiptKept'
    BY <1>0 DEF ReceiptKept
<1>3. ASSUME NEW v \in Workers, v # w PROVE AnsweredBy(v)'
    BY <1>0, <1>3 DEF AnsweredBy, BusyOnTask, Busy
<1> QED
    BY <1>1, <1>2, <1>3

LEMMA AnswerStep == AnswerInv /\ [Next]_vars => AnswerInv'
<1> SUFFICES ASSUME AnswerInv, [Next]_vars PROVE AnswerInv'
    OBVIOUS
<1>0. RowInv /\ RowInv'
    BY RowStep DEF AnswerInv
<1>b. \A w \in Workers : Busy(w) => worker[w].task \in Tasks
    BY <1>0 DEF RowInv, BusyOnTask
<1>c. TypeOK /\ TypeOK'
    BY <1>0 DEF RowInv
<1>d. sent \in [Tasks -> Nat] /\ sent' \in [Tasks -> Nat]
    BY <1>c DEF TypeOK
<1>e. ASSUME UNCHANGED <<worker, sent, brokeDown>>,
             \A t \in Tasks : status'[t] = "completed" => status[t] = "completed",
             \A t \in Tasks : payload'[t] = "receipt" => payload[t] = "receipt"
      PROVE  AnswerInv'
    BY <1>0, <1>d, <1>e DEF AnswerInv, AnsweredBeforeCompleted, ReceiptKept, AnsweredBy
<1>1. ASSUME NEW e \in Events, NEW t \in Tasks, Enqueue(e, t) PROVE AnswerInv'
    BY <1>1, <1>c, <1>e DEF Enqueue, TypeOK, history
<1>2. ASSUME NEW t \in Tasks, Fire(t) PROVE AnswerInv'
    BY <1>2, <1>e DEF Fire, rows, history
<1>3. ASSUME NEW t \in Tasks, SweepSelect(t) PROVE AnswerInv'
    BY <1>3, <1>e DEF SweepSelect, rows, history
<1>4. ASSUME NEW t \in Tasks, SweepRow(t) PROVE AnswerInv'
    BY <1>4, <1>c, <1>e DEF SweepRow, TypeOK, history
<1>5. ASSUME NEW w \in Workers, NEW t \in Tasks, Claim(w, t) PROVE AnswerInv'
  <2>1. CASE ~Claimable(t)
      BY <1>5, <1>e, <2>1 DEF Claim, history
  <2>2. CASE Claimable(t)
    <3>1. payload[t] \in {"message", "answer", "receipt"}
        BY <1>0, <1>c, <2>2 DEF Claimable, RowInv, PayloadKept, Terminal, TypeOK
    <3>2. /\ worker'[w].pc = StartOf(payload[t]) /\ worker'[w].task = t
          /\ worker'[w].from = payload[t]
          /\ \A v \in Workers : v # w => worker'[v] = worker[v]
          /\ UNCHANGED <<payload, sent, brokeDown>>
          /\ status' = [status EXCEPT ![t] = "processing"]
        BY <1>5, <1>c, <2>2 DEF Claim, TypeOK, history
    <3>3. AnsweredBy(w)'
        BY <3>1, <3>2 DEF StartOf, AnswerInv, ReceiptKept, AnsweredBy
    <3> QED
        BY <1>0, <1>c, <1>d, <3>2, <3>3, AnswerKept DEF TypeOK
  <2> QED
      BY <2>1, <2>2
<1>6. ASSUME NEW w \in Workers, RunAgent(w) PROVE AnswerInv'
  <2>1. Busy(w) /\ worker[w].task \in Tasks
      BY <1>6, <1>b DEF RunAgent, Busy
  <2>2. \/ After(w, "catch", worker[w].carry) \/ After(w, "stage", worker[w].carry)
        \/ /\ After(w, "complete", worker[w].carry)
           /\ worker[w].task \in brokeDown'
      BY <1>6, <1>c, Moves DEF RunAgent
  <2>3. worker[w].from = "message"
      BY <1>6 DEF AnswerInv, RunAgent, AnsweredBy
  <2>4. AnsweredBy(w)'
      BY <2>1, <2>2, <2>3 DEF AnsweredBy, After
  <2>5. UNCHANGED <<status, payload, sent>> /\ brokeDown \subseteq brokeDown'
      BY <1>6 DEF RunAgent, rows
  <2> QED
      BY <1>0, <1>d, <2>2, <2>4, <2>5, AnswerKept DEF After
<1>7. ASSUME NEW w \in Workers, StageAnswer(w) PROVE AnswerInv'
  <2>1. worker[w].task \in Tasks
      BY <1>7, <1>b DEF StageAnswer, Busy
  <2>2. \/ payload' = [payload EXCEPT ![worker[w].task] = "answer"] /\ After(w, "send", worker[w].carry)
        \/ UNCHANGED payload /\ After(w, "checkpoint", "answer")
      BY <1>7, <1>c, StageEffect DEF StageAnswer
  <2>3. UNCHANGED <<status, sent, brokeDown>>
      BY <1>7 DEF StageAnswer, history
  <2>4. AnsweredBy(w)'
      BY <2>2 DEF AnsweredBy, After
  <2> QED
      BY <1>0, <1>c, <1>d, <2>1, <2>2, <2>3, <2>4, AnswerKept DEF After, TypeOK
<1>8. ASSUME NEW w \in Workers, Send(w) PROVE AnswerInv'
  <2>1. worker[w].task \in Tasks
      BY <1>8, <1>b DEF Send, Busy
  <2>2. \/ /\ After(w, "receipt", worker[w].carry)
           /\ sent' = [sent EXCEPT ![worker[w].task] = @ + 1]
        \/ /\ After(w, "checkpoint", "answer") \/ After(w, "catch", worker[w].carry)
           /\ sent' \in {sent, [sent EXCEPT ![worker[w].task] = @ + 1]}
      BY <1>8, <1>c, Moves DEF Send
  <2>3. UNCHANGED <<status, payload, brokeDown>>
      BY <1>8 DEF Send, rows
  <2>4. AnsweredBy(w)' /\ \A t \in Tasks : sent'[t] >= sent[t]
      BY <1>d, <2>1, <2>2 DEF AnsweredBy, After
  <2> QED
      BY <1>0, <2>2, <2>3, <2>4, AnswerKept DEF After
<1>9. ASSUME NEW w \in Workers, StageReceipt(w) PROVE AnswerInv'
  <2>1. worker[w].task \in Tasks /\ sent[worker[w].task] > 0
      BY <1>9, <1>b DEF StageReceipt, Busy, AnswerInv, AnsweredBy
  <2>2. \/ payload' = [payload EXCEPT ![worker[w].task] = "receipt"] /\ After(w, "persist", worker[w].carry)
        \/ UNCHANGED payload /\ After(w, "checkpoint", "receipt")
      BY <1>9, <1>c, StageEffect DEF StageReceipt
  <2>3. UNCHANGED <<status, sent, brokeDown>>
      BY <1>9 DEF StageReceipt, history
  <2>4. AnsweredBy(w)'
      BY <2>1, <2>2, <2>3 DEF AnsweredBy, After
  <2> QED
      BY <1>0, <1>c, <1>d, <2>1, <2>2, <2>3, <2>4, AnswerKept DEF After, TypeOK
<1>10. ASSUME NEW w \in Workers, Persist(w) PROVE AnswerInv'
  <2>1. worker[w].task \in Tasks /\ sent[worker[w].task] > 0
      BY <1>10, <1>b DEF Persist, Busy, AnswerInv, AnsweredBy
  <2>2. \/ payload' = [payload EXCEPT ![worker[w].task] = "receipt"] /\ After(w, "complete", worker[w].carry)
        \/ UNCHANGED payload /\ After(w, "complete", worker[w].carry)
        \/ UNCHANGED payload /\ After(w, "checkpoint", "receipt")
      BY <1>10, <1>c, StageEffect, Moves DEF Persist
  <2>3. UNCHANGED <<status, sent, brokeDown>>
      BY <1>10 DEF Persist, history
  <2>4. AnsweredBy(w)'
      BY <2>1, <2>2, <2>3 DEF AnsweredBy, After
  <2> QED
      BY <1>0, <1>c, <1>d, <2>1, <2>2, <2>3, <2>4, AnswerKept DEF After, TypeOK
<1>11. ASSUME NEW w \in Workers, Complete(w) PROVE AnswerInv'
  <2>1. /\ worker[w].task \in Tasks
        /\ sent[worker[w].task] > 0 \/ (worker[w].task \in brokeDown /\ worker[w].from = "message")
      BY <1>11, <1>b DEF Complete, Busy, AnswerInv, AnsweredBy
  <2>2. \/ After(w, "next", worker[w].carry)
        \/ worker[w].from = "message" /\ After(w, "catch", worker[w].carry)
        \/ worker[w].from # "message" /\ After(w, "checkpoint", "receipt")
      BY <1>11, <1>c, Moves DEF Complete
  <2>3. /\ UNCHANGED <<sent, brokeDown>>
        /\ \/ /\ status' = [status EXCEPT ![worker[w].task] = "completed"]
              /\ payload' = [payload EXCEPT ![worker[w].task] = "scrubbed"]
           \/ UNCHANGED <<status, payload>>
      BY <1>11 DEF Complete, history
  <2>4. AnsweredBy(w)'
      BY <2>1, <2>2, <2>3 DEF AnsweredBy, After
  <2> QED
      BY <1>0, <1>c, <1>d, <2>1, <2>2, <2>3, <2>4, AnswerKept DEF After, TypeOK
<1>12. ASSUME NEW w \in Workers, DispatchNext(w) PROVE AnswerInv'
  <2>1. /\ worker[w].task \in Tasks
        /\ sent[worker[w].task] > 0 \/ (worker[w].task \in brokeDown /\ worker[w].from = "message")
      BY <1>12, <1>b DEF DispatchNext, Busy, AnswerInv, AnsweredBy
  <2>2. \/ Gone(w)
        \/ worker[w].from = "message" /\ After(w, "catch", worker[w].carry)
        \/ worker[w].from # "message" /\ After(w, "checkpoint", "receipt")
      BY <1>12, <1>c, Moves DEF DispatchNext
  <2>3. UNCHANGED <<status, payload, sent, brokeDown>>
      BY <1>12 DEF DispatchNext, rows, history
  <2>4. AnsweredBy(w)'
      BY <2>1, <2>2, <2>3 DEF AnsweredBy, After, Gone
  <2> QED
      BY <1>0, <1>d, <2>2, <2>3, <2>4, AnswerKept DEF After, Gone
\* An invocation that leaves completes nothing and stages no receipt of its own.
<1>f. ASSUME NEW w \in Workers, Gone(w), UNCHANGED <<sent, brokeDown>>,
             \A t \in Tasks : status'[t] = "completed" => status[t] = "completed",
             \A t \in Tasks : payload'[t] = "receipt" => payload[t] = "receipt" \/ sent[t] > 0
      PROVE  AnswerInv'
  <2>1. AnsweredBy(w)'
      BY <1>f DEF AnsweredBy, Gone
  <2> QED
      BY <1>0, <1>d, <1>f, <2>1, AnswerKept DEF Gone
<1>13. ASSUME NEW w \in Workers, Catch(w) PROVE AnswerInv'
    BY <1>13, <1>c, <1>f, Moves DEF Catch, TypeOK, history
<1>14. ASSUME NEW w \in Workers, Checkpoint(w) PROVE AnswerInv'
  <2>1. CASE Gone(w)
    <3>1. UNCHANGED <<sent, brokeDown>>
        BY <1>14 DEF Checkpoint, history
    <3>2. worker[w].pc = "checkpoint" /\ worker[w].task \in Tasks
        BY <1>14, <1>b DEF Checkpoint, Busy
    <3>3. worker[w].carry = "receipt" => sent[worker[w].task] > 0
        BY <3>2 DEF AnswerInv, AnsweredBy
    <3>4. \/ /\ status' = [status EXCEPT ![worker[w].task] = "pending"]
             /\ payload' = [payload EXCEPT ![worker[w].task] = worker[w].carry]
          \/ UNCHANGED <<status, payload>>
        BY <1>14 DEF Checkpoint
    <3> QED
        BY <1>c, <1>f, <2>1, <3>1, <3>2, <3>3, <3>4 DEF TypeOK
  <2>2. CASE After(w, "contain", worker[w].carry)
    <3>1. UNCHANGED <<status, payload, sent, brokeDown>>
      <4>1. MoveTo(w, "contain") => UNCHANGED <<status, payload>>
          BY <1>14, <1>c, Moves DEF Checkpoint, Gone, After
      <4> QED
          BY <1>14, <1>c, <2>2, <4>1, Moves DEF Checkpoint, history, Gone, After
    <3>2. AnsweredBy(w)'
        BY <2>2 DEF AnsweredBy, After
    <3> QED
        BY <1>0, <1>d, <2>2, <3>1, <3>2, AnswerKept DEF After
  <2> QED
      BY <1>14, <1>c, <2>1, <2>2, Moves DEF Checkpoint
<1>15. ASSUME NEW w \in Workers, Contain(w) PROVE AnswerInv'
    BY <1>15, <1>c, <1>f, Moves DEF Contain, TypeOK, history
<1>16. ASSUME NEW w \in Workers, Crash(w) PROVE AnswerInv'
    BY <1>16, <1>f, <1>c, Moves DEF Crash, rows, history
<1>17. ASSUME UNCHANGED vars PROVE AnswerInv'
    BY <1>17, <1>e DEF vars, rows, history
<1> QED
    BY <1>1, <1>2, <1>3, <1>4, <1>5, <1>6, <1>7, <1>8, <1>9, <1>10, <1>11,
       <1>12, <1>13, <1>14, <1>15, <1>16, <1>17 DEF Next, Step

\* A task completes only after its answer was accepted or its agent broke down
\* before there was one; a staged receipt is one of an accepted answer.
THEOREM CompletedWasAnswered == Spec => []AnsweredBeforeCompleted
<1>1. Init => AnswerInv
    BY RowInit DEF Init, AnswerInv, AnsweredBeforeCompleted, ReceiptKept, AnsweredBy, Free
<1>2. Spec => []AnswerInv
    BY <1>1, AnswerStep, PTL DEF Spec
<1> QED
    BY <1>2, PTL DEF AnswerInv

----------------------------------------------------------------------------
\* When no invocation outlives its time: what one works on is its own.
OwnRow(w) ==
    LET t == worker[w].task IN
    Busy(w) => /\ status[t] \in {"processing", "completed", "failed"}
               /\ w \in Working => status[t] = "processing"
               /\ worker[w].tries = attempts[t]
               /\ worker[w].pc = "agent" => payload[t] = "message" /\ ran[t] < attempts[t]
               /\ worker[w].pc = "send" => payload[t] = "answer"

Apart == \A v, w \in Workers :
           v # w /\ Busy(v) /\ Busy(w) => worker[v].task # worker[w].task

\* The sweep holds no row in processing that somebody works on.
Swept == \A t \in Tasks : seen[t] = "processing" /\ t \notin moved =>
           \A w \in Workers : Busy(w) => worker[w].task # t

\* A message has an attempt left as long as it waits.
Capped(t) ==
    /\ ran[t] <= MaxAttempts
    /\ payload[t] = "message" =>
         /\ ran[t] <= attempts[t] /\ attempts[t] <= MaxAttempts
         /\ status[t] \in {"none", "pending"} => attempts[t] < MaxAttempts

InvocationInv == /\ OrderInv
                 /\ \A w \in Workers : OwnRow(w)
                 /\ Apart /\ Swept
                 /\ \A t \in Tasks : Capped(t)

\* What is left to show when the invocation w moves and only its row is written.
LEMMA InvocationKept ==
  ASSUME InvocationInv, OrderInv', NEW w \in Workers, Busy(w),
         After(w, worker'[w].pc, worker'[w].carry) \/ Gone(w),
         \A t \in Tasks : t # worker[w].task =>
             /\ status'[t] = status[t] /\ payload'[t] = payload[t]
             /\ ran'[t] = ran[t],
         UNCHANGED <<attempts, seen>>, moved \subseteq moved',
         OwnRow(w)',
         (\A t \in Tasks : t = worker[w].task => Capped(t)')
  PROVE  InvocationInv'
<1> USE DEF InvocationInv
<1>0. \A v \in Workers : Busy(v) => worker[v].task \in Tasks
    BY DEF OrderInv, RowInv, BusyOnTask
<1>1. \A v \in Workers : /\ v # w => worker'[v] = worker[v]
                         /\ Busy(v)' => Busy(v) /\ worker'[v].task = worker[v].task
    BY DEF After, Gone, Busy
<1>2. Apart'
    BY <1>1 DEF Apart, Busy
<1>3. Swept'
    BY <1>1 DEF Swept, Busy
<1>4. ASSUME NEW v \in Workers, v # w PROVE OwnRow(v)'
  <2>1. /\ Busy(v) => worker[v].task # worker[w].task /\ worker[v].task \in Tasks
        /\ worker'[v] = worker[v] /\ OwnRow(v)
      BY <1>0, <1>1, <1>4 DEF Apart, Busy
  <2> QED
      BY <2>1 DEF OwnRow, Busy, Working
<1>5. ASSUME NEW t \in Tasks PROVE Capped(t)'
  <2>1. CASE t = worker[w].task
      BY <2>1
  <2>2. CASE t # worker[w].task
      BY <2>2 DEF Capped
  <2> QED
      BY <2>1, <2>2
<1> QED
    BY <1>2, <1>3, <1>4, <1>5

LEMMA InvocationStep == ~Outlives /\ InvocationInv /\ [Next]_vars => InvocationInv'
<1> SUFFICES ASSUME ~Outlives, InvocationInv, [Next]_vars PROVE InvocationInv'
    OBVIOUS
<1>0. OrderInv /\ OrderInv' /\ RowInv /\ RowInv' /\ TypeOK /\ TypeOK'
    BY OrderStep DEF InvocationInv, OrderInv, RowInv
<1>b. \A w \in Workers : Busy(w) => /\ worker[w].task \in Tasks
                                    /\ OwnRow(w) /\ Capped(worker[w].task)
    BY <1>0 DEF InvocationInv, RowInv, BusyOnTask
<1>e. MaxAttempts \in Nat \ {0} /\ attempts \in [Tasks -> Nat] /\ ran \in [Tasks -> Nat]
    BY <1>0, BoundsAssumption DEF TypeOK
<1> HIDE DEF InvocationInv
<1>1. ASSUME NEW e \in Events, NEW t \in Tasks, Enqueue(e, t) PROVE InvocationInv'
  <2>1. /\ status[t] = "none" /\ status' = [status EXCEPT ![t] = "pending"]
        /\ UNCHANGED <<attempts, payload, worker, seen, moved, ran>>
      BY <1>1 DEF Enqueue, history
  <2>2. \A w \in Workers : Busy(w) => worker[w].task # t
      BY <1>0, <2>1 DEF RowInv, BusyOnTask
  <2>3. \A w \in Workers : OwnRow(w)'
      BY <1>0, <1>b, <2>1, <2>2 DEF OwnRow, Busy, Working, TypeOK
  <2>4. \A u \in Tasks : Capped(u)'
      BY <1>0, <2>1 DEF InvocationInv, Capped, TypeOK
  <2>5. Apart' /\ Swept'
      BY <2>1 DEF InvocationInv, Apart, Swept, Busy
  <2> QED
      BY <1>0, <2>3, <2>4, <2>5 DEF InvocationInv
<1>a. ASSUME UNCHANGED <<status, attempts, payload, worker, ran>>,
             \A t \in Tasks : seen'[t] = "processing" /\ t \notin moved' =>
                 \/ seen[t] = "processing" /\ t \notin moved
                 \/ \A w \in Workers : Busy(w) => worker[w].task # t
      PROVE  InvocationInv'
    BY <1>0, <1>a DEF InvocationInv, OwnRow, Apart, Swept, Capped, Busy, Working
<1>2. ASSUME NEW t \in Tasks, Fire(t) PROVE InvocationInv'
    BY <1>2, <1>a DEF Fire, rows, history
<1>3. ASSUME NEW t \in Tasks, SweepSelect(t) PROVE InvocationInv'
    BY <1>3, <1>0, <1>a DEF SweepSelect, StoodStill, Busy, rows, history, TypeOK
<1>4. ASSUME NEW t \in Tasks, SweepRow(t) PROVE InvocationInv'
  <2>1. CASE ~Unmoved(t)
    <3>1. /\ UNCHANGED <<status, attempts, payload, worker, ran>>
          /\ seen' = [seen EXCEPT ![t] = "none"] /\ moved' = moved \ {t}
        BY <1>4, <2>1 DEF SweepRow, history
    <3> QED
        BY <1>0, <1>a, <3>1 DEF TypeOK
  <2>2. CASE Unmoved(t)
    <3>1. status[t] \in {"pending", "processing"} /\ status[t] = seen[t]
        BY <1>0, <1>4, <2>2 DEF SweepRow, Unmoved, RowInv, SnapshotHolds, TypeOK
    <3>2. /\ UNCHANGED <<attempts, worker, ran>>
          /\ seen' = [seen EXCEPT ![t] = "none"] /\ moved' = moved \ {t}
          /\ \/ /\ status' = [status EXCEPT ![t] = "failed"]
                /\ payload' = [payload EXCEPT ![t] = "scrubbed"]
             \/ /\ status' = [status EXCEPT ![t] = "pending"]
                /\ UNCHANGED payload /\ ~UsedUp(t)
        BY <1>4, <2>2 DEF SweepRow, history
    <3>3. \A w \in Workers : Busy(w) => worker[w].task # t
      <4>1. CASE status[t] = "processing"
          BY <2>2, <3>1, <4>1 DEF InvocationInv, Swept, Unmoved
      <4>2. CASE status[t] = "pending"
          BY <1>b, <4>2 DEF OwnRow
      <4> QED
          BY <3>1, <4>1, <4>2
    <3>4. \A w \in Workers : OwnRow(w)'
        BY <1>0, <1>b, <3>2, <3>3 DEF OwnRow, Busy, Working, TypeOK
    <3>5. Apart' /\ Swept'
        BY <1>0, <3>2 DEF InvocationInv, Apart, Swept, Busy, TypeOK
    <3>6. \A u \in Tasks : Capped(u)'
        BY <1>0, <1>e, <3>2 DEF InvocationInv, Capped, TypeOK, UsedUp
    <3> QED
        BY <1>0, <3>4, <3>5, <3>6 DEF InvocationInv
  <2> QED
      BY <2>1, <2>2
<1>5. ASSUME NEW w \in Workers, NEW t \in Tasks, Claim(w, t) PROVE InvocationInv'
  <2>1. CASE ~Claimable(t)
      BY <1>5, <1>a, <2>1 DEF Claim, history
  <2>2. CASE Claimable(t)
    <3>1. /\ payload[t] \in {"message", "answer", "receipt"}
          /\ status[t] = "pending" /\ ~Busy(w)
        BY <1>0, <1>5, <2>2 DEF Claim, Claimable, RowInv, PayloadKept, Terminal, TypeOK, Busy
    <3>2. /\ worker'[w].pc = StartOf(payload[t]) /\ worker'[w].task = t
          /\ worker'[w].tries = attempts[t] + 1
          /\ \A v \in Workers : v # w => worker'[v] = worker[v]
          /\ UNCHANGED <<payload, ran, seen>>
          /\ status' = [status EXCEPT ![t] = "processing"]
          /\ attempts' = [attempts EXCEPT ![t] = @ + 1]
          /\ moved \subseteq moved' /\ (seen[t] # "none" => t \in moved')
        BY <1>0, <1>5, <2>2 DEF Claim, TypeOK, history, Touch
    <3>3. \A v \in Workers : Busy(v) => worker[v].task # t
        BY <1>b, <3>1 DEF OwnRow
    <3>4. OwnRow(w)'
        BY <1>0, <1>e, <3>1, <3>2 DEF StartOf, InvocationInv, Capped, OwnRow, TypeOK
    <3>5. ASSUME NEW v \in Workers, v # w PROVE OwnRow(v)'
        BY <1>0, <1>b, <1>e, <3>2, <3>3, <3>5 DEF OwnRow, Busy, Working, TypeOK
    <3>6. Apart' /\ Swept'
        BY <1>0, <3>2, <3>3 DEF InvocationInv, Apart, Swept, Busy, TypeOK
    <3>7. \A u \in Tasks : Capped(u)'
        BY <1>0, <1>e, <3>1, <3>2 DEF InvocationInv, Capped, TypeOK
    <3> QED
        BY <1>0, <3>4, <3>5, <3>6, <3>7 DEF InvocationInv
  <2> QED
      BY <2>1, <2>2
<1>6. ASSUME NEW w \in Workers, RunAgent(w) PROVE InvocationInv'
  <2>1. /\ Busy(w) /\ worker[w].task \in Tasks /\ worker[w].pc = "agent"
        /\ OwnRow(w) /\ Capped(worker[w].task)
      BY <1>6, <1>b DEF RunAgent, Busy
  <2>2. \/ UNCHANGED ran /\ After(w, "catch", worker[w].carry)
        \/ /\ ran' = [ran EXCEPT ![worker[w].task] = @ + 1]
           /\ After(w, "stage", worker[w].carry) \/ After(w, "complete", worker[w].carry)
      BY <1>6, <1>0, Moves DEF RunAgent
  <2>3. UNCHANGED <<status, payload, attempts, seen, moved>>
      BY <1>6, <1>0 DEF RunAgent, rows, history, Touch
  <2>4. OwnRow(w)' /\ (\A t \in Tasks : t = worker[w].task => Capped(t)')
      BY <1>0, <1>e, <2>1, <2>2, <2>3 DEF OwnRow, Capped, Working, Busy, After, Gone, TypeOK
  <2> QED
      BY <1>0, <2>1, <2>2, <2>3, <2>4, InvocationKept DEF After, Gone, TypeOK
<1>7. ASSUME NEW w \in Workers, StageAnswer(w) PROVE InvocationInv'
  <2>1. /\ Busy(w) /\ worker[w].task \in Tasks /\ worker[w].pc = "stage"
        /\ OwnRow(w) /\ Capped(worker[w].task)
      BY <1>7, <1>b DEF StageAnswer, Busy
  <2>2. \/ /\ payload' = [payload EXCEPT ![worker[w].task] = "answer"] /\ moved \subseteq moved'
           /\ After(w, "send", worker[w].carry)
        \/ UNCHANGED <<payload, moved>> /\ After(w, "checkpoint", "answer")
      BY <1>7, <1>0, StageEffect DEF StageAnswer, Touch
  <2>3. UNCHANGED <<status, attempts, seen, ran>>
      BY <1>7 DEF StageAnswer, history
  <2>4. OwnRow(w)' /\ (\A t \in Tasks : t = worker[w].task => Capped(t)')
      BY <1>0, <1>e, <2>1, <2>2, <2>3 DEF OwnRow, Capped, Working, Busy, After, TypeOK
  <2> QED
      BY <1>0, <2>1, <2>2, <2>3, <2>4, InvocationKept DEF After, TypeOK
<1>8. ASSUME NEW w \in Workers, Send(w) PROVE InvocationInv'
  <2>1. /\ Busy(w) /\ worker[w].task \in Tasks /\ worker[w].pc = "send"
        /\ OwnRow(w) /\ Capped(worker[w].task)
      BY <1>8, <1>b DEF Send, Busy
  <2>2. \E pc \in {"receipt", "checkpoint", "catch"}, c \in {worker[w].carry, "answer"} : After(w, pc, c)
      BY <1>8, <1>0, Moves DEF Send
  <2>3. UNCHANGED <<status, payload, attempts, seen, moved, ran>>
      BY <1>8, <1>0 DEF Send, rows, history, Touch
  <2>4. OwnRow(w)' /\ (\A t \in Tasks : t = worker[w].task => Capped(t)')
      BY <1>0, <1>e, <2>1, <2>2, <2>3 DEF OwnRow, Capped, Working, Busy, After, Gone, TypeOK
  <2> QED
      BY <1>0, <2>1, <2>2, <2>3, <2>4, InvocationKept DEF After, Gone, TypeOK
<1>9. ASSUME NEW w \in Workers, StageReceipt(w) PROVE InvocationInv'
  <2>1. /\ Busy(w) /\ worker[w].task \in Tasks /\ worker[w].pc = "receipt"
        /\ OwnRow(w) /\ Capped(worker[w].task)
      BY <1>9, <1>b DEF StageReceipt, Busy
  <2>2. \/ /\ payload' = [payload EXCEPT ![worker[w].task] = "receipt"] /\ moved \subseteq moved'
           /\ After(w, "persist", worker[w].carry)
        \/ UNCHANGED <<payload, moved>> /\ After(w, "checkpoint", "receipt")
      BY <1>9, <1>0, StageEffect DEF StageReceipt, Touch
  <2>3. UNCHANGED <<status, attempts, seen, ran>>
      BY <1>9 DEF StageReceipt, history
  <2>4. OwnRow(w)' /\ (\A t \in Tasks : t = worker[w].task => Capped(t)')
      BY <1>0, <1>e, <2>1, <2>2, <2>3 DEF OwnRow, Capped, Working, Busy, After, TypeOK
  <2> QED
      BY <1>0, <2>1, <2>2, <2>3, <2>4, InvocationKept DEF After, TypeOK
<1>10. ASSUME NEW w \in Workers, Persist(w) PROVE InvocationInv'
  <2>1. /\ Busy(w) /\ worker[w].task \in Tasks /\ worker[w].pc = "persist"
        /\ OwnRow(w) /\ Capped(worker[w].task)
      BY <1>10, <1>b DEF Persist, Busy
  <2>2. \/ /\ payload' = [payload EXCEPT ![worker[w].task] = "receipt"] /\ moved \subseteq moved'
           /\ After(w, "complete", worker[w].carry)
        \/ UNCHANGED <<payload, moved>> /\ After(w, "complete", worker[w].carry)
        \/ UNCHANGED <<payload, moved>> /\ After(w, "checkpoint", "receipt")
    <3>1. CASE worker[w].from = "message"
        BY <1>10, <1>0, <3>1, StageEffect DEF Persist, Touch
    <3>2. CASE worker[w].from # "message"
        BY <1>10, <1>0, <3>2, Moves DEF Persist
    <3> QED
        BY <3>1, <3>2
  <2>3. UNCHANGED <<status, attempts, seen, ran>>
      BY <1>10 DEF Persist, history
  <2>4. OwnRow(w)' /\ (\A t \in Tasks : t = worker[w].task => Capped(t)')
      BY <1>0, <1>e, <2>1, <2>2, <2>3 DEF OwnRow, Capped, Working, Busy, After, TypeOK
  <2> QED
      BY <1>0, <2>1, <2>2, <2>3, <2>4, InvocationKept DEF After, TypeOK
<1>11. ASSUME NEW w \in Workers, Complete(w) PROVE InvocationInv'
  <2>1. /\ Busy(w) /\ worker[w].task \in Tasks /\ worker[w].pc = "complete"
        /\ OwnRow(w) /\ Capped(worker[w].task)
      BY <1>11, <1>b DEF Complete, Busy
  <2>2. \E pc \in {"next", "checkpoint", "catch"} : \E c \in {worker[w].carry, "receipt"} : After(w, pc, c)
      BY <1>11, <1>0, Moves DEF Complete
  <2>3. /\ UNCHANGED <<attempts, seen, ran>> /\ moved \subseteq moved'
        /\ \/ UNCHANGED <<status, payload>>
           \/ /\ status' = [status EXCEPT ![worker[w].task] = "completed"]
              /\ payload' = [payload EXCEPT ![worker[w].task] = "scrubbed"]
      BY <1>11, <1>0 DEF Complete, rows, history, Touch
  <2>4. OwnRow(w)' /\ (\A t \in Tasks : t = worker[w].task => Capped(t)')
      BY <1>0, <1>e, <2>1, <2>2, <2>3 DEF OwnRow, Capped, Working, Busy, After, Gone, TypeOK
  <2> QED
      BY <1>0, <2>1, <2>2, <2>3, <2>4, InvocationKept DEF After, Gone, TypeOK
<1>12. ASSUME NEW w \in Workers, DispatchNext(w) PROVE InvocationInv'
  <2>1. /\ Busy(w) /\ worker[w].task \in Tasks /\ worker[w].pc = "next"
        /\ OwnRow(w) /\ Capped(worker[w].task)
      BY <1>12, <1>b DEF DispatchNext, Busy
  <2>2. Gone(w) \/ \E pc \in {"checkpoint", "catch"} : \E c \in {worker[w].carry, "receipt"} : After(w, pc, c)
      BY <1>12, <1>0, Moves DEF DispatchNext
  <2>3. UNCHANGED <<status, payload, attempts, seen, moved, ran>>
      BY <1>12, <1>0 DEF DispatchNext, rows, history, Touch
  <2>4. OwnRow(w)' /\ (\A t \in Tasks : t = worker[w].task => Capped(t)')
      BY <1>0, <1>e, <2>1, <2>2, <2>3 DEF OwnRow, Capped, Working, Busy, After, Gone, TypeOK
  <2> QED
      BY <1>0, <2>1, <2>2, <2>3, <2>4, InvocationKept DEF After, Gone, TypeOK
<1>13. ASSUME NEW w \in Workers, Catch(w) PROVE InvocationInv'
  <2>1. /\ Busy(w) /\ worker[w].task \in Tasks /\ worker[w].pc = "catch"
        /\ OwnRow(w) /\ Capped(worker[w].task)
      BY <1>13, <1>b DEF Catch, Busy
  <2>2. Gone(w)
      BY <1>13, <1>0, Moves DEF Catch
  <2>3. /\ UNCHANGED <<attempts, seen, ran>> /\ moved \subseteq moved'
        /\ \/ UNCHANGED <<status, payload>>
           \/ /\ status' = [status EXCEPT ![worker[w].task] = "failed"]
              /\ payload' = [payload EXCEPT ![worker[w].task] = "scrubbed"]
           \/ /\ status' = [status EXCEPT ![worker[w].task] = "pending"]
              /\ UNCHANGED payload /\ ~(worker[w].tries >= MaxAttempts)
      BY <1>13, <1>0 DEF Catch, rows, history, Touch
  <2>4. OwnRow(w)' /\ (\A t \in Tasks : t = worker[w].task => Capped(t)')
      BY <1>0, <1>e, <2>1, <2>2, <2>3 DEF OwnRow, Capped, Working, Busy, After, Gone, TypeOK
  <2> QED
      BY <1>0, <2>1, <2>2, <2>3, <2>4, InvocationKept DEF After, Gone, TypeOK
<1>14. ASSUME NEW w \in Workers, Checkpoint(w) PROVE InvocationInv'
  <2>1. /\ Busy(w) /\ worker[w].task \in Tasks /\ worker[w].pc = "checkpoint"
        /\ OwnRow(w) /\ Capped(worker[w].task)
      BY <1>14, <1>b DEF Checkpoint, Busy
  <2>2. Gone(w) \/ After(w, "contain", worker[w].carry)
      BY <1>14, <1>0, Moves DEF Checkpoint
  <2>3. worker[w].carry \in {"answer", "receipt"} /\ (Leave(w) => Gone(w))
      BY <1>0, Moves DEF TypeOK, Invocations
  <2>5. /\ UNCHANGED <<attempts, seen, ran>> /\ moved \subseteq moved'
        /\ \/ UNCHANGED <<status, payload>>
           \/ /\ status' = [status EXCEPT ![worker[w].task] = "pending"]
              /\ payload' = [payload EXCEPT ![worker[w].task] = worker[w].carry]
              /\ worker[w].carry \in {"answer", "receipt"} /\ Gone(w)
      BY <1>14, <2>3 DEF Checkpoint, history, Touch
  <2>4. OwnRow(w)' /\ (\A t \in Tasks : t = worker[w].task => Capped(t)')
      BY <1>0, <1>e, <2>1, <2>2, <2>5 DEF OwnRow, Capped, Working, Busy, After, Gone, TypeOK
  <2> QED
      BY <1>0, <2>1, <2>2, <2>4, <2>5, InvocationKept DEF After, Gone, TypeOK
<1>15. ASSUME NEW w \in Workers, Contain(w) PROVE InvocationInv'
  <2>1. /\ Busy(w) /\ worker[w].task \in Tasks /\ worker[w].pc = "contain"
        /\ OwnRow(w) /\ Capped(worker[w].task)
      BY <1>15, <1>b DEF Contain, Busy
  <2>2. Gone(w)
      BY <1>15, <1>0, Moves DEF Contain
  <2>3. /\ UNCHANGED <<attempts, seen, ran>> /\ moved \subseteq moved'
        /\ \/ UNCHANGED <<status, payload>>
           \/ /\ status' = [status EXCEPT ![worker[w].task] = "failed"]
              /\ payload' = [payload EXCEPT ![worker[w].task] = "scrubbed"]
      BY <1>15, <1>0 DEF Contain, rows, history, Touch
  <2>4. OwnRow(w)' /\ (\A t \in Tasks : t = worker[w].task => Capped(t)')
      BY <1>0, <1>e, <2>1, <2>2, <2>3 DEF OwnRow, Capped, Working, Busy, After, Gone, TypeOK
  <2> QED
      BY <1>0, <2>1, <2>2, <2>3, <2>4, InvocationKept DEF After, Gone, TypeOK
<1>16. ASSUME NEW w \in Workers, Crash(w) PROVE InvocationInv'
  <2>1. /\ Busy(w) /\ worker[w].task \in Tasks /\ worker[w].pc # "idle"
        /\ OwnRow(w) /\ Capped(worker[w].task)
      BY <1>16, <1>b DEF Crash, Busy
  <2>2. Gone(w)
      BY <1>16, <1>0, Moves DEF Crash
  <2>3. UNCHANGED <<status, payload, attempts, seen, moved, ran>>
      BY <1>16, <1>0 DEF Crash, rows, history, Touch
  <2>4. OwnRow(w)' /\ (\A t \in Tasks : t = worker[w].task => Capped(t)')
      BY <1>0, <1>e, <2>1, <2>2, <2>3 DEF OwnRow, Capped, Working, Busy, After, Gone, TypeOK
  <2> QED
      BY <1>0, <2>1, <2>2, <2>3, <2>4, InvocationKept DEF After, Gone, TypeOK
<1>17. ASSUME UNCHANGED vars PROVE InvocationInv'
    BY <1>17, <1>a DEF vars, rows, history
<1> QED
    BY <1>1, <1>2, <1>3, <1>4, <1>5, <1>6, <1>7, <1>8, <1>9, <1>10, <1>11,
       <1>12, <1>13, <1>14, <1>15, <1>16, <1>17 DEF Next, Step

LEMMA InvocationInit == Init => InvocationInv
<1> SUFFICES ASSUME Init PROVE InvocationInv
    OBVIOUS
<1>1. OrderInv
    BY RowInit DEF Init, OrderInv, OneProcessing
<1> QED
    BY <1>1, BoundsAssumption
       DEF Init, InvocationInv, OwnRow, Apart, Swept, Capped, Busy, Free

LEMMA InvocationInvariant == ~Outlives /\ Spec => []InvocationInv
<1> SUFFICES ASSUME ~Outlives PROVE Spec => []InvocationInv
    OBVIOUS
<1>1. InvocationInv /\ [Next]_vars => InvocationInv'
    BY InvocationStep
<1> QED
    BY <1>1, InvocationInit, PTL DEF Spec

\* No conversation is ever worked on by two invocations, as long as none
\* outlives the time the sweep allows it.
THEOREM OneAtATime == ~Outlives /\ Spec => []OneInvocation
<1>1. InvocationInv => OneInvocation
  <2> SUFFICES ASSUME InvocationInv, NEW v \in Working, NEW w \in Working, v # w,
                      thread[worker[v].task] = thread[worker[w].task]
               PROVE  FALSE
      BY DEF OneInvocation
  <2>1. /\ Busy(v) /\ Busy(w) /\ v \in Workers /\ w \in Workers
      BY DEF Working, Busy
  <2> DEFINE s == worker[v].task
             t == worker[w].task
  <2>2. /\ s \in Tasks /\ t \in Tasks /\ s # t
        /\ status[s] = "processing" /\ status[t] = "processing"
      BY <2>1 DEF InvocationInv, OrderInv, RowInv, BusyOnTask, OwnRow, Apart
  <2>3. OneProcessing
      BY DEF InvocationInv, OrderInv
  <2> QED
      BY <2>2, <2>3 DEF OneProcessing
<1> QED
    BY <1>1, InvocationInvariant, PTL

\* No task runs the agent more often than it may be attempted.
THEOREM AgentRunsCapped == ~Outlives /\ Spec => []AgentCapped
<1>1. InvocationInv => AgentCapped
    BY DEF InvocationInv, Capped, AgentCapped
<1> QED
    BY <1>1, InvocationInvariant, PTL

\* The only step that runs the agent finds the message in its row, and the
\* only one that sends finds the answer without a receipt.
LEMMA StepsOfOwner ==
  ASSUME InvocationInv, [Next]_vars
  PROVE  \A t \in Tasks : /\ ran'[t] # ran[t] => payload[t] = "message"
                          /\ sent'[t] # sent[t] => payload[t] = "answer"
<1>0. /\ ran \in [Tasks -> Nat] /\ sent \in [Tasks -> Nat]
      /\ \A w \in Workers : Busy(w) => worker[w].task \in Tasks /\ OwnRow(w)
    BY DEF InvocationInv, OrderInv, RowInv, BusyOnTask, TypeOK
<1>1. ASSUME NEW w \in Workers, RunAgent(w)
      PROVE  \A t \in Tasks : ran'[t] # ran[t] => payload[t] = "message"
    BY <1>0, <1>1 DEF RunAgent, OwnRow, Busy
<1>2. ASSUME NEW w \in Workers, Send(w)
      PROVE  \A t \in Tasks : sent'[t] # sent[t] => payload[t] = "answer"
    BY <1>0, <1>2 DEF Send, OwnRow, Busy
<1>3. ran' = ran \/ \E w \in Workers : RunAgent(w)
    BY DEF Next, Step, Enqueue, Fire, SweepSelect, SweepRow, Claim, StageAnswer, Send,
           StageReceipt, Persist, Complete, DispatchNext, Catch, Checkpoint, Contain,
           Crash, vars, history
<1>4. sent' = sent \/ \E w \in Workers : Send(w)
    BY DEF Next, Step, Enqueue, Fire, SweepSelect, SweepRow, Claim, RunAgent, StageAnswer,
           StageReceipt, Persist, Complete, DispatchNext, Catch, Checkpoint, Contain,
           Crash, vars, history
<1> QED
    BY <1>1, <1>2, <1>3, <1>4

\* Once its answer is staged in the row, no retry of a task runs the agent again.
THEOREM StagedNotRerun == ~Outlives /\ Spec => AgentNotRerun
<1>1. InvocationInv /\ [Next]_vars =>
        [\A t \in Tasks : payload[t] \in {"answer", "receipt"} => ran'[t] = ran[t]]_vars
  <2> SUFFICES ASSUME InvocationInv, [Next]_vars, NEW t \in Tasks, payload[t] \in {"answer", "receipt"}
               PROVE  ran'[t] = ran[t]
      OBVIOUS
  <2> QED
      BY StepsOfOwner
<1> QED
    BY <1>1, InvocationInvariant, PTL DEF Spec, AgentNotRerun

\* Once its receipt is staged in the row, no retry sends an answer again.
THEOREM ReceiptNotSentAgain == ~Outlives /\ Spec => NotSentAgain
<1>1. InvocationInv /\ [Next]_vars =>
        [\A t \in Tasks : payload[t] = "receipt" => sent'[t] = sent[t]]_vars
  <2> SUFFICES ASSUME InvocationInv, [Next]_vars, NEW t \in Tasks, payload[t] = "receipt"
               PROVE  sent'[t] = sent[t]
      OBVIOUS
  <2> QED
      BY StepsOfOwner
<1> QED
    BY <1>1, InvocationInvariant, PTL DEF Spec, NotSentAgain
=============================================================================

-------------------------- MODULE RunLedgerProofs --------------------------
(***************************************************************************)
(* Proved for any budget, cap and number of pollers and sweepers: types;   *)
(* a run says completed only once its answer is in thread_data; a run that *)
(* ended stays so; one agent works on the turn while no live producer was  *)
(* taken for dead.                                                         *)
(*                                                                         *)
(* The first three share one inductive invariant, IInv.  That a row says   *)
(* completed is also the work of readers, which believe the log: so Unsaved *)
(* says of a run whose answer is not saved that no answer is logged either, *)
(* unless its row is closed where no event can repair it.  That a row stays *)
(* closed needs the row locks (Holding).  The last theorem adds that only  *)
(* the latest run of the turn may still begin, work or hand over (Foremost). *)
(***************************************************************************)
EXTENDS RunLedger, FiniteSetTheorems, TLAPS

\* The rows are those of the first runs.
Contiguous == \E n \in 0..MaxRuns : Rows = 1..n

\* A transaction that reaps holds a running row, and holds it alone.
Holding ==
    \A o \in Observers :
        /\ obs[o].pc # "idle" => obs[o].run \in Runs
        /\ obs[o].pc = "reaping" =>
              /\ Running(obs[o].run)
              /\ \A q \in Observers :
                    obs[q].pc = "reaping" /\ obs[q].run = obs[o].run => q = o

AnswerLogged(r) == "done" \in {log[r].first, log[r].second}

\* Closed where no event can repair it.
Settled(rw) == rw.status \in {"truncated", "errored", "aborted"}
               /\ ~(rw.status = "errored" /\ rw.code = "stale")

HandingOver == {"count", "insert", "relook", "dispatch", "hand", "handreason"}
Ending == {"emit", "close"}

\* What holds of a run whose part of the turn is not in thread_data.
Unanswered(r) ==
    /\ row[r].status # "completed"
    /\ AnswerLogged(r) => Settled(row[r])
    /\ prod[r].pc \notin HandingOver
    /\ prod[r].pc \in Ending => prod[r].out \in {"error", "aborted"}

Unsaved == \A r \in Runs : r \notin stored => Unanswered(r)

\* Only a chunk that can be continued hands over; an aborted run logs no last
\* event.
Silent ==
    \A r \in Runs :
        /\ prod[r].pc \in HandingOver => prod[r].out = "continue"
        /\ prod[r].pc = "emit" => prod[r].out # "aborted"

IInv == TypeOK /\ Contiguous /\ Holding /\ Unsaved /\ Silent

\* What StatusFinal says of one run whose row becomes new.
FinalStep(r, new) ==
    /\ row[r].status \notin {"none", "running"} /\ new.status # row[r].status
       => \/ row[r].status = "completed" /\ new.status = "truncated"
          \/ Stale(r) /\ new.status \in {"completed", "truncated", "errored"}
    /\ row[r].status # "none" => new.status # "none"

----------------------------------------------------------------------------
LEMMA FreshRow ==
  ASSUME Contiguous
  PROVE  /\ Fresh \in 1..(MaxRuns + 1)
         /\ Rows = 1..(Fresh - 1)
         /\ Fresh \notin Rows
<1>1. PICK n \in 0..MaxRuns : Rows = 1..n
    BY DEF Contiguous
<1>2. MaxRuns \in Nat /\ n \in Int /\ 1 \in Int
    BY BoundsAssumption
<1>3. Cardinality(1..n) = IF 1 > n THEN 0 ELSE n - 1 + 1
    BY <1>2, FS_Interval
<1>4. Cardinality(Rows) = n
    BY <1>1, <1>2, <1>3
<1> QED
    BY <1>1, <1>2, <1>4 DEF Fresh

\* The row of r may be written so: whether it exists stays, a decided status
\* stays, and without the answer in thread_data the run is not completed.
GoodRow(r, new) ==
    /\ new \in RowType /\ new.mode \in {row[r].mode, "processing"}
    /\ new.status = "none" <=> row[r].status = "none"
    /\ FinalStep(r, new)
    /\ r \notin stored => new.status # "completed"
    /\ r \notin stored /\ AnswerLogged(r) => Settled(new)

Good ==
    /\ row' \in [Runs -> RowType]
    /\ \A r \in Runs : row'[r] = row[r] \/ GoodRow(r, row'[r])

\* Rows somebody holds are left alone.
Unlocked == \A r \in Runs : row'[r] = row[r] \/ ~Locked(r)

Safe == Good /\ Unlocked

\* A row is added, others may be written.
Grown ==
    /\ Fresh \in Runs /\ row' \in [Runs -> RowType]
    /\ row'[Fresh] = NewRow
    /\ \A r \in Runs : r # Fresh => row'[r] = row[r] \/ GoodRow(r, row'[r])

\* An answer is logged by a producer that saved it, or with the abort of a row.
LogsKept ==
    /\ log' \in [Runs -> LogType]
    /\ \A r \in Runs :
          \/ log'[r] = log[r]
          \/ AnswerLogged(r)' => AnswerLogged(r) \/ r \in stored
          \/ row'[r].status = "aborted"

\* Where the producers stand agrees with what they have saved.
GoodProducer(r) ==
    /\ prod[r].pc \in HandingOver => r \in stored /\ prod[r].out = "continue"
    /\ prod[r].pc \in Ending => r \in stored \/ prod[r].out \in {"error", "aborted"}
    /\ prod[r].pc = "emit" => prod[r].out # "aborted"

ProducersKept ==
    /\ prod' \in [Runs -> ProducerType]
    /\ stored \subseteq stored' /\ stored' \subseteq Runs
    /\ \A r \in Runs : prod'[r] = prod[r] \/ GoodProducer(r)'

LEMMA SameRows ==
  ASSUME IInv, row' = row
  PROVE  Safe
BY DEF IInv, TypeOK, Safe, Good, Unlocked

LEMMA VerdictOfLog ==
  ASSUME NEW l \in LogType, Verdict(l) = "done"
  PROVE  "done" \in {l.first, l.second}
BY DEF LogType, Verdict

LEMMA RowOfEvent ==
  ASSUME NEW old \in RowType, NEW e
  PROVE  /\ RowOf(e, old) \in RowType /\ RowOf(e, old).mode = old.mode
         /\ RowOf(e, old).status \in {"completed", "truncated", "errored"}
         /\ RowOf(e, old).status = "completed" => e = "done"
BY DEF RowType, RowOf

LEMMA ReconciledGood ==
  ASSUME IInv, NEW r \in Runs
  PROVE  GoodRow(r, Reconciled(r))
<1>1. row[r] \in RowType /\ log[r] \in LogType
    BY DEF IInv, TypeOK
<1>2. CASE ~(HasTerminal(log[r]) /\ (Running(r) \/ Stale(r)))
    BY <1>1, <1>2 DEF Reconciled, IInv, GoodRow, FinalStep, Unsaved, Unanswered
<1>3. CASE HasTerminal(log[r]) /\ (Running(r) \/ Stale(r))
  <2>1. Reconciled(r) = RowOf(Verdict(log[r]), row[r])
      BY <1>3 DEF Reconciled
  <2>2. /\ Reconciled(r) \in RowType /\ Reconciled(r).mode = row[r].mode
        /\ Reconciled(r).status \in {"completed", "truncated", "errored"}
      BY <1>1, <2>1, RowOfEvent
  <2>3. Reconciled(r).status = "completed" => AnswerLogged(r)
      BY <1>1, <2>1, RowOfEvent, VerdictOfLog DEF AnswerLogged
  <2>4. r \notin stored => ~AnswerLogged(r)
      BY <1>3 DEF IInv, Unsaved, Unanswered, Settled, Running, Stale
  <2>5. row[r].status \in {"running", "errored"}
      BY <1>3 DEF Running, Stale
  <2>6. FinalStep(r, Reconciled(r))
      BY <1>3, <2>2, <2>5 DEF FinalStep, Running, Stale
  <2> QED
      BY <2>2, <2>3, <2>4, <2>5, <2>6 DEF GoodRow
<1> QED
    BY <1>2, <1>3

\* A late producer repairs its row, and may write its own error_code.
LEMMA DiagnosedGood ==
  ASSUME IInv, NEW r \in Runs
  PROVE  GoodRow(r, Diagnosed(r, Reconciled(r)))
<1>1. GoodRow(r, Reconciled(r))
    BY ReconciledGood
<1>2. \A rw \in RowType : /\ [rw EXCEPT !.code = "other"] \in RowType
                          /\ [rw EXCEPT !.code = "other"].status = rw.status
                          /\ [rw EXCEPT !.code = "other"].code = "other"
                          /\ [rw EXCEPT !.code = "other"].mode = rw.mode
    BY DEF RowType
<1> QED
    BY <1>1, <1>2 DEF Diagnosed, GoodRow, FinalStep, Settled

LEMMA WriteGood ==
  ASSUME IInv, NEW r \in Runs, ~Locked(r), NEW new, GoodRow(r, new),
         row' = [row EXCEPT ![r] = new]
  PROVE  Safe
BY DEF IInv, TypeOK, GoodRow, Safe, Good, Unlocked

LEMMA WrittenRow ==
  ASSUME TypeOK, NEW r \in Runs,
         NEW s \in {"none", "running", "completed", "truncated", "errored", "aborted"},
         NEW c \in {"stale", "other"}, NEW why \in {"none", "continue", "final"}
  PROVE  /\ Written(r, s, c, why) \in [Runs -> RowType]
         /\ \A q \in Runs : q # r => Written(r, s, c, why)[q] = row[q]
         /\ Written(r, s, c, why)[r].status = s
         /\ Written(r, s, c, why)[r].code = c
         /\ Written(r, s, c, why)[r].mode = row[r].mode
<1> DEFINE new == [status |-> s, code |-> c, reason |-> why, mode |-> row[r].mode]
<1>1. new \in RowType /\ new.status = s /\ new.code = c /\ new.mode = row[r].mode
    BY DEF TypeOK, RowType
<1>2. Written(r, s, c, why) = [row EXCEPT ![r] = new]
    BY DEF Written
<1> QED
    BY <1>1, <1>2 DEF TypeOK

\* A running row is closed, as completed only if the answer is saved.
LEMMA ClosedSafe ==
  ASSUME IInv, NEW r \in Runs, ~Locked(r), Running(r),
         NEW s \in {"completed", "truncated", "errored", "aborted"},
         NEW c \in {"stale", "other"}, NEW why \in {"none", "continue", "final"},
         s = "completed" => r \in stored,
         row' = Written(r, s, c, why)
  PROVE  Safe
<1>1. /\ \A q \in Runs : q # r => row'[q] = row[q]
      /\ row' \in [Runs -> RowType] /\ row'[r].status = s /\ row'[r].code = c
      /\ row'[r].mode = row[r].mode
  <2>1. TypeOK
      BY DEF IInv
  <2> QED
      BY <2>1, WrittenRow
<1>2. r \notin stored => ~AnswerLogged(r)
    BY DEF IInv, Unsaved, Unanswered, Settled, Running
<1>3. GoodRow(r, row'[r])
    BY <1>1, <1>2 DEF GoodRow, FinalStep, Running
<1> QED
    BY <1>1, <1>3 DEF Safe, Good, Unlocked

LEMMA WithStatusSafe ==
  ASSUME IInv, NEW r \in Runs, r \in stored, ~Locked(r),
         NEW s \in {"completed", "errored"}, row' = WithStatus(r, s)
  PROVE  Safe
<1>1. CASE Running(r)
  <2>1. /\ row' \in [Runs -> RowType] /\ row'[r].status = s
        /\ row'[r].mode = row[r].mode
        /\ \A q \in Runs : q # r => row'[q] = row[q]
      BY <1>1 DEF WithStatus, IInv, TypeOK, RowType
  <2> QED
      BY <1>1, <2>1 DEF Safe, Good, Unlocked, GoodRow, FinalStep, Running
<1>2. CASE ~Running(r)
    BY <1>2, SameRows DEF WithStatus
<1> QED
    BY <1>1, <1>2

LEMMA WithReasonSafe ==
  ASSUME IInv, NEW r \in Runs, ~Locked(r),
         NEW why \in {"continue", "final"}, row' = WithReason(r, why)
  PROVE  Safe
<1>1. CASE Running(r) \/ row[r].reason = "none"
  <2> DEFINE s == IF row[r].status = "completed" /\ why = "continue"
                  THEN "truncated" ELSE row[r].status
  <2>1. row' = Written(r, s, row[r].code, why)
      BY <1>1 DEF WithReason
  <2>2. /\ s \in {"none", "running", "completed", "truncated", "errored", "aborted"}
        /\ row[r].code \in {"stale", "other"}
      BY DEF IInv, TypeOK, RowType
  <2>3. /\ row' \in [Runs -> RowType] /\ row'[r].status = s /\ row'[r].code = row[r].code
        /\ row'[r].mode = row[r].mode
        /\ \A q \in Runs : q # r => row'[q] = row[q]
    <3> DEFINE c == row[r].code
               new == Written(r, s, c, why)
    <3>1. TypeOK /\ c \in {"stale", "other"} /\ why \in {"none", "continue", "final"}
        BY <2>2 DEF IInv
    <3> HIDE DEF s, c
    <3>2. /\ new \in [Runs -> RowType] /\ new[r].status = s /\ new[r].code = c
          /\ new[r].mode = row[r].mode
          /\ \A q \in Runs : q # r => new[q] = row[q]
        BY <2>2, <3>1, WrittenRow
    <3> QED
        BY <2>1, <3>2 DEF c
  <2>4. GoodRow(r, row'[r])
      BY <2>3 DEF IInv, Unsaved, Unanswered, Settled, GoodRow, FinalStep
  <2> QED
      BY <2>3, <2>4 DEF Safe, Good, Unlocked
<1>2. CASE ~(Running(r) \/ row[r].reason = "none")
    BY <1>2, SameRows DEF WithReason
<1> QED
    BY <1>1, <1>2

LEMMA AbortedLog ==
  ASSUME NEW l \in LogType
  PROVE  Appended(l, "done") \in LogType
BY DEF Appended, LogType

\* Running rows are aborted, and their logs take a last event.
LEMMA AbortingSafe ==
  ASSUME IInv, NEW S, NEW L, AbortingAndLogging(S, L),
         \A r \in S \cap Runs : Running(r) => ~Locked(r)
  PROVE  /\ Safe
         /\ log' \in [Runs -> LogType]
         /\ \A r \in Runs : log'[r] = log[r] \/ row'[r].status = "aborted"
<1>1. \A r \in Runs :
        /\ r \in S /\ Running(r) =>
              /\ row'[r] \in RowType /\ row'[r].status = "aborted" /\ row'[r].mode = row[r].mode
              /\ log'[r] \in {log[r], Appended(log[r], "done")}
        /\ ~(r \in S /\ Running(r)) => row'[r] = row[r] /\ log'[r] = log[r]
    BY DEF AbortingAndLogging, IInv, TypeOK, RowType
<1>2. row' \in [Runs -> RowType] /\ log' \in [Runs -> LogType]
    BY <1>1, AbortedLog DEF AbortingAndLogging, IInv, TypeOK
<1>3. \A r \in Runs : r \in S /\ Running(r) => GoodRow(r, row'[r])
    BY <1>1 DEF Settled, GoodRow, FinalStep, Running
<1> QED
    BY <1>1, <1>2, <1>3 DEF Safe, Good, Unlocked

----------------------------------------------------------------------------
LEMMA RowsKept ==
  ASSUME IInv, Good
  PROVE  Contiguous'
<1>1. Rows' = Rows
    BY DEF Good, GoodRow, Rows
<1> QED
    BY <1>1 DEF IInv, Contiguous

LEMMA RowsGrown ==
  ASSUME IInv, Grown
  PROVE  Contiguous'
<1>1. /\ Fresh \in 1..(MaxRuns + 1)
      /\ Rows = 1..(Fresh - 1)
    BY FreshRow DEF IInv
<1>2. Fresh \in 0..MaxRuns
    BY <1>1 DEF Grown, Runs
<1>3. row'[Fresh].status # "none"
    BY DEF Grown, NewRow
<1>4. \A r \in Runs : r # Fresh => (row'[r].status # "none" <=> row[r].status # "none")
    BY DEF Grown, GoodRow
<1>5. Rows' = Rows \cup {Fresh}
    BY <1>3, <1>4 DEF Rows, Grown
<1>6. Rows' = 1..Fresh
    BY <1>1, <1>2, <1>5
<1> QED
    BY <1>2, <1>6 DEF Contiguous

LEMMA Kept ==
  ASSUME IInv, Good \/ Grown, LogsKept, ProducersKept,
         Holding', obs' \in [Observers -> ObserverType],
         marker' \in 0..(MaxRuns + 1), entered' \subseteq Runs,
         stop' \in StopType, misjudged' \in BOOLEAN
  PROVE  IInv' /\ \A r \in Runs : FinalStep(r, row'[r])
<1>1. TypeOK'
    BY DEF TypeOK, Good, Grown, LogsKept, ProducersKept
<1>2. Contiguous'
    BY RowsKept, RowsGrown
<1>3. Silent'
    BY DEF IInv, Silent, ProducersKept, GoodProducer
<1>4. ASSUME Grown
      PROVE  row[Fresh].status = "none"
    BY <1>4, FreshRow DEF IInv, Rows, Grown
<1>5. ASSUME NEW r \in Runs
      PROVE  FinalStep(r, row'[r])
    BY <1>4, <1>5 DEF Good, Grown, GoodRow, FinalStep
<1>6. ASSUME NEW r \in Runs, r \notin stored'
      PROVE  Unanswered(r)'
  <2>1. r \notin stored /\ Unanswered(r)
      BY <1>6 DEF ProducersKept, IInv, Unsaved
  <2>2. /\ prod'[r].pc \notin HandingOver
        /\ prod'[r].pc \in Ending => prod'[r].out \in {"error", "aborted"}
      BY <1>6, <2>1 DEF ProducersKept, GoodProducer, Unanswered
  <2>3. /\ row'[r].status # "completed"
        /\ AnswerLogged(r) => Settled(row'[r])
    <3>1. CASE row'[r] = row[r] \/ GoodRow(r, row'[r])
        BY <2>1, <3>1 DEF GoodRow, Unanswered
    <3>2. CASE Grown /\ r = Fresh
      <4>1. row[r].status = "none" /\ row'[r] = NewRow
          BY <1>4, <3>2 DEF Grown
      <4> QED
          BY <2>1, <4>1 DEF NewRow, Unanswered, Settled
    <3> QED
        BY <1>6, <3>1, <3>2 DEF Good, Grown
  <2>4. AnswerLogged(r)' => Settled(row'[r])
      BY <2>1, <2>3 DEF LogsKept, AnswerLogged, Settled
  <2> QED
      BY <2>2, <2>3, <2>4 DEF Unanswered
<1>7. Unsaved'
    BY <1>6 DEF Unsaved
<1> QED
    BY <1>1, <1>2, <1>3, <1>5, <1>7 DEF IInv

\* The observers stay where they are and nobody writes the rows they hold.
LEMMA HoldingKept ==
  ASSUME IInv, obs' = obs, Unlocked
  PROVE  Holding'
BY DEF IInv, Holding, Unlocked, Locked, Running

\* What every step has to keep, and what it may do to a decided row.
Preserved == IInv' /\ \A r \in Runs : FinalStep(r, row'[r])

LEMMA StepKept ==
  ASSUME IInv, Safe, LogsKept, ProducersKept,
         UNCHANGED <<obs, stop, misjudged>>, marker' \in 0..(MaxRuns + 1), entered' \subseteq Runs
  PROVE  Preserved /\ Good
<1>1. Holding'
    BY HoldingKept DEF Safe
<1>2. /\ obs' \in [Observers -> ObserverType]
      /\ stop' \in StopType /\ misjudged' \in BOOLEAN
    BY DEF IInv, TypeOK
<1> QED
    BY <1>1, <1>2, Kept DEF Safe, Preserved

LEMMA SameLogs ==
  ASSUME IInv, log' = log
  PROVE  LogsKept
BY DEF IInv, TypeOK, LogsKept

LEMMA SameProducers ==
  ASSUME IInv, UNCHANGED <<prod, stored>>
  PROVE  ProducersKept
BY DEF IInv, TypeOK, ProducersKept

LEMMA AbortingLogs ==
  ASSUME IInv, NEW S, NEW L, AbortingAndLogging(S, L),
         \A r \in S \cap Runs : Running(r) => ~Locked(r)
  PROVE  Safe /\ LogsKept
BY AbortingSafe DEF LogsKept

\* The producer r goes to the stage pc.
Moves(r, pc, out) ==
    /\ prod' \in [Runs -> ProducerType]
    /\ \A q \in Runs : q # r => prod'[q] = prod[q]
    /\ prod'[r].pc = pc /\ prod'[r].out = out

LEMMA Goes ==
  ASSUME IInv, NEW r \in Runs, NEW pc \in Stages, NEW out \in Outcomes, NEW n \in 0..MaxRuns
  PROVE  /\ Go(r, pc) => Moves(r, pc, prod[r].out)
         /\ GoWith(r, pc, out) => Moves(r, pc, out)
         /\ prod' = [prod EXCEPT ![r].pc = pc, ![r].next = n] => Moves(r, pc, prod[r].out)
         /\ prod' = [prod EXCEPT ![r] = Over] => Moves(r, "gone", "done")
<1>1. prod \in [Runs -> ProducerType] /\ prod[r] \in ProducerType
    BY DEF IInv, TypeOK
<1>2. Go(r, pc) => Moves(r, pc, prod[r].out)
    BY <1>1 DEF Go, ProducerType, Moves
<1>3. GoWith(r, pc, out) => Moves(r, pc, out)
  <2> SUFFICES ASSUME GoWith(r, pc, out)  PROVE Moves(r, pc, out)
      OBVIOUS
  <2>1. /\ prod'[r] = [prod[r] EXCEPT !.pc = pc, !.out = out]
        /\ prod' = [q \in Runs |-> prod'[q]] /\ \A q \in Runs : q # r => prod'[q] = prod[q]
      BY <1>1 DEF GoWith
  <2>2. prod'[r] = [pc |-> pc, out |-> out, next |-> prod[r].next]
      BY <1>1, <2>1 DEF ProducerType
  <2>3. prod'[r] \in ProducerType /\ prod'[r].pc = pc /\ prod'[r].out = out
      BY <1>1, <2>2 DEF ProducerType
  <2>4. \A q \in Runs : prod'[q] \in ProducerType
      BY <1>1, <2>1, <2>3
  <2>5. prod' \in [Runs -> ProducerType]
      BY ONLY <2>1, <2>4
  <2> QED
      BY ONLY <2>1, <2>3, <2>5 DEF Moves
<1>4. prod' = [prod EXCEPT ![r].pc = pc, ![r].next = n] => Moves(r, pc, prod[r].out)
  <2> SUFFICES ASSUME prod' = [prod EXCEPT ![r].pc = pc, ![r].next = n]
               PROVE  Moves(r, pc, prod[r].out)
      OBVIOUS
  <2>1. /\ prod'[r] = [prod[r] EXCEPT !.pc = pc, !.next = n]
        /\ prod' = [q \in Runs |-> prod'[q]] /\ \A q \in Runs : q # r => prod'[q] = prod[q]
      BY <1>1
  <2>2. prod'[r] = [pc |-> pc, out |-> prod[r].out, next |-> n]
      BY <1>1, <2>1 DEF ProducerType
  <2>3. prod'[r] \in ProducerType /\ prod'[r].pc = pc /\ prod'[r].out = prod[r].out
      BY <1>1, <2>2 DEF ProducerType
  <2>4. \A q \in Runs : prod'[q] \in ProducerType
      BY <1>1, <2>1, <2>3
  <2>5. prod' \in [Runs -> ProducerType]
      BY ONLY <2>1, <2>4
  <2> QED
      BY ONLY <2>1, <2>3, <2>5 DEF Moves
<1>5. prod' = [prod EXCEPT ![r] = Over] => Moves(r, "gone", "done")
  <2>1. Over = [pc |-> "gone", out |-> "done", next |-> 0]
      BY DEF Over, NoProducer
  <2>2. Over \in ProducerType
      BY <2>1, BoundsAssumption DEF ProducerType, Stages, Outcomes
  <2> QED
      BY <1>1, <2>1, <2>2 DEF Moves
<1> QED
    BY <1>2, <1>3, <1>4, <1>5

LEMMA Advance ==
  ASSUME IInv, NEW r \in Runs, NEW pc, NEW out, Moves(r, pc, out),
         stored \subseteq stored', stored' \subseteq Runs,
         pc \in HandingOver => r \in stored' /\ out = "continue",
         pc \in Ending => r \in stored' \/ out \in {"error", "aborted"},
         pc = "emit" => out # "aborted"
  PROVE  ProducersKept
BY DEF ProducersKept, Moves, GoodProducer

\* What IInv says of the producer r.
LEMMA Standing ==
  ASSUME IInv, NEW r \in Runs
  PROVE  /\ GoodProducer(r)
         /\ prod[r].out \in Outcomes
         /\ stored \subseteq Runs
<1>1. prod[r].out \in Outcomes /\ stored \subseteq Runs
    BY DEF IInv, TypeOK, ProducerType
<1>2. r \notin stored => Unanswered(r)
    BY DEF IInv, Unsaved
<1> QED
    BY <1>1, <1>2 DEF IInv, Silent, Unanswered, GoodProducer

----------------------------------------------------------------------------
(* The steps of a producer *)

LEMMA ProducerAdvances ==
  ASSUME IInv, NEW r \in Runs,
         NEW pc \in Stages, NEW out \in Outcomes, Moves(r, pc, out),
         stored \subseteq stored', stored' \subseteq Runs,
         pc \in HandingOver => r \in stored' /\ out = "continue",
         pc \in Ending => r \in stored' \/ out \in {"error", "aborted"},
         pc = "emit" => out # "aborted",
         Safe, LogsKept, UNCHANGED <<marker, entered, obs, stop, misjudged>>
  PROVE  Preserved /\ Good
<1>1. ProducersKept
    BY Advance
<1>2. marker' \in 0..(MaxRuns + 1) /\ entered' \subseteq Runs
    BY DEF IInv, TypeOK
<1> QED
    BY <1>1, <1>2, StepKept

\* Steps that write neither a row nor a log.
LEMMA QuietSteps ==
  ASSUME IInv, NEW r \in Runs,
         \/ Notice(r) \/ Store(r) \/ StoreFails(r) \/ Dispatch(r) \/ Crash(r)
         \/ \E out \in {"done", "error", "continue"} : Conclude(r, out)
  PROVE  Preserved /\ Good
<1>1. Safe /\ LogsKept
    BY SameRows, SameLogs DEF Notice, Store, StoreFails, Dispatch, Crash, Conclude, rows
<1>2. UNCHANGED <<marker, entered, obs, stop, misjudged>>
    BY DEF Notice, Store, StoreFails, Dispatch, Crash, Conclude, rows
<1>3. GoodProducer(r) /\ prod[r].out \in Outcomes /\ stored \subseteq Runs /\ 0 \in 0..MaxRuns
    BY Standing, BoundsAssumption
<1> USE DEF Stages, Outcomes, HandingOver, Ending
<1>4. CASE Notice(r)
  <2>1. Moves(r, "store", "aborted") /\ stored' = stored
      BY <1>4, Goes, <1>3 DEF Notice
  <2> QED
      BY <1>1, <1>2, <1>3, <2>1, ProducerAdvances
<1>5. CASE Store(r)
  <2>1. stored' = stored \cup {r}
      BY <1>5 DEF Store, AfterStore
  <2>2. PICK pc \in {"count", "close", "emit"} :
          /\ Go(r, pc)
          /\ pc = "emit" => prod[r].out # "aborted"
          /\ pc = "count" => prod[r].out = "continue"
          /\ pc = "close" => prod[r].out = "aborted"
      BY <1>5 DEF Store
  <2>3. Moves(r, pc, prod[r].out)
      BY <2>2, <1>3, Goes
  <2> QED
      BY <1>1, <1>2, <1>3, <2>1, <2>2, <2>3, ProducerAdvances
<1>6. CASE StoreFails(r)
  <2>1. stored' = stored /\ (Moves(r, "close", "aborted") \/ Moves(r, "emit", "error"))
    <3>1. CASE prod[r].out = "aborted"
        BY <1>3, <1>6, <3>1, Goes DEF StoreFails
    <3>2. CASE prod[r].out # "aborted"
        BY <1>3, <1>6, <3>2, Goes DEF StoreFails
    <3> QED
        BY <3>1, <3>2
  <2> QED
      BY <1>1, <1>2, <1>3, <2>1, ProducerAdvances
<1>7. CASE Dispatch(r)
  <2>1. /\ Moves(r, "hand", prod[r].out) /\ stored' = stored
        /\ r \in stored /\ prod[r].out = "continue"
      BY <1>3, <1>7, Goes DEF Dispatch, At, GoodProducer
  <2> QED
      BY <1>1, <1>2, <1>3, <2>1, ProducerAdvances
<1>8. CASE Crash(r)
  <2>1. Moves(r, "gone", "done") /\ stored' = stored
      BY <1>3, <1>8, Goes DEF Crash
  <2> QED
      BY <1>1, <1>2, <1>3, <2>1, ProducerAdvances
<1>9. ASSUME NEW out \in {"done", "error", "continue"}, Conclude(r, out)
      PROVE  Preserved /\ Good
  <2>1. Moves(r, "store", out) /\ stored' = stored
      BY <1>3, <1>9, Goes DEF Conclude
  <2> QED
      BY <1>1, <1>2, <1>3, <2>1, ProducerAdvances
<1> QED
    BY <1>4, <1>5, <1>6, <1>7, <1>8, <1>9

\* The looks at the marker.
LEMMA LookingSteps ==
  ASSUME IInv, NEW r \in Runs, Begin(r) \/ CountRows(r) \/ Relook(r)
  PROVE  Preserved /\ Good
<1>1. Safe /\ LogsKept
  <2>1. CASE UNCHANGED <<row, log>>
      BY <2>1, SameRows, SameLogs
  <2>2. CASE ~(UNCHANGED <<row, log>>)
    <3>1. PICK S : /\ Aborting(S)
                   /\ \A q \in S : ~Locked(q)
        BY <2>2 DEF Begin, CountRows, Relook
    <3> QED
        BY <3>1, AbortingLogs DEF Aborting
  <2> QED
      BY <2>1, <2>2
<1>2. UNCHANGED <<marker, entered, stored, obs, stop, misjudged>>
    BY DEF Begin, CountRows, Relook
<1>3. GoodProducer(r) /\ prod[r].out \in Outcomes /\ stored \subseteq Runs /\ 0 \in 0..MaxRuns
    BY Standing, BoundsAssumption
<1> USE DEF Stages, Outcomes, HandingOver, Ending
<1>4. CASE Begin(r)
  <2>1. Moves(r, "gone", "done") \/ Moves(r, "work", prod[r].out)
      BY <1>3, <1>4, Goes DEF Begin
  <2> QED
      BY <1>1, <1>2, <1>3, <2>1, ProducerAdvances
<1>5. CASE CountRows(r)
  <2>1. Moves(r, "emit", prod[r].out) \/ Moves(r, "insert", prod[r].out)
      BY <1>3, <1>5, Goes DEF CountRows
  <2>2. r \in stored /\ prod[r].out = "continue"
      BY <1>3, <1>5 DEF CountRows, At, GoodProducer
  <2> QED
      BY <1>1, <1>2, <1>3, <2>1, <2>2, ProducerAdvances
<1>6. CASE Relook(r)
  <2>1. Moves(r, "emit", prod[r].out) \/ Moves(r, "dispatch", prod[r].out)
      BY <1>3, <1>6, Goes DEF Relook
  <2>2. r \in stored /\ prod[r].out = "continue"
      BY <1>3, <1>6 DEF Relook, At, GoodProducer
  <2> QED
      BY <1>1, <1>2, <1>3, <2>1, <2>2, ProducerAdvances
<1> QED
    BY <1>4, <1>5, <1>6

\* The steps that write the row, or the log, of the producer.
LEMMA WritingSteps ==
  ASSUME IInv, NEW r \in Runs,
         \/ MarkBoundary(r) \/ StopTurn(r) \/ Defer(r) \/ ChainFails(r)
         \/ Hand(r) \/ HandReason(r) \/ Close(r)
  PROVE  Preserved /\ Good
<1>1. LogsKept
    BY SameLogs DEF MarkBoundary, StopTurn, Defer, ChainFails, Hand, HandReason, Close
<1>2. UNCHANGED <<marker, entered, stored, obs, stop, misjudged>>
    BY DEF MarkBoundary, StopTurn, Defer, ChainFails, Hand, HandReason, Close
<1>3. GoodProducer(r) /\ prod[r].out \in Outcomes /\ stored \subseteq Runs /\ 0 \in 0..MaxRuns
    BY Standing, BoundsAssumption
<1>4. ~Locked(r)
    BY DEF MarkBoundary, StopTurn, Defer, ChainFails, Hand, HandReason, Close
<1> USE DEF Stages, Outcomes, HandingOver, Ending
<1>5. CASE MarkBoundary(r)
  <2>1. Moves(r, "store", prod[r].out) /\ Safe
      BY <1>3, <1>4, <1>5, Goes, WithReasonSafe DEF MarkBoundary
  <2> QED
      BY <1>1, <1>2, <1>3, <2>1, ProducerAdvances
<1>6. CASE StopTurn(r)
  <2>1. Moves(r, "emit", prod[r].out) /\ r \in stored /\ prod[r].out = "continue"
      BY <1>3, <1>6, Goes DEF StopTurn, At, GoodProducer
  <2>2. Safe
      BY <1>4, <1>6, SameRows, ClosedSafe DEF StopTurn
  <2> QED
      BY <1>1, <1>2, <1>3, <2>1, <2>2, ProducerAdvances
<1>7. CASE Defer(r) \/ ChainFails(r)
  <2>1. Moves(r, "emit", prod[r].out) /\ r \in stored /\ prod[r].out = "continue"
      BY <1>3, <1>7, Goes DEF Defer, ChainFails, At, GoodProducer
  <2>2. Safe
      BY <1>4, <1>7, <2>1, SameRows, ClosedSafe DEF Defer, ChainFails
  <2> QED
      BY <1>1, <1>2, <1>3, <2>1, <2>2, ProducerAdvances
<1>8. CASE Hand(r)
  <2>1. /\ Moves(r, "emit", prod[r].out) \/ Moves(r, "handreason", prod[r].out)
        /\ r \in stored /\ prod[r].out = "continue"
      BY <1>3, <1>8, Goes DEF Hand, At, GoodProducer
  <2>2. Safe
      BY <1>4, <1>8, <2>1, WithStatusSafe DEF Hand
  <2> QED
      BY <1>1, <1>2, <1>3, <2>1, <2>2, ProducerAdvances
<1>9. CASE HandReason(r)
  <2>1. Moves(r, "emit", prod[r].out) /\ r \in stored /\ prod[r].out = "continue"
      BY <1>3, <1>9, Goes DEF HandReason, At, GoodProducer
  <2>2. Safe
      BY <1>4, <1>9, WithReasonSafe DEF HandReason
  <2> QED
      BY <1>1, <1>2, <1>3, <2>1, <2>2, ProducerAdvances
<1>10. CASE Close(r)
  <2>1. Moves(r, "gone", "done")
      BY <1>3, <1>10, Goes DEF Close
  <2>2. prod[r].out = "done" => r \in stored
      BY <1>3, <1>10 DEF Close, At, GoodProducer
  <2>3. ASSUME Running(r)  PROVE Safe
    <3> DEFINE s == FinalStatus(prod[r].out)
               why == IF prod[r].out = "continue" THEN "continue" ELSE "final"
    <3>1. /\ s \in {"completed", "truncated", "errored", "aborted"}
          /\ s = "completed" => r \in stored
          /\ why \in {"none", "continue", "final"}
        BY <1>3, <2>2 DEF FinalStatus
    <3>2. row' = Written(r, s, "other", why)
        BY <1>10, <2>3 DEF Close
    <3> HIDE DEF s, why
    <3> QED
        BY <1>4, <2>3, <3>1, <3>2, ClosedSafe
  <2>4. ASSUME ~Running(r)  PROVE Safe
      BY <1>4, <1>10, <2>4, DiagnosedGood, WriteGood DEF Close
  <2> QED
      BY <1>1, <1>2, <1>3, <2>1, <2>3, <2>4, ProducerAdvances
<1> QED
    BY <1>5, <1>6, <1>7, <1>8, <1>9, <1>10

\* The steps that log an event of the producer.
LEMMA LoggingSteps ==
  ASSUME IInv, NEW r \in Runs, Checkpoint(r) \/ Emit(r)
  PROVE  Preserved /\ Good
<1>1. Safe /\ UNCHANGED <<marker, entered, stored, obs, stop, misjudged>>
    BY SameRows DEF Checkpoint, Emit
<1>2. GoodProducer(r) /\ prod[r].out \in Outcomes /\ stored \subseteq Runs /\ 0 \in 0..MaxRuns
    BY Standing, BoundsAssumption
<1>3. log \in [Runs -> LogType] /\ log[r] \in LogType
    BY DEF IInv, TypeOK
<1> USE DEF Stages, Outcomes, HandingOver, Ending
<1>4. CASE Checkpoint(r)
  <2>1. Moves(r, "mark", "continue")
      BY <1>2, <1>4, Goes DEF Checkpoint
  <2>2. log' \in [Runs -> LogType] /\ \A q \in Runs : AnswerLogged(q)' => AnswerLogged(q)
      BY <1>3, <1>4 DEF Checkpoint, LogType, AnswerLogged, Running
  <2> QED
      BY <1>1, <1>2, <2>1, <2>2, ProducerAdvances DEF LogsKept
<1>5. CASE Emit(r)
  <2>1. Moves(r, "close", prod[r].out)
      BY <1>2, <1>5, Goes DEF Emit
  <2>2. /\ prod[r].out \in {"done", "error", "continue"}
        /\ prod[r].out # "error" => r \in stored
      BY <1>2, <1>5 DEF Emit, At, GoodProducer
  <2>3. /\ log' \in [Runs -> LogType]
        /\ \A q \in Runs : q # r => log'[q] = log[q]
        /\ AnswerLogged(r)' => AnswerLogged(r) \/ prod[r].out = "done"
      BY <1>3, <1>5, <2>2 DEF Emit, Put, LogType, AnswerLogged
  <2> QED
      BY <1>1, <1>2, <2>1, <2>2, <2>3, ProducerAdvances DEF LogsKept
<1> QED
    BY <1>4, <1>5

----------------------------------------------------------------------------
(* Rows are added, claimed and given up *)

LEMMA RowAdded ==
  ASSUME IInv, Fresh \in Runs, row' = [row EXCEPT ![Fresh] = NewRow]
  PROVE  Grown /\ \A r \in Runs : Running(r) => row'[r] = row[r]
<1>1. NewRow \in RowType
    BY DEF NewRow, RowType
<1>2. row[Fresh].status = "none"
    BY FreshRow DEF IInv, Rows
<1> QED
    BY <1>1, <1>2 DEF IInv, TypeOK, Grown, Running

LEMMA RowAddedKept ==
  ASSUME IInv, Fresh \in Runs, row' = [row EXCEPT ![Fresh] = NewRow],
         ProducersKept, UNCHANGED <<log, marker, entered, obs, stop, misjudged>>
  PROVE  Preserved
<1>1. Grown /\ \A r \in Runs : Running(r) => row'[r] = row[r]
    BY RowAdded
<1>2. Holding'
    BY <1>1 DEF IInv, Holding, Running
<1>3. /\ obs' \in [Observers -> ObserverType] /\ marker' \in 0..(MaxRuns + 1)
      /\ entered' \subseteq Runs /\ stop' \in StopType /\ misjudged' \in BOOLEAN
    BY DEF IInv, TypeOK
<1> QED
    BY <1>1, <1>2, <1>3, SameLogs, Kept DEF Preserved

LEMMA InsertStep ==
  ASSUME IInv, NEW r \in Runs, Insert(r)
  PROVE  Preserved
<1>1. GoodProducer(r) /\ prod[r].out \in Outcomes /\ stored \subseteq Runs
    BY Standing
<1>2. Moves(r, "relook", prod[r].out) /\ r \in stored /\ prod[r].out = "continue"
  <2>1. "relook" \in Stages /\ Fresh \in 0..MaxRuns
      BY DEF Insert, Stages, Runs
  <2>2. prod' = [prod EXCEPT ![r].pc = "relook", ![r].next = Fresh]
      BY DEF Insert
  <2>3. r \in stored /\ prod[r].out = "continue"
      BY <1>1 DEF Insert, At, GoodProducer, HandingOver
  <2> QED
      BY <1>1, <2>1, <2>2, <2>3, Goes
<1>3. ProducersKept
    BY <1>1, <1>2, Advance DEF Insert, HandingOver, Ending
<1> QED
    BY <1>3, RowAddedKept DEF Insert

LEMMA PostStep ==
  ASSUME IInv, Post
  PROVE  Preserved
<1>1. Rows = {} /\ Fresh \in 1..(MaxRuns + 1) /\ Rows = 1..(Fresh - 1)
    BY FreshRow DEF IInv, Post
<1>2. Fresh = 1
    BY <1>1, BoundsAssumption
<1>3. Fresh \in Runs
    BY <1>2, BoundsAssumption DEF Runs
<1> QED
    BY <1>2, <1>3, RowAddedKept, SameProducers DEF Post

LEMMA DispatchSteps ==
  ASSUME IInv, NEW r \in Runs, Deliver(r) \/ Claim(r) \/ ReapUnclaimed(r)
  PROVE  Preserved /\ Good
<1>1. CASE Deliver(r)
  <2>1. Safe /\ LogsKept
    <3>1. CASE marker # 0
        BY <1>1, <3>1, AbortingLogs DEF Deliver, Aborting
    <3>2. CASE marker = 0
        BY <1>1, <3>2, SameRows, SameLogs DEF Deliver
    <3> QED
        BY <3>1, <3>2
  <2>2. /\ UNCHANGED <<obs, stop, misjudged>> /\ marker' \in 0..(MaxRuns + 1)
        /\ entered' \subseteq Runs
      BY <1>1 DEF Deliver, IInv, TypeOK
  <2>3. ProducersKept
      BY <1>1, SameProducers DEF Deliver
  <2> QED
      BY <2>1, <2>2, <2>3, StepKept
<1>2. CASE Claim(r)
  <2>1. /\ UNCHANGED <<log, stored, obs, stop, misjudged>> /\ marker' \in 0..(MaxRuns + 1)
        /\ entered' \subseteq Runs
      BY <1>2 DEF Claim, IInv, TypeOK
  <2>2. CASE Claimable(r)
    <3>1. row' = [row EXCEPT ![r].mode = "processing"] /\ ~Locked(r)
        BY <1>2, <2>2 DEF Claim
    <3>2. \A rw \in RowType : /\ [rw EXCEPT !.mode = "processing"] \in RowType
                              /\ [rw EXCEPT !.mode = "processing"].status = rw.status
                              /\ [rw EXCEPT !.mode = "processing"].mode = "processing"
        BY DEF RowType
    <3>3. row[r] \in RowType
        BY DEF IInv, TypeOK
    <3>4. /\ [row[r] EXCEPT !.mode = "processing"] \in RowType
          /\ [row[r] EXCEPT !.mode = "processing"].status = "running"
          /\ [row[r] EXCEPT !.mode = "processing"].mode = "processing"
        BY <2>2, <3>2, <3>3 DEF Claimable, Running
    <3>5. r \notin stored => ~AnswerLogged(r)
        BY <2>2 DEF Claimable, IInv, Unsaved, Unanswered, Settled, Running
    <3>6. GoodRow(r, [row[r] EXCEPT !.mode = "processing"])
        BY <2>2, <3>4, <3>5 DEF GoodRow, FinalStep, Claimable, Running
    <3>7. Safe
        BY <3>1, <3>6, WriteGood
    <3>8. ProducersKept
      <4>1. [NoProducer EXCEPT !.pc = "claimed"] = [pc |-> "claimed", out |-> "done", next |-> 0]
          BY DEF NoProducer
      <4>2. [NoProducer EXCEPT !.pc = "claimed"] \in ProducerType
          BY <4>1, BoundsAssumption DEF ProducerType, Stages, Outcomes
      <4>3. /\ prod' = [prod EXCEPT ![r] = [NoProducer EXCEPT !.pc = "claimed"]]
            /\ stored' = stored
          BY <1>2, <2>2 DEF Claim
      <4> QED
          BY <4>1, <4>2, <4>3 DEF ProducersKept, GoodProducer, HandingOver, Ending, IInv, TypeOK
    <3> QED
        BY <2>1, <3>7, <3>8, SameLogs, StepKept
  <2>3. CASE ~Claimable(r)
      BY <1>2, <2>1, <2>3, SameRows, SameLogs, SameProducers, StepKept DEF Claim
  <2> QED
      BY <2>2, <2>3
<1>3. CASE ReapUnclaimed(r)
  <2>1. Safe
      BY <1>3, ClosedSafe DEF ReapUnclaimed, Claimable
  <2>2. /\ log' \in [Runs -> LogType]
        /\ \A q \in Runs : AnswerLogged(q)' => AnswerLogged(q)
    <3>1. \A l \in LogType : /\ Appended(l, "error") \in LogType
                             /\ "done" \in {Appended(l, "error").first, Appended(l, "error").second}
                                   => "done" \in {l.first, l.second}
        BY DEF Appended, LogType
    <3> QED
        BY <1>3, <3>1 DEF ReapUnclaimed, IInv, TypeOK, AnswerLogged
  <2>3. ProducersKept
      BY <1>3, SameProducers DEF ReapUnclaimed
  <2>4. UNCHANGED <<obs, stop, misjudged>> /\ marker' \in 0..(MaxRuns + 1) /\ entered' \subseteq Runs
      BY <1>3 DEF ReapUnclaimed, IInv, TypeOK
  <2> QED
      BY <2>1, <2>2, <2>3, <2>4, StepKept DEF LogsKept
<1> QED
    BY <1>1, <1>2, <1>3

----------------------------------------------------------------------------
(* Observers *)

\* The observer o goes on to look at the run r.
Looks(o, pc, r) ==
    /\ obs' \in [Observers -> ObserverType]
    /\ \A q \in Observers : q # o => obs'[q] = obs[q]
    /\ obs'[o].pc = pc /\ obs'[o].run = r

LEMMA ObserverGoes ==
  ASSUME IInv, NEW o \in Observers, NEW pc \in {"idle", "reap", "reaping", "append"},
         obs' = [obs EXCEPT ![o].pc = pc]
  PROVE  Looks(o, pc, obs[o].run)
BY DEF IInv, TypeOK, ObserverType, Looks

LEMMA ObserverTurns ==
  ASSUME IInv, NEW o \in Observers, NEW pc \in {"idle", "reap", "reaping", "append"},
         NEW r \in 0..MaxRuns, obs' = [obs EXCEPT ![o] = [pc |-> pc, run |-> r]]
  PROVE  Looks(o, pc, r)
BY DEF IInv, TypeOK, ObserverType, Looks

LEMMA ObserverRests ==
  ASSUME IInv, NEW o \in Observers, obs' = [obs EXCEPT ![o] = Idle]
  PROVE  Looks(o, "idle", 0)
<1>1. obs' = [obs EXCEPT ![o] = [pc |-> "idle", run |-> 0]] /\ 0 \in 0..MaxRuns
    BY BoundsAssumption DEF Idle
<1> QED
    BY <1>1, ObserverTurns

\* An observer that does not begin to reap, with rows written that nobody holds.
LEMMA LookingKept ==
  ASSUME IInv, NEW o \in Observers, NEW pc, NEW r, Looks(o, pc, r),
         pc # "reaping", pc # "idle" => r \in Runs,
         Safe, LogsKept, UNCHANGED <<marker, entered, prod, stored, stop, misjudged>>
  PROVE  Preserved /\ Good
<1>1. Holding'
    BY DEF IInv, Holding, Looks, Safe, Unlocked, Locked, Running
<1>2. /\ obs' \in [Observers -> ObserverType] /\ marker' \in 0..(MaxRuns + 1)
      /\ entered' \subseteq Runs /\ stop' \in StopType /\ misjudged' \in BOOLEAN
    BY DEF Looks, IInv, TypeOK
<1> QED
    BY <1>1, <1>2, SameProducers, Kept DEF Preserved, Safe

LEMMA ObserveStep ==
  ASSUME IInv, NEW o \in Observers, NEW r \in Runs, Observe(o, r)
  PROVE  Preserved /\ Good
<1>1. Safe
    BY ReconciledGood, WriteGood DEF Observe
<1>2. LogsKept /\ UNCHANGED <<marker, entered, prod, stored, stop, misjudged>>
    BY SameLogs DEF Observe
<1>3. r \in 0..MaxRuns
    BY BoundsAssumption DEF Runs
<1>4. CASE obs' = [obs EXCEPT ![o] = [pc |-> "reap", run |-> r]]
  <2>1. Looks(o, "reap", r)
      BY <1>3, <1>4, ObserverTurns
  <2> QED
      BY <1>1, <1>2, <2>1, LookingKept
<1>5. CASE obs' = obs
  <2>1. marker' \in 0..(MaxRuns + 1) /\ entered' \subseteq Runs
      BY <1>2 DEF IInv, TypeOK
  <2> QED
      BY <1>1, <1>2, <1>5, <2>1, SameProducers, StepKept
<1> QED
    BY <1>4, <1>5 DEF Observe, IInv, TypeOK

LEMMA ReapStep ==
  ASSUME IInv, NEW o \in Observers, Reap(o)
  PROVE  Preserved /\ Good
<1>1. UNCHANGED <<row, log, marker, entered, prod, stored, stop, misjudged>>
    BY DEF Reap, rows
<1>2. Looks(o, "reaping", obs[o].run)
    BY ObserverGoes DEF Reap
<1>3. obs[o].run \in Runs /\ Running(obs[o].run) /\ ~Locked(obs[o].run)
    BY DEF IInv, Holding, Reap, Reapable
<1>4. Holding'
    BY <1>1, <1>2, <1>3 DEF IInv, Holding, Looks, Locked, Running
<1>5. /\ obs' \in [Observers -> ObserverType] /\ marker' \in 0..(MaxRuns + 1)
      /\ entered' \subseteq Runs /\ stop' \in StopType /\ misjudged' \in BOOLEAN
    BY <1>1, <1>2 DEF Looks, IInv, TypeOK
<1> QED
    BY <1>1, <1>4, <1>5, SameRows, SameLogs, SameProducers, Kept DEF Preserved, Safe

LEMMA MissStep ==
  ASSUME IInv, NEW o \in Observers, Miss(o)
  PROVE  Preserved /\ Good
<1>1. obs[o].run \in Runs /\ ~Locked(obs[o].run)
    BY DEF IInv, Holding, Miss
<1>2. LogsKept /\ UNCHANGED <<marker, entered, prod, stored, stop, misjudged>>
    BY SameLogs DEF Miss
<1>3. Safe
    BY <1>1, ReconciledGood, WriteGood, SameRows DEF Miss
<1>4. Looks(o, "append", obs[o].run) \/ Looks(o, "idle", 0)
  <2>1. CASE obs' = [obs EXCEPT ![o].pc = "append"]
      BY <2>1, ObserverGoes
  <2>2. CASE obs' = [obs EXCEPT ![o] = Idle]
      BY <2>2, ObserverRests
  <2> QED
      BY <2>1, <2>2 DEF Miss
<1> QED
    BY <1>1, <1>2, <1>3, <1>4, LookingKept

LEMMA AppendStep ==
  ASSUME IInv, NEW o \in Observers, Append(o)
  PROVE  Preserved /\ Good
<1>1. Safe /\ UNCHANGED <<marker, entered, prod, stored, stop, misjudged>>
    BY SameRows DEF Append
<1>2. Looks(o, "idle", 0)
    BY ObserverRests DEF Append
<1>3. \A l \in LogType : /\ Appended(l, "stale") \in LogType
                         /\ "done" \in {Appended(l, "stale").first, Appended(l, "stale").second}
                               => "done" \in {l.first, l.second}
    BY DEF Appended, LogType
<1>4. obs[o].run \in Runs
    BY DEF Append, IInv, Holding
<1>5. LogsKept
    BY <1>3, <1>4 DEF Append, IInv, TypeOK, AnswerLogged, LogsKept
<1> QED
    BY <1>1, <1>2, <1>5, LookingKept

LEMMA CommitStep ==
  ASSUME IInv, NEW o \in Observers, Commit(o)
  PROVE  /\ Preserved
         /\ \/ Good
            \/ Grown /\ ~Exhausted /\ \A s \in Rows : s <= obs[o].run
         /\ row'[obs[o].run].status = "errored"
<1> DEFINE r == obs[o].run
           closed == Written(r, "errored", "stale", "final")
<1>1. r \in Runs /\ Running(r)
    BY DEF Commit, IInv, Holding
<1>2. /\ closed \in [Runs -> RowType]
      /\ \A q \in Runs : q # r => closed[q] = row[q]
      /\ closed[r].status = "errored" /\ closed[r].code = "stale"
      /\ closed[r].mode = row[r].mode
    BY <1>1, WrittenRow DEF IInv
<1>3. GoodRow(r, closed[r])
  <2>1. r \notin stored => ~AnswerLogged(r)
      BY <1>1 DEF IInv, Unsaved, Unanswered, Settled, Running
  <2> QED
      BY <1>1, <1>2, <2>1 DEF GoodRow, FinalStep, Running
<1>4. row' = closed \/ (Fresh \in Runs /\ row' = [closed EXCEPT ![Fresh] = NewRow])
    BY DEF Commit
<1>5. NewRow \in RowType /\ (Fresh \in Runs => row[Fresh].status = "none")
    BY FreshRow DEF NewRow, RowType, IInv, Rows
<1>12. row' = closed \/ (~Exhausted /\ \A s \in Rows : s <= r)
    BY DEF Commit, Recoverable
<1> HIDE DEF closed, r
<1>6. /\ Good \/ (Grown /\ ~Exhausted /\ \A s \in Rows : s <= r)
      /\ row'[r].status = "errored"
    BY <1>1, <1>2, <1>3, <1>4, <1>5, <1>12 DEF Good, Grown, Running
<1>7. \A q \in Runs : q # r /\ Running(q) => row'[q] = row[q]
    BY <1>2, <1>4, <1>5 DEF Running
<1>8. Looks(o, "append", r)
    BY ObserverGoes DEF Commit, r
<1>9. Holding'
    BY <1>1, <1>7, <1>8 DEF Commit, IInv, Holding, Looks, Running, r
<1>10. UNCHANGED <<log, marker, entered, prod, stored, stop>> /\ misjudged' \in BOOLEAN
    BY DEF Commit, IInv, TypeOK, Alive
<1>11. /\ obs' \in [Observers -> ObserverType] /\ marker' \in 0..(MaxRuns + 1)
       /\ entered' \subseteq Runs /\ stop' \in StopType
    BY <1>8, <1>10 DEF Looks, IInv, TypeOK
<1> QED
    BY <1>6, <1>9, <1>10, <1>11, SameLogs, SameProducers, Kept DEF Preserved, r

----------------------------------------------------------------------------
(* The stop *)

LEMMA StopTheTurnStep ==
  ASSUME IInv, StopTheTurn
  PROVE  Preserved /\ Good
<1>1. UNCHANGED <<row, log, marker, entered, stored, obs, misjudged>>
    BY DEF StopTheTurn, rows
<1>2. stop' \in StopType
    BY DEF StopTheTurn, IInv, TypeOK, StopType
<1>3. ProducersKept
  <2>1. \A p \in ProducerType : [p EXCEPT !.pc = "store", !.out = "aborted"] \in ProducerType
      BY DEF ProducerType, Stages, Outcomes
  <2>2. \A p \in ProducerType : [p EXCEPT !.pc = "store", !.out = "aborted"].pc = "store"
      BY DEF ProducerType
  <2>3. PICK local \in SUBSET Runs :
          prod' = [r \in Runs |-> IF r \in local
                      THEN [prod[r] EXCEPT !.pc = "store", !.out = "aborted"] ELSE prod[r]]
      BY DEF StopTheTurn
  <2>4. \A r \in Runs : prod'[r] = prod[r] \/ prod'[r].pc = "store"
      BY <2>2, <2>3 DEF IInv, TypeOK
  <2>5. prod' \in [Runs -> ProducerType]
      BY <2>1, <2>3 DEF IInv, TypeOK
  <2> QED
      BY <1>1, <2>4, <2>5 DEF ProducersKept, GoodProducer, HandingOver, Ending, IInv, TypeOK
<1>4. Holding'
    BY <1>1 DEF IInv, Holding, Running
<1>5. /\ obs' \in [Observers -> ObserverType] /\ marker' \in 0..(MaxRuns + 1)
      /\ entered' \subseteq Runs /\ misjudged' \in BOOLEAN
    BY <1>1 DEF IInv, TypeOK
<1> QED
    BY <1>1, <1>2, <1>3, <1>4, <1>5, SameRows, SameLogs, Kept DEF Preserved, Safe

LEMMA DecideStep ==
  ASSUME IInv, NEW S \in SUBSET Runs, Decide(S), UNCHANGED <<entered, prod, stored, obs, misjudged>>
  PROVE  Preserved /\ Good
<1>1. Safe /\ LogsKept
  <2>1. CASE UNCHANGED <<row, log>>
      BY <2>1, SameRows, SameLogs
  <2>2. CASE AbortingAndLogging(Runs, S) /\ \A r \in Runs : ~Locked(r)
      BY <2>2, AbortingLogs
  <2> QED
      BY <2>1, <2>2 DEF Decide, rows
<1>2. marker' \in 0..(MaxRuns + 1)
    BY FreshRow, BoundsAssumption DEF Decide, rows, IInv, TypeOK
<1>3. stop' \in StopType
    BY DEF Decide, StopType
<1>4. Holding'
    BY <1>1, HoldingKept DEF Safe
<1>5. obs' \in [Observers -> ObserverType] /\ entered' \subseteq Runs /\ misjudged' \in BOOLEAN
    BY DEF IInv, TypeOK
<1> QED
    BY <1>1, <1>2, <1>3, <1>4, <1>5, SameProducers, Kept DEF Preserved, Safe

LEMMA StopSteps ==
  ASSUME IInv, StopSelects \/ StopHasWaited
  PROVE  Preserved /\ Good
<1>1. CASE StopHasWaited
  <2>1. stop.of \in SUBSET Runs
      BY DEF IInv, TypeOK, StopType
  <2> QED
      BY <1>1, <2>1, DecideStep DEF StopHasWaited
<1>2. CASE StopSelects
  <2> DEFINE S == {r \in Runs : Running(r)}
  <2>1. CASE Decide(S)
      BY <1>2, <2>1, DecideStep DEF StopSelects
  <2>2. CASE stop' = [pc |-> "wait", of |-> S] /\ UNCHANGED rows
    <3>1. UNCHANGED <<row, log, marker, entered, prod, stored, obs, misjudged>>
        BY <1>2, <2>2 DEF StopSelects, rows
    <3>2. stop' \in StopType
        BY <2>2 DEF StopType
    <3>3. Holding'
        BY <3>1 DEF IInv, Holding, Running
    <3>4. /\ obs' \in [Observers -> ObserverType] /\ marker' \in 0..(MaxRuns + 1)
          /\ entered' \subseteq Runs /\ misjudged' \in BOOLEAN
        BY <3>1 DEF IInv, TypeOK
    <3> QED
        BY <3>1, <3>2, <3>3, <3>4, SameRows, SameLogs, SameProducers, Kept DEF Preserved, Safe
  <2> QED
      BY <1>2, <2>1, <2>2 DEF StopSelects
<1> QED
    BY <1>1, <1>2

----------------------------------------------------------------------------
(* Types, saved answers and decided rows *)

LEMMA InitKept == Init => IInv
<1> SUFFICES ASSUME Init  PROVE IInv
    OBVIOUS
<1>1. /\ NoRow \in RowType /\ NoRow.status = "none"
      /\ EmptyLog \in LogType /\ "done" \notin {EmptyLog.first, EmptyLog.second}
    BY DEF NoRow, RowType, EmptyLog, LogType
<1>2. NoProducer \in ProducerType /\ NoProducer.pc = "none"
    BY BoundsAssumption DEF NoProducer, ProducerType, Stages, Outcomes
<1>3. Idle \in ObserverType /\ Idle.pc = "idle"
    BY BoundsAssumption DEF Idle, ObserverType
<1>4. TypeOK
  <2>1. row \in [Runs -> RowType] /\ log \in [Runs -> LogType]
      BY <1>1 DEF Init
  <2>2. prod \in [Runs -> ProducerType]
      BY <1>2 DEF Init
  <2>3. obs \in [Observers -> ObserverType]
      BY <1>3 DEF Init
  <2>4. stop \in StopType
      BY DEF Init, StopType
  <2>5. marker \in 0..(MaxRuns + 1)
      BY BoundsAssumption DEF Init
  <2> QED
      BY <2>1, <2>2, <2>3, <2>4, <2>5 DEF Init, TypeOK
<1>5. Contiguous
  <2>1. Rows = {}
      BY <1>1 DEF Init, Rows
  <2>2. 0 \in 0..MaxRuns /\ 1..0 = {}
      BY BoundsAssumption
  <2> QED
      BY <2>1, <2>2 DEF Contiguous
<1>6. Holding /\ Unsaved /\ Silent
    BY <1>1, <1>2, <1>3 DEF Init, Holding, Unsaved, Unanswered, AnswerLogged, Silent, HandingOver, Ending
<1> QED
    BY <1>4, <1>5, <1>6 DEF IInv

LEMMA StepPreserves ==
  ASSUME IInv, [Next]_vars
  PROVE  Preserved
<1>1. CASE UNCHANGED vars
  <2>1. Safe /\ LogsKept /\ ProducersKept
      BY <1>1, SameRows, SameLogs, SameProducers DEF vars, rows
  <2>2. /\ UNCHANGED <<obs, stop, misjudged>>
        /\ marker' \in 0..(MaxRuns + 1) /\ entered' \subseteq Runs
      BY <1>1 DEF vars, rows, IInv, TypeOK
  <2> QED
      BY <2>1, <2>2, StepKept
<1>2. CASE Post
    BY <1>2, PostStep
<1>3. CASE StopTheTurn \/ StopSelects \/ StopHasWaited
    BY <1>3, StopTheTurnStep, StopSteps
<1>4. ASSUME NEW r \in Runs, Deliver(r) \/ Claim(r) \/ ReapUnclaimed(r) \/ Produce(r) \/ Crash(r)
      PROVE  Preserved
    BY <1>4, DispatchSteps, QuietSteps, LookingSteps, WritingSteps, LoggingSteps, InsertStep DEF Produce
<1>5. ASSUME NEW o \in Observers, Watch(o) \/ \E r \in Runs : Observe(o, r)
      PROVE  Preserved
    BY <1>5, ObserveStep, ReapStep, MissStep, CommitStep, AppendStep DEF Watch
<1> QED
    BY <1>1, <1>2, <1>3, <1>4, <1>5 DEF Next

LEMMA Invariance == Spec => []IInv
<1>1. IInv /\ [Next]_vars => IInv'
    BY StepPreserves DEF Preserved
<1> QED
    BY <1>1, InitKept, PTL DEF Spec

\* Every variable keeps its type, for any budget, cap and number of observers.
THEOREM TypeCorrect == Spec => []TypeOK
<1>1. IInv => TypeOK
    BY DEF IInv
<1> QED
    BY <1>1, Invariance, PTL

\* A row says completed only when the answer is in thread_data, whichever of
\* the producer, the handing over, a poll or a sweep wrote it.
THEOREM SavedBeforeCompleted == Spec => []CompletedIsStored
<1>1. IInv => CompletedIsStored
    BY DEF IInv, Unsaved, Unanswered, CompletedIsStored
<1> QED
    BY <1>1, Invariance, PTL

\* No process ever revives or rewrites a run that ended, but for the corrections
\* StatusFinal names.
THEOREM DecidedStays == Spec => StatusFinal
<1>1. IInv /\ [Next]_vars =>
        [\A r \in Runs :
          LET old == row[r].status  new == row'[r].status IN
          /\ old \notin {"none", "running"} /\ new # old
             => \/ old = "completed" /\ new = "truncated"
                \/ Stale(r) /\ new \in {"completed", "truncated", "errored"}
          /\ old # "none" => new # "none"]_vars
    BY StepPreserves DEF Preserved, FinalStep
<1> QED
    BY <1>1, Invariance, PTL DEF Spec, StatusFinal

----------------------------------------------------------------------------
(* One producer at a time *)

Leading == {"claimed", "work", "mark", "store", "count", "insert"}

\* The run r may still work on the turn, or hand it over.
Ahead(r) == prod[r].pc \in Leading \/ Claimable(r)

\* A row with a producer, dead or alive, cannot be claimed again.
Claimed ==
    \A r \in Runs : prod[r].pc # "none" => row[r].status # "none" /\ row[r].mode # "background"

\* Only the latest run of the turn is ahead.
Foremost == ~misjudged => \A r \in Runs : Ahead(r) => \A s \in Rows : s <= r

TurnInv == IInv /\ Claimed /\ Foremost

\* Producers begin with a claim and never go back.
OnlyForward ==
    \A r \in Runs :
        /\ prod'[r].pc \in Leading => Ahead(r)
        /\ prod'[r].pc # "none" =>
              \/ prod[r].pc # "none"
              \/ row'[r].status # "none" /\ row'[r].mode # "background"

LEMMA ForwardKept ==
  ASSUME TurnInv, Good, OnlyForward, misjudged => misjudged'
  PROVE  Claimed' /\ Foremost'
<1>1. Rows' = Rows
    BY DEF Good, GoodRow, Rows
<1>2. \A r \in Runs : row'[r].mode \in {row[r].mode, "processing"}
    BY DEF Good, GoodRow
<1>3. \A r \in Runs : row'[r].status = "running" => row[r].status = "running"
    BY DEF Good, GoodRow, FinalStep
<1>4. \A r \in Runs : Claimable(r)' => Claimable(r)
    BY <1>2, <1>3 DEF Claimable, Running
<1>5. \A r \in Runs : Ahead(r)' => Ahead(r)
    BY <1>4 DEF Ahead, OnlyForward
<1>6. Foremost'
    BY <1>1, <1>5 DEF TurnInv, Foremost
<1>7. Claimed'
    BY <1>1, <1>2 DEF TurnInv, Claimed, OnlyForward, Rows
<1> QED
    BY <1>6, <1>7

\* The producers do not move.
LEMMA StandStill ==
  ASSUME TurnInv, prod' = prod
  PROVE  OnlyForward
BY DEF OnlyForward, Ahead

LEMMA ForwardSteps ==
  ASSUME TurnInv, NEW r \in Runs,
         \/ Notice(r) \/ Store(r) \/ StoreFails(r) \/ Dispatch(r) \/ Crash(r)
         \/ \E out \in {"done", "error", "continue"} : Conclude(r, out)
         \/ Begin(r) \/ CountRows(r) \/ Relook(r)
         \/ MarkBoundary(r) \/ StopTurn(r) \/ Defer(r) \/ ChainFails(r)
         \/ Hand(r) \/ HandReason(r) \/ Close(r)
         \/ Checkpoint(r) \/ Emit(r)
  PROVE  OnlyForward
<1>1. prod \in [Runs -> ProducerType] /\ prod[r] \in ProducerType
    BY DEF TurnInv, IInv, TypeOK
<1>2. Over.pc = "gone"
    BY DEF Over, NoProducer
<1>3. SUFFICES /\ prod[r].pc # "none"
               /\ \A q \in Runs : q # r => prod'[q] = prod[q]
               /\ prod'[r].pc \in Leading => prod[r].pc \in Leading
    BY <1>1 DEF OnlyForward, Ahead
<1> USE DEF At, Go, GoWith, Leading
<1>4. CASE Notice(r) \/ StoreFails(r) \/ \E out \in {"done", "error", "continue"} : Conclude(r, out)
    BY <1>1, <1>4 DEF Notice, StoreFails, Conclude
<1>5. CASE Store(r)
    BY <1>1, <1>5 DEF Store
<1>6. CASE Crash(r) \/ Close(r)
    BY <1>1, <1>2, <1>6 DEF Crash, Alive, Close
<1>7. CASE Begin(r)
    BY <1>1, <1>2, <1>7 DEF Begin
<1>8. CASE CountRows(r) \/ MarkBoundary(r) \/ StopTurn(r) \/ Checkpoint(r)
    BY <1>1, <1>8 DEF CountRows, MarkBoundary, StopTurn, Checkpoint
<1>9. ASSUME NEW pc \in {"hand", "emit"}, prod[r].pc \in {"insert", "relook", "dispatch"},
             prod' = [prod EXCEPT ![r].pc = pc, ![r].next = 0]
      PROVE  /\ prod[r].pc # "none"
             /\ \A q \in Runs : q # r => prod'[q] = prod[q]
             /\ prod'[r].pc \in Leading => prod[r].pc \in Leading
  <2>1. /\ prod'[r].pc = pc
        /\ \A q \in Runs : q # r => prod'[q] = prod[q]
      BY <1>1, <1>9 DEF ProducerType
  <2> QED
      BY <1>9, <2>1
<1>10. CASE Relook(r) \/ Dispatch(r) \/ Defer(r) \/ ChainFails(r)
  <2>1. prod[r].pc \in {"insert", "relook", "dispatch"}
      BY <1>10 DEF Relook, Dispatch, Defer, ChainFails
  <2>2. CASE Go(r, "dispatch")
      BY <1>1, <2>1, <2>2
  <2>3. CASE \E pc \in {"hand", "emit"} : prod' = [prod EXCEPT ![r].pc = pc, ![r].next = 0]
      BY <1>9, <2>1, <2>3
  <2> QED
      BY <1>10, <2>2, <2>3 DEF Relook, Dispatch, Defer, ChainFails
<1>11. CASE Hand(r) \/ HandReason(r) \/ Emit(r)
  <2>1. PICK pc \in {"handreason", "emit", "close"} : Go(r, pc)
      BY <1>11 DEF Hand, HandReason, Emit
  <2>2. prod[r].pc \in {"hand", "handreason", "emit"}
      BY <1>11 DEF Hand, HandReason, Emit
  <2> QED
      BY <1>1, <2>1, <2>2
<1> QED
    BY <1>4, <1>5, <1>6, <1>7, <1>8, <1>10, <1>11

LEMMA ClaimForward ==
  ASSUME TurnInv, NEW r \in Runs, Claim(r)
  PROVE  OnlyForward
<1>1. CASE Claimable(r)
  <2>1. /\ prod' = [prod EXCEPT ![r] = [NoProducer EXCEPT !.pc = "claimed"]]
        /\ row' = [row EXCEPT ![r].mode = "processing"]
      BY <1>1 DEF Claim
  <2>2. /\ prod \in [Runs -> ProducerType]
        /\ row \in [Runs -> RowType] /\ row[r] \in RowType
      BY DEF TurnInv, IInv, TypeOK
  <2>3. row'[r].mode = "processing" /\ row'[r].status = row[r].status
      BY <2>1, <2>2 DEF RowType
  <2>4. \A q \in Runs : q # r => prod'[q] = prod[q]
      BY <2>1, <2>2
  <2> QED
      BY <1>1, <2>3, <2>4 DEF OnlyForward, Ahead, Claimable, Running
<1>2. CASE ~Claimable(r)
    BY <1>2, StandStill DEF Claim
<1> QED
    BY <1>1, <1>2

LEMMA StopForward ==
  ASSUME TurnInv, StopTheTurn
  PROVE  OnlyForward
<1>1. PICK local \in SUBSET {r \in Runs : At(r, "work")} :
        prod' = [r \in Runs |-> IF r \in local
                    THEN [prod[r] EXCEPT !.pc = "store", !.out = "aborted"] ELSE prod[r]]
    BY DEF StopTheTurn
<1>2. \A r \in Runs : r \in local => prod[r].pc = "work"
    BY DEF At
<1>3. \A r \in Runs : r \notin local => prod'[r] = prod[r]
    BY <1>1
<1> QED
    BY <1>2, <1>3 DEF OnlyForward, Ahead, Leading

\* What a new row needs: the latest run, if it may still work, lets go of it.
LEMMA GrownKept ==
  ASSUME TurnInv, Grown, misjudged => misjudged',
         \A r \in Runs : prod'[r] = prod[r] \/ (prod[r].pc # "none" /\ prod'[r].pc \notin Leading),
         ~misjudged' => \A r \in Runs : r # Fresh => ~Ahead(r)'
  PROVE  Claimed' /\ Foremost'
<1>1. /\ Rows = 1..(Fresh - 1) /\ Fresh \in 1..(MaxRuns + 1) /\ Fresh \notin Rows
    BY FreshRow DEF TurnInv, IInv
<1>2. row[Fresh].status = "none" /\ row'[Fresh] = NewRow /\ Fresh \in Runs
    BY <1>1 DEF Grown, Rows
<1>3. Claimed'
  <2>1. prod'[Fresh].pc = "none"
      BY <1>2 DEF TurnInv, Claimed
  <2>2. ASSUME NEW r \in Runs, r # Fresh, prod'[r].pc # "none"
        PROVE  row'[r].status # "none" /\ row'[r].mode # "background"
    <3>1. prod[r].pc # "none"
        BY <2>2
    <3>2. row[r].status # "none" /\ row[r].mode # "background"
        BY <3>1 DEF TurnInv, Claimed
    <3> QED
        BY <2>2, <3>2 DEF Grown, GoodRow
  <2> QED
      BY <2>1, <2>2 DEF Claimed
<1>4. \A r \in Rows' : r <= Fresh
  <2>1. Rows' \subseteq Rows \cup {Fresh}
      BY <1>2 DEF Rows, Grown, GoodRow
  <2> QED
      BY <1>1, <2>1, BoundsAssumption
<1>5. Foremost'
    BY <1>4 DEF Foremost
<1> QED
    BY <1>3, <1>5

LEMMA InsertForward ==
  ASSUME TurnInv, NEW r \in Runs, Insert(r)
  PROVE  Claimed' /\ Foremost'
<1>1. Grown /\ misjudged' = misjudged
    BY RowAdded DEF Insert, TurnInv
<1>2. /\ prod[r].pc = "insert" /\ prod'[r].pc = "relook"
      /\ \A q \in Runs : q # r => prod'[q] = prod[q]
  <2>1. /\ prod \in [Runs -> ProducerType]
        /\ prod' = [prod EXCEPT ![r].pc = "relook", ![r].next = Fresh]
      BY DEF TurnInv, IInv, TypeOK, Insert
  <2> QED
      BY <2>1 DEF Insert, At, ProducerType
<1>3. row[r].status # "none" /\ row[r].mode # "background"
    BY <1>2 DEF TurnInv, Claimed
<1>4. ASSUME NEW q \in Runs, q # Fresh, Ahead(q)', ~misjudged
      PROVE  FALSE
  <2>1. row'[q] = row[q]
    <3>1. row' = [row EXCEPT ![Fresh] = NewRow]
        BY DEF Insert
    <3> QED
        BY <1>4, <3>1 DEF TurnInv, IInv, TypeOK
  <2>2. q # r
      BY <1>2, <1>3, <1>4, <2>1 DEF Ahead, Leading, Claimable
  <2>3. Ahead(q)
      BY <1>2, <1>4, <2>1, <2>2 DEF Ahead, Claimable, Running
  <2>4. q \in Rows /\ r \in Rows
      BY <1>3, <2>3 DEF Rows, Ahead, Leading, Claimable, Running, TurnInv, Claimed
  <2>5. r <= q /\ q <= r
      BY <1>2, <1>4, <2>3, <2>4 DEF TurnInv, Foremost, Ahead, Leading
  <2> QED
      BY <2>2, <2>5 DEF Runs
<1> QED
    BY <1>1, <1>2, <1>4, GrownKept DEF Leading

LEMMA PostForward ==
  ASSUME TurnInv, Post
  PROVE  Claimed' /\ Foremost'
<1>1. Rows = {} /\ Fresh \in 1..(MaxRuns + 1) /\ Rows = 1..(Fresh - 1)
    BY FreshRow DEF TurnInv, IInv, Post
<1>2. Fresh = 1 /\ Fresh \in Runs
    BY <1>1, BoundsAssumption DEF Runs
<1>3. Grown /\ misjudged' = misjudged /\ prod' = prod /\ row' = [row EXCEPT ![Fresh] = NewRow]
    BY <1>2, RowAdded DEF Post, TurnInv
<1>4. ASSUME NEW q \in Runs, q # Fresh, Ahead(q)'
      PROVE  FALSE
  <2>1. row'[q] = row[q]
      BY <1>3, <1>4 DEF TurnInv, IInv, TypeOK
  <2>2. q \in Rows
      BY <1>3, <1>4, <2>1 DEF Rows, Ahead, Leading, Claimable, Running, TurnInv, Claimed
  <2> QED
      BY <1>1, <2>2
<1> QED
    BY <1>3, <1>4, GrownKept

LEMMA CommitForward ==
  ASSUME TurnInv, NEW o \in Observers, Commit(o)
  PROVE  Claimed' /\ Foremost'
<1> DEFINE r == obs[o].run
<1>1. /\ Good \/ (Grown /\ \A s \in Rows : s <= r)
      /\ row'[r].status = "errored"
    BY CommitStep DEF TurnInv
<1>2. prod' = prod /\ (misjudged => misjudged') /\ (~misjudged' => ~Alive(r))
    BY DEF Commit
<1>3. r \in Runs /\ r \in Rows
    BY DEF Commit, TurnInv, IInv, Holding, Running, Rows
<1> HIDE DEF r
<1>4. ASSUME Grown, \A s \in Rows : s <= r, NEW q \in Runs, q # Fresh, Ahead(q)', ~misjudged'
      PROVE  FALSE
  <2>1. q # r
      BY <1>1, <1>2, <1>4 DEF Ahead, Leading, Claimable, Running, Alive
  <2>2. row'[q] = row[q] \/ GoodRow(q, row'[q])
      BY <1>4 DEF Grown
  <2>3. Ahead(q)
      BY <1>2, <1>4, <2>2 DEF Ahead, Claimable, Running, GoodRow, FinalStep
  <2>4. q \in Rows
      BY <2>3 DEF Rows, Ahead, Leading, Claimable, Running, TurnInv, Claimed
  <2>5. r <= q /\ q <= r
      BY <1>2, <1>3, <1>4, <2>3, <2>4 DEF TurnInv, Foremost
  <2> QED
      BY <1>3, <2>1, <2>5 DEF Runs
<1> QED
    BY <1>1, <1>2, <1>4, GrownKept, ForwardKept, StandStill

LEMMA TurnStep ==
  ASSUME TurnInv, [Next]_vars
  PROVE  TurnInv'
<1>1. IInv'
    BY StepPreserves DEF TurnInv, Preserved
<1>2. CASE UNCHANGED vars
  <2>1. Good /\ OnlyForward /\ misjudged' = misjudged
      BY <1>2, SameRows, StandStill DEF vars, rows, TurnInv, Safe
  <2> QED
      BY <1>1, <2>1, ForwardKept DEF TurnInv
<1>3. CASE Post
    BY <1>1, <1>3, PostForward DEF TurnInv
<1>4. CASE StopTheTurn \/ StopSelects \/ StopHasWaited
  <2>1. Good /\ misjudged' = misjudged
      BY <1>4, StopTheTurnStep, StopSteps DEF TurnInv, StopTheTurn, StopSelects, StopHasWaited
  <2>2. OnlyForward
      BY <1>4, StopForward, StandStill DEF StopSelects, StopHasWaited
  <2> QED
      BY <1>1, <2>1, <2>2, ForwardKept DEF TurnInv
<1>5. ASSUME NEW r \in Runs, Deliver(r) \/ Claim(r) \/ ReapUnclaimed(r)
      PROVE  TurnInv'
  <2>1. Good /\ misjudged' = misjudged
      BY <1>5, DispatchSteps DEF TurnInv, Deliver, Claim, ReapUnclaimed
  <2>2. OnlyForward
      BY <1>5, ClaimForward, StandStill DEF Deliver, ReapUnclaimed
  <2> QED
      BY <1>1, <2>1, <2>2, ForwardKept DEF TurnInv
<1>6. ASSUME NEW r \in Runs, Produce(r) \/ Crash(r), ~Insert(r)
      PROVE  TurnInv'
  <2>1. OnlyForward
      BY <1>6, ForwardSteps DEF Produce
  <2>2. Good
      BY <1>6, QuietSteps, LookingSteps, WritingSteps, LoggingSteps DEF TurnInv, Produce
  <2>3. misjudged' = misjudged
      BY <1>6 DEF Produce, Begin, Notice, Checkpoint, MarkBoundary, Conclude, Store, StoreFails,
                  CountRows, StopTurn, Relook, Dispatch, Defer, ChainFails, Hand, HandReason,
                  Emit, Close, Crash
  <2> QED
      BY <1>1, <2>1, <2>2, <2>3, ForwardKept DEF TurnInv
<1>7. ASSUME NEW r \in Runs, Insert(r)
      PROVE  TurnInv'
    BY <1>1, <1>7, InsertForward DEF TurnInv
<1>8. ASSUME NEW o \in Observers, Watch(o) \/ \E r \in Runs : Observe(o, r), ~Commit(o)
      PROVE  TurnInv'
  <2>1. Good /\ misjudged' = misjudged /\ prod' = prod
      BY <1>8, ObserveStep, ReapStep, MissStep, AppendStep
      DEF TurnInv, Watch, Observe, Reap, Miss, Append
  <2> QED
      BY <1>1, <2>1, StandStill, ForwardKept DEF TurnInv
<1>9. ASSUME NEW o \in Observers, Commit(o)
      PROVE  TurnInv'
    BY <1>1, <1>9, CommitForward DEF TurnInv
<1> QED
    BY <1>2, <1>3, <1>4, <1>5, <1>6, <1>7, <1>8, <1>9 DEF Next, Produce, Watch

\* As long as no live producer was taken for dead, a turn has one agent at work:
\* the producer of its latest run, whatever crashed, was reaped or handed over.
THEOREM OneAtWork == Spec => []OneProducer
<1>1. Init => TurnInv
  <2> SUFFICES ASSUME Init  PROVE TurnInv
      OBVIOUS
  <2>1. \A r \in Runs : row[r].status = "none" /\ prod[r].pc = "none"
      BY DEF Init, NoRow, NoProducer
  <2> QED
      BY <2>1, InitKept DEF TurnInv, Claimed, Foremost, Ahead, Leading, Claimable, Running
<1>2. TurnInv /\ [Next]_vars => TurnInv'
    BY TurnStep
<1>3. TurnInv => OneProducer
  <2> SUFFICES ASSUME TurnInv, ~misjudged, NEW r \in Runs, NEW s \in Runs,
                      At(r, "work"), At(s, "work")
               PROVE  r = s
      BY DEF OneProducer
  <2>1. r \in Rows /\ s \in Rows /\ Ahead(r) /\ Ahead(s)
      BY DEF TurnInv, Claimed, Rows, At, Ahead, Leading
  <2>2. r <= s /\ s <= r
      BY <2>1 DEF TurnInv, Foremost
  <2> QED
      BY <2>2 DEF Runs
<1> QED
    BY <1>1, <1>2, <1>3, PTL DEF Spec

----------------------------------------------------------------------------
(* The budget *)

BudgetInv == TurnInv /\ WithinBudget

Room == Cardinality(Rows) < Budget

LEMMA RowsCount ==
  ASSUME IInv
  PROVE  /\ Cardinality(Rows) \in Nat /\ Fresh = Cardinality(Rows) + 1
         /\ ~Exhausted => Room
         /\ Grown => Cardinality(Rows)' = Cardinality(Rows) + 1
<1>1. \A n \in Nat : Cardinality(1..n) = n
  <2> SUFFICES ASSUME NEW n \in Nat PROVE Cardinality(1..n) = n
      OBVIOUS
  <2>1. Cardinality(1..n) = IF 1 > n THEN 0 ELSE n - 1 + 1
      BY FS_Interval
  <2> QED
      BY <2>1
<1>2. Fresh \in 1..(MaxRuns + 1) /\ Rows = 1..(Fresh - 1) /\ Fresh \notin Rows
    BY FreshRow DEF IInv
<1>3. Fresh \in Nat /\ Fresh - 1 \in Nat
    BY <1>2, BoundsAssumption
<1>4. Cardinality(Rows) = Fresh - 1
    BY <1>1, <1>2, <1>3
<1>5. ~Exhausted => Room
    BY <1>3, <1>4, BoundsAssumption DEF Exhausted, RowsOfTurn, Room
<1>6. ASSUME Grown PROVE Cardinality(Rows)' = Fresh
  <2>1. row'[Fresh].status # "none" /\ Fresh \in Runs
      BY <1>6 DEF Grown, NewRow
  <2>2. \A r \in Runs : r # Fresh => (row'[r].status # "none" <=> row[r].status # "none")
      BY <1>6 DEF Grown, GoodRow
  <2>3. Rows' = Rows \cup {Fresh}
      BY <2>1, <2>2 DEF Rows
  <2>4. Rows' = 1..Fresh
      BY <1>2, <1>3, <2>3
  <2> QED
      BY <1>1, <1>3, <2>4
<1> QED
    BY <1>3, <1>4, <1>5, <1>6

\* A producer comes to an insert only when it has counted a row left.
ToInsert == \A r \in Runs : At(r, "insert")' => At(r, "insert") \/ Room

\* A step without a new row.
LEMMA SameBudget ==
  ASSUME BudgetInv, Good, ToInsert, misjudged => misjudged'
  PROVE  WithinBudget'
<1>1. Rows' = Rows
    BY DEF Good, GoodRow, Rows
<1> QED
    BY <1>1 DEF BudgetInv, WithinBudget, ToInsert, Room

\* A step with a new row: it fits, and no producer has counted without it.
LEMMA GrownBudget ==
  ASSUME BudgetInv, TurnInv', Grown, misjudged => misjudged',
         ~misjudged' => Room \/ Rows = {},
         \A r \in Runs : At(r, "insert")' => prod[r].pc # "none"
  PROVE  WithinBudget'
<1> SUFFICES ASSUME ~misjudged' PROVE WithinBudget'
    BY DEF WithinBudget
<1> DEFINE c  == Cardinality(Rows)
           c2 == Cardinality(Rows)'
<1>1. c \in Nat /\ c2 = c + 1 /\ Fresh = c + 1
    BY RowsCount DEF BudgetInv, TurnInv
<1>2. c2 <= 1 \/ c2 <= Budget
  <2>1. CASE Rows = {}
    <3>1. c = 0
        BY <2>1, FS_EmptySet
    <3> QED
        BY <1>1, <3>1
  <2>2. CASE Room
    <3>1. c < Budget
        BY <2>2 DEF Room
    <3> HIDE DEF c, c2
    <3> QED
        BY <1>1, <3>1, BoundsAssumption
  <2> QED
      BY <2>1, <2>2
<1>3. ASSUME NEW r \in Runs, At(r, "insert")' PROVE FALSE
  <2>1. Fresh \in Rows' /\ Fresh \notin Rows
      BY FreshRow DEF Grown, Rows, NewRow, BudgetInv, TurnInv, IInv
  <2>2. Ahead(r)'
      BY <1>3 DEF At, Ahead, Leading
  <2>3. \A s \in Rows' : s <= r
      BY <2>2 DEF TurnInv, Foremost
  <2>4. row[r].status # "none"
      BY <1>3 DEF BudgetInv, TurnInv, Claimed
  <2>5. r \in Rows /\ Rows = 1..(Fresh - 1)
      BY <2>4, FreshRow DEF Rows, BudgetInv, TurnInv, IInv
  <2>6. Fresh <= r /\ r \in 1..(Fresh - 1)
      BY <2>1, <2>3, <2>5
  <2> QED
      BY <1>1, <2>6
<1> QED
    BY <1>2, <1>3 DEF WithinBudget

\* Of the steps of a producer only the count leads to an insert.
LEMMA CountsFirst ==
  ASSUME BudgetInv, NEW r \in Runs, Produce(r) \/ Crash(r), ~Insert(r)
  PROVE  ToInsert
<1>1. prod \in [Runs -> ProducerType] /\ prod[r] \in ProducerType
    BY DEF BudgetInv, TurnInv, IInv, TypeOK
<1>2. SUFFICES /\ \A q \in Runs : q # r => prod'[q] = prod[q]
               /\ prod'[r].pc = "insert" => Room
    BY DEF ToInsert, At
<1> USE DEF Go, GoWith
<1>3. CASE CountRows(r)
  <2>1. Room
      BY <1>3, RowsCount DEF CountRows, BudgetInv, TurnInv
  <2> QED
      BY <1>1, <1>3, <2>1 DEF CountRows
<1>4. CASE \/ Notice(r) \/ StoreFails(r) \/ MarkBoundary(r) \/ StopTurn(r) \/ Checkpoint(r)
           \/ \E out \in {"done", "error", "continue"} : Conclude(r, out)
  <2>1. CASE MarkBoundary(r) \/ StopTurn(r)
    <3>1. PICK pc \in {"store", "emit"} : Go(r, pc)
        BY <2>1 DEF MarkBoundary, StopTurn
    <3> QED
        BY <1>1, <3>1
  <2>2. ASSUME NEW pc \in {"store", "mark", "emit"}, NEW out \in Outcomes, GoWith(r, pc, out)
        PROVE  prod'[r].pc # "insert" /\ \A q \in Runs : q # r => prod'[q] = prod[q]
    <3>1. prod'[r].pc = pc
        BY <1>1, <2>2 DEF ProducerType
    <3>2. \A q \in Runs : q # r => prod'[q] = prod[q]
        BY <1>1, <2>2
    <3> QED
        BY <3>1, <3>2
  <2>3. CASE Go(r, "close")
      BY <1>1, <2>3
  <2>4. CASE \E pc \in {"store", "mark", "emit"}, out \in Outcomes : GoWith(r, pc, out)
      BY <2>2, <2>4
  <2>5. \/ MarkBoundary(r) \/ StopTurn(r) \/ Go(r, "close")
        \/ \E pc \in {"store", "mark", "emit"}, out \in Outcomes : GoWith(r, pc, out)
      BY <1>4 DEF Notice, StoreFails, Checkpoint, Conclude, Outcomes
  <2> QED
      BY <2>1, <2>3, <2>4, <2>5
<1>5. CASE Store(r)
    BY <1>1, <1>5 DEF Store
<1>6. CASE Begin(r) \/ Crash(r) \/ Close(r)
  <2>1. Over.pc = "gone"
      BY DEF Over, NoProducer
  <2>2. CASE prod' = [prod EXCEPT ![r] = Over]
      BY <1>1, <2>1, <2>2
  <2>3. CASE Go(r, "work")
      BY <1>1, <2>3
  <2> QED
      BY <1>6, <2>2, <2>3 DEF Begin, Crash, Close
<1>7. CASE Hand(r) \/ HandReason(r) \/ Emit(r)
  <2>1. PICK pc \in {"handreason", "emit", "close"} : Go(r, pc)
      BY <1>7 DEF Hand, HandReason, Emit
  <2> QED
      BY <1>1, <2>1
<1>8. ASSUME NEW pc \in {"hand", "emit"}, prod' = [prod EXCEPT ![r].pc = pc, ![r].next = 0]
      PROVE  prod'[r].pc # "insert" /\ \A q \in Runs : q # r => prod'[q] = prod[q]
  <2>1. prod'[r].pc = pc
      BY <1>1, <1>8 DEF ProducerType
  <2> QED
      BY <1>1, <1>8, <2>1
<1>9. CASE Relook(r) \/ Dispatch(r) \/ Defer(r) \/ ChainFails(r)
  <2>1. CASE Go(r, "dispatch")
      BY <1>1, <2>1
  <2>2. CASE \E pc \in {"hand", "emit"} : prod' = [prod EXCEPT ![r].pc = pc, ![r].next = 0]
      BY <1>8, <2>2
  <2> QED
      BY <1>9, <2>1, <2>2 DEF Relook, Dispatch, Defer, ChainFails
<1> QED
    BY <1>3, <1>4, <1>5, <1>6, <1>7, <1>9 DEF Produce

LEMMA BudgetStep ==
  ASSUME BudgetInv, [Next]_vars
  PROVE  BudgetInv'
<1>1. TurnInv'
    BY TurnStep DEF BudgetInv
<1>2. CASE UNCHANGED vars
    BY <1>1, <1>2 DEF BudgetInv, WithinBudget, Rows, At, vars, rows
<1>3. CASE Post
  <2>1. Rows = {} /\ Fresh \in 1..(MaxRuns + 1) /\ Rows = 1..(Fresh - 1)
      BY <1>3, FreshRow DEF BudgetInv, TurnInv, IInv, Post
  <2>2. Fresh = 1 /\ Fresh \in Runs
      BY <2>1, BoundsAssumption DEF Runs
  <2>3. Grown /\ misjudged' = misjudged /\ prod' = prod
      BY <1>3, <2>2, RowAdded DEF Post, BudgetInv, TurnInv
  <2> QED
      BY <1>1, <2>1, <2>3, GrownBudget DEF At, BudgetInv
<1>4. CASE StopTheTurn \/ StopSelects \/ StopHasWaited
  <2>1. Good /\ misjudged' = misjudged
      BY <1>4, StopTheTurnStep, StopSteps
      DEF BudgetInv, TurnInv, StopTheTurn, StopSelects, StopHasWaited
  <2>2. ToInsert
    <3>1. CASE prod' = prod
        BY <3>1 DEF ToInsert, At
    <3>2. CASE StopTheTurn
      <4>1. PICK local \in SUBSET {r \in Runs : At(r, "work")} :
              prod' = [r \in Runs |-> IF r \in local
                          THEN [prod[r] EXCEPT !.pc = "store", !.out = "aborted"] ELSE prod[r]]
          BY <3>2 DEF StopTheTurn
      <4>2. \A r \in Runs : prod[r] \in ProducerType
          BY DEF BudgetInv, TurnInv, IInv, TypeOK
      <4>3. \A r \in Runs : prod'[r] = prod[r] \/ prod'[r].pc = "store"
          BY <4>1, <4>2 DEF ProducerType
      <4> QED
          BY <4>3 DEF ToInsert, At
    <3> QED
        BY <1>4, <3>1, <3>2 DEF StopSelects, StopHasWaited
  <2> QED
      BY <1>1, <2>1, <2>2, SameBudget DEF BudgetInv
<1>5. ASSUME NEW r \in Runs, Deliver(r) \/ Claim(r) \/ ReapUnclaimed(r)
      PROVE  BudgetInv'
  <2>1. Good /\ misjudged' = misjudged
      BY <1>5, DispatchSteps DEF BudgetInv, TurnInv, Deliver, Claim, ReapUnclaimed
  <2>2. \/ prod' = prod
        \/ prod' = [prod EXCEPT ![r] = [NoProducer EXCEPT !.pc = "claimed"]]
      BY <1>5 DEF Deliver, Claim, ReapUnclaimed
  <2>3. ToInsert
      BY <2>2 DEF ToInsert, At, NoProducer, BudgetInv, TurnInv, IInv, TypeOK
  <2> QED
      BY <1>1, <2>1, <2>3, SameBudget DEF BudgetInv
<1>6. ASSUME NEW r \in Runs, Produce(r) \/ Crash(r), ~Insert(r)
      PROVE  BudgetInv'
  <2>1. Good
      BY <1>6, QuietSteps, LookingSteps, WritingSteps, LoggingSteps DEF BudgetInv, TurnInv, Produce
  <2>2. misjudged' = misjudged
      BY <1>6 DEF Produce, Begin, Notice, Checkpoint, MarkBoundary, Conclude, Store, StoreFails,
                  CountRows, StopTurn, Relook, Dispatch, Defer, ChainFails, Hand, HandReason,
                  Emit, Close, Crash
  <2>3. ToInsert
      BY <1>6, CountsFirst
  <2> QED
      BY <1>1, <2>1, <2>2, <2>3, SameBudget DEF BudgetInv
<1>7. ASSUME NEW r \in Runs, Insert(r)
      PROVE  BudgetInv'
  <2>1. Grown /\ misjudged' = misjudged
      BY <1>7, RowAdded DEF Insert, BudgetInv, TurnInv
  <2>2. ~misjudged => Room
      BY <1>7 DEF Insert, BudgetInv, WithinBudget, Room
  <2>3. prod[r].pc = "insert" /\ \A q \in Runs : q # r => prod'[q] = prod[q]
      BY <1>7 DEF Insert, At, BudgetInv, TurnInv, IInv, TypeOK
  <2> QED
      BY <1>1, <2>1, <2>2, <2>3, GrownBudget DEF At, BudgetInv
<1>8. ASSUME NEW o \in Observers, Watch(o) \/ \E r \in Runs : Observe(o, r), ~Commit(o)
      PROVE  BudgetInv'
  <2>1. Good /\ misjudged' = misjudged /\ prod' = prod
      BY <1>8, ObserveStep, ReapStep, MissStep, AppendStep
      DEF BudgetInv, TurnInv, Watch, Observe, Reap, Miss, Append
  <2> QED
      BY <1>1, <2>1, SameBudget DEF BudgetInv, ToInsert, At
<1>9. ASSUME NEW o \in Observers, Commit(o)
      PROVE  BudgetInv'
  <2>1. Good \/ (Grown /\ ~Exhausted)
      BY <1>9, CommitStep DEF BudgetInv, TurnInv
  <2>2. prod' = prod /\ (misjudged => misjudged')
      BY <1>9 DEF Commit
  <2>3. CASE Good
      BY <1>1, <2>2, <2>3, SameBudget DEF BudgetInv, ToInsert, At
  <2>4. CASE Grown /\ ~Exhausted
    <3>1. Room
        BY <2>4, RowsCount DEF BudgetInv, TurnInv
    <3> QED
        BY <1>1, <2>2, <2>4, <3>1, GrownBudget DEF BudgetInv, At
  <2> QED
      BY <2>1, <2>3, <2>4
<1> QED
    BY <1>2, <1>3, <1>4, <1>5, <1>6, <1>7, <1>8, <1>9 DEF Next, Produce, Watch

\* As long as no live producer was taken for dead, a turn has no more rows than
\* its budget, although producers count and insert in two statements and reapers
\* insert in transactions of their own.
THEOREM BudgetKept == Spec => []WithinBudget
<1>1. Init => BudgetInv
  <2> SUFFICES ASSUME Init  PROVE BudgetInv
      OBVIOUS
  <2>1. \A r \in Runs : row[r].status = "none" /\ prod[r].pc = "none"
      BY DEF Init, NoRow, NoProducer
  <2>2. Rows = {} /\ Cardinality(Rows) = 0
      BY <2>1, FS_EmptySet DEF Rows
  <2> QED
      BY <2>1, <2>2, InitKept
      DEF BudgetInv, WithinBudget, At, TurnInv, Claimed, Foremost, Ahead, Leading, Claimable, Running
<1>2. BudgetInv /\ [Next]_vars => BudgetInv'
    BY BudgetStep
<1>3. BudgetInv => WithinBudget
    BY DEF BudgetInv
<1> QED
    BY <1>1, <1>2, <1>3, PTL DEF Spec
=============================================================================

-------------------------- MODULE JobControlProofs --------------------------
(***************************************************************************)
(* The safety theorems of JobControl, for every value of its constants.    *)
(*                                                                         *)
(* Every step either inserts one row or changes rows within RowStep; this  *)
(* alone preserves the shape of the table.  What is left, per action, is   *)
(* the types, the execution that moved, and the assessment.                *)
(***************************************************************************)
EXTENDS JobControlInv, FiniteSetTheorems, TLAPS

\* What a step that inserts nothing may do to row j.
RowStep(j) ==
    /\ job'[j].target = job[j].target
    /\ job'[j].source = job[j].source
    /\ job[j].status = "UNUSED" => job'[j] = job[j]
    /\ job'[j].status = "UNUSED" => job[j].status = "UNUSED"
    /\ job'[j].status = "QUEUED" => job[j].status = "QUEUED"
    /\ job'[j].control = "ACTIVE" => job[j].control = "ACTIVE"
    /\ job'[j].control = "CANCELLED" =>
          job[j].control = "CANCELLED" \/ job'[j].status = "FAILED"
    /\ \/ /\ job'[j].attempt = job[j].attempt
          /\ job'[j].status = "RUNNING" => job[j].status = "RUNNING"
       \/ /\ job[j].status = "QUEUED"
          /\ job'[j].status = "RUNNING"
          /\ job'[j].attempt = job[j].attempt + 1
    /\ Settled(j) => KeepsOutcome(j)

RowsStep == next' = next /\ \A j \in Jobs : RowStep(j)

\* An insertion by an API handler: of a first job, or of a continuation.
Insertion ==
    /\ next \in Jobs
    /\ next' = next + 1
    /\ \E target \in Aggregates, attempt \in 0 .. MaxAttempts,
          source \in Jobs \cup {NoJob} :
         /\ job' = [job EXCEPT ![next] =
                      [ target |-> target, status |-> "QUEUED",
                        control |-> "ACTIVE", failure |-> "NONE",
                        attempt |-> attempt, source |-> source ]]
         /\ \/ /\ source = NoJob
               /\ target \in Submissions =>
                    \A j \in Jobs : job[j].target # target
            \/ /\ source \in Jobs
               /\ source < next
               /\ job[source].target = target
               /\ job[source].attempt = attempt
               /\ job[source].status \in {"FAILED", "NEEDS_REVIEW"}
               /\ job[source].control = "ACTIVE"
               /\ ~Continued(source)

-----------------------------------------------------------------------------
(***************************************************************************)
(* The shape of the table.                                                 *)
(***************************************************************************)
LEMMA RowsStepKeepsTable ==
    ASSUME TypeOK, TableInv, RowsStep
    PROVE  TableInv'
<1> USE DEF TableInv, RowsStep
<1>1. RowsInOrder'
  BY DEF RowsInOrder, RowStep, TypeOK, JobRow, UnusedRow, Jobs
<1>2. LineageIsLinear'
  <2> SUFFICES ASSUME NEW j \in Jobs, NEW k \in Jobs, job'[k].source = j
               PROVE  /\ job'[j].status \in {"FAILED", "NEEDS_REVIEW"}
                      /\ job'[j].control = "ACTIVE"
                      /\ job'[k].target = job'[j].target
                      /\ job'[k].attempt \in {job'[j].attempt, job'[j].attempt + 1}
                      /\ job'[k].attempt = job'[j].attempt =>
                             job'[k].status # "RUNNING"
                      /\ \A i \in Jobs : job'[i].source = j => i = k
    BY DEF LineageIsLinear
  <2>1. RowStep(j) /\ RowStep(k) /\ job[k].source = j
    BY DEF RowStep
  <2>2. /\ job[j].status \in {"FAILED", "NEEDS_REVIEW"}
        /\ job[j].control = "ACTIVE"
        /\ job[k].target = job[j].target
        /\ job[k].attempt \in {job[j].attempt, job[j].attempt + 1}
        /\ job[k].attempt = job[j].attempt => job[k].status # "RUNNING"
        /\ \A i \in Jobs : job[i].source = j => i = k
    BY <2>1 DEF LineageIsLinear
  <2>3. job[k].status = "QUEUED" => job[k].attempt = job[j].attempt
    BY <2>1 DEF QueuedKeepsAttempt
  <2>4. /\ job'[j].status = job[j].status
        /\ job'[j].control = "ACTIVE"
        /\ job'[j].attempt = job[j].attempt
        /\ job'[k].target = job'[j].target
    BY <2>1, <2>2 DEF RowStep, Settled, KeepsOutcome
  <2>5. job[j].attempt \in Nat /\ job[k].attempt \in Nat
    BY DEF TypeOK, StateOK, JobRow
  <2>6. /\ job'[k].attempt \in {job[j].attempt, job[j].attempt + 1}
        /\ job'[k].attempt = job[j].attempt => job'[k].status # "RUNNING"
    BY <2>1, <2>2, <2>3, <2>5 DEF RowStep
  <2>7. \A i \in Jobs : job'[i].source = j => i = k
    BY <2>2 DEF RowStep
  <2> QED
    BY <2>2, <2>4, <2>6, <2>7
<1>3. QueuedKeepsAttempt'
  <2> SUFFICES ASSUME NEW j \in Jobs, NEW k \in Jobs,
                      job'[k].source = j, job'[k].status = "QUEUED"
               PROVE  job'[k].attempt = job'[j].attempt
    BY DEF QueuedKeepsAttempt
  <2>1. /\ RowStep(j) /\ RowStep(k)
        /\ job[k].source = j
        /\ job[k].status = "QUEUED"
        /\ job'[k].attempt = job[k].attempt
    BY DEF RowStep
  <2>2. job[j].status \in {"FAILED", "NEEDS_REVIEW"}
    BY <2>1 DEF LineageIsLinear
  <2> QED
    BY <2>1, <2>2 DEF RowStep, QueuedKeepsAttempt
<1>4. OneHead'
  BY DEF OneHead, Continued, RowStep
<1> QED
  BY <1>1, <1>2, <1>3, <1>4

LEMMA InsertionKeepsTable ==
    ASSUME TypeOK, TableInv, Insertion
    PROVE  TableInv'
<1>1. PICK target \in Aggregates, attempt \in 0 .. MaxAttempts,
           source \in Jobs \cup {NoJob} :
        /\ job' = [job EXCEPT ![next] =
                     [ target |-> target, status |-> "QUEUED",
                       control |-> "ACTIVE", failure |-> "NONE",
                       attempt |-> attempt, source |-> source ]]
        /\ \/ /\ source = NoJob
              /\ target \in Submissions =>
                   \A j \in Jobs : job[j].target # target
           \/ /\ source \in Jobs
              /\ source < next
              /\ job[source].target = target
              /\ job[source].attempt = attempt
              /\ job[source].status \in {"FAILED", "NEEDS_REVIEW"}
              /\ job[source].control = "ACTIVE"
              /\ ~Continued(source)
  BY DEF Insertion
<1>2. next \in Jobs /\ next' = next + 1
  BY DEF Insertion
<1>3. \A j \in Jobs : j # next => job'[j] = job[j]
  BY <1>1 DEF TypeOK, StateOK
<1>4. /\ job'[next].target = target
      /\ job'[next].status = "QUEUED"
      /\ job'[next].attempt = attempt
      /\ job'[next].source = source
  BY <1>1, <1>2 DEF TypeOK, StateOK
<1>5. /\ job[next] = UnusedRow
      /\ \A j \in Jobs : job[j].source # next
  <2>1. job[next] = UnusedRow
    BY <1>2 DEF TableInv, RowsInOrder, Jobs
  <2>2. ASSUME NEW j \in Jobs, job[j].source = next PROVE FALSE
    <3>1. j < next
      BY <1>2, <2>2 DEF TableInv, RowsInOrder, UnusedRow, NoJob, Jobs
    <3> QED
      BY <1>2, <2>2, <3>1 DEF TableInv, RowsInOrder, Jobs
  <2> QED
    BY <2>1, <2>2
<1>6. source # next
  BY <1>1, <1>2 DEF NoJob, Jobs
<1>7. RowsInOrder'
  <2> SUFFICES ASSUME NEW j \in Jobs
               PROVE  /\ j < next + 1 => /\ job'[j].status # "UNUSED"
                                         /\ job'[j].target \in Aggregates
                                         /\ job'[j].source < j
                      /\ j >= next + 1 => job'[j] = UnusedRow
    BY <1>2 DEF RowsInOrder, UnusedRow
  <2>1. CASE j = next
    BY <1>1, <1>2, <1>4, <2>1 DEF NoJob, Jobs
  <2>2. CASE j # next
    BY <1>2, <1>3, <2>2 DEF TableInv, RowsInOrder, Jobs
  <2> QED
    BY <2>1, <2>2
<1>8. LineageIsLinear'
  <2> SUFFICES ASSUME NEW j \in Jobs, NEW k \in Jobs, job'[k].source = j
               PROVE  /\ job'[j].status \in {"FAILED", "NEEDS_REVIEW"}
                      /\ job'[j].control = "ACTIVE"
                      /\ job'[k].target = job'[j].target
                      /\ job'[k].attempt \in {job'[j].attempt, job'[j].attempt + 1}
                      /\ job'[k].attempt = job'[j].attempt =>
                             job'[k].status # "RUNNING"
                      /\ \A i \in Jobs : job'[i].source = j => i = k
    BY DEF LineageIsLinear
  <2>1. j # next
    BY <1>3, <1>4, <1>5, <1>6
  <2>2. CASE k = next
    BY <1>1, <1>2, <1>3, <1>4, <2>1, <2>2 DEF Continued, NoJob, Jobs
  <2>3. CASE k # next
    <3>1. job[k].source = j /\ job'[k] = job[k] /\ job'[j] = job[j]
      BY <1>3, <2>1, <2>3
    <3>2. source # j
      BY <1>1, <3>1 DEF Continued, NoJob, Jobs
    <3> QED
      BY <1>3, <1>4, <3>1, <3>2 DEF TableInv, LineageIsLinear
  <2> QED
    BY <2>2, <2>3
<1>9. QueuedKeepsAttempt'
  <2> SUFFICES ASSUME NEW j \in Jobs, NEW k \in Jobs,
                      job'[k].source = j, job'[k].status = "QUEUED"
               PROVE  job'[k].attempt = job'[j].attempt
    BY DEF QueuedKeepsAttempt
  <2>1. j # next
    BY <1>3, <1>4, <1>5, <1>6
  <2>2. CASE k = next
    BY <1>1, <1>3, <1>4, <2>1, <2>2 DEF NoJob, Jobs
  <2>3. CASE k # next
    BY <1>3, <2>1, <2>3 DEF TableInv, QueuedKeepsAttempt
  <2> QED
    BY <2>2, <2>3
<1>10. OneHead'
  <2> SUFFICES ASSUME NEW j \in Jobs, NEW k \in Jobs,
                      job'[j].target \in Submissions,
                      job'[j].target = job'[k].target,
                      \A i \in Jobs : job'[i].source # j,
                      \A i \in Jobs : job'[i].source # k
               PROVE  j = k
    BY DEF OneHead, Continued
  <2>1. \A i \in Jobs : i # next /\ job'[i].target = target
                            /\ target \in Submissions
                        => \E n \in Jobs : job'[n].source = i
    <3> SUFFICES ASSUME NEW i \in Jobs, i # next, job'[i].target = target,
                        target \in Submissions
                 PROVE  \E n \in Jobs : job'[n].source = i
      OBVIOUS
    <3>1. job[i].target = target
      BY <1>3
    <3>2. source \in Jobs /\ job[source].target = target /\ ~Continued(source)
      BY <1>1, <3>1
    <3>3. CASE i = source
      BY <1>2, <1>4, <3>3
    <3>4. CASE i # source
      <4>1. Continued(i)
        BY <3>1, <3>2, <3>4 DEF TableInv, OneHead
      <4>2. PICK n \in Jobs : job[n].source = i
        BY <4>1 DEF Continued
      <4>3. n # next
        BY <1>5, <4>2 DEF UnusedRow, NoJob, Jobs
      <4> QED
        BY <1>3, <4>2, <4>3
    <3> QED
      BY <3>3, <3>4
  <2>2. CASE j = next \/ k = next
    BY <1>2, <1>4, <2>1, <2>2
  <2>3. CASE j # next /\ k # next
    <3>1. ~Continued(j) /\ ~Continued(k)
      BY <1>3, <1>5, <2>3 DEF Continued, UnusedRow, NoJob, Jobs
    <3> QED
      BY <1>3, <2>3, <3>1 DEF TableInv, OneHead
  <2> QED
    BY <2>2, <2>3
<1> QED
  BY <1>7, <1>8, <1>9, <1>10 DEF TableInv

-----------------------------------------------------------------------------
(***************************************************************************)
(* The executions.                                                         *)
(***************************************************************************)
LEMMA ExecutionsAreExclusive ==
    IInv => ClaimIsExclusive
<1> SUFFICES ASSUME IInv PROVE ClaimIsExclusive
  OBVIOUS
<1> QED
  BY DEF IInv, NoSharedRow, WorkerOK, Tails, ClaimIsExclusive

\* At most execution w moved, and no other one lost the status of its row.
LEMMA OneExecutionMoves ==
    ASSUME IInv, RowsStep, NEW w \in Workers,
           \A v \in Workers \ {w} : worker'[v] = worker[v],
           \A v \in Workers \ {w} : JobOf(v) # NoJob =>
               job'[JobOf(v)].status = job[JobOf(v)].status,
           WorkerOK(w)',
           JobOf(w)' # NoJob => \A v \in Workers \ {w} : JobOf(v) # JobOf(w)'
    PROVE  (\A v \in Workers : WorkerOK(v))' /\ NoSharedRow'
<1>1. ASSUME NEW v \in Workers, v # w PROVE WorkerOK(v)'
  <2>1. WorkerOK(v) /\ worker'[v] = worker[v]
    BY <1>1 DEF IInv
  <2>2. next' = next
    BY DEF RowsStep
  <2>3. CASE JobOf(v) = NoJob
    BY <2>1, <2>3 DEF WorkerOK, JobOf, TargetOf, Tails, SubmissionSteps, ActivitySteps
  <2>4. CASE JobOf(v) # NoJob
    <3>1. JobOf(v) \in Jobs
      BY <2>4 DEF IInv, TypeOK, StateOK, JobOf
    <3>2. /\ job'[JobOf(v)].target = job[JobOf(v)].target
          /\ job'[JobOf(v)].status = job[JobOf(v)].status
      BY <1>1, <2>4, <3>1 DEF RowsStep, RowStep
    <3> QED
      BY <2>1, <2>2, <3>2 DEF WorkerOK, JobOf, TargetOf
  <2> QED
    BY <2>3, <2>4
<1>2. NoSharedRow'
  BY DEF IInv, NoSharedRow, JobOf
<1> QED
  BY <1>1, <1>2

\* No execution moved.
LEMMA NoExecutionMoves ==
    ASSUME IInv, RowsStep, worker' = worker,
           \A v \in Workers : JobOf(v) # NoJob =>
               job'[JobOf(v)].status = job[JobOf(v)].status
    PROVE  (\A v \in Workers : WorkerOK(v))' /\ NoSharedRow'
<1>1. ASSUME NEW v \in Workers PROVE WorkerOK(v)'
  <2>1. WorkerOK(v) /\ worker'[v] = worker[v]
    BY <1>1 DEF IInv
  <2>2. next' = next
    BY DEF RowsStep
  <2>3. CASE JobOf(v) = NoJob
    BY <2>1, <2>3 DEF WorkerOK, JobOf, TargetOf, Tails, SubmissionSteps, ActivitySteps
  <2>4. CASE JobOf(v) # NoJob
    <3>1. JobOf(v) \in Jobs
      BY <2>4 DEF IInv, TypeOK, StateOK, JobOf
    <3>2. /\ job'[JobOf(v)].target = job[JobOf(v)].target
          /\ job'[JobOf(v)].status = job[JobOf(v)].status
      BY <1>1, <2>4, <3>1 DEF RowsStep, RowStep
    <3> QED
      BY <2>1, <2>2, <3>2 DEF WorkerOK, JobOf, TargetOf
  <2> QED
    BY <2>3, <2>4
<1>2. NoSharedRow'
  BY DEF IInv, NoSharedRow, JobOf
<1> QED
  BY <1>1, <1>2

\* A row that an execution holds is not waiting: neither the API, which
\* handles queued rows, nor a claim touches it.
LEMMA HeldRowsAreNotQueued ==
    ASSUME IInv, NEW w \in Workers, JobOf(w) # NoJob
    PROVE  /\ JobOf(w) \in Jobs
           /\ job[JobOf(w)].status \in {"RUNNING", "FAILED", "NEEDS_REVIEW"}
           /\ job[JobOf(w)].target \in Aggregates
<1>1. WorkerOK(w)
  BY DEF IInv
<1> QED
  BY <1>1 DEF IInv, TypeOK, StateOK, WorkerOK, JobOf, TargetOf, Tails

-----------------------------------------------------------------------------
(***************************************************************************)
(* The aggregates.                                                         *)
(***************************************************************************)
LEMMA WriteIsTyped ==
    ASSUME StateOK, NEW x \in Aggregates, NEW value, value \in StatesOf(x),
           state' = [state EXCEPT ![x] = value]
    PROVE  StateOK'
  BY DEF StateOK, StatesOf

LEMMA FailureStateIsTyped ==
    ASSUME TypeOK, NEW j \in Jobs, job[j].target \in Aggregates
    PROVE  StateAfterFailure(j) \in StatesOf(job[j].target)
  BY DEF TypeOK, StateOK, StateAfterFailure, StatesOf, ActivityStates,
         SubmissionStates

LEMMA CancelStateIsTyped ==
    \A x : StateAfterCancel(x) \in StatesOf(x)
  BY DEF StateAfterCancel, StatesOf, ActivityStates, SubmissionStates

LEMMA StaysNeverRequeued ==
    ASSUME IInv, RowsStep,
           \A s \in Submissions :
               state'[s] = "UPLOADED" /\ active'[s] = NoJob
                   => state[s] = "UPLOADED" /\ active[s] = NoJob
    PROVE  NeverRequeued'
  BY DEF IInv, NeverRequeued, RowsStep, RowStep

LEMMA StaysFenced ==
    ASSUME IInv, RowsStep, published' = published,
           \A j \in Jobs : /\ job[j].target \in Submissions
                          /\ job'[j].status = "SUCCEEDED"
                          => job[j].status = "SUCCEEDED"
    PROVE  AssessmentFenced'
<1>1. ASSUME NEW s \in Submissions, published'[s] # NoJob
      PROVE  /\ job'[published'[s]].target = s
             /\ job'[published'[s]].status = "SUCCEEDED"
             /\ job'[published'[s]].control = "ACTIVE"
  <2>1. /\ published[s] \in Jobs
        /\ job[published[s]].target = s
        /\ job[published[s]].status = "SUCCEEDED"
        /\ job[published[s]].control = "ACTIVE"
    BY <1>1 DEF IInv, TypeOK, StateOK, AssessmentFenced
  <2> QED
    BY <2>1 DEF RowsStep, RowStep, Settled, KeepsOutcome
<1>2. ASSUME NEW j \in Jobs, job'[j].target \in Submissions,
             job'[j].status = "SUCCEEDED"
      PROVE  published'[job'[j].target] = j
  BY <1>2 DEF IInv, AssessmentFenced, RowsStep, RowStep
<1> QED
  BY <1>1, <1>2 DEF AssessmentFenced

-----------------------------------------------------------------------------
(***************************************************************************)
(* One lemma per action: what it preserves, and within which row step.     *)
(***************************************************************************)
StepKeepsIInv ==
    /\ TypeOK'
    /\ RowsStep \/ Insertion
    /\ (\A w \in Workers : WorkerOK(w))'
    /\ NoSharedRow'
    /\ NeverRequeued'
    /\ AssessmentFenced'

LEMMA SameRows ==
    ASSUME job' = job, next' = next PROVE RowsStep
  BY DEF RowsStep, RowStep, Settled, KeepsOutcome

\* Steps of the executor API, or of an execution that is not there any more.
LEMMA OnlyCallsChange ==
    ASSUME IInv, TypeOK',
           UNCHANGED <<job, next, state, active, published, worker>>
    PROVE  StepKeepsIInv
<1>1. RowsStep
  BY SameRows
<1>2. (\A w \in Workers : WorkerOK(w))' /\ NoSharedRow'
  BY <1>1, NoExecutionMoves
<1>3. NeverRequeued' /\ AssessmentFenced'
  BY <1>1, StaysNeverRequeued, StaysFenced
<1> QED
  BY <1>1, <1>2, <1>3 DEF StepKeepsIInv

\* Steps of an execution that keeps its row, or gives it up, and leaves the
\* table alone.
LEMMA OnlyExecutionMoves ==
    ASSUME IInv, TypeOK', NEW w \in Workers,
           UNCHANGED <<job, next, published>>,
           \A v \in Workers \ {w} : worker'[v] = worker[v],
           JobOf(w)' \in {JobOf(w), NoJob},
           WorkerOK(w)',
           \A s \in Submissions :
               state'[s] = "UPLOADED" /\ active'[s] = NoJob
                   => state[s] = "UPLOADED" /\ active[s] = NoJob
    PROVE  StepKeepsIInv
<1>1. RowsStep
  BY SameRows
<1>2. JobOf(w)' # NoJob => \A v \in Workers \ {w} : JobOf(v) # JobOf(w)'
  BY DEF IInv, NoSharedRow
<1>3. (\A v \in Workers : WorkerOK(v))' /\ NoSharedRow'
  BY <1>1, <1>2, OneExecutionMoves
<1>4. NeverRequeued' /\ AssessmentFenced'
  BY <1>1, StaysNeverRequeued, StaysFenced
<1> QED
  BY <1>1, <1>3, <1>4 DEF StepKeepsIInv

LEMMA ExecutorStep ==
    ASSUME IInv,
           \/ \E j \in Jobs : \/ DispatchAccepted(j) \/ DispatchReturns(j)
                             \/ ApiCrash(j)
           \/ ExecutionLost
    PROVE  StepKeepsIInv
<1>1. TypeOK' /\ UNCHANGED <<job, next, state, active, published, worker>>
  BY DEF IInv, TypeOK, StateOK, DispatchAccepted, DispatchReturns, ApiCrash,
         ExecutionLost
<1> QED
  BY <1>1, OnlyCallsChange

-----------------------------------------------------------------------------
LEMMA InsertedRow ==
    ASSUME TypeOK, TableInv, Insertion
    PROVE  /\ next \in Jobs /\ next' = next + 1
           /\ job[next] = UnusedRow
           /\ job'[next].status = "QUEUED" /\ job'[next].control = "ACTIVE"
           /\ \A j \in Jobs \ {next} : job'[j] = job[j]
  BY DEF TypeOK, StateOK, TableInv, RowsInOrder, Insertion, Jobs

LEMMA InsertionStep ==
    ASSUME IInv, TypeOK', Insertion, UNCHANGED <<worker, published>>,
           \A s \in Submissions :
               state'[s] = "UPLOADED" /\ active'[s] = NoJob
                   => /\ state[s] = "UPLOADED" /\ active[s] = NoJob
                      /\ job'[next].target # s
    PROVE  StepKeepsIInv
<1>1. /\ next \in Jobs /\ next' = next + 1
      /\ job[next] = UnusedRow
      /\ job'[next].status = "QUEUED"
      /\ \A j \in Jobs \ {next} : job'[j] = job[j]
  BY InsertedRow DEF IInv
<1>2. ASSUME NEW w \in Workers PROVE WorkerOK(w)'
  <2>1. WorkerOK(w) /\ worker'[w] = worker[w]
    BY <1>2 DEF IInv
  <2>2. CASE JobOf(w) = NoJob
    BY <2>1, <2>2 DEF WorkerOK, JobOf, TargetOf, SubmissionSteps, ActivitySteps
  <2>3. CASE JobOf(w) # NoJob
    <3>1. JobOf(w) \in Jobs /\ JobOf(w) < next
      BY <2>1, <2>3 DEF IInv, TypeOK, StateOK, WorkerOK, JobOf
    <3>2. job'[JobOf(w)] = job[JobOf(w)] /\ JobOf(w) < next'
      BY <1>1, <3>1 DEF Jobs
    <3> QED
      BY <2>1, <3>2 DEF WorkerOK, JobOf, TargetOf
  <2> QED
    BY <2>2, <2>3
<1>3. NoSharedRow'
  BY DEF IInv, NoSharedRow, JobOf
<1>4. NeverRequeued'
  <2> SUFFICES ASSUME NEW j \in Jobs, job'[j].target \in Submissions,
                      state'[job'[j].target] = "UPLOADED",
                      active'[job'[j].target] = NoJob
               PROVE  FALSE
    BY DEF NeverRequeued
  <2>1. j # next
    OBVIOUS
  <2> QED
    BY <1>1, <2>1 DEF IInv, NeverRequeued
<1>5. AssessmentFenced'
  <2>1. ASSUME NEW s \in Submissions, published[s] # NoJob
        PROVE  /\ job'[published[s]].target = s
               /\ job'[published[s]].status = "SUCCEEDED"
               /\ job'[published[s]].control = "ACTIVE"
    <3>1. /\ published[s] \in Jobs
          /\ job[published[s]].target = s
          /\ job[published[s]].status = "SUCCEEDED"
          /\ job[published[s]].control = "ACTIVE"
      BY <2>1 DEF IInv, TypeOK, StateOK, AssessmentFenced
    <3>2. published[s] # next
      BY <1>1, <3>1 DEF UnusedRow
    <3> QED
      BY <1>1, <3>1, <3>2
  <2>2. ASSUME NEW j \in Jobs, job'[j].target \in Submissions,
               job'[j].status = "SUCCEEDED"
        PROVE  published[job'[j].target] = j
    <3>1. j # next
      BY <1>1, <2>2
    <3> QED
      BY <1>1, <2>2, <3>1 DEF IInv, AssessmentFenced
  <2> QED
    BY <2>1, <2>2 DEF AssessmentFenced
<1> QED
  BY <1>2, <1>3, <1>4, <1>5 DEF StepKeepsIInv

LEMMA EnqueueActivityStep ==
    ASSUME IInv, NEW a \in Activities, EnqueueActivity(a)
    PROVE  StepKeepsIInv
<1> USE ConstantsAssumption DEF IInv, EnqueueActivity, InsertJob
<1>1. TypeOK'
  <2>1. StateOK'
    BY WriteIsTyped DEF TypeOK, Aggregates, StatesOf, ActivityStates
  <2> QED
    BY <2>1 DEF TypeOK, JobRow, Jobs, NoJob, Aggregates
<1>2. Insertion
  <2>1. /\ a \in Aggregates /\ a \notin Submissions
        /\ 0 \in 0 .. MaxAttempts /\ NoJob \in Jobs \cup {NoJob}
    BY DEF Aggregates
  <2> QED
    BY <2>1 DEF Insertion
<1>3. job'[next].target = a
  BY DEF TypeOK, StateOK
<1>4. \A s \in Submissions : state'[s] = state[s] /\ active'[s] = active[s]
                              /\ s # a
  BY DEF TypeOK, StateOK, Aggregates
<1> QED
  BY <1>1, <1>2, <1>3, <1>4, InsertionStep

LEMMA EnqueueSubmissionStep ==
    ASSUME IInv, NEW s \in Submissions, EnqueueSubmission(s)
    PROVE  StepKeepsIInv
<1> USE ConstantsAssumption DEF IInv, EnqueueSubmission, InsertJob, SetActive
<1>1. TypeOK'
  BY DEF TypeOK, StateOK, JobRow, Jobs, NoJob, Aggregates
<1>2. Insertion
  <2>1. /\ s \in Aggregates
        /\ 0 \in 0 .. MaxAttempts /\ NoJob \in Jobs \cup {NoJob}
    BY DEF Aggregates
  <2>2. \A j \in Jobs : job[j].target # s
    BY DEF NeverRequeued
  <2> QED
    BY <2>1, <2>2 DEF Insertion
<1>3. job'[next].target = s
  BY DEF TypeOK, StateOK
<1>4. active'[s] # NoJob
  BY DEF TypeOK, StateOK, NoJob, Jobs
<1>5. \A r \in Submissions : state'[r] = state[r]
                              /\ (r # s => active'[r] = active[r])
  BY DEF TypeOK, StateOK
<1> QED
  BY <1>1, <1>2, <1>3, <1>4, <1>5, InsertionStep

LEMMA ContinuationStep ==
    ASSUME IInv, NEW j \in Jobs, Retry(j) \/ Resume(j)
    PROVE  StepKeepsIInv
<1> USE ConstantsAssumption DEF IInv, ScheduleContinuation, InsertJob, SetActive
<1>1. /\ job[j].status \in {"FAILED", "NEEDS_REVIEW"}
      /\ ScheduleContinuation(j)
      /\ UNCHANGED <<state, published, executions, worker>>
  BY DEF Retry, Resume
<1>2. j < next /\ job[j].target \in Aggregates /\ job[j] \in JobRow
  BY <1>1 DEF TypeOK, StateOK, TableInv, RowsInOrder, UnusedRow, Jobs
<1>3. TypeOK'
  BY <1>1, <1>2 DEF TypeOK, StateOK, JobRow, Jobs, NoJob
<1>4. Insertion
  BY <1>1, <1>2 DEF Insertion, JobRow
<1>5. job'[next].target = job[j].target
  BY <1>1 DEF TypeOK, StateOK
<1>6. \A s \in Submissions : active'[s] = NoJob
                               => active[s] = NoJob /\ job[j].target # s
  BY <1>1 DEF TypeOK, StateOK, NoJob, Jobs
<1> QED
  BY <1>1, <1>3, <1>4, <1>5, <1>6, InsertionStep

-----------------------------------------------------------------------------
LEMMA ApiStep ==
    ASSUME IInv, TypeOK', RowsStep, UNCHANGED <<worker, published>>,
           \A v \in Workers : JobOf(v) # NoJob =>
               job'[JobOf(v)].status = job[JobOf(v)].status,
           \A s \in Submissions :
               state'[s] = "UPLOADED" /\ active'[s] = NoJob
                   => state[s] = "UPLOADED" /\ active[s] = NoJob,
           \A j \in Jobs : job'[j].status = "SUCCEEDED"
                             => job[j].status = "SUCCEEDED"
    PROVE  StepKeepsIInv
<1>1. (\A w \in Workers : WorkerOK(w))' /\ NoSharedRow'
  BY NoExecutionMoves
<1>2. NeverRequeued' /\ AssessmentFenced'
  BY StaysNeverRequeued, StaysFenced
<1> QED
  BY <1>1, <1>2 DEF StepKeepsIInv

LEMMA UsedRow ==
    ASSUME IInv, NEW j \in Jobs, job[j].status # "UNUSED"
    PROVE  j < next /\ job[j].target \in Aggregates /\ job[j] \in JobRow
<1>1. next \in Nat /\ j \in Nat /\ job[j] \in JobRow
  BY DEF IInv, TypeOK, StateOK, Jobs
<1>2. job[j] # UnusedRow
  BY DEF UnusedRow
<1> QED
  BY <1>1, <1>2 DEF IInv, TableInv, RowsInOrder

LEMMA FailedRowFields ==
    ASSUME NEW row \in JobRow, NEW class \in FailureClasses
    PROVE  /\ FailedRow(row, class) \in JobRow
           /\ FailedRow(row, class).target = row.target
           /\ FailedRow(row, class).status = "FAILED"
           /\ FailedRow(row, class).control = row.control
           /\ FailedRow(row, class).attempt = row.attempt
           /\ FailedRow(row, class).source = row.source
  BY DEF FailedRow, JobRow

LEMMA CancelledRowFields ==
    ASSUME NEW row \in JobRow
    PROVE  /\ CancelledRow(row) \in JobRow
           /\ CancelledRow(row).target = row.target
           /\ CancelledRow(row).status = "FAILED"
           /\ CancelledRow(row).control = "CANCELLED"
           /\ CancelledRow(row).attempt = row.attempt
           /\ CancelledRow(row).source = row.source
  BY DEF CancelledRow, JobRow

LEMMA ClaimedRowFields ==
    ASSUME NEW row \in JobRow, row.attempt < MaxAttempts
    PROVE  /\ ClaimedRow(row) \in JobRow
           /\ ClaimedRow(row).target = row.target
           /\ ClaimedRow(row).status = "RUNNING"
           /\ ClaimedRow(row).control = row.control
           /\ ClaimedRow(row).attempt = row.attempt + 1
           /\ ClaimedRow(row).source = row.source
<1>1. row.attempt \in 0 .. MaxAttempts /\ row.attempt + 1 \in 0 .. MaxAttempts
  BY ConstantsAssumption DEF JobRow
<1> QED
  BY <1>1 DEF ClaimedRow, JobRow

LEMMA SucceededRowFields ==
    ASSUME NEW row \in JobRow
    PROVE  /\ SucceededRow(row) \in JobRow
           /\ SucceededRow(row).target = row.target
           /\ SucceededRow(row).status = "SUCCEEDED"
           /\ SucceededRow(row).control = row.control
           /\ SucceededRow(row).attempt = row.attempt
           /\ SucceededRow(row).source = row.source
  BY DEF SucceededRow, JobRow

LEMMA DispatchRaisesStep ==
    ASSUME IInv, NEW j \in Jobs, DispatchRaises(j)
    PROVE  StepKeepsIInv
<1> USE DEF DispatchRaises, FailQueuedDispatch
<1> USE DEF IInv
<1>1. /\ job[j].status # "UNUSED" => job[j].target \in Aggregates
      /\ job[j] \in JobRow /\ "TRANSIENT" \in FailureClasses
  BY DEF TypeOK, StateOK, TableInv, RowsInOrder, UnusedRow, Jobs, FailureClasses
<1>2. CASE job[j].status = "QUEUED" /\ job[j].control = "ACTIVE"
  <2> USE <1>2
  <2>1. /\ job' \in [Jobs -> JobRow]
        /\ job'[j] = FailedRow(job[j], "TRANSIENT")
        /\ \A k \in Jobs \ {j} : job'[k] = job[k]
    BY <1>1, FailedRowFields DEF TypeOK, StateOK
  <2>2. StateAfterFailure(j) \in StatesOf(job[j].target)
    BY <1>1, FailureStateIsTyped
  <2>3. TypeOK'
    BY <2>1, <2>2, WriteIsTyped, <1>1 DEF TypeOK
  <2>4. RowsStep
    BY <1>1, <2>1, FailedRowFields DEF RowsStep, RowStep, Settled, KeepsOutcome
  <2>5. ASSUME NEW s \in Submissions, state'[s] = "UPLOADED"
        PROVE  state[s] = "UPLOADED"
    BY <2>5 DEF TypeOK, StateOK, StateAfterFailure, Aggregates
  <2>6. \A k \in Jobs : job'[k].status = "SUCCEEDED"
                           => job[k].status = "SUCCEEDED"
    BY <1>1, <2>1, FailedRowFields
  <2>7. \A v \in Workers : JobOf(v) # NoJob =>
            job'[JobOf(v)].status = job[JobOf(v)].status
    BY <2>1, HeldRowsAreNotQueued
  <2> QED
    BY <2>3, <2>4, <2>5, <2>6, <2>7, ApiStep
<1>3. CASE ~(job[j].status = "QUEUED" /\ job[j].control = "ACTIVE")
  <2>1. TypeOK' /\ UNCHANGED <<job, next, state, active, published, worker>>
    BY <1>3 DEF TypeOK, StateOK
  <2> QED
    BY <2>1, OnlyCallsChange
<1> QED
  BY <1>2, <1>3

\* What completing a cancellation does, whoever completes it.
LEMMA CancellationEffect ==
    ASSUME TypeOK, NEW j \in Jobs, CompleteCancellation(j),
           job[j].target \in Aggregates
    PROVE  /\ job' \in [Jobs -> JobRow]
           /\ StateOK'
           /\ active' \in [Submissions -> Jobs \cup {NoJob}]
           /\ job'[j] = CancelledRow(job[j])
           /\ \A k \in Jobs \ {j} : job'[k] = job[k]
           /\ \A s \in Submissions :
                  state'[s] = "UPLOADED" /\ active'[s] = NoJob
                      => state[s] = "UPLOADED" /\ active[s] = NoJob
<1> USE DEF CompleteCancellation, SetActive
<1>1. StateAfterCancel(job[j].target) \in StatesOf(job[j].target)
  BY CancelStateIsTyped
<1>2. job' \in [Jobs -> JobRow]
  BY CancelledRowFields DEF TypeOK, StateOK
<1>3. /\ StateOK'
      /\ active' \in [Submissions -> Jobs \cup {NoJob}]
  BY <1>1, WriteIsTyped DEF TypeOK
<1>4. /\ job'[j] = CancelledRow(job[j])
      /\ \A k \in Jobs \ {j} : job'[k] = job[k]
  BY DEF TypeOK, StateOK
<1>5. ASSUME NEW s \in Submissions, state'[s] = "UPLOADED", active'[s] = NoJob
      PROVE  state[s] = "UPLOADED" /\ active[s] = NoJob
  BY <1>5, ConstantsAssumption DEF TypeOK, StateOK, StateAfterCancel, Aggregates
<1> QED
  BY <1>2, <1>3, <1>4, <1>5

LEMMA CancelStep ==
    ASSUME IInv, NEW j \in Jobs, CancelQueued(j) \/ CancelRunning(j)
    PROVE  StepKeepsIInv
<1>1. CASE CancelQueued(j)
  <2> USE <1>1 DEF CancelQueued
  <2>1. job[j].target \in Aggregates /\ job[j] \in JobRow
    BY DEF IInv, TypeOK, StateOK, TableInv, RowsInOrder, UnusedRow, Jobs
  <2>2. /\ job' \in [Jobs -> JobRow]
        /\ StateOK'
        /\ active' \in [Submissions -> Jobs \cup {NoJob}]
        /\ job'[j] = CancelledRow(job[j])
        /\ \A k \in Jobs \ {j} : job'[k] = job[k]
        /\ \A s \in Submissions :
               state'[s] = "UPLOADED" /\ active'[s] = NoJob
                   => state[s] = "UPLOADED" /\ active[s] = NoJob
    BY <2>1, CancellationEffect DEF IInv
  <2>3. TypeOK'
    BY <2>2 DEF IInv, TypeOK, StateOK
  <2>4. RowsStep
    BY <2>1, <2>2, CancelledRowFields DEF RowsStep, RowStep, Settled, KeepsOutcome
  <2>5. \A k \in Jobs : job'[k].status = "SUCCEEDED"
                           => job[k].status = "SUCCEEDED"
    BY <2>1, <2>2, CancelledRowFields
  <2>6. \A v \in Workers : JobOf(v) # NoJob =>
            job'[JobOf(v)].status = job[JobOf(v)].status
    BY <2>2, HeldRowsAreNotQueued
  <2> QED
    BY <2>2, <2>3, <2>4, <2>5, <2>6, ApiStep
<1>2. CASE CancelRunning(j)
  <2> USE <1>2 DEF CancelRunning
  <2>1. TypeOK'
    BY DEF IInv, TypeOK, StateOK, JobRow
  <2>2. RowsStep
    BY DEF IInv, TypeOK, StateOK, RowsStep, RowStep, Settled, KeepsOutcome, JobRow
  <2>3. \A k \in Jobs : job'[k].status = job[k].status
    BY DEF IInv, TypeOK, StateOK, JobRow
  <2>4. \A v \in Workers : JobOf(v) # NoJob => JobOf(v) \in Jobs
    BY HeldRowsAreNotQueued
  <2> QED
    BY <2>1, <2>2, <2>3, <2>4, ApiStep
<1> QED
  BY <1>1, <1>2

-----------------------------------------------------------------------------
\* A running job of a submission is the newest one of its line.
LEMMA RunningIsHead ==
    ASSUME IInv, NEW i \in Jobs, NEW j \in Jobs,
           Unfinished(i), Unfinished(j),
           job[i].target = job[j].target, job[i].target \in Submissions
    PROVE  i = j
<1>1. ~Continued(i) /\ ~Continued(j)
  BY DEF IInv, TableInv, LineageIsLinear, Continued, Unfinished
<1> QED
  BY <1>1 DEF IInv, TableInv, OneHead

LEMMA ReconcileEffect ==
    ASSUME IInv, NEW stale \in SUBSET Orphans, ReconcileStale(stale),
           next' = next
    PROVE  /\ job' \in [Jobs -> JobRow]
           /\ StateOK'
           /\ active' \in [Submissions -> Jobs \cup {NoJob}]
           /\ RowsStep
           /\ \A v \in Workers : JobOf(v) # NoJob =>
                  job'[JobOf(v)].status = job[JobOf(v)].status
           /\ \A j \in Jobs : job'[j].status = "SUCCEEDED"
                             => job[j].status = "SUCCEEDED"
           /\ \A s \in Submissions :
                  state'[s] = "UPLOADED" /\ active'[s] = NoJob
                      => state[s] = "UPLOADED" /\ active[s] = NoJob
<1> USE DEF ReconcileStale, Orphans
<1>1. \A j \in Jobs : job[j] \in JobRow
  BY DEF IInv, TypeOK, StateOK
<1>2. \A j \in stale : /\ j \in Jobs
                        /\ job[j].status = "RUNNING"
                        /\ \A w \in Workers : JobOf(w) # j
  BY DEF JobOf
<1>3. \A j \in Jobs : job'[j] = IF j \in stale THEN ReconciledRow(job[j])
                                              ELSE job[j]
  OBVIOUS
<1>4. ASSUME NEW j \in stale
      PROVE  /\ ReconciledRow(job[j]) \in JobRow
             /\ ReconciledRow(job[j]).target = job[j].target
             /\ ReconciledRow(job[j]).status = "FAILED"
             /\ ReconciledRow(job[j]).control \in {job[j].control, "CANCELLED"}
             /\ ReconciledRow(job[j]).attempt = job[j].attempt
             /\ ReconciledRow(job[j]).source = job[j].source
  BY <1>1, <1>2, FailedRowFields, CancelledRowFields
     DEF ReconciledRow, FailureClasses
<1>5. job' \in [Jobs -> JobRow]
  BY <1>1, <1>4
<1>6. RowsStep
  BY <1>2, <1>3, <1>4 DEF RowsStep, RowStep, Settled, KeepsOutcome
<1>7. /\ StateOK'
      /\ active' \in [Submissions -> Jobs \cup {NoJob}]
  <2>1. ASSUME NEW j \in stale
        PROVE  StateAfterReconcile(j) \in StatesOf(job[j].target)
    <3>1. job[j].target \in Aggregates
      BY <1>2, UsedRow
    <3> QED
      BY <1>2, <3>1, FailureStateIsTyped, CancelStateIsTyped
         DEF StateAfterReconcile, IInv
  <2>2. \A x \in Aggregates : state'[x] \in StatesOf(x)
    BY <2>1 DEF IInv, TypeOK, StateOK
  <2>3. state' \in [Aggregates -> ActivityStates \cup SubmissionStates]
    OBVIOUS
  <2> QED
    BY <2>2, <2>3 DEF IInv, TypeOK, StateOK
<1>8. \A j \in Jobs : job'[j].status = "SUCCEEDED"
                      => job[j].status = "SUCCEEDED"
  BY <1>3, <1>4
<1>9. ASSUME NEW v \in Workers, JobOf(v) # NoJob
      PROVE  job'[JobOf(v)].status = job[JobOf(v)].status
  BY <1>2, <1>3, <1>9, HeldRowsAreNotQueued
<1>10. ASSUME NEW s \in Submissions, state'[s] = "UPLOADED", active'[s] = NoJob
       PROVE  state[s] = "UPLOADED" /\ active[s] = NoJob
  <2>1. CASE \A j \in stale : job[j].target # s
    BY <1>10, <2>1 DEF Aggregates
  <2>2. CASE \E j \in stale : job[j].target = s
    <3>1. PICK j \in stale : /\ job[j].target = s
                             /\ state'[s] = StateAfterReconcile(j)
      BY <2>2 DEF Aggregates
    <3>2. job[j].control # "CANCEL_REQUESTED"
      BY <1>10, <3>1 DEF StateAfterReconcile, StateAfterCancel
    <3>3. state[s] = "UPLOADED"
      BY <1>10, <3>1, <3>2 DEF StateAfterReconcile, StateAfterFailure
    <3>4. \A i \in stale : job[i].target = s => i = j
      BY <1>2, <3>1, RunningIsHead DEF Unfinished
    <3>5. active'[s] = active[s]
      BY <3>2, <3>4
    <3> QED
      BY <1>10, <3>3, <3>5
  <2> QED
    BY <2>1, <2>2
<1> QED
  BY <1>5, <1>6, <1>7, <1>8, <1>9, <1>10

LEMMA PollJobStep ==
    ASSUME IInv, NEW j \in Jobs, PollJob(j)
    PROVE  StepKeepsIInv
<1>1. PICK stale \in SUBSET Orphans : ReconcileStale(stale)
  BY DEF PollJob
<1>2. UNCHANGED <<next, published, dispatch, executions, worker>>
  BY DEF PollJob
<1>3. TypeOK'
  BY <1>1, <1>2, ReconcileEffect DEF IInv, TypeOK, StateOK
<1> QED
  BY <1>1, <1>2, <1>3, ReconcileEffect, ApiStep

-----------------------------------------------------------------------------
\* An execution moves, and changes its own row at most.
LEMMA ExecutionStep ==
    ASSUME IInv, TypeOK', RowsStep, NEW w \in Workers,
           published' = published,
           \A v \in Workers \ {w} : worker'[v] = worker[v],
           \A v \in Workers \ {w} : JobOf(v) # NoJob =>
               job'[JobOf(v)].status = job[JobOf(v)].status,
           JobOf(w)' # NoJob =>
               \A v \in Workers \ {w} : JobOf(v) # JobOf(w)',
           WorkerOK(w)',
           \A j \in Jobs : /\ job[j].target \in Submissions
                          /\ job'[j].status = "SUCCEEDED"
                          => job[j].status = "SUCCEEDED",
           \A s \in Submissions :
               state'[s] = "UPLOADED" /\ active'[s] = NoJob
                   => state[s] = "UPLOADED" /\ active[s] = NoJob
    PROVE  StepKeepsIInv
<1>1. (\A v \in Workers : WorkerOK(v))' /\ NoSharedRow'
  BY OneExecutionMoves
<1>2. NeverRequeued' /\ AssessmentFenced'
  BY StaysNeverRequeued, StaysFenced
<1> QED
  BY <1>1, <1>2 DEF StepKeepsIInv

LEMMA StartExecutionStep ==
    ASSUME IInv, NEW w \in Workers, StartExecution(w)
    PROVE  StepKeepsIInv
<1>1. PICK stale \in SUBSET Orphans : ReconcileStale(stale)
  BY DEF StartExecution
<1>2. next' = next /\ published' = published /\ dispatch' = dispatch
      /\ executions' \in Nat
  BY DEF IInv, TypeOK, StateOK, StartExecution
<1>3. /\ JobOf(w) = NoJob
      /\ worker'[w].job = NoJob
      /\ worker'[w].step = "claim"
      /\ \A v \in Workers \ {w} : worker'[v] = worker[v]
      /\ worker' \in [Workers ->
                          [ job : Jobs \cup {NoJob}, step : WorkerSteps,
                            failure : FailureClasses \cup {"NONE"},
                            stage : 0 .. Stages ]]
  BY DEF IInv, TypeOK, StateOK, WorkerOK, JobOf, WorkerSteps, StartExecution, Goto, At
<1>4. TypeOK'
  BY <1>1, <1>2, <1>3, ReconcileEffect DEF IInv, TypeOK, StateOK
<1>5. JobOf(w)' = NoJob /\ WorkerOK(w)'
  BY <1>3 DEF WorkerOK, JobOf, SubmissionSteps, ActivitySteps
<1>6. /\ RowsStep
      /\ \A v \in Workers \ {w} : JobOf(v) # NoJob =>
             job'[JobOf(v)].status = job[JobOf(v)].status
      /\ \A j \in Jobs : job'[j].status = "SUCCEEDED"
                        => job[j].status = "SUCCEEDED"
      /\ \A s \in Submissions :
             state'[s] = "UPLOADED" /\ active'[s] = NoJob
                 => state[s] = "UPLOADED" /\ active[s] = NoJob
  BY <1>1, <1>2, ReconcileEffect
<1> QED
  BY <1>2, <1>3, <1>4, <1>5, <1>6, ExecutionStep

LEMMA ClaimNextJobStep ==
    ASSUME IInv, NEW w \in Workers, ClaimNextJob(w)
    PROVE  StepKeepsIInv
<1>1. PICK j \in Jobs :
        /\ job[j].status = "QUEUED"
        /\ job[j].attempt < MaxAttempts
        /\ job' = [job EXCEPT ![j] = ClaimedRow(@)]
        /\ worker' = [worker EXCEPT ![w] =
                        [ job |-> j, step |-> "boundary",
                          failure |-> "NONE", stage |-> 0 ]]
  BY DEF ClaimNextJob, Claimable
<1>2. /\ job[j] \in JobRow /\ job[j].target \in Aggregates /\ j < next
  BY <1>1, UsedRow
<1>3. /\ job' \in [Jobs -> JobRow]
      /\ \A k \in Jobs \ {j} : job'[k] = job[k]
      /\ job'[j].status = "RUNNING"
      /\ job'[j].control = job[j].control
      /\ job'[j].attempt = job[j].attempt + 1
      /\ job'[j].target = job[j].target
      /\ job'[j].source = job[j].source
  BY <1>1, <1>2, ClaimedRowFields DEF IInv, TypeOK, StateOK
<1>9. UNCHANGED <<next, state, active, published, dispatch, executions>>
  BY DEF ClaimNextJob
<1>4. /\ \A v \in Workers \ {w} : worker'[v] = worker[v]
      /\ worker'[w] = [ job |-> j, step |-> "boundary",
                        failure |-> "NONE", stage |-> 0 ]
  BY <1>1 DEF IInv, TypeOK, StateOK
<1>5. TypeOK'
  BY <1>1, <1>3, <1>9, ConstantsAssumption
     DEF IInv, TypeOK, StateOK, WorkerSteps, CheckpointSteps
<1>6. RowsStep
  BY <1>1, <1>3, <1>9 DEF RowsStep, RowStep, Settled, KeepsOutcome
<1>7. \A v \in Workers : JobOf(v) # NoJob => JobOf(v) \in Jobs \ {j}
  BY <1>1, HeldRowsAreNotQueued
<1>8. JobOf(w)' = j /\ WorkerOK(w)'
  BY <1>2, <1>3, <1>4, <1>9
     DEF WorkerOK, JobOf, TargetOf, SubmissionSteps, ActivitySteps, Tails,
         NoJob, Jobs
<1> QED
  BY <1>3, <1>4, <1>5, <1>6, <1>7, <1>8, <1>9, ExecutionStep

-----------------------------------------------------------------------------
(***************************************************************************)
(* An execution between its claim and its exit.                            *)
(***************************************************************************)
ExecutionRow ==
    [ job : Jobs \cup {NoJob}, step : WorkerSteps,
      failure : FailureClasses \cup {"NONE"}, stage : 0 .. Stages ]

\* The aggregate is written while active_job_id never becomes null.
AggregateStep ==
    /\ StateOK'
    /\ active' \in [Submissions -> Jobs \cup {NoJob}]
    /\ \A s \in Submissions :
           state'[s] = "UPLOADED" /\ active'[s] = NoJob
               => state[s] = "UPLOADED" /\ active[s] = NoJob

LEMMA SameAggregates ==
    ASSUME IInv, state' = state, active' = active PROVE AggregateStep
  BY DEF IInv, TypeOK, StateOK, AggregateStep

\* It goes on to a step of the same kind, or gives up.
LEMMA ExecutionGoesOn ==
    ASSUME IInv, NEW w \in Workers, AggregateStep,
           UNCHANGED <<job, next, published, dispatch, executions>>,
           NEW execution \in ExecutionRow,
           worker' = [worker EXCEPT ![w] = execution],
           \/ execution = IdleWorker
           \/ /\ execution.job = JobOf(w) /\ JobOf(w) # NoJob
              /\ execution.step \notin {"idle", "claim"}
              /\ execution.step \in SubmissionSteps
                     => TargetOf(w) \in Submissions
              /\ execution.step \in ActivitySteps
                     => TargetOf(w) \in Activities
              /\ execution.step \in Tails <=> worker[w].step \in Tails
              /\ execution.step = "reviewed" <=> worker[w].step = "reviewed"
    PROVE  StepKeepsIInv
<1>1. /\ worker' \in [Workers -> ExecutionRow]
      /\ worker'[w] = execution
      /\ \A v \in Workers \ {w} : worker'[v] = worker[v]
  BY DEF IInv, TypeOK, StateOK, ExecutionRow
<1>2. TypeOK'
  BY <1>1 DEF IInv, TypeOK, StateOK, ExecutionRow, AggregateStep
<1>3. WorkerOK(w)
  BY DEF IInv
<1>4. JobOf(w)' \in {JobOf(w), NoJob} /\ WorkerOK(w)'
  <2>1. CASE execution = IdleWorker
    BY <1>1, <2>1 DEF WorkerOK, JobOf, TargetOf, IdleWorker, SubmissionSteps,
                     ActivitySteps
  <2>2. CASE execution # IdleWorker
    BY <1>1, <1>3, <2>2 DEF WorkerOK, JobOf, TargetOf
  <2> QED
    BY <2>1, <2>2
<1> QED
  BY <1>1, <1>2, <1>4, OnlyExecutionMoves DEF AggregateStep

LEMMA IdleIsExecutionRow == IdleWorker \in ExecutionRow
  BY ConstantsAssumption DEF IdleWorker, ExecutionRow, WorkerSteps

LEMMA ExecutionAt ==
    ASSUME IInv, NEW w \in Workers
    PROVE  /\ worker[w] \in ExecutionRow
           /\ worker[w].step \notin {"idle", "claim"} =>
                  /\ JobOf(w) \in Jobs /\ JobOf(w) # NoJob
                  /\ job[JobOf(w)] \in JobRow
                  /\ TargetOf(w) \in Aggregates
                  /\ WorkerOK(w)
  BY DEF IInv, TypeOK, StateOK, ExecutionRow, WorkerOK, JobOf, NoJob, Jobs

LEMMA StepFields ==
    ASSUME NEW execution \in ExecutionRow, NEW step \in WorkerSteps
    PROVE  /\ [execution EXCEPT !.step = step] \in ExecutionRow
           /\ [execution EXCEPT !.step = step].step = step
           /\ [execution EXCEPT !.step = step].job = execution.job
  BY DEF ExecutionRow

\* Goto(w, step) when it is all that happens to the table and the executions.
LEMMA GotoStep ==
    ASSUME IInv, NEW w \in Workers, NEW step \in WorkerSteps, Goto(w, step),
           UNCHANGED <<job, next, published, dispatch, executions>>,
           AggregateStep,
           worker[w].step \notin {"idle", "claim"},
           step \notin {"idle", "claim"},
           step \in SubmissionSteps => TargetOf(w) \in Submissions,
           step \in ActivitySteps => TargetOf(w) \in Activities,
           step \in Tails <=> worker[w].step \in Tails,
           step = "reviewed" <=> worker[w].step = "reviewed"
    PROVE  StepKeepsIInv
<1> DEFINE execution == [worker[w] EXCEPT !.step = step]
<1>1. /\ execution \in ExecutionRow
      /\ execution.step = step
      /\ execution.job = JobOf(w)
  BY ExecutionAt, StepFields DEF JobOf
<1>2. worker' = [worker EXCEPT ![w] = execution]
  BY DEF Goto
<1>3. JobOf(w) # NoJob
  BY ExecutionAt
<1> HIDE DEF execution
<1> QED
  BY <1>1, <1>2, <1>3, ExecutionGoesOn

LEMMA ExitStep ==
    ASSUME IInv, NEW w \in Workers, Exit(w), AggregateStep,
           UNCHANGED <<job, next, published, dispatch, executions>>
    PROVE  StepKeepsIInv
  BY IdleIsExecutionRow, ExecutionGoesOn DEF Exit

LEMMA DeathStep ==
    ASSUME IInv, NEW w \in Workers, NothingToClaim(w) \/ WorkerCrash(w)
    PROVE  StepKeepsIInv
  BY SameAggregates, ExitStep DEF NothingToClaim, WorkerCrash

LEMMA CheckpointPassesStep ==
    ASSUME IInv, NEW w \in Workers, CheckpointPasses(w)
    PROVE  StepKeepsIInv
<1>1. /\ worker[w].step \in CheckpointSteps
      /\ UNCHANGED <<job, next, state, active, published, dispatch,
                     executions>>
  BY DEF CheckpointPasses
<1>2. AggregateStep
  BY <1>1, SameAggregates
<1>3. CASE At(w, "reviewed")
  BY <1>1, <1>2, <1>3, ExitStep DEF CheckpointPasses
<1>4. CASE ~At(w, "reviewed")
  <2> DEFINE step == AfterCheckpoint(worker[w].step, TargetOf(w))
  <2>1. Goto(w, step)
    BY <1>4 DEF CheckpointPasses
  <2>2. WorkerOK(w) /\ TargetOf(w) \in Aggregates
    BY <1>1, ExecutionAt DEF CheckpointSteps
  <2>3. /\ step \in WorkerSteps \ {"idle", "claim", "reviewed"}
        /\ step \in SubmissionSteps => TargetOf(w) \in Submissions
        /\ step \in ActivitySteps => TargetOf(w) \in Activities
        /\ step \in Tails <=> worker[w].step \in Tails
    BY <1>1, <1>4, <2>2
       DEF AfterCheckpoint, CheckpointSteps, WorkerSteps, SubmissionSteps,
           ActivitySteps, Tails, WorkerOK, At
  <2>4. worker[w].step \notin {"idle", "claim", "reviewed"}
    BY <1>1, <1>4 DEF CheckpointSteps, At
  <2> HIDE DEF step
  <2> QED
    BY <1>1, <1>2, <2>1, <2>3, <2>4, GotoStep
<1> QED
  BY <1>3, <1>4

\* The projection of a step on its aggregate.
LEMMA ProjectionStep ==
    ASSUME IInv, NEW w \in Workers,
           worker[w].step \notin {"idle", "claim"},
           NEW value, value \in StatesOf(TargetOf(w)), value # "UPLOADED",
           state' = [state EXCEPT ![TargetOf(w)] = value],
           active' = active \/ SetActive(TargetOf(w), JobOf(w))
    PROVE  AggregateStep
<1>1. JobOf(w) \in Jobs /\ JobOf(w) # NoJob /\ TargetOf(w) \in Aggregates
  BY ExecutionAt
<1>2. /\ StateOK'
      /\ active' \in [Submissions -> Jobs \cup {NoJob}]
  BY <1>1, WriteIsTyped DEF IInv, TypeOK, SetActive
<1>3. ASSUME NEW s \in Submissions, state'[s] = "UPLOADED", active'[s] = NoJob
      PROVE  state[s] = "UPLOADED" /\ active[s] = NoJob
  <2>1. s \in Aggregates
    BY DEF Aggregates
  <2>2. state[s] = "UPLOADED"
    BY <1>3, <2>1 DEF IInv, TypeOK, StateOK
  <2>3. active[s] = NoJob
    BY <1>1, <1>3 DEF SetActive
  <2> QED
    BY <2>2, <2>3
<1> QED
  BY <1>2, <1>3 DEF AggregateStep

LEMMA StageStep ==
    ASSUME IInv, NEW w \in Workers,
           \/ NextStage(w) \/ StageFails(w) \/ FinalizeConflict(w)
    PROVE  StepKeepsIInv
<1>1. /\ worker[w].step \in {"decide", "finalize"}
      /\ worker[w] \in ExecutionRow
      /\ JobOf(w) # NoJob
  BY ExecutionAt DEF NextStage, StageFails, FinalizeConflict, At
<1>2. /\ UNCHANGED <<job, next, published, dispatch, executions>>
      /\ AggregateStep
  BY SameAggregates DEF NextStage, StageFails, FinalizeConflict
<1>3. CASE NextStage(w)
  <2> DEFINE execution == AtNextStage(worker[w])
  <2>1. worker' = [worker EXCEPT ![w] = execution] /\ worker[w].stage < Stages
    BY <1>3 DEF NextStage
  <2>2. worker[w].stage + 1 \in 0 .. Stages
    BY <1>1, <2>1, ConstantsAssumption DEF ExecutionRow
  <2>3. /\ execution \in ExecutionRow
        /\ execution.step = "boundary"
        /\ execution.job = JobOf(w)
    BY <1>1, <2>2 DEF AtNextStage, ExecutionRow, WorkerSteps, CheckpointSteps,
                     JobOf
  <2> HIDE DEF execution
  <2> QED
    BY <1>1, <1>2, <2>1, <2>3, ExecutionGoesOn
       DEF SubmissionSteps, ActivitySteps, Tails
<1>4. CASE StageFails(w) \/ FinalizeConflict(w)
  <2>1. PICK class \in FailureClasses :
          worker' = [worker EXCEPT ![w] = Failing(@, class)]
    BY <1>4 DEF StageFails, FinalizeConflict, FailureClasses
  <2> DEFINE execution == Failing(worker[w], class)
  <2>2. worker' = [worker EXCEPT ![w] = execution]
    BY <2>1
  <2>3. /\ execution \in ExecutionRow
        /\ execution.step = "fail"
        /\ execution.job = JobOf(w)
    BY <1>1 DEF Failing, ExecutionRow, WorkerSteps, CheckpointSteps, JobOf
  <2> HIDE DEF execution
  <2> QED
    BY <1>1, <1>2, <2>2, <2>3, ExecutionGoesOn
       DEF SubmissionSteps, ActivitySteps, Tails
<1> QED
  BY <1>3, <1>4

LEMMA BranchStep ==
    ASSUME IInv, NEW w \in Workers,
           \/ StageNeedsReview(w) \/ PipelineDone(w) \/ CheckSucceeded(w)
    PROVE  StepKeepsIInv
<1>1. /\ UNCHANGED <<job, next, published, dispatch, executions>>
      /\ AggregateStep
  BY SameAggregates DEF StageNeedsReview, PipelineDone, CheckSucceeded
<1>2. worker[w].step \in {"decide", "complete_check"}
  BY DEF StageNeedsReview, PipelineDone, CheckSucceeded, At
<1>3. /\ TargetOf(w) \in Aggregates
      /\ worker[w].step = "complete_check" => TargetOf(w) \in Activities
  BY <1>2, ExecutionAt DEF WorkerOK, ActivitySteps
<1>4. PICK step \in {"review", "review_project", "finalize", "ready",
                     "complete_save", "complete"} :
        /\ Goto(w, step)
        /\ step = "finalize" => TargetOf(w) \in Submissions
        /\ step \in {"ready", "complete_save", "complete"}
              => TargetOf(w) \in Activities
  BY <1>3 DEF StageNeedsReview, PipelineDone, CheckSucceeded, Aggregates, At
<1> QED
  BY <1>1, <1>2, <1>4, GotoStep
     DEF WorkerSteps, CheckpointSteps, SubmissionSteps, ActivitySteps, Tails

LEMMA ProjectStep ==
    ASSUME IInv, NEW w \in Workers,
           \/ ProjectStage(w) \/ ProjectReview(w) \/ ProjectReady(w)
           \/ ProjectFailure(w)
    PROVE  StepKeepsIInv
<1> USE DEF ProjectStage, ProjectReview, ProjectReady, ProjectFailure
<1>1. /\ UNCHANGED <<job, next, published, dispatch, executions>>
      /\ worker[w].step \in {"project", "review_project", "ready",
                             "fail_project"}
  BY DEF At
<1>2. AggregateStep
  <2>1. PICK value \in {"PROCESSING", "STOPPED", "NEEDS_REVIEW",
                        "BLUEPRINT_READY", "TECHNICAL_FAILURE"} :
          /\ state' = [state EXCEPT ![TargetOf(w)] = value]
          /\ value \in StatesOf(TargetOf(w))
    <3>1. WorkerOK(w) /\ TargetOf(w) \in Aggregates
      BY <1>1, ExecutionAt
    <3> QED
      BY <3>1, ConstantsAssumption
         DEF At, WorkerOK, SubmissionSteps, ActivitySteps, StatesOf,
             ActivityStates, SubmissionStates, Aggregates
  <2>2. active' = active \/ SetActive(TargetOf(w), JobOf(w))
    OBVIOUS
  <2> QED
    BY <1>1, <2>1, <2>2, ProjectionStep
<1>3. CASE ProjectFailure(w)
  BY <1>1, <1>2, <1>3, ExitStep
<1>4. CASE ProjectStage(w) \/ ProjectReview(w) \/ ProjectReady(w)
  <2>1. WorkerOK(w)
    BY DEF IInv
  <2>2. PICK step \in {"projected", "review_save", "review", "complete"} :
          /\ Goto(w, step)
          /\ step = "projected" => TargetOf(w) \in Submissions
          /\ step = "complete" => TargetOf(w) \in Activities
    BY <1>4, <2>1 DEF At, WorkerOK, SubmissionSteps, ActivitySteps
  <2>3. worker[w].step \notin Tails
    BY <1>4 DEF At, Tails
  <2> QED
    BY <1>1, <1>2, <2>2, <2>3, GotoStep
       DEF WorkerSteps, CheckpointSteps, SubmissionSteps, ActivitySteps, Tails
<1> QED
  BY <1>3, <1>4

\* An execution writes its own row: nobody else holds it.
LEMMA OwnRowStep ==
    ASSUME IInv, NEW w \in Workers, NEW row \in JobRow,
           worker[w].step \notin {"idle", "claim"},
           job' = [job EXCEPT ![JobOf(w)] = row],
           UNCHANGED <<next, published, dispatch, executions>>,
           row.target = TargetOf(w),
           row.source = job[JobOf(w)].source,
           row.attempt = job[JobOf(w)].attempt,
           row.status \in {"FAILED", "NEEDS_REVIEW", "SUCCEEDED"},
           job[JobOf(w)].status # "RUNNING" =>
               \/ /\ row.status = job[JobOf(w)].status
                  /\ row.control = job[JobOf(w)].control
               \/ /\ job[JobOf(w)].control = "CANCEL_REQUESTED"
                  /\ row.control = "CANCELLED",
           row.status = "SUCCEEDED" => TargetOf(w) \in Activities,
           row.control \in {job[JobOf(w)].control, "CANCELLED"},
           row.control = "CANCELLED" =>
               job[JobOf(w)].control = "CANCELLED" \/ row.status = "FAILED",
           AggregateStep,
           NEW execution \in ExecutionRow,
           worker' = [worker EXCEPT ![w] = execution],
           \/ execution = IdleWorker
           \/ /\ execution.job = JobOf(w)
              /\ execution.step \in Tails /\ row.status = "FAILED"
           \/ /\ execution.job = JobOf(w)
              /\ execution.step = "reviewed" /\ row.status = "NEEDS_REVIEW"
    PROVE  StepKeepsIInv
<1>1. /\ JobOf(w) \in Jobs /\ JobOf(w) # NoJob
      /\ WorkerOK(w)
      /\ job[JobOf(w)].status \in {"RUNNING", "FAILED", "NEEDS_REVIEW"}
      /\ TargetOf(w) \in Aggregates
      /\ JobOf(w) < next
  BY ExecutionAt, HeldRowsAreNotQueued DEF WorkerOK
<1>2. /\ job' \in [Jobs -> JobRow]
      /\ job'[JobOf(w)] = row
      /\ \A j \in Jobs \ {JobOf(w)} : job'[j] = job[j]
  BY <1>1 DEF IInv, TypeOK, StateOK
<1>3. /\ worker' \in [Workers -> ExecutionRow]
      /\ worker'[w] = execution
      /\ \A v \in Workers \ {w} : worker'[v] = worker[v]
  BY DEF IInv, TypeOK, StateOK, ExecutionRow
<1>4. TypeOK'
  BY <1>2, <1>3 DEF IInv, TypeOK, StateOK, ExecutionRow, AggregateStep
<1>5. RowsStep
  BY <1>1, <1>2 DEF RowsStep, RowStep, Settled, KeepsOutcome, TargetOf
<1>6. ASSUME NEW v \in Workers \ {w}, JobOf(v) # NoJob
      PROVE  /\ JobOf(v) # JobOf(w)
             /\ job'[JobOf(v)].status = job[JobOf(v)].status
  BY <1>1, <1>2, <1>6, ExecutionAt, HeldRowsAreNotQueued
     DEF IInv, NoSharedRow
<1>7. JobOf(w)' \in {JobOf(w), NoJob} /\ WorkerOK(w)'
  <2>1. CASE execution = IdleWorker
    BY <1>3, <2>1 DEF WorkerOK, JobOf, TargetOf, IdleWorker, SubmissionSteps,
                     ActivitySteps
  <2>2. CASE execution # IdleWorker
    BY <1>1, <1>2, <1>3, <2>2
       DEF WorkerOK, JobOf, TargetOf, Tails, SubmissionSteps, ActivitySteps
  <2> QED
    BY <2>1, <2>2
<1>8. JobOf(w)' # NoJob => \A v \in Workers \ {w} : JobOf(v) # JobOf(w)'
  BY <1>1, <1>6, <1>7
<1>9. ASSUME NEW j \in Jobs, job[j].target \in Submissions,
             job'[j].status = "SUCCEEDED"
      PROVE  job[j].status = "SUCCEEDED"
  BY <1>2, <1>9, ConstantsAssumption DEF TargetOf
<1> QED
  BY <1>3, <1>4, <1>5, <1>6, <1>7, <1>8, <1>9, ExecutionStep
     DEF AggregateStep

LEMMA StatusFields ==
    ASSUME NEW row \in JobRow, NEW status \in {"FAILED", "NEEDS_REVIEW"}
    PROVE  /\ [row EXCEPT !.status = status] \in JobRow
           /\ [row EXCEPT !.status = status].target = row.target
           /\ [row EXCEPT !.status = status].status = status
           /\ [row EXCEPT !.status = status].control = row.control
           /\ [row EXCEPT !.status = status].attempt = row.attempt
           /\ [row EXCEPT !.status = status].source = row.source
  BY DEF JobRow

LEMMA FailureFields ==
    ASSUME NEW row \in JobRow, NEW class \in FailureClasses \cup {"NONE"}
    PROVE  /\ [row EXCEPT !.failure = class] \in JobRow
           /\ [row EXCEPT !.failure = class].target = row.target
           /\ [row EXCEPT !.failure = class].status = row.status
           /\ [row EXCEPT !.failure = class].control = row.control
           /\ [row EXCEPT !.failure = class].attempt = row.attempt
           /\ [row EXCEPT !.failure = class].source = row.source
  BY DEF JobRow

LEMMA SaveStatusStep ==
    ASSUME IInv, NEW w \in Workers, SaveFailed(w) \/ SaveNeedsReview(w)
    PROVE  StepKeepsIInv
<1> DEFINE status == IF At(w, "fail_save") THEN "FAILED" ELSE "NEEDS_REVIEW"
           step == IF At(w, "fail_save") THEN "fail_saved" ELSE "reviewed"
           row == [job[JobOf(w)] EXCEPT !.status = status]
           execution == [worker[w] EXCEPT !.step = step]
<1>1. /\ worker[w].step \in {"fail_save", "review_save"}
      /\ UNCHANGED <<next, state, active, published, dispatch, executions>>
      /\ job' = [job EXCEPT ![JobOf(w)] = row]
      /\ worker' = [worker EXCEPT ![w] = execution]
  BY DEF SaveFailed, SaveNeedsReview, At, Goto
<1>2. /\ status \in {"FAILED", "NEEDS_REVIEW"}
      /\ step \in WorkerSteps
      /\ \/ step = "fail_saved" /\ status = "FAILED"
         \/ step = "reviewed" /\ status = "NEEDS_REVIEW"
  BY DEF WorkerSteps, CheckpointSteps
<1> HIDE DEF status, step
<1>3. /\ worker[w] \in ExecutionRow
      /\ job[JobOf(w)] \in JobRow
      /\ job[JobOf(w)].status = "RUNNING"
  BY <1>1, ExecutionAt DEF WorkerOK, Tails
<1>4. /\ row \in JobRow
      /\ row.target = TargetOf(w)
      /\ row.status = status
      /\ row.control = job[JobOf(w)].control
      /\ row.attempt = job[JobOf(w)].attempt
      /\ row.source = job[JobOf(w)].source
  BY <1>2, <1>3, StatusFields DEF TargetOf
<1>5. /\ execution \in ExecutionRow
      /\ execution.step = step
      /\ execution.job = JobOf(w)
  BY <1>2, <1>3, StepFields DEF JobOf
<1> HIDE DEF row, execution
<1> QED
  BY <1>1, <1>2, <1>3, <1>4, <1>5, SameAggregates, OwnRowStep DEF Tails

LEMMA SaveFailureClassStep ==
    ASSUME IInv, NEW w \in Workers, SaveFailureClass(w)
    PROVE  StepKeepsIInv
<1> DEFINE row == [job[JobOf(w)] EXCEPT !.failure = worker[w].failure]
           execution == [worker[w] EXCEPT !.step = "fail_project"]
<1>1. /\ worker[w].step = "fail_class"
      /\ UNCHANGED <<next, state, active, published, dispatch, executions>>
      /\ job' = [job EXCEPT ![JobOf(w)] = row]
      /\ worker' = [worker EXCEPT ![w] = execution]
  BY DEF SaveFailureClass, At, Goto
<1>2. /\ worker[w] \in ExecutionRow
      /\ job[JobOf(w)] \in JobRow
      /\ job[JobOf(w)].status = "FAILED"
      /\ worker[w].failure \in FailureClasses \cup {"NONE"}
  BY <1>1, ExecutionAt DEF WorkerOK, Tails, ExecutionRow
<1>3. /\ row \in JobRow
      /\ row.target = TargetOf(w)
      /\ row.status = "FAILED"
      /\ row.control = job[JobOf(w)].control
      /\ row.attempt = job[JobOf(w)].attempt
      /\ row.source = job[JobOf(w)].source
  BY <1>2, FailureFields DEF TargetOf
<1>4. /\ execution \in ExecutionRow
      /\ execution.step = "fail_project"
      /\ execution.job = JobOf(w)
  BY <1>2, StepFields DEF JobOf, WorkerSteps
<1> HIDE DEF row, execution
<1> QED
  BY <1>1, <1>2, <1>3, <1>4, SameAggregates, OwnRowStep DEF Tails

LEMMA SaveSucceededStep ==
    ASSUME IInv, NEW w \in Workers, SaveSucceeded(w)
    PROVE  StepKeepsIInv
<1> DEFINE row == SucceededRow(job[JobOf(w)])
<1>1. /\ worker[w].step = "complete_save"
      /\ UNCHANGED <<next, state, active, published, dispatch, executions>>
      /\ job' = [job EXCEPT ![JobOf(w)] = row]
      /\ worker' = [worker EXCEPT ![w] = IdleWorker]
  BY DEF SaveSucceeded, At, Exit
<1>2. /\ job[JobOf(w)] \in JobRow
      /\ job[JobOf(w)].status = "RUNNING"
      /\ TargetOf(w) \in Activities
  BY <1>1, ExecutionAt DEF WorkerOK, Tails, ActivitySteps
<1>3. /\ row \in JobRow
      /\ row.target = TargetOf(w)
      /\ row.status = "SUCCEEDED"
      /\ row.control = job[JobOf(w)].control
      /\ row.attempt = job[JobOf(w)].attempt
      /\ row.source = job[JobOf(w)].source
  BY <1>2, SucceededRowFields DEF TargetOf
<1> HIDE DEF row
<1> QED
  BY <1>1, <1>2, <1>3, SameAggregates, IdleIsExecutionRow, OwnRowStep

LEMMA WorkerCancelsStep ==
    ASSUME IInv, NEW w \in Workers,
           CheckpointCancels(w) \/ FinalizeCancelled(w)
    PROVE  StepKeepsIInv
<1> DEFINE row == CancelledRow(job[JobOf(w)])
<1>1. /\ worker[w].step \in CheckpointSteps \cup {"finalize"}
      /\ UNCHANGED <<next, published, dispatch, executions>>
      /\ AcknowledgeCancel(w)
      /\ worker' = [worker EXCEPT ![w] = IdleWorker]
  BY DEF CheckpointCancels, FinalizeCancelled, At, Exit
<1>2. worker[w].step \notin {"idle", "claim"}
  BY <1>1 DEF CheckpointSteps
<1>3. CASE job[JobOf(w)].control # "CANCEL_REQUESTED"
  BY <1>1, <1>3, SameAggregates, ExitStep DEF AcknowledgeCancel, Exit
<1>4. CASE job[JobOf(w)].control = "CANCEL_REQUESTED"
  <2>1. /\ JobOf(w) \in Jobs
        /\ job[JobOf(w)] \in JobRow
        /\ TargetOf(w) \in Aggregates
    BY <1>2, ExecutionAt
  <2>2. CompleteCancellation(JobOf(w))
    BY <1>1, <1>4 DEF AcknowledgeCancel
  <2>3. AggregateStep
    BY <2>1, <2>2, CancellationEffect DEF IInv, AggregateStep, TargetOf
  <2>4. job' = [job EXCEPT ![JobOf(w)] = row]
    BY <2>2 DEF CompleteCancellation
  <2>5. /\ row \in JobRow
        /\ row.target = TargetOf(w)
        /\ row.status = "FAILED"
        /\ row.control = "CANCELLED"
        /\ row.attempt = job[JobOf(w)].attempt
        /\ row.source = job[JobOf(w)].source
    BY <2>1, CancelledRowFields DEF TargetOf
  <2> HIDE DEF row
  <2> QED
    BY <1>1, <1>2, <1>4, <2>3, <2>4, <2>5, IdleIsExecutionRow, OwnRowStep
<1> QED
  BY <1>3, <1>4

LEMMA PublishStep ==
    ASSUME IInv, NEW w \in Workers, Publish(w)
    PROVE  StepKeepsIInv
<1> DEFINE j == JobOf(w)
           s == TargetOf(w)
           row == SucceededRow(job[j])
<1>1. /\ worker[w].step = "finalize"
      /\ job[j].control = "ACTIVE" /\ job[j].status = "RUNNING"
      /\ active[s] = j
      /\ job' = [job EXCEPT ![j] = row]
      /\ state' = [state EXCEPT ![s] = "NEEDS_REVIEW"]
      /\ published' = [published EXCEPT ![s] = j]
      /\ worker' = [worker EXCEPT ![w] = IdleWorker]
      /\ UNCHANGED <<next, active, dispatch, executions>>
  BY DEF Publish, At, Exit
<1>2. /\ j \in Jobs /\ j # NoJob
      /\ job[j] \in JobRow
      /\ s \in Submissions /\ s \in Aggregates
      /\ job[j].target = s
  BY <1>1, ExecutionAt DEF WorkerOK, SubmissionSteps, TargetOf
<1>3. /\ row \in JobRow
      /\ row.target = s
      /\ row.status = "SUCCEEDED"
      /\ row.control = "ACTIVE"
      /\ row.attempt = job[j].attempt
      /\ row.source = job[j].source
  BY <1>1, <1>2, SucceededRowFields DEF TargetOf
<1>4. /\ job' \in [Jobs -> JobRow]
      /\ job'[j] = row
      /\ \A k \in Jobs \ {j} : job'[k] = job[k]
  BY <1>1, <1>2, <1>3 DEF IInv, TypeOK, StateOK
<1>5. AggregateStep
  BY <1>1, <1>2, ConstantsAssumption, ProjectionStep
     DEF StatesOf, SubmissionStates
<1>6. /\ worker' \in [Workers -> ExecutionRow]
      /\ worker'[w] = IdleWorker
      /\ \A v \in Workers \ {w} : worker'[v] = worker[v]
  BY <1>1, IdleIsExecutionRow DEF IInv, TypeOK, StateOK, ExecutionRow
<1> HIDE DEF j, s, row
<1>7. TypeOK'
  BY <1>1, <1>2, <1>4, <1>5, <1>6 DEF IInv, TypeOK, StateOK, ExecutionRow, AggregateStep
<1>8. RowsStep
  BY <1>1, <1>2, <1>3, <1>4 DEF RowsStep, RowStep, Settled, KeepsOutcome
<1>9. ASSUME NEW v \in Workers \ {w}, JobOf(v) # NoJob
      PROVE  job'[JobOf(v)].status = job[JobOf(v)].status
  <2>1. JobOf(v) \in Jobs
    BY <1>9, HeldRowsAreNotQueued
  <2>2. JobOf(v) # j
    BY <1>2, <1>9 DEF IInv, NoSharedRow, j
  <2> QED
    BY <1>4, <2>1, <2>2
<1>10. JobOf(w)' = NoJob /\ WorkerOK(w)'
  BY <1>6 DEF WorkerOK, JobOf, TargetOf, IdleWorker, SubmissionSteps,
             ActivitySteps
<1>11. (\A v \in Workers : WorkerOK(v))' /\ NoSharedRow'
  BY <1>6, <1>8, <1>9, <1>10, OneExecutionMoves
<1>12. NeverRequeued'
  BY <1>5, <1>8, StaysNeverRequeued DEF AggregateStep
<1>13. AssessmentFenced'
  <2>1. published[s] = NoJob
    <3>1. ASSUME published[s] # NoJob PROVE FALSE
      <4>1. /\ published[s] \in Jobs
            /\ job[published[s]].target = s
            /\ job[published[s]].status = "SUCCEEDED"
        BY <1>2, <3>1 DEF IInv, TypeOK, StateOK, AssessmentFenced
      <4>2. ~Continued(published[s]) /\ ~Continued(j)
        BY <1>1, <1>2, <4>1
           DEF IInv, TableInv, LineageIsLinear, Continued
      <4>3. published[s] = j
        BY <1>2, <4>1, <4>2 DEF IInv, TableInv, OneHead
      <4> QED
        BY <1>1, <4>1, <4>3
    <3> QED
      BY <3>1
  <2>2. ASSUME NEW r \in Submissions, published'[r] # NoJob
        PROVE  /\ job'[published'[r]].target = r
               /\ job'[published'[r]].status = "SUCCEEDED"
               /\ job'[published'[r]].control = "ACTIVE"
    <3>1. CASE r = s
      BY <1>1, <1>2, <1>3, <1>4, <3>1 DEF IInv, TypeOK, StateOK
    <3>2. CASE r # s
      <4>1. /\ published'[r] = published[r] /\ published[r] \in Jobs
            /\ job[published[r]].target = r
            /\ job[published[r]].status = "SUCCEEDED"
            /\ job[published[r]].control = "ACTIVE"
        BY <1>1, <2>2, <3>2 DEF IInv, TypeOK, StateOK, AssessmentFenced
      <4> QED
        BY <1>1, <1>4, <4>1
    <3> QED
      BY <3>1, <3>2
  <2>3. ASSUME NEW k \in Jobs, job'[k].target \in Submissions,
               job'[k].status = "SUCCEEDED"
        PROVE  published'[job'[k].target] = k
    <3>1. CASE k = j
      BY <1>1, <1>2, <1>3, <1>4, <3>1 DEF IInv, TypeOK, StateOK
    <3>2. CASE k # j
      <4>1. /\ job'[k] = job[k]
            /\ published[job[k].target] = k
        BY <1>4, <2>3, <3>2 DEF IInv, AssessmentFenced
      <4>2. job[k].target # s
        BY <2>1, <4>1 DEF NoJob, Jobs
      <4> QED
        BY <1>1, <2>3, <4>1, <4>2 DEF IInv, TypeOK, StateOK
    <3> QED
      BY <3>1, <3>2
  <2> QED
    BY <2>2, <2>3 DEF AssessmentFenced
<1> QED
  BY <1>7, <1>8, <1>11, <1>12, <1>13 DEF StepKeepsIInv

-----------------------------------------------------------------------------
(***************************************************************************)
(* The theorems.                                                           *)
(***************************************************************************)
LEMMA InitEstablishesIInv ==
    Init => IInv
<1> SUFFICES ASSUME Init PROVE IInv
  OBVIOUS
<1> USE ConstantsAssumption DEF Init, NoJob
<1>1. \A j \in Jobs : job[j] = UnusedRow
  OBVIOUS
<1>2. \A j \in Jobs : /\ j \in Nat /\ j >= 1
                     /\ job[j].target = None /\ job[j].source = 0
                     /\ job[j].status = "UNUSED"
  BY <1>1 DEF UnusedRow, Jobs
<1>3. None \notin Submissions
  BY DEF Aggregates
<1>4. TypeOK
  <2>1. UnusedRow \in JobRow
    BY DEF UnusedRow, JobRow
  <2>2. next \in 1 .. MaxJobs + 1
    OBVIOUS
  <2>3. IdleWorker \in ExecutionRow
    BY IdleIsExecutionRow
  <2>4. StateOK
    BY DEF StateOK, StatesOf, ActivityStates, SubmissionStates, Aggregates
  <2> QED
    BY <2>1, <2>2, <2>3, <2>4 DEF TypeOK, ExecutionRow
<1>5. TableInv
  <2>1. RowsInOrder
    BY <1>1, <1>2 DEF RowsInOrder, Jobs
  <2>2. LineageIsLinear /\ QueuedKeepsAttempt
    BY <1>2 DEF LineageIsLinear, QueuedKeepsAttempt
  <2>3. OneHead
    BY <1>2, <1>3 DEF OneHead
  <2> QED
    BY <2>1, <2>2, <2>3 DEF TableInv
<1>6. (\A w \in Workers : WorkerOK(w)) /\ NoSharedRow
  BY DEF WorkerOK, NoSharedRow, JobOf, IdleWorker, SubmissionSteps,
         ActivitySteps
<1>7. NeverRequeued /\ AssessmentFenced
  BY <1>2, <1>3 DEF NeverRequeued, AssessmentFenced
<1> QED
  BY <1>4, <1>5, <1>6, <1>7 DEF IInv

LEMMA StutterStep ==
    ASSUME IInv, UNCHANGED vars PROVE StepKeepsIInv
<1>1. TypeOK' /\ UNCHANGED <<job, next, state, active, published, worker>>
  BY DEF IInv, TypeOK, StateOK, vars
<1> QED
  BY <1>1, OnlyCallsChange

LEMMA EveryStep ==
    ASSUME IInv, [Next]_vars PROVE StepKeepsIInv
<1>1. ASSUME NEW a \in Activities, EnqueueActivity(a) PROVE StepKeepsIInv
  BY <1>1, EnqueueActivityStep
<1>2. ASSUME NEW s \in Submissions, EnqueueSubmission(s) PROVE StepKeepsIInv
  BY <1>2, EnqueueSubmissionStep
<1>3. ASSUME NEW j \in Jobs,
             Call(j) \/ ApiCrash(j) \/ Control(j) \/ PollJob(j)
      PROVE  StepKeepsIInv
  BY <1>3, ExecutorStep, DispatchRaisesStep, CancelStep, ContinuationStep,
     PollJobStep
     DEF Call, Control
<1>4. ASSUME NEW w \in Workers, StartExecution(w) \/ WorkerCrash(w)
      PROVE  StepKeepsIInv
  BY <1>4, StartExecutionStep, DeathStep
<1>5. ASSUME NEW w \in Workers, Process(w), ~Settle(w) PROVE StepKeepsIInv
  BY <1>5, ClaimNextJobStep, DeathStep, CheckpointPassesStep,
     WorkerCancelsStep, ProjectStep, StageStep, BranchStep
     DEF Process
<1>6. ASSUME NEW w \in Workers, Settle(w) PROVE StepKeepsIInv
  BY <1>6, SaveStatusStep, SaveFailureClassStep, ProjectStep, BranchStep,
     SaveSucceededStep, PublishStep, WorkerCancelsStep, StageStep
     DEF Settle
<1>7. CASE ExecutionLost
  BY <1>7, ExecutorStep
<1>8. CASE UNCHANGED vars
  BY <1>8, StutterStep
<1> QED
  BY <1>1, <1>2, <1>3, <1>4, <1>5, <1>6, <1>7, <1>8 DEF Next

LEMMA IInvIsInductive ==
    IInv /\ [Next]_vars => IInv'
<1> SUFFICES ASSUME IInv, [Next]_vars PROVE IInv'
  OBVIOUS
<1>1. StepKeepsIInv
  BY EveryStep
<1>2. TableInv'
  BY <1>1, RowsStepKeepsTable, InsertionKeepsTable DEF StepKeepsIInv, IInv
<1> QED
  BY <1>1, <1>2 DEF StepKeepsIInv, IInv

\* The inductive invariant holds in every reachable state.
THEOREM InductiveInvariant == Spec => []IInv
  BY InitEstablishesIInv, IInvIsInductive, PTL DEF Spec

\* Every variable keeps its type: no action writes a value the columns do not
\* have, whatever the order of API calls, executions and deaths.
THEOREM TypeCorrect == Spec => []TypeOK
<1>1. IInv => TypeOK
  BY DEF IInv
<1> QED
  BY <1>1, InductiveInvariant, PTL

\* A submission never has two jobs that are queued or running, in any order of
\* enqueue, cancel, retry, resume, lease expiry and crash.
THEOREM OneRunPerSubmission == Spec => []SubmissionSingleFlight
<1>1. IInv => SubmissionSingleFlight
  BY RunningIsHead DEF SubmissionSingleFlight, SingleFlight
<1> QED
  BY <1>1, InductiveInvariant, PTL

\* No two executions work on one row, and nobody but its execution settles the
\* row of an execution that is still working.
THEOREM ClaimsAreExclusive == Spec => []ClaimIsExclusive
<1>1. IInv => ClaimIsExclusive
  BY ExecutionsAreExclusive
<1> QED
  BY <1>1, InductiveInvariant, PTL

\* The assessment of a submission is published by one job, which succeeded and
\* was never cancelled, and is never replaced by another job.
THEOREM AssessmentsAreFenced == Spec => []AssessmentFenced
<1>1. IInv => AssessmentFenced
  BY DEF IInv
<1> QED
  BY <1>1, InductiveInvariant, PTL

\* Retries and resumes of a job never fan out, and a continuation inherits
\* what its source consumed.
THEOREM LineagesAreLinear == Spec => []LineageIsLinear
<1>1. IInv => LineageIsLinear
  BY DEF IInv, TableInv
<1> QED
  BY <1>1, InductiveInvariant, PTL

\* No step reopens a settled job, or changes its outcome, except the worker
\* that acknowledges a cancellation which arrived while it was settling.
THEOREM SettledJobsAreFinal == Spec => SettledIsFinal
<1>1. ASSUME IInv, [Next]_vars PROVE OutcomesKept
  <2>1. CASE RowsStep
    BY <2>1 DEF RowsStep, RowStep, OutcomesKept
  <2>2. CASE Insertion
    <3>1. TypeOK /\ TableInv
      BY <1>1 DEF IInv
    <3>2. /\ job[next].status = "UNUSED"
          /\ \A j \in Jobs \ {next} : job'[j] = job[j]
      BY <2>2, <3>1, InsertedRow DEF UnusedRow
    <3> QED
      BY <3>2 DEF Settled, OutcomesKept, KeepsOutcome
  <2> QED
    BY <1>1, <2>1, <2>2, EveryStep DEF StepKeepsIInv
<1>2. IInv /\ [Next]_vars => [OutcomesKept]_vars
  BY <1>1
<1> QED
  BY <1>2, InductiveInvariant, PTL DEF Spec, SettledIsFinal

-----------------------------------------------------------------------------
(***************************************************************************)
(* An activity is not stranded in QUEUED.                                  *)
(***************************************************************************)
\* Steps of the API and of the lease, which move no execution that has a row.
LEMMA OthersKeepActivity ==
    ASSUME IInv, ActivityInv,
           \A v \in Workers : JobOf(v) # NoJob =>
               /\ worker'[v] = worker[v]
               /\ job'[JobOf(v)].target = job[JobOf(v)].target
               /\ job'[JobOf(v)].control = "CANCELLED"
                      => job[JobOf(v)].control = "CANCELLED",
           \A v \in Workers : JobOf(v) = NoJob => JobOf(v)' = NoJob,
           \A a \in Activities : state'[a] = "QUEUED" =>
               \/ WillProject(a)'
               \/ /\ state[a] = "QUEUED"
                  /\ \A j \in Jobs :
                       job[j].target = a /\ job[j].status = "QUEUED"
                         => job'[j].target = a /\ job'[j].status = "QUEUED"
    PROVE  ActivityInv'
<1>1. HeldNotCancelled'
  BY DEF ActivityInv, HeldNotCancelled, JobOf
<1>2. ASSUME NEW a \in Activities, state'[a] = "QUEUED", ~WillProject(a)'
      PROVE  FALSE
  <2>1. PICK j \in Jobs :
          /\ job[j].target = a
          /\ \/ job[j].status = "QUEUED"
             \/ \E w \in Workers : /\ JobOf(w) = j
                                   /\ worker[w].step \in StepsBeforeProjection
    BY <1>2 DEF ActivityInv, WillProject
  <2>2. CASE job[j].status = "QUEUED"
    BY <1>2, <2>1, <2>2 DEF WillProject
  <2>3. CASE \E w \in Workers : /\ JobOf(w) = j
                                /\ worker[w].step \in StepsBeforeProjection
    <3>1. PICK w \in Workers : /\ JobOf(w) = j
                               /\ worker[w].step \in StepsBeforeProjection
      BY <2>3
    <3>2. j # NoJob
      BY DEF Jobs, NoJob
    <3>3. worker'[w] = worker[w] /\ job'[j].target = a
      BY <2>1, <3>1, <3>2
    <3> QED
      BY <1>2, <3>1, <3>3 DEF WillProject, JobOf
  <2> QED
    BY <2>1, <2>2, <2>3
<1> QED
  BY <1>1, <1>2 DEF ActivityInv

\* A step of an execution that has a row.
LEMMA MoveKeepsActivity ==
    ASSUME IInv, ActivityInv, NEW w \in Workers, JobOf(w) # NoJob,
           \A v \in Workers \ {w} : worker'[v] = worker[v],
           \A j \in Jobs : /\ job'[j].target = job[j].target
                           /\ job[j].status = "QUEUED" => job'[j] = job[j],
           \A v \in Workers \ {w} : JobOf(v) # NoJob =>
               job'[JobOf(v)] = job[JobOf(v)],
           \/ JobOf(w)' = NoJob
           \/ /\ JobOf(w)' = JobOf(w)
              /\ job'[JobOf(w)].control = job[JobOf(w)].control,
           \A a \in Activities : state'[a] = "QUEUED" =>
               /\ state[a] = "QUEUED"
               /\ a = TargetOf(w)
                  /\ worker[w].step \in StepsBeforeProjection
                    => /\ JobOf(w)' = JobOf(w)
                       /\ worker'[w].step \in StepsBeforeProjection
    PROVE  ActivityInv'
<1>1. ASSUME NEW v \in Workers, JobOf(v)' # NoJob
      PROVE  (job[JobOf(v)].control # "CANCELLED")'
  BY <1>1 DEF ActivityInv, HeldNotCancelled, JobOf
<1>2. ASSUME NEW a \in Activities, state'[a] = "QUEUED"
      PROVE  WillProject(a)'
  <2>1. PICK j \in Jobs :
          /\ job[j].target = a
          /\ \/ job[j].status = "QUEUED"
             \/ \E v \in Workers : /\ JobOf(v) = j
                                   /\ worker[v].step \in StepsBeforeProjection
    BY <1>2 DEF ActivityInv, WillProject
  <2>2. job'[j].target = a
    BY <2>1
  <2>3. CASE job[j].status = "QUEUED"
    BY <2>2, <2>3 DEF WillProject
  <2>4. CASE \E v \in Workers : /\ JobOf(v) = j
                                /\ worker[v].step \in StepsBeforeProjection
    <3>1. PICK v \in Workers : /\ JobOf(v) = j
                               /\ worker[v].step \in StepsBeforeProjection
      BY <2>4
    <3>2. JobOf(v)' = j /\ worker'[v].step \in StepsBeforeProjection
      <4>1. CASE v = w
        BY <1>2, <2>1, <3>1, <4>1 DEF TargetOf
      <4>2. CASE v # w
        BY <3>1, <4>2 DEF JobOf
      <4> QED
        BY <4>1, <4>2
    <3> QED
      BY <2>2, <3>2 DEF WillProject
  <2> QED
    BY <2>1, <2>3, <2>4
<1> QED
  BY <1>1, <1>2 DEF ActivityInv, HeldNotCancelled

LEMMA InsertionKeepsActivity ==
    ASSUME IInv, ActivityInv, Insertion, worker' = worker,
           \A a \in Activities : state'[a] = "QUEUED" =>
               state[a] = "QUEUED" \/ job'[next].target = a
    PROVE  ActivityInv'
<1>1. /\ next \in Jobs /\ job[next] = UnusedRow
      /\ job'[next].status = "QUEUED"
      /\ \A j \in Jobs \ {next} : job'[j] = job[j]
  BY InsertedRow DEF IInv
<1>2. ASSUME NEW v \in Workers, JobOf(v) # NoJob
      PROVE  job'[JobOf(v)] = job[JobOf(v)]
  BY <1>1, <1>2, HeldRowsAreNotQueued DEF UnusedRow
<1>3. ASSUME NEW a \in Activities, job'[next].target = a
      PROVE  WillProject(a)'
  BY <1>1, <1>3 DEF WillProject
<1> QED
  BY <1>1, <1>2, <1>3, OthersKeepActivity DEF UnusedRow, JobOf

LEMMA EnqueueKeepsActivity ==
    ASSUME IInv, ActivityInv, StepKeepsIInv,
           \/ \E a \in Activities : EnqueueActivity(a)
           \/ \E s \in Submissions : EnqueueSubmission(s)
           \/ \E j \in Jobs : Retry(j) \/ Resume(j)
    PROVE  ActivityInv'
<1>1. /\ next \in Jobs /\ next' = next + 1 /\ worker' = worker
      /\ \E target, attempt, source :
           job' = [job EXCEPT ![next] =
                     [ target |-> target, status |-> "QUEUED",
                       control |-> "ACTIVE", failure |-> "NONE",
                       attempt |-> attempt, source |-> source ]]
  BY DEF EnqueueActivity, EnqueueSubmission, Retry, Resume,
         ScheduleContinuation, InsertJob
<1>2. Insertion
  BY <1>1 DEF StepKeepsIInv, RowsStep, IInv, TypeOK, Jobs
<1>3. ASSUME NEW a \in Activities, state'[a] = "QUEUED"
      PROVE  state[a] = "QUEUED" \/ job'[next].target = a
  <2>1. CASE \E b \in Activities : EnqueueActivity(b)
    <3>1. PICK b \in Activities : EnqueueActivity(b)
      BY <2>1
    <3>2. job'[next].target = b /\ state' = [state EXCEPT ![b] = "QUEUED"]
      BY <3>1 DEF EnqueueActivity, InsertJob, IInv, TypeOK
    <3> QED
      BY <1>3, <3>2 DEF IInv, TypeOK, StateOK, Aggregates
  <2>2. CASE \/ \E s \in Submissions : EnqueueSubmission(s)
             \/ \E j \in Jobs : Retry(j) \/ Resume(j)
    BY <1>3, <2>2 DEF EnqueueSubmission, Retry, Resume, ScheduleContinuation
  <2> QED
    BY <2>1, <2>2
<1> QED
  BY <1>1, <1>2, <1>3, InsertionKeepsActivity

LEMMA CancelKeepsActivity ==
    ASSUME IInv, ActivityInv, NEW j \in Jobs, CancelQueued(j) \/ CancelRunning(j)
    PROVE  ActivityInv'
<1>1. \A v \in Workers : JobOf(v) # NoJob =>
          /\ JobOf(v) \in Jobs /\ job[JobOf(v)].status # "QUEUED"
  BY HeldRowsAreNotQueued
<1>2. job \in [Jobs -> JobRow]
  BY DEF IInv, TypeOK
<1>3. CASE CancelQueued(j)
  <2>1. /\ worker' = worker
        /\ job[j].status = "QUEUED"
        /\ job' = [job EXCEPT ![j] = CancelledRow(@)]
        /\ state' = [state EXCEPT ![job[j].target] =
                       StateAfterCancel(job[j].target)]
    BY <1>3 DEF CancelQueued, CompleteCancellation
  <2>2. ASSUME NEW a \in Activities, state'[a] = "QUEUED"
        PROVE  state[a] = "QUEUED" /\ a # job[j].target
    BY <2>1, <2>2 DEF IInv, TypeOK, StateOK, Aggregates, StateAfterCancel
  <2>3. \A v \in Workers : JobOf(v) # NoJob =>
            job'[JobOf(v)] = job[JobOf(v)]
    BY <1>1, <1>2, <2>1
  <2>4. \A i \in Jobs \ {j} : job'[i] = job[i]
    BY <1>2, <2>1
  <2> QED
    BY <2>1, <2>2, <2>3, <2>4, OthersKeepActivity DEF JobOf
<1>4. CASE CancelRunning(j)
  <2>1. /\ worker' = worker /\ state' = state
        /\ job[j].status = "RUNNING"
        /\ job' = [job EXCEPT ![j].control = "CANCEL_REQUESTED"]
    BY <1>4 DEF CancelRunning
  <2>2. /\ job'[j].target = job[j].target
        /\ job'[j].control = "CANCEL_REQUESTED"
        /\ \A i \in Jobs \ {j} : job'[i] = job[i]
    BY <1>2, <2>1 DEF JobRow
  <2> QED
    BY <1>1, <2>1, <2>2, OthersKeepActivity DEF JobOf
<1> QED
  BY <1>3, <1>4

LEMMA DispatchKeepsActivity ==
    ASSUME IInv, ActivityInv, NEW j \in Jobs, Call(j) \/ ApiCrash(j)
    PROVE  ActivityInv'
<1>1. CASE job' = job /\ state' = state /\ worker' = worker
  BY <1>1, OthersKeepActivity DEF JobOf
<1>2. CASE DispatchRaises(j) /\ job' # job
  <2>1. /\ worker' = worker
        /\ job[j].status = "QUEUED"
        /\ job' = [job EXCEPT ![j] = FailedRow(@, "TRANSIENT")]
        /\ state' = [state EXCEPT ![job[j].target] = StateAfterFailure(j)]
    BY <1>2 DEF DispatchRaises, FailQueuedDispatch
  <2>2. job \in [Jobs -> JobRow]
    BY DEF IInv, TypeOK
  <2>3. ASSUME NEW a \in Activities, state'[a] = "QUEUED"
        PROVE  state[a] = "QUEUED" /\ a # job[j].target
    BY <2>1, <2>3 DEF IInv, TypeOK, StateOK, Aggregates, StateAfterFailure
  <2>4. \A v \in Workers : JobOf(v) # NoJob =>
            job'[JobOf(v)] = job[JobOf(v)]
    BY <2>1, <2>2, HeldRowsAreNotQueued
  <2>5. \A i \in Jobs \ {j} : job'[i] = job[i]
    BY <2>1, <2>2
  <2> QED
    BY <2>1, <2>3, <2>4, <2>5, OthersKeepActivity DEF JobOf
<1>3. CASE DispatchRaises(j) /\ job' = job
  <2>1. worker' = worker
    BY <1>3 DEF DispatchRaises
  <2>2. state' = state
         \/ /\ job[j].status = "QUEUED" /\ job[j] \in JobRow
            /\ job' = [job EXCEPT ![j] = FailedRow(@, "TRANSIENT")]
    BY <1>3 DEF DispatchRaises, FailQueuedDispatch, IInv, TypeOK
  <2>3. state' = state
    <3>1. ASSUME job[j].status = "QUEUED", job[j] \in JobRow,
                 job' = [job EXCEPT ![j] = FailedRow(@, "TRANSIENT")]
          PROVE  FALSE
      <4>1. FailedRow(job[j], "TRANSIENT").status = "FAILED"
        BY <3>1, FailedRowFields DEF FailureClasses
      <4>2. job'[j] = FailedRow(job[j], "TRANSIENT")
        BY <3>1 DEF IInv, TypeOK
      <4> QED
        BY <1>3, <3>1, <4>1, <4>2
    <3> QED
      BY <2>2, <3>1
  <2> QED
    BY <1>1, <1>3, <2>1, <2>3
<1> QED
  BY <1>1, <1>2, <1>3
     DEF Call, DispatchAccepted, DispatchReturns, ApiCrash

LEMMA ReconcileKeepsActivity ==
    ASSUME IInv, ActivityInv, NEW stale \in SUBSET Orphans,
           ReconcileStale(stale), next' = next,
           \A v \in Workers : JobOf(v) # NoJob => worker'[v] = worker[v],
           \A v \in Workers : JobOf(v) = NoJob => JobOf(v)' = NoJob
    PROVE  ActivityInv'
<1>1. \A j \in stale : /\ j \in Jobs
                       /\ job[j].status = "RUNNING"
                       /\ \A w \in Workers : JobOf(w) # j
  BY DEF JobOf, Orphans
<1>2. \A j \in Jobs \ stale : job'[j] = job[j]
  BY DEF ReconcileStale
<1>3. ASSUME NEW v \in Workers, JobOf(v) # NoJob
      PROVE  job'[JobOf(v)] = job[JobOf(v)]
  BY <1>1, <1>2, <1>3, HeldRowsAreNotQueued
<1>4. ASSUME NEW j \in stale, job[j].target \in Activities
      PROVE  StateAfterReconcile(j) # "QUEUED"
  BY <1>4 DEF StateAfterReconcile, StateAfterCancel, StateAfterFailure
<1>5. ASSUME NEW a \in Activities, state'[a] = "QUEUED"
      PROVE  state[a] = "QUEUED"
  BY <1>4, <1>5 DEF ReconcileStale, Aggregates
<1> QED
  BY <1>1, <1>2, <1>3, <1>5, OthersKeepActivity

LEMMA ClaimKeepsActivity ==
    ASSUME IInv, ActivityInv, NEW w \in Workers,
           ClaimNextJob(w) \/ NothingToClaim(w)
    PROVE  ActivityInv'
<1>1. JobOf(w) = NoJob
  BY DEF ClaimNextJob, NothingToClaim, At, IInv, WorkerOK
<1>2. CASE NothingToClaim(w)
  BY <1>1, <1>2, OthersKeepActivity
     DEF NothingToClaim, Exit, JobOf, IdleWorker, IInv, TypeOK
<1>3. CASE ClaimNextJob(w)
  <2>1. PICK j \in Claimable :
          /\ job' = [job EXCEPT ![j] = ClaimedRow(@)]
          /\ worker' = [worker EXCEPT ![w] =
                          [ job |-> j, step |-> "boundary",
                            failure |-> "NONE", stage |-> 0 ]]
          /\ state' = state
    BY <1>3 DEF ClaimNextJob
  <2>2. /\ j \in Jobs /\ job[j] \in JobRow
        /\ job[j].status = "QUEUED" /\ job[j].control = "ACTIVE"
        /\ job[j].attempt < MaxAttempts
    BY <2>1 DEF Claimable, IInv, TypeOK
  <2>3. /\ job'[j] = ClaimedRow(job[j])
        /\ job'[j].target = job[j].target
        /\ job'[j].control = "ACTIVE"
        /\ \A i \in Jobs \ {j} : job'[i] = job[i]
    BY <2>1, <2>2, ClaimedRowFields DEF IInv, TypeOK
  <2>4. /\ worker'[w].job = j /\ worker'[w].step = "boundary"
        /\ \A v \in Workers \ {w} : worker'[v] = worker[v]
    BY <2>1 DEF IInv, TypeOK
  <2>5. \A v \in Workers : JobOf(v) # NoJob =>
            /\ v # w
            /\ JobOf(v) \in Jobs \ {j}
    BY <1>1, <2>2, HeldRowsAreNotQueued
  <2>6. HeldNotCancelled'
    <3>1. ASSUME NEW v \in Workers, JobOf(v)' # NoJob
          PROVE  job'[JobOf(v)'].control # "CANCELLED"
      <4>1. CASE v = w
        BY <2>3, <2>4, <4>1 DEF JobOf
      <4>2. CASE v # w
        <5>1. JobOf(v)' = JobOf(v) /\ JobOf(v) # NoJob
          BY <2>4, <3>1, <4>2 DEF JobOf
        <5> QED
          BY <2>3, <2>5, <5>1 DEF ActivityInv, HeldNotCancelled
      <4> QED
        BY <4>1, <4>2
    <3> QED
      BY <3>1 DEF HeldNotCancelled
  <2>7. ASSUME NEW a \in Activities, state'[a] = "QUEUED"
        PROVE  WillProject(a)'
    <3>1. PICK i \in Jobs :
            /\ job[i].target = a
            /\ \/ job[i].status = "QUEUED"
               \/ \E v \in Workers :
                    /\ JobOf(v) = i
                    /\ worker[v].step \in StepsBeforeProjection
      BY <2>1, <2>7 DEF ActivityInv, WillProject
    <3>2. CASE i = j
      <4>1. worker'[w].step \in StepsBeforeProjection
        BY <2>4 DEF StepsBeforeProjection
      <4> QED
        BY <2>2, <2>3, <2>4, <3>1, <3>2, <4>1 DEF WillProject, JobOf
    <3>3. CASE i # j /\ job[i].status = "QUEUED"
      BY <2>3, <3>1, <3>3 DEF WillProject
    <3>4. CASE i # j /\ \E v \in Workers :
                          /\ JobOf(v) = i
                          /\ worker[v].step \in StepsBeforeProjection
      <4>1. PICK v \in Workers : /\ JobOf(v) = i
                                 /\ worker[v].step \in StepsBeforeProjection
        BY <3>4
      <4>2. v # w
        BY <1>1, <4>1 DEF NoJob, Jobs
      <4>3. JobOf(v)' = i /\ worker'[v].step \in StepsBeforeProjection
        BY <2>4, <4>1, <4>2 DEF JobOf
      <4> QED
        BY <2>3, <3>1, <3>4, <4>3 DEF WillProject
    <3> QED
      BY <3>1, <3>2, <3>3, <3>4
  <2> QED
    BY <2>6, <2>7 DEF ActivityInv
<1> QED
  BY <1>2, <1>3

\* What every step of a handler has in common.
HandlerSteps(w) == Process(w) /\ ~ClaimNextJob(w) /\ ~NothingToClaim(w)

LEMMA HandlerFrame ==
    ASSUME IInv, NEW w \in Workers, HandlerSteps(w)
    PROVE  /\ worker[w].step \notin {"idle", "claim"}
           /\ worker'[w].step # "claim"
           /\ \A v \in Workers \ {w} : worker'[v] = worker[v]
           /\ \A j \in Jobs \ {JobOf(w)} : job'[j] = job[j]
           /\ UNCHANGED <<dispatch, executions>>
<1>0. worker \in [Workers -> ExecutionRow] /\ job \in [Jobs -> JobRow]
  BY DEF IInv, TypeOK, ExecutionRow
<1> USE DEF ExecutionRow
<1>1. CASE CheckpointPasses(w)
  <2>1. /\ worker[w].step \in CheckpointSteps
        /\ UNCHANGED <<job, dispatch, executions>>
    BY <1>1 DEF CheckpointPasses
  <2>2. CASE worker[w].step = "reviewed"
    <3>1. worker' = [worker EXCEPT ![w] = IdleWorker]
      BY <1>1, <2>2 DEF CheckpointPasses, At, Exit
    <3> QED
      BY <1>0, <2>1, <2>2, <3>1 DEF IdleWorker
  <2>3. CASE worker[w].step # "reviewed"
    <3>1. worker' = [worker EXCEPT ![w].step =
                       AfterCheckpoint(worker[w].step, TargetOf(w))]
      BY <1>1, <2>3 DEF CheckpointPasses, At, Goto
    <3>2. AfterCheckpoint(worker[w].step, TargetOf(w)) # "claim"
      BY <2>1, <2>3 DEF CheckpointSteps, AfterCheckpoint
    <3> QED
      BY <1>0, <2>1, <3>1, <3>2 DEF CheckpointSteps
  <2> QED
    BY <2>2, <2>3
<1>2. CASE CheckpointCancels(w) \/ FinalizeCancelled(w)
  BY <1>0, <1>2 DEF CheckpointCancels, FinalizeCancelled, AcknowledgeCancel,
     CompleteCancellation, Exit, IdleWorker, CheckpointSteps, At
<1>3. CASE \/ ProjectStage(w) \/ NextStage(w) \/ StageFails(w)
           \/ StageNeedsReview(w) \/ PipelineDone(w) \/ FinalizeConflict(w)
  BY <1>0, <1>3 DEF ProjectStage, NextStage, StageFails, StageNeedsReview,
     PipelineDone, FinalizeConflict, AtNextStage, Failing, Goto, At
<1>4. CASE \/ SaveFailed(w) \/ SaveFailureClass(w) \/ ProjectFailure(w)
           \/ ProjectReview(w) \/ SaveNeedsReview(w) \/ ProjectReady(w)
           \/ CheckSucceeded(w)
  BY <1>0, <1>4 DEF SaveFailed, SaveFailureClass, ProjectFailure, ProjectReview,
     SaveNeedsReview, ProjectReady, CheckSucceeded, Goto, At, Exit, IdleWorker
<1>5. CASE SaveSucceeded(w) \/ Publish(w)
  BY <1>0, <1>5 DEF SaveSucceeded, Publish, At, Exit, IdleWorker
<1> QED
  BY <1>1, <1>2, <1>3, <1>4, <1>5 DEF HandlerSteps, Process, Settle

LEMMA HandlerRows ==
    ASSUME IInv, NEW w \in Workers, HandlerSteps(w), StepKeepsIInv
    PROVE  /\ JobOf(w) \in Jobs /\ JobOf(w) # NoJob
           /\ TargetOf(w) \in Aggregates
           /\ WorkerOK(w)
           /\ \A j \in Jobs : /\ job'[j].target = job[j].target
                              /\ job[j].status = "QUEUED" => job'[j] = job[j]
           /\ \A v \in Workers \ {w} : JobOf(v) # NoJob =>
                  job'[JobOf(v)] = job[JobOf(v)]
<1>1. /\ JobOf(w) \in Jobs /\ JobOf(w) # NoJob
      /\ TargetOf(w) \in Aggregates
      /\ WorkerOK(w)
      /\ job[JobOf(w)].status # "QUEUED"
  BY HandlerFrame, ExecutionAt, HeldRowsAreNotQueued
<1>2. \A j \in Jobs \ {JobOf(w)} : job'[j] = job[j]
  BY HandlerFrame
<1>3. RowsStep
  <2>1. ASSUME Insertion PROVE FALSE
    <3>1. /\ next \in Jobs /\ job[next] = UnusedRow
          /\ job'[next].status = "QUEUED"
      BY <2>1, InsertedRow DEF IInv
    <3>2. next # JobOf(w)
      BY <1>1, <3>1 DEF WorkerOK, Jobs
    <3> QED
      BY <1>2, <3>1, <3>2 DEF UnusedRow
  <2> QED
    BY <2>1 DEF StepKeepsIInv
<1>4. \A v \in Workers \ {w} : JobOf(v) # NoJob =>
          JobOf(v) \in Jobs \ {JobOf(w)}
  BY <1>1, HeldRowsAreNotQueued DEF IInv, NoSharedRow
<1> QED
  BY <1>1, <1>2, <1>3, <1>4 DEF RowsStep, RowStep

LEMMA HandlerKeepsActivity ==
    ASSUME IInv, ActivityInv, NEW w \in Workers, HandlerSteps(w),
           StepKeepsIInv,
           \/ JobOf(w)' = NoJob
           \/ /\ JobOf(w)' = JobOf(w)
              /\ job'[JobOf(w)].control = job[JobOf(w)].control,
           \A a \in Activities : state'[a] = "QUEUED" =>
               /\ state[a] = "QUEUED"
               /\ a = TargetOf(w)
                  /\ worker[w].step \in StepsBeforeProjection
                    => /\ JobOf(w)' = JobOf(w)
                       /\ worker'[w].step \in StepsBeforeProjection
    PROVE  ActivityInv'
<1>1. /\ JobOf(w) # NoJob
      /\ \A v \in Workers \ {w} : worker'[v] = worker[v]
      /\ \A j \in Jobs : /\ job'[j].target = job[j].target
                         /\ job[j].status = "QUEUED" => job'[j] = job[j]
      /\ \A v \in Workers \ {w} : JobOf(v) # NoJob =>
             job'[JobOf(v)] = job[JobOf(v)]
  BY HandlerFrame, HandlerRows
<1> QED
  BY <1>1, MoveKeepsActivity

\* A handler that leaves rows and aggregates alone.
LEMMA BranchKeepsActivity ==
    ASSUME IInv, ActivityInv, NEW w \in Workers, StepKeepsIInv,
           \/ CheckpointPasses(w) \/ NextStage(w) \/ StageFails(w)
           \/ StageNeedsReview(w) \/ PipelineDone(w) \/ FinalizeConflict(w)
           \/ CheckSucceeded(w)
    PROVE  ActivityInv'
<1> USE DEF ExecutionRow, JobOf
<1>1. /\ HandlerSteps(w)
      /\ worker \in [Workers -> ExecutionRow]
      /\ job' = job /\ state' = state
  <2>1. worker[w].step # "claim"
    BY DEF CheckpointPasses, NextStage, StageFails, StageNeedsReview,
       PipelineDone, FinalizeConflict, CheckSucceeded, At, CheckpointSteps
  <2> QED
    BY <2>1 DEF HandlerSteps, ClaimNextJob, NothingToClaim, At, Process,
       Settle, IInv, TypeOK, CheckpointPasses, NextStage, StageFails,
       StageNeedsReview, PipelineDone, FinalizeConflict, CheckSucceeded
<1>2. CASE CheckpointPasses(w)
  <2>1. CASE worker[w].step = "reviewed"
    <3>1. worker'[w] = IdleWorker
      BY <1>1, <1>2, <2>1 DEF CheckpointPasses, At, Exit
    <3> QED
      BY <1>1, <2>1, <3>1, HandlerKeepsActivity
         DEF IdleWorker, StepsBeforeProjection, Tails
  <2>2. CASE worker[w].step # "reviewed"
    <3>1. /\ worker'[w].step = AfterCheckpoint(worker[w].step, TargetOf(w))
          /\ worker'[w].job = worker[w].job
          /\ worker[w].step \in CheckpointSteps
      BY <1>1, <1>2, <2>2 DEF CheckpointPasses, At, Goto
    <3>2. ASSUME TargetOf(w) \in Activities,
                 worker[w].step \in StepsBeforeProjection
          PROVE  worker'[w].step \in StepsBeforeProjection
      <4>1. TargetOf(w) \notin Submissions
        BY <3>2, ConstantsAssumption
      <4>2. worker[w].step \in {"boundary", "fail", "fail_saved"}
        BY <3>1, <3>2 DEF CheckpointSteps, StepsBeforeProjection, Tails
      <4> QED
        BY <3>1, <4>1, <4>2 DEF AfterCheckpoint, StepsBeforeProjection, Tails
    <3> QED
      BY <1>1, <3>1, <3>2, HandlerKeepsActivity
  <2> QED
    BY <2>1, <2>2
<1>3. CASE NextStage(w) \/ StageFails(w) \/ StageNeedsReview(w)
           \/ PipelineDone(w)
  <2>1. worker'[w].job = worker[w].job
    BY <1>1, <1>3 DEF NextStage, StageFails, StageNeedsReview, PipelineDone,
       AtNextStage, Failing, Goto
  <2>2. ASSUME TargetOf(w) \in Activities
        PROVE  worker'[w].step \in StepsBeforeProjection
    <3>1. TargetOf(w) \notin Submissions
      BY <2>2, ConstantsAssumption
    <3>2. CASE NextStage(w)
      BY <1>1, <3>2 DEF NextStage, AtNextStage, StepsBeforeProjection
    <3>3. CASE StageFails(w)
      BY <1>1, <3>3 DEF StageFails, Failing, StepsBeforeProjection
    <3>4. CASE StageNeedsReview(w)
      <4>1. worker'[w].step = "review_project"
        BY <1>1, <3>1, <3>4 DEF StageNeedsReview, Goto
      <4> QED
        BY <4>1 DEF StepsBeforeProjection
    <3>5. CASE PipelineDone(w)
      <4>1. worker'[w].step = "ready"
        BY <1>1, <3>1, <3>5 DEF PipelineDone, Goto
      <4> QED
        BY <4>1 DEF StepsBeforeProjection
    <3> QED
      BY <1>3, <3>2, <3>3, <3>4, <3>5
  <2> QED
    BY <1>1, <2>1, <2>2, HandlerKeepsActivity
<1>4. CASE FinalizeConflict(w) \/ CheckSucceeded(w)
  <2>1. /\ worker'[w].job = worker[w].job
        /\ worker[w].step \notin StepsBeforeProjection
    BY <1>1, <1>4 DEF FinalizeConflict, CheckSucceeded, Failing, Goto, At,
       StepsBeforeProjection, Tails
  <2> QED
    BY <1>1, <2>1, HandlerKeepsActivity
<1> QED
  BY <1>2, <1>3, <1>4

\* A handler that acknowledges a cancellation puts the activity back to DRAFT.
LEMMA AcknowledgeKeepsActivity ==
    ASSUME IInv, ActivityInv, NEW w \in Workers, StepKeepsIInv,
           CheckpointCancels(w) \/ FinalizeCancelled(w)
    PROVE  ActivityInv'
<1>1. /\ HandlerSteps(w)
      /\ JobOf(w)' = NoJob
      /\ job[JobOf(w)].control # "ACTIVE"
      /\ AcknowledgeCancel(w)
  <2>1. worker[w].step # "claim"
    BY DEF CheckpointCancels, FinalizeCancelled, At, CheckpointSteps
  <2> QED
    BY <2>1 DEF HandlerSteps, ClaimNextJob, NothingToClaim, At, Process,
       Settle, IInv, TypeOK, CheckpointCancels, FinalizeCancelled, Exit,
       JobOf, IdleWorker
<1>2. /\ JobOf(w) \in Jobs /\ JobOf(w) # NoJob /\ TargetOf(w) \in Aggregates
  BY <1>1, HandlerRows
<1>3. job[JobOf(w)].control = "CANCEL_REQUESTED"
  BY <1>1, <1>2 DEF ActivityInv, HeldNotCancelled, IInv, TypeOK, JobRow
<1>4. state' = [state EXCEPT ![TargetOf(w)] = StateAfterCancel(TargetOf(w))]
  BY <1>1, <1>3 DEF AcknowledgeCancel, CompleteCancellation, TargetOf
<1>5. ASSUME NEW a \in Activities, state'[a] = "QUEUED"
      PROVE  state[a] = "QUEUED" /\ a # TargetOf(w)
  BY <1>2, <1>4, <1>5 DEF StateAfterCancel, IInv, TypeOK, StateOK
<1> QED
  BY <1>1, <1>5, HandlerKeepsActivity

\* A handler that writes its row, which it then gives up or fails further.
LEMMA SaveKeepsActivity ==
    ASSUME IInv, ActivityInv, NEW w \in Workers, StepKeepsIInv,
           \/ SaveFailed(w) \/ SaveFailureClass(w) \/ SaveNeedsReview(w)
           \/ SaveSucceeded(w)
    PROVE  ActivityInv'
<1> USE DEF ExecutionRow, JobOf
<1>1. /\ HandlerSteps(w)
      /\ worker \in [Workers -> ExecutionRow]
      /\ job \in [Jobs -> JobRow]
      /\ state' = state
  BY DEF HandlerSteps, ClaimNextJob, NothingToClaim, At, Process, Settle,
     IInv, TypeOK, SaveFailed, SaveFailureClass, SaveNeedsReview, SaveSucceeded
<1>2. JobOf(w) \in Jobs
  BY <1>1, HandlerRows
<1>3. CASE SaveSucceeded(w)
  <2>1. worker'[w] = IdleWorker /\ worker[w].step = "complete_save"
    BY <1>1, <1>3 DEF SaveSucceeded, Exit, At
  <2> QED
    BY <1>1, <2>1, HandlerKeepsActivity
       DEF IdleWorker, StepsBeforeProjection, Tails
<1>4. CASE SaveFailed(w) \/ SaveFailureClass(w) \/ SaveNeedsReview(w)
  <2>1. job'[JobOf(w)].control = job[JobOf(w)].control
    BY <1>1, <1>2, <1>4 DEF SaveFailed, SaveFailureClass, SaveNeedsReview,
       JobRow
  <2>2. /\ worker'[w].job = worker[w].job
        /\ \/ worker[w].step = "review_save"
           \/ worker'[w].step \in {"fail_saved", "fail_project"}
    BY <1>1, <1>4 DEF SaveFailed, SaveFailureClass, SaveNeedsReview, Goto, At
  <2> QED
    BY <1>1, <2>1, <2>2, HandlerKeepsActivity
       DEF StepsBeforeProjection, Tails
<1> QED
  BY <1>3, <1>4

\* A handler that writes its aggregate.
LEMMA ProjectKeepsActivity ==
    ASSUME IInv, ActivityInv, NEW w \in Workers, StepKeepsIInv,
           \/ ProjectStage(w) \/ ProjectFailure(w) \/ ProjectReview(w)
           \/ ProjectReady(w) \/ Publish(w)
    PROVE  ActivityInv'
<1> USE DEF ExecutionRow, JobOf
<1>1. /\ HandlerSteps(w)
      /\ worker \in [Workers -> ExecutionRow]
  BY DEF HandlerSteps, ClaimNextJob, NothingToClaim, At, Process, Settle,
     IInv, TypeOK, ProjectStage, ProjectFailure, ProjectReview, ProjectReady,
     Publish
<1>2. TargetOf(w) \in Aggregates
  BY <1>1, HandlerRows
<1>3. \/ JobOf(w)' = NoJob
      \/ /\ JobOf(w)' = JobOf(w)
         /\ job'[JobOf(w)].control = job[JobOf(w)].control
  BY <1>1 DEF ProjectStage, ProjectFailure, ProjectReview, ProjectReady,
     Publish, Exit, Goto, IdleWorker
<1>4. /\ \E value \in {"PROCESSING", "TECHNICAL_FAILURE", "STOPPED",
                      "NEEDS_REVIEW", "BLUEPRINT_READY"} :
           state' = [state EXCEPT ![TargetOf(w)] = value]
  BY DEF ProjectStage, ProjectFailure, ProjectReview, ProjectReady, Publish
<1>5. ASSUME NEW a \in Activities, state'[a] = "QUEUED"
      PROVE  state[a] = "QUEUED" /\ a # TargetOf(w)
  BY <1>2, <1>4, <1>5 DEF IInv, TypeOK, StateOK
<1> QED
  BY <1>1, <1>3, <1>5, HandlerKeepsActivity

LEMMA ActivityStep ==
    ASSUME ~CrashesPossible, IInv, ActivityInv, [Next]_vars
    PROVE  ActivityInv'
<1>0. StepKeepsIInv
  BY EveryStep
<1>1. ASSUME NEW j \in Jobs, PollJob(j) PROVE ActivityInv'
  BY <1>1, ReconcileKeepsActivity DEF PollJob, JobOf
<1>2. ASSUME NEW w \in Workers, StartExecution(w) PROVE ActivityInv'
  <2>1. \A v \in Workers : /\ JobOf(v) # NoJob => worker'[v] = worker[v]
                           /\ JobOf(v) = NoJob => JobOf(v)' = NoJob
    BY <1>2 DEF StartExecution, At, Goto, JobOf, IInv, TypeOK, WorkerOK
  <2> QED
    BY <1>2, <2>1, ReconcileKeepsActivity DEF StartExecution
<1>3. ASSUME NEW w \in Workers, Process(w) PROVE ActivityInv'
  BY <1>0, <1>3, ClaimKeepsActivity, BranchKeepsActivity,
     AcknowledgeKeepsActivity, SaveKeepsActivity, ProjectKeepsActivity
     DEF Process, Settle
<1>4. CASE ExecutionLost \/ (\E w \in Workers : WorkerCrash(w))
           \/ UNCHANGED vars
  <2>1. job' = job /\ state' = state /\ worker' = worker
    BY <1>4 DEF ExecutionLost, WorkerCrash, vars
  <2> QED
    BY <2>1, OthersKeepActivity DEF JobOf
<1> QED
  BY <1>0, <1>1, <1>2, <1>3, <1>4, EnqueueKeepsActivity, CancelKeepsActivity,
     DispatchKeepsActivity
     DEF Next, Control

\* An activity that waits in QUEUED has a job that will write its state, as
\* long as no process dies between two steps, and even if calls to the executor
\* fail (_compensate_failed_dispatch, complete_cancellation).
THEOREM QueuedActivitiesHaveJobs ==
    ASSUME ~CrashesPossible PROVE Spec => []QueuedActivityHasJob
<1>1. Init => ActivityInv
  BY DEF Init, ActivityInv, HeldNotCancelled, IdleWorker, JobOf, NoJob,
     Aggregates
<1>2. IInv /\ ActivityInv /\ [Next]_vars => ActivityInv'
  BY ActivityStep
<1>3. ActivityInv => QueuedActivityHasJob
  BY DEF ActivityInv, WillProject, QueuedActivityHasJob, Unfinished
<1> QED
  BY <1>1, <1>2, <1>3, InductiveInvariant, PTL DEF Spec

-----------------------------------------------------------------------------
(***************************************************************************)
(* NoLostWakeup.  The invariant compares three cardinalities; each step    *)
(* adds at most one element to one of the sets, or moves one.              *)
(***************************************************************************)
Calling == {j \in Jobs : dispatch[j] = "calling"}
Claiming == {w \in Workers : At(w, "claim")}

LEMMA FiniteCounts ==
    ASSUME IsFiniteSet(Workers)
    PROVE  /\ IsFiniteSet(Claimable) /\ IsFiniteSet(Claimable')
           /\ IsFiniteSet(Calling) /\ IsFiniteSet(Calling')
           /\ IsFiniteSet(Claiming) /\ IsFiniteSet(Claiming')
<1>1. IsFiniteSet(Jobs)
  BY FS_Interval, ConstantsAssumption DEF Jobs
<1>2. /\ Claimable \subseteq Jobs /\ Claimable' \subseteq Jobs
      /\ Calling \subseteq Jobs /\ Calling' \subseteq Jobs
  BY DEF Claimable, Calling
<1>3. Claiming \subseteq Workers /\ Claiming' \subseteq Workers
  BY DEF Claiming
<1> QED
  BY <1>1, <1>2, <1>3, FS_Subset

LEMMA CountTypes ==
    ASSUME IsFiniteSet(Workers)
    PROVE  /\ Cardinality(Claimable) \in Nat /\ Cardinality(Claimable') \in Nat
           /\ Cardinality(Calling) \in Nat /\ Cardinality(Calling') \in Nat
           /\ Cardinality(Claiming) \in Nat /\ Cardinality(Claiming') \in Nat
  BY FiniteCounts, FS_CardinalityType

LEMMA ClaimableShrinks ==
    ASSUME RowsStep PROVE Claimable' \subseteq Claimable
  BY DEF RowsStep, RowStep, Claimable

WakeupInv == FreshCalls /\ NoLostWakeup

\* A step that inserts no row and keeps the calls, the executions and those
\* that are about to claim.
LEMMA QuietKeepsWakeup ==
    ASSUME IsFiniteSet(Workers), TypeOK, TypeOK', WakeupInv, RowsStep,
           Calling' = Calling, Claiming' = Claiming,
           executions' = executions,
           \A j \in Jobs : dispatch[j] = "none" => dispatch'[j] = "none"
    PROVE  WakeupInv'
<1>1. Cardinality(Claimable') <= Cardinality(Claimable)
  BY ClaimableShrinks, FiniteCounts, FS_Subset
<1>2. NoLostWakeup'
  <2>1. Cardinality(Claimable) <=
            executions + Cardinality(Calling) + Cardinality(Claiming)
    BY DEF WakeupInv, NoLostWakeup, Calling, Claiming
  <2>2. Cardinality(Claimable') <=
            executions' + Cardinality(Calling') + Cardinality(Claiming')
    BY <1>1, <2>1, CountTypes DEF TypeOK
  <2> QED
    BY <2>2 DEF NoLostWakeup, Calling, Claiming
<1>3. FreshCalls'
  BY DEF WakeupInv, FreshCalls, RowsStep, TypeOK
<1> QED
  BY <1>2, <1>3 DEF WakeupInv

\* A new row comes with its call.
LEMMA InsertionKeepsWakeup ==
    ASSUME IsFiniteSet(Workers), TypeOK, TypeOK', WakeupInv,
           NEW target, NEW attempt, NEW source,
           InsertJob(target, attempt, source), UNCHANGED <<executions, worker>>
    PROVE  WakeupInv'
<1>1. /\ next \in Jobs /\ next \in Nat /\ next' = next + 1
      /\ dispatch' = [dispatch EXCEPT ![next] = "calling"]
      /\ \A j \in Jobs \ {next} : job'[j] = job[j]
      /\ dispatch[next] = "none"
  BY DEF InsertJob, Jobs, TypeOK, WakeupInv, FreshCalls
<1>2. Claimable' \subseteq Claimable \cup {next}
  BY <1>1 DEF Claimable
<1>3. Cardinality(Claimable') <= Cardinality(Claimable) + 1
  <2>1. /\ IsFiniteSet(Claimable \cup {next})
        /\ Cardinality(Claimable \cup {next}) <= Cardinality(Claimable) + 1
    BY FiniteCounts, CountTypes, FS_AddElement
  <2>2. /\ Cardinality(Claimable') <= Cardinality(Claimable \cup {next})
        /\ Cardinality(Claimable \cup {next}) \in Nat
    BY <1>2, <2>1, FS_Subset, FS_CardinalityType
  <2> QED
    BY <2>1, <2>2, CountTypes
<1>4. Cardinality(Calling') = Cardinality(Calling) + 1
  <2>1. Calling' = Calling \cup {next} /\ next \notin Calling
    BY <1>1 DEF Calling, TypeOK
  <2> QED
    BY <2>1, FiniteCounts, FS_AddElement
<1>5. NoLostWakeup'
  <2>1. Cardinality(Claimable) <=
            executions + Cardinality(Calling) + Cardinality(Claiming)
    BY DEF WakeupInv, NoLostWakeup, Calling, Claiming
  <2>2. Claiming' = Claiming /\ executions' = executions
    BY DEF Claiming, At
  <2>3. Cardinality(Claimable') <=
            executions' + Cardinality(Calling') + Cardinality(Claiming')
    BY <1>3, <1>4, <2>1, <2>2, CountTypes DEF TypeOK
  <2> QED
    BY <2>3 DEF NoLostWakeup, Calling, Claiming
<1>6. FreshCalls'
  BY <1>1 DEF WakeupInv, FreshCalls, TypeOK, Jobs
<1> QED
  BY <1>5, <1>6 DEF WakeupInv

\* An accepted call becomes an execution, and an execution becomes a claimer.
LEMMA AcceptKeepsWakeup ==
    ASSUME IsFiniteSet(Workers), TypeOK, TypeOK', WakeupInv,
           NEW j \in Jobs, DispatchAccepted(j)
    PROVE  WakeupInv'
<1>1. Cardinality(Calling') = Cardinality(Calling) - 1
  <2>1. Calling' = Calling \ {j} /\ j \in Calling
    BY DEF Calling, DispatchAccepted, TypeOK
  <2> QED
    BY <2>1, FiniteCounts, FS_RemoveElement
<1>2. /\ Claimable' = Claimable /\ Claiming' = Claiming
      /\ executions' = executions + 1
  BY DEF DispatchAccepted, Claimable, Claiming, At
<1>3. NoLostWakeup'
  <2>1. Cardinality(Claimable) <=
            executions + Cardinality(Calling) + Cardinality(Claiming)
    BY DEF WakeupInv, NoLostWakeup, Calling, Claiming
  <2>2. Cardinality(Claimable') <=
            executions' + Cardinality(Calling') + Cardinality(Claiming')
    BY <1>1, <1>2, <2>1, CountTypes DEF TypeOK
  <2> QED
    BY <2>2 DEF NoLostWakeup, Calling, Claiming
<1>4. FreshCalls'
  BY DEF WakeupInv, FreshCalls, DispatchAccepted, TypeOK
<1> QED
  BY <1>3, <1>4 DEF WakeupInv

LEMMA StartKeepsWakeup ==
    ASSUME IsFiniteSet(Workers), TypeOK, TypeOK', WakeupInv, RowsStep,
           NEW w \in Workers, StartExecution(w)
    PROVE  WakeupInv'
<1>1. Cardinality(Claiming') = Cardinality(Claiming) + 1
  <2>1. Claiming' = Claiming \cup {w} /\ w \notin Claiming
    BY DEF Claiming, StartExecution, At, Goto, TypeOK
  <2> QED
    BY <2>1, FiniteCounts, FS_AddElement
<1>2. Cardinality(Claimable') <= Cardinality(Claimable)
  BY ClaimableShrinks, FiniteCounts, FS_Subset
<1>3. /\ Calling' = Calling
      /\ executions' = executions - 1
  BY DEF StartExecution, Calling
<1>4. NoLostWakeup'
  <2>1. Cardinality(Claimable) <=
            executions + Cardinality(Calling) + Cardinality(Claiming)
    BY DEF WakeupInv, NoLostWakeup, Calling, Claiming
  <2>2. Cardinality(Claimable') <=
            executions' + Cardinality(Calling') + Cardinality(Claiming')
    BY <1>1, <1>2, <1>3, <2>1, CountTypes DEF TypeOK
  <2> QED
    BY <2>2 DEF NoLostWakeup, Calling, Claiming
<1>5. FreshCalls'
  BY DEF WakeupInv, FreshCalls, StartExecution
<1> QED
  BY <1>4, <1>5 DEF WakeupInv

\* A claimer takes a row with it, or leaves when there is none.
LEMMA ClaimKeepsWakeup ==
    ASSUME IsFiniteSet(Workers), TypeOK, TypeOK', WakeupInv,
           NEW w \in Workers, ClaimNextJob(w)
    PROVE  WakeupInv'
<1>1. PICK j \in Claimable :
          /\ job' = [job EXCEPT ![j] = ClaimedRow(@)]
          /\ worker' = [worker EXCEPT ![w] =
                          [ job |-> j, step |-> "boundary",
                            failure |-> "NONE", stage |-> 0 ]]
  BY DEF ClaimNextJob
<1>2. Cardinality(Claiming') = Cardinality(Claiming) - 1
  <2>1. Claiming' = Claiming \ {w} /\ w \in Claiming
    BY <1>1 DEF Claiming, ClaimNextJob, At, TypeOK
  <2> QED
    BY <2>1, FiniteCounts, FS_RemoveElement
<1>3. Cardinality(Claimable') = Cardinality(Claimable) - 1
  <2>1. j \in Jobs /\ job'[j].status = "RUNNING"
    BY <1>1 DEF Claimable, ClaimedRow, TypeOK, JobRow
  <2>2. \A k \in Jobs \ {j} : job'[k] = job[k]
    BY <1>1
  <2>3. Claimable' = Claimable \ {j}
    BY <1>1, <2>1, <2>2 DEF Claimable
  <2> QED
    BY <2>3, FiniteCounts, FS_RemoveElement
<1>4. Calling' = Calling /\ executions' = executions
  BY DEF ClaimNextJob, Calling
<1>5. NoLostWakeup'
  <2>1. Cardinality(Claimable) <=
            executions + Cardinality(Calling) + Cardinality(Claiming)
    BY DEF WakeupInv, NoLostWakeup, Calling, Claiming
  <2>2. Cardinality(Claimable') <=
            executions' + Cardinality(Calling') + Cardinality(Claiming')
    BY <1>2, <1>3, <1>4, <2>1, CountTypes DEF TypeOK
  <2> QED
    BY <2>2 DEF NoLostWakeup, Calling, Claiming
<1>6. FreshCalls'
  BY DEF WakeupInv, FreshCalls, ClaimNextJob
<1> QED
  BY <1>5, <1>6 DEF WakeupInv

LEMMA NothingKeepsWakeup ==
    ASSUME IsFiniteSet(Workers), TypeOK, TypeOK', WakeupInv,
           NEW w \in Workers, NothingToClaim(w)
    PROVE  WakeupInv'
<1>1. Claimable' = {}
  BY DEF NothingToClaim, Claimable
<1>2. NoLostWakeup'
  <2>1. Cardinality(Claimable') = 0
    BY <1>1, FS_EmptySet
  <2>2. Cardinality(Claimable') <=
            executions' + Cardinality(Calling') + Cardinality(Claiming')
    BY <2>1, CountTypes DEF TypeOK
  <2> QED
    BY <2>2 DEF NoLostWakeup, Calling, Claiming
<1>3. FreshCalls'
  BY DEF WakeupInv, FreshCalls, NothingToClaim
<1> QED
  BY <1>2, <1>3 DEF WakeupInv

LEMMA WakeupStep ==
    ASSUME IsFiniteSet(Workers), ~CrashesPossible, ~DispatchCanFail,
           IInv, WakeupInv, [Next]_vars
    PROVE  WakeupInv'
<1>0. TypeOK /\ TypeOK' /\ StepKeepsIInv
  BY EveryStep DEF IInv, StepKeepsIInv
<1>1. CASE \E x \in Aggregates : EnqueueActivity(x) \/ EnqueueSubmission(x)
  BY <1>0, <1>1, InsertionKeepsWakeup DEF EnqueueActivity, EnqueueSubmission
<1>2. ASSUME NEW j \in Jobs, Retry(j) \/ Resume(j) PROVE WakeupInv'
  BY <1>0, <1>2, InsertionKeepsWakeup DEF Retry, Resume, ScheduleContinuation
<1>3. ASSUME NEW j \in Jobs, DispatchAccepted(j) PROVE WakeupInv'
  BY <1>0, <1>3, AcceptKeepsWakeup
<1>4. ASSUME NEW j \in Jobs,
             DispatchReturns(j) \/ CancelQueued(j) \/ CancelRunning(j)
                \/ PollJob(j)
      PROVE  WakeupInv'
  <2>1. next' = next /\ executions' = executions /\ worker' = worker
    BY <1>4 DEF DispatchReturns, CancelQueued, CancelRunning, PollJob
  <2>2. RowsStep
    BY <1>0, <2>1 DEF StepKeepsIInv, Insertion, TypeOK
  <2>3. /\ Calling' = Calling
        /\ \A k \in Jobs : dispatch[k] = "none" => dispatch'[k] = "none"
    BY <1>0, <1>4 DEF Calling, DispatchReturns, CancelQueued, CancelRunning,
       PollJob, TypeOK
  <2>4. Claiming' = Claiming
    BY <2>1 DEF Claiming, At
  <2> QED
    BY <1>0, <2>1, <2>2, <2>3, <2>4, QuietKeepsWakeup
<1>5. ASSUME NEW w \in Workers, StartExecution(w) PROVE WakeupInv'
  <2>1. RowsStep
    BY <1>0, <1>5 DEF StepKeepsIInv, Insertion, StartExecution, TypeOK
  <2> QED
    BY <1>0, <1>5, <2>1, StartKeepsWakeup
<1>6. ASSUME NEW w \in Workers, ClaimNextJob(w) \/ NothingToClaim(w)
      PROVE  WakeupInv'
  BY <1>0, <1>6, ClaimKeepsWakeup, NothingKeepsWakeup
<1>7. ASSUME NEW w \in Workers, HandlerSteps(w) PROVE WakeupInv'
  <2>1. /\ worker[w].step # "claim"
        /\ worker'[w].step # "claim"
        /\ \A v \in Workers \ {w} : worker'[v] = worker[v]
        /\ dispatch' = dispatch /\ executions' = executions
    BY <1>7, HandlerFrame
  <2>2. next' = next
    BY <1>7 DEF HandlerSteps, Process, Settle, CheckpointPasses,
       CheckpointCancels, ProjectStage, NextStage, StageFails,
       StageNeedsReview, PipelineDone, SaveFailed, SaveFailureClass,
       ProjectFailure, ProjectReview, SaveNeedsReview, ProjectReady,
       CheckSucceeded, SaveSucceeded, Publish, FinalizeCancelled,
       FinalizeConflict
  <2>3. RowsStep
    BY <1>0, <2>2 DEF StepKeepsIInv, Insertion, TypeOK
  <2>4. Claiming' = Claiming /\ Calling' = Calling
    BY <2>1 DEF Claiming, Calling, At
  <2> QED
    BY <1>0, <2>1, <2>3, <2>4, QuietKeepsWakeup
<1>8. CASE UNCHANGED vars
  <2>1. RowsStep /\ Calling' = Calling /\ Claiming' = Claiming
    BY <1>8, SameRows DEF vars, Calling, Claiming, At
  <2> QED
    BY <1>0, <1>8, <2>1, QuietKeepsWakeup DEF vars
<1> QED
  BY <1>1, <1>2, <1>3, <1>4, <1>5, <1>6, <1>7, <1>8
     DEF Next, Call, Control, ApiCrash, DispatchRaises, WorkerCrash,
         ExecutionLost, HandlerSteps, Aggregates

\* As long as no process dies and the executor answers, there are always at
\* least as many executions to come as rows to claim, for any number of jobs
\* and of executions that run at once (execute_all, claim_next_job): a row is
\* never left in the queue with nobody to claim it.
THEOREM NoWakeupIsLost ==
    ASSUME IsFiniteSet(Workers), ~CrashesPossible, ~DispatchCanFail
    PROVE  Spec => []NoLostWakeup
<1>1. Init => WakeupInv
  <2>1. ASSUME Init PROVE NoLostWakeup
    <3>1. Claimable = {} /\ Cardinality(Claimable) = 0
      BY <2>1, FS_EmptySet DEF Init, Claimable, UnusedRow
    <3>2. Cardinality(Claimable) <=
              executions + Cardinality(Calling) + Cardinality(Claiming)
      BY <2>1, <3>1, CountTypes DEF Init
    <3> QED
      BY <3>2 DEF NoLostWakeup, Calling, Claiming
  <2> QED
    BY <2>1 DEF WakeupInv, FreshCalls, Init
<1>2. IInv /\ WakeupInv /\ [Next]_vars => WakeupInv'
  BY WakeupStep
<1>3. WakeupInv => NoLostWakeup
  BY DEF WakeupInv
<1> QED
  BY <1>1, <1>2, <1>3, InductiveInvariant, PTL DEF Spec

-----------------------------------------------------------------------------
(***************************************************************************)
(* The refinement of SubmissionRun.  It follows from RowStep, Insertion    *)
(* and the invariants alone: no action has to be looked at again.          *)
(***************************************************************************)
RunInv == IInv /\ CancelledIsFailed

LEMMA RunInvIsInductive ==
    ASSUME RunInv, [Next]_vars
    PROVE  /\ RunInv'
           /\ RowsStep \/ Insertion
<1>1. IInv' /\ StepKeepsIInv
  BY EveryStep, IInvIsInductive DEF RunInv
<1>2. CASE RowsStep
  BY <1>1, <1>2
     DEF RunInv, CancelledIsFailed, RowsStep, RowStep, Settled, KeepsOutcome
<1>3. CASE Insertion
  <2>1. /\ job'[next].control = "ACTIVE"
        /\ \A j \in Jobs \ {next} : job'[j] = job[j]
    BY <1>3, InsertedRow DEF RunInv, IInv
  <2> QED
    BY <1>1, <1>3, <2>1 DEF RunInv, CancelledIsFailed
<1> QED
  BY <1>1, <1>2, <1>3 DEF StepKeepsIInv

\* The current run is the one that is not superseded, and what is published is
\* published by it.
LEMMA CurrentIs ==
    ASSUME NEW s \in Submissions, OneHead
    PROVE  /\ \A j \in Unsuperseded(s) : CurrentRun(s) = j
           /\ Unsuperseded(s) = {} => CurrentRun(s) = NoJob
           /\ CurrentRun(s) # NoJob => CurrentRun(s) \in Unsuperseded(s)
  BY DEF OneHead, Unsuperseded, CurrentRun

LEMMA CurrentIsNext ==
    ASSUME NEW s \in Submissions, OneHead'
    PROVE  /\ \A j \in Unsuperseded(s)' : CurrentRun(s)' = j
           /\ Unsuperseded(s)' = {} => CurrentRun(s)' = NoJob
           /\ CurrentRun(s)' # NoJob => CurrentRun(s)' \in Unsuperseded(s)'
  BY DEF OneHead, Unsuperseded, CurrentRun

PublishedByCurrent(s) ==
    /\ published[s] \in {NoJob, CurrentRun(s)}
    /\ CurrentRun(s) # NoJob =>
          /\ CurrentRun(s) \in Unsuperseded(s)
          /\ published[s] = CurrentRun(s) <=>
                job[CurrentRun(s)].status = "SUCCEEDED"
          /\ job[CurrentRun(s)].status = "SUCCEEDED" =>
                job[CurrentRun(s)].control = "ACTIVE"

LEMMA OnlyCurrentPublishes ==
    ASSUME NEW s \in Submissions, IInv PROVE PublishedByCurrent(s)
<1>1. /\ published[s] \in Jobs \cup {NoJob}
      /\ OneHead /\ LineageIsLinear /\ AssessmentFenced
  BY DEF IInv, TypeOK, TableInv
<1>2. published[s] # NoJob => published[s] \in Unsuperseded(s)
  BY <1>1 DEF AssessmentFenced, LineageIsLinear, Continued, Unsuperseded
<1>3. published[s] \in {NoJob, CurrentRun(s)}
  BY <1>1, <1>2, CurrentIs
<1> QED
  BY <1>1, <1>3, CurrentIs
     DEF PublishedByCurrent, AssessmentFenced, Unsuperseded

LEMMA OnlyCurrentPublishesNext ==
    ASSUME NEW s \in Submissions, IInv' PROVE PublishedByCurrent(s)'
<1>1. /\ published'[s] \in Jobs \cup {NoJob}
      /\ OneHead' /\ LineageIsLinear' /\ AssessmentFenced'
  BY DEF IInv, TypeOK, TableInv
<1>2. published'[s] # NoJob => published'[s] \in Unsuperseded(s)'
  BY <1>1 DEF AssessmentFenced, LineageIsLinear, Continued, Unsuperseded
<1>3. published'[s] \in {NoJob, CurrentRun(s)'}
  BY <1>1, <1>2, CurrentIsNext
<1> QED
  BY <1>1, <1>3, CurrentIsNext
     DEF PublishedByCurrent, AssessmentFenced, Unsuperseded

\* Without an insertion the run stays the same and moves within its phases.
LEMMA RowsStepRuns ==
    ASSUME NEW s \in Submissions, RunInv, RunInv', RowsStep
    PROVE  [Run(s)!Next]_(Run(s)!vars)
<1>1. /\ OneHead /\ OneHead' /\ PublishedByCurrent(s) /\ PublishedByCurrent(s)'
      /\ job \in [Jobs -> JobRow] /\ job' \in [Jobs -> JobRow]
  BY OnlyCurrentPublishes, OnlyCurrentPublishesNext
     DEF RunInv, IInv, TypeOK, TableInv
<1>2. Unsuperseded(s)' = Unsuperseded(s)
  BY DEF Unsuperseded, Continued, RowsStep, RowStep
<1>3. CurrentRun(s)' = CurrentRun(s)
  BY <1>1, <1>2, CurrentIs, CurrentIsNext
<1>4. CASE CurrentRun(s) = NoJob
  BY <1>1, <1>3, <1>4 DEF Phase, PublishedByCurrent, Run!vars
<1>5. CASE CurrentRun(s) # NoJob
  <2> DEFINE j == CurrentRun(s)
  <2>1. /\ j \in Jobs /\ RowStep(j)
        /\ job[j] \in JobRow /\ job'[j] \in JobRow
        /\ job[j].status # "UNUSED"
        /\ Phase(s) = RunPhase(job[j]) /\ Phase(s)' = RunPhase(job'[j])
    <3>1. j \in Jobs /\ job[j].target = s
      BY <1>1, <1>5 DEF PublishedByCurrent, Unsuperseded
    <3>2. job[j].status # "UNUSED"
      BY <3>1, ConstantsAssumption
         DEF RunInv, IInv, TableInv, RowsInOrder, UnusedRow, Jobs, TypeOK,
             Aggregates
    <3> QED
      BY <1>1, <1>3, <1>5, <3>1, <3>2 DEF RowsStep, Phase
  <2>2. CASE job[j].control = "CANCELLED"
    <3>1. job'[j].control = "CANCELLED"
      BY <2>1, <2>2
         DEF RowStep, Settled, KeepsOutcome, RunInv, CancelledIsFailed
    <3> QED
      BY <1>1, <1>3, <1>5, <2>1, <2>2, <3>1
         DEF RunPhase, PublishedByCurrent, Run!vars
  <2>3. CASE job[j].control = "CANCEL_REQUESTED"
    <3>1. job'[j].control \in {"CANCEL_REQUESTED", "CANCELLED"}
      BY <2>1, <2>3 DEF RowStep, JobRow
    <3>2. published[s] = NoJob /\ published'[s] = NoJob
      BY <1>1, <1>3, <1>5, <2>3, <3>1 DEF PublishedByCurrent
    <3> QED
      BY <1>3, <2>1, <2>3, <3>1, <3>2
         DEF RunPhase, Run!vars, Run!Next, Run!Cancel
  <2>4. CASE job[j].control = "ACTIVE" /\ Settled(j)
    <3>1. job'[j].status = job[j].status /\ job'[j].control = "ACTIVE"
      BY <2>1, <2>4 DEF RowStep, KeepsOutcome
    <3> QED
      BY <1>1, <1>3, <1>5, <2>1, <2>4, <3>1
         DEF RunPhase, PublishedByCurrent, Run!vars
  <2>5. CASE job[j].control = "ACTIVE" /\ ~Settled(j)
    <3>1. job[j].status \in {"QUEUED", "RUNNING"} /\ Phase(s) = "OPEN"
      BY <2>1, <2>5 DEF Settled, JobRow, RunPhase
    <3>2. published[s] = NoJob
      BY <1>1, <1>5, <3>1 DEF PublishedByCurrent
    <3>3. job'[j].status # "UNUSED"
      BY <2>1 DEF RowStep
    <3>4. CASE job'[j].control = "ACTIVE" /\ job'[j].status = "SUCCEEDED"
      BY <1>1, <1>3, <1>5, <2>1, <3>1, <3>2, <3>4
         DEF RunPhase, PublishedByCurrent, Run!Next, Run!Publish
    <3>5. CASE job'[j].control # "ACTIVE" \/ job'[j].status # "SUCCEEDED"
      <4>1. published'[s] = NoJob
        BY <1>1, <1>3, <1>5, <3>5 DEF PublishedByCurrent
      <4>2. Phase(s)' \in {"OPEN", "STOPPING", "CANCELLED", "FAILED",
                           "NEEDS_REVIEW"}
        BY <2>1, <3>3, <3>5 DEF RunPhase, JobRow
      <4> QED
        BY <1>3, <3>1, <3>2, <4>1, <4>2
           DEF Run!vars, Run!Next, Run!RequestCancel, Run!Cancel, Run!Fail
    <3> QED
      BY <3>4, <3>5
  <2> QED
    BY <2>1, <2>2, <2>3, <2>4, <2>5 DEF JobRow
<1> QED
  BY <1>4, <1>5

\* An insertion begins the run of its submission or continues it.
LEMMA InsertionRuns ==
    ASSUME NEW s \in Submissions, RunInv, RunInv', Insertion
    PROVE  [Run(s)!Next]_(Run(s)!vars)
<1>1. /\ OneHead /\ OneHead' /\ PublishedByCurrent(s) /\ PublishedByCurrent(s)'
      /\ job \in [Jobs -> JobRow] /\ TypeOK /\ TableInv
  BY OnlyCurrentPublishes, OnlyCurrentPublishesNext
     DEF RunInv, IInv, TypeOK, TableInv
<1>2. PICK target \in Aggregates, attempt \in 0 .. MaxAttempts,
           source \in Jobs \cup {NoJob} :
         /\ job' = [job EXCEPT ![next] =
                      [ target |-> target, status |-> "QUEUED",
                        control |-> "ACTIVE", failure |-> "NONE",
                        attempt |-> attempt, source |-> source ]]
         /\ \/ /\ source = NoJob
               /\ target \in Submissions =>
                    \A j \in Jobs : job[j].target # target
            \/ /\ source \in Jobs
               /\ source < next
               /\ job[source].target = target
               /\ job[source].attempt = attempt
               /\ job[source].status \in {"FAILED", "NEEDS_REVIEW"}
               /\ job[source].control = "ACTIVE"
               /\ ~Continued(source)
  BY DEF Insertion
<1>3. /\ next \in Jobs /\ next # NoJob
      /\ job[next] = UnusedRow
      /\ job'[next].target = target /\ job'[next].source = source
      /\ job'[next].status = "QUEUED" /\ job'[next].control = "ACTIVE"
      /\ \A j \in Jobs \ {next} : job'[j] = job[j]
  <2>1. /\ next \in Jobs /\ job[next] = UnusedRow
        /\ job'[next].status = "QUEUED" /\ job'[next].control = "ACTIVE"
        /\ \A j \in Jobs \ {next} : job'[j] = job[j]
    BY <1>1, InsertedRow
  <2>2. job'[next].target = target /\ job'[next].source = source
    BY <1>1, <1>2, <2>1
  <2>3. next # NoJob
    BY <2>1 DEF Jobs, NoJob
  <2> QED
    BY <2>1, <2>2, <2>3
<1>4. \A j \in Jobs \ {next} : Continued(j)' <=> Continued(j) \/ source = j
  BY <1>3 DEF Continued, UnusedRow, Jobs, NoJob
<1>5. \A k \in Jobs : job'[k].source # next
  <2>1. \A k \in Jobs \ {next} : job[k].source # next
    <3>1. \A k \in Jobs : job[k].source \in Jobs \cup {NoJob}
      BY <1>1 DEF JobRow
    <3> QED
      BY <1>1, <1>3, <3>1
         DEF TableInv, RowsInOrder, UnusedRow, Jobs, NoJob, TypeOK
  <2>2. source # next
    BY <1>2, <1>3 DEF Jobs, NoJob
  <2> QED
    BY <1>3, <2>1, <2>2
<1>6. CASE target # s
  <2>1. Unsuperseded(s)' = Unsuperseded(s)
    <3>1. job[next].target # s
      BY <1>3, ConstantsAssumption DEF UnusedRow, Aggregates
    <3>2. \A j \in Jobs \ {next} :
              job[j].target = s => (Continued(j)' <=> Continued(j))
      BY <1>2, <1>4, <1>6 DEF Jobs, NoJob
    <3> QED
      BY <1>3, <1>6, <3>1, <3>2 DEF Unsuperseded
  <2>2. /\ CurrentRun(s)' = CurrentRun(s)
        /\ CurrentRun(s) # NoJob => job'[CurrentRun(s)] = job[CurrentRun(s)]
    BY <1>1, <1>3, <2>1, CurrentIs, CurrentIsNext, ConstantsAssumption
       DEF Unsuperseded, UnusedRow, Aggregates
  <2> QED
    BY <1>1, <2>2 DEF Phase, PublishedByCurrent, Run!vars
<1>7. CASE target = s
  <2>1. CurrentRun(s)' = next
    <3>1. next \in Unsuperseded(s)'
      BY <1>3, <1>5, <1>7 DEF Unsuperseded, Continued
    <3> QED
      BY <1>1, <3>1, CurrentIsNext
  <2>2. Phase(s)' = "OPEN"
    BY <1>3, <2>1 DEF Phase, RunPhase
  <2>3. published'[s] = NoJob
    BY <1>1, <1>3, <2>1 DEF PublishedByCurrent
  <2>4. CASE source = NoJob
    <3>1. CurrentRun(s) = NoJob
      BY <1>1, <1>2, <1>7, <2>4, CurrentIs DEF Unsuperseded, Jobs, NoJob
    <3> QED
      BY <1>1, <1>3, <2>1, <2>2, <2>3, <3>1
         DEF Phase, PublishedByCurrent, Run!Next, Run!Begin
  <2>5. CASE source \in Jobs
    <3>1. CurrentRun(s) = source /\ source # NoJob
      BY <1>1, <1>2, <1>7, <2>5, CurrentIs DEF Unsuperseded, Jobs, NoJob
    <3>2. Phase(s) \in {"FAILED", "NEEDS_REVIEW"}
      BY <1>2, <2>5, <3>1 DEF Phase, RunPhase, Jobs, NoJob
    <3>3. published[s] = NoJob
      BY <1>1, <1>2, <2>5, <3>1 DEF PublishedByCurrent, Jobs, NoJob
    <3> QED
      BY <1>2, <1>3, <2>1, <2>2, <2>3, <2>5, <3>1, <3>2, <3>3
         DEF Run!Next, Run!Continue, Jobs, NoJob
  <2> QED
    BY <2>4, <2>5
<1> QED
  BY <1>6, <1>7

LEMMA InitRuns ==
    ASSUME NEW s \in Submissions, Init PROVE Run(s)!Init
<1>1. Unsuperseded(s) = {}
  BY ConstantsAssumption DEF Init, Unsuperseded, UnusedRow, Aggregates
<1> QED
  BY <1>1 DEF Init, CurrentRun, Phase, Run!Init

LEMMA RunInvHolds == Spec => []RunInv
<1>1. Init => RunInv
  BY InitEstablishesIInv DEF RunInv, CancelledIsFailed, Init, UnusedRow
<1>2. RunInv /\ [Next]_vars => RunInv'
  BY RunInvIsInductive
<1> QED
  BY <1>1, <1>2, PTL DEF Spec

\* JobControl implements SubmissionRun towards every submission, whatever the
\* interleaving of claims, checkpoints, retries, cancellations, leases,
\* dispatches and deaths (claim_next_job, request_job_cancel,
\* schedule_job_continuation, reconcile_stale_jobs,
\* finalize_submission_assessment).
THEOREM RunsAreImplemented == Spec => ImplementsRuns
<1>1. Init => \A s \in Submissions : Run(s)!Init
  BY InitRuns
<1>2. RunInv /\ RunInv' /\ [Next]_vars =>
          \A s \in Submissions : [Run(s)!Next]_(Run(s)!vars)
  BY RunInvIsInductive, RowsStepRuns, InsertionRuns
<1> QED
  BY <1>1, <1>2, RunInvHolds, PTL DEF Spec, ImplementsRuns

\* The same, submission by submission.
THEOREM EachRunIsImplemented ==
    ASSUME NEW s \in Submissions PROVE Spec => Run(s)!Spec
<1>1. Init => Run(s)!Init
  BY InitRuns
<1>2. RunInv /\ RunInv' /\ [Next]_vars => [Run(s)!Next]_(Run(s)!vars)
  BY RunInvIsInductive, RowsStepRuns, InsertionRuns
<1> QED
  BY <1>1, <1>2, RunInvHolds, PTL DEF Spec, Run!Spec
=============================================================================

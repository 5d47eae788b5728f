----------------------- MODULE AssessmentReviewProofs -----------------------
(***************************************************************************)
(* The safety theorems of AssessmentReview, for every value of its         *)
(* constants: the inductive invariant, what follows from it, that the      *)
(* review implements ReviewedAssessment, and the limit of regenerations.   *)
(***************************************************************************)
EXTENDS AssessmentReviewInv, FiniteSetTheorems, TLAPS

\* What a step that inserts nothing may do to row j.
SameLine(j) ==
    /\ job'[j].source = job[j].source
    /\ job'[j].logical = job[j].logical
    /\ job'[j].action = job[j].action
    /\ job'[j].question = job[j].question
    /\ job'[j].base = job[j].base

RowStep(j) ==
    /\ SameLine(j)
    /\ job[j].status = "UNUSED" => job'[j] = job[j]
    /\ job'[j].status = "UNUSED" => job[j].status = "UNUSED"
    /\ Settled(j) => job'[j].status = "FAILED" /\ job'[j].control = "ACTIVE"

RowsStep == next' = next /\ \A j \in Jobs : RowStep(j)

\* An insertion: of the job of a request, or of a continuation.
Insertion(row) ==
    /\ next \in Jobs
    /\ next' = next + 1
    /\ row \in JobRow
    /\ job' = [job EXCEPT ![next] = row]
    /\ row.status \in {"RUNNING", "QUEUED"}
    /\ row.action \in ProviderActions
    /\ \/ row.source = NoJob /\ row.logical = next
       \/ /\ row.source \in Jobs
          /\ row.source < next
          /\ Settled(row.source)
          /\ ~Continued(row.source)
          /\ row.logical \in {job[row.source].logical, NoJob}

\* A step that the document of the assessment does not notice.
Unnoticed ==
    /\ UNCHANGED <<version, status, questions, guide>>
    /\ \A j \in Jobs :
          /\ job'[j].status = "SUCCEEDED" <=> job[j].status = "SUCCEEDED"
          /\ job[j].status = "SUCCEEDED" => job'[j].logical = job[j].logical

-----------------------------------------------------------------------------
(***************************************************************************)
(* The shape of the table.                                                 *)
(***************************************************************************)
LEMMA JobNumbers ==
    /\ \A j \in Jobs : j \in Nat /\ j # NoJob
    /\ TypeOK => next \in Nat
  BY ReviewConstants DEF Jobs, NoJob, TypeOK

LEMMA RowsStepKeepsTable ==
    ASSUME TypeOK, TableInv, RowsStep
    PROVE  TableInv'
<1> USE DEF TableInv, RowsStep
<1>1. (\A j \in Jobs : RowInOrder(j))'
  <2> SUFFICES ASSUME NEW j \in Jobs PROVE RowInOrder(j)'
    OBVIOUS
  <2>1. RowInOrder(j) /\ RowStep(j)
    OBVIOUS
  <2>2. UnusedRow.status = "UNUSED"
    BY DEF UnusedRow
  <2> QED
    BY <2>1, <2>2 DEF RowInOrder, RowStep, SameLine, UnusedRow
<1>2. Lineage'
  <2> SUFFICES ASSUME NEW j \in Jobs, job'[j].source # NoJob
               PROVE  /\ job'[job'[j].source].status = "FAILED"
                      /\ job'[job'[j].source].control = "ACTIVE"
                      /\ \A k \in Jobs : job'[k].source = job'[j].source => j = k
    BY DEF Lineage, Settled
  <2>1. job'[j].source = job[j].source
    BY DEF RowStep, SameLine
  <2>2. /\ Settled(job[j].source)
        /\ \A k \in Jobs : job[k].source = job[j].source => j = k
    BY <2>1 DEF Lineage
  <2>3. job[j].source \in Jobs
    BY <2>1 DEF TypeOK, JobRow, NoJob
  <2>4. /\ job'[job[j].source].status = "FAILED"
        /\ job'[job[j].source].control = "ACTIVE"
    BY <2>2, <2>3 DEF RowStep
  <2>5. \A k \in Jobs : job'[k].source = job[k].source
    BY DEF RowStep, SameLine
  <2> QED
    BY <2>1, <2>2, <2>4, <2>5
<1>3. OneTip'
  BY DEF OneTip, Continued, RowStep, SameLine
<1> QED
  BY <1>1, <1>2, <1>3

LEMMA InsertedRow ==
    ASSUME TypeOK, TableInv, NEW row, Insertion(row)
    PROVE  /\ next \in Jobs /\ next' = next + 1
           /\ job'[next] = row
           /\ \A j \in Jobs \ {next} : job'[j] = job[j]
           /\ job[next] = UnusedRow
           /\ \A j \in Jobs : job[j].source # next /\ job[j].logical # next
           /\ row.source # next
<1>1. /\ next \in Jobs /\ next' = next + 1
      /\ job'[next] = row
      /\ \A j \in Jobs \ {next} : job'[j] = job[j]
  BY DEF Insertion, TypeOK
<1>2. job[next] = UnusedRow
  BY <1>1, JobNumbers DEF TableInv, RowInOrder
<1>3. ASSUME NEW j \in Jobs
      PROVE  job[j].source # next /\ job[j].logical # next
  <2>1. /\ j < next => job[j].source < j /\ job[j].logical <= j
        /\ j >= next => job[j] = UnusedRow
    BY DEF TableInv, RowInOrder
  <2>2. UnusedRow.source = NoJob /\ UnusedRow.logical = NoJob
    BY DEF UnusedRow
  <2>3. CASE j < next
    BY <1>1, <2>1, <2>3, JobNumbers
  <2>4. CASE j >= next
    BY <1>1, <2>1, <2>2, <2>4, JobNumbers DEF NoJob
  <2> QED
    BY <1>1, <2>3, <2>4, JobNumbers
<1>4. row.source # next
  BY <1>1, JobNumbers DEF Insertion
<1> QED
  BY <1>1, <1>2, <1>3, <1>4

LEMMA InsertionKeepsTable ==
    ASSUME TypeOK, TableInv, NEW row, Insertion(row)
    PROVE  TableInv'
<1>1. /\ next \in Jobs /\ next' = next + 1
      /\ job'[next] = row
      /\ \A j \in Jobs \ {next} : job'[j] = job[j]
      /\ job[next] = UnusedRow
      /\ \A j \in Jobs : job[j].source # next /\ job[j].logical # next
      /\ row.source # next
  BY InsertedRow
<1>2. /\ row.status \in {"RUNNING", "QUEUED"}
      /\ row.action \in ProviderActions
      /\ \/ row.source = NoJob /\ row.logical = next
         \/ /\ row.source \in Jobs
            /\ row.source < next
            /\ Settled(row.source)
            /\ ~Continued(row.source)
            /\ row.logical \in {job[row.source].logical, NoJob}
  BY DEF Insertion
<1>3. (\A j \in Jobs : RowInOrder(j))'
  <2> SUFFICES ASSUME NEW j \in Jobs PROVE RowInOrder(j)'
    OBVIOUS
  <2>1. CASE j = next
    <3>1. row.source < next /\ row.logical <= next
      <4>1. CASE row.source = NoJob /\ row.logical = next
        BY <1>1, <4>1, JobNumbers, ReviewConstants DEF NoJob, Jobs
      <4>2. CASE row.source \in Jobs
        <5>1. RowInOrder(row.source) /\ row.source < next
          BY <1>1, <1>2, <4>2, JobNumbers DEF TableInv, NoJob
        <5>2. job[row.source].logical <= row.source
          BY <4>2, <5>1 DEF RowInOrder
        <5>3. job[row.source].logical \in Nat
          BY <4>2, ReviewConstants DEF TypeOK, JobRow, Jobs, NoJob
        <5> QED
          BY <1>1, <1>2, <4>2, <5>1, <5>2, <5>3, JobNumbers DEF NoJob
      <4> QED
        BY <1>2, <4>1, <4>2
    <3> QED
      BY <1>1, <1>2, <2>1, <3>1, JobNumbers DEF RowInOrder
  <2>2. CASE j # next
    <3>1. RowInOrder(j) /\ job'[j] = job[j]
      BY <1>1, <2>2 DEF TableInv
    <3>2. /\ j < next' => j < next
          /\ j >= next' => j >= next
      BY <1>1, <2>2, JobNumbers
    <3> QED
      BY <3>1, <3>2 DEF RowInOrder, UnusedRow
  <2> QED
    BY <2>1, <2>2
<1>4. Lineage'
  <2> SUFFICES ASSUME NEW j \in Jobs, job'[j].source # NoJob
               PROVE  /\ job'[job'[j].source].status = "FAILED"
                      /\ job'[job'[j].source].control = "ACTIVE"
                      /\ \A k \in Jobs : job'[k].source = job'[j].source => j = k
    BY DEF Lineage, Settled
  <2>1. /\ job'[j].source \in Jobs \ {next}
        /\ Settled(job'[j].source)
    <3>1. CASE j = next
      BY <1>1, <1>2, <3>1 DEF NoJob
    <3>2. CASE j # next
      <4>1. job'[j].source = job[j].source /\ job[j].source # NoJob
        BY <1>1, <3>2
      <4>2. job[j].source \in Jobs
        BY <4>1 DEF TypeOK, JobRow
      <4> QED
        BY <1>1, <4>1, <4>2 DEF TableInv, Lineage
    <3> QED
      BY <3>1, <3>2
  <2>2. /\ job'[job'[j].source].status = "FAILED"
        /\ job'[job'[j].source].control = "ACTIVE"
    BY <1>1, <2>1 DEF Settled
  <2>3. ASSUME NEW k \in Jobs, job'[k].source = job'[j].source
        PROVE  j = k
    <3>1. CASE j # next /\ k # next
      <4>1. job'[j] = job[j] /\ job'[k] = job[k]
        BY <1>1, <3>1
      <4> QED
        BY <2>3, <4>1 DEF TableInv, Lineage
    <3>2. CASE j = next /\ k # next
      <4>1. job[k].source = row.source /\ row.source # NoJob
        BY <1>1, <2>3, <3>2
      <4> QED
        BY <1>2, <4>1 DEF Continued
    <3>3. CASE j # next /\ k = next
      <4>1. job[j].source = row.source /\ row.source # NoJob
        BY <1>1, <2>3, <3>3
      <4> QED
        BY <1>2, <4>1 DEF Continued
    <3> QED
      BY <3>1, <3>2, <3>3
  <2> QED
    BY <2>2, <2>3
<1>5. OneTip'
  <2> SUFFICES ASSUME NEW j \in Jobs, NEW k \in Jobs,
                      job'[j].logical = job'[k].logical,
                      job'[j].logical # NoJob,
                      ~Continued(j)', ~Continued(k)'
               PROVE  j = k
    BY DEF OneTip
  <2>1. ASSUME NEW i \in Jobs \ {next}, ~Continued(i)'
        PROVE  ~Continued(i) /\ i # row.source
    <3>1. \A b \in Jobs : job'[b].source # i
      BY <2>1 DEF Continued
    <3>2. UnusedRow.source = NoJob /\ i # NoJob
      BY JobNumbers DEF UnusedRow
    <3> QED
      BY <1>1, <3>1, <3>2 DEF Continued
  <2>2. ASSUME NEW i \in Jobs \ {next}, ~Continued(i)'
        PROVE  row.logical # NoJob => job[i].logical # row.logical
    <3>1. CASE row.source = NoJob /\ row.logical = next
      BY <1>1, <3>1
    <3>2. CASE row.source \in Jobs /\ row.logical # NoJob
      <4>1. row.logical = job[row.source].logical /\ ~Continued(row.source)
        BY <1>2, <3>2, JobNumbers
      <4>2. ~Continued(i) /\ i # row.source
        BY <2>1, <2>2
      <4> QED
        BY <3>2, <4>1, <4>2 DEF TableInv, OneTip
    <3> QED
      BY <1>2, <3>1, <3>2
  <2>3. CASE j # next /\ k # next
    BY <1>1, <2>1, <2>3 DEF TableInv, OneTip
  <2>4. CASE j = next /\ k # next
    BY <1>1, <2>2, <2>4
  <2>5. CASE j # next /\ k = next
    BY <1>1, <2>2, <2>5
  <2> QED
    BY <2>3, <2>4, <2>5
<1> QED
  BY <1>3, <1>4, <1>5 DEF TableInv

-----------------------------------------------------------------------------
(***************************************************************************)
(* What the invariant says of the executions after a step.                 *)
(***************************************************************************)
\* No action of a handler that stays where it is sees its row or the version
\* it has read change under it.
LEMMA OthersStay ==
    ASSUME IInv, NEW g \in Handlers, handler'[g] = handler[g],
           next' \in Nat, next' >= next,
           \A j \in Jobs : j < next => SameLine(j),
           JobOf(g) # NoJob => job'[JobOf(g)].status = job[JobOf(g)].status,
           version' \in Nat, version' >= version,
           version' = version => UNCHANGED <<status, questions, submission>>
    PROVE  HandlerOK(handler[g])'
<1>1. /\ HandlerOK(handler[g])
      /\ handler[g] \in Handler
      /\ next \in Nat /\ version \in Nat
  BY JobNumbers DEF IInv, TypeOK
<1>2. JobOK(handler[g])'
  <2>1. CASE handler[g].job = NoJob
    BY <1>1, <2>1 DEF HandlerOK, JobOK, HasJob
  <2>2. CASE handler[g].job # NoJob
    <3>1. /\ handler[g].job \in Jobs
          /\ handler[g].job \in Nat
          /\ handler[g].job < next
      BY <1>1, <2>2, JobNumbers DEF HandlerOK, JobOK, Handler
    <3>2. /\ handler[g].job < next'
          /\ SameLine(handler[g].job)
          /\ job'[handler[g].job].status = job[handler[g].job].status
      BY <1>1, <2>2, <3>1 DEF JobOf
    <3> QED
      BY <1>1, <2>2, <3>1, <3>2 DEF HandlerOK, JobOK, HasJob, SameLine
  <2> QED
    BY <2>1, <2>2
<1>3. ActionOK(handler[g])'
  BY <1>1 DEF HandlerOK, ActionOK
<1>4. ReadingOK(handler[g])'
  <2>1. handler[g].base \in Nat /\ handler[g].base <= version
    BY <1>1 DEF HandlerOK, ReadingOK, Handler
  <2>2. CASE version' = version
    BY <1>1, <2>2 DEF HandlerOK, ReadingOK, Reviewable
  <2>3. CASE version' # version
    <3>1. handler[g].base < version'
      BY <1>1, <2>1, <2>3
    <3> QED
      BY <1>1, <2>1, <3>1 DEF HandlerOK, ReadingOK
  <2> QED
    BY <2>2, <2>3
<1> QED
  BY <1>2, <1>3, <1>4 DEF HandlerOK

\* Two handlers share no job if the one that moves keeps its job, drops it or
\* takes one that nobody has.
LEMMA OneMoves ==
    ASSUME TypeOK, NoSharedJob, NEW h \in Handlers, NEW e,
           handler' = [handler EXCEPT ![h] = e],
           \/ e.job \in {NoJob, JobOf(h)}
           \/ \A g \in Handlers : JobOf(g) # e.job
    PROVE  NoSharedJob'
<1>1. \A g \in Handlers : handler'[g] = IF g = h THEN e ELSE handler[g]
  BY DEF TypeOK
<1> QED
  BY <1>1 DEF NoSharedJob, JobOf

\* A step of one handler that leaves the tables of the job alone.
LEMMA HandlerMoves ==
    ASSUME IInv, NEW h \in Handlers, NEW e \in Handler,
           handler' = [handler EXCEPT ![h] = e],
           UNCHANGED <<assessmentVars, used, jobVars>>,
           unresolved' \in SUBSET Questions,
           e.job \in {NoJob, JobOf(h)},
           HandlerOK(e)
    PROVE  IInv' /\ Unnoticed
<1>1. TypeOK'
  BY DEF IInv, TypeOK, assessmentVars, jobVars
<1>2. TableInv' /\ DocumentInv' /\ SubmissionAgrees' /\ CancelWins' /\ Unnoticed
  BY DEF IInv, TableInv, RowInOrder, Lineage, Settled, OneTip, Continued,
         DocumentInv, SubmissionAgrees, CancelWins, Unnoticed,
         assessmentVars, jobVars
<1>3. NoSharedJob'
  BY OneMoves DEF IInv
<1>4. ASSUME NEW g \in Handlers
      PROVE  HandlerOK(handler[g])'
  <2>1. handler'[g] = IF g = h THEN e ELSE handler[g]
    BY DEF IInv, TypeOK
  <2>2. CASE g = h
    <3>1. HandlerOK(e)'
      BY DEF HandlerOK, JobOK, HasJob, ActionOK, ReadingOK, Reviewable,
             assessmentVars, jobVars
    <3> QED
      BY <2>1, <2>2, <3>1
         DEF HandlerOK, JobOK, HasJob, ActionOK, ReadingOK, Reviewable
  <2>3. CASE g # h
    <3>1. HandlerOK(handler[g])
      BY DEF IInv
    <3>2. handler'[g] = handler[g]
      BY <2>1, <2>3
    <3> QED
      BY <3>1, <3>2
         DEF HandlerOK, JobOK, HasJob, ActionOK, ReadingOK, Reviewable,
             assessmentVars, jobVars
  <2> QED
    BY <2>2, <2>3
<1> QED
  BY <1>1, <1>2, <1>3, <1>4 DEF IInv

\* Row j takes the value row, within what RowStep allows, and is not a row
\* that has succeeded or now succeeds.
QuietRow(j, row) ==
    /\ job' = [job EXCEPT ![j] = row]
    /\ RowStep(j)
    /\ job[j].status # "SUCCEEDED"
    /\ row.status # "SUCCEEDED"
    /\ UNCHANGED <<assessmentVars, used, next>>
    /\ unresolved' \in SUBSET Questions

LEMMA QuietRowKeeps ==
    ASSUME IInv, NEW j \in Jobs, NEW row \in JobRow, QuietRow(j, row)
    PROVE  /\ TypeOK /\ job' \in [Jobs -> JobRow]
           /\ TableInv' /\ DocumentInv' /\ SubmissionAgrees' /\ CancelWins'
           /\ Unnoticed
           /\ \A i \in Jobs : job'[i] = IF i = j THEN row ELSE job[i]
           /\ \A i \in Jobs : SameLine(i)
<1>1. TypeOK /\ job' \in [Jobs -> JobRow]
  BY DEF IInv, TypeOK, QuietRow
<1>2. \A i \in Jobs : job'[i] = IF i = j THEN row ELSE job[i]
  BY DEF IInv, TypeOK, QuietRow
<1>3. \A i \in Jobs : RowStep(i)
  BY <1>2 DEF QuietRow, RowStep, SameLine, Settled
<1>4. TableInv'
  BY <1>3, RowsStepKeepsTable DEF IInv, RowsStep, QuietRow
<1>5. DocumentInv' /\ SubmissionAgrees'
  BY DEF IInv, DocumentInv, SubmissionAgrees, QuietRow, assessmentVars
<1>6. CancelWins' /\ Unnoticed
  BY <1>2 DEF IInv, CancelWins, Unnoticed, QuietRow, assessmentVars
<1> QED
  BY <1>1, <1>2, <1>3, <1>4, <1>5, <1>6 DEF RowStep

\* A step of one handler on its own row, or on a row that nobody has.
LEMMA OwnRowMoves ==
    ASSUME IInv, NEW h \in Handlers, NEW e \in Handler,
           NEW j \in Jobs, NEW row \in JobRow, QuietRow(j, row),
           handler' = [handler EXCEPT ![h] = e],
           \A g \in Handlers \ {h} : JobOf(g) # j,
           e.job \in {NoJob, j},
           JobOK(e)', ActionOK(e), ReadingOK(e)
    PROVE  IInv' /\ Unnoticed
<1>1. /\ TypeOK /\ job' \in [Jobs -> JobRow]
      /\ TableInv' /\ DocumentInv' /\ SubmissionAgrees' /\ CancelWins'
      /\ Unnoticed
      /\ \A i \in Jobs : job'[i] = IF i = j THEN row ELSE job[i]
      /\ \A i \in Jobs : SameLine(i)
  BY QuietRowKeeps
<1>2. TypeOK'
  BY <1>1 DEF TypeOK, QuietRow, assessmentVars
<1>3. NoSharedJob'
  <2>1. \/ e.job \in {NoJob, JobOf(h)}
        \/ \A g \in Handlers : JobOf(g) # e.job
    OBVIOUS
  <2> QED
    BY <1>1, <2>1, OneMoves DEF IInv
<1>4. ASSUME NEW g \in Handlers
      PROVE  HandlerOK(handler[g])'
  <2>1. handler'[g] = IF g = h THEN e ELSE handler[g]
    BY <1>1 DEF TypeOK
  <2>2. CASE g = h
    <3>1. ReadingOK(e)' /\ ActionOK(e)'
      BY DEF ActionOK, ReadingOK, Reviewable, QuietRow, assessmentVars
    <3> QED
      BY <2>1, <2>2, <3>1
         DEF HandlerOK, JobOK, HasJob, ActionOK, ReadingOK, Reviewable
  <2>3. CASE g # h
    <3>1. handler'[g] = handler[g]
      BY <2>1, <2>3
    <3>2. next' \in Nat /\ next' >= next /\ version' \in Nat /\ version' >= version
      BY <1>1, JobNumbers DEF TypeOK, QuietRow, assessmentVars
    <3>3. JobOf(g) # NoJob => job'[JobOf(g)].status = job[JobOf(g)].status
      BY <1>1, <2>3 DEF TypeOK, Handler, JobOf
    <3>4. UNCHANGED <<status, questions, submission>>
      BY DEF QuietRow, assessmentVars
    <3> QED
      BY <1>1, <3>1, <3>2, <3>3, <3>4, OthersStay
  <2> QED
    BY <2>2, <2>3
<1> QED
  BY <1>1, <1>2, <1>3, <1>4 DEF IInv

\* A step of somebody else on a row; the handler of the row, if there is one,
\* does not notice.
LEMMA RowMoves ==
    ASSUME IInv, NEW j \in Jobs, NEW row \in JobRow, QuietRow(j, row),
           UNCHANGED handler,
           row.status = job[j].status \/ \A g \in Handlers : JobOf(g) # j
    PROVE  IInv' /\ Unnoticed
<1>1. /\ TypeOK /\ job' \in [Jobs -> JobRow]
      /\ TableInv' /\ DocumentInv' /\ SubmissionAgrees' /\ CancelWins'
      /\ Unnoticed
      /\ \A i \in Jobs : job'[i] = IF i = j THEN row ELSE job[i]
      /\ \A i \in Jobs : SameLine(i)
  BY QuietRowKeeps
<1>2. TypeOK'
  BY <1>1 DEF TypeOK, QuietRow, assessmentVars
<1>3. NoSharedJob'
  BY DEF IInv, NoSharedJob, JobOf
<1>4. ASSUME NEW g \in Handlers
      PROVE  HandlerOK(handler[g])'
  <2>1. next' \in Nat /\ next' >= next /\ version' \in Nat /\ version' >= version
    BY <1>1, JobNumbers DEF TypeOK, QuietRow, assessmentVars
  <2>2. JobOf(g) # NoJob => job'[JobOf(g)].status = job[JobOf(g)].status
    BY <1>1 DEF TypeOK, Handler, JobOf
  <2>3. UNCHANGED <<status, questions, submission>> /\ handler'[g] = handler[g]
    BY DEF QuietRow, assessmentVars
  <2> QED
    BY <1>1, <2>1, <2>2, <2>3, OthersStay
<1> QED
  BY <1>1, <1>2, <1>3, <1>4 DEF IInv

\* An insertion: nobody but handler h, if it made it, has the new row.
LEMMA InsertionKeeps ==
    ASSUME IInv, NEW row, Insertion(row),
           UNCHANGED <<assessmentVars, recordVars>>
    PROVE  /\ TypeOK /\ job' \in [Jobs -> JobRow] /\ next' \in 1 .. MaxJobs + 1
           /\ TableInv' /\ DocumentInv' /\ SubmissionAgrees' /\ CancelWins'
           /\ Unnoticed
           /\ \A g \in Handlers : JobOf(g) # next
           /\ \A g \in Handlers : handler'[g] = handler[g] => HandlerOK(handler[g])'
<1>1. TypeOK /\ TableInv
  BY DEF IInv
<1>2. /\ next \in Jobs /\ next' = next + 1
      /\ job'[next] = row
      /\ \A j \in Jobs \ {next} : job'[j] = job[j]
      /\ job[next] = UnusedRow
  BY <1>1, InsertedRow
<1>3. row \in JobRow /\ row.status \in {"RUNNING", "QUEUED"}
  BY DEF Insertion
<1>4. job' \in [Jobs -> JobRow]
  BY <1>1, <1>3 DEF TypeOK, Insertion
<1>5. next' \in 1 .. MaxJobs + 1
  BY <1>2, ReviewConstants DEF Jobs
<1>6. TableInv'
  BY <1>1, InsertionKeepsTable
<1>7. DocumentInv' /\ SubmissionAgrees'
  BY DEF IInv, DocumentInv, SubmissionAgrees, assessmentVars
<1>8. CancelWins' /\ Unnoticed
  <2>1. ASSUME NEW j \in Jobs
        PROVE  /\ job'[j].status = "SUCCEEDED" <=> job[j].status = "SUCCEEDED"
               /\ job[j].status = "SUCCEEDED" => job'[j] = job[j]
    BY <1>2, <1>3 DEF UnusedRow
  <2> QED
    BY <2>1 DEF IInv, CancelWins, Unnoticed, assessmentVars
<1>9. \A g \in Handlers : JobOf(g) # next
  <2> SUFFICES ASSUME NEW g \in Handlers, handler[g].job = next PROVE FALSE
    BY DEF JobOf
  <2>1. handler[g].job < next
    BY <1>2, JobNumbers DEF IInv, HandlerOK, JobOK
  <2> QED
    BY <1>2, <2>1, JobNumbers
<1>10. ASSUME NEW g \in Handlers, handler'[g] = handler[g]
       PROVE  HandlerOK(handler[g])'
  <2>1. next' \in Nat /\ next' >= next /\ version' \in Nat /\ version' >= version
    BY <1>1, <1>2, JobNumbers DEF TypeOK, assessmentVars
  <2>2. JobOf(g) # NoJob => job'[JobOf(g)].status = job[JobOf(g)].status
    BY <1>1, <1>2, <1>9 DEF TypeOK, Handler, JobOf
  <2>3. UNCHANGED <<status, questions, submission>>
    BY DEF assessmentVars
  <2>4. \A j \in Jobs : j < next => SameLine(j)
    BY <1>2, JobNumbers DEF SameLine
  <2> QED
    BY <1>10, <2>1, <2>2, <2>3, <2>4, OthersStay
<1> QED
  BY <1>1, <1>2, <1>4, <1>5, <1>6, <1>7, <1>8, <1>9, <1>10

-----------------------------------------------------------------------------
(***************************************************************************)
(* Handlers and rows as the actions write them.                            *)
(***************************************************************************)
SameReading(e, f) ==
    /\ f.action = e.action
    /\ f.question = e.question
    /\ f.base = e.base
    /\ f.questions = e.questions

LEMMA MovedFields ==
    ASSUME NEW e \in Handler
    PROVE  /\ \A s \in Steps :
                 /\ Going(e, s) \in Handler
                 /\ SameReading(e, Going(e, s))
                 /\ Going(e, s).step = s
                 /\ Going(e, s).job = e.job
                 /\ Going(e, s).opportunity = e.opportunity
                 /\ Going(e, s).outcome = e.outcome
           /\ \A o \in FailureClasses \cup {"APPLIED"} :
                 /\ Concluding(e, o) \in Handler
                 /\ SameReading(e, Concluding(e, o))
                 /\ Concluding(e, o).step = "lock"
                 /\ Concluding(e, o).job = e.job
                 /\ Concluding(e, o).opportunity = e.opportunity
                 /\ Concluding(e, o).outcome = o
           /\ \A o \in FailureClasses :
                 /\ Failing(e, o) \in Handler
                 /\ SameReading(e, Failing(e, o))
                 /\ Failing(e, o).step = "fail"
                 /\ Failing(e, o).job = e.job
                 /\ Failing(e, o).opportunity = e.opportunity
                 /\ Failing(e, o).outcome = o
           /\ \A v \in Nat :
                 /\ Locked(e, v) \in Handler
                 /\ SameReading(e, Locked(e, v))
                 /\ Locked(e, v).step = "apply"
                 /\ Locked(e, v).job = e.job
                 /\ Locked(e, v).opportunity = e.opportunity
                 /\ Locked(e, v).outcome = e.outcome
<1>1. "lock" \in Steps /\ "fail" \in Steps /\ "apply" \in Steps
  BY DEF Steps
<1> QED
  BY <1>1 DEF Handler, SameReading, Going, Concluding, Failing, Locked

LEMMA PreparedFields ==
    ASSUME NEW e \in Handler, NEW j \in Jobs
    PROVE  /\ Prepared(e, j) \in Handler
           /\ SameReading(e, Prepared(e, j))
           /\ Prepared(e, j).step \in {"limit", "provider"}
           /\ Prepared(e, j).job = j
           /\ Prepared(e, j).opportunity = e.opportunity
<1>1. AfterPrepare(e.action) \in Steps /\ AfterPrepare(e.action) \in {"limit", "provider"}
  BY DEF AfterPrepare, Steps
<1> QED
  BY <1>1 DEF Handler, SameReading, Prepared

LEMMA RegeneratingFields ==
    ASSUME NEW e \in Handler, NEW o \in Opportunities
    PROVE  /\ Regenerating(e, o) \in Handler
           /\ SameReading(e, Regenerating(e, o))
           /\ Regenerating(e, o).step = "provider"
           /\ Regenerating(e, o).job = e.job
           /\ Regenerating(e, o).opportunity = o
<1>1. "provider" \in Steps
  BY DEF Steps
<1> QED
  BY <1>1 DEF Handler, SameReading, Regenerating

\* A handler with nothing to do.
LEMMA IdleOK ==
    ASSUME IInv
    PROVE  /\ IdleHandler \in Handler
           /\ HandlerOK(IdleHandler)
           /\ JobOK(IdleHandler)'
           /\ IdleHandler.job = NoJob
<1>1. /\ 1 \in Questions
      /\ \A q \in Questions : q \in Opportunities
      /\ version \in Nat \ {0}
  BY ReviewConstants DEF Questions, Opportunities, IInv, TypeOK
<1>2. Planned \in [Questions -> Question]
  BY <1>1 DEF Planned, Question, NoJob
<1>3. IdleHandler \in Handler
  BY <1>1, <1>2 DEF IdleHandler, Handler, Steps, NoJob
<1>4. /\ IdleHandler.step = "idle" /\ IdleHandler.job = NoJob
      /\ IdleHandler.base = 0 /\ IdleHandler.questions = Planned
      /\ IdleHandler.question = 1 /\ IdleHandler.opportunity = 1
  BY DEF IdleHandler
<1>5. \A q \in Questions : Planned[q].opportunity = q
  BY DEF Planned
<1>6. ReadingOK(IdleHandler)
  BY <1>1, <1>4, <1>5 DEF ReadingOK, Reviewing
<1>7. JobOK(IdleHandler) /\ ActionOK(IdleHandler) /\ JobOK(IdleHandler)'
  BY <1>4 DEF JobOK, HasJob, ActionOK
<1> QED
  BY <1>3, <1>4, <1>6, <1>7 DEF HandlerOK

\* A handler that has just read the newest version.
LEMMA ReadingFields ==
    ASSUME IInv, NEW action \in Reviews \cup {"NONE", "APPROVE"},
           NEW q \in Questions, NEW j \in Jobs \cup {NoJob}, NEW s \in Steps,
           s \in Reviewing => Reviewable
    PROVE  /\ Reading(action, q, j, s) \in Handler
           /\ ReadingOK(Reading(action, q, j, s))
           /\ Reading(action, q, j, s).step = s
           /\ Reading(action, q, j, s).action = action
           /\ Reading(action, q, j, s).question = q
           /\ Reading(action, q, j, s).job = j
           /\ Reading(action, q, j, s).base = version
           /\ Reading(action, q, j, s).outcome = "APPLIED"
<1>1. /\ version \in Nat /\ version <= version
      /\ questions \in [Questions -> Question]
      /\ questions[q].opportunity \in Opportunities
      /\ \A p, r \in Questions :
            p # r => questions[p].opportunity # questions[r].opportunity
  BY DEF IInv, TypeOK, Question, DocumentInv
<1>2. PICK e : e = Reading(action, q, j, s)
  OBVIOUS
<1>3. /\ e.step = s /\ e.action = action /\ e.question = q /\ e.job = j
      /\ e.base = version /\ e.questions = questions
      /\ e.opportunity = questions[q].opportunity /\ e.outcome = "APPLIED"
  BY <1>2 DEF Reading
<1>4. e \in Handler
  BY <1>1, <1>2 DEF Handler, Reading
<1>5. ReadingOK(e)
  BY <1>1, <1>3 DEF ReadingOK
<1> QED
  BY <1>2, <1>3, <1>4, <1>5

\* A handler that goes on with what it has read.
LEMMA StillReading ==
    ASSUME NEW e, NEW f, ReadingOK(e), SameReading(e, f),
           \/ f.opportunity = e.opportunity
           \/ \A q \in Questions : e.questions[q].opportunity # f.opportunity,
           f.step \in Reviewing => e.step \in Reviewing \/ e.base # version
                                       \/ Reviewable
    PROVE  ReadingOK(f)
  BY DEF ReadingOK, SameReading

\* A handler keeps its job if it goes to a step that belongs to the job.
LEMMA StillWorking ==
    ASSUME NEW e, NEW f, JobOK(e), SameReading(e, f), f.job = e.job,
           HasJob(f) <=> HasJob(e),
           f.step # "fail_saved" /\ e.step # "fail_saved",
           HasJob(e) \/ e.job = NoJob,
           f.step \in Reviewing => e.step \in Reviewing
    PROVE  JobOK(f)
  BY DEF JobOK, SameReading

LEMMA RowFields ==
    ASSUME NEW row \in JobRow
    PROVE  /\ GeneratedRow(row) \in JobRow
           /\ GeneratedRow(row).status = row.status
           /\ GeneratedRow(row).control = row.control
           /\ CancelledRow(row) \in JobRow
           /\ CancelledRow(row).status = "FAILED"
           /\ SucceededRow(row) \in JobRow
           /\ SucceededRow(row).status = "SUCCEEDED"
           /\ SucceededRow(row).control = row.control
           /\ CancellingRow(row) \in JobRow
           /\ CancellingRow(row).status = row.status
           /\ UnclassifiedRow(row) \in JobRow
           /\ UnclassifiedRow(row).status = "FAILED"
           /\ UnclassifiedRow(row).control = row.control
           /\ \A c \in FailureClasses :
                 /\ FailedRow(row, c) \in JobRow
                 /\ FailedRow(row, c).status = "FAILED"
                 /\ FailedRow(row, c).control = row.control
           /\ row.attempt < MaxAttempts =>
                 /\ ClaimedRow(row) \in JobRow
                 /\ ClaimedRow(row).status = "RUNNING"
                 /\ ClaimedRow(row).control = row.control
<1>1. GeneratedRow(row) \in JobRow
  BY DEF JobRow, GeneratedRow
<1>2. CancelledRow(row) \in JobRow
  BY DEF JobRow, CancelledRow
<1>3. SucceededRow(row) \in JobRow
  BY DEF JobRow, SucceededRow
<1>4. CancellingRow(row) \in JobRow
  BY DEF JobRow, CancellingRow
<1>5. UnclassifiedRow(row) \in JobRow
  BY DEF JobRow, UnclassifiedRow
<1>6. \A c \in FailureClasses : FailedRow(row, c) \in JobRow
  BY DEF JobRow, FailedRow
<1>7. ASSUME row.attempt < MaxAttempts PROVE ClaimedRow(row) \in JobRow
  <2>1. row.attempt \in 0 .. MaxAttempts
    BY DEF JobRow
  <2>2. row.attempt + 1 \in 0 .. MaxAttempts
    BY <1>7, <2>1, ReviewConstants
  <2> QED
    BY <2>2 DEF JobRow, ClaimedRow
<1>8. /\ GeneratedRow(row).status = row.status
      /\ GeneratedRow(row).control = row.control
      /\ CancelledRow(row).status = "FAILED"
      /\ SucceededRow(row).status = "SUCCEEDED"
      /\ SucceededRow(row).control = row.control
      /\ CancellingRow(row).status = row.status
      /\ UnclassifiedRow(row).status = "FAILED"
      /\ UnclassifiedRow(row).control = row.control
      /\ ClaimedRow(row).status = "RUNNING"
      /\ ClaimedRow(row).control = row.control
  BY DEF JobRow, GeneratedRow, CancelledRow, SucceededRow, CancellingRow,
         UnclassifiedRow, ClaimedRow
<1>9. \A c \in FailureClasses : /\ FailedRow(row, c).status = "FAILED"
                                /\ FailedRow(row, c).control = row.control
  BY DEF JobRow, FailedRow
<1> QED
  BY <1>1, <1>2, <1>3, <1>4, <1>5, <1>6, <1>7, <1>8, <1>9

\* What the actions write, but for the status and the control, is what it was.
SameOrigin(row, new) ==
    /\ new.source = row.source
    /\ new.logical = row.logical
    /\ new.action = row.action
    /\ new.question = row.question
    /\ new.base = row.base

LEMMA RowOrigin ==
    ASSUME NEW row \in JobRow
    PROVE  /\ SameOrigin(row, GeneratedRow(row))
           /\ SameOrigin(row, CancelledRow(row))
           /\ SameOrigin(row, SucceededRow(row))
           /\ SameOrigin(row, CancellingRow(row))
           /\ SameOrigin(row, UnclassifiedRow(row))
           /\ SameOrigin(row, ClaimedRow(row))
           /\ \A c \in FailureClasses : SameOrigin(row, FailedRow(row, c))
  BY DEF JobRow, SameOrigin, GeneratedRow, CancelledRow, SucceededRow,
         CancellingRow, UnclassifiedRow, ClaimedRow, FailedRow

-----------------------------------------------------------------------------
(***************************************************************************)
(* The actions of one handler that leave the tables of the job alone.      *)
(***************************************************************************)
\* What is known of a handler before it moves.
LEMMA HandlerHas ==
    ASSUME IInv, NEW h \in Handlers
    PROVE  /\ handler[h] \in Handler
           /\ HandlerOK(handler[h])
           /\ JobOf(h) = handler[h].job
           /\ JobOf(h) \in Jobs \cup {NoJob}
           /\ \A j \in Jobs : j # NoJob
           /\ unresolved \in SUBSET Questions
           /\ handler[h].question \in Questions
           /\ JobOf(h) # NoJob =>
                 /\ JobOf(h) < next
                 /\ job[JobOf(h)] \in JobRow
                 /\ \A g \in Handlers \ {h} : JobOf(g) # JobOf(h)
  BY JobNumbers DEF IInv, TypeOK, Handler, JobOf, HandlerOK, JobOK, NoSharedJob

LEMMA Leaving ==
    ASSUME IInv, NEW h \in Handlers, Exit(h),
           UNCHANGED <<assessmentVars, used, jobVars>>,
           unresolved' \in SUBSET Questions
    PROVE  IInv' /\ Unnoticed
  BY IdleOK, HandlerMoves DEF Exit

LEMMA BeginReviewStep ==
    ASSUME IInv, NEW h \in Handlers, NEW action \in Reviews,
           NEW q \in Questions, BeginReview(h, action, q)
    PROVE  IInv' /\ Unnoticed
<1>1. PICK s : s = IF action \in ProviderActions THEN "prepare" ELSE "lock"
  OBVIOUS
<1>2. PICK e : e = Reading(action, q, NoJob, s)
  OBVIOUS
<1>3. s \in Steps /\ Reviewable /\ NoJob \in Jobs \cup {NoJob}
  BY <1>1 DEF BeginReview, Steps
<1>4. /\ e \in Handler /\ ReadingOK(e)
      /\ e.step = s /\ e.action = action /\ e.job = NoJob
      /\ e.outcome = "APPLIED"
  BY <1>2, <1>3, ReadingFields
<1>5. JobOK(e) /\ ActionOK(e)
  BY <1>1, <1>4 DEF JobOK, HasJob, ActionOK
<1>6. handler' = [handler EXCEPT ![h] = e]
  BY <1>1, <1>2 DEF BeginReview
<1>7. UNCHANGED <<assessmentVars, used, jobVars>> /\ unresolved' \in SUBSET Questions
  BY HandlerHas DEF BeginReview, recordVars
<1> QED
  BY <1>4, <1>5, <1>6, <1>7, HandlerMoves DEF HandlerOK

LEMMA BeginApprovalStep ==
    ASSUME IInv, NEW h \in Handlers, BeginApproval(h)
    PROVE  IInv' /\ Unnoticed
<1>1. PICK q \in Questions : q = 1
  BY ReviewConstants DEF Questions
<1>2. /\ "approve_read" \in Steps /\ "approve_read" \notin Reviewing
      /\ NoJob \in Jobs \cup {NoJob}
      /\ "APPROVE" \in Reviews \cup {"NONE", "APPROVE"}
  BY DEF Steps, Reviewing
<1>3. PICK e : e = Reading("APPROVE", q, NoJob, "approve_read")
  OBVIOUS
<1>4. /\ e \in Handler /\ ReadingOK(e)
      /\ e.step = "approve_read" /\ e.action = "APPROVE" /\ e.job = NoJob
      /\ e.outcome = "APPLIED"
  BY <1>2, <1>3, ReadingFields
<1>5. JobOK(e) /\ ActionOK(e)
  BY <1>4 DEF JobOK, HasJob, ActionOK
<1>6. handler' = [handler EXCEPT ![h] = e]
  BY <1>1, <1>3 DEF BeginApproval
<1>7. UNCHANGED <<assessmentVars, used, jobVars>> /\ unresolved' \in SUBSET Questions
  BY HandlerHas DEF BeginApproval, recordVars
<1> QED
  BY <1>4, <1>5, <1>6, <1>7, HandlerMoves DEF HandlerOK

LEMMA PrepareRetryStep ==
    ASSUME IInv, NEW h \in Handlers, PrepareRetry(h)
    PROVE  IInv' /\ Unnoticed
<1>1. PICK e : e = Prepared(handler[h], JobOf(h))
  OBVIOUS
<1>2. /\ handler[h] \in Handler /\ HandlerOK(handler[h])
      /\ JobOf(h) = handler[h].job /\ JobOf(h) \in Jobs
      /\ handler[h].step = "prepare"
  BY HandlerHas DEF PrepareRetry, At
<1>3. /\ e \in Handler /\ SameReading(handler[h], e)
      /\ e.step \in {"limit", "provider"} /\ e.job = handler[h].job
      /\ e.opportunity = handler[h].opportunity
  BY <1>1, <1>2, PreparedFields
<1>4. ReadingOK(e)
  BY <1>2, <1>3, StillReading DEF HandlerOK, Reviewing
<1>5. JobOK(e) /\ ActionOK(e)
  BY <1>2, <1>3
     DEF PrepareRetry, HandlerOK, JobOK, HasJob, ActionOK, SameReading, Reviewing
<1>6. handler' = [handler EXCEPT ![h] = e]
  BY <1>1 DEF PrepareRetry
<1>7. UNCHANGED <<assessmentVars, used, jobVars>> /\ unresolved' \in SUBSET Questions
  BY HandlerHas DEF PrepareRetry, recordVars
<1> QED
  BY <1>2, <1>3, <1>4, <1>5, <1>6, <1>7, HandlerMoves DEF HandlerOK

\* The handler of a job takes an outcome to its final transaction.
LEMMA ConcludeStep ==
    ASSUME IInv, NEW h \in Handlers, NEW o \in FailureClasses \cup {"APPLIED"},
           Conclude(h, o),
           handler[h].step \in {"limit", "provider", "apply"},
           handler[h].action \in ProviderActions,
           UNCHANGED <<assessmentVars, recordVars, jobVars>>
    PROVE  IInv' /\ Unnoticed
<1>1. PICK e : e = Concluding(handler[h], o)
  OBVIOUS
<1>2. handler[h] \in Handler /\ HandlerOK(handler[h]) /\ JobOf(h) = handler[h].job
  BY HandlerHas
<1>3. /\ e \in Handler /\ SameReading(handler[h], e)
      /\ e.step = "lock" /\ e.job = handler[h].job
      /\ e.opportunity = handler[h].opportunity /\ e.outcome = o
  BY <1>1, <1>2, MovedFields
<1>4. ReadingOK(e)
  BY <1>2, <1>3, StillReading DEF HandlerOK, Reviewing
<1>5. JobOK(e) /\ ActionOK(e)
  BY <1>2, <1>3
     DEF HandlerOK, JobOK, HasJob, ActionOK, SameReading, Reviewing
<1>6. handler' = [handler EXCEPT ![h] = e]
  BY <1>1 DEF Conclude
<1>7. UNCHANGED <<assessmentVars, used, jobVars>> /\ unresolved' \in SUBSET Questions
  BY HandlerHas DEF recordVars
<1> QED
  BY <1>2, <1>3, <1>4, <1>5, <1>6, <1>7, HandlerMoves DEF HandlerOK

LEMMA RegenerationDeniedStep ==
    ASSUME IInv, NEW h \in Handlers, RegenerationDenied(h)
    PROVE  IInv' /\ Unnoticed
<1>1. handler[h].step = "limit" /\ HandlerOK(handler[h])
  BY HandlerHas DEF RegenerationDenied, At
<1>2. handler[h].action \in ProviderActions
  BY <1>1 DEF HandlerOK, ActionOK
<1>3. "VALIDATION" \in FailureClasses \cup {"APPLIED"}
  BY DEF FailureClasses
<1> QED
  BY <1>1, <1>2, <1>3, ConcludeStep DEF RegenerationDenied

LEMMA ProviderAnswersStep ==
    ASSUME IInv, NEW h \in Handlers, ProviderAnswers(h)
    PROVE  IInv' /\ Unnoticed
<1>1. handler[h].step = "provider" /\ HandlerOK(handler[h])
  BY HandlerHas DEF ProviderAnswers, At
<1>2. handler[h].action \in ProviderActions
  BY <1>1 DEF HandlerOK, ActionOK
<1>3. PICK o \in {"APPLIED", "TRANSIENT", "VALIDATION", "PERMANENT"} : Conclude(h, o)
  BY DEF ProviderAnswers
<1>4. o \in FailureClasses \cup {"APPLIED"}
  BY <1>3 DEF FailureClasses
<1> QED
  BY <1>1, <1>2, <1>3, <1>4, ConcludeStep DEF ProviderAnswers

LEMMA LockLatestStep ==
    ASSUME IInv, NEW h \in Handlers, LockLatest(h)
    PROVE  IInv' /\ Unnoticed
<1>1. PICK e : e = Locked(handler[h], version)
  OBVIOUS
<1>2. /\ handler[h] \in Handler /\ HandlerOK(handler[h])
      /\ handler[h].step = "lock" /\ version \in Nat
  BY HandlerHas DEF LockLatest, At, IInv, TypeOK
<1>3. /\ e \in Handler /\ SameReading(handler[h], e)
      /\ e.step = "apply" /\ e.job = handler[h].job
      /\ e.opportunity = handler[h].opportunity
      /\ e.outcome = handler[h].outcome
  BY <1>1, <1>2, MovedFields
<1>4. ReadingOK(e)
  BY <1>2, <1>3, StillReading DEF HandlerOK, Reviewing
<1>5. JobOK(e) /\ ActionOK(e)
  BY <1>2, <1>3
     DEF HandlerOK, JobOK, HasJob, ActionOK, SameReading, Reviewing
<1>6. handler' = [handler EXCEPT ![h] = e]
  BY <1>1 DEF LockLatest
<1>7. /\ UNCHANGED <<assessmentVars, used, jobVars>>
      /\ unresolved' \in SUBSET Questions
      /\ e.job \in {NoJob, JobOf(h)}
  BY <1>3, HandlerHas DEF LockLatest, recordVars
<1> QED
  BY <1>3, <1>4, <1>5, <1>6, <1>7, HandlerMoves DEF HandlerOK

LEMMA ApproveReadStep ==
    ASSUME IInv, NEW h \in Handlers, ApproveRead(h)
    PROVE  IInv' /\ Unnoticed
<1>1. CASE Exit(h)
  BY <1>1, HandlerHas, Leaving DEF ApproveRead, recordVars
<1>2. CASE version = handler[h].base /\ Reviewable /\ Goto(h, "lock")
  <2>1. PICK e : e = Going(handler[h], "lock")
    OBVIOUS
  <2>2. /\ handler[h] \in Handler /\ HandlerOK(handler[h])
        /\ handler[h].step = "approve_read" /\ "lock" \in Steps
    BY HandlerHas DEF ApproveRead, At, Steps
  <2>3. /\ e \in Handler /\ SameReading(handler[h], e)
        /\ e.step = "lock" /\ e.job = handler[h].job
        /\ e.opportunity = handler[h].opportunity
        /\ e.outcome = handler[h].outcome
    BY <2>1, <2>2, MovedFields
  <2>4. ReadingOK(e)
    BY <1>2, <2>2, <2>3, StillReading DEF HandlerOK
  <2>5. JobOK(e) /\ ActionOK(e)
    BY <2>2, <2>3
       DEF HandlerOK, JobOK, HasJob, ActionOK, SameReading, ProviderActions
  <2>6. handler' = [handler EXCEPT ![h] = e]
    BY <1>2, <2>1 DEF Goto
  <2>7. /\ UNCHANGED <<assessmentVars, used, jobVars>>
        /\ unresolved' \in SUBSET Questions
        /\ e.job \in {NoJob, JobOf(h)}
    BY <2>3, HandlerHas DEF ApproveRead, recordVars
  <2> QED
    BY <2>3, <2>4, <2>5, <2>6, <2>7, HandlerMoves DEF HandlerOK
<1> QED
  BY <1>1, <1>2 DEF ApproveRead

\* An exception: to _fail_job in a worker, to the browser in a request.
LEMMA RaiseStep ==
    ASSUME IInv, NEW h \in Handlers, NEW c \in FailureClasses, Raise(h, c),
           JobOf(h) # NoJob => job[JobOf(h)].status = "RUNNING",
           UNCHANGED <<assessmentVars, recordVars, jobVars>>
    PROVE  IInv' /\ Unnoticed
<1>1. CASE Exit(h)
  BY <1>1, HandlerHas, Leaving DEF recordVars
<1>2. CASE JobOf(h) # NoJob /\ handler' = [handler EXCEPT ![h] = Failing(@, c)]
  <2>1. PICK e : e = Failing(handler[h], c)
    OBVIOUS
  <2>2. handler[h] \in Handler /\ HandlerOK(handler[h]) /\ JobOf(h) = handler[h].job
    BY HandlerHas
  <2>3. /\ e \in Handler /\ SameReading(handler[h], e)
        /\ e.step = "fail" /\ e.job = handler[h].job
        /\ e.opportunity = handler[h].opportunity /\ e.outcome = c
    BY <2>1, <2>2, MovedFields
  <2>4. ReadingOK(e)
    BY <2>2, <2>3, StillReading DEF HandlerOK, Reviewing
  <2>5. JobOK(e) /\ ActionOK(e)
    BY <1>2, <2>2, <2>3
       DEF HandlerOK, JobOK, HasJob, ActionOK, SameReading, Reviewing
  <2>6. handler' = [handler EXCEPT ![h] = e]
    BY <1>2, <2>1
  <2>7. UNCHANGED <<assessmentVars, used, jobVars>> /\ unresolved' \in SUBSET Questions
    BY HandlerHas DEF recordVars
  <2> QED
    BY <2>2, <2>3, <2>4, <2>5, <2>6, <2>7, HandlerMoves DEF HandlerOK
<1> QED
  BY <1>1, <1>2 DEF Raise

LEMMA ReviewConflictsStep ==
    ASSUME IInv, NEW h \in Handlers, ReviewConflicts(h)
    PROVE  IInv' /\ Unnoticed
<1>1. /\ handler[h].step = "apply" /\ HandlerOK(handler[h])
      /\ JobOf(h) = handler[h].job
      /\ "PERMANENT" \in FailureClasses
  BY HandlerHas DEF ReviewConflicts, At, FailureClasses
<1>2. JobOf(h) # NoJob => /\ job[JobOf(h)].status = "RUNNING"
                          /\ handler[h].action \in ProviderActions
  BY <1>1 DEF HandlerOK, JobOK, HasJob
<1>3. UNCHANGED <<assessmentVars, recordVars, jobVars>>
  BY DEF ReviewConflicts
<1>4. CASE JobOf(h) # NoJob /\ Conclude(h, "PERMANENT")
  BY <1>1, <1>2, <1>3, <1>4, ConcludeStep
<1>5. CASE Raise(h, "PERMANENT")
  BY <1>1, <1>2, <1>3, <1>5, RaiseStep
<1> QED
  BY <1>4, <1>5 DEF ReviewConflicts

LEMMA RetryStartsStep ==
    ASSUME IInv, NEW h \in Handlers, RetryStarts(h)
    PROVE  IInv' /\ Unnoticed
<1>1. /\ handler[h] \in Handler /\ HandlerOK(handler[h])
      /\ JobOf(h) = handler[h].job /\ handler[h].step = "source"
      /\ JobOf(h) \in Jobs \cup {NoJob}
      /\ "prepare" \in Steps /\ Reviewable
      /\ job[JobOf(h)].logical # NoJob /\ job[JobOf(h)].base = version
  BY HandlerHas DEF RetryStarts, At, Steps, SourceCurrent
<1>2. /\ handler[h].job # NoJob /\ handler[h].job < next
      /\ job[handler[h].job].status = "RUNNING"
      /\ handler[h].action = job[handler[h].job].action
      /\ handler[h].question = job[handler[h].job].question
  BY <1>1 DEF HandlerOK, JobOK, HasJob
<1>3. PICK e : e = Reading(handler[h].action, handler[h].question, JobOf(h), "prepare")
  OBVIOUS
<1>4. /\ e \in Handler /\ ReadingOK(e)
      /\ e.step = "prepare" /\ e.action = handler[h].action
      /\ e.question = handler[h].question
      /\ e.job = JobOf(h) /\ e.base = version
  BY <1>1, <1>3, ReadingFields DEF Handler
<1>5. handler[h].action \in ProviderActions
  BY <1>1, <1>2 DEF IInv, TableInv, RowInOrder
<1>6. JobOK(e) /\ ActionOK(e)
  BY <1>1, <1>2, <1>4, <1>5 DEF JobOK, HasJob, ActionOK
<1>7. handler' = [handler EXCEPT ![h] = e]
  BY <1>3 DEF RetryStarts
<1>8. UNCHANGED <<assessmentVars, used, jobVars>> /\ unresolved' \in SUBSET Questions
  BY HandlerHas DEF RetryStarts, recordVars
<1> QED
  BY <1>4, <1>6, <1>7, <1>8, HandlerMoves DEF HandlerOK

LEMMA RetryRefusedStep ==
    ASSUME IInv, NEW h \in Handlers, RetryRefused(h)
    PROVE  IInv' /\ Unnoticed
<1>1. HandlerOK(handler[h]) /\ handler[h].step = "source" /\ JobOf(h) = handler[h].job
  BY HandlerHas DEF RetryRefused, At
<1>2. job[JobOf(h)].status = "RUNNING"
  BY <1>1 DEF HandlerOK, JobOK, HasJob
<1>3. PICK c \in {"PRECONDITION", "PERMANENT"} : Raise(h, c)
  BY DEF RetryRefused
<1>4. c \in FailureClasses
  BY <1>3 DEF FailureClasses
<1> QED
  BY <1>2, <1>3, <1>4, RaiseStep DEF RetryRefused

-----------------------------------------------------------------------------
(***************************************************************************)
(* The actions that write a row of the table "jobs".                       *)
(***************************************************************************)
LEMMA WrittenRow ==
    ASSUME IInv, NEW j \in Jobs, NEW row \in JobRow,
           job' = [job EXCEPT ![j] = row],
           SameOrigin(job[j], row),
           job[j].status \notin {"UNUSED", "SUCCEEDED"},
           row.status \notin {"UNUSED", "SUCCEEDED"},
           Settled(j) => row.status = "FAILED" /\ row.control = "ACTIVE",
           UNCHANGED <<assessmentVars, used, next>>,
           unresolved' \in SUBSET Questions
    PROVE  QuietRow(j, row)
<1>1. job'[j] = row
  BY DEF IInv, TypeOK
<1> QED
  BY <1>1 DEF QuietRow, RowStep, SameLine, SameOrigin

LEMMA RegenerationStartsStep ==
    ASSUME IInv, NEW h \in Handlers, RegenerationStarts(h)
    PROVE  IInv' /\ Unnoticed
<1>1. /\ handler[h] \in Handler /\ HandlerOK(handler[h])
      /\ JobOf(h) = handler[h].job /\ handler[h].step = "limit"
      /\ unresolved \in SUBSET Questions
  BY HandlerHas DEF RegenerationStarts, At
<1>2. /\ JobOf(h) \in Jobs /\ job[JobOf(h)] \in JobRow
      /\ job[JobOf(h)].status = "RUNNING"
      /\ \A g \in Handlers \ {h} : JobOf(g) # JobOf(h)
  BY <1>1, HandlerHas DEF HandlerOK, JobOK, HasJob
<1>3. PICK o \in Unused(h) : handler' = [handler EXCEPT ![h] = Regenerating(@, o)]
  BY DEF RegenerationStarts
<1>4. /\ o \in Opportunities
      /\ \A q \in Questions : handler[h].questions[q].opportunity # o
  BY <1>3 DEF Unused, Opportunities
<1>5. PICK e : e = Regenerating(handler[h], o)
  OBVIOUS
<1>6. /\ e \in Handler /\ SameReading(handler[h], e)
      /\ e.step = "provider" /\ e.job = JobOf(h) /\ e.opportunity = o
  BY <1>1, <1>4, <1>5, RegeneratingFields
<1>7. PICK row : row = GeneratedRow(job[JobOf(h)])
  OBVIOUS
<1>8. /\ row \in JobRow /\ SameOrigin(job[JobOf(h)], row)
      /\ row.status = "RUNNING"
  BY <1>2, <1>7, RowFields, RowOrigin
<1>9. QuietRow(JobOf(h), row)
  BY <1>1, <1>2, <1>7, <1>8, WrittenRow DEF RegenerationStarts, Settled, recordVars
<1>10. ReadingOK(e) /\ ActionOK(e)
  BY <1>1, <1>4, <1>6, StillReading DEF HandlerOK, Reviewing, ActionOK, SameReading
<1>11. JobOK(e)'
  <2>1. job'[JobOf(h)] = row /\ next' = next
    BY <1>2, <1>9 DEF QuietRow, IInv, TypeOK
  <2> QED
    BY <1>1, <1>2, <1>6, <1>8, <2>1
       DEF HandlerOK, JobOK, HasJob, SameReading, SameOrigin, Reviewing
<1>12. handler' = [handler EXCEPT ![h] = e]
  BY <1>3, <1>5
<1> QED
  BY <1>2, <1>6, <1>8, <1>9, <1>10, <1>11, <1>12, OwnRowMoves

\* A handler writes the end of its job and is done.
LEMMA FinishStep ==
    ASSUME IInv, NEW h \in Handlers, NEW j \in Jobs, NEW row \in JobRow,
           QuietRow(j, row), Exit(h), j = JobOf(h)
    PROVE  IInv' /\ Unnoticed
<1>1. PICK e : e = IdleHandler
  OBVIOUS
<1>2. e \in Handler /\ HandlerOK(e) /\ JobOK(e)' /\ e.job = NoJob
  BY <1>1, IdleOK
<1>3. \A g \in Handlers \ {h} : JobOf(g) # j
  BY HandlerHas
<1>4. handler' = [handler EXCEPT ![h] = e]
  BY <1>1 DEF Exit
<1> QED
  BY <1>2, <1>3, <1>4, OwnRowMoves DEF HandlerOK

LEMMA StopsCancelledStep ==
    ASSUME IInv, NEW h \in Handlers, StopsCancelled(h)
    PROVE  IInv' /\ Unnoticed
<1>1. /\ HandlerOK(handler[h]) /\ JobOf(h) = handler[h].job
      /\ unresolved \in SUBSET Questions
      /\ JobOf(h) # NoJob
  BY HandlerHas DEF StopsCancelled, Cancelled
<1>2. /\ JobOf(h) \in Jobs /\ job[JobOf(h)] \in JobRow
      /\ job[JobOf(h)].status = "RUNNING"
  BY <1>1, HandlerHas DEF HandlerOK, JobOK, StopsCancelled
<1>3. CASE job[JobOf(h)].control = "CANCEL_REQUESTED"
  <2>1. PICK row : row = CancelledRow(job[JobOf(h)])
    OBVIOUS
  <2>2. row \in JobRow /\ SameOrigin(job[JobOf(h)], row) /\ row.status = "FAILED"
    BY <1>2, <2>1, RowFields, RowOrigin
  <2>3. job' = [job EXCEPT ![JobOf(h)] = row]
    BY <1>3, <2>1 DEF StopsCancelled, AcknowledgeCancel
  <2>4. QuietRow(JobOf(h), row)
    BY <1>1, <1>2, <2>2, <2>3, WrittenRow DEF StopsCancelled, Settled, recordVars
  <2> QED
    BY <1>2, <2>2, <2>4, FinishStep DEF StopsCancelled
<1>4. CASE job[JobOf(h)].control # "CANCEL_REQUESTED"
  BY <1>1, <1>4, Leaving
     DEF StopsCancelled, AcknowledgeCancel, recordVars, jobVars
<1> QED
  BY <1>3, <1>4

LEMMA RecordAcceptStep ==
    ASSUME IInv, NEW h \in Handlers, RecordAccept(h)
    PROVE  IInv' /\ Unnoticed
<1>1. unresolved' \in SUBSET Questions
  BY HandlerHas DEF RecordAccept
<1> QED
  BY <1>1, Leaving DEF RecordAccept

LEMMA RecordFailureStep ==
    ASSUME IInv, NEW h \in Handlers, RecordFailure(h)
    PROVE  IInv' /\ Unnoticed
<1>1. /\ handler[h] \in Handler /\ HandlerOK(handler[h])
      /\ JobOf(h) = handler[h].job /\ handler[h].step = "apply"
      /\ handler[h].outcome # "APPLIED"
  BY HandlerHas DEF RecordFailure, At
<1>2. handler[h].outcome \in FailureClasses /\ handler[h].action \in ProviderActions
  BY <1>1 DEF Handler, HandlerOK, ActionOK
<1>3. /\ JobOf(h) \in Jobs /\ job[JobOf(h)] \in JobRow
      /\ job[JobOf(h)].status = "RUNNING"
  BY <1>1, <1>2, HandlerHas DEF HandlerOK, JobOK, HasJob
<1>4. PICK row : row = FailedRow(job[JobOf(h)], handler[h].outcome)
  OBVIOUS
<1>5. row \in JobRow /\ SameOrigin(job[JobOf(h)], row) /\ row.status = "FAILED"
  BY <1>2, <1>3, <1>4, RowFields, RowOrigin
<1>6. unresolved' \in SUBSET Questions
  BY HandlerHas DEF RecordFailure
<1>7. QuietRow(JobOf(h), row)
  BY <1>3, <1>4, <1>5, <1>6, WrittenRow DEF RecordFailure, Settled
<1> QED
  BY <1>3, <1>5, <1>7, FinishStep DEF RecordFailure

LEMMA SaveFailedStep ==
    ASSUME IInv, NEW h \in Handlers, SaveFailed(h)
    PROVE  IInv' /\ Unnoticed
<1>1. /\ handler[h] \in Handler /\ HandlerOK(handler[h])
      /\ JobOf(h) = handler[h].job /\ handler[h].step = "fail"
      /\ unresolved \in SUBSET Questions
  BY HandlerHas DEF SaveFailed, At
<1>2. /\ JobOf(h) \in Jobs /\ job[JobOf(h)] \in JobRow
      /\ job[JobOf(h)].status = "RUNNING"
      /\ \A g \in Handlers \ {h} : JobOf(g) # JobOf(h)
  BY <1>1, HandlerHas DEF HandlerOK, JobOK, HasJob
<1>3. PICK e : e = Going(handler[h], "fail_saved")
  OBVIOUS
<1>4. /\ e \in Handler /\ SameReading(handler[h], e)
      /\ e.step = "fail_saved" /\ e.job = JobOf(h)
      /\ e.opportunity = handler[h].opportunity
      /\ e.outcome = handler[h].outcome
  BY <1>1, <1>3, MovedFields DEF Steps
<1>5. PICK row : row = UnclassifiedRow(job[JobOf(h)])
  OBVIOUS
<1>6. /\ row \in JobRow /\ SameOrigin(job[JobOf(h)], row)
      /\ row.status = "FAILED"
  BY <1>2, <1>5, RowFields, RowOrigin
<1>7. QuietRow(JobOf(h), row)
  BY <1>1, <1>2, <1>5, <1>6, WrittenRow DEF SaveFailed, Settled, recordVars
<1>8. ReadingOK(e) /\ ActionOK(e)
  BY <1>1, <1>4, StillReading DEF HandlerOK, Reviewing, ActionOK
<1>9. JobOK(e)'
  <2>1. job'[JobOf(h)] = row /\ next' = next
    BY <1>2, <1>7 DEF QuietRow, IInv, TypeOK
  <2> QED
    BY <1>1, <1>2, <1>4, <1>6, <2>1
       DEF HandlerOK, JobOK, HasJob, SameReading, SameOrigin, Reviewing
<1>10. handler' = [handler EXCEPT ![h] = e]
  BY <1>3 DEF SaveFailed, Goto
<1> QED
  BY <1>2, <1>4, <1>6, <1>7, <1>8, <1>9, <1>10, OwnRowMoves

LEMMA SaveFailureClassStep ==
    ASSUME IInv, NEW h \in Handlers, SaveFailureClass(h)
    PROVE  IInv' /\ Unnoticed
<1>1. /\ handler[h] \in Handler /\ HandlerOK(handler[h])
      /\ JobOf(h) = handler[h].job /\ handler[h].step = "fail_saved"
      /\ unresolved \in SUBSET Questions
      /\ handler[h].outcome \in FailureClasses
  BY HandlerHas DEF SaveFailureClass, At, HandlerOK, ActionOK
<1>2. /\ JobOf(h) \in Jobs /\ job[JobOf(h)] \in JobRow
      /\ job[JobOf(h)].status = "FAILED"
      /\ job[JobOf(h)].control = "ACTIVE"
  BY <1>1, HandlerHas DEF HandlerOK, JobOK, HasJob, SaveFailureClass, Cancelled
<1>3. PICK row : row = FailedRow(job[JobOf(h)], handler[h].outcome)
  OBVIOUS
<1>4. /\ row \in JobRow /\ SameOrigin(job[JobOf(h)], row)
      /\ row.status = "FAILED" /\ row.control = "ACTIVE"
  BY <1>1, <1>2, <1>3, RowFields, RowOrigin
<1>5. QuietRow(JobOf(h), row)
  BY <1>1, <1>2, <1>3, <1>4, WrittenRow DEF SaveFailureClass, recordVars
<1> QED
  BY <1>2, <1>4, <1>5, FinishStep DEF SaveFailureClass

LEMMA ClaimStep ==
    ASSUME IInv, NEW h \in Handlers, NEW j \in Jobs, Claim(h, j)
    PROVE  IInv' /\ Unnoticed
<1>1. /\ job[j] \in JobRow /\ job[j].status = "QUEUED"
      /\ job[j].attempt < MaxAttempts
      /\ unresolved \in SUBSET Questions
      /\ j \in Nat /\ next \in Nat /\ j # NoJob
  BY HandlerHas, JobNumbers DEF Claim, IInv, TypeOK
<1>2. j < next /\ job[j].action \in ProviderActions
  BY <1>1 DEF IInv, TableInv, RowInOrder, UnusedRow
<1>3. \A g \in Handlers : JobOf(g) # j
  <2>1. \A g \in Handlers :
           JobOf(g) # NoJob => job[JobOf(g)].status \in {"FAILED", "RUNNING"}
    BY HandlerHas DEF HandlerOK, JobOK
  <2> QED
    BY <1>1, <2>1
<1>4. /\ job[j].action \in Reviews \cup {"NONE", "APPROVE"}
      /\ job[j].question \in Questions
      /\ j \in Jobs \cup {NoJob}
      /\ "source" \in Steps /\ "source" \notin Reviewing
  BY <1>1, <1>2 DEF JobRow, Reviews, Revisions, ProviderActions, Steps, Reviewing
<1>5. PICK e : e = Reading(job[j].action, job[j].question, j, "source")
  OBVIOUS
<1>6. /\ e \in Handler /\ ReadingOK(e)
      /\ e.step = "source" /\ e.action = job[j].action
      /\ e.question = job[j].question /\ e.job = j
  BY <1>4, <1>5, ReadingFields
<1>7. PICK row : row = ClaimedRow(job[j])
  OBVIOUS
<1>8. row \in JobRow /\ SameOrigin(job[j], row) /\ row.status = "RUNNING"
  BY <1>1, <1>7, RowFields, RowOrigin
<1>9. QuietRow(j, row)
  BY <1>1, <1>7, <1>8, WrittenRow DEF Claim, Settled, recordVars
<1>10. JobOK(e)' /\ ActionOK(e)
  <2>1. job'[j] = row /\ next' = next
    BY <1>9 DEF QuietRow, IInv, TypeOK
  <2> QED
    BY <1>1, <1>2, <1>6, <1>8, <2>1
       DEF JobOK, HasJob, SameOrigin, Reviewing, ActionOK
<1>11. handler' = [handler EXCEPT ![h] = e]
  BY <1>5 DEF Claim
<1> QED
  BY <1>3, <1>6, <1>8, <1>9, <1>10, <1>11, OwnRowMoves

\* Somebody who is not the handler of the job writes its row.
LEMMA ControlStep ==
    ASSUME IInv, NEW j \in Jobs, NEW row \in JobRow,
           job' = [job EXCEPT ![j] = row],
           SameOrigin(job[j], row),
           job[j].status \in {"QUEUED", "RUNNING"},
           row.status \notin {"UNUSED", "SUCCEEDED"},
           \/ row.status = job[j].status
           \/ job[j].status = "QUEUED"
           \/ \A g \in Handlers : JobOf(g) # j,
           UNCHANGED <<assessmentVars, recordVars, next, handler>>
    PROVE  IInv' /\ Unnoticed
<1>1. QuietRow(j, row)
  BY WrittenRow DEF Settled, recordVars, IInv, TypeOK
<1>2. job[j].status = "QUEUED" => \A g \in Handlers : JobOf(g) # j
  <2>1. \A g \in Handlers :
           JobOf(g) # NoJob => job[JobOf(g)].status \in {"FAILED", "RUNNING"}
    BY HandlerHas DEF HandlerOK, JobOK
  <2> QED
    BY <2>1, JobNumbers
<1> QED
  BY <1>1, <1>2, RowMoves

LEMMA CancelStep ==
    ASSUME IInv, NEW j \in Jobs, CancelQueued(j) \/ CancelRunning(j)
    PROVE  IInv' /\ Unnoticed
<1>1. job[j] \in JobRow
  BY DEF IInv, TypeOK
<1>2. CASE CancelQueued(j)
  <2>1. PICK row : row = CancelledRow(job[j])
    OBVIOUS
  <2>2. row \in JobRow /\ SameOrigin(job[j], row) /\ row.status = "FAILED"
    BY <1>1, <2>1, RowFields, RowOrigin
  <2> QED
    BY <1>2, <2>1, <2>2, ControlStep DEF CancelQueued
<1>3. CASE CancelRunning(j)
  <2>1. PICK row : row = CancellingRow(job[j])
    OBVIOUS
  <2>2. row \in JobRow /\ SameOrigin(job[j], row) /\ row.status = job[j].status
    BY <1>1, <2>1, RowFields, RowOrigin
  <2> QED
    BY <1>3, <2>1, <2>2, ControlStep DEF CancelRunning
<1> QED
  BY <1>2, <1>3

LEMMA DispatchFailsStep ==
    ASSUME IInv, NEW j \in Jobs, DispatchFails(j)
    PROVE  IInv' /\ Unnoticed
<1>1. job[j] \in JobRow /\ "TRANSIENT" \in FailureClasses
  BY DEF IInv, TypeOK, FailureClasses
<1>2. PICK row : row = FailedRow(job[j], "TRANSIENT")
  OBVIOUS
<1>3. row \in JobRow /\ SameOrigin(job[j], row) /\ row.status = "FAILED"
  BY <1>1, <1>2, RowFields, RowOrigin
<1> QED
  BY <1>2, <1>3, ControlStep DEF DispatchFails

LEMMA ReconcileStep ==
    ASSUME IInv, NEW j \in Jobs, Reconcile(j)
    PROVE  IInv' /\ Unnoticed
<1>1. job[j] \in JobRow /\ "TRANSIENT" \in FailureClasses
  BY DEF IInv, TypeOK, FailureClasses
<1>2. PICK row : row = ReconciledRow(job[j])
  OBVIOUS
<1>3. row \in JobRow /\ SameOrigin(job[j], row) /\ row.status = "FAILED"
  BY <1>1, <1>2, RowFields, RowOrigin DEF ReconciledRow
<1> QED
  BY <1>2, <1>3, ControlStep DEF Reconcile, Orphan

LEMMA ContinueStep ==
    ASSUME IInv, NEW j \in Jobs, NEW l \in {job[j].logical, NoJob},
           Continue(j, l)
    PROVE  IInv' /\ Unnoticed
<1>1. /\ job[j] \in JobRow /\ j \in Nat /\ next \in Nat
      /\ next \in Jobs /\ Settled(j) /\ ~Continued(j)
      /\ l \in Jobs \cup {NoJob}
  BY JobNumbers DEF IInv, TypeOK, Continue, Settled, JobRow
<1>2. j < next /\ job[j].action \in ProviderActions
  BY <1>1 DEF IInv, TableInv, RowInOrder, UnusedRow, Settled
<1>3. PICK row : row = [ status |-> "QUEUED", control |-> "ACTIVE",
                         failure |-> "NONE", attempt |-> job[j].attempt,
                         source |-> j, logical |-> l,
                         action |-> job[j].action,
                         question |-> job[j].question,
                         base |-> job[j].base, generated |-> FALSE ]
  OBVIOUS
<1>4. row \in JobRow
  BY <1>1, <1>3 DEF JobRow
<1>5. /\ row.status = "QUEUED" /\ row.action = job[j].action
      /\ row.source = j /\ row.logical = l
  BY <1>3
<1>6. Insertion(row)
  BY <1>1, <1>2, <1>3, <1>4, <1>5 DEF Insertion, Continue
<1>7. UNCHANGED <<assessmentVars, recordVars, handler>>
  BY DEF Continue
<1>8. /\ TypeOK /\ job' \in [Jobs -> JobRow] /\ next' \in 1 .. MaxJobs + 1
      /\ TableInv' /\ DocumentInv' /\ SubmissionAgrees' /\ CancelWins'
      /\ Unnoticed
      /\ \A g \in Handlers : handler'[g] = handler[g] => HandlerOK(handler[g])'
  BY <1>6, <1>7, InsertionKeeps
<1>9. TypeOK' /\ NoSharedJob'
  BY <1>7, <1>8 DEF IInv, TypeOK, NoSharedJob, JobOf, assessmentVars, recordVars
<1> QED
  BY <1>7, <1>8, <1>9 DEF IInv

LEMMA RetryResumeStep ==
    ASSUME IInv, NEW j \in Jobs, Retry(j) \/ Resume(j)
    PROVE  IInv' /\ Unnoticed
  BY ContinueStep DEF Retry, Resume

LEMMA PrepareJobStep ==
    ASSUME IInv, NEW h \in Handlers, PrepareJob(h)
    PROVE  IInv' /\ Unnoticed
<1>1. /\ handler[h] \in Handler /\ HandlerOK(handler[h])
      /\ JobOf(h) = handler[h].job /\ JobOf(h) = NoJob
      /\ handler[h].step = "prepare" /\ next \in Jobs
  BY HandlerHas DEF PrepareJob, At
<1>2. handler[h].action \in ProviderActions
  BY <1>1 DEF HandlerOK, ActionOK
<1>3. PICK row : row = [ status |-> "RUNNING", control |-> "ACTIVE",
                         failure |-> "NONE", attempt |-> 1,
                         source |-> NoJob, logical |-> next,
                         action |-> handler[h].action,
                         question |-> handler[h].question,
                         base |-> handler[h].base, generated |-> FALSE ]
  OBVIOUS
<1>4. row \in JobRow
  BY <1>1, <1>2, <1>3, ReviewConstants DEF JobRow, Handler
<1>5. /\ row.status = "RUNNING" /\ row.action = handler[h].action
      /\ row.question = handler[h].question /\ row.base = handler[h].base
      /\ row.source = NoJob /\ row.logical = next
  BY <1>3
<1>6. Insertion(row)
  BY <1>1, <1>2, <1>3, <1>4, <1>5 DEF Insertion, PrepareJob
<1>7. UNCHANGED <<assessmentVars, recordVars>>
  BY DEF PrepareJob
<1>8. /\ TypeOK /\ job' \in [Jobs -> JobRow] /\ next' \in 1 .. MaxJobs + 1
      /\ TableInv' /\ DocumentInv' /\ SubmissionAgrees' /\ CancelWins'
      /\ Unnoticed
      /\ \A g \in Handlers : JobOf(g) # next
      /\ \A g \in Handlers : handler'[g] = handler[g] => HandlerOK(handler[g])'
  BY <1>6, <1>7, InsertionKeeps
<1>9. PICK e : e = Prepared(handler[h], next)
  OBVIOUS
<1>10. /\ e \in Handler /\ SameReading(handler[h], e)
       /\ e.step \in {"limit", "provider"} /\ e.job = next
       /\ e.opportunity = handler[h].opportunity
  BY <1>1, <1>9, PreparedFields
<1>11. handler' = [handler EXCEPT ![h] = e]
  BY <1>9 DEF PrepareJob
<1>12. \A g \in Handlers : handler'[g] = IF g = h THEN e ELSE handler[g]
  BY <1>8, <1>11 DEF TypeOK
<1>13. TypeOK'
  BY <1>7, <1>8, <1>10, <1>11 DEF TypeOK, assessmentVars, recordVars
<1>14. NoSharedJob'
  BY <1>8, <1>10, <1>11, OneMoves DEF IInv
<1>15. HandlerOK(handler[h])'
  <2>1. ReadingOK(e)
    BY <1>1, <1>10, StillReading DEF HandlerOK, Reviewing
  <2>2. ReadingOK(handler[h])'
    BY <1>7, <1>12, <2>1 DEF ReadingOK, Reviewable, assessmentVars
  <2>3. ActionOK(handler[h])'
    BY <1>2, <1>10, <1>12 DEF ActionOK, SameReading
  <2>4. job'[next] = row /\ next < next' /\ next # NoJob
    BY <1>1, <1>6, JobNumbers DEF Insertion, IInv, TypeOK
  <2>5. JobOK(handler[h])'
    BY <1>5, <1>10, <1>12, <2>4 DEF JobOK, HasJob, SameReading
  <2> QED
    BY <2>2, <2>3, <2>5 DEF HandlerOK
<1>16. \A g \in Handlers : HandlerOK(handler[g])'
  BY <1>8, <1>12, <1>15
<1> QED
  BY <1>8, <1>13, <1>14, <1>16 DEF IInv

-----------------------------------------------------------------------------
(***************************************************************************)
(* The two steps that the document notices.                                *)
(***************************************************************************)
\* What AppliesToDescribedVersion says of one step.
Described ==
    \A j \in Jobs :
        job[j].status # "SUCCEEDED" /\ job'[j].status = "SUCCEEDED" =>
            job[j].base = version

\* The handler that writes a version is done; nobody else has read it yet.
LEMMA NewVersionKeeps ==
    ASSUME IInv, NEW h \in Handlers, Exit(h),
           version' = version + 1, next' = next,
           \A j \in Jobs : SameLine(j),
           \A j \in Jobs : j # JobOf(h) => job'[j].status = job[j].status
    PROVE  /\ version' \in Nat \ {0}
           /\ handler' \in [Handlers -> Handler]
           /\ NoSharedJob'
           /\ \A g \in Handlers : HandlerOK(handler[g])'
<1>1. /\ TypeOK /\ version \in Nat /\ version' \in Nat \ {0}
      /\ version' >= version /\ version' # version
      /\ next \in Nat /\ next' \in Nat /\ next' >= next
  BY JobNumbers DEF IInv, TypeOK
<1>2. PICK e : e = IdleHandler
  OBVIOUS
<1>3. e \in Handler /\ e.job = NoJob /\ handler' = [handler EXCEPT ![h] = e]
  BY <1>2, IdleOK DEF Exit
<1>4. \A g \in Handlers : handler'[g] = IF g = h THEN e ELSE handler[g]
  BY <1>1, <1>3 DEF TypeOK
<1>5. NoSharedJob'
  BY <1>1, <1>3, OneMoves DEF IInv
<1>6. HandlerOK(handler[h])'
  <2>1. /\ e.step = "idle" /\ e.base = 0 /\ e.questions = Planned
        /\ e.question = 1 /\ e.opportunity = 1
    BY <1>2 DEF IdleHandler
  <2>2. \A q \in Questions : Planned[q].opportunity = q
    BY DEF Planned
  <2>3. ReadingOK(handler[h])'
    BY <1>1, <1>4, <2>1, <2>2 DEF ReadingOK, Reviewing
  <2>4. JobOK(handler[h])' /\ ActionOK(handler[h])'
    BY <1>3, <1>4, <2>1 DEF JobOK, HasJob, ActionOK
  <2> QED
    BY <2>3, <2>4 DEF HandlerOK
<1>7. ASSUME NEW g \in Handlers \ {h}
      PROVE  HandlerOK(handler[g])'
  <2>1. handler'[g] = handler[g]
    BY <1>4
  <2>2. JobOf(g) # NoJob => JobOf(g) # JobOf(h) /\ JobOf(g) \in Jobs
    BY HandlerHas
  <2>3. JobOf(g) # NoJob => job'[JobOf(g)].status = job[JobOf(g)].status
    BY <2>2
  <2> QED
    BY <1>1, <2>1, <2>3, OthersStay
<1>8. handler' \in [Handlers -> Handler]
  BY <1>1, <1>3 DEF TypeOK
<1> QED
  BY <1>1, <1>5, <1>6, <1>7, <1>8

\* What a handler knows when its final transaction has locked the version it
\* has read, and that is still the newest.
LEMMA CurrentHandler ==
    ASSUME IInv, NEW h \in Handlers, At(h, "apply"), Current(h)
    PROVE  /\ handler[h] \in Handler /\ HandlerOK(handler[h])
           /\ handler[h].questions = questions
           /\ status = "NEEDS_REVIEW" /\ submission = "NEEDS_REVIEW"
           /\ version = handler[h].base
           /\ JobOf(h) # NoJob =>
                 /\ handler[h].action \in ProviderActions
                 /\ JobOf(h) \in Jobs /\ JobOf(h) < next
                 /\ job[JobOf(h)] \in JobRow
                 /\ job[JobOf(h)].status = "RUNNING"
                 /\ job[JobOf(h)].base = version
                 /\ job[JobOf(h)].logical \in Jobs
                 /\ job[JobOf(h)].question = handler[h].question
           /\ handler[h].action \in ProviderActions => JobOf(h) # NoJob
<1>1. /\ handler[h] \in Handler /\ HandlerOK(handler[h])
      /\ JobOf(h) = handler[h].job /\ handler[h].step = "apply"
      /\ version = handler[h].base
  BY HandlerHas DEF At, Current
<1>2. /\ handler[h].questions = questions
      /\ status = "NEEDS_REVIEW" /\ submission = "NEEDS_REVIEW"
  BY <1>1 DEF HandlerOK, ReadingOK, Reviewing, Reviewable
<1>3. handler[h].action \in ProviderActions => JobOf(h) # NoJob
  BY <1>1 DEF HandlerOK, JobOK, HasJob
<1>4. ASSUME JobOf(h) # NoJob
      PROVE  /\ handler[h].action \in ProviderActions
             /\ JobOf(h) \in Jobs /\ JobOf(h) < next
             /\ job[JobOf(h)] \in JobRow
             /\ job[JobOf(h)].status = "RUNNING"
             /\ job[JobOf(h)].base = version
             /\ job[JobOf(h)].logical \in Jobs
             /\ job[JobOf(h)].question = handler[h].question
  <2>1. JobOf(h) \in Jobs /\ JobOf(h) < next /\ job[JobOf(h)] \in JobRow
    BY <1>4, HandlerHas
  <2>2. /\ handler[h].action \in ProviderActions
        /\ job[JobOf(h)].status = "RUNNING"
        /\ job[JobOf(h)].logical # NoJob
        /\ job[JobOf(h)].base = version
        /\ job[JobOf(h)].question = handler[h].question
    BY <1>1, <1>4 DEF HandlerOK, JobOK, HasJob, Reviewing
  <2>3. job[JobOf(h)].logical \in Jobs
    BY <2>1, <2>2 DEF JobRow
  <2> QED
    BY <2>1, <2>2, <2>3
<1> QED
  BY <1>1, <1>2, <1>3, <1>4

LEMMA ApproveStep ==
    ASSUME IInv, NEW h \in Handlers, Approve(h)
    PROVE  IInv' /\ Reviewed!Next /\ Described
<1>1. /\ status = "NEEDS_REVIEW" /\ version = handler[h].base
  BY CurrentHandler DEF Approve
<1>2. /\ version' = version + 1
      /\ status' = "APPROVED" /\ submission' = "APPROVED"
      /\ UNCHANGED <<questions, guide, unresolved, used, job, next>>
      /\ Exit(h)
  BY <1>1 DEF Approve, recordVars, jobVars
<1>3. /\ version' \in Nat \ {0} /\ handler' \in [Handlers -> Handler]
      /\ NoSharedJob'
      /\ \A g \in Handlers : HandlerOK(handler[g])'
  BY <1>2, NewVersionKeeps DEF SameLine
<1>4. TypeOK'
  BY <1>2, <1>3 DEF IInv, TypeOK
<1>5. TableInv' /\ DocumentInv' /\ SubmissionAgrees' /\ CancelWins'
  BY <1>2 DEF IInv, TableInv, RowInOrder, Lineage, Settled, OneTip, Continued,
              DocumentInv, SubmissionAgrees, CancelWins
<1>6. Applied' = Applied
  BY <1>2 DEF Applied
<1>7. Reviewed!Approve
  BY <1>1, <1>2, <1>6 DEF Reviewed!Approve
<1> QED
  BY <1>2, <1>3, <1>4, <1>5, <1>7 DEF IInv, Reviewed!Next, Described

\* A REJECT publishes the same questions again.
LEMMA RejectStep ==
    ASSUME IInv, NEW h \in Handlers, ApplyRevision(h),
           handler[h].action = "REJECT"
    PROVE  IInv' /\ Reviewed!Next /\ Described
<1>1. /\ status = "NEEDS_REVIEW" /\ version = handler[h].base
      /\ handler[h].questions = questions
      /\ JobOf(h) = NoJob
  BY CurrentHandler DEF ApplyRevision, ProviderActions
<1>2. /\ version' = version + 1
      /\ UNCHANGED <<status, submission, questions, guide, used, job, next>>
      /\ unresolved' \in SUBSET Questions
      /\ Exit(h)
  BY <1>1, HandlerHas DEF ApplyRevision, Revised, GuideAfter
<1>3. /\ version' \in Nat \ {0} /\ handler' \in [Handlers -> Handler]
      /\ NoSharedJob'
      /\ \A g \in Handlers : HandlerOK(handler[g])'
  BY <1>2, NewVersionKeeps DEF SameLine
<1>4. TypeOK'
  BY <1>2, <1>3 DEF IInv, TypeOK
<1>5. TableInv' /\ DocumentInv' /\ SubmissionAgrees' /\ CancelWins'
  BY <1>2 DEF IInv, TableInv, RowInOrder, Lineage, Settled, OneTip, Continued,
              DocumentInv, SubmissionAgrees, CancelWins
<1>6. Applied' = Applied
  BY <1>2 DEF Applied
<1>7. Reviewed!Reject
  BY <1>1, <1>2, <1>6 DEF Reviewed!Reject
<1> QED
  BY <1>2, <1>3, <1>4, <1>5, <1>7 DEF IInv, Reviewed!Next, Described

\* The job of a logical action that has taken effect is its last one, and so
\* is a job that is running: they would be the same.
LEMMA AppliedOnce ==
    ASSUME IInv, NEW j \in Jobs, job[j].status = "RUNNING",
           job[j].logical # NoJob
    PROVE  job[j].logical \notin Applied
<1> SUFFICES ASSUME NEW k \in Jobs, job[k].status = "SUCCEEDED",
                    job[k].logical = job[j].logical
             PROVE  FALSE
  BY DEF Applied
<1>1. ASSUME NEW i \in Jobs, job[i].status # "FAILED"
      PROVE  ~Continued(i)
  BY <1>1, JobNumbers DEF IInv, TableInv, Lineage, Settled, Continued
<1>2. ~Continued(j) /\ ~Continued(k)
  BY <1>1
<1> QED
  BY <1>2 DEF IInv, TableInv, OneTip

\* An EDIT or a REGENERATE replaces one question and its guide.
LEMMA ReplaceStep ==
    ASSUME IInv, NEW h \in Handlers, ApplyRevision(h),
           handler[h].action # "REJECT"
    PROVE  IInv' /\ Reviewed!Next /\ Described
<1> DEFINE q == handler[h].question
           o == handler[h].opportunity
           j == JobOf(h)
           l == job[j].logical
<1>1. /\ handler[h] \in Handler /\ HandlerOK(handler[h])
      /\ handler[h].questions = questions
      /\ status = "NEEDS_REVIEW" /\ submission = "NEEDS_REVIEW"
      /\ version = handler[h].base
      /\ handler[h].action \in ProviderActions
      /\ j # NoJob /\ j \in Jobs /\ j < next
      /\ job[j] \in JobRow
      /\ job[j].status = "RUNNING" /\ job[j].control = "ACTIVE"
      /\ job[j].base = version /\ l \in Jobs
  BY CurrentHandler
     DEF ApplyRevision, Revisions, ProviderActions, Cancelled
<1>2. /\ q \in Questions /\ o \in Opportunities
      /\ \A p \in Questions \ {q} : questions[p].opportunity # o
      /\ questions \in [Questions -> Question]
      /\ TypeOK
  BY <1>1 DEF Handler, HandlerOK, ReadingOK, IInv, TypeOK
<1>3. PICK asked : asked = [opportunity |-> o, author |-> l]
  OBVIOUS
<1>4. asked \in Question /\ asked.opportunity = o
  BY <1>1, <1>2, <1>3 DEF Question
<1>5. PICK row : row = SucceededRow(job[j])
  OBVIOUS
<1>6. /\ row \in JobRow /\ SameOrigin(job[j], row)
      /\ row.status = "SUCCEEDED" /\ row.control = "ACTIVE"
  BY <1>1, <1>5, RowFields, RowOrigin
<1>7. /\ version' = version + 1
      /\ questions' = [questions EXCEPT ![q] = asked]
      /\ guide' = questions'
      /\ job' = [job EXCEPT ![j] = row]
      /\ UNCHANGED <<status, submission, next>>
      /\ Exit(h)
  BY <1>1, <1>3, <1>5 DEF ApplyRevision, Revised, GuideAfter
<1>8. /\ unresolved' \in SUBSET Questions
      /\ used' \in [Questions -> SUBSET Opportunities]
  <2>1. /\ unresolved' = unresolved \ {q}
        /\ used' = [used EXCEPT ![q] = @ \cup {o}]
    BY <1>1 DEF ApplyRevision
  <2> QED
    BY <1>2, <2>1 DEF TypeOK
<1> HIDE DEF q, o, j, l
<1>9. \A i \in Jobs : job'[i] = IF i = j THEN row ELSE job[i]
  BY <1>2, <1>7 DEF TypeOK
<1>10. \A p \in Questions : questions'[p] = IF p = q THEN asked ELSE questions[p]
  BY <1>2, <1>7
<1>11. \A i \in Jobs : RowStep(i)
  BY <1>1, <1>6, <1>9 DEF RowStep, SameLine, SameOrigin, Settled
<1>12. TableInv'
  BY <1>7, <1>11, RowsStepKeepsTable DEF IInv, RowsStep
<1>13. /\ version' \in Nat \ {0} /\ handler' \in [Handlers -> Handler]
       /\ NoSharedJob'
       /\ \A g \in Handlers : HandlerOK(handler[g])'
  <2>1. \A i \in Jobs : i # JobOf(h) => job'[i].status = job[i].status
    BY <1>9 DEF j
  <2> QED
    BY <1>7, <1>11, <2>1, NewVersionKeeps DEF RowStep
<1>14. TypeOK'
  <2>1. questions' \in [Questions -> Question] /\ job' \in [Jobs -> JobRow]
    BY <1>1, <1>2, <1>4, <1>6, <1>7 DEF TypeOK
  <2> QED
    BY <1>2, <1>7, <1>8, <1>13, <2>1 DEF TypeOK
<1>15. DocumentInv'
  <2>1. ASSUME NEW p \in Questions, NEW r \in Questions, p # r
        PROVE  questions'[p].opportunity # questions'[r].opportunity
    BY <1>2, <1>4, <1>10, <2>1 DEF IInv, DocumentInv
  <2> QED
    BY <1>7, <2>1 DEF DocumentInv
<1>16. SubmissionAgrees' /\ CancelWins'
  BY <1>6, <1>7, <1>9 DEF IInv, SubmissionAgrees, CancelWins
<1>17. Applied' = Applied \cup {l}
  <2>1. row.logical = l
    BY <1>6 DEF SameOrigin, l
  <2>2. ASSUME NEW a PROVE a \in Applied' <=> a \in Applied \cup {l}
    <3>1. a \in Applied' <=> \E i \in Jobs : /\ job'[i].status = "SUCCEEDED"
                                             /\ a = job'[i].logical
      BY DEF Applied
    <3>2. a \in Applied <=> \E i \in Jobs : /\ job[i].status = "SUCCEEDED"
                                            /\ a = job[i].logical
      BY DEF Applied
    <3>3. job'[j] = row /\ job[j].status = "RUNNING"
      BY <1>1, <1>9
    <3>4. \A i \in Jobs \ {j} : job'[i] = job[i]
      BY <1>9
    <3> QED
      BY <1>1, <1>6, <2>1, <3>1, <3>2, <3>3, <3>4
  <2> QED
    BY <2>2
<1>18. l \notin Applied
  BY <1>1, AppliedOnce, JobNumbers DEF l
<1>19. Reviewed!Replace(l, q, o)
  BY <1>1, <1>2, <1>3, <1>7, <1>17, <1>18 DEF Reviewed!Replace
<1>20. Described
  BY <1>1, <1>9 DEF Described
<1> QED
  BY <1>1, <1>2, <1>12, <1>13, <1>14, <1>15, <1>16, <1>19, <1>20
     DEF IInv, Reviewed!Next

-----------------------------------------------------------------------------
(***************************************************************************)
(* Theorems.                                                               *)
(***************************************************************************)
LEMMA NextStep ==
    ASSUME IInv, Next
    PROVE  IInv' /\ (Unnoticed \/ Reviewed!Next) /\ Described
<1>1. Unnoticed => Described
  BY DEF Unnoticed, Described
<1>2. ASSUME NEW h \in Handlers,
             \/ \E action \in Reviews, q \in Questions : BeginReview(h, action, q)
             \/ BeginApproval(h)
             \/ \E j \in Jobs : Claim(h, j)
      PROVE  IInv' /\ Unnoticed
  BY <1>2, BeginReviewStep, BeginApprovalStep, ClaimStep
<1>3. ASSUME NEW h \in Handlers, Review(h)
      PROVE  IInv' /\ (Unnoticed \/ Reviewed!Next) /\ Described
  <2>1. CASE PrepareJob(h)
    BY <1>1, <2>1, PrepareJobStep
  <2>2. CASE PrepareRetry(h)
    BY <1>1, <2>2, PrepareRetryStep
  <2>3. CASE RegenerationStarts(h)
    BY <1>1, <2>3, RegenerationStartsStep
  <2>4. CASE RegenerationDenied(h)
    BY <1>1, <2>4, RegenerationDeniedStep
  <2>5. CASE ProviderAnswers(h)
    BY <1>1, <2>5, ProviderAnswersStep
  <2>6. CASE LockLatest(h)
    BY <1>1, <2>6, LockLatestStep
  <2>7. CASE ApplyRevision(h)
    BY <2>7, RejectStep, ReplaceStep
  <2>8. CASE RecordAccept(h)
    BY <1>1, <2>8, RecordAcceptStep
  <2>9. CASE RecordFailure(h)
    BY <1>1, <2>9, RecordFailureStep
  <2>10. CASE ReviewConflicts(h)
    BY <1>1, <2>10, ReviewConflictsStep
  <2> QED
    BY <1>3, <2>1, <2>2, <2>3, <2>4, <2>5, <2>6, <2>7, <2>8, <2>9, <2>10
       DEF Review
<1>4. ASSUME NEW h \in Handlers, Approval(h)
      PROVE  IInv' /\ (Unnoticed \/ Reviewed!Next) /\ Described
  <2>1. CASE ApproveRead(h)
    BY <1>1, <2>1, ApproveReadStep
  <2>2. CASE Approve(h)
    BY <2>2, ApproveStep
  <2>3. CASE ApprovalConflicts(h)
    BY <1>1, <2>3, HandlerHas, Leaving DEF ApprovalConflicts, recordVars
  <2> QED
    BY <1>4, <2>1, <2>2, <2>3 DEF Approval
<1>5. ASSUME NEW h \in Handlers, Work(h) \/ StopsCancelled(h) \/ Dies(h)
      PROVE  IInv' /\ Unnoticed
  <2>1. CASE RetryStarts(h) \/ RetryRefused(h)
    BY <2>1, RetryStartsStep, RetryRefusedStep
  <2>2. CASE SaveFailed(h) \/ SaveFailureClass(h)
    BY <2>2, SaveFailedStep, SaveFailureClassStep
  <2>3. CASE StopsCancelled(h)
    BY <2>3, StopsCancelledStep
  <2>4. CASE Dies(h)
    BY <2>4, HandlerHas, Leaving DEF Dies, recordVars
  <2> QED
    BY <1>5, <2>1, <2>2, <2>3, <2>4 DEF Work
<1>6. ASSUME NEW j \in Jobs, Control(j) \/ Reconcile(j)
      PROVE  IInv' /\ Unnoticed
  BY <1>6, RetryResumeStep, CancelStep, DispatchFailsStep, ReconcileStep
     DEF Control
<1> QED
  BY <1>1, <1>2, <1>3, <1>4, <1>5, <1>6 DEF Next, Handle

LEMMA Start ==
    ASSUME Init
    PROVE  IInv /\ Reviewed!Init
<1>1. /\ 1 \in Questions /\ 1 \in Nat \ {0}
      /\ \A q \in Questions : q \in Opportunities
      /\ 1 \in 1 .. MaxJobs + 1
      /\ \A j \in Jobs : j \in Nat /\ j >= 1 /\ j # NoJob
  BY ReviewConstants DEF Questions, Opportunities, Jobs, NoJob
<1>2. /\ Planned \in [Questions -> Question]
      /\ \A q \in Questions : Planned[q].opportunity = q
  BY <1>1 DEF Planned, Question
<1>3. UnusedRow \in JobRow
  BY <1>1, ReviewConstants DEF UnusedRow, JobRow, FailureClasses
<1>4. IdleHandler \in Handler
  BY <1>1, <1>2 DEF IdleHandler, Handler, Steps
<1>5. \A j \in Jobs : job[j] = UnusedRow
  BY DEF Init
<1>6. TypeOK
  BY <1>1, <1>2, <1>3, <1>4 DEF Init, TypeOK
<1>7. /\ UnusedRow.status = "UNUSED" /\ UnusedRow.source = NoJob
      /\ UnusedRow.logical = NoJob
  BY DEF UnusedRow
<1>8. TableInv
  BY <1>1, <1>5, <1>7
     DEF Init, TableInv, RowInOrder, Lineage, OneTip
<1>9. DocumentInv /\ SubmissionAgrees /\ CancelWins
  BY <1>2, <1>5, <1>7 DEF Init, DocumentInv, SubmissionAgrees, CancelWins
<1>10. /\ IdleHandler.step = "idle" /\ IdleHandler.job = NoJob
       /\ IdleHandler.base = 0 /\ IdleHandler.questions = Planned
       /\ IdleHandler.question = 1 /\ IdleHandler.opportunity = 1
  BY DEF IdleHandler
<1>11. ASSUME NEW h \in Handlers PROVE HandlerOK(handler[h]) /\ JobOf(h) = NoJob
  <2>1. handler[h] = IdleHandler /\ version = 1
    BY DEF Init
  <2>2. ReadingOK(handler[h])
    BY <1>2, <1>10, <2>1 DEF ReadingOK, Reviewing
  <2>3. JobOK(handler[h]) /\ ActionOK(handler[h]) /\ JobOf(h) = NoJob
    BY <1>10, <2>1 DEF JobOK, HasJob, ActionOK, JobOf
  <2> QED
    BY <2>2, <2>3 DEF HandlerOK
<1>12. NoSharedJob
  BY <1>11 DEF NoSharedJob
<1>13. Applied = {}
  BY <1>5, <1>7 DEF Applied
<1>14. Reviewed!Init
  BY <1>13 DEF Init, Reviewed!Init, Planned
<1> QED
  BY <1>6, <1>8, <1>9, <1>11, <1>12, <1>14 DEF IInv

LEMMA Stutter ==
    ASSUME UNCHANGED vars
    PROVE  /\ IInv => IInv'
           /\ Described
           /\ UNCHANGED Reviewed!vars
<1>1. UNCHANGED <<version, status, questions, guide, submission, unresolved,
                  used, job, next, handler>>
  BY DEF vars, assessmentVars, recordVars, jobVars
<1>2. TypeOK => TypeOK'
  BY <1>1 DEF TypeOK
<1>3. /\ TableInv => TableInv'
      /\ DocumentInv => DocumentInv'
      /\ SubmissionAgrees => SubmissionAgrees'
      /\ CancelWins => CancelWins'
      /\ NoSharedJob => NoSharedJob'
  BY <1>1 DEF TableInv, RowInOrder, Lineage, Settled, OneTip, Continued,
              DocumentInv, SubmissionAgrees, CancelWins, NoSharedJob, JobOf
<1>4. ASSUME NEW h \in Handlers, HandlerOK(handler[h])
      PROVE  HandlerOK(handler[h])'
  BY <1>1, <1>4
     DEF HandlerOK, JobOK, HasJob, ActionOK, ReadingOK, Reviewable
<1> QED
  BY <1>1, <1>2, <1>3, <1>4 DEF IInv, Described, Reviewed!vars, Applied

\* The invariant that all that follows rests on.
THEOREM InductiveInvariant == Spec => []IInv
<1>1. Init => IInv
  BY Start
<1>2. IInv /\ [Next]_vars => IInv'
  BY NextStep, Stutter
<1> QED
  BY <1>1, <1>2, PTL DEF Spec

\* Every variable stays within the rows the code can write.
THEOREM TypeCorrect == Spec => []TypeOK
<1>1. IInv => TypeOK
  BY DEF IInv
<1> QED
  BY <1>1, InductiveInvariant, PTL

\* However requests, retries and cancellations interleave, a job whose
\* cancellation was accepted leaves no revision behind.
THEOREM CancellationWins == Spec => []CancelWins
<1>1. IInv => CancelWins
  BY DEF IInv
<1> QED
  BY <1>1, InductiveInvariant, PTL

\* A revision takes effect on the version its descriptor was written for.
THEOREM RevisionsOfWhatWasSeen == Spec => AppliesToDescribedVersion
<1>1. IInv /\ [Next]_vars => [Described]_vars
  BY NextStep
<1>2. Described <=> \A j \in Jobs :
                      job[j].status # "SUCCEEDED" /\ job'[j].status = "SUCCEEDED" =>
                          job[j].base = version
  BY DEF Described
<1> QED
  BY <1>1, <1>2, InductiveInvariant, PTL DEF Spec, AppliesToDescribedVersion

\* The review implements a document that is changed by one whole action at a
\* time, each at most once, and no more after its approval.
THEOREM Refinement == Spec => ImplementsReviewed
<1>1. Init => Reviewed!Init
  BY Start
<1>2. IInv /\ [Next]_vars => [Reviewed!Next]_(Reviewed!vars)
  <2>1. ASSUME Unnoticed PROVE UNCHANGED Reviewed!vars
    <3>1. Applied' = Applied
      <4>1. ASSUME NEW a PROVE a \in Applied' <=> a \in Applied
        BY <2>1 DEF Applied, Unnoticed
      <4> QED
        BY <4>1
    <3> QED
      BY <2>1, <3>1 DEF Unnoticed, Reviewed!vars
  <2> QED
    BY <2>1, NextStep, Stutter
<1> QED
  BY <1>1, <1>2, InductiveInvariant, PTL DEF Spec, ImplementsReviewed, Reviewed!Spec

-----------------------------------------------------------------------------
(***************************************************************************)
(* The regenerations of a question.  A step asks for one, inserts a row,   *)
(* or leaves every regeneration as it was.                                 *)
(***************************************************************************)
\* Rows that keep their line and what was generated for them.
LEMMA RegenerationsSame ==
    ASSUME RegenerationInv,
           \A j \in Jobs : job'[j].generated = job[j].generated,
           \A j \in Jobs : job[j].generated => SameLine(j)
    PROVE  /\ \A q \in Questions : RegenerationsOf(q)' = RegenerationsOf(q)
           /\ RegenerationsBounded'
<1>1. ASSUME NEW q \in Questions
      PROVE  RegenerationsOf(q)' = RegenerationsOf(q)
  <2>1. \A j \in Jobs :
          /\ job'[j].generated /\ job'[j].question = q <=>
                job[j].generated /\ job[j].question = q
          /\ job[j].generated => job'[j].logical = job[j].logical
    BY DEF SameLine
  <2>2. ASSUME NEW a PROVE a \in RegenerationsOf(q)' <=> a \in RegenerationsOf(q)
    BY <2>1 DEF RegenerationsOf
  <2> QED
    BY <2>2
<1> QED
  BY <1>1 DEF RegenerationInv, RegenerationsBounded

\* What a step that inserts nothing does to the descriptors.
LEMMA LinesStay ==
    ASSUME IInv, RegenerationInv, version' \in Nat, version' >= version,
           \A j \in Jobs : SameLine(j),
           \A j \in Jobs : job'[j].generated = job[j].generated
    PROVE  /\ SameDescriptor' /\ RegenerationsBounded'
           /\ \A j \in Jobs : /\ Regeneration(j)' <=> Regeneration(j)
                              /\ Repeated(j)' <=> Repeated(j)
                              /\ Generated(j)' <=> Generated(j)
                              /\ Spent(j) => Spent(j)'
<1>1. RegenerationsBounded' /\ \A q \in Questions : RegenerationsOf(q)' = RegenerationsOf(q)
  BY RegenerationsSame
<1>2. SameDescriptor'
  <2>1. SameDescriptor
    BY DEF RegenerationInv
  <2> QED
    BY <2>1 DEF SameDescriptor, SameLine
<1>3. ASSUME NEW j \in Jobs
      PROVE  /\ Regeneration(j)' <=> Regeneration(j)
             /\ Repeated(j)' <=> Repeated(j)
             /\ Generated(j)' <=> Generated(j)
             /\ Spent(j) => Spent(j)'
  <2>1. Regeneration(j)' <=> Regeneration(j)
    BY DEF Regeneration, SameLine
  <2>2. Repeated(j)' <=> Repeated(j)
    BY DEF Repeated, SameLine
  <2>3. job[j].question \in Questions
    BY DEF IInv, TypeOK, JobRow
  <2>4. Generated(j)' <=> Generated(j)
    BY <1>1, <2>3 DEF Generated, SameLine
  <2>5. job[j].base < version => job'[j].base < version'
    <3>1. job[j].base \in Nat /\ version \in Nat
      BY DEF IInv, TypeOK, JobRow
    <3>2. job'[j].base = job[j].base
      BY DEF SameLine
    <3> QED
      BY <3>1, <3>2
  <2> QED
    BY <2>1, <2>2, <2>4, <2>5 DEF Spent
<1> QED
  BY <1>1, <1>2, <1>3

\* What such a step must respect in row j.
RowMoved(j) ==
    /\ job'[j].status \in {"QUEUED", "RUNNING"} => job'[j].failure = "NONE"
    /\ job'[j].status = "QUEUED" => job[j].source # NoJob
    /\ Regeneration(j) /\ Repeatable(j)' => Repeatable(j) \/ Spent(j)'

LEMMA RowsStay ==
    ASSUME IInv, RegenerationInv, version' \in Nat, version' >= version,
           \A j \in Jobs : SameLine(j),
           \A j \in Jobs : job'[j].generated = job[j].generated,
           \A j \in Jobs : RowMoved(j),
           \A g \in Handlers : \/ handler'[g] = handler[g]
                               \/ HandlerRegenerates(handler[g])'
    PROVE  RegenerationInv'
<1>1. /\ SameDescriptor' /\ RegenerationsBounded'
      /\ \A j \in Jobs : /\ Regeneration(j)' <=> Regeneration(j)
                         /\ Repeated(j)' <=> Repeated(j)
                         /\ Generated(j)' <=> Generated(j)
                         /\ Spent(j) => Spent(j)'
  BY LinesStay
<1>2. ASSUME NEW j \in Jobs PROVE RowRegenerates(j)'
  <2>1. RowRegenerates(j) /\ RowMoved(j) /\ SameLine(j)
    BY DEF RegenerationInv
  <2>2. Regeneration(j)' /\ Repeatable(j)' => Spent(j)'
    BY <1>1, <2>1 DEF RowMoved, RowRegenerates
  <2>3. job'[j].generated => Regeneration(j)'
    BY <1>1, <2>1 DEF RowRegenerates
  <2>4. job'[j].source # NoJob /\ job'[j].logical # NoJob =>
          job'[job'[j].source].logical = job'[j].logical
    <3>1. job[j].source # NoJob => SameLine(job[j].source)
      BY DEF IInv, TypeOK, JobRow
    <3> QED
      BY <2>1, <3>1 DEF RowRegenerates, SameLine
  <2>5. job'[j].source = job[j].source
    BY <2>1 DEF SameLine
  <2> QED
    BY <2>1, <2>2, <2>3, <2>4, <2>5 DEF RowRegenerates, RowMoved
<1>3. ASSUME NEW g \in Handlers, handler'[g] = handler[g]
      PROVE  HandlerRegenerates(handler[g])'
  <2>1. HandlerRegenerates(handler[g]) /\ handler[g] \in Handler
    BY DEF RegenerationInv, IInv, TypeOK
  <2>2. handler[g].job # NoJob => handler[g].job \in Jobs
    BY <2>1 DEF Handler
  <2>3. handler[g].snap \in Nat /\ version \in Nat
    BY <2>1 DEF Handler, IInv, TypeOK
  <2>4. handler[g].snap <= version => handler[g].snap <= version'
    BY <2>3
  <2>5. handler[g].step = "source" => handler[g].job # NoJob
    BY DEF IInv, HandlerOK, JobOK, HasJob
  <2>6. handler[g].job # NoJob =>
          /\ job'[handler[g].job].source = job[handler[g].job].source
          /\ job'[handler[g].job].generated = job[handler[g].job].generated
    BY <2>2 DEF SameLine
  <2> QED
    BY <1>1, <1>3, <2>1, <2>2, <2>4, <2>5, <2>6 DEF HandlerRegenerates
<1> QED
  BY <1>1, <1>2, <1>3 DEF RegenerationInv

\* A step of one handler that changes no row: it keeps its job, takes it from
\* nobody, or leaves one that nobody needs to repeat.
LEMMA HandlerAlone ==
    ASSUME IInv, RegenerationInv, NEW h \in Handlers, NEW e,
           handler' = [handler EXCEPT ![h] = e],
           UNCHANGED job, version' \in Nat, version' >= version,
           HandlerRegenerates(handler[h])',
           \/ JobOf(h) = NoJob
           \/ e.job = JobOf(h)
           \/ Regeneration(JobOf(h)) => Spent(JobOf(h))
    PROVE  RegenerationInv'
<1>1. \A g \in Handlers : handler'[g] = IF g = h THEN e ELSE handler[g]
  BY DEF IInv, TypeOK
<1>2. \A j \in Jobs : /\ SameLine(j)
                      /\ job'[j].generated = job[j].generated
  BY DEF SameLine
<1>3. \A j \in Jobs : Spent(j) => Spent(j)'
  BY <1>2, LinesStay
<1>4. ASSUME NEW j \in Jobs PROVE RowMoved(j)
  <2>1. RowRegenerates(j) /\ j # NoJob
    BY JobNumbers DEF RegenerationInv
  <2>2. CASE JobOf(h) # j \/ e.job = JobOf(h)
    <3>1. Orphan(j)' => Orphan(j)
      BY <1>1, <2>1, <2>2 DEF Orphan, JobOf
    <3>2. Repeatable(j)' => Repeatable(j)
      BY <3>1 DEF Repeatable, Repeated
    <3> QED
      BY <2>1, <3>2 DEF RowMoved, RowRegenerates
  <2>3. CASE JobOf(h) = j /\ e.job # JobOf(h)
    BY <1>3, <2>1, <2>3 DEF RowMoved, RowRegenerates
  <2> QED
    BY <2>2, <2>3
<1> QED
  BY <1>1, <1>2, <1>4, RowsStay

\* A step on row j, of its handler, of one that takes it or of somebody else.
LEMMA OneRowAlone ==
    ASSUME IInv, RegenerationInv, NEW j \in Jobs, NEW row \in JobRow,
           job' = [job EXCEPT ![j] = row],
           SameOrigin(job[j], row), row.generated = job[j].generated,
           version' \in Nat, version' >= version,
           row.status # "QUEUED",
           row.status = "RUNNING" => row.failure = "NONE",
           /\ Regeneration(j) /\ row.control = "ACTIVE"
              /\ row.status = "FAILED" /\ row.failure = "TRANSIENT"
           => Repeatable(j) \/ Spent(j),
           row.status = "RUNNING" /\ row.control = "ACTIVE" =>
               \E g \in Handlers : handler'[g].job = j,
           \A g \in Handlers :
               \/ handler'[g] = handler[g]
               \/ JobOf(g) \in {NoJob, j} /\ HandlerRegenerates(handler[g])'
    PROVE  RegenerationInv'
<1>1. \A i \in Jobs : job'[i] = IF i = j THEN row ELSE job[i]
  BY DEF IInv, TypeOK
<1>2. \A i \in Jobs : /\ SameLine(i)
                      /\ job'[i].generated = job[i].generated
  BY <1>1 DEF SameLine, SameOrigin
<1>3. \A i \in Jobs : /\ Spent(i) => Spent(i)'
                      /\ Repeated(i)' <=> Repeated(i)
  BY <1>2, LinesStay
<1>4. ASSUME NEW i \in Jobs, i # j PROVE RowMoved(i)
  <2>1. RowRegenerates(i) /\ i # NoJob /\ job'[i] = job[i]
    BY <1>1, <1>4, JobNumbers DEF RegenerationInv
  <2>2. Orphan(i)' => Orphan(i)
    BY <1>4, <2>1 DEF Orphan, JobOf
  <2>3. Repeatable(i)' => Repeatable(i)
    BY <1>3, <2>1, <2>2 DEF Repeatable
  <2> QED
    BY <2>1, <2>3 DEF RowMoved, RowRegenerates
<1>5. RowMoved(j)
  <2>1. job'[j] = row
    BY <1>1
  <2>2. Orphan(j)' => row.status = "RUNNING" /\ \A g \in Handlers : handler'[g].job # j
    BY <2>1 DEF Orphan, JobOf
  <2>3. Regeneration(j) /\ Repeatable(j)' => Repeatable(j) \/ Spent(j)
    BY <1>3, <2>1, <2>2 DEF Repeatable
  <2> QED
    BY <1>3, <2>1, <2>3 DEF RowMoved
<1> QED
  BY <1>2, <1>4, <1>5, RowsStay

\* A handler that is idle, or about to report a failure.
LEMMA LeavingRegenerates ==
    ASSUME NEW g \in Handlers,
           \/ handler'[g] = IdleHandler
           \/ /\ handler'[g].step \in {"fail", "fail_saved"}
              /\ handler'[g].outcome # "TRANSIENT"
    PROVE  HandlerRegenerates(handler[g])'
<1>1. IdleHandler.step = "idle" /\ IdleHandler.job = NoJob
  BY DEF IdleHandler
<1> QED
  BY <1>1 DEF HandlerRegenerates

\* A handler is known to be one of those the types allow.
LEMMA HandlerKnown ==
    ASSUME IInv, RegenerationInv, NEW h \in Handlers
    PROVE  /\ handler[h] \in Handler
           /\ JobOf(h) = handler[h].job
           /\ JobOf(h) \in Jobs \cup {NoJob}
           /\ HandlerOK(handler[h])
           /\ HandlerRegenerates(handler[h])
           /\ HasJob(handler[h]) => JobOf(h) \in Jobs
           /\ version \in Nat
           /\ \A e : handler' = [handler EXCEPT ![h] = e] => handler'[h] = e
           /\ \A j \in Jobs : j # NoJob /\ job[j] \in JobRow
<1>1. handler \in [Handlers -> Handler] /\ job \in [Jobs -> JobRow] /\ version \in Nat
  BY DEF IInv, TypeOK
<1>2. HandlerOK(handler[h]) /\ HandlerRegenerates(handler[h])
  BY DEF IInv, RegenerationInv
<1>3. handler[h].job \in Jobs \cup {NoJob}
  BY <1>1 DEF Handler
<1> QED
  BY <1>1, <1>2, <1>3, JobNumbers DEF JobOf, HandlerOK, JobOK

-----------------------------------------------------------------------------
\* The actions of a handler that change no row.
LEMMA BeginningsRegenerate ==
    ASSUME IInv, RegenerationInv, NEW h \in Handlers,
           \/ \E action \in Reviews, q \in Questions : BeginReview(h, action, q)
           \/ BeginApproval(h)
    PROVE  RegenerationInv'
<1>1. PICK e : /\ handler' = [handler EXCEPT ![h] = e]
               /\ e.job = NoJob
               /\ e.step \in {"prepare", "lock", "approve_read"}
  <2>1. ASSUME NEW action \in Reviews, NEW q \in Questions, BeginReview(h, action, q)
        PROVE  \E e : /\ handler' = [handler EXCEPT ![h] = e]
                      /\ e.job = NoJob
                      /\ e.step \in {"prepare", "lock", "approve_read"}
    <3>1. PICK s : s = IF action \in ProviderActions THEN "prepare" ELSE "lock"
      OBVIOUS
    <3>2. PICK e : e = Reading(action, q, NoJob, s)
      OBVIOUS
    <3>3. handler' = [handler EXCEPT ![h] = e]
      BY <2>1, <3>1, <3>2 DEF BeginReview
    <3>4. e.job = NoJob /\ e.step = s
      BY <3>2 DEF Reading
    <3> QED
      BY <3>1, <3>3, <3>4
  <2>2. ASSUME BeginApproval(h)
        PROVE  \E e : /\ handler' = [handler EXCEPT ![h] = e]
                      /\ e.job = NoJob
                      /\ e.step \in {"prepare", "lock", "approve_read"}
    <3>1. PICK e : e = Reading("APPROVE", 1, NoJob, "approve_read")
      OBVIOUS
    <3>2. handler' = [handler EXCEPT ![h] = e]
      BY <2>2, <3>1 DEF BeginApproval
    <3>3. e.job = NoJob /\ e.step = "approve_read"
      BY <3>1 DEF Reading
    <3> QED
      BY <3>2, <3>3
  <2> QED
    BY <2>1, <2>2
<1>2. handler'[h] = e /\ version \in Nat
  BY <1>1, HandlerKnown
<1>3. HandlerRegenerates(handler[h])'
  BY <1>1, <1>2 DEF HandlerRegenerates
<1>4. JobOf(h) = NoJob
  BY HandlerKnown DEF BeginReview, BeginApproval, At, HandlerOK, JobOK, HasJob
<1>5. UNCHANGED job /\ version' \in Nat /\ version' >= version
  BY <1>2 DEF BeginReview, BeginApproval, jobVars, assessmentVars
<1> QED
  BY <1>1, <1>2, <1>3, <1>4, <1>5, HandlerAlone

LEMMA RetryRegenerates ==
    ASSUME IInv, RegenerationInv, NEW h \in Handlers,
           RetryStarts(h) \/ PrepareRetry(h)
    PROVE  RegenerationInv'
<1>0. PICK j : j = JobOf(h)
  OBVIOUS
<1>1. /\ handler[h] \in Handler /\ HandlerOK(handler[h])
      /\ HandlerRegenerates(handler[h])
      /\ j = handler[h].job /\ j \in Jobs /\ j # NoJob
      /\ version \in Nat
  BY <1>0, HandlerKnown DEF RetryStarts, PrepareRetry, At, HasJob
<1>4. UNCHANGED job /\ version' \in Nat /\ version' >= version
  BY <1>1 DEF RetryStarts, PrepareRetry, jobVars, assessmentVars
<1>2. CASE RetryStarts(h)
  <2>1. PICK e : e = Reading(handler[h].action, handler[h].question, j, "prepare")
    OBVIOUS
  <2>2. handler' = [handler EXCEPT ![h] = e] /\ e.job = j /\ e.step = "prepare"
    BY <1>0, <1>2, <2>1 DEF RetryStarts, Reading
  <2>3. Regeneration(j) /\ Repeated(j) => Generated(j)
    <3>1. RowRegenerates(j) /\ job[j].base = version
      BY <1>0, <1>1, <1>2 DEF RegenerationInv, RetryStarts, SourceCurrent
    <3>2. ~(job[j].base < version)
      BY <1>1, <3>1
    <3> QED
      BY <3>1, <3>2 DEF RowRegenerates, Repeatable, Spent
  <2>4. Regeneration(j)' /\ Repeated(j)' => Generated(j)'
    BY <1>4, <2>3 DEF Regeneration, Repeated, Generated, RegenerationsOf
  <2>5. HandlerRegenerates(handler[h])'
    <3>1. handler'[h] = e
      BY <2>2, HandlerKnown
    <3> QED
      BY <2>2, <2>4, <3>1 DEF HandlerRegenerates
  <2> QED
    BY <1>0, <1>4, <2>2, <2>5, HandlerAlone
<1>3. CASE PrepareRetry(h)
  <2>1. PICK e : e = Prepared(handler[h], j)
    OBVIOUS
  <2>2. /\ handler' = [handler EXCEPT ![h] = e] /\ e.job = j
        /\ e.action = handler[h].action
        /\ e.step = AfterPrepare(handler[h].action)
    <3>1. SameReading(handler[h], e) /\ e.job = j
      BY <1>1, <2>1, PreparedFields
    <3> QED
      BY <1>0, <1>1, <1>3, <2>1, <3>1 DEF PrepareRetry, SameReading, Prepared, Handler
  <2>3. Regeneration(j)' /\ Repeated(j)' => Generated(j)'
    BY <1>1, <1>3, <1>4 DEF HandlerRegenerates, PrepareRetry, At, Regeneration,
                      Repeated, Generated, RegenerationsOf
  <2>4. HandlerRegenerates(handler[h])'
    <3>1. handler'[h] = e
      BY <2>2, HandlerKnown
    <3>2. /\ e.step = "limit" => e.action = "REGENERATE"
          /\ e.action = "REGENERATE" => e.step = "limit"
          /\ e.step \in {"limit", "provider"}
      BY <2>2 DEF AfterPrepare
    <3> QED
      BY <2>2, <2>3, <3>1, <3>2 DEF HandlerRegenerates
  <2> QED
    BY <1>0, <1>4, <2>2, <2>4, HandlerAlone
<1> QED
  BY <1>2, <1>3

\* A handler that goes to its final transaction, or that is in it.
LEMMA ConcludingRegenerates ==
    ASSUME IInv, RegenerationInv, NEW h \in Handlers,
           UNCHANGED <<version, job>>, HasJob(handler[h]),
           NEW o \in FailureClasses \cup {"APPLIED"}, Conclude(h, o),
           o = "TRANSIENT" /\ handler[h].action = "REGENERATE" =>
               job[handler[h].job].generated
    PROVE  RegenerationInv'
<1>1. PICK e : e = Concluding(handler[h], o)
  OBVIOUS
<1>2. /\ handler' = [handler EXCEPT ![h] = e]
      /\ handler[h] \in Handler /\ version \in Nat
      /\ JobOf(h) = handler[h].job /\ handler'[h] = e
  BY <1>1, HandlerKnown DEF Conclude
<1>3. /\ e.job = handler[h].job /\ e.action = handler[h].action
      /\ e.step = "lock" /\ e.outcome = o
  BY <1>1, <1>2, MovedFields DEF SameReading
<1>4. HandlerRegenerates(handler[h])'
  BY <1>2, <1>3 DEF HandlerRegenerates
<1>5. version' \in Nat /\ version' >= version
  BY <1>2
<1> QED
  BY <1>2, <1>3, <1>4, <1>5, HandlerAlone

LEMMA LockRegenerates ==
    ASSUME IInv, RegenerationInv, NEW h \in Handlers, LockLatest(h)
    PROVE  RegenerationInv'
<1>1. PICK v : v = version
  OBVIOUS
<1>2. PICK e : e = Locked(handler[h], v)
  OBVIOUS
<1>3. /\ handler' = [handler EXCEPT ![h] = e]
      /\ handler[h] \in Handler /\ v \in Nat
      /\ JobOf(h) = handler[h].job /\ handler'[h] = e
      /\ HandlerOK(handler[h]) /\ HandlerRegenerates(handler[h])
  BY <1>1, <1>2, HandlerKnown DEF LockLatest
<1>4. /\ e.job = handler[h].job /\ e.action = handler[h].action
      /\ e.step = "apply" /\ e.outcome = handler[h].outcome
      /\ e.base = handler[h].base
  BY <1>2, <1>3, MovedFields DEF SameReading
<1>5. e.snap = v
  BY <1>2, <1>3 DEF Locked, Handler
<1>6. UNCHANGED job /\ version' = v /\ version' >= version
  BY <1>1, <1>3 DEF LockLatest, assessmentVars, jobVars
<1>7. handler[h].base <= v
  BY <1>1, <1>3 DEF HandlerOK, ReadingOK
<1>8. /\ e.action = "REGENERATE" /\ e.job # NoJob /\ e.outcome = "TRANSIENT"
         => job[e.job].generated
  BY <1>3, <1>4 DEF HandlerRegenerates, LockLatest, At
<1>9. HandlerRegenerates(handler[h])'
  <2>1. e.base <= e.snap /\ e.snap <= version'
    BY <1>3, <1>4, <1>5, <1>6, <1>7
  <2> QED
    BY <1>3, <1>4, <1>6, <1>8, <2>1 DEF HandlerRegenerates
<1> QED
  BY <1>3, <1>4, <1>6, <1>9, HandlerAlone

\* A handler without a job that goes elsewhere or leaves.
LEMMA JoblessRegenerates ==
    ASSUME IInv, RegenerationInv, NEW h \in Handlers,
           UNCHANGED job, version' \in Nat, version' >= version,
           JobOf(h) = NoJob, Exit(h) \/ Goto(h, "lock")
    PROVE  RegenerationInv'
<1>1. PICK e : /\ e \in {IdleHandler, Going(handler[h], "lock")}
               /\ handler' = [handler EXCEPT ![h] = e]
  BY DEF Exit, Goto
<1>2. handler'[h] = e /\ handler[h] \in Handler /\ handler[h].job = NoJob
  BY <1>1, HandlerKnown
<1>3. "lock" \in Steps
  BY DEF Steps
<1>4. e = IdleHandler \/ (e.step = "lock" /\ e.job = NoJob)
  <2>1. /\ Going(handler[h], "lock").step = "lock"
        /\ Going(handler[h], "lock").job = NoJob
    BY <1>2, <1>3, MovedFields
  <2>2. e = IdleHandler \/ e = Going(handler[h], "lock")
    BY <1>1
  <2> QED
    BY <2>1, <2>2
<1>5. HandlerRegenerates(handler[h])'
  <2>1. CASE e = IdleHandler
    BY <1>2, <2>1, LeavingRegenerates
  <2>2. CASE e.step = "lock" /\ e.job = NoJob
    BY <1>2, <2>2 DEF HandlerRegenerates
  <2> QED
    BY <1>4, <2>1, <2>2
<1> QED
  BY <1>1, <1>5, HandlerAlone

LEMMA ApprovalRegenerates ==
    ASSUME IInv, RegenerationInv, NEW h \in Handlers,
           Approval(h) \/ RecordAccept(h)
    PROVE  RegenerationInv'
<1>1. HandlerOK(handler[h]) /\ version \in Nat /\ JobOf(h) = handler[h].job
  BY HandlerKnown
<1>2. JobOf(h) = NoJob
  BY <1>1 DEF Approval, ApproveRead, Approve, ApprovalConflicts, RecordAccept, At,
              HandlerOK, JobOK, HasJob, ProviderActions
<1>3. Exit(h) \/ Goto(h, "lock")
  BY DEF Approval, ApproveRead, Approve, ApprovalConflicts, RecordAccept
<1>4. UNCHANGED job
  BY DEF Approval, ApproveRead, Approve, ApprovalConflicts, RecordAccept, jobVars
<1>5. version' \in Nat /\ version' >= version
  <2>1. version' = version + 1 \/ version' = version
    BY DEF Approval, ApproveRead, Approve, ApprovalConflicts, RecordAccept,
           Current, assessmentVars
  <2> QED
    BY <1>1, <2>1
<1> QED
  BY <1>2, <1>3, <1>4, <1>5, JoblessRegenerates

\* An exception: a worker reports it; the job of a request is left, and must
\* have spent its regeneration if it is one.
LEMMA RaisingRegenerates ==
    ASSUME IInv, RegenerationInv, NEW h \in Handlers,
           UNCHANGED <<version, job>>,
           NEW class \in FailureClasses \ {"TRANSIENT"}, Raise(h, class),
           /\ JobOf(h) # NoJob /\ job[JobOf(h)].source = NoJob
              /\ Regeneration(JobOf(h)) => Spent(JobOf(h))
    PROVE  RegenerationInv'
<1>1. PICK e : e = IF JobOf(h) # NoJob /\ job[JobOf(h)].source # NoJob
                   THEN Failing(handler[h], class) ELSE IdleHandler
  OBVIOUS
<1>2. /\ handler' = [handler EXCEPT ![h] = e]
      /\ handler[h] \in Handler /\ version \in Nat
      /\ JobOf(h) = handler[h].job /\ handler'[h] = e
  BY <1>1, HandlerKnown DEF Raise, Exit
<1>3. version' \in Nat /\ version' >= version
  BY <1>2
<1>4. CASE JobOf(h) # NoJob /\ job[JobOf(h)].source # NoJob
  <2>1. e.step = "fail" /\ e.outcome = class /\ e.job = JobOf(h)
    BY <1>1, <1>2, <1>4, MovedFields
  <2> QED
    BY <1>2, <1>3, <2>1, LeavingRegenerates, HandlerAlone
<1>5. CASE ~(JobOf(h) # NoJob /\ job[JobOf(h)].source # NoJob)
  BY <1>1, <1>2, <1>3, <1>5, LeavingRegenerates, HandlerAlone
<1> QED
  BY <1>4, <1>5

LEMMA ConclusionsRegenerate ==
    ASSUME IInv, RegenerationInv, NEW h \in Handlers,
           RegenerationDenied(h) \/ ProviderAnswers(h)
    PROVE  RegenerationInv'
<1>1. /\ UNCHANGED <<version, job>> /\ HasJob(handler[h])
  BY DEF RegenerationDenied, ProviderAnswers, At, HasJob, assessmentVars, jobVars
<1>2. CASE RegenerationDenied(h)
  <2>1. Conclude(h, "VALIDATION") /\ "VALIDATION" \in FailureClasses
    BY <1>2 DEF RegenerationDenied, FailureClasses
  <2> QED
    BY <1>1, <2>1, ConcludingRegenerates
<1>3. CASE ProviderAnswers(h)
  <2>1. PICK o \in {"APPLIED", "TRANSIENT", "VALIDATION", "PERMANENT"} : Conclude(h, o)
    BY <1>3 DEF ProviderAnswers
  <2>2. handler[h].action = "REGENERATE" => job[handler[h].job].generated
    BY <1>3, HandlerKnown
       DEF ProviderAnswers, At, HandlerRegenerates, HandlerOK, JobOK, HasJob
  <2>3. o \in FailureClasses \cup {"APPLIED"}
    BY <2>1 DEF FailureClasses
  <2> QED
    BY <1>1, <2>1, <2>2, <2>3, ConcludingRegenerates
<1> QED
  BY <1>2, <1>3

LEMMA RefusalsRegenerate ==
    ASSUME IInv, RegenerationInv, NEW h \in Handlers,
           ReviewConflicts(h) \/ RetryRefused(h)
    PROVE  RegenerationInv'
<1>1. UNCHANGED <<version, job>>
  BY DEF ReviewConflicts, RetryRefused, assessmentVars, jobVars
<1>2. /\ HandlerOK(handler[h]) /\ HandlerRegenerates(handler[h])
      /\ handler[h] \in Handler /\ version \in Nat
      /\ JobOf(h) = handler[h].job
  BY HandlerKnown
<1>3. {"PRECONDITION", "PERMANENT"} \subseteq FailureClasses \ {"TRANSIENT"}
  BY DEF FailureClasses
<1>4. CASE RetryRefused(h)
  <2>1. job[JobOf(h)].source # NoJob
    BY <1>2, <1>4 DEF RetryRefused, At, HandlerRegenerates
  <2>2. PICK class \in {"PRECONDITION", "PERMANENT"} : Raise(h, class)
    BY <1>4 DEF RetryRefused
  <2> QED
    BY <1>1, <1>3, <2>1, <2>2, RaisingRegenerates
<1>5. CASE ReviewConflicts(h) /\ JobOf(h) # NoJob /\ handler[h].outcome = "APPLIED"
  <2>1. Conclude(h, "PERMANENT") /\ HasJob(handler[h])
    BY <1>2, <1>5
       DEF ReviewConflicts, At, HandlerOK, JobOK
  <2> QED
    BY <1>1, <1>3, <2>1, ConcludingRegenerates
<1>6. CASE /\ ReviewConflicts(h)
           /\ ~(JobOf(h) # NoJob /\ handler[h].outcome = "APPLIED")
  <2>1. Raise(h, "PERMANENT") /\ handler[h].step = "apply"
    BY <1>6 DEF ReviewConflicts, At
  <2>2. JobOf(h) # NoJob => Spent(JobOf(h))
    <3> SUFFICES ASSUME JobOf(h) # NoJob PROVE Spent(JobOf(h))
      OBVIOUS
    <3>1. handler[h].snap # handler[h].base
      BY <1>6 DEF ReviewConflicts, Conflicts
    <3>2. handler[h].base <= handler[h].snap /\ handler[h].snap <= version
      BY <1>2, <2>1 DEF HandlerRegenerates
    <3>3. handler[h].base \in Nat /\ handler[h].snap \in Nat
      BY <1>2 DEF Handler
    <3>4. job[JobOf(h)].base = handler[h].base
      BY <1>2, <2>1 DEF HandlerOK, JobOK, Reviewing
    <3> QED
      BY <1>2, <3>1, <3>2, <3>3, <3>4 DEF Spent
  <2> QED
    BY <1>1, <1>3, <2>1, <2>2, RaisingRegenerates
<1> QED
  BY <1>4, <1>5, <1>6

-----------------------------------------------------------------------------
\* The actions that write a row.
LEMMA RowRegeneration ==
    ASSUME NEW row \in JobRow
    PROVE  /\ CancelledRow(row).generated = row.generated
           /\ CancelledRow(row).control = "CANCELLED"
           /\ SucceededRow(row).generated = row.generated
           /\ CancellingRow(row).generated = row.generated
           /\ CancellingRow(row).control = "CANCEL_REQUESTED"
           /\ CancellingRow(row).failure = row.failure
           /\ UnclassifiedRow(row).generated = row.generated
           /\ UnclassifiedRow(row).failure = row.failure
           /\ ClaimedRow(row).generated = row.generated
           /\ ClaimedRow(row).failure = row.failure
           /\ \A c \in FailureClasses :
                 /\ FailedRow(row, c).generated = row.generated
                 /\ FailedRow(row, c).failure = c
  BY DEF JobRow, CancelledRow, SucceededRow, CancellingRow, UnclassifiedRow,
         ClaimedRow, FailedRow

LEMMA FinishRegenerates ==
    ASSUME IInv, RegenerationInv, NEW h \in Handlers, Exit(h),
           NEW j \in Jobs, j = JobOf(h), NEW row \in JobRow,
           job' = [job EXCEPT ![j] = row],
           SameOrigin(job[j], row), row.generated = job[j].generated,
           version' \in Nat, version' >= version,
           row.status \in {"SUCCEEDED", "FAILED"},
           /\ Regeneration(j) /\ row.control = "ACTIVE"
              /\ row.status = "FAILED" /\ row.failure = "TRANSIENT"
           => Spent(j)
    PROVE  RegenerationInv'
<1>1. \A g \in Handlers : handler'[g] = IF g = h THEN IdleHandler ELSE handler[g]
  BY DEF Exit, IInv, TypeOK
<1>2. HandlerRegenerates(handler[h])'
  BY <1>1, LeavingRegenerates
<1> QED
  BY <1>1, <1>2, OneRowAlone

LEMMA StopsRegenerate ==
    ASSUME IInv, RegenerationInv, NEW h \in Handlers, StopsCancelled(h)
    PROVE  RegenerationInv'
<1>1. PICK j : j = JobOf(h)
  OBVIOUS
<1>2. /\ j \in Jobs /\ job[j] \in JobRow /\ version \in Nat
      /\ job[j].control # "ACTIVE"
  BY <1>1, HandlerKnown DEF StopsCancelled, Cancelled
<1>3. version' \in Nat /\ version' >= version /\ Exit(h)
  BY <1>2 DEF StopsCancelled, assessmentVars
<1>4. CASE job[j].control = "CANCEL_REQUESTED"
  <2>1. PICK row : row = CancelledRow(job[j])
    OBVIOUS
  <2>2. /\ row \in JobRow /\ SameOrigin(job[j], row) /\ row.status = "FAILED"
        /\ row.generated = job[j].generated /\ row.control = "CANCELLED"
    BY <1>2, <2>1, RowFields, RowOrigin, RowRegeneration
  <2>3. job' = [job EXCEPT ![j] = row]
    BY <1>1, <1>4, <2>1 DEF StopsCancelled, AcknowledgeCancel
  <2> QED
    BY <1>1, <1>2, <1>3, <2>2, <2>3, FinishRegenerates
<1>5. CASE job[j].control # "CANCEL_REQUESTED"
  <2>1. PICK row : row = job[j]
    OBVIOUS
  <2>2. row \in JobRow /\ SameOrigin(job[j], row) /\ row.generated = job[j].generated
    BY <1>2, <2>1 DEF SameOrigin
  <2>3. job' = [job EXCEPT ![j] = row]
    BY <1>1, <1>5, <2>1 DEF StopsCancelled, AcknowledgeCancel, IInv, TypeOK
  <2>4. row.status = "RUNNING" => row.failure = "NONE"
    BY <1>2, <2>1 DEF RegenerationInv, RowRegenerates
  <2>5. row.status = "RUNNING"
    BY <1>1, <1>2, <2>1, HandlerKnown DEF HandlerOK, JobOK, StopsCancelled
  <2>6. \A g \in Handlers : handler'[g] = IF g = h THEN IdleHandler ELSE handler[g]
    BY <1>3 DEF Exit, IInv, TypeOK
  <2>7. HandlerRegenerates(handler[h])'
    BY <2>6, LeavingRegenerates
  <2> QED
    BY <1>1, <1>2, <1>3, <2>1, <2>2, <2>3, <2>4, <2>5, <2>6, <2>7, OneRowAlone
<1> QED
  BY <1>4, <1>5

LEMMA FailuresRegenerate ==
    ASSUME IInv, RegenerationInv, NEW h \in Handlers,
           RecordFailure(h) \/ SaveFailureClass(h)
    PROVE  RegenerationInv'
<1>1. PICK j : j = JobOf(h)
  OBVIOUS
<1>2. PICK o : o = handler[h].outcome
  OBVIOUS
<1>3. /\ handler[h] \in Handler /\ HandlerOK(handler[h])
      /\ HandlerRegenerates(handler[h])
      /\ j = handler[h].job /\ version \in Nat
  BY <1>1, HandlerKnown
<1>4. HasJob(handler[h]) /\ o \in FailureClasses
  BY <1>2, <1>3
     DEF RecordFailure, SaveFailureClass, At, Handler, HandlerOK, ActionOK, HasJob
<1>5. j \in Jobs /\ job[j] \in JobRow
  BY <1>1, <1>4, HandlerKnown
<1>6. PICK row : row = FailedRow(job[j], o)
  OBVIOUS
<1>7. /\ row \in JobRow /\ SameOrigin(job[j], row) /\ row.status = "FAILED"
      /\ row.generated = job[j].generated /\ row.failure = o
  BY <1>4, <1>5, <1>6, RowFields, RowOrigin, RowRegeneration
<1>8. /\ job' = [job EXCEPT ![j] = row] /\ Exit(h)
      /\ version' \in Nat /\ version' >= version
  BY <1>1, <1>2, <1>3, <1>6 DEF RecordFailure, SaveFailureClass, assessmentVars
<1>9. ASSUME Regeneration(j), o = "TRANSIENT"
      PROVE  Spent(j)
  <2>1. handler[h].action = "REGENERATE" /\ handler[h].step = "apply"
    BY <1>2, <1>3, <1>4, <1>5, <1>9, JobNumbers
       DEF RecordFailure, SaveFailureClass, At, HandlerRegenerates, HandlerOK,
           JobOK, Regeneration
  <2>2. job[j].generated
    BY <1>2, <1>3, <1>4, <1>5, <1>9, <2>1, JobNumbers DEF HandlerRegenerates
  <2> QED
    BY <1>5, <2>2 DEF Spent, Generated, RegenerationsOf
<1> QED
  BY <1>1, <1>5, <1>7, <1>8, <1>9, FinishRegenerates

LEMMA RevisionRegenerates ==
    ASSUME IInv, RegenerationInv, NEW h \in Handlers, ApplyRevision(h)
    PROVE  RegenerationInv'
<1>1. PICK j : j = JobOf(h)
  OBVIOUS
<1>2. j \in Jobs \cup {NoJob} /\ version \in Nat
  BY <1>1, HandlerKnown
<1>3. Exit(h) /\ version' \in Nat /\ version' >= version
  <2>1. version' = version + 1
    BY DEF ApplyRevision, Current
  <2> QED
    BY <1>2, <2>1 DEF ApplyRevision
<1>4. CASE j = NoJob
  <2>1. UNCHANGED job
    BY <1>1, <1>4 DEF ApplyRevision
  <2> QED
    BY <1>1, <1>3, <1>4, <2>1, JoblessRegenerates
<1>5. CASE j # NoJob
  <2>1. j \in Jobs /\ job[j] \in JobRow
    BY <1>2, <1>5, HandlerKnown
  <2>2. PICK row : row = SucceededRow(job[j])
    OBVIOUS
  <2>3. /\ row \in JobRow /\ SameOrigin(job[j], row) /\ row.status = "SUCCEEDED"
        /\ row.generated = job[j].generated
    BY <2>1, <2>2, RowFields, RowOrigin, RowRegeneration
  <2>4. job' = [job EXCEPT ![j] = row]
    BY <1>1, <1>5, <2>2 DEF ApplyRevision
  <2> QED
    BY <1>1, <1>3, <2>1, <2>3, <2>4, FinishRegenerates
<1> QED
  BY <1>4, <1>5

LEMMA SaveFailedRegenerates ==
    ASSUME IInv, RegenerationInv, NEW h \in Handlers, SaveFailed(h)
    PROVE  RegenerationInv'
<1>1. PICK j : j = JobOf(h)
  OBVIOUS
<1>2. /\ handler[h] \in Handler /\ HandlerOK(handler[h])
      /\ HandlerRegenerates(handler[h]) /\ handler[h].step = "fail"
      /\ j = handler[h].job /\ version \in Nat
      /\ j \in Jobs /\ job[j] \in JobRow /\ RowRegenerates(j)
  BY <1>1, HandlerKnown DEF SaveFailed, At, HasJob, RegenerationInv
<1>3. job[j].failure = "NONE"
  BY <1>2, JobNumbers DEF HandlerOK, JobOK, RowRegenerates
<1>4. PICK e : e = Going(handler[h], "fail_saved")
  OBVIOUS
<1>5. e.step = "fail_saved" /\ e.outcome = handler[h].outcome /\ e.job = j
  BY <1>2, <1>4, MovedFields DEF Steps
<1>6. PICK row : row = UnclassifiedRow(job[j])
  OBVIOUS
<1>7. /\ row \in JobRow /\ SameOrigin(job[j], row) /\ row.status = "FAILED"
      /\ row.generated = job[j].generated /\ row.failure = "NONE"
  BY <1>2, <1>3, <1>6, RowFields, RowOrigin, RowRegeneration
<1>8. /\ job' = [job EXCEPT ![j] = row]
      /\ version' \in Nat /\ version' >= version
      /\ \A g \in Handlers : handler'[g] = IF g = h THEN e ELSE handler[g]
  BY <1>1, <1>2, <1>4, <1>6 DEF SaveFailed, Goto, assessmentVars, IInv, TypeOK
<1>9. HandlerRegenerates(handler[h])'
  BY <1>2, <1>5, <1>8, LeavingRegenerates DEF HandlerRegenerates
<1> QED
  BY <1>1, <1>2, <1>7, <1>8, <1>9, OneRowAlone

LEMMA ClaimRegenerates ==
    ASSUME IInv, RegenerationInv, NEW h \in Handlers, NEW j \in Jobs, Claim(h, j)
    PROVE  RegenerationInv'
<1>1. /\ job[j] \in JobRow /\ version \in Nat /\ RowRegenerates(j)
      /\ job[j].status = "QUEUED" /\ job[j].attempt < MaxAttempts
  BY HandlerKnown DEF Claim, RegenerationInv
<1>2. PICK e : e = Reading(job[j].action, job[j].question, j, "source")
  OBVIOUS
<1>3. e.step = "source" /\ e.job = j /\ e.outcome = "APPLIED"
  BY <1>2 DEF Reading
<1>4. PICK row : row = ClaimedRow(job[j])
  OBVIOUS
<1>5. /\ row \in JobRow /\ SameOrigin(job[j], row) /\ row.status = "RUNNING"
      /\ row.generated = job[j].generated /\ row.failure = "NONE"
  BY <1>1, <1>4, RowFields, RowOrigin, RowRegeneration DEF RowRegenerates
<1>6. /\ job' = [job EXCEPT ![j] = row]
      /\ version' \in Nat /\ version' >= version
      /\ \A g \in Handlers : handler'[g] = IF g = h THEN e ELSE handler[g]
  BY <1>1, <1>2, <1>4 DEF Claim, assessmentVars, IInv, TypeOK
<1>7. job'[j] = row /\ row.source = job[j].source /\ job[j].source # NoJob
  BY <1>1, <1>5, <1>6 DEF SameOrigin, RowRegenerates, IInv, TypeOK
<1>8. HandlerRegenerates(handler[h])'
  BY <1>3, <1>6, <1>7 DEF HandlerRegenerates
<1>9. JobOf(h) = NoJob
  BY HandlerKnown DEF Claim, At, HandlerOK, JobOK, HasJob
<1> QED
  BY <1>3, <1>5, <1>6, <1>8, <1>9, OneRowAlone

\* Somebody else writes the row: a cancellation, a dispatch that fails, the
\* end of a lease.
LEMMA ControlRegenerates ==
    ASSUME IInv, RegenerationInv, NEW j \in Jobs,
           CancelQueued(j) \/ CancelRunning(j) \/ DispatchFails(j) \/ Reconcile(j)
    PROVE  RegenerationInv'
<1>1. /\ job[j] \in JobRow /\ version \in Nat /\ RowRegenerates(j) /\ j # NoJob
  BY JobNumbers DEF RegenerationInv, IInv, TypeOK
<1>2. UNCHANGED handler /\ version' \in Nat /\ version' >= version
  BY <1>1 DEF CancelQueued, CancelRunning, DispatchFails, Reconcile, assessmentVars
<1>3. "TRANSIENT" \in FailureClasses
  BY DEF FailureClasses
<1>4. CASE CancelRunning(j)
  <2>1. PICK row : row = CancellingRow(job[j])
    OBVIOUS
  <2>2. /\ row \in JobRow /\ SameOrigin(job[j], row) /\ row.status = "RUNNING"
        /\ row.generated = job[j].generated /\ row.control = "CANCEL_REQUESTED"
        /\ row.failure = "NONE"
    BY <1>1, <1>4, <2>1, RowFields, RowOrigin, RowRegeneration
       DEF CancelRunning, RowRegenerates
  <2>3. job' = [job EXCEPT ![j] = row]
    BY <1>4, <2>1 DEF CancelRunning
  <2> QED
    BY <1>2, <2>2, <2>3, OneRowAlone
<1>5. CASE \/ CancelQueued(j)
           \/ Reconcile(j) /\ job[j].control = "CANCEL_REQUESTED"
  <2>1. PICK row : row = CancelledRow(job[j])
    OBVIOUS
  <2>2. /\ row \in JobRow /\ SameOrigin(job[j], row) /\ row.status = "FAILED"
        /\ row.generated = job[j].generated /\ row.control = "CANCELLED"
    BY <1>1, <2>1, RowFields, RowOrigin, RowRegeneration
  <2>3. job' = [job EXCEPT ![j] = row]
    BY <1>5, <2>1 DEF CancelQueued, Reconcile, ReconciledRow
  <2> QED
    BY <1>2, <2>2, <2>3, OneRowAlone
<1>6. CASE \/ DispatchFails(j)
           \/ Reconcile(j) /\ job[j].control # "CANCEL_REQUESTED"
  <2>1. PICK row : row = FailedRow(job[j], "TRANSIENT")
    OBVIOUS
  <2>2. /\ row \in JobRow /\ SameOrigin(job[j], row) /\ row.status = "FAILED"
        /\ row.generated = job[j].generated /\ row.control = job[j].control
    BY <1>1, <1>3, <2>1, RowFields, RowOrigin, RowRegeneration
  <2>3. job' = [job EXCEPT ![j] = row]
    BY <1>6, <2>1 DEF DispatchFails, Reconcile, ReconciledRow
  <2>4. ASSUME Regeneration(j), row.control = "ACTIVE"
        PROVE  Repeatable(j)
    <3>1. CASE Reconcile(j)
      BY <2>2, <2>4, <3>1 DEF Repeatable, Reconcile
    <3>2. CASE DispatchFails(j)
      <4>1. job[j].source # NoJob
        BY <1>1, <3>2 DEF DispatchFails, RowRegenerates
      <4>2. job[j].source \in Jobs /\ j < next
        BY <1>1, <3>2, <4>1, JobNumbers
           DEF DispatchFails, JobRow, IInv, TypeOK, TableInv, RowInOrder, UnusedRow
      <4>3. job[j].source < j
        BY <4>2 DEF IInv, TableInv, RowInOrder
      <4>4. job[j].source # j
        BY <4>2, <4>3, JobNumbers
      <4>5. job[job[j].source].logical = job[j].logical
        BY <1>1, <2>4, <4>1 DEF RowRegenerates, Regeneration
      <4> QED
        BY <4>2, <4>4, <4>5 DEF Repeatable, Repeated
    <3> QED
      BY <1>6, <3>1, <3>2
  <2> QED
    BY <1>2, <2>2, <2>3, <2>4, OneRowAlone
<1> QED
  BY <1>4, <1>5, <1>6

-----------------------------------------------------------------------------
\* The insertion of a row: a new logical action, or one that is repeated, in
\* which case it has spent its regeneration.
LEMMA InsertionRegenerates ==
    ASSUME IInv, RegenerationInv, NEW row, Insertion(row), UNCHANGED version,
           ~row.generated, row.failure = "NONE",
           row.status = "QUEUED" => row.source # NoJob,
           row.source # NoJob /\ row.logical # NoJob =>
               /\ row.logical = job[row.source].logical
               /\ row.action = job[row.source].action
               /\ row.question = job[row.source].question
               /\ row.base = job[row.source].base
               /\ job[row.source].failure = "TRANSIENT",
           row.status = "RUNNING" => \E g \in Handlers : handler'[g].job = next,
           \A g \in Handlers :
               \/ handler'[g] = handler[g]
               \/ JobOf(g) = NoJob /\ HandlerRegenerates(handler[g])'
    PROVE  RegenerationInv'
<1> DEFINE s == row.source
           Old == Jobs \ {next}
<1>1. /\ next \in Jobs /\ job'[next] = row
      /\ \A k \in Old : job'[k] = job[k]
      /\ job[next] = UnusedRow
      /\ \A k \in Jobs : job[k].source # next /\ job[k].logical # next
      /\ s # next
  BY InsertedRow DEF IInv
<1>2. /\ row.status \in {"RUNNING", "QUEUED"}
      /\ row.source = NoJob => row.logical = next
      /\ row.source # NoJob => s \in Old /\ Settled(s)
      /\ row.logical \in {job[s].logical, NoJob, next}
  BY <1>1, JobNumbers DEF Insertion
<1>3. /\ \A q \in Questions : RegenerationsOf(q)' = RegenerationsOf(q)
      /\ RegenerationsBounded'
  <2>1. ~UnusedRow.generated
    BY DEF UnusedRow
  <2>2. row.generated = UnusedRow.generated
    BY <2>1 DEF UnusedRow, Insertion, JobRow
  <2>3. \A k \in Jobs : job'[k].generated = job[k].generated
    BY <1>1, <2>2
  <2>4. \A k \in Jobs : job[k].generated => SameLine(k)
    BY <1>1, <2>1 DEF SameLine
  <2> QED
    BY <2>3, <2>4, RegenerationsSame
<1>4. ASSUME NEW k \in Old
      PROVE  /\ Regeneration(k)' <=> Regeneration(k)
             /\ Generated(k)' <=> Generated(k)
             /\ Spent(k)' <=> Spent(k)
  <2>1. job'[k] = job[k] /\ job[k].question \in Questions
    BY <1>1 DEF IInv, TypeOK, JobRow
  <2> QED
    BY <1>3, <2>1 DEF Regeneration, Generated, Spent
<1>5. ASSUME NEW k \in Old, job[k].logical = row.logical, row.logical # NoJob
      PROVE  /\ s \in Old /\ job[s].logical = job[k].logical /\ Settled(s)
             /\ job[k].action = row.action
             /\ job[k].question = row.question
             /\ job[k].base = row.base
             /\ Regeneration(k) => Spent(k)
  <2>1. row.source # NoJob
    BY <1>1, <1>2, <1>5
  <2>2. s \in Old /\ job[s].logical = job[k].logical /\ Settled(s)
    BY <1>2, <1>5, <2>1
  <2>3. /\ job[k].action = job[s].action /\ job[k].question = job[s].question
        /\ job[k].base = job[s].base
    BY <1>5, <2>2 DEF RegenerationInv, SameDescriptor
  <2>4. Regeneration(k) => Spent(s)
    <3>1. RowRegenerates(s) /\ job[s].failure = "TRANSIENT"
      BY <1>5, <2>1, <2>2 DEF RegenerationInv
    <3> QED
      BY <1>5, <2>2, <2>3, <3>1
         DEF RowRegenerates, Repeatable, Settled, Regeneration
  <2>5. Spent(s) => Spent(k)
    BY <2>2, <2>3 DEF Spent, Generated
  <2> QED
    BY <1>5, <2>1, <2>2, <2>3, <2>4, <2>5
<1>6. ASSUME NEW k \in Old, Repeated(k)', job[k].logical # NoJob
      PROVE  Repeated(k) \/ (job[k].logical = row.logical /\ row.logical # NoJob)
  BY <1>1, <1>6 DEF Repeated
<1>7. SameDescriptor'
  <2> SUFFICES ASSUME NEW j \in Jobs, NEW k \in Jobs,
                      job'[j].logical = job'[k].logical, job'[j].logical # NoJob
               PROVE  /\ job'[j].action = job'[k].action
                      /\ job'[j].question = job'[k].question
                      /\ job'[j].base = job'[k].base
    BY DEF SameDescriptor
  <2>1. CASE j \in Old /\ k \in Old
    BY <1>1, <2>1 DEF RegenerationInv, SameDescriptor
  <2>2. CASE j \in Old /\ k = next
    BY <1>1, <1>5, <2>2
  <2>3. CASE j = next /\ k \in Old
    BY <1>1, <1>5, <2>3
  <2> QED
    BY <2>1, <2>2, <2>3
<1>8. ASSUME NEW k \in Old PROVE RowRegenerates(k)'
  <2>1. RowRegenerates(k) /\ job'[k] = job[k] /\ k # NoJob
    BY <1>1, JobNumbers DEF RegenerationInv
  <2>2. Orphan(k)' => Orphan(k)
    BY <2>1 DEF Orphan, JobOf
  <2>3. Regeneration(k) /\ Repeatable(k)' => Spent(k)
    <3> SUFFICES ASSUME Regeneration(k), Repeatable(k)' PROVE Spent(k)
      OBVIOUS
    <3>1. CASE Repeated(k)'
      <4>1. job[k].logical # NoJob
        BY DEF Regeneration
      <4>2. Repeated(k) => Spent(k)
        BY <2>1 DEF RowRegenerates, Repeatable
      <4> QED
        BY <1>5, <1>6, <3>1, <4>1, <4>2
    <3>2. CASE ~Repeated(k)'
      <4>1. Repeatable(k)
        BY <2>1, <2>2, <3>2 DEF Repeatable
      <4> QED
        BY <2>1, <4>1 DEF RowRegenerates
    <3> QED
      BY <3>1, <3>2
  <2>4. job[k].source # NoJob => job'[job[k].source] = job[job[k].source]
    BY <1>1 DEF IInv, TypeOK, JobRow
  <2> QED
    BY <1>4, <2>1, <2>3, <2>4 DEF RowRegenerates
<1>9. ASSUME NEW n \in Jobs, n = next PROVE RowRegenerates(n)'
  <2>1. job'[n] = row
    BY <1>1, <1>9
  <2>2. ~Orphan(n)'
    BY <1>2, <1>9, <2>1 DEF Orphan, JobOf
  <2>3. ASSUME Regeneration(n)', Repeatable(n)'
        PROVE  Spent(n)'
    <3>1. PICK k \in Old : job[k].logical = row.logical
      BY <1>1, <1>2, <1>9, <2>1, <2>2, <2>3 DEF Repeatable, Repeated
    <3>2. row.logical # NoJob /\ row.action = "REGENERATE"
      BY <2>1, <2>3 DEF Regeneration
    <3>3. /\ job[k].action = row.action /\ job[k].question = row.question
          /\ job[k].base = row.base
          /\ Regeneration(k) => Spent(k)
      BY <1>5, <3>1, <3>2
    <3>4. Regeneration(k)
      BY <3>1, <3>2, <3>3 DEF Regeneration
    <3>5. job'[k] = job[k] /\ Spent(k)'
      BY <1>1, <1>4, <3>3, <3>4
    <3>6. /\ job'[k].logical = job'[n].logical
          /\ job'[k].question = job'[n].question
          /\ job'[k].base = job'[n].base
      BY <2>1, <3>1, <3>3, <3>5
    <3> QED
      BY <3>5, <3>6 DEF Spent, Generated
  <2>4. row.source # NoJob /\ row.logical # NoJob =>
           job'[row.source].logical = row.logical
    BY <1>1, <1>2
  <2> QED
    BY <2>1, <2>3, <2>4 DEF RowRegenerates
<1>10. ASSUME NEW g \in Handlers, handler'[g] = handler[g]
       PROVE  HandlerRegenerates(handler[g])'
  <2>1. /\ HandlerRegenerates(handler[g]) /\ handler[g] \in Handler
        /\ HandlerOK(handler[g])
    BY HandlerKnown
  <2>2. ASSUME handler[g].job # NoJob
        PROVE  /\ handler[g].job \in Old
               /\ job'[handler[g].job] = job[handler[g].job]
    <3>1. handler[g].job < next /\ handler[g].job \in Jobs
      BY <2>1, <2>2 DEF HandlerOK, JobOK, Handler
    <3> QED
      BY <1>1, <3>1, JobNumbers
  <2>3. ASSUME handler[g].step \in {"prepare", "limit"}, handler[g].job # NoJob,
               Regeneration(handler[g].job), Repeated(handler[g].job)'
        PROVE  Generated(handler[g].job)
    <3>1. PICK k : k = handler[g].job
      OBVIOUS
    <3>2. Repeated(k) => Generated(k)
      BY <2>1, <2>3, <3>1 DEF HandlerRegenerates
    <3>3. k \in Old /\ Repeated(k)' /\ job[k].logical # NoJob
      BY <1>10, <2>2, <2>3, <3>1 DEF Regeneration
    <3>4. ASSUME job[k].logical = row.logical, row.logical # NoJob
          PROVE  Repeated(k)
      <4>1. s \in Old /\ job[s].logical = job[k].logical /\ Settled(s)
        BY <1>5, <3>3, <3>4
      <4>2. job[k].status = "RUNNING"
        BY <2>1, <2>3, <3>1 DEF HandlerOK, JobOK
      <4>3. s # k
        BY <4>1, <4>2 DEF Settled
      <4> QED
        BY <4>1, <4>3 DEF Repeated
    <3> QED
      BY <1>6, <3>1, <3>2, <3>3, <3>4
  <2>4. handler[g].step = "source" => handler[g].job # NoJob
    BY <2>1 DEF HandlerOK, JobOK, HasJob
  <2>5. ASSUME handler[g].job # NoJob
        PROVE  /\ Regeneration(handler[g].job)' => Regeneration(handler[g].job)
               /\ Generated(handler[g].job) => Generated(handler[g].job)'
    <3>1. PICK k : k = handler[g].job
      OBVIOUS
    <3>2. /\ Regeneration(k)' => Regeneration(k)
          /\ Generated(k) => Generated(k)'
      BY <1>4, <2>2, <2>5, <3>1
    <3>3. k = handler'[g].job
      BY <1>10, <3>1
    <3> QED
      BY <3>1, <3>2, <3>3
  <2> QED
    BY <1>10, <2>1, <2>2, <2>3, <2>4, <2>5 DEF HandlerRegenerates
<1> QED
  BY <1>1, <1>3, <1>7, <1>8, <1>9, <1>10 DEF RegenerationInv

LEMMA ContinuationRegenerates ==
    ASSUME IInv, RegenerationInv, NEW j \in Jobs, Retry(j) \/ Resume(j)
    PROVE  RegenerationInv'
<1>1. PICK l \in {job[j].logical, NoJob} :
          /\ Continue(j, l)
          /\ l # NoJob => job[j].failure = "TRANSIENT" /\ l = job[j].logical
  BY DEF Retry, Resume
<1>2. /\ job[j] \in JobRow /\ j \in Nat /\ next \in Nat
      /\ next \in Jobs /\ Settled(j) /\ ~Continued(j)
      /\ l \in Jobs \cup {NoJob}
  BY <1>1, JobNumbers DEF IInv, TypeOK, Continue, Settled, JobRow
<1>3. j < next /\ job[j].action \in ProviderActions
  BY <1>2 DEF IInv, TableInv, RowInOrder, UnusedRow, Settled
<1>4. PICK row : row = [ status |-> "QUEUED", control |-> "ACTIVE",
                         failure |-> "NONE", attempt |-> job[j].attempt,
                         source |-> j, logical |-> l,
                         action |-> job[j].action,
                         question |-> job[j].question,
                         base |-> job[j].base, generated |-> FALSE ]
  OBVIOUS
<1>5. row \in JobRow
  BY <1>2, <1>4 DEF JobRow
<1>6. /\ row.status = "QUEUED" /\ row.action = job[j].action
      /\ row.source = j /\ row.logical = l /\ row.failure = "NONE"
      /\ row.question = job[j].question /\ row.base = job[j].base
      /\ ~row.generated
  BY <1>4
<1>7. Insertion(row)
  BY <1>1, <1>2, <1>3, <1>4, <1>5, <1>6 DEF Insertion, Continue
<1>8. UNCHANGED version /\ UNCHANGED handler
  BY <1>1 DEF Continue, assessmentVars
<1>9. row.source # NoJob
  BY <1>6, JobNumbers
<1> QED
  BY <1>1, <1>6, <1>7, <1>8, <1>9, InsertionRegenerates

LEMMA PreparationRegenerates ==
    ASSUME IInv, RegenerationInv, NEW h \in Handlers, PrepareJob(h)
    PROVE  RegenerationInv'
<1>1. PICK n : n = next
  OBVIOUS
<1>2. /\ handler[h] \in Handler /\ HandlerOK(handler[h])
      /\ JobOf(h) = handler[h].job /\ JobOf(h) = NoJob
      /\ handler[h].step = "prepare" /\ n \in Jobs
  BY <1>1, HandlerHas DEF PrepareJob, At
<1>3. handler[h].action \in ProviderActions
  BY <1>2 DEF HandlerOK, ActionOK
<1>4. PICK row : row = [ status |-> "RUNNING", control |-> "ACTIVE",
                         failure |-> "NONE", attempt |-> 1,
                         source |-> NoJob, logical |-> n,
                         action |-> handler[h].action,
                         question |-> handler[h].question,
                         base |-> handler[h].base, generated |-> FALSE ]
  OBVIOUS
<1>5. row \in JobRow
  BY <1>2, <1>3, <1>4, ReviewConstants DEF JobRow, Handler
<1>6. /\ row.status = "RUNNING" /\ row.action = handler[h].action
      /\ row.source = NoJob /\ row.logical = n /\ row.failure = "NONE"
      /\ ~row.generated
  BY <1>4
<1>7. Insertion(row)
  BY <1>1, <1>2, <1>3, <1>4, <1>5, <1>6 DEF Insertion, PrepareJob
<1>8. UNCHANGED version
  BY DEF PrepareJob, assessmentVars
<1>9. PICK e : e = Prepared(handler[h], n)
  OBVIOUS
<1>10. /\ SameReading(handler[h], e) /\ e.job = n
       /\ e.step = AfterPrepare(handler[h].action)
  <2>1. e.step = AfterPrepare(handler[h].action)
    BY <1>2, <1>9 DEF Prepared, Handler
  <2> QED
    BY <1>2, <1>9, <2>1, PreparedFields
<1>11. \A g \in Handlers : handler'[g] = IF g = h THEN e ELSE handler[g]
  BY <1>1, <1>9 DEF PrepareJob, IInv, TypeOK
<1>12. /\ e.step = "limit" => e.action = "REGENERATE"
       /\ e.action = "REGENERATE" => e.step = "limit"
       /\ e.step \in {"limit", "provider"}
  BY <1>10 DEF AfterPrepare, SameReading
<1>13. ~Repeated(n)'
  BY <1>1, <1>6, <1>7, InsertedRow DEF Repeated, IInv
<1>14. HandlerRegenerates(handler[h])'
  BY <1>10, <1>11, <1>12, <1>13 DEF HandlerRegenerates
<1> QED
  BY <1>1, <1>2, <1>6, <1>7, <1>8, <1>10, <1>11, <1>14, InsertionRegenerates

\* What other jobs have been prepared for is a finite set of actions.
LEMMA AttemptedFinite ==
    ASSUME TypeOK, NEW q, NEW j
    PROVE  /\ IsFiniteSet(Attempted(q, j))
           /\ Cardinality(Attempted(q, j)) \in Nat
<1>1. IsFiniteSet(Jobs)
  BY FS_Interval, ReviewConstants DEF Jobs
<1>2. Attempted(q, j) \subseteq Jobs
  BY DEF Attempted, TypeOK, JobRow
<1> QED
  BY <1>1, <1>2, FS_Subset, FS_CardinalityType

\* The provider is asked for a regeneration: one more of the question, or one
\* that is counted already.
LEMMA StartRegenerates ==
    ASSUME IInv, RegenerationInv, NEW h \in Handlers, RegenerationStarts(h)
    PROVE  RegenerationInv'
<1>1. PICK j : j = JobOf(h)
  OBVIOUS
<1>2. /\ handler[h] \in Handler /\ HandlerOK(handler[h])
      /\ HandlerRegenerates(handler[h]) /\ handler[h].step = "limit"
      /\ j = handler[h].job /\ j \in Jobs /\ j # NoJob
      /\ job[j] \in JobRow /\ version \in Nat
  BY <1>1, HandlerKnown DEF RegenerationStarts, At, HasJob
<1>3. PICK q \in Questions : q = job[j].question
  BY <1>2 DEF JobRow
<1>4. PICK l \in Jobs : l = job[j].logical
  BY <1>2 DEF HandlerOK, JobOK, Reviewing, JobRow
<1>5. Regeneration(j) /\ job[j].status = "RUNNING"
  BY <1>2, <1>4, JobNumbers
     DEF HandlerRegenerates, HandlerOK, JobOK, Regeneration
<1>6. PICK o \in Unused(h) : handler' = [handler EXCEPT ![h] = Regenerating(@, o)]
  BY DEF RegenerationStarts
<1>7. PICK e : e = Regenerating(handler[h], o)
  OBVIOUS
<1>8. /\ e.step = "provider" /\ e.job = j
      /\ \A g \in Handlers : handler'[g] = IF g = h THEN e ELSE handler[g]
  <2>1. o \in Opportunities
    BY DEF Unused, Opportunities
  <2>2. e.step = "provider" /\ e.job = j
    BY <1>2, <1>7, <2>1, RegeneratingFields
  <2> QED
    BY <1>6, <1>7, <2>2 DEF IInv, TypeOK
<1>9. PICK row : row = GeneratedRow(job[j])
  OBVIOUS
<1>10. /\ \A i \in Jobs : job'[i] = IF i = j THEN row ELSE job[i]
       /\ SameOrigin(job[j], row) /\ row.status = job[j].status
       /\ row.failure = job[j].failure /\ row.control = job[j].control
       /\ row.generated
       /\ version' = version
  <2>1. /\ job' = [job EXCEPT ![j] = row] /\ version' = version
    BY <1>1, <1>9 DEF RegenerationStarts, assessmentVars
  <2>2. /\ row.failure = job[j].failure /\ row.control = job[j].control
        /\ row.generated
    BY <1>2, <1>9 DEF GeneratedRow, JobRow
  <2>3. SameOrigin(job[j], row) /\ row.status = job[j].status
    BY <1>2, <1>9, RowFields, RowOrigin
  <2>4. \A i \in Jobs : job'[i] = IF i = j THEN row ELSE job[i]
    BY <2>1 DEF IInv, TypeOK
  <2> QED
    BY <2>1, <2>2, <2>3, <2>4
<1>11. \A i \in Jobs : /\ SameLine(i)
                       /\ job[i].generated => job'[i].generated
                       /\ i # j => job'[i] = job[i]
                       /\ job'[i].status = job[i].status
                       /\ job'[i].control = job[i].control
                       /\ job'[i].failure = job[i].failure
  BY <1>10 DEF SameLine, SameOrigin
<1>12. \A p \in Questions : RegenerationsOf(p) \subseteq RegenerationsOf(p)'
  BY <1>11 DEF RegenerationsOf, SameLine
<1>13. ASSUME NEW i \in Jobs
       PROVE  /\ Regeneration(i)' <=> Regeneration(i)
              /\ Repeated(i)' <=> Repeated(i)
              /\ Generated(i) => Generated(i)'
              /\ Spent(i) => Spent(i)'
  <2>1. Regeneration(i)' <=> Regeneration(i)
    BY <1>11 DEF Regeneration, SameLine
  <2>2. Repeated(i)' <=> Repeated(i)
    BY <1>11 DEF Repeated, SameLine
  <2>3. job[i].question \in Questions
    BY DEF IInv, TypeOK, JobRow
  <2>4. Generated(i) => Generated(i)'
    BY <1>11, <1>12, <2>3 DEF Generated, SameLine
  <2>5. job'[i].base = job[i].base
    BY <1>11 DEF SameLine
  <2> QED
    BY <1>10, <2>1, <2>2, <2>4, <2>5 DEF Spent
<1>14. SameDescriptor'
  BY <1>11 DEF RegenerationInv, SameDescriptor, SameLine
<1>15. ASSUME NEW i \in Jobs PROVE RowRegenerates(i)'
  <2>1. RowRegenerates(i) /\ SameLine(i) /\ i # NoJob
    BY <1>11, JobNumbers DEF RegenerationInv
  <2>2. job'[i].generated => Regeneration(i)
    BY <1>5, <1>11, <2>1 DEF RowRegenerates
  <2>3. Repeatable(i)' => Repeatable(i)
    <3>1. Orphan(i)' => Orphan(i)
      BY <1>2, <1>8, <1>11 DEF Orphan, JobOf
    <3> QED
      BY <1>11, <1>13, <3>1 DEF Repeatable
  <2>4. job'[i].source # NoJob /\ job'[i].logical # NoJob =>
          job'[job'[i].source].logical = job'[i].logical
    <3>1. job[i].source # NoJob => SameLine(job[i].source)
      BY <1>11 DEF IInv, TypeOK, JobRow
    <3> QED
      BY <2>1, <3>1 DEF RowRegenerates, SameLine
  <2>5. Regeneration(i) /\ Repeatable(i) => Spent(i)
    BY <2>1 DEF RowRegenerates
  <2>6. /\ job'[i].status = job[i].status /\ job'[i].failure = job[i].failure
        /\ job'[i].source = job[i].source
    BY <1>11, <2>1 DEF SameLine
  <2>7. /\ job[i].status \in {"QUEUED", "RUNNING"} => job[i].failure = "NONE"
        /\ job[i].status = "QUEUED" => job[i].source # NoJob
    BY <2>1 DEF RowRegenerates
  <2>8. Regeneration(i)' /\ Repeatable(i)' => Spent(i)'
    BY <1>13, <2>3, <2>5
  <2>9. job'[i].generated => Regeneration(i)'
    BY <1>13, <2>2
  <2> QED
    BY <2>4, <2>6, <2>7, <2>8, <2>9 DEF RowRegenerates
<1>16. ASSUME NEW g \in Handlers PROVE HandlerRegenerates(handler[g])'
  <2>1. CASE g = h
    <3>1. handler'[g] = e /\ job'[j].generated
      BY <1>2, <1>8, <1>10, <2>1
    <3> QED
      BY <1>8, <3>1 DEF HandlerRegenerates
  <2>2. CASE g # h
    <3>1. handler'[g] = handler[g]
      BY <1>8, <2>2
    <3>2. /\ HandlerRegenerates(handler[g]) /\ handler[g] \in Handler
          /\ HandlerOK(handler[g])
      BY HandlerKnown
    <3>3. handler[g].job # NoJob => handler[g].job \in Jobs
      BY <3>2 DEF Handler
    <3>4. handler[g].step = "source" => handler[g].job # NoJob
      BY <3>2 DEF HandlerOK, JobOK, HasJob
    <3>5. handler[g].job # NoJob =>
            /\ job'[handler[g].job].source = job[handler[g].job].source
            /\ job[handler[g].job].generated => job'[handler[g].job].generated
      BY <1>11, <3>3 DEF SameLine
    <3> QED
      BY <1>10, <1>13, <3>1, <3>2, <3>3, <3>4, <3>5 DEF HandlerRegenerates
  <2> QED
    BY <2>1, <2>2
<1>17. ASSUME NEW p \in Questions, p # q
       PROVE  RegenerationsOf(p)' = RegenerationsOf(p)
  <2>1. \A i \in Jobs : /\ job'[i].generated /\ job'[i].question = p
                           <=> job[i].generated /\ job[i].question = p
                        /\ job'[i].logical = job[i].logical
    BY <1>3, <1>10, <1>11, <1>17 DEF SameLine
  <2>2. ASSUME NEW a PROVE a \in RegenerationsOf(p)' <=> a \in RegenerationsOf(p)
    BY <2>1 DEF RegenerationsOf
  <2> QED
    BY <2>2
<1>18. RegenerationsOf(q)' \subseteq RegenerationsOf(q) \cup {l}
  <2>1. ASSUME NEW a, a \in RegenerationsOf(q)', a # l
        PROVE  a \in RegenerationsOf(q)
    <3>1. PICK i \in Jobs : job'[i].generated /\ job'[i].question = q /\ a = job'[i].logical
      BY <2>1 DEF RegenerationsOf
    <3>2. i # j /\ job'[i] = job[i]
      BY <1>4, <1>11, <2>1, <3>1 DEF SameLine
    <3> QED
      BY <3>1, <3>2 DEF RegenerationsOf
  <2> QED
    BY <2>1
<1>19. RegenerationsBounded'
  <2>1. \A p \in Questions : Cardinality(RegenerationsOf(p)) <= MaxRegenerations
    BY DEF RegenerationInv, RegenerationsBounded
  <2>2. Cardinality(RegenerationsOf(q)') <= MaxRegenerations
    <3> DEFINE attempted == Attempted(q, j)
    <3>1. l \in attempted \/ Cardinality(attempted) < MaxRegenerations
      <4>1. IsFiniteSet(attempted) /\ Cardinality(attempted) \in Nat
        BY AttemptedFinite DEF IInv
      <4>2. ~LimitReached(j)
        BY <1>1 DEF RegenerationStarts
      <4> QED
        BY <1>3, <1>4, <4>1, <4>2, ReviewConstants DEF LimitReached
    <3>2. CASE l \in attempted
      <4>1. Repeated(j)
        BY <1>4, <3>2 DEF Attempted, Repeated
      <4>2. l \in RegenerationsOf(q)
        BY <1>2, <1>3, <1>4, <1>5, <4>1 DEF HandlerRegenerates, Generated
      <4>3. RegenerationsOf(q)' = RegenerationsOf(q)
        BY <1>12, <1>18, <4>2
      <4> QED
        BY <2>1, <4>3
    <3>3. CASE l \notin attempted /\ Cardinality(attempted) < MaxRegenerations
      <4>1. RegenerationsOf(q)' \subseteq attempted \cup {l}
        <5>1. ASSUME NEW a, a \in RegenerationsOf(q), a # l
              PROVE  a \in attempted
          <6>1. PICK i \in Jobs : job[i].generated /\ job[i].question = q /\ a = job[i].logical
            BY <5>1 DEF RegenerationsOf
          <6>2. Regeneration(i) /\ i # j
            BY <1>4, <5>1, <6>1 DEF RegenerationInv, RowRegenerates
          <6> QED
            BY <6>1, <6>2 DEF Attempted, Regeneration
        <5> QED
          BY <1>18, <5>1
      <4>2. IsFiniteSet(attempted) /\ Cardinality(attempted) \in Nat
        BY AttemptedFinite DEF IInv
      <4> HIDE DEF attempted
      <4>3. /\ IsFiniteSet(attempted \cup {l})
            /\ Cardinality(attempted \cup {l}) = Cardinality(attempted) + 1
        BY <3>3, <4>2, FS_AddElement
      <4>4. /\ Cardinality(RegenerationsOf(q)') <= Cardinality(attempted \cup {l})
            /\ Cardinality(RegenerationsOf(q)') \in Nat
        BY <4>1, <4>3, FS_Subset, FS_CardinalityType
      <4> QED
        BY <3>3, <4>2, <4>3, <4>4, ReviewConstants
    <3> QED
      BY <3>1, <3>2, <3>3
  <2> QED
    BY <1>17, <2>1, <2>2 DEF RegenerationsBounded
<1> QED
  BY <1>14, <1>15, <1>16, <1>19 DEF RegenerationInv

LEMMA NextRegenerates ==
    ASSUME IInv, RegenerationInv, Next, ~CrashesPossible
    PROVE  RegenerationInv'
<1>1. ASSUME NEW h \in Handlers,
             \/ \E action \in Reviews, q \in Questions : BeginReview(h, action, q)
             \/ BeginApproval(h)
             \/ \E j \in Jobs : Claim(h, j)
      PROVE  RegenerationInv'
  BY <1>1, BeginningsRegenerate, ClaimRegenerates
<1>2. ASSUME NEW h \in Handlers, Review(h)
      PROVE  RegenerationInv'
  BY <1>2, PreparationRegenerates, RetryRegenerates, StartRegenerates,
     ConclusionsRegenerate, LockRegenerates, RevisionRegenerates,
     ApprovalRegenerates, FailuresRegenerate, RefusalsRegenerate DEF Review
<1>3. ASSUME NEW h \in Handlers, Approval(h) \/ Work(h) \/ StopsCancelled(h)
      PROVE  RegenerationInv'
  BY <1>3, ApprovalRegenerates, RetryRegenerates, RefusalsRegenerate,
     SaveFailedRegenerates, FailuresRegenerate, StopsRegenerate DEF Work
<1>4. ASSUME NEW j \in Jobs, Control(j) \/ Reconcile(j)
      PROVE  RegenerationInv'
  BY <1>4, ContinuationRegenerates, ControlRegenerates DEF Control
<1>5. ~\E h \in Handlers : Dies(h)
  BY DEF Dies
<1> QED
  BY <1>1, <1>2, <1>3, <1>4, <1>5 DEF Next, Handle

LEMMA StartingRegenerates ==
    ASSUME Init
    PROVE  RegenerationInv
<1>1. /\ UnusedRow.status = "UNUSED" /\ UnusedRow.source = NoJob
      /\ UnusedRow.logical = NoJob /\ ~UnusedRow.generated
  BY DEF UnusedRow
<1>2. \A j \in Jobs : job[j] = UnusedRow
  BY DEF Init
<1>3. SameDescriptor /\ \A j \in Jobs : RowRegenerates(j)
  BY <1>1, <1>2 DEF SameDescriptor, RowRegenerates, Regeneration
<1>4. IdleHandler.step = "idle" /\ IdleHandler.job = NoJob
  BY DEF IdleHandler
<1>5. \A h \in Handlers : HandlerRegenerates(handler[h])
  BY <1>4 DEF Init, HandlerRegenerates
<1>6. RegenerationsBounded
  <2>1. ASSUME NEW q \in Questions PROVE RegenerationsOf(q) = {}
    BY <1>1, <1>2 DEF RegenerationsOf
  <2> QED
    BY <2>1, FS_EmptySet, ReviewConstants DEF RegenerationsBounded
<1> QED
  BY <1>3, <1>5, <1>6 DEF RegenerationInv

LEMMA StutterRegenerates ==
    ASSUME RegenerationInv, UNCHANGED vars
    PROVE  RegenerationInv'
<1>1. UNCHANGED <<version, job, handler>>
  BY DEF vars, assessmentVars, jobVars
<1>2. SameDescriptor' /\ RegenerationsBounded'
  BY <1>1 DEF RegenerationInv, SameDescriptor, RegenerationsBounded, RegenerationsOf
<1>3. ASSUME NEW j \in Jobs PROVE RowRegenerates(j)'
  <2>1. RowRegenerates(j)
    BY DEF RegenerationInv
  <2> QED
    BY <1>1, <2>1 DEF RowRegenerates, Regeneration, Repeatable, Repeated, Orphan,
                      JobOf, Spent, Generated, RegenerationsOf
<1>4. ASSUME NEW h \in Handlers PROVE HandlerRegenerates(handler[h])'
  <2>1. HandlerRegenerates(handler[h])
    BY DEF RegenerationInv
  <2> QED
    BY <1>1, <2>1 DEF HandlerRegenerates, Regeneration, Repeated, Generated,
                      RegenerationsOf
<1> QED
  BY <1>2, <1>3, <1>4 DEF RegenerationInv

\* As long as no handler dies, no more regenerations of a question reach the
\* provider than the policy allows, however its actions are retried, denied,
\* cancelled and overtaken: review_question leaves the retries of an action out of
\* the limit, and nothing can be retried that was not counted.
THEOREM RegenerationLimit ==
    ASSUME ~CrashesPossible
    PROVE  Spec => []RegenerationsBounded
<1>1. Init => RegenerationInv
  BY StartingRegenerates
<1>2. IInv /\ RegenerationInv /\ [Next]_vars => RegenerationInv'
  BY NextRegenerates, StutterRegenerates
<1>3. RegenerationInv => RegenerationsBounded
  BY DEF RegenerationInv
<1> QED
  BY <1>1, <1>2, <1>3, InductiveInvariant, PTL DEF Spec
=============================================================================

---------------------- MODULE BlueprintLifecycleProofs -----------------------
(***************************************************************************)
(* The theorems of BlueprintLifecycle, for every number of lines, calls,   *)
(* versions and submissions.                                               *)
(***************************************************************************)
EXTENDS BlueprintLifecycle, TLAPS

\* What every step does to the rows and events that calls rely on.
Grows ==
    /\ \A v \in Versions :
          /\ blueprint[v].status = "READY" => blueprint'[v].status = "READY"
          /\ blueprint[v].status = "APPROVED" => blueprint'[v] = blueprint[v]
    /\ audited \subseteq audited'

\* What a step leaves to the batch: nothing new is chosen or used.
Unnoticed ==
    /\ audited' = audited
    /\ bound' = bound
    /\ \A v \in Versions :
          blueprint[v].status = "APPROVED" => blueprint'[v] = blueprint[v]

RowsOK ==
    /\ blueprint \in [Versions -> BlueprintRow]
    /\ VersionsInOrder
    /\ FirstNotApproved

LinesOK ==
    /\ line \in [Lines -> Line]
    /\ \A p \in Lines : InLine(p, "merge") => line[p].row.status = "READY"

CallsOK ==
    /\ request \in [Requests -> Request]
    /\ \A r \in Requests : CallOK(request[r])

LEMMA VersionNumbers ==
    /\ 1 \in Versions
    /\ \A v \in Versions : v \in Nat /\ v # NoVersion
    /\ Missing \in BlueprintRow
    /\ NoLine \in Line
    /\ Idle \in Request
  BY BlueprintConstants
  DEF Versions, NoVersion, Missing, BlueprintRow, NoLine, Line, NoReport,
      Report, Idle, Request

-----------------------------------------------------------------------------
(***************************************************************************)
(* Calls.                                                                  *)
(***************************************************************************)
\* What a call has checked is still true after any step.
LEMMA CallStaysOK ==
    ASSUME blueprint \in [Versions -> BlueprintRow], Grows,
           NEW call, CallOK(call)
    PROVE  CallOK(call)'
<1> DEFINE v == call.version
<1>1. ASSUME v \in Versions, blueprint[v].status = "APPROVED"
      PROVE  blueprint'[v].status = "APPROVED"
  BY <1>1 DEF Grows
<1>2. ASSUME v + 1 \in Versions, blueprint[v + 1].status = "APPROVED"
      PROVE  blueprint'[v + 1].status = "APPROVED"
  BY <1>2 DEF Grows
<1>3. ASSUME v \in Versions, blueprint[v].status = "READY"
      PROVE  blueprint'[v].status = "READY"
  BY <1>3 DEF Grows
<1>4. audited \subseteq audited'
  BY DEF Grows
<1> QED
  BY <1>1, <1>2, <1>3, <1>4 DEF CallOK

\* A call takes a step, the others do not.
LEMMA CallsStayOK ==
    ASSUME blueprint \in [Versions -> BlueprintRow], Grows, CallsOK,
           NEW r \in Requests, NEW call \in Request, CallOK(call)',
           request' = [request EXCEPT ![r] = call]
    PROVE  CallsOK'
<1>1. request' \in [Requests -> Request]
  BY DEF CallsOK
<1>2. ASSUME NEW q \in Requests PROVE CallOK(request[q])'
  <2>1. CASE q = r
    <3>1. request'[q] = call
      BY <2>1 DEF CallsOK
    <3> QED
      BY <3>1 DEF CallOK
  <2>2. CASE q # r
    <3>1. request'[q] = request[q]
      BY <2>2 DEF CallsOK
    <3>2. PICK e : e = request[q]
      OBVIOUS
    <3>3. CallOK(e)
      BY <3>2 DEF CallsOK
    <3>4. CallOK(e)'
      BY <3>3, CallStaysOK
    <3> QED
      BY <3>1, <3>2, <3>4 DEF CallOK
  <2> QED
    BY <2>1, <2>2
<1> QED
  BY <1>1, <1>2 DEF CallsOK

\* No call takes a step.
LEMMA CallsUnchanged ==
    ASSUME blueprint \in [Versions -> BlueprintRow], Grows, CallsOK,
           request' = request
    PROVE  CallsOK'
<1>1. ASSUME NEW q \in Requests PROVE CallOK(request[q])'
  <2>1. PICK e : e = request[q]
    OBVIOUS
  <2>2. CallOK(e)'
    BY <2>1, CallStaysOK DEF CallsOK
  <2> QED
    BY <2>1, <2>2 DEF CallOK
<1> QED
  BY <1>1 DEF CallsOK

\* An idle call has checked nothing.
LEMMA IdleOK == Idle \in Request /\ CallOK(Idle) /\ CallOK(Idle)'
  BY VersionNumbers DEF CallOK, Idle

-----------------------------------------------------------------------------
(***************************************************************************)
(* Rows and lines.                                                         *)
(***************************************************************************)
\* A version is added after one that is READY.
LEMMA InsertKeepsRows ==
    ASSUME RowsOK, NEW v \in Versions, v + 1 \in Versions,
           blueprint[v].status = "READY",
           NEW row \in BlueprintRow, row.status \in {"READY", "APPROVED"},
           Insert(v + 1, row)
    PROVE  /\ RowsOK'
           /\ \A w \in Versions : Exists(w) => blueprint'[w] = blueprint[w]
<1> USE DEF RowsOK, Insert, Exists
<1>1. v \in Nat /\ v # 0
  BY VersionNumbers DEF NoVersion
<1>2. ASSUME NEW w \in Versions, Exists(w) PROVE blueprint'[w] = blueprint[w]
  BY <1>2
<1>3. ASSUME NEW w \in Versions, NEW x \in Versions, w < x, Exists(x)'
      PROVE  blueprint'[w].status = "READY"
  <2>1. w \in Nat /\ x \in Nat
    BY VersionNumbers
  <2>2. CASE x = v + 1
    <3>1. w = v \/ w < v
      BY <1>1, <2>1, <2>2, <1>3
    <3>2. blueprint[w].status = "READY"
      BY <3>1 DEF VersionsInOrder
    <3> QED
      BY <3>2, <1>2
  <2>3. CASE x # v + 1
    <3>1. blueprint[w].status = "READY"
      BY <2>3, <1>3 DEF VersionsInOrder
    <3> QED
      BY <3>1, <1>2
  <2> QED
    BY <2>2, <2>3
<1>4. v + 1 # 1
  BY <1>1
<1> QED
  BY <1>2, <1>3, <1>4, VersionNumbers DEF VersionsInOrder, FirstNotApproved

\* The pipeline writes over version 1.
LEMMA MergeKeepsRows ==
    ASSUME RowsOK, NEW row \in BlueprintRow, row.status = "READY",
           blueprint' = [blueprint EXCEPT ![1] = row]
    PROVE  RowsOK' /\ \A v \in Versions : v # 1 => blueprint'[v] = blueprint[v]
<1> USE DEF RowsOK, Exists
<1>1. ASSUME NEW w \in Versions, NEW x \in Versions, w < x, Exists(x)'
      PROVE  blueprint'[w].status = "READY"
  <2>1. x # 1
    BY <1>1, VersionNumbers DEF Versions
  <2>2. blueprint[w].status = "READY"
    BY <1>1, <2>1 DEF VersionsInOrder
  <2> QED
    BY <2>2, VersionNumbers
<1> QED
  BY <1>1, VersionNumbers DEF VersionsInOrder, FirstNotApproved

\* A line takes a step.
LEMMA LineStep ==
    ASSUME LinesOK, NEW p \in Lines, NEW work \in Line,
           work.step = "merge" => work.row.status = "READY",
           line' = [line EXCEPT ![p] = work]
    PROVE  LinesOK'
  BY DEF LinesOK, InLine

LEMMA MoveStep ==
    ASSUME LinesOK, NEW p \in Lines,
           NEW step \in {"none", "queued", "triage", "decide", "build", "ready",
                         "complete", "stop", "save_stop", "settled"},
           Move(p, step) \/ Leave(p, step)
    PROVE  LinesOK'
<1>1. Moved(line[p], step) \in Line /\ Moved(line[p], step).step = step
  BY DEF LinesOK, Line, Moved
<1>2. Moved(NoLine, step) \in Line /\ Moved(NoLine, step).step = step
  BY VersionNumbers DEF Line, Moved
<1>3. line[p] \in Line
  BY DEF LinesOK
<1>4. \E work \in Line : work.step = step /\ line' = [line EXCEPT ![p] = work]
  BY <1>1, <1>2 DEF Move, Leave
<1> QED
  BY <1>4, LineStep

-----------------------------------------------------------------------------
(***************************************************************************)
(* Steps of a line.                                                        *)
(***************************************************************************)
\* The invariant, part by part.
RestOK ==
    /\ activity \in {"DRAFT", "QUEUED", "NEEDS_REVIEW", "BLUEPRINT_READY",
                     "BLUEPRINT_APPROVED", "TECHNICAL_FAILURE"}
    /\ report \in Report
    /\ decided \subseteq Issues
    /\ audited \subseteq Versions
    /\ bound \in [Submissions -> Versions \cup {NoVersion}]

Parts == RowsOK /\ LinesOK /\ CallsOK /\ AuditsApproved /\ BoundToUsable /\ RestOK

LEMMA SplitIInv == (IInv <=> Parts) /\ (IInv' <=> Parts')
  BY DEF IInv, TypeOK, Parts, RowsOK, LinesOK, CallsOK, RestOK

\* What is bound stays usable when the batch does not notice a step.
LEMMA UnnoticedKeepsBatch ==
    ASSUME RowsOK, AuditsApproved, BoundToUsable, RestOK, Unnoticed
    PROVE  AuditsApproved' /\ BoundToUsable'
<1>1. ASSUME NEW v \in audited' PROVE blueprint'[v].status = "APPROVED"
  BY <1>1 DEF AuditsApproved, Unnoticed, RestOK
<1>2. ASSUME NEW s \in Submissions, bound'[s] # NoVersion
      PROVE  Usable(bound[s])'
  BY <1>2 DEF BoundToUsable, Usable, Unnoticed, RestOK
<1> QED
  BY <1>1, <1>2 DEF AuditsApproved, BoundToUsable, Usable

LEMMA PipelineStep ==
    ASSUME IInv, NEW p \in Lines, Pipeline(p)
    PROVE  IInv' /\ Unnoticed
<1> USE SplitIInv DEF Parts
<1>1. LinesOK' /\ UNCHANGED request
  <2> USE DEF InLine
  <2>1. CASE Triage(p)
    <3>1. ASSUME NEW new \in Report,
                 line' = [line EXCEPT ![p] = Reported(@, new)]
          PROVE  LinesOK'
      <4>1. Reported(line[p], new) \in Line
            /\ Reported(line[p], new).step = "decide"
        BY DEF LinesOK, Line, Reported
      <4>2. \E work \in Line : /\ work.step # "merge"
                               /\ line' = [line EXCEPT ![p] = work]
        BY <3>1, <4>1
      <4> QED
        BY <4>2, LineStep
    <3> QED
      BY <2>1, <3>1, MoveStep DEF Triage
  <2>2. CASE Build(p)
    <3>1. ASSUME NEW text \in Texts, NEW review \in {"PERMITS", "BLOCKS"},
                 line' = [line EXCEPT ![p] = Built(@, text, review)]
          PROVE  LinesOK'
      <4>1. /\ Built(line[p], text, review) \in Line
            /\ Built(line[p], text, review).row.status = "READY"
        BY DEF LinesOK, Line, Built, Row, BlueprintRow
      <4>2. \E work \in Line : /\ work.row.status = "READY"
                               /\ line' = [line EXCEPT ![p] = work]
        BY <3>1, <4>1
      <4> QED
        BY <4>2, LineStep
    <3> QED
      BY <2>2, <3>1, MoveStep DEF Build
  <2>3. CASE ~Triage(p) /\ ~Build(p)
    BY <2>3, MoveStep
    DEF Pipeline, Claimed, Decide, Merge, ProjectReady, Complete,
        ProjectReview, SaveNeedsReview, LineFails, LineCancelled,
        LineContinues, LineAbandoned
  <2> QED
    BY <2>1, <2>2, <2>3 DEF Pipeline, Triage, Build
<1>2. RowsOK' /\ Unnoticed /\ Grows
  <2>1. CASE Merge(p)
    <3>1. PICK row : row = line[p].row
      OBVIOUS
    <3>2. row \in BlueprintRow /\ row.status = "READY"
      BY <2>1, <3>1 DEF Merge, LinesOK, Line, InLine
    <3>3. blueprint' = [blueprint EXCEPT ![1] = row]
      BY <2>1, <3>1 DEF Merge
    <3>4. RowsOK' /\ \A v \in Versions : v # 1 => blueprint'[v] = blueprint[v]
      BY <3>2, <3>3, MergeKeepsRows
    <3>5. blueprint[1].status # "APPROVED" /\ blueprint'[1].status = "READY"
      BY <3>2, <3>3, VersionNumbers DEF RowsOK, FirstNotApproved
    <3> QED
      BY <2>1, <3>4, <3>5 DEF Merge, Unnoticed, Grows
  <2>2. CASE ~Merge(p)
    <3>1. UNCHANGED <<blueprint, audited, bound>>
      BY <2>2
      DEF Pipeline, tables, Claimed, Triage, Decide, Build, ProjectReady,
          Complete, ProjectReview, SaveNeedsReview, LineFails, LineCancelled,
          LineContinues, LineAbandoned
    <3> QED
      BY <3>1
      DEF RowsOK, VersionsInOrder, FirstNotApproved, Exists, Unnoticed, Grows
  <2> QED
    BY <2>1, <2>2
<1>3. RestOK'
  <2>1. /\ activity' = activity \/ activity' \in {"DRAFT", "NEEDS_REVIEW",
                                      "BLUEPRINT_READY", "TECHNICAL_FAILURE"}
        /\ report' \in Report
        /\ UNCHANGED <<decided, audited, bound>>
    BY DEF Pipeline, tables, Claimed, Triage, Decide, Build, Merge,
           ProjectReady, Complete, ProjectReview, SaveNeedsReview, LineFails,
           LineCancelled, LineContinues, LineAbandoned, RestOK
  <2> QED
    BY <2>1 DEF RestOK
<1>4. CallsOK'
  BY <1>1, <1>2, CallsUnchanged DEF RowsOK
<1>5. AuditsApproved' /\ BoundToUsable'
  BY <1>2, UnnoticedKeepsBatch
<1> QED
  BY <1>1, <1>2, <1>3, <1>4, <1>5 DEF Unnoticed

-----------------------------------------------------------------------------
(***************************************************************************)
(* Steps of a call.                                                        *)
(***************************************************************************)
\* A step that only the call itself and the activity notice.
LEMMA QuietCall ==
    ASSUME Parts, NEW r \in Requests, NEW call \in Request, CallOK(call),
           request' = [request EXCEPT ![r] = call],
           UNCHANGED <<blueprint, audited, bound>>, LinesOK', RestOK'
    PROVE  IInv' /\ Unnoticed
<1>1. Grows /\ Unnoticed /\ RowsOK'
  BY DEF Grows, Unnoticed, Parts, RowsOK, VersionsInOrder, FirstNotApproved,
         Exists
<1>2. CallOK(call)'
  BY <1>1, CallStaysOK DEF Parts, RowsOK
<1>3. CallsOK'
  BY <1>1, <1>2, CallsStayOK DEF Parts, RowsOK
<1>4. AuditsApproved' /\ BoundToUsable'
  BY <1>1, UnnoticedKeepsBatch DEF Parts
<1> QED
  BY <1>1, <1>3, <1>4, SplitIInv DEF Parts

\* The same when nothing but the call changes.
LEMMA OnlyCall ==
    ASSUME Parts, NEW r \in Requests, NEW call \in Request, CallOK(call),
           request' = [request EXCEPT ![r] = call],
           UNCHANGED <<tables, line>>
    PROVE  IInv' /\ Unnoticed
<1>1. LinesOK' /\ RestOK' /\ UNCHANGED <<blueprint, audited, bound>>
  BY DEF tables, Parts, LinesOK, InLine, RestOK
<1> QED
  BY <1>1, QuietCall

LEMMA ExitStep ==
    ASSUME Parts, NEW r \in Requests, Exit(r), UNCHANGED <<tables, line>>
    PROVE  IInv' /\ Unnoticed
  BY OnlyCall, IdleOK DEF Exit

LEMMA GoingOK ==
    ASSUME Parts, NEW r \in Requests,
           NEW step \in {"decide_add", "edit_check", "edit_provider",
                         "approve_add", "approve_project", "approve_audit",
                         "submit_queue"}
    PROVE  Going(request[r], step) \in Request
  BY DEF Parts, CallsOK, Request, Going

LEMMA CheckStep ==
    ASSUME Parts, NEW r \in Requests,
           NEW step \in {"decide_add", "edit_check", "edit_provider",
                         "approve_add", "submit_queue"},
           NEW condition, Check(r, condition, step),
           condition => CallOK(Going(request[r], step)),
           UNCHANGED <<tables, line>>
    PROVE  IInv' /\ Unnoticed
<1>1. CASE Exit(r)
  BY <1>1, ExitStep
<1>2. CASE condition /\ Goto(r, step)
  <2>1. Going(request[r], step) \in Request
    BY <1>2, GoingOK
  <2>2. \E call \in Request : /\ CallOK(call)
                              /\ request' = [request EXCEPT ![r] = call]
    BY <1>2, <2>1 DEF Goto
  <2> QED
    BY <2>2, OnlyCall
<1> QED
  BY <1>1, <1>2 DEF Check

\* A call about a version, at the step it begins with.
LEMMA AboutOK ==
    ASSUME NEW v \in Versions, NEW step,
           step \in {"edit_latest", "submit_audit", "approve_project"}
    PROVE  /\ About(v, step) \in Request
           /\ About(v, step).step = step
           /\ About(v, step).version = v
  BY VersionNumbers DEF About, Request, Idle

LEMMA DecisionStep ==
    ASSUME Parts, NEW r \in Requests,
           \/ \E i \in Issues : BeginDecision(r, i)
           \/ DecisionReport(r) \/ DecisionAdd(r)
    PROVE  IInv' /\ Unnoticed
<1>1. ASSUME NEW i \in Issues, BeginDecision(r, i) PROVE IInv' /\ Unnoticed
  <2> DEFINE call == [Idle EXCEPT !.step = "decide_report", !.issue = {i}]
  <2>1. call \in Request /\ call.step = "decide_report"
    BY VersionNumbers DEF Request, Idle
  <2>2. CallOK(call)
    BY <2>1 DEF CallOK
  <2> HIDE DEF call
  <2>3. request' = [request EXCEPT ![r] = call] /\ UNCHANGED <<tables, line>>
    BY <1>1 DEF BeginDecision, call
  <2> QED
    BY <2>1, <2>2, <2>3, OnlyCall
<1>2. CASE DecisionReport(r)
  <2>1. CallOK(Going(request[r], "decide_add"))
    BY DEF Parts, CallsOK, CallOK, Going, Request
  <2> QED
    BY <1>2, <2>1, CheckStep DEF DecisionReport
<1>3. CASE DecisionAdd(r)
  <2>1. /\ request' = [request EXCEPT ![r] = Idle]
        /\ UNCHANGED <<activity, report, blueprint, audited, bound, line>>
        /\ decided' = decided \cup request[r].issue
    BY <1>3 DEF DecisionAdd, Exit
  <2>2. request[r].issue \subseteq Issues
    BY DEF Parts, CallsOK, Request
  <2>3. LinesOK' /\ RestOK'
    BY <2>1, <2>2 DEF Parts, LinesOK, InLine, RestOK
  <2> QED
    BY <2>1, <2>3, IdleOK, QuietCall
<1> QED
  BY <1>1, <1>2, <1>3

LEMMA EnqueueStep ==
    ASSUME Parts, NEW r \in Requests,
           BeginEnqueue(r) \/ EnqueueReport(r) \/ Enqueue(r)
    PROVE  IInv' /\ Unnoticed
<1>1. CASE BeginEnqueue(r)
  <2>1. PICK call : call = [Idle EXCEPT !.step = IF activity = "DRAFT"
                                                 THEN "enqueue"
                                                 ELSE "enqueue_report"]
    OBVIOUS
  <2>2. call \in Request /\ call.step \in {"enqueue", "enqueue_report"}
    BY <2>1, VersionNumbers DEF Request, Idle
  <2>3. CallOK(call)
    BY <2>2 DEF CallOK
  <2>4. request' = [request EXCEPT ![r] = call] /\ UNCHANGED <<tables, line>>
    BY <1>1, <2>1 DEF BeginEnqueue
  <2> QED
    BY <2>2, <2>3, <2>4, OnlyCall
<1>2. CASE EnqueueReport(r)
  <2>1. PICK call : call = [Idle EXCEPT !.step = "enqueue", !.reviewable = TRUE]
    OBVIOUS
  <2>2. call \in Request /\ call.step = "enqueue"
    BY <2>1, VersionNumbers DEF Request, Idle
  <2>3. CallOK(call)
    BY <2>2 DEF CallOK
  <2>4. /\ Exit(r) \/ request' = [request EXCEPT ![r] = call]
        /\ UNCHANGED <<tables, line>>
    BY <1>2, <2>1 DEF EnqueueReport
  <2> QED
    BY <2>2, <2>3, <2>4, OnlyCall, ExitStep
<1>3. CASE Enqueue(r)
  <2>1. /\ request' = [request EXCEPT ![r] = Idle]
        /\ UNCHANGED <<report, decided, blueprint, audited, bound>>
        /\ \/ UNCHANGED <<activity, line>>
           \/ /\ activity' = "QUEUED"
              /\ \E p \in Lines : Move(p, "queued")
    BY <1>3 DEF Enqueue, Exit
  <2>2. LinesOK'
    <3>1. CASE UNCHANGED line
      BY <3>1 DEF Parts, LinesOK, InLine
    <3> QED
      BY <2>1, <3>1, MoveStep DEF Parts
  <2>3. RestOK'
    BY <2>1 DEF Parts, RestOK
  <2> QED
    BY <2>1, <2>2, <2>3, IdleOK, QuietCall
<1> QED
  BY <1>1, <1>2, <1>3

\* The row that a call adds, and the step that follows.
LEMMA InsertStep ==
    ASSUME Parts, NEW r \in Requests, NEW v \in Versions, v + 1 \in Versions,
           blueprint[v].status = "READY",
           NEW row \in BlueprintRow, row.status \in {"READY", "APPROVED"},
           Insert(v + 1, row),
           NEW call \in Request,
           \/ call = Idle
           \/ call = About(v, "approve_project") /\ row.status = "APPROVED",
           request' = [request EXCEPT ![r] = call],
           UNCHANGED <<activity, report, decided, audited, bound, line>>
    PROVE  IInv' /\ Unnoticed
<1>1. /\ RowsOK'
      /\ \A w \in Versions : Exists(w) => blueprint'[w] = blueprint[w]
  BY InsertKeepsRows DEF Parts
<1>2. Grows /\ Unnoticed
  BY <1>1 DEF Grows, Unnoticed, Exists
<1>3. CallOK(call)'
  <2>1. CASE call = Idle
    BY <2>1, IdleOK DEF CallOK, Idle
  <2>2. CASE call = About(v, "approve_project") /\ row.status = "APPROVED"
    <3>1. blueprint'[v + 1].status = "APPROVED"
      BY <2>2 DEF Insert, Parts, RowsOK
    <3> QED
      BY <2>2, <3>1, AboutOK DEF CallOK
  <2> QED
    BY <2>1, <2>2
<1>4. CallsOK'
  BY <1>2, <1>3, CallsStayOK DEF Parts, RowsOK
<1>5. LinesOK' /\ RestOK'
  BY DEF Parts, LinesOK, InLine, RestOK
<1>6. AuditsApproved' /\ BoundToUsable'
  BY <1>2, UnnoticedKeepsBatch DEF Parts
<1> QED
  BY <1>1, <1>2, <1>4, <1>5, <1>6, SplitIInv DEF Parts

LEMMA EditStep ==
    ASSUME Parts, NEW r \in Requests,
           \/ \E v \in Versions : BeginEdit(r, v)
           \/ EditLatest(r) \/ EditCheck(r) \/ EditProvider(r) \/ EditAdd(r)
    PROVE  IInv' /\ Unnoticed
<1>0. /\ request[r] \in Request
      /\ CallOK(request[r])
  BY DEF Parts, CallsOK
<1>1. ASSUME NEW v \in Versions, BeginEdit(r, v) PROVE IInv' /\ Unnoticed
  <2>1. v + 1 \in Versions
    BY <1>1, BlueprintConstants DEF BeginEdit, Versions
  <2>2. CallOK(About(v, "edit_latest")) /\ About(v, "edit_latest") \in Request
    BY <1>1, <2>1, AboutOK DEF BeginEdit, CallOK
  <2> QED
    BY <1>1, <2>2, OnlyCall DEF BeginEdit
<1>2. CASE EditLatest(r)
  <2>1. CallOK(Going(request[r], "edit_check"))
    BY <1>0, <1>2 DEF EditLatest, At, CallOK, Going, Request
  <2> QED
    BY <1>2, <2>1, CheckStep DEF EditLatest
<1>3. CASE EditCheck(r)
  <2>1. CallOK(Going(request[r], "edit_provider"))
    BY <1>0, <1>3 DEF EditCheck, At, CallOK, Going, Request
  <2> QED
    BY <1>3, <2>1, CheckStep DEF EditCheck
<1>4. CASE EditProvider(r)
  <2>1. ASSUME NEW text \in Texts, NEW review \in {"PERMITS", "BLOCKS"},
               request' = [request EXCEPT ![r] =
                             Holding(@, Row("READY", text, review), "edit_add")]
        PROVE  IInv' /\ Unnoticed
    <3>1. PICK call :
             call = Holding(request[r], Row("READY", text, review), "edit_add")
      OBVIOUS
    <3>2. call \in Request /\ CallOK(call)
      BY <1>0, <1>4, <3>1
      DEF EditProvider, At, CallOK, Holding, Row, Request, BlueprintRow
    <3>3. request' = [request EXCEPT ![r] = call]
      BY <2>1, <3>1
    <3> QED
      BY <1>4, <3>2, <3>3, OnlyCall DEF EditProvider
  <2> QED
    BY <1>4, <2>1, ExitStep DEF EditProvider
<1>5. CASE EditAdd(r)
  <2>1. PICK v, row : v = request[r].version /\ row = request[r].row
    OBVIOUS
  <2>2. /\ v \in Versions /\ v + 1 \in Versions
        /\ blueprint[v].status = "READY"
        /\ row \in BlueprintRow /\ row.status = "READY"
    BY <1>0, <1>5, <2>1 DEF EditAdd, At, CallOK, Request
  <2>3. /\ Insert(v + 1, row)
        /\ request' = [request EXCEPT ![r] = Idle]
        /\ UNCHANGED <<activity, report, decided, audited, bound, line>>
    BY <1>5, <2>1 DEF EditAdd, Exit
  <2> QED
    BY <2>2, <2>3, IdleOK, InsertStep
<1> QED
  BY <1>1, <1>2, <1>3, <1>4, <1>5

LEMMA ApprovalStep ==
    ASSUME Parts, NEW r \in Requests,
           \/ \E v \in Versions : BeginApproval(r, v)
           \/ VersionConflict(r) \/ ApproveRead(r) \/ ApproveCheck(r)
           \/ ApproveAdd(r) \/ ApproveProject(r)
    PROVE  IInv' /\ Unnoticed
<1>0. /\ request[r] \in Request
      /\ CallOK(request[r])
  BY DEF Parts, CallsOK
<1>1. ASSUME NEW v \in Versions, BeginApproval(r, v) PROVE IInv' /\ Unnoticed
  <2>1. v + 1 \in Versions
    BY <1>1, BlueprintConstants DEF BeginApproval, Versions
  <2>2. PICK call :
           call = [About(v, "approve_read") EXCEPT !.seen = blueprint[v].text]
    OBVIOUS
  <2>3. blueprint[v].text \in Texts \cup {NoText}
    BY DEF Parts, RowsOK, BlueprintRow, Missing
  <2>4. call \in Request /\ CallOK(call)
    BY <2>1, <2>2, <2>3, VersionNumbers DEF About, Idle, Request, CallOK
  <2>5. request' = [request EXCEPT ![r] = call] /\ UNCHANGED <<tables, line>>
    BY <1>1, <2>2 DEF BeginApproval
  <2> QED
    BY <2>4, <2>5, OnlyCall
<1>2. CASE VersionConflict(r)
  BY <1>2, ExitStep DEF VersionConflict
<1>3. CASE ApproveRead(r)
  <2>1. CASE Exit(r)
    BY <1>3, <2>1, ExitStep DEF ApproveRead
  <2>2. CASE ~Exit(r)
    <3>1. PICK row : row = blueprint[request[r].version]
      OBVIOUS
    <3>2. Approvable(row, request[r].seen) /\ row \in BlueprintRow
      BY <1>0, <1>3, <2>2, <3>1
      DEF ApproveRead, At, CallOK, Parts, RowsOK
    <3>3. PICK call : call = Holding(request[r], row, "approve_check")
      OBVIOUS
    <3>4. call \in Request /\ CallOK(call)
      BY <1>0, <1>3, <3>1, <3>2, <3>3
      DEF ApproveRead, At, CallOK, Holding, Request, Approvable
    <3>5. request' = [request EXCEPT ![r] = call] /\ UNCHANGED <<tables, line>>
      BY <1>3, <2>2, <3>1, <3>3 DEF ApproveRead
    <3> QED
      BY <3>4, <3>5, OnlyCall
  <2> QED
    BY <2>1, <2>2
<1>4. CASE ApproveCheck(r)
  <2>1. CallOK(Going(request[r], "approve_add"))
    BY <1>0, <1>4 DEF ApproveCheck, At, CallOK, Going, Request
  <2> QED
    BY <1>4, <2>1, CheckStep DEF ApproveCheck
<1>5. CASE ApproveAdd(r)
  <2>1. PICK v, row :
           /\ v = request[r].version
           /\ row = Row("APPROVED", request[r].row.text, request[r].row.review)
    OBVIOUS
  <2>2. /\ v \in Versions /\ v + 1 \in Versions
        /\ blueprint[v].status = "READY"
        /\ row \in BlueprintRow /\ row.status = "APPROVED"
    BY <1>0, <1>5, <2>1
    DEF ApproveAdd, At, CallOK, Request, Row, BlueprintRow, Missing
  <2>3. /\ Insert(v + 1, row)
        /\ request' = [request EXCEPT ![r] = About(v, "approve_project")]
        /\ UNCHANGED <<activity, report, decided, audited, bound, line>>
    BY <1>5, <2>1 DEF ApproveAdd
  <2>4. About(v, "approve_project") \in Request
    BY <2>2, AboutOK
  <2> QED
    BY <2>2, <2>3, <2>4, InsertStep
<1>6. CASE ApproveProject(r)
  <2>1. PICK call : call = Going(request[r], "approve_audit")
    OBVIOUS
  <2>2. call \in Request
    BY <2>1, GoingOK
  <2>3. CallOK(call)
    BY <1>0, <1>6, <2>1 DEF ApproveProject, At, CallOK, Going, Request
  <2>4. /\ request' = [request EXCEPT ![r] = call]
        /\ UNCHANGED <<report, decided, blueprint, audited, bound, line>>
        /\ activity' = "BLUEPRINT_APPROVED"
    BY <1>6, <2>1 DEF ApproveProject, Goto
  <2>5. LinesOK' /\ RestOK'
    BY <2>4 DEF Parts, LinesOK, InLine, RestOK
  <2> QED
    BY <2>2, <2>3, <2>4, <2>5, QuietCall
<1> QED
  BY <1>1, <1>2, <1>3, <1>4, <1>5, <1>6

-----------------------------------------------------------------------------
(***************************************************************************)
(* Steps that the batch notices.                                           *)
(***************************************************************************)
\* Two approved versions are one.
LEMMA OneApproved ==
    ASSUME RowsOK, NEW v \in Versions, NEW w \in Versions,
           blueprint[v].status = "APPROVED", blueprint[w].status = "APPROVED"
    PROVE  v = w
<1>1. v \in Nat /\ w \in Nat
  BY VersionNumbers
<1>2. ~(v < w) /\ ~(w < v)
  BY DEF RowsOK, VersionsInOrder, Exists
<1> QED
  BY <1>1, <1>2

LEMMA AuditStep ==
    ASSUME Parts, NEW r \in Requests, ApproveAudit(r)
    PROVE  IInv' /\ (Unnoticed \/ Batch!Next)
<1>1. PICK v : v = request[r].version + 1
  OBVIOUS
<1>2. v \in Versions /\ blueprint[v].status = "APPROVED"
  BY <1>1 DEF ApproveAudit, At, Parts, CallsOK, CallOK
<1>3. /\ audited' = audited \cup {v}
      /\ request' = [request EXCEPT ![r] = Idle]
      /\ UNCHANGED <<activity, report, decided, blueprint, bound, line>>
  BY <1>1 DEF ApproveAudit, Exit
<1>4. Grows /\ RowsOK' /\ LinesOK' /\ RestOK'
  BY <1>2, <1>3
  DEF Grows, Parts, RowsOK, VersionsInOrder, FirstNotApproved, Exists, LinesOK,
      InLine, RestOK
<1>5. CallsOK'
  BY <1>3, <1>4, IdleOK, CallsStayOK DEF Parts, RowsOK
<1>6. AuditsApproved' /\ BoundToUsable'
  BY <1>2, <1>3 DEF Parts, AuditsApproved, BoundToUsable, Usable
<1>7. ASSUME audited = {} PROVE Batch!Next
  <2>1. Chosen = {}
    BY <1>7 DEF Chosen
  <2>2. Chosen' = {blueprint[v].text}
    BY <1>3, <1>7 DEF Chosen
  <2>3. Used' = Used
    BY <1>3 DEF Used
  <2>4. blueprint[v].text \in Texts
    BY <1>2 DEF Parts, RowsOK, BlueprintRow, Missing
  <2> QED
    BY <2>1, <2>2, <2>3, <2>4 DEF Batch!Next, Batch!Choose
<1>8. ASSUME audited # {} PROVE Unnoticed
  <2>1. PICK w \in audited : w \in Versions /\ blueprint[w].status = "APPROVED"
    BY <1>8 DEF Parts, AuditsApproved, RestOK
  <2>2. w = v
    BY <1>2, <2>1, OneApproved DEF Parts
  <2> QED
    BY <1>3, <2>2 DEF Unnoticed
<1> QED
  BY <1>4, <1>5, <1>6, <1>7, <1>8, SplitIInv DEF Parts

LEMMA SubmitStep ==
    ASSUME Parts, NEW r \in Requests,
           \/ \E s \in Submissions : BeginSubmit(r, s)
           \/ SubmitAudit(r) \/ SubmitQueue(r)
    PROVE  IInv' /\ (Unnoticed \/ Batch!Next)
<1>0. /\ request[r] \in Request
      /\ CallOK(request[r])
  BY DEF Parts, CallsOK
<1>1. ASSUME NEW s \in Submissions, BeginSubmit(r, s)
      PROVE  IInv' /\ Unnoticed
  <2>1. PICK v \in Versions :
           /\ blueprint[v].status = "APPROVED"
           /\ request' = [request EXCEPT ![r] =
                            [About(v, "submit_audit") EXCEPT !.submission = {s}]]
    BY <1>1 DEF BeginSubmit
  <2>2. PICK call :
           call = [About(v, "submit_audit") EXCEPT !.submission = {s}]
    OBVIOUS
  <2>3. call \in Request /\ CallOK(call)
    BY <2>1, <2>2, VersionNumbers DEF About, Idle, Request, CallOK
  <2> QED
    BY <1>1, <2>1, <2>2, <2>3, OnlyCall DEF BeginSubmit
<1>2. CASE SubmitAudit(r)
  <2>1. Audited(request[r].version) => CallOK(Going(request[r], "submit_queue"))
    BY <1>0, <1>2 DEF SubmitAudit, Audited, At, CallOK, Going, Request
  <2> QED
    BY <1>2, <2>1, CheckStep DEF SubmitAudit
<1>3. ASSUME SubmitQueue(r) PROVE IInv' /\ (Unnoticed \/ Batch!Next)
  <2>0. PICK v : v = request[r].version
    OBVIOUS
  <2>1. PICK s \in request[r].submission :
           bound' = IF bound[s] = NoVersion
                    THEN [bound EXCEPT ![s] = v] ELSE bound
    BY <1>3, <2>0 DEF SubmitQueue
  <2>2. /\ request' = [request EXCEPT ![r] = Idle]
        /\ UNCHANGED <<activity, report, decided, blueprint, audited, line>>
    BY <1>3 DEF SubmitQueue, Exit
  <2>3. s \in Submissions /\ v \in Versions /\ v \in audited /\ Usable(v)
    BY <1>0, <1>3, <2>0, <2>1 DEF SubmitQueue, At, CallOK, Request, Usable
  <2>4. Grows /\ RowsOK' /\ LinesOK' /\ RestOK'
    BY <2>1, <2>2, <2>3
    DEF Grows, Parts, RowsOK, VersionsInOrder, FirstNotApproved, Exists,
        LinesOK, InLine, RestOK
  <2>5. CallsOK'
    BY <2>2, <2>4, IdleOK, CallsStayOK DEF Parts, RowsOK
  <2>6. AuditsApproved' /\ BoundToUsable'
    BY <2>1, <2>2, <2>3
    DEF Parts, RestOK, AuditsApproved, BoundToUsable, Usable
  <2>7. ASSUME bound[s] # NoVersion PROVE Unnoticed
    BY <2>1, <2>2, <2>7 DEF Unnoticed
  <2>8. ASSUME bound[s] = NoVersion PROVE Batch!Next
    <3>1. \A w \in audited : w = v
      BY <2>3, OneApproved DEF Parts, AuditsApproved, RestOK, Usable
    <3>2. Chosen = {blueprint[v].text}
      BY <2>3, <3>1 DEF Chosen
    <3>3. Chosen' = Chosen
      BY <2>2 DEF Chosen
    <3>4. v # NoVersion
      BY <2>3, VersionNumbers
    <3>5. ASSUME NEW x \in Submissions
          PROVE  Used'[x] = IF x = s THEN Chosen ELSE Used[x]
      BY <2>1, <2>2, <2>3, <2>8, <3>2, <3>4, <3>5 DEF Used, Parts, RestOK
    <3>6. Used' = [Used EXCEPT ![s] = Chosen]
      BY <3>5 DEF Used
    <3>7. Used[s] = {} /\ Chosen # {}
      BY <2>3, <2>8, <3>2 DEF Used
    <3> QED
      BY <2>3, <3>3, <3>6, <3>7 DEF Batch!Next, Batch!Use
  <2> QED
    BY <2>4, <2>5, <2>6, <2>7, <2>8, SplitIInv DEF Parts
<1> QED
  BY <1>1, <1>2, <1>3

LEMMA CallStep ==
    ASSUME IInv, NEW r \in Requests, Call(r)
    PROVE  IInv' /\ (Unnoticed \/ Batch!Next)
<1>1. Parts
  BY SplitIInv
<1>2. CASE Dies(r)
  BY <1>1, <1>2, ExitStep DEF Dies
<1> QED
  BY <1>1, <1>2, DecisionStep, EnqueueStep, EditStep, ApprovalStep, AuditStep,
     SubmitStep
  DEF Call

-----------------------------------------------------------------------------
(***************************************************************************)
(* The theorems.                                                           *)
(***************************************************************************)
\* A step that the batch does not notice is a stutter of the batch.
LEMMA UnnoticedStutters ==
    ASSUME IInv, Unnoticed
    PROVE  UNCHANGED <<Chosen, Used>>
<1>1. \A v \in audited : blueprint'[v] = blueprint[v]
  BY DEF IInv, TypeOK, AuditsApproved, Unnoticed
<1>2. Chosen' = Chosen
  BY <1>1 DEF Chosen, Unnoticed
<1>3. \A s \in Submissions :
         bound[s] # NoVersion => blueprint'[bound[s]] = blueprint[bound[s]]
  BY DEF IInv, TypeOK, BoundToUsable, Usable, Unnoticed
<1>4. Used' = Used
  BY <1>3 DEF Used, Unnoticed
<1> QED
  BY <1>2, <1>4

LEMMA Start ==
    ASSUME Init
    PROVE  IInv /\ Batch!Init
<1>1. TypeOK
  BY VersionNumbers DEF Init, TypeOK, NoReport, Report, NoVersion
<1>2. /\ VersionsInOrder /\ FirstNotApproved /\ AuditsApproved
      /\ BoundToUsable
      /\ \A p \in Lines : InLine(p, "merge") => line[p].row.status = "READY"
  BY VersionNumbers
  DEF Init, VersionsInOrder, FirstNotApproved, AuditsApproved, BoundToUsable,
      Exists, InLine, NoLine, Missing
<1>3. \A r \in Requests : CallOK(request[r])
  BY IdleOK DEF Init
<1>4. Batch!Init
  BY DEF Init, Batch!Init, Chosen, Used
<1> QED
  BY <1>1, <1>2, <1>3, <1>4 DEF IInv

LEMMA AnyStep ==
    ASSUME IInv, [Next]_vars
    PROVE  IInv' /\ [Batch!Next]_<<Chosen, Used>>
<1>1. CASE Next
  BY <1>1, PipelineStep, CallStep, UnnoticedStutters DEF Next
<1>2. CASE UNCHANGED vars
  <2>1. UNCHANGED <<Chosen, Used>>
    BY <1>2 DEF vars, Chosen, Used
  <2>2. IInv'
    BY <1>2
    DEF vars, IInv, TypeOK, VersionsInOrder, FirstNotApproved, AuditsApproved,
        BoundToUsable, Usable, Exists, InLine, CallOK
  <2> QED
    BY <2>1, <2>2
<1> QED
  BY <1>1, <1>2

\* The versions of a blueprint have no gap and at most one is approved, what a
\* call has checked of its version stays true, and a submission stays bound to
\* a version that is approved and audited, whatever pipelines, edits and
\* approvals overlap.
THEOREM InductiveInvariant == Spec => []IInv
<1>1. Init => IInv
  BY Start
<1>2. IInv /\ [Next]_vars => IInv'
  BY AnyStep
<1> QED
  BY <1>1, <1>2, PTL DEF Spec

\* All submissions of an activity are assessed with one blueprint, approved
\* once: the blueprints, their audit events and the versions the submissions
\* are bound to behave like the batch of FrozenBlueprint.
THEOREM Refinement == Spec => ImplementsFrozen
<1>1. Init => Batch!Init
  BY Start
<1>2. IInv /\ [Next]_vars => [Batch!Next]_<<Chosen, Used>>
  BY AnyStep
<1> QED
  BY <1>1, <1>2, InductiveInvariant, PTL DEF Spec, ImplementsFrozen, Batch!Spec,
     Batch!vars

\* What ApproveAdd inserts is the text that was seen.
LEMMA ApprovedBy ==
    ASSUME IInv, Next, NEW v \in Versions,
           blueprint[v].status # "APPROVED", blueprint'[v].status = "APPROVED"
    PROVE  /\ blueprint'[v].review = "PERMITS"
           /\ \E r \in Requests : /\ At(r, "approve_add")
                                  /\ request[r].version + 1 = v
                                  /\ request[r].seen = blueprint'[v].text
<1>0. Parts
  BY SplitIInv
<1>1. ASSUME NEW p \in Lines, Pipeline(p), blueprint' # blueprint PROVE FALSE
  <2>1. Merge(p)
    BY <1>1
    DEF Pipeline, tables, Claimed, Triage, Decide, Build, ProjectReady,
        Complete, ProjectReview, SaveNeedsReview, LineFails, LineCancelled,
        LineContinues, LineAbandoned
  <2>2. line[p].row.status = "READY" /\ blueprint \in [Versions -> BlueprintRow]
    BY <2>1, <1>0 DEF Merge, Parts, LinesOK, RowsOK
  <2> QED
    BY <2>1, <2>2 DEF Merge
<1>2. ASSUME NEW r \in Requests, Call(r), blueprint' # blueprint
      PROVE  EditAdd(r) \/ ApproveAdd(r)
  BY <1>2
  DEF Call, tables, BeginDecision, DecisionReport, DecisionAdd, BeginEnqueue,
      EnqueueReport, Enqueue, BeginEdit, EditLatest, EditCheck, EditProvider,
      VersionConflict, BeginApproval, ApproveRead, ApproveCheck,
      ApproveProject, ApproveAudit, BeginSubmit, SubmitAudit, SubmitQueue, Dies
<1>3. PICK r \in Requests : EditAdd(r) \/ ApproveAdd(r)
  BY <1>1, <1>2 DEF Next
<1>4. /\ request[r] \in Request /\ CallOK(request[r])
      /\ blueprint \in [Versions -> BlueprintRow]
  BY <1>0 DEF Parts, CallsOK, RowsOK
<1>5. CASE EditAdd(r)
  <2>1. request[r].row.status = "READY"
    BY <1>4, <1>5 DEF EditAdd, At, CallOK
  <2> QED
    BY <1>4, <1>5, <2>1 DEF EditAdd, Insert
<1>6. CASE ApproveAdd(r)
  <2>1. request[r].row.text = request[r].seen /\ request[r].row.review = "PERMITS"
    BY <1>4, <1>6 DEF ApproveAdd, At, CallOK
  <2>2. PICK row :
           row = Row("APPROVED", request[r].row.text, request[r].row.review)
    OBVIOUS
  <2>3. blueprint' = [blueprint EXCEPT ![request[r].version + 1] = row]
    BY <1>6, <2>2 DEF ApproveAdd, Insert
  <2>4. v = request[r].version + 1 /\ blueprint'[v] = row
    BY <1>4, <2>3
  <2> QED
    BY <1>6, <2>1, <2>2, <2>4 DEF ApproveAdd, Row
<1> QED
  BY <1>3, <1>5, <1>6

\* A blueprint that becomes approved carries the text its teacher had on the
\* page, and a review that permits it, although pipelines and other calls run
\* between the comparison of the ETag and the insertion of the row.
THEOREM ApprovalOfWhatWasSeen == Spec => ApprovedAsSeen
<1> DEFINE A == \A v \in Versions :
         blueprint[v].status # "APPROVED" /\ blueprint'[v].status = "APPROVED" =>
             /\ blueprint'[v].review = "PERMITS"
             /\ \E r \in Requests : /\ At(r, "approve_add")
                                    /\ request[r].version + 1 = v
                                    /\ request[r].seen = blueprint'[v].text
<1>1. IInv /\ [Next]_vars => [A]_vars
  BY ApprovedBy
<1> QED
  BY <1>1, InductiveInvariant, PTL DEF Spec, ApprovedAsSeen
=============================================================================

------------------------------- MODULE Planning -------------------------------
(***************************************************************************)
(* The deterministic planner of an assessment, the check of what it        *)
(* returns, and the loop that asks for one question per planned            *)
(* opportunity and takes one from the reserve when a question fails.       *)
(*                                                                         *)
(* Scores are integers; an overlap is the quotient of two cardinalities    *)
(* times Scale, which every union of two evidence sets divides.  The model *)
(* that writes and reviews questions is the environment: it accepts or     *)
(* refuses.  A definition whose comment says "Mutation" is not used by the *)
(* specification.                                                          *)
(***************************************************************************)
EXTENDS Integers, Sequences, FiniteSets, Functions, SequencesExt

CONSTANTS
    Opportunities,  \* ids of the opportunities of a mapping: naturals
    Mappings,       \* functions from the ids to what an opportunity is
    Policies,       \* AssessmentPlanningPolicy and the blueprint's constraints
    BeamWidth,      \* _select_exact: beam_width, 512 in the code
    Scale

Opportunity ==
    [ priority : Nat, fit : Nat, quality : Nat, formats : BOOLEAN,
      minutes : 1 .. 60, evidence : SUBSET Nat, dimension : Nat, variant : Nat,
      justification : BOOLEAN ]
Policy ==
    [ count : 1 .. 20, maxMinutes : 3 .. 120, maxOverlap : Nat,
      selectedMode : BOOLEAN, maxReserve : 0 .. 10, minQuality : Nat,
      minFit : Nat, weights : [1 .. 3 -> Nat], dimensionPenalty : Nat,
      variantPenalty : Nat, overlapPenalty : Nat ]

\* An opportunity cites at least one piece of evidence and finitely many.
ASSUME PlanningConstants ==
    /\ Opportunities \subseteq Nat /\ IsFiniteSet(Opportunities)
    /\ Mappings \subseteq [Opportunities -> Opportunity]
    /\ Policies \subseteq Policy
    /\ BeamWidth \in Nat \ {0}
    /\ Scale \in Nat \ {0}
    /\ \A f \in Mappings : \A a, b \in Opportunities :
         /\ f[a].evidence # {} /\ IsFiniteSet(f[a].evidence)
         /\ Scale % Cardinality(f[a].evidence \cup f[b].evidence) = 0

VARIABLES
    mapping,    \* the evidence map: its status and its opportunities
    policy,
    plan,       \* AssessmentPlan, or none yet
    loop        \* of _run_submission_pipeline

planningVars == <<mapping, policy, plan, loop>>

-----------------------------------------------------------------------------
(***************************************************************************)
(* Scores, for a mapping f and a policy p.                                 *)
(***************************************************************************)
evidence_overlap(f, a, b) ==
    (Scale * Cardinality(f[a].evidence \cap f[b].evidence))
        \div Cardinality(f[a].evidence \cup f[b].evidence)

_base_score(f, p, o) ==
    Scale * (f[o].priority * p.weights[1] + f[o].fit * p.weights[2]
             + f[o].quality * p.weights[3])

\* What one that is chosen, c, takes from the score of o.
PenaltyOf(f, p, c, o) ==
    (IF f[c].dimension = f[o].dimension THEN Scale * p.dimensionPenalty ELSE 0)
    + (IF f[c].variant = f[o].variant THEN Scale * p.variantPenalty ELSE 0)
    + p.overlapPenalty * evidence_overlap(f, c, o)

Penalty(f, p, o, chosen) ==
    SumFunctionOnSet([c \in Opportunities |-> PenaltyOf(f, p, c, o)], chosen)

_marginal_score(f, p, o, chosen) == _base_score(f, p, o) - Penalty(f, p, o, chosen)

\* By score, best first, and then by id.
Before(score, a, b) == score[a] > score[b] \/ (score[a] = score[b] /\ a < b)
Sorted(set, score) ==
    [n \in 1 .. Cardinality(set) |->
        CHOOSE o \in set : Cardinality({x \in set : Before(score, x, o)}) = n - 1]

Candidates(f, p) ==
    {o \in Opportunities : /\ f[o].quality >= p.minQuality
                           /\ f[o].fit >= p.minFit
                           /\ f[o].formats}
_valid_candidates(f, p) ==
    Sorted(Candidates(f, p), [o \in Opportunities |-> _base_score(f, p, o)])

-----------------------------------------------------------------------------
(***************************************************************************)
(* _select_exact.  A state is a sequence of opportunities, in the order of *)
(* the candidates, with its score and its minutes.                         *)
(***************************************************************************)
Minutes(f, set) ==
    SumFunctionOnSet([o \in Opportunities |-> f[o].minutes], set)

Smaller(s, t) ==
    \E n \in 1 .. Len(s) :
        s[n] < t[n] /\ \A k \in 1 .. n - 1 : s[k] = t[k]

Better(s, t) ==
    \/ s.score > t.score
    \/ s.score = t.score /\ s.minutes < t.minutes
    \/ s.score = t.score /\ s.minutes = t.minutes
         /\ Smaller(s.selected, t.selected)

\* Mutation: only the one selected last is compared.
FitsLast(f, p, s, o) ==
    /\ s.minutes + f[o].minutes <= p.maxMinutes
    /\ s.selected = <<>>
         \/ evidence_overlap(f, Last(s.selected), o) <= p.maxOverlap

Fits(f, p, s, o) ==
    /\ s.minutes + f[o].minutes <= p.maxMinutes
    /\ \A c \in ToSet(s.selected) : evidence_overlap(f, c, o) <= p.maxOverlap

Extended(f, p, scored, s) ==
    LET after == {k \in 1 .. Len(scored) :
                    s.selected # <<>> =>
                        \E i \in 1 .. k - 1 : scored[i] = Last(s.selected)}
    IN  { [ selected |-> Append(s.selected, o),
            score |-> s.score + _marginal_score(f, p, o, ToSet(s.selected)),
            minutes |-> s.minutes + f[o].minutes ] :
          o \in {x \in {scored[k] : k \in after} : Fits(f, p, s, x)} }

Beam(states) ==
    IF Cardinality(states) <= BeamWidth THEN states
    ELSE {s \in states : Cardinality({t \in states : Better(t, s)}) < BeamWidth}

\* After so many choices.
States(f, p, scored) ==
    LET start == [selected |-> <<>>, score |-> 0, minutes |-> 0]
        states[depth \in 0 .. p.count] ==
            IF depth = 0 THEN {start}
            ELSE Beam(UNION {Extended(f, p, scored, s) : s \in states[depth - 1]})
    IN  states

Flags(f, set) == {f[o].justification : o \in set}

\* SELECTED: a justification among the primaries, and each class of theirs
\* outside as well, if there may be a reserve.
Localizable(f, p, candidates, set) ==
    LET primary == Flags(f, set)
    IN  /\ TRUE \in primary
        /\ p.maxReserve = 0 \/ primary \subseteq Flags(f, candidates \ set)

\* The best of the states that will do, or none.
_select_exact(f, p, scored) ==
    LET good == {s \in States(f, p, scored)[p.count] :
                   p.selectedMode =>
                       Localizable(f, p, ToSet(scored), ToSet(s.selected))}
    IN  {s \in good : \A t \in good \ {s} : Better(s, t)}

-----------------------------------------------------------------------------
(***************************************************************************)
(* build_assessment_plan.                                                  *)
(***************************************************************************)
Atmost(s, n) == SubSeq(s, 1, IF Len(s) < n THEN Len(s) ELSE n)

Marginal(f, p, primary) ==
    [o \in Opportunities |-> _marginal_score(f, p, o, primary)]

\* Mutation: the best of the rest, of whatever class.
ReserveByScore(f, p, primary, rest) ==
    Atmost(Sorted(rest, Marginal(f, p, primary)), p.maxReserve)

\* The best of the rest that can replace a primary of the class.
Replacement(f, p, primary, rest, class) ==
    LET same == {o \in rest : f[o].justification = class}
    IN  IF class \in Flags(f, primary) /\ same # {}
        THEN <<Sorted(same, Marginal(f, p, primary))[1]>> ELSE <<>>

\* A replacement for every class of the primaries first.
Reserve(f, p, primary, rest) ==
    LET compatible == Replacement(f, p, primary, rest, TRUE)
                      \o Replacement(f, p, primary, rest, FALSE)
        others == Sorted(rest \ ToSet(compatible), Marginal(f, p, primary))
    IN  Atmost(compatible \o others, p.maxReserve)

NoPlan == [status |-> "NONE", selected |-> <<>>, reserve |-> <<>>, minutes |-> 0]
_complete_failure(status) == [NoPlan EXCEPT !.status = status]

build_assessment_plan(m, p) ==
    LET f == m.opportunities
        scored == _valid_candidates(f, p)
        found == _select_exact(f, p, scored)
    IN  IF m.status # "READY" THEN _complete_failure(m.status)
        ELSE IF scored = <<>>
        THEN _complete_failure("INSUFFICIENT_RELEVANT_EVIDENCE")
        ELSE IF Len(scored) < p.count
        THEN _complete_failure("INSUFFICIENT_DISTINCT_QUESTION_OPPORTUNITIES")
        ELSE IF found = {} THEN _complete_failure("ASSESSMENT_PLAN_INFEASIBLE")
        ELSE LET best == (CHOOSE s \in found : TRUE).selected
                 primary == ToSet(best)
             IN  [ status |-> "READY", selected |-> best,
                   reserve |-> Reserve(f, p, primary, ToSet(scored) \ primary),
                   minutes |-> Minutes(f, primary) ]

\* validate_assessment_plan, and what AssessmentPlan demands of itself.
validate_assessment_plan(a, m, p) ==
    LET planned == a.selected \o a.reserve IN
    IF a.status = "READY"
    THEN /\ Len(a.selected) = p.count
         /\ ToSet(planned) \subseteq DOMAIN m.opportunities
         /\ Cardinality(ToSet(planned)) = Len(planned)
         /\ Len(a.reserve) <= 10
         /\ a.minutes \in 0 .. 120
    ELSE planned = <<>>

-----------------------------------------------------------------------------
(***************************************************************************)
(* The loop.                                                               *)
(***************************************************************************)
NoLoop == [queue |-> <<>>, reserves |-> <<>>, selected |-> <<>>, asked |-> 0,
           status |-> "NONE"]

PlanningInit ==
    /\ mapping \in [status : {"READY", "EVIDENCE_MAPPING_UNCERTAIN"},
                    opportunities : Mappings]
    /\ policy \in Policies
    /\ plan = NoPlan
    /\ loop = NoLoop

\* A plan that its validator refuses is an error: there is no loop.
Plan ==
    /\ plan.status = "NONE"
    /\ plan' = build_assessment_plan(mapping, policy)
    /\ loop' = IF ~ validate_assessment_plan(plan', mapping, policy)
               THEN [NoLoop EXCEPT !.status = "INVALID"]
               ELSE IF plan'.status # "READY"
               THEN [NoLoop EXCEPT !.status = plan'.status]
               ELSE [NoLoop EXCEPT !.queue = plan'.selected,
                                   !.reserves = plan'.reserve,
                                   !.status = "ASKING"]
    /\ UNCHANGED <<mapping, policy>>

Asking == loop.status = "ASKING" /\ loop.queue # <<>>

\* P07 writes the question and P08 accepts it.
Accepted ==
    LET l == [loop EXCEPT !.queue = Tail(@), !.asked = @ + 1,
                          !.selected = Append(@, Head(loop.queue))]
    IN  /\ Asking
        /\ loop' = IF Len(l.selected) = policy.count
                   THEN [l EXCEPT !.status = "READY"] ELSE l
        /\ UNCHANGED <<mapping, policy, plan>>

\* Mutation: the question that failed goes back to the reserve, uncounted.
SubstituteAgain(l) ==
    IF l.reserves = <<>> THEN [l EXCEPT !.status = "ASSESSMENT_PLAN_INFEASIBLE"]
    ELSE [l EXCEPT !.queue = Append(Tail(@), Head(l.reserves)),
                   !.reserves = Append(Tail(@), Head(l.queue))]

\* Mutation: the question that failed stays in the queue as well.
SubstituteBeside(l) ==
    IF l.reserves = <<>> THEN [l EXCEPT !.status = "ASSESSMENT_PLAN_INFEASIBLE"]
    ELSE [l EXCEPT !.asked = @ + 1, !.queue = Append(@, Head(l.reserves)),
                   !.reserves = Tail(@)]

\* The next of the reserve takes the place of a question that failed.
Substitute(l) ==
    IF l.reserves = <<>>
    THEN [l EXCEPT !.asked = @ + 1, !.status = "ASSESSMENT_PLAN_INFEASIBLE"]
    ELSE [l EXCEPT !.asked = @ + 1, !.queue = Append(Tail(@), Head(l.reserves)),
                   !.reserves = Tail(@)]

Refused ==
    /\ Asking
    /\ loop' = Substitute(loop)
    /\ UNCHANGED <<mapping, policy, plan>>

PlanningNext == Plan \/ Accepted \/ Refused

\* The coroutine goes on as long as the gateway answers, one way or the other.
PlanningSpec ==
    /\ PlanningInit /\ [][PlanningNext]_planningVars
    /\ WF_planningVars(Accepted \/ Refused)

-----------------------------------------------------------------------------
(***************************************************************************)
(* Properties.                                                             *)
(***************************************************************************)
Planned == plan.status # "NONE"
F == mapping.opportunities

\* Reference: what a selection of so many opportunities must satisfy, and what
\* it is worth, whatever the order in which it is made.
Compatible(f, p, set) ==
    /\ set \subseteq Candidates(f, p)
    /\ Minutes(f, set) <= p.maxMinutes
    /\ \A a, b \in set : a # b => evidence_overlap(f, a, b) <= p.maxOverlap

Eligible(f, p, set) ==
    /\ Compatible(f, p, set)
    /\ Cardinality(set) = p.count
    /\ p.selectedMode => Localizable(f, p, Candidates(f, p), set)

Worth(f, p, set) ==
    SumFunctionOnSet([o \in Opportunities |->
                        2 * _base_score(f, p, o) - Penalty(f, p, o, set \ {o})],
                     set)

\* The validator accepts whatever the planner returns, and what it returns as
\* READY is a selection of the planned number that keeps every constraint.
PlanSound ==
    Planned =>
        /\ validate_assessment_plan(plan, mapping, policy)
        /\ plan.status = "READY" => Eligible(F, policy, ToSet(plan.selected))

\* The planner finds a plan exactly when there is one, no selection that is as
\* feasible is worth more than the one it returns, and validate_assessment_plan
\* accepts what it returns.
PlanExact ==
    Planned =>
        LET eligible == {set \in SUBSET Opportunities : Eligible(F, policy, set)} IN
        /\ validate_assessment_plan(plan, mapping, policy)
        /\ mapping.status = "READY" =>
             /\ plan.status = "READY" <=> eligible # {}
             /\ plan.status = "READY" =>
                  /\ ToSet(plan.selected) \in eligible
                  /\ \A set \in eligible :
                       Worth(F, policy, set)
                         <= Worth(F, policy, ToSet(plan.selected))

\* Under SELECTED the reserve holds, for every class of justification among
\* the primaries, one of the same class, if it has room for one of each.
ReserveMirrors ==
    plan.status = "READY" /\ policy.selectedMode
        /\ policy.maxReserve >= Cardinality(Flags(F, ToSet(plan.selected)))
            => Flags(F, ToSet(plan.selected)) \subseteq
                 Flags(F, ToSet(plan.reserve))

\* An assessment has exactly the planned number of questions, no opportunity
\* twice, and at most one question was asked for each that was planned: there
\* is no endless cascade of substitutes.
ExactlyN ==
    LET asked == loop.selected \o loop.queue \o loop.reserves IN
    /\ loop.asked <= Len(plan.selected) + Len(plan.reserve)
    /\ loop.status \in {"ASKING", "READY"} =>
         /\ Cardinality(ToSet(asked)) = Len(asked)
         /\ Len(loop.selected) + Len(loop.queue) = policy.count
    /\ loop.status = "READY" => Len(loop.selected) = policy.count

\* However many questions fail, once the loop has begun there is an assessment
\* or a diagnosis.
Decides == loop.status = "ASKING" ~> loop.status # "ASKING"

\* 00_Especificacion, 10.6: "el sistema toma una oportunidad de reserva
\* compatible": the assessment that is assembled keeps to the constraints that
\* the planner does not relax.
SubstitutesCompatible ==
    loop.status = "READY" => Compatible(F, policy, ToSet(loop.selected))
=============================================================================

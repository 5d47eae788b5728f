---------------------------- MODULE ModelGateway -----------------------------
(***************************************************************************)
(* One invocation of a model: the request is checked, a route is resolved, *)
(* the provider is called with a bounded number of retries, its answer is  *)
(* checked, and an answer that breaks its schema is repaired at most once  *)
(* by P11.  Every call of the provider is entered in the ledger.           *)
(*                                                                         *)
(* An action is one call of the provider with all that the gateway does    *)
(* about its answer.  A definition whose comment says "Mutation" is not    *)
(* used by the specification.                                              *)
(***************************************************************************)
EXTENDS Naturals, Sequences

CONSTANTS
    Callers,        \* jobs: GatewayConfig.job_id
    Prompts,        \* P01 .. P10
    P11,            \* P11_SCHEMA_REPAIR_V1
    MaxRetries,     \* GatewayConfig.max_retries
    RetriesOf,      \* PromptSpec.max_transient_retries
    Answers,        \* outputs of a prompt that pass every check
    NoAnswer

ASSUME GatewayConstants ==
    /\ P11 \notin Prompts
    /\ MaxRetries \in 0 .. 2
    /\ RetriesOf \in [Prompts -> 0 .. 2]
    /\ DOMAIN Answers = Prompts
    /\ \A p \in Prompts : NoAnswer \notin Answers[p]

VARIABLES
    invocation,     \* the coroutine of a job that is in ModelGateway.invoke
    ledger          \* table "model_calls": the prompts a job has called

gatewayVars == <<invocation, ledger>>

-----------------------------------------------------------------------------
\* TIMEOUT, RATE_LIMIT and the transient PROVIDER_ERROR are "RETRYABLE".
Results ==
    {"RETRYABLE", "SAFETY_BLOCK", "PROVIDER_ERROR", "SCHEMA_INVALID",
     "SCHEMA_VALID"}
\* What is raised: GatewayTimeout and transient provider errors, contextual
\* validation and safety, and everything that is neither.
Failures == {"TRANSIENT", "SECURITY", "PERMANENT"}

AllAnswers == UNION {Answers[p] : p \in Prompts}
Entry == [prompt : Prompts \cup {P11}, result : Results]

\* calls: how often the provider was called.  unledgered: the one that is in
\* no ledger.
NoInvocation ==
    [ place |-> "idle", prompt |-> P11, attempt |-> 0, calls |-> 0,
      entries |-> <<>>, unledgered |-> 0, failure |-> "NONE",
      answer |-> NoAnswer, repaired |-> FALSE ]

RetryLimit(p) == IF RetriesOf[p] < MaxRetries THEN RetriesOf[p] ELSE MaxRetries

GatewayInit ==
    /\ invocation = [c \in Callers |-> NoInvocation]
    /\ ledger = [c \in Callers |-> {}]

-----------------------------------------------------------------------------
InPlace(c, place) == invocation[c].place = place
Prompt(c) == invocation[c].prompt

Raised(i, failure) == [i EXCEPT !.place = "error", !.failure = failure]
Returned(i, answer, repaired) ==
    [i EXCEPT !.place = "done", !.answer = answer, !.repaired = repaired]

\* A call of the provider and its entry: _ledger and _record.
Called(i, prompt, result) ==
    [i EXCEPT !.calls = i.calls + 1,
              !.entries = Append(i.entries,
                                 [prompt |-> prompt, result |-> result])]

Enter(c, i) == invocation' = [invocation EXCEPT ![c] = i]
Record(c, prompt) == ledger' = [ledger EXCEPT ![c] = @ \cup {prompt}]

\* Request, envelope and context are checked before a route is resolved, and
\* the route before any call.
Invoke(c, p) ==
    /\ InPlace(c, "idle")
    /\ Enter(c, [NoInvocation EXCEPT !.place = "attempt", !.prompt = p,
                                     !.attempt = 1])
    /\ UNCHANGED ledger

\* The request or its envelope is not valid, or there is no route, no adapter
\* or no budget for it ("PERMANENT"); or its context is not the allowed one.
InvokeRefused(c, p, failure) ==
    /\ InPlace(c, "idle")
    /\ failure \in {"PERMANENT", "SECURITY"}
    /\ Enter(c, Raised([NoInvocation EXCEPT !.prompt = p], failure))
    /\ UNCHANGED ledger

-----------------------------------------------------------------------------
(***************************************************************************)
(* An attempt.                                                             *)
(***************************************************************************)
RetriesLeft(c) == invocation[c].attempt <= RetryLimit(Prompt(c))

AttemptFails(c) ==
    LET i == Called(invocation[c], Prompt(c), "RETRYABLE") IN
    /\ InPlace(c, "attempt")
    /\ Enter(c, IF RetriesLeft(c)
                THEN [i EXCEPT !.attempt = i.attempt + 1]
                ELSE Raised(i, "TRANSIENT"))
    /\ Record(c, Prompt(c))

\* Mutation: a refusal of the provider is tried again.
AfterBlockRetried(i) ==
    IF i.attempt <= RetryLimit(i.prompt)
    THEN [i EXCEPT !.attempt = i.attempt + 1]
    ELSE Raised(i, "SECURITY")

AfterBlock(i) == Raised(i, "SECURITY")

AttemptBlocked(c) ==
    /\ InPlace(c, "attempt")
    /\ Enter(c, AfterBlock(Called(invocation[c], Prompt(c), "SAFETY_BLOCK")))
    /\ Record(c, Prompt(c))

AttemptBreaks(c) ==
    /\ InPlace(c, "attempt")
    /\ Enter(c, Raised(Called(invocation[c], Prompt(c), "PROVIDER_ERROR"),
                       "PERMANENT"))
    /\ Record(c, Prompt(c))

\* _validate_output, _validate_context and _validate_output_relationship.
AttemptAnswers(c, a) ==
    /\ InPlace(c, "attempt")
    /\ a \in Answers[Prompt(c)]
    /\ Enter(c, Returned(Called(invocation[c], Prompt(c), "SCHEMA_VALID"),
                         a, FALSE))
    /\ Record(c, Prompt(c))

\* The schema holds, but not what the output says of the request.
AttemptMisleads(c) ==
    /\ InPlace(c, "attempt")
    /\ Enter(c, Raised(Called(invocation[c], Prompt(c), "SCHEMA_INVALID"),
                       "SECURITY"))
    /\ Record(c, Prompt(c))

AttemptInvalid(c) ==
    /\ InPlace(c, "attempt")
    /\ Enter(c, [Called(invocation[c], Prompt(c), "SCHEMA_INVALID")
                   EXCEPT !.place = "repair"])
    /\ Record(c, Prompt(c))

-----------------------------------------------------------------------------
(***************************************************************************)
(* _repair_once.                                                           *)
(***************************************************************************)
\* No route takes the repair: what is to be repaired may be too long for it.
RepairBlocked(c) ==
    /\ InPlace(c, "repair")
    /\ Enter(c, Raised(invocation[c], "PERMANENT"))
    /\ UNCHANGED ledger

RepairTimesOut(c) ==
    /\ InPlace(c, "repair")
    /\ Enter(c, Raised(Called(invocation[c], P11, "RETRYABLE"), "PERMANENT"))
    /\ Record(c, P11)

\* Whatever else the adapter raises is not caught, and is in no ledger.
RepairRaises(c, failure) ==
    LET i == invocation[c] IN
    /\ InPlace(c, "repair")
    /\ failure \in {"TRANSIENT", "PERMANENT"}
    /\ Enter(c, Raised([i EXCEPT !.calls = i.calls + 1, !.unledgered = 1],
                       failure))
    /\ UNCHANGED ledger

AfterInvalidRepair(i) == Raised(i, "PERMANENT")

\* P11 breaks its own schema.
RepairInvalid(c) ==
    /\ InPlace(c, "repair")
    /\ Enter(c, AfterInvalidRepair(Called(invocation[c], P11,
                                          "SCHEMA_INVALID")))
    /\ Record(c, P11)

\* P11 says something outside the context.
RepairMisleads(c) ==
    /\ InPlace(c, "repair")
    /\ Enter(c, Raised(Called(invocation[c], P11, "SCHEMA_INVALID"),
                       "SECURITY"))
    /\ Record(c, P11)

\* P11 cannot repair the output, or returns one that breaks the target's
\* schema ("PERMANENT"), or one that is outside the context ("SECURITY").
RepairUseless(c, failure) ==
    /\ InPlace(c, "repair")
    /\ failure \in {"PERMANENT", "SECURITY"}
    /\ Enter(c, Raised(Called(invocation[c], P11, "SCHEMA_VALID"), failure))
    /\ Record(c, P11)

\* The schema is that of the name P11 returns, which nobody compares with the
\* target's: the caller validates the output once more, against its own root.
RepairAnswers(c, a) ==
    /\ InPlace(c, "repair")
    /\ a \in Answers[Prompt(c)]
    /\ Enter(c, Returned(Called(invocation[c], P11, "SCHEMA_VALID"), a, TRUE))
    /\ Record(c, P11)

-----------------------------------------------------------------------------
\* The coroutine takes the result, or is gone.
Forget(c) == Enter(c, NoInvocation) /\ UNCHANGED ledger

ProviderStep(c) ==
    \/ AttemptFails(c) \/ AttemptBlocked(c) \/ AttemptBreaks(c)
    \/ AttemptMisleads(c) \/ AttemptInvalid(c)
    \/ RepairBlocked(c) \/ RepairTimesOut(c)
    \/ RepairInvalid(c) \/ RepairMisleads(c)
    \/ \E f \in Failures : RepairRaises(c, f) \/ RepairUseless(c, f)
    \/ \E a \in AllAnswers : AttemptAnswers(c, a) \/ RepairAnswers(c, a)

GatewayNext ==
    \E c \in Callers :
        \/ \E p \in Prompts :
              Invoke(c, p) \/ \E f \in Failures : InvokeRefused(c, p, f)
        \/ ProviderStep(c)
        \/ Forget(c)

GatewaySpec == GatewayInit /\ [][GatewayNext]_gatewayVars

-----------------------------------------------------------------------------
(***************************************************************************)
(* Properties.                                                             *)
(***************************************************************************)
Invocation ==
    [ place : {"idle", "attempt", "repair", "done", "error"},
      prompt : Prompts \cup {P11},
      attempt : Nat,
      calls : Nat,
      entries : Seq(Entry),
      unledgered : {0, 1},
      failure : Failures \cup {"NONE"},
      answer : AllAnswers \cup {NoAnswer},
      repaired : BOOLEAN ]

GatewayTypeOK ==
    /\ invocation \in [Callers -> Invocation]
    /\ ledger \in [Callers -> SUBSET (Prompts \cup {P11})]

\* However the provider misbehaves, an invocation calls it at most once more
\* than the retries of its prompt, and once to repair.
CallsBounded ==
    \A c \in Callers :
        LET i == invocation[c] IN
        i.place # "idle" =>
            i.calls <= (IF i.prompt \in Prompts THEN RetryLimit(i.prompt)
                                                ELSE 0) + 2

\* The trail of an invocation: only a retryable failure is followed by
\* another attempt, and only an answer that breaks its schema by one repair.
\* A safety block, a broken adapter and an answer outside the context are the
\* last thing that is asked of the provider.
Trail(entries) ==
    \A n \in 1 .. Len(entries) :
        n < Len(entries) =>
            \/ entries[n].result = "RETRYABLE" /\ entries[n].prompt # P11
            \/ /\ entries[n].result = "SCHEMA_INVALID"
               /\ entries[n].prompt # P11
               /\ n + 1 = Len(entries)
               /\ entries[n + 1].prompt = P11

NoEvasion == \A c \in Callers : Trail(invocation[c].entries)

\* Neither a provider that keeps failing, nor one that refuses or answers
\* nonsense, is asked more often, or for more, than the policy of the prompt
\* allows.
ProviderSpared == CallsBounded /\ NoEvasion
=============================================================================

----------------------- MODULE SubmissionPipelineProofs -----------------------
(***************************************************************************)
(* Theorems about ModelGateway and SubmissionPipeline.  The gateway first; *)
(* the pipeline implements it, because what it adds leaves an invocation   *)
(* alone or makes one of the gateway's steps.                              *)
(***************************************************************************)
EXTENDS SubmissionPipelineInv, TLAPS

-----------------------------------------------------------------------------
(***************************************************************************)
(* ModelGateway.                                                           *)
(***************************************************************************)
LEMMA LimitIsNat == \A p \in Prompts : RetryLimit(p) \in 0 .. 2
  BY GatewayConstants DEF RetryLimit

\* Another entry after entries that may all be retried.
LEMMA TrailGrows ==
    ASSUME NEW s \in Seq(Entry), NEW e \in Entry
    PROVE  /\ Append(s, e) \in Seq(Entry)
           /\ Len(Append(s, e)) = Len(s) + 1
           /\ Append(s, e)[Len(s) + 1] = e
           /\ \A n \in 1 .. Len(s) : Append(s, e)[n] = s[n]
  OBVIOUS

LEMMA RetriedTrail ==
    ASSUME NEW s \in Seq(Entry), NEW e \in Entry, AllRetried(s, Len(s))
    PROVE  Trail(Append(s, e))
<1>1. /\ Len(Append(s, e)) = Len(s) + 1
      /\ \A n \in 1 .. Len(s) : Append(s, e)[n] = s[n]
  BY TrailGrows
<1> QED
  BY <1>1 DEF Trail, AllRetried, Retried

LEMMA RepairedTrail ==
    ASSUME NEW s \in Seq(Entry), NEW e \in Entry,
           Len(s) > 0,
           AllRetried(s, Len(s) - 1),
           s[Len(s)].result = "SCHEMA_INVALID",
           s[Len(s)].prompt # P11,
           e.prompt = P11
    PROVE  Trail(Append(s, e)) /\ Trail(s)
<1>1. /\ Len(Append(s, e)) = Len(s) + 1
      /\ Append(s, e)[Len(s) + 1] = e
      /\ \A n \in 1 .. Len(s) : Append(s, e)[n] = s[n]
  BY TrailGrows
<1>2. Len(s) \in Nat
  OBVIOUS
<1>3. \A n \in 1 .. Len(s) : n < Len(s) => Retried(s[n])
  BY <1>2 DEF AllRetried
<1>4. Trail(s)
  BY <1>2, <1>3 DEF Trail, Retried
<1>5. Trail(Append(s, e))
  <2> SUFFICES ASSUME NEW n \in 1 .. Len(s)
               PROVE  \/ Retried(s[n])
                      \/ n = Len(s)
    BY <1>1, <1>2 DEF Trail, Retried
  <2> QED
    BY <1>2, <1>3
<1> QED
  BY <1>4, <1>5

\* What an attempt and a repair leave behind.
LEMMA AttemptCalled ==
    ASSUME NEW i \in Invocation, InvocationSound(i), i.place = "attempt",
           NEW result \in Results,
           NEW k, k = Called(i, i.prompt, result)
    PROVE  /\ k \in Invocation
           /\ k.prompt = i.prompt /\ k.attempt = i.attempt
           /\ k.calls = i.attempt
           /\ k.calls <= RetryLimit(i.prompt) + 1
           /\ Len(k.entries) = k.calls
           /\ Trail(k.entries)
           /\ AllRetried(k.entries, Len(k.entries) - 1)
           /\ k.entries[Len(k.entries)].prompt = i.prompt
           /\ k.entries[Len(k.entries)].result = result
<1> DEFINE e == [prompt |-> i.prompt, result |-> result]
           s == Append(i.entries, e)
           n == i.calls + 1
<1>1. /\ i.prompt \in Prompts /\ i.entries \in Seq(Entry)
      /\ i.calls \in Nat /\ i.attempt \in Nat
  BY DEF Invocation, InvocationSound
<1>2. e \in Entry
  BY <1>1 DEF Entry
<1>3. RetryLimit(i.prompt) \in 0 .. 2
  BY <1>1, LimitIsNat
<1>4. /\ i.attempt \in 1 .. RetryLimit(i.prompt) + 1
      /\ i.calls = i.attempt - 1
      /\ Len(i.entries) = i.calls
      /\ AllRetried(i.entries, Len(i.entries))
  BY DEF InvocationSound
<1>5. k = [i EXCEPT !.calls = n, !.entries = s]
  BY DEF Called
<1>0. n \in Nat
  BY <1>1
<1> HIDE DEF e
<1>6. /\ s \in Seq(Entry)
      /\ Len(s) = Len(i.entries) + 1
      /\ s[Len(i.entries) + 1] = e
      /\ \A x \in 1 .. Len(i.entries) : s[x] = i.entries[x]
  BY <1>1, <1>2, TrailGrows
<1>7. Trail(s)
  BY <1>1, <1>2, <1>4, RetriedTrail
<1>8. AllRetried(s, Len(i.entries))
  BY <1>4, <1>6 DEF AllRetried
<1> HIDE DEF s, n
<1>9. k \in Invocation /\ k.prompt = i.prompt /\ k.attempt = i.attempt
      /\ k.entries = s /\ k.calls = n
  <2>1. s \in Seq(Entry)
    BY <1>6
  <2> QED
    BY <1>0, <1>5, <2>1 DEF Invocation
<1>10. k.calls = i.attempt /\ k.calls <= RetryLimit(i.prompt) + 1
  BY <1>3, <1>4, <1>9, <1>1 DEF n
<1>11. Len(k.entries) = k.calls /\ Len(k.entries) - 1 = Len(i.entries)
       /\ Len(k.entries) = Len(i.entries) + 1
  BY <1>1, <1>4, <1>6, <1>9 DEF n
<1>12. Trail(k.entries) /\ AllRetried(k.entries, Len(k.entries) - 1)
  BY <1>7, <1>8, <1>9, <1>11
<1>13. k.entries[Len(k.entries)] = e
  BY <1>6, <1>9, <1>11
<1> QED
  BY <1>9, <1>10, <1>11, <1>12, <1>13 DEF e

LEMMA RepairCalled ==
    ASSUME NEW i \in Invocation, InvocationSound(i), i.place = "repair",
           NEW result \in Results,
           NEW k, k = Called(i, P11, result)
    PROVE  /\ k \in Invocation
           /\ k.prompt = i.prompt
           /\ k.calls <= RetryLimit(i.prompt) + 2
           /\ Trail(k.entries)
<1> DEFINE e == [prompt |-> P11, result |-> result]
           s == Append(i.entries, e)
           n == i.calls + 1
<1>1. /\ i.prompt \in Prompts /\ i.entries \in Seq(Entry)
      /\ i.calls \in Nat
  BY DEF Invocation, InvocationSound
<1>2. e \in Entry /\ e.prompt = P11
  BY <1>1 DEF Entry
<1>3. RetryLimit(i.prompt) \in 0 .. 2
  BY <1>1, LimitIsNat
<1>4. k = [i EXCEPT !.calls = n, !.entries = s]
  BY DEF Called
<1>0. n \in Nat
  BY <1>1
<1> HIDE DEF e
<1>5. s \in Seq(Entry)
  BY <1>1, <1>2, TrailGrows
<1>6. Trail(s)
  BY <1>1, <1>2, RepairedTrail DEF InvocationSound
<1> HIDE DEF s, n
<1>7. k \in Invocation /\ k.prompt = i.prompt
      /\ k.entries = s /\ k.calls = n
  BY <1>0, <1>4, <1>5 DEF Invocation
<1>8. i.calls <= RetryLimit(i.prompt) + 1
  BY DEF InvocationSound
<1>9. k.calls <= RetryLimit(i.prompt) + 2
  BY <1>1, <1>3, <1>7, <1>8 DEF n
<1> QED
  BY <1>6, <1>7, <1>9

\* An invocation that has come to its end.
LEMMA RaisedSound ==
    ASSUME NEW i \in Invocation, i.prompt \in Prompts,
           i.calls <= RetryLimit(i.prompt) + 2, Trail(i.entries),
           NEW failure \in Failures
    PROVE  /\ Raised(i, failure) \in Invocation
           /\ InvocationSound(Raised(i, failure))
           /\ Raised(i, failure).prompt = i.prompt
  BY DEF Raised, Invocation, InvocationSound

LEMMA ReturnedSound ==
    ASSUME NEW i \in Invocation, i.prompt \in Prompts,
           i.calls <= RetryLimit(i.prompt) + 2, Trail(i.entries),
           NEW a \in Answers[i.prompt], NEW repaired \in BOOLEAN
    PROVE  /\ Returned(i, a, repaired) \in Invocation
           /\ InvocationSound(Returned(i, a, repaired))
           /\ Returned(i, a, repaired).prompt = i.prompt
  BY DEF Returned, Invocation, InvocationSound, AllAnswers

LEMMA NoInvocationSound ==
    NoInvocation \in Invocation /\ InvocationSound(NoInvocation)
<1>1. <<>> \in Seq(Entry) /\ NoInvocation.place = "idle"
  BY DEF NoInvocation
<1> QED
  BY <1>1 DEF NoInvocation, Invocation, InvocationSound

LEMMA GatewayInitInv == GatewayInit => GatewayInv
  BY NoInvocationSound DEF GatewayInit, GatewayInv, GatewayTypeOK

\* A step of one caller that leaves its invocation sound.
LEMMA EnterSound ==
    ASSUME GatewayInv, NEW c \in Callers, NEW i \in Invocation,
           InvocationSound(i), Enter(c, i),
           \/ UNCHANGED ledger
           \/ \E p \in Prompts \cup {P11} : Record(c, p)
    PROVE  GatewayInv'
<1>1. invocation \in [Callers -> Invocation]
  BY DEF GatewayInv, GatewayTypeOK
<1>2. /\ invocation' \in [Callers -> Invocation]
      /\ invocation'[c] = i
      /\ \A d \in Callers \ {c} : invocation'[d] = invocation[d]
  BY <1>1 DEF Enter
<1>3. ledger' \in [Callers -> SUBSET (Prompts \cup {P11})]
  BY DEF GatewayInv, GatewayTypeOK, Record
<1>4. \A d \in Callers : InvocationSound(invocation'[d])
  BY <1>2 DEF GatewayInv
<1> QED
  BY <1>2, <1>3, <1>4 DEF GatewayInv, GatewayTypeOK

LEMMA InvokeStep ==
    ASSUME GatewayInv, NEW c \in Callers, NEW p \in Prompts,
           \/ Invoke(c, p)
           \/ \E f \in Failures : InvokeRefused(c, p, f)
    PROVE  GatewayInv' /\ invocation'[c].prompt = p /\ ledger' = ledger
<1>1. RetryLimit(p) \in 0 .. 2
  BY LimitIsNat
<1>2. CASE Invoke(c, p)
  <2> DEFINE i == [NoInvocation EXCEPT !.place = "attempt", !.prompt = p, !.attempt = 1]
  <2>1. i \in Invocation
    BY NoInvocationSound DEF Invocation
  <2>2. i.place = "attempt" /\ i.prompt = p /\ i.attempt = 1 /\ i.calls = 0
        /\ i.entries = <<>>
    BY DEF NoInvocation
  <2>3. InvocationSound(i)
    <3> HIDE DEF i
    <3>1. Len(i.entries) = 0 /\ AllRetried(i.entries, Len(i.entries))
      BY <2>2 DEF AllRetried
    <3> QED
      BY <1>1, <2>2, <3>1 DEF InvocationSound
  <2>4. Enter(c, i) /\ UNCHANGED ledger
    BY <1>2 DEF Invoke
  <2> HIDE DEF i
  <2>5. GatewayInv'
    BY <2>1, <2>3, <2>4, EnterSound
  <2> QED
    BY <2>2, <2>4, <2>5 DEF Enter, GatewayInv, GatewayTypeOK
<1>3. ASSUME NEW f \in Failures, InvokeRefused(c, p, f)
      PROVE  GatewayInv' /\ invocation'[c].prompt = p /\ ledger' = ledger
  <2> DEFINE k == [NoInvocation EXCEPT !.prompt = p]
  <2>1. k \in Invocation
    BY NoInvocationSound DEF Invocation
  <2>2. k.prompt = p /\ k.calls = 0 /\ k.entries = <<>>
    BY DEF NoInvocation
  <2>3. Enter(c, Raised(k, f)) /\ UNCHANGED ledger
    BY <1>3 DEF InvokeRefused
  <2> HIDE DEF k
  <2>4. Trail(k.entries)
    BY <2>2 DEF Trail
  <2>5. Raised(k, f) \in Invocation /\ InvocationSound(Raised(k, f))
        /\ Raised(k, f).prompt = p
    BY <1>1, <2>1, <2>2, <2>4, RaisedSound
  <2>6. GatewayInv'
    BY <2>3, <2>5, EnterSound
  <2> QED
    BY <2>3, <2>5, <2>6 DEF Enter, GatewayInv, GatewayTypeOK
<1> QED
  BY <1>2, <1>3

LEMMA ForgetStep ==
    ASSUME GatewayInv, NEW c \in Callers, Forget(c)
    PROVE  GatewayInv' /\ ledger' = ledger
  BY NoInvocationSound, EnterSound DEF Forget

\* A call of the provider: the prompt stays, and the ledger gains that prompt
\* or the repair's.
LEMMA ProviderSound ==
    ASSUME GatewayInv, NEW c \in Callers, ProviderStep(c)
    PROVE  /\ GatewayInv'
           /\ invocation'[c].prompt = Prompt(c)
           /\ \/ ledger' = ledger
              \/ Record(c, Prompt(c)) \/ Record(c, P11)
<1> DEFINE i == invocation[c]
           Done(k) == /\ Enter(c, k)
                      /\ \/ ledger' = ledger
                         \/ Record(c, Prompt(c)) \/ Record(c, P11)
                      /\ k \in Invocation
                      /\ InvocationSound(k)
                      /\ k.prompt = i.prompt
<1>1. i \in Invocation /\ InvocationSound(i)
  BY DEF GatewayInv, GatewayTypeOK
<1>2. ASSUME NEW k, Done(k)
      PROVE  /\ GatewayInv'
             /\ invocation'[c].prompt = Prompt(c)
             /\ \/ ledger' = ledger
                \/ Record(c, Prompt(c)) \/ Record(c, P11)
  <2>1. Prompt(c) \in Prompts \cup {P11} /\ invocation \in [Callers -> Invocation]
    BY <1>1 DEF Prompt, Invocation, GatewayInv, GatewayTypeOK
  <2>2. GatewayInv'
    BY <1>2, <2>1, EnterSound
  <2>3. invocation'[c] = k
    BY <1>2, <2>1 DEF Enter
  <2> QED
    BY <1>2, <2>2, <2>3 DEF Prompt
<1> SUFFICES \E k : Done(k)
  BY <1>2
<1>3. Results = {"RETRYABLE", "SAFETY_BLOCK", "PROVIDER_ERROR", "SCHEMA_INVALID",
                 "SCHEMA_VALID"}
      /\ Failures = {"TRANSIENT", "SECURITY", "PERMANENT"}
  BY DEF Results, Failures
<1>4. RetryLimit(i.prompt) \in 0 .. 2 /\ i.prompt = Prompt(c)
      /\ (i.place # "idle" => i.prompt \in Prompts)
  <2>1. i.place # "idle" => i.prompt \in Prompts
    BY <1>1 DEF InvocationSound
  <2>2. i.place # "idle"
    BY DEF ProviderStep, AttemptFails, AttemptBlocked, AttemptBreaks,
       AttemptMisleads, AttemptInvalid, AttemptAnswers, RepairBlocked,
       RepairTimesOut, RepairInvalid, RepairMisleads, RepairRaises,
       RepairUseless, RepairAnswers, InPlace
  <2> QED
    BY <2>1, <2>2, LimitIsNat DEF Prompt
<1> HIDE DEF i
<1>5. ASSUME i.place = "attempt", NEW r \in Results, NEW k, k = Called(i, i.prompt, r)
      PROVE  /\ k \in Invocation /\ k.prompt \in Prompts /\ k.prompt = i.prompt
             /\ k.calls <= RetryLimit(k.prompt) + 2 /\ Trail(k.entries)
  <2>1. k \in Invocation /\ k.prompt = i.prompt /\ k.calls <= RetryLimit(i.prompt) + 1
        /\ Trail(k.entries)
    BY <1>1, <1>5, AttemptCalled
  <2> QED
    BY <2>1, <1>4, <1>5 DEF Invocation
<1>6. ASSUME i.place = "repair", NEW r \in Results, NEW k, k = Called(i, P11, r)
      PROVE  /\ k \in Invocation /\ k.prompt \in Prompts /\ k.prompt = i.prompt
             /\ k.calls <= RetryLimit(k.prompt) + 2 /\ Trail(k.entries)
  BY <1>1, <1>4, <1>6, RepairCalled
<1>7. CASE AttemptFails(c)
  <2> DEFINE k == Called(i, i.prompt, "RETRYABLE")
  <2>1. i.place = "attempt" /\ Record(c, Prompt(c))
        /\ Enter(c, IF RetriesLeft(c) THEN [k EXCEPT !.attempt = k.attempt + 1]
                    ELSE Raised(k, "TRANSIENT"))
    BY <1>4, <1>7 DEF AttemptFails, InPlace, i
  <2>2. /\ k \in Invocation /\ k.prompt = i.prompt /\ k.attempt = i.attempt
        /\ k.calls = i.attempt /\ Len(k.entries) = k.calls
        /\ AllRetried(k.entries, Len(k.entries) - 1)
        /\ k.entries[Len(k.entries)].prompt = i.prompt
        /\ k.entries[Len(k.entries)].result = "RETRYABLE"
        /\ k.calls <= RetryLimit(i.prompt) + 1 /\ Trail(k.entries)
    <3>1. "RETRYABLE" \in Results
      BY <1>3
    <3> QED
      BY <1>1, <2>1, <3>1, AttemptCalled
  <2>3. k.place = "attempt"
    BY <1>1, <2>1 DEF Called, Invocation
  <2> HIDE DEF k
  <2>4. CASE RetriesLeft(c)
    <3> DEFINE n == [k EXCEPT !.attempt = k.attempt + 1]
    <3>1. i.attempt \in Nat /\ i.attempt \in 1 .. RetryLimit(i.prompt)
      BY <1>1, <1>4, <2>1, <2>4 DEF RetriesLeft, InvocationSound, i, Invocation
    <3>2. n \in Invocation /\ n.place = "attempt" /\ n.prompt = i.prompt
          /\ n.attempt = i.attempt + 1 /\ n.calls = i.attempt /\ n.entries = k.entries
      BY <2>2, <2>3, <3>1 DEF Invocation
    <3>3. AllRetried(k.entries, Len(k.entries))
      <4>1. Len(k.entries) \in Nat /\ Len(k.entries) = i.attempt
        BY <2>2, <3>1
      <4>2. Retried(k.entries[Len(k.entries)])
        BY <1>4, <2>1, <2>2, GatewayConstants DEF Retried
      <4> QED
        BY <2>2, <3>1, <4>1, <4>2 DEF AllRetried
    <3> HIDE DEF n
    <3>4. InvocationSound(n)
      BY <1>4, <2>1, <2>2, <3>1, <3>2, <3>3 DEF InvocationSound
    <3>5. Enter(c, n)
      BY <2>1, <2>4 DEF n
    <3> QED
      BY <2>1, <3>2, <3>4, <3>5
  <2>5. CASE ~RetriesLeft(c)
    <3>1. Raised(k, "TRANSIENT") \in Invocation /\ InvocationSound(Raised(k, "TRANSIENT"))
          /\ Raised(k, "TRANSIENT").prompt = k.prompt
      <4>1. k.prompt \in Prompts /\ k.calls <= RetryLimit(k.prompt) + 2
        BY <1>4, <2>1, <2>2 DEF Invocation
      <4> QED
        BY <1>3, <2>2, <4>1, RaisedSound
    <3> QED
      BY <2>1, <2>2, <2>5, <3>1
  <2> QED
    BY <2>4, <2>5
<1>8. ASSUME NEW r \in Results, NEW f \in Failures, i.place = "attempt",
             Enter(c, Raised(Called(i, i.prompt, r), f)), Record(c, Prompt(c))
      PROVE  \E k : Done(k)
  <2>1. PICK k : k = Called(i, i.prompt, r)
    OBVIOUS
  <2>2. k \in Invocation /\ k.prompt \in Prompts /\ k.prompt = i.prompt
        /\ k.calls <= RetryLimit(k.prompt) + 2 /\ Trail(k.entries)
    BY <1>5, <1>8, <2>1
  <2>3. Raised(k, f) \in Invocation /\ InvocationSound(Raised(k, f))
        /\ Raised(k, f).prompt = k.prompt
    BY <2>2, RaisedSound
  <2> QED
    BY <1>8, <2>1, <2>2, <2>3
<1>9. ASSUME NEW r \in Results, NEW f \in Failures, i.place = "repair",
             Enter(c, Raised(Called(i, P11, r), f)), Record(c, P11)
      PROVE  \E k : Done(k)
  <2>1. PICK k : k = Called(i, P11, r)
    OBVIOUS
  <2>2. k \in Invocation /\ k.prompt \in Prompts /\ k.prompt = i.prompt
        /\ k.calls <= RetryLimit(k.prompt) + 2 /\ Trail(k.entries)
    BY <1>6, <1>9, <2>1
  <2>3. Raised(k, f) \in Invocation /\ InvocationSound(Raised(k, f))
        /\ Raised(k, f).prompt = k.prompt
    BY <2>2, RaisedSound
  <2> QED
    BY <1>9, <2>1, <2>2, <2>3
<1>10. CASE AttemptBlocked(c) \/ AttemptBreaks(c) \/ AttemptMisleads(c)
  <2>1. CASE AttemptBlocked(c)
    BY <1>3, <1>4, <1>8, <2>1 DEF AttemptBlocked, AfterBlock, InPlace, i
  <2>2. CASE AttemptBreaks(c)
    BY <1>3, <1>4, <1>8, <2>2 DEF AttemptBreaks, InPlace, i
  <2>3. CASE AttemptMisleads(c)
    BY <1>3, <1>4, <1>8, <2>3 DEF AttemptMisleads, InPlace, i
  <2> QED
    BY <1>10, <2>1, <2>2, <2>3
<1>11. CASE AttemptInvalid(c)
  <2> DEFINE k == Called(i, i.prompt, "SCHEMA_INVALID")
             n == [k EXCEPT !.place = "repair"]
  <2>1. i.place = "attempt" /\ Record(c, Prompt(c)) /\ Enter(c, n)
    BY <1>4, <1>11 DEF AttemptInvalid, InPlace, i
  <2>2. /\ k \in Invocation /\ k.prompt = i.prompt
        /\ k.calls = i.attempt /\ Len(k.entries) = k.calls
        /\ AllRetried(k.entries, Len(k.entries) - 1)
        /\ k.entries[Len(k.entries)].prompt = i.prompt
        /\ k.entries[Len(k.entries)].result = "SCHEMA_INVALID"
        /\ k.calls <= RetryLimit(i.prompt) + 1
    <3>1. "SCHEMA_INVALID" \in Results
      BY <1>3
    <3> QED
      BY <1>1, <2>1, <3>1, AttemptCalled
  <2> HIDE DEF k
  <2>3. n \in Invocation /\ n.place = "repair" /\ n.prompt = i.prompt
        /\ n.calls = k.calls /\ n.entries = k.entries
    BY <2>2 DEF Invocation
  <2> HIDE DEF n
  <2>4. Len(k.entries) > 0
    BY <1>1, <1>4, <2>1, <2>2 DEF InvocationSound
  <2>5. InvocationSound(n)
    BY <1>4, <2>1, <2>2, <2>3, <2>4, GatewayConstants DEF InvocationSound
  <2> QED
    BY <2>1, <2>3, <2>5
<1>12. CASE RepairBlocked(c)
  <2>1. i.place = "repair" /\ ledger' = ledger /\ Enter(c, Raised(i, "PERMANENT"))
    BY <1>12 DEF RepairBlocked, InPlace, i
  <2>2. i.calls <= RetryLimit(i.prompt) + 2 /\ Trail(i.entries)
    <3>1. i.calls \in Nat /\ i.entries \in Seq(Entry)
      BY <1>1 DEF Invocation
    <3>2. Len(i.entries) \in Nat
      BY <3>1
    <3>3. /\ i.calls <= RetryLimit(i.prompt) + 1
          /\ AllRetried(i.entries, Len(i.entries) - 1)
      BY <1>1, <2>1 DEF InvocationSound
    <3> QED
      BY <1>4, <3>1, <3>2, <3>3 DEF Trail, AllRetried, Retried
  <2>3. i.prompt \in Prompts
    BY <1>4, <2>1
  <2>4. Raised(i, "PERMANENT") \in Invocation /\ InvocationSound(Raised(i, "PERMANENT"))
        /\ Raised(i, "PERMANENT").prompt = i.prompt
    BY <1>1, <1>3, <2>2, <2>3, RaisedSound
  <2> QED
    BY <2>1, <2>4
<1>13. CASE RepairTimesOut(c) \/ RepairInvalid(c) \/ RepairMisleads(c)
  <2>1. CASE RepairTimesOut(c)
    BY <1>3, <1>9, <2>1 DEF RepairTimesOut, InPlace, i
  <2>2. CASE RepairInvalid(c)
    BY <1>3, <1>9, <2>2 DEF RepairInvalid, AfterInvalidRepair, InPlace, i
  <2>3. CASE RepairMisleads(c)
    BY <1>3, <1>9, <2>3 DEF RepairMisleads, InPlace, i
  <2> QED
    BY <1>13, <2>1, <2>2, <2>3
<1>14. CASE \E f \in Failures : RepairUseless(c, f)
  BY <1>3, <1>9, <1>14 DEF RepairUseless, InPlace, i
<1>15. ASSUME NEW f \in Failures, RepairRaises(c, f)
       PROVE  \E k : Done(k)
  <2> DEFINE n == i.calls + 1
             k == [i EXCEPT !.calls = n, !.unledgered = 1]
  <2>1. i.place = "repair" /\ ledger' = ledger /\ Enter(c, Raised(k, f))
    BY <1>15 DEF RepairRaises, InPlace, i
  <2>2. i.calls \in Nat /\ i.entries \in Seq(Entry) /\ Len(i.entries) \in Nat
    BY <1>1 DEF Invocation
  <2>0. n \in Nat /\ n = i.calls + 1
    BY <2>2
  <2> HIDE DEF n
  <2>3. k \in Invocation /\ k.prompt = i.prompt /\ k.calls = n
        /\ k.entries = i.entries
    BY <1>1, <2>0 DEF Invocation
  <2> HIDE DEF k
  <2>4. /\ i.calls <= RetryLimit(i.prompt) + 1
        /\ AllRetried(i.entries, Len(i.entries) - 1)
    BY <1>1, <2>1 DEF InvocationSound
  <2>5. Trail(k.entries)
    BY <2>2, <2>3, <2>4 DEF Trail, AllRetried, Retried
  <2>6. k.calls <= RetryLimit(k.prompt) + 2
    BY <1>4, <2>0, <2>2, <2>3, <2>4
  <2>7. k.prompt \in Prompts
    BY <1>4, <2>1, <2>3
  <2>8. Raised(k, f) \in Invocation /\ InvocationSound(Raised(k, f))
        /\ Raised(k, f).prompt = k.prompt
    BY <2>3, <2>5, <2>6, <2>7, RaisedSound
  <2> QED
    BY <2>1, <2>3, <2>8
<1>16. ASSUME NEW a, AttemptAnswers(c, a)
       PROVE  \E k : Done(k)
  <2>1. PICK k : k = Called(i, i.prompt, "SCHEMA_VALID")
    OBVIOUS
  <2>2. i.place = "attempt" /\ Record(c, Prompt(c)) /\ a \in Answers[i.prompt]
        /\ Enter(c, Returned(k, a, FALSE))
    BY <1>4, <1>16, <2>1 DEF AttemptAnswers, InPlace, i
  <2>3. k \in Invocation /\ k.prompt \in Prompts /\ k.prompt = i.prompt
        /\ k.calls <= RetryLimit(k.prompt) + 2 /\ Trail(k.entries)
    BY <1>3, <1>5, <2>1, <2>2
  <2>4. Returned(k, a, FALSE) \in Invocation /\ InvocationSound(Returned(k, a, FALSE))
        /\ Returned(k, a, FALSE).prompt = k.prompt
    BY <2>2, <2>3, ReturnedSound
  <2> QED
    BY <2>2, <2>3, <2>4
<1>17. ASSUME NEW a, RepairAnswers(c, a)
       PROVE  \E k : Done(k)
  <2>1. PICK k : k = Called(i, P11, "SCHEMA_VALID")
    OBVIOUS
  <2>2. i.place = "repair" /\ Record(c, P11) /\ a \in Answers[i.prompt]
        /\ Enter(c, Returned(k, a, TRUE))
    BY <1>4, <1>17, <2>1 DEF RepairAnswers, InPlace, i
  <2>3. k \in Invocation /\ k.prompt \in Prompts /\ k.prompt = i.prompt
        /\ k.calls <= RetryLimit(k.prompt) + 2 /\ Trail(k.entries)
    BY <1>3, <1>6, <2>1, <2>2
  <2>4. Returned(k, a, TRUE) \in Invocation /\ InvocationSound(Returned(k, a, TRUE))
        /\ Returned(k, a, TRUE).prompt = k.prompt
    BY <2>2, <2>3, ReturnedSound
  <2> QED
    BY <2>2, <2>3, <2>4
<1> HIDE DEF Done
<1> QED
  BY <1>7, <1>10, <1>11, <1>12, <1>13, <1>14, <1>15, <1>16, <1>17 DEF ProviderStep

LEMMA GatewayStep ==
    ASSUME GatewayInv, [GatewayNext]_gatewayVars
    PROVE  GatewayInv'
<1>1. CASE UNCHANGED gatewayVars
  BY <1>1 DEF gatewayVars, GatewayInv, GatewayTypeOK
<1>2. ASSUME NEW c \in Callers, NEW p \in Prompts,
             Invoke(c, p) \/ \E f \in Failures : InvokeRefused(c, p, f)
      PROVE  GatewayInv'
  BY <1>2, InvokeStep
<1>3. ASSUME NEW c \in Callers, ProviderStep(c) \/ Forget(c)
      PROVE  GatewayInv'
  BY <1>3, ProviderSound, ForgetStep
<1> QED
  BY <1>1, <1>2, <1>3 DEF GatewayNext

LEMMA GatewayInvSpares == GatewayInv => ProviderSpared
<1> SUFFICES ASSUME GatewayInv, NEW c \in Callers, NEW i, i = invocation[c]
             PROVE  /\ i.place # "idle" =>
                         i.calls <= (IF i.prompt \in Prompts THEN RetryLimit(i.prompt)
                                                             ELSE 0) + 2
                    /\ Trail(i.entries)
  BY DEF ProviderSpared, CallsBounded, NoEvasion
<1>1. i \in Invocation /\ InvocationSound(i)
  BY DEF GatewayInv, GatewayTypeOK
<1>2. i.calls \in Nat /\ i.entries \in Seq(Entry) /\ Len(i.entries) \in Nat
      /\ i.place \in {"idle", "attempt", "repair", "done", "error"}
  BY <1>1 DEF Invocation
<1>3. CASE i.place = "idle"
  BY <1>1, <1>3 DEF InvocationSound, NoInvocation, Trail
<1>4. CASE i.place # "idle"
  <2>1. i.prompt \in Prompts /\ RetryLimit(i.prompt) \in 0 .. 2
    BY <1>1, <1>4, LimitIsNat DEF InvocationSound
  <2>2. i.calls <= RetryLimit(i.prompt) + 2
    BY <1>1, <1>2, <1>4, <2>1 DEF InvocationSound
  <2>3. CASE i.place \in {"attempt", "repair"}
    <3>1. AllRetried(i.entries, Len(i.entries) - 1)
      BY <1>1, <1>2, <2>3 DEF InvocationSound, AllRetried
    <3>2. Trail(i.entries)
      BY <1>2, <3>1 DEF Trail, AllRetried, Retried
    <3> QED
      BY <2>1, <2>2, <3>2
  <2>4. CASE i.place \in {"done", "error"}
    BY <1>1, <2>1, <2>2, <2>4 DEF InvocationSound
  <2> QED
    BY <1>2, <1>4, <2>3, <2>4
<1> QED
  BY <1>3, <1>4

\* However the provider and the callers behave, an invocation asks it a bounded
\* number of times and nothing after a refusal (gateway.py, invoke).
THEOREM GatewaySparesProvider == GatewaySpec => []ProviderSpared
<1>1. GatewaySpec => []GatewayInv
  BY GatewayInitInv, GatewayStep, PTL DEF GatewaySpec
<1> QED
  BY <1>1, GatewayInvSpares, PTL

-----------------------------------------------------------------------------
(***************************************************************************)
(* Sequences.                                                              *)
(***************************************************************************)
LEMMA TailRange ==
    ASSUME NEW S, NEW s \in Seq(S), s # <<>>
    PROVE  /\ Tail(s) \in Seq(S)
           /\ Head(s) \in S
           /\ Head(s) \in Range(s)
           /\ Range(Tail(s)) \subseteq Range(s)
           /\ IsInjective(s) => IsInjective(Tail(s)) /\ Head(s) \notin Range(Tail(s))
<1>1. /\ Len(s) \in Nat \ {0} /\ DOMAIN s = 1 .. Len(s)
      /\ Head(s) = s[1] /\ s[1] \in S
  OBVIOUS
<1>2. /\ Tail(s) \in Seq(S) /\ Len(Tail(s)) = Len(s) - 1
      /\ DOMAIN Tail(s) = 1 .. Len(s) - 1
      /\ \A n \in 1 .. Len(s) - 1 : Tail(s)[n] = s[n + 1]
  BY <1>1
<1>3. Range(Tail(s)) \subseteq Range(s)
  <2> SUFFICES ASSUME NEW n \in 1 .. Len(s) - 1
               PROVE  Tail(s)[n] \in Range(s)
    BY <1>2 DEF Range
  <2>1. n + 1 \in 1 .. Len(s)
    BY <1>1
  <2> QED
    BY <1>1, <1>2, <2>1 DEF Range
<1>4. ASSUME IsInjective(s)
      PROVE  IsInjective(Tail(s)) /\ Head(s) \notin Range(Tail(s))
  <2>1. \A n \in 1 .. Len(s) - 1 : n + 1 \in 1 .. Len(s) /\ 1 \in 1 .. Len(s) /\ n + 1 # 1
    BY <1>1
  <2>2. \A n, k \in 1 .. Len(s) : s[n] = s[k] => n = k
    BY <1>1, <1>4 DEF IsInjective
  <2>3. \A n, k \in 1 .. Len(s) - 1 : s[n + 1] = s[k + 1] => n = k
    <3> SUFFICES ASSUME NEW n \in 1 .. Len(s) - 1, NEW k \in 1 .. Len(s) - 1,
                        s[n + 1] = s[k + 1]
                 PROVE  n = k
      OBVIOUS
    <3>1. n + 1 = k + 1
      BY <2>1, <2>2
    <3> QED
      BY <3>1
  <2>4. \A n \in 1 .. Len(s) - 1 : s[n + 1] # s[1]
    BY <2>1, <2>2
  <2> QED
    BY <1>1, <1>2, <2>3, <2>4 DEF IsInjective, Range
<1> QED
  BY <1>1, <1>2, <1>3, <1>4 DEF Range

LEMMA AppendRange ==
    ASSUME NEW S, NEW s \in Seq(S), NEW e \in S
    PROVE  /\ Append(s, e) \in Seq(S)
           /\ Range(Append(s, e)) = Range(s) \cup {e}
           /\ IsInjective(s) /\ e \notin Range(s) => IsInjective(Append(s, e))
<1>1. /\ Append(s, e) \in Seq(S)
      /\ Len(s) \in Nat
      /\ DOMAIN s = 1 .. Len(s)
      /\ DOMAIN Append(s, e) = 1 .. Len(s) + 1
      /\ \A n \in 1 .. Len(s) : Append(s, e)[n] = s[n]
      /\ Append(s, e)[Len(s) + 1] = e
  OBVIOUS
<1>2. \A n \in 1 .. Len(s) + 1 : n \in 1 .. Len(s) \/ n = Len(s) + 1
  BY <1>1
<1>3. \A n \in 1 .. Len(s) : n \in 1 .. Len(s) + 1
  BY <1>1
<1>4. Len(s) + 1 \in 1 .. Len(s) + 1
  BY <1>1
<1>5. Range(Append(s, e)) = Range(s) \cup {e}
  BY <1>1, <1>2, <1>3, <1>4, Zenon DEF Range
<1>6. IsInjective(s) /\ e \notin Range(s) => IsInjective(Append(s, e))
  BY <1>1, <1>2 DEF IsInjective, Range
<1> QED
  BY <1>1, <1>5, <1>6

LEMMA ConcatInjective ==
    ASSUME NEW S, NEW s \in Seq(S), NEW t \in Seq(S), IsInjective(s \o t)
    PROVE  IsInjective(s) /\ IsInjective(t) /\ Range(s) \cap Range(t) = {}
<1>1. /\ Len(s) \in Nat /\ Len(t) \in Nat
      /\ DOMAIN s = 1 .. Len(s) /\ DOMAIN t = 1 .. Len(t)
      /\ DOMAIN (s \o t) = 1 .. Len(s) + Len(t)
      /\ \A n \in 1 .. Len(s) : (s \o t)[n] = s[n]
      /\ \A n \in 1 .. Len(t) : (s \o t)[Len(s) + n] = t[n]
  OBVIOUS
<1>2. \A n, k \in 1 .. Len(s) + Len(t) : (s \o t)[n] = (s \o t)[k] => n = k
  BY <1>1 DEF IsInjective
<1>3. \A n \in 1 .. Len(s) : n \in 1 .. Len(s) + Len(t)
  BY <1>1
<1>4. \A n \in 1 .. Len(t) : Len(s) + n \in 1 .. Len(s) + Len(t)
  BY <1>1
<1>5. IsInjective(s)
  BY <1>1, <1>2, <1>3 DEF IsInjective
<1>6. ASSUME NEW n \in 1 .. Len(t), NEW k \in 1 .. Len(t), t[n] = t[k]
      PROVE  n = k
  <2>1. Len(s) + n = Len(s) + k
    BY <1>1, <1>2, <1>4, <1>6
  <2> QED
    BY <1>1, <2>1
<1>7. ASSUME NEW n \in 1 .. Len(s), NEW k \in 1 .. Len(t), s[n] = t[k]
      PROVE  FALSE
  <2>1. n = Len(s) + k
    BY <1>1, <1>2, <1>3, <1>4, <1>7
  <2> QED
    BY <1>1, <2>1
<1>8. IsInjective(t)
  BY <1>1, <1>6 DEF IsInjective
<1>9. Range(s) \cap Range(t) = {}
  BY <1>1, <1>7 DEF Range
<1> QED
  BY <1>5, <1>8, <1>9

LEMMA EmptyRange == Range(<<>>) = {} /\ IsInjective(<<>>)
  BY DEF Range, IsInjective

-----------------------------------------------------------------------------
(***************************************************************************)
(* Stages, their prompts and their outputs.                                *)
(***************************************************************************)
LEMMA StageOrder ==
    /\ \A n \in Nat : n \in 1 .. Len(Stages) <=> n \in {1, 2, 3, 4, 5, 6, 7}
    /\ Order("SUBMISSION_PARSE") = 1
    /\ Order("EVIDENCE_MAP") = 2
    /\ Order("ASSESSMENT_PLAN") = 3
    /\ Order("QUESTION_GENERATE") = 4
    /\ Order("QUESTION_REVIEW") = 5
    /\ Order("GUIDE_BUILD") = 6
<1>1. Len(Stages) = 7
  BY DEF Stages
<1>2. /\ Stages[1] = "SUBMISSION_PARSE" /\ Stages[2] = "EVIDENCE_MAP"
      /\ Stages[3] = "ASSESSMENT_PLAN" /\ Stages[4] = "QUESTION_GENERATE"
      /\ Stages[5] = "QUESTION_REVIEW" /\ Stages[6] = "GUIDE_BUILD"
      /\ Stages[7] = "ASSEMBLE"
  BY DEF Stages
<1>3. \A n \in 1 .. Len(Stages) : n = 1 \/ n = 2 \/ n = 3 \/ n = 4 \/ n = 5 \/ n = 6 \/ n = 7
  BY <1>1
<1>4. ASSUME NEW stage, NEW m \in 1 .. Len(Stages), Stages[m] = stage,
             \A n \in 1 .. Len(Stages) : Stages[n] = stage => n = m
      PROVE  Order(stage) = m
  BY <1>4 DEF Order
<1>5. Order("SUBMISSION_PARSE") = 1
  BY <1>1, <1>2, <1>3, <1>4
<1>6. Order("EVIDENCE_MAP") = 2
  BY <1>1, <1>2, <1>3, <1>4
<1>7. Order("ASSESSMENT_PLAN") = 3
  BY <1>1, <1>2, <1>3, <1>4
<1>8. Order("QUESTION_GENERATE") = 4
  BY <1>1, <1>2, <1>3, <1>4
<1>9. Order("QUESTION_REVIEW") = 5
  BY <1>1, <1>2, <1>3, <1>4
<1>10. Order("GUIDE_BUILD") = 6
  BY <1>1, <1>2, <1>3, <1>4
<1> QED
  BY <1>1, <1>5, <1>6, <1>7, <1>8, <1>9, <1>10

\* What may be executed at a stage may be executed at the one that follows.
LEMMA AllowedGrows ==
    ASSUME NEW floor
    PROVE  /\ Allowed(floor, "SUBMISSION_PARSE") => Allowed(floor, "EVIDENCE_MAP")
           /\ Allowed(floor, "EVIDENCE_MAP") => Allowed(floor, "ASSESSMENT_PLAN")
           /\ Allowed(floor, "ASSESSMENT_PLAN") => Allowed(floor, "QUESTION_GENERATE")
           /\ Allowed(floor, "QUESTION_GENERATE") => Allowed(floor, "QUESTION_REVIEW")
           /\ Allowed(floor, "QUESTION_REVIEW") => Allowed(floor, "QUESTION_GENERATE")
           /\ Allowed(floor, "QUESTION_REVIEW") => Allowed(floor, "GUIDE_BUILD")
<1> DEFINE UpTo(n) == {Stages[k] : k \in 1 .. n}
<1>1. /\ UpTo(1) \subseteq UpTo(2) /\ UpTo(2) \subseteq UpTo(3) /\ UpTo(3) \subseteq UpTo(4)
      /\ UpTo(4) \subseteq UpTo(5) /\ UpTo(5) \subseteq UpTo(6)
  <2>1. /\ \A k \in 1 .. 1 : k \in 1 .. 2
        /\ \A k \in 1 .. 2 : k \in 1 .. 3
        /\ \A k \in 1 .. 3 : k \in 1 .. 4
        /\ \A k \in 1 .. 4 : k \in 1 .. 5
        /\ \A k \in 1 .. 5 : k \in 1 .. 6
    OBVIOUS
  <2> QED
    BY <2>1, Zenon
<1>2. "QUESTION_REVIEW" \in UpTo(5)
  <2>1. Stages[5] = "QUESTION_REVIEW" /\ 5 \in 1 .. 5
    BY DEF Stages
  <2> QED
    BY <2>1
<1>3. \A f \in UpTo(5) : f \in UpTo(4) \/ f = "QUESTION_REVIEW"
  <2>1. Stages[5] = "QUESTION_REVIEW" /\ \A k \in 1 .. 5 : k \in 1 .. 4 \/ k = 5
    BY DEF Stages
  <2> QED
    BY <2>1
<1>4. \A s \in {"SUBMISSION_PARSE", "EVIDENCE_MAP", "ASSESSMENT_PLAN",
                 "QUESTION_GENERATE", "QUESTION_REVIEW", "GUIDE_BUILD"} :
        Allowed(floor, s) <=>
           \/ floor \in {"NONE"} \cup UpTo(Order(s))
           \/ floor = "QUESTION_REVIEW" /\ s = "QUESTION_GENERATE"
  BY DEF Allowed
<1> HIDE DEF UpTo
<1> QED
  BY <1>1, <1>2, <1>3, <1>4, StageOrder

LEMMA KeyStage ==
    ASSUME NEW k, IsKey(k)
    PROVE  /\ StageOf(k) \in {"SUBMISSION_PARSE", "EVIDENCE_MAP", "ASSESSMENT_PLAN",
                              "QUESTION_GENERATE", "QUESTION_REVIEW", "GUIDE_BUILD"}
           /\ StageOf(k) = "QUESTION_GENERATE" => k[2] \in Mappings /\ k[3] \in Opportunities
           /\ StageOf(k) = "QUESTION_REVIEW" => k[2] \in Opportunities /\ k[3] \in Candidates
<1>1. CASE k = ParseKey \/ k = MapKey \/ \E m \in Mappings : k = PlanKey(m)
  BY <1>1 DEF ParseKey, MapKey, PlanKey, StageOf
<1>2. CASE \E m \in Mappings, o \in Opportunities : k = GenerateKey(m, o)
  BY <1>2 DEF GenerateKey, StageOf
<1>3. CASE \E o \in Opportunities, q \in Candidates : k = ReviewKey(o, q)
  BY <1>3 DEF ReviewKey, StageOf
<1>4. CASE StageOf(k) = "GUIDE_BUILD"
  BY <1>4
<1> QED
  BY <1>1, <1>2, <1>3, <1>4 DEF IsKey

LEMMA StagePrompts ==
    /\ PromptOf("EVIDENCE_MAP") = "P06" /\ PromptOf("QUESTION_GENERATE") = "P07"
    /\ PromptOf("QUESTION_REVIEW") = "P08" /\ PromptOf("GUIDE_BUILD") = "P09"
    /\ Prompts = {"P06", "P07", "P08", "P09"}
    /\ P11 \notin Prompts
    /\ ApplicationStages = {"SUBMISSION_PARSE", "ASSESSMENT_PLAN"}
    /\ StageNames \ (ApplicationStages \cup {"ASSEMBLE"})
         = {"EVIDENCE_MAP", "QUESTION_GENERATE", "QUESTION_REVIEW", "GUIDE_BUILD"}
    /\ {"SUBMISSION_PARSE", "EVIDENCE_MAP", "ASSESSMENT_PLAN",
        "QUESTION_GENERATE", "QUESTION_REVIEW", "GUIDE_BUILD"} \subseteq StageNames
<1>1. StageNames = {"SUBMISSION_PARSE", "EVIDENCE_MAP", "ASSESSMENT_PLAN",
                    "QUESTION_GENERATE", "QUESTION_REVIEW", "GUIDE_BUILD", "ASSEMBLE"}
  <2>1. Len(Stages) = 7 /\ Stages[1] = "SUBMISSION_PARSE" /\ Stages[2] = "EVIDENCE_MAP"
        /\ Stages[3] = "ASSESSMENT_PLAN" /\ Stages[4] = "QUESTION_GENERATE"
        /\ Stages[5] = "QUESTION_REVIEW" /\ Stages[6] = "GUIDE_BUILD"
        /\ Stages[7] = "ASSEMBLE"
    BY DEF Stages
  <2>2. \A n : n \in 1 .. 7 <=> n \in {1, 2, 3, 4, 5, 6, 7}
    OBVIOUS
  <2>3. StageNames = {Stages[n] : n \in {1, 2, 3, 4, 5, 6, 7}}
    BY <2>1, <2>2 DEF StageNames
  <2> QED
    BY <2>1, <2>3
<1> QED
  BY <1>1, GatewayConstants, PipelineConstants
  DEF PromptOf, ApplicationStages, PipelinePrompts

LEMMA StageOutputs ==
    /\ OutputsOf("SUBMISSION_PARSE") = {"SUBMISSION_PARSE"}
    /\ OutputsOf("EVIDENCE_MAP") = Mappings
    /\ OutputsOf("ASSESSMENT_PLAN") = {"ASSESSMENT_PLAN"}
    /\ OutputsOf("QUESTION_GENERATE") = Candidates \cup {NotReady}
    /\ OutputsOf("QUESTION_REVIEW") = {"ACCEPT", "REJECT"}
    /\ OutputsOf("GUIDE_BUILD") = {"READY", "NEEDS_REVIEW", "FAILED"}
  BY StagePrompts, PipelineConstants DEF OutputsOf

-----------------------------------------------------------------------------
(***************************************************************************)
(* What an execution holds after a stage.                                  *)
(***************************************************************************)
LEMMA HeldGrows ==
    ASSUME NEW w, NEW floor, NEW rev, HeldSound(w, floor, rev),
           NEW rev2, rev \subseteq rev2
    PROVE  HeldSound(w, floor, rev2)
  BY DEF HeldSound

LEMMA HeldAnyFloor ==
    ASSUME NEW w, NEW floor, NEW rev, HeldSound(w, floor, rev), ~Working(w),
           NEW floor2
    PROVE  HeldSound(w, floor2, rev)
  BY DEF HeldSound, FloorSound

LEMMA StoppedFields ==
    ASSUME NEW place,
           NEW w, w = [place |-> place, at |-> ParseKey, out |-> NoAnswer, reached |-> FALSE,
                       map |-> NoAnswer, queue |-> <<>>, reserves |-> <<>>,
                       selected |-> <<>>, prompts |-> {}, guide |-> 0]
    PROVE  /\ w.place = place /\ w.at = ParseKey /\ w.out = NoAnswer /\ w.reached = FALSE
           /\ w.map = NoAnswer /\ w.queue = <<>> /\ w.reserves = <<>>
           /\ w.selected = <<>> /\ w.prompts = {} /\ w.guide = 0
           /\ w = [place |-> w.place, at |-> w.at, out |-> w.out,
                   reached |-> w.reached, map |-> w.map, queue |-> w.queue,
                   reserves |-> w.reserves, selected |-> w.selected,
                   prompts |-> w.prompts, guide |-> w.guide]
  OBVIOUS

LEMMA StoppedSound ==
    ASSUME NEW place \in {"idle", "ended", "set"}, NEW floor, NEW rev,
           NEW w, w = NoWorkerAt(place)
    PROVE  HeldSound(w, floor, rev) /\ FinalSound(w) /\ w.place = place
<1>1. w = [place |-> place, at |-> ParseKey, out |-> NoAnswer, reached |-> FALSE,
           map |-> NoAnswer, queue |-> <<>>, reserves |-> <<>>,
           selected |-> <<>>, prompts |-> {}, guide |-> 0]
  BY DEF NoWorkerAt, NoWorker
<1>2. /\ w.place = place /\ w.at = ParseKey /\ w.out = NoAnswer /\ w.reached = FALSE
      /\ w.map = NoAnswer /\ w.queue = <<>> /\ w.reserves = <<>>
      /\ w.selected = <<>> /\ w.prompts = {} /\ w.guide = 0
      /\ w = [place |-> w.place, at |-> w.at, out |-> w.out,
              reached |-> w.reached, map |-> w.map, queue |-> w.queue,
              reserves |-> w.reserves, selected |-> w.selected,
              prompts |-> w.prompts, guide |-> w.guide]
  BY <1>1, StoppedFields
<1>3. WorkerTyped(w)
  <2>1. IsKey(ParseKey)
    BY DEF IsKey
  <2>2. w.queue \in Seq(Opportunities) /\ w.reserves \in Seq(Opportunities)
        /\ w.selected \in Seq(Accepted)
    BY <1>2
  <2>3. /\ w.reached \in BOOLEAN /\ w.prompts \subseteq Prompts \cup {P11}
        /\ w.guide \in Jobs \cup {0}
    BY <1>2
  <2>4. w = NoWorkerAt(w.place)
    BY <1>2
  <2> QED
    BY <1>2, <2>1, <2>2, <2>3, <2>4 DEF WorkerTyped, WorkerPlaces, WorkingPlaces
<1>4. StageOf(w.at) = "SUBMISSION_PARSE"
  BY <1>2 DEF StageOf, ParseKey
<1>5. AtSound(w)
  BY <1>2, <1>4 DEF AtSound
<1>6. Opened(w) = {} /\ Waiting(w) = {} /\ Range(w.selected) = {}
  BY <1>2, EmptyRange DEF Opened, Waiting
<1>7. Distinct(w)
  <2>1. IsInjective(w.queue) /\ IsInjective(w.reserves) /\ Range(w.queue) = {}
    BY <1>2, EmptyRange
  <2>2. Len(w.selected) = 0
    BY <1>2
  <2> QED
    BY <1>6, <2>1, <2>2 DEF Distinct
<1>8. CurrentFresh(w)
  BY <1>6 DEF CurrentFresh
<1>9. FloorSound(w, floor)
  BY <1>2 DEF FloorSound
<1>10. FinalSound(w)
  BY <1>2 DEF FinalSound
<1> QED
  BY <1>2, <1>3, <1>5, <1>6, <1>7, <1>8, <1>9, <1>10 DEF HeldSound

\* An execution that leaves the stages with what it has accepted.
LEMMA DecidedSound ==
    ASSUME NEW w, WorkerTyped(w), Distinct(w), NEW floor, NEW rev,
           Range(w.selected) \subseteq rev,
           NEW place \in {"refused", "review", "broken", "finalize"},
           NEW r, r = Decided(w, place)
    PROVE  /\ HeldSound(r, floor, rev) /\ r.place = place
           /\ r.map = w.map /\ r.selected = w.selected /\ r.prompts = w.prompts /\ r.guide = w.guide
           /\ r.at = w.at
<1>1. r = [place |-> place, at |-> w.at, out |-> NoAnswer,
           reached |-> w.reached, map |-> w.map, queue |-> w.queue,
           reserves |-> w.reserves, selected |-> w.selected,
           prompts |-> w.prompts, guide |-> w.guide]
  BY DEF Decided, WorkerTyped
<1>2. /\ r.place = place /\ r.at = w.at /\ r.out = NoAnswer /\ r.reached = w.reached
      /\ r.map = w.map /\ r.queue = w.queue /\ r.reserves = w.reserves
      /\ r.selected = w.selected /\ r.prompts = w.prompts /\ r.guide = w.guide
      /\ r = [place |-> r.place, at |-> r.at, out |-> r.out,
              reached |-> r.reached, map |-> r.map, queue |-> r.queue,
              reserves |-> r.reserves, selected |-> r.selected,
              prompts |-> r.prompts, guide |-> r.guide]
  BY <1>1
<1>3. WorkerTyped(r)
  BY <1>2 DEF WorkerTyped, WorkerPlaces
<1>4. ~Working(r)
  BY <1>2 DEF Working, WorkingPlaces
<1>5. Distinct(r)
  BY <1>2 DEF Distinct, Opened, Waiting
<1> QED
  BY <1>2, <1>3, <1>4, <1>5 DEF HeldSound, AtSound, FloorSound

\* An execution that has a guide to publish.
LEMMA GuidedSound ==
    ASSUME NEW w, NEW floor, NEW rev, HeldSound(w, floor, rev),
           w.place = "finalize", NEW g \in Jobs, NEW r, r = [w EXCEPT !.guide = g]
    PROVE  /\ HeldSound(r, floor, rev) /\ r.place = w.place
           /\ r.map = w.map /\ r.selected = w.selected /\ r.prompts = w.prompts
           /\ r.at = w.at /\ r.guide = g
<1>1. WorkerTyped(w) /\ Distinct(w) /\ Range(w.selected) \subseteq rev
  BY DEF HeldSound
<1>2. r = [place |-> w.place, at |-> w.at, out |-> w.out,
           reached |-> w.reached, map |-> w.map, queue |-> w.queue,
           reserves |-> w.reserves, selected |-> w.selected,
           prompts |-> w.prompts, guide |-> g]
  BY <1>1 DEF WorkerTyped
<1>3. /\ r.place = w.place /\ r.at = w.at /\ r.out = w.out /\ r.reached = w.reached
      /\ r.map = w.map /\ r.queue = w.queue /\ r.reserves = w.reserves
      /\ r.selected = w.selected /\ r.prompts = w.prompts /\ r.guide = g
      /\ r = [place |-> r.place, at |-> r.at, out |-> r.out,
              reached |-> r.reached, map |-> r.map, queue |-> r.queue,
              reserves |-> r.reserves, selected |-> r.selected,
              prompts |-> r.prompts, guide |-> r.guide]
  BY <1>2
<1>4. WorkerTyped(r)
  BY <1>1, <1>3 DEF WorkerTyped
<1>5. ~Working(r)
  BY <1>3 DEF Working, WorkingPlaces
<1>6. Distinct(r)
  BY <1>1, <1>3 DEF Distinct, Opened, Waiting
<1> QED
  BY <1>1, <1>3, <1>4, <1>5, <1>6 DEF HeldSound, AtSound, FloorSound

\* An execution that goes to another stage.
LEMMA StageSound ==
    ASSUME NEW w, WorkerTyped(w), Distinct(w), NEW floor, NEW rev,
           Range(w.selected) \subseteq rev,
           NEW r, WorkerTyped(r),
           r.place \in {"set", "look"},
           r.reached = w.reached, r.selected = w.selected,
           AtSound(r), Distinct(r), CurrentFresh(r),
           r.reached => Allowed(floor, StageOf(r.at))
    PROVE  HeldSound(r, floor, rev)
  BY DEF HeldSound, FloorSound

LEMMA NextQuestionSound ==
    ASSUME GatewayInv, NEW j \in Jobs, NEW w, WorkerTyped(w), Distinct(w),
           w.map \in Mappings, NEW floor, NEW rev,
           Range(w.selected) \subseteq rev,
           w.reached => /\ Allowed(floor, "QUESTION_GENERATE")
                        /\ Allowed(floor, "GUIDE_BUILD"),
           NEW r, r = NextQuestion(j, w)
    PROVE  /\ HeldSound(r, floor, rev)
           /\ r.place \in {"look", "set", "review"}
           /\ w.queue # <<>> /\ Len(w.selected) < Len(PlanOf[w.map].selected) =>
                r.place = "look" /\ StageOf(r.at) = "QUESTION_GENERATE"
<1>1. /\ w = [place |-> w.place, at |-> w.at, out |-> w.out,
              reached |-> w.reached, map |-> w.map, queue |-> w.queue,
              reserves |-> w.reserves, selected |-> w.selected,
              prompts |-> w.prompts, guide |-> w.guide]
      /\ w.reached \in BOOLEAN
      /\ w.map \in Mappings
      /\ w.queue \in Seq(Opportunities)
      /\ w.reserves \in Seq(Opportunities)
      /\ w.selected \in Seq(Accepted)
      /\ w.prompts \subseteq Prompts \cup {P11} /\ w.guide \in Jobs \cup {0}
  BY DEF WorkerTyped
<1>2. CASE w.queue # <<>> /\ Len(w.selected) < Len(PlanOf[w.map].selected)
  <2>1. r = [w EXCEPT !.place = "look", !.out = NoAnswer,
                   !.at = GenerateKey(w.map, Head(w.queue)),
                   !.queue = Tail(w.queue)]
    BY <1>2 DEF NextQuestion
  <2>2. r = [place |-> "look", at |-> GenerateKey(w.map, Head(w.queue)), out |-> NoAnswer,
             reached |-> w.reached, map |-> w.map, queue |-> Tail(w.queue),
             reserves |-> w.reserves, selected |-> w.selected,
             prompts |-> w.prompts, guide |-> w.guide]
    BY <1>1, <2>1
  <2>3. /\ r.place = "look" /\ r.at = GenerateKey(w.map, Head(w.queue)) /\ r.out = NoAnswer
        /\ r.reached = w.reached /\ r.map = w.map /\ r.queue = Tail(w.queue)
        /\ r.reserves = w.reserves /\ r.selected = w.selected
        /\ r.prompts = w.prompts /\ r.guide = w.guide
        /\ r = [place |-> r.place, at |-> r.at, out |-> r.out,
                reached |-> r.reached, map |-> r.map, queue |-> r.queue,
                reserves |-> r.reserves, selected |-> r.selected,
                prompts |-> r.prompts, guide |-> r.guide]
    BY <2>2
  <2>4. /\ Tail(w.queue) \in Seq(Opportunities)
        /\ Head(w.queue) \in Opportunities
        /\ Head(w.queue) \in Range(w.queue)
        /\ Range(Tail(w.queue)) \subseteq Range(w.queue)
        /\ IsInjective(Tail(w.queue)) /\ Head(w.queue) \notin Range(Tail(w.queue))
    BY <1>1, <1>2, TailRange DEF Distinct
  <2>5. IsKey(r.at)
    BY <1>1, <2>3, <2>4 DEF IsKey
  <2>6. /\ StageOf(r.at) = "QUESTION_GENERATE" /\ r.at[3] = Head(w.queue)
    BY <2>3 DEF StageOf, GenerateKey
  <2>7. WorkerTyped(r)
    BY <1>1, <2>3, <2>4, <2>5 DEF WorkerTyped, WorkerPlaces, WorkingPlaces
  <2>8. AtSound(r)
    BY <1>1, <2>3, <2>6 DEF AtSound
  <2>9. Distinct(r)
    BY <2>3, <2>4 DEF Distinct, Opened, Waiting
  <2>10. Current(r) \subseteq {Head(w.queue)}
    BY <2>6 DEF Current
  <2>11. Head(w.queue) \notin Opened(r) \cup Waiting(r)
    BY <2>3, <2>4 DEF Distinct, Opened, Waiting
  <2>12. CurrentFresh(r)
    BY <2>10, <2>11 DEF CurrentFresh
  <2> QED
    BY <2>3, <2>6, <2>7, <2>8, <2>9, <2>12, StageSound
<1>3. CASE /\ ~(w.queue # <<>> /\ Len(w.selected) < Len(PlanOf[w.map].selected))
           /\ Len(w.selected) # Len(PlanOf[w.map].selected)
  <2>1. r = Decided(w, "review")
    BY <1>3 DEF NextQuestion
  <2> QED
    BY <1>3, <2>1, DecidedSound
<1>4. CASE /\ ~(w.queue # <<>> /\ Len(w.selected) < Len(PlanOf[w.map].selected))
           /\ Len(w.selected) = Len(PlanOf[w.map].selected)
  <2> DEFINE p == Snapshots(j)
  <2>1. r = [[w EXCEPT !.prompts = p] EXCEPT !.place = "set",
               !.at = GuideKey(w.map, w.selected, p), !.out = NoAnswer]
    BY <1>4 DEF NextQuestion, NextStage
  <2>2. p \subseteq Prompts \cup {P11}
    <3>1. \A k \in Lineage(j) : k \in Callers
      BY PipelineConstants DEF Lineage, Jobs
    <3> QED
      BY <3>1 DEF Snapshots, GatewayInv, GatewayTypeOK
  <2> HIDE DEF p
  <2>3. r = [place |-> "set", at |-> GuideKey(w.map, w.selected, p), out |-> NoAnswer,
             reached |-> w.reached, map |-> w.map, queue |-> w.queue,
             reserves |-> w.reserves, selected |-> w.selected,
             prompts |-> p, guide |-> w.guide]
    BY <1>1, <2>1
  <2>4. /\ r.place = "set" /\ r.at = GuideKey(w.map, w.selected, p) /\ r.out = NoAnswer
        /\ r.reached = w.reached /\ r.map = w.map /\ r.queue = w.queue
        /\ r.reserves = w.reserves /\ r.selected = w.selected /\ r.prompts = p /\ r.guide = w.guide
        /\ r = [place |-> r.place, at |-> r.at, out |-> r.out,
                reached |-> r.reached, map |-> r.map, queue |-> r.queue,
                reserves |-> r.reserves, selected |-> r.selected,
                prompts |-> r.prompts, guide |-> r.guide]
    BY <2>3
  <2>5. /\ StageOf(r.at) = "GUIDE_BUILD" /\ r.at[2] = w.map /\ r.at[3] = w.selected
        /\ r.at[4] = p
    BY <2>4 DEF StageOf, GuideKey
  <2>6. IsKey(r.at)
    BY <1>1, <2>2, <2>4, <2>5 DEF IsKey
  <2>7. WorkerTyped(r)
    BY <1>1, <2>2, <2>4, <2>6 DEF WorkerTyped, WorkerPlaces, WorkingPlaces
  <2>8. AtSound(r)
    BY <1>1, <1>4, <2>4, <2>5 DEF AtSound, Complete
  <2>9. Distinct(r)
    BY <2>4 DEF Distinct, Opened, Waiting
  <2>10. CurrentFresh(r)
    BY <2>5 DEF CurrentFresh, Current
  <2> QED
    BY <1>4, <2>4, <2>5, <2>7, <2>8, <2>9, <2>10, StageSound
<1> QED
  BY <1>2, <1>3, <1>4

LEMMA OpenedGrows ==
    ASSUME NEW s \in Seq(Accepted), NEW e \in Accepted
    PROVE  /\ Append(s, e) \in Seq(Accepted)
           /\ \A n \in 1 .. Len(Append(s, e)) :
                \/ n \in 1 .. Len(s) /\ Append(s, e)[n] = s[n]
                \/ n = Len(s) + 1 /\ Append(s, e)[n] = e
  OBVIOUS

\* The executions the three steps of the loop start the next question with.
WithAccepted(w, e) == [w EXCEPT !.selected = Append(w.selected, e)]
WithReserve(w) ==
    [w EXCEPT !.queue = Append(w.queue, Head(w.reserves)),
              !.reserves = Tail(w.reserves)]
WithPlan(w) ==
    [w EXCEPT !.queue = PlanOf[w.map].selected,
              !.reserves = PlanOf[w.map].reserve]

\* A question accepted: its opportunity waits nowhere, and was not accepted
\* before.
LEMMA AcceptedDistinct ==
    ASSUME NEW w, WorkerTyped(w), Distinct(w), NEW o \in Opportunities,
           NEW q \in Candidates, o \notin Opened(w) \cup Waiting(w),
           NEW v, v = WithAccepted(w, <<o, q>>),
           w.place \in WorkingPlaces
    PROVE  /\ WorkerTyped(v) /\ Distinct(v)
           /\ v.map = w.map /\ v.reached = w.reached
           /\ Range(v.selected) = Range(w.selected) \cup {<<o, q>>}
<1> DEFINE s == Append(w.selected, <<o, q>>)
<1>1. /\ w = [place |-> w.place, at |-> w.at, out |-> w.out,
              reached |-> w.reached, map |-> w.map, queue |-> w.queue,
              reserves |-> w.reserves, selected |-> w.selected,
              prompts |-> w.prompts, guide |-> w.guide]
      /\ w.selected \in Seq(Accepted)
  BY DEF WorkerTyped
<1>2. <<o, q>> \in Accepted /\ <<o, q>>[1] = o
  BY DEF Accepted
<1>3. /\ s \in Seq(Accepted)
      /\ \A n \in 1 .. Len(s) :
           \/ n \in 1 .. Len(w.selected) /\ s[n] = w.selected[n]
           \/ n = Len(w.selected) + 1 /\ s[n] = <<o, q>>
  BY <1>1, <1>2, OpenedGrows
<1>4. Range(s) = Range(w.selected) \cup {<<o, q>>}
  BY <1>1, <1>2, AppendRange
<1> HIDE DEF s
<1>5. v = [place |-> w.place, at |-> w.at, out |-> w.out,
           reached |-> w.reached, map |-> w.map, queue |-> w.queue,
           reserves |-> w.reserves, selected |-> s, prompts |-> w.prompts, guide |-> w.guide]
  BY <1>1 DEF s, WithAccepted
<1>6. /\ v.place = w.place /\ v.at = w.at /\ v.out = w.out /\ v.reached = w.reached
      /\ v.map = w.map /\ v.queue = w.queue /\ v.reserves = w.reserves
      /\ v.selected = s /\ v.prompts = w.prompts /\ v.guide = w.guide
      /\ v = [place |-> v.place, at |-> v.at, out |-> v.out,
              reached |-> v.reached, map |-> v.map, queue |-> v.queue,
              reserves |-> v.reserves, selected |-> v.selected,
              prompts |-> v.prompts, guide |-> v.guide]
  BY <1>5
<1>7. WorkerTyped(v)
  BY <1>3, <1>6 DEF WorkerTyped, WorkingPlaces
<1>8. \A n \in 1 .. Len(s) : s[n][1] \in Opened(w) \/ s[n][1] = o
  BY <1>2, <1>3 DEF Opened
<1>9. Opened(v) \cap Waiting(v) = {}
  BY <1>6, <1>8 DEF Opened, Waiting, Distinct
<1>10. \A n, k \in 1 .. Len(s) : s[n][1] = s[k][1] => n = k
  <2> SUFFICES ASSUME NEW n \in 1 .. Len(s), NEW k \in 1 .. Len(s), s[n][1] = s[k][1]
               PROVE  n = k
    OBVIOUS
  <2>1. \A m \in 1 .. Len(w.selected) : w.selected[m][1] # o
    BY DEF Opened
  <2>2. CASE s[n][1] = o
    BY <1>2, <1>3, <2>1, <2>2
  <2>3. CASE s[n][1] # o
    BY <1>2, <1>3, <2>3 DEF Distinct
  <2> QED
    BY <2>2, <2>3
<1>11. Distinct(v)
  BY <1>6, <1>9, <1>10 DEF Distinct
<1> QED
  BY <1>4, <1>6, <1>7, <1>11

\* A reserve moved to the end of the queue.
LEMMA SubstitutedDistinct ==
    ASSUME NEW w, WorkerTyped(w), Distinct(w), w.reserves # <<>>,
           NEW v, v = WithReserve(w),
           w.place \in WorkingPlaces
    PROVE  /\ WorkerTyped(v) /\ Distinct(v)
           /\ v.map = w.map /\ v.reached = w.reached /\ v.selected = w.selected
<1> DEFINE q == Append(w.queue, Head(w.reserves))
           t == Tail(w.reserves)
<1>1. /\ w = [place |-> w.place, at |-> w.at, out |-> w.out,
              reached |-> w.reached, map |-> w.map, queue |-> w.queue,
              reserves |-> w.reserves, selected |-> w.selected,
              prompts |-> w.prompts, guide |-> w.guide]
      /\ w.queue \in Seq(Opportunities)
      /\ w.reserves \in Seq(Opportunities)
  BY DEF WorkerTyped
<1>2. /\ t \in Seq(Opportunities)
      /\ Head(w.reserves) \in Opportunities
      /\ Head(w.reserves) \in Range(w.reserves)
      /\ Range(t) \subseteq Range(w.reserves)
      /\ IsInjective(t) /\ Head(w.reserves) \notin Range(t)
  BY <1>1, TailRange DEF Distinct
<1>3. Head(w.reserves) \notin Range(w.queue)
  BY <1>2 DEF Distinct
<1>4. /\ q \in Seq(Opportunities)
      /\ Range(q) = Range(w.queue) \cup {Head(w.reserves)}
      /\ IsInjective(q)
  BY <1>1, <1>2, <1>3, AppendRange DEF Distinct
<1> HIDE DEF q, t
<1>5. v = [place |-> w.place, at |-> w.at, out |-> w.out,
           reached |-> w.reached, map |-> w.map, queue |-> q,
           reserves |-> t, selected |-> w.selected, prompts |-> w.prompts, guide |-> w.guide]
  BY <1>1 DEF q, t, WithReserve
<1>6. /\ v.place = w.place /\ v.at = w.at /\ v.out = w.out /\ v.reached = w.reached
      /\ v.map = w.map /\ v.queue = q /\ v.reserves = t
      /\ v.selected = w.selected /\ v.prompts = w.prompts /\ v.guide = w.guide
      /\ v = [place |-> v.place, at |-> v.at, out |-> v.out,
              reached |-> v.reached, map |-> v.map, queue |-> v.queue,
              reserves |-> v.reserves, selected |-> v.selected,
              prompts |-> v.prompts, guide |-> v.guide]
  BY <1>5
<1>7. WorkerTyped(v)
  BY <1>2, <1>4, <1>6 DEF WorkerTyped, WorkingPlaces
<1>8. Range(q) \cup Range(t) \subseteq Range(w.queue) \cup Range(w.reserves)
  BY <1>2, <1>4
<1>9. Range(q) \cap Range(t) = {}
  BY <1>2, <1>4 DEF Distinct
<1>10. Opened(v) \cap Waiting(v) = {}
  BY <1>6, <1>8 DEF Opened, Waiting, Distinct
<1>11. Distinct(v)
  BY <1>2, <1>4, <1>6, <1>9, <1>10 DEF Distinct
<1> QED
  BY <1>6, <1>7, <1>11

LEMMA SubstituteSound ==
    ASSUME GatewayInv, NEW j \in Jobs, NEW w, WorkerTyped(w), Distinct(w),
           w.place \in WorkingPlaces,
           w.map \in Mappings, NEW floor, NEW rev,
           Range(w.selected) \subseteq rev,
           w.reached => /\ Allowed(floor, "QUESTION_GENERATE")
                        /\ Allowed(floor, "GUIDE_BUILD"),
           NEW r, r = Substitute(j, w)
    PROVE  HeldSound(r, floor, rev) /\ r.place \in {"look", "set", "review"}
<1>1. CASE w.reserves = <<>>
  <2>1. r = Decided(w, "review")
    BY <1>1 DEF Substitute
  <2> QED
    BY <2>1, DecidedSound
<1>2. CASE w.reserves # <<>>
  <2>1. PICK v : v = WithReserve(w)
    OBVIOUS
  <2>2. r = NextQuestion(j, v)
    BY <1>2, <2>1 DEF Substitute, WithReserve
  <2>3. WorkerTyped(v) /\ Distinct(v)
        /\ v.map = w.map /\ v.reached = w.reached /\ v.selected = w.selected
    BY <1>2, <2>1, SubstitutedDistinct
  <2>4. v.map \in Mappings /\ Range(v.selected) \subseteq rev
        /\ (v.reached => Allowed(floor, "QUESTION_GENERATE") /\ Allowed(floor, "GUIDE_BUILD"))
    BY <2>3
  <2> QED
    BY <2>2, <2>3, <2>4, NextQuestionSound
<1> QED
  BY <1>1, <1>2

\* The plan of a mapping, at the beginning of the loop over it.
LEMMA PlanDistinct ==
    ASSUME NEW w, WorkerTyped(w), w.selected = <<>>, w.map \in Mappings,
           w.place \in WorkingPlaces,
           NEW v, v = WithPlan(w)
    PROVE  /\ WorkerTyped(v) /\ Distinct(v)
           /\ v.map = w.map /\ v.reached = w.reached /\ v.selected = w.selected
           /\ v.queue = PlanOf[w.map].selected
<1> DEFINE q == PlanOf[w.map].selected
           t == PlanOf[w.map].reserve
<1>1. /\ q \in Seq(Opportunities) /\ t \in Seq(Opportunities)
      /\ IsInjective(q \o t)
  BY PipelineConstants
<1>2. w = [place |-> w.place, at |-> w.at, out |-> w.out,
           reached |-> w.reached, map |-> w.map, queue |-> w.queue,
           reserves |-> w.reserves, selected |-> w.selected,
           prompts |-> w.prompts, guide |-> w.guide]
  BY DEF WorkerTyped
<1> HIDE DEF q, t
<1>3. IsInjective(q) /\ IsInjective(t) /\ Range(q) \cap Range(t) = {}
  BY <1>1, ConcatInjective
<1>4. v = [place |-> w.place, at |-> w.at, out |-> w.out,
           reached |-> w.reached, map |-> w.map, queue |-> q,
           reserves |-> t, selected |-> w.selected, prompts |-> w.prompts, guide |-> w.guide]
  BY <1>2 DEF q, t, WithPlan
<1>5. /\ v.place = w.place /\ v.at = w.at /\ v.out = w.out /\ v.reached = w.reached
      /\ v.map = w.map /\ v.queue = q /\ v.reserves = t
      /\ v.selected = w.selected /\ v.prompts = w.prompts /\ v.guide = w.guide
      /\ v = [place |-> v.place, at |-> v.at, out |-> v.out,
              reached |-> v.reached, map |-> v.map, queue |-> v.queue,
              reserves |-> v.reserves, selected |-> v.selected,
              prompts |-> v.prompts, guide |-> v.guide]
  BY <1>4
<1>6. WorkerTyped(v)
  BY <1>1, <1>5 DEF WorkerTyped, WorkingPlaces
<1>7. Len(v.selected) = 0 /\ Opened(v) = {}
  BY <1>5 DEF Opened
<1>8. Distinct(v)
  BY <1>3, <1>5, <1>7 DEF Distinct
<1> QED
  BY <1>5, <1>6, <1>8 DEF q

\* The stage that follows one whose output is only handed on.
Staged(w, key, m) ==
    [w EXCEPT !.place = "set", !.at = key, !.out = NoAnswer, !.map = m]

LEMMA NextStageSound ==
    ASSUME NEW w, WorkerTyped(w), Distinct(w), NEW floor, NEW rev,
           Range(w.selected) \subseteq rev,
           NEW m \in Mappings \cup {NoAnswer},
           NEW key, IsKey(key),
           StageOf(key) \in {"EVIDENCE_MAP", "ASSESSMENT_PLAN"} => w.selected = <<>>,
           StageOf(key) \in {"EVIDENCE_MAP", "ASSESSMENT_PLAN", "QUESTION_REVIEW"},
           StageOf(key) # "EVIDENCE_MAP" => m \in Mappings,
           StageOf(key) = "QUESTION_REVIEW" => key[2] \notin Opened(w) \cup Waiting(w),
           w.reached => Allowed(floor, StageOf(key)),
           NEW r, r = Staged(w, key, m)
    PROVE  HeldSound(r, floor, rev) /\ r.place = "set"
<1>1. /\ w = [place |-> w.place, at |-> w.at, out |-> w.out,
              reached |-> w.reached, map |-> w.map, queue |-> w.queue,
              reserves |-> w.reserves, selected |-> w.selected,
              prompts |-> w.prompts, guide |-> w.guide]
  BY DEF WorkerTyped
<1>2. r = [place |-> "set", at |-> key, out |-> NoAnswer,
           reached |-> w.reached, map |-> m, queue |-> w.queue,
           reserves |-> w.reserves, selected |-> w.selected,
           prompts |-> w.prompts, guide |-> w.guide]
  BY <1>1 DEF Staged
<1>3. /\ r.place = "set" /\ r.at = key /\ r.out = NoAnswer /\ r.reached = w.reached
      /\ r.map = m /\ r.queue = w.queue /\ r.reserves = w.reserves
      /\ r.selected = w.selected /\ r.prompts = w.prompts /\ r.guide = w.guide
      /\ r = [place |-> r.place, at |-> r.at, out |-> r.out,
              reached |-> r.reached, map |-> r.map, queue |-> r.queue,
              reserves |-> r.reserves, selected |-> r.selected,
              prompts |-> r.prompts, guide |-> r.guide]
  BY <1>2
<1>4. WorkerTyped(r)
  BY <1>3 DEF WorkerTyped, WorkerPlaces, WorkingPlaces
<1>5. AtSound(r)
  BY <1>3 DEF AtSound
<1>6. Opened(r) = Opened(w) /\ Waiting(r) = Waiting(w)
  BY <1>3 DEF Opened, Waiting
<1>7. Distinct(r)
  BY <1>3, <1>6 DEF Distinct
<1>8. CurrentFresh(r)
  BY <1>3, <1>6 DEF CurrentFresh, Current
<1> QED
  BY <1>3, <1>4, <1>5, <1>7, <1>8, StageSound

\* An execution that stays at its stage.
Moved(w, place, out, reached) ==
    [w EXCEPT !.place = place, !.out = out, !.reached = reached]

LEMMA MovedSound ==
    ASSUME NEW w, NEW floor, NEW rev, HeldSound(w, floor, rev), Working(w),
           NEW place \in WorkingPlaces, NEW out, NEW reached \in BOOLEAN,
           reached => Allowed(floor, StageOf(w.at)),
           place \in {"taken", "save"} => out \in OutputsOf(StageOf(w.at)),
           place = "asking" => StageOf(w.at) \notin ApplicationStages,
           place \in {"asking", "taken", "save"} => reached,
           NEW r, r = Moved(w, place, out, reached)
    PROVE  HeldSound(r, floor, rev) /\ r.place = place /\ r.at = w.at
<1>1. WorkerTyped(w) /\ AtSound(w) /\ Distinct(w) /\ CurrentFresh(w)
      /\ Range(w.selected) \subseteq rev
  BY DEF HeldSound
<1>2. w = [place |-> w.place, at |-> w.at, out |-> w.out,
           reached |-> w.reached, map |-> w.map, queue |-> w.queue,
           reserves |-> w.reserves, selected |-> w.selected,
           prompts |-> w.prompts, guide |-> w.guide]
  BY <1>1 DEF WorkerTyped
<1>3. r = [place |-> place, at |-> w.at, out |-> out,
           reached |-> reached, map |-> w.map, queue |-> w.queue,
           reserves |-> w.reserves, selected |-> w.selected,
           prompts |-> w.prompts, guide |-> w.guide]
  BY <1>2 DEF Moved
<1>4. /\ r.place = place /\ r.at = w.at /\ r.out = out /\ r.reached = reached
      /\ r.map = w.map /\ r.queue = w.queue /\ r.reserves = w.reserves
      /\ r.selected = w.selected /\ r.prompts = w.prompts /\ r.guide = w.guide
      /\ r = [place |-> r.place, at |-> r.at, out |-> r.out,
              reached |-> r.reached, map |-> r.map, queue |-> r.queue,
              reserves |-> r.reserves, selected |-> r.selected,
              prompts |-> r.prompts, guide |-> r.guide]
  BY <1>3
<1>5. WorkerTyped(r)
  BY <1>1, <1>4 DEF WorkerTyped, WorkerPlaces, WorkingPlaces
<1>6. AtSound(r)
  BY <1>1, <1>4 DEF AtSound, Working, Complete
<1>7. Distinct(r) /\ CurrentFresh(r)
  BY <1>1, <1>4 DEF Distinct, CurrentFresh, Opened, Waiting, Current
<1>8. FloorSound(r, floor)
  BY <1>4 DEF FloorSound
<1> QED
  BY <1>1, <1>4, <1>5, <1>6, <1>7, <1>8 DEF HeldSound

WithMap(w, m) == [w EXCEPT !.map = m]

LEMMA NextStageRow ==
    ASSUME NEW w, WorkerTyped(w), NEW key
    PROVE  /\ NextStage(w, key) = Staged(w, key, w.map)
           /\ \A m : NextStage(WithMap(w, m), key) = Staged(w, key, m)
<1>1. w = [place |-> w.place, at |-> w.at, out |-> w.out,
           reached |-> w.reached, map |-> w.map, queue |-> w.queue,
           reserves |-> w.reserves, selected |-> w.selected,
           prompts |-> w.prompts, guide |-> w.guide]
  BY DEF WorkerTyped
<1> QED
  BY <1>1 DEF NextStage, Staged, WithMap

\* An execution that is about to publish has just taken a guide that is ready.
Guided(r, w, out, by) ==
    /\ StageOf(w.at) = "GUIDE_BUILD" /\ out = "READY"
    /\ r.guide = by
    /\ GuideKey(r.map, r.selected, r.prompts) = w.at

LEMMA AdvanceSound ==
    ASSUME GatewayInv, NEW j \in Jobs, NEW w, NEW floor, NEW rev,
           HeldSound(w, floor, rev), w.place \in {"look", "save"},
           NEW out \in OutputsOf(StageOf(w.at)),
           NEW by \in Jobs, NEW r, r = Advance(j, w, out, by)
    PROVE  /\ HeldSound(r, floor, rev \cup Accepts(w, out))
           /\ FinalSound(r)
           /\ r.place \in {"set", "look", "refused", "review", "broken", "finalize"}
           /\ r.place = "finalize" => Guided(r, w, out, by)
<1> DEFINE rev2 == rev \cup Accepts(w, out)
<1>1. /\ WorkerTyped(w) /\ AtSound(w) /\ Distinct(w) /\ CurrentFresh(w)
      /\ Range(w.selected) \subseteq rev /\ Range(w.selected) \subseteq rev2
      /\ w.place \in WorkingPlaces /\ Working(w) /\ IsKey(w.at)
      /\ w.map \in Mappings \cup {NoAnswer} /\ w.reached \in BOOLEAN
  BY DEF HeldSound, Working, WorkingPlaces, WorkerTyped
<1>2. w.reached => Allowed(floor, StageOf(w.at))
  BY <1>1 DEF HeldSound, FloorSound
<1>3. /\ StageOf(w.at) \in {"SUBMISSION_PARSE", "EVIDENCE_MAP", "ASSESSMENT_PLAN",
                            "QUESTION_GENERATE", "QUESTION_REVIEW", "GUIDE_BUILD"}
      /\ StageOf(w.at) = "QUESTION_GENERATE" => w.at[2] \in Mappings /\ w.at[3] \in Opportunities
      /\ StageOf(w.at) = "QUESTION_REVIEW" => w.at[2] \in Opportunities /\ w.at[3] \in Candidates
  BY <1>1, KeyStage
<1> DEFINE Good == /\ HeldSound(r, floor, rev2)
                   /\ FinalSound(r)
                   /\ r.place \in {"set", "look", "refused", "review", "broken", "finalize"}
                   /\ r.place = "finalize" => Guided(r, w, out, by)
<1>4. ASSUME HeldSound(r, floor, rev2), r.place \in {"set", "look", "review"}
      PROVE  Good
  BY <1>4 DEF FinalSound
<1>5. ASSUME NEW place \in {"refused", "review", "broken"}, r = Decided(w, place)
      PROVE  Good
  <2>1. HeldSound(r, floor, rev2) /\ r.place = place
    BY <1>1, <1>5, DecidedSound
  <2> QED
    BY <2>1 DEF FinalSound
<1> SUFFICES Good
  OBVIOUS
<1>6. CASE out \in Unusable
  BY <1>5, <1>6 DEF Advance
<1>7. CASE out \notin Unusable /\ StageOf(w.at) = "SUBMISSION_PARSE"
  <2> DEFINE key == MapKey
  <2>1. r = NextStage(w, key)
    BY <1>7 DEF Advance
  <2>2. IsKey(key) /\ StageOf(key) = "EVIDENCE_MAP"
    BY DEF IsKey, MapKey, StageOf
  <2> HIDE DEF key
  <2>3. r = Staged(w, key, w.map)
    BY <1>1, <2>1, NextStageRow
  <2>4. w.selected = <<>>
    BY <1>1, <1>7 DEF AtSound
  <2>5. w.reached => Allowed(floor, "EVIDENCE_MAP")
    BY <1>2, <1>7, AllowedGrows
  <2>6. PICK m \in Mappings \cup {NoAnswer} : m = w.map
    BY <1>1
  <2>7. r = Staged(w, key, m)
    BY <2>3, <2>6
  <2>8. /\ StageOf(key) \in {"EVIDENCE_MAP", "ASSESSMENT_PLAN"} => w.selected = <<>>
        /\ StageOf(key) \in {"EVIDENCE_MAP", "ASSESSMENT_PLAN", "QUESTION_REVIEW"}
        /\ StageOf(key) # "EVIDENCE_MAP" => m \in Mappings
        /\ StageOf(key) = "QUESTION_REVIEW" => key[2] \notin Opened(w) \cup Waiting(w)
        /\ w.reached => Allowed(floor, StageOf(key))
    BY <2>2, <2>4, <2>5
  <2>9. HeldSound(r, floor, rev2) /\ r.place = "set"
    <3>1. WorkerTyped(w) /\ Distinct(w) /\ Range(w.selected) \subseteq rev2
      BY <1>1
    <3>2. IsKey(key)
      BY <2>2
    <3> HIDE DEF rev2
    <3> QED
      BY <2>7, <2>8, <3>1, <3>2, NextStageSound, Zenon
  <2> QED
    BY <1>4, <2>9
<1>8. CASE out \notin Unusable /\ StageOf(w.at) = "EVIDENCE_MAP"
  <2>1. r = NextStage(WithMap(w, out), PlanKey(out))
    BY <1>8 DEF Advance, WithMap
  <2>2. r = Staged(w, PlanKey(out), out)
    BY <1>1, <2>1, NextStageRow
  <2>3. out \in Mappings
    BY <1>8, StageOutputs
  <2>4. IsKey(PlanKey(out)) /\ StageOf(PlanKey(out)) = "ASSESSMENT_PLAN"
    BY <2>3 DEF IsKey, PlanKey, StageOf
  <2>5. w.selected = <<>>
    BY <1>1, <1>8 DEF AtSound
  <2>6. w.reached => Allowed(floor, "ASSESSMENT_PLAN")
    BY <1>2, <1>8, AllowedGrows
  <2>7. HeldSound(r, floor, rev2) /\ r.place = "set"
    BY <1>1, <2>2, <2>3, <2>4, <2>5, <2>6, NextStageSound
  <2> QED
    BY <1>4, <2>7
<1>9. CASE out \notin Unusable /\ StageOf(w.at) = "ASSESSMENT_PLAN"
  <2>1. w.map \in Mappings /\ w.selected = <<>>
    BY <1>1, <1>9 DEF AtSound
  <2>2. CASE ~PlanOf[w.map].ready
    BY <1>5, <1>9, <2>2 DEF Advance
  <2>3. CASE PlanOf[w.map].ready
    <3>1. PICK v : v = WithPlan(w)
      OBVIOUS
    <3>2. PICK n : n = NextQuestion(j, v)
      OBVIOUS
    <3>3. r = [n EXCEPT !.place = "set"]
      BY <1>9, <2>3, <3>1, <3>2 DEF Advance, WithPlan
    <3>4. /\ WorkerTyped(v) /\ Distinct(v)
          /\ v.map = w.map /\ v.reached = w.reached /\ v.selected = w.selected
          /\ v.queue = PlanOf[w.map].selected
      BY <1>1, <2>1, <3>1, PlanDistinct
    <3>5. v.reached => /\ Allowed(floor, "QUESTION_GENERATE")
                       /\ Allowed(floor, "GUIDE_BUILD")
      BY <1>2, <1>9, <3>4, AllowedGrows
    <3>6. v.queue # <<>> /\ Len(v.selected) < Len(PlanOf[v.map].selected)
      <4>1. /\ PlanOf[w.map].selected \in Seq(Opportunities)
            /\ PlanOf[w.map].selected # <<>>
        BY <2>1, <2>3, PipelineConstants
      <4>2. Len(PlanOf[w.map].selected) > 0
        BY <4>1
      <4> QED
        BY <2>1, <3>4, <4>1, <4>2
    <3>7. v.map \in Mappings /\ Range(v.selected) \subseteq rev2
      BY <1>1, <2>1, <3>4
    <3>8. HeldSound(n, floor, rev2) /\ n.place = "look" /\ StageOf(n.at) = "QUESTION_GENERATE"
      BY <3>2, <3>4, <3>5, <3>6, <3>7, NextQuestionSound
    <3>9. WorkerTyped(n) /\ n.reached \in BOOLEAN /\ Working(n)
          /\ (n.reached => Allowed(floor, StageOf(n.at)))
      BY <3>8 DEF HeldSound, WorkerTyped, Working, WorkingPlaces, FloorSound
    <3>10. r = Moved(n, "set", n.out, n.reached)
      <4>1. n = [place |-> n.place, at |-> n.at, out |-> n.out,
                 reached |-> n.reached, map |-> n.map, queue |-> n.queue,
                 reserves |-> n.reserves, selected |-> n.selected,
                 prompts |-> n.prompts, guide |-> n.guide]
        BY <3>9 DEF WorkerTyped
      <4> QED
        BY <3>3, <4>1 DEF Moved
    <3>11. "set" \in WorkingPlaces
      BY DEF WorkingPlaces
    <3>12. HeldSound(r, floor, rev2) /\ r.place = "set"
      BY <3>8, <3>9, <3>10, <3>11, MovedSound
    <3> QED
      BY <1>4, <3>12
  <2> QED
    BY <2>2, <2>3
<1>10. CASE out \notin Unusable /\ StageOf(w.at) = "QUESTION_GENERATE"
  <2>1. w.map \in Mappings
    BY <1>1, <1>10 DEF AtSound
  <2>2. w.reached => /\ Allowed(floor, "QUESTION_GENERATE")
                     /\ Allowed(floor, "QUESTION_REVIEW")
                     /\ Allowed(floor, "GUIDE_BUILD")
    BY <1>2, <1>10, AllowedGrows
  <2>3. CASE out = NotReady
    <3>1. r = Substitute(j, w)
      BY <1>10, <2>3 DEF Advance
    <3>2. HeldSound(r, floor, rev2) /\ r.place \in {"look", "set", "review"}
      BY <1>1, <2>1, <2>2, <3>1, SubstituteSound
    <3> QED
      BY <1>4, <3>2
  <2>4. CASE out # NotReady
    <3> DEFINE key == ReviewKey(w.at[3], out)
    <3>1. r = NextStage(w, key)
      BY <1>10, <2>4 DEF Advance
    <3>2. out \in Candidates /\ w.at[3] \in Opportunities
      BY <1>3, <1>10, <2>4, StageOutputs
    <3>3. IsKey(key) /\ StageOf(key) = "QUESTION_REVIEW" /\ key[2] = w.at[3]
      BY <3>2 DEF IsKey, ReviewKey, StageOf
    <3>4. w.at[3] \notin Opened(w) \cup Waiting(w)
      BY <1>1, <1>10, <3>2 DEF CurrentFresh, Current
    <3> HIDE DEF key
    <3>5. r = Staged(w, key, w.map)
      BY <1>1, <3>1, NextStageRow
    <3>6. HeldSound(r, floor, rev2) /\ r.place = "set"
      BY <1>1, <2>1, <2>2, <3>3, <3>4, <3>5, NextStageSound
    <3> QED
      BY <1>4, <3>6
  <2> QED
    BY <2>3, <2>4
<1>11. CASE out \notin Unusable /\ StageOf(w.at) = "QUESTION_REVIEW"
  <2>1. w.map \in Mappings
    BY <1>1, <1>11 DEF AtSound
  <2>2. w.reached => /\ Allowed(floor, "QUESTION_GENERATE")
                     /\ Allowed(floor, "GUIDE_BUILD")
    BY <1>2, <1>11, AllowedGrows
  <2>3. r = AfterReview(j, w, out)
    BY <1>11 DEF Advance
  <2>4. CASE out # "ACCEPT"
    <3>1. r = Substitute(j, w)
      BY <2>3, <2>4 DEF AfterReview
    <3>2. HeldSound(r, floor, rev2) /\ r.place \in {"look", "set", "review"}
      BY <1>1, <2>1, <2>2, <3>1, SubstituteSound
    <3> QED
      BY <1>4, <3>2
  <2>5. CASE out = "ACCEPT"
    <3>1. PICK v : v = WithAccepted(w, <<w.at[2], w.at[3]>>)
      OBVIOUS
    <3>2. r = NextQuestion(j, v)
      BY <2>3, <2>5, <3>1 DEF AfterReview, WithAccepted
    <3>3. w.at[2] \in Opportunities /\ w.at[3] \in Candidates
          /\ w.at[2] \notin Opened(w) \cup Waiting(w)
      BY <1>1, <1>3, <1>11 DEF CurrentFresh, Current
    <3>4. /\ WorkerTyped(v) /\ Distinct(v)
          /\ v.map = w.map /\ v.reached = w.reached
          /\ Range(v.selected) = Range(w.selected) \cup {<<w.at[2], w.at[3]>>}
      BY <1>1, <3>1, <3>3, AcceptedDistinct
    <3>5. Range(v.selected) \subseteq rev2
      BY <1>1, <1>11, <2>5, <3>4 DEF Accepts
    <3>6. v.map \in Mappings
          /\ (v.reached => Allowed(floor, "QUESTION_GENERATE") /\ Allowed(floor, "GUIDE_BUILD"))
      BY <2>1, <2>2, <3>4
    <3>7. HeldSound(r, floor, rev2) /\ r.place \in {"look", "set", "review"}
      BY <3>2, <3>4, <3>5, <3>6, NextQuestionSound
    <3> QED
      BY <1>4, <3>7
  <2> QED
    BY <2>4, <2>5
<1>12. CASE out \notin Unusable /\ StageOf(w.at) = "GUIDE_BUILD"
  <2>1. out = "READY" \/ out = "NEEDS_REVIEW" \/ out = "FAILED"
    BY <1>12, StageOutputs
  <2>2. CASE out # "READY"
    <3>1. r = Decided(w, "review") \/ r = Decided(w, "broken")
      BY <1>12, <2>1, <2>2 DEF Advance
    <3> QED
      BY <1>5, <3>1
  <2>3. CASE out = "READY"
    <3>1. PICK d : d = Decided(w, "finalize") /\ r = [d EXCEPT !.guide = by]
      BY <1>12, <2>3 DEF Advance
    <3>2. Complete(w) /\ w.at = GuideKey(w.map, w.selected, w.prompts)
      BY <1>1, <1>12 DEF AtSound
    <3>3. /\ HeldSound(r, floor, rev2) /\ r.place = "finalize"
          /\ r.map = w.map /\ r.selected = w.selected /\ r.prompts = w.prompts
          /\ r.guide = by
      <4>1. /\ HeldSound(d, floor, rev2) /\ d.place = "finalize"
            /\ d.map = w.map /\ d.selected = w.selected /\ d.prompts = w.prompts
        BY <1>1, <3>1, DecidedSound
      <4> QED
        BY <3>1, <4>1, GuidedSound
    <3>4. FinalSound(r) /\ Guided(r, w, out, by)
      BY <1>12, <2>3, <3>2, <3>3 DEF FinalSound, Complete, Guided
    <3> QED
      BY <3>3, <3>4
  <2> QED
    BY <2>2, <2>3
<1> QED
  BY <1>3, <1>6, <1>7, <1>8, <1>9, <1>10, <1>11, <1>12

-----------------------------------------------------------------------------
(***************************************************************************)
(* Frames.  An action touches the rows of one job only.                    *)
(***************************************************************************)
Others(j) ==
    \A k \in Jobs \ {j} :
        /\ job'[k] = job[k]
        /\ invocation'[k] = invocation[k]
        /\ ledger'[k] = ledger[k]

AskedStages == {"EVIDENCE_MAP", "QUESTION_GENERATE", "QUESTION_REVIEW", "GUIDE_BUILD"}

LEMMA MayHave ==
    ASSUME NEW j \in Jobs, NEW stage
    PROVE  MayHaveExecuted(j, stage) <=> Allowed(job[j].floor, stage)
  BY DEF MayHaveExecuted, Reaches, Allowed

LEMMA FloorRespected ==
    BelowFloorOnlyReuse <=>
      \A j \in Jobs :
        /\ \A r \in stageRuns : r.job = j => Allowed(job[j].floor, StageOf(r.key))
        /\ \A stage \in AskedStages :
             PromptOf(stage) \in ledger[j] => Allowed(job[j].floor, stage)
  BY MayHave, StagePrompts DEF BelowFloorOnlyReuse, AskedStages

\* What a reader of the tables relies on survives when they only grow.
LEMMA PublishedKept ==
    ASSUME PublishedReviewed, published' = published, reviewed \subseteq reviewed'
    PROVE  PublishedReviewed'
  BY DEF PublishedReviewed

LEMMA Step ==
    ASSUME PipelineInv, NEW j \in Jobs, GatewayInv', Others(j),
           job' \in [Jobs -> JobRow],
           NEW w, worker' = [worker EXCEPT ![j] = w],
           HeldSound(w, job'[j].floor, reviewed'),
           FinalSound(w),
           w.place = "asking" => invocation'[j].prompt = PromptOf(StageOf(w.at)),
           reviewed \subseteq reviewed', stageRuns \subseteq stageRuns',
           \A r \in stageRuns' \ stageRuns :
               RunSound(r) /\ r.job = j /\ Allowed(job'[j].floor, StageOf(r.key)),
           OneSuccessPerKey',
           \/ job'[j].floor = job[j].floor
           \/ ledger[j] = {} /\ \A r \in stageRuns : r.job # j,
           \A stage \in AskedStages :
               PromptOf(stage) \in ledger'[j] \ ledger[j] => Allowed(job'[j].floor, stage),
           job'[j].status \in {"UNUSED", "QUEUED"} =>
               /\ w.place = "idle"
               /\ ledger'[j] = {}
               /\ \A r \in stageRuns' : r.job # j,
           PublishedReviewed'
    PROVE  PipelineInv'
<1>1. worker = [k \in Jobs |-> worker[k]]
  BY DEF PipelineInv
<1>2. /\ worker' = [k \in Jobs |-> worker'[k]]
      /\ worker'[j] = w
      /\ \A k \in Jobs \ {j} : worker'[k] = worker[k]
  BY <1>1
<1>3. \A r \in stageRuns' : RunSound(r)
  BY DEF PipelineInv
<1>4. ASSUME NEW k \in Jobs \ {j}
      PROVE  /\ HeldSound(worker'[k], job'[k].floor, reviewed')
             /\ FinalSound(worker'[k])
             /\ Unused(k)'
             /\ AskSound(k)'
  <2>1. /\ HeldSound(worker[k], job[k].floor, reviewed)
        /\ FinalSound(worker[k])
        /\ Unused(k) /\ AskSound(k)
    BY DEF PipelineInv
  <2>2. worker'[k] = worker[k] /\ job'[k] = job[k] /\ ledger'[k] = ledger[k]
        /\ invocation'[k] = invocation[k]
    BY <1>2 DEF Others
  <2>3. HeldSound(worker'[k], job'[k].floor, reviewed')
    BY <2>1, <2>2, HeldGrows
  <2>4. FinalSound(worker'[k])
    BY <2>1, <2>2
  <2>5. Unused(k)'
    BY <2>1, <2>2 DEF Unused, Place
  <2>6. AskSound(k)'
    BY <2>1, <2>2 DEF AskSound, Place
  <2> QED
    BY <2>3, <2>4, <2>5, <2>6
<1>5. /\ HeldSound(worker'[j], job'[j].floor, reviewed')
      /\ FinalSound(worker'[j])
      /\ Unused(j)'
      /\ AskSound(j)'
  BY <1>2 DEF Unused, AskSound, Place
<1>6. BelowFloorOnlyReuse'
  <2>1. \A k \in Jobs :
          /\ \A r \in stageRuns : r.job = k => Allowed(job[k].floor, StageOf(r.key))
          /\ \A stage \in AskedStages :
               PromptOf(stage) \in ledger[k] => Allowed(job[k].floor, stage)
    BY FloorRespected DEF PipelineInv
  <2>2. ASSUME NEW k \in Jobs
        PROVE  /\ \A r \in stageRuns' : r.job = k => Allowed(job'[k].floor, StageOf(r.key))
               /\ \A stage \in AskedStages :
                    PromptOf(stage) \in ledger'[k] => Allowed(job'[k].floor, stage)
    <3>1. CASE k # j
      <4>1. job'[k] = job[k] /\ ledger'[k] = ledger[k]
        BY <3>1 DEF Others
      <4> QED
        BY <2>1, <3>1, <4>1
    <3>2. CASE k = j
      BY <2>1, <3>2
    <3> QED
      BY <3>1, <3>2
  <2>3. \A k \in Jobs :
          /\ \A r \in stageRuns' : r.job = k => Allowed(job'[k].floor, StageOf(r.key))
          /\ \A stage \in AskedStages :
               PromptOf(stage) \in ledger'[k] => Allowed(job'[k].floor, stage)
    BY <2>2
  <2>4. BelowFloorOnlyReuse' <=>
          \A k \in Jobs :
            /\ \A r \in stageRuns' : r.job = k => Allowed(job'[k].floor, StageOf(r.key))
            /\ \A stage \in AskedStages :
                 PromptOf(stage) \in ledger'[k] => Allowed(job'[k].floor, stage)
    BY StagePrompts DEF BelowFloorOnlyReuse, AskedStages, MayHaveExecuted, Reaches, Allowed
  <2> QED
    BY <2>3, <2>4
<1>7. \A k \in Jobs :
        /\ HeldSound(worker[k], job[k].floor, reviewed)'
        /\ FinalSound(worker[k])'
        /\ Unused(k)'
        /\ AskSound(k)'
  <2>1. ASSUME NEW k \in Jobs
        PROVE  /\ HeldSound(worker'[k], job'[k].floor, reviewed')
               /\ FinalSound(worker'[k])
               /\ Unused(k)'
               /\ AskSound(k)'
    <3>1. CASE k # j
      BY <1>4, <3>1
    <3>2. CASE k = j
      BY <1>5, <3>2
    <3> QED
      BY <3>1, <3>2
  <2> QED
    BY <2>1
<1> QED
  BY <1>2, <1>3, <1>6, <1>7 DEF PipelineInv

\* The row of the job goes on: nobody else's row is touched, the floor stays.
GoesOn(j) ==
    /\ job' \in [Jobs -> JobRow]
    /\ \A k \in Jobs \ {j} : job'[k] = job[k]
    /\ job'[j].floor = job[j].floor
    /\ job'[j].status \notin {"UNUSED", "QUEUED"}

\* An action that leaves the tables and the ledger alone.
LEMMA QuietStep ==
    ASSUME PipelineInv, NEW j \in Jobs, GatewayInv', GoesOn(j),
           \A k \in Jobs \ {j} : invocation'[k] = invocation[k],
           ledger' = ledger, UnchangedTables,
           NEW w, worker' = [worker EXCEPT ![j] = w],
           HeldSound(w, job[j].floor, reviewed),
           FinalSound(w),
           w.place = "asking" => invocation'[j].prompt = PromptOf(StageOf(w.at))
    PROVE  PipelineInv'
<1>1. /\ stageRuns' = stageRuns /\ reviewed' = reviewed /\ published' = published
  BY DEF UnchangedTables
<1>2. PublishedReviewed'
  BY <1>1, PublishedKept DEF PipelineInv
<1>3. OneSuccessPerKey'
  BY <1>1 DEF PipelineInv, OneSuccessPerKey
<1>4. Others(j)
  BY DEF Others, GoesOn
<1>5. HeldSound(w, job'[j].floor, reviewed') /\ FinalSound(w)
  BY <1>1 DEF GoesOn
<1> QED
  BY <1>1, <1>2, <1>3, <1>4, <1>5, Step DEF GoesOn

LEMMA JobTyped ==
    ASSUME PipelineInv, NEW j \in Jobs
    PROVE  /\ job \in [Jobs -> JobRow] /\ job[j] \in JobRow
           /\ worker[j].place \in WorkerPlaces
           /\ Place(j) # "idle" => job[j].status \notin {"UNUSED", "QUEUED"}
  BY DEF PipelineInv, Unused, HeldSound, WorkerTyped

LEMMA RowUnchanged ==
    ASSUME PipelineInv, NEW j \in Jobs, UnchangedJob,
           job[j].status \notin {"UNUSED", "QUEUED"}
    PROVE  GoesOn(j)
  BY JobTyped DEF GoesOn, UnchangedJob

\* A row written over another.
LEMMA RowWritten ==
    ASSUME PipelineInv, NEW j \in Jobs, NEW r \in JobRow, r.floor = job[j].floor,
           r.status \notin {"UNUSED", "QUEUED"},
           job' = [job EXCEPT ![j] = r]
    PROVE  GoesOn(j)
  BY JobTyped DEF GoesOn

LEMMA RowCancelled ==
    ASSUME PipelineInv, NEW j \in Jobs, CompleteCancellation(j),
           job[j].status \notin {"UNUSED", "QUEUED"}
    PROVE  GoesOn(j)
<1>1. CASE job[j].control = "CANCEL_REQUESTED"
  <2> DEFINE r == [job[j] EXCEPT !.control = "CANCELLED", !.status = "FAILED",
                                 !.failure = "CANCELLATION"]
  <2>1. job' = [job EXCEPT ![j] = r]
    BY <1>1 DEF CompleteCancellation
  <2>2. r \in JobRow /\ r.floor = job[j].floor /\ r.status = "FAILED"
    BY JobTyped DEF JobRow
  <2> HIDE DEF r
  <2> QED
    BY <2>1, <2>2, RowWritten
<1>2. CASE job[j].control # "CANCEL_REQUESTED"
  BY <1>2, RowUnchanged DEF CompleteCancellation
<1> QED
  BY <1>1, <1>2

Outcomes == {"FAILED", "NEEDS_REVIEW", "SUCCEEDED"}
Causes == Failures \cup {"NONE", "PRECONDITION", "VALIDATION", "CANCELLATION"}

LEMMA RowSettled ==
    ASSUME PipelineInv, NEW j \in Jobs, NEW status \in Outcomes,
           NEW failure \in Causes, Settle(j, status, failure),
           job[j].status \notin {"UNUSED", "QUEUED"}
    PROVE  GoesOn(j)
<1>1. CASE Active(j)
  <2> DEFINE r == [job[j] EXCEPT !.status = status, !.failure = failure]
  <2>1. job' = [job EXCEPT ![j] = r]
    BY <1>1 DEF Settle
  <2>2. r \in JobRow /\ r.floor = job[j].floor /\ r.status = status
    BY JobTyped DEF JobRow, Outcomes, Causes
  <2> HIDE DEF r
  <2> QED
    BY <2>1, <2>2, RowWritten DEF Outcomes
<1>2. CASE ~Active(j)
  BY <1>2, RowCancelled DEF Settle
<1> QED
  BY <1>1, <1>2

-----------------------------------------------------------------------------
(***************************************************************************)
(* The actions.                                                            *)
(***************************************************************************)
LEMMA GatewaySame ==
    ASSUME PipelineInv, UnchangedGateway
    PROVE  GatewayInv' /\ invocation' = invocation /\ ledger' = ledger
  BY GatewayInvSpares DEF PipelineInv, UnchangedGateway, gatewayVars, GatewayInv, GatewayTypeOK

\* What is known of the execution that makes a step.
LEMMA Holds ==
    ASSUME PipelineInv, NEW j \in Jobs
    PROVE  /\ HeldSound(worker[j], job[j].floor, reviewed)
           /\ FinalSound(worker[j])
           /\ WorkerTyped(worker[j]) /\ AtSound(worker[j])
           /\ Unused(j) /\ AskSound(j)
           /\ worker = [k \in Jobs |-> worker[k]]
  BY DEF PipelineInv, HeldSound

\* An execution that ends, with the row of its job.
LEMMA StopStep ==
    ASSUME PipelineInv, NEW j \in Jobs, GoesOn(j), Stops(j), GatewayInv',
           \A k \in Jobs \ {j} : invocation'[k] = invocation[k],
           ledger' = ledger, UnchangedTables
    PROVE  PipelineInv'
<1>1. PICK w : w = NoWorkerAt("ended")
  OBVIOUS
<1>2. worker' = [worker EXCEPT ![j] = w]
  BY <1>1 DEF Stops, NoWorkerAt
<1>3. HeldSound(w, job[j].floor, reviewed) /\ FinalSound(w) /\ w.place = "ended"
  BY <1>1, StoppedSound
<1> QED
  BY <1>2, <1>3, QuietStep

LEMMA ClaimStep ==
    ASSUME PipelineInv, NEW j \in Jobs, Claim(j)
    PROVE  PipelineInv'
<1>1. GatewayInv' /\ invocation' = invocation /\ ledger' = ledger
  BY GatewaySame DEF Claim
<1>2. GoesOn(j)
  <2> DEFINE r == [job[j] EXCEPT !.status = "RUNNING"]
  <2>1. job' = [job EXCEPT ![j] = r]
    BY DEF Claim
  <2>2. r \in JobRow /\ r.floor = job[j].floor /\ r.status = "RUNNING"
    BY JobTyped DEF JobRow
  <2> HIDE DEF r
  <2> QED
    BY <2>1, <2>2, RowWritten
<1>3. worker[j] = NoWorkerAt("idle")
  BY Holds DEF Claim, Unused, WorkerTyped, Place
<1>4. PICK w : w = NoWorkerAt("set")
  OBVIOUS
<1>5. [worker[j] EXCEPT !.place = "set"] = w
  BY <1>3, <1>4 DEF NoWorkerAt, NoWorker
<1>6. worker' = [worker EXCEPT ![j] = w]
  BY <1>5 DEF Claim, Goto
<1>7. HeldSound(w, job[j].floor, reviewed) /\ FinalSound(w) /\ w.place = "set"
  BY <1>4, StoppedSound
<1>8. UnchangedTables
  BY DEF Claim
<1> QED
  BY <1>1, <1>2, <1>6, <1>7, <1>8, QuietStep

LEMMA StopAtCheckpointStep ==
    ASSUME PipelineInv, NEW j \in Jobs, StopAtCheckpoint(j)
    PROVE  PipelineInv'
<1>1. job[j].status \notin {"UNUSED", "QUEUED"}
  BY JobTyped DEF StopAtCheckpoint, Checkpoints
<1>2. GoesOn(j)
  BY <1>1, RowCancelled DEF StopAtCheckpoint
<1> QED
  BY <1>2, GatewaySame, StopStep DEF StopAtCheckpoint

\* The places where an execution ends with an outcome.
LEMMA SettleStep ==
    ASSUME PipelineInv, NEW j \in Jobs, Place(j) # "idle",
           NEW status \in Outcomes, NEW failure \in Causes,
           Settle(j, status, failure), Stops(j), UnchangedTables, UnchangedGateway
    PROVE  PipelineInv'
<1>1. GoesOn(j)
  BY JobTyped, RowSettled
<1> QED
  BY <1>1, GatewaySame, StopStep

LEMMA SettledStep ==
    ASSUME PipelineInv, NEW j \in Jobs,
           RefuseToExecute(j) \/ ValidationFails(j) \/ NeedsReview(j) \/ GuideFails(j)
    PROVE  PipelineInv'
<1>1. /\ {"FAILED", "NEEDS_REVIEW"} \subseteq Outcomes
      /\ {"PRECONDITION", "VALIDATION", "PERMANENT"} \subseteq Causes
      /\ job[j].failure \in Causes
  BY JobTyped DEF Outcomes, Causes, Failures, JobRow
<1>2. CASE RefuseToExecute(j)
  BY <1>1, <1>2, SettleStep DEF RefuseToExecute
<1>3. CASE ValidationFails(j)
  BY <1>1, <1>3, SettleStep DEF ValidationFails
<1>4. CASE NeedsReview(j)
  BY <1>1, <1>4, SettleStep DEF NeedsReview
<1>5. CASE GuideFails(j)
  BY <1>1, <1>5, SettleStep DEF GuideFails
<1> QED
  BY <1>2, <1>3, <1>4, <1>5

LEMMA CrashStep ==
    ASSUME PipelineInv, NEW j \in Jobs, Crash(j)
    PROVE  PipelineInv' /\ GatewayInv'
<1>1. Forget(j)
  BY DEF Crash, Forget, Enter
<1>2. GatewayInv /\ j \in Callers
  BY PipelineConstants DEF PipelineInv
<1>3. GatewayInv' /\ ledger' = ledger
  BY <1>1, <1>2, ForgetStep
<1>4. \A k \in Jobs \ {j} : invocation'[k] = invocation[k]
  BY <1>1, <1>2, PipelineConstants DEF Forget, Enter, GatewayInv, GatewayTypeOK
<1>5. GoesOn(j)
  BY JobTyped, RowUnchanged DEF Crash
<1>6. Stops(j) /\ UnchangedTables
  BY DEF Crash
<1> QED
  BY <1>3, <1>4, <1>5, <1>6, StopStep

\* The row changes under an execution that does not know of it.
LEMMA RowStep ==
    ASSUME PipelineInv, NEW j \in Jobs, GoesOn(j), UNCHANGED worker,
           UnchangedTables, UnchangedGateway
    PROVE  PipelineInv'
<1>1. PICK w : w = worker[j]
  OBVIOUS
<1>2. worker' = [worker EXCEPT ![j] = w]
  <2>1. worker = [k \in Jobs |-> worker[k]]
    BY Holds
  <2> QED
    BY <1>1, <2>1
<1>3. HeldSound(w, job[j].floor, reviewed) /\ FinalSound(w) /\ AskSound(j)
  BY <1>1, Holds
<1>4. GatewayInv' /\ invocation' = invocation /\ ledger' = ledger
  BY GatewaySame
<1>5. w.place = "asking" => invocation'[j].prompt = PromptOf(StageOf(w.at))
  BY <1>1, <1>3, <1>4 DEF AskSound, Place
<1> QED
  BY <1>2, <1>3, <1>4, <1>5, QuietStep

LEMMA LoseLeaseStep ==
    ASSUME PipelineInv, NEW j \in Jobs, LoseLease(j)
    PROVE  PipelineInv'
<1>1. GoesOn(j)
  <2>1. CASE Active(j)
    <3> DEFINE r == [job[j] EXCEPT !.status = "FAILED", !.failure = "TRANSIENT",
                       !.lost = job[j].lost \/ Place(j) # "ended"]
    <3>1. job' = [job EXCEPT ![j] = r]
      BY <2>1 DEF LoseLease
    <3>2. r \in JobRow /\ r.floor = job[j].floor /\ r.status = "FAILED"
      BY JobTyped DEF JobRow, Failures
    <3> HIDE DEF r
    <3> QED
      BY <3>1, <3>2, RowWritten
  <2>2. CASE ~Active(j)
    BY <2>2, RowCancelled DEF LoseLease
  <2> QED
    BY <2>1, <2>2
<1> QED
  BY <1>1, RowStep DEF LoseLease

LEMMA RequestCancelStep ==
    ASSUME PipelineInv, NEW j \in Jobs, RequestCancel(j)
    PROVE  PipelineInv'
<1>1. GoesOn(j)
  <2> DEFINE r == [job[j] EXCEPT !.control = "CANCEL_REQUESTED"]
  <2>1. job' = [job EXCEPT ![j] = r]
    BY DEF RequestCancel
  <2>2. r \in JobRow /\ r.floor = job[j].floor /\ r.status = "RUNNING"
    BY JobTyped DEF JobRow, RequestCancel
  <2> HIDE DEF r
  <2> QED
    BY <2>1, <2>2, RowWritten
<1> QED
  BY <1>1, RowStep DEF RequestCancel

\* What the actions write.
PlaceSet(w, place) == [w EXCEPT !.place = place]
AnswerTaken(w, out) == [w EXCEPT !.place = "taken", !.out = out]
OutputComputed(w, out) ==
    [w EXCEPT !.place = "save", !.reached = TRUE, !.out = out]
ModelAsked(w) == [w EXCEPT !.place = "asking", !.reached = TRUE]

LEMMA MovedRow ==
    ASSUME NEW w, WorkerTyped(w)
    PROVE  /\ \A place : PlaceSet(w, place) = Moved(w, place, w.out, w.reached)
           /\ \A b : StageBegun(w, b) = Moved(w, "look", w.out, b)
           /\ \A out : AnswerTaken(w, out) = Moved(w, "taken", out, w.reached)
           /\ \A out : OutputComputed(w, out) = Moved(w, "save", out, TRUE)
           /\ ModelAsked(w) = Moved(w, "asking", w.out, TRUE)
<1>1. w = [place |-> w.place, at |-> w.at, out |-> w.out,
           reached |-> w.reached, map |-> w.map, queue |-> w.queue,
           reserves |-> w.reserves, selected |-> w.selected,
           prompts |-> w.prompts, guide |-> w.guide]
  BY DEF WorkerTyped
<1>2. \A place : PlaceSet(w, place) = Moved(w, place, w.out, w.reached)
  BY <1>1 DEF Moved, PlaceSet
<1>3. \A b : StageBegun(w, b) = Moved(w, "look", w.out, b)
  BY <1>1 DEF Moved, StageBegun
<1>4. \A out : AnswerTaken(w, out) = Moved(w, "taken", out, w.reached)
  BY <1>1 DEF Moved, AnswerTaken
<1>5. \A out : OutputComputed(w, out) = Moved(w, "save", out, TRUE)
  BY <1>1 DEF Moved, OutputComputed
<1>6. ModelAsked(w) = Moved(w, "asking", w.out, TRUE)
  BY <1>1 DEF Moved, ModelAsked
<1> QED
  BY <1>2, <1>3, <1>4, <1>5, <1>6

\* An execution goes on at its stage.
LEMMA MovedStep ==
    ASSUME PipelineInv, NEW j \in Jobs, GoesOn(j), GatewayInv',
           \A k \in Jobs \ {j} : invocation'[k] = invocation[k],
           ledger' = ledger, UnchangedTables,
           Working(worker[j]),
           NEW place \in WorkingPlaces, NEW out, NEW reached \in BOOLEAN,
           NEW r, r = Moved(worker[j], place, out, reached),
           worker' = [worker EXCEPT ![j] = r],
           reached => Allowed(job[j].floor, StageOf(worker[j].at)),
           place \in {"taken", "save"} => out \in OutputsOf(StageOf(worker[j].at)),
           place \in {"asking", "taken", "save"} => reached,
           place = "asking" =>
              /\ StageOf(worker[j].at) \notin ApplicationStages
              /\ invocation'[j].prompt = PromptOf(StageOf(worker[j].at))
    PROVE  PipelineInv'
<1>1. HeldSound(worker[j], job[j].floor, reviewed)
  BY Holds
<1>2. PICK w : w = worker[j]
  OBVIOUS
<1>3. HeldSound(r, job[j].floor, reviewed) /\ r.place = place /\ r.at = w.at
  BY <1>1, <1>2, MovedSound
<1>4. FinalSound(r)
  BY <1>3 DEF FinalSound, WorkingPlaces
<1>5. r.place = "asking" => invocation'[j].prompt = PromptOf(StageOf(r.at))
  BY <1>2, <1>3
<1> QED
  BY <1>3, <1>4, <1>5, QuietStep

LEMMA WorkingFacts ==
    ASSUME PipelineInv, NEW j \in Jobs, Place(j) \in WorkingPlaces
    PROVE  /\ Working(worker[j])
           /\ WorkerTyped(worker[j]) /\ worker[j].reached \in BOOLEAN
           /\ worker[j].reached => Allowed(job[j].floor, StageOf(worker[j].at))
           /\ job[j].status \notin {"UNUSED", "QUEUED"}
           /\ IsKey(worker[j].at)
<1>1. HeldSound(worker[j], job[j].floor, reviewed) /\ Working(worker[j])
  BY Holds DEF Working, Place
<1>2. Place(j) # "idle"
  BY DEF WorkingPlaces
<1> QED
  BY <1>1, <1>2, JobTyped DEF HeldSound, FloorSound, WorkerTyped

LEMMA ReachesAllowed ==
    ASSUME NEW j \in Jobs, NEW stage, Reaches(j, stage)
    PROVE  Allowed(job[j].floor, stage)
  BY DEF Reaches, Allowed

LEMMA SetStageStep ==
    ASSUME PipelineInv, NEW j \in Jobs, SetStage(j)
    PROVE  PipelineInv'
<1> DEFINE stage == StageOf(worker[j].at)
           reached == worker[j].reached \/ Reaches(j, stage)
<1>1. /\ Working(worker[j]) /\ WorkerTyped(worker[j]) /\ worker[j].reached \in BOOLEAN
      /\ worker[j].reached => Allowed(job[j].floor, stage)
      /\ job[j].status \notin {"UNUSED", "QUEUED"}
      /\ IsKey(worker[j].at)
  BY WorkingFacts DEF SetStage, WorkingPlaces
<1>2. GoesOn(j)
  <2> DEFINE r == [job[j] EXCEPT !.status = "RUNNING", !.stage = stage]
  <2>1. job' = [job EXCEPT ![j] = r]
    BY DEF SetStage
  <2>2. stage \in StageNames
    <3>1. StageOf(worker[j].at) \in
             {"SUBMISSION_PARSE", "EVIDENCE_MAP", "ASSESSMENT_PLAN",
              "QUESTION_GENERATE", "QUESTION_REVIEW", "GUIDE_BUILD"}
      BY <1>1, KeyStage
    <3> QED
      BY <3>1, StagePrompts
  <2> HIDE DEF stage
  <2>3. r \in JobRow /\ r.floor = job[j].floor /\ r.status = "RUNNING"
    BY <2>2, JobTyped DEF JobRow
  <2> HIDE DEF r
  <2> QED
    BY <2>1, <2>3, RowWritten
<1>3. GatewayInv' /\ invocation' = invocation /\ ledger' = ledger /\ UnchangedTables
  BY GatewaySame DEF SetStage
<1>4. reached => Allowed(job[j].floor, stage)
  <2>1. Reaches(j, stage) => Allowed(job[j].floor, stage)
    BY ReachesAllowed
  <2> HIDE DEF stage
  <2> QED
    BY <1>1, <2>1
<1>5. worker' = [worker EXCEPT ![j] = StageBegun(worker[j], reached)]
  BY DEF SetStage
<1>6. PICK b \in BOOLEAN : b = reached
  BY <1>1 DEF Reaches
<1>7. PICK r : r = Moved(worker[j], "look", worker[j].out, b)
  OBVIOUS
<1>8. worker' = [worker EXCEPT ![j] = r]
  BY <1>1, <1>5, <1>6, <1>7, MovedRow
<1>9. "look" \in WorkingPlaces /\ (b => Allowed(job[j].floor, stage))
  BY <1>4, <1>6 DEF WorkingPlaces
<1> QED
  BY <1>1, <1>2, <1>3, <1>7, <1>8, <1>9, MovedStep

LEMMA ExecutesAllowed ==
    ASSUME PipelineInv, NEW j \in Jobs, Executes(j)
    PROVE  /\ Working(worker[j]) /\ WorkerTyped(worker[j])
           /\ IsKey(worker[j].at)
           /\ Allowed(job[j].floor, StageOf(worker[j].at))
           /\ job[j].status \notin {"UNUSED", "QUEUED"}
<1>1. Place(j) \in WorkingPlaces
  BY DEF Executes, WorkingPlaces
<1>2. MayExecute(j, StageOf(worker[j].at))
  BY DEF Executes
<1> QED
  BY <1>1, <1>2, WorkingFacts, ReachesAllowed DEF MayExecute

LEMMA ComputeStep ==
    ASSUME PipelineInv, NEW j \in Jobs, Compute(j)
    PROVE  PipelineInv'
<1>1. /\ Working(worker[j]) /\ WorkerTyped(worker[j])
      /\ Allowed(job[j].floor, StageOf(worker[j].at))
      /\ job[j].status \notin {"UNUSED", "QUEUED"}
  BY ExecutesAllowed DEF Compute
<1>2. GoesOn(j)
  BY <1>1, RowUnchanged DEF Compute
<1>3. GatewayInv' /\ invocation' = invocation /\ ledger' = ledger /\ UnchangedTables
  BY GatewaySame DEF Compute
<1>4. PICK out : out = StageOf(worker[j].at)
  OBVIOUS
<1>5. out \in OutputsOf(StageOf(worker[j].at))
  BY <1>4 DEF Compute, OutputsOf
<1>6. PICK r : r = Moved(worker[j], "save", out, TRUE)
  OBVIOUS
<1>7. worker' = [worker EXCEPT ![j] = r]
  <2>1. worker' = [worker EXCEPT ![j] = OutputComputed(worker[j], out)]
    BY <1>4 DEF Compute, OutputComputed
  <2> QED
    BY <1>1, <1>6, <2>1, MovedRow
<1>8. "save" \in WorkingPlaces
  BY DEF WorkingPlaces
<1> QED
  BY <1>1, <1>2, <1>3, <1>5, <1>6, <1>7, <1>8, MovedStep

LEMMA PassCheckpointStep ==
    ASSUME PipelineInv, NEW j \in Jobs, PassCheckpoint(j)
    PROVE  PipelineInv'
<1>1. /\ Working(worker[j]) /\ WorkerTyped(worker[j]) /\ worker[j].reached \in BOOLEAN
      /\ worker[j].reached => Allowed(job[j].floor, StageOf(worker[j].at))
      /\ job[j].status \notin {"UNUSED", "QUEUED"}
  BY WorkingFacts DEF PassCheckpoint, WorkingPlaces
<1>2. GoesOn(j)
  BY <1>1, RowUnchanged DEF PassCheckpoint
<1>3. GatewayInv' /\ invocation' = invocation /\ ledger' = ledger /\ UnchangedTables
  BY GatewaySame DEF PassCheckpoint
<1>4. /\ worker[j].out \in OutputsOf(StageOf(worker[j].at))
      /\ worker[j].reached
  BY <1>1, Holds DEF AtSound, PassCheckpoint, Place
<1>5. PICK r : r = Moved(worker[j], "save", worker[j].out, worker[j].reached)
  OBVIOUS
<1>6. worker' = [worker EXCEPT ![j] = r]
  <2>1. worker' = [worker EXCEPT ![j] = PlaceSet(worker[j], "save")]
    BY DEF PassCheckpoint, Goto, PlaceSet
  <2> QED
    BY <1>1, <1>5, <2>1, MovedRow
<1>7. "save" \in WorkingPlaces
  BY DEF WorkingPlaces
<1> QED
  BY <1>1, <1>2, <1>3, <1>4, <1>5, <1>6, <1>7, MovedStep

LEMMA JobsCall ==
    ASSUME PipelineInv, NEW j \in Jobs
    PROVE  /\ GatewayInv /\ j \in Callers
           /\ invocation[j] \in Invocation /\ InvocationSound(invocation[j])
           /\ \A i : Enter(j, i) => \A k \in Jobs \ {j} : invocation'[k] = invocation[k]
<1>1. GatewayInv /\ Callers = Jobs
  BY PipelineConstants DEF PipelineInv
<1> QED
  BY <1>1 DEF GatewayInv, GatewayTypeOK, Enter

LEMMA TakeAnswerStep ==
    ASSUME PipelineInv, NEW j \in Jobs, TakeAnswer(j)
    PROVE  PipelineInv'
<1>1. /\ Working(worker[j]) /\ WorkerTyped(worker[j])
      /\ worker[j].reached => Allowed(job[j].floor, StageOf(worker[j].at))
      /\ job[j].status \notin {"UNUSED", "QUEUED"}
  BY WorkingFacts DEF TakeAnswer, WorkingPlaces
<1>2. GoesOn(j)
  BY <1>1, RowUnchanged DEF TakeAnswer
<1>3. GatewayInv' /\ ledger' = ledger /\ UnchangedTables
      /\ \A k \in Jobs \ {j} : invocation'[k] = invocation[k]
  BY JobsCall, ForgetStep DEF TakeAnswer, Forget
<1>4. PICK out : out = invocation[j].answer
  OBVIOUS
<1>5. worker[j].place = "asking" /\ invocation[j].place = "done"
  BY DEF TakeAnswer, Place, InPlace
<1>6. worker[j].reached /\ StageOf(worker[j].at) \notin ApplicationStages
      /\ invocation[j].prompt = PromptOf(StageOf(worker[j].at))
  BY <1>1, <1>5, Holds DEF AtSound, AskSound, Place
<1>7. out \in OutputsOf(StageOf(worker[j].at))
  <2>1. out \in Answers[invocation[j].prompt]
    BY <1>4, <1>5, JobsCall DEF InvocationSound
  <2> QED
    BY <1>6, <2>1 DEF OutputsOf
<1>8. PICK r : r = Moved(worker[j], "taken", out, worker[j].reached)
  OBVIOUS
<1>9. worker' = [worker EXCEPT ![j] = r]
  <2>1. worker' = [worker EXCEPT ![j] = AnswerTaken(worker[j], out)]
    BY <1>4 DEF TakeAnswer, AnswerTaken
  <2> QED
    BY <1>1, <1>8, <2>1, MovedRow
<1>10. "taken" \in WorkingPlaces /\ worker[j].reached \in BOOLEAN
  BY <1>1 DEF WorkingPlaces, WorkerTyped
<1> QED
  BY <1>1, <1>2, <1>3, <1>6, <1>7, <1>8, <1>9, <1>10, MovedStep

LEMMA AskStep ==
    ASSUME PipelineInv, NEW j \in Jobs, Ask(j)
    PROVE  /\ PipelineInv'
           /\ \E p \in Prompts : Invoke(j, p) \/ \E f \in Failures : InvokeRefused(j, p, f)
<1>1. /\ Working(worker[j]) /\ WorkerTyped(worker[j]) /\ IsKey(worker[j].at)
      /\ Allowed(job[j].floor, StageOf(worker[j].at))
      /\ job[j].status \notin {"UNUSED", "QUEUED"}
  BY ExecutesAllowed DEF Ask
<1>2. GoesOn(j)
  BY <1>1, RowUnchanged DEF Ask
<1>3. StageOf(worker[j].at) \notin ApplicationStages
  BY DEF Ask
<1>4. PICK p : p = PromptOf(StageOf(worker[j].at))
  OBVIOUS
<1>5. p \in Prompts
  <2>1. StageOf(worker[j].at) \in AskedStages
    BY <1>1, <1>3, KeyStage, StagePrompts DEF AskedStages
  <2> QED
    BY <1>4, <2>1, StagePrompts DEF AskedStages
<1>6. Invoke(j, p) \/ \E f \in Failures : InvokeRefused(j, p, f)
  BY <1>4 DEF Ask
<1>7. GatewayInv' /\ invocation'[j].prompt = p /\ ledger' = ledger
  BY <1>5, <1>6, JobsCall, InvokeStep
<1>8. \A k \in Jobs \ {j} : invocation'[k] = invocation[k]
  BY <1>6, JobsCall DEF Invoke, InvokeRefused
<1>9. UnchangedTables
  BY DEF Ask
<1>10. PICK r : r = Moved(worker[j], "asking", worker[j].out, TRUE)
  OBVIOUS
<1>11. worker' = [worker EXCEPT ![j] = r]
  <2>1. worker' = [worker EXCEPT ![j] = ModelAsked(worker[j])]
    BY DEF Ask, ModelAsked
  <2> QED
    BY <1>1, <1>10, <2>1, MovedRow
<1>12. "asking" \in WorkingPlaces
  BY DEF WorkingPlaces
<1>13. PipelineInv'
  BY <1>1, <1>2, <1>3, <1>4, <1>7, <1>8, <1>9, <1>10, <1>11, <1>12, MovedStep
<1> QED
  BY <1>5, <1>6, <1>13

\* Prompts of different stages are different.
LEMMA PromptsDiffer ==
    \A s, t \in AskedStages : PromptOf(s) = PromptOf(t) => s = t
  BY StagePrompts DEF AskedStages

LEMMA ProviderPipelineStep ==
    ASSUME PipelineInv, NEW j \in Jobs, Provider(j)
    PROVE  PipelineInv'
<1>1. /\ Working(worker[j]) /\ WorkerTyped(worker[j]) /\ IsKey(worker[j].at)
      /\ worker[j].reached => Allowed(job[j].floor, StageOf(worker[j].at))
      /\ job[j].status \notin {"UNUSED", "QUEUED"}
  BY WorkingFacts DEF Provider, WorkingPlaces
<1>2. worker[j].place = "asking"
  BY DEF Provider, Place
<1>3. /\ worker[j].reached /\ StageOf(worker[j].at) \notin ApplicationStages
      /\ invocation[j].prompt = PromptOf(StageOf(worker[j].at))
      /\ HeldSound(worker[j], job[j].floor, reviewed) /\ FinalSound(worker[j])
      /\ worker = [k \in Jobs |-> worker[k]]
  BY <1>1, <1>2, Holds DEF AtSound, AskSound, Place
<1>4. GoesOn(j) /\ worker' = worker /\ UnchangedTables
  BY <1>1, RowUnchanged DEF Provider
<1>5. /\ GatewayInv' /\ invocation'[j].prompt = Prompt(j)
      /\ \/ ledger' = ledger
         \/ Record(j, Prompt(j)) \/ Record(j, P11)
  BY JobsCall, ProviderSound DEF Provider
<1>6. \E i : Enter(j, i)
  BY DEF Provider, ProviderStep, AttemptFails, AttemptBlocked, AttemptBreaks,
     AttemptMisleads, AttemptInvalid, AttemptAnswers, RepairBlocked,
     RepairTimesOut, RepairInvalid, RepairMisleads, RepairRaises,
     RepairUseless, RepairAnswers
<1>7. ledger \in [Jobs -> SUBSET (Prompts \cup {P11})]
  BY PipelineConstants DEF PipelineInv, GatewayInv, GatewayTypeOK
<1>8. Others(j)
  BY <1>4, <1>5, <1>6, <1>7, JobsCall DEF Others, GoesOn, Record
<1>9. ASSUME NEW stage \in AskedStages, PromptOf(stage) \in ledger'[j] \ ledger[j]
      PROVE  Allowed(job'[j].floor, stage)
  <2>1. PromptOf(stage) = Prompt(j) \/ PromptOf(stage) = P11
    BY <1>5, <1>7, <1>9 DEF Record
  <2>2. PromptOf(stage) \in Prompts /\ P11 \notin Prompts
    BY <1>9, StagePrompts DEF AskedStages
  <2>3. PromptOf(stage) = PromptOf(StageOf(worker[j].at))
    BY <1>3, <2>1, <2>2 DEF Prompt
  <2>4. StageOf(worker[j].at) \in AskedStages
    BY <1>1, <1>3, KeyStage, StagePrompts DEF AskedStages
  <2>5. stage = StageOf(worker[j].at)
    BY <1>9, <2>3, <2>4, PromptsDiffer
  <2> QED
    BY <1>1, <1>3, <1>4, <2>5 DEF GoesOn
<1>10. PICK w : w = worker[j]
  OBVIOUS
<1>11. worker' = [worker EXCEPT ![j] = w]
  BY <1>3, <1>4, <1>10
<1>12. stageRuns' = stageRuns /\ reviewed' = reviewed /\ published' = published
  BY <1>4 DEF UnchangedTables
<1>13. PublishedReviewed'
  BY <1>12, PublishedKept DEF PipelineInv
<1>14. OneSuccessPerKey'
  BY <1>12 DEF PipelineInv, OneSuccessPerKey
<1>15. /\ HeldSound(w, job'[j].floor, reviewed') /\ FinalSound(w)
       /\ w.place = "asking" => invocation'[j].prompt = PromptOf(StageOf(w.at))
  BY <1>3, <1>4, <1>5, <1>10, <1>12 DEF GoesOn, Prompt
<1> QED
  BY <1>4, <1>5, <1>8, <1>9, <1>11, <1>12, <1>13, <1>14, <1>15, Step DEF GoesOn

LEMMA ContinueStep ==
    ASSUME PipelineInv, NEW k \in Jobs, NEW floor \in StageNames, Continue(k, floor)
    PROVE  PipelineInv'
<1>1. PICK j \in Jobs : j = k + 1
  BY DEF Continue
<1>2. job[j].status = "UNUSED"
  BY <1>1 DEF Continue
<1>3. /\ worker[j].place = "idle" /\ ledger[j] = {} /\ \A r \in stageRuns : r.job # j
      /\ HeldSound(worker[j], job[j].floor, reviewed) /\ FinalSound(worker[j])
      /\ worker = [i \in Jobs |-> worker[i]]
  BY <1>2, Holds DEF Unused, Place
<1>4. PICK row : row = [NoJob EXCEPT !.status = "QUEUED", !.stage = floor, !.floor = floor]
  OBVIOUS
<1>5. row \in JobRow /\ row.status = "QUEUED" /\ row.floor = floor
  <2>1. row = [status |-> "QUEUED", control |-> "ACTIVE", failure |-> "NONE",
               stage |-> floor, floor |-> floor, lost |-> FALSE]
    BY <1>4 DEF NoJob
  <2> QED
    BY <2>1 DEF JobRow
<1>6. job' = [job EXCEPT ![j] = row]
  BY <1>1, <1>4 DEF Continue
<1>7. /\ job' \in [Jobs -> JobRow] /\ job'[j] = row
      /\ \A i \in Jobs \ {j} : job'[i] = job[i]
  BY <1>5, <1>6, JobTyped
<1>8. GatewayInv' /\ invocation' = invocation /\ ledger' = ledger
      /\ worker' = worker /\ UnchangedTables
  BY GatewaySame DEF Continue
<1>9. Others(j)
  BY <1>7, <1>8 DEF Others
<1>10. stageRuns' = stageRuns /\ reviewed' = reviewed /\ published' = published
  BY <1>8 DEF UnchangedTables
<1>11. PublishedReviewed'
  BY <1>10, PublishedKept DEF PipelineInv
<1>12. OneSuccessPerKey'
  BY <1>10 DEF PipelineInv, OneSuccessPerKey
<1>13. PICK w : w = worker[j]
  OBVIOUS
<1>14. worker' = [worker EXCEPT ![j] = w]
  BY <1>3, <1>8, <1>13
<1>15. ~Working(w) /\ w.place = "idle"
  BY <1>3, <1>13 DEF Working, WorkingPlaces
<1>16. HeldSound(w, job'[j].floor, reviewed') /\ FinalSound(w)
  BY <1>3, <1>10, <1>13, <1>15, HeldAnyFloor
<1> QED
  BY <1>3, <1>7, <1>8, <1>9, <1>10, <1>11, <1>12, <1>14, <1>15, <1>16, Step

\* An action that stores a run, or an accepted question.
LEMMA StoreStep ==
    ASSUME PipelineInv, NEW j \in Jobs, GoesOn(j), GatewayInv',
           \A k \in Jobs \ {j} : invocation'[k] = invocation[k],
           ledger' = ledger, published' = published,
           NEW w, worker' = [worker EXCEPT ![j] = w],
           HeldSound(w, job[j].floor, reviewed'),
           FinalSound(w),
           w.place # "asking",
           reviewed \subseteq reviewed', stageRuns \subseteq stageRuns',
           \A r \in stageRuns' \ stageRuns :
               RunSound(r) /\ r.job = j /\ Allowed(job[j].floor, StageOf(r.key)),
           OneSuccessPerKey'
    PROVE  PipelineInv'
<1>1. PublishedReviewed'
  BY PublishedKept DEF PipelineInv
<1>2. Others(j)
  BY DEF Others, GoesOn
<1>3. /\ HeldSound(w, job'[j].floor, reviewed')
      /\ job'[j].floor = job[j].floor
      /\ \A r \in stageRuns' \ stageRuns :
               RunSound(r) /\ r.job = j /\ Allowed(job'[j].floor, StageOf(r.key))
  BY DEF GoesOn
<1> QED
  BY <1>1, <1>2, <1>3, Step DEF GoesOn

LEMMA ReuseStep ==
    ASSUME PipelineInv, NEW j \in Jobs, Reuse(j)
    PROVE  PipelineInv'
<1>1. PICK w : w = worker[j]
  OBVIOUS
<1>2. PICK run \in Saved(w.at) :
        /\ worker' = [worker EXCEPT ![j] = Advance(j, w, run.output, run.job)]
        /\ reviewed' = reviewed \cup Accepts(w, run.output)
  BY <1>1 DEF Reuse
<1>3. /\ run \in stageRuns /\ run.key = w.at /\ run.status = "SUCCEEDED" /\ RunSound(run)
  BY <1>2 DEF Saved, PipelineInv
<1>4. PICK out \in OutputsOf(StageOf(w.at)), by \in Jobs :
        out = run.output /\ by = run.job
  BY <1>3 DEF RunSound
<1>5. PICK r : r = Advance(j, w, out, by)
  OBVIOUS
<1>6. HeldSound(w, job[j].floor, reviewed) /\ w.place = "look" /\ GatewayInv
      /\ job[j].status \notin {"UNUSED", "QUEUED"}
  BY <1>1, Holds, WorkingFacts DEF Reuse, Place, WorkingPlaces, PipelineInv
<1>7. /\ HeldSound(r, job[j].floor, reviewed \cup Accepts(w, out))
      /\ FinalSound(r)
      /\ r.place \in {"set", "look", "refused", "review", "broken", "finalize"}
  BY <1>3, <1>5, <1>6, AdvanceSound
<1>8. worker' = [worker EXCEPT ![j] = r] /\ reviewed' = reviewed \cup Accepts(w, out)
  BY <1>2, <1>4, <1>5
<1>9. GatewayInv' /\ invocation' = invocation /\ ledger' = ledger
  BY GatewaySame DEF Reuse
<1>10. GoesOn(j)
  BY <1>6, RowUnchanged DEF Reuse
<1>11. stageRuns' = stageRuns /\ published' = published
  BY DEF Reuse
<1>12. OneSuccessPerKey'
  BY <1>11 DEF PipelineInv, OneSuccessPerKey
<1> QED
  BY <1>7, <1>8, <1>9, <1>10, <1>11, <1>12, StoreStep

LEMMA RunFields ==
    ASSUME NEW j, NEW key, NEW status, NEW output, NEW r, r = Run(j, key, status, output)
    PROVE  r.job = j /\ r.key = key /\ r.status = status /\ r.output = output
  BY DEF Run

LEMMA StoredRuns ==
    ASSUME PipelineInv, NEW j \in Jobs, NEW key, NEW output, IsKey(key),
           output \in OutputsOf(StageOf(key)),
           NEW runs, runs = Stored(j, key, output)
    PROVE  /\ stageRuns \subseteq runs
           /\ \A r \in runs \ stageRuns : RunSound(r) /\ r.job = j /\ r.key = key
           /\ \E s \in runs : s.status = "SUCCEEDED" /\ s.key = key
           /\ \A r, s \in runs :
                r.key = s.key /\ r.status = "SUCCEEDED" /\ s.status = "SUCCEEDED" => r = s
<1>1. \A r, s \in stageRuns :
        r.key = s.key /\ r.status = "SUCCEEDED" /\ s.status = "SUCCEEDED" => r = s
  BY DEF PipelineInv, OneSuccessPerKey
<1>2. CASE Saved(key) # {}
  <2>1. runs = stageRuns
    BY <1>2 DEF Stored
  <2>2. \E s \in runs : s.status = "SUCCEEDED" /\ s.key = key
    BY <1>2, <2>1 DEF Saved
  <2> QED
    BY <1>1, <2>1, <2>2
<1>3. CASE Saved(key) = {}
  <2>1. PICK n : n = Run(j, key, "SUCCEEDED", output)
    OBVIOUS
  <2>2. runs = stageRuns \cup {n}
    BY <1>3, <2>1 DEF Stored
  <2>3. n.job = j /\ n.key = key /\ n.status = "SUCCEEDED" /\ n.output = output
    BY <2>1, RunFields
  <2>4. RunSound(n)
    BY <2>3 DEF RunSound
  <2>5. \A s \in stageRuns : s.key = key => s.status # "SUCCEEDED"
    BY <1>3 DEF Saved
  <2> QED
    BY <1>1, <2>2, <2>3, <2>4, <2>5
<1> QED
  BY <1>2, <1>3

LEMMA SaveStep ==
    ASSUME PipelineInv, NEW j \in Jobs, Save(j)
    PROVE  PipelineInv'
<1>1. PICK w : w = worker[j]
  OBVIOUS
<1>2. /\ stageRuns' = Stored(j, w.at, w.out)
      /\ worker' = [worker EXCEPT ![j] = Advance(j, w, w.out, j)]
      /\ reviewed' = reviewed \cup Accepts(w, w.out)
      /\ published' = published /\ w.place = "save"
  BY <1>1 DEF Save, Place
<1>3. HeldSound(w, job[j].floor, reviewed) /\ GatewayInv
      /\ job[j].status \notin {"UNUSED", "QUEUED"} /\ Working(w) /\ IsKey(w.at)
      /\ (w.reached => Allowed(job[j].floor, StageOf(w.at)))
  BY <1>1, Holds, WorkingFacts DEF Save, Place, WorkingPlaces, PipelineInv
<1>4. w.reached /\ w.out \in OutputsOf(StageOf(w.at))
  BY <1>2, <1>3 DEF HeldSound, AtSound
<1>5. PICK out \in OutputsOf(StageOf(w.at)) : out = w.out
  BY <1>4
<1>6. PICK runs : runs = stageRuns'
  OBVIOUS
<1>7. /\ stageRuns \subseteq runs
      /\ \A r \in runs \ stageRuns : RunSound(r) /\ r.job = j /\ r.key = w.at
      /\ \E s \in runs : s.status = "SUCCEEDED" /\ s.key = w.at
      /\ \A r, s \in runs :
           r.key = s.key /\ r.status = "SUCCEEDED" /\ s.status = "SUCCEEDED" => r = s
  BY <1>2, <1>3, <1>4, <1>6, StoredRuns
<1>8. PICK r : r = Advance(j, w, out, j)
  OBVIOUS
<1>9. /\ HeldSound(r, job[j].floor, reviewed \cup Accepts(w, out))
      /\ FinalSound(r)
      /\ r.place \in {"set", "look", "refused", "review", "broken", "finalize"}
  BY <1>2, <1>3, <1>7, <1>8, AdvanceSound
<1>10. worker' = [worker EXCEPT ![j] = r] /\ reviewed' = reviewed \cup Accepts(w, out)
  BY <1>2, <1>5, <1>8
<1>11. GatewayInv' /\ invocation' = invocation /\ ledger' = ledger
  BY GatewaySame DEF Save
<1>12. GoesOn(j)
  BY <1>3, RowUnchanged DEF Save
<1>13. OneSuccessPerKey'
  BY <1>6, <1>7 DEF OneSuccessPerKey
<1>14. \A s \in stageRuns' \ stageRuns :
         RunSound(s) /\ s.job = j /\ Allowed(job[j].floor, StageOf(s.key))
  BY <1>3, <1>4, <1>6, <1>7
<1> QED
  BY <1>2, <1>6, <1>7, <1>9, <1>10, <1>11, <1>12, <1>13, <1>14, StoreStep

LEMMA StageFailsStep ==
    ASSUME PipelineInv, NEW j \in Jobs, StageFails(j)
    PROVE  PipelineInv'
<1>1. /\ Working(worker[j]) /\ WorkerTyped(worker[j]) /\ IsKey(worker[j].at)
      /\ worker[j].reached => Allowed(job[j].floor, StageOf(worker[j].at))
      /\ job[j].status \notin {"UNUSED", "QUEUED"}
  BY WorkingFacts DEF StageFails, WorkingPlaces
<1>2. worker[j].reached
  BY <1>1, Holds DEF AtSound, StageFails, Place
<1>3. GoesOn(j)
  <2>1. "FAILED" \in Outcomes /\ invocation[j].failure \in Causes
    BY JobsCall DEF Invocation, Outcomes, Causes
  <2> QED
    BY <1>1, <2>1, RowSettled DEF StageFails
<1>4. PICK w : w = NoWorkerAt("ended")
  OBVIOUS
<1>5. worker' = [worker EXCEPT ![j] = w]
  BY <1>4 DEF StageFails, Stops, NoWorkerAt
<1>6. GatewayInv' /\ ledger' = ledger
      /\ (\A k \in Jobs \ {j} : invocation'[k] = invocation[k])
      /\ reviewed' = reviewed /\ published' = published
  BY JobsCall, ForgetStep DEF StageFails, Forget
<1>7. HeldSound(w, job[j].floor, reviewed') /\ FinalSound(w) /\ w.place = "ended"
  BY <1>4, StoppedSound
<1>8. PICK n : n = Run(j, worker[j].at, "FAILED", NoAnswer)
  OBVIOUS
<1>9. stageRuns' = stageRuns \/ stageRuns' = stageRuns \cup {n}
  BY <1>8 DEF StageFails
<1>10. n.job = j /\ n.key = worker[j].at /\ n.status = "FAILED"
  BY <1>8, RunFields
<1>11. RunSound(n)
  BY <1>1, <1>10 DEF RunSound
<1>12. OneSuccessPerKey'
  BY <1>9, <1>10 DEF OneSuccessPerKey, PipelineInv
<1> QED
  BY <1>1, <1>2, <1>3, <1>5, <1>6, <1>7, <1>9, <1>10, <1>11, <1>12, StoreStep

LEMMA FinalizeStep ==
    ASSUME PipelineInv, NEW j \in Jobs, Finalize(j)
    PROVE  PipelineInv'
<1>1. Place(j) # "idle" /\ job[j].status \notin {"UNUSED", "QUEUED"}
  BY JobTyped DEF Finalize
<1>2. {"FAILED", "SUCCEEDED"} \subseteq Outcomes /\ {"NONE", "PERMANENT"} \subseteq Causes
  BY DEF Outcomes, Causes, Failures
<1>3. GoesOn(j) /\ GatewayInv' /\ invocation' = invocation /\ ledger' = ledger
      /\ stageRuns' = stageRuns /\ reviewed' = reviewed /\ Stops(j)
  BY <1>1, <1>2, RowSettled, GatewaySame DEF Finalize
<1>4. CASE published' = published
  BY <1>3, <1>4, StopStep DEF UnchangedTables
<1>5. CASE published' = Published(j, worker[j])
  <2>1. PICK v : v = worker[j]
    OBVIOUS
  <2>2. /\ WorkerTyped(v) /\ Distinct(v) /\ Range(v.selected) \subseteq reviewed
        /\ Complete(v)
    BY <2>1, Holds DEF HeldSound, FinalSound, Finalize, Place
  <2>3. published' = [job |-> j, map |-> v.map, questions |-> v.selected,
                      prompts |-> v.prompts, guide |-> v.guide]
    BY <1>5, <2>1 DEF Published
  <2>4. /\ published'.map = v.map /\ published'.questions = v.selected
        /\ published'.prompts = v.prompts
    BY <2>3
  <2>5. /\ Len(v.selected) = Len(PlanOf[v.map].selected)
        /\ \A n \in 1 .. Len(v.selected) : v.selected[n] \in reviewed
        /\ \A n, k \in 1 .. Len(v.selected) : v.selected[n][1] = v.selected[k][1] => n = k
    <3>1. v.selected \in Seq(Accepted)
      BY <2>2 DEF WorkerTyped
    <3>2. \A n \in 1 .. Len(v.selected) : v.selected[n] \in Range(v.selected)
      BY <3>1 DEF Range
    <3> QED
      BY <2>2, <3>2 DEF Complete, Distinct
  <2>6. PublishedReviewed'
    BY <1>3, <2>4, <2>5 DEF PublishedReviewed
  <2>8. PICK w : w = NoWorkerAt("ended")
    OBVIOUS
  <2>9. worker' = [worker EXCEPT ![j] = w]
    BY <1>3, <2>8 DEF Stops, NoWorkerAt
  <2>10. HeldSound(w, job'[j].floor, reviewed') /\ FinalSound(w) /\ w.place = "ended"
    BY <2>8, StoppedSound
  <2>11. OneSuccessPerKey'
    BY <1>3 DEF PipelineInv, OneSuccessPerKey
  <2>12. Others(j)
    BY <1>3 DEF Others, GoesOn
  <2> QED
    BY <1>3, <2>6, <2>9, <2>10, <2>11, <2>12, Step DEF GoesOn
<1> QED
  BY <1>4, <1>5 DEF Finalize

-----------------------------------------------------------------------------
(***************************************************************************)
(* The theorems about the pipeline.                                        *)
(***************************************************************************)
LEMMA PipelineInitInv == PipelineInit => PipelineInv
<1> SUFFICES ASSUME PipelineInit PROVE PipelineInv
  OBVIOUS
<1>1. GatewayInv
  BY GatewayInitInv DEF PipelineInit
<1>2. job \in [Jobs -> JobRow] /\ stageRuns = {} /\ reviewed = {}
      /\ \A j \in Jobs : ledger[j] = {}
  <2>1. "SUBMISSION_PARSE" \in StageNames
    BY StagePrompts
  <2>2. NoJob \in JobRow
    BY <2>1 DEF NoJob, JobRow
  <2>3. [NoJob EXCEPT !.status = "QUEUED"] \in JobRow
    <3>1. PICK q : q = [NoJob EXCEPT !.status = "QUEUED"]
      OBVIOUS
    <3>2. q = [status |-> "QUEUED", control |-> "ACTIVE", failure |-> "NONE",
               stage |-> "SUBMISSION_PARSE", floor |-> "NONE", lost |-> FALSE]
      BY <3>1 DEF NoJob
    <3>3. q \in JobRow
      BY <2>1, <3>2 DEF JobRow
    <3> QED
      BY <3>1, <3>3
  <2>4. \A j \in Jobs : ledger[j] = {}
    BY PipelineConstants DEF PipelineInit, GatewayInit
  <2>5. stageRuns = {} /\ reviewed = {}
    BY DEF PipelineInit
  <2>6. job = [j \in Jobs |->
                IF j = 1 THEN [NoJob EXCEPT !.status = "QUEUED"] ELSE NoJob]
    BY DEF PipelineInit
  <2>7. PICK q \in JobRow : q = [NoJob EXCEPT !.status = "QUEUED"]
    BY <2>3
  <2>8. PICK n \in JobRow : n = NoJob
    BY <2>2
  <2>9. job = [j \in Jobs |-> IF j = 1 THEN q ELSE n]
    BY <2>6, <2>7, <2>8
  <2>10. job \in [Jobs -> JobRow]
    BY <2>9
  <2> QED
    BY <2>4, <2>5, <2>10
<1>3. PICK w : w = NoWorkerAt("idle")
  OBVIOUS
<1>4. worker = [j \in Jobs |-> w]
  <2>1. NoWorker = w
    BY <1>3 DEF NoWorkerAt, NoWorker
  <2> QED
    BY <2>1 DEF PipelineInit
<1>5. ASSUME NEW j \in Jobs
      PROVE  /\ HeldSound(worker[j], job[j].floor, reviewed)
             /\ FinalSound(worker[j])
             /\ Unused(j)
             /\ AskSound(j)
  <2>1. worker[j] = w
    BY <1>4
  <2>2. HeldSound(w, job[j].floor, reviewed) /\ FinalSound(w) /\ w.place = "idle"
    BY <1>3, StoppedSound
  <2> QED
    BY <1>2, <2>1, <2>2 DEF Unused, AskSound, Place
<1>6. worker = [j \in Jobs |-> worker[j]]
  BY <1>4
<1>7. OneSuccessPerKey /\ \A r \in stageRuns : RunSound(r)
  BY <1>2 DEF OneSuccessPerKey
<1>8. BelowFloorOnlyReuse
  <2>1. \A j \in Jobs :
        /\ \A r \in stageRuns : r.job = j => Allowed(job[j].floor, StageOf(r.key))
        /\ \A stage \in AskedStages :
             PromptOf(stage) \in ledger[j] => Allowed(job[j].floor, stage)
    BY <1>2
  <2> QED
    BY <2>1, FloorRespected
<1>9. PublishedReviewed
  <2>1. published.job = 0
    BY DEF PipelineInit, Unpublished
  <2> QED
    BY <2>1 DEF PublishedReviewed
<1> QED
  BY <1>1, <1>2, <1>5, <1>6, <1>7, <1>8, <1>9 DEF PipelineInv

LEMMA PipelineStutter ==
    ASSUME PipelineInv, UNCHANGED pipelineVars
    PROVE  PipelineInv'
<1>1. /\ invocation' = invocation /\ ledger' = ledger /\ job' = job /\ worker' = worker
      /\ stageRuns' = stageRuns /\ reviewed' = reviewed /\ published' = published
  BY DEF pipelineVars
<1>2. GatewayInv' /\ OneSuccessPerKey' /\ BelowFloorOnlyReuse' /\ PublishedReviewed'
  BY <1>1 DEF PipelineInv, GatewayInv, GatewayTypeOK, OneSuccessPerKey,
     BelowFloorOnlyReuse, MayHaveExecuted, Reaches, PublishedReviewed
<1>3. \A j \in Jobs : Unused(j)' /\ AskSound(j)'
  BY <1>1 DEF PipelineInv, Unused, AskSound, Place
<1> QED
  BY <1>1, <1>2, <1>3 DEF PipelineInv

LEMMA PipelineNextInv ==
    ASSUME PipelineInv, PipelineNext
    PROVE  PipelineInv'
<1>1. PICK j \in Jobs :
        \/ WorkerStep(j) \/ Crash(j) \/ LoseLease(j) \/ RequestCancel(j)
        \/ \E floor \in StageNames : Continue(j, floor)
  BY DEF PipelineNext
<1>2. CASE WorkerStep(j)
  BY <1>2, ClaimStep, StopAtCheckpointStep, SetStageStep, ReuseStep, SettledStep,
     ComputeStep, AskStep, ProviderPipelineStep, TakeAnswerStep, PassCheckpointStep,
     SaveStep, StageFailsStep, FinalizeStep DEF WorkerStep
<1>3. CASE Crash(j) \/ LoseLease(j) \/ RequestCancel(j)
  BY <1>3, CrashStep, LoseLeaseStep, RequestCancelStep
<1>4. CASE \E floor \in StageNames : Continue(j, floor)
  BY <1>4, ContinueStep
<1> QED
  BY <1>1, <1>2, <1>3, <1>4

\* The inductive invariant of the pipeline.
THEOREM PipelineInvariant == PipelineSpec => []PipelineInv
<1>1. PipelineInit => PipelineInv
  BY PipelineInitInv
<1>2. PipelineInv /\ [PipelineNext]_pipelineVars => PipelineInv'
  BY PipelineNextInv, PipelineStutter
<1> QED
  BY <1>1, <1>2, PTL DEF PipelineSpec

\* A continuation executes nothing below the stage it was asked to continue
\* from: _assert_resume_may_execute (workflows.py), through every reuse,
\* crash, lost lease and cancellation.
THEOREM PipelineReusesBelowFloor == PipelineSpec => []BelowFloorOnlyReuse
<1>1. PipelineInv => BelowFloorOnlyReuse
  BY DEF PipelineInv
<1> QED
  BY <1>1, PipelineInvariant, PTL

\* What finalize_submission_assessment publishes has the planned number of
\* questions, of different opportunities, all of them reviewed.
THEOREM PipelinePublishesReviewed == PipelineSpec => []PublishedReviewed
<1>1. PipelineInv => PublishedReviewed
  BY DEF PipelineInv
<1> QED
  BY <1>1, PipelineInvariant, PTL

LEMMA RunsGrow ==
    ASSUME PipelineNext
    PROVE  stageRuns \subseteq stageRuns'
<1>1. PICK j \in Jobs :
        \/ WorkerStep(j) \/ Crash(j) \/ LoseLease(j) \/ RequestCancel(j)
        \/ \E floor \in StageNames : Continue(j, floor)
  BY DEF PipelineNext
<1>2. CASE Save(j) \/ StageFails(j)
  BY <1>2 DEF Save, StageFails, Stored
<1>3. CASE ~(Save(j) \/ StageFails(j))
  BY <1>1, <1>3 DEF WorkerStep, Claim, StopAtCheckpoint, SetStage, Reuse,
     RefuseToExecute, Compute, Ask, Provider, TakeAnswer, PassCheckpoint,
     ValidationFails, NeedsReview, GuideFails, Finalize, Crash, LoseLease,
     RequestCancel, Continue, UnchangedTables
<1> QED
  BY <1>2, <1>3

\* save_stage: the output that was stored first under a key is the only one,
\* for ever, whatever else saves it.
THEOREM StageFinality == PipelineSpec => StageFinal
<1>1. PipelineInv /\ PipelineInv' /\ [PipelineNext]_pipelineVars =>
        [\A r \in stageRuns :
           r.status = "SUCCEEDED" =>
              {s \in stageRuns' : s.key = r.key /\ s.status = "SUCCEEDED"} = {r}
        ]_stageRuns
  <2> SUFFICES ASSUME PipelineInv, PipelineInv', [PipelineNext]_pipelineVars,
                      stageRuns' # stageRuns,
                      NEW r \in stageRuns, r.status = "SUCCEEDED"
               PROVE  {s \in stageRuns' : s.key = r.key /\ s.status = "SUCCEEDED"} = {r}
    OBVIOUS
  <2>1. r \in stageRuns'
    BY RunsGrow DEF pipelineVars
  <2>2. \A s \in stageRuns' :
          r.key = s.key /\ r.status = "SUCCEEDED" /\ s.status = "SUCCEEDED" => r = s
    BY <2>1 DEF PipelineInv, OneSuccessPerKey
  <2> QED
    BY <2>1, <2>2
<1> QED
  BY <1>1, PipelineInvariant, PTL DEF PipelineSpec, StageFinal

\* The pipeline leaves an invocation alone, or makes a step of the gateway.
THEOREM PipelineImplementsGateway == PipelineSpec => GatewaySpec
<1>1. PipelineInit => GatewayInit
  BY DEF PipelineInit
<1>2. ASSUME PipelineInv, [PipelineNext]_pipelineVars
      PROVE  [GatewayNext]_gatewayVars
  <2>1. CASE UNCHANGED pipelineVars
    BY <2>1 DEF pipelineVars, gatewayVars
  <2>2. CASE PipelineNext
    <3>1. PICK j \in Jobs :
            \/ WorkerStep(j) \/ Crash(j) \/ LoseLease(j) \/ RequestCancel(j)
            \/ \E floor \in StageNames : Continue(j, floor)
      BY <2>2 DEF PipelineNext
    <3>2. j \in Callers
      BY PipelineConstants
    <3>3. CASE Ask(j)
      BY <1>2, <3>2, <3>3, AskStep DEF GatewayNext
    <3>4. CASE Provider(j)
      BY <3>2, <3>4 DEF Provider, GatewayNext
    <3>5. CASE TakeAnswer(j) \/ StageFails(j)
      BY <3>2, <3>5 DEF TakeAnswer, StageFails, GatewayNext
    <3>6. CASE Crash(j)
      BY <3>2, <3>6 DEF Crash, Forget, Enter, GatewayNext
    <3>7. CASE ~(\/ Ask(j) \/ Provider(j) \/ TakeAnswer(j) \/ StageFails(j) \/ Crash(j))
      BY <3>1, <3>7 DEF WorkerStep, Claim, StopAtCheckpoint, SetStage, Reuse,
         RefuseToExecute, Compute, PassCheckpoint, Save,
         ValidationFails, NeedsReview, GuideFails, Finalize, LoseLease,
         RequestCancel, Continue, UnchangedGateway
    <3> QED
      BY <3>3, <3>4, <3>5, <3>6, <3>7
  <2> QED
    BY <1>2, <2>1, <2>2
<1> QED
  BY <1>1, <1>2, PipelineInvariant, PTL DEF PipelineSpec, GatewaySpec

\* ... so the provider is spared whatever becomes of the jobs.
THEOREM PipelineSparesProvider == PipelineSpec => []ProviderSpared
  BY PipelineImplementsGateway, GatewaySparesProvider, PTL

-----------------------------------------------------------------------------
(***************************************************************************)
(* Whose guide is published.                                               *)
(***************************************************************************)
LEMMA BesideKept ==
    ASSUME NEW j, NEW rows, NEW next,
           \A k \in Jobs : rows[k].lost => next[k].lost,
           j \in Jobs, NEW k \in Jobs, Beside(j, k, rows)
    PROVE  Beside(j, k, next)
  BY DEF Beside

\* What is published stays the guide that it was.
LEMMA GuideKept ==
    ASSUME PipelineInv, GuideInv, published' = published,
           stageRuns \subseteq stageRuns',
           \A k \in Jobs : job[k].lost => job'[k].lost
    PROVE  GuideOfAssessment' /\ published'.job \in Jobs \cup {0}
<1>1. \A r \in stageRuns : r.job \in Jobs
  BY DEF PipelineInv, RunSound
<1> QED
  BY <1>1 DEF GuideInv, GuideOfAssessment, StoredGuide, Saved

\* Two executions that are both alive: one of them is without its lease.
LEMMA AliveBeside ==
    ASSUME PipelineInv, GuideInv, NEW j \in Jobs, NEW k \in Jobs, j # k,
           Place(j) \notin {"idle", "ended"}, Place(k) \notin {"idle", "ended"}
    PROVE  Beside(j, k, job)
<1>1. j \in Nat /\ k \in Nat
  BY PipelineConstants DEF Jobs
<1>2. job[j].status # "UNUSED" /\ job[k].status # "UNUSED"
  BY JobTyped
<1>3. OverSound(j) /\ OverSound(k)
  BY DEF GuideInv
<1>4. CASE j < k
  BY <1>2, <1>3, <1>4 DEF OverSound, Superseded, Beside, Place
<1>5. CASE k < j
  BY <1>2, <1>3, <1>5 DEF OverSound, Superseded, Beside, Place
<1> QED
  BY <1>1, <1>4, <1>5

LEMMA GuideStep ==
    ASSUME PipelineInv, GuideInv, NEW j \in Jobs,
           \A k \in Jobs \ {j} : job'[k] = job[k] /\ worker'[k] = worker[k],
           job[j].lost => job'[j].lost,
           Superseded(worker[j], job[j]) => Superseded(worker'[j], job'[j]),
           OverSound(j)',
           stageRuns \subseteq stageRuns',
           \A r \in stageRuns' \ stageRuns :
               r.status = "SUCCEEDED" =>
                   r.job = j /\ Place(j) \notin {"idle", "ended"},
           StoredBeside(j, worker'[j], stageRuns', job'),
           GuideSound(j, worker'[j], stageRuns', job'),
           GuideOfAssessment', published'.job \in Jobs \cup {0}
    PROVE  GuideInv'
<1>1. \A k \in Jobs : job[k].lost => job'[k].lost
  OBVIOUS
<1>2. ASSUME NEW k \in Jobs \ {j}
      PROVE  /\ OverSound(k)'
             /\ StoredBeside(k, worker'[k], stageRuns', job')
             /\ GuideSound(k, worker'[k], stageRuns', job')
  <2>1. worker'[k] = worker[k] /\ job'[k] = job[k]
    OBVIOUS
  <2>2. /\ OverSound(k)
        /\ StoredBeside(k, worker[k], stageRuns, job)
        /\ GuideSound(k, worker[k], stageRuns, job)
    BY DEF GuideInv
  <2>3. OverSound(k)'
    BY <2>1, <2>2 DEF OverSound, Active, Superseded
  <2>4. StoredBeside(k, worker[k], stageRuns', job')
    <3> SUFFICES ASSUME worker[k].place \in Executing, NEW r \in stageRuns',
                        r.key = worker[k].at, r.status = "SUCCEEDED"
                 PROVE  Beside(k, r.job, job')
      BY DEF StoredBeside
    <3>1. CASE r \in stageRuns
      <4>1. Beside(k, r.job, job) /\ r.job \in Jobs
        BY <2>2, <3>1 DEF StoredBeside, PipelineInv, RunSound
      <4> QED
        BY <1>1, <4>1, BesideKept
    <3>2. CASE r \notin stageRuns
      <4>1. r.job = j /\ Place(j) \notin {"idle", "ended"}
        BY <3>2
      <4>2. Place(k) \notin {"idle", "ended"}
        BY DEF Executing, Place
      <4>3. Beside(k, j, job)
        BY <4>1, <4>2, AliveBeside
      <4> QED
        BY <1>1, <4>1, <4>3, BesideKept
    <3> QED
      BY <3>1, <3>2
  <2>5. GuideSound(k, worker[k], stageRuns', job')
    <3> SUFFICES ASSUME worker[k].place = "finalize"
                 PROVE  GuideSound(k, worker[k], stageRuns', job')
      BY DEF GuideSound
    <3>1. PICK r \in stageRuns :
            /\ r.status = "SUCCEEDED"
            /\ r.key = GuideKey(worker[k].map, worker[k].selected, worker[k].prompts)
            /\ \/ r.job = worker[k].guide /\ r.output = "READY"
               \/ worker[k].guide = k /\ Beside(k, r.job, job)
      BY <2>2 DEF GuideSound
    <3>2. Beside(k, r.job, job) => Beside(k, r.job, job')
      BY <1>1, BesideKept DEF PipelineInv, RunSound
    <3> QED
      BY <3>1, <3>2 DEF GuideSound
  <2> QED
    BY <2>1, <2>3, <2>4, <2>5
<1>3. ASSUME NEW k \in Jobs
      PROVE  /\ OverSound(k)'
             /\ StoredBeside(k, worker'[k], stageRuns', job')
             /\ GuideSound(k, worker'[k], stageRuns', job')
  BY <1>2
<1> QED
  BY <1>3 DEF GuideInv

\* What the actions do to the row of their job.
LEMMA RowKept ==
    ASSUME PipelineInv, NEW j \in Jobs,
           \/ UnchangedJob
           \/ CompleteCancellation(j)
           \/ \E status \in Outcomes, failure \in Causes : Settle(j, status, failure)
    PROVE  /\ \A k \in Jobs \ {j} : job'[k] = job[k]
           /\ job'[j].lost = job[j].lost
           /\ job[j].status # "UNUSED" => job'[j].status # "UNUSED"
<1>1. job \in [Jobs -> JobRow] /\ job[j] \in JobRow
  BY JobTyped
<1>2. CASE UnchangedJob
  BY <1>2 DEF UnchangedJob
<1>3. CASE CompleteCancellation(j)
  <2>1. CASE job[j].control = "CANCEL_REQUESTED"
    <3> DEFINE r == [job[j] EXCEPT !.control = "CANCELLED", !.status = "FAILED",
                                   !.failure = "CANCELLATION"]
    <3>1. job' = [job EXCEPT ![j] = r]
      BY <1>3, <2>1 DEF CompleteCancellation
    <3>2. r.lost = job[j].lost /\ r.status = "FAILED"
      BY <1>1 DEF JobRow
    <3> HIDE DEF r
    <3> QED
      BY <1>1, <3>1, <3>2
  <2>2. CASE job[j].control # "CANCEL_REQUESTED"
    BY <1>3, <2>2 DEF CompleteCancellation, UnchangedJob
  <2> QED
    BY <2>1, <2>2
<1>4. ASSUME NEW status \in Outcomes, NEW failure \in Causes,
             Settle(j, status, failure), Active(j)
      PROVE  /\ \A k \in Jobs \ {j} : job'[k] = job[k]
             /\ job'[j].lost = job[j].lost
             /\ job'[j].status # "UNUSED"
  <2> DEFINE r == [job[j] EXCEPT !.status = status, !.failure = failure]
  <2>1. job' = [job EXCEPT ![j] = r]
    BY <1>4 DEF Settle
  <2>2. r.lost = job[j].lost /\ r.status = status
    BY <1>1 DEF JobRow
  <2> HIDE DEF r
  <2> QED
    BY <1>1, <1>4, <2>1, <2>2 DEF Outcomes
<1> QED
  BY <1>2, <1>3, <1>4 DEF Settle

\* An execution that ends.
LEMMA EndedGuide ==
    ASSUME PipelineInv, GuideInv, NEW j \in Jobs, Place(j) # "idle", Stops(j),
           \/ UnchangedJob
           \/ CompleteCancellation(j)
           \/ \E status \in Outcomes, failure \in Causes : Settle(j, status, failure),
           stageRuns \subseteq stageRuns',
           \A r \in stageRuns' \ stageRuns : r.status # "SUCCEEDED",
           \/ published' = published
           \/ GuideOfAssessment' /\ published'.job \in Jobs \cup {0}
    PROVE  GuideInv'
<1>1. /\ \A k \in Jobs \ {j} : job'[k] = job[k]
      /\ job'[j].lost = job[j].lost
      /\ job'[j].status # "UNUSED"
  BY RowKept, JobTyped
<1>2. /\ worker'[j].place = "ended"
      /\ \A k \in Jobs \ {j} : worker'[k] = worker[k]
  BY Holds DEF Stops, NoWorker
<1>3. \A k \in Jobs : k < j => Superseded(worker[k], job[k])
  BY JobTyped DEF GuideInv, OverSound
<1>4. OverSound(j)'
  <2>1. j \in Nat
    BY PipelineConstants DEF Jobs
  <2>2. \A k \in Jobs : k < j => Superseded(worker'[k], job'[k])
    BY <1>1, <1>2, <1>3, <2>1
  <2>3. job[j].lost => ExpiresAt # {}
    BY DEF GuideInv, OverSound
  <2> QED
    BY <1>1, <1>2, <2>2, <2>3 DEF OverSound, Superseded
<1>5. GuideOfAssessment' /\ published'.job \in Jobs \cup {0}
  BY <1>1, GuideKept
<1>6. /\ StoredBeside(j, worker'[j], stageRuns', job')
      /\ GuideSound(j, worker'[j], stageRuns', job')
      /\ Superseded(worker'[j], job'[j])
  BY <1>2 DEF StoredBeside, GuideSound, Superseded, Executing
<1> QED
  BY <1>1, <1>2, <1>4, <1>5, <1>6, GuideStep

\* An execution that goes on, with the row of its job as it is.
LEMMA GoingGuide ==
    ASSUME PipelineInv, GuideInv, NEW j \in Jobs,
           Place(j) \notin {"idle", "ended"}, UnchangedJob, published' = published,
           \A k \in Jobs \ {j} : worker'[k] = worker[k],
           stageRuns \subseteq stageRuns',
           \A r \in stageRuns' \ stageRuns : r.status = "SUCCEEDED" => r.job = j,
           StoredBeside(j, worker'[j], stageRuns', job),
           GuideSound(j, worker'[j], stageRuns', job)
    PROVE  GuideInv'
<1>1. job' = job
  BY DEF UnchangedJob
<1>2. GuideOfAssessment' /\ published'.job \in Jobs \cup {0}
  BY <1>1, GuideKept
<1>3. Superseded(worker[j], job[j]) => job[j].lost
  BY DEF Superseded, Place
<1>4. OverSound(j)
  BY DEF GuideInv
<1>5. OverSound(j)'
  <2>1. j \in Nat
    BY PipelineConstants DEF Jobs
  <2> QED
    BY <1>1, <1>3, <1>4, <2>1 DEF OverSound, Superseded, Active
<1> QED
  BY <1>1, <1>2, <1>3, <1>5, GuideStep DEF Superseded

\* The row is written under the execution, or as it comes to a stage.
LEMMA RowGuide ==
    ASSUME PipelineInv, GuideInv, NEW j \in Jobs, UnchangedTables,
           job[j].status # "UNUSED",
           NEW r, job' = [job EXCEPT ![j] = r], r.status # "UNUSED",
           job[j].lost => r.lost, r.lost => ExpiresAt # {},
           r.status \in {"FAILED", "NEEDS_REVIEW"} /\ r.control = "ACTIVE" =>
               Superseded(worker'[j], r),
           \A k \in Jobs \ {j} : worker'[k] = worker[k],
           Superseded(worker[j], job[j]) => Superseded(worker'[j], r),
           worker'[j] = worker[j] \/ worker'[j].place \in {"set", "look"}
    PROVE  GuideInv'
<1>1. /\ job'[j] = r
      /\ \A k \in Jobs \ {j} : job'[k] = job[k]
  BY JobTyped
<1>2. \A k \in Jobs : job[k].lost => job'[k].lost
  BY <1>1
<1>3. GuideOfAssessment' /\ published'.job \in Jobs \cup {0}
  BY <1>2, GuideKept DEF UnchangedTables
<1>4. OverSound(j)
  BY DEF GuideInv
<1>5. OverSound(j)'
  <2>1. j \in Nat
    BY PipelineConstants DEF Jobs
  <2>2. \A k \in Jobs : k < j => Superseded(worker'[k], job'[k])
    BY <1>1, <1>4, <2>1 DEF OverSound
  <2> QED
    BY <1>1, <2>2 DEF OverSound, Active
<1>6. /\ StoredBeside(j, worker'[j], stageRuns', job')
      /\ GuideSound(j, worker'[j], stageRuns', job')
  <2>1. CASE worker'[j].place \in {"set", "look"}
    BY <2>1 DEF StoredBeside, GuideSound, Executing
  <2>2. CASE worker'[j] = worker[j]
    <3>1. /\ StoredBeside(j, worker[j], stageRuns, job)
          /\ GuideSound(j, worker[j], stageRuns, job)
          /\ \A s \in stageRuns : s.job \in Jobs
      BY DEF GuideInv, PipelineInv, RunSound
    <3>2. \A s \in stageRuns : Beside(j, s.job, job) => Beside(j, s.job, job')
      BY <1>2, <3>1, BesideKept
    <3>3. stageRuns' = stageRuns
      BY DEF UnchangedTables
    <3>4. StoredBeside(j, worker[j], stageRuns, job')
      BY <3>1, <3>2 DEF StoredBeside
    <3>5. GuideSound(j, worker[j], stageRuns, job')
      BY <3>1, <3>2 DEF GuideSound
    <3> QED
      BY <2>2, <3>3, <3>4, <3>5
  <2> QED
    BY <2>1, <2>2
<1>7. stageRuns' = stageRuns
  BY DEF UnchangedTables
<1> QED
  BY <1>1, <1>2, <1>3, <1>5, <1>6, <1>7, GuideStep

LEMMA EndedGuideActions ==
    ASSUME PipelineInv, GuideInv, NEW j \in Jobs,
           \/ StopAtCheckpoint(j) \/ Crash(j) \/ RefuseToExecute(j)
           \/ ValidationFails(j) \/ NeedsReview(j) \/ GuideFails(j)
    PROVE  GuideInv'
<1>1. /\ {"FAILED", "NEEDS_REVIEW"} \subseteq Outcomes
      /\ {"PRECONDITION", "VALIDATION", "PERMANENT"} \subseteq Causes
      /\ job[j].failure \in Causes
  BY JobTyped DEF Outcomes, Causes, Failures, JobRow
<1>2. /\ Place(j) # "idle" /\ Stops(j) /\ UnchangedTables
      /\ \/ UnchangedJob
         \/ CompleteCancellation(j)
         \/ \E status \in Outcomes, failure \in Causes : Settle(j, status, failure)
  <2>1. CASE StopAtCheckpoint(j)
    BY <2>1 DEF StopAtCheckpoint, Checkpoints
  <2>2. CASE Crash(j)
    BY <2>2 DEF Crash
  <2>3. CASE RefuseToExecute(j)
    BY <1>1, <2>3 DEF RefuseToExecute
  <2>4. CASE ValidationFails(j)
    BY <1>1, <2>4 DEF ValidationFails
  <2>5. CASE NeedsReview(j)
    BY <1>1, <2>5 DEF NeedsReview
  <2>6. CASE GuideFails(j)
    BY <1>1, <2>6 DEF GuideFails
  <2> QED
    BY <2>1, <2>2, <2>3, <2>4, <2>5, <2>6
<1>3. stageRuns' = stageRuns /\ published' = published
  BY <1>2 DEF UnchangedTables
<1> QED
  BY <1>2, <1>3, EndedGuide

LEMMA StageFailsGuide ==
    ASSUME PipelineInv, GuideInv, NEW j \in Jobs, StageFails(j)
    PROVE  GuideInv'
<1>1. "FAILED" \in Outcomes /\ invocation[j].failure \in Causes
  BY JobsCall DEF Invocation, Outcomes, Causes
<1>2. /\ Place(j) # "idle" /\ Stops(j) /\ published' = published
      /\ \E status \in Outcomes, failure \in Causes : Settle(j, status, failure)
  BY <1>1 DEF StageFails
<1>3. PICK n : n = Run(j, worker[j].at, "FAILED", NoAnswer)
  OBVIOUS
<1>4. stageRuns' = stageRuns \/ stageRuns' = stageRuns \cup {n}
  BY <1>3 DEF StageFails
<1>5. n.status = "FAILED"
  BY <1>3, RunFields
<1> QED
  BY <1>2, <1>4, <1>5, EndedGuide

\* The guide that is published is the one that its execution was about to
\* publish.
LEMMA FinalizeGuide ==
    ASSUME PipelineInv, GuideInv, NEW j \in Jobs, Finalize(j)
    PROVE  GuideInv'
<1>1. {"FAILED", "SUCCEEDED"} \subseteq Outcomes /\ {"NONE", "PERMANENT"} \subseteq Causes
  BY DEF Outcomes, Causes, Failures
<1>2. /\ Place(j) # "idle" /\ Stops(j) /\ stageRuns' = stageRuns
      /\ \E status \in Outcomes, failure \in Causes : Settle(j, status, failure)
  BY <1>1 DEF Finalize
<1>3. CASE published' = published
  BY <1>2, <1>3, EndedGuide
<1>4. CASE published' = Published(j, worker[j])
  <2>1. PICK w : w = worker[j]
    OBVIOUS
  <2>2. /\ published'.job = j /\ published'.map = w.map
        /\ published'.questions = w.selected /\ published'.prompts = w.prompts
        /\ published'.guide = w.guide
    BY <1>4, <2>1 DEF Published
  <2>3. PICK r \in stageRuns :
          /\ r.status = "SUCCEEDED"
          /\ r.key = GuideKey(w.map, w.selected, w.prompts)
          /\ \/ r.job = w.guide /\ r.output = "READY"
             \/ w.guide = j /\ Beside(j, r.job, job)
    BY <2>1 DEF Finalize, Place, GuideInv, GuideSound
  <2>4. r \in Saved(StoredGuide)'
    BY <1>2, <2>2, <2>3 DEF Saved, StoredGuide
  <2>5. \A k \in Jobs : job[k].lost => job'[k].lost
    BY <1>2, RowKept
  <2>6. GuideOfAssessment'
    <3>1. CASE r.job = w.guide /\ r.output = "READY"
      BY <2>2, <2>4, <3>1 DEF GuideOfAssessment
    <3>2. CASE w.guide = j /\ Beside(j, r.job, job)
      <4>1. r.job \in Jobs
        BY DEF PipelineInv, RunSound
      <4>2. r.job # j /\ (job'[r.job].lost \/ job'[j].lost)
        BY <2>5, <3>2, <4>1 DEF Beside
      <4> QED
        BY <2>2, <2>4, <3>2, <4>2 DEF GuideOfAssessment
    <3> QED
      BY <2>3, <3>1, <3>2
  <2> QED
    BY <1>2, <2>2, <2>6, EndedGuide
<1> QED
  BY <1>3, <1>4 DEF Finalize

LEMMA MovedFields ==
    ASSUME NEW w, WorkerTyped(w), NEW place, NEW out, NEW reached,
           NEW r, r = Moved(w, place, out, reached)
    PROVE  r.place = place /\ r.at = w.at
<1>1. w = [place |-> w.place, at |-> w.at, out |-> w.out,
           reached |-> w.reached, map |-> w.map, queue |-> w.queue,
           reserves |-> w.reserves, selected |-> w.selected,
           prompts |-> w.prompts, guide |-> w.guide]
  BY DEF WorkerTyped
<1> QED
  BY <1>1 DEF Moved

\* An execution that begins to execute the stage it is at, whose output was
\* not there when it looked.
LEMMA ExecutingGuide ==
    ASSUME PipelineInv, GuideInv, NEW j \in Jobs, Executes(j),
           UnchangedJob, UnchangedTables,
           NEW place \in Executing, NEW out, NEW reached,
           worker' = [worker EXCEPT ![j] = Moved(worker[j], place, out, reached)]
    PROVE  GuideInv'
<1>1. Place(j) = "look" /\ Saved(worker[j].at) = {}
  BY DEF Executes
<1>2. PICK w : w = Moved(worker[j], place, out, reached)
  OBVIOUS
<1>3. w.place = place /\ w.at = worker[j].at
  BY <1>2, Holds, MovedFields
<1>4. /\ worker'[j] = w
      /\ \A k \in Jobs \ {j} : worker'[k] = worker[k]
  BY <1>2, Holds
<1>5. stageRuns' = stageRuns /\ published' = published
  BY DEF UnchangedTables
<1>6. StoredBeside(j, w, stageRuns, job) /\ GuideSound(j, w, stageRuns, job)
  BY <1>1, <1>3 DEF StoredBeside, GuideSound, Saved, Executing
<1> QED
  BY <1>1, <1>4, <1>5, <1>6, GoingGuide

\* An execution that goes on executing it.
LEMMA StillExecutingGuide ==
    ASSUME PipelineInv, GuideInv, NEW j \in Jobs, Place(j) \in Executing,
           UnchangedJob, UnchangedTables,
           NEW place \in Executing, NEW out, NEW reached,
           \/ worker' = [worker EXCEPT ![j] = Moved(worker[j], place, out, reached)]
           \/ worker' = worker
    PROVE  GuideInv'
<1>1. PICK w : w = worker'[j]
  OBVIOUS
<1>2. /\ w.place \in Executing /\ w.at = worker[j].at
      /\ \A k \in Jobs \ {j} : worker'[k] = worker[k]
  <2>1. CASE worker' = worker
    BY <1>1, <2>1 DEF Place
  <2>2. CASE worker' = [worker EXCEPT ![j] = Moved(worker[j], place, out, reached)]
    BY <1>1, <2>2, Holds, MovedFields
  <2> QED
    BY <2>1, <2>2
<1>3. StoredBeside(j, worker[j], stageRuns, job)
  BY DEF GuideInv
<1>4. StoredBeside(j, w, stageRuns, job) /\ GuideSound(j, w, stageRuns, job)
  BY <1>2, <1>3 DEF StoredBeside, GuideSound, Executing, Place
<1>5. stageRuns' = stageRuns /\ published' = published
  BY DEF UnchangedTables
<1>6. Place(j) \notin {"idle", "ended"}
  BY DEF Executing
<1> QED
  BY <1>1, <1>2, <1>4, <1>5, <1>6, GoingGuide

LEMMA ExecutingGuideActions ==
    ASSUME PipelineInv, GuideInv, NEW j \in Jobs,
           Compute(j) \/ Ask(j) \/ Provider(j) \/ TakeAnswer(j) \/ PassCheckpoint(j)
    PROVE  GuideInv'
<1> DEFINE v == worker[j]
<1>1. WorkerTyped(v)
  BY Holds
<1>2. CASE Compute(j)
  <2>1. worker' = [worker EXCEPT ![j] = OutputComputed(v, StageOf(v.at))]
    BY <1>2 DEF Compute, OutputComputed
  <2>2. worker' = [worker EXCEPT ![j] = Moved(v, "save", StageOf(v.at), TRUE)]
    BY <1>1, <2>1, MovedRow
  <2> QED
    BY <1>2, <2>2, ExecutingGuide DEF Compute, Executing
<1>3. CASE Ask(j)
  <2>1. worker' = [worker EXCEPT ![j] = ModelAsked(v)]
    BY <1>3 DEF Ask, ModelAsked
  <2>2. worker' = [worker EXCEPT ![j] = Moved(v, "asking", v.out, TRUE)]
    BY <1>1, <2>1, MovedRow
  <2> QED
    BY <1>3, <2>2, ExecutingGuide DEF Ask, Executing
<1>4. CASE Provider(j)
  BY <1>4, StillExecutingGuide DEF Provider, Executing
<1>5. CASE TakeAnswer(j)
  <2>1. worker' = [worker EXCEPT ![j] = AnswerTaken(v, invocation[j].answer)]
    BY <1>5 DEF TakeAnswer, AnswerTaken
  <2>2. worker' = [worker EXCEPT ![j] = Moved(v, "taken", invocation[j].answer, v.reached)]
    BY <1>1, <2>1, MovedRow
  <2> QED
    BY <1>5, <2>2, StillExecutingGuide DEF TakeAnswer, Executing
<1>6. CASE PassCheckpoint(j)
  <2>1. worker' = [worker EXCEPT ![j] = PlaceSet(v, "save")]
    BY <1>6 DEF PassCheckpoint, Goto, PlaceSet
  <2>2. worker' = [worker EXCEPT ![j] = Moved(v, "save", v.out, v.reached)]
    BY <1>1, <2>1, MovedRow
  <2> QED
    BY <1>6, <2>2, StillExecutingGuide DEF PassCheckpoint, Executing
<1> QED
  BY <1>2, <1>3, <1>4, <1>5, <1>6

\* An execution that has the output of its stage, from by.
LEMMA AdvancedGuide ==
    ASSUME PipelineInv, GuideInv, NEW j \in Jobs, worker[j].place \in {"look", "save"},
           NEW out \in OutputsOf(StageOf(worker[j].at)), NEW by \in Jobs,
           worker' = [worker EXCEPT ![j] = Advance(j, worker[j], out, by)],
           UnchangedJob, published' = published, stageRuns \subseteq stageRuns',
           \A s \in stageRuns' \ stageRuns : s.status = "SUCCEEDED" => s.job = j,
           \E s \in stageRuns' :
               /\ s.status = "SUCCEEDED" /\ s.key = worker[j].at
               /\ \/ s.job = by /\ s.output = out
                  \/ by = j /\ Beside(j, s.job, job)
    PROVE  GuideInv'
<1>1. PICK w, r : w = worker[j] /\ r = Advance(j, w, out, by)
  OBVIOUS
<1>2. HeldSound(w, job[j].floor, reviewed) /\ GatewayInv
  BY <1>1, Holds DEF PipelineInv
<1>3. /\ r.place \in {"set", "look", "refused", "review", "broken", "finalize"}
      /\ r.place = "finalize" => Guided(r, w, out, by)
  BY <1>1, <1>2, AdvanceSound
<1>4. /\ worker'[j] = r
      /\ \A k \in Jobs \ {j} : worker'[k] = worker[k]
  BY <1>1, Holds
<1>5. StoredBeside(j, r, stageRuns', job)
  BY <1>3 DEF StoredBeside, Executing
<1>6. GuideSound(j, r, stageRuns', job)
  BY <1>1, <1>3 DEF GuideSound, Guided
<1>7. Place(j) \notin {"idle", "ended"}
  BY DEF Place
<1> QED
  BY <1>4, <1>5, <1>6, <1>7, GoingGuide

LEMMA ReuseGuide ==
    ASSUME PipelineInv, GuideInv, NEW j \in Jobs, Reuse(j)
    PROVE  GuideInv'
<1>1. PICK run \in Saved(worker[j].at) :
        worker' = [worker EXCEPT ![j] = Advance(j, worker[j], run.output, run.job)]
  BY DEF Reuse
<1>2. run \in stageRuns /\ run.key = worker[j].at /\ run.status = "SUCCEEDED"
      /\ RunSound(run)
  BY DEF Saved, PipelineInv
<1>3. PICK out \in OutputsOf(StageOf(worker[j].at)), by \in Jobs :
        out = run.output /\ by = run.job
  BY <1>2 DEF RunSound
<1>4. worker' = [worker EXCEPT ![j] = Advance(j, worker[j], out, by)]
  BY <1>1, <1>3
<1>5. /\ worker[j].place \in {"look", "save"} /\ UnchangedJob
      /\ stageRuns' = stageRuns /\ published' = published
  BY DEF Reuse, Place
<1> QED
  BY <1>2, <1>3, <1>4, <1>5, AdvancedGuide

LEMMA SaveGuide ==
    ASSUME PipelineInv, GuideInv, NEW j \in Jobs, Save(j)
    PROVE  GuideInv'
<1>1. PICK w, runs : w = worker[j] /\ runs = stageRuns'
  OBVIOUS
<1>2. /\ runs = Stored(j, w.at, w.out) /\ UnchangedJob
      /\ worker' = [worker EXCEPT ![j] = Advance(j, w, w.out, j)]
      /\ published' = published /\ w.place = "save"
  BY <1>1 DEF Save, Place
<1>3. HeldSound(w, job[j].floor, reviewed) /\ Working(w) /\ IsKey(w.at)
  BY <1>1, Holds, WorkingFacts DEF Save, Place, WorkingPlaces
<1>4. w.out \in OutputsOf(StageOf(w.at))
  BY <1>2, <1>3 DEF HeldSound, AtSound
<1>5. /\ stageRuns \subseteq runs
      /\ \A s \in runs \ stageRuns : RunSound(s) /\ s.job = j /\ s.key = w.at
  BY <1>2, <1>3, <1>4, StoredRuns
<1>6. \E s \in runs :
        /\ s.status = "SUCCEEDED" /\ s.key = w.at
        /\ \/ s.job = j /\ s.output = w.out
           \/ Beside(j, s.job, job)
  <2>1. CASE Saved(w.at) = {}
    <3>1. PICK n : n = Run(j, w.at, "SUCCEEDED", w.out)
      OBVIOUS
    <3>2. n \in runs
      BY <1>2, <2>1, <3>1 DEF Stored
    <3> QED
      BY <3>1, <3>2, RunFields
  <2>2. CASE Saved(w.at) # {}
    <3>1. PICK s \in stageRuns : s.key = w.at /\ s.status = "SUCCEEDED"
      BY <2>2 DEF Saved
    <3>2. Beside(j, s.job, job)
      BY <1>1, <1>2, <3>1 DEF GuideInv, StoredBeside, Executing
    <3> QED
      BY <1>5, <3>1, <3>2
  <2> QED
    BY <2>1, <2>2
<1> QED
  BY <1>1, <1>2, <1>4, <1>5, <1>6, AdvancedGuide

LEMMA RowGuideActions ==
    ASSUME PipelineInv, GuideInv, NEW j \in Jobs,
           Claim(j) \/ SetStage(j) \/ RequestCancel(j)
    PROVE  GuideInv'
<1>1. job[j] \in JobRow /\ job \in [Jobs -> JobRow]
  BY JobTyped
<1>2. job[j].lost => ExpiresAt # {}
  BY DEF GuideInv, OverSound
<1>3. CASE Claim(j)
  <2> DEFINE r == [job[j] EXCEPT !.status = "RUNNING"]
  <2>1. job' = [job EXCEPT ![j] = r] /\ UnchangedTables /\ job[j].status = "QUEUED"
    BY <1>3 DEF Claim
  <2>2. r.status = "RUNNING" /\ r.lost = job[j].lost
    BY <1>1 DEF JobRow
  <2>3. worker[j] = NoWorkerAt("idle")
    BY <1>3, Holds DEF Claim, Unused, WorkerTyped, Place
  <2>4. /\ worker'[j].place = "set" /\ worker[j].place = "idle"
        /\ \A k \in Jobs \ {j} : worker'[k] = worker[k]
    BY <1>3, <2>3, Holds DEF Claim, Goto, NoWorkerAt, NoWorker
  <2> HIDE DEF r
  <2> QED
    BY <1>2, <2>1, <2>2, <2>4, RowGuide DEF Superseded
<1>4. CASE SetStage(j)
  <2> DEFINE r == [job[j] EXCEPT !.status = "RUNNING", !.stage = StageOf(worker[j].at)]
  <2>1. job' = [job EXCEPT ![j] = r] /\ UnchangedTables /\ Place(j) = "set"
    BY <1>4 DEF SetStage
  <2>2. r.status = "RUNNING" /\ r.lost = job[j].lost
    BY <1>1 DEF JobRow
  <2>3. PICK b : worker' = [worker EXCEPT ![j] = StageBegun(worker[j], b)]
    BY <1>4 DEF SetStage
  <2>4. StageBegun(worker[j], b) = Moved(worker[j], "look", worker[j].out, b)
    BY MovedRow, Holds
  <2>5. /\ worker'[j].place = "look"
        /\ \A k \in Jobs \ {j} : worker'[k] = worker[k]
    BY <2>3, <2>4, Holds, MovedFields
  <2>6. job[j].status # "UNUSED"
    BY <2>1, JobTyped
  <2> HIDE DEF r
  <2> QED
    BY <1>2, <2>1, <2>2, <2>5, <2>6, RowGuide DEF Superseded, Place
<1>5. CASE RequestCancel(j)
  <2> DEFINE r == [job[j] EXCEPT !.control = "CANCEL_REQUESTED"]
  <2>1. job' = [job EXCEPT ![j] = r] /\ UnchangedTables /\ job[j].status = "RUNNING"
        /\ worker' = worker
    BY <1>5 DEF RequestCancel
  <2>2. r.status = "RUNNING" /\ r.lost = job[j].lost
    BY <1>1, <2>1 DEF JobRow
  <2> HIDE DEF r
  <2> QED
    BY <1>2, <2>1, <2>2, RowGuide DEF Superseded
<1> QED
  BY <1>3, <1>4, <1>5

LEMMA LoseLeaseGuide ==
    ASSUME PipelineInv, GuideInv, NEW j \in Jobs, LoseLease(j)
    PROVE  GuideInv'
<1>1. job[j] \in JobRow /\ job \in [Jobs -> JobRow]
  BY JobTyped
<1>2. job[j].lost => ExpiresAt # {}
  BY DEF GuideInv, OverSound
<1>3. job[j].status = "RUNNING" /\ worker' = worker /\ UnchangedTables
  BY DEF LoseLease
<1>4. CASE Active(j)
  <2> DEFINE lost == job[j].lost \/ Place(j) # "ended"
             r == [job[j] EXCEPT !.status = "FAILED", !.failure = "TRANSIENT",
                                 !.lost = job[j].lost \/ Place(j) # "ended"]
  <2>1. job' = [job EXCEPT ![j] = r]
    BY <1>4 DEF LoseLease
  <2>2. r.status = "FAILED" /\ (r.lost <=> job[j].lost \/ Place(j) # "ended")
    BY <1>1 DEF JobRow
  <2>3. Place(j) # "ended" => ExpiresAt # {}
    BY DEF LoseLease
  <2> HIDE DEF r
  <2> QED
    BY <1>2, <1>3, <2>1, <2>2, <2>3, RowGuide DEF Superseded, Place
<1>5. CASE ~Active(j) /\ job[j].control = "CANCEL_REQUESTED"
  <2> DEFINE r == [job[j] EXCEPT !.control = "CANCELLED", !.status = "FAILED",
                                 !.failure = "CANCELLATION"]
  <2>1. job' = [job EXCEPT ![j] = r]
    BY <1>5 DEF LoseLease, CompleteCancellation
  <2>2. r.status = "FAILED" /\ r.lost = job[j].lost /\ r.control = "CANCELLED"
    BY <1>1 DEF JobRow
  <2> HIDE DEF r
  <2> QED
    BY <1>2, <1>3, <2>1, <2>2, RowGuide DEF Superseded
<1>6. CASE ~Active(j) /\ job[j].control # "CANCEL_REQUESTED"
  <2>1. job' = job
    BY <1>6 DEF LoseLease, CompleteCancellation, UnchangedJob
  <2>2. PICK r : r = job[j]
    OBVIOUS
  <2>3. job' = [job EXCEPT ![j] = r]
    BY <1>1, <2>1, <2>2
  <2> QED
    BY <1>2, <1>3, <1>6, <2>2, <2>3, RowGuide DEF Superseded, Active
<1> QED
  BY <1>4, <1>5, <1>6

\* A continuation finds every job before it over, or without its lease.
LEMMA ContinueGuide ==
    ASSUME PipelineInv, GuideInv, NEW j \in Jobs, NEW floor \in StageNames,
           Continue(j, floor)
    PROVE  GuideInv'
<1>1. PICK k \in Jobs : k = j + 1
  BY DEF Continue
<1>2. j \in Nat /\ k \in Nat /\ j < k
  BY <1>1, PipelineConstants DEF Jobs
<1>3. /\ job[k].status = "UNUSED" /\ Active(j) /\ worker' = worker
      /\ job[j].status \in {"FAILED", "NEEDS_REVIEW"}
      /\ UnchangedTables
  BY <1>1 DEF Continue
<1> DEFINE r == [NoJob EXCEPT !.status = "QUEUED", !.stage = floor, !.floor = floor]
<1>4. job' = [job EXCEPT ![k] = r]
  BY <1>1 DEF Continue
<1>5. r.status = "QUEUED" /\ r.lost = FALSE
  BY DEF NoJob
<1> HIDE DEF r
<1>6. /\ job'[k] = r
      /\ \A i \in Jobs \ {k} : job'[i] = job[i] /\ worker'[i] = worker[i]
  BY <1>3, <1>4, JobTyped
<1>7. ~job[k].lost /\ worker[k].place = "idle"
  BY <1>3 DEF GuideInv, OverSound, PipelineInv, Unused, Place
<1>8. \A i \in Jobs : i < k => Superseded(worker[i], job[i])
  <2>1. OverSound(j)
    BY DEF GuideInv
  <2>2. ASSUME NEW i \in Jobs, i < k
        PROVE  Superseded(worker[i], job[i])
    <3>1. i \in Nat
      BY PipelineConstants DEF Jobs
    <3>2. i = j \/ i < j
      BY <1>1, <1>2, <2>2, <3>1
    <3>3. CASE i = j
      BY <1>3, <2>1, <3>3 DEF OverSound
    <3>4. CASE i < j
      BY <1>3, <2>1, <3>4 DEF OverSound
    <3> QED
      BY <3>2, <3>3, <3>4
  <2> QED
    BY <2>2
<1>9. OverSound(k)'
  <2>1. \A i \in Jobs : i < k => Superseded(worker'[i], job'[i])
    BY <1>2, <1>6, <1>8
  <2> QED
    BY <1>5, <1>6, <2>1 DEF OverSound
<1>10. /\ StoredBeside(k, worker'[k], stageRuns', job')
       /\ GuideSound(k, worker'[k], stageRuns', job')
  BY <1>3, <1>7 DEF StoredBeside, GuideSound, Executing
<1>11. stageRuns' = stageRuns /\ published' = published
  BY <1>3 DEF UnchangedTables
<1>12. \A i \in Jobs : job[i].lost => job'[i].lost
  BY <1>6, <1>7
<1>13. GuideOfAssessment' /\ published'.job \in Jobs \cup {0}
  BY <1>11, <1>12, GuideKept
<1>14. Superseded(worker[k], job[k]) => Superseded(worker'[k], job'[k])
  BY <1>7 DEF Superseded
<1> QED
  BY <1>6, <1>9, <1>10, <1>11, <1>12, <1>13, <1>14, GuideStep

LEMMA GuideInitInv == PipelineInit => GuideInv
<1> SUFFICES ASSUME PipelineInit PROVE GuideInv
  OBVIOUS
<1>1. /\ stageRuns = {} /\ published.job = 0
      /\ \A j \in Jobs : /\ worker[j].place = "idle"
                         /\ ~job[j].lost
                         /\ job[j].status = IF j = 1 THEN "QUEUED" ELSE "UNUSED"
  BY DEF PipelineInit, NoWorker, NoJob, Unpublished
<1>2. \A j \in Jobs : j \in Nat \ {0}
  BY PipelineConstants DEF Jobs
<1>3. \A j, k \in Jobs : k < j => job[j].status = "UNUSED"
  BY <1>1, <1>2
<1>4. \A j \in Jobs : OverSound(j)
  BY <1>1, <1>3 DEF OverSound
<1> QED
  BY <1>1, <1>4 DEF GuideInv, StoredBeside, GuideSound, GuideOfAssessment, Executing

LEMMA GuideStutter ==
    ASSUME PipelineInv, GuideInv, UNCHANGED pipelineVars
    PROVE  GuideInv'
  BY DEF GuideInv, OverSound, Active, Superseded, StoredBeside, GuideSound, Beside,
         GuideOfAssessment, StoredGuide, Saved, pipelineVars

LEMMA PipelineNextGuide ==
    ASSUME PipelineInv, GuideInv, PipelineNext
    PROVE  GuideInv'
<1>1. PICK j \in Jobs :
        \/ WorkerStep(j)
        \/ Crash(j) \/ LoseLease(j) \/ RequestCancel(j)
        \/ \E floor \in StageNames : Continue(j, floor)
  BY DEF PipelineNext
<1> QED
  BY <1>1, EndedGuideActions, StageFailsGuide, FinalizeGuide, ExecutingGuideActions,
     ReuseGuide, SaveGuide, RowGuideActions, LoseLeaseGuide, ContinueGuide
     DEF WorkerStep

\* The guide that finalize_submission_assessment publishes is READY and stored
\* for what it publishes; where another one is stored there it is the
\* execution's own, and one of the two executions went on after it had lost its
\* lease: save_stage (repository.py) keeps the first, and its caller does not
\* look at what it returns (workflows.py, _execute_prompt).
THEOREM PipelinePublishesItsGuide == PipelineSpec => []GuideOfAssessment
<1>1. PipelineInit => GuideInv
  BY GuideInitInv
<1>2. PipelineInv /\ GuideInv /\ [PipelineNext]_pipelineVars => GuideInv'
  BY PipelineNextGuide, GuideStutter
<1>3. GuideInv => GuideOfAssessment
  BY DEF GuideInv
<1> QED
  BY <1>1, <1>2, <1>3, PipelineInvariant, PTL DEF PipelineSpec

\* Where no live execution loses its lease, what is published is the stored
\* guide, whichever job built it.
THEOREM PipelinePublishesStoredGuide ==
    ExpiresAt = {} => (PipelineSpec => []PublishesStoredGuide)
<1> SUFFICES ASSUME ExpiresAt = {} PROVE PipelineSpec => []PublishesStoredGuide
  OBVIOUS
<1>1. PipelineInv /\ GuideInv => PublishesStoredGuide
  <2> SUFFICES ASSUME PipelineInv, GuideInv, published.job # 0
               PROVE  PublishesStoredGuide
    BY DEF PublishesStoredGuide
  <2>1. \A k \in Jobs : ~job[k].lost
    BY DEF GuideInv, OverSound
  <2>2. \A r \in stageRuns : r.job \in Jobs
    BY DEF PipelineInv, RunSound
  <2> QED
    BY <2>1, <2>2 DEF GuideInv, GuideOfAssessment, PublishesStoredGuide, Saved
<1>2. PipelineInit => GuideInv
  BY GuideInitInv
<1>3. PipelineInv /\ GuideInv /\ [PipelineNext]_pipelineVars => GuideInv'
  BY PipelineNextGuide, GuideStutter
<1> QED
  BY <1>1, <1>2, <1>3, PipelineInvariant, PTL DEF PipelineSpec
=============================================================================

----------------------------- MODULE RequestGate -----------------------------
(***************************************************************************)
(* What every mutation of the API passes before its handler and after it:  *)
(* the reservation of its Idempotency-Key, which is completed with a       *)
(* descriptor of the answer, or released.                                  *)
(*                                                                         *)
(* An action is one transaction on the table of keys.  A refusal (401,     *)
(* 403, 409, 428, 429) that changes no table only ends the request.  A     *)
(* definition whose comment says "Mutation" is not used by the             *)
(* specification.                                                          *)
(***************************************************************************)
CONSTANTS
    Requests,       \* slots for requests that are being served
    Keys,           \* Idempotency-Keys of one tenant
    Prints,         \* fingerprints: authorization, method, path, If-Match, body
    Descriptors,    \* replay descriptors
    Absent          \* no key, no fingerprint, no descriptor

ASSUME GateConstants == Absent \notin Keys \cup Prints \cup Descriptors

VARIABLES
    keys,       \* table "idempotency_keys"
    request,    \* what a coroutine of the middleware holds
    stray       \* history: keys of which a second release has deleted a row

gateVars == <<keys, request, stray>>

-----------------------------------------------------------------------------
FreeKey == [state |-> "free", print |-> Absent, response |-> Absent]
NoRequest ==
    [place |-> "idle", key |-> Absent, print |-> Absent, response |-> Absent]

\* From the reservation to the completion or the release of the key.
HolderPlaces == {"handling", "returned", "complete", "refused", "failing"}
\* "released": the first release has reached the database and has raised.
Places == {"idle", "gate", "replay", "released"} \cup HolderPlaces

GateInit ==
    /\ keys = [k \in Keys |-> FreeKey]
    /\ request = [r \in Requests |-> NoRequest]
    /\ stray = {}

-----------------------------------------------------------------------------
\* Within the limits of RateLimiter; authenticated, and with its CSRF token.
Admit(r, k, p) ==
    /\ request[r].place = "idle"
    /\ request' = [request EXCEPT ![r] =
                     [NoRequest EXCEPT !.place = "gate", !.key = k,
                                       !.print = p]]
    /\ UNCHANGED <<keys, stray>>

-----------------------------------------------------------------------------
(***************************************************************************)
(* The key.  The unique pair of tenant and key decides between requests    *)
(* that insert at once; the loser looks at the row of the winner.          *)
(***************************************************************************)
Goto(r, place) == [request EXCEPT ![r].place = place]
End(r) == [request EXCEPT ![r] = NoRequest]

\* Mutation: a reservation in progress with the same fingerprint is entered.
ReserveInProgress(r) ==
    /\ request[r].place = "gate"
    /\ \/ keys[request[r].key].state = "free"
       \/ keys[request[r].key] =
            [state |-> "reserved", print |-> request[r].print,
             response |-> Absent]
    /\ keys' = [keys EXCEPT ![request[r].key] =
                  [state |-> "reserved", print |-> request[r].print,
                   response |-> Absent]]
    /\ request' = Goto(r, "handling")
    /\ UNCHANGED stray

Reserve(r) ==
    /\ request[r].place = "gate"
    /\ keys[request[r].key].state = "free"
    /\ keys' = [keys EXCEPT ![request[r].key] =
                  [state |-> "reserved", print |-> request[r].print,
                   response |-> Absent]]
    /\ request' = Goto(r, "handling")
    /\ UNCHANGED stray

\* IDEMPOTENCY_KEY_REUSED, or IDEMPOTENCY_REQUEST_IN_PROGRESS.
Refuse(r) ==
    /\ request[r].place = "gate"
    /\ keys[request[r].key].state # "free"
    /\ \/ keys[request[r].key].print # request[r].print
       \/ keys[request[r].key].state = "reserved"
    /\ request' = End(r)
    /\ UNCHANGED <<keys, stray>>

FindCompleted(r) ==
    /\ request[r].place = "gate"
    /\ keys[request[r].key].state = "done"
    /\ keys[request[r].key].print = request[r].print
    /\ request' = [request EXCEPT ![r] =
                     [@ EXCEPT !.place = "replay",
                               !.response = keys[request[r].key].response]]
    /\ UNCHANGED <<keys, stray>>

\* replay_response, which the composition completes with what it signs.
Replay(r) ==
    /\ request[r].place = "replay"
    /\ request' = End(r)
    /\ UNCHANGED <<keys, stray>>

\* The handler answers below 400 with JSON.
HandlerReturns(r) ==
    /\ request[r].place = "handling"
    /\ request' = Goto(r, "returned")
    /\ UNCHANGED <<keys, stray>>

\* It answers 400 or more, or something else than JSON; or it raises, and the
\* middleware is in its except clause.  It may have committed in either case.
HandlerFails(r) ==
    /\ request[r].place = "handling"
    /\ \/ request' = Goto(r, "refused")
       \/ request' = Goto(r, "failing")
    /\ UNCHANGED <<keys, stray>>

\* replay_descriptor.
Describe(r, d) ==
    /\ request[r].place = "returned"
    /\ request' = [request EXCEPT ![r] =
                     [@ EXCEPT !.place = "complete", !.response = d]]
    /\ UNCHANGED <<keys, stray>>

DescribeFails(r) ==
    /\ request[r].place = "returned"
    /\ request' = Goto(r, "failing")
    /\ UNCHANGED <<keys, stray>>

Completable(r) ==
    LET row == keys[request[r].key] IN
    /\ row.state # "free"
    /\ row.print = request[r].print
    /\ row.state = "done" => row.response = request[r].response

\* The commit of the descriptor may reach the database and raise all the same.
Complete(r) ==
    /\ request[r].place = "complete"
    /\ Completable(r)
    /\ keys' = [keys EXCEPT ![request[r].key] =
                  [state |-> "done", print |-> request[r].print,
                   response |-> request[r].response]]
    /\ \/ request' = End(r)
       \/ request' = Goto(r, "failing")
    /\ UNCHANGED stray

\* It is refused, or raises without having reached the database.
CompleteFails(r) ==
    /\ request[r].place = "complete"
    /\ request' = Goto(r, "failing")
    /\ UNCHANGED <<keys, stray>>

\* Mutation: the row is deleted with its answer.
ReleasedAnyway(row, print) == IF row.print = print THEN FreeKey ELSE row

Released(row, print) ==
    IF row.print = print /\ row.state = "reserved" THEN FreeKey ELSE row

FreesKey(r) ==
    keys' = [keys EXCEPT ![request[r].key] = Released(@, request[r].print)]

\* The release of a refused answer is made inside the try: when it raises, its
\* commit done or not, the except clause releases once more.
ReleaseAnswered(r) ==
    /\ request[r].place = "refused"
    /\ \/ FreesKey(r) /\ request' = End(r)
       \/ FreesKey(r) /\ request' = Goto(r, "released")
       \/ UNCHANGED keys /\ request' = Goto(r, "failing")
    /\ UNCHANGED stray

\* The release of the except clause; the exception that it raises ends all.
Release(r) ==
    /\ request[r].place = "failing"
    /\ FreesKey(r) \/ UNCHANGED keys
    /\ request' = End(r)
    /\ UNCHANGED stray

\* The same clause, after a release that the database has already carried
\* out: the row of that key is, by now, another request's.
ReleaseAgain(r) ==
    /\ request[r].place = "released"
    /\ \/ /\ FreesKey(r)
          /\ stray' = IF keys' = keys THEN stray
                                     ELSE stray \cup {request[r].key}
       \/ UNCHANGED <<keys, stray>>
    /\ request' = End(r)

-----------------------------------------------------------------------------
\* The client is gone: CancelledError is not an Exception, nothing is released.
Abandon(r) ==
    /\ request[r].place # "idle"
    /\ request' = End(r)
    /\ UNCHANGED <<keys, stray>>

\* The process dies with all its requests.
Restart ==
    /\ request' = [r \in Requests |-> NoRequest]
    /\ UNCHANGED <<keys, stray>>

GateStep(r) ==
    \/ \E k \in Keys, p \in Prints : Admit(r, k, p)
    \/ Reserve(r) \/ Refuse(r) \/ FindCompleted(r) \/ Replay(r)
    \/ HandlerReturns(r) \/ HandlerFails(r)
    \/ (\E d \in Descriptors : Describe(r, d)) \/ DescribeFails(r)
    \/ Complete(r) \/ CompleteFails(r)
    \/ ReleaseAnswered(r) \/ Release(r) \/ ReleaseAgain(r)
    \/ Abandon(r)

GateNext == Restart \/ \E r \in Requests : GateStep(r)

GateSpec == GateInit /\ [][GateNext]_gateVars

-----------------------------------------------------------------------------
(***************************************************************************)
(* Properties.                                                             *)
(***************************************************************************)
GateTypeOK ==
    /\ keys \in [Keys -> [state : {"free", "reserved", "done"},
                          print : Prints \cup {Absent},
                          response : Descriptors \cup {Absent}]]
    /\ request \in [Requests -> [place : Places,
                                 key : Keys \cup {Absent},
                                 print : Prints \cup {Absent},
                                 response : Descriptors \cup {Absent}]]
    /\ stray \subseteq Keys

Holds(r, k) == request[r].place \in HolderPlaces /\ request[r].key = k

\* Two requests never run the handler of one Idempotency-Key at once, nor does
\* one run while another settles the key: what the reservation is there for.
\* The code does not keep it: see ReleaseAgain.
OneHandlerPerKey ==
    \A k \in Keys : \A q, r \in Requests :
        Holds(q, k) /\ Holds(r, k) => q = r

\* The reservation is exclusive from its insertion to its completion or its
\* release, whoever dies, fails or commits without knowing it between; the
\* one exception are the keys of which a second release, after a first whose
\* commit was reported as a failure, has deleted another request's row.
HandlersExclude ==
    \A k \in Keys \ stray : \A q, r \in Requests :
        Holds(q, k) /\ Holds(r, k) => q = r

\* A key that is completed keeps its answer for ever, also when the commit
\* that completed it was reported as a failure and its request releases it.
CompletedIsFinal ==
    [][\A k \in Keys : keys[k].state = "done" => keys'[k] = keys[k]]_gateVars

\* A request that works under a key holds its reservation, unless a second
\* release has taken it: the row has its fingerprint, and it is completed only
\* if the request that failed did it.
HolderOK ==
    \A r \in Requests :
        /\ request[r].place # "idle" =>
             /\ request[r].key \in Keys
             /\ request[r].print \in Prints
        /\ request[r].place \in {"complete", "replay"} =>
             request[r].response \in Descriptors
        /\ request[r].place \in HolderPlaces /\ request[r].key \notin stray =>
             /\ keys[request[r].key].print = request[r].print
             /\ keys[request[r].key].state = "reserved"
                \/ /\ request[r].place = "failing"
                   /\ keys[request[r].key].state = "done"

\* A completed key has an answer to replay.
AnswerKept ==
    \A k \in Keys : keys[k].state = "done" => keys[k].response \in Descriptors

GateInv ==
    /\ GateTypeOK
    /\ HolderOK
    /\ AnswerKept
    /\ HandlersExclude
=============================================================================

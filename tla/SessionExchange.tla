-------------------------- MODULE SessionExchange --------------------------
(***************************************************************************)
(* What RefreshAuth does between the call and its result: the requests to  *)
(* the upstream refresh route and how their outcomes are classified, for   *)
(* new-api-v1 (platform/newapi_v1.go) and sub2api (platform/sub2api.go).   *)
(* ManagedRefresh sees one answer; here it is one or two requests, each of *)
(* which may be lost on the way, answered with an error, or have its       *)
(* answer lost after the upstream exchanged the credential.                *)
(*                                                                         *)
(* The upstream is external, as the adapters and their comments describe   *)
(* it: new-api rotates its cookie on every refresh and for Grace after     *)
(* that answers the cookie before with the one now current; sub2api never  *)
(* accepts a token twice.  A credential that is too old is taken for a     *)
(* theft: the session is revoked.  A browser may use the same session.     *)
(* Credentials are numbered in the order in which a session issued them.   *)
(***************************************************************************)
EXTENDS Naturals

CONSTANTS
    Timeout,    \* http.Client.Timeout of one request
    Grace,      \* replay window of the new-api upstream
    MaxGen,     \* bound: credentials issued per session
    Nil         \* no call

\* Both are 30 seconds.
ASSUME WindowFits == {Timeout, Grace} \subseteq Nat /\ Timeout <= Grace
ASSUME BoundTyped == MaxGen \in Nat \ {0}

VARIABLES
    platform,   \* "new-api-v1" or "sub2api"
    newest,     \* upstream: the current credential
    age,        \* upstream: time since it was issued, up to Grace + 1
    revoked,    \* upstream: a reuse ended the session
    stored,     \* the credential in extra_config; 0 when it is missing or unreadable
    call,       \* local variables of refreshAuth
    reply,      \* what the request under way was answered with
    result      \* the RefreshResult of the last call

upstream == <<newest, age, revoked>>
vars == <<platform, upstream, stored, call, reply, result>>
-----------------------------------------------------------------------------
(* Upstream error codes as far as the adapters tell them apart.            *)
Code == {"none", "race", "fatal", "origin"}
Status == {401, 403, 409, 429, 500}

(* What the adapter makes of a response.  A response that is lost, cut or  *)
(* no JSON, or that takes longer than Timeout, has no status; "unrotated"  *)
(* is a success without a new cookie, "incomplete" one without a token.    *)
Success == {"ok", "unrotated", "incomplete"}
Answer == [kind : Success, cred : 1..MaxGen]
          \cup [kind : {"refused"}, code : Code]
          \cup [kind : {"error"}, status : Status, code : Code]
Pending == [kind |-> "pending"]
Silent == [kind |-> "silent"]
Lost == [kind |-> "lost"]
NoReply == [kind |-> "none"]

\* A call: the number of its request, why it recovers, the time this request
\* took; and for the properties, the time since the call began, whether it
\* began with the current credential and whether a request of it exchanged it.
Call == [attempt : 1..2, why : {"first", "race", "uncertain"}, took : 0..Timeout,
         elapsed : 0..2 * Timeout, current : BOOLEAN, spent : BOOLEAN]
ASSUME NilNew == Nil \notin Call

Result == {"none", "ok", "dead", "throttled", "retry"}

TypeOK ==
    /\ platform \in {"new-api-v1", "sub2api"}
    /\ newest \in 1..MaxGen
    /\ age \in 0..Grace + 1
    /\ revoked \in BOOLEAN
    /\ stored \in 0..MaxGen
    /\ call \in Call \cup {Nil}
    /\ reply \in Answer \cup {Pending, Silent, Lost, NoReply}
    /\ result \in Result

Init ==
    /\ platform \in {"new-api-v1", "sub2api"}
    /\ newest = 1
    /\ age \in 0..Grace + 1
    /\ revoked = FALSE
    /\ stored \in {0, 1}
    /\ call = Nil
    /\ reply = NoReply
    /\ result = "none"
-----------------------------------------------------------------------------
(* The adapter: RefreshAuth.                                               *)

\* The stored credential is sent: attempt 1.
RefreshAuth ==
    /\ call = Nil
    /\ result # "dead"
    /\ stored # 0
    /\ call' = [attempt |-> 1, why |-> "first", took |-> 0, elapsed |-> 0,
                current |-> stored = newest /\ ~revoked, spent |-> FALSE]
    /\ reply' = Pending
    /\ result' = "none"
    /\ UNCHANGED <<platform, upstream, stored>>

\* No request is made without a credential.
NoCredential ==
    /\ call = Nil
    /\ stored = 0
    /\ result # "dead"
    /\ result' = "dead"
    /\ UNCHANGED <<platform, upstream, stored, call, reply>>

\* Mutant: an uncertain recovery is recovered again.
RecoversAgain == platform = "new-api-v1"

\* Mutant: a one-time token is sent again after an uncertain outcome.
RecoversOneTime == call.attempt = 1

\* allowImmediateRecovery: new-api sends the same cookie once more.
MayRecover == platform = "new-api-v1" /\ call.attempt = 1

\* Mutant: the outcome of a recovery is passed on as it is.
RecoveredAsIs(res) == res

\* After an uncertain first request, a recovery that does not succeed leaves
\* a credential that is no longer safe to send.
Recovered(res) == IF call.why = "uncertain" /\ res # "ok" THEN "dead" ELSE res

Finish(res) ==
    /\ result' = Recovered(res)
    /\ call' = Nil
    /\ reply' = NoReply
    /\ UNCHANGED <<platform, upstream>>

Recover(why) ==
    /\ call' = [call EXCEPT !.attempt = @ + 1, !.why = why, !.took = 0]
    /\ reply' = Pending
    /\ UNCHANGED <<platform, upstream, stored, result>>

\* newApiV1ClassifiedFailure: the code decides, the status only without one.
\* Status 0 stands for none.
NewApiFailure(code, status) ==
    IF code = "fatal" \/ (code = "none" /\ status = 401) THEN "dead"
    ELSE IF code = "race" \/ (code = "none" /\ status \in {409, 429}) THEN "throttled"
    ELSE "retry"

\* sub2RefreshFailure: only the rate limit of a middleware, which never sees
\* the token, leaves it unspent for sure.
Sub2Failure(status) == IF status = 429 THEN "throttled" ELSE "dead"

Failure(code, status) ==
    IF platform = "sub2api" THEN Sub2Failure(status) ELSE NewApiFailure(code, status)

\* Mutant: the cookie the request carried passes for a rotated one.
AnyCookie == reply.kind \in {"ok", "unrotated"}

\* newApiV1RotatedRefreshCookie: a Set-Cookie with another value proves it.
ProvesRotation == reply.kind = "ok"

\* The rotated credential goes into the result; the caller stores it.
ReceiveNew ==
    /\ ProvesRotation
    /\ stored' = IF reply.kind = "ok" THEN reply.cred ELSE stored
    /\ Finish("ok")

\* The upstream answered success, but not with the rotated credential.
ReceiveUnrotated ==
    /\ reply.kind = "unrotated"
    /\ ~ProvesRotation
    /\ IF MayRecover THEN Recover("uncertain") ELSE Finish("dead") /\ UNCHANGED stored

ReceiveIncomplete ==
    /\ reply.kind = "incomplete"
    /\ Finish("dead")
    /\ UNCHANGED stored

\* Status 200 and success = false.  The envelope of sub2api has a status of
\* its own: there such an answer counts as an error.
ReceiveRefused ==
    /\ reply.kind = "refused"
    /\ Finish(Failure(reply.code, 0))
    /\ UNCHANGED stored

ReceiveError ==
    /\ reply.kind = "error"
    /\ IF reply.code = "race" /\ MayRecover THEN Recover("race")
       ELSE Finish(Failure(reply.code, reply.status)) /\ UNCHANGED stored

\* No status: a lost or unreadable answer, or the timeout of http.Client,
\* whatever happened to the request.
ReceiveNothing ==
    /\ call # Nil
    /\ reply = Lost \/ call.took = Timeout
    /\ IF MayRecover THEN Recover("uncertain") ELSE Finish("dead") /\ UNCHANGED stored
-----------------------------------------------------------------------------
(* The upstream and the network.                                           *)

\* A request reaches the upstream while the adapter waits for its answer, or
\* never.
Arrives == call # Nil /\ reply = Pending

\* The response reaches the adapter, or is unreadable, or is lost.
Respond(answers) == reply' \in answers \cup {Lost, Silent}

NeverArrives ==
    /\ Arrives
    /\ Respond({})
    /\ UNCHANGED <<platform, upstream, stored, call, result>>

IsCurrent == ~revoked /\ stored = newest

InWindow == /\ platform = "new-api-v1"
            /\ ~revoked
            /\ stored + 1 = newest
            /\ age <= Grace

\* Answers to an exchange that a later step, or a gateway on the way back,
\* turned into a failure.
FailedLater ==
    [kind : {"error"}, code : {"none"},
     status : IF platform = "sub2api" THEN {403, 500} ELSE {403, 429, 500}]
    \cup [kind : {"refused"}, code : {"none"}]

\* The credential is exchanged for the next one.
Exchange ==
    /\ Arrives
    /\ IsCurrent
    /\ newest < MaxGen
    /\ newest' = newest + 1
    /\ age' = 0
    /\ call' = [call EXCEPT !.spent = TRUE]
    /\ Respond([kind : Success, cred : {newest'}] \cup FailedLater)
    /\ UNCHANGED <<platform, revoked, stored, result>>

\* new-api, within the replay window: the winner's credential, or a race
\* while the winner is still at it.
AnswerAgain ==
    /\ Arrives
    /\ InWindow
    /\ Respond([kind : Success, cred : {newest}]
               \cup [kind : {"error"}, status : {409}, code : {"race"}]
               \cup [kind : {"refused"}, code : {"race"}])
    /\ UNCHANGED <<platform, upstream, stored, call, result>>

\* The request is refused, or fails, before the credential is looked at.
Decline ==
    /\ Arrives
    /\ Respond([kind : {"error"}, status : {403, 409, 429, 500}, code : {"none", "origin"}]
               \cup [kind : {"refused"}, code : {"none", "origin"}])
    /\ UNCHANGED <<platform, upstream, stored, call, result>>

\* A credential outside the window is a reuse and ends the session.
RejectReuse ==
    /\ Arrives
    /\ ~IsCurrent /\ ~InWindow
    /\ revoked' = TRUE
    /\ Respond([kind : {"error"}, status : {401, 409}, code : {"none", "fatal"}]
               \cup [kind : {"refused"}, code : {"fatal"}])
    /\ UNCHANGED <<platform, newest, age, stored, call, result>>

\* A browser of the same session refreshes; it does so again only when its
\* new access token runs out, long after the replay window.
BrowserRefreshes ==
    /\ ~revoked
    /\ age > Grace
    /\ newest < MaxGen
    /\ newest' = newest + 1
    /\ age' = 0
    /\ UNCHANGED <<platform, revoked, stored, call, reply, result>>

\* The user logs in again: a new session, whose credential is stored.
Login ==
    /\ call = Nil
    /\ result = "dead"
    /\ newest' = 1
    /\ age' = Grace + 1
    /\ revoked' = FALSE
    /\ stored' = 1
    /\ result' = "none"
    /\ UNCHANGED <<platform, call, reply>>

\* Time passes, during a request at most Timeout.
Elapse ==
    /\ age <= Grace \/ call # Nil
    /\ call # Nil => call.took < Timeout
    /\ age' = IF age <= Grace THEN age + 1 ELSE age
    /\ call' = IF call = Nil THEN Nil ELSE [call EXCEPT !.took = @ + 1, !.elapsed = @ + 1]
    /\ UNCHANGED <<platform, newest, revoked, stored, reply, result>>
-----------------------------------------------------------------------------
Receive == ReceiveNew \/ ReceiveUnrotated \/ ReceiveIncomplete \/ ReceiveRefused
           \/ ReceiveError \/ ReceiveNothing
Upstream == NeverArrives \/ Exchange \/ AnswerAgain \/ Decline \/ RejectReuse

Next == RefreshAuth \/ NoCredential \/ Receive \/ Upstream
        \/ BrowserRefreshes \/ Login \/ Elapse

Spec == Init /\ [][Next]_vars
-----------------------------------------------------------------------------
\* A call does not turn its own exchange, or a browser's during the call, into
\* a reuse that ends the session: a one-time token is sent once (sub2api.go:201),
\* and a cookie a second time is safe as long as the call is not older than the
\* replay window.  A first request that runs into its timeout has used up the
\* window (newapi_v1.go:117 to 155).
OwnReplayIsSafe ==
    \/ call = Nil
    \/ platform = "sub2api" /\ ~call.spent
    \/ platform = "new-api-v1" /\ ~call.spent /\ ~call.current
    \/ platform = "new-api-v1" /\ call.elapsed > Grace
    \/ ~revoked

\* A result that lets the caller try again with the stored credential never
\* hides an exchange whose answer was lost, late or without the credential
\* (newapi_v1.go:135, 181 to 203): if a request of the call exchanged it, each
\* was answered, and new-api-v1 answered this one with a failure.  A one-time
\* token is not spent at all (sub2api.go:167).
RetryableIsAnswered ==
    [][call # Nil /\ call' = Nil /\ result' \in {"throttled", "retry"} /\ call.spent =>
          /\ platform = "new-api-v1"
          /\ call.why # "uncertain"
          /\ reply.kind \in {"error", "refused"}]_vars

\* A success carries a credential the upstream accepts: the current one, or
\* the one a browser replaced within the window (newapi_v1.go:176 to 203).
OkIsUsable ==
    [][call # Nil /\ result' = "ok" => IsCurrent' \/ InWindow']_vars
=============================================================================

------------------------ MODULE SessionExchangeProofs ------------------------
(***************************************************************************)
(* Theorems about SessionExchange, for both panels, every number of        *)
(* credentials and every timeout that is no longer than the replay window: *)
(* the types, and that no outcome of a call ends the session within the    *)
(* window, hides an exchange behind a lost answer, or hands on a useless   *)
(* credential.                                                             *)
(***************************************************************************)
EXTENDS SessionExchange, TLAPS

\* A call has a request under way or answered; its result is not known yet.
CallOpen ==
    /\ call = Nil => reply = NoReply
    /\ call # Nil => result = "none" /\ reply # NoReply

\* One recovery at most, and none of a one-time token.
Attempts ==
    call # Nil =>
        /\ call.attempt = 1 <=> call.why = "first"
        /\ platform = "sub2api" => call.attempt = 1

\* A call takes at most the time of its first request and that of this one.
Clocks ==
    call # Nil =>
        call.elapsed <= IF call.attempt = 1 THEN call.took ELSE Timeout + call.took

\* Until the call is older than the replay window the panel still accepts the
\* request of new-api-v1, or answers it again: the credential is current, or
\* the call or a browser exchanged it during the call, too recently for a
\* browser to exchange it once more.
StillAnswered ==
    /\ call # Nil
    /\ platform = "new-api-v1"
    /\ call.spent \/ call.current
    /\ call.elapsed <= Grace
    => /\ ~revoked
       /\ \/ stored = newest
          \/ stored + 1 = newest /\ age <= call.elapsed

\* A one-time token that was exchanged is not on its way any more.
SentOnce ==
    call # Nil /\ platform = "sub2api" /\ call.spent => ~revoked /\ reply # Pending

\* After the exchange, unless the call recovers from an uncertain outcome, the
\* request is answered or lost, and a failure has no code; that of a one-time
\* token is no rate limit.
SpentIsAnswered ==
    call # Nil /\ call.spent /\ call.why # "uncertain" =>
        /\ reply.kind \notin {"pending", "none"}
        /\ reply.kind \in {"error", "refused"} => reply.code = "none"
        /\ reply.kind = "error" /\ platform = "sub2api" => reply.status # 429

\* The credential of a success is the current one, or the one a browser
\* replaced less than the time of this request ago.
RepliedUsable ==
    reply.kind = "ok" =>
        /\ ~revoked
        /\ \/ reply.cred = newest /\ (platform = "sub2api" => age <= call.took)
           \/ platform = "new-api-v1" /\ reply.cred + 1 = newest /\ age <= call.took

Inv == TypeOK /\ CallOpen /\ Attempts /\ Clocks /\ StillAnswered /\ SentOnce
       /\ SpentIsAnswered /\ RepliedUsable
-----------------------------------------------------------------------------
LEMMA Bounds ==
    /\ Timeout \in Nat /\ Grace \in Nat /\ MaxGen \in Nat
    /\ Timeout <= Grace
    /\ 1 <= MaxGen
  BY WindowFits, BoundTyped

LEMMA Numbers ==
    ASSUME TypeOK
    PROVE  /\ newest \in Nat /\ age \in Nat /\ stored \in Nat
           /\ Timeout \in Nat /\ Grace \in Nat /\ MaxGen \in Nat
           /\ Timeout <= Grace
           /\ call # Nil => /\ call \in Call
                            /\ call.attempt \in 1..2
                            /\ call.took \in Nat /\ call.took <= Timeout
                            /\ call.elapsed \in Nat
  BY Bounds DEF TypeOK, Call

\* The kinds of a reply keep its shapes apart.
LEMMA Kinds ==
    ASSUME TypeOK
    PROVE  /\ reply.kind \in Success => reply \in [kind : Success, cred : 1..MaxGen]
           /\ reply.kind = "refused" => reply \in [kind : {"refused"}, code : Code]
           /\ reply.kind = "error" =>
                 reply \in [kind : {"error"}, status : Status, code : Code]
           /\ reply = NoReply <=> reply.kind = "none"
           /\ reply = Pending <=> reply.kind = "pending"
           /\ reply = Lost <=> reply.kind = "lost"
           /\ reply = Silent <=> reply.kind = "silent"
  BY DEF TypeOK, Answer, Success, Pending, Silent, Lost, NoReply

\* What the adapter makes of a failed request is never a success.
LEMMA FailureKinds ==
    ASSUME NEW c, NEW s
    PROVE  Failure(c, s) \in {"dead", "throttled", "retry"}
  BY DEF Failure, Sub2Failure, NewApiFailure
-----------------------------------------------------------------------------
(* How a call ends or sends its second request.                            *)

LEMMA FinishKeeps ==
    ASSUME Inv, NEW res \in Result \ {"none"}, Finish(res), stored' \in 0..MaxGen
    PROVE  Inv'
<1>1. call' = Nil /\ reply' = NoReply /\ UNCHANGED <<platform, newest, age, revoked>>
  BY DEF Finish, upstream
<1>2. result' \in Result
  BY DEF Finish, Recovered, Result
<1>3. TypeOK'
  BY <1>1, <1>2 DEF Inv, TypeOK
<1>4. QED
  BY <1>1, <1>3 DEF Inv, CallOpen, Attempts, Clocks, StillAnswered, SentOnce, SpentIsAnswered,
                    RepliedUsable, NoReply

\* The recovery starts its own timeout; an exchange by the first request makes
\* the reason uncertain.
LEMMA RecoverKeeps ==
    ASSUME Inv, call # Nil, MayRecover, NEW why \in {"race", "uncertain"}, Recover(why),
           UNCHANGED stored, why = "race" => ~call.spent
    PROVE  Inv'
<1>1. /\ UNCHANGED <<platform, newest, age, revoked, stored, result>>
      /\ reply' = Pending
      /\ call' = [call EXCEPT !.attempt = @ + 1, !.why = why, !.took = 0]
  BY DEF Recover, upstream
<1>2. call \in Call /\ call.attempt = 1 /\ platform = "new-api-v1" /\ call.took <= Timeout
      /\ call.took \in Nat /\ Timeout \in Nat /\ age \in Nat /\ call.elapsed \in Nat
  BY Numbers DEF Inv, MayRecover
<1>3. /\ call'.attempt = 2 /\ call'.why = why /\ call'.took = 0
      /\ call'.spent = call.spent /\ call'.current = call.current
      /\ call'.elapsed = call.elapsed /\ call' \in Call
  <2>1. call.attempt + 1 = 2 /\ 0 \in 0..Timeout
    BY <1>2
  <2>2. call' = [call EXCEPT !.attempt = 2, !.why = why, !.took = 0]
    BY <1>1, <2>1
  <2>3. call' \in Call
    <3>1. [call EXCEPT !.attempt = 2] \in Call
      BY <1>2 DEF Call
    <3>2. [[call EXCEPT !.attempt = 2] EXCEPT !.why = why] \in Call
      BY <3>1 DEF Call
    <3>3. [[[call EXCEPT !.attempt = 2] EXCEPT !.why = why] EXCEPT !.took = 0] \in Call
      BY <3>2, <2>1 DEF Call
    <3>4. QED
      BY <2>2, <3>3
  <2>4. QED
    BY <1>2, <2>2, <2>3 DEF Call
<1>4. call' # Nil
  BY <1>3, NilNew
<1>5. TypeOK'
  BY <1>1, <1>3 DEF Inv, TypeOK
<1>6. CallOpen' /\ Attempts' /\ Clocks'
  BY <1>1, <1>2, <1>3, <1>4 DEF Inv, CallOpen, Attempts, Clocks, Pending, NoReply
<1>7. StillAnswered'
  BY <1>1, <1>2, <1>3, <1>4 DEF Inv, StillAnswered
<1>8. SpentIsAnswered'
  BY <1>3 DEF SpentIsAnswered
<1>9. SentOnce' /\ RepliedUsable'
  BY <1>1, <1>2 DEF SentOnce, RepliedUsable, Pending
<1>10. QED
  BY <1>5, <1>6, <1>7, <1>8, <1>9 DEF Inv

LEMMA ReceiveKeeps ==
    ASSUME Inv, Receive
    PROVE  Inv'
<1>0. TypeOK
  BY DEF Inv
<1>1. reply.kind \in {"ok", "unrotated", "incomplete", "refused", "error"} => call # Nil
  BY <1>0, Kinds DEF Inv, CallOpen, NoReply
<1>2. \A c, s : Failure(c, s) \in Result \ {"none"}
  BY FailureKinds DEF Result
<1>3. "ok" \in Result \ {"none"} /\ "dead" \in Result \ {"none"}
  BY DEF Result
<1>4. stored \in 0..MaxGen
  BY <1>0 DEF TypeOK
<1>5. CASE ReceiveNew
  <2>1. reply.cred \in 1..MaxGen /\ MaxGen \in Nat
    BY <1>0, <1>5, Kinds, BoundTyped DEF ReceiveNew, ProvesRotation, Success
  <2>2. stored' \in 0..MaxGen
    BY <1>5, <2>1 DEF ReceiveNew, ProvesRotation
  <2>3. QED
    BY <1>3, <1>5, <2>2, FinishKeeps DEF ReceiveNew
<1>6. CASE ReceiveUnrotated
  BY <1>1, <1>3, <1>4, <1>6, FinishKeeps, RecoverKeeps DEF ReceiveUnrotated, Recover
<1>7. CASE ReceiveIncomplete
  BY <1>3, <1>4, <1>7, FinishKeeps DEF ReceiveIncomplete
<1>8. CASE ReceiveRefused
  BY <1>2, <1>4, <1>8, FinishKeeps DEF ReceiveRefused
<1>9. CASE ReceiveError
  <2>1. CASE reply.code = "race" /\ MayRecover
    <3>1. Recover("race") /\ UNCHANGED stored
      BY <1>9, <2>1 DEF ReceiveError, Recover
    <3>2. ~call.spent
      BY <1>1, <1>9, <2>1 DEF ReceiveError, Inv, SpentIsAnswered, Attempts, MayRecover
    <3>3. QED
      BY <1>1, <1>9, <2>1, <3>1, <3>2, RecoverKeeps DEF ReceiveError
  <2>2. CASE ~(reply.code = "race" /\ MayRecover)
    BY <1>2, <1>4, <1>9, <2>2, FinishKeeps DEF ReceiveError
  <2>3. QED
    BY <2>1, <2>2
<1>10. CASE ReceiveNothing
  BY <1>3, <1>4, <1>10, FinishKeeps, RecoverKeeps DEF ReceiveNothing, Recover
<1>11. QED
  BY <1>5, <1>6, <1>7, <1>8, <1>9, <1>10 DEF Receive
-----------------------------------------------------------------------------
(* What the panel and the network do to a request under way.               *)

\* The reply comes from the given answers, or is lost, and nothing else of the
\* call and of what the panel issued changes.
LEMMA AnswerKeeps ==
    ASSUME Inv, Arrives, NEW answers \in SUBSET Answer, Respond(answers),
           UNCHANGED <<platform, newest, age, stored, call, result>>,
           revoked' \in BOOLEAN,
           revoked' # revoked => \/ ~call.spent /\ (platform = "new-api-v1" => ~call.current)
                                 \/ platform = "new-api-v1" /\ call.elapsed > Grace,
           \A r \in answers : r.kind = "ok" =>
              /\ platform = "new-api-v1" /\ ~revoked'
              /\ r.cred = newest
    PROVE  Inv'
<1>1. call # Nil /\ reply = Pending /\ reply' \in answers \cup {Lost, Silent}
  BY DEF Arrives, Respond
<1>2. call \in Call
  BY <1>1, Numbers DEF Inv
<1>3. /\ reply' # Pending /\ reply' # NoReply
      /\ reply'.kind \notin {"pending", "none"}
  <2>1. \A r \in Answer : r.kind \notin {"pending", "none"}
    BY DEF Answer, Success
  <2>2. reply'.kind \notin {"pending", "none"}
    BY <1>1, <2>1 DEF Lost, Silent
  <2>3. QED
    BY <2>2 DEF Pending, NoReply
<1>4. TypeOK'
  BY <1>1 DEF Inv, TypeOK
<1>5. CallOpen' /\ Attempts' /\ Clocks'
  BY <1>1, <1>3 DEF Inv, CallOpen, Attempts, Clocks
<1>6. StillAnswered'
  <2>1. call.elapsed \in Nat /\ Grace \in Nat
    BY <1>1, Numbers DEF Inv
  <2>2. CASE revoked' # revoked
    BY <2>1, <2>2, <1>1 DEF StillAnswered
  <2>3. CASE revoked' = revoked
    BY <1>1, <2>3 DEF Inv, StillAnswered
  <2>4. QED
    BY <2>2, <2>3
<1>7. SentOnce'
  BY <1>1, <1>3 DEF Inv, SentOnce
<1>8. SpentIsAnswered'
  <2>1. call.spent => call.why = "uncertain"
    BY <1>1 DEF Inv, SpentIsAnswered, Pending
  <2>2. QED
    BY <2>1 DEF SpentIsAnswered
<1>9. RepliedUsable'
  BY <1>1 DEF RepliedUsable, Lost, Silent
<1>10. QED
  BY <1>4, <1>5, <1>6, <1>7, <1>8, <1>9 DEF Inv

\* The request that arrives is still answered, so it is no reuse, or the call
\* is older than the replay window.
LEMMA NoReuse ==
    ASSUME Inv, Arrives, ~IsCurrent, ~InWindow, ~revoked
    PROVE  \/ ~call.spent /\ (platform = "new-api-v1" => ~call.current)
           \/ platform = "new-api-v1" /\ call.elapsed > Grace
<1>1. call # Nil /\ reply = Pending
  BY DEF Arrives
<1>2. /\ newest \in Nat /\ stored \in Nat /\ age \in Nat /\ Grace \in Nat
      /\ call.elapsed \in Nat
  BY <1>1, Numbers DEF Inv
<1>3. CASE platform = "new-api-v1"
  <2> SUFFICES ASSUME call.spent \/ call.current, call.elapsed <= Grace PROVE FALSE
    BY <1>2, <1>3
  <2>1. stored = newest \/ (stored + 1 = newest /\ age <= call.elapsed)
    BY <1>1, <1>3 DEF Inv, StillAnswered
  <2>2. QED
    BY <1>2, <1>3, <2>1 DEF IsCurrent, InWindow
<1>4. CASE platform = "sub2api"
  BY <1>1, <1>4 DEF Inv, SentOnce
<1>5. QED
  BY <1>3, <1>4 DEF Inv, TypeOK

LEMMA ExchangeKeeps ==
    ASSUME Inv, Exchange
    PROVE  Inv'
<1>1. /\ call # Nil /\ reply = Pending /\ newest < MaxGen /\ ~revoked /\ stored = newest
      /\ newest' = newest + 1 /\ age' = 0 /\ call' = [call EXCEPT !.spent = TRUE]
      /\ reply' \in [kind : Success, cred : {newest + 1}] \cup FailedLater \cup {Lost, Silent}
      /\ UNCHANGED <<platform, revoked, stored, result>>
  BY DEF Exchange, Arrives, IsCurrent, Respond
<1>2. /\ newest \in Nat /\ MaxGen \in Nat /\ Grace \in Nat /\ Timeout \in Nat
      /\ call \in Call /\ call.took \in Nat /\ call.elapsed \in Nat
  BY <1>1, Numbers DEF Inv
<1>3. /\ call' \in Call /\ call'.attempt = call.attempt /\ call'.why = call.why
      /\ call'.took = call.took /\ call'.current = call.current
      /\ call'.elapsed = call.elapsed
  BY <1>1, <1>2 DEF Call
<1>4. call' # Nil
  BY <1>3, NilNew
<1>5. newest + 1 \in 1..MaxGen
  BY <1>1, <1>2
<1>6. TypeOK'
  <2>1. reply' \in Answer \cup {Lost, Silent}
    BY <1>1, <1>5 DEF Answer, FailedLater, Status, Code
  <2>2. QED
    BY <1>1, <1>2, <1>3, <1>5, <2>1 DEF Inv, TypeOK
<1>7. /\ reply'.kind \in Success \cup {"error", "refused", "lost", "silent"}
      /\ reply'.kind \in {"error", "refused"} => reply' \in FailedLater
      /\ reply' # Pending /\ reply' # NoReply
  <2>1. /\ reply'.kind \in Success \cup {"error", "refused", "lost", "silent"}
        /\ reply'.kind \in {"error", "refused"} => reply' \in FailedLater
    BY <1>1 DEF FailedLater, Lost, Silent, Success
  <2>2. QED
    BY <2>1 DEF Success, Pending, NoReply
<1>8. CallOpen' /\ Attempts' /\ Clocks'
  BY <1>1, <1>3, <1>4, <1>7 DEF Inv, CallOpen, Attempts, Clocks
<1>9. StillAnswered'
  BY <1>1, <1>2, <1>3 DEF StillAnswered
<1>10. SentOnce' /\ SpentIsAnswered'
  <2>1. \A f \in FailedLater : /\ f.code = "none"
                               /\ f.kind = "error" /\ platform = "sub2api" => f.status # 429
    BY DEF FailedLater
  <2>2. QED
    BY <1>1, <1>7, <2>1 DEF SentOnce, SpentIsAnswered, Success
<1>11. RepliedUsable'
  <2>1. reply'.kind = "ok" => reply'.cred = newest + 1
    BY <1>1 DEF FailedLater, Lost, Silent
  <2>2. QED
    BY <1>1, <1>2, <1>3, <2>1 DEF RepliedUsable
<1>12. QED
  BY <1>6, <1>8, <1>9, <1>10, <1>11 DEF Inv

LEMMA UpstreamKeeps ==
    ASSUME Inv, Upstream
    PROVE  Inv'
<1>1. CASE NeverArrives
  BY <1>1, AnswerKeeps DEF NeverArrives, upstream, Inv, TypeOK
<1>2. CASE Exchange
  BY <1>2, ExchangeKeeps
<1>3. CASE AnswerAgain
  <2> DEFINE answers == [kind : Success, cred : {newest}]
                        \cup [kind : {"error"}, status : {409}, code : {"race"}]
                        \cup [kind : {"refused"}, code : {"race"}]
  <2>1. answers \in SUBSET Answer
    BY DEF Inv, TypeOK, Answer, Status, Code
  <2>2. \A r \in answers : r.kind = "ok" => r.cred = newest
    OBVIOUS
  <2>3. Respond(answers) /\ Arrives /\ platform = "new-api-v1" /\ ~revoked
    BY <1>3 DEF AnswerAgain, InWindow
  <2>4. UNCHANGED <<platform, newest, age, revoked, stored, call, result>> /\ revoked \in BOOLEAN
    BY <1>3 DEF AnswerAgain, upstream, Inv, TypeOK
  <2> HIDE DEF answers
  <2>5. QED
    BY <2>1, <2>2, <2>3, <2>4, AnswerKeeps
<1>4. CASE Decline
  <2> DEFINE answers == [kind : {"error"}, status : {403, 409, 429, 500}, code : {"none", "origin"}]
                        \cup [kind : {"refused"}, code : {"none", "origin"}]
  <2>1. answers \in SUBSET Answer
    BY DEF Answer, Status, Code
  <2>2. \A r \in answers : r.kind # "ok"
    OBVIOUS
  <2>3. Respond(answers) /\ Arrives
    BY <1>4 DEF Decline
  <2>4. UNCHANGED <<platform, newest, age, revoked, stored, call, result>> /\ revoked \in BOOLEAN
    BY <1>4 DEF Decline, upstream, Inv, TypeOK
  <2> HIDE DEF answers
  <2>5. QED
    BY <2>1, <2>2, <2>3, <2>4, AnswerKeeps
<1>5. CASE RejectReuse
  <2> DEFINE answers == [kind : {"error"}, status : {401, 409}, code : {"none", "fatal"}]
                        \cup [kind : {"refused"}, code : {"fatal"}]
  <2>1. answers \in SUBSET Answer
    BY DEF Answer, Status, Code
  <2>2. \A r \in answers : r.kind # "ok"
    OBVIOUS
  <2>3. Respond(answers) /\ Arrives /\ ~IsCurrent /\ ~InWindow /\ revoked' = TRUE
    BY <1>5 DEF RejectReuse
  <2>4. UNCHANGED <<platform, newest, age, stored, call, result>> /\ revoked \in BOOLEAN
    BY <1>5 DEF RejectReuse, Inv, TypeOK
  <2>5. revoked' # revoked => \/ ~call.spent /\ (platform = "new-api-v1" => ~call.current)
                              \/ platform = "new-api-v1" /\ call.elapsed > Grace
    BY <2>3, <2>4, NoReuse
  <2> HIDE DEF answers
  <2>6. QED
    BY <2>1, <2>2, <2>3, <2>4, <2>5, AnswerKeeps
<1>6. QED
  BY <1>1, <1>2, <1>3, <1>4, <1>5 DEF Upstream
-----------------------------------------------------------------------------
(* The other steps.                                                        *)

LEMMA RefreshAuthKeeps ==
    ASSUME Inv, RefreshAuth
    PROVE  Inv'
<1>1. /\ call' = [attempt |-> 1, why |-> "first", took |-> 0, elapsed |-> 0,
                  current |-> stored = newest /\ ~revoked, spent |-> FALSE]
      /\ reply' = Pending /\ result' = "none"
      /\ UNCHANGED <<platform, newest, age, revoked, stored>>
  BY DEF RefreshAuth, upstream
<1>2. call'.current <=> stored = newest /\ ~revoked
  BY <1>1
<1>3. call' \in Call /\ ~call'.spent
  BY <1>1, WindowFits DEF Call
<1>4. call' # Nil
  BY <1>3, NilNew
<1>5. TypeOK'
  BY <1>1, <1>3 DEF Inv, TypeOK, Result
<1>6. QED
  BY <1>1, <1>2, <1>3, <1>4, <1>5 DEF Inv, CallOpen, Attempts, Clocks, StillAnswered, SentOnce,
     SpentIsAnswered, RepliedUsable, Pending, NoReply

\* A browser exchanges a credential only when the replay window of the last
\* exchange is over: never twice during the requests of one call that count.
LEMMA BrowserKeeps ==
    ASSUME Inv, BrowserRefreshes
    PROVE  Inv'
<1>1. /\ ~revoked /\ age > Grace /\ newest < MaxGen
      /\ newest' = newest + 1 /\ age' = 0
      /\ UNCHANGED <<platform, revoked, stored, call, reply, result>>
  BY DEF BrowserRefreshes
<1>2. /\ newest \in Nat /\ stored \in Nat /\ age \in Nat /\ Timeout \in Nat
      /\ Grace \in Nat /\ Timeout <= Grace /\ MaxGen \in Nat
      /\ call # Nil => /\ call \in Call /\ call.attempt \in 1..2
                       /\ call.took \in Nat /\ call.took <= Timeout
                       /\ call.elapsed \in Nat
  BY Numbers DEF Inv
<1>3. TypeOK'
  BY <1>1, <1>2 DEF Inv, TypeOK
<1>4. CallOpen' /\ Attempts' /\ SentOnce' /\ SpentIsAnswered'
  BY <1>1 DEF Inv, CallOpen, Attempts, SentOnce, SpentIsAnswered
<1>8. Clocks'
  BY <1>1 DEF Inv, Clocks
<1>5. StillAnswered'
  <2> SUFFICES ASSUME call # Nil, platform = "new-api-v1", call.spent \/ call.current,
                      call.elapsed <= Grace
               PROVE  ~revoked /\ stored = newest
    BY <1>1, <1>2 DEF StillAnswered
  <2>1. ~revoked /\ (stored = newest \/ (stored + 1 = newest /\ age <= call.elapsed))
    BY DEF Inv, StillAnswered
  <2>2. QED
    BY <1>1, <1>2, <2>1
<1>6. RepliedUsable'
  <2> SUFFICES ASSUME reply.kind = "ok"
               PROVE  platform = "new-api-v1" /\ reply.cred = newest /\ call.took \in Nat
    BY <1>1, <1>2 DEF RepliedUsable
  <2>1. call # Nil
    BY DEF Inv, CallOpen, NoReply
  <2>2. ~(age <= call.took)
    BY <1>1, <1>2, <2>1
  <2>3. QED
    BY <1>2, <2>1, <2>2 DEF Inv, RepliedUsable, TypeOK
<1>7. QED
  BY <1>3, <1>4, <1>5, <1>6, <1>8 DEF Inv

LEMMA ElapseKeeps ==
    ASSUME Inv, Elapse
    PROVE  Inv'
<1>1. /\ UNCHANGED <<platform, newest, revoked, stored, reply, result>>
      /\ age' = IF age <= Grace THEN age + 1 ELSE age
      /\ call' = IF call = Nil THEN Nil ELSE [call EXCEPT !.took = @ + 1,
                                                            !.elapsed = @ + 1]
      /\ call # Nil => call.took < Timeout
  BY DEF Elapse
<1>2. /\ newest \in Nat /\ stored \in Nat /\ age \in Nat /\ Timeout \in Nat
      /\ Grace \in Nat
      /\ call # Nil => /\ call \in Call /\ call.attempt \in 1..2 /\ call.took \in Nat
                       /\ call.elapsed \in Nat
  BY Numbers DEF Inv
<1>3. age' \in Nat /\ age' <= age + 1 /\ age' <= Grace + 1
  BY <1>1, <1>2 DEF Inv, TypeOK
<1>4. CASE call = Nil
  <2>1. TypeOK'
    BY <1>1, <1>2, <1>3, <1>4 DEF Inv, TypeOK
  <2>2. reply = NoReply /\ call' = Nil
    BY <1>1, <1>4 DEF Inv, CallOpen
  <2>3. QED
    BY <1>1, <2>1, <2>2 DEF Inv, CallOpen, Attempts, Clocks, StillAnswered, SentOnce,
                       SpentIsAnswered, RepliedUsable, NoReply
<1>5. CASE call # Nil
  <2>0. call.took + 1 \in 0..Timeout /\ call.elapsed + 1 \in 0..2 * Timeout
    BY <1>1, <1>2, <1>5 DEF Inv, Clocks
  <2>1. /\ call' \in Call /\ call'.took = call.took + 1 /\ call'.attempt = call.attempt
        /\ call'.elapsed = call.elapsed + 1
        /\ call'.why = call.why /\ call'.spent = call.spent /\ call'.current = call.current
    BY <1>1, <1>2, <1>5, <2>0 DEF Call
  <2>2. call' # Nil
    BY <2>1, NilNew
  <2>3. TypeOK'
    BY <1>1, <1>2, <1>3, <2>1 DEF Inv, TypeOK
  <2>4. CallOpen' /\ Attempts' /\ SentOnce' /\ SpentIsAnswered'
    BY <1>1, <1>5, <2>1, <2>2 DEF Inv, CallOpen, Attempts, SentOnce, SpentIsAnswered
  <2>5. Clocks'
    BY <1>1, <1>2, <1>5, <2>1 DEF Inv, Clocks
  <2>6. StillAnswered'
    BY <1>1, <1>2, <1>3, <1>5, <2>1 DEF Inv, StillAnswered
  <2>7. RepliedUsable'
    BY <1>1, <1>2, <1>3, <1>5, <2>1 DEF Inv, RepliedUsable
  <2>8. QED
    BY <2>3, <2>4, <2>5, <2>6, <2>7 DEF Inv
<1>6. QED
  BY <1>4, <1>5

LEMMA LoginKeeps ==
    ASSUME Inv, Login \/ NoCredential
    PROVE  Inv'
<1>1. call = Nil /\ call' = Nil /\ reply = NoReply /\ reply' = NoReply /\ UNCHANGED platform
  BY DEF Login, NoCredential, Inv, CallOpen
<1>2. TypeOK'
  <2>1. CASE Login
    <3>1. newest' \in 1..MaxGen /\ stored' \in 0..MaxGen /\ age' \in 0..Grace + 1
      BY <2>1, Bounds DEF Login
    <3>2. QED
      BY <1>1, <2>1, <3>1 DEF Login, Inv, TypeOK, Result
  <2>2. CASE NoCredential
    BY <1>1, <2>2 DEF NoCredential, upstream, Inv, TypeOK, Result
  <2>3. QED
    BY <2>1, <2>2
<1>3. QED
  BY <1>1, <1>2 DEF Inv, CallOpen, Attempts, Clocks, StillAnswered, SentOnce, SpentIsAnswered,
                    RepliedUsable, NoReply
-----------------------------------------------------------------------------
LEMMA InitInv == Init => Inv
<1> SUFFICES ASSUME Init
             PROVE  Inv
  OBVIOUS
<1>1. TypeOK
  <2>1. newest \in 1..MaxGen /\ stored \in 0..MaxGen
    BY Bounds DEF Init
  <2>2. QED
    BY <2>1 DEF Init, TypeOK, Result
<1>2. QED
  BY <1>1 DEF Init, Inv, CallOpen, Attempts, Clocks, StillAnswered, SentOnce, SpentIsAnswered,
              RepliedUsable, NoReply

LEMMA StepInv == Inv /\ [Next]_vars => Inv'
<1> SUFFICES ASSUME Inv, [Next]_vars
             PROVE  Inv'
  OBVIOUS
<1>1. CASE UNCHANGED vars
  <2>1. QED
    BY <1>1 DEF vars, upstream, Inv, TypeOK, CallOpen, Attempts, Clocks, StillAnswered, SentOnce,
                      SpentIsAnswered, RepliedUsable
<1>2. QED
  BY <1>1, ReceiveKeeps, UpstreamKeeps, RefreshAuthKeeps, BrowserKeeps, ElapseKeeps, LoginKeeps
     DEF Next

LEMMA Invariant == Spec => []Inv
  BY InitInv, StepInv, PTL DEF Spec

\* Every reachable state has the declared types, for both panels and all bounds.
THEOREM TypeCorrect == Spec => []TypeOK
<1>1. Inv => TypeOK
  BY DEF Inv
<1>2. QED
  BY <1>1, Invariant, PTL

\* A call does not turn its own exchange, or a browser's during the call, into
\* a reuse that ends the session: never with a one-time token, and with a cookie
\* as long as the call is no older than the replay window (newapi_v1.go:117 to
\* 155, sub2api.go:201).
THEOREM OwnReplaySafe == Spec => []OwnReplayIsSafe
<1>1. Inv => OwnReplayIsSafe
  <2>1. ASSUME Inv, call # Nil
        PROVE  call.elapsed \in Nat /\ Grace \in Nat
    BY <2>1, Numbers DEF Inv
  <2>2. QED
    BY <2>1 DEF Inv, TypeOK, OwnReplayIsSafe, StillAnswered, SentOnce
<1>2. QED
  BY <1>1, Invariant, PTL

\* A result that lets the caller try again with the stored credential never
\* hides an exchange whose answer was lost, late or without the credential; a
\* one-time token is not spent at all (newapi_v1.go:135, sub2api.go:167).
THEOREM RetryableAnswered == Spec => RetryableIsAnswered
<1> DEFINE Answered == platform = "new-api-v1" /\ call.why # "uncertain"
                       /\ reply.kind \in {"error", "refused"}
<1>1. ASSUME Inv, Next, call # Nil, call' = Nil, result' \in {"throttled", "retry"},
             call.spent
      PROVE  Answered
  <2>0. TypeOK /\ call \in Call
    BY <1>1, Numbers DEF Inv
  <2>1. Receive
    <3>1. ~RefreshAuth /\ ~NoCredential /\ ~Login
      BY <1>1 DEF RefreshAuth, NoCredential, Login
    <3>2. ~BrowserRefreshes /\ ~NeverArrives /\ ~AnswerAgain /\ ~Decline /\ ~RejectReuse
      BY <1>1 DEF BrowserRefreshes, NeverArrives, AnswerAgain, Decline, RejectReuse
    <3>3. ~Exchange
      <4>1. [call EXCEPT !.spent = TRUE] \in Call
        BY <2>0 DEF Call
      <4>2. QED
        BY <1>1, <4>1, NilNew DEF Exchange
    <3>4. ~Elapse
      <4>1. SUFFICES ASSUME Elapse PROVE FALSE
        OBVIOUS
      <4>2. call.took + 1 \in 0..Timeout /\ call.elapsed + 1 \in 0..2 * Timeout
        BY <1>1, <4>1, Numbers DEF Elapse, Inv, Clocks
      <4>3. [call EXCEPT !.took = @ + 1, !.elapsed = @ + 1] \in Call
        BY <2>0, <4>2 DEF Call
      <4>4. QED
        BY <1>1, <4>1, <4>3, NilNew DEF Elapse
    <3>5. QED
      BY <1>1, <3>1, <3>2, <3>3, <3>4 DEF Next, Upstream
  <2>2. \A why : Recover(why) => call' # Nil
    <3>1. ASSUME NEW why, Recover(why), result' = result
          PROVE  FALSE
      BY <1>1, <3>1 DEF Inv, CallOpen
    <3>2. QED
      BY <3>1 DEF Recover
  <2>3. call.why # "uncertain"
    BY <1>1, <2>1, <2>2, FailureKinds
       DEF Receive, ReceiveNew, ReceiveUnrotated, ReceiveIncomplete, ReceiveRefused,
           ReceiveError, ReceiveNothing, Finish, Recovered
  <2>4. reply.kind \in {"refused", "error"}
    BY <1>1, <2>1, <2>2 DEF Receive, ReceiveNew, ReceiveUnrotated, ReceiveIncomplete,
           ReceiveRefused, ReceiveError, ReceiveNothing, Finish, Recovered
  <2>5. platform = "new-api-v1"
    <3>1. SUFFICES ASSUME platform = "sub2api" PROVE FALSE
      BY <1>1 DEF Inv, TypeOK
    <3>2. reply.kind = "error" => reply.status # 429
      BY <1>1, <2>3, <3>1 DEF Inv, SpentIsAnswered
    <3>3. result' = "dead"
      BY <1>1, <2>1, <2>2, <2>4, <3>1, <3>2
         DEF Receive, ReceiveNew, ReceiveUnrotated, ReceiveIncomplete, ReceiveRefused,
             ReceiveError, ReceiveNothing, Finish, Recovered, Failure, Sub2Failure, ProvesRotation,
             Lost
    <3>4. QED
      BY <1>1, <3>3
  <2>6. QED
    BY <2>3, <2>4, <2>5
<1>2. Inv /\ [Next]_vars =>
        [call # Nil /\ call' = Nil /\ result' \in {"throttled", "retry"} /\ call.spent
         => Answered]_vars
  BY <1>1
<1>3. QED
  BY <1>2, Invariant, PTL DEF Spec, RetryableIsAnswered

\* A success carries a credential the panel accepts when it is stored
\* (newapi_v1.go:176 to 203).
THEOREM OkUsable == Spec => OkIsUsable
<1>1. ASSUME Inv, Next, call # Nil, result' = "ok"
      PROVE  (IsCurrent \/ InWindow)'
  <2>1. result = "none"
    BY <1>1 DEF Inv, CallOpen
  <2>2. ReceiveNew
    BY <1>1, <2>1, FailureKinds
       DEF Next, RefreshAuth, NoCredential, BrowserRefreshes, Login, Elapse, Upstream,
           NeverArrives, Exchange, AnswerAgain, Decline, RejectReuse, Receive, ReceiveUnrotated,
           ReceiveIncomplete, ReceiveRefused, ReceiveError, ReceiveNothing, Finish, Recovered,
           Recover
  <2>3. /\ reply.kind = "ok" /\ stored' = reply.cred
        /\ UNCHANGED <<platform, newest, age, revoked>>
    BY <2>2 DEF ReceiveNew, ProvesRotation, Finish, upstream
  <2>4. call.took \in Nat /\ call.took <= Timeout /\ Timeout \in Nat
        /\ Timeout <= Grace /\ Grace \in Nat /\ age \in Nat
    BY <1>1, Numbers DEF Inv
  <2>5. ~revoked /\ \/ reply.cred = newest
                    \/ platform = "new-api-v1" /\ reply.cred + 1 = newest /\ age <= call.took
    BY <1>1, <2>3 DEF Inv, RepliedUsable
  <2>6. QED
    BY <2>3, <2>4, <2>5 DEF IsCurrent, InWindow
<1>2. Inv /\ [Next]_vars => [call # Nil /\ result' = "ok" => IsCurrent' \/ InWindow']_vars
  BY <1>1
<1>3. QED
  BY <1>2, Invariant, PTL DEF Spec, OkIsUsable
=============================================================================

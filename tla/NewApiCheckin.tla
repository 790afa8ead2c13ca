---------------------------- MODULE NewApiCheckin ----------------------------
(***************************************************************************)
(* Check-ins and balance reads of one new-api account, request by request: *)
(* platform/newapi.go (discoverUserId, probeUserId, tryCookieCheckin,      *)
(* probeAlternateCookieUserId, Checkin, GetBalance) and the proof-of-work  *)
(* variant of newapi_runanytime.go.  An account is known by an access      *)
(* token, of which the panel may take the header or some cookie made from  *)
(* it, and by a user id, which the adapter may have to guess.  What it     *)
(* found is kept in a cache that all calls share.  The panel is external.  *)
(***************************************************************************)
EXTENDS Naturals, SequencesExt

CONSTANTS
    Flow,         \* goroutines that check in or read the balance
    Setups,       \* kinds of account and panel in this instance
    IdCandidates, \* BuildUserIDProbeCandidates: a sequence of distinct user ids
    Cookies,      \* how many cookies BuildCookieCandidates makes of the token
    ExtraBudget   \* maxCookieVariantsPerProbe

Id == Nat \ {0}
Endpoint == {"sign_in", "checkin"}

\* cookie: IsCookieSessionToken.  configured: platform_user_id, 0 if there is
\* none.  jwt: the id in the token, 0 if none.  pow: the site is of platform
\* newapi-runanytime.  The others are the panel's: owner is the token's user;
\* strict panels want his id in a header; header and takes: whether the
\* Authorization header and which cookies it accepts; offers: its check-in
\* endpoints; captcha: it wants a Turnstile token; refuses: whether a refusal
\* comes with an HTTP error status, as a text, or as a text that calls the
\* token expired.
Setup == [cookie : BOOLEAN, configured : Nat, jwt : Nat, pow : BOOLEAN,
          owner : Id, strict : BOOLEAN, header : BOOLEAN, takes : SUBSET (1 .. Cookies),
          offers : SUBSET Endpoint, captcha : BOOLEAN,
          refuses : {"status", "text", "expired"}]

ASSUME CheckinAssumption ==
    /\ Setups \subseteq Setup
    /\ IdCandidates \in Seq(Id) /\ IsInjective(IdCandidates)
    /\ Cookies \in Nat \ {0} /\ ExtraBudget \in Nat

VARIABLES
    setup,      \* the account and its panel
    cache,      \* resolvedUserIDCache[base URL, token]
    done,       \* panel: today's check-in has been granted
    flow        \* local variables of each flow

vars == <<setup, cache, done, flow>>
-----------------------------------------------------------------------------
\* What the adapter makes of an answer: a result, or the class of its message.
\* "session", "expired": refused for the credential or the user id.
\* "missing": HTTP 404.
Message == {"none", "granted", "already", "captcha", "session", "expired", "missing", "lost"}
Phase == {"idle", "lookup", "probe", "post", "cookies", "alternate", "end"}
Captcha == {"none", "fresh", "used"}    \* opt.TurnstileToken

\* k: the next request of the phase; user: resolvedUserID or alternateUserID;
\* alt: whether it is the alternate; first, last: firstFailureMessage,
\* lastErrMsg.  Histories: told, the panel said that the check-in is made;
\* lost, an answer was lost.
Local == [kind : {"none", "checkin", "balance"}, pc : Phase, k : Nat, user : Nat,
          alt : BOOLEAN, first : Message, last : Message, captcha : Captcha,
          told : BOOLEAN, lost : BOOLEAN]

NoFlow == [kind |-> "none", pc |-> "idle", k |-> 1, user |-> 0, alt |-> FALSE,
           first |-> "none", last |-> "none", captcha |-> "none",
           told |-> FALSE, lost |-> FALSE]
NoEntry == [user |-> 0, expired |-> FALSE]
Entry(id) == [user |-> id, expired |-> FALSE]

TypeOK ==
    /\ setup \in Setups
    /\ cache \in [user : Nat, expired : BOOLEAN]
    /\ done \in BOOLEAN
    /\ flow \in [Flow -> Local]

Init ==
    /\ setup \in Setups
    /\ cache = NoEntry
    /\ done \in BOOLEAN
    /\ flow = [f \in Flow |-> NoFlow]

At(f, pc) == flow[f].pc = pc
-----------------------------------------------------------------------------
(* Requests.  by: 0 for the Authorization header, else the cookie's number. *)

Request(path, by, id) == [path |-> path, by |-> by, id |-> id]

\* Mutant: the first cookie is paid from the budget too.
IdProbesCounted(ids) ==
    SubSeq(FlattenSeq([n \in DOMAIN ids |-> [c \in 1 .. Cookies |-> Request("self", c, ids[n])]]),
           1, ExtraBudget)

\* Every candidate id with the first cookie, the other cookies as long as the
\* budget of the whole probe lasts.
ExtraCookies(n) == Max({0} \cup {Min({Cookies - 1, ExtraBudget - (n - 1) * (Cookies - 1)})})
IdProbes(ids) ==
    FlattenSeq([n \in DOMAIN ids |->
                   [c \in 1 .. 1 + ExtraCookies(n) |-> Request("self", c, ids[n])]])
CandidateProbes == IdProbes(IdCandidates)

\* probeUserId: the header with the token's own id, then without one, the
\* cookies without one, the candidates.
HeaderProbes == (IF setup.jwt > 0 THEN <<Request("self", 0, setup.jwt)>> ELSE <<>>)
                \o <<Request("self", 0, 0)>>
ProbePlan == (IF setup.cookie THEN <<>> ELSE HeaderProbes)
             \o [c \in 1 .. Cookies |-> Request("self", c, 0)]
             \o CandidateProbes

\* probeAlternateCookieUserId: the candidates that differ from the current id.
AlternateProbes ==
    [id \in Range(IdCandidates) |-> IdProbes(RemoveFirst(IdCandidates, id))]
AlternatePlan(id) == IF id \in Range(IdCandidates) THEN AlternateProbes[id] ELSE CandidateProbes

\* The attempt of Checkin and of GetBalance with one credential.
Tries(l, by) ==
    IF l.kind = "balance" THEN <<Request("self", by, l.user)>>
    ELSE IF setup.pow THEN <<Request("challenge", by, l.user), Request("checkin", by, l.user)>>
    ELSE IF by = 0 THEN <<Request("checkin", by, l.user)>>
    ELSE <<Request("sign_in", by, l.user), Request("checkin", by, l.user)>>
CookiePlan(l) ==
    LET each == Len(Tries(l, 1))
    IN [n \in 1 .. Cookies * each |-> Tries(l, ((n - 1) \div each) + 1)[((n - 1) % each) + 1]]

Plan(l) == CASE l.pc = "probe"     -> ProbePlan
             [] l.pc = "post"      -> Tries(l, 0)
             [] l.pc = "cookies"   -> CookiePlan(l)
             [] l.pc = "alternate" -> AlternatePlan(l.user)
             [] OTHER              -> <<>>
-----------------------------------------------------------------------------
(* The panel. *)

Authorised(r) == /\ IF r.by = 0 THEN setup.header ELSE r.by \in setup.takes
                 /\ setup.strict => r.id = setup.owner

Refusal == IF setup.refuses = "expired" THEN "expired" ELSE "session"

\* "ok": the answer to a request that is no check-in.
Answer(l, r) ==
    IF r.path \in Endpoint \ setup.offers THEN "missing"
    ELSE IF ~Authorised(r) THEN Refusal
    ELSE IF r.path \notin Endpoint THEN "ok"
    ELSE IF setup.captcha /\ l.captcha # "fresh" THEN "captcha"
    ELSE IF done THEN "already" ELSE "granted"

\* A Turnstile token is good for one verification.
Spends(l, r) == l.captcha = "fresh" /\ Answer(l, r) \in {"granted", "already"}

\* storeResolvedUserID: what a probe found, and the alternate id when the
\* attempt with it has a result.
Remembers(l, after) ==
    \/ l.pc = "probe" /\ after.pc # "probe"
    \/ l.pc = "cookies" /\ l.alt /\ ~setup.pow /\ after.pc = "end"

\* One request: it may not arrive, and its answer may be lost.  React is what
\* the flow makes of what it sees.
Ask(f, pc, React(_, _, _)) ==
    LET l == flow[f]
        r == Plan(l)[l.k]
    IN /\ l.pc = pc /\ l.k \in DOMAIN Plan(l)
       /\ \E arrived, answered \in BOOLEAN :
             LET seen == IF answered THEN Answer(l, r) ELSE "lost"
                 after == React(l, r, seen)
             IN /\ answered => arrived
                /\ done' = (done \/ (arrived /\ Answer(l, r) = "granted"))
                /\ flow' = [flow EXCEPT ![f] =
                      [after EXCEPT
                          !.captcha = IF arrived /\ Spends(l, r) THEN "used" ELSE @,
                          !.told = @ \/ seen \in {"granted", "already"},
                          !.lost = @ \/ ~answered]]
                /\ cache' = IF Remembers(l, after) THEN Entry(after.user) ELSE cache
       /\ UNCHANGED setup

\* The requests of a phase are used up.
UsedUp(f, pc) == At(f, pc) /\ flow[f].k \notin DOMAIN Plan(flow[f])
-----------------------------------------------------------------------------
(* The adapter. *)

\* FetchJSON reports an HTTP error status as an error, like no answer at all.
IsError(seen) == \/ seen \in {"missing", "lost"}
                 \/ seen = Refusal /\ setup.refuses = "status"
\* isCookieSessionFailureMessage, shouldFallbackToCookieCheckin.
SessionFailure(message) == message \in {"session", "expired", "missing"}
ShouldFallback(message) == message \in {"none", "session", "missing"}

Or(message, other) == IF message = "none" THEN other ELSE message
Enter(l, pc) == [l EXCEPT !.pc = pc, !.k = 1]
Again(l) == [l EXCEPT !.k = @ + 1]
Ends(l, message) == [l EXCEPT !.pc = "end", !.first = message]

\* Checkin and GetBalance once the user id is there.
Resolved(l, id) ==
    Enter([l EXCEPT !.user = id], IF setup.cookie THEN "cookies" ELSE "post")

Begin(f, kind) ==
    /\ At(f, "idle")
    /\ flow' = [flow EXCEPT ![f].kind = kind, ![f].pc = "lookup"]
    /\ UNCHANGED <<setup, cache, done>>

\* discoverUserId up to the probe, lookupResolvedUserID.
Lookup(f) ==
    /\ At(f, "lookup")
    /\ LET known == IF setup.configured > 0 THEN setup.configured
                    ELSE IF cache.expired THEN 0 ELSE cache.user
       IN flow' = [flow EXCEPT ![f] = IF known > 0 THEN Resolved(@, known)
                                                   ELSE Enter(@, "probe")]
    /\ cache' = IF setup.configured = 0 /\ cache.expired THEN NoEntry ELSE cache
    /\ UNCHANGED <<setup, done>>

\* probeUserId: the answer to a request without an id names the owner.
AfterProbe(l, r, seen) ==
    IF seen # "ok" THEN Again(l)
    ELSE Resolved(l, IF r.id = 0 THEN setup.owner ELSE r.id)
Unresolved(f) ==
    /\ UsedUp(f, "probe")
    /\ flow' = [flow EXCEPT ![f] = Resolved(@, 0)]
    /\ UNCHANGED <<setup, cache, done>>

\* Step 1 of Checkin, the Authorization header; GetBalance in the same way.
AfterPost(l, r, seen) ==
    IF seen \in {"granted", "ok"} THEN
        IF r.path = "challenge" THEN Again(l) ELSE Ends(l, "granted")
    ELSE IF IF l.kind = "balance" THEN SessionFailure(seen) ELSE ShouldFallback(seen)
           THEN Enter([l EXCEPT !.first = seen], "cookies")
           ELSE Ends(l, seen)

\* Mutant: an error replaces the message of an earlier answer.
AfterCookieForgets(l, r, seen) ==
    IF seen = "granted" THEN Ends(l, seen)
    ELSE IF r.path = "checkin" /\ ~IsError(seen) /\ ~SessionFailure(seen) THEN Ends(l, seen)
    ELSE Again([l EXCEPT !.last = seen])

\* Step 2, tryCookieCheckin: the endpoint preferred by some forks, then the
\* other one, whose refusal is final unless it is about the session.
AfterCookie(l, r, seen) ==
    IF seen = "granted" THEN Ends(l, seen)
    ELSE IF IsError(seen) THEN Again([l EXCEPT !.last = Or(@, seen)])
    ELSE IF r.path = "checkin" /\ ~SessionFailure(seen) THEN Ends(l, seen)
    ELSE Again([l EXCEPT !.last = seen])

\* executePowCheckin with each cookie: a challenge refused is an error.
AfterPowCookie(l, r, seen) ==
    IF seen = "granted" THEN Ends(l, seen)
    ELSE IF r.path = "challenge" THEN
        IF seen = "ok" THEN Again(l)
        ELSE [l EXCEPT !.k = @ + 2, !.first = Or(@, seen)]
    ELSE IF ~IsError(seen) /\ ~SessionFailure(seen) THEN Ends(l, seen)
    ELSE Again([l EXCEPT !.first = Or(@, seen)])

\* GetBalance with each cookie.
AfterBalanceCookie(l, seen) ==
    IF seen = "ok" THEN Ends(l, "granted") ELSE Again([l EXCEPT !.first = seen])

AfterCookieRequest(l, r, seen) ==
    IF l.kind = "balance" THEN AfterBalanceCookie(l, seen)
    ELSE IF setup.pow THEN AfterPowCookie(l, r, seen) ELSE AfterCookie(l, r, seen)

NoCookieTook(f) ==
    /\ UsedUp(f, "cookies")
    /\ LET l == [flow[f] EXCEPT !.first = Or(flow[f].last, @)]
       IN flow' = [flow EXCEPT ![f] = Enter(l, IF l.alt \/ l.kind = "balance" THEN "end"
                                                                  ELSE "alternate")]
    /\ UNCHANGED <<setup, cache, done>>

\* Step 3: another id the panel takes with a cookie, and step 2 once more.
AfterAlternate(l, r, seen) ==
    IF seen # "ok" THEN Again(l)
    ELSE Enter([l EXCEPT !.user = r.id, !.alt = TRUE, !.last = "none"], "cookies")
NoAlternate(f) ==
    /\ UsedUp(f, "alternate")
    /\ flow' = [flow EXCEPT ![f] = Enter(@, "end")]
    /\ UNCHANGED <<setup, cache, done>>

Return(f) ==
    /\ At(f, "end")
    /\ flow' = [flow EXCEPT ![f] = NoFlow]
    /\ UNCHANGED <<setup, cache, done>>

\* resolvedUserIDCacheTTL runs out; the cleanup goroutine.
Expire ==
    /\ cache.user > 0 /\ ~cache.expired
    /\ cache' = [cache EXCEPT !.expired = TRUE]
    /\ UNCHANGED <<setup, done, flow>>
Cleanup ==
    /\ cache.expired /\ cache' = NoEntry
    /\ UNCHANGED <<setup, done, flow>>

Step(f) ==
    \/ Lookup(f) \/ Ask(f, "probe", AfterProbe) \/ Unresolved(f)
    \/ Ask(f, "post", AfterPost)
    \/ Ask(f, "cookies", AfterCookieRequest) \/ NoCookieTook(f)
    \/ Ask(f, "alternate", AfterAlternate) \/ NoAlternate(f)
-----------------------------------------------------------------------------
\* Step 2 asks sign_in before checkin, and goes on after what it answers.
AsksSignIn == ~setup.pow /\ "sign_in" \in setup.offers
\* The token is spent there: every further request is answered "captcha".
CaptchaOnEach == setup.captcha /\ AsksSignIn

\* A check-in the panel has granted or called made to this flow is reported
\* so.  Where step 2 goes on after that answer, this takes refusals by HTTP
\* status, no captcha that the next request needs again and no lost answer: a
\* text that refuses a later cookie or asks for a captcha replaces the message
\* of sign_in (newapi.go:306).
DoneIsReported ==
    \A f \in Flow :
        /\ At(f, "end") /\ flow[f].told
        /\ AsksSignIn => ~flow[f].lost /\ setup.refuses = "status" /\ ~setup.captcha
        => flow[f].first \in {"granted", "already"}

\* "A real id is never starved by the budget": a check-in that fails for its
\* session, at a panel with the endpoint that is asked, has asked with every
\* candidate id the panel takes with the first cookie, and none of them is.
\* (A captcha message may be replaced by a text that refuses a later cookie.)
RealIdNotStarved ==
    \A f \in Flow :
        /\ At(f, "end") /\ flow[f].kind = "checkin" /\ ~flow[f].lost /\ ~flow[f].told
        /\ IF setup.pow THEN "checkin" \in setup.offers ELSE setup.offers # {}
        /\ setup.cookie \/ setup.refuses # "expired"
        /\ CaptchaOnEach => setup.refuses = "status"
        /\ SessionFailure(flow[f].first)
        => \A n \in DOMAIN IdCandidates : ~Authorised(Request("self", 1, IdCandidates[n]))
=============================================================================

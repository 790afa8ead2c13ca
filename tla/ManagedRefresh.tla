--------------------------- MODULE ManagedRefresh ---------------------------
(***************************************************************************)
(* Background renewal of managed sessions (sub2api, new-api-v1):           *)
(* service/managed_session.go, refreshManagedSession and the state it      *)
(* keeps per account and per site.  Every renewal rotates the upstream     *)
(* refresh credential, so a credential must be presented once, its         *)
(* successor must reach the database, and the upstream route, limited by   *)
(* client address, must not be hammered.                                   *)
(*                                                                         *)
(* Workers are the goroutines that call EnsureManagedSession or            *)
(* ForceRefreshManagedSession (the refresh pass, a check-in, a balance     *)
(* refresh).  Editors are the other writers of the account row: an HTTP    *)
(* handler or the health update at the end of a check-in.  The upstream    *)
(* panel is external.  Durations are numbers of ticks; a deadline is kept  *)
(* as the time left until it, so that the clock itself needs no bound.     *)
(***************************************************************************)
EXTENDS Naturals, Sequences

CONSTANTS
    Account,        \* managed accounts (rows of table accounts)
    Worker,         \* goroutines that may call refreshManagedSession
    Editor,         \* concurrent writers of an account row
    Route,          \* outbound routes (proxy settings in extra_config)
    Scope,          \* rate-limit scopes: platform, site URL and route
    ScopeOf,        \* [Account -> [Route -> Scope]]
    OneTime,        \* accounts of sub2api, whose refresh token is one-time
    MinSpacing,     \* managedRefreshMinSpacing
    SiteSpacing,    \* managedNewAPISiteSpacing, managedSub2SiteSpacing
    Backoff,        \* managedRefreshBackoff after 1, 2, ... failures
    DeadBackoff,    \* managedRefreshDeadBackoff
    RetryAfter,     \* delays an upstream 429 may ask for
    Faults,         \* which of FaultKind can happen in this instance
    EditorOps,      \* which of EditorKind the editors perform; "browser"
    StatusSet,      \* account statuses set by users and check-ins
    MaxSession,     \* bound: logins per account (one is there at the start)
    MaxGen,         \* bound: credentials issued per session
    Nil             \* no worker, no fingerprint

FaultKind == {"store", "answer", "restart", "revoke"}
EditorKind == {"health", "edit", "login"}
AccountStatus == {"active", "expired", "disabled"}

ASSUME ScopesTyped == ScopeOf \in [Account -> [Route -> Scope]]
ASSUME KindsTyped == /\ Route # {}
                     /\ OneTime \subseteq Account
                     /\ Faults \subseteq FaultKind
                     /\ EditorOps \subseteq EditorKind \cup {"browser"}
                     /\ StatusSet \subseteq AccountStatus
ASSUME DelaysTyped == /\ {MinSpacing, SiteSpacing, DeadBackoff} \subseteq Nat
                      /\ RetryAfter \subseteq Nat
                      /\ Backoff \in Seq(Nat) /\ Len(Backoff) > 0
ASSUME BoundsTyped == {MaxSession, MaxGen} \subseteq Nat \ {0}
VARIABLES
    row,        \* accounts table: the columns a refresh reads or writes
    session,    \* upstream: newest credential of each login session
    mutex,      \* managedRefreshState.mu: the worker that holds it
    state,      \* managedRefreshState: remembered outcome of each account
    site,       \* managedRefreshSiteState of each scope
    worker,     \* local variables of each refreshManagedSession call
    editor,     \* local variables of each row writer
    replaced    \* history: access tokens of each account that a renewal has
                \* replaced in the row, and that no writer has put back since

vars == <<row, session, mutex, state, site, worker, editor, replaced>>
-----------------------------------------------------------------------------
(* A credential is the n-th one issued in login session s of its account. *)
Cred == [s : 1..MaxSession, n : 1..MaxGen]
Row == [token : Cred, due : BOOLEAN, refresh : Cred, route : Route,
        status : AccountStatus]

\* Mutant: the status is part of the fingerprint.
FingerprintWithStatus(r) == <<r.token, r.refresh, r.route, r.status>>

\* managedCredentialFingerprint: the token, the refresh credential and the
\* route, but neither the status nor the expiry.
Fingerprint(r) == <<r.token, r.refresh, r.route>>
FingerprintOf == Cred \X Cred \X Route

FreshState == [credential |-> Nil, wait |-> 0, failures |-> 0, dead |-> FALSE]
RefreshState == [credential : FingerprintOf \cup {Nil}, wait : Nat,
                 failures : 0..Len(Backoff), dead : BOOLEAN]

FreshSite == [inFlight |-> FALSE, wait |-> 0]
SiteState == [inFlight : BOOLEAN, wait : Nat]

\* Upstream: how many credentials a login session was issued so far.
Session == [n : 0..MaxGen, revoked : BOOLEAN]

Answer == {"none", "ok", "throttled", "retry", "dead"}
Phase == {"called", "locked", "sent", "answered"}
\* One call of refreshManagedSession: what it uses of the row it was given,
\* the row it read again under the mutex, and what RefreshAuth returned.
Call == [pc : Phase, account : Account, force : BOOLEAN,
         seen : [token : Cred, route : Route],
         latest : Row, answer : Answer, issued : Cred]
\* One read-modify-write of a row: the extra_config it will put in, and for
\* a login the credential of the new session.
Edit == [kind : EditorKind, account : Account, cred : Cred, route : Route]

ASSUME NilFresh == /\ Nil \notin Worker
                   /\ Nil \notin FingerprintOf
                   /\ Nil \notin Call
                   /\ Nil \notin Edit

TypeOK ==
    /\ row \in [Account -> Row]
    /\ session \in [Account -> [1..MaxSession -> Session]]
    /\ mutex \in [Account -> Worker \cup {Nil}]
    /\ state \in [Account -> RefreshState]
    /\ site \in [Scope -> SiteState]
    /\ worker \in [Worker -> Call \cup {Nil}]
    /\ editor \in [Editor -> Edit \cup {Nil}]
    /\ replaced \in [Account -> SUBSET Cred]
-----------------------------------------------------------------------------
FirstCred == [s |-> 1, n |-> 1]
\* The value of the local variable latest before it is assigned.
BlankRow == [token |-> FirstCred, due |-> FALSE, refresh |-> FirstCred,
             route |-> CHOOSE rt \in Route : TRUE, status |-> "active"]

Init ==
    /\ row \in [Account -> [token : {FirstCred}, due : BOOLEAN,
                            refresh : {FirstCred}, route : Route,
                            status : {"active"}]]
    /\ session = [a \in Account |-> [s \in 1..MaxSession |->
                    [n |-> IF s = 1 THEN 1 ELSE 0, revoked |-> FALSE]]]
    /\ mutex = [a \in Account |-> Nil]
    /\ state = [a \in Account |-> FreshState]
    /\ site = [c \in Scope |-> FreshSite]
    /\ worker = [w \in Worker |-> Nil]
    /\ editor = [e \in Editor |-> Nil]
    /\ replaced = [a \in Account |-> {}]

\* The newest credential of its session; or one already exchanged for it.
Current(a, c) == session[a][c.s].n = c.n
Consumed(a, c) == c.n < session[a][c.s].n
Live(a, c) == Current(a, c) /\ ~session[a][c.s].revoked

At(w, phase) == worker[w] # Nil /\ worker[w].pc = phase
AccountOf(w) == worker[w].account
\* managedRefreshSiteScope: the route is the one in the caller's options.
ScopeUsed(w) == ScopeOf[worker[w].account][worker[w].seen.route]

\* Mutant: no serialisation of an account's refreshes.
MutexIgnored(a) == TRUE

MutexFree(a) == mutex[a] = Nil

\* Mutant: a return path without the unlock.
ReturnLocked(w) ==
    /\ worker' = [worker EXCEPT ![w] = Nil]
    /\ UNCHANGED mutex

Return(w) ==
    /\ worker' = [worker EXCEPT ![w] = Nil]
    /\ mutex' = [mutex EXCEPT ![AccountOf(w)] = Nil]
-----------------------------------------------------------------------------
(* refreshManagedSession, from the call to the upstream request.           *)

\* A worker that has read a row calls Ensure (when the row is due) or Force.
CallRefresh(w, a, force) ==
    /\ worker[w] = Nil
    /\ row[a].status # "disabled"
    /\ force \/ row[a].due
    /\ worker' = [worker EXCEPT ![w] =
                    [pc |-> "called", account |-> a, force |-> force,
                     seen |-> [token |-> row[a].token, route |-> row[a].route],
                     latest |-> BlankRow, answer |-> "none",
                     issued |-> FirstCred]]
    /\ UNCHANGED <<row, session, mutex, state, site, editor, replaced>>

\* syncCredential: another fingerprint starts with a clean slate.
SyncCredential(s, fp) ==
    IF s.credential = fp THEN s ELSE [FreshState EXCEPT !.credential = fp]

\* state.mu.Lock, then GetAccountWithSite and syncCredential.
Acquire(w) ==
    /\ At(w, "called")
    /\ MutexFree(AccountOf(w))
    /\ LET a == AccountOf(w) IN
       /\ mutex' = [mutex EXCEPT ![a] = w]
       /\ worker' = [worker EXCEPT ![w].pc = "locked", ![w].latest = row[a]]
       /\ state' = [state EXCEPT ![a] = SyncCredential(@, Fingerprint(row[a]))]
    /\ UNCHANGED <<row, session, site, editor, replaced>>

\* The same, but the row cannot be read: the error is returned at once.
AcquireFails(w) ==
    /\ "store" \in Faults
    /\ At(w, "called")
    /\ MutexFree(AccountOf(w))
    /\ worker' = [worker EXCEPT ![w] = Nil]
    /\ UNCHANGED <<row, session, mutex, state, site, editor, replaced>>

\* Mutant: the stale row of a forced caller goes unnoticed.
NeverHandOff(w) == FALSE

\* A forced caller whose row is stale gets the credential stored meanwhile.
IsHandOff(w) == worker[w].force /\ worker[w].latest.token # worker[w].seen.token

HandOff(w) ==
    /\ At(w, "locked")
    /\ IsHandOff(w)
    /\ Return(w)
    /\ UNCHANGED <<row, session, state, site, editor, replaced>>

\* retryDelay > 0: spacing after a success or backoff after a failure.
Throttled(w) ==
    /\ At(w, "locked")
    /\ ~IsHandOff(w)
    /\ state[AccountOf(w)].wait > 0
    /\ Return(w)
    /\ UNCHANGED <<row, session, state, site, editor, replaced>>

NotDue(w) ==
    /\ At(w, "locked")
    /\ ~worker[w].force /\ ~worker[w].latest.due
    /\ state[AccountOf(w)].wait = 0
    /\ Return(w)
    /\ UNCHANGED <<row, session, state, site, editor, replaced>>

WantsRequest(w) ==
    /\ At(w, "locked")
    /\ ~IsHandOff(w)
    /\ state[AccountOf(w)].wait = 0
    /\ worker[w].force \/ worker[w].latest.due

\* Mutant: only the spacing is checked.
SiteSpaced(c) == site[c].wait = 0

SiteFree(c) == ~site[c].inFlight /\ site[c].wait = 0

\* tryStart refuses: deferred, and nothing is recorded against the account.
SiteBusy(w) ==
    /\ WantsRequest(w)
    /\ ~SiteFree(ScopeUsed(w))
    /\ Return(w)
    /\ UNCHANGED <<row, session, state, site, editor, replaced>>

Send(w) ==
    /\ WantsRequest(w)
    /\ SiteFree(ScopeUsed(w))
    /\ site' = [site EXCEPT ![ScopeUsed(w)].inFlight = TRUE]
    /\ worker' = [worker EXCEPT ![w].pc = "sent"]
    /\ UNCHANGED <<row, session, mutex, state, editor, replaced>>
-----------------------------------------------------------------------------
(* Upstream, as the adapters' RefreshAuth reports it (external).           *)

Reply(w, answer) ==
    worker' = [worker EXCEPT ![w].pc = "answered", ![w].answer = answer]

\* The newest credential is exchanged.  With fault "answer" the successor is
\* lost on the way: a 429 of a gateway only throttles, any other HTTP error is
\* retried later by new-api-v1; both call the credential dead when the outcome
\* is unknown, sub2api after every other failure as well.
Rotate(w) ==
    LET a == AccountOf(w)
        c == worker[w].latest.refresh
    IN /\ At(w, "sent")
       /\ Live(a, c) /\ c.n < MaxGen
       /\ session' = [session EXCEPT ![a][c.s].n = c.n + 1]
       /\ \/ worker' = [worker EXCEPT ![w].pc = "answered", ![w].answer = "ok",
                                      ![w].issued = [c EXCEPT !.n = c.n + 1]]
          \/ "answer" \in Faults /\ (Reply(w, "dead") \/ Reply(w, "throttled"))
          \/ "answer" \in Faults /\ a \notin OneTime /\ Reply(w, "retry")
       /\ UNCHANGED <<row, mutex, state, site, editor, replaced>>

\* A consumed credential is a replay: the whole session is revoked.
RejectReplay(w) ==
    LET a == AccountOf(w)
        c == worker[w].latest.refresh
    IN /\ At(w, "sent")
       /\ Consumed(a, c) \/ session[a][c.s].revoked
       /\ session' = [session EXCEPT ![a][c.s].revoked = TRUE]
       /\ Reply(w, "dead")
       /\ UNCHANGED <<row, mutex, state, site, editor, replaced>>

\* Nothing is exchanged: 429, or an error.  A one-time credential is called
\* dead after any error but 429, a refresh cookie after two without a status,
\* because the outcome is not known.
Decline(w) ==
    /\ At(w, "sent")
    /\ \/ Reply(w, "throttled") \/ Reply(w, "dead")
       \/ AccountOf(w) \notin OneTime /\ Reply(w, "retry")
    /\ UNCHANGED <<row, session, mutex, state, site, editor, replaced>>

\* What the panel has issued, to whoever asked: a browser has it as well.
Issued(a) == {c \in Cred : 1 <= c.n /\ c.n <= session[a][c.s].n}

\* A login session opened outside LoginAccount: in the user's browser, or by
\* tryAutoRelogin with the stored password.
OpenSession(a, s) ==
    /\ "browser" \in EditorOps
    /\ session[a][s].n = 0 /\ \A t \in 1..(s - 1) : session[a][t].n > 0
    /\ session' = [session EXCEPT ![a][s].n = 1]
    /\ UNCHANGED <<row, mutex, state, site, worker, editor, replaced>>

\* The panel ends a session by itself (expiry, administrator).
UpstreamRevokes(a, s) ==
    /\ "revoke" \in Faults
    /\ session[a][s].n > 0 /\ ~session[a][s].revoked
    /\ session' = [session EXCEPT ![a][s].revoked = TRUE]
    /\ UNCHANGED <<row, mutex, state, site, worker, editor, replaced>>
-----------------------------------------------------------------------------
(* refreshManagedSession, from the answer to the return.                   *)

\* managedRefreshBackoff for the given number of failures.
BackoffAfter(failures) ==
    Backoff[IF failures < Len(Backoff) THEN failures ELSE Len(Backoff)]

CountFailure(s) == IF s.failures < Len(Backoff) THEN s.failures + 1 ELSE s.failures

RecordFailure(s, wait, dead) ==
    [s EXCEPT !.wait = wait, !.dead = dead, !.failures = CountFailure(s)]

RecordSuccess(fp) == [FreshState EXCEPT !.credential = fp, !.wait = MinSpacing]

\* The deferred finish: the slot is free again after spacing or Retry-After.
FinishSite(w, wait) ==
    site' = [site EXCEPT ![ScopeUsed(w)] = [inFlight |-> FALSE, wait |-> wait]]

Fail(w) ==
    LET a == AccountOf(w)
        s == state[a]
    IN /\ At(w, "answered")
       /\ \/ /\ worker[w].answer = "throttled"
             /\ \E d \in RetryAfter : /\ state' = [state EXCEPT ![a] = RecordFailure(s, d, FALSE)]
                                      /\ FinishSite(w, d)
          \/ /\ worker[w].answer = "retry"
             /\ state' = [state EXCEPT ![a] =
                            RecordFailure(s, BackoffAfter(CountFailure(s)), FALSE)]
             /\ FinishSite(w, SiteSpacing)
          \/ /\ worker[w].answer = "dead"
             /\ state' = [state EXCEPT ![a] = RecordFailure(s, DeadBackoff, TRUE)]
             /\ FinishSite(w, SiteSpacing)
       /\ Return(w)
       /\ UNCHANGED <<row, session, editor, replaced>>

\* Mutant: the rotated refresh credential is not written.
RefreshedTokenOnly(w) ==
    [worker[w].latest EXCEPT !.token = worker[w].issued, !.due = FALSE]

\* UpdateAccount with the rotated credential.  extra_config is the one read
\* under the mutex, so its route goes back in with the new credential.
Refreshed(w) ==
    LET r == worker[w].latest
        c == worker[w].issued
    IN [r EXCEPT !.token = c, !.refresh = c, !.due = FALSE]

Persist(w) ==
    LET a == AccountOf(w)
        r == Refreshed(w)
    IN /\ At(w, "answered")
       /\ worker[w].answer = "ok"
       /\ row' = [row EXCEPT ![a] = [r EXCEPT !.status =
                    IF r.status = "expired" THEN "active" ELSE row[a].status]]
       /\ replaced' = [replaced EXCEPT ![a] = (@ \cup {row[a].token}) \ {r.token}]
       /\ state' = [state EXCEPT ![a] = RecordSuccess(Fingerprint(r))]
       /\ FinishSite(w, SiteSpacing)
       /\ Return(w)
       /\ UNCHANGED <<session, editor>>

\* Both writes of the rotated credential failed: it is lost.
PersistFails(w) ==
    LET a == AccountOf(w)
    IN /\ "store" \in Faults
       /\ At(w, "answered")
       /\ worker[w].answer = "ok"
       /\ state' = [state EXCEPT ![a] = RecordFailure(@, DeadBackoff, TRUE)]
       /\ FinishSite(w, SiteSpacing)
       /\ Return(w)
       /\ UNCHANGED <<row, session, editor, replaced>>
-----------------------------------------------------------------------------
(* The other writers of the row, the clock and the process.                *)

\* freshRuntimeHealth and handler.UpdateAccount read the row they will write.
BeginEdit(e, a, kind) ==
    /\ kind \in EditorOps \ {"login"}
    /\ editor[e] = Nil
    /\ editor' = [editor EXCEPT ![e] =
                    [kind |-> kind, account |-> a,
                     cred |-> row[a].refresh, route |-> row[a].route]]
    /\ UNCHANGED <<row, session, mutex, state, site, worker, replaced>>

\* UpdateAccount{extra_config: snapshot with a new runtimeHealth}, with the
\* status expired after an expired token, active after a success.
WriteHealth(e) ==
    /\ editor[e] # Nil /\ editor[e].kind = "health"
    /\ \E st \in {row[editor[e].account].status} \cup (StatusSet \ {"disabled"}) :
         row' = [row EXCEPT ![editor[e].account].refresh = editor[e].cred,
                            ![editor[e].account].route = editor[e].route,
                            ![editor[e].account].status = st]
    /\ editor' = [editor EXCEPT ![e] = Nil]
    /\ UNCHANGED <<session, mutex, state, site, worker, replaced>>

\* A writer other than a renewal puts this access token into the row.
PutsBack(a, token) == replaced' = [replaced EXCEPT ![a] = @ \ {token}]

\* UpdateAccount{extra_config: snapshot with other proxy settings}, and with
\* the access token, the refresh credential and the expiry a user pasted: the
\* account form, RebindSession, and the store at the end of tryAutoRelogin.
\* (A form that clears the credential, which ends all renewal, is left out.)
WriteEdit(e) ==
    /\ editor[e] # Nil /\ editor[e].kind = "edit"
    /\ LET a == editor[e].account IN
       \E rt \in Route, due \in BOOLEAN, token \in {row[a].token} \cup Issued(a),
          refresh \in {editor[e].cred} \cup Issued(a) :
       /\ row' = [row EXCEPT ![a] = [token |-> token, due |-> due, refresh |-> refresh,
                                     route |-> rt, status |-> row[a].status]]
       /\ PutsBack(a, token)
    /\ editor' = [editor EXCEPT ![e] = Nil]
    /\ UNCHANGED <<session, mutex, state, site, worker>>

\* LoginAccount: a new upstream session, then the row is read ...  A sub2api
\* panel has no login.
BeginLogin(e, a, s) ==
    /\ "login" \in EditorOps
    /\ a \notin OneTime
    /\ editor[e] = Nil
    /\ session[a][s].n = 0 /\ \A t \in 1..(s - 1) : session[a][t].n > 0
    /\ session' = [session EXCEPT ![a][s].n = 1]
    /\ editor' = [editor EXCEPT ![e] =
                    [kind |-> "login", account |-> a,
                     cred |-> [s |-> s, n |-> 1], route |-> row[a].route]]
    /\ UNCHANGED <<row, mutex, state, site, worker, replaced>>

\* ... and written with the new credential; the account is active again.
WriteLogin(e) ==
    /\ editor[e] # Nil /\ editor[e].kind = "login"
    /\ row' = [row EXCEPT ![editor[e].account] =
                 [token |-> editor[e].cred, due |-> FALSE,
                  refresh |-> editor[e].cred, route |-> editor[e].route,
                  status |-> "active"]]
    /\ PutsBack(editor[e].account, editor[e].cred)
    /\ editor' = [editor EXCEPT ![e] = Nil]
    /\ UNCHANGED <<session, mutex, state, site, worker>>

\* A user toggles the account; a failed check-in marks it expired.
SetStatus(a, st) ==
    /\ row[a].status # st
    /\ row' = [row EXCEPT ![a].status = st]
    /\ UNCHANGED <<session, mutex, state, site, worker, editor, replaced>>

\* The stored access token enters its renewal window (isManagedRefreshDue).
TokenAges(a) ==
    /\ ~row[a].due
    /\ row' = [row EXCEPT ![a].due = TRUE]
    /\ UNCHANGED <<session, mutex, state, site, worker, editor, replaced>>

\* Mutant: the time left is not clamped at zero.
ElapseBelowZero(r) == [r EXCEPT !.wait = r.wait - 1]

Elapse(r) == [r EXCEPT !.wait = IF r.wait > 0 THEN r.wait - 1 ELSE 0]

Tick ==
    /\ (\E a \in Account : state[a].wait > 0) \/ (\E c \in Scope : site[c].wait > 0)
    /\ state' = [a \in Account |-> Elapse(state[a])]
    /\ site' = [c \in Scope |-> Elapse(site[c])]
    /\ UNCHANGED <<row, session, mutex, worker, editor, replaced>>

\* The process dies: the database and upstream stay, memory is gone.
Restart ==
    /\ "restart" \in Faults
    /\ mutex' = [a \in Account |-> Nil]
    /\ state' = [a \in Account |-> FreshState]
    /\ site' = [c \in Scope |-> FreshSite]
    /\ worker' = [w \in Worker |-> Nil]
    /\ editor' = [e \in Editor |-> Nil]
    /\ UNCHANGED <<row, session, replaced>>
-----------------------------------------------------------------------------
\* The call goes on under the mutex, until it returns.
Proceed(w) ==
    \/ HandOff(w) \/ Throttled(w) \/ NotDue(w) \/ SiteBusy(w) \/ Send(w)
    \/ Rotate(w) \/ RejectReplay(w) \/ Decline(w)
    \/ Fail(w) \/ Persist(w) \/ PersistFails(w)

WorkerStep(w) == Acquire(w) \/ AcquireFails(w) \/ Proceed(w)

EditorStep(e) == WriteHealth(e) \/ WriteEdit(e) \/ WriteLogin(e)

Environment(a) ==
    \/ TokenAges(a)
    \/ \E st \in StatusSet : SetStatus(a, st)
    \/ \E s \in 1..MaxSession : UpstreamRevokes(a, s) \/ OpenSession(a, s)

Next ==
    \/ \E w \in Worker, a \in Account, force \in BOOLEAN : CallRefresh(w, a, force)
    \/ \E w \in Worker : WorkerStep(w)
    \/ \E e \in Editor, a \in Account :
          \/ \E kind \in EditorKind : BeginEdit(e, a, kind)
          \/ \E s \in 1..MaxSession : BeginLogin(e, a, s)
    \/ \E e \in Editor : EditorStep(e)
    \/ \E a \in Account : Environment(a)
    \/ Tick
    \/ Restart

Spec == Init /\ [][Next]_vars

\* The mutex is handed to waiters in turn (sync.Mutex starvation mode), a
\* worker keeps running, and an HTTP request ends by its client timeout.
Fairness == \A w \in Worker : SF_vars(Acquire(w)) /\ WF_vars(Proceed(w))

FairSpec == Spec /\ Fairness
-----------------------------------------------------------------------------
(* Properties.                                                             *)

InFlight(w) == At(w, "sent") \/ At(w, "answered")

\* The site slot is taken exactly while one refresh request of that scope is
\* in flight: no two requests share a rate-limit scope, and no return path of
\* refreshManagedSession leaves the slot taken, which would end renewal for
\* every account of the site.
SiteSlotExact ==
    \A c \in Scope :
        LET users == {w \in Worker : InFlight(w) /\ ScopeUsed(w) = c} IN
        /\ site[c].inFlight <=> users # {}
        /\ \A v, w \in users : v = w

\* No worker submits a refresh credential that upstream already exchanged for
\* another: the row is read again under the account mutex and the successor
\* is stored before the mutex is released.
NeverReplays ==
    \A w \in Worker :
        At(w, "sent") => ~Consumed(AccountOf(w), worker[w].latest.refresh)

\* While no refresh of an account is running, its stored refresh credential
\* is one upstream has not exchanged.
StoredIsCurrent ==
    \A a \in Account : mutex[a] = Nil => ~Consumed(a, row[a].refresh)

\* A rotation whose successor was lost stays on record: as long as the row
\* holds the exchanged credential, the refresh state belongs to that very
\* credential and counts a failure, so nothing skips its backoff.
ConsumedIsRemembered ==
    \A a \in Account :
        mutex[a] = Nil /\ Consumed(a, row[a].refresh) =>
            /\ state[a].credential = Fingerprint(row[a])
            /\ state[a].failures > 0

\* A forced refresh presents no credential once a renewal has replaced the
\* token its caller was refused: the caller "held a stale row while another
\* worker already persisted a new credential" and is handed the stored one.
\* Whatever a login, a form or the health update writes beside it, only a
\* writer that puts the refused token back makes it renew once more.
ForceNeverRepeats ==
    \A w \in Worker :
        At(w, "sent") /\ worker[w].force =>
            worker[w].seen.token \notin replaced[AccountOf(w)]

\* The invariant behind NeverReplays and StoredIsCurrent, which are not
\* inductive: who may hold which credential between the upstream exchange and
\* the write of its successor, while a login brings a session of its own.
Inside(w) == worker[w] # Nil /\ worker[w].pc # "called"
Rotated(w) == At(w, "answered") /\ worker[w].answer = "ok"
Serial == \A w \in Worker : Inside(w) => mutex[AccountOf(w)] = w
RowIssued ==
    \A a \in Account :
        /\ row[a].refresh.n <= session[a][row[a].refresh.s].n
        /\ \/ Current(a, row[a].refresh)
           \/ \E w \in Worker : Rotated(w) /\ AccountOf(w) = a
CarriedCurrent ==
    \A w \in Worker :
        /\ Inside(w) => worker[w].latest.refresh.n <=
                          session[AccountOf(w)][worker[w].latest.refresh.s].n
        /\ At(w, "locked") \/ At(w, "sent") =>
              Current(AccountOf(w), worker[w].latest.refresh)
        /\ Rotated(w) => /\ Current(AccountOf(w), worker[w].issued)
                         /\ worker[w].issued.s = worker[w].latest.refresh.s
LoginApart ==
    \A e \in Editor : editor[e] # Nil =>
        LET a == editor[e].account
            c == editor[e].cred
        IN /\ editor[e].kind = "login"
           /\ Current(a, c)
           /\ row[a].refresh.s # c.s
           /\ \A w \in Worker :
                 Inside(w) /\ AccountOf(w) = a => worker[w].latest.refresh.s # c.s
           /\ \A d \in Editor \ {e} :
                 editor[d] # Nil /\ editor[d].account = a => editor[d].cred.s # c.s
OneHolder == Serial /\ RowIssued /\ CarriedCurrent /\ LoginApart

\* Every call returns: no order of mutex, site slot and upstream answer
\* leaves a worker waiting for ever.
CallsReturn == \A w \in Worker : worker[w] # Nil ~> worker[w] = Nil

\* The abstract view: the credential held is the issued one while it is on
\* its way to the database, the stored one otherwise.
Pending(a) == {w \in Worker : At(w, "answered") /\ worker[w].account = a
                                /\ worker[w].answer = "ok"}
Held == [a \in Account |->
            IF Pending(a) = {} THEN row[a].refresh
            ELSE worker[CHOOSE w \in Pending(a) : TRUE].issued]
Used == [a \in Account |-> {c \in Cred : Consumed(a, c)}]

Abstract == INSTANCE RotatingCredential WITH held <- Held, used <- Used
RotatesCredential == Abstract!Spec
=============================================================================

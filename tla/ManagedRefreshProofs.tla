------------------------ MODULE ManagedRefreshProofs ------------------------
(* Theorems of ManagedRefresh, for every number of accounts, workers and     *)
(* editors and every value of the delays and bounds.                         *)
EXTENDS ManagedRefresh, TLAPS

USE DEF FaultKind, EditorKind

-----------------------------------------------------------------------------
(* Facts about the helpers.                                                  *)

\* A call that reached a phase is a record, with an account of its own.
LEMMA AtIsCall ==
    ASSUME TypeOK, NEW w \in Worker, NEW p, At(w, p)
    PROVE  /\ worker[w] \in Call
           /\ AccountOf(w) \in Account
           /\ ScopeUsed(w) \in Scope
           /\ worker[w].pc = p
<1>1. worker[w] \in Call
  BY DEF TypeOK, At
<1>2. worker[w].account \in Account /\ worker[w].seen.route \in Route
  BY <1>1 DEF Call
<1>3. QED
  BY <1>1, <1>2, ScopesTyped DEF At, AccountOf, ScopeUsed

\* recordFailure and recordSuccess leave a well-formed refresh state.
LEMMA RefreshStateTyped ==
    ASSUME NEW s \in RefreshState, NEW d \in Nat, NEW b \in BOOLEAN,
           NEW fp \in FingerprintOf
    PROVE  /\ RecordFailure(s, d, b) \in RefreshState
           /\ RecordSuccess(fp) \in RefreshState
           /\ SyncCredential(s, fp) \in RefreshState
           /\ Elapse(s) \in RefreshState
           /\ FreshState \in RefreshState
           /\ CountFailure(s) \in 1..Len(Backoff)
           /\ BackoffAfter(CountFailure(s)) \in Nat
<1> USE DelaysTyped
<1>1. Len(Backoff) \in Nat /\ Len(Backoff) > 0
  OBVIOUS
<1>2. CountFailure(s) \in 1..Len(Backoff)
  BY <1>1 DEF CountFailure, RefreshState
<1>3. BackoffAfter(CountFailure(s)) \in Nat
  BY <1>1, <1>2 DEF BackoffAfter
<1>4. RecordFailure(s, d, b) \in RefreshState
  <2> DEFINE f == CountFailure(s)
  <2>1. f \in 0..Len(Backoff)
    BY <1>1, <1>2
  <2>2. RecordFailure(s, d, b) = [s EXCEPT !.wait = d, !.dead = b, !.failures = f]
    BY DEF RecordFailure
  <2> HIDE DEF f
  <2>3. QED
    BY <2>1, <2>2 DEF RefreshState
<1>5. FreshState \in RefreshState
  BY <1>1 DEF FreshState, RefreshState
<1>6. RecordSuccess(fp) \in RefreshState /\ SyncCredential(s, fp) \in RefreshState
  BY <1>5 DEF RecordSuccess, SyncCredential, RefreshState
<1>7. Elapse(s) \in RefreshState
  <2> DEFINE t == IF s.wait > 0 THEN s.wait - 1 ELSE 0
  <2>1. t \in Nat
    BY DEF RefreshState
  <2>2. Elapse(s) = [s EXCEPT !.wait = t]
    BY DEF Elapse
  <2> HIDE DEF t
  <2>3. QED
    BY <2>1, <2>2 DEF RefreshState
<1>8. QED
  BY <1>2, <1>3, <1>4, <1>5, <1>6, <1>7

LEMMA FingerprintTyped == \A r \in Row : Fingerprint(r) \in FingerprintOf
  BY DEF Fingerprint, FingerprintOf, Row

LEMMA FirstCredTyped == FirstCred \in Cred /\ BlankRow \in Row
<1>1. FirstCred \in Cred
  BY BoundsTyped DEF FirstCred, Cred
<1>2. (CHOOSE rt \in Route : TRUE) \in Route
  BY KindsTyped
<1>3. QED
  BY <1>1, <1>2 DEF BlankRow, Row, AccountStatus

-----------------------------------------------------------------------------
(* Type correctness.                                                         *)

LEMMA InitTyped == Init => TypeOK
<1> SUFFICES ASSUME Init PROVE TypeOK
  OBVIOUS
<1>1. row \in [Account -> Row]
  BY FirstCredTyped DEF Init, Row, AccountStatus
<1>2. session \in [Account -> [1..MaxSession -> Session]]
  BY BoundsTyped DEF Init, Session
<1>3. state \in [Account -> RefreshState]
  BY DelaysTyped DEF Init, FreshState, RefreshState
<1>4. site \in [Scope -> SiteState]
  BY DEF Init, FreshSite, SiteState
<1>5. QED
  BY <1>1, <1>2, <1>3, <1>4 DEF Init, TypeOK

\* What Return does to the variables it writes.
LEMMA ReturnTyped ==
    ASSUME TypeOK, NEW w \in Worker, Return(w), AccountOf(w) \in Account
    PROVE  /\ worker' \in [Worker -> Call \cup {Nil}]
           /\ mutex' \in [Account -> Worker \cup {Nil}]
  BY DEF TypeOK, Return

LEMMA FinishSiteTyped ==
    ASSUME TypeOK, NEW w \in Worker, NEW d \in Nat, FinishSite(w, d)
    PROVE  site' \in [Scope -> SiteState]
  BY DEF TypeOK, FinishSite, SiteState

\* The first half of a call: up to the upstream request.
LEMMA CallTyped ==
    ASSUME TypeOK, NEW w \in Worker,
           \/ \E a \in Account, force \in BOOLEAN : CallRefresh(w, a, force)
           \/ Acquire(w) \/ AcquireFails(w) \/ HandOff(w) \/ Throttled(w)
           \/ NotDue(w) \/ SiteBusy(w) \/ Send(w)
    PROVE  TypeOK'
<1>1. ASSUME NEW a \in Account, NEW force \in BOOLEAN, CallRefresh(w, a, force)
      PROVE  TypeOK'
  <2>1. row[a] \in Row
    BY DEF TypeOK
  <2>2. worker' \in [Worker -> Call \cup {Nil}]
    <3>1. [pc |-> "called", account |-> a, force |-> force,
           seen |-> [token |-> row[a].token, route |-> row[a].route],
           latest |-> BlankRow, answer |-> "none", issued |-> FirstCred] \in Call
      BY <2>1, FirstCredTyped DEF Call, Phase, Answer, Row
    <3>2. QED
      BY <1>1, <3>1 DEF CallRefresh, TypeOK
  <2>3. QED
    BY <1>1, <2>2 DEF CallRefresh, TypeOK
<1>2. CASE Acquire(w)
  <2>1. worker[w] \in Call /\ AccountOf(w) \in Account
    BY <1>2, AtIsCall DEF Acquire
  <2> DEFINE a == AccountOf(w)
  <2>2. row[a] \in Row /\ state[a] \in RefreshState
    BY <2>1 DEF TypeOK
  <2>3. worker' \in [Worker -> Call \cup {Nil}]
    <3>1. [worker[w] EXCEPT !.pc = "locked", !.latest = row[a]] \in Call
      BY <2>1, <2>2 DEF Call, Phase
    <3>2. worker' = [worker EXCEPT ![w] = [worker[w] EXCEPT !.pc = "locked", !.latest = row[a]]]
      BY <1>2 DEF Acquire, TypeOK
    <3>3. QED
      BY <3>1, <3>2 DEF TypeOK
  <2>4. state' \in [Account -> RefreshState]
    <3>1. SyncCredential(state[a], Fingerprint(row[a])) \in RefreshState
      BY <2>2, FingerprintTyped, RefreshStateTyped
    <3>2. state' = [state EXCEPT ![a] = SyncCredential(state[a], Fingerprint(row[a]))]
      BY <1>2, <2>1 DEF Acquire, TypeOK
    <3>3. QED
      BY <3>1, <3>2 DEF TypeOK
  <2>5. mutex' \in [Account -> Worker \cup {Nil}]
    BY <1>2 DEF Acquire, TypeOK
  <2>6. QED
    BY <1>2, <2>3, <2>4, <2>5 DEF Acquire, TypeOK
<1>3. CASE AcquireFails(w)
  BY <1>3 DEF AcquireFails, TypeOK
<1>4. CASE HandOff(w) \/ Throttled(w) \/ NotDue(w) \/ SiteBusy(w)
  <2>1. AccountOf(w) \in Account /\ Return(w)
    BY <1>4, AtIsCall DEF HandOff, Throttled, NotDue, SiteBusy, WantsRequest
  <2>2. UNCHANGED <<row, session, state, site, editor, replaced>>
    BY <1>4 DEF HandOff, Throttled, NotDue, SiteBusy
  <2>3. QED
    BY <2>1, <2>2, ReturnTyped DEF TypeOK
<1>5. CASE Send(w)
  <2>1. worker[w] \in Call /\ ScopeUsed(w) \in Scope
    BY <1>5, AtIsCall DEF Send, WantsRequest
  <2>2. worker' \in [Worker -> Call \cup {Nil}]
    <3>1. [worker[w] EXCEPT !.pc = "sent"] \in Call
      BY <2>1 DEF Call, Phase
    <3>2. worker' = [worker EXCEPT ![w] = [worker[w] EXCEPT !.pc = "sent"]]
      BY <1>5 DEF Send, TypeOK
    <3>3. QED
      BY <3>1, <3>2 DEF TypeOK
  <2>3. site' \in [Scope -> SiteState]
    <3>1. [site[ScopeUsed(w)] EXCEPT !.inFlight = TRUE] \in SiteState
      BY <2>1 DEF TypeOK, SiteState
    <3>2. site' = [site EXCEPT ![ScopeUsed(w)] = [site[ScopeUsed(w)] EXCEPT !.inFlight = TRUE]]
      BY <1>5 DEF Send, TypeOK
    <3>3. QED
      BY <3>1, <3>2 DEF TypeOK
  <2>4. QED
    BY <1>5, <2>2, <2>3 DEF Send, TypeOK
<1>6. QED
  BY <1>1, <1>2, <1>3, <1>4, <1>5

\* What Reply does to the worker; a session entry stays one.
LEMMA ReplyTyped ==
    ASSUME TypeOK, NEW w \in Worker, worker[w] \in Call, NEW x \in Answer, Reply(w, x)
    PROVE  worker' \in [Worker -> Call \cup {Nil}]
<1>1. [worker[w] EXCEPT !.pc = "answered", !.answer = x] \in Call
  BY DEF Call, Phase
<1>2. worker' = [worker EXCEPT ![w] = [worker[w] EXCEPT !.pc = "answered", !.answer = x]]
  BY DEF Reply, TypeOK
<1>3. QED
  BY <1>1, <1>2 DEF TypeOK

LEMMA UpstreamTyped ==
    ASSUME TypeOK, NEW w \in Worker, Rotate(w) \/ RejectReplay(w) \/ Decline(w)
    PROVE  TypeOK'
<1> DEFINE a == AccountOf(w)
           c == worker[w].latest.refresh
<1>1. worker[w] \in Call /\ a \in Account /\ c \in Cred
  BY AtIsCall DEF Rotate, RejectReplay, Decline, Call, Row
<1>2. c.s \in 1..MaxSession /\ c.n \in 1..MaxGen
  BY <1>1 DEF Cred
<1>3. CASE Rotate(w)
  <2>1. c.n + 1 \in 1..MaxGen
    <3>1. c.n < MaxGen /\ MaxGen \in Nat
      BY <1>3, BoundsTyped DEF Rotate
    <3>2. QED
      BY <1>2, <3>1
  <2>2. session' \in [Account -> [1..MaxSession -> Session]]
    <3>0. session[a][c.s] \in Session
      BY <1>1, <1>2 DEF TypeOK
    <3>1. [session[a][c.s] EXCEPT !.n = c.n + 1] \in Session
      BY <2>1, <3>0 DEF Session
    <3>2. session' = [session EXCEPT ![a][c.s].n = c.n + 1]
      BY <1>3 DEF Rotate
    <3>3. QED
      BY <1>1, <1>2, <3>1, <3>2 DEF TypeOK
  <2>3. worker' \in [Worker -> Call \cup {Nil}]
    <3>1. CASE Reply(w, "dead") \/ Reply(w, "throttled") \/ Reply(w, "retry")
      BY <1>1, <3>1, ReplyTyped DEF Answer
    <3>2. CASE worker' = [worker EXCEPT ![w].pc = "answered", ![w].answer = "ok",
                                        ![w].issued = [c EXCEPT !.n = c.n + 1]]
      <4> DEFINE d == [c EXCEPT !.n = c.n + 1]
      <4>1. d \in Cred
        BY <1>1, <2>1 DEF Cred
      <4>2. worker' = [worker EXCEPT ![w] =
                [worker[w] EXCEPT !.pc = "answered", !.answer = "ok", !.issued = d]]
        BY <3>2 DEF TypeOK
      <4> HIDE DEF d
      <4>3. [worker[w] EXCEPT !.pc = "answered", !.answer = "ok", !.issued = d] \in Call
        BY <1>1, <4>1 DEF Call, Phase, Answer
      <4>4. QED
        BY <4>2, <4>3 DEF TypeOK
    <3>3. QED
      BY <1>3, <3>1, <3>2 DEF Rotate
  <2>4. QED
    BY <1>3, <2>2, <2>3 DEF Rotate, TypeOK
<1>4. CASE RejectReplay(w)
  <2>1. worker' \in [Worker -> Call \cup {Nil}]
    BY <1>1, <1>4, ReplyTyped DEF RejectReplay, Answer
  <2>2. session' \in [Account -> [1..MaxSession -> Session]]
    <3>0. session[a][c.s] \in Session
      BY <1>1, <1>2 DEF TypeOK
    <3>1. [session[a][c.s] EXCEPT !.revoked = TRUE] \in Session
      BY <3>0 DEF Session
    <3>2. session' = [session EXCEPT ![a][c.s].revoked = TRUE]
      BY <1>4 DEF RejectReplay
    <3>3. QED
      BY <1>1, <1>2, <3>1, <3>2 DEF TypeOK
  <2>3. QED
    BY <1>4, <2>1, <2>2 DEF RejectReplay, TypeOK
<1>5. CASE Decline(w)
  <2>1. worker' \in [Worker -> Call \cup {Nil}]
    BY <1>1, <1>5, ReplyTyped DEF Decline, Answer
  <2>2. QED
    BY <1>5, <2>1 DEF Decline, TypeOK
<1>6. QED
  BY <1>3, <1>4, <1>5

\* The second half of a call: from the answer to the return.
LEMMA CompletionTyped ==
    ASSUME TypeOK, NEW w \in Worker, Fail(w) \/ Persist(w) \/ PersistFails(w)
    PROVE  TypeOK'
<1> DEFINE a == AccountOf(w)
<1>1. worker[w] \in Call /\ a \in Account
  BY AtIsCall DEF Fail, Persist, PersistFails
<1>2. state[a] \in RefreshState
  BY <1>1 DEF TypeOK
<1>3. /\ worker' \in [Worker -> Call \cup {Nil}]
      /\ mutex' \in [Account -> Worker \cup {Nil}]
  BY <1>1, ReturnTyped DEF Fail, Persist, PersistFails
<1>4. /\ \A d \in Nat, b \in BOOLEAN : RecordFailure(state[a], d, b) \in RefreshState
      /\ BackoffAfter(CountFailure(state[a])) \in Nat
  BY <1>2, RefreshStateTyped, FingerprintTyped, FirstCredTyped
<1>5. DeadBackoff \in Nat /\ SiteSpacing \in Nat /\ RetryAfter \subseteq Nat
  BY DelaysTyped
<1>6. CASE Fail(w)
  <2>1. PICK d \in Nat, b \in BOOLEAN, e \in Nat :
            /\ state' = [state EXCEPT ![a] = RecordFailure(state[a], d, b)]
            /\ FinishSite(w, e)
    BY <1>4, <1>5, <1>6 DEF Fail
  <2>2. state' \in [Account -> RefreshState]
    BY <1>4, <2>1 DEF TypeOK
  <2>3. site' \in [Scope -> SiteState]
    BY <2>1, FinishSiteTyped
  <2>4. QED
    BY <1>3, <1>6, <2>2, <2>3 DEF Fail, TypeOK
<1>7. CASE Persist(w)
  <2> DEFINE r == Refreshed(w)
  <2>1. r \in Row
    BY <1>1 DEF Refreshed, Call, Row
  <2>2. row' \in [Account -> Row]
    <3>1. \A st \in AccountStatus : [r EXCEPT !.status = st] \in Row
      BY <2>1 DEF Row
    <3>2. (IF r.status = "expired" THEN "active" ELSE row[a].status) \in AccountStatus
      BY <1>1 DEF TypeOK, Row, AccountStatus
    <3>3. QED
      BY <1>1, <1>7, <3>1, <3>2 DEF Persist, TypeOK
  <2>3. state' \in [Account -> RefreshState]
    <3>1. RecordSuccess(Fingerprint(r)) \in RefreshState
      BY <1>2, <2>1, FingerprintTyped, RefreshStateTyped
    <3>2. QED
      BY <1>7, <3>1 DEF Persist, TypeOK
  <2>4. site' \in [Scope -> SiteState]
    BY <1>5, <1>7, FinishSiteTyped DEF Persist
  <2>5. replaced' \in [Account -> SUBSET Cred]
    <3>1. row[a].token \in Cred
      BY <1>1 DEF TypeOK, Row
    <3>2. replaced' = [replaced EXCEPT ![a] = (replaced[a] \cup {row[a].token}) \ {r.token}]
      BY <1>1, <1>7 DEF Persist, TypeOK
    <3>3. (replaced[a] \cup {row[a].token}) \ {r.token} \in SUBSET Cred
      BY <1>1, <3>1 DEF TypeOK
    <3>4. QED
      BY <3>2, <3>3 DEF TypeOK
  <2>6. QED
    BY <1>3, <1>7, <2>2, <2>3, <2>4, <2>5 DEF Persist, TypeOK
<1>8. CASE PersistFails(w)
  <2>1. state' \in [Account -> RefreshState]
    <3>1. state' = [state EXCEPT ![a] = RecordFailure(state[a], DeadBackoff, TRUE)]
      BY <1>1, <1>8 DEF PersistFails, TypeOK
    <3>2. QED
      BY <1>4, <1>5, <3>1 DEF TypeOK
  <2>2. site' \in [Scope -> SiteState]
    BY <1>5, <1>8, FinishSiteTyped DEF PersistFails
  <2>3. QED
    BY <1>3, <1>8, <2>1, <2>2 DEF PersistFails, TypeOK
<1>9. QED
  BY <1>6, <1>7, <1>8

\* The other writers of the row.
LEMMA EditorTyped ==
    ASSUME TypeOK, NEW e \in Editor,
           \/ \E a \in Account, kind \in EditorKind : BeginEdit(e, a, kind)
           \/ \E a \in Account, s \in 1..MaxSession : BeginLogin(e, a, s)
           \/ EditorStep(e)
    PROVE  TypeOK'
<1>1. ASSUME NEW a \in Account, NEW kind \in EditorKind, BeginEdit(e, a, kind)
      PROVE  TypeOK'
  <2>1. row[a] \in Row
    BY DEF TypeOK
  <2>2. [kind |-> kind, account |-> a, cred |-> row[a].refresh,
         route |-> row[a].route] \in Edit
    BY <2>1 DEF Edit, Row
  <2>3. QED
    BY <1>1, <2>2 DEF BeginEdit, TypeOK
<1>2. ASSUME NEW a \in Account, NEW s \in 1..MaxSession, BeginLogin(e, a, s)
      PROVE  TypeOK'
  <2>1. row[a].route \in Route
    BY DEF TypeOK, Row
  <2>2. [kind |-> "login", account |-> a, cred |-> [s |-> s, n |-> 1],
         route |-> row[a].route] \in Edit
    BY <2>1, BoundsTyped DEF Edit, Cred
  <2>3. session' \in [Account -> [1..MaxSession -> Session]]
    <3>0. session[a][s] \in Session
      BY DEF TypeOK
    <3>1. [session[a][s] EXCEPT !.n = 1] \in Session
      BY BoundsTyped, <3>0 DEF Session
    <3>2. session' = [session EXCEPT ![a][s].n = 1]
      BY <1>2 DEF BeginLogin
    <3>3. QED
      BY <3>1, <3>2 DEF TypeOK
  <2>4. QED
    BY <1>2, <2>2, <2>3 DEF BeginLogin, TypeOK
<1>3. CASE EditorStep(e)
  <2> DEFINE a == editor[e].account
  <2>1. editor[e] \in Edit
    BY <1>3 DEF EditorStep, WriteHealth, WriteEdit, WriteLogin, TypeOK
  <2>2. /\ a \in Account /\ editor[e].cred \in Cred /\ editor[e].route \in Route
        /\ row[a] \in Row
    BY <2>1 DEF Edit, TypeOK
  <2>3. row' \in [Account -> Row]
    <3>1. CASE WriteHealth(e)
      <4>1. PICK st \in AccountStatus :
              row' = [row EXCEPT ![a].refresh = editor[e].cred,
                                 ![a].route = editor[e].route, ![a].status = st]
        BY <2>2, <3>1, KindsTyped DEF WriteHealth, Row
      <4>2. row' = [row EXCEPT ![a] = [row[a] EXCEPT !.refresh = editor[e].cred,
                                 !.route = editor[e].route, !.status = st]]
        BY <2>2, <4>1 DEF TypeOK
      <4>3. [row[a] EXCEPT !.refresh = editor[e].cred, !.route = editor[e].route,
                           !.status = st] \in Row
        BY <2>2 DEF Row
      <4>4. QED
        BY <4>2, <4>3 DEF TypeOK
    <3>2. CASE WriteEdit(e)
      <4>1. PICK rt \in Route, due \in BOOLEAN, token \in {row[a].token} \cup Issued(a),
                 refresh \in {editor[e].cred} \cup Issued(a) :
              row' = [row EXCEPT ![a] = [token |-> token, due |-> due, refresh |-> refresh,
                                         route |-> rt, status |-> row[a].status]]
        BY <3>2 DEF WriteEdit
      <4>2. token \in Cred /\ refresh \in Cred /\ row[a].status \in AccountStatus
        BY <2>2 DEF Issued, Row
      <4>3. [token |-> token, due |-> due, refresh |-> refresh,
             route |-> rt, status |-> row[a].status] \in Row
        BY <4>2 DEF Row
      <4>4. QED
        BY <4>1, <4>3 DEF TypeOK
    <3>3. CASE WriteLogin(e)
      <4>1. [token |-> editor[e].cred, due |-> FALSE, refresh |-> editor[e].cred,
             route |-> editor[e].route, status |-> "active"] \in Row
        BY <2>2 DEF Row, AccountStatus
      <4>2. QED
        BY <3>3, <4>1 DEF WriteLogin, TypeOK
    <3>4. QED
      BY <1>3, <3>1, <3>2, <3>3 DEF EditorStep
  <2>4. replaced' \in [Account -> SUBSET Cred]
    <3>1. ASSUME NEW token, PutsBack(a, token)
          PROVE  replaced' \in [Account -> SUBSET Cred]
      BY <2>2, <3>1 DEF PutsBack, TypeOK
    <3>2. QED
      BY <1>3, <3>1 DEF EditorStep, WriteHealth, WriteEdit, WriteLogin, TypeOK
  <2>5. QED
    BY <1>3, <2>3, <2>4 DEF EditorStep, WriteHealth, WriteEdit, WriteLogin, TypeOK
<1>4. QED
  BY <1>1, <1>2, <1>3

LEMMA EnvironmentTyped ==
    ASSUME TypeOK, (\E a \in Account : Environment(a)) \/ Tick \/ Restart
    PROVE  TypeOK'
<1>1. ASSUME NEW a \in Account, Environment(a)
      PROVE  TypeOK'
  <2>0. row[a] \in Row
    BY DEF TypeOK
  <2>1. ASSUME TokenAges(a) PROVE TypeOK'
    <3>1. [row[a] EXCEPT !.due = TRUE] \in Row
      BY <2>0 DEF Row
    <3>2. row' = [row EXCEPT ![a] = [row[a] EXCEPT !.due = TRUE]]
      BY <2>1 DEF TokenAges, TypeOK
    <3>3. QED
      BY <2>1, <3>1, <3>2 DEF TokenAges, TypeOK
  <2>2. ASSUME NEW st \in StatusSet, SetStatus(a, st) PROVE TypeOK'
    <3>1. [row[a] EXCEPT !.status = st] \in Row
      BY <2>0, KindsTyped DEF Row
    <3>2. row' = [row EXCEPT ![a] = [row[a] EXCEPT !.status = st]]
      BY <2>2 DEF SetStatus, TypeOK
    <3>3. QED
      BY <2>2, <3>1, <3>2 DEF SetStatus, TypeOK
  <2>3. ASSUME NEW s \in 1..MaxSession, UpstreamRevokes(a, s) PROVE TypeOK'
    <3>0. session[a][s] \in Session
      BY DEF TypeOK
    <3>1. [session[a][s] EXCEPT !.revoked = TRUE] \in Session
      BY <3>0 DEF Session
    <3>2. session' = [session EXCEPT ![a][s].revoked = TRUE]
      BY <2>3 DEF UpstreamRevokes
    <3>3. QED
      BY <2>3, <3>1, <3>2 DEF UpstreamRevokes, TypeOK
  <2>4. ASSUME NEW s \in 1..MaxSession, OpenSession(a, s) PROVE TypeOK'
    <3>0. session[a][s] \in Session
      BY DEF TypeOK
    <3>1. [session[a][s] EXCEPT !.n = 1] \in Session
      BY BoundsTyped, <3>0 DEF Session
    <3>2. session' = [session EXCEPT ![a][s].n = 1]
      BY <2>4 DEF OpenSession
    <3>3. QED
      BY <2>4, <3>1, <3>2 DEF OpenSession, TypeOK
  <2>5. QED
    BY <1>1, <2>1, <2>2, <2>3, <2>4 DEF Environment
<1>2. CASE Tick
  <2>1. ASSUME NEW a \in Account PROVE Elapse(state[a]) \in RefreshState
    <3>1. state[a] \in RefreshState
      BY DEF TypeOK
    <3>2. QED
      BY <3>1, RefreshStateTyped, FingerprintTyped, FirstCredTyped
  <2>2. ASSUME NEW c \in Scope PROVE Elapse(site[c]) \in SiteState
    <3>1. site[c] \in SiteState
      BY DEF TypeOK
    <3>2. QED
      BY <3>1 DEF Elapse, SiteState
  <2>3. QED
    BY <1>2, <2>1, <2>2 DEF Tick, TypeOK
<1>3. CASE Restart
  <2>1. FreshState \in RefreshState /\ FreshSite \in SiteState
    BY DelaysTyped DEF FreshState, RefreshState, FreshSite, SiteState
  <2>2. QED
    BY <1>3, <2>1 DEF Restart, TypeOK
<1>4. QED
  BY <1>1, <1>2, <1>3

\* The parts of a typed state the proofs below look at.
LEMMA PartsTyped ==
    ASSUME TypeOK
    PROVE  /\ \A a \in Account : /\ row[a] \in Row /\ row[a].refresh \in Cred
           /\ \A w \in Worker : worker[w] # Nil =>
                 /\ worker[w] \in Call /\ AccountOf(w) \in Account
                 /\ worker[w].latest \in Row /\ worker[w].latest.refresh \in Cred
                 /\ worker[w].issued \in Cred
           /\ \A e \in Editor : editor[e] # Nil =>
                 /\ editor[e].account \in Account /\ editor[e].cred \in Cred
           /\ \A a \in Account, s \in 1..MaxSession :
                 session[a][s] \in Session /\ session[a][s].n \in Nat
           /\ \A c \in Cred : /\ c.s \in 1..MaxSession /\ c.n \in Nat /\ c.n > 0
                              /\ c.n <= MaxGen
<1>1. \A c \in Cred : /\ c.s \in 1..MaxSession /\ c.n \in Nat /\ c.n > 0 /\ c.n <= MaxGen
  BY BoundsTyped DEF Cred
<1>2. \A a \in Account : row[a] \in Row /\ row[a].refresh \in Cred
  BY DEF TypeOK, Row
<1>3. ASSUME NEW w \in Worker, worker[w] # Nil
      PROVE  /\ worker[w] \in Call /\ AccountOf(w) \in Account
             /\ worker[w].latest \in Row /\ worker[w].latest.refresh \in Cred
             /\ worker[w].issued \in Cred
  <2>1. worker[w] \in Call
    BY <1>3 DEF TypeOK
  <2>2. QED
    BY <2>1 DEF Call, Row, AccountOf
<1>4. ASSUME NEW e \in Editor, editor[e] # Nil
      PROVE  editor[e].account \in Account /\ editor[e].cred \in Cred
  <2>1. editor[e] \in Edit
    BY <1>4 DEF TypeOK
  <2>2. QED
    BY <2>1 DEF Edit
<1>5. ASSUME NEW a \in Account, NEW s \in 1..MaxSession
      PROVE  session[a][s] \in Session /\ session[a][s].n \in Nat
  <2>1. session[a][s] \in Session
    BY DEF TypeOK
  <2>2. QED
    BY <2>1, BoundsTyped DEF Session
<1>6. QED
  BY <1>1, <1>2, <1>3, <1>4, <1>5

LEMMA StepTyped == TypeOK /\ [Next]_vars => TypeOK'
<1> SUFFICES ASSUME TypeOK, [Next]_vars PROVE TypeOK'
  OBVIOUS
<1>1. CASE UNCHANGED vars
  BY <1>1 DEF vars, TypeOK
<1>2. CASE \E w \in Worker, a \in Account, force \in BOOLEAN : CallRefresh(w, a, force)
  BY <1>2, CallTyped
<1>3. CASE \E w \in Worker : WorkerStep(w)
  BY <1>3, CallTyped, UpstreamTyped, CompletionTyped DEF WorkerStep, Proceed
<1>4. CASE \/ \E e \in Editor, a \in Account :
                \/ \E kind \in EditorKind : BeginEdit(e, a, kind)
                \/ \E s \in 1..MaxSession : BeginLogin(e, a, s)
           \/ \E e \in Editor : EditorStep(e)
  BY <1>4, EditorTyped
<1>5. CASE (\E a \in Account : Environment(a)) \/ Tick \/ Restart
  BY <1>5, EnvironmentTyped
<1>6. QED
  BY <1>1, <1>2, <1>3, <1>4, <1>5 DEF Next

\* Every variable keeps its type, whatever faults and writers there are.
THEOREM TypeCorrect == Spec => []TypeOK
  BY InitTyped, StepTyped, PTL DEF Spec

USE NilFresh

-----------------------------------------------------------------------------
(* What the steps do to a worker and to the mutex.                           *)

\* The call in hand of w is replaced by x; no other worker moves.
Becomes(w, x) == worker' = [worker EXCEPT ![w] = x]

\* An answer by which w is left inside without a new credential.
LEMMA AnsweredInside ==
    ASSUME TypeOK, NEW w \in Worker, worker[w] \in Call,
           \E r \in Answer : Reply(w, r) /\ r # "ok"
    PROVE  \E x \in Call :
              /\ Becomes(w, x)
              /\ x.account = worker[w].account /\ x.force = worker[w].force
              /\ x.seen = worker[w].seen /\ x.latest = worker[w].latest
              /\ x.pc = "answered" /\ x.answer # "ok"
<1>1. PICK r \in Answer : Reply(w, r) /\ r # "ok"
  OBVIOUS
<1> DEFINE x == [worker[w] EXCEPT !.pc = "answered", !.answer = r]
<1>2. x \in Call
  BY DEF Call, Phase
<1>3. Becomes(w, x)
  BY <1>1 DEF Reply, Becomes, TypeOK
<1>4. /\ x.account = worker[w].account /\ x.force = worker[w].force
      /\ x.seen = worker[w].seen /\ x.latest = worker[w].latest
      /\ x.pc = "answered" /\ x.answer = r
  BY DEF Call
<1> HIDE DEF x
<1>5. QED
  BY <1>1, <1>2, <1>3, <1>4

\* A step that leaves w inside keeps the account, the route and the row read.
LEMMA StaysInside ==
    ASSUME TypeOK, NEW w \in Worker,
           Send(w) \/ Rotate(w) \/ RejectReplay(w) \/ Decline(w)
    PROVE  /\ Inside(w) /\ worker[w] \in Call
           /\ UNCHANGED mutex
           /\ \E x \in Call :
                /\ Becomes(w, x)
                /\ x.account = worker[w].account /\ x.force = worker[w].force
                /\ x.seen = worker[w].seen /\ x.latest = worker[w].latest
                /\ x.pc = IF Send(w) THEN "sent" ELSE "answered"
                /\ Rotate(w) \/ Send(w) \/ x.answer # "ok"
<1>1. worker[w] \in Call /\ Inside(w)
  BY AtIsCall DEF Send, WantsRequest, Rotate, RejectReplay, Decline, Inside, At
<1>2. UNCHANGED mutex
  BY DEF Send, Rotate, RejectReplay, Decline
<1>3. CASE Send(w)
  <2> DEFINE x == [worker[w] EXCEPT !.pc = "sent"]
  <2>1. x \in Call
    BY <1>1 DEF Call, Phase
  <2>2. Becomes(w, x)
    BY <1>3 DEF Send, Becomes, TypeOK
  <2>3. /\ x.account = worker[w].account /\ x.force = worker[w].force
        /\ x.seen = worker[w].seen /\ x.latest = worker[w].latest /\ x.pc = "sent"
    BY <1>1 DEF Call
  <2> HIDE DEF x
  <2>4. QED
    BY <1>1, <1>2, <1>3, <2>1, <2>2, <2>3
<1>4. CASE Rotate(w)
  <2> DEFINE c == worker[w].latest.refresh
             i == [c EXCEPT !.n = c.n + 1]
             x == [worker[w] EXCEPT !.pc = "answered", !.answer = "ok", !.issued = i]
  <2>1. ~Send(w)
    BY <1>4 DEF Send, Rotate, WantsRequest, At
  <2>2. CASE Reply(w, "dead") \/ Reply(w, "throttled") \/ Reply(w, "retry")
    <3>1. \E r \in Answer : Reply(w, r) /\ r # "ok"
      BY <2>2 DEF Answer
    <3>2. QED
      BY <1>1, <1>2, <2>1, <3>1, AnsweredInside
  <2>3. CASE worker' = [worker EXCEPT ![w].pc = "answered", ![w].answer = "ok",
                                      ![w].issued = i]
    <3>1. i \in Cred
      <4>1. c \in Cred /\ c.n < MaxGen /\ MaxGen \in Nat
        BY <1>1, <1>4, BoundsTyped DEF Call, Row, Rotate
      <4>2. c.n + 1 \in 1..MaxGen
        BY <4>1 DEF Cred
      <4>3. QED
        BY <4>1, <4>2 DEF Cred
    <3>2. Becomes(w, x)
      BY <2>3 DEF Becomes, TypeOK
    <3> HIDE DEF i
    <3>3. x \in Call
      BY <1>1, <3>1 DEF Call, Phase, Answer
    <3>4. /\ x.account = worker[w].account /\ x.force = worker[w].force
          /\ x.seen = worker[w].seen /\ x.latest = worker[w].latest
          /\ x.pc = "answered"
      BY <1>1 DEF Call
    <3> HIDE DEF x
    <3>5. QED
      BY <1>1, <1>2, <1>4, <2>1, <3>2, <3>3, <3>4
  <2>4. QED
    BY <1>4, <2>2, <2>3 DEF Rotate
<1>5. CASE RejectReplay(w) \/ Decline(w)
  <2>1. ~Send(w)
    BY <1>5 DEF Send, RejectReplay, Decline, WantsRequest, At
  <2>2. \E r \in Answer : Reply(w, r) /\ r # "ok"
    BY <1>5 DEF RejectReplay, Decline, Answer
  <2>3. QED
    BY <1>1, <1>2, <2>1, <2>2, AnsweredInside
<1>6. QED
  BY <1>3, <1>4, <1>5

\* The paths on which refreshManagedSession returns with the mutex unlocked.
LEMMA Returns ==
    ASSUME TypeOK, NEW w \in Worker,
           \/ HandOff(w) \/ Throttled(w) \/ NotDue(w) \/ SiteBusy(w)
           \/ Fail(w) \/ Persist(w) \/ PersistFails(w)
    PROVE  Inside(w) /\ worker[w] \in Call /\ Return(w) /\ Becomes(w, Nil)
<1>1. Inside(w) /\ worker[w] \in Call
  BY AtIsCall DEF HandOff, Throttled, NotDue, SiteBusy, WantsRequest, Fail, Persist,
                  PersistFails, Inside, At
<1>2. Return(w)
  BY DEF HandOff, Throttled, NotDue, SiteBusy, Fail, Persist, PersistFails
<1>3. QED
  BY <1>1, <1>2 DEF Return, Becomes

\* Every other step leaves the workers and the mutex alone, but for a call
\* that begins or fails on its read, the lock, and a restart.
LEMMA OtherSteps ==
    ASSUME TypeOK, [Next]_vars,
           ~ \E w \in Worker :
               \/ Send(w) \/ Rotate(w) \/ RejectReplay(w) \/ Decline(w)
               \/ HandOff(w) \/ Throttled(w) \/ NotDue(w) \/ SiteBusy(w)
               \/ Fail(w) \/ Persist(w) \/ PersistFails(w)
    PROVE  \/ \E w \in Worker, a \in Account, force \in BOOLEAN : CallRefresh(w, a, force)
           \/ \E w \in Worker : Acquire(w) \/ AcquireFails(w)
           \/ Restart
           \/ UNCHANGED <<worker, mutex>>
  BY DEF Next, vars, WorkerStep, Proceed, EditorStep, Environment, BeginEdit, BeginLogin, WriteHealth,
         WriteEdit, WriteLogin, TokenAges, SetStatus, UpstreamRevokes, OpenSession, Tick

-----------------------------------------------------------------------------
(* One worker at a time is inside refreshManagedSession for an account.      *)

LEMMA InitSerial == Init => Serial
  BY DEF Init, Serial, Inside

LEMMA StepSerial == TypeOK /\ Serial /\ [Next]_vars => Serial'
<1> SUFFICES ASSUME TypeOK, Serial, [Next]_vars, NEW v \in Worker, Inside(v)'
             PROVE  mutex'[AccountOf(v)'] = v
  BY DEF Serial
<1>1. ASSUME NEW w \in Worker,
             Send(w) \/ Rotate(w) \/ RejectReplay(w) \/ Decline(w)
      PROVE  mutex'[AccountOf(v)'] = v
  <2>1. PICK x \in Call : Becomes(w, x) /\ x.account = worker[w].account
    BY <1>1, StaysInside
  <2>2. Inside(v) /\ AccountOf(v)' = AccountOf(v)
    BY <1>1, <2>1, StaysInside DEF Becomes, Inside, AccountOf, TypeOK
  <2>3. QED
    BY <1>1, <2>2, StaysInside DEF Serial
<1>2. ASSUME NEW w \in Worker,
             \/ HandOff(w) \/ Throttled(w) \/ NotDue(w) \/ SiteBusy(w)
             \/ Fail(w) \/ Persist(w) \/ PersistFails(w)
      PROVE  mutex'[AccountOf(v)'] = v
  <2>1. Becomes(w, Nil) /\ Inside(w) /\ Return(w)
    BY <1>2, Returns
  <2>2. v # w /\ Inside(v) /\ AccountOf(v)' = AccountOf(v)
    BY <2>1 DEF Becomes, Inside, AccountOf, TypeOK
  <2>3. mutex[AccountOf(v)] = v /\ mutex[AccountOf(w)] = w
    BY <2>1, <2>2 DEF Serial
  <2>4. QED
    BY <2>1, <2>2, <2>3 DEF Return, TypeOK
<1>3. ASSUME NEW w \in Worker, NEW a \in Account, NEW force \in BOOLEAN,
             CallRefresh(w, a, force)
      PROVE  mutex'[AccountOf(v)'] = v
  <2>1. v # w
    BY <1>3 DEF CallRefresh, Inside, TypeOK
  <2>2. Inside(v) /\ AccountOf(v)' = AccountOf(v) /\ UNCHANGED mutex
    BY <1>3, <2>1 DEF CallRefresh, Inside, AccountOf, TypeOK
  <2>3. QED
    BY <2>2 DEF Serial
<1>4. ASSUME NEW w \in Worker, Acquire(w)
      PROVE  mutex'[AccountOf(v)'] = v
  <2>1. worker[w] \in Call /\ AccountOf(w) \in Account
    BY <1>4, AtIsCall DEF Acquire
  <2>2. AccountOf(v)' = AccountOf(v)
    BY <1>4, <2>1 DEF Acquire, AccountOf, TypeOK, Call
  <2>3. CASE v = w
    BY <1>4, <2>1, <2>2, <2>3 DEF Acquire, TypeOK
  <2>4. CASE v # w
    <3>1. mutex[AccountOf(v)] = v
      BY <1>4, <2>4 DEF Acquire, Inside, Serial, TypeOK
    <3>2. AccountOf(v) # AccountOf(w)
      BY <1>4, <3>1 DEF Acquire, MutexFree
    <3>3. QED
      BY <1>4, <2>2, <3>1, <3>2 DEF Acquire, TypeOK
  <2>5. QED
    BY <2>3, <2>4
<1>5. ASSUME NEW w \in Worker, AcquireFails(w)
      PROVE  mutex'[AccountOf(v)'] = v
  BY <1>5 DEF AcquireFails, Serial, Inside, AccountOf, TypeOK
<1>6. CASE Restart
  BY <1>6 DEF Restart, Inside
<1>7. CASE UNCHANGED <<worker, mutex>>
  BY <1>7 DEF Serial, Inside, AccountOf
<1>8. QED
  BY <1>1, <1>2, <1>3, <1>4, <1>5, <1>6, <1>7, OtherSteps

\* At most one goroutine is between the lock and the return for an account,
\* whatever is lost and whenever the process restarts.
THEOREM Serialised == Spec => []Serial
<1>1. Init => TypeOK /\ Serial
  BY InitTyped, InitSerial
<1>2. TypeOK /\ Serial /\ [Next]_vars => (TypeOK /\ Serial)'
  BY StepTyped, StepSerial
<1>3. QED
  BY <1>1, <1>2, PTL DEF Spec

-----------------------------------------------------------------------------
(* The site slot.                                                            *)

\* A step that neither starts nor ends a request.
LEMMA SlotKept ==
    ASSUME SiteSlotExact,
           \A v \in Worker : /\ InFlight(v)' <=> InFlight(v)
                             /\ InFlight(v) => ScopeUsed(v)' = ScopeUsed(v),
           \A c \in Scope : site'[c].inFlight = site[c].inFlight
    PROVE  SiteSlotExact'
  BY DEF SiteSlotExact

LEMMA InitSlot == Init => SiteSlotExact
  BY DEF Init, SiteSlotExact, InFlight, At, FreshSite

LEMMA StepSlot == TypeOK /\ SiteSlotExact /\ [Next]_vars => SiteSlotExact'
<1> SUFFICES ASSUME TypeOK, SiteSlotExact, [Next]_vars PROVE SiteSlotExact'
  OBVIOUS
<1>1. ASSUME NEW w \in Worker, Send(w)
      PROVE  SiteSlotExact'
  <2> DEFINE s == ScopeUsed(w)
  <2>1. At(w, "locked") /\ s \in Scope
    BY <1>1, AtIsCall DEF Send, WantsRequest
  <2>2. ~InFlight(w)
    BY <2>1 DEF InFlight, At
  <2>3. PICK x \in Call : /\ Becomes(w, x) /\ x.pc = "sent"
                          /\ x.account = worker[w].account /\ x.seen = worker[w].seen
    BY <1>1, StaysInside
  <2>4. InFlight(w)' /\ ScopeUsed(w)' = s
    BY <2>3 DEF Becomes, InFlight, At, ScopeUsed, TypeOK
  <2>5. \A v \in Worker \ {w} : /\ InFlight(v)' <=> InFlight(v)
                                /\ ScopeUsed(v)' = ScopeUsed(v)
    BY <2>3 DEF Becomes, InFlight, At, ScopeUsed, TypeOK
  <2>6. \A v \in Worker : ~(InFlight(v) /\ ScopeUsed(v) = s)
    BY <1>1, <2>1 DEF Send, SiteFree, SiteSlotExact
  <2>7. \A c \in Scope : site'[c].inFlight = IF c = s THEN TRUE ELSE site[c].inFlight
    BY <1>1, <2>1 DEF Send, TypeOK, SiteState
  <2>8. SUFFICES ASSUME NEW c \in Scope
                 PROVE  /\ site'[c].inFlight <=> \E v \in Worker : InFlight(v)' /\ ScopeUsed(v)' = c
                        /\ \A u, v \in Worker :
                             InFlight(u)' /\ ScopeUsed(u)' = c /\ InFlight(v)' /\ ScopeUsed(v)' = c
                                => u = v
    BY DEF SiteSlotExact
  <2>9. CASE c = s
    BY <2>4, <2>5, <2>6, <2>7, <2>9
  <2>10. CASE c # s
    <3>1. /\ site[c].inFlight <=> \E v \in Worker : InFlight(v) /\ ScopeUsed(v) = c
          /\ \A u, v \in Worker :
               InFlight(u) /\ ScopeUsed(u) = c /\ InFlight(v) /\ ScopeUsed(v) = c => u = v
      BY DEF SiteSlotExact
    <3>2. QED
      BY <2>2, <2>4, <2>5, <2>7, <2>10, <3>1
  <2>11. QED
    BY <2>9, <2>10
<1>2. ASSUME NEW w \in Worker, Rotate(w) \/ RejectReplay(w) \/ Decline(w)
      PROVE  SiteSlotExact'
  <2>1. ~Send(w) /\ InFlight(w)
    BY <1>2 DEF Send, WantsRequest, Rotate, RejectReplay, Decline, At, InFlight
  <2>2. PICK x \in Call : /\ Becomes(w, x) /\ x.pc = "answered"
                          /\ x.account = worker[w].account /\ x.seen = worker[w].seen
    BY <1>2, <2>1, StaysInside
  <2>3. \A v \in Worker : /\ InFlight(v)' <=> InFlight(v)
                          /\ ScopeUsed(v)' = ScopeUsed(v)
    BY <2>1, <2>2 DEF Becomes, InFlight, At, ScopeUsed, TypeOK
  <2>4. UNCHANGED site
    BY <1>2 DEF Rotate, RejectReplay, Decline
  <2>5. QED
    BY <2>3, <2>4, SlotKept
<1>3. ASSUME NEW w \in Worker, HandOff(w) \/ Throttled(w) \/ NotDue(w) \/ SiteBusy(w)
      PROVE  SiteSlotExact'
  <2>1. ~InFlight(w) /\ UNCHANGED site
    BY <1>3 DEF HandOff, Throttled, NotDue, SiteBusy, WantsRequest, At, InFlight
  <2>2. Becomes(w, Nil)
    BY <1>3, Returns
  <2>3. \A v \in Worker : /\ InFlight(v)' <=> InFlight(v)
                          /\ InFlight(v) => ScopeUsed(v)' = ScopeUsed(v)
    BY <2>1, <2>2 DEF Becomes, InFlight, At, ScopeUsed, TypeOK
  <2>4. QED
    BY <2>1, <2>3, SlotKept
<1>4. ASSUME NEW w \in Worker, Fail(w) \/ Persist(w) \/ PersistFails(w)
      PROVE  SiteSlotExact'
  <2> DEFINE s == ScopeUsed(w)
  <2>1. At(w, "answered") /\ s \in Scope
    BY <1>4, AtIsCall DEF Fail, Persist, PersistFails
  <2>2. InFlight(w)
    BY <2>1 DEF InFlight
  <2>3. Becomes(w, Nil)
    BY <1>4, Returns
  <2>4. ~InFlight(w)'
    BY <2>3 DEF Becomes, InFlight, At, TypeOK
  <2>5. \A v \in Worker \ {w} : /\ InFlight(v)' <=> InFlight(v)
                                /\ ScopeUsed(v)' = ScopeUsed(v)
    BY <2>3 DEF Becomes, InFlight, At, ScopeUsed, TypeOK
  <2>6. \A v \in Worker : InFlight(v) /\ ScopeUsed(v) = s => v = w
    BY <2>1, <2>2 DEF SiteSlotExact
  <2>7. \E d : FinishSite(w, d)
    BY <1>4 DEF Fail, Persist, PersistFails
  <2>8. \A c \in Scope : site'[c].inFlight = IF c = s THEN FALSE ELSE site[c].inFlight
    BY <2>1, <2>7 DEF FinishSite, TypeOK, SiteState
  <2>9. SUFFICES ASSUME NEW c \in Scope
                 PROVE  /\ site'[c].inFlight <=> \E v \in Worker : InFlight(v)' /\ ScopeUsed(v)' = c
                        /\ \A u, v \in Worker :
                             InFlight(u)' /\ ScopeUsed(u)' = c /\ InFlight(v)' /\ ScopeUsed(v)' = c
                                => u = v
    BY DEF SiteSlotExact
  <2>10. CASE c = s
    BY <2>4, <2>5, <2>6, <2>8, <2>10
  <2>11. CASE c # s
    <3>1. /\ site[c].inFlight <=> \E v \in Worker : InFlight(v) /\ ScopeUsed(v) = c
          /\ \A u, v \in Worker :
               InFlight(u) /\ ScopeUsed(u) = c /\ InFlight(v) /\ ScopeUsed(v) = c => u = v
      BY DEF SiteSlotExact
    <3>2. QED
      BY <2>4, <2>5, <2>8, <2>11, <3>1
  <2>12. QED
    BY <2>10, <2>11
<1>5. ASSUME NEW w \in Worker,
             \/ \E a \in Account, force \in BOOLEAN : CallRefresh(w, a, force)
             \/ Acquire(w) \/ AcquireFails(w)
      PROVE  SiteSlotExact'
  <2>1. ~InFlight(w) /\ UNCHANGED site
    BY <1>5 DEF CallRefresh, Acquire, AcquireFails, At, InFlight
  <2>2. ~InFlight(w)'
    <3>1. CASE Acquire(w)
      <4>1. worker[w] \in Call /\ worker'[w] = [worker[w] EXCEPT !.pc = "locked",
                                                  !.latest = row[AccountOf(w)]]
        BY <3>1, AtIsCall DEF Acquire, TypeOK
      <4>2. worker'[w].pc = "locked"
        BY <4>1 DEF Call
      <4>3. QED
        BY <4>2 DEF InFlight, At
    <3>2. CASE AcquireFails(w)
      BY <3>2 DEF AcquireFails, InFlight, At, TypeOK
    <3>3. CASE \E a \in Account, force \in BOOLEAN : CallRefresh(w, a, force)
      BY <3>3 DEF CallRefresh, InFlight, At, TypeOK
    <3>4. QED
      BY <1>5, <3>1, <3>2, <3>3
  <2>3. \A v \in Worker \ {w} : worker'[v] = worker[v]
    BY <1>5 DEF CallRefresh, Acquire, AcquireFails, TypeOK
  <2>4. \A v \in Worker : /\ InFlight(v)' <=> InFlight(v)
                          /\ InFlight(v) => ScopeUsed(v)' = ScopeUsed(v)
    BY <2>1, <2>2, <2>3 DEF InFlight, At, ScopeUsed
  <2>5. QED
    BY <2>1, <2>4, SlotKept
<1>6. CASE Restart
  BY <1>6 DEF Restart, SiteSlotExact, InFlight, At, FreshSite
<1>7. CASE UNCHANGED worker /\ \A c \in Scope : site'[c].inFlight = site[c].inFlight
  BY <1>7, SlotKept DEF InFlight, At, ScopeUsed
<1>8. CASE Tick
  <2>1. \A c \in Scope : Elapse(site[c]).inFlight = site[c].inFlight
    BY DEF Elapse, TypeOK, SiteState
  <2>2. QED
    BY <1>7, <1>8, <2>1 DEF Tick
<1>9. CASE \/ UNCHANGED vars
           \/ \E e \in Editor, a \in Account :
                \/ \E kind \in EditorKind : BeginEdit(e, a, kind)
                \/ \E s \in 1..MaxSession : BeginLogin(e, a, s)
           \/ \E e \in Editor : EditorStep(e)
           \/ \E a \in Account : Environment(a)
  <2>1. UNCHANGED <<worker, site>>
    BY <1>9 DEF vars, BeginEdit, BeginLogin, EditorStep, WriteHealth, WriteEdit, WriteLogin,
                Environment, TokenAges, SetStatus, UpstreamRevokes, OpenSession
  <2>2. QED
    BY <1>7, <2>1
<1>10. QED
  BY <1>1, <1>2, <1>3, <1>4, <1>5, <1>6, <1>8, <1>9 DEF Next, WorkerStep, Proceed

\* The slot of a rate-limit scope is taken exactly while one request of that
\* scope is in flight, whatever is lost and whenever the process restarts:
\* no return path of refreshManagedSession leaks it.
THEOREM SlotExact == Spec => []SiteSlotExact
<1>1. Init => TypeOK /\ SiteSlotExact
  BY InitTyped, InitSlot
<1>2. TypeOK /\ SiteSlotExact /\ [Next]_vars => (TypeOK /\ SiteSlotExact)'
  BY StepTyped, StepSlot
<1>3. QED
  BY <1>1, <1>2, PTL DEF Spec

-----------------------------------------------------------------------------
(* Which credential is where.                                                *)

HIDE NilFresh

\* No answer, no write and no process is lost, and besides refreshes only
\* logins and status changes write the row.
NothingLost == /\ Faults \cap {"store", "answer", "restart"} = {}
               /\ EditorOps \subseteq {"login"}

\* Answers and writes may be lost, but the process keeps running.
KeepsMemory == "restart" \notin Faults /\ EditorOps \subseteq {"login"}

Numbers == [a \in Account |-> [s \in 1..MaxSession |-> session[a][s].n]]
Reading(w) == At(w, "locked") \/ At(w, "sent")

\* What is left of OneHolder when answers and writes are lost.
CarriedIssued ==
    /\ \A a \in Account : row[a].refresh.n <= session[a][row[a].refresh.s].n
    /\ \A w \in Worker :
          /\ Inside(w) => worker[w].latest.refresh.n <=
                            session[AccountOf(w)][worker[w].latest.refresh.s].n
          /\ Rotated(w) => /\ Current(AccountOf(w), worker[w].issued)
                           /\ worker[w].issued.s = worker[w].latest.refresh.s

\* Two workers are never inside for the same account.
LEMMA AloneInside ==
    ASSUME Serial, NEW v \in Worker, NEW w \in Worker, Inside(v), Inside(w), v # w
    PROVE  AccountOf(v) # AccountOf(w)
  BY DEF Serial

\* A session is issued its k-th credential.
Issue(a, s, k) == session' = [session EXCEPT ![a][s].n = k]

LEMMA NumberSet ==
    ASSUME TypeOK, NEW a \in Account, NEW s \in 1..MaxSession, NEW k, Issue(a, s, k)
    PROVE  \A b \in Account, t \in 1..MaxSession :
              session'[b][t].n = IF b = a /\ t = s THEN k ELSE session[b][t].n
<1>1. session'[a][s] = [session[a][s] EXCEPT !.n = k] /\ session[a][s] \in Session
  BY DEF TypeOK, Issue
<1>2. session'[a][s].n = k
  BY <1>1 DEF Session
<1>3. \A b \in Account, t \in 1..MaxSession :
         ~(b = a /\ t = s) => session'[b][t] = session[b][t]
  BY DEF TypeOK, Issue
<1>4. QED
  BY <1>2, <1>3

\* A step that issues, stores and reads no credential: at most it ends a call
\* that had none to store.
Quiet ==
    /\ Numbers' = Numbers
    /\ UNCHANGED editor
    /\ \A a \in Account : row'[a].refresh = row[a].refresh
    /\ \A w \in Worker :
          /\ Inside(w)' => /\ Inside(w) /\ AccountOf(w)' = AccountOf(w)
                           /\ worker'[w].latest = worker[w].latest
          /\ Reading(w)' => Reading(w)
          /\ Rotated(w)' <=> Rotated(w)
          /\ Rotated(w) => /\ AccountOf(w)' = AccountOf(w)
                           /\ worker'[w].issued = worker[w].issued

\* A step that moves one worker, and leaves rows and session numbers alone.
LEMMA QuietWorker ==
    ASSUME TypeOK, NEW w \in Worker, NEW x, Becomes(w, x),
           UNCHANGED <<row, editor>>, Numbers' = Numbers, ~Rotated(w),
           \/ x = Nil
           \/ x.pc = "called"
           \/ /\ Inside(w) /\ x # Nil
              /\ x.account = worker[w].account /\ x.latest = worker[w].latest
              /\ \/ x.pc = "sent" /\ At(w, "locked")
                 \/ x.pc = "answered" /\ x.answer # "ok"
    PROVE  Quiet
<1>1. worker'[w] = x /\ \A v \in Worker \ {w} : worker'[v] = worker[v]
  BY DEF Becomes, TypeOK
<1>2. \A v \in Worker :
         /\ Inside(v)' => /\ Inside(v) /\ AccountOf(v)' = AccountOf(v)
                          /\ worker'[v].latest = worker[v].latest
         /\ Reading(v)' => Reading(v)
         /\ Rotated(v)' <=> Rotated(v)
         /\ Rotated(v) => /\ AccountOf(v)' = AccountOf(v)
                          /\ worker'[v].issued = worker[v].issued
  <2> SUFFICES ASSUME NEW v \in Worker
               PROVE  /\ Inside(v)' => /\ Inside(v) /\ AccountOf(v)' = AccountOf(v)
                                       /\ worker'[v].latest = worker[v].latest
                      /\ Reading(v)' => Reading(v)
                      /\ Rotated(v)' <=> Rotated(v)
                      /\ Rotated(v) => /\ AccountOf(v)' = AccountOf(v)
                                       /\ worker'[v].issued = worker[v].issued
    OBVIOUS
  <2>1. CASE v = w
    BY <1>1, <2>1 DEF Inside, AccountOf, Reading, Rotated, At
  <2>2. CASE v # w
    BY <1>1, <2>2 DEF Inside, AccountOf, Reading, Rotated, At
  <2>3. QED
    BY <2>1, <2>2
<1>3. QED
  BY <1>2 DEF Quiet

\* A step of the environment: the workers do not move.
LEMMA QuietEnvironment ==
    ASSUME UNCHANGED <<worker, editor>>, Numbers' = Numbers,
           \A a \in Account : row'[a].refresh = row[a].refresh
    PROVE  Quiet
<1>1. \A v \in Worker :
         /\ Inside(v)' = Inside(v) /\ AccountOf(v)' = AccountOf(v)
         /\ Reading(v)' = Reading(v) /\ Rotated(v)' = Rotated(v)
         /\ worker'[v].latest = worker[v].latest /\ worker'[v].issued = worker[v].issued
  BY DEF Inside, AccountOf, Reading, Rotated, At
<1>2. QED
  BY <1>1 DEF Quiet

LEMMA RevokedNumbers ==
    ASSUME TypeOK, NEW a \in Account, NEW s \in 1..MaxSession,
           session' = [session EXCEPT ![a][s].revoked = TRUE]
    PROVE  Numbers' = Numbers
<1>1. session'[a][s] = [session[a][s] EXCEPT !.revoked = TRUE]
  BY DEF TypeOK
<1>2. session'[a][s].n = session[a][s].n
  BY <1>1, PartsTyped DEF Session
<1>3. \A b \in Account, t \in 1..MaxSession : session'[b][t].n = session[b][t].n
  BY <1>2 DEF TypeOK
<1>4. QED
  BY <1>3 DEF Numbers

\* The steps that are not quiet.
LEMMA StepKinds ==
    ASSUME KeepsMemory, TypeOK, LoginApart, [Next]_vars
    PROVE  \/ Quiet
           \/ \E w \in Worker : Acquire(w) \/ Rotate(w) \/ Persist(w) \/ PersistFails(w)
           \/ \E e \in Editor, a \in Account, s \in 1..MaxSession : BeginLogin(e, a, s)
           \/ \E e \in Editor : WriteLogin(e)
<1>1. ASSUME NEW w \in Worker, NEW a \in Account, NEW force \in BOOLEAN,
             CallRefresh(w, a, force)
      PROVE  Quiet
  <2> DEFINE x == [pc |-> "called", account |-> a, force |-> force,
                   seen |-> [token |-> row[a].token, route |-> row[a].route],
                   latest |-> BlankRow, answer |-> "none", issued |-> FirstCred]
  <2>1. Becomes(w, x) /\ UNCHANGED <<row, session, editor>> /\ ~Rotated(w)
    BY <1>1 DEF CallRefresh, Becomes, Rotated, At
  <2>2. x.pc = "called"
    OBVIOUS
  <2>3. Numbers' = Numbers
    BY <2>1 DEF Numbers
  <2> HIDE DEF x
  <2>4. QED
    BY <2>1, <2>2, <2>3, QuietWorker
<1>2. ASSUME NEW w \in Worker, Send(w) \/ RejectReplay(w) \/ Decline(w)
      PROVE  Quiet
  <2>1. ~Rotated(w) /\ UNCHANGED <<row, editor>> /\ worker[w] # Nil
    BY <1>2 DEF Send, WantsRequest, RejectReplay, Decline, Rotated, At
  <2>2. Inside(w) /\ worker[w] \in Call
    BY <1>2, StaysInside
  <2>3. PICK x \in Call :
           /\ Becomes(w, x) /\ x.account = worker[w].account /\ x.latest = worker[w].latest
           /\ \/ x.pc = "sent" /\ At(w, "locked")
              \/ x.pc = "answered" /\ x.answer # "ok"
    <3>1. CASE Send(w)
      <4>1. At(w, "locked")
        BY <3>1 DEF Send, WantsRequest
      <4>2. QED
        BY <3>1, <4>1, StaysInside
    <3>2. CASE RejectReplay(w) \/ Decline(w)
      <4>1. \E r \in Answer : Reply(w, r) /\ r # "ok"
        BY <3>2 DEF RejectReplay, Decline, Answer
      <4>2. QED
        BY <2>2, <4>1, AnsweredInside
    <3>3. QED
      BY <1>2, <3>1, <3>2
  <2>4. Numbers' = Numbers
    <3>1. CASE UNCHANGED session
      BY <3>1 DEF Numbers
    <3>2. CASE RejectReplay(w)
      <4>1. AccountOf(w) \in Account /\ worker[w].latest.refresh \in Cred
        BY <2>1, PartsTyped
      <4>2. worker[w].latest.refresh.s \in 1..MaxSession
        BY <4>1, PartsTyped
      <4>3. session' = [session EXCEPT ![AccountOf(w)][worker[w].latest.refresh.s].revoked = TRUE]
        BY <3>2 DEF RejectReplay
      <4>4. QED
        BY <4>1, <4>2, <4>3, RevokedNumbers
    <3>3. QED
      BY <1>2, <3>1, <3>2 DEF Send, Decline
  <2>5. x # Nil
    BY NilFresh
  <2>6. QED
    BY <2>1, <2>2, <2>3, <2>4, <2>5, QuietWorker
<1>3. ASSUME NEW w \in Worker,
             HandOff(w) \/ Throttled(w) \/ NotDue(w) \/ SiteBusy(w) \/ Fail(w) \/ AcquireFails(w)
      PROVE  Quiet
  <2>1. UNCHANGED <<row, session, editor>> /\ ~Rotated(w)
    BY <1>3 DEF HandOff, Throttled, NotDue, SiteBusy, WantsRequest, Fail, AcquireFails, Rotated, At
  <2>2. Becomes(w, Nil)
    BY <1>3, Returns DEF AcquireFails, Becomes
  <2>3. Numbers' = Numbers
    BY <2>1 DEF Numbers
  <2>4. QED
    BY <2>1, <2>2, <2>3, QuietWorker
<1>4. \A e \in Editor, a \in Account, kind \in EditorKind : ~BeginEdit(e, a, kind)
  BY DEF BeginEdit, KeepsMemory
<1>5. \A e \in Editor : ~WriteHealth(e) /\ ~WriteEdit(e)
  BY DEF WriteHealth, WriteEdit, LoginApart
<1>6. ASSUME NEW a \in Account, Environment(a)
      PROVE  Quiet
  <2>0. \A s : ~OpenSession(a, s)
    BY DEF OpenSession, KeepsMemory
  <2>1. UNCHANGED <<worker, editor>>
    BY <1>6 DEF Environment, TokenAges, SetStatus, UpstreamRevokes, OpenSession
  <2>2. \A b \in Account : row'[b].refresh = row[b].refresh
    <3>1. CASE UNCHANGED row
      BY <3>1
    <3>2. CASE TokenAges(a) \/ \E st \in StatusSet : SetStatus(a, st)
      <4>1. PICK st : \/ row'[a] = [row[a] EXCEPT !.due = TRUE]
                      \/ row'[a] = [row[a] EXCEPT !.status = st]
        BY <3>2 DEF TokenAges, SetStatus, TypeOK
      <4>2. row'[a].refresh = row[a].refresh
        BY <4>1, PartsTyped DEF Row
      <4>3. \A b \in Account \ {a} : row'[b] = row[b]
        BY <3>2 DEF TokenAges, SetStatus, TypeOK
      <4>4. QED
        BY <4>2, <4>3
    <3>3. QED
      BY <1>6, <2>0, <3>1, <3>2 DEF Environment, UpstreamRevokes
  <2>3. Numbers' = Numbers
    <3>1. CASE UNCHANGED session
      BY <3>1 DEF Numbers
    <3>2. CASE \E s \in 1..MaxSession : UpstreamRevokes(a, s)
      BY <3>2, RevokedNumbers DEF UpstreamRevokes
    <3>3. QED
      BY <1>6, <2>0, <3>1, <3>2 DEF Environment, TokenAges, SetStatus
  <2>4. QED
    BY <2>1, <2>2, <2>3, QuietEnvironment
<1>7. CASE Tick \/ UNCHANGED vars
  <2>1. UNCHANGED <<row, session, worker, editor>>
    BY <1>7 DEF Tick, vars
  <2>2. Numbers' = Numbers
    BY <2>1 DEF Numbers
  <2>3. QED
    BY <2>1, <2>2, QuietEnvironment
<1>8. ~Restart
  BY DEF Restart, KeepsMemory
<1>9. QED
  BY <1>1, <1>2, <1>3, <1>4, <1>5, <1>6, <1>7, <1>8, Zenon DEF Next, WorkerStep, Proceed, EditorStep

\* A step that issues and stores no credential; a call may lose the one it got.
Still ==
    /\ Numbers' = Numbers
    /\ UNCHANGED editor
    /\ \A a \in Account : row'[a].refresh = row[a].refresh
    /\ \A w \in Worker :
          /\ Inside(w)' => /\ Inside(w) /\ AccountOf(w)' = AccountOf(w)
                           /\ worker'[w].latest = worker[w].latest
          /\ Rotated(w)' => Rotated(w) /\ worker'[w].issued = worker[w].issued

LEMMA StillIssued ==
    ASSUME TypeOK, TypeOK', CarriedIssued, LoginApart, Still
    PROVE  (CarriedIssued /\ LoginApart)'
<1> USE DEF Still
<1>1. \A a \in Account, s \in 1..MaxSession : session'[a][s].n = session[a][s].n
  BY DEF Numbers
<1>2. \A w \in Worker : /\ Inside(w) => worker[w] # Nil
                        /\ Rotated(w)' => Inside(w)'
  BY DEF Inside, Rotated, At
<1>3. \A a \in Account : row'[a].refresh.n <= session'[a][row'[a].refresh.s].n
  BY <1>1, PartsTyped DEF CarriedIssued
<1>4. ASSUME NEW w \in Worker, Inside(w)'
      PROVE  /\ worker'[w].latest.refresh.n <=
                    session'[AccountOf(w)'][worker'[w].latest.refresh.s].n
             /\ Rotated(w)' => /\ Current(AccountOf(w), worker[w].issued)'
                               /\ worker'[w].issued.s = worker'[w].latest.refresh.s
  <2>1. Inside(w) /\ worker[w] # Nil
    BY <1>2, <1>4
  <2>2. /\ AccountOf(w)' = AccountOf(w) /\ AccountOf(w) \in Account
        /\ worker'[w].latest = worker[w].latest
        /\ worker[w].latest.refresh.s \in 1..MaxSession
        /\ worker[w].issued.s \in 1..MaxSession
    BY <1>4, <2>1, PartsTyped
  <2>3. /\ session'[AccountOf(w)][worker[w].latest.refresh.s].n =
              session[AccountOf(w)][worker[w].latest.refresh.s].n
        /\ session'[AccountOf(w)][worker[w].issued.s].n =
              session[AccountOf(w)][worker[w].issued.s].n
    BY <1>1, <2>2
  <2>4. /\ worker[w].latest.refresh.n <=
              session[AccountOf(w)][worker[w].latest.refresh.s].n
        /\ Rotated(w) => /\ Current(AccountOf(w), worker[w].issued)
                         /\ worker[w].issued.s = worker[w].latest.refresh.s
    BY <2>1 DEF CarriedIssued
  <2>5. QED
    BY <2>2, <2>3, <2>4 DEF Current
<1>5. CarriedIssued'
  BY <1>2, <1>3, <1>4 DEF CarriedIssued
<1>6. LoginApart'
  <2> SUFFICES ASSUME NEW e \in Editor, editor[e] # Nil
               PROVE  LET a == editor[e].account
                          c == editor[e].cred
                      IN /\ editor[e].kind = "login"
                         /\ Current(a, c)'
                         /\ row'[a].refresh.s # c.s
                         /\ \A w \in Worker : Inside(w)' /\ AccountOf(w)' = a =>
                               worker'[w].latest.refresh.s # c.s
                         /\ \A d \in Editor \ {e} :
                               editor[d] # Nil /\ editor[d].account = a => editor[d].cred.s # c.s
    BY DEF LoginApart
  <2> DEFINE a == editor[e].account
             c == editor[e].cred
  <2>1. /\ editor[e].kind = "login" /\ Current(a, c) /\ row[a].refresh.s # c.s
        /\ \A w \in Worker : Inside(w) /\ AccountOf(w) = a => worker[w].latest.refresh.s # c.s
        /\ \A d \in Editor \ {e} :
              editor[d] # Nil /\ editor[d].account = a => editor[d].cred.s # c.s
    BY DEF LoginApart
  <2>2. a \in Account /\ c.s \in 1..MaxSession
    BY PartsTyped
  <2>3. Current(a, c)'
    BY <1>1, <2>1, <2>2 DEF Current
  <2>4. row'[a].refresh.s # c.s
    BY <2>1, <2>2
  <2>5. \A w \in Worker : Inside(w)' /\ AccountOf(w)' = a => worker'[w].latest.refresh.s # c.s
    BY <2>1
  <2>6. QED
    BY <2>1, <2>3, <2>4, <2>5
<1>7. QED
  BY <1>5, <1>6

\* The row is read: the call carries what the row holds.
LEMMA AcquireIssued ==
    ASSUME TypeOK, CarriedIssued, LoginApart, NEW w \in Worker, Acquire(w)
    PROVE  (CarriedIssued /\ LoginApart)'
<1> DEFINE a == AccountOf(w)
<1>1. a \in Account /\ worker[w] \in Call
  BY AtIsCall DEF Acquire
<1>2. UNCHANGED <<row, session, editor>>
  BY DEF Acquire
<1>3. \A v \in Worker \ {w} : worker'[v] = worker[v]
  BY DEF Acquire, TypeOK
<1>4. worker'[w] = [worker[w] EXCEPT !.pc = "locked", !.latest = row[a]]
  BY DEF Acquire, TypeOK
<1>5. worker'[w].pc = "locked" /\ worker'[w].latest = row[a] /\ AccountOf(w)' = a
  BY <1>1, <1>4 DEF Call, AccountOf
<1>6. ~Rotated(w)'
  BY <1>5 DEF Rotated, At
<1>7. CarriedIssued'
  <2> SUFFICES ASSUME NEW v \in Worker
               PROVE  /\ Inside(v)' => worker'[v].latest.refresh.n <=
                            session'[AccountOf(v)'][worker'[v].latest.refresh.s].n
                      /\ Rotated(v)' => /\ Current(AccountOf(v), worker[v].issued)'
                                        /\ worker'[v].issued.s = worker'[v].latest.refresh.s
    BY <1>2 DEF CarriedIssued
  <2>1. CASE v = w
    BY <1>1, <1>2, <1>5, <1>6, <2>1 DEF CarriedIssued
  <2>2. CASE v # w
    BY <1>2, <1>3, <2>2 DEF CarriedIssued, Current, Inside, At, Rotated, AccountOf
  <2>3. QED
    BY <2>1, <2>2
<1>8. LoginApart'
  <2> SUFFICES ASSUME NEW e \in Editor, editor[e] # Nil, NEW v \in Worker, Inside(v)',
                      AccountOf(v)' = editor[e].account
               PROVE  worker'[v].latest.refresh.s # editor[e].cred.s
    BY <1>2 DEF LoginApart, Current
  <2>1. CASE v = w
    BY <1>5, <2>1 DEF LoginApart
  <2>2. CASE v # w
    BY <1>3, <2>2 DEF LoginApart, Inside, AccountOf
  <2>3. QED
    BY <2>1, <2>2
<1>9. QED
  BY <1>7, <1>8

\* An exchange upstream, whether its answer arrives or not.
LEMMA RotateDoes ==
    ASSUME TypeOK, NEW w \in Worker, Rotate(w)
    PROVE  LET a == AccountOf(w)
               c == worker[w].latest.refresh
           IN /\ a \in Account /\ worker[w].latest \in Row /\ c \in Cred /\ Inside(w)
              /\ UNCHANGED <<row, state, editor>>
              /\ session[a][c.s].n = c.n
              /\ \A b \in Account, t \in 1..MaxSession :
                    session'[b][t].n = IF b = a /\ t = c.s THEN c.n + 1 ELSE session[b][t].n
              /\ At(w, "answered")' /\ AccountOf(w)' = a
              /\ worker'[w].latest = worker[w].latest
              /\ Rotated(w)' => worker'[w].issued.s = c.s /\ worker'[w].issued.n = c.n + 1
              /\ \A v \in Worker \ {w} : worker'[v] = worker[v]
<1> DEFINE a == AccountOf(w)
           c == worker[w].latest.refresh
           d == [c EXCEPT !.n = c.n + 1]
<1>1. /\ Inside(w) /\ worker[w] \in Call /\ a \in Account
      /\ worker[w].latest \in Row /\ c \in Cred /\ c.s \in 1..MaxSession
  <2>1. Inside(w) /\ worker[w] # Nil
    BY DEF Rotate, At, Inside
  <2>2. QED
    BY <2>1, PartsTyped
<1>2. UNCHANGED <<row, state, editor>> /\ session[a][c.s].n = c.n /\ Issue(a, c.s, c.n + 1)
  BY DEF Rotate, Live, Current, Issue
<1>3. \A b \in Account, t \in 1..MaxSession :
         session'[b][t].n = IF b = a /\ t = c.s THEN c.n + 1 ELSE session[b][t].n
  BY <1>1, <1>2, NumberSet
<1>4. ~Send(w)
  BY DEF Send, Rotate, WantsRequest, At
<1>5. PICK x \in Call : /\ Becomes(w, x) /\ x.account = worker[w].account
                        /\ x.latest = worker[w].latest /\ x.pc = "answered"
  BY <1>4, StaysInside
<1>6. worker'[w] = x /\ worker'[w] # Nil /\ \A v \in Worker \ {w} : worker'[v] = worker[v]
  BY <1>5, NilFresh DEF Becomes, TypeOK
<1>7. ASSUME Rotated(w)'
      PROVE  worker'[w].issued.s = c.s /\ worker'[w].issued.n = c.n + 1
  <2>1. CASE Reply(w, "dead") \/ Reply(w, "throttled") \/ Reply(w, "retry")
    <3>1. worker'[w].answer # "ok"
      BY <1>1, <2>1 DEF Reply, TypeOK, Call
    <3>2. QED
      BY <1>7, <3>1 DEF Rotated
  <2>2. CASE worker' = [worker EXCEPT ![w].pc = "answered", ![w].answer = "ok",
                                      ![w].issued = d]
    <3>1. d.s = c.s /\ d.n = c.n + 1
      BY <1>1 DEF Cred
    <3> HIDE DEF d
    <3>2. worker'[w] = [worker[w] EXCEPT !.pc = "answered", !.answer = "ok", !.issued = d]
      BY <2>2 DEF TypeOK
    <3>3. worker'[w].issued = d
      BY <1>1, <3>2 DEF Call
    <3>4. QED
      BY <3>1, <3>3
  <2>3. QED
    BY <2>1, <2>2 DEF Rotate
<1>8. At(w, "answered")' /\ AccountOf(w)' = a /\ worker'[w].latest = worker[w].latest
  BY <1>5, <1>6 DEF At, AccountOf
<1>9. QED
  BY <1>1, <1>2, <1>3, <1>6, <1>7, <1>8

LEMMA RotateIssued ==
    ASSUME TypeOK, Serial, CarriedIssued, LoginApart, NEW w \in Worker, Rotate(w)
    PROVE  (CarriedIssued /\ LoginApart)'
<1> DEFINE a == AccountOf(w)
           c == worker[w].latest.refresh
<1>1. /\ a \in Account /\ c \in Cred /\ c.s \in 1..MaxSession /\ c.n \in Nat /\ Inside(w)
      /\ UNCHANGED <<row, editor>> /\ session[a][c.s].n = c.n
      /\ At(w, "answered")' /\ AccountOf(w)' = a /\ worker'[w].latest = worker[w].latest
      /\ Rotated(w)' => worker'[w].issued.s = c.s /\ worker'[w].issued.n = c.n + 1
      /\ \A v \in Worker \ {w} : worker'[v] = worker[v]
  BY RotateDoes, PartsTyped
<1>2. \A b \in Account, t \in 1..MaxSession :
         session'[b][t].n = IF b = a /\ t = c.s THEN c.n + 1 ELSE session[b][t].n
  BY RotateDoes
<1> HIDE DEF a, c
<1>3. ASSUME NEW b \in Account, NEW d \in Cred, d.n <= session[b][d.s].n
      PROVE  d.n <= session'[b][d.s].n
  <2>1. d.s \in 1..MaxSession /\ d.n \in Nat
    BY PartsTyped
  <2>2. QED
    BY <1>1, <1>2, <1>3, <2>1
<1>4. \A v \in Worker \ {w} : Inside(v) => AccountOf(v) # a
  BY <1>1, AloneInside DEF a
<1>5. \A b \in Account : row'[b].refresh.n <= session'[b][row'[b].refresh.s].n
  BY <1>1, <1>3, PartsTyped DEF CarriedIssued
<1>6. ASSUME NEW v \in Worker, Inside(v)'
      PROVE  /\ worker'[v].latest.refresh.n <=
                    session'[AccountOf(v)'][worker'[v].latest.refresh.s].n
             /\ Rotated(v)' => /\ Current(AccountOf(v), worker[v].issued)'
                               /\ worker'[v].issued.s = worker'[v].latest.refresh.s
  <2>1. CASE v = w
    <3>1. c.n <= session'[a][c.s].n /\ session'[a][c.s].n = c.n + 1
      BY <1>1, <1>2
    <3>2. QED
      BY <1>1, <2>1, <3>1 DEF Current, c
  <2>2. CASE v # w
    <3>1. /\ worker'[v] = worker[v] /\ Inside(v) /\ worker[v] # Nil
          /\ AccountOf(v)' = AccountOf(v)
      BY <1>1, <1>6, <2>2 DEF Inside, AccountOf
    <3>2. /\ AccountOf(v) \in Account /\ AccountOf(v) # a
          /\ worker[v].latest.refresh \in Cred /\ worker[v].issued.s \in 1..MaxSession
      BY <1>4, <2>2, <3>1, PartsTyped
    <3>3. worker[v].latest.refresh.n <= session'[AccountOf(v)][worker[v].latest.refresh.s].n
      BY <1>3, <3>1, <3>2 DEF CarriedIssued
    <3>4. session'[AccountOf(v)][worker[v].issued.s].n = session[AccountOf(v)][worker[v].issued.s].n
      BY <1>2, <3>2
    <3>5. Rotated(v)' => Rotated(v)
      BY <3>1 DEF Rotated, At
    <3>6. QED
      BY <3>1, <3>3, <3>4, <3>5 DEF CarriedIssued, Current
  <2>3. QED
    BY <2>1, <2>2
<1>7. CarriedIssued'
  BY <1>5, <1>6 DEF CarriedIssued, Rotated, Inside, At
<1>8. LoginApart'
  <2> SUFFICES ASSUME NEW e \in Editor, editor[e] # Nil
               PROVE  /\ Current(editor[e].account, editor[e].cred)'
                      /\ \A v \in Worker : Inside(v)' /\ AccountOf(v)' = editor[e].account =>
                            worker'[v].latest.refresh.s # editor[e].cred.s
    BY <1>1 DEF LoginApart
  <2>1. /\ Current(editor[e].account, editor[e].cred)
        /\ \A v \in Worker : Inside(v) /\ AccountOf(v) = editor[e].account =>
              worker[v].latest.refresh.s # editor[e].cred.s
    BY DEF LoginApart
  <2>2. editor[e].account \in Account /\ editor[e].cred.s \in 1..MaxSession
    BY PartsTyped
  <2>3. editor[e].account # a \/ editor[e].cred.s # c.s
    BY <1>1, <2>1 DEF a, c
  <2>4. Current(editor[e].account, editor[e].cred)'
    <3>1. session'[editor[e].account][editor[e].cred.s].n =
              session[editor[e].account][editor[e].cred.s].n
      BY <1>2, <2>2, <2>3
    <3>2. QED
      BY <1>1, <2>1, <3>1 DEF Current
  <2>5. ASSUME NEW v \in Worker, Inside(v)', AccountOf(v)' = editor[e].account
        PROVE  worker'[v].latest.refresh.s # editor[e].cred.s
    <3>1. CASE v = w
      BY <1>1, <2>1, <2>5, <3>1 DEF a
    <3>2. CASE v # w
      BY <1>1, <2>1, <2>5, <3>2 DEF Inside, AccountOf
    <3>3. QED
      BY <3>1, <3>2
  <2>6. QED
    BY <2>4, <2>5
<1>9. QED
  BY <1>7, <1>8

\* What the write of the rotated credential does.
LEMMA PersistDoes ==
    ASSUME TypeOK, NEW w \in Worker, Persist(w)
    PROVE  LET a == AccountOf(w)
               i == worker[w].issued
           IN /\ a \in Account /\ i \in Cred /\ Rotated(w) /\ Inside(w)
              /\ UNCHANGED <<session, editor>>
              /\ row'[a].refresh = i /\ Fingerprint(row'[a]) = Fingerprint(Refreshed(w))
              /\ \A b \in Account \ {a} : row'[b] = row[b]
              /\ worker'[w] = Nil
              /\ \A v \in Worker \ {w} : worker'[v] = worker[v]
<1> DEFINE a == AccountOf(w)
           i == worker[w].issued
           r == Refreshed(w)
<1>1. Rotated(w) /\ Inside(w) /\ worker[w] # Nil
  BY DEF Persist, At, Rotated, Inside
<1>2. a \in Account /\ i \in Cred /\ worker[w].latest \in Row
  BY <1>1, PartsTyped
<1>3. r \in Row /\ r.refresh = i
  BY <1>2 DEF Refreshed, Row
<1>4. worker'[w] = Nil /\ \A v \in Worker \ {w} : worker'[v] = worker[v]
  BY DEF Persist, Return, TypeOK
<1>5. PICK st : row' = [row EXCEPT ![a] = [r EXCEPT !.status = st]]
  BY DEF Persist
<1> HIDE DEF r
<1>6. row'[a] = [r EXCEPT !.status = st] /\ \A b \in Account \ {a} : row'[b] = row[b]
  BY <1>2, <1>5 DEF TypeOK
<1>7. row'[a].refresh = i /\ Fingerprint(row'[a]) = Fingerprint(r)
  BY <1>3, <1>6 DEF Row, Fingerprint
<1>8. UNCHANGED <<session, editor>>
  BY DEF Persist
<1>9. QED
  BY <1>1, <1>2, <1>4, <1>6, <1>7, <1>8 DEF r

LEMMA PersistIssued ==
    ASSUME TypeOK, CarriedIssued, LoginApart, NEW w \in Worker, Persist(w)
    PROVE  (CarriedIssued /\ LoginApart)'
<1> DEFINE a == AccountOf(w)
           i == worker[w].issued
<1>1. /\ a \in Account /\ i \in Cred /\ Rotated(w) /\ Inside(w)
      /\ UNCHANGED <<session, editor>> /\ row'[a].refresh = i
      /\ \A b \in Account \ {a} : row'[b] = row[b]
      /\ worker'[w] = Nil /\ \A v \in Worker \ {w} : worker'[v] = worker[v]
  BY PersistDoes
<1>2. Current(a, i) /\ i.s = worker[w].latest.refresh.s /\ i.n \in Nat
  BY <1>1, PartsTyped DEF CarriedIssued
<1>3. ASSUME NEW b \in Account
      PROVE  row'[b].refresh.n <= session'[b][row'[b].refresh.s].n
  BY <1>1, <1>2 DEF CarriedIssued, Current
<1>4. CarriedIssued'
  BY <1>1, <1>3 DEF CarriedIssued, Current, Inside, At, Rotated, AccountOf
<1>5. LoginApart'
  <2> SUFFICES ASSUME NEW e \in Editor, editor[e] # Nil
               PROVE  /\ row'[editor[e].account].refresh.s # editor[e].cred.s
                      /\ \A v \in Worker : Inside(v)' /\ AccountOf(v)' = editor[e].account =>
                            worker'[v].latest.refresh.s # editor[e].cred.s
    BY <1>1 DEF LoginApart, Current
  <2>1. /\ row[editor[e].account].refresh.s # editor[e].cred.s
        /\ \A v \in Worker : Inside(v) /\ AccountOf(v) = editor[e].account =>
              worker[v].latest.refresh.s # editor[e].cred.s
    BY DEF LoginApart
  <2>2. editor[e].account \in Account
    BY PartsTyped
  <2>3. row'[editor[e].account].refresh.s # editor[e].cred.s
    BY <1>1, <1>2, <2>1, <2>2
  <2>4. \A v \in Worker : Inside(v)' /\ AccountOf(v)' = editor[e].account =>
                            worker'[v].latest.refresh.s # editor[e].cred.s
    BY <1>1, <2>1 DEF Inside, AccountOf
  <2>5. QED
    BY <2>3, <2>4
<1>6. QED
  BY <1>4, <1>5

\* What a login does upstream before it writes: nobody holds a credential of
\* the new session.
LEMMA BeginLoginDoes ==
    ASSUME TypeOK, CarriedIssued, LoginApart, NEW e \in Editor, NEW a \in Account,
           NEW s \in 1..MaxSession, BeginLogin(e, a, s)
    PROVE  /\ UNCHANGED <<row, worker, state>> /\ editor[e] = Nil
           /\ \A b \in Account, t \in 1..MaxSession :
                 session'[b][t].n = IF b = a /\ t = s THEN 1 ELSE session[b][t].n
           /\ row[a].refresh.s # s
           /\ \A v \in Worker : Inside(v) /\ AccountOf(v) = a => worker[v].latest.refresh.s # s
           /\ \A d \in Editor : editor[d] # Nil /\ editor[d].account = a => editor[d].cred.s # s
<1>1. UNCHANGED <<row, worker, state>> /\ session[a][s].n = 0 /\ editor[e] = Nil
      /\ Issue(a, s, 1)
  BY DEF BeginLogin, Issue
<1>2. ASSUME NEW c \in Cred, c.n <= session[a][c.s].n
      PROVE  c.s # s
  <2>1. c.n \in Nat /\ c.n > 0 /\ c.s \in 1..MaxSession
    BY PartsTyped
  <2>2. QED
    BY <1>1, <1>2, <2>1
<1>3. row[a].refresh.s # s
  BY <1>2, PartsTyped DEF CarriedIssued
<1>4. ASSUME NEW v \in Worker, Inside(v), AccountOf(v) = a
      PROVE  worker[v].latest.refresh.s # s
  <2>1. worker[v] # Nil
    BY <1>4 DEF Inside
  <2>2. QED
    BY <1>2, <1>4, <2>1, PartsTyped DEF CarriedIssued
<1>5. ASSUME NEW d \in Editor, editor[d] # Nil, editor[d].account = a
      PROVE  editor[d].cred.s # s
  <2>1. editor[d].cred \in Cred /\ session[a][editor[d].cred.s].n = editor[d].cred.n
    BY <1>5, PartsTyped DEF LoginApart, Current
  <2>2. editor[d].cred.n \in Nat
    BY <2>1, PartsTyped
  <2>3. QED
    BY <1>2, <2>1, <2>2
<1>6. QED
  BY <1>1, <1>3, <1>4, <1>5, NumberSet

LEMMA BeginLoginIssued ==
    ASSUME TypeOK, CarriedIssued, LoginApart, NEW e \in Editor, NEW a \in Account,
           NEW s \in 1..MaxSession, BeginLogin(e, a, s)
    PROVE  (CarriedIssued /\ LoginApart)'
<1>1. /\ UNCHANGED <<row, worker>> /\ editor[e] = Nil
      /\ row[a].refresh.s # s
      /\ \A v \in Worker : Inside(v) /\ AccountOf(v) = a => worker[v].latest.refresh.s # s
      /\ \A d \in Editor : editor[d] # Nil /\ editor[d].account = a => editor[d].cred.s # s
  BY BeginLoginDoes
<1>2. \A b \in Account, t \in 1..MaxSession :
         session'[b][t].n = IF b = a /\ t = s THEN 1 ELSE session[b][t].n
  BY BeginLoginDoes
<1>3. /\ editor'[e].kind = "login" /\ editor'[e].account = a
      /\ editor'[e].cred.s = s /\ editor'[e].cred.n = 1
      /\ \A d \in Editor \ {e} : editor'[d] = editor[d]
  BY DEF BeginLogin, TypeOK
<1>4. \A b \in Account : row'[b].refresh.n <= session'[b][row'[b].refresh.s].n
  BY <1>1, <1>2, PartsTyped DEF CarriedIssued
<1>5. ASSUME NEW v \in Worker, Inside(v)
      PROVE  /\ worker[v].latest.refresh.n <=
                    session'[AccountOf(v)][worker[v].latest.refresh.s].n
             /\ Rotated(v) =>
                   /\ session'[AccountOf(v)][worker[v].issued.s].n = worker[v].issued.n
                   /\ worker[v].issued.s = worker[v].latest.refresh.s
  <2>1. AccountOf(v) \in Account /\ worker[v].latest.refresh.s \in 1..MaxSession
    BY <1>5, PartsTyped DEF Inside
  <2>2. session'[AccountOf(v)][worker[v].latest.refresh.s].n =
            session[AccountOf(v)][worker[v].latest.refresh.s].n
    BY <1>1, <1>2, <1>5, <2>1
  <2>3. QED
    BY <1>5, <2>2 DEF CarriedIssued, Current
<1>6. CarriedIssued'
  <2>1. \A v \in Worker : Rotated(v) => Inside(v)
    BY DEF Rotated, Inside, At
  <2>2. QED
    BY <1>1, <1>4, <1>5, <2>1 DEF CarriedIssued, Current, Inside, At, Rotated, AccountOf
<1>7. LoginApart'
  <2> SUFFICES ASSUME NEW d \in Editor, editor'[d] # Nil
               PROVE  /\ editor'[d].kind = "login"
                      /\ session'[editor'[d].account][editor'[d].cred.s].n = editor'[d].cred.n
                      /\ row[editor'[d].account].refresh.s # editor'[d].cred.s
                      /\ \A v \in Worker : Inside(v) /\ AccountOf(v) = editor'[d].account =>
                            worker[v].latest.refresh.s # editor'[d].cred.s
                      /\ \A f \in Editor \ {d} :
                            editor'[f] # Nil /\ editor'[f].account = editor'[d].account =>
                               editor'[f].cred.s # editor'[d].cred.s
    BY <1>1 DEF LoginApart, Current, Inside, AccountOf
  <2>1. CASE d = e
    BY <1>1, <1>2, <1>3, <2>1
  <2>2. CASE d # e
    <3>1. editor'[d] = editor[d]
      BY <1>3, <2>2
    <3>2. editor[d].account \in Account /\ editor[d].cred.s \in 1..MaxSession
      BY <3>1, PartsTyped
    <3>3. editor[d].account # a \/ editor[d].cred.s # s
      BY <1>1, <3>1
    <3>4. session'[editor[d].account][editor[d].cred.s].n =
              session[editor[d].account][editor[d].cred.s].n
      BY <1>2, <3>2, <3>3
    <3>5. \A f \in Editor \ {d} :
             editor'[f] # Nil /\ editor'[f].account = editor[d].account =>
                editor'[f].cred.s # editor[d].cred.s
      BY <1>3, <3>1, <3>3 DEF LoginApart
    <3>6. /\ editor[d].kind = "login" /\ Current(editor[d].account, editor[d].cred)
          /\ row[editor[d].account].refresh.s # editor[d].cred.s
          /\ \A v \in Worker : Inside(v) /\ AccountOf(v) = editor[d].account =>
                worker[v].latest.refresh.s # editor[d].cred.s
      BY <2>2, <3>1 DEF LoginApart
    <3>7. session'[editor[d].account][editor[d].cred.s].n = editor[d].cred.n
      BY <3>4, <3>6 DEF Current
    <3>8. QED
      BY <3>1, <3>5, <3>6, <3>7
  <2>3. QED
    BY <2>1, <2>2
<1>8. QED
  BY <1>6, <1>7

LEMMA WriteLoginIssued ==
    ASSUME TypeOK, CarriedIssued, LoginApart, NEW e \in Editor, WriteLogin(e)
    PROVE  (CarriedIssued /\ LoginApart)'
<1> DEFINE a == editor[e].account
           c == editor[e].cred
<1>1. UNCHANGED <<session, worker>> /\ editor[e] # Nil
  BY DEF WriteLogin
<1>2. a \in Account /\ c \in Cred /\ c.n \in Nat
  BY <1>1, PartsTyped
<1>3. row'[a].refresh = c /\ \A b \in Account \ {a} : row'[b] = row[b]
  BY <1>2 DEF WriteLogin, TypeOK
<1>4. editor'[e] = Nil /\ \A d \in Editor \ {e} : editor'[d] = editor[d]
  BY DEF WriteLogin, TypeOK
<1>5. Current(a, c)
  BY <1>1 DEF LoginApart
<1>6. \A b \in Account : row'[b].refresh.n <= session'[b][row'[b].refresh.s].n
  BY <1>1, <1>2, <1>3, <1>5 DEF CarriedIssued, Current
<1>7. CarriedIssued'
  BY <1>1, <1>6 DEF CarriedIssued, Current, Inside, At, Rotated, AccountOf
<1>8. LoginApart'
  <2> SUFFICES ASSUME NEW d \in Editor, editor'[d] # Nil
               PROVE  /\ editor'[d].kind = "login"
                      /\ session[editor'[d].account][editor'[d].cred.s].n = editor'[d].cred.n
                      /\ row'[editor'[d].account].refresh.s # editor'[d].cred.s
                      /\ \A v \in Worker : Inside(v) /\ AccountOf(v) = editor'[d].account =>
                            worker[v].latest.refresh.s # editor'[d].cred.s
                      /\ \A f \in Editor \ {d} :
                            editor'[f] # Nil /\ editor'[f].account = editor'[d].account =>
                               editor'[f].cred.s # editor'[d].cred.s
    BY <1>1 DEF LoginApart, Current, Inside, AccountOf
  <2>1. d # e /\ editor'[d] = editor[d]
    BY <1>4
  <2>2. row'[editor[d].account].refresh.s # editor[d].cred.s
    <3>1. CASE editor[d].account = a
      BY <1>1, <1>3, <2>1, <3>1 DEF LoginApart
    <3>2. CASE editor[d].account # a
      BY <1>3, <2>1, <3>2, PartsTyped DEF LoginApart
    <3>3. QED
      BY <3>1, <3>2
  <2>3. \A f \in Editor \ {d} :
           editor'[f] # Nil /\ editor'[f].account = editor[d].account =>
              editor'[f].cred.s # editor[d].cred.s
    BY <1>4, <2>1 DEF LoginApart
  <2>4. QED
    BY <2>1, <2>2, <2>3 DEF LoginApart, Current
<1>9. QED
  BY <1>7, <1>8

\* Both writes failed: the call ends, and what it was issued with it.
LEMMA PersistFailsStill ==
    ASSUME TypeOK, NEW w \in Worker, PersistFails(w)
    PROVE  Still
<1>1. worker'[w] = Nil /\ \A v \in Worker \ {w} : worker'[v] = worker[v]
  BY DEF PersistFails, Return, TypeOK
<1>2. UNCHANGED <<row, session, editor>>
  BY DEF PersistFails
<1>3. \A v \in Worker :
          /\ Inside(v)' => /\ Inside(v) /\ AccountOf(v)' = AccountOf(v)
                           /\ worker'[v].latest = worker[v].latest
          /\ Rotated(v)' => Rotated(v) /\ worker'[v].issued = worker[v].issued
  BY <1>1 DEF Inside, Rotated, At, AccountOf
<1>4. QED
  BY <1>2, <1>3 DEF Still, Numbers

LEMMA StepIssued ==
    ASSUME KeepsMemory, TypeOK, TypeOK', Serial, CarriedIssued, LoginApart, [Next]_vars
    PROVE  (CarriedIssued /\ LoginApart)'
<1>1. Quiet => Still
  BY DEF Quiet, Still
<1>2. QED
  BY <1>1, StepKinds, StillIssued, AcquireIssued, RotateIssued, PersistIssued,
     PersistFailsStill, BeginLoginIssued, WriteLoginIssued

-----------------------------------------------------------------------------
(* While nothing is lost, one holder per account.                            *)

\* What OneHolder says beyond Serial, CarriedIssued and LoginApart.
RowCurrent ==
    \A a \in Account :
        \/ Current(a, row[a].refresh)
        \/ \E w \in Worker : Rotated(w) /\ AccountOf(w) = a
ReadCurrent ==
    \A w \in Worker : Reading(w) => Current(AccountOf(w), worker[w].latest.refresh)

LEMMA HolderParts ==
    OneHolder <=> Serial /\ CarriedIssued /\ LoginApart /\ RowCurrent /\ ReadCurrent
  BY DEF OneHolder, RowIssued, CarriedCurrent, CarriedIssued, RowCurrent, ReadCurrent, Reading

LEMMA HolderPartsNext ==
    OneHolder' <=> (Serial /\ CarriedIssued /\ LoginApart /\ RowCurrent /\ ReadCurrent)'
<1>1. (OneHolder <=> Serial /\ CarriedIssued /\ LoginApart /\ RowCurrent /\ ReadCurrent)'
  BY HolderParts, PTL
<1>2. QED
  BY <1>1

LEMMA InitOneHolder == Init => OneHolder
<1> SUFFICES ASSUME Init PROVE OneHolder
  OBVIOUS
<1>1. Serial /\ TypeOK /\ LoginApart
  BY InitSerial, InitTyped DEF Init, LoginApart
<1>2. \A w \in Worker : \A p : ~Inside(w) /\ ~At(w, p) /\ ~Rotated(w)
  BY DEF Init, Inside, At, Rotated
<1>3. ASSUME NEW a \in Account
      PROVE  row[a].refresh.n = 1 /\ session[a][row[a].refresh.s].n = 1
  <2>1. row[a].refresh = FirstCred /\ session[a][1].n = 1
    BY BoundsTyped DEF Init
  <2>2. row[a].refresh.n = 1 /\ row[a].refresh.s = 1
    BY <2>1 DEF FirstCred
  <2>3. QED
    BY <2>1, <2>2
<1>4. CarriedIssued
  BY <1>2, <1>3 DEF CarriedIssued
<1>5. RowCurrent
  BY <1>3 DEF RowCurrent, Current
<1>6. ReadCurrent
  BY <1>2 DEF ReadCurrent, Reading
<1>7. QED
  BY <1>1, <1>4, <1>5, <1>6, HolderParts

LEMMA QuietHolds ==
    ASSUME TypeOK, RowCurrent, ReadCurrent, Quiet
    PROVE  (RowCurrent /\ ReadCurrent)'
<1> USE DEF Quiet
<1>1. \A a \in Account, s \in 1..MaxSession : session'[a][s].n = session[a][s].n
  BY DEF Numbers
<1>2. ASSUME NEW a \in Account
      PROVE  \/ Current(a, row[a].refresh)'
             \/ \E w \in Worker : Rotated(w)' /\ AccountOf(w)' = a
  <2>1. row'[a].refresh = row[a].refresh /\ row[a].refresh.s \in 1..MaxSession
    BY PartsTyped
  <2>2. CASE Current(a, row[a].refresh)
    BY <1>1, <2>1, <2>2 DEF Current
  <2>3. CASE \E w \in Worker : Rotated(w) /\ AccountOf(w) = a
    BY <2>3
  <2>4. QED
    BY <2>2, <2>3 DEF RowCurrent
<1>3. ASSUME NEW w \in Worker, Reading(w)'
      PROVE  Current(AccountOf(w), worker[w].latest.refresh)'
  <2>1. Reading(w) /\ worker[w] # Nil /\ Inside(w)'
    BY <1>3 DEF Reading, At, Inside
  <2>2. /\ AccountOf(w)' = AccountOf(w) /\ AccountOf(w) \in Account
        /\ worker'[w].latest = worker[w].latest
        /\ worker[w].latest.refresh.s \in 1..MaxSession
    BY <2>1, PartsTyped
  <2>3. QED
    BY <1>1, <2>1, <2>2 DEF ReadCurrent, Current
<1>4. QED
  BY <1>2, <1>3 DEF RowCurrent, ReadCurrent

\* The row is read under the mutex: what the call carries is current.
LEMMA AcquireHolds ==
    ASSUME TypeOK, Serial, RowCurrent, ReadCurrent, NEW w \in Worker, Acquire(w)
    PROVE  (RowCurrent /\ ReadCurrent)'
<1> DEFINE a == AccountOf(w)
<1>1. a \in Account /\ worker[w] \in Call /\ mutex[a] = Nil
  BY AtIsCall DEF Acquire, MutexFree
<1>2. UNCHANGED <<row, session>>
  BY DEF Acquire
<1>3. \A v \in Worker : Inside(v) => AccountOf(v) # a
  BY <1>1, NilFresh DEF Serial
<1>4. Current(a, row[a].refresh)
  BY <1>1, <1>3 DEF RowCurrent, Rotated, At, Inside
<1>5. \A v \in Worker \ {w} : worker'[v] = worker[v]
  BY DEF Acquire, TypeOK
<1>6. worker'[w].pc = "locked" /\ worker'[w].latest = row[a] /\ AccountOf(w)' = a
  <2>1. worker'[w] = [worker[w] EXCEPT !.pc = "locked", !.latest = row[a]]
    BY DEF Acquire, TypeOK
  <2>2. QED
    BY <1>1, <2>1 DEF Call, AccountOf
<1>7. ~Rotated(w)' /\ ~Rotated(w)
  BY <1>6 DEF Rotated, At, Acquire
<1>8. RowCurrent'
  BY <1>2, <1>5, <1>7 DEF RowCurrent, Current, Rotated, At, AccountOf
<1>9. ReadCurrent'
  <2> SUFFICES ASSUME NEW v \in Worker, Reading(v)'
               PROVE  Current(AccountOf(v), worker[v].latest.refresh)'
    BY DEF ReadCurrent
  <2>1. CASE v = w
    BY <1>2, <1>4, <1>6, <2>1 DEF Current
  <2>2. CASE v # w
    BY <1>2, <1>5, <2>2 DEF ReadCurrent, Reading, Current, At, AccountOf
  <2>3. QED
    BY <2>1, <2>2
<1>10. QED
  BY <1>8, <1>9

\* Upstream exchanges the credential w carries: only w is affected.
LEMMA RotateHolds ==
    ASSUME NothingLost, TypeOK, Serial, RowCurrent, ReadCurrent, NEW w \in Worker, Rotate(w)
    PROVE  (RowCurrent /\ ReadCurrent)'
<1> DEFINE a == AccountOf(w)
           c == worker[w].latest.refresh
<1>1. /\ a \in Account /\ Inside(w) /\ UNCHANGED row
      /\ At(w, "answered")' /\ AccountOf(w)' = a
      /\ \A v \in Worker \ {w} : worker'[v] = worker[v]
  BY RotateDoes
<1>2. \A b \in Account, t \in 1..MaxSession :
         session'[b][t].n = IF b = a /\ t = c.s THEN c.n + 1 ELSE session[b][t].n
  BY RotateDoes
<1>3. Rotated(w)'
  <2>1. worker' = [worker EXCEPT ![w].pc = "answered", ![w].answer = "ok",
                                 ![w].issued = [c EXCEPT !.n = c.n + 1]]
    BY DEF Rotate, NothingLost
  <2>2. worker[w] \in Call
    BY <1>1, PartsTyped DEF Inside
  <2>3. worker'[w].answer = "ok"
    BY <2>1, <2>2 DEF TypeOK, Call
  <2>4. QED
    BY <1>1, <2>3 DEF Rotated
<1>4. \A v \in Worker \ {w} : Inside(v) => AccountOf(v) # a
  BY <1>1, AloneInside
<1> HIDE DEF a, c
<1>5. RowCurrent'
  <2> SUFFICES ASSUME NEW b \in Account
               PROVE  \/ session'[b][row[b].refresh.s].n = row[b].refresh.n
                      \/ \E v \in Worker : Rotated(v)' /\ AccountOf(v)' = b
    BY <1>1 DEF RowCurrent, Current
  <2>1. CASE b = a
    BY <1>1, <1>3, <2>1
  <2>2. CASE b # a
    <3>1. \A v \in Worker : Rotated(v) /\ AccountOf(v) = b => Rotated(v)' /\ AccountOf(v)' = b
      BY <1>1, <2>2 DEF Rotated, At, AccountOf, a
    <3>2. session'[b][row[b].refresh.s].n = session[b][row[b].refresh.s].n
      BY <1>2, <2>2, PartsTyped
    <3>3. QED
      BY <3>1, <3>2 DEF RowCurrent, Current
  <2>3. QED
    BY <2>1, <2>2
<1>6. ReadCurrent'
  <2> SUFFICES ASSUME NEW v \in Worker, Reading(v)'
               PROVE  Current(AccountOf(v), worker[v].latest.refresh)'
    BY DEF ReadCurrent
  <2>1. v # w
    BY <1>1 DEF Reading, At
  <2>2. worker'[v] = worker[v] /\ Reading(v) /\ AccountOf(v)' = AccountOf(v)
    BY <1>1, <2>1 DEF Reading, At, AccountOf
  <2>3. Inside(v) /\ worker[v] # Nil
    BY <2>2 DEF Reading, At, Inside
  <2>4. /\ AccountOf(v) \in Account /\ AccountOf(v) # a
        /\ worker[v].latest.refresh.s \in 1..MaxSession
    BY <1>4, <2>1, <2>3, PartsTyped
  <2>5. session'[AccountOf(v)][worker[v].latest.refresh.s].n =
            session[AccountOf(v)][worker[v].latest.refresh.s].n
    BY <1>2, <2>4
  <2>6. QED
    BY <2>2, <2>5 DEF ReadCurrent, Current
<1>7. QED
  BY <1>5, <1>6

\* The successor reaches the row before the mutex is released.
LEMMA PersistHolds ==
    ASSUME TypeOK, CarriedIssued, RowCurrent, ReadCurrent, NEW w \in Worker, Persist(w)
    PROVE  (RowCurrent /\ ReadCurrent)'
<1> DEFINE a == AccountOf(w)
           i == worker[w].issued
<1>1. /\ a \in Account /\ Rotated(w) /\ UNCHANGED session /\ row'[a].refresh = i
      /\ \A b \in Account \ {a} : row'[b] = row[b]
      /\ worker'[w] = Nil /\ \A v \in Worker \ {w} : worker'[v] = worker[v]
  BY PersistDoes
<1>2. Current(a, i)
  BY <1>1 DEF CarriedIssued
<1>3. RowCurrent'
  <2> SUFFICES ASSUME NEW b \in Account
               PROVE  \/ session[b][row'[b].refresh.s].n = row'[b].refresh.n
                      \/ \E v \in Worker : Rotated(v)' /\ AccountOf(v)' = b
    BY <1>1 DEF RowCurrent, Current
  <2>1. CASE b = a
    BY <1>1, <1>2, <2>1 DEF Current
  <2>2. CASE b # a
    <3>1. \A v \in Worker : Rotated(v) /\ AccountOf(v) = b => Rotated(v)' /\ AccountOf(v)' = b
      BY <1>1, <2>2 DEF Rotated, At, AccountOf
    <3>2. row'[b] = row[b]
      BY <1>1, <2>2
    <3>3. QED
      BY <3>1, <3>2 DEF RowCurrent, Current
  <2>3. QED
    BY <2>1, <2>2
<1>4. ReadCurrent'
  BY <1>1 DEF ReadCurrent, Reading, Current, At, AccountOf
<1>5. QED
  BY <1>3, <1>4

\* A login's session is new: nobody holds a credential of it.
LEMMA BeginLoginHolds ==
    ASSUME TypeOK, CarriedIssued, LoginApart, RowCurrent, ReadCurrent, NEW e \in Editor,
           NEW a \in Account, NEW s \in 1..MaxSession, BeginLogin(e, a, s)
    PROVE  (RowCurrent /\ ReadCurrent)'
<1>1. /\ UNCHANGED <<row, worker>> /\ row[a].refresh.s # s
      /\ \A v \in Worker : Inside(v) /\ AccountOf(v) = a => worker[v].latest.refresh.s # s
  BY BeginLoginDoes
<1>2. \A b \in Account, t \in 1..MaxSession :
         session'[b][t].n = IF b = a /\ t = s THEN 1 ELSE session[b][t].n
  BY BeginLoginDoes
<1>3. \A b \in Account : session'[b][row[b].refresh.s].n = session[b][row[b].refresh.s].n
  BY <1>1, <1>2, PartsTyped
<1>4. RowCurrent'
  BY <1>1, <1>3 DEF RowCurrent, Current, Rotated, At, AccountOf
<1>5. ASSUME NEW v \in Worker, Reading(v)
      PROVE  session'[AccountOf(v)][worker[v].latest.refresh.s].n =
                worker[v].latest.refresh.n
  <2>1. Inside(v) /\ worker[v] # Nil
    BY <1>5 DEF Reading, At, Inside
  <2>2. AccountOf(v) \in Account /\ worker[v].latest.refresh.s \in 1..MaxSession
    BY <2>1, PartsTyped
  <2>3. session'[AccountOf(v)][worker[v].latest.refresh.s].n =
            session[AccountOf(v)][worker[v].latest.refresh.s].n
    BY <1>1, <1>2, <2>1, <2>2
  <2>4. QED
    BY <1>5, <2>3 DEF ReadCurrent, Current
<1>6. ReadCurrent'
  BY <1>1, <1>5 DEF ReadCurrent, Reading, Current, At, AccountOf
<1>7. QED
  BY <1>4, <1>6

\* The row takes over the new session's credential.
LEMMA WriteLoginHolds ==
    ASSUME TypeOK, LoginApart, RowCurrent, ReadCurrent, NEW e \in Editor, WriteLogin(e)
    PROVE  (RowCurrent /\ ReadCurrent)'
<1> DEFINE a == editor[e].account
           c == editor[e].cred
<1>1. UNCHANGED <<session, worker>> /\ editor[e] # Nil
  BY DEF WriteLogin
<1>2. a \in Account /\ Current(a, c)
  BY <1>1, PartsTyped DEF LoginApart
<1>3. row'[a].refresh = c /\ \A b \in Account \ {a} : row'[b] = row[b]
  BY <1>2 DEF WriteLogin, TypeOK
<1>4. RowCurrent'
  BY <1>1, <1>2, <1>3 DEF RowCurrent, Current, Rotated, At, AccountOf
<1>5. ReadCurrent'
  BY <1>1 DEF ReadCurrent, Reading, Current, At, AccountOf
<1>6. QED
  BY <1>4, <1>5

LEMMA StepOneHolder ==
    ASSUME NothingLost, TypeOK, TypeOK', OneHolder, [Next]_vars
    PROVE  OneHolder'
<1>1. Serial /\ CarriedIssued /\ LoginApart /\ RowCurrent /\ ReadCurrent
  BY HolderParts
<1>2. KeepsMemory /\ \A w \in Worker : ~PersistFails(w)
  BY DEF NothingLost, KeepsMemory, PersistFails
<1>3. Serial'
  BY <1>1, StepSerial
<1>4. (CarriedIssued /\ LoginApart)'
  BY <1>1, <1>2, StepIssued
<1>5. (RowCurrent /\ ReadCurrent)'
  BY <1>1, <1>2, StepKinds, QuietHolds, AcquireHolds, RotateHolds, PersistHolds,
     BeginLoginHolds, WriteLoginHolds
<1>6. QED
  BY <1>3, <1>4, <1>5, HolderPartsNext

LEMMA OneHolderMeans == TypeOK /\ OneHolder => NeverReplays /\ StoredIsCurrent
<1> SUFFICES ASSUME TypeOK, OneHolder PROVE NeverReplays /\ StoredIsCurrent
  OBVIOUS
<1>1. ASSUME NEW a \in Account, NEW c \in Cred, Current(a, c)
      PROVE  ~Consumed(a, c)
  <2>1. c.s \in 1..MaxSession /\ c.n \in Nat
    BY PartsTyped
  <2>2. session[a][c.s].n = c.n
    BY <1>1 DEF Current
  <2>3. QED
    BY <2>1, <2>2 DEF Consumed
<1>2. ASSUME NEW w \in Worker, At(w, "sent")
      PROVE  ~Consumed(AccountOf(w), worker[w].latest.refresh)
  <2>1. Current(AccountOf(w), worker[w].latest.refresh) /\ worker[w] # Nil
    BY <1>2 DEF OneHolder, CarriedCurrent, At
  <2>2. QED
    BY <1>1, <2>1, PartsTyped
<1>3. ASSUME NEW a \in Account, mutex[a] = Nil
      PROVE  ~Consumed(a, row[a].refresh)
  <2>1. \A w \in Worker : Rotated(w) => AccountOf(w) # a
    BY <1>3, NilFresh DEF OneHolder, Serial, Rotated, Inside, At
  <2>2. Current(a, row[a].refresh)
    BY <2>1 DEF OneHolder, RowIssued
  <2>3. QED
    BY <1>1, <2>2, PartsTyped
<1>4. QED
  BY <1>2, <1>3 DEF NeverReplays, StoredIsCurrent

\* While nothing is lost, the invariant holds: between the exchange upstream
\* and the write to the row exactly one goroutine holds the credential.
THEOREM HolderUnique ==
    ASSUME NothingLost
    PROVE  Spec => []OneHolder
<1>1. Init => TypeOK /\ OneHolder
  BY InitTyped, InitOneHolder
<1>2. TypeOK /\ OneHolder /\ [Next]_vars => (TypeOK /\ OneHolder)'
  <2> SUFFICES ASSUME TypeOK, OneHolder, [Next]_vars PROVE (TypeOK /\ OneHolder)'
    OBVIOUS
  <2>1. TypeOK'
    BY StepTyped
  <2>2. QED
    BY <2>1, StepOneHolder
<1>3. QED
  BY <1>1, <1>2, PTL DEF Spec

\* While nothing is lost, no refresh submits a credential that upstream has
\* already exchanged for another.
THEOREM ReplayFree ==
    ASSUME NothingLost
    PROVE  Spec => []NeverReplays
  BY HolderUnique, TypeCorrect, OneHolderMeans, PTL

\* While nothing is lost, the credential stored for an account that is not
\* being refreshed is one upstream has not exchanged.
THEOREM StoreCurrent ==
    ASSUME NothingLost
    PROVE  Spec => []StoredIsCurrent
  BY HolderUnique, TypeCorrect, OneHolderMeans, PTL

-----------------------------------------------------------------------------
(* Forced refreshes.                                                         *)

\* What a step does to a call that goes on.
LEMMA CallGoesOn ==
    ASSUME TypeOK, [Next]_vars, NEW w \in Worker, worker[w] # Nil, worker'[w] # Nil
    PROVE  \/ worker'[w] = worker[w]
           \/ Acquire(w) \/ Send(w) \/ Rotate(w) \/ RejectReplay(w) \/ Decline(w)
<1>1. ASSUME NEW v \in Worker,
             Send(v) \/ Rotate(v) \/ RejectReplay(v) \/ Decline(v)
      PROVE  v = w \/ worker'[w] = worker[w]
  <2>1. PICK x \in Call : Becomes(v, x)
    BY <1>1, StaysInside
  <2>2. QED
    BY <2>1 DEF Becomes, TypeOK
<1>2. ASSUME NEW v \in Worker,
             \/ HandOff(v) \/ Throttled(v) \/ NotDue(v) \/ SiteBusy(v)
             \/ Fail(v) \/ Persist(v) \/ PersistFails(v)
      PROVE  worker'[w] = worker[w]
  <2>1. Becomes(v, Nil)
    BY <1>2, Returns
  <2>2. QED
    BY <2>1 DEF Becomes, TypeOK
<1>3. ASSUME NEW v \in Worker, NEW a \in Account, NEW force \in BOOLEAN,
             CallRefresh(v, a, force)
      PROVE  worker'[w] = worker[w]
  BY <1>3 DEF CallRefresh, TypeOK
<1>4. ASSUME NEW v \in Worker, Acquire(v) \/ AcquireFails(v)
      PROVE  Acquire(w) \/ worker'[w] = worker[w]
  BY <1>4 DEF Acquire, AcquireFails, TypeOK
<1>5. CASE Restart
  BY <1>5 DEF Restart
<1>6. QED
  BY <1>1, <1>2, <1>3, <1>4, <1>5, OtherSteps

\* A replaced token is not in the row, nor in a row read under the mutex, and
\* a forced call that presents a credential was refused the token of that row.
Asks(w) == At(w, "locked") \/ At(w, "sent")
NotReplaced ==
    /\ \A a \in Account : row[a].token \notin replaced[a]
    /\ \A w \in Worker : Asks(w) => worker[w].latest.token \notin replaced[AccountOf(w)]
    /\ \A w \in Worker : At(w, "sent") /\ worker[w].force =>
          worker[w].latest.token = worker[w].seen.token

\* What a step does to the tokens of an account: none, or a renewal replaces
\* the one in the row, or a form or a login puts one back.
LEMMA TokenSteps ==
    ASSUME TypeOK, [Next]_vars, NEW a \in Account
    PROVE  \/ row'[a].token = row[a].token /\ replaced'[a] = replaced[a]
           \/ \E v \in Worker : Persist(v) /\ AccountOf(v) = a
                 /\ row'[a].token \notin replaced'[a]
           \/ row'[a].token \notin replaced'[a] /\ replaced'[a] \subseteq replaced[a]
                 /\ UNCHANGED worker
<1> DEFINE Same == row'[a].token = row[a].token /\ replaced'[a] = replaced[a]
<1>1. ASSUME NEW v \in Worker, Persist(v)
      PROVE  Same \/ (AccountOf(v) = a /\ row'[a].token \notin replaced'[a])
  <2> DEFINE b == AccountOf(v)
             r == Refreshed(v)
  <2>1. worker[v] # Nil /\ worker[v] \in Call /\ b \in Account
    BY <1>1, AtIsCall DEF Persist, At
  <2>0. r \in Row
    <3>1. worker[v].latest \in Row /\ worker[v].issued \in Cred
      BY <2>1, PartsTyped
    <3>2. QED
      BY <3>1 DEF Refreshed, Row
  <2>2. PICK st : row' = [row EXCEPT ![b] = [r EXCEPT !.status = st]]
    BY <1>1 DEF Persist
  <2>3. replaced' = [replaced EXCEPT ![b] = (replaced[b] \cup {row[b].token}) \ {r.token}]
    BY <1>1, <2>1 DEF Persist, TypeOK
  <2>4. [r EXCEPT !.status = st].token = r.token
    BY <2>0 DEF Row
  <2>5. CASE b = a
    BY <2>2, <2>3, <2>4, <2>5 DEF TypeOK
  <2>6. CASE b # a
    BY <2>2, <2>3, <2>6 DEF TypeOK
  <2>7. QED
    BY <2>5, <2>6
<1>2. ASSUME NEW e \in Editor, WriteHealth(e)
      PROVE  Same
  <2> DEFINE b == editor[e].account
  <2>1. b \in Account /\ row[b] \in Row
    BY <1>2, PartsTyped DEF WriteHealth
  <2>2. PICK st : row' = [row EXCEPT ![b].refresh = editor[e].cred,
                                     ![b].route = editor[e].route, ![b].status = st]
    BY <1>2 DEF WriteHealth
  <2>3. row' = [row EXCEPT ![b] = [row[b] EXCEPT !.refresh = editor[e].cred,
                                     !.route = editor[e].route, !.status = st]]
    BY <2>1, <2>2 DEF TypeOK
  <2>4. row'[a].token = row[a].token
    BY <2>1, <2>3 DEF TypeOK, Row
  <2>5. QED
    BY <1>2, <2>4 DEF WriteHealth
<1>3. ASSUME NEW b \in Account, NEW r, NEW t, row' = [row EXCEPT ![b] = r], r.token = t,
             PutsBack(b, t)
      PROVE  Same \/ (row'[a].token \notin replaced'[a] /\ replaced'[a] \subseteq replaced[a])
  BY <1>3 DEF PutsBack, TypeOK
<1>4. ASSUME NEW e \in Editor, WriteEdit(e) \/ WriteLogin(e)
      PROVE  UNCHANGED worker /\ (Same \/ (row'[a].token \notin replaced'[a]
                                            /\ replaced'[a] \subseteq replaced[a]))
  <2> DEFINE b == editor[e].account
  <2>1. b \in Account
    BY <1>4, PartsTyped DEF WriteEdit, WriteLogin
  <2>2. CASE WriteEdit(e)
    <3>1. PICK rt \in Route, due \in BOOLEAN, token \in {row[b].token} \cup Issued(b),
               refresh \in {editor[e].cred} \cup Issued(b) :
            /\ row' = [row EXCEPT ![b] = [token |-> token, due |-> due, refresh |-> refresh,
                                         route |-> rt, status |-> row[b].status]]
            /\ PutsBack(b, token)
      BY <2>2 DEF WriteEdit
    <3> DEFINE r == [token |-> token, due |-> due, refresh |-> refresh,
                     route |-> rt, status |-> row[b].status]
    <3>2. r.token = token /\ row' = [row EXCEPT ![b] = r]
      BY <3>1
    <3> HIDE DEF r
    <3>3. QED
      BY <1>3, <2>1, <2>2, <3>1, <3>2 DEF WriteEdit
  <2>3. CASE WriteLogin(e)
    <3> DEFINE r == [token |-> editor[e].cred, due |-> FALSE, refresh |-> editor[e].cred,
                     route |-> editor[e].route, status |-> "active"]
    <3>1. r.token = editor[e].cred /\ row' = [row EXCEPT ![b] = r]
      BY <2>3 DEF WriteLogin
    <3> HIDE DEF r
    <3>2. QED
      BY <1>3, <2>1, <2>3, <3>1 DEF WriteLogin
  <2>4. QED
    BY <1>4, <2>2, <2>3
<1>5. ASSUME NEW b \in Account, Environment(b)
      PROVE  Same
  <2>1. row[b] \in Row
    BY DEF TypeOK
  <2>2. ASSUME NEW st, row' = [row EXCEPT ![b].status = st] \/ row' = [row EXCEPT ![b].due = st]
        PROVE  row'[a].token = row[a].token
    <3>1. \/ row' = [row EXCEPT ![b] = [row[b] EXCEPT !.status = st]]
          \/ row' = [row EXCEPT ![b] = [row[b] EXCEPT !.due = st]]
      BY <2>2 DEF TypeOK
    <3>2. QED
      BY <2>1, <3>1 DEF TypeOK, Row
  <2>3. QED
    BY <1>5, <2>2 DEF Environment, TokenAges, SetStatus, UpstreamRevokes, OpenSession
<1>6. CASE row' = row /\ replaced' = replaced
  BY <1>6
<1>7. CASE UNCHANGED vars
  BY <1>6, <1>7 DEF vars
<1>8. ASSUME NEW w \in Worker, WorkerStep(w), ~Persist(w)
      PROVE  row' = row /\ replaced' = replaced
  BY <1>8 DEF WorkerStep, Proceed, Acquire, AcquireFails, HandOff, Throttled, NotDue, SiteBusy,
              Send, Rotate, RejectReplay, Decline, Fail, PersistFails
<1>9. CASE \/ \E w \in Worker, b \in Account, force \in BOOLEAN : CallRefresh(w, b, force)
           \/ \E e \in Editor, b \in Account :
                 \/ \E kind \in EditorKind : BeginEdit(e, b, kind)
                 \/ \E s \in 1..MaxSession : BeginLogin(e, b, s)
           \/ Tick \/ Restart
  BY <1>6, <1>9 DEF CallRefresh, BeginEdit, BeginLogin, Tick, Restart
<1>10. QED
  BY <1>1, <1>2, <1>4, <1>5, <1>6, <1>7, <1>8, <1>9 DEF Next, EditorStep

LEMMA StepNotReplaced ==
    ASSUME TypeOK, Serial, NotReplaced, [Next]_vars
    PROVE  NotReplaced'
<1>1. \A a \in Account : (row[a].token \notin replaced[a])'
  BY TokenSteps DEF NotReplaced
<1>2. ASSUME NEW w \in Worker, Asks(w)'
      PROVE  /\ (worker[w].latest.token \notin replaced[AccountOf(w)])'
             /\ (At(w, "sent") /\ worker[w].force =>
                    worker[w].latest.token = worker[w].seen.token)'
  <2>1. worker'[w] # Nil
    BY <1>2 DEF Asks, At
  <2>2. CASE worker[w] = Nil
    <3>1. CASE \E v \in Worker, a \in Account, force \in BOOLEAN : CallRefresh(v, a, force)
      <4>1. worker'[w] = worker[w] \/ worker'[w].pc = "called"
        BY <3>1 DEF CallRefresh, TypeOK
      <4>2. QED
        BY <1>2, <2>1, <2>2, <4>1 DEF Asks, At
    <3>2. ASSUME NEW v \in Worker,
                 \/ Send(v) \/ Rotate(v) \/ RejectReplay(v) \/ Decline(v)
                 \/ HandOff(v) \/ Throttled(v) \/ NotDue(v) \/ SiteBusy(v)
                 \/ Fail(v) \/ Persist(v) \/ PersistFails(v)
          PROVE  worker'[w] = Nil
      <4>1. PICK x : Inside(v) /\ Becomes(v, x)
        BY <3>2, StaysInside, Returns
      <4>2. v # w
        BY <2>2, <4>1 DEF Inside
      <4>3. QED
        BY <2>2, <4>1, <4>2 DEF Becomes, TypeOK
    <3>3. ASSUME NEW v \in Worker, Acquire(v) \/ AcquireFails(v)
          PROVE  worker'[w] = Nil
      BY <2>2, <3>3 DEF Acquire, AcquireFails, At, TypeOK
    <3>4. CASE Restart
      BY <2>1, <3>4 DEF Restart
    <3>5. QED
      BY <2>1, <2>2, <3>1, <3>2, <3>3, <3>4, OtherSteps
  <2>3. CASE worker[w] # Nil
    <3>1. worker[w] \in Call /\ AccountOf(w) \in Account
      BY <2>3, PartsTyped
    <3>2. CASE worker'[w] = worker[w]
      <4>1. Asks(w) /\ AccountOf(w)' = AccountOf(w)
        BY <1>2, <3>2 DEF Asks, At, AccountOf
      <4>2. Inside(w)
        BY <4>1 DEF Asks, At, Inside
      <4>3. \A v \in Worker : Persist(v) /\ AccountOf(v) = AccountOf(w) => v = w
        BY <3>1, <4>2, Returns DEF Serial
      <4>4. ~Persist(w)
        BY <4>1 DEF Persist, Asks, At
      <4>5. replaced'[AccountOf(w)] \subseteq replaced[AccountOf(w)]
        BY <3>1, <4>3, <4>4, TokenSteps
      <4>6. worker[w].latest.token \notin replaced[AccountOf(w)]
        BY <4>1 DEF NotReplaced
      <4>7. QED
        BY <3>2, <4>1, <4>5, <4>6 DEF NotReplaced, At
    <3>3. CASE Acquire(w)
      <4>1. worker'[w] = [worker[w] EXCEPT !.pc = "locked", !.latest = row[AccountOf(w)]]
        BY <3>3 DEF Acquire, TypeOK
      <4>2. /\ worker'[w].pc = "locked" /\ worker'[w].latest = row[AccountOf(w)]
            /\ AccountOf(w)' = AccountOf(w)
        BY <3>1, <4>1 DEF Call, AccountOf
      <4>3. replaced' = replaced
        BY <3>3 DEF Acquire
      <4>4. QED
        BY <3>1, <4>2, <4>3 DEF NotReplaced, At
    <3>4. CASE Send(w)
      <4>1. worker'[w] = [worker[w] EXCEPT !.pc = "sent"]
        BY <3>4 DEF Send, TypeOK
      <4>2. /\ worker'[w].latest = worker[w].latest /\ worker'[w].force = worker[w].force
            /\ worker'[w].seen = worker[w].seen /\ AccountOf(w)' = AccountOf(w)
        BY <3>1, <4>1 DEF Call, AccountOf
      <4>3. replaced' = replaced /\ At(w, "locked") /\ ~IsHandOff(w)
        BY <3>4 DEF Send, WantsRequest
      <4>4. worker[w].latest.token \notin replaced[AccountOf(w)]
        BY <4>3 DEF NotReplaced, Asks
      <4>5. QED
        BY <4>2, <4>3, <4>4 DEF IsHandOff
    <3>5. CASE Rotate(w) \/ RejectReplay(w) \/ Decline(w)
      <4>1. worker'[w].pc = "answered"
        BY <3>1, <3>5 DEF Rotate, RejectReplay, Decline, Reply, Call, TypeOK
      <4>2. QED
        BY <1>2, <4>1 DEF Asks, At
    <3>6. QED
      BY <2>1, <2>3, <3>2, <3>3, <3>4, <3>5, CallGoesOn
  <2>4. QED
    BY <2>2, <2>3
<1>3. QED
  BY <1>1, <1>2 DEF NotReplaced, Asks

\* No forced refresh presents a credential for a token that a renewal has
\* replaced, whatever is lost, whoever logs in beside it, and whatever the
\* forms write; a writer that puts that very token back excepted.
THEOREM ForceExact == Spec => []ForceNeverRepeats
<1> DEFINE NInv == TypeOK /\ Serial /\ NotReplaced
<1>1. Init => NInv
  BY InitTyped, InitSerial DEF Init, NotReplaced, Asks, At
<1>2. NInv /\ [Next]_vars => NInv'
  BY StepTyped, StepSerial, StepNotReplaced
<1>3. NInv => ForceNeverRepeats
  BY DEF NotReplaced, Asks, ForceNeverRepeats
<1>4. QED
  BY <1>1, <1>2, <1>3, PTL DEF Spec

-----------------------------------------------------------------------------
(* The refinement of RotatingCredential.                                     *)

\* What is held for an account: the issued credential of the one call that
\* carries it, the stored one when there is none.
HeldOf(a) ==
    /\ \A w \in Worker : Rotated(w) /\ AccountOf(w) = a => Held[a] = worker[w].issued
    /\ (\A w \in Worker : ~(Rotated(w) /\ AccountOf(w) = a)) => Held[a] = row[a].refresh

LEMMA HeldIs == Serial => \A a \in Account : HeldOf(a)
<1> SUFFICES ASSUME Serial, NEW a \in Account
             PROVE  HeldOf(a)
  OBVIOUS
<1>1. Pending(a) = {w \in Worker : Rotated(w) /\ AccountOf(w) = a}
  BY DEF Pending, Rotated, AccountOf
<1>2. ASSUME NEW w \in Worker, Rotated(w), AccountOf(w) = a
      PROVE  Held[a] = worker[w].issued
  <2>1. \A v \in Worker : Rotated(v) /\ AccountOf(v) = a => v = w
    BY <1>2 DEF Serial, Inside, Rotated, At
  <2>2. Pending(a) = {w}
    BY <1>1, <1>2, <2>1
  <2>3. (CHOOSE v \in Pending(a) : TRUE) = w
    BY <2>2
  <2>4. QED
    BY <2>2, <2>3 DEF Held
<1>3. ASSUME \A w \in Worker : ~(Rotated(w) /\ AccountOf(w) = a)
      PROVE  Held[a] = row[a].refresh
  BY <1>1, <1>3 DEF Held
<1>4. QED
  BY <1>2, <1>3 DEF HeldOf

LEMMA HeldNext == Serial' => \A a \in Account : HeldOf(a)'
<1>1. (Serial => \A a \in Account : HeldOf(a))'
  BY HeldIs, PTL
<1>2. QED
  BY <1>1

\* What is held stays the same when no call gains or loses a credential and the
\* rows keep theirs.
LEMMA HeldKept ==
    ASSUME Serial, Serial',
           \A a \in Account : row'[a].refresh = row[a].refresh,
           \A w \in Worker :
              /\ Rotated(w)' <=> Rotated(w)
              /\ Rotated(w) => /\ AccountOf(w)' = AccountOf(w)
                               /\ worker'[w].issued = worker[w].issued
    PROVE  Held' = Held
<1>1. ASSUME NEW a \in Account
      PROVE  Held'[a] = Held[a]
  <2>1. CASE \E w \in Worker : Rotated(w) /\ AccountOf(w) = a
    <3>1. PICK w \in Worker : Rotated(w) /\ AccountOf(w) = a
      BY <2>1
    <3>2. Held[a] = worker[w].issued
      BY <3>1, HeldIs DEF HeldOf
    <3>3. Rotated(w)' /\ AccountOf(w)' = a
      BY <3>1
    <3>4. Held'[a] = worker'[w].issued
      BY <3>3, HeldNext DEF HeldOf
    <3>5. QED
      BY <3>1, <3>2, <3>4
  <2>2. CASE \A w \in Worker : ~(Rotated(w) /\ AccountOf(w) = a)
    <3>1. \A w \in Worker : ~(Rotated(w)' /\ AccountOf(w)' = a)
      BY <2>2
    <3>2. Held'[a] = row'[a].refresh
      BY <3>1, HeldNext DEF HeldOf
    <3>3. QED
      BY <2>2, <3>2, HeldIs DEF HeldOf
  <2>3. QED
    BY <2>1, <2>2
<1>2. QED
  BY <1>1 DEF Held

LEMMA UsedKept ==
    ASSUME Numbers' = Numbers
    PROVE  Used' = Used
<1>1. \A a \in Account, s \in 1..MaxSession : session'[a][s].n = session[a][s].n
  BY DEF Numbers
<1>2. \A c \in Cred : c.s \in 1..MaxSession
  BY DEF Cred
<1>3. QED
  BY <1>1, <1>2 DEF Used, Consumed

\* A credential that is current has not been exchanged.
LEMMA CurrentUnused ==
    ASSUME TypeOK, NEW a \in Account, NEW c \in Cred, Current(a, c)
    PROVE  c \in Abstract!Unused(a)
<1>1. c.n \in Nat
  BY PartsTyped
<1>2. ~Consumed(a, c)
  BY <1>1 DEF Current, Consumed
<1>3. QED
  BY <1>2 DEF Abstract!Unused, Used

LEMMA InitRefines == Init => Abstract!Init
<1> SUFFICES ASSUME Init
             PROVE  Abstract!Init
  OBVIOUS
<1>1. TypeOK /\ Serial
  BY InitTyped, InitSerial
<1>2. ASSUME NEW a \in Account
      PROVE  Held[a] \in Cred
  <2>1. \A w \in Worker : ~Rotated(w)
    BY DEF Init, Rotated, At
  <2>2. QED
    BY <1>1, <2>1, HeldIs, PartsTyped DEF HeldOf
<1>3. ASSUME NEW a \in Account, NEW c \in Cred
      PROVE  ~Consumed(a, c)
  <2>1. c.s \in 1..MaxSession /\ c.n \in Nat /\ c.n >= 1
    BY BoundsTyped DEF Cred
  <2>2. session[a][c.s].n = IF c.s = 1 THEN 1 ELSE 0
    BY <2>1 DEF Init
  <2>3. QED
    BY <2>1, <2>2 DEF Consumed
<1>4. Held \in [Account -> Cred]
  BY <1>2 DEF Held
<1>5. Used = [a \in Account |-> {}]
  BY <1>3 DEF Used
<1>6. QED
  BY <1>4, <1>5 DEF Abstract!Init

\* The exchange upstream is the abstract one.
LEMMA RotateRefines ==
    ASSUME NothingLost, TypeOK, OneHolder, Serial', NEW w \in Worker, Rotate(w)
    PROVE  Abstract!Exchange(AccountOf(w))
<1> DEFINE a == AccountOf(w)
           c == worker[w].latest.refresh
           d == [c EXCEPT !.n = c.n + 1]
<1>1. At(w, "sent") /\ worker[w] # Nil /\ Inside(w) /\ ~Rotated(w)
  BY DEF Rotate, At, Inside, Rotated
<1>2. /\ a \in Account /\ worker[w] \in Call /\ c \in Cred
      /\ c.s \in 1..MaxSession /\ c.n \in Nat
  BY <1>1, PartsTyped
<1>3. d \in Cred /\ d.s = c.s /\ d.n = c.n + 1
  <2>1. c.n < MaxGen /\ MaxGen \in Nat
    BY BoundsTyped DEF Rotate
  <2>2. c.n + 1 \in 1..MaxGen
    BY <1>2, <2>1
  <2>3. QED
    BY <1>2, <2>2 DEF Cred
<1>4. /\ session' = [session EXCEPT ![a][c.s].n = c.n + 1]
      /\ worker' = [worker EXCEPT ![w].pc = "answered", ![w].answer = "ok", ![w].issued = d]
      /\ UNCHANGED row
      /\ session[a][c.s].n = c.n
  BY DEF Rotate, NothingLost, Live, Current
<1>5. \A b \in Account, s \in 1..MaxSession :
         session'[b][s].n = IF b = a /\ s = c.s THEN c.n + 1 ELSE session[b][s].n
  <2>1. Issue(a, c.s, c.n + 1)
    BY <1>4 DEF Issue
  <2>2. QED
    BY <1>2, <2>1, NumberSet
<1>6. /\ Rotated(w)' /\ AccountOf(w)' = a /\ worker'[w].issued = d
      /\ \A v \in Worker \ {w} : worker'[v] = worker[v]
  <2> HIDE DEF d
  <2> DEFINE x == [worker[w] EXCEPT !.pc = "answered", !.answer = "ok", !.issued = d]
  <2>1. worker'[w] = x /\ \A v \in Worker \ {w} : worker'[v] = worker[v]
    BY <1>4 DEF TypeOK
  <2>2. x \in Call
    BY <1>2, <1>3 DEF Call, Phase, Answer
  <2>3. /\ x.pc = "answered" /\ x.answer = "ok" /\ x.issued = d
        /\ x.account = worker[w].account
    BY <1>2 DEF Call
  <2> HIDE DEF x
  <2>4. QED
    BY <2>1, <2>2, <2>3, NilFresh DEF Rotated, At, AccountOf
<1> HIDE DEF a, c, d
<1>7. c \in Abstract!Unused(a)
  BY <1>2, <1>4, CurrentUnused DEF Current
<1>8. d \in Abstract!Unused(a) \ {c}
  <2>1. ~Consumed(a, d) /\ d # c
    BY <1>2, <1>3, <1>4 DEF Consumed
  <2>2. QED
    BY <1>2, <1>3, <2>1 DEF Abstract!Unused, Used
<1>9. Used' = [Used EXCEPT ![a] = @ \cup {c}]
  <2>1. ASSUME NEW b \in Account, NEW x \in Cred
        PROVE  Consumed(b, x)' <=> Consumed(b, x) \/ (b = a /\ x = c)
    <3>1. x.s \in 1..MaxSession /\ x.n \in Nat
      BY PartsTyped
    <3>2. x.s = c.s /\ x.n = c.n => x = c
      BY <1>2 DEF Cred
    <3>3. CASE b = a /\ x.s = c.s
      <4>1. session'[b][x.s].n = c.n + 1 /\ session[b][x.s].n = c.n
        BY <1>4, <1>5, <3>1, <3>3
      <4>2. QED
        BY <1>2, <3>1, <3>2, <3>3, <4>1 DEF Consumed
    <3>4. CASE ~(b = a /\ x.s = c.s)
      <4>1. session'[b][x.s].n = session[b][x.s].n
        BY <1>5, <3>1, <3>4
      <4>2. QED
        BY <3>4, <4>1 DEF Consumed
    <3>5. QED
      BY <3>3, <3>4
  <2>2. Used \in [Account -> SUBSET Cred]
    BY DEF Used
  <2>3. \A b \in Account : Used'[b] = IF b = a THEN Used[b] \cup {c} ELSE Used[b]
    BY <1>2, <2>1 DEF Used
  <2>4. QED
    BY <1>2, <2>2, <2>3 DEF Used
<1>10. Held' = [Held EXCEPT ![a] = d]
  <2>1. Held'[a] = d
    BY <1>2, <1>6, HeldNext DEF HeldOf
  <2>2. ASSUME NEW b \in Account \ {a}
        PROVE  Held'[b] = Held[b]
    <3>1. \A v \in Worker : /\ Rotated(v)' /\ AccountOf(v)' = b <=> Rotated(v) /\ AccountOf(v) = b
                            /\ Rotated(v) => worker'[v].issued = worker[v].issued
      BY <1>1, <1>6, <2>2 DEF Rotated, At, AccountOf
    <3>2. CASE \E v \in Worker : Rotated(v) /\ AccountOf(v) = b
      <4>1. PICK v \in Worker : Rotated(v) /\ AccountOf(v) = b
        BY <3>2
      <4>2. Held[b] = worker[v].issued
        BY <4>1, HeldIs DEF OneHolder, HeldOf
      <4>3. Held'[b] = worker'[v].issued
        BY <3>1, <4>1, HeldNext DEF HeldOf
      <4>4. QED
        BY <3>1, <4>1, <4>2, <4>3
    <3>3. CASE \A v \in Worker : ~(Rotated(v) /\ AccountOf(v) = b)
      <4>1. Held[b] = row[b].refresh
        BY <3>3, HeldIs DEF OneHolder, HeldOf
      <4>2. Held'[b] = row'[b].refresh
        BY <3>1, <3>3, HeldNext DEF HeldOf
      <4>3. QED
        BY <1>4, <4>1, <4>2
    <3>4. QED
      BY <3>2, <3>3
  <2>3. \A b \in Account : Held'[b] = IF b = a THEN d ELSE Held[b]
    BY <2>1, <2>2
  <2>4. QED
    BY <1>2, <2>3 DEF Held
<1>11. QED
  BY <1>7, <1>8, <1>9, <1>10 DEF Abstract!Exchange, a

\* The write moves the held credential from the call to the row.
LEMMA PersistRefines ==
    ASSUME TypeOK, OneHolder, Serial', NEW w \in Worker, Persist(w)
    PROVE  UNCHANGED <<Held, Used>>
<1> DEFINE a == AccountOf(w)
<1>1. Rotated(w) /\ Inside(w) /\ a \in Account
  BY PersistDoes
<1>2. /\ row'[a].refresh = worker[w].issued
      /\ \A b \in Account \ {a} : row'[b] = row[b]
  BY PersistDoes
<1>3. worker'[w] = Nil /\ \A v \in Worker \ {w} : worker'[v] = worker[v]
  BY PersistDoes
<1>4. ASSUME NEW b \in Account
      PROVE  Held'[b] = Held[b]
  <2>1. CASE b = a
    <3>1. \A v \in Worker : ~(Rotated(v)' /\ AccountOf(v)' = a)
      <4>1. ~Rotated(w)'
        BY <1>3 DEF Rotated, At
      <4>2. \A v \in Worker \ {w} : Rotated(v) => AccountOf(v) # a
        BY <1>1 DEF OneHolder, Serial, Inside, Rotated, At
      <4>3. QED
        BY <1>3, <4>1, <4>2 DEF Rotated, At, AccountOf
    <3>2. Held'[a] = row'[a].refresh
      BY <1>1, <3>1, HeldNext DEF HeldOf
    <3>3. Held[a] = worker[w].issued
      BY <1>1, HeldIs DEF OneHolder, HeldOf
    <3>4. QED
      BY <1>2, <2>1, <3>2, <3>3
  <2>2. CASE b # a
    <3>1. \A v \in Worker : /\ Rotated(v)' /\ AccountOf(v)' = b <=> Rotated(v) /\ AccountOf(v) = b
                            /\ v # w => worker'[v].issued = worker[v].issued
      BY <1>3, <2>2 DEF Rotated, At, AccountOf
    <3>2. CASE \E v \in Worker : Rotated(v) /\ AccountOf(v) = b
      <4>1. PICK v \in Worker : Rotated(v) /\ AccountOf(v) = b
        BY <3>2
      <4>2. Held[b] = worker[v].issued
        BY <4>1, HeldIs DEF OneHolder, HeldOf
      <4>3. Held'[b] = worker'[v].issued
        BY <3>1, <4>1, HeldNext DEF HeldOf
      <4>4. QED
        BY <2>2, <3>1, <4>1, <4>2, <4>3
    <3>3. CASE \A v \in Worker : ~(Rotated(v) /\ AccountOf(v) = b)
      <4>1. Held[b] = row[b].refresh
        BY <3>3, HeldIs DEF OneHolder, HeldOf
      <4>2. Held'[b] = row'[b].refresh
        BY <3>1, <3>3, HeldNext DEF HeldOf
      <4>3. QED
        BY <1>2, <2>2, <4>1, <4>2
    <3>4. QED
      BY <3>2, <3>3
  <2>3. QED
    BY <2>1, <2>2
<1>5. Used' = Used
  BY UsedKept DEF Persist, Numbers
<1>6. QED
  BY <1>4, <1>5 DEF Held

\* A login replaces what is held, unless a refresh of the session before is
\* about to write its own credential.
LEMMA WriteLoginRefines ==
    ASSUME TypeOK, OneHolder, Serial', NEW e \in Editor, WriteLogin(e)
    PROVE  Abstract!Replace(editor[e].account) \/ UNCHANGED <<Held, Used>>
<1> DEFINE a == editor[e].account
           d == editor[e].cred
<1>1. editor[e] # Nil /\ UNCHANGED <<session, worker>>
  BY DEF WriteLogin
<1>2. a \in Account /\ d \in Cred
  BY <1>1, PartsTyped
<1>3. row'[a].refresh = d /\ \A b \in Account \ {a} : row'[b] = row[b]
  BY <1>2 DEF WriteLogin, TypeOK
<1>4. Used' = Used
  BY <1>1, UsedKept DEF Numbers
<1>5. \A v \in Worker : /\ Rotated(v)' <=> Rotated(v)
                        /\ AccountOf(v)' = AccountOf(v)
                        /\ worker'[v].issued = worker[v].issued
  BY <1>1 DEF Rotated, At, AccountOf
<1>6. ASSUME NEW b \in Account, b # a \/ \E v \in Worker : Rotated(v) /\ AccountOf(v) = b
      PROVE  Held'[b] = Held[b]
  <2>1. CASE \E v \in Worker : Rotated(v) /\ AccountOf(v) = b
    <3>1. PICK v \in Worker : Rotated(v) /\ AccountOf(v) = b
      BY <2>1
    <3>2. Held[b] = worker[v].issued
      BY <3>1, HeldIs DEF OneHolder, HeldOf
    <3>3. Held'[b] = worker'[v].issued
      BY <1>5, <3>1, HeldNext DEF HeldOf
    <3>4. QED
      BY <1>5, <3>2, <3>3
  <2>2. CASE \A v \in Worker : ~(Rotated(v) /\ AccountOf(v) = b)
    <3>1. Held[b] = row[b].refresh
      BY <2>2, HeldIs DEF OneHolder, HeldOf
    <3>2. Held'[b] = row'[b].refresh
      BY <1>5, <2>2, HeldNext DEF HeldOf
    <3>3. QED
      BY <1>3, <1>6, <2>2, <3>1, <3>2
  <2>3. QED
    BY <2>1, <2>2
<1>7. CASE \E v \in Worker : Rotated(v) /\ AccountOf(v) = a
  <2>1. \A b \in Account : Held'[b] = Held[b]
    BY <1>6, <1>7
  <2>2. QED
    BY <1>4, <2>1 DEF Held
<1>8. CASE \A v \in Worker : ~(Rotated(v) /\ AccountOf(v) = a)
  <2>1. Held'[a] = d
    <3>1. Held'[a] = row'[a].refresh
      BY <1>2, <1>5, <1>8, HeldNext DEF HeldOf
    <3>2. QED
      BY <1>3, <3>1
  <2>2. Held' = [Held EXCEPT ![a] = d]
    BY <1>2, <1>6, <2>1 DEF Held
  <2>3. d \in Abstract!Unused(a)
    BY <1>1, <1>2, CurrentUnused DEF OneHolder, LoginApart
  <2>4. QED
    BY <1>4, <2>2, <2>3 DEF Abstract!Replace
<1>9. QED
  BY <1>7, <1>8

\* The first credential of a new session is not exchanged for another yet.
LEMMA BeginLoginRefines ==
    ASSUME TypeOK, OneHolder, Serial', NEW e \in Editor, NEW a \in Account,
           NEW s \in 1..MaxSession, BeginLogin(e, a, s)
    PROVE  UNCHANGED <<Held, Used>>
<1>1. UNCHANGED <<row, worker>> /\ session[a][s].n = 0
      /\ session' = [session EXCEPT ![a][s].n = 1]
  BY DEF BeginLogin
<1>2. Held' = Held
  BY <1>1, HeldKept DEF OneHolder, Rotated, At, AccountOf
<1>3. \A b \in Account, t \in 1..MaxSession :
         session'[b][t].n = IF b = a /\ t = s THEN 1 ELSE session[b][t].n
  <2>1. Issue(a, s, 1)
    BY <1>1 DEF Issue
  <2>2. QED
    BY <2>1, NumberSet
<1>4. ASSUME NEW b \in Account, NEW c \in Cred
      PROVE  Consumed(b, c)' <=> Consumed(b, c)
  <2>1. c.s \in 1..MaxSession /\ c.n \in Nat /\ c.n >= 1
    BY BoundsTyped DEF Cred
  <2>2. QED
    BY <1>1, <1>3, <2>1 DEF Consumed
<1>5. Used' = Used
  BY <1>4 DEF Used
<1>6. QED
  BY <1>2, <1>5

LEMMA StepRefines ==
    ASSUME NothingLost, TypeOK, OneHolder, Serial', [Next]_vars
    PROVE  Abstract!Next \/ UNCHANGED <<Held, Used>>
<1>1. CASE Quiet
  BY <1>1, HeldKept, UsedKept DEF Quiet, OneHolder
<1>2. ASSUME NEW w \in Worker, Acquire(w)
      PROVE  UNCHANGED <<Held, Used>>
  <2>1. UNCHANGED <<row, session>> /\ ~Rotated(w)
        /\ \A v \in Worker \ {w} : worker'[v] = worker[v]
    BY <1>2 DEF Acquire, Rotated, At, TypeOK
  <2>2. ~Rotated(w)'
    <3>1. worker[w] \in Call
      BY <1>2, AtIsCall DEF Acquire
    <3>2. worker'[w].pc = "locked"
      BY <1>2, <3>1 DEF Acquire, TypeOK, Call
    <3>3. QED
      BY <3>2 DEF Rotated, At
  <2>3. Held' = Held
    BY <2>1, <2>2, HeldKept DEF OneHolder, Rotated, At, AccountOf
  <2>4. Used' = Used
    BY <2>1, UsedKept DEF Numbers
  <2>5. QED
    BY <2>3, <2>4
<1>3. ASSUME NEW w \in Worker, Rotate(w)
      PROVE  Abstract!Next
  <2>1. AccountOf(w) \in Account
    BY <1>3, AtIsCall DEF Rotate
  <2>2. QED
    BY <1>3, <2>1, RotateRefines DEF Abstract!Next
<1>4. ASSUME NEW e \in Editor, WriteLogin(e)
      PROVE  Abstract!Next \/ UNCHANGED <<Held, Used>>
  <2>1. editor[e].account \in Account
    BY <1>4, PartsTyped DEF WriteLogin
  <2>2. QED
    BY <1>4, <2>1, WriteLoginRefines DEF Abstract!Next
<1>5. KeepsMemory /\ LoginApart /\ \A w \in Worker : ~PersistFails(w)
  BY DEF NothingLost, KeepsMemory, OneHolder, PersistFails
<1>6. QED
  BY <1>1, <1>2, <1>3, <1>4, <1>5, StepKinds, PersistRefines, BeginLoginRefines

\* While nothing is lost, renewal and login implement the abstract rotation: of
\* every account one unused credential is held, in the row or in the call that
\* will write it, and no credential is exchanged twice.
THEOREM Rotates ==
    ASSUME NothingLost
    PROVE  Spec => RotatesCredential
<1>1. TypeOK /\ OneHolder /\ Serial' /\ [Next]_vars => [Abstract!Next]_<<Held, Used>>
  BY StepRefines
<1>2. OneHolder => Serial
  BY DEF OneHolder
<1>3. QED
  BY <1>1, <1>2, InitRefines, TypeCorrect, HolderUnique, PTL
     DEF Spec, RotatesCredential, Abstract!Spec

-----------------------------------------------------------------------------
(* The memory of a lost rotation.                                            *)

\* What the refresh state of an account has to do with the row and with the
\* call in hand.
Noted ==
    /\ \A w \in Worker : Inside(w) =>
          LET a == AccountOf(w)
              r == worker[w].latest
          IN /\ state[a].credential = Fingerprint(r)
             /\ row[a].refresh = r.refresh => Fingerprint(row[a]) = Fingerprint(r)
    /\ \A a \in Account : Consumed(a, row[a].refresh) =>
          /\ state[a].credential = Fingerprint(row[a])
          /\ \/ state[a].failures > 0
             \/ \E w \in Worker : At(w, "answered") /\ AccountOf(w) = a

Remembering == Serial /\ CarriedIssued /\ LoginApart /\ Noted

LEMMA InitRemembering == Init => Remembering
<1> SUFFICES ASSUME Init PROVE Remembering
  OBVIOUS
<1>1. TypeOK /\ OneHolder
  BY InitTyped, InitOneHolder
<1>2. Serial /\ CarriedIssued /\ LoginApart /\ StoredIsCurrent
  BY <1>1, HolderParts, OneHolderMeans
<1>3. Noted
  BY <1>2 DEF Init, Noted, Inside, StoredIsCurrent
<1>4. QED
  BY <1>2, <1>3 DEF Remembering

\* A step that keeps what a consumed credential is remembered by.
Steady ==
    /\ \A a \in Account :
          /\ row'[a].refresh = row[a].refresh
          /\ Fingerprint(row'[a]) = Fingerprint(row[a])
          /\ Consumed(a, row[a].refresh)' => Consumed(a, row[a].refresh)
          /\ state'[a].credential = state[a].credential
          /\ state[a].failures > 0 => state'[a].failures > 0
    /\ \A w \in Worker :
          /\ Inside(w)' => /\ Inside(w) /\ AccountOf(w)' = AccountOf(w)
                           /\ worker'[w].latest = worker[w].latest
          /\ At(w, "answered") => \/ At(w, "answered")' /\ AccountOf(w)' = AccountOf(w)
                                  \/ state'[AccountOf(w)].failures > 0

LEMMA SteadyNoted ==
    ASSUME TypeOK, Noted, Steady
    PROVE  Noted'
<1> USE DEF Steady
<1>1. ASSUME NEW w \in Worker, Inside(w)'
      PROVE  /\ state'[AccountOf(w)'].credential = Fingerprint(worker'[w].latest)
             /\ row'[AccountOf(w)'].refresh = worker'[w].latest.refresh =>
                   Fingerprint(row'[AccountOf(w)']) = Fingerprint(worker'[w].latest)
  <2>1. /\ Inside(w) /\ AccountOf(w)' = AccountOf(w) /\ AccountOf(w) \in Account
        /\ worker'[w].latest = worker[w].latest
    BY <1>1, PartsTyped DEF Inside
  <2>2. /\ state[AccountOf(w)].credential = Fingerprint(worker[w].latest)
        /\ row[AccountOf(w)].refresh = worker[w].latest.refresh =>
              Fingerprint(row[AccountOf(w)]) = Fingerprint(worker[w].latest)
    BY <2>1 DEF Noted
  <2>3. QED
    BY <2>1, <2>2
<1>2. ASSUME NEW a \in Account, Consumed(a, row[a].refresh)'
      PROVE  /\ state'[a].credential = Fingerprint(row'[a])
             /\ \/ state'[a].failures > 0
                \/ \E w \in Worker : At(w, "answered")' /\ AccountOf(w)' = a
  <2>1. /\ state[a].credential = Fingerprint(row[a])
        /\ \/ state[a].failures > 0
           \/ \E w \in Worker : At(w, "answered") /\ AccountOf(w) = a
    BY <1>2 DEF Noted
  <2>2. QED
    BY <2>1
<1>3. QED
  BY <1>1, <1>2 DEF Noted

\* The state that a failed refresh leaves, and the passing of time.
LEMMA RecordKeeps ==
    ASSUME NEW s \in RefreshState, NEW d \in Nat, NEW b \in BOOLEAN
    PROVE  /\ RecordFailure(s, d, b).credential = s.credential
           /\ RecordFailure(s, d, b).failures > 0
           /\ Elapse(s).credential = s.credential
           /\ Elapse(s).failures = s.failures
<1>1. CountFailure(s) \in 1..Len(Backoff)
  BY RefreshStateTyped, FingerprintTyped, FirstCredTyped
<1>2. RecordFailure(s, d, b).failures = CountFailure(s) /\ RecordFailure(s, d, b).credential = s.credential
  <2> DEFINE f == CountFailure(s)
  <2>1. RecordFailure(s, d, b) = [s EXCEPT !.wait = d, !.dead = b, !.failures = f]
    BY DEF RecordFailure
  <2> HIDE DEF f
  <2>2. RecordFailure(s, d, b).failures = f /\ RecordFailure(s, d, b).credential = s.credential
    BY <2>1 DEF RefreshState
  <2>3. QED
    BY <2>2 DEF f
<1>3. Elapse(s).credential = s.credential /\ Elapse(s).failures = s.failures
  <2> DEFINE t == IF s.wait > 0 THEN s.wait - 1 ELSE 0
  <2>1. Elapse(s) = [s EXCEPT !.wait = t]
    BY DEF Elapse
  <2> HIDE DEF t
  <2>2. QED
    BY <2>1 DEF RefreshState
<1>4. CountFailure(s) > 0
  BY <1>1, DelaysTyped
<1>5. QED
  BY <1>2, <1>3, <1>4

\* A refresh that fails after its answer is counted against the account.
LEMMA FailureCounted ==
    ASSUME TypeOK, NEW w \in Worker, Fail(w) \/ PersistFails(w)
    PROVE  /\ AccountOf(w) \in Account
           /\ state'[AccountOf(w)].failures > 0
           /\ \A a \in Account : /\ state'[a].credential = state[a].credential
                                 /\ state[a].failures > 0 => state'[a].failures > 0
           /\ UNCHANGED <<row, session>>
           /\ worker'[w] = Nil /\ \A v \in Worker \ {w} : worker'[v] = worker[v]
<1> DEFINE a == AccountOf(w)
<1>1. a \in Account
  BY AtIsCall DEF Fail, PersistFails
<1>2. state[a] \in RefreshState
  BY <1>1 DEF TypeOK
<1>3. PICK d \in Nat, b \in BOOLEAN : state' = [state EXCEPT ![a] = RecordFailure(state[a], d, b)]
  <2>1. DeadBackoff \in Nat /\ RetryAfter \subseteq Nat
    BY DelaysTyped
  <2>2. BackoffAfter(CountFailure(state[a])) \in Nat
    BY <1>2, RefreshStateTyped, FingerprintTyped, FirstCredTyped
  <2>3. CASE Fail(w)
    BY <2>1, <2>2, <2>3 DEF Fail
  <2>4. CASE PersistFails(w)
    <3>1. state' = [state EXCEPT ![a] = RecordFailure(state[a], DeadBackoff, TRUE)]
      BY <1>1, <2>4 DEF PersistFails, TypeOK
    <3>2. QED
      BY <2>1, <3>1
  <2>5. QED
    BY <2>3, <2>4
<1>4. /\ state'[a] = RecordFailure(state[a], d, b)
      /\ \A c \in Account \ {a} : state'[c] = state[c]
  BY <1>1, <1>3 DEF TypeOK
<1>5. state'[a].credential = state[a].credential /\ state'[a].failures > 0
  BY <1>2, <1>4, RecordKeeps
<1>6. /\ UNCHANGED <<row, session>>
      /\ worker'[w] = Nil /\ \A v \in Worker \ {w} : worker'[v] = worker[v]
  BY DEF Fail, PersistFails, Return, TypeOK
<1>7. QED
  BY <1>1, <1>4, <1>5, <1>6

LEMMA QuietSteady ==
    ASSUME TypeOK, Quiet,
           \A a \in Account : /\ Fingerprint(row'[a]) = Fingerprint(row[a])
                              /\ state'[a].credential = state[a].credential
                              /\ state[a].failures > 0 => state'[a].failures > 0,
           \A w \in Worker : At(w, "answered") =>
              \/ At(w, "answered")' /\ AccountOf(w)' = AccountOf(w)
              \/ state'[AccountOf(w)].failures > 0
    PROVE  Steady
<1>1. \A a \in Account, s \in 1..MaxSession : session'[a][s].n = session[a][s].n
  BY DEF Quiet, Numbers
<1>2. \A a \in Account : row'[a].refresh = row[a].refresh /\ row[a].refresh.s \in 1..MaxSession
  BY PartsTyped DEF Quiet
<1>3. \A a \in Account : Consumed(a, row[a].refresh)' => Consumed(a, row[a].refresh)
  BY <1>1, <1>2 DEF Consumed
<1>4. QED
  BY <1>2, <1>3 DEF Quiet, Steady

\* Only the lock, an exchange, the write of its credential and a login touch
\* what a consumed credential is remembered by.
LEMMA StepSteady ==
    ASSUME KeepsMemory, TypeOK, CarriedIssued, LoginApart, [Next]_vars,
           ~ \E w \in Worker : Acquire(w) \/ Rotate(w) \/ Persist(w),
           ~ \E e \in Editor : WriteLogin(e)
    PROVE  Steady
<1>1. ASSUME NEW w \in Worker, PersistFails(w)
      PROVE  Steady
  <2>1. /\ UNCHANGED <<row, session>> /\ worker'[w] = Nil
        /\ state'[AccountOf(w)].failures > 0
        /\ \A v \in Worker \ {w} : worker'[v] = worker[v]
        /\ \A a \in Account : /\ state'[a].credential = state[a].credential
                              /\ state[a].failures > 0 => state'[a].failures > 0
    BY <1>1, FailureCounted
  <2>2. \A v \in Worker :
          /\ Inside(v)' => /\ Inside(v) /\ AccountOf(v)' = AccountOf(v)
                           /\ worker'[v].latest = worker[v].latest
          /\ At(v, "answered") => \/ At(v, "answered")' /\ AccountOf(v)' = AccountOf(v)
                                  \/ state'[AccountOf(v)].failures > 0
    BY <2>1 DEF Inside, At, AccountOf
  <2>3. QED
    BY <2>1, <2>2 DEF Steady, Consumed
<1>2. ASSUME NEW e \in Editor, NEW a \in Account, NEW s \in 1..MaxSession, BeginLogin(e, a, s)
      PROVE  Steady
  <2>1. UNCHANGED <<row, worker, state>> /\ row[a].refresh.s # s
    BY <1>2, BeginLoginDoes
  <2>2. \A b \in Account, t \in 1..MaxSession :
           session'[b][t].n = IF b = a /\ t = s THEN 1 ELSE session[b][t].n
    BY <1>2, BeginLoginDoes
  <2>3. \A b \in Account : Consumed(b, row[b].refresh)' => Consumed(b, row[b].refresh)
    BY <2>1, <2>2, PartsTyped DEF Consumed
  <2>4. \A v \in Worker :
          /\ Inside(v)' => Inside(v) /\ AccountOf(v)' = AccountOf(v)
          /\ At(v, "answered") => At(v, "answered")' /\ AccountOf(v)' = AccountOf(v)
    BY <2>1 DEF Inside, At, AccountOf
  <2>5. QED
    BY <2>1, <2>3, <2>4 DEF Steady
<1> SUFFICES ASSUME Quiet PROVE Steady
  BY <1>1, <1>2, StepKinds
<1>3. ASSUME UNCHANGED <<row, state>>, NEW w \in Worker, ~At(w, "answered"),
             \A v \in Worker \ {w} : worker'[v] = worker[v]
      PROVE  Steady
  BY <1>3, QuietSteady DEF At, AccountOf
<1>4. ASSUME NEW w \in Worker, NEW a \in Account, NEW force \in BOOLEAN, CallRefresh(w, a, force)
      PROVE  Steady
  <2>1. /\ UNCHANGED <<row, state>> /\ ~At(w, "answered")
        /\ \A v \in Worker \ {w} : worker'[v] = worker[v]
    BY <1>4 DEF CallRefresh, At, TypeOK
  <2>2. QED
    BY <1>3, <2>1
<1>5. ASSUME NEW w \in Worker,
             \/ AcquireFails(w) \/ HandOff(w) \/ Throttled(w) \/ NotDue(w) \/ SiteBusy(w)
             \/ Send(w) \/ RejectReplay(w) \/ Decline(w)
      PROVE  Steady
  <2>1. UNCHANGED <<row, state>> /\ ~At(w, "answered")
    BY <1>5 DEF AcquireFails, HandOff, Throttled, NotDue, SiteBusy, Send, WantsRequest,
                RejectReplay, Decline, At
  <2>2. \A v \in Worker \ {w} : worker'[v] = worker[v]
    BY <1>5 DEF AcquireFails, HandOff, Throttled, NotDue, SiteBusy, Send, RejectReplay,
                Decline, Reply, Return, TypeOK
  <2>3. QED
    BY <1>3, <2>1, <2>2
<1>6. ASSUME NEW w \in Worker, Fail(w)
      PROVE  Steady
  <2>1. /\ UNCHANGED row /\ state'[AccountOf(w)].failures > 0
        /\ \A v \in Worker \ {w} : worker'[v] = worker[v]
        /\ \A a \in Account : /\ state'[a].credential = state[a].credential
                              /\ state[a].failures > 0 => state'[a].failures > 0
    BY <1>6, FailureCounted
  <2>2. \A v \in Worker : At(v, "answered") =>
              \/ At(v, "answered")' /\ AccountOf(v)' = AccountOf(v)
              \/ state'[AccountOf(v)].failures > 0
    BY <2>1 DEF At, AccountOf
  <2>3. QED
    BY <2>1, <2>2, QuietSteady
<1>7. ASSUME UNCHANGED worker,
             \A a \in Account : /\ Fingerprint(row'[a]) = Fingerprint(row[a])
                                /\ state'[a].credential = state[a].credential
                                /\ state'[a].failures = state[a].failures
      PROVE  Steady
  <2>1. \A v \in Worker : At(v, "answered") => At(v, "answered")' /\ AccountOf(v)' = AccountOf(v)
    BY <1>7 DEF At, AccountOf
  <2>2. \A a \in Account : state[a].failures > 0 => state'[a].failures > 0
    BY <1>7
  <2>3. QED
    BY <1>7, <2>1, <2>2, QuietSteady
<1>8. ASSUME NEW a \in Account, Environment(a)
      PROVE  Steady
  <2>1. UNCHANGED <<worker, state>>
    BY <1>8 DEF Environment, TokenAges, SetStatus, UpstreamRevokes, OpenSession
  <2>2. PICK st : \/ UNCHANGED row
                  \/ row' = [row EXCEPT ![a].due = TRUE]
                  \/ row' = [row EXCEPT ![a].status = st]
    BY <1>8 DEF Environment, TokenAges, SetStatus, UpstreamRevokes, OpenSession
  <2>3. \/ row'[a] = row[a]
        \/ row'[a] = [row[a] EXCEPT !.due = TRUE]
        \/ row'[a] = [row[a] EXCEPT !.status = st]
    BY <2>2 DEF TypeOK
  <2>4. row'[a].token = row[a].token /\ row'[a].refresh = row[a].refresh
        /\ row'[a].route = row[a].route
    BY <2>3, PartsTyped DEF Row
  <2>5. \A b \in Account \ {a} : row'[b] = row[b]
    BY <2>2 DEF TypeOK
  <2>6. \A b \in Account : Fingerprint(row'[b]) = Fingerprint(row[b])
    BY <2>4, <2>5 DEF Fingerprint
  <2>7. QED
    BY <1>7, <2>1, <2>6
<1>9. CASE Tick
  <2>1. UNCHANGED <<row, worker>>
    BY <1>9 DEF Tick
  <2>2. ASSUME NEW a \in Account
        PROVE  state'[a].credential = state[a].credential /\ state'[a].failures = state[a].failures
    <3>1. state'[a] = Elapse(state[a]) /\ state[a] \in RefreshState
      BY <1>9 DEF Tick, TypeOK
    <3>2. QED
      BY <3>1, RecordKeeps
  <2>3. QED
    BY <1>7, <2>1, <2>2
<1>10. CASE UNCHANGED vars
  BY <1>7, <1>10 DEF vars
<1>11. /\ ~Restart
       /\ \A e \in Editor, a \in Account, kind \in EditorKind : ~BeginEdit(e, a, kind)
       /\ \A e \in Editor : ~WriteHealth(e) /\ ~WriteEdit(e)
  BY DEF Restart, BeginEdit, KeepsMemory, WriteHealth, WriteEdit, LoginApart
<1>12. QED
  BY <1>1, <1>2, <1>4, <1>5, <1>6, <1>8, <1>9, <1>10, <1>11, Zenon
     DEF Next, WorkerStep, Proceed, EditorStep

\* The lock: the state is that of the row just read.
LEMMA AcquireNoted ==
    ASSUME TypeOK, Serial, Noted, NEW w \in Worker, Acquire(w)
    PROVE  Noted'
<1> DEFINE a == AccountOf(w)
           fp == Fingerprint(row[a])
<1>1. a \in Account /\ worker[w] \in Call /\ mutex[a] = Nil /\ state[a] \in RefreshState
  BY AtIsCall DEF Acquire, MutexFree, TypeOK
<1>2. UNCHANGED <<row, session>> /\ ~At(w, "answered")
  BY DEF Acquire, At
<1>3. \A v \in Worker : Inside(v) => AccountOf(v) # a
  BY <1>1, NilFresh DEF Serial
<1>4. \A v \in Worker \ {w} : worker'[v] = worker[v]
  BY DEF Acquire, TypeOK
<1>5. worker'[w].latest = row[a] /\ AccountOf(w)' = a
  <2>1. worker'[w] = [worker[w] EXCEPT !.pc = "locked", !.latest = row[a]]
    BY DEF Acquire, TypeOK
  <2>2. QED
    BY <1>1, <2>1 DEF Call, AccountOf
<1>6. /\ state'[a] = SyncCredential(state[a], fp)
      /\ \A b \in Account \ {a} : state'[b] = state[b]
  BY <1>1 DEF Acquire, TypeOK
<1>7. /\ state'[a].credential = fp
      /\ state[a].credential = fp => state'[a] = state[a]
  BY <1>1, <1>6 DEF SyncCredential, FreshState
<1>8. ASSUME NEW v \in Worker, Inside(v)'
      PROVE  /\ state'[AccountOf(v)'].credential = Fingerprint(worker'[v].latest)
             /\ row'[AccountOf(v)'].refresh = worker'[v].latest.refresh =>
                   Fingerprint(row'[AccountOf(v)']) = Fingerprint(worker'[v].latest)
  <2>1. CASE v = w
    BY <1>2, <1>5, <1>7, <2>1
  <2>2. CASE v # w
    <3>1. worker'[v] = worker[v] /\ Inside(v) /\ AccountOf(v)' = AccountOf(v)
      BY <1>4, <1>8, <2>2 DEF Inside, AccountOf
    <3>2. AccountOf(v) \in Account \ {a}
      BY <1>3, <3>1, PartsTyped DEF Inside
    <3>3. state'[AccountOf(v)] = state[AccountOf(v)]
      BY <1>6, <3>2
    <3>4. QED
      BY <1>2, <3>1, <3>3 DEF Noted
  <2>3. QED
    BY <2>1, <2>2
<1>9. ASSUME NEW b \in Account, Consumed(b, row[b].refresh)'
      PROVE  /\ state'[b].credential = Fingerprint(row'[b])
             /\ \/ state'[b].failures > 0
                \/ \E v \in Worker : At(v, "answered")' /\ AccountOf(v)' = b
  <2>1. /\ state[b].credential = Fingerprint(row[b])
        /\ \/ state[b].failures > 0
           \/ \E v \in Worker : At(v, "answered") /\ AccountOf(v) = b
    BY <1>2, <1>9 DEF Noted, Consumed
  <2>2. CASE b = a
    <3>1. ~ \E v \in Worker : At(v, "answered") /\ AccountOf(v) = a
      BY <1>3 DEF At, Inside
    <3>2. QED
      BY <1>2, <1>7, <2>1, <2>2, <3>1
  <2>3. CASE b # a
    BY <1>2, <1>4, <1>6, <2>1, <2>3 DEF At, AccountOf
  <2>4. QED
    BY <2>2, <2>3
<1>10. QED
  BY <1>8, <1>9 DEF Noted

\* The exchange: the credential the row still holds is the one in the call.
LEMMA RotateNoted ==
    ASSUME TypeOK, Noted, NEW w \in Worker, Rotate(w)
    PROVE  Noted'
<1> DEFINE a == AccountOf(w)
           c == worker[w].latest.refresh
<1>1. /\ a \in Account /\ c \in Cred /\ c.n \in Nat /\ Inside(w)
      /\ UNCHANGED <<row, state>> /\ session[a][c.s].n = c.n
      /\ At(w, "answered")' /\ AccountOf(w)' = a /\ worker'[w].latest = worker[w].latest
      /\ \A v \in Worker \ {w} : worker'[v] = worker[v]
  BY RotateDoes, PartsTyped
<1>2. \A b \in Account, t \in 1..MaxSession :
         session'[b][t].n = IF b = a /\ t = c.s THEN c.n + 1 ELSE session[b][t].n
  BY RotateDoes
<1>3. ASSUME NEW v \in Worker, Inside(v)'
      PROVE  Inside(v) /\ AccountOf(v)' = AccountOf(v) /\ worker'[v].latest = worker[v].latest
  BY <1>1, <1>3 DEF Inside, AccountOf
<1>4. state[a].credential = Fingerprint(worker[w].latest)
      /\ (row[a].refresh = c => Fingerprint(row[a]) = Fingerprint(worker[w].latest))
  BY <1>1 DEF Noted
<1> HIDE DEF a, c
<1>5. ASSUME NEW b \in Account, Consumed(b, row[b].refresh)'
      PROVE  /\ state[b].credential = Fingerprint(row[b])
             /\ \/ state[b].failures > 0
                \/ \E v \in Worker : At(v, "answered")' /\ AccountOf(v)' = b
  <2>1. CASE Consumed(b, row[b].refresh)
    <3>1. /\ state[b].credential = Fingerprint(row[b])
          /\ \/ state[b].failures > 0
             \/ \E v \in Worker : At(v, "answered") /\ AccountOf(v) = b
      BY <2>1 DEF Noted
    <3>2. ~At(w, "answered")
      BY DEF Rotate, At
    <3>3. QED
      BY <1>1, <3>1, <3>2 DEF At, AccountOf
  <2>2. CASE ~Consumed(b, row[b].refresh)
    <3> DEFINE r == row[b].refresh
    <3>1. r \in Cred /\ r.s \in 1..MaxSession /\ r.n \in Nat /\ session[b][r.s].n \in Nat
      BY PartsTyped
    <3>2. r.n < session'[b][r.s].n /\ ~(r.n < session[b][r.s].n)
      BY <1>1, <1>5, <2>2 DEF Consumed
    <3> HIDE DEF r
    <3>3. b = a /\ r.s = c.s /\ r.n = c.n
      BY <1>1, <1>2, <3>1, <3>2
    <3>4. r = c
      BY <1>1, <3>1, <3>3 DEF Cred
    <3>5. QED
      BY <1>1, <1>4, <3>3, <3>4 DEF r
  <2>3. QED
    BY <2>1, <2>2
<1>6. QED
  BY <1>1, <1>3, <1>5 DEF Noted

\* The write: the row holds a credential that is not consumed.
LEMMA PersistNoted ==
    ASSUME TypeOK, Serial, CarriedIssued, Noted, NEW w \in Worker, Persist(w)
    PROVE  Noted'
<1> DEFINE a == AccountOf(w)
           i == worker[w].issued
<1>1. /\ a \in Account /\ i \in Cred /\ Rotated(w) /\ Inside(w)
      /\ UNCHANGED session /\ row'[a].refresh = i
      /\ \A b \in Account \ {a} : row'[b] = row[b]
      /\ worker'[w] = Nil /\ \A v \in Worker \ {w} : worker'[v] = worker[v]
  BY PersistDoes
<1>2. \A b \in Account \ {a} : state'[b] = state[b]
  BY DEF Persist, TypeOK
<1>3. ASSUME NEW b \in Account, b = a
      PROVE  ~Consumed(b, row[b].refresh)'
  <2>1. session[a][i.s].n = i.n /\ i.n \in Nat
    BY <1>1, PartsTyped DEF CarriedIssued, Current
  <2>2. QED
    BY <1>1, <1>3, <2>1 DEF Consumed
<1>4. ASSUME NEW v \in Worker, Inside(v)'
      PROVE  /\ state'[AccountOf(v)'].credential = Fingerprint(worker'[v].latest)
             /\ row'[AccountOf(v)'].refresh = worker'[v].latest.refresh =>
                   Fingerprint(row'[AccountOf(v)']) = Fingerprint(worker'[v].latest)
  <2>1. v # w /\ Inside(v) /\ worker'[v] = worker[v] /\ AccountOf(v)' = AccountOf(v)
    BY <1>1, <1>4 DEF Inside, AccountOf
  <2>2. AccountOf(v) \in Account \ {a}
    BY <1>1, <2>1, AloneInside, PartsTyped DEF Inside
  <2>3. /\ state'[AccountOf(v)] = state[AccountOf(v)]
        /\ row'[AccountOf(v)] = row[AccountOf(v)]
    BY <1>1, <1>2, <2>2
  <2>4. QED
    BY <2>1, <2>3 DEF Noted
<1>5. ASSUME NEW b \in Account, Consumed(b, row[b].refresh)'
      PROVE  /\ state'[b].credential = Fingerprint(row'[b])
             /\ \/ state'[b].failures > 0
                \/ \E v \in Worker : At(v, "answered")' /\ AccountOf(v)' = b
  <2>1. b # a /\ row'[b] = row[b] /\ state'[b] = state[b]
    BY <1>1, <1>2, <1>3, <1>5
  <2>2. /\ state[b].credential = Fingerprint(row[b])
        /\ \/ state[b].failures > 0
           \/ \E v \in Worker : At(v, "answered") /\ AccountOf(v) = b
    BY <1>1, <1>5, <2>1 DEF Noted, Consumed
  <2>3. QED
    BY <1>1, <2>1, <2>2 DEF At, AccountOf
<1>6. QED
  BY <1>4, <1>5 DEF Noted

\* The login: its credential is not consumed, and no call carries it.
LEMMA WriteLoginNoted ==
    ASSUME TypeOK, LoginApart, Noted, NEW e \in Editor, WriteLogin(e)
    PROVE  Noted'
<1> DEFINE a == editor[e].account
           c == editor[e].cred
<1>1. UNCHANGED <<session, worker, state>> /\ editor[e] # Nil
  BY DEF WriteLogin
<1>2. a \in Account /\ c \in Cred /\ c.n \in Nat
  BY <1>1, PartsTyped
<1>3. row'[a].refresh = c /\ \A b \in Account \ {a} : row'[b] = row[b]
  BY <1>2 DEF WriteLogin, TypeOK
<1>4. /\ Current(a, c)
      /\ \A v \in Worker : Inside(v) /\ AccountOf(v) = a => worker[v].latest.refresh.s # c.s
  BY <1>1 DEF LoginApart
<1>5. ASSUME NEW b \in Account, b = a
      PROVE  ~Consumed(b, row[b].refresh)'
  BY <1>1, <1>2, <1>3, <1>4, <1>5 DEF Consumed, Current
<1>6. ASSUME NEW v \in Worker, Inside(v)
      PROVE  /\ state[AccountOf(v)].credential = Fingerprint(worker[v].latest)
             /\ row'[AccountOf(v)].refresh = worker[v].latest.refresh =>
                   Fingerprint(row'[AccountOf(v)]) = Fingerprint(worker[v].latest)
  <2>1. AccountOf(v) \in Account
    BY <1>6, PartsTyped DEF Inside
  <2>2. CASE AccountOf(v) = a
    BY <1>3, <1>4, <1>6, <2>2 DEF Noted
  <2>3. CASE AccountOf(v) # a
    BY <1>3, <1>6, <2>1, <2>3 DEF Noted
  <2>4. QED
    BY <2>2, <2>3
<1>7. ASSUME NEW b \in Account, Consumed(b, row[b].refresh)'
      PROVE  /\ state[b].credential = Fingerprint(row'[b])
             /\ \/ state[b].failures > 0
                \/ \E v \in Worker : At(v, "answered") /\ AccountOf(v) = b
  <2>1. row'[b] = row[b]
    BY <1>3, <1>5, <1>7
  <2>2. QED
    BY <1>1, <1>7, <2>1 DEF Noted, Consumed
<1>8. QED
  BY <1>1, <1>6, <1>7 DEF Noted, Inside, At, AccountOf

LEMMA StepRemembering ==
    ASSUME KeepsMemory, TypeOK, TypeOK', Remembering, [Next]_vars
    PROVE  Remembering'
<1> USE DEF Remembering
<1>1. Serial'
  BY StepSerial
<1>2. (CarriedIssued /\ LoginApart)'
  BY StepIssued
<1>3. Noted'
  BY StepSteady, SteadyNoted, AcquireNoted, RotateNoted, PersistNoted, WriteLoginNoted
<1>4. QED
  BY <1>1, <1>2, <1>3

\* As long as the process runs and besides refreshes only logins write the
\* credential, a rotation whose answer or write was lost stays on record.
THEOREM ConsumedRemembered ==
    ASSUME KeepsMemory
    PROVE  Spec => []ConsumedIsRemembered
<1>1. Init => TypeOK /\ Remembering
  BY InitTyped, InitRemembering
<1>2. TypeOK /\ Remembering /\ [Next]_vars => (TypeOK /\ Remembering)'
  BY StepTyped, StepRemembering
<1>3. TypeOK /\ Remembering => ConsumedIsRemembered
  <2> SUFFICES ASSUME TypeOK, Remembering, NEW a \in Account, mutex[a] = Nil,
                      Consumed(a, row[a].refresh)
               PROVE  state[a].credential = Fingerprint(row[a]) /\ state[a].failures > 0
    BY DEF ConsumedIsRemembered
  <2>1. \A w \in Worker : At(w, "answered") => AccountOf(w) # a
    BY NilFresh DEF Remembering, Serial, Inside, At
  <2>2. QED
    BY <2>1 DEF Remembering, Noted
<1>4. QED
  BY <1>1, <1>2, <1>3, PTL DEF Spec
=============================================================================

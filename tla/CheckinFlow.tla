----------------------------- MODULE CheckinFlow -----------------------------
(***************************************************************************)
(* Check-ins and balance refreshes of one account: service/checkin.go      *)
(* (CheckinAccount, tryAutoRelogin) and service/balance.go                 *)
(* (RefreshBalance).  Each works on a copy of the account row it read at   *)
(* its start, presents a credential to the panel, gets the session renewed *)
(* or logs in again when the credential is refused, tries once more, and   *)
(* writes the account's status.                                            *)
(*                                                                         *)
(* Flows are the goroutines of the timers, the balance job and the HTTP    *)
(* handlers; nothing keeps two of them off the same account.  A renewal is *)
(* the subject of ManagedRefresh; here it is the one step in which the     *)
(* calling flow sees its outcome.  The panel is external.                  *)
(***************************************************************************)
EXTENDS Naturals

CONSTANTS
    Flow,       \* goroutines that check in or refresh the balance
    Setups,     \* the kinds of account and site in this instance
    MaxToken,   \* bound: access tokens the panel ever issues
    StoreFails  \* whether a write of the row may fail, which the code ignores

\* managed: sub2api or new-api-v1.  external: the site has a check-in URL of
\* its own.  own: the account has a checkin_credential.  password: one is
\* stored for autoRelogin.  solver: a Turnstile solver is configured.
Setup == [managed : BOOLEAN, external : BOOLEAN, own : BOOLEAN,
          password : BOOLEAN, solver : BOOLEAN]

ASSUME SetupsTyped == /\ Setups \subseteq Setup
                      /\ MaxToken \in Nat \ {0}
                      /\ StoreFails \in BOOLEAN

VARIABLES
    setup,      \* what kind of account this is
    row,        \* accounts: access token, status, and whether the panel
                \* still takes the refresh credential in extra_config
    issued,     \* panel: the newest access token
    flow        \* local variables of each flow

vars == <<setup, row, issued, flow>>
-----------------------------------------------------------------------------
Token == 1 .. MaxToken
OwnCredential == 0
Credential == Token \cup {OwnCredential}
Status == {"active", "expired"}
\* "success" includes that today's check-in was made already.
Answer == {"none", "success", "unsupported", "turnstile", "rejected", "error"}
Kind == {"none", "checkin", "balance", "nested"}
Phase == {"idle", "begin", "ask", "answered", "relogin", "login", "store",
          "record", "final"}

\* before: row.Status, in inner the one read by the balance refresh within a
\* check-in; token: row.AccessToken; cred: checkinCredential; solved: the
\* solver was asked.  History: rejected, what the panel refused this flow;
\* unsaved, the UPDATE with its login failed; misjudged, its renewal called a
\* refresh credential dead that works.
Local == [kind : Kind, pc : Phase, before : Status, inner : Status,
          token : Token, cred : Credential, solved : BOOLEAN,
          relogged : BOOLEAN, answer : Answer, rejected : SUBSET Credential,
          unsaved : BOOLEAN, misjudged : BOOLEAN]

TypeOK ==
    /\ setup \in Setups
    /\ row \in [token : Token, status : Status, refresh : BOOLEAN]
    /\ issued \in Token
    /\ flow \in [Flow -> Local]

NoFlow == [kind |-> "none", pc |-> "idle", before |-> "active",
           inner |-> "active", token |-> 1, cred |-> 1, solved |-> FALSE,
           relogged |-> FALSE, answer |-> "none", rejected |-> {},
           unsaved |-> FALSE, misjudged |-> FALSE]

Init ==
    /\ setup \in Setups
    /\ row \in [token : {1}, status : Status, refresh : {setup.managed}]
    /\ issued = 1
    /\ flow = [f \in Flow |-> NoFlow]

At(f, pc) == flow[f].pc = pc
Is(f, kinds) == flow[f].kind \in kinds

\* _ = db.UpdateAccount: an error is dropped.
Write(r) == \/ row' = r
            \/ StoreFails /\ UNCHANGED row
-----------------------------------------------------------------------------
\* CheckinAccount and RefreshBalance read the row.
Start(f, kind) ==
    /\ At(f, "idle")
    /\ flow' = [flow EXCEPT ![f] = [NoFlow EXCEPT
          !.kind = kind, !.pc = "begin", !.before = row.status, !.token = row.token]]
    /\ UNCHANGED <<setup, row, issued>>

WriteStatus(status) == Write([row EXCEPT !.status = status])
Return(f) == flow' = [flow EXCEPT ![f] = NoFlow]
\* The check-in goes on after its balance refresh.
Resume(f) ==
    flow' = [flow EXCEPT ![f] = [NoFlow EXCEPT
        !.kind = "checkin", !.pc = "final", !.before = flow[f].before,
        !.answer = "success", !.rejected = flow[f].rejected,
        !.unsaved = flow[f].unsaved]]

\* The site or the account is disabled, the platform is unknown, the balance
\* was read just before or there is none: nothing but the health is written.
Skip(f) ==
    /\ At(f, "begin")
    /\ IF Is(f, {"nested"}) THEN Resume(f) ELSE Return(f)
    /\ UNCHANGED <<setup, row, issued>>

\* resolveCheckinCredential.
CheckinCredential(token) == IF setup.own THEN OwnCredential ELSE token

\* After the pre-refresh the flow goes on with this token.
Prepare(f, token) ==
    flow' = [flow EXCEPT ![f].pc = "ask", ![f].token = token,
                         ![f].cred = CheckinCredential(token)]

\* The token the next answer of the panel will bring.
NewToken == issued + 1
Issue == /\ NewToken \in Token
         /\ issued' = NewToken

\* refreshManagedSession renewed the session; an expired account is active.
Renewed == [token |-> NewToken, refresh |-> TRUE, status |-> "active"]
Renew == /\ setup.managed
         /\ row.refresh
         /\ Issue
         /\ row' = Renewed
\* The panel no longer takes the refresh credential, or its successor is lost.
LoseCredential == /\ setup.managed
                  /\ row.refresh
                  /\ row' = [row EXCEPT !.refresh = FALSE]

\* EnsureManagedSession: nothing is due or it fails; a token stored since is
\* returned; the session is renewed; the renewal goes wrong.
EnsureSession(f) ==
    /\ At(f, "begin")
    /\ \/ Prepare(f, flow[f].token) /\ UNCHANGED <<row, issued>>
       \/ setup.managed /\ Prepare(f, row.token) /\ UNCHANGED <<row, issued>>
       \/ Renew /\ Prepare(f, NewToken)
       \/ LoseCredential /\ Prepare(f, flow[f].token) /\ UNCHANGED issued
    /\ UNCHANGED setup
-----------------------------------------------------------------------------
\* executeCheckin: the external URL gets checkinCredential, the panel the
\* token; a balance is always read with the token.
Presented(f) ==
    IF Is(f, {"checkin"}) /\ setup.external THEN flow[f].cred ELSE flow[f].token

\* What the panel answers.  "rejected" is any message that AnalyzeCheckinFailure
\* takes for an expired token, a 403 of a gateway included, so a token the
\* panel would accept may get it as well.
Possible(f) == IF Is(f, {"checkin"}) THEN Answer \ {"none"}
                                     ELSE {"success", "rejected", "error"}

Ask(f) ==
    /\ At(f, "ask")
    /\ \E answer \in Possible(f) :
          flow' = [flow EXCEPT
              ![f].pc = "answered", ![f].answer = answer,
              ![f].rejected = IF answer = "rejected" THEN @ \cup {Presented(f)} ELSE @]
    /\ UNCHANGED <<setup, row, issued>>
-----------------------------------------------------------------------------
MaySolve(f) == /\ Is(f, {"checkin"})
               /\ flow[f].answer = "turnstile"
               /\ setup.solver
               /\ ~flow[f].solved /\ ~flow[f].relogged

\* SolveTurnstileIfConfigured: the check-in is repeated, or skipped.
Solve(f) ==
    /\ At(f, "answered")
    /\ MaySolve(f)
    /\ \E next \in {"ask", "record"} :
          flow' = [flow EXCEPT ![f].pc = next, ![f].solved = TRUE]
    /\ UNCHANGED <<setup, row, issued>>

\* Mutant: one relogin after the other.
WantsReloginAgain(f) ==
    \/ Is(f, {"checkin"}) /\ flow[f].answer = "rejected"
    \/ Is(f, {"balance"}) /\ flow[f].answer \in {"rejected", "error"}

\* A check-in tries to log in again when its credential was refused, a
\* balance refresh after any error; the one within a check-in (SkipRelogin)
\* never does.
WantsRelogin(f) ==
    /\ ~flow[f].relogged
    /\ \/ Is(f, {"checkin"}) /\ flow[f].answer = "rejected"
       \/ Is(f, {"balance"}) /\ flow[f].answer \in {"rejected", "error"}

Proceed(f) ==
    /\ At(f, "answered")
    /\ ~MaySolve(f)
    /\ flow' = [flow EXCEPT ![f].pc = IF WantsRelogin(f) THEN "relogin" ELSE "record"]
    /\ UNCHANGED <<setup, row, issued>>

\* The request is repeated once, with the token the relogin returned.
Retry(f, token) ==
    flow' = [flow EXCEPT ![f].pc = "ask", ![f].token = token, ![f].relogged = TRUE]
GiveUp(f) == flow' = [flow EXCEPT ![f].pc = "record"]

\* Mutant: every failure of the renewal leads to a password login.
LoginAnyway(f) == IF setup.password THEN "login" ELSE "record"

\* A deferred or failed renewal does not fall through to the password.
AfterDeferral(f) == "record"
AfterDeadCredential(f) == IF setup.password THEN "login" ELSE "record"

\* tryAutoRelogin, the forced renewal: another flow stored a new token; the
\* session is renewed; it is deferred or fails for now, the answer that
\* brought the successor perhaps lost; the refresh credential is called dead.
\* The last is a verdict, not knowledge: a refresh cookie whose two requests
\* got no status, and a one-time token after any failure but a 429, are
\* called dead although the panel may never have seen them.
ForceRefresh(f) ==
    /\ At(f, "relogin")
    /\ setup.managed
    /\ \/ /\ row.token # flow[f].token
          /\ Retry(f, row.token)
          /\ UNCHANGED <<row, issued>>
       \/ /\ row.token = flow[f].token
          /\ Renew
          /\ Retry(f, NewToken)
       \/ /\ flow' = [flow EXCEPT ![f].pc = AfterDeferral(f)]
          /\ UNCHANGED row \/ (row.token = flow[f].token /\ LoseCredential)
          /\ UNCHANGED issued
       \/ /\ row.token = flow[f].token
          /\ LoseCredential \/ UNCHANGED row
          /\ flow' = [flow EXCEPT ![f].pc = AfterDeadCredential(f),
                                  ![f].misjudged = row'.refresh]
          /\ UNCHANGED issued
    /\ UNCHANGED setup

\* Other platforms have no renewal (BaseAdapter.RefreshAuth).
NoRefresh(f) ==
    /\ At(f, "relogin")
    /\ ~setup.managed
    /\ flow' = [flow EXCEPT ![f].pc = IF setup.password THEN "login" ELSE "record"]
    /\ UNCHANGED <<setup, row, issued>>

\* adapter.Login, repeated with a solved Turnstile token if asked for one.
Login(f) ==
    /\ At(f, "login")
    /\ Issue
    /\ flow' = [flow EXCEPT ![f].pc = "store", ![f].token = NewToken]
    /\ UNCHANGED <<setup, row>>

LoginFails(f) ==
    /\ At(f, "login")
    /\ GiveUp(f)
    /\ UNCHANGED <<setup, row, issued>>

\* The token and, if a managed login brought one, the new refresh credential;
\* an extra_config that changed otherwise is the text read at the beginning,
\* with the refresh credential of then.  The retry is made even if the write
\* failed.
StoreLogin(f) ==
    /\ At(f, "store")
    /\ \E refresh \in {row.refresh, setup.managed, FALSE} :
          Write([row EXCEPT !.token = flow[f].token, !.refresh = refresh])
    /\ flow' = [flow EXCEPT ![f].pc = "ask", ![f].relogged = TRUE,
                            ![f].unsaved = row'.token # flow[f].token]
    /\ UNCHANGED <<setup, issued>>
-----------------------------------------------------------------------------
\* Mutant: the outcome of the check-in is written as the account's status.
OutcomeAsStatus(f, before, now) ==
    IF flow[f].answer = "success" THEN "active" ELSE flow[f].answer

\* Mutant: every failure is taken for an expired token.
ExpiredOnFailure(f, before, now) ==
    CASE flow[f].answer \in {"rejected", "error"} -> "expired"
      [] flow[f].answer = "success" /\ before = "expired" -> "active"
      [] OTHER -> now

\* The status written: an expired token makes the account expired, a success
\* makes one active that was expired when its row was read.
StatusAfter(f, before, now) ==
    CASE flow[f].answer = "rejected" -> "expired"
      [] flow[f].answer = "success" /\ before = "expired" -> "active"
      [] OTHER -> now

\* The end of a RefreshBalance, and of a check-in that was not granted.
Record(f) ==
    /\ At(f, "record")
    /\ \/ Is(f, {"balance"})
       \/ Is(f, {"checkin"}) /\ flow[f].answer # "success"
    /\ WriteStatus(StatusAfter(f, flow[f].before, row.status))
    /\ Return(f)
    /\ UNCHANGED <<setup, issued>>

\* A granted check-in refreshes the balance first, on a row read again ...
BeginBalance(f) ==
    /\ At(f, "record") /\ Is(f, {"checkin"})
    /\ flow[f].answer = "success"
    /\ flow' = [flow EXCEPT ![f] = [NoFlow EXCEPT
          !.kind = "nested", !.pc = "begin", !.before = flow[f].before,
          !.inner = row.status, !.token = row.token,
          !.rejected = flow[f].rejected, !.unsaved = flow[f].unsaved]]
    /\ UNCHANGED <<setup, row, issued>>

\* ... which writes the row ...
EndBalance(f) ==
    /\ At(f, "record") /\ Is(f, {"nested"})
    /\ WriteStatus(StatusAfter(f, flow[f].inner, row.status))
    /\ Resume(f)
    /\ UNCHANGED <<setup, issued>>

\* ... and is then recorded, by the status read at its beginning.
RecordGranted(f) ==
    /\ At(f, "final")
    /\ WriteStatus(StatusAfter(f, flow[f].before, row.status))
    /\ Return(f)
    /\ UNCHANGED <<setup, issued>>
-----------------------------------------------------------------------------
Step(f) ==
    \/ Skip(f) \/ EnsureSession(f)
    \/ Ask(f) \/ Solve(f) \/ Proceed(f)
    \/ ForceRefresh(f) \/ NoRefresh(f)
    \/ Login(f) \/ LoginFails(f) \/ StoreLogin(f)
    \/ Record(f) \/ BeginBalance(f) \/ EndBalance(f) \/ RecordGranted(f)

Next ==
    \E f \in Flow :
        \/ \E kind \in {"checkin", "balance"} : Start(f, kind)
        \/ Step(f)

Spec == Init /\ [][Next]_vars
-----------------------------------------------------------------------------
\* No flow presents again what the panel refused it, in the retry after a
\* renewal or a login or in the balance refresh that follows a granted
\* check-in on a row read again.  The one exception is that balance refresh
\* when the UPDATE with the flow's own login failed (checkin.go:697).  The
\* pre-refresh "must run before the checkin credential is resolved, otherwise
\* the generic / external checkin path would keep using the stale token".
RetryIsFresh ==
    \A f \in Flow :
        At(f, "ask") /\ ~(Is(f, {"nested"}) /\ flow[f].unsaved) =>
            Presented(f) \notin flow[f].rejected

\* The same, where the check-in is made on the panel itself.
PanelRetryIsFresh == ~setup.external => RetryIsFresh

\* A managed account logs in with its password only when the refresh
\* credential of the session it was refused is gone, another flow has stored
\* a newer session, or the flow's own renewal called the credential dead by
\* mistake; never after a renewal that was deferred or may be repeated, and
\* never because of what a flow beside it does (checkin.go:595 to 608).
LoginOnlyWhenDead ==
    \A f \in Flow :
        At(f, "login") /\ setup.managed =>
            ~row.refresh \/ row.token # flow[f].token \/ flow[f].misjudged

\* A flow declares the account expired only after the panel refused the token
\* the flow holds at its end, not one that was replaced on the way.
ExpiredIsRefused ==
    [][\A f \in Flow :
          /\ Record(f) \/ EndBalance(f) \/ RecordGranted(f)
          /\ row.status = "active" /\ row'.status = "expired"
          /\ ~setup.external
          => flow[f].token \in flow[f].rejected]_vars
=============================================================================

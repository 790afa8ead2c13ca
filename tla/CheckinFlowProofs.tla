-------------------------- MODULE CheckinFlowProofs --------------------------
(***************************************************************************)
(* Theorems about CheckinFlow, for every number of flows, every mix of     *)
(* setups and every number of tokens: its types, that a retry is made with *)
(* a token the panel has not refused, that a password login follows only   *)
(* the verdict that the refresh credential is dead, and that "expired" is  *)
(* written only after a refusal.                                           *)
(***************************************************************************)
EXTENDS CheckinFlow, TLAPS

\* The actions of Next, for the case distinctions below.
LEMMA NextCases ==
    ASSUME Next
    PROVE  \E f \in Flow :
              \/ \E kind \in {"checkin", "balance"} : Start(f, kind)
              \/ Skip(f) \/ EnsureSession(f) \/ Ask(f) \/ Solve(f) \/ Proceed(f)
              \/ ForceRefresh(f) \/ NoRefresh(f)
              \/ Login(f) \/ LoginFails(f) \/ StoreLogin(f)
              \/ Record(f) \/ BeginBalance(f) \/ EndBalance(f) \/ RecordGranted(f)
  BY Zenon DEF Next, Step
-----------------------------------------------------------------------------
(* Types *)

LEMMA NoFlowTyped == NoFlow \in Local
  BY SetupsTyped DEF NoFlow, Local, Kind, Phase, Status, Token, Credential, Answer

LEMMA TypeInit == Init => TypeOK
  BY SetupsTyped, NoFlowTyped DEF Init, TypeOK, Token, Setup

\* A renewal, and the loss of the refresh credential, keep the row's type.
LEMMA RenewalTyped ==
    ASSUME TypeOK
    PROVE  /\ Renew => row' \in [token : Token, status : Status, refresh : BOOLEAN]
           /\ LoseCredential => row' \in [token : Token, status : Status, refresh : BOOLEAN]
<1>1. ASSUME Renew
      PROVE  row' \in [token : Token, status : Status, refresh : BOOLEAN]
      BY <1>1 DEF Renew, Issue, Renewed, Status
<1>2. ASSUME LoseCredential
      PROVE  row' \in [token : Token, status : Status, refresh : BOOLEAN]
      BY <1>2 DEF TypeOK, LoseCredential
<1> QED
    BY <1>1, <1>2

LEMMA PhasesTyped ==
    {"idle", "begin", "ask", "answered", "relogin", "login", "store", "record",
     "final"} \subseteq Phase /\ {"checkin", "balance", "nested"} \subseteq Kind
  BY DEF Phase, Kind

LEMMA TypeStep == TypeOK /\ [Next]_vars => TypeOK'
<1> SUFFICES ASSUME TypeOK, [Next]_vars
             PROVE  TypeOK'
    OBVIOUS
<1> USE DEF TypeOK
<1>1. CASE UNCHANGED vars
      BY <1>1 DEF vars
<1>2. CASE Next
  <2>1. PICK f \in Flow :
           \/ \E kind \in {"checkin", "balance"} : Start(f, kind)
           \/ Skip(f) \/ EnsureSession(f) \/ Ask(f) \/ Solve(f) \/ Proceed(f)
           \/ ForceRefresh(f) \/ NoRefresh(f)
           \/ Login(f) \/ LoginFails(f) \/ StoreLogin(f)
           \/ Record(f) \/ BeginBalance(f) \/ EndBalance(f) \/ RecordGranted(f)
        BY <1>2, NextCases
  <2>2. /\ flow[f] \in Local
        /\ row \in [token : Token, status : Status, refresh : BOOLEAN]
        /\ issued \in Token
        /\ setup \in Setup
        BY SetupsTyped
  <2>17. /\ flow[f].before \in Status /\ flow[f].inner \in Status /\ flow[f].token \in Token
         /\ flow[f].rejected \in SUBSET Credential /\ flow[f].unsaved \in BOOLEAN
         BY <2>2 DEF Local
  <2>20. [NoFlow EXCEPT !.kind = "checkin", !.pc = "final", !.before = flow[f].before,
                        !.answer = "success", !.rejected = flow[f].rejected,
                        !.unsaved = flow[f].unsaved] \in Local
         BY <2>17, NoFlowTyped, PhasesTyped DEF Local, Answer
  <2>3. CASE \E kind \in {"checkin", "balance"} : Start(f, kind)
    <3>1. PICK kind \in {"checkin", "balance"} : Start(f, kind)
          BY <2>3
    <3>2. [NoFlow EXCEPT !.kind = kind, !.pc = "begin", !.before = row.status,
                         !.token = row.token] \in Local
          BY <2>2, NoFlowTyped, PhasesTyped DEF Local
    <3> QED
        BY <3>1, <3>2 DEF Start
  <2>4. CASE Skip(f)
        BY <2>4, <2>20, NoFlowTyped DEF Skip, Resume, Return
  <2>5. CASE EnsureSession(f)
    <3>1. \A t \in Token : Prepare(f, t) => flow' \in [Flow -> Local]
      <4> SUFFICES ASSUME NEW t \in Token, Prepare(f, t) PROVE flow' \in [Flow -> Local]
          OBVIOUS
      <4> DEFINE c == CheckinCredential(t)
      <4>1. c \in Credential
            BY DEF CheckinCredential, OwnCredential, Credential
      <4>2. [flow[f] EXCEPT !.pc = "ask", !.token = t, !.cred = c] \in Local
            BY <2>2, <4>1, PhasesTyped DEF Local
      <4>3. flow' = [flow EXCEPT ![f] = [flow[f] EXCEPT !.pc = "ask", !.token = t, !.cred = c]]
            BY DEF Prepare
      <4> QED
          BY <4>2, <4>3
    <3>2. flow' \in [Flow -> Local]
          BY <2>2, <2>5, <2>17, <3>1 DEF EnsureSession, Renew, Issue
    <3>3. row' \in [token : Token, status : Status, refresh : BOOLEAN]
          BY <2>2, <2>5, RenewalTyped DEF EnsureSession
    <3> QED
        BY <2>5, <3>2, <3>3 DEF EnsureSession, Renew, Issue
  <2>6. CASE Ask(f)
    <3>1. PICK answer \in Answer :
             flow' = [flow EXCEPT
                ![f].pc = "answered", ![f].answer = answer,
                ![f].rejected = IF answer = "rejected" THEN @ \cup {Presented(f)} ELSE @]
          BY <2>6 DEF Ask, Possible, Answer
    <3>2. Presented(f) \in Credential
          BY <2>2 DEF Presented, Local, Credential
    <3>3. flow' \in [Flow -> Local]
          BY <2>2, <3>1, <3>2 DEF Local, Phase
    <3> QED
        BY <2>6, <3>3 DEF Ask
  <2>7. CASE Solve(f)
    <3>1. PICK next \in {"ask", "record"} :
             flow' = [flow EXCEPT ![f].pc = next, ![f].solved = TRUE]
          BY <2>7 DEF Solve
    <3>2. [flow[f] EXCEPT !.pc = next, !.solved = TRUE] \in Local
          BY <2>2, PhasesTyped DEF Local
    <3> QED
        BY <2>7, <3>1, <3>2 DEF Solve
  <2>8. CASE Proceed(f)
        BY <2>2, <2>8 DEF Proceed, Local, Phase
  <2>9. \A t \in Token : Retry(f, t) => flow' \in [Flow -> Local]
    <3> SUFFICES ASSUME NEW t \in Token, Retry(f, t) PROVE flow' \in [Flow -> Local]
        OBVIOUS
    <3>1. [flow[f] EXCEPT !.pc = "ask", !.token = t, !.relogged = TRUE] \in Local
          BY <2>2, PhasesTyped DEF Local
    <3> QED
        BY <3>1 DEF Retry
  <2>10. CASE ForceRefresh(f)
    <3>2. row' \in [token : Token, status : Status, refresh : BOOLEAN]
          BY <2>2, <2>10, RenewalTyped DEF ForceRefresh
    <3>1. flow' \in [Flow -> Local]
      <4>1. row.token \in Token
            BY <2>2
      <4>2. \A pc \in Phase : [flow[f] EXCEPT !.pc = pc] \in Local
            BY <2>2 DEF Local
      <4>3. AfterDeferral(f) \in Phase /\ AfterDeadCredential(f) \in Phase
            BY PhasesTyped DEF AfterDeferral, AfterDeadCredential
      <4>4. CASE \E t \in Token : Retry(f, t)
            BY <2>9, <4>4
      <4>5. CASE \E pc \in Phase : flow' = [flow EXCEPT ![f].pc = pc]
            BY <4>2, <4>5
      <4>6. CASE flow' = [flow EXCEPT ![f].pc = AfterDeadCredential(f),
                                      ![f].misjudged = row'.refresh]
        <5>1. row'.refresh \in BOOLEAN
              BY <3>2
        <5>2. [flow[f] EXCEPT !.pc = AfterDeadCredential(f), !.misjudged = row'.refresh]
                 \in Local
              BY <2>2, <4>3, <5>1 DEF Local
        <5> QED
            BY <4>6, <5>2
      <4> QED
          BY <2>10, <4>1, <4>3, <4>4, <4>5, <4>6 DEF ForceRefresh, Renew, Issue
    <3> QED
        BY <2>2, <2>10, <3>1, <3>2 DEF ForceRefresh, Renew, Issue
  <2>11. CASE NoRefresh(f)
         BY <2>2, <2>11 DEF NoRefresh, Local, Phase
  <2>12. CASE Login(f)
         BY <2>2, <2>12 DEF Login, Issue, Local, Phase
  <2>13. CASE LoginFails(f)
         BY <2>2, <2>13 DEF LoginFails, GiveUp, Local, Phase
  <2>14. CASE StoreLogin(f)
    <3>1. flow[f].token \in Token
          BY <2>2 DEF Local
    <3>2. [flow[f] EXCEPT !.pc = "ask", !.relogged = TRUE,
                          !.unsaved = row'.token # flow[f].token] \in Local
          BY <2>2, PhasesTyped DEF Local
    <3>3. row' \in [token : Token, status : Status, refresh : BOOLEAN]
          BY <2>2, <2>14, <3>1, SetupsTyped DEF StoreLogin, Write, Setup
    <3> QED
        BY <2>14, <3>2, <3>3 DEF StoreLogin
  <2>15. \A status \in Status :
            WriteStatus(status) => row' \in [token : Token, status : Status, refresh : BOOLEAN]
         BY <2>2 DEF WriteStatus, Write
  <2>16. \A before \in Status : StatusAfter(f, before, row.status) \in Status
         BY <2>2 DEF StatusAfter, Status
  <2>18. CASE Record(f)
         BY <2>15, <2>16, <2>17, <2>18, NoFlowTyped DEF Record, Return
  <2>19. CASE BeginBalance(f)
    <3>1. [NoFlow EXCEPT !.kind = "nested", !.pc = "begin", !.before = flow[f].before,
                         !.inner = row.status, !.token = row.token,
                         !.rejected = flow[f].rejected, !.unsaved = flow[f].unsaved] \in Local
          BY <2>2, <2>17, NoFlowTyped, PhasesTyped DEF Local
    <3> QED
        BY <2>19, <3>1 DEF BeginBalance
  <2>21. CASE EndBalance(f)
         BY <2>15, <2>16, <2>17, <2>20, <2>21 DEF EndBalance, Resume
  <2>22. CASE RecordGranted(f)
         BY <2>15, <2>16, <2>17, <2>22, NoFlowTyped DEF RecordGranted, Return
  <2> QED
      BY <2>1, <2>3, <2>4, <2>5, <2>6, <2>7, <2>8, <2>10, <2>11, <2>12, <2>13,
         <2>14, <2>18, <2>19, <2>21, <2>22
<1> QED
    BY <1>1, <1>2

\* Every reachable state of a check-in or a balance refresh has the types
\* CheckinAccount, tryAutoRelogin and RefreshBalance give their variables.
THEOREM TypeCorrect == Spec => []TypeOK
<1>1. Init => TypeOK
      BY TypeInit
<1>2. TypeOK /\ [Next]_vars => TypeOK'
      BY TypeStep
<1> QED
    BY <1>1, <1>2, PTL DEF Spec
-----------------------------------------------------------------------------
(* The inductive invariant.                                                *)

\* Every token in use was issued, and so was what a flow saw refused.
Issued ==
    /\ row.token <= issued
    /\ \A f \in Flow : /\ flow[f].token <= issued
                       /\ flow[f].cred <= issued
                       /\ \A t \in flow[f].rejected : t <= issued

\* A login's token is known to its flow alone until it is stored.
Unstored ==
    \A f \in Flow : At(f, "store") =>
        /\ flow[f].token # 1
        /\ flow[f].token # row.token
        /\ \A g \in Flow \ {f} : flow[g].token # flow[f].token

\* Nor has any flow seen it refused.
Unrefused ==
    \A f, g \in Flow : At(f, "store") => flow[f].token \notin flow[g].rejected

\* What a flow that presents its token saw refused, phase by phase: nothing
\* before its first request is answered, that token alone until it asks for
\* another, and not the one it asks with then.  Once it has relogged and the
\* row has its token, the row never holds a refused one again, so the balance
\* refresh that follows reads a fresh one.
Refused(f) ==
    LET l == flow[f]
        nested == l.kind = "nested"
    IN
    /\ l.pc \in {"begin", "relogin", "login", "store"} => ~l.relogged
    /\ l.pc = "begin" /\ ~nested => l.rejected = {}
    /\ l.pc \in {"relogin", "login", "store"} => ~nested
    /\ l.pc = "final" => l.answer = "success"
    /\ l.pc \in {"ask", "store"} /\ ~(nested /\ l.unsaved) => l.token \notin l.rejected
    /\ ~nested /\ ~l.relogged =>
          /\ l.pc = "ask" => l.rejected = {}
          /\ l.pc = "answered" => l.rejected \subseteq {l.token}
          /\ /\ l.pc \in {"answered", "relogin", "login", "record"}
             /\ l.answer # "rejected"
             => l.rejected = {}
    /\ l.pc \in {"relogin", "login"} => l.rejected \subseteq {l.token}
    /\ l.relogged /\ ~nested =>
          /\ /\ l.pc \in {"ask", "answered", "record"}
             /\ ~l.unsaved
             /\ row.token \in l.rejected
             => row.token = l.token
          /\ l.pc \in {"answered", "record"} /\ l.answer = "success" =>
                l.token \notin l.rejected
    /\ nested /\ ~l.unsaved /\ l.pc = "begin" =>
          row.token \notin l.rejected /\ l.token \notin l.rejected
    /\ /\ l.pc \in {"answered", "relogin", "login", "record"}
       /\ l.answer = "rejected"
       => l.token \in l.rejected

Inv == /\ TypeOK
       /\ Issued
       /\ Unstored
       /\ LoginOnlyWhenDead
       /\ ~setup.external => Unrefused /\ \A f \in Flow : Refused(f)

\* What a step of one flow does to the tokens, whichever action it is.
Moves(f) ==
    /\ setup' = setup
    /\ \A g \in Flow \ {f} : flow'[g] = flow[g]
    /\ issued' \in {issued, NewToken}
    /\ \/ flow'[f].token \in {flow[f].token, row.token, 1}
       \/ flow'[f].token = NewToken /\ issued' = NewToken
    /\ flow'[f].cred \in {flow[f].cred, OwnCredential, 1, flow'[f].token}
    /\ \/ row'.token = row.token
       \/ row'.token = NewToken /\ issued' = NewToken
       \/ At(f, "store") /\ row'.token = flow[f].token
    /\ flow'[f].rejected \subseteq flow[f].rejected \cup {Presented(f)}
    /\ flow'[f].pc = "store" =>
          flow'[f].token = NewToken /\ issued' = NewToken /\ row'.token = row.token
    /\ At(f, "store") => flow'[f].pc = "ask"
    /\ flow'[f].pc = "login" => ~setup.managed \/ ~row'.refresh \/ flow'[f].misjudged
    /\ setup.managed /\ row'.refresh /\ ~row.refresh =>
          At(f, "store") /\ row'.token = flow[f].token

LEMMA StepMoves ==
    ASSUME TypeOK, Next
    PROVE  \E f \in Flow : Moves(f)
<1>1. PICK f \in Flow :
         \/ \E kind \in {"checkin", "balance"} : Start(f, kind)
         \/ Skip(f) \/ EnsureSession(f) \/ Ask(f) \/ Solve(f) \/ Proceed(f)
         \/ ForceRefresh(f) \/ NoRefresh(f)
         \/ Login(f) \/ LoginFails(f) \/ StoreLogin(f)
         \/ Record(f) \/ BeginBalance(f) \/ EndBalance(f) \/ RecordGranted(f)
      BY NextCases
<1>2. /\ flow \in [Flow -> Local]
      /\ flow[f] \in Local
      /\ row \in [token : Token, status : Status, refresh : BOOLEAN]
      BY DEF TypeOK
<1> USE <1>2 DEF Moves, At, Local
<1>3. CASE \E kind \in {"checkin", "balance"} : Start(f, kind)
      BY <1>3 DEF Start, NoFlow
<1>4. CASE Skip(f)
  <2>1. CASE Resume(f)
        BY <1>4, <2>1 DEF Skip, Resume, NoFlow
  <2>2. CASE Return(f)
        BY <1>4, <2>2 DEF Skip, Return, NoFlow
  <2> QED
      BY <1>4, <2>1, <2>2 DEF Skip
<1>5. CASE EnsureSession(f)
      BY <1>5 DEF EnsureSession, Prepare, CheckinCredential, Renew, Issue, Renewed, LoseCredential
<1>6. CASE Ask(f)
      BY <1>6 DEF Ask
<1>7. CASE Solve(f)
      BY <1>7 DEF Solve
<1>8. CASE Proceed(f)
      BY <1>8 DEF Proceed
<1>9. CASE ForceRefresh(f)
      BY <1>9 DEF ForceRefresh, Retry, Renew, Issue, Renewed, LoseCredential,
                   AfterDeferral, AfterDeadCredential
<1>10. CASE NoRefresh(f)
      BY <1>10 DEF NoRefresh
<1>11. CASE Login(f)
      BY <1>11 DEF Login, Issue
<1>12. CASE LoginFails(f)
      BY <1>12 DEF LoginFails, GiveUp
<1>13. CASE StoreLogin(f)
      BY <1>13 DEF StoreLogin, Write
<1>14. CASE Record(f)
      BY <1>14 DEF Record, WriteStatus, Write, Return, NoFlow
<1>15. CASE BeginBalance(f)
      BY <1>15 DEF BeginBalance, NoFlow
<1>16. CASE EndBalance(f)
      BY <1>16 DEF EndBalance, WriteStatus, Write, Resume, NoFlow
<1>17. CASE RecordGranted(f)
      BY <1>17 DEF RecordGranted, WriteStatus, Write, Return, NoFlow
<1> QED
    BY <1>1, <1>3, <1>4, <1>5, <1>6, <1>7, <1>8, <1>9, <1>10, <1>11, <1>12, <1>13, <1>14, <1>15, <1>16, <1>17

\* Tokens are numbers, and so is what a flow presents.
LEMMA Numbers ==
    ASSUME TypeOK
    PROVE  /\ issued \in Nat /\ issued >= 1
           /\ NewToken = issued + 1
           /\ row.token \in Nat
           /\ \A f \in Flow : /\ flow[f].token \in Nat
                              /\ flow[f].cred \in Nat
                              /\ flow[f].rejected \subseteq Nat
                              /\ Presented(f) \in {flow[f].cred, flow[f].token}
<1>1. Token \subseteq Nat \ {0} /\ Credential \subseteq Nat
      BY SetupsTyped DEF Token, Credential, OwnCredential
<1>2. \A f \in Flow : flow[f] \in Local
      BY DEF TypeOK
<1>3. issued \in Nat \ {0} /\ row.token \in Nat
      BY <1>1 DEF TypeOK
<1>4. ASSUME NEW f \in Flow
      PROVE  /\ flow[f].token \in Nat
             /\ flow[f].cred \in Nat
             /\ flow[f].rejected \subseteq Nat
  <2>1. /\ flow[f].token \in Token
        /\ flow[f].cred \in Credential
        /\ flow[f].rejected \subseteq Credential
        BY <1>2 DEF Local
  <2> QED
      BY <1>1, <2>1
<1>5. \A f \in Flow : Presented(f) \in {flow[f].cred, flow[f].token}
      BY DEF Presented
<1>6. issued \in Nat /\ issued >= 1 /\ NewToken = issued + 1
      BY <1>3 DEF NewToken
<1> QED
    BY <1>3, <1>4, <1>5, <1>6

LEMMA MovesIssued ==
    ASSUME TypeOK, TypeOK', Issued, NEW f \in Flow, Moves(f)
    PROVE  Issued'
<1> USE Numbers
<1>1. issued <= issued'
      BY DEF Moves
<1>2. flow'[f].token <= issued'
      BY <1>1 DEF Moves, Issued
<1>3. flow'[f].cred <= issued'
      BY <1>1, <1>2 DEF Moves, Issued, OwnCredential
<1>4. \A t \in flow'[f].rejected : t <= issued'
      BY <1>1 DEF Moves, Issued
<1>5. row'.token <= issued'
      BY <1>1 DEF Moves, Issued
<1>6. \A g \in Flow \ {f} : /\ flow'[g].token <= issued'
                             /\ flow'[g].cred <= issued'
                             /\ \A t \in flow'[g].rejected : t <= issued'
      BY <1>1 DEF Moves, Issued
<1> QED
    BY <1>2, <1>3, <1>4, <1>5, <1>6 DEF Issued

LEMMA MovesUnstored ==
    ASSUME TypeOK, Issued, Unstored, NEW f \in Flow, Moves(f)
    PROVE  Unstored'
<1> USE Numbers
<1> SUFFICES ASSUME NEW g \in Flow, flow'[g].pc = "store"
             PROVE  /\ flow'[g].token # 1
                    /\ flow'[g].token # row'.token
                    /\ \A h \in Flow \ {g} : flow'[h].token # flow'[g].token
    BY DEF Unstored, At
<1>1. CASE g = f
      BY <1>1 DEF Moves, Issued
<1>2. CASE g # f
  <2>1. /\ flow'[g] = flow[g]
        /\ flow[g].token # 1
        /\ flow[g].token # row.token
        /\ \A h \in Flow \ {g} : flow[h].token # flow[g].token
        BY <1>2 DEF Moves, Unstored, At
  <2>2. flow[g].token # NewToken
        BY DEF Issued
  <2> QED
      BY <1>2, <2>1, <2>2 DEF Moves
<1> QED
    BY <1>1, <1>2

LEMMA MovesLogin ==
    ASSUME TypeOK, Issued, Unstored, LoginOnlyWhenDead, NEW f \in Flow, Moves(f)
    PROVE  LoginOnlyWhenDead'
<1> USE Numbers
<1> SUFFICES ASSUME NEW g \in Flow, flow'[g].pc = "login", setup.managed
             PROVE  ~row'.refresh \/ row'.token # flow'[g].token \/ flow'[g].misjudged
    BY DEF LoginOnlyWhenDead, At, Moves
<1>1. CASE g = f
      BY <1>1 DEF Moves
<1>2. CASE g # f
  <2>1. /\ flow'[g] = flow[g]
        /\ ~row.refresh \/ row.token # flow[g].token \/ flow[g].misjudged
        BY <1>2 DEF Moves, LoginOnlyWhenDead, At
  <2>2. CASE At(f, "store") /\ row'.token = flow[f].token
        BY <1>2, <2>1, <2>2 DEF Unstored
  <2>3. CASE row'.token = NewToken
        BY <2>1, <2>3 DEF Issued
  <2>4. CASE row'.token = row.token
        BY <2>1, <2>2, <2>4 DEF Moves
  <2> QED
      BY <2>2, <2>3, <2>4 DEF Moves
<1> QED
    BY <1>1, <1>2

LEMMA MovesUnrefused ==
    ASSUME TypeOK, Issued, Unstored, Unrefused, ~setup.external, NEW f \in Flow, Moves(f)
    PROVE  Unrefused'
<1> USE Numbers
<1> SUFFICES ASSUME NEW g \in Flow, NEW h \in Flow, flow'[g].pc = "store"
             PROVE  flow'[g].token \notin flow'[h].rejected
    BY DEF Unrefused, At
<1>1. Presented(f) = flow[f].token
      BY DEF Presented
<1>2. CASE g = f
  <2>1. flow'[g].token = NewToken /\ ~At(f, "store")
        BY <1>2 DEF Moves
  <2>2. \A t \in flow[h].rejected : t <= issued
        BY DEF Issued
  <2>3. flow[f].token <= issued
        BY DEF Issued
  <2> QED
      BY <1>1, <1>2, <2>1, <2>2, <2>3 DEF Moves
<1>3. CASE g # f
  <2>1. /\ flow'[g] = flow[g]
        /\ At(g, "store")
        BY <1>3 DEF Moves, At
  <2>2. flow[g].token \notin flow[h].rejected /\ flow[g].token # flow[f].token
        BY <1>3, <2>1 DEF Unrefused, Unstored
  <2> QED
      BY <1>1, <2>1, <2>2 DEF Moves
<1> QED
    BY <1>2, <1>3

\* The row takes no token that a flow has seen refused.
LEMMA RowStaysFresh ==
    ASSUME TypeOK, Issued, Unrefused, NEW f \in Flow, Moves(f), NEW g \in Flow,
           row'.token \in flow[g].rejected
    PROVE  row'.token = row.token
  BY Numbers DEF Moves, Issued, Unrefused

\* A flow on the panel itself presents its token.
LEMMA PresentsToken ==
    ASSUME ~setup.external, NEW f
    PROVE  Presented(f) = flow[f].token
  BY DEF Presented

LEMMA StepRefused ==
    ASSUME TypeOK, Issued, Unrefused, ~setup.external, Next, \A g \in Flow : Refused(g)
    PROVE  \A g \in Flow : Refused(g)'
<1>1. PICK f \in Flow :
         \/ \E kind \in {"checkin", "balance"} : Start(f, kind)
         \/ Skip(f) \/ EnsureSession(f) \/ Ask(f) \/ Solve(f) \/ Proceed(f)
         \/ ForceRefresh(f) \/ NoRefresh(f)
         \/ Login(f) \/ LoginFails(f) \/ StoreLogin(f)
         \/ Record(f) \/ BeginBalance(f) \/ EndBalance(f) \/ RecordGranted(f)
      BY NextCases
<1>2. /\ flow \in [Flow -> Local]
      /\ flow[f] \in Local
      /\ Refused(f)
      BY DEF TypeOK
<1>3. NewToken \notin flow[f].rejected
      BY Numbers DEF Issued
<1>4. Presented(f) = flow[f].token
      BY PresentsToken
<1>21. \A g \in Flow : row'.token \in flow[g].rejected => row'.token = row.token
  <2>1. PICK h \in Flow : Moves(h)
        BY StepMoves
  <2> QED
      BY <2>1, RowStaysFresh
<1>5. \A g \in Flow \ {f} : flow'[g] = flow[g] => Refused(g)'
      BY <1>21 DEF Refused
<1> DEFINE Kept == \A g \in Flow \ {f} : flow'[g] = flow[g]
<1> SUFFICES Kept /\ Refused(f)'
    BY <1>5
<1> USE <1>2, <1>3, <1>4, <1>21 DEF Refused, Local, At
<1>6. CASE \E kind \in {"checkin", "balance"} : Start(f, kind)
      BY <1>6 DEF Start, NoFlow
<1>7. CASE Skip(f)
  <2>1. CASE Resume(f)
        BY <1>7, <2>1 DEF Skip, Resume, NoFlow
  <2>2. CASE Return(f)
        BY <1>7, <2>2 DEF Skip, Return, NoFlow
  <2> QED
      BY <1>7, <2>1, <2>2 DEF Skip
<1>8. CASE EnsureSession(f)
      BY <1>8 DEF EnsureSession, Prepare, Is, Renew, Renewed
<1>9. CASE Ask(f)
      BY <1>9 DEF Ask, Possible, Answer, Is
<1>10. CASE Solve(f)
      BY <1>10 DEF Solve, MaySolve, Is
<1>11. CASE Proceed(f)
      BY <1>11 DEF Proceed, WantsRelogin, Is
<1>12. CASE ForceRefresh(f)
  <2>1. flow[f].pc = "relogin" /\ flow[f].kind # "nested"
        BY <1>12 DEF ForceRefresh
  <2>2. ASSUME NEW t, Retry(f, t), t \notin flow[f].rejected, row'.token = t
        PROVE  Kept /\ Refused(f)'
    <3>1. /\ flow'[f].pc = "ask" /\ flow'[f].relogged /\ flow'[f].token = t
          /\ flow'[f].kind = flow[f].kind /\ flow'[f].rejected = flow[f].rejected
          BY <2>2 DEF Retry
    <3> QED
        BY <2>1, <2>2, <3>1 DEF Retry
  <2>3. ASSUME NEW pc \in {"login", "record"}, flow'[f].pc = pc, Kept,
               flow'[f].kind = flow[f].kind, flow'[f].relogged = flow[f].relogged,
               flow'[f].token = flow[f].token, flow'[f].unsaved = flow[f].unsaved,
               flow'[f].rejected = flow[f].rejected, flow'[f].answer = flow[f].answer
        PROVE  Kept /\ Refused(f)'
        BY <2>1, <2>3
  <2>4. CASE row.token # flow[f].token /\ Retry(f, row.token) /\ UNCHANGED row
        BY <2>1, <2>2, <2>4
  <2>5. CASE Renew /\ Retry(f, NewToken)
        BY <2>2, <2>5 DEF Renew, Renewed
  <2>6. CASE flow' = [flow EXCEPT ![f].pc = AfterDeferral(f)]
        BY <2>3, <2>6 DEF AfterDeferral
  <2>7. CASE flow' = [flow EXCEPT ![f].pc = AfterDeadCredential(f),
                                  ![f].misjudged = row'.refresh]
        BY <2>3, <2>7 DEF AfterDeadCredential
  <2> QED
      BY <1>12, <2>4, <2>5, <2>6, <2>7 DEF ForceRefresh
<1>13. CASE NoRefresh(f)
      BY <1>13 DEF NoRefresh
<1>14. CASE Login(f)
      BY <1>14 DEF Login
<1>15. CASE LoginFails(f)
      BY <1>15 DEF LoginFails, GiveUp
<1>16. CASE StoreLogin(f)
      BY <1>16 DEF StoreLogin
<1>17. CASE Record(f)
      BY <1>17 DEF Record, Return, NoFlow
<1>18. CASE BeginBalance(f)
      BY <1>18 DEF BeginBalance, NoFlow, Is
<1>19. CASE EndBalance(f)
      BY <1>19 DEF EndBalance, Resume, NoFlow
<1>20. CASE RecordGranted(f)
      BY <1>20 DEF RecordGranted, Return, NoFlow
<1> QED
    BY <1>1, <1>6, <1>7, <1>8, <1>9, <1>10, <1>11, <1>12, <1>13, <1>14, <1>15, <1>16, <1>17, <1>18, <1>19, <1>20
-----------------------------------------------------------------------------
LEMMA InvInit == Init => Inv
<1> SUFFICES ASSUME Init PROVE Inv
    OBVIOUS
<1>1. TypeOK
      BY TypeInit
<1>2. /\ row.token = 1
      /\ issued = 1
      /\ \A f \in Flow : flow[f] = NoFlow
      BY DEF Init
<1> QED
    BY <1>1, <1>2 DEF Inv, Issued, Unstored, Unrefused, LoginOnlyWhenDead, Refused, NoFlow, At

LEMMA InvStep == Inv /\ [Next]_vars => Inv'
<1> SUFFICES ASSUME Inv, [Next]_vars PROVE Inv'
    OBVIOUS
<1> USE DEF Inv
<1>1. TypeOK'
      BY TypeStep
<1>2. CASE UNCHANGED vars
      BY <1>1, <1>2 DEF vars, Issued, Unstored, Unrefused, LoginOnlyWhenDead, Refused, At
<1>3. CASE Next
  <2>1. PICK f \in Flow : Moves(f)
        BY <1>3, StepMoves
  <2>2. Issued' /\ Unstored' /\ LoginOnlyWhenDead'
        BY <1>1, <2>1, MovesIssued, MovesUnstored, MovesLogin
  <2>3. setup' = setup
        BY <2>1 DEF Moves
  <2>4. ~setup'.external => Unrefused' /\ \A g \in Flow : Refused(g)'
        BY <1>3, <2>1, <2>3, StepRefused, MovesUnrefused
  <2> QED
      BY <1>1, <2>2, <2>4
<1> QED
    BY <1>2, <1>3

LEMMA Invariance == Spec => []Inv
<1>1. Inv /\ [Next]_vars => Inv'
      BY InvStep
<1> QED
    BY InvInit, <1>1, PTL DEF Spec

\* On the panel itself, no check-in and no balance refresh presents again a
\* token the panel refused it, however many flows renew, log in and store
\* tokens beside it, and whatever writes fail; but for the balance refresh of
\* a check-in whose own login could not be stored.
THEOREM RetriesFresh == Spec => []PanelRetryIsFresh
<1>1. Inv => PanelRetryIsFresh
      BY PresentsToken DEF Inv, PanelRetryIsFresh, RetryIsFresh, Refused, At, Is
<1> QED
    BY <1>1, Invariance, PTL

\* A managed account's password is used only when the refresh credential of
\* the refused session is gone, another flow has stored a new session, or the
\* flow's own renewal called a working credential dead.
THEOREM LoginJustified == Spec => []LoginOnlyWhenDead
<1>1. Inv => LoginOnlyWhenDead
      BY DEF Inv
<1> QED
    BY <1>1, Invariance, PTL

\* A flow that declares an account expired was refused the token it holds.
THEOREM ExpiryJustified == Spec => ExpiredIsRefused
<1>1. ASSUME Inv, [Next]_vars, NEW f \in Flow,
             Record(f) \/ EndBalance(f) \/ RecordGranted(f),
             row.status = "active", row'.status = "expired", ~setup.external
      PROVE  flow[f].token \in flow[f].rejected
  <2>1. Refused(f)
        BY <1>1 DEF Inv
  <2>2. CASE Record(f) \/ EndBalance(f)
    <3>1. flow[f].answer = "rejected" /\ flow[f].pc = "record"
          BY <1>1, <2>2 DEF Record, EndBalance, At, WriteStatus, Write, StatusAfter, Inv, TypeOK
    <3> QED
        BY <2>1, <3>1 DEF Refused
  <2>3. CASE RecordGranted(f)
    <3>1. flow[f].answer = "success"
          BY <2>1, <2>3 DEF RecordGranted, At, Refused
    <3> QED
        BY <1>1, <2>3, <3>1 DEF RecordGranted, WriteStatus, Write, StatusAfter, Inv, TypeOK
  <2> QED
      BY <1>1, <2>2, <2>3
<1>2. Inv /\ [Next]_vars =>
         [\A f \in Flow :
             /\ Record(f) \/ EndBalance(f) \/ RecordGranted(f)
             /\ row.status = "active" /\ row'.status = "expired"
             /\ ~setup.external
             => flow[f].token \in flow[f].rejected]_vars
      BY <1>1
<1> QED
    BY <1>2, Invariance, PTL DEF Spec, ExpiredIsRefused
=============================================================================

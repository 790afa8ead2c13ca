----------------------- MODULE CheckinSchedulerProofs -----------------------
(***************************************************************************)
(* Theorems about service/scheduler.go.                                    *)
(*                                                                         *)
(* About CheckinScheduler, for all accounts, crons and passes: its types,  *)
(* that a scheduled task never runs twice at once, that the status never   *)
(* overstates what is to come, and that cancelling reaches every timer     *)
(* when the jobs of two crons do not overlap.                              *)
(*                                                                         *)
(* About CheckinWindow, for all settings, draws and numbers of accounts:   *)
(* its types, that check-ins are due within the hours of the window, and   *)
(* how far they are apart.                                                 *)
(***************************************************************************)
EXTENDS CheckinScheduler, CheckinWindow, FiniteSetTheorems, TLAPS

\* The actions of Next, for the case distinctions below.
LEMMA NextCases ==
    ASSUME Next
    PROVE  \/ StopScheduler
           \/ \E c \in Cron : StartScheduler(c)
           \/ \E c \in Cron : CheckinFires(c)
           \/ \E c \in Cron : JobCancels(c)
           \/ \E c \in Cron, rows \in SUBSET Account : JobLists(c, rows)
           \/ \E c \in Cron, p \in Pass : JobArms(c, p)
           \/ \E c \in Cron : BalanceFires(c)
           \/ \E c \in Cron : BalanceStarts(c)
           \/ \E c \in Cron : BalanceReturns(c)
           \/ \E t \in Timer : TimerFires(t)
           \/ \E t \in Timer : CheckinStarts(t)
           \/ \E t \in Timer : CheckinSkipped(t)
           \/ \E t \in Timer : CheckinReturns(t)
           \/ \E t \in Timer : CallbackEnds(t)
  BY Zenon DEF Next, JobStep, TimerStep, BalanceStep

LEMMA DecrementNat ==
    ASSUME count \in Nat
    PROVE  /\ DecrementedCount \in Nat
           /\ DecrementedCount <= count
           /\ count # 0 => DecrementedCount = count - 1
           /\ count = 0 => DecrementedCount = 0
  BY DEF DecrementedCount
-----------------------------------------------------------------------------
LEMMA TypeInit == Init => TypeOK
  BY DEF Init, TypeOK, NoJob

LEMMA TypeStep == TypeOK /\ [Next]_vars => TypeOK'
<1> SUFFICES ASSUME TypeOK, [Next]_vars
             PROVE  TypeOK'
    OBVIOUS
<1> USE DEF TypeOK
<1>1. CASE UNCHANGED vars
      BY <1>1 DEF vars
<1>2. ASSUME CancelPendingCheckins
      PROVE  /\ timer' \in [Timer -> {"off", "armed", "fired", "working", "ran"}]
             /\ tracked' \in SUBSET Timer
             /\ count' \in Nat
      BY <1>2 DEF CancelPendingCheckins
<1>3. CASE StopScheduler
      BY <1>2, <1>3 DEF StopScheduler
<1>4. CASE \E c \in Cron : StartScheduler(c)
      BY <1>2, <1>4 DEF StartScheduler
<1>5. CASE \E c \in Cron : CheckinFires(c)
      BY <1>5 DEF CheckinFires, FirstStep
<1>6. CASE \E c \in Cron : JobCancels(c)
      BY <1>2, <1>6 DEF JobCancels
<1>7. CASE \E c \in Cron, rows \in SUBSET Account : JobLists(c, rows)
      BY <1>7 DEF JobLists, NoJob
<1>8. CASE \E c \in Cron, p \in Pass : JobArms(c, p)
  <2>1. PICK c \in Cron, p \in Pass : JobArms(c, p)
        BY <1>8
  <2>2. job[c].rows \in SUBSET Account
        OBVIOUS
  <2>3. {p} \X job[c].rows \subseteq Timer
        BY <2>2 DEF Timer
  <2>4. timer' \in [Timer -> {"off", "armed", "fired", "working", "ran"}]
        BY <2>1 DEF JobArms
  <2>5. tracked' \in SUBSET Timer
        BY <2>1, <2>3 DEF JobArms
  <2>6. Cardinality(job[c].rows) \in Nat
        BY <2>2, ConstantsFinite, FS_Subset, FS_CardinalityType
  <2>7. job' \in [Cron -> [pc : {"idle", "cancel", "list", "arm"},
                           rows : SUBSET Account]]
        BY <2>1 DEF JobArms, NoJob
  <2> QED
      BY <2>1, <2>4, <2>5, <2>6, <2>7 DEF JobArms
<1>9. CASE \E c \in Cron : BalanceFires(c)
      BY <1>9 DEF BalanceFires
<1>10. CASE \E c \in Cron : BalanceStarts(c)
       BY <1>10 DEF BalanceStarts, Task
<1>11. CASE \E c \in Cron : BalanceReturns(c)
       BY <1>11 DEF BalanceReturns, Unlocked, Task
<1>12. CASE \E t \in Timer : TimerFires(t)
       BY <1>12 DEF TimerFires
<1>13. CASE \E t \in Timer : CheckinStarts(t)
  <2>1. PICK t \in Timer : CheckinStarts(t)
        BY <1>13
  <2>2. CheckinTask(t[2]) \in Task
        BY DEF Timer, Task
  <2> QED
      BY <2>1, <2>2 DEF CheckinStarts
<1>14. CASE \E t \in Timer : CheckinSkipped(t)
       BY <1>14 DEF CheckinSkipped
<1>15. CASE \E t \in Timer : CheckinReturns(t)
       BY <1>15 DEF CheckinReturns, Unlocked
<1>16. CASE \E t \in Timer : CallbackEnds(t)
       BY <1>16, DecrementNat DEF CallbackEnds
<1> QED
    BY <1>1, <1>3, <1>4, <1>5, <1>6, <1>7, <1>8, <1>9, <1>10, <1>11, <1>12,
       <1>13, <1>14, <1>15, <1>16, NextCases

\* Every reachable state of the scheduler has the declared types.
THEOREM TypeCorrect == Spec => []TypeOK
<1> QED
    BY TypeInit, TypeStep, PTL DEF Spec
-----------------------------------------------------------------------------
LEMMA TaskNames ==
    /\ \A a \in Account : CheckinTask(a) # BalanceTask
    /\ \A a, b \in Account : CheckinTask(a) = CheckinTask(b) => a = b
  BY DEF CheckinTask, BalanceTask

\* Steps that neither start nor end a task.
LEMMA NoTaskMoves ==
    ASSUME LockExact, TaskAlone, locked' = locked,
           \A t \in Timer : timer'[t] = "working" <=> timer[t] = "working",
           \A c \in Cron : balance'[c] = "working" <=> balance[c] = "working"
    PROVE  LockExact' /\ TaskAlone'
<1>1. \A p \in Pass, a \in Account : <<p, a>> \in Timer
      BY DEF Timer
<1>2. \A p \in Pass, a \in Account :
          timer'[<<p, a>>] = "working" <=> timer[<<p, a>>] = "working"
      BY <1>1
<1> QED
    BY <1>2, Zenon DEF LockExact, TaskAlone

LEMMA CancelKeepsWork ==
    ASSUME TypeOK, CancelPendingCheckins
    PROVE  \A t \in Timer : timer'[t] = "working" <=> timer[t] = "working"
  BY DEF CancelPendingCheckins, TypeOK, Armed

\* The mutex of an account's task is taken by the one callback that runs.
LEMMA CheckinStartsAlone ==
    ASSUME TypeOK, LockExact, TaskAlone, NEW t \in Timer, CheckinStarts(t)
    PROVE  LockExact' /\ TaskAlone'
<1>1. PICK p \in Pass, a \in Account : t = <<p, a>>
      BY DEF Timer
<1>2. /\ timer' = [timer EXCEPT ![<<p, a>>] = "working"]
      /\ locked' = locked \cup {CheckinTask(a)}
      /\ CheckinTask(a) \notin locked
      /\ balance' = balance
      BY <1>1 DEF CheckinStarts, TaskFree
<1>3. \A q \in Pass, b \in Account :
          timer'[<<q, b>>] = IF q = p /\ b = a THEN "working" ELSE timer[<<q, b>>]
      BY <1>2 DEF TypeOK, Timer
<1>4. \A q \in Pass : timer[<<q, a>>] # "working"
      BY <1>2 DEF LockExact
<1>5. LockExact'
      BY <1>2, <1>3, <1>4, TaskNames DEF LockExact
<1>6. TaskAlone'
      BY <1>2, <1>3, <1>4 DEF TaskAlone
<1> QED
    BY <1>5, <1>6

LEMMA CheckinReturnsAlone ==
    ASSUME TypeOK, LockExact, TaskAlone, NEW t \in Timer, CheckinReturns(t)
    PROVE  LockExact' /\ TaskAlone'
<1>1. PICK p \in Pass, a \in Account : t = <<p, a>>
      BY DEF Timer
<1>2. /\ timer' = [timer EXCEPT ![<<p, a>>] = "ran"]
      /\ locked' = locked \ {CheckinTask(a)}
      /\ timer[<<p, a>>] = "working"
      /\ balance' = balance
      BY <1>1 DEF CheckinReturns, Unlocked
<1>3. \A q \in Pass, b \in Account :
          timer'[<<q, b>>] = IF q = p /\ b = a THEN "ran" ELSE timer[<<q, b>>]
      BY <1>2 DEF TypeOK, Timer
<1>4. \A q \in Pass : timer[<<q, a>>] = "working" => q = p
      BY <1>2 DEF TaskAlone
<1>5. \A b \in Account : CheckinTask(b) \in locked'
                           <=> CheckinTask(b) \in locked /\ b # a
      BY <1>2, TaskNames
<1>6. \A b \in Account : CheckinTask(b) \in locked'
                           <=> \E q \in Pass : timer'[<<q, b>>] = "working"
      BY <1>3, <1>4, <1>5 DEF LockExact
<1>7. BalanceTask \in locked' <=> BalanceTask \in locked
      BY <1>2, TaskNames
<1>8. LockExact'
      BY <1>2, <1>6, <1>7 DEF LockExact
<1>9. TaskAlone'
      BY <1>2, <1>3 DEF TaskAlone
<1> QED
    BY <1>8, <1>9

LEMMA BalanceAlone ==
    ASSUME TypeOK, LockExact, TaskAlone, NEW c \in Cron,
           BalanceStarts(c) \/ BalanceReturns(c)
    PROVE  LockExact' /\ TaskAlone'
<1>1. timer' = timer
      BY DEF BalanceStarts, BalanceReturns
<1>2. \A d \in Cron : balance'[d] = IF d = c THEN balance'[c] ELSE balance[d]
      BY DEF BalanceStarts, BalanceReturns, TypeOK
<1>3. CASE BalanceStarts(c) /\ TaskFree(BalanceTask)
  <2>1. /\ balance'[c] = "working"
        /\ locked' = locked \cup {BalanceTask}
        /\ BalanceTask \notin locked
        BY <1>3 DEF BalanceStarts, TypeOK, TaskFree
  <2>2. \A d \in Cron : balance[d] # "working"
        BY <2>1 DEF LockExact
  <2> QED
      BY <1>1, <1>2, <2>1, <2>2, TaskNames DEF LockExact, TaskAlone
<1>4. CASE BalanceStarts(c) /\ ~TaskFree(BalanceTask)
  <2>1. /\ balance'[c] = "idle"
        /\ balance[c] = "fired"
        /\ locked' = locked
        BY <1>4 DEF BalanceStarts, TypeOK
  <2> QED
      BY <1>1, <1>2, <2>1, NoTaskMoves
<1>5. CASE BalanceReturns(c)
  <2>1. /\ balance'[c] = "idle"
        /\ balance[c] = "working"
        /\ locked' = locked \ {BalanceTask}
        BY <1>5 DEF BalanceReturns, Unlocked, TypeOK
  <2>2. \A d \in Cron : balance[d] = "working" => d = c
        BY <2>1 DEF TaskAlone
  <2> QED
      BY <1>1, <1>2, <2>1, <2>2, TaskNames DEF LockExact, TaskAlone
<1> QED
    BY <1>3, <1>4, <1>5

LEMMA AloneStep ==
    TypeOK /\ LockExact /\ TaskAlone /\ [Next]_vars => LockExact' /\ TaskAlone'
<1> SUFFICES ASSUME TypeOK, LockExact, TaskAlone, [Next]_vars
             PROVE  LockExact' /\ TaskAlone'
    OBVIOUS
<1>1. CASE UNCHANGED vars
      BY <1>1, NoTaskMoves DEF vars
<1>2. CASE StopScheduler \/ \E c \in Cron : StartScheduler(c) \/ JobCancels(c)
      BY <1>2, CancelKeepsWork, NoTaskMoves
      DEF StopScheduler, StartScheduler, JobCancels
<1>3. CASE \/ \E c \in Cron : CheckinFires(c)
           \/ \E c \in Cron, rows \in SUBSET Account : JobLists(c, rows)
      BY <1>3, NoTaskMoves DEF CheckinFires, JobLists
<1>4. CASE \E c \in Cron, p \in Pass : JobArms(c, p)
  <2>1. PICK c \in Cron, p \in Pass : JobArms(c, p)
        BY <1>4
  <2>2. /\ locked' = locked
        /\ balance' = balance
        /\ timer' = [t \in Timer |-> IF t \in {p} \X job[c].rows THEN "armed"
                                     ELSE timer[t]]
        BY <2>1 DEF JobArms
  <2>3. \A t \in {p} \X job[c].rows : timer[t] = "off"
        BY <2>1 DEF JobArms, TypeOK
  <2>4. \A t \in Timer : timer'[t] = "working" <=> timer[t] = "working"
        BY <2>2, <2>3
  <2> QED
      BY <2>2, <2>4, NoTaskMoves
<1>5. CASE \E c \in Cron : BalanceFires(c)
  <2>1. PICK c \in Cron : BalanceFires(c)
        BY <1>5
  <2>2. \A d \in Cron : balance'[d] = "working" <=> balance[d] = "working"
        BY <2>1 DEF BalanceFires, TypeOK
  <2> QED
      BY <2>1, <2>2, NoTaskMoves DEF BalanceFires
<1>6. CASE \E c \in Cron : BalanceStarts(c) \/ BalanceReturns(c)
      BY <1>6, BalanceAlone
<1>7. CASE \E t \in Timer : TimerFires(t) \/ CheckinSkipped(t) \/ CallbackEnds(t)
  <2>1. PICK t \in Timer : TimerFires(t) \/ CheckinSkipped(t) \/ CallbackEnds(t)
        BY <1>7
  <2>2. \A u \in Timer : timer'[u] = "working" <=> timer[u] = "working"
        BY <2>1 DEF TimerFires, CheckinSkipped, CallbackEnds, TypeOK
  <2>3. locked' = locked /\ balance' = balance
        BY <2>1 DEF TimerFires, CheckinSkipped, CallbackEnds
  <2> QED
      BY <2>2, <2>3, NoTaskMoves
<1>8. CASE \E t \in Timer : CheckinStarts(t)
      BY <1>8, CheckinStartsAlone
<1>9. CASE \E t \in Timer : CheckinReturns(t)
      BY <1>9, CheckinReturnsAlone
<1> QED
    BY <1>1, <1>2, <1>3, <1>4, <1>5, <1>6, <1>7, <1>8, <1>9, NextCases

\* Across reloads and overlapping passes, no scheduled check-in of an account
\* and no scheduled balance refresh runs twice at the same time.
THEOREM TasksAlone == Spec => []TaskAlone
<1>1. Init => LockExact /\ TaskAlone
      BY DEF Init, LockExact, TaskAlone, Timer
<1> QED
    BY <1>1, AloneStep, TypeCorrect, PTL DEF Spec
-----------------------------------------------------------------------------
LEMMA LiveFinite ==
    /\ IsFiniteSet(Live)
    /\ Cardinality(Live) \in Nat
<1>1. IsFiniteSet(Timer)
      BY ConstantsFinite, FS_Product DEF Timer
<1>2. Live \in SUBSET Timer
      BY DEF Live
<1> QED
    BY <1>1, <1>2, FS_Subset, FS_CardinalityType

\* The same for the next state: Timer is a constant.
LEMMA LiveFiniteNext ==
    /\ IsFiniteSet(Live')
    /\ Cardinality(Live') \in Nat
<1>1. IsFiniteSet(Timer)
      BY ConstantsFinite, FS_Product DEF Timer
<1>2. Live' \in SUBSET Timer
      BY DEF Live
<1> QED
    BY <1>1, <1>2, FS_Subset, FS_CardinalityType

LEMMA PendingStep ==
    TypeOK /\ PendingNotOverstated /\ [Next]_vars => PendingNotOverstated'
<1> SUFFICES ASSUME TypeOK, PendingNotOverstated, [Next]_vars
             PROVE  PendingNotOverstated'
    OBVIOUS
<1>1. ASSUME count' = count, Live' = Live
      PROVE  PendingNotOverstated'
      BY <1>1 DEF PendingNotOverstated
<1>2. ASSUME count' = 0
      PROVE  PendingNotOverstated'
      BY <1>2, LiveFiniteNext DEF PendingNotOverstated
<1>3. CASE UNCHANGED vars
      BY <1>1, <1>3 DEF vars, Live
<1>4. CASE StopScheduler \/ \E c \in Cron : StartScheduler(c) \/ JobCancels(c)
      BY <1>2, <1>4
      DEF StopScheduler, StartScheduler, JobCancels, CancelPendingCheckins
<1>5. CASE \/ \E c \in Cron : CheckinFires(c)
           \/ \E c \in Cron, rows \in SUBSET Account : JobLists(c, rows)
           \/ \E c \in Cron : BalanceFires(c) \/ BalanceStarts(c) \/ BalanceReturns(c)
  <2>1. count' = count /\ timer' = timer
        BY <1>5, Zenon DEF CheckinFires, JobLists, BalanceFires, BalanceStarts,
                           BalanceReturns
  <2>2. Live' = Live
        BY <2>1 DEF Live
  <2> QED
      BY <1>1, <2>1, <2>2
<1>6. CASE \E c \in Cron, p \in Pass : JobArms(c, p)
  <2>1. PICK c \in Cron, p \in Pass : JobArms(c, p)
        BY <1>6
  <2> DEFINE rows == job[c].rows
             new == {p} \X rows
  <2>2. rows \in SUBSET Account
        BY DEF TypeOK
  <2>3. IsFiniteSet(rows) /\ IsFiniteSet({p}) /\ Cardinality({p}) = 1
        BY <2>2, ConstantsFinite, FS_Subset, FS_Singleton
  <2>4. Cardinality(new) = 1 * Cardinality(rows)
        BY <2>3, FS_Product
  <2>5. Cardinality(rows) \in Nat
        BY <2>3, FS_CardinalityType
  <2>6. Cardinality(new) = Cardinality(rows)
        BY <2>4, <2>5
  <2>7. new \in SUBSET Timer
        BY <2>2 DEF Timer
  <2>8. timer' = [t \in Timer |-> IF t \in new THEN "armed" ELSE timer[t]]
        BY <2>1 DEF JobArms
  <2>9. new \in SUBSET (Live')
        BY <2>7, <2>8 DEF Live
  <2>10. Cardinality(new) <= Cardinality(Live')
         BY <2>9, LiveFiniteNext, FS_Subset
  <2>11. count' = Cardinality(rows)
         BY <2>1 DEF JobArms
  <2> QED
      BY <2>6, <2>10, <2>11 DEF PendingNotOverstated
<1>7. CASE \E t \in Timer : \/ TimerFires(t) \/ CheckinStarts(t)
                            \/ CheckinSkipped(t) \/ CheckinReturns(t)
  <2>1. PICK t \in Timer : \/ TimerFires(t) \/ CheckinStarts(t)
                           \/ CheckinSkipped(t) \/ CheckinReturns(t)
        BY <1>7
  <2>2. count' = count
        BY <2>1 DEF TimerFires, CheckinStarts, CheckinSkipped, CheckinReturns
  <2>3. \A u \in Timer : timer'[u] = "off" <=> timer[u] = "off"
        BY <2>1 DEF TimerFires, CheckinStarts, CheckinSkipped, CheckinReturns,
                    TypeOK
  <2>4. Live' = Live
        BY <2>3 DEF Live
  <2> QED
      BY <1>1, <2>2, <2>4
<1>8. CASE \E t \in Timer : CallbackEnds(t)
  <2>1. PICK t \in Timer : CallbackEnds(t)
        BY <1>8
  <2>2. /\ timer[t] = "ran"
        /\ timer' = [timer EXCEPT ![t] = "off"]
        /\ count' = DecrementedCount
        BY <2>1 DEF CallbackEnds
  <2>3. \A u \in Timer : timer'[u] = IF u = t THEN "off" ELSE timer[u]
        BY <2>2 DEF TypeOK
  <2>4. Live' = Live \ {t}
        BY <2>3 DEF Live
  <2>5. t \in Live
        BY <2>2 DEF Live
  <2>6. Cardinality(Live') = Cardinality(Live) - 1
        BY <2>4, <2>5, LiveFinite, FS_RemoveElement
  <2>7. count \in Nat /\ count <= Cardinality(Live)
        BY DEF TypeOK, PendingNotOverstated
  <2>8. \/ count # 0 /\ count' = count - 1
        \/ count' = 0
        BY <2>2, <2>7, DecrementNat
  <2>9. CASE count' = 0
        BY <1>2, <2>9
  <2>10. CASE count' = count - 1
         BY <2>6, <2>7, <2>10, LiveFinite DEF PendingNotOverstated
  <2> QED
      BY <2>8, <2>9, <2>10
<1> QED
    BY <1>3, <1>4, <1>5, <1>6, <1>7, <1>8, NextCases

\* The status never counts a check-in that is not to come, whatever passes,
\* crons and callbacks overlap.
THEOREM PendingBounded == Spec => []PendingNotOverstated
<1>1. Init => PendingNotOverstated
      BY LiveFinite DEF Init, PendingNotOverstated
<1> QED
    BY <1>1, PendingStep, TypeCorrect, PTL DEF Spec
-----------------------------------------------------------------------------
\* Between the cancelling and the arming of its own timers, the one cron's
\* job finds none armed; otherwise each armed timer is in the list.
ArmedTracked ==
    /\ Armed \subseteq tracked
    /\ \A c \in Cron : job[c].pc \in {"list", "arm"} => Armed = {}

LEMMA CancelDisarms ==
    ASSUME TypeOK, Armed \subseteq tracked, CancelPendingCheckins
    PROVE  Armed' = {}
  BY DEF CancelPendingCheckins, Armed, TypeOK

LEMMA TrackedStep ==
    ASSUME \A c, d \in Cron : c = d,
           TypeOK, ArmedTracked, [Next]_vars
    PROVE  ArmedTracked'
<1>1. CASE UNCHANGED vars
      BY <1>1 DEF vars, ArmedTracked, Armed
<1>2. CASE StopScheduler \/ \E c \in Cron : StartScheduler(c) \/ JobCancels(c)
  <2>1. CancelPendingCheckins
        BY <1>2 DEF StopScheduler, StartScheduler, JobCancels
  <2>2. Armed' = {}
        BY <2>1, CancelDisarms DEF ArmedTracked
  <2> QED
      BY <2>2 DEF ArmedTracked
<1>3. CASE \E c \in Cron : CheckinFires(c)
  <2>1. PICK c \in Cron : CheckinFires(c)
        BY <1>3
  <2>2. timer' = timer /\ tracked' = tracked
        BY <2>1 DEF CheckinFires
  <2>3. \A d \in Cron : job'[d].pc = "cancel"
        BY <2>1 DEF CheckinFires, FirstStep, TypeOK
  <2> QED
      BY <2>2, <2>3 DEF ArmedTracked, Armed
<1>4. CASE \E c \in Cron, rows \in SUBSET Account : JobLists(c, rows)
  <2>1. PICK c \in Cron, rows \in SUBSET Account : JobLists(c, rows)
        BY <1>4
  <2>2. timer' = timer /\ tracked' = tracked /\ job[c].pc = "list"
        BY <2>1 DEF JobLists
  <2>3. Armed = {}
        BY <2>2 DEF ArmedTracked
  <2> QED
      BY <2>2, <2>3 DEF ArmedTracked, Armed
<1>5. CASE \E c \in Cron, p \in Pass : JobArms(c, p)
  <2>1. PICK c \in Cron, p \in Pass : JobArms(c, p)
        BY <1>5
  <2> DEFINE new == {p} \X job[c].rows
  <2>2. Armed = {}
        BY <2>1 DEF JobArms, ArmedTracked
  <2>3. /\ timer' = [t \in Timer |-> IF t \in new THEN "armed" ELSE timer[t]]
        /\ tracked' = new
        /\ job' = [job EXCEPT ![c] = NoJob]
        BY <2>1 DEF JobArms
  <2>4. Armed' \subseteq tracked'
        BY <2>2, <2>3 DEF Armed
  <2>5. \A d \in Cron : job'[d].pc = "idle"
        BY <2>3 DEF NoJob, TypeOK
  <2> QED
      BY <2>4, <2>5 DEF ArmedTracked
<1>6. CASE \E t \in Timer : TimerStep(t)
  <2>1. PICK t \in Timer : TimerStep(t)
        BY <1>6
  <2>2. tracked' = tracked /\ job' = job
        BY <2>1 DEF TimerStep, TimerFires, CheckinStarts, CheckinSkipped,
                    CheckinReturns, CallbackEnds
  <2>3. \A u \in Timer : timer'[u] = "armed" => timer[u] = "armed"
        BY <2>1 DEF TimerStep, TimerFires, CheckinStarts, CheckinSkipped,
                    CheckinReturns, CallbackEnds, TypeOK
  <2>4. Armed' \subseteq Armed
        BY <2>3 DEF Armed
  <2> QED
      BY <2>2, <2>4 DEF ArmedTracked
<1>7. CASE \E c \in Cron : BalanceFires(c) \/ BalanceStep(c)
  <2>1. timer' = timer /\ tracked' = tracked /\ job' = job
        BY <1>7, Zenon DEF BalanceStep, BalanceFires, BalanceStarts, BalanceReturns
  <2> QED
      BY <2>1 DEF ArmedTracked, Armed
<1> QED
    BY <1>1, <1>2, <1>3, <1>4, <1>5, <1>6, <1>7 DEF Next, JobStep

\* If the jobs of an old cron have ended before a new one is started, then
\* cancelPendingCheckins leaves no armed timer behind.
THEOREM CancelComplete ==
    ASSUME \A c, d \in Cron : c = d
    PROVE  Spec => CancelsAll
<1>1. Init => ArmedTracked
      BY DEF Init, ArmedTracked, Armed, NoJob
<1>2. TypeOK /\ ArmedTracked /\ [Next]_vars => ArmedTracked'
      BY TrackedStep
<1>3. TypeOK /\ ArmedTracked /\ [Next]_vars
      => [(\/ StopScheduler
           \/ \E c \in Cron : StartScheduler(c) \/ JobCancels(c)) => Armed' = {}]_vars
  <2> SUFFICES ASSUME TypeOK, ArmedTracked,
                      StopScheduler \/ \E c \in Cron : StartScheduler(c) \/ JobCancels(c)
               PROVE  Armed' = {}
      OBVIOUS
  <2>1. CancelPendingCheckins
        BY DEF StopScheduler, StartScheduler, JobCancels
  <2> QED
      BY <2>1, CancelDisarms DEF ArmedTracked
<1> QED
    BY <1>1, <1>2, <1>3, TypeCorrect, PTL DEF Spec, CancelsAll

-----------------------------------------------------------------------------
(* The delays of one pass: CheckinWindow. *)

\* Days are whole multiples of their minutes.
LEMMA Multiples ==
    /\ \A a, b, d \in Nat : a <= b => a * d <= b * d
    /\ \A a, b, d \in Nat : a < b => a * d + d <= b * d
<1>1. ASSUME NEW a \in Nat, NEW c \in Nat, NEW d \in Nat
      PROVE  (a + c) * d = a * d + c * d /\ c * d >= 0 /\ (c >= 1 => c * d >= d)
  OBVIOUS
<1>2. ASSUME NEW a \in Nat, NEW b \in Nat, NEW d \in Nat, a <= b
      PROVE  a * d <= b * d /\ (a < b => a * d + d <= b * d)
  <2>1. b - a \in Nat /\ a + (b - a) = b
    BY <1>2
  <2>2. (a + (b - a)) * d = a * d + (b - a) * d /\ (b - a) * d >= 0
        /\ (b - a >= 1 => (b - a) * d >= d)
    BY <1>1, <2>1
  <2>3. b * d = a * d + (b - a) * d
    BY <2>1, <2>2
  <2> DEFINE x == a * d
             y == b * d
             z == (b - a) * d
  <2>4. x \in Int /\ y \in Int /\ z \in Int
    BY <1>2
  <2>5. y = x + z /\ z >= 0 /\ (b - a >= 1 => z >= d)
    BY <2>2, <2>3
  <2> HIDE DEF x, y, z
  <2>6. x <= y /\ (a < b => x + d <= y)
    BY <1>2, <2>4, <2>5
  <2>7. QED
    BY <2>6 DEF x, y
<1>3. QED
  BY <1>2

\* Division with remainder.
LEMMA DivMod ==
    ASSUME NEW n \in Nat, NEW d \in Nat \ {0}
    PROVE  /\ n \div d \in Nat
           /\ n % d \in 0 .. d - 1
           /\ n = (n \div d) * d + (n % d)
<1>1. n \div d \in Nat
  OBVIOUS
<1>2. n % d \in 0 .. d - 1
  OBVIOUS
<1>3. n = (n \div d) * d + (n % d)
  OBVIOUS
<1>4. QED
  BY <1>1, <1>2, <1>3

\* Quotient and remainder are the only such pair.
LEMMA DivModIs ==
    ASSUME NEW d \in Nat \ {0}, NEW q \in Nat, NEW r \in 0 .. d - 1
    PROVE  (q * d + r) \div d = q /\ (q * d + r) % d = r
OBVIOUS

\* What the parameters say, each a number.
LEMMA Numbers ==
    /\ Hour \in Nat \ {0} /\ Day \in Nat \ {0}
           /\ Accounts \in Nat \ {0} /\ WindowMinutes \in Nat \ {0}
           /\ WindowStart \in Nat /\ WindowEnd \in Nat
           /\ WindowStart < WindowEnd /\ WindowEnd <= Day
           /\ DayMinutes \in Nat \ {0}
           /\ DayMinutes = Day * Hour
           /\ Begin \subseteq 0 .. DayMinutes - 1
           /\ Gaps \subseteq Nat \ {0}
<1>1. /\ Hour \in Nat \ {0} /\ Day \in Nat \ {0}
      /\ Accounts \in Nat \ {0} /\ WindowMinutes \in Nat \ {0}
      /\ WindowStart \in 0 .. Day /\ WindowEnd \in 0 .. Day /\ WindowStart < WindowEnd
      /\ Begin \subseteq 0 .. DayMinutes - 1
      /\ Gaps \subseteq Nat \ {0}
  BY WindowAssumption DEF Parameters
<1>2. Hour * Day \in Nat \ {0} /\ Hour * Day = Day * Hour
  BY <1>1
<1>3. QED
  BY <1>1, <1>2 DEF DayMinutes

\* Minute m of hour h of day q.
At(q, h, m) == q * DayMinutes + (h * Hour + m)

\* Such a minute is a number, within its day.
LEMMA AtNat ==
    ASSUME NEW q \in Nat, NEW h \in 0 .. Day - 1, NEW m \in 0 .. Hour - 1
    PROVE  /\ At(q, h, m) \in Nat
           /\ h * Hour \in Nat
           /\ q * DayMinutes \in Nat
           /\ h * Hour + m \in 0 .. DayMinutes - 1
<1>1. /\ Hour \in Nat /\ Day \in Nat /\ DayMinutes \in Nat
      /\ DayMinutes = Day * Hour /\ h \in Nat /\ m \in Nat /\ h < Day /\ m < Hour
  BY Numbers
<1>2. h * Hour \in Nat /\ q * DayMinutes \in Nat
  BY <1>1
<1>3. h * Hour + Hour <= DayMinutes
  BY <1>1, Multiples
<1>4. h * Hour + m \in 0 .. DayMinutes - 1
  BY <1>1, <1>2, <1>3
<1>5. QED
  BY <1>1, <1>2, <1>4 DEF At

\* What the clock shows then.
LEMMA ClockAt ==
    ASSUME NEW q \in Nat, NEW h \in 0 .. Day - 1, NEW m \in 0 .. Hour - 1
    PROVE  /\ HourOf(At(q, h, m)) = h
           /\ Midnight(At(q, h, m)) = q * DayMinutes
<1>1. Hour \in Nat \ {0} /\ DayMinutes \in Nat \ {0} /\ h \in Nat
  BY Numbers
<1>2. h * Hour + m \in 0 .. DayMinutes - 1
  BY AtNat
<1>3. /\ At(q, h, m) \div DayMinutes = q
      /\ At(q, h, m) % DayMinutes = h * Hour + m
  BY <1>1, <1>2, DivModIs DEF At
<1>4. (h * Hour + m) \div Hour = h
  BY <1>1, DivModIs
<1>5. QED
  BY <1>3, <1>4 DEF HourOf, Midnight

\* Every time is a minute of an hour of a day.
LEMMA ClockOf ==
    ASSUME NEW t \in Nat
    PROVE  \E q \in Nat, h \in 0 .. Day - 1, m \in 0 .. Hour - 1 : t = At(q, h, m)
<1> DEFINE q == t \div DayMinutes
           r == t % DayMinutes
           h == r \div Hour
           m == r % Hour
<1>1. /\ Hour \in Nat \ {0} /\ Day \in Nat \ {0} /\ DayMinutes \in Nat \ {0}
      /\ DayMinutes = Day * Hour
  BY Numbers
<1>2. q \in Nat /\ r \in 0 .. DayMinutes - 1 /\ t = q * DayMinutes + r
  BY <1>1, DivMod
<1>3. h \in Nat /\ m \in 0 .. Hour - 1 /\ r = h * Hour + m
  <2>1. r \in Nat
    BY <1>1, <1>2
  <2> HIDE DEF q, r
  <2>2. QED
    BY <1>1, <2>1, DivMod
<1> HIDE DEF q, r, h, m
<1>4. h < Day
  <2>1. Day <= h => Day * Hour <= h * Hour
    BY <1>1, <1>3, Multiples
  <2>2. h * Hour \in Nat
    BY <1>1, <1>3
  <2>3. h * Hour <= r
    BY <1>3, <2>2
  <2>4. ~(Day * Hour <= h * Hour)
    BY <1>1, <1>2, <2>2, <2>3
  <2>5. QED
    BY <1>1, <1>3, <2>1, <2>4
<1>5. t = At(q, h, m)
  BY <1>2, <1>3 DEF At
<1>6. QED
  BY <1>1, <1>2, <1>3, <1>4, <1>5

\* A later hour, or a later day, is a later time.
LEMMA LaterAt ==
    ASSUME NEW q \in Nat, NEW h \in 0 .. Day - 1, NEW m \in 0 .. Hour - 1,
           NEW p \in Nat, NEW g \in 0 .. Day - 1, NEW n \in 0 .. Hour - 1,
           q < p \/ (q = p /\ h < g)
    PROVE  At(q, h, m) < At(p, g, n)
<1>1. /\ Hour \in Nat /\ Day \in Nat /\ DayMinutes \in Nat
      /\ h \in Nat /\ g \in Nat /\ m \in Nat /\ n \in Nat /\ m < Hour
  BY Numbers
<1>2. /\ h * Hour \in Nat /\ g * Hour \in Nat
      /\ q * DayMinutes \in Nat /\ p * DayMinutes \in Nat
      /\ h * Hour + m < DayMinutes
  <2>1. h * Hour \in Nat /\ q * DayMinutes \in Nat
        /\ h * Hour + m \in 0 .. DayMinutes - 1
    BY AtNat
  <2>2. g * Hour \in Nat /\ p * DayMinutes \in Nat
    BY AtNat
  <2>3. QED
    BY <1>1, <2>1, <2>2
<1>3. CASE q < p
  <2>1. q * DayMinutes + DayMinutes <= p * DayMinutes
    BY <1>1, <1>3, Multiples
  <2>2. QED
    BY <1>1, <1>2, <2>1 DEF At
<1>4. CASE q = p /\ h < g
  <2>1. h * Hour + Hour <= g * Hour
    BY <1>1, <1>4, Multiples
  <2>2. QED
    BY <1>1, <1>2, <1>4, <2>1 DEF At
<1>5. QED
  BY <1>3, <1>4

-----------------------------------------------------------------------------
(* Clamping. *)

\* The cron fires before the window ends.
BeginsInTime == \A t \in Begin : HourOf(t) < WindowEnd

\* The hours that bound the window are hours of the day.
LEMMA Hours ==
    /\ WindowStart \in 0 .. Day - 1 /\ WindowEnd - 1 \in 0 .. Day - 1
    /\ Hour \in Nat \ {0}
    /\ now \in Begin => now \in Nat /\ now < DayMinutes
<1>1. WindowStart \in 0 .. Day - 1 /\ WindowEnd - 1 \in 0 .. Day - 1 /\ Hour \in Nat \ {0}
  BY Numbers
<1>2. now \in Begin => now \in Nat /\ now < DayMinutes
  <2>1. Begin \subseteq 0 .. DayMinutes - 1 /\ DayMinutes \in Nat
    BY Numbers
  <2>2. QED
    BY <2>1
<1>3. QED
  BY <1>1, <1>2

\* A minute of half an hour is one of the hour.
LEMMA HalfHour == \A l \in 0 .. Hour \div 2 - 1 : l \in 0 .. Hour - 1
<1>1. Hour \in Nat \ {0}
  BY Numbers
<1>2. Hour \div 2 <= Hour /\ Hour \div 2 \in Nat
  BY <1>1
<1>3. QED
  BY <1>1, <1>2

\* The hours that times are clamped into, as minutes on the clock.
LEMMA ClampedInto ==
    ASSUME NEW q \in Nat, NEW h \in 0 .. Day - 1, NEW m \in 0 .. Hour - 1
    PROVE  /\ \A e \in LastHour(At(q, h, m)) :
                 \E n \in 0 .. Hour - 1 : e = At(q, WindowEnd - 1, n)
           /\ \A e \in FirstHalf(At(q, h, m)) :
                 \E n \in 0 .. Hour \div 2 - 1 : e = At(q, WindowStart, n)
<1>1. Midnight(At(q, h, m)) = q * DayMinutes
  BY ClockAt
<1>2. q * DayMinutes \in Nat /\ (WindowEnd - 1) * Hour \in Nat /\ WindowStart * Hour \in Nat
  <2>1. q * DayMinutes \in Nat
    BY AtNat
  <2>2. (WindowEnd - 1) * Hour \in Nat
    BY Hours, AtNat
  <2>3. WindowStart * Hour \in Nat
    BY Hours, AtNat
  <2>4. QED
    BY <2>1, <2>2, <2>3
<1>3. ASSUME NEW e \in LastHour(At(q, h, m))
      PROVE  \E n \in 0 .. Hour - 1 : e = At(q, WindowEnd - 1, n)
  <2>1. PICK n \in 0 .. Hour - 1 : e = Midnight(At(q, h, m)) + (WindowEnd - 1) * Hour + n
    BY <1>3 DEF LastHour
  <2>2. e = At(q, WindowEnd - 1, n)
    BY <1>1, <1>2, <2>1 DEF At
  <2>3. QED
    BY <2>2
<1>4. ASSUME NEW e \in FirstHalf(At(q, h, m))
      PROVE  \E n \in 0 .. Hour \div 2 - 1 : e = At(q, WindowStart, n)
  <2>1. PICK n \in 0 .. Hour \div 2 - 1 : e = Midnight(At(q, h, m)) + WindowStart * Hour + n
    BY <1>4 DEF FirstHalf
  <2>2. n \in 0 .. Hour - 1
    BY HalfHour
  <2>3. e = At(q, WindowStart, n)
    BY <1>1, <1>2, <2>1, <2>2 DEF At
  <2>4. QED
    BY <2>3
<1>5. QED
  BY <1>3, <1>4

\* They count as clamped.
LEMMA CountsAsClamped ==
    ASSUME NEW q \in Nat
    PROVE  /\ \A n \in 0 .. Hour - 1 : Clamped(At(q, WindowEnd - 1, n))
           /\ \A n \in 0 .. Hour \div 2 - 1 : Clamped(At(q, WindowStart, n))
<1>1. ASSUME NEW n \in 0 .. Hour - 1
      PROVE  Clamped(At(q, WindowEnd - 1, n))
  <2>1. WindowEnd - 1 \in 0 .. Day - 1
    BY Hours
  <2>2. /\ Midnight(At(q, WindowEnd - 1, n)) = q * DayMinutes
        /\ q * DayMinutes \in Nat /\ (WindowEnd - 1) * Hour \in Nat
    BY <2>1, ClockAt, AtNat
  <2>3. At(q, WindowEnd - 1, n) \in LastHour(At(q, WindowEnd - 1, n))
    BY <2>2 DEF LastHour, At
  <2>4. QED
    BY <2>3 DEF Clamped
<1>2. ASSUME NEW n \in 0 .. Hour \div 2 - 1
      PROVE  Clamped(At(q, WindowStart, n))
  <2>1. WindowStart \in 0 .. Day - 1 /\ n \in 0 .. Hour - 1
    BY Hours, HalfHour
  <2>2. /\ Midnight(At(q, WindowStart, n)) = q * DayMinutes
        /\ q * DayMinutes \in Nat /\ WindowStart * Hour \in Nat
    BY <2>1, ClockAt, AtNat
  <2>3. At(q, WindowStart, n) \in FirstHalf(At(q, WindowStart, n))
    BY <2>2 DEF FirstHalf, At
  <2>4. QED
    BY <2>3 DEF Clamped
<1>3. QED
  BY <1>1, <1>2

\* The delay until a time brings that time about, or now.
LEMMA UntilIs ==
    ASSUME now \in Nat, NEW e \in Nat
    PROVE  /\ Until(e) \in Nat
           /\ now + Until(e) = IF e < now THEN now ELSE e
BY DEF Until

\* The three cases of clampCheckinTime.
LEMMA ClampCases ==
    ASSUME now \in Begin, NEW delay \in Nat,
           NEW d \in Clamp(delay)
    PROVE  \E q \in Nat, h \in 0 .. Day - 1, m \in 0 .. Hour - 1 :
              /\ now + delay = At(q, h, m)
              /\ \/ h >= WindowEnd /\ \E n \in 0 .. Hour - 1 :
                       d = Until(At(q, WindowEnd - 1, n))
                 \/ h < WindowStart /\ \E n \in 0 .. Hour \div 2 - 1 :
                       d = Until(At(q, WindowStart, n))
                 \/ h \in WindowStart .. WindowEnd - 1 /\ d = delay
<1>1. now + delay \in Nat
  BY Hours
<1>2. PICK q \in Nat, h \in 0 .. Day - 1, m \in 0 .. Hour - 1 : now + delay = At(q, h, m)
  BY <1>1, ClockOf
<1>3. HourOf(At(q, h, m)) = h
  BY ClockAt
<1>4. d \in CASE h >= WindowEnd -> {Until(e) : e \in LastHour(At(q, h, m))}
             [] h < WindowStart -> {Until(e) : e \in FirstHalf(At(q, h, m))}
             [] OTHER -> {delay}
  BY <1>2, <1>3 DEF Clamp
<1>5. h \in Nat /\ WindowStart \in Nat /\ WindowEnd \in Nat /\ WindowStart < WindowEnd
  BY Numbers
<1>6. CASE h >= WindowEnd
  <2>1. PICK e \in LastHour(At(q, h, m)) : d = Until(e)
    BY <1>4, <1>5, <1>6
  <2>2. PICK n \in 0 .. Hour - 1 : e = At(q, WindowEnd - 1, n)
    BY <2>1, ClampedInto
  <2>3. QED
    BY <1>2, <1>6, <2>1, <2>2
<1>7. CASE h < WindowStart
  <2>1. PICK e \in FirstHalf(At(q, h, m)) : d = Until(e)
    BY <1>4, <1>5, <1>7
  <2>2. PICK n \in 0 .. Hour \div 2 - 1 : e = At(q, WindowStart, n)
    BY <2>1, ClampedInto
  <2>3. QED
    BY <1>2, <1>7, <2>1, <2>2
<1>8. CASE ~(h >= WindowEnd) /\ ~(h < WindowStart)
  <2>1. d = delay
    BY <1>4, <1>8
  <2>2. h \in WindowStart .. WindowEnd - 1
    BY <1>5, <1>8
  <2>3. QED
    BY <1>2, <2>1, <2>2
<1>9. QED
  BY <1>6, <1>7, <1>8

\* What is clamped lies in the window, if the cron fires before its end.
LEMMA ClampInside ==
    ASSUME BeginsInTime, now \in Begin, NEW delay \in Nat,
           NEW d \in Clamp(delay)
    PROVE  d \in Nat /\ HourOf(now + d) \in WindowStart .. WindowEnd - 1
<1>1. PICK q \in Nat, h \in 0 .. Day - 1, m \in 0 .. Hour - 1 :
         /\ now + delay = At(q, h, m)
         /\ \/ h >= WindowEnd /\ \E n \in 0 .. Hour - 1 :
                  d = Until(At(q, WindowEnd - 1, n))
            \/ h < WindowStart /\ \E n \in 0 .. Hour \div 2 - 1 :
                  d = Until(At(q, WindowStart, n))
            \/ h \in WindowStart .. WindowEnd - 1 /\ d = delay
  BY ClampCases
<1>2. /\ WindowStart \in 0 .. Day - 1 /\ WindowEnd - 1 \in 0 .. Day - 1 /\ WindowStart < WindowEnd
      /\ h \in Nat /\ now \in Nat /\ WindowStart \in Nat /\ WindowEnd \in Nat
  BY Hours, Numbers
\* Now is on the first day, at an hour before the end of the window.
<1>3. PICK hn \in 0 .. Day - 1, mn \in 0 .. Hour - 1 : now = At(0, hn, mn)
  <2>1. PICK qn \in Nat, hn \in 0 .. Day - 1, mn \in 0 .. Hour - 1 : now = At(qn, hn, mn)
    BY <1>2, ClockOf
  <2>2. DayMinutes \in Nat /\ now < DayMinutes
    BY Hours, Numbers
  <2>3. hn * Hour + mn \in Nat
    <3>1. hn * Hour + mn \in 0 .. DayMinutes - 1
      BY AtNat
    <3>2. QED
      BY <3>1
  <2>4. 0 < qn => 0 * DayMinutes + DayMinutes <= qn * DayMinutes
    BY <2>2, Multiples
  <2>5. qn * DayMinutes \in Nat
    BY <2>2
  <2>6. qn = 0
    BY <2>1, <2>2, <2>3, <2>4, <2>5 DEF At
  <2>7. QED
    BY <2>1, <2>6
<1>4. HourOf(now) = hn /\ hn < WindowEnd
  <2>1. HourOf(now) = hn
    BY <1>3, ClockAt
  <2>2. QED
    BY <2>1 DEF BeginsInTime
<1>5. CASE h >= WindowEnd
  <2>1. PICK n \in 0 .. Hour - 1 : d = Until(At(q, WindowEnd - 1, n))
    BY <1>1, <1>2, <1>5
  <2> DEFINE e == At(q, WindowEnd - 1, n)
  <2>2. e \in Nat /\ HourOf(e) = WindowEnd - 1
    BY <1>2, AtNat, ClockAt
  <2>3. ASSUME e < now PROVE hn = WindowEnd - 1
    <3>1. ~(hn < WindowEnd - 1)
      <4>1. ASSUME hn < WindowEnd - 1 PROVE now < e
        <5>1. 0 < q \/ (0 = q /\ hn < WindowEnd - 1)
          BY <4>1
        <5>2. At(0, hn, mn) < At(q, WindowEnd - 1, n)
          BY <1>2, <5>1, LaterAt
        <5>3. QED
          BY <1>3, <5>2
      <4> HIDE DEF e
      <4>2. QED
        BY <1>2, <2>2, <2>3, <4>1
    <3>2. QED
      BY <1>2, <1>4, <3>1
  <2> HIDE DEF e
  <2>4. d = Until(e)
    BY <2>1 DEF e
  <2>5. d \in Nat /\ now + d = IF e < now THEN now ELSE e
    BY <1>2, <2>2, <2>4, UntilIs
  <2>6. HourOf(now + d) = WindowEnd - 1
    BY <1>4, <2>2, <2>3, <2>5
  <2>7. QED
    BY <1>2, <2>5, <2>6
<1>6. CASE h < WindowStart
  <2>1. PICK n \in 0 .. Hour \div 2 - 1 : d = Until(At(q, WindowStart, n))
    BY <1>1, <1>2, <1>6
  <2> DEFINE e == At(q, WindowStart, n)
  <2>2. n \in 0 .. Hour - 1
    BY HalfHour
  <2>3. e \in Nat /\ HourOf(e) = WindowStart
    BY <1>2, <2>2, AtNat, ClockAt
  \* The time to be clamped is not before now, but before the window.
  <2>4. At(q, h, m) < e
    BY <1>2, <1>6, <2>2, LaterAt
  <2> HIDE DEF e
  <2>5. now <= At(q, h, m) /\ At(q, h, m) \in Nat
    BY <1>1, <1>2
  <2>6. d = Until(e) /\ ~(e < now)
    BY <1>2, <2>1, <2>3, <2>4, <2>5 DEF e
  <2>7. d \in Nat /\ now + d = e
    BY <1>2, <2>3, <2>6, UntilIs
  <2>8. QED
    BY <1>2, <2>3, <2>7
<1>7. CASE h \in WindowStart .. WindowEnd - 1
  <2>1. d = delay
    BY <1>1, <1>2, <1>7
  <2>2. HourOf(now + delay) = h
    BY <1>1, ClockAt
  <2>3. QED
    BY <1>7, <2>1, <2>2
<1>8. QED
  BY <1>1, <1>5, <1>6, <1>7

\* A time in the window that is not in the hours others are clamped into.
Free(u) == HourOf(u) \in WindowStart .. WindowEnd - 1 /\ ~Clamped(u)

\* A free time is before the last hour of the window of its day.
LEMMA FreeAt ==
    ASSUME NEW u \in Nat, Free(u)
    PROVE  \E q \in Nat, h \in 0 .. Day - 1, m \in 0 .. Hour - 1 :
              u = At(q, h, m) /\ WindowStart <= h /\ h < WindowEnd - 1
<1>1. PICK q \in Nat, h \in 0 .. Day - 1, m \in 0 .. Hour - 1 : u = At(q, h, m)
  BY ClockOf
<1>2. h \in WindowStart .. WindowEnd - 1
  BY <1>1, ClockAt DEF Free
<1>3. h # WindowEnd - 1
  BY <1>1, CountsAsClamped DEF Free
<1>4. WindowStart \in Nat /\ WindowEnd \in Nat
  BY Numbers
<1>5. QED
  BY <1>1, <1>2, <1>3, <1>4

\* An account put behind a free one stays behind it, clamped or not.
LEMMA StaysBehind ==
    ASSUME now \in Begin, NEW u \in Nat, Free(now + u),
           NEW delay \in Nat, u < delay, NEW d \in Clamp(delay)
    PROVE  u < d /\ (d = delay \/ Clamped(now + d))
<1>1. now \in Nat /\ now + u \in Nat /\ WindowStart \in Nat /\ WindowEnd \in Nat
      /\ WindowStart \in 0 .. Day - 1 /\ WindowEnd - 1 \in 0 .. Day - 1
      /\ WindowStart < WindowEnd
  BY Numbers, Hours
<1>2. PICK q \in Nat, h \in 0 .. Day - 1, m \in 0 .. Hour - 1 :
         now + u = At(q, h, m) /\ WindowStart <= h /\ h < WindowEnd - 1
  BY <1>1, FreeAt
<1>3. PICK p \in Nat, g \in 0 .. Day - 1, n \in 0 .. Hour - 1 :
         /\ now + delay = At(p, g, n)
         /\ \/ g >= WindowEnd /\ \E l \in 0 .. Hour - 1 :
                  d = Until(At(p, WindowEnd - 1, l))
            \/ g < WindowStart /\ \E l \in 0 .. Hour \div 2 - 1 :
                  d = Until(At(p, WindowStart, l))
            \/ g \in WindowStart .. WindowEnd - 1 /\ d = delay
  BY ClampCases
<1>4. At(q, h, m) < At(p, g, n) /\ At(q, h, m) \in Nat /\ At(p, g, n) \in Nat
      /\ h \in Nat /\ g \in Nat
  BY <1>1, <1>2, <1>3
\* A time later than a free one is on no earlier day, and on that day at no
\* earlier hour.
<1>5. q < p \/ (q = p /\ h <= g)
  <2>1. ASSUME p < q \/ (p = q /\ g < h)
        PROVE  At(p, g, n) < At(q, h, m)
    BY <2>1, LaterAt
  <2>2. ~(p < q \/ (p = q /\ g < h))
    BY <1>4, <2>1
  <2>3. QED
    BY <1>4, <2>2
<1>6. ASSUME NEW e \in Nat, now + u < e, d = Until(e), Clamped(e)
      PROVE  u < d /\ Clamped(now + d)
  <2>1. d \in Nat /\ now + d = e
    BY <1>1, <1>6, UntilIs
  <2>2. QED
    BY <1>1, <1>6, <2>1
<1>7. CASE g >= WindowEnd
  <2>1. PICK l \in 0 .. Hour - 1 : d = Until(At(p, WindowEnd - 1, l))
    BY <1>1, <1>3, <1>4, <1>7
  <2>2. At(q, h, m) < At(p, WindowEnd - 1, l) /\ At(p, WindowEnd - 1, l) \in Nat
    BY <1>1, <1>2, <1>5, LaterAt, AtNat
  <2>3. Clamped(At(p, WindowEnd - 1, l))
    BY CountsAsClamped
  <2>4. QED
    BY <1>2, <1>6, <2>1, <2>2, <2>3
<1>8. CASE g < WindowStart
  <2>1. PICK l \in 0 .. Hour \div 2 - 1 : d = Until(At(p, WindowStart, l))
    BY <1>1, <1>3, <1>4, <1>8
  <2>2. q < p
    BY <1>1, <1>2, <1>4, <1>5, <1>8
  <2>3. l \in 0 .. Hour - 1
    BY HalfHour
  <2>4. At(q, h, m) < At(p, WindowStart, l) /\ At(p, WindowStart, l) \in Nat
    BY <1>1, <2>2, <2>3, LaterAt, AtNat
  <2>5. Clamped(At(p, WindowStart, l))
    BY CountsAsClamped
  <2>6. QED
    BY <1>2, <1>6, <2>1, <2>4, <2>5
<1>9. CASE g \in WindowStart .. WindowEnd - 1
  BY <1>1, <1>3, <1>4, <1>9
<1>10. QED
  BY <1>3, <1>7, <1>8, <1>9

-----------------------------------------------------------------------------
(* A pass over the accounts of a site. *)

\* A clamped delay is not negative.
LEMMA ClampNat ==
    ASSUME now \in Begin, NEW delay \in Nat, NEW d \in Clamp(delay)
    PROVE  d \in Nat
<1>1. now \in Nat /\ WindowStart \in 0 .. Day - 1 /\ WindowEnd - 1 \in 0 .. Day - 1
      /\ \A l \in 0 .. Hour \div 2 - 1 : l \in 0 .. Hour - 1
  BY Hours, HalfHour
<1>2. \A q \in Nat, l \in 0 .. Hour - 1 :
         At(q, WindowEnd - 1, l) \in Nat /\ At(q, WindowStart, l) \in Nat
  BY <1>1, AtNat
<1>3. \A e \in Nat : Until(e) \in Nat
  BY <1>1, UntilIs
<1>4. PICK q \in Nat, h \in 0 .. Day - 1, m \in 0 .. Hour - 1 :
         \/ \E l \in 0 .. Hour - 1 : d = Until(At(q, WindowEnd - 1, l))
         \/ \E l \in 0 .. Hour \div 2 - 1 : d = Until(At(q, WindowStart, l))
         \/ d = delay
  <2>1. \E q \in Nat, h \in 0 .. Day - 1, m \in 0 .. Hour - 1 :
           \/ \E l \in 0 .. Hour - 1 : d = Until(At(q, WindowEnd - 1, l))
           \/ \E l \in 0 .. Hour \div 2 - 1 : d = Until(At(q, WindowStart, l))
           \/ d = delay
    BY ClampCases, Zenon
  <2>2. QED
    BY <2>1
<1>5. QED
  BY <1>1, <1>2, <1>3, <1>4

\* The types, with a delay for each account once they are sorted.
DrawsTyped ==
    /\ WindowTypeOK
    /\ k # 0 => Len(delays) = Accounts

\* An account spaced behind a free one is behind it, by a gap if it is free too.
BehindFree ==
    \A i, j \in 1 .. k - 1 : i < j /\ Free(now + delays[i]) =>
        /\ delays[i] < delays[j]
        /\ Free(now + delays[j]) => \E gap \in Gaps : delays[j] - delays[i] >= gap

\* Sorting changes the order only.
LEMMA SortedIs ==
    ASSUME DrawsTyped, Sort
    PROVE  /\ delays' \in Seq(Nat) /\ Len(delays') = Accounts /\ Len(delays) = Accounts
           /\ \A i \in 1 .. Accounts : \E j \in 1 .. Accounts : delays'[i] = delays[j]
<1>1. PICK order \in [1 .. Accounts -> 1 .. Accounts] :
         delays' = [i \in 1 .. Accounts |-> delays[order[i]]]
  BY DEF Sort, Bijection, Injection
<1>2. delays \in Seq(Nat) /\ Len(delays) = Accounts /\ Accounts \in Nat
  BY Numbers DEF DrawsTyped, WindowTypeOK, Sort
<1>3. \A j \in 1 .. Accounts : delays[j] \in Nat
  BY <1>2
<1>4. delays' \in [1 .. Accounts -> Nat]
  BY <1>1, <1>3
<1>5. delays' \in Seq(Nat) /\ Len(delays') = Accounts
  BY <1>2, <1>4
<1>6. QED
  BY <1>1, <1>2, <1>5

\* What Space makes of account k.
LEMMA SpacedIs ==
    ASSUME DrawsTyped, Space
    PROVE  /\ k \in 2 .. Accounts /\ k' = k + 1 /\ now' = now
           /\ Len(delays) = Accounts /\ delays \in Seq(Nat)
           /\ delays' \in Seq(Nat) /\ Len(delays') = Accounts
           /\ \A i \in 1 .. Accounts : i # k => delays'[i] = delays[i]
           /\ \E gap \in Gaps :
                 \/ delays'[k] = delays[k] /\ delays[k] - delays[k - 1] >= gap
                 \/ delays'[k] \in Clamp(delays[k - 1] + gap)
<1>1. k \in 2 .. Accounts /\ k' = k + 1 /\ now' = now /\ Accounts \in Nat
  BY Numbers DEF Space
<1>2. Len(delays) = Accounts /\ delays \in Seq(Nat) /\ now \in Begin
  BY <1>1 DEF DrawsTyped, WindowTypeOK
<1>3. /\ delays[k] \in Nat /\ delays[k - 1] \in Nat
      /\ k \in DOMAIN delays
  BY <1>1, <1>2
<1>4. PICK gap \in Gaps :
         IF delays[k] - delays[k - 1] < gap
         THEN \E delay \in Clamp(delays[k - 1] + gap) :
                 delays' = [delays EXCEPT ![k] = delay]
         ELSE UNCHANGED delays
  BY DEF Space
<1>5. gap \in Nat
  <2>1. gap \in Nat \ {0}
    BY Numbers
  <2>2. QED
    BY <2>1
<1>6. CASE delays[k] - delays[k - 1] < gap
  <2>1. PICK delay \in Clamp(delays[k - 1] + gap) : delays' = [delays EXCEPT ![k] = delay]
    BY <1>4, <1>6
  <2>2. delay \in Nat
    <3>1. delays[k - 1] + gap \in Nat
      BY <1>3, <1>5
    <3>2. QED
      BY <1>2, <3>1, ClampNat
  <2>3. delays' \in Seq(Nat) /\ Len(delays') = Accounts
        /\ delays'[k] = delay /\ \A i \in 1 .. Accounts : i # k => delays'[i] = delays[i]
    BY <1>1, <1>2, <1>3, <2>1, <2>2
  <2>4. QED
    BY <1>1, <1>2, <2>1, <2>3
<1>7. CASE ~(delays[k] - delays[k - 1] < gap)
  <2>1. UNCHANGED delays
    BY <1>4, <1>7
  <2>2. delays[k] - delays[k - 1] >= gap
    BY <1>3, <1>5, <1>7
  <2>3. QED
    BY <1>1, <1>2, <2>1, <2>2
<1>8. QED
  BY <1>6, <1>7

\* What Draw adds.
LEMMA DrawnIs ==
    ASSUME DrawsTyped, Draw
    PROVE  /\ k = 0 /\ k' = 0 /\ now' = now
           /\ \E random \in Nat : \E delay \in Clamp(random) :
                 /\ delay \in Nat
                 /\ delays' = Append(delays, delay)
                 /\ delays' \in Seq(Nat) /\ Len(delays') = Len(delays) + 1
                 /\ delays'[Len(delays) + 1] = delay
                 /\ \A i \in 1 .. Len(delays) : delays'[i] = delays[i]
<1>1. k = 0 /\ k' = 0 /\ now' = now /\ now \in Begin /\ delays \in Seq(Nat)
  BY DEF Draw, DrawsTyped, WindowTypeOK
<1>2. PICK random \in 0 .. (WindowMinutes - 1) :
         \E delay \in Clamp(random) : delays' = Append(delays, delay)
  BY DEF Draw
<1>3. PICK delay \in Clamp(random) : delays' = Append(delays, delay)
  BY <1>2
<1>4. random \in Nat
  BY Numbers
<1>5. delay \in Nat
  BY <1>1, <1>4, ClampNat
<1>6. /\ delays' \in Seq(Nat) /\ Len(delays') = Len(delays) + 1
      /\ delays'[Len(delays) + 1] = delay
      /\ \A i \in 1 .. Len(delays) : delays'[i] = delays[i]
  BY <1>1, <1>3, <1>5
<1>7. QED
  BY <1>1, <1>3, <1>4, <1>5, <1>6

LEMMA DrawsInit == WindowInit => DrawsTyped
<1> SUFFICES ASSUME WindowInit PROVE DrawsTyped
  OBVIOUS
<1>1. <<>> \in Seq(Nat)
  OBVIOUS
<1>2. QED
  BY <1>1 DEF WindowInit, DrawsTyped, WindowTypeOK

LEMMA WindowStepTyped ==
    ASSUME DrawsTyped, [WindowNext]_windowVars
    PROVE  DrawsTyped'
<1>1. Accounts \in Nat \ {0}
  BY Numbers
<1>2. CASE Draw
  <2>1. k' = 0 /\ now' = now /\ delays' \in Seq(Nat)
    BY <1>2, DrawnIs
  <2>2. QED
    BY <2>1 DEF DrawsTyped, WindowTypeOK
<1>3. CASE Sort
  <2>1. delays' \in Seq(Nat) /\ Len(delays') = Accounts
    BY <1>3, SortedIs
  <2>2. now' = now /\ k' = 2
    BY <1>3 DEF Sort, FirstSpaced
  <2>3. QED
    BY <1>1, <2>1, <2>2 DEF DrawsTyped, WindowTypeOK
<1>4. CASE Space
  <2>1. /\ k \in 2 .. Accounts /\ k' = k + 1 /\ now' = now
        /\ delays' \in Seq(Nat) /\ Len(delays') = Accounts
    BY <1>4, SpacedIs
  <2>2. k' \in 2 .. (Accounts + 1)
    BY <1>1, <2>1
  <2>3. QED
    BY <2>1, <2>2 DEF DrawsTyped, WindowTypeOK
<1>5. CASE UNCHANGED windowVars
  BY <1>5 DEF windowVars, DrawsTyped, WindowTypeOK
<1>6. QED
  BY <1>2, <1>3, <1>4, <1>5 DEF WindowNext

\* Delays are natural numbers, one for each account: no check-in is set to a
\* time that is past (clampCheckinTime).
THEOREM WindowTyped == WindowSpec => []WindowTypeOK
<1>1. WindowInit => DrawsTyped
  BY DrawsInit
<1>2. DrawsTyped /\ [WindowNext]_windowVars => DrawsTyped'
  BY WindowStepTyped
<1>3. DrawsTyped => WindowTypeOK
  BY DEF DrawsTyped
<1>4. QED
  BY <1>1, <1>2, <1>3, PTL DEF WindowSpec

-----------------------------------------------------------------------------
\* Every delay drawn, sorted or moved lies in the window.
LEMMA InWindowStep ==
    ASSUME BeginsInTime, DrawsTyped, InWindow,
           [WindowNext]_windowVars
    PROVE  InWindow'
<1> DEFINE Inside(d) == HourOf(now + d) \in WindowStart .. WindowEnd - 1
<1>1. now \in Begin /\ delays \in Seq(Nat) /\ \A i \in 1 .. Len(delays) : Inside(delays[i])
  BY DEF DrawsTyped, WindowTypeOK, InWindow
<1>2. \A delay \in Nat : \A d \in Clamp(delay) : Inside(d)
  BY <1>1, ClampInside
<1>3. ASSUME now' = now, delays' \in Seq(Nat), \A i \in 1 .. Len(delays') : Inside(delays'[i])
      PROVE  InWindow'
  <2>1. \A i \in DOMAIN delays' : Inside(delays'[i])
    BY <1>3
  <2>2. QED
    BY <1>3, <2>1 DEF InWindow, HourOf, DayMinutes
<1> HIDE DEF Inside
<1>4. CASE Draw
  <2>1. PICK random \in Nat : \E delay \in Clamp(random) :
           /\ delays' \in Seq(Nat) /\ Len(delays') = Len(delays) + 1
           /\ delays'[Len(delays) + 1] = delay
           /\ \A i \in 1 .. Len(delays) : delays'[i] = delays[i]
    BY <1>4, DrawnIs
  <2>2. PICK delay \in Clamp(random) :
           /\ delays' \in Seq(Nat) /\ Len(delays') = Len(delays) + 1
           /\ delays'[Len(delays) + 1] = delay
           /\ \A i \in 1 .. Len(delays) : delays'[i] = delays[i]
    BY <2>1
  <2>3. Inside(delay) /\ Len(delays) \in Nat
    BY <1>1, <1>2
  <2>4. \A i \in 1 .. Len(delays') : Inside(delays'[i])
    BY <1>1, <2>2, <2>3
  <2>5. QED
    BY <1>3, <1>4, <2>2, <2>4, DrawnIs
<1>5. CASE Sort
  <2>1. /\ delays' \in Seq(Nat) /\ Len(delays') = Accounts /\ Len(delays) = Accounts
        /\ \A i \in 1 .. Accounts : \E j \in 1 .. Accounts : delays'[i] = delays[j]
    BY <1>5, SortedIs
  <2>2. \A i \in 1 .. Len(delays') : Inside(delays'[i])
    BY <1>1, <2>1
  <2>3. now' = now
    BY <1>5 DEF Sort
  <2>4. QED
    BY <1>3, <2>1, <2>2, <2>3
<1>6. CASE Space
  <2>1. PICK gap \in Gaps :
           \/ delays'[k] = delays[k] /\ delays[k] - delays[k - 1] >= gap
           \/ delays'[k] \in Clamp(delays[k - 1] + gap)
    BY <1>6, SpacedIs
  <2>2. /\ k \in 2 .. Accounts /\ now' = now
        /\ Len(delays) = Accounts /\ delays \in Seq(Nat)
        /\ delays' \in Seq(Nat) /\ Len(delays') = Accounts
        /\ \A i \in 1 .. Accounts : i # k => delays'[i] = delays[i]
    BY <1>6, SpacedIs
  <2>3. Accounts \in Nat /\ gap \in Nat
    <3>1. gap \in Nat \ {0} /\ Accounts \in Nat
      BY Numbers
    <3>2. QED
      BY <3>1
  <2>4. delays[k - 1] + gap \in Nat
    BY <2>2, <2>3
  <2>5. Inside(delays'[k])
    BY <1>1, <1>2, <2>1, <2>2, <2>4
  <2>6. \A i \in 1 .. Len(delays') : Inside(delays'[i])
    BY <1>1, <2>2, <2>5
  <2>7. QED
    BY <1>3, <2>2, <2>6
<1>7. CASE UNCHANGED windowVars
  BY <1>1, <1>3, <1>7 DEF windowVars
<1>8. QED
  BY <1>4, <1>5, <1>6, <1>7 DEF WindowNext

\* Spacing an account keeps it behind every free one before it.
LEMMA BehindStep ==
    ASSUME DrawsTyped, InWindow, BehindFree,
           [WindowNext]_windowVars
    PROVE  BehindFree'
<1> DEFINE F(d) == Free(now + d)
           Apart(d, e) == d < e /\ (F(e) => \E gap \in Gaps : e - d >= gap)
<1>1. now \in Begin /\ delays \in Seq(Nat)
      /\ \A i, j \in 1 .. k - 1 : i < j /\ F(delays[i]) => Apart(delays[i], delays[j])
  BY DEF DrawsTyped, WindowTypeOK, BehindFree
<1>2. ASSUME now' = now,
             \A i, j \in 1 .. k' - 1 : i < j /\ F(delays'[i]) => Apart(delays'[i], delays'[j])
      PROVE  BehindFree'
  BY <1>2 DEF BehindFree, Free, HourOf, DayMinutes, Clamped,
              LastHour, FirstHalf, Midnight
<1> HIDE DEF F, Apart
<1>3. CASE Draw \/ Sort
  <2>1. now' = now /\ k' - 1 \in {-1, 1}
    BY <1>3 DEF Draw, Sort, FirstSpaced
  <2>2. \A i, j \in 1 .. k' - 1 : ~(i < j)
    BY <2>1
  <2>3. QED
    BY <1>2, <2>1, <2>2
<1>4. CASE Space
  <2>1. PICK gap \in Gaps :
           \/ delays'[k] = delays[k] /\ delays[k] - delays[k - 1] >= gap
           \/ delays'[k] \in Clamp(delays[k - 1] + gap)
    BY <1>4, SpacedIs
  <2>2. /\ k \in 2 .. Accounts /\ k' = k + 1 /\ now' = now /\ Accounts \in Nat
        /\ Len(delays) = Accounts /\ delays \in Seq(Nat)
        /\ delays' \in Seq(Nat) /\ Len(delays') = Accounts
        /\ \A i \in 1 .. Accounts : i # k => delays'[i] = delays[i]
    BY <1>4, SpacedIs, Numbers
  <2>3. gap \in Nat /\ 1 <= gap
    <3>1. gap \in Nat \ {0}
      BY Numbers
    <3>2. QED
      BY <3>1
  <2>4. delays[k] \in Nat /\ delays[k - 1] \in Nat /\ delays'[k] \in Nat
        /\ delays[k - 1] + gap \in Nat /\ k \in Nat
    BY <2>2, <2>3
  <2> DEFINE prev == delays[k - 1]
             new == delays'[k]
  \* Every free account before k is before the new place of k.
  <2>5. ASSUME NEW i \in 1 .. k - 1, F(delays[i])
        PROVE  Apart(delays[i], new)
    <3> DEFINE u == delays[i]
    <3>1. u \in Nat /\ i \in 1 .. Accounts /\ (i # k - 1 => u < prev)
      <4>1. i \in 1 .. Accounts /\ (i # k - 1 => i < k - 1 /\ k - 1 \in 1 .. k - 1)
        BY <2>2, <2>5
      <4>2. u \in Nat
        BY <2>2, <4>1
      <4>3. i # k - 1 => u < prev
        BY <1>1, <2>5, <4>1 DEF Apart
      <4>4. QED
        BY <4>1, <4>2, <4>3
    <3>2. prev \in Nat /\ new \in Nat /\ u <= prev
      BY <2>4, <3>1
    <3>3. Free(now + u)
      BY <2>5 DEF F
    <3> HIDE DEF prev, new, u
    <3>4. ASSUME new - prev >= gap
          PROVE  Apart(u, new)
      <4>1. u < new /\ new - u >= gap
        BY <2>3, <3>1, <3>2, <3>4
      <4>2. QED
        BY <4>1 DEF Apart
    <3>5. ASSUME new \in Clamp(prev + gap)
          PROVE  Apart(u, new)
      <4>1. u < prev + gap /\ prev + gap \in Nat
        BY <2>3, <3>1, <3>2
      <4>2. u < new /\ (new = prev + gap \/ Clamped(now + new))
        BY <1>1, <3>1, <3>3, <3>5, <4>1, StaysBehind
      <4>3. CASE new = prev + gap
        <5>1. new - prev >= gap
          BY <2>3, <3>2, <4>3
        <5>2. QED
          BY <3>4, <5>1
      <4>4. CASE Clamped(now + new)
        BY <4>2, <4>4 DEF Apart, F, Free
      <4>5. QED
        BY <4>2, <4>3, <4>4
    <3>6. ASSUME new = delays[k], delays[k] - prev >= gap
          PROVE  Apart(u, new)
      BY <3>4, <3>6
    <3>7. QED
      BY <2>1, <3>5, <3>6 DEF new, prev, u
  <2>6. ASSUME NEW i \in 1 .. k' - 1, NEW j \in 1 .. k' - 1, i < j, F(delays'[i])
        PROVE  Apart(delays'[i], delays'[j])
    <3>1. i \in 1 .. k - 1 /\ (j = k \/ j \in 1 .. k - 1) /\ delays'[i] = delays[i]
      BY <2>2, <2>6
    <3>2. CASE j = k
      BY <2>5, <2>6, <3>1, <3>2
    <3>3. CASE j \in 1 .. k - 1
      <4>1. delays'[j] = delays[j]
        BY <2>2, <3>3
      <4>2. QED
        BY <1>1, <2>6, <3>1, <3>3, <4>1
    <3>4. QED
      BY <3>1, <3>2, <3>3
  <2>7. QED
    BY <1>2, <2>2, <2>6
<1>5. CASE UNCHANGED windowVars
  BY <1>1, <1>2, <1>5 DEF windowVars
<1>6. QED
  BY <1>3, <1>4, <1>5 DEF WindowNext

\* When all are spaced, any two that are not clamped are apart.
LEMMA BehindMeans ==
    ASSUME DrawsTyped, InWindow, BehindFree
    PROVE  GapInside
<1> SUFFICES ASSUME Done, NEW i \in 1 .. Accounts, NEW j \in 1 .. Accounts, i < j,
                    ~Clamped(now + delays[i]), ~Clamped(now + delays[j])
             PROVE  FarApart(i, j)
  BY Numbers DEF GapInside
<1>1. Accounts \in Nat /\ k - 1 = Accounts /\ k # 0
  BY Numbers DEF Done
<1>2. i \in DOMAIN delays /\ j \in DOMAIN delays
  BY <1>1 DEF DrawsTyped, WindowTypeOK
<1>3. Free(now + delays[i]) /\ Free(now + delays[j])
  BY <1>2 DEF Free, InWindow
<1>4. \E gap \in Gaps : delays[j] - delays[i] >= gap
  BY <1>1, <1>3 DEF BehindFree
<1>5. QED
  BY <1>4 DEF FarApart

\* Every check-in is due within the configured hours of a day
\* (clampCheckinTime), for all hours and draws, if no cron fires after them.
THEOREM DrawsInWindow ==
    ASSUME BeginsInTime
    PROVE  WindowSpec => []InWindow
<1>1. WindowInit => DrawsTyped /\ InWindow
  BY DrawsInit DEF WindowInit, InWindow
<1>2. (DrawsTyped /\ InWindow) /\ [WindowNext]_windowVars
      => (DrawsTyped /\ InWindow)'
  BY WindowStepTyped, InWindowStep
<1>3. QED
  BY <1>1, <1>2, PTL DEF WindowSpec

\* Two accounts of a site are a gap apart, unless one of them lies in the hours
\* check-ins are clamped into (scheduleRandomCheckins): neither the sorting
\* nor a second clamping brings others together, for any number of accounts.
THEOREM DrawsApart ==
    ASSUME BeginsInTime
    PROVE  WindowSpec => []GapInside
<1> DEFINE I == DrawsTyped /\ InWindow /\ BehindFree
<1>1. WindowInit => I
  BY DrawsInit DEF WindowInit, InWindow, BehindFree
<1>2. I /\ [WindowNext]_windowVars => I'
  BY WindowStepTyped, InWindowStep, BehindStep
<1>3. I => GapInside
  BY BehindMeans
<1>4. QED
  BY <1>1, <1>2, <1>3, PTL DEF WindowSpec
=============================================================================

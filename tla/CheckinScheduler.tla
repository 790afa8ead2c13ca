-------------------------- MODULE CheckinScheduler --------------------------
(***************************************************************************)
(* The scheduled work of service/scheduler.go: a cron whose check-in job   *)
(* arms one timer per account, whose balance job refreshes all balances,   *)
(* and which is replaced when the settings change.                         *)
(*                                                                         *)
(* Stopping a cron does not end its running jobs, and stopping a timer     *)
(* does not end a callback that has started, so the jobs of an old cron    *)
(* and the callbacks of an old pass run beside the new ones.               *)
(*                                                                         *)
(* When a timer fires is left open: the delays are the subject of          *)
(* CheckinWindow.  The functions that hold schedulerMu or                  *)
(* pendingCheckinTimersMu throughout are single actions.                   *)
(***************************************************************************)
EXTENDS FiniteSets, Integers

CONSTANTS
    Account,    \* accounts that may be due for a check-in
    Cron,       \* cron objects alive at one time: bounds overlapping reloads
    Pass,       \* armed passes alive at one time: bounds overlapping callbacks
    Nil         \* no cron

ASSUME ConstantsFinite == /\ IsFiniteSet(Account)
                          /\ IsFiniteSet(Pass)
                          /\ Nil \notin Cron

VARIABLES
    cron,       \* scheduler
    job,        \* the check-in job of each cron: where it is, what it listed
    balance,    \* the balance job of each cron
    timer,      \* each timer of each pass, and its callback once it fired
    tracked,    \* pendingCheckinTimers
    count,      \* pendingCheckinCount
    locked      \* taskMu: the tasks whose mutex is taken

vars == <<cron, job, balance, timer, tracked, count, locked>>
-----------------------------------------------------------------------------
Timer == Pass \X Account
\* The task names: checkin_<id> and balance_refresh.
BalanceTask == <<"balance_refresh">>
CheckinTask(a) == <<"checkin", a>>
Task == {BalanceTask} \cup {CheckinTask(a) : a \in Account}

TypeOK ==
    /\ cron \in Cron \cup {Nil}
    /\ job \in [Cron -> [pc : {"idle", "cancel", "list", "arm"},
                         rows : SUBSET Account]]
    /\ balance \in [Cron -> {"idle", "fired", "working"}]
    /\ timer \in [Timer -> {"off", "armed", "fired", "working", "ran"}]
    /\ tracked \in SUBSET Timer
    /\ count \in Nat
    /\ locked \in SUBSET Task

NoJob == [pc |-> "idle", rows |-> {}]

Init ==
    /\ cron = Nil
    /\ job = [c \in Cron |-> NoJob]
    /\ balance = [c \in Cron |-> "idle"]
    /\ timer = [t \in Timer |-> "off"]
    /\ tracked = {}
    /\ count = 0
    /\ locked = {}

Armed == {t \in Timer : timer[t] = "armed"}
Live == {t \in Timer : timer[t] # "off"}
-----------------------------------------------------------------------------
\* cancelPendingCheckins.  Stop has no effect on a timer that fired.
CancelPendingCheckins ==
    /\ timer' = [t \in Timer |-> IF t \in tracked \cap Armed THEN "off" ELSE timer[t]]
    /\ tracked' = {}
    /\ count' = 0

\* StartScheduler, at startup and from ReloadScheduler: the old cron fires no
\* more, the new one does.  c is a cron object without running jobs.
StartScheduler(c) ==
    /\ c # cron
    /\ job[c].pc = "idle"
    /\ balance[c] = "idle"
    /\ cron' = c
    /\ CancelPendingCheckins
    /\ UNCHANGED <<job, balance, locked>>

StopScheduler ==
    /\ cron' = Nil
    /\ CancelPendingCheckins
    /\ UNCHANGED <<job, balance, locked>>
-----------------------------------------------------------------------------
\* Mutant: a pass does not cancel the one before it.
ListsFirst == "list"

\* scheduleRandomCheckins begins by cancelling what is pending.
FirstStep == "cancel"

\* The cron starts its check-in job, which reads the window under
\* schedulerMu; SkipIfStillRunning drops a run while the last one goes on.
CheckinFires(c) ==
    /\ cron = c
    /\ job[c].pc = "idle"
    /\ job' = [job EXCEPT ![c].pc = FirstStep]
    /\ UNCHANGED <<cron, balance, timer, tracked, count, locked>>

JobCancels(c) ==
    /\ job[c].pc = "cancel"
    /\ job' = [job EXCEPT ![c].pc = "list"]
    /\ CancelPendingCheckins
    /\ UNCHANGED <<cron, balance, locked>>

\* ListCheckinableAccounts; nothing is scheduled when it fails or is empty.
JobLists(c, rows) ==
    /\ job[c].pc = "list"
    /\ job' = [job EXCEPT ![c] = IF rows = {} THEN NoJob
                                 ELSE [pc |-> "arm", rows |-> rows]]
    /\ UNCHANGED <<cron, balance, timer, tracked, count, locked>>

\* Under pendingCheckinTimersMu the timers are armed and replace the list
\* and the count; timers the old list held are not stopped here.
JobArms(c, p) ==
    /\ job[c].pc = "arm"
    /\ \A a \in Account : timer[<<p, a>>] = "off"
    /\ LET new == {p} \X job[c].rows
       IN /\ timer' = [t \in Timer |-> IF t \in new THEN "armed" ELSE timer[t]]
          /\ tracked' = new
    /\ count' = Cardinality(job[c].rows)
    /\ job' = [job EXCEPT ![c] = NoJob]
    /\ UNCHANGED <<cron, balance, locked>>
-----------------------------------------------------------------------------
\* Mutant: a task runs whether or not its mutex is taken.
AlwaysFree(task) == TRUE

\* runScheduledTask: TryLock succeeds.
TaskFree(task) == task \notin locked

TimerFires(t) ==
    /\ timer[t] = "armed"
    /\ timer' = [timer EXCEPT ![t] = "fired"]
    /\ UNCHANGED <<cron, job, balance, tracked, count, locked>>

CheckinStarts(t) ==
    /\ timer[t] = "fired"
    /\ TaskFree(CheckinTask(t[2]))
    /\ timer' = [timer EXCEPT ![t] = "working"]
    /\ locked' = locked \cup {CheckinTask(t[2])}
    /\ UNCHANGED <<cron, job, balance, tracked, count>>

CheckinSkipped(t) ==
    /\ timer[t] = "fired"
    /\ ~TaskFree(CheckinTask(t[2]))
    /\ timer' = [timer EXCEPT ![t] = "ran"]
    /\ UNCHANGED <<cron, job, balance, tracked, count, locked>>

\* Mutant: the mutex of a task stays locked.
StillLocked(task) == locked

\* The deferred Unlock.
Unlocked(task) == locked \ {task}

CheckinReturns(t) ==
    /\ timer[t] = "working"
    /\ timer' = [timer EXCEPT ![t] = "ran"]
    /\ locked' = Unlocked(CheckinTask(t[2]))
    /\ UNCHANGED <<cron, job, balance, tracked, count>>

\* Mutant: the count is left alone, as if the decrement were not deferred.
KeptCount == count

\* Mutant: the count may fall below zero.
Unfloored == count - 1

DecrementedCount == IF count = 0 THEN 0 ELSE count - 1

\* decrementPendingCheckins, deferred: also after a skipped check-in.
CallbackEnds(t) ==
    /\ timer[t] = "ran"
    /\ timer' = [timer EXCEPT ![t] = "off"]
    /\ count' = DecrementedCount
    /\ UNCHANGED <<cron, job, balance, tracked, locked>>
-----------------------------------------------------------------------------
BalanceFires(c) ==
    /\ cron = c
    /\ balance[c] = "idle"
    /\ balance' = [balance EXCEPT ![c] = "fired"]
    /\ UNCHANGED <<cron, job, timer, tracked, count, locked>>

\* RefreshAllBalances runs, or the task is still running for another cron.
BalanceStarts(c) ==
    /\ balance[c] = "fired"
    /\ IF TaskFree(BalanceTask)
       THEN /\ balance' = [balance EXCEPT ![c] = "working"]
            /\ locked' = locked \cup {BalanceTask}
       ELSE /\ balance' = [balance EXCEPT ![c] = "idle"]
            /\ UNCHANGED locked
    /\ UNCHANGED <<cron, job, timer, tracked, count>>

BalanceReturns(c) ==
    /\ balance[c] = "working"
    /\ balance' = [balance EXCEPT ![c] = "idle"]
    /\ locked' = Unlocked(BalanceTask)
    /\ UNCHANGED <<cron, job, timer, tracked, count>>
-----------------------------------------------------------------------------
JobStep(c) == \/ JobCancels(c)
              \/ \E rows \in SUBSET Account : JobLists(c, rows)
              \/ \E p \in Pass : JobArms(c, p)
TimerStep(t) == \/ TimerFires(t)
                \/ CheckinStarts(t)
                \/ CheckinSkipped(t)
                \/ CheckinReturns(t)
                \/ CallbackEnds(t)
BalanceStep(c) == BalanceStarts(c) \/ BalanceReturns(c)

Next ==
    \/ StopScheduler
    \/ \E c \in Cron : \/ StartScheduler(c)
                       \/ CheckinFires(c)
                       \/ JobStep(c)
                       \/ BalanceFires(c)
                       \/ BalanceStep(c)
    \/ \E t \in Timer : TimerStep(t)

Spec == Init /\ [][Next]_vars

\* Goroutines are scheduled, timers go off, and a check-in or refresh returns:
\* every request it makes has a timeout.  The cron need not fire.
Fairness == /\ \A c \in Cron : WF_vars(JobStep(c)) /\ WF_vars(BalanceStep(c))
            /\ \A t \in Timer : WF_vars(TimerStep(t))
FairSpec == Spec /\ Fairness
-----------------------------------------------------------------------------
\* A scheduled task never runs twice at the same time, whichever passes and
\* crons start it: the mutex of runScheduledTask outlives them.
TaskAlone ==
    /\ \A a \in Account, p, q \in Pass :
          timer[<<p, a>>] = "working" /\ timer[<<q, a>>] = "working" => p = q
    /\ \A c, d \in Cron : balance[c] = "working" /\ balance[d] = "working" => c = d

\* The mutex of a task is taken exactly while the task runs.
LockExact ==
    /\ \A a \in Account : CheckinTask(a) \in locked
                            <=> \E p \in Pass : timer[<<p, a>>] = "working"
    /\ BalanceTask \in locked <=> \E c \in Cron : balance[c] = "working"

\* pending_checkins never promises a check-in that is not to come: callbacks
\* of an older pass may lower the count of a newer one, never raise it.
PendingNotOverstated == count <= Cardinality(Live)

\* cancelPendingCheckins cancels all pending timers: when a pass begins, the
\* scheduler is replaced or stopped, no check-in armed before is to come.
CancelsAll ==
    [][(\/ StopScheduler
        \/ \E c \in Cron : StartScheduler(c) \/ JobCancels(c)) => Armed' = {}]_vars

\* If the scheduler is stopped for good, the check-ins it still started come
\* to an end, the status shows none pending and no task stays locked.
StopQuiets ==
    <>[](cron = Nil) => <>[](Live = {} /\ count = 0 /\ locked = {})
=============================================================================

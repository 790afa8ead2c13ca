---------------------------- MODULE RefreshLoop ----------------------------
(***************************************************************************)
(* The background loop around refreshManagedSession: the scheduler that    *)
(* StartManagedRefreshScheduler starts and the settings replace, the       *)
(* refresh pass, and the one wake timer that brings a pass forward when    *)
(* an account had to wait (service/managed_session.go, lines 693 to 836).  *)
(*                                                                         *)
(* A pass takes one row at a time.  Only one pass runs: a tick or a wake   *)
(* that finds another one is dropped.  Stopping a timer does not end a     *)
(* callback that has started, so the callback must recognise by its        *)
(* channel that the loop it was armed for is gone.                         *)
(*                                                                         *)
(* One call of EnsureManagedSession is one step here; ManagedRefresh has   *)
(* its steps.  The accounts share one site, which accepts one request per  *)
(* Spacing.  Time advances in ticks, kept as the time left until each      *)
(* deadline.  It advances when nothing can run, and at most MaxLag ticks   *)
(* during a pass, whose requests may take long.                            *)
(***************************************************************************)
EXTENDS Naturals

CONSTANTS
    Account,        \* managed accounts of one site
    Loop,           \* loop goroutines alive at one time, named by their channel
    Wake,           \* wake timers alive at one time
    Interval,       \* managedRefreshInterval
    Lead,           \* managedRefreshLeadFor
    Lifetime,       \* lifetime of a renewed access token
    MinSpacing,     \* managedRefreshMinSpacing
    Spacing,        \* managedRefreshSiteSpacing
    Backoff,        \* what managedRefreshBackoff may return, except for a 429
    RetryAfter,     \* delays an upstream 429 may ask for
    MaxLag,         \* bound: ticks that pass while something can run
    SlowLock,       \* whether a deadline may lapse before the timer is armed
    Nil             \* no channel, no timer, no pass

ASSUME NilNew == /\ Nil \notin Loop
                 /\ Nil \notin Wake
                 /\ Loop \cap Wake = {}
ASSUME DelaysPositive ==
    /\ {Interval, Lifetime, MinSpacing, Spacing} \subseteq Nat \ {0}
    /\ Backoff \cup RetryAfter \subseteq Nat \ {0}
ASSUME BoundsTyped == {Lead, MaxLag} \subseteq Nat /\ SlowLock \in BOOLEAN

VARIABLES
    life,       \* time left until the access token of each account expires
    wait,       \* managedRefreshState.retryDelay of each account
    site,       \* managedRefreshSiteState: time left until the next attempt
    stopCh,     \* managedRefreshStopCh
    loop,       \* each loop goroutine and its ticker
    wake,       \* each wake timer: when it fires, the channel it was armed for
    record,     \* managedRefreshWakeTimer; its deadline is managedRefreshWakeAt
    pass,       \* managedRefreshPassMu: who holds it, and the locals of the pass
    lag         \* ticks since nothing could run

accounts == <<life, wait, site>>
scheduler == <<stopCh, loop, wake, record>>
vars == <<accounts, scheduler, pass, lag>>
-----------------------------------------------------------------------------
\* An object that is not in use: they are interchangeable.
Some(S) == IF S = {} THEN Nil ELSE CHOOSE x \in S : TRUE

NoLoop == [pc |-> "none", tick |-> 0, due |-> FALSE]
NoWake == [pc |-> "none", left |-> 0, ch |-> Nil]
NoPass == [by |-> Nil, pc |-> "none", todo |-> {}, next |-> 0]

TypeOK ==
    /\ life \in [Account -> Nat]
    /\ wait \in [Account -> Nat]
    /\ site \in Nat
    /\ stopCh \in Loop \cup {Nil}
    /\ loop \in [Loop -> [pc : {"none", "begin", "select", "pass"},
                          tick : Nat, due : BOOLEAN]]
    /\ wake \in [Wake -> [pc : {"none", "armed", "fired", "run", "pass"},
                          left : Nat, ch : Loop \cup {Nil}]]
    /\ record \in Wake \cup {Nil}
    /\ pass \in [by : Loop \cup Wake \cup {Nil},
                 pc : {"none", "list", "rows", "arm"},
                 todo : SUBSET Account, next : Nat]
    /\ lag \in 0..MaxLag

Init ==
    /\ life \in [Account -> 0..Lifetime]
    /\ wait = [a \in Account |-> 0]
    /\ site = 0
    /\ stopCh = Nil
    /\ loop = [l \in Loop |-> NoLoop]
    /\ wake = [w \in Wake |-> NoWake]
    /\ record = Nil
    /\ pass = NoPass
    /\ lag = 0
-----------------------------------------------------------------------------
(* Starting and stopping, under managedRefreshLoopMu.                      *)

\* stopManagedRefreshWakeLocked: Stop has no effect on a timer that fired.
WakesStopped ==
    [w \in Wake |-> IF w = record /\ wake[w].pc = "armed" THEN NoWake ELSE wake[w]]

\* StartManagedRefreshScheduler: the channel of the old loop is closed, a new
\* loop begins with a pass.  l is a channel nothing refers to any more.
StartManagedRefreshScheduler(l) ==
    /\ l = Some({m \in Loop : loop[m].pc = "none" /\ \A w \in Wake : wake[w].ch # m})
    /\ stopCh' = l
    /\ loop' = [loop EXCEPT ![l].pc = "begin"]
    /\ wake' = WakesStopped
    /\ record' = Nil
    /\ UNCHANGED <<accounts, pass, lag>>

StopManagedRefreshScheduler ==
    /\ stopCh # Nil
    /\ stopCh' = Nil
    /\ wake' = WakesStopped
    /\ record' = Nil
    /\ UNCHANGED <<accounts, loop, pass, lag>>
-----------------------------------------------------------------------------
(* The loop goroutine and the callback of a wake timer.                    *)

\* ExecuteManagedRefreshPass: TryLock, the pass of r goes on or is dropped.
TryPass(r) == pass' = IF pass.by = Nil THEN [NoPass EXCEPT !.by = r, !.pc = "list"]
                      ELSE pass

\* The first pass of a loop; the ticker is created after it.
LoopBegins(l) ==
    /\ loop[l].pc = "begin"
    /\ TryPass(l)
    /\ loop' = [loop EXCEPT ![l] = IF pass.by = Nil THEN [@ EXCEPT !.pc = "pass"]
                                   ELSE [@ EXCEPT !.pc = "select", !.tick = Interval]]
    /\ UNCHANGED <<accounts, stopCh, wake, record, lag>>

\* The select takes the buffered tick; when the channel is closed as well,
\* it may take either.
LoopTicks(l) ==
    /\ loop[l].pc = "select"
    /\ loop[l].due
    /\ TryPass(l)
    /\ loop' = [loop EXCEPT ![l].due = FALSE,
                            ![l].pc = IF pass.by = Nil THEN "pass" ELSE "select"]
    /\ UNCHANGED <<accounts, stopCh, wake, record, lag>>

LoopReturns(l) ==
    /\ loop[l].pc = "select"
    /\ stopCh # l
    /\ loop' = [loop EXCEPT ![l] = NoLoop]
    /\ UNCHANGED <<accounts, stopCh, wake, record, pass, lag>>

\* The runtime starts the callback of a timer.
WakeFires(w) ==
    /\ wake[w].pc = "armed"
    /\ wake[w].left = 0
    /\ wake' = [wake EXCEPT ![w].pc = "fired"]
    /\ UNCHANGED <<accounts, stopCh, loop, record, pass, lag>>

\* Mutant: the callback leaves the record to the next arming.
RecordKept == record

\* The record after a callback of the current loop.
RecordAfterWake == Nil

\* The callback under managedRefreshLoopMu: it returns when the loop it was
\* armed for is gone, else it clears the record, whatever timer that names.
WakeChecks(w) ==
    /\ wake[w].pc = "fired"
    /\ IF stopCh # wake[w].ch
       THEN /\ wake' = [wake EXCEPT ![w] = NoWake]
            /\ UNCHANGED record
       ELSE /\ wake' = [wake EXCEPT ![w].pc = "run"]
            /\ record' = RecordAfterWake
    /\ UNCHANGED <<accounts, stopCh, loop, pass, lag>>

WakeRuns(w) ==
    /\ wake[w].pc = "run"
    /\ TryPass(w)
    /\ wake' = [wake EXCEPT ![w] = IF pass.by = Nil THEN [@ EXCEPT !.pc = "pass"]
                                   ELSE NoWake]
    /\ UNCHANGED <<accounts, stopCh, loop, record, lag>>
-----------------------------------------------------------------------------
(* The pass.                                                               *)

\* The pass ends: its goroutine goes back to its select or is gone.
EndPass ==
    /\ pass' = NoPass
    /\ loop' = [l \in Loop |->
                  IF l # pass.by THEN loop[l]
                  ELSE [loop[l] EXCEPT !.pc = "select",
                          !.tick = IF @ = 0 THEN Interval ELSE @]]

\* A wake timer that ran its pass is gone.
WakesAfterPass == [w \in Wake |-> IF w = pass.by THEN NoWake ELSE wake[w]]

\* ListAccountsWithSiteByPlatforms, or its error.
ListRows ==
    /\ pass.pc = "list"
    /\ pass' = [pass EXCEPT !.pc = "rows", !.todo = Account]
    /\ UNCHANGED <<accounts, scheduler, lag>>

ListFails ==
    /\ pass.pc = "list"
    /\ EndPass
    /\ wake' = WakesAfterPass
    /\ UNCHANGED <<accounts, stopCh, record, lag>>

Due(a) == life[a] <= Lead

\* Mutant: the row that expires last is taken first.
ExpiresLater(a, b) == life[a] >= life[b]

\* The order of sort.SliceStable.
ExpiresSooner(a, b) == life[a] <= life[b]

\* Rows are taken in the order in which their tokens expire.
IsNextRow(a) ==
    /\ pass.pc = "rows"
    /\ a \in pass.todo
    /\ \A b \in pass.todo : ExpiresSooner(a, b)

\* The row is done; it asked for the given delay, or for none (0).
RowDone(a, delay) ==
    pass' = [pass EXCEPT !.todo = @ \ {a},
                         !.next = IF delay > 0 /\ (@ = 0 \/ delay < @) THEN delay ELSE @]

\* Not due, or inside the account's own spacing or backoff: no error, so no
\* delay is asked for.
SkipRow(a) ==
    /\ IsNextRow(a)
    /\ ~Due(a) \/ wait[a] > 0
    /\ RowDone(a, 0)
    /\ UNCHANGED <<accounts, scheduler, lag>>

\* The row cannot be read again: an error without a delay, and no backoff.
LookupFails(a) ==
    /\ IsNextRow(a)
    /\ Due(a) /\ wait[a] = 0
    /\ RowDone(a, 0)
    /\ UNCHANGED <<accounts, scheduler, lag>>

\* tryStart refused: the site was asked less than its spacing ago.
DeferRow(a) ==
    /\ IsNextRow(a)
    /\ Due(a) /\ wait[a] = 0
    /\ site > 0
    /\ RowDone(a, site)
    /\ UNCHANGED <<accounts, scheduler, lag>>

Requests(a) ==
    /\ IsNextRow(a)
    /\ Due(a) /\ wait[a] = 0
    /\ site = 0

RenewRow(a) ==
    /\ Requests(a)
    /\ life' = [life EXCEPT ![a] = Lifetime]
    /\ wait' = [wait EXCEPT ![a] = MinSpacing]
    /\ site' = Spacing
    /\ RowDone(a, 0)
    /\ UNCHANGED <<scheduler, lag>>

\* recordFailure and finish: the account backs off, the site keeps its gap.
Fail(a, backoff, gap) ==
    /\ wait' = [wait EXCEPT ![a] = backoff]
    /\ site' = gap
    /\ RowDone(a, backoff)
    /\ UNCHANGED <<life, scheduler, lag>>

\* An error, an answer without a credential, or a dead credential.
FailRow(a, backoff) ==
    /\ Requests(a)
    /\ Fail(a, backoff, Spacing)

\* A 429: the delay it asks for holds for the account and for the site.
ThrottledRow(a, delay) ==
    /\ Requests(a)
    /\ Fail(a, delay, delay)
-----------------------------------------------------------------------------
(* The end of the pass: scheduleManagedRefreshWake.                        *)

\* All rows are done and none asked for a delay.
PassEnds ==
    /\ pass.pc = "rows"
    /\ pass.todo = {}
    /\ pass.next = 0
    /\ EndPass
    /\ wake' = WakesAfterPass
    /\ UNCHANGED <<accounts, stopCh, record, lag>>

\* The deadline is computed before the lock is taken: from here on next is
\* the time left until it.
ComputesDeadline ==
    /\ pass.pc = "rows"
    /\ pass.todo = {}
    /\ pass.next > 0
    /\ pass' = [pass EXCEPT !.pc = "arm"]
    /\ UNCHANGED <<accounts, scheduler, lag>>

\* Mutant: a wake is armed after the loop was stopped.
LoopForgotten == TRUE

\* managedRefreshStopCh is set: a loop runs.
LoopRuns == stopCh # Nil

\* Mutant: a recorded timer is kept whatever its deadline.
AnyRecorded == TRUE

\* The recorded timer fires no later than the new one would.
NotSooner == pass.next >= wake[record].left

\* No loop runs, or the recorded timer is not later.
ArmRefused ==
    /\ pass.pc = "arm"
    /\ LoopRuns => record # Nil /\ NotSooner
    /\ EndPass
    /\ wake' = WakesAfterPass
    /\ UNCHANGED <<accounts, stopCh, record, lag>>

\* Two deadlines in the same tick may be in either order.
MayArm == record # Nil => pass.next <= wake[record].left

\* The wake timers when the recorded one is stopped for a new one.
WakesReplaced ==
    [w \in Wake |-> IF w = record /\ wake[w].pc = "armed" THEN NoWake
                    ELSE WakesAfterPass[w]]

\* The recorded timer is stopped, w is armed for the current loop.
Arms(w) ==
    /\ pass.pc = "arm"
    /\ LoopRuns
    /\ MayArm
    /\ w = Some({v \in Wake : WakesReplaced[v].pc = "none"})
    /\ wake' = [WakesReplaced EXCEPT ![w] = [pc |-> "armed", left |-> pass.next, ch |-> stopCh]]
    /\ record' = w
    /\ EndPass
    /\ UNCHANGED <<accounts, stopCh, lag>>
-----------------------------------------------------------------------------
CanRun ==
    \/ pass.by # Nil
    \/ \E l \in Loop : \/ loop[l].pc = "begin"
                       \/ loop[l].pc = "select" /\ (loop[l].due \/ stopCh # l)
    \/ \E w \in Wake : \/ wake[w].pc \in {"fired", "run"}
                       \/ wake[w].pc = "armed" /\ wake[w].left = 0

\* The time the requests of a pass took is counted at its end.  With SlowLock,
\* time also passes while the pass waits for managedRefreshLoopMu.
MayLag == \/ pass.pc = "rows" /\ pass.todo = {}
          \/ SlowLock /\ pass.pc = "arm"

\* Mutant: a deadline that has passed is not recognised.
LessThanZero(n) == n - 1

Less(n) == IF n = 0 THEN 0 ELSE n - 1

\* A ticker that is due sends unless its buffer is full, and starts again.
Ticker(l) ==
    IF l.tick = 0 THEN l
    ELSE IF l.tick = 1 THEN [l EXCEPT !.tick = Interval, !.due = TRUE]
    ELSE [l EXCEPT !.tick = @ - 1]

\* One tick of the clock.
Elapse ==
    /\ CanRun => MayLag /\ lag < MaxLag
    /\ lag' = IF CanRun THEN lag + 1 ELSE 0
    /\ life' = [a \in Account |-> Less(life[a])]
    /\ wait' = [a \in Account |-> Less(wait[a])]
    /\ site' = Less(site)
    /\ loop' = [l \in Loop |-> Ticker(loop[l])]
    /\ wake' = [w \in Wake |-> [wake[w] EXCEPT !.left = Less(@)]]
    /\ pass' = IF pass.pc = "arm" THEN [pass EXCEPT !.next = Less(@)] ELSE pass
    /\ UNCHANGED <<stopCh, record>>
-----------------------------------------------------------------------------
LoopStep(l) == LoopBegins(l) \/ LoopTicks(l)
WakeStep(w) == WakeFires(w) \/ WakeChecks(w) \/ WakeRuns(w)
Row(a) == \/ SkipRow(a) \/ LookupFails(a) \/ DeferRow(a) \/ RenewRow(a)
          \/ \E d \in Backoff : FailRow(a, d)
          \/ \E d \in RetryAfter : ThrottledRow(a, d)
PassStep ==
    \/ ListRows \/ ListFails
    \/ \E a \in Account : Row(a)
    \/ PassEnds \/ ComputesDeadline \/ ArmRefused
    \/ \E w \in Wake : Arms(w)

Next ==
    \/ \E l \in Loop : StartManagedRefreshScheduler(l)
    \/ StopManagedRefreshScheduler
    \/ \E l \in Loop : LoopStep(l) \/ LoopReturns(l)
    \/ \E w \in Wake : WakeStep(w)
    \/ PassStep
    \/ Elapse

\* The goroutines run, timers fire and time passes.  A select with two ready
\* cases takes each of them sometime, so the closed channel is fair by itself.
Fairness ==
    /\ \A l \in Loop : WF_vars(LoopStep(l)) /\ SF_vars(LoopReturns(l))
    /\ \A w \in Wake : WF_vars(WakeStep(w))
    /\ WF_vars(PassStep)
    /\ WF_vars(Elapse)

Spec == Init /\ [][Next]_vars
FairSpec == Spec /\ Fairness
-----------------------------------------------------------------------------
\* The recorded timer has not run yet.  Otherwise its past deadline would
\* refuse every later wake (line 758) and each deferred account would wait
\* for the periodic scan.
RecordAlive ==
    record # Nil => /\ wake[record].pc \in {"armed", "fired"}
                    /\ wake[record].ch = stopCh

\* A pass that ends with a deferred or failed account, while a loop runs,
\* leaves a live recorded timer that fires no later than that account asked
\* for, whichever of the two deadlines the code keeps, and although a
\* callback clears the record of whatever timer it names (lines 758, 773).
WakeNotLost ==
    [][pass.pc = "arm" /\ pass'.by = Nil /\ stopCh # Nil =>
         /\ record' # Nil
         /\ wake'[record'].pc \in {"armed", "fired"}
         /\ wake'[record'].left <= pass.next]_vars

\* From some time on, scans and lookups succeed and the upstream asks for no
\* delay; other failures and dead credentials go on.  A step of DeferRow that
\* asks for no shorter delay looks like a lookup that failed.
Calm == <>[][/\ ~ListFails
             /\ \A a \in Account : LookupFails(a) => DeferRow(a)
             /\ ~\E a \in Account, d \in RetryAfter : ThrottledRow(a, d)]_vars

\* While a loop runs undisturbed in calm conditions, a renewal is attempted
\* for every account in its renewal window: wakes dropped because of another
\* pass, a site that accepts one request at a time and failing neighbours
\* delay it but do not starve it (lines 694, 461, 758).
DueIsAttempted ==
    Calm /\ (\E l \in Loop : <>[](stopCh = l)) =>
        \A a \in Account : []<>(~Due(a) \/ wait[a] > 0)

\* Stopping for good ends the loops, the passes and the timers: nothing
\* refreshes a credential any more (line 816).
StopEndsRefreshing ==
    <>[](stopCh = Nil) =>
        <>[](/\ pass.by = Nil
             /\ \A l \in Loop : loop[l].pc = "none"
             /\ \A w \in Wake : wake[w].pc = "none")
=============================================================================

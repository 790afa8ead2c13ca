------------------------- MODULE RefreshLoopProofs -------------------------
(***************************************************************************)
(* Theorems about RefreshLoop, for all accounts, loops, timers and delays: *)
(* its types, that the recorded wake timer has always still to run, and    *)
(* that no wake is lost while a loop runs.                                 *)
(***************************************************************************)
EXTENDS RefreshLoop, TLAPS

\* A pass is under way exactly while someone holds managedRefreshPassMu, and
\* a wake timer that holds it is busy with it, hence no longer recorded.
PassHeld ==
    /\ pass.by = Nil => pass.pc = "none"
    /\ pass.by \in Wake => wake[pass.by].pc = "pass"

Inv == TypeOK /\ PassHeld /\ RecordAlive

Loops == [pc : {"none", "begin", "select", "pass"}, tick : Nat, due : BOOLEAN]
Wakes == [pc : {"none", "armed", "fired", "run", "pass"}, left : Nat, ch : Loop \cup {Nil}]

\* The actions of Next, for the case distinctions below.
LEMMA NextCases ==
    ASSUME Next
    PROVE  \/ \E l \in Loop : StartManagedRefreshScheduler(l)
           \/ StopManagedRefreshScheduler
           \/ \E l \in Loop : LoopBegins(l)
           \/ \E l \in Loop : LoopTicks(l)
           \/ \E l \in Loop : LoopReturns(l)
           \/ \E w \in Wake : WakeFires(w)
           \/ \E w \in Wake : WakeChecks(w)
           \/ \E w \in Wake : WakeRuns(w)
           \/ ListRows
           \/ ListFails
           \/ \E a \in Account : SkipRow(a) \/ LookupFails(a)
           \/ \E a \in Account : DeferRow(a)
           \/ \E a \in Account : RenewRow(a)
           \/ \E a \in Account, d \in Backoff : FailRow(a, d)
           \/ \E a \in Account, d \in RetryAfter : ThrottledRow(a, d)
           \/ PassEnds
           \/ ComputesDeadline
           \/ ArmRefused
           \/ \E w \in Wake : Arms(w)
           \/ Elapse
  BY Zenon DEF Next, LoopStep, WakeStep, PassStep, Row

LEMMA LessNat ==
    ASSUME NEW n \in Nat
    PROVE  Less(n) \in Nat /\ Less(n) <= n
  BY DEF Less
-----------------------------------------------------------------------------
(* What the helpers of the actions keep.                                   *)

LEMMA StoppedTyped ==
    ASSUME TypeOK
    PROVE  WakesStopped \in [Wake -> Wakes]
  BY DEF TypeOK, WakesStopped, NoWake, Wakes

LEMMA AfterPassTyped ==
    ASSUME TypeOK
    PROVE  WakesAfterPass \in [Wake -> Wakes]
  BY DEF TypeOK, WakesAfterPass, NoWake, Wakes

LEMMA TryPassTyped ==
    ASSUME TypeOK, NEW r \in Loop \cup Wake, TryPass(r)
    PROVE  /\ pass' \in [by : Loop \cup Wake \cup {Nil},
                         pc : {"none", "list", "rows", "arm"},
                         todo : SUBSET Account, next : Nat]
           /\ pass.by = Nil => pass'.by = r /\ pass'.pc = "list"
           /\ pass.by # Nil => pass' = pass
  BY DEF TypeOK, TryPass, NoPass

LEMMA LoopEdited ==
    ASSUME NEW x \in Loops, NEW n \in Nat
    PROVE  /\ [x EXCEPT !.pc = "select", !.tick = n] \in Loops
           /\ [x EXCEPT !.tick = n, !.due = TRUE] \in Loops
           /\ [x EXCEPT !.tick = n] \in Loops
<1>1. [x EXCEPT !.tick = n] \in Loops
      BY DEF Loops
<1>2. [x EXCEPT !.pc = "select", !.tick = n] \in Loops
      BY DEF Loops
<1>3. [x EXCEPT !.tick = n, !.due = TRUE] \in Loops
      BY DEF Loops
<1> QED
    BY <1>1, <1>2, <1>3

LEMMA EndPassTyped ==
    ASSUME TypeOK, EndPass
    PROVE  /\ pass' = NoPass
           /\ pass' \in [by : Loop \cup Wake \cup {Nil},
                         pc : {"none", "list", "rows", "arm"},
                         todo : SUBSET Account, next : Nat]
           /\ loop' \in [Loop -> Loops]
<1>1. pass' = NoPass
      BY DEF EndPass
<1>2. Interval \in Nat
      BY DelaysPositive
<1>3. ASSUME NEW l \in Loop
      PROVE  [loop[l] EXCEPT !.pc = "select",
                             !.tick = IF @ = 0 THEN Interval ELSE @] \in Loops
  <2>1. loop[l] \in Loops
        BY DEF TypeOK, Loops
  <2>2. (IF loop[l].tick = 0 THEN Interval ELSE loop[l].tick) \in Nat
        BY <2>1, <1>2 DEF Loops
  <2> QED
      BY <2>1, <2>2, LoopEdited
<1>4. \A l \in Loop : loop[l] \in Loops
      BY DEF TypeOK, Loops
<1>5. loop' \in [Loop -> Loops]
      BY <1>3, <1>4 DEF EndPass
<1> QED
    BY <1>1, <1>5 DEF NoPass

LEMMA RowDoneTyped ==
    ASSUME TypeOK, NEW a \in Account, NEW delay \in Nat, RowDone(a, delay)
    PROVE  /\ pass' \in [by : Loop \cup Wake \cup {Nil},
                         pc : {"none", "list", "rows", "arm"},
                         todo : SUBSET Account, next : Nat]
           /\ pass'.by = pass.by
           /\ pass'.pc = pass.pc
  BY DEF TypeOK, RowDone

LEMMA TickerTyped ==
    ASSUME NEW l \in Loops
    PROVE  Ticker(l) \in Loops
<1>1. Interval \in Nat /\ l.tick \in Nat
      BY DelaysPositive DEF Loops
<1>2. CASE l.tick = 0
      BY <1>2 DEF Ticker
<1>3. CASE l.tick = 1
      BY <1>1, <1>3, LoopEdited DEF Ticker
<1>4. CASE l.tick # 0 /\ l.tick # 1
  <2>1. l.tick - 1 \in Nat
        BY <1>1, <1>4
  <2> QED
      BY <1>4, <2>1, LoopEdited DEF Ticker
<1> QED
    BY <1>2, <1>3, <1>4
-----------------------------------------------------------------------------
LEMMA TypeInit == Init => TypeOK
<1> SUFFICES ASSUME Init
             PROVE  TypeOK
    OBVIOUS
<1>1. 0..Lifetime \subseteq Nat /\ 0 \in 0..MaxLag
      BY BoundsTyped
<1> QED
    BY <1>1 DEF Init, TypeOK, NoLoop, NoWake, NoPass

LEMMA TypeStep == TypeOK /\ [Next]_vars => TypeOK'
<1> SUFFICES ASSUME TypeOK, [Next]_vars
             PROVE  TypeOK'
    OBVIOUS
<1>t. /\ loop \in [Loop -> Loops]
      /\ wake \in [Wake -> Wakes]
      BY DEF TypeOK, Loops, Wakes
<1>n. /\ Interval \in Nat /\ Lifetime \in Nat /\ MinSpacing \in Nat /\ Spacing \in Nat
      /\ Backoff \subseteq Nat /\ RetryAfter \subseteq Nat
      /\ MaxLag \in Nat
      BY DelaysPositive, BoundsTyped
<1>1. CASE UNCHANGED vars
      BY <1>1 DEF vars, accounts, scheduler, TypeOK
<1>2. CASE \E l \in Loop : StartManagedRefreshScheduler(l)
  <2>1. PICK l \in Loop : StartManagedRefreshScheduler(l)
        BY <1>2
  <2>2. wake' \in [Wake -> Wakes]
        BY <2>1, StoppedTyped DEF StartManagedRefreshScheduler
  <2>3. loop' \in [Loop -> Loops]
        BY <2>1, <1>t DEF StartManagedRefreshScheduler, Loops
  <2> QED
      BY <2>1, <2>2, <2>3 DEF StartManagedRefreshScheduler, accounts, TypeOK, Wakes, Loops
<1>3. CASE StopManagedRefreshScheduler
  <2>1. wake' \in [Wake -> Wakes]
        BY <1>3, StoppedTyped DEF StopManagedRefreshScheduler
  <2> QED
      BY <1>3, <2>1 DEF StopManagedRefreshScheduler, accounts, TypeOK, Wakes
<1>4. CASE \E l \in Loop : LoopBegins(l)
  <2>1. PICK l \in Loop : LoopBegins(l)
        BY <1>4
  <2>2. loop' \in [Loop -> Loops]
        BY <2>1, <1>t, <1>n DEF LoopBegins, Loops
  <2> QED
      BY <2>1, <2>2, TryPassTyped DEF LoopBegins, accounts, TypeOK, Loops
<1>5. CASE \E l \in Loop : LoopTicks(l)
  <2>1. PICK l \in Loop : LoopTicks(l)
        BY <1>5
  <2>2. loop' \in [Loop -> Loops]
        BY <2>1, <1>t DEF LoopTicks, Loops
  <2> QED
      BY <2>1, <2>2, TryPassTyped DEF LoopTicks, accounts, TypeOK, Loops
<1>6. CASE \E l \in Loop : LoopReturns(l)
      BY <1>6 DEF LoopReturns, NoLoop, accounts, TypeOK
<1>7. CASE \E w \in Wake : WakeFires(w)
      BY <1>7 DEF WakeFires, accounts, TypeOK
<1>8. CASE \E w \in Wake : WakeChecks(w)
      BY <1>8 DEF WakeChecks, RecordAfterWake, NoWake, accounts, TypeOK
<1>9. CASE \E w \in Wake : WakeRuns(w)
  <2>1. PICK w \in Wake : WakeRuns(w)
        BY <1>9
  <2>2. wake' \in [Wake -> Wakes]
        BY <2>1, <1>t DEF WakeRuns, NoWake, Wakes
  <2> QED
      BY <2>1, <2>2, TryPassTyped DEF WakeRuns, accounts, TypeOK, Wakes
<1>10. CASE ListRows
       BY <1>10 DEF ListRows, accounts, scheduler, TypeOK
<1>11. CASE ListFails
       BY <1>11, EndPassTyped, AfterPassTyped DEF ListFails, accounts, TypeOK, Loops, Wakes
<1>12. CASE \E a \in Account : SkipRow(a) \/ LookupFails(a)
       BY <1>12, RowDoneTyped DEF SkipRow, LookupFails, accounts, scheduler, TypeOK
<1>13. CASE \E a \in Account : DeferRow(a)
  <2>1. PICK a \in Account : DeferRow(a)
        BY <1>13
  <2>2. site \in Nat
        BY DEF TypeOK
  <2> QED
      BY <2>1, <2>2, RowDoneTyped DEF DeferRow, accounts, scheduler, TypeOK
<1>14. CASE \E a \in Account : RenewRow(a)
       BY <1>14, <1>n, RowDoneTyped DEF RenewRow, scheduler, TypeOK
<1>15. CASE \E a \in Account, d \in Backoff : FailRow(a, d)
  <2>1. PICK a \in Account, d \in Backoff : FailRow(a, d)
        BY <1>15
  <2>2. d \in Nat
        BY <1>n
  <2> QED
      BY <2>1, <2>2, <1>n, RowDoneTyped DEF FailRow, Fail, scheduler, TypeOK
<1>16. CASE \E a \in Account, d \in RetryAfter : ThrottledRow(a, d)
  <2>1. PICK a \in Account, d \in RetryAfter : ThrottledRow(a, d)
        BY <1>16
  <2>2. d \in Nat
        BY <1>n
  <2> QED
      BY <2>1, <2>2, RowDoneTyped DEF ThrottledRow, Fail, scheduler, TypeOK
<1>17. CASE PassEnds
       BY <1>17, EndPassTyped, AfterPassTyped DEF PassEnds, accounts, TypeOK, Loops, Wakes
<1>18. CASE ComputesDeadline
       BY <1>18 DEF ComputesDeadline, accounts, scheduler, TypeOK
<1>19. CASE ArmRefused
       BY <1>19, EndPassTyped, AfterPassTyped DEF ArmRefused, accounts, TypeOK, Loops, Wakes
<1>20. CASE \E w \in Wake : Arms(w)
  <2>1. PICK w \in Wake : Arms(w)
        BY <1>20
  <2>2. WakesReplaced \in [Wake -> Wakes]
        BY <1>t, AfterPassTyped DEF WakesReplaced, NoWake, Wakes
  <2>3. wake' \in [Wake -> Wakes]
        BY <2>1, <2>2 DEF Arms, TypeOK, Wakes
  <2> QED
      BY <2>1, <2>3, EndPassTyped DEF Arms, accounts, TypeOK, Loops, Wakes
<1>21. CASE Elapse
  <2>1. life' \in [Account -> Nat] /\ wait' \in [Account -> Nat] /\ site' \in Nat
        BY <1>21, LessNat DEF Elapse, TypeOK
  <2>2. loop' \in [Loop -> Loops]
        BY <1>21, <1>t, TickerTyped DEF Elapse
  <2>3. wake' \in [Wake -> Wakes]
        BY <1>21, <1>t, LessNat DEF Elapse, Wakes
  <2>4. pass' \in [by : Loop \cup Wake \cup {Nil},
                   pc : {"none", "list", "rows", "arm"},
                   todo : SUBSET Account, next : Nat]
        BY <1>21, LessNat DEF Elapse, TypeOK
  <2>5. lag' \in 0..MaxLag
        BY <1>21, <1>n DEF Elapse, TypeOK
  <2> QED
      BY <1>21, <2>1, <2>2, <2>3, <2>4, <2>5 DEF Elapse, TypeOK, Loops, Wakes
<1> QED
    BY <1>1, <1>2, <1>3, <1>4, <1>5, <1>6, <1>7, <1>8, <1>9, <1>10, <1>11, <1>12,
       <1>13, <1>14, <1>15, <1>16, <1>17, <1>18, <1>19, <1>20, <1>21, NextCases

\* Every reachable state has the declared types, for every number of loops,
\* timers and accounts and all delays (managed_session.go, lines 57 to 69).
THEOREM TypeCorrect == Spec => []TypeOK
  BY TypeInit, TypeStep, PTL DEF Spec
-----------------------------------------------------------------------------
LEMMA InvInit == Init => Inv
<1> SUFFICES ASSUME Init
             PROVE  Inv
    OBVIOUS
<1>1. PassHeld
      BY NilNew DEF Init, PassHeld, NoPass
<1>2. RecordAlive
      BY DEF Init, RecordAlive
<1> QED
    BY <1>1, <1>2, TypeInit DEF Inv

\* A goroutine that finds managedRefreshPassMu taken leaves it alone; one that
\* takes it goes on as the holder.
LEMMA TryPassHeld ==
    ASSUME Inv, NEW r \in Loop \cup Wake, TryPass(r),
           r \in Wake => wake[r].pc # "pass" /\ (pass.by = Nil => wake'[r].pc = "pass"),
           \A w \in Wake : w # r => wake'[w] = wake[w]
    PROVE  PassHeld'
<1>1. r # Nil
      BY NilNew
<1>2. CASE pass.by = Nil
      BY <1>1, <1>2, TryPassTyped DEF Inv, PassHeld
<1>3. CASE pass.by # Nil
      BY <1>3, TryPassTyped DEF Inv, PassHeld
<1> QED
    BY <1>2, <1>3

\* The record survives a step that keeps the channel and the recorded timer.
LEMMA RecordKeeps ==
    ASSUME RecordAlive, stopCh' = stopCh, record' = record,
           record # Nil => wake'[record] = wake[record]
    PROVE  RecordAlive'
  BY DEF RecordAlive

\* The timer that ran the pass is not the recorded one.
LEMMA RecordAfterPass ==
    ASSUME Inv, record # Nil
    PROVE  /\ record \in Wake
           /\ record # pass.by
           /\ WakesAfterPass[record] = wake[record]
<1>1. record \in Wake
      BY DEF Inv, TypeOK
<1>2. record # pass.by
      BY <1>1 DEF Inv, PassHeld, RecordAlive
<1> QED
    BY <1>1, <1>2 DEF WakesAfterPass

LEMMA EndPassHeld ==
    ASSUME EndPass
    PROVE  PassHeld' /\ pass'.by = Nil
  BY NilNew DEF EndPass, NoPass, PassHeld

\* A step of the pass that leaves the timers alone.
LEMMA PassGoesOn ==
    ASSUME Inv, pass'.by = pass.by, pass.pc # "none",
           wake' = wake, stopCh' = stopCh, record' = record
    PROVE  PassHeld' /\ RecordAlive'
  BY DEF Inv, PassHeld, RecordAlive

\* Stopping the recorded timer disturbs no callback that has started.
LEMMA StoppedHeld ==
    ASSUME Inv, wake' = WakesStopped, pass' = pass, record' = Nil
    PROVE  PassHeld' /\ RecordAlive'
<1>1. pass.by \in Wake => WakesStopped[pass.by] = wake[pass.by]
      BY DEF Inv, PassHeld, WakesStopped
<1> QED
    BY <1>1 DEF Inv, PassHeld, RecordAlive

LEMMA InvStep == Inv /\ [Next]_vars => Inv'
<1> SUFFICES ASSUME Inv, [Next]_vars
             PROVE  PassHeld' /\ RecordAlive'
    BY TypeStep DEF Inv
<1>t. TypeOK /\ PassHeld /\ RecordAlive
      BY DEF Inv
<1>1. CASE UNCHANGED vars
      BY <1>1, <1>t DEF vars, accounts, scheduler, PassHeld, RecordAlive
<1>2. CASE \E l \in Loop : StartManagedRefreshScheduler(l)
      BY <1>2, StoppedHeld DEF StartManagedRefreshScheduler
<1>3. CASE StopManagedRefreshScheduler
      BY <1>3, StoppedHeld DEF StopManagedRefreshScheduler
<1>4. CASE \E l \in Loop : LoopBegins(l)
  <2>1. PICK l \in Loop : LoopBegins(l)
        BY <1>4
  <2>2. TryPass(l) /\ wake' = wake /\ stopCh' = stopCh /\ record' = record
        BY <2>1 DEF LoopBegins
  <2>3. l \notin Wake
        BY NilNew
  <2>4. PassHeld'
        BY <2>2, <2>3, TryPassHeld
  <2> QED
      BY <1>t, <2>2, <2>4, RecordKeeps
<1>5. CASE \E l \in Loop : LoopTicks(l)
  <2>1. PICK l \in Loop : LoopTicks(l)
        BY <1>5
  <2>2. TryPass(l) /\ wake' = wake /\ stopCh' = stopCh /\ record' = record
        BY <2>1 DEF LoopTicks
  <2>3. l \notin Wake
        BY NilNew
  <2>4. PassHeld'
        BY <2>2, <2>3, TryPassHeld
  <2> QED
      BY <1>t, <2>2, <2>4, RecordKeeps
<1>6. CASE \E l \in Loop : LoopReturns(l)
      BY <1>6, <1>t DEF LoopReturns, PassHeld, RecordAlive
<1>7. CASE \E w \in Wake : WakeFires(w)
  <2>1. PICK w \in Wake : WakeFires(w)
        BY <1>7
  <2>2. /\ \A v \in Wake : v # w => wake'[v] = wake[v]
        /\ wake[w].pc = "armed"
        /\ wake'[w].pc = "fired" /\ wake'[w].ch = wake[w].ch
        BY <1>t, <2>1 DEF WakeFires, TypeOK
  <2>3. pass' = pass /\ stopCh' = stopCh /\ record' = record
        BY <2>1 DEF WakeFires
  <2>4. PassHeld'
        BY <1>t, <2>2, <2>3 DEF PassHeld
  <2>5. RecordAlive'
        BY <1>t, <2>2, <2>3 DEF RecordAlive, TypeOK
  <2> QED
      BY <2>4, <2>5
<1>8. CASE \E w \in Wake : WakeChecks(w)
  <2>1. PICK w \in Wake : WakeChecks(w)
        BY <1>8
  <2>2. /\ \A v \in Wake : v # w => wake'[v] = wake[v]
        /\ wake[w].pc = "fired"
        /\ stopCh = wake[w].ch => record' = Nil
        /\ stopCh # wake[w].ch => record' = record
        BY <1>t, <2>1 DEF WakeChecks, RecordAfterWake, TypeOK
  <2>3. pass' = pass /\ stopCh' = stopCh
        BY <2>1 DEF WakeChecks
  <2>4. PassHeld'
        BY <1>t, <2>2, <2>3 DEF PassHeld
  <2>5. RecordAlive'
        BY <1>t, <2>2, <2>3 DEF RecordAlive, TypeOK
  <2> QED
      BY <2>4, <2>5
<1>9. CASE \E w \in Wake : WakeRuns(w)
  <2>1. PICK w \in Wake : WakeRuns(w)
        BY <1>9
  <2>2. /\ \A v \in Wake : v # w => wake'[v] = wake[v]
        /\ wake[w].pc = "run"
        /\ pass.by = Nil => wake'[w].pc = "pass"
        BY <1>t, <2>1 DEF WakeRuns, TypeOK
  <2>3. TryPass(w) /\ stopCh' = stopCh /\ record' = record
        BY <2>1 DEF WakeRuns
  <2>4. PassHeld'
        BY <2>2, <2>3, TryPassHeld
  <2>5. RecordAlive'
        BY <1>t, <2>2, <2>3 DEF RecordAlive, TypeOK
  <2> QED
      BY <2>4, <2>5
<1>10. CASE ListRows
  <2>1. pass'.by = pass.by /\ pass.pc # "none"
        BY <1>10, <1>t DEF ListRows, TypeOK
  <2> QED
      BY <1>10, <2>1, PassGoesOn DEF ListRows, scheduler
<1>11. ASSUME EndPass, wake' = WakesAfterPass, stopCh' = stopCh, record' = record
       PROVE  PassHeld' /\ RecordAlive'
       BY <1>11, <1>t, EndPassHeld, RecordAfterPass, RecordKeeps
<1>12. CASE ListFails
       BY <1>12, <1>11 DEF ListFails
<1>13. ASSUME NEW a \in Account, NEW d \in Nat, IsNextRow(a), RowDone(a, d), UNCHANGED scheduler
       PROVE  PassHeld' /\ RecordAlive'
  <2>1. pass'.by = pass.by
        BY <1>13, <1>t, RowDoneTyped
  <2>2. pass.pc # "none"
        BY <1>13 DEF IsNextRow
  <2> QED
      BY <1>13, <2>1, <2>2, PassGoesOn DEF scheduler
<1>14. CASE \E a \in Account : SkipRow(a) \/ LookupFails(a)
       BY <1>14, <1>13 DEF SkipRow, LookupFails
<1>15. CASE \E a \in Account : DeferRow(a)
  <2>1. site \in Nat
        BY <1>t DEF TypeOK
  <2> QED
      BY <1>15, <2>1, <1>13 DEF DeferRow
<1>16. CASE \E a \in Account : RenewRow(a)
       BY <1>16, <1>13 DEF RenewRow, Requests
<1>17. CASE \E a \in Account, d \in Backoff : FailRow(a, d)
  <2>1. PICK a \in Account, d \in Backoff : FailRow(a, d)
        BY <1>17
  <2>2. d \in Nat
        BY DelaysPositive
  <2> QED
      BY <2>1, <2>2, <1>13 DEF FailRow, Fail, Requests
<1>18. CASE \E a \in Account, d \in RetryAfter : ThrottledRow(a, d)
  <2>1. PICK a \in Account, d \in RetryAfter : ThrottledRow(a, d)
        BY <1>18
  <2>2. d \in Nat
        BY DelaysPositive
  <2> QED
      BY <2>1, <2>2, <1>13 DEF ThrottledRow, Fail, Requests
<1>19. CASE PassEnds
       BY <1>19, <1>11 DEF PassEnds
<1>20. CASE ComputesDeadline
  <2>1. pass'.by = pass.by /\ pass.pc # "none"
        BY <1>20, <1>t DEF ComputesDeadline, TypeOK
  <2> QED
      BY <1>20, <2>1, PassGoesOn DEF ComputesDeadline, scheduler
<1>21. CASE ArmRefused
       BY <1>21, <1>11 DEF ArmRefused
<1>22. CASE \E w \in Wake : Arms(w)
  <2>1. PICK w \in Wake : Arms(w)
        BY <1>22
  <2>2. PassHeld'
        BY <2>1, EndPassHeld DEF Arms
  <2>3. record' = w /\ stopCh' = stopCh
        BY <2>1 DEF Arms
  <2>4. wake'[w] = [pc |-> "armed", left |-> pass.next, ch |-> stopCh]
        BY <2>1 DEF Arms, WakesReplaced
  <2> QED
      BY <2>2, <2>3, <2>4 DEF RecordAlive
<1>23. CASE Elapse
  <2>1. pass'.by = pass.by /\ pass'.pc = pass.pc
        BY <1>23, <1>t DEF Elapse, TypeOK
  <2>2. \A w \in Wake : wake'[w].pc = wake[w].pc /\ wake'[w].ch = wake[w].ch
        BY <1>23, <1>t DEF Elapse, TypeOK
  <2>3. stopCh' = stopCh /\ record' = record
        BY <1>23 DEF Elapse
  <2>4. PassHeld'
        BY <1>t, <2>1, <2>2 DEF PassHeld
  <2>5. RecordAlive'
        BY <1>t, <2>2, <2>3 DEF RecordAlive, TypeOK
  <2> QED
      BY <2>4, <2>5
<1> QED
    BY <1>1, <1>2, <1>3, <1>4, <1>5, <1>6, <1>7, <1>8, <1>9, <1>10, <1>12, <1>14,
       <1>15, <1>16, <1>17, <1>18, <1>19, <1>20, <1>21, <1>22, <1>23, NextCases

LEMMA InvAlways == Spec => []Inv
  BY InvInit, InvStep, PTL DEF Spec

\* The recorded wake timer has always still to run, for the loop that is
\* running: no past deadline refuses later wakes (line 758).
THEOREM RecordIsAlive == Spec => []RecordAlive
<1>1. Inv => RecordAlive
      BY DEF Inv
<1> QED
    BY <1>1, InvAlways, PTL
-----------------------------------------------------------------------------
\* Whoever ends a pass that computed a deadline leaves a timer for it.
LEMMA WakeStays ==
    ASSUME Inv, Next, pass.pc = "arm", pass'.by = Nil, stopCh # Nil
    PROVE  /\ record' # Nil
           /\ wake'[record'].pc \in {"armed", "fired"}
           /\ wake'[record'].left <= pass.next
<1>1. pass.by # Nil
      BY DEF Inv, PassHeld
<1>2. pass.next \in Nat
      BY DEF Inv, TypeOK
<1>3. CASE ArmRefused
  <2>1. record # Nil /\ NotSooner /\ record' = record /\ wake' = WakesAfterPass
        BY <1>3 DEF ArmRefused, LoopRuns
  <2>2. wake'[record'] = wake[record]
        BY <2>1, RecordAfterPass
  <2>3. record \in Wake /\ wake[record].left \in Nat
        BY <2>1, RecordAfterPass DEF Inv, TypeOK
  <2> QED
      BY <1>2, <2>1, <2>2, <2>3 DEF Inv, RecordAlive, NotSooner
<1>4. CASE \E w \in Wake : Arms(w)
  <2>1. PICK w \in Wake : Arms(w)
        BY <1>4
  <2>2. record' = w /\ wake'[w] = [pc |-> "armed", left |-> pass.next, ch |-> stopCh]
        BY <2>1 DEF Arms, WakesReplaced
  <2>3. w # Nil
        BY NilNew
  <2> QED
      BY <1>2, <2>2, <2>3
<1>5. CASE pass'.by = pass.by
      BY <1>1, <1>5
<1>6. \/ ArmRefused
      \/ \E w \in Wake : Arms(w)
      \/ pass'.by = pass.by
  <2>1. ASSUME NEW r \in Loop \cup Wake, TryPass(r)
        PROVE  pass' = pass
        BY <1>1, <2>1 DEF TryPass
  <2>2. ASSUME NEW a \in Account, IsNextRow(a)
        PROVE  FALSE
        BY <2>2 DEF IsNextRow
  <2>3. CASE Elapse
        BY <2>3 DEF Elapse, Inv, TypeOK
  <2>4. CASE \E w \in Wake : WakeStep(w)
        BY <2>4, <2>1 DEF WakeStep, WakeFires, WakeChecks, WakeRuns
  <2>5. CASE \E l \in Loop : LoopStep(l) \/ LoopReturns(l)
        BY <2>5, <2>1 DEF LoopStep, LoopBegins, LoopTicks, LoopReturns
  <2>6. CASE PassStep
    <3>1. ~ListRows /\ ~ListFails /\ ~PassEnds /\ ~ComputesDeadline
          BY DEF ListRows, ListFails, PassEnds, ComputesDeadline
    <3>2. \A a \in Account : ~Row(a)
          BY <2>2 DEF Row, SkipRow, LookupFails, DeferRow, RenewRow, FailRow, ThrottledRow,
                      Requests
    <3> QED
        BY <2>6, <3>1, <3>2 DEF PassStep
  <2>7. CASE \E l \in Loop : StartManagedRefreshScheduler(l)
        BY <2>7 DEF StartManagedRefreshScheduler
  <2>8. CASE StopManagedRefreshScheduler
        BY <2>8 DEF StopManagedRefreshScheduler
  <2> QED
      BY Zenon, <2>3, <2>4, <2>5, <2>6, <2>7, <2>8 DEF Next
<1> QED
    BY <1>3, <1>4, <1>5, <1>6

\* A pass that ends with a deferred or failed account, while a loop runs,
\* leaves a live timer no later than that account asked for (lines 746-781).
THEOREM WakesKept == Spec => WakeNotLost
<1>1. Inv /\ [Next]_vars =>
        [pass.pc = "arm" /\ pass'.by = Nil /\ stopCh # Nil =>
           /\ record' # Nil
           /\ wake'[record'].pc \in {"armed", "fired"}
           /\ wake'[record'].left <= pass.next]_vars
      BY WakeStays
<1> QED
    BY <1>1, InvAlways, PTL DEF Spec, WakeNotLost
=============================================================================

---------------------------- MODULE CheckinWindow ----------------------------
(***************************************************************************)
(* When the check-ins of one site's accounts are to happen: the random     *)
(* delays of scheduleRandomCheckins (service/scheduler.go), kept within    *)
(* the configured hours of the day and spaced out, account by account.     *)
(*                                                                         *)
(* Time is counted in minutes; the seconds, which are drawn at random as   *)
(* well, are left out.  Hours and days are shorter than on a clock.  Every *)
(* draw of the random generator is a choice.  The draws for one site do    *)
(* not depend on the other sites.                                          *)
(***************************************************************************)
EXTENDS Integers, Sequences, Functions

CONSTANTS
    Accounts,       \* number of accounts of the site
    Hour, Day,      \* minutes in an hour, hours in a day
    WindowStart,    \* checkin_window_start
    WindowEnd,      \* checkin_window_end
    WindowMinutes,  \* minutes until the cron fires next, less the buffer
    Gaps,           \* the minimum gaps drawn between two accounts
    Begin           \* the minutes of the day at which the cron may fire

DayMinutes == Hour * Day

\* The settings and the clock: the window lies within the day, and the cron
\* leaves some minutes for the draws, five at least.
Parameters ==
    /\ {Accounts, Hour, Day, WindowMinutes} \subseteq Nat \ {0}
    /\ Hour % 2 = 0
    /\ {WindowStart, WindowEnd} \subseteq 0 .. Day
    /\ WindowStart < WindowEnd
    /\ Gaps \subseteq Nat \ {0}
    /\ Begin \subseteq 0 .. (DayMinutes - 1)

ASSUME WindowAssumption == Parameters

VARIABLES
    now,        \* minute of the day when the delays are computed
    delays,     \* delays of the accounts; once sorted, in that order
    k           \* 0 while delays are drawn, then the account to be spaced

windowVars == <<now, delays, k>>
-----------------------------------------------------------------------------
Midnight(t) == (t \div DayMinutes) * DayMinutes
HourOf(t) == (t % DayMinutes) \div Hour

\* Where clampCheckinTime moves a time outside the window: into its last
\* hour, or into the first half of its first hour, on the day of the time.
LastHour(t) == {Midnight(t) + (WindowEnd - 1) * Hour + m : m \in 0 .. (Hour - 1)}
FirstHalf(t) == {Midnight(t) + WindowStart * Hour + m : m \in 0 .. (Hour \div 2 - 1)}

\* Mutant: a time that is past is not noticed.
Signed(t) == t - now

\* The delay until a time, 0 for a time that is past.
Until(t) == IF t < now THEN 0 ELSE t - now

\* Mutant: the hour the window ends with still counts as inside.
ClampLate(delay) ==
    LET t == now + delay
    IN CASE HourOf(t) > WindowEnd -> {Until(e) : e \in LastHour(t)}
         [] HourOf(t) < WindowStart -> {Until(e) : e \in FirstHalf(t)}
         [] OTHER -> {delay}

\* clampCheckinTime: the delays it may return.
Clamp(delay) ==
    LET t == now + delay
    IN CASE HourOf(t) >= WindowEnd -> {Until(e) : e \in LastHour(t)}
         [] HourOf(t) < WindowStart -> {Until(e) : e \in FirstHalf(t)}
         [] OTHER -> {delay}

WindowInit ==
    /\ now \in Begin
    /\ delays = <<>>
    /\ k = 0

\* randomDuration, clamped.
Draw ==
    /\ k = 0
    /\ Len(delays) < Accounts
    /\ \E random \in 0 .. (WindowMinutes - 1) : \E delay \in Clamp(random) :
          delays' = Append(delays, delay)
    /\ UNCHANGED <<now, k>>

\* Mutant: the first account is not compared with the second.
SecondSpaced == 3

FirstSpaced == 2

\* sort.Slice: some order in which no delay is before a smaller one.
Sort ==
    /\ k = 0
    /\ Len(delays) = Accounts
    /\ \E order \in Bijection(1 .. Accounts, 1 .. Accounts) :
          /\ \A i \in 2 .. Accounts : delays[order[i - 1]] <= delays[order[i]]
          /\ delays' = [i \in 1 .. Accounts |-> delays[order[i]]]
    /\ k' = FirstSpaced
    /\ UNCHANGED now

\* An account too close to the one before it moves behind it, and is
\* clamped again.
Space ==
    /\ k \in 2 .. Accounts
    /\ \E gap \in Gaps :
          IF delays[k] - delays[k - 1] < gap
          THEN \E delay \in Clamp(delays[k - 1] + gap) :
                  delays' = [delays EXCEPT ![k] = delay]
          ELSE UNCHANGED delays
    /\ k' = k + 1
    /\ UNCHANGED now

Done == k = Accounts + 1
WindowNext == Draw \/ Sort \/ Space

WindowSpec == WindowInit /\ [][WindowNext]_windowVars
-----------------------------------------------------------------------------
WindowTypeOK ==
    /\ now \in Begin
    /\ delays \in Seq(Nat)
    /\ k \in {0} \cup 2 .. (Accounts + 1)

\* "clampCheckinTime adjusts delay so that baseTime+delay falls within the
\* configured checkin window": no check-in is due outside the hours.
InWindow ==
    \A i \in DOMAIN delays : HourOf(now + delays[i]) \in WindowStart .. (WindowEnd - 1)

FarApart(i, j) ==
    \E gap \in Gaps : delays[j] - delays[i] >= gap \/ delays[i] - delays[j] >= gap

\* "Same-site accounts are guaranteed a minimum gap", as far as it holds: once
\* all are spaced, any two of them are at least the smallest gap apart if
\* neither lies in the hours check-ins are clamped into.
Clamped(t) == t \in LastHour(t) \cup FirstHalf(t)
GapInside ==
    Done => \A i, j \in 1 .. Accounts :
               \/ i >= j
               \/ Clamped(now + delays[i])
               \/ Clamped(now + delays[j])
               \/ FarApart(i, j)
=============================================================================

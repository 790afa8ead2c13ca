--------------------------- MODULE CaptchaCheckin ---------------------------
(***************************************************************************)
(* CheckinAccount of service/checkin.go around NewApiCheckin: when the     *)
(* panel wants a Turnstile token, TurnstileSolver is asked for one and the *)
(* check-in made again with it; a check-in that is made is followed by a   *)
(* balance refresh.  Log-ins and session renewals are CheckinFlow's.       *)
(***************************************************************************)
EXTENDS NewApiCheckin

CONSTANTS Instances, Attempt, Client, Pause, Polls

VARIABLES
    now, solver,    \* the solver call that is on
    stage           \* what CheckinAccount is at, in each flow

Solver == INSTANCE TurnstileSolver

ASSUME SolverAssumption == Solver!Parameters

solverVars == <<now, solver>>
allVars == <<setup, cache, done, flow, now, solver, stage>>
-----------------------------------------------------------------------------
Stage == {"idle", "first", "solve", "again", "balance"}

CaptchaTypeOK ==
    /\ TypeOK
    /\ Solver!TypeOK
    /\ stage \in [Flow -> Stage]

CaptchaInit == Init /\ Solver!Init /\ stage = [f \in Flow |-> "idle"]

In(f, stages) == stage[f] \in stages
To(f, s) == stage' = [stage EXCEPT ![f] = s]

\* The timers, the handlers and the balance job.
Start(f) ==
    /\ In(f, {"idle"})
    /\ \/ Begin(f, "checkin") /\ To(f, "first")
       \/ Begin(f, "balance") /\ To(f, "balance")
    /\ UNCHANGED solverVars

Work(f) == Step(f) /\ UNCHANGED <<now, solver, stage>>

\* turnstileRequired, isAlreadyCheckedIn and Success of the result.
WantsCaptcha(f) == flow[f].first = "captcha"
IsMade(f) == flow[f].first \in {"granted", "already"}

\* One solver call at a time: a bound of the model, calls share nothing.
Solve(f) ==
    /\ At(f, "end") /\ In(f, {"first"}) /\ WantsCaptcha(f)
    /\ Solver!Call /\ To(f, "solve")
    /\ UNCHANGED vars

CaptchaFlow == [NoFlow EXCEPT !.kind = "checkin", !.pc = "lookup", !.captcha = "fresh"]
CheckInAgain(f) ==
    /\ In(f, {"solve"}) /\ solver.pc = "solved" /\ Solver!Return
    /\ flow' = [flow EXCEPT ![f] = CaptchaFlow]
    /\ To(f, "again")
    /\ UNCHANGED <<setup, cache, done>>

RefreshBalance(f) ==
    /\ At(f, "end") /\ In(f, {"first", "again"}) /\ IsMade(f)
    /\ flow' = [flow EXCEPT ![f] = [NoFlow EXCEPT !.kind = "balance", !.pc = "lookup"]]
    /\ To(f, "balance")
    /\ UNCHANGED <<setup, cache, done, now, solver>>

\* Failed, skipped for want of a site key or solver, or done.
Finish(f) ==
    /\ At(f, "end") /\ To(f, "idle")
    /\ \/ In(f, {"first", "again"}) /\ ~IsMade(f) /\ UNCHANGED solverVars
       \/ In(f, {"balance"}) /\ UNCHANGED solverVars
       \/ In(f, {"solve"}) /\ solver.pc = "failed" /\ Solver!Return
    /\ Return(f)

SolverStep == (Solver!Step \/ Solver!Elapse) /\ UNCHANGED <<setup, cache, done, flow, stage>>

Proceed(f) == Work(f) \/ CheckInAgain(f) \/ RefreshBalance(f) \/ Finish(f)

CaptchaNext ==
    \/ \E f \in Flow : Start(f) \/ Solve(f) \/ Proceed(f)
    \/ SolverStep
    \/ (Expire \/ Cleanup) /\ UNCHANGED <<now, solver, stage>>

CaptchaSpec == CaptchaInit /\ [][CaptchaNext]_allVars
-----------------------------------------------------------------------------
\* However the solvers hang, each instance gets its time (TurnstileSolver).
LaterInstancesHaveTime == Solver!LaterInstancesHaveTime
=============================================================================

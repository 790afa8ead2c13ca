--------------------------- MODULE TurnstileSolver ---------------------------
(***************************************************************************)
(* One call of SolveTurnstileIfConfigured: service/turnstile_solver.go.    *)
(* The configured instances are asked in order, each within a deadline of  *)
(* its own under the deadline of the call.  An instance answers the first  *)
(* request with a token or with a task, whose result is polled.  The       *)
(* services behind the instances, and time, are external.                  *)
(***************************************************************************)
EXTENDS Naturals

CONSTANTS
    Instances,  \* lines of turnstile_solver_api_url (one when it is empty)
    Attempt,    \* turnstileSolverAttemptTimeout, in ticks
    Client,     \* Timeout of createHTTPClient
    Pause,      \* wait before and between two polls, sleep after a failed one
    Polls       \* maxAttempts of a "task" (standard) and an "async" result

Parameters ==
    /\ Instances \in Nat \ {0}
    /\ Attempt \in Nat /\ Client \in Nat /\ Pause \in Nat
    /\ Polls \in [{"task", "async"} -> Nat]

VARIABLES
    now,        \* ticks since the call began
    solver      \* local variables of the call

vars == <<now, solver>>
-----------------------------------------------------------------------------
Earlier(s, t) == IF s < t THEN s ELSE t

\* The deadline of the context of the whole call.
CallEnds == Attempt * Instances

\* at: the instance being asked; until: the end of the deadline, the wait or
\* the sleep that is on; ends: the deadline of attemptCtx; task: what is polled.
Local == [pc : {"off", "next", "create", "wait", "poll", "sleep", "solved", "failed"},
          at : 0 .. Instances, ends : 0 .. CallEnds, until : 0 .. CallEnds + Pause,
          task : {"task", "async"}, polls : Nat]

TypeOK ==
    /\ now \in 0 .. CallEnds + Pause
    /\ solver \in Local

Off == [pc |-> "off", at |-> 0, ends |-> 0, until |-> 0, task |-> "task", polls |-> 0]

Init == now = 0 /\ solver = Off

At(pcs) == solver.pc \in pcs

Call ==
    /\ At({"off"})
    /\ solver' = [solver EXCEPT !.pc = "next"]
    /\ now' = 0

\* A request is out until it is answered or its client or context gives up.
RequestEnds(t, ends) == Earlier(t + Client, ends)

\* Mutant: no deadline of its own.
AttemptEndsWithCall == CallEnds

\* The loop over the instances, and the first request of the next one.
AttemptEnds == Earlier(now + Attempt, CallEnds)
AskNext ==
    /\ At({"next"}) /\ now < CallEnds /\ solver.at < Instances
    /\ solver' = [solver EXCEPT !.pc = "create", !.at = @ + 1, !.ends = AttemptEnds,
                                !.until = RequestEnds(now, AttemptEnds)]
    /\ UNCHANGED now

\* The call fails: its own deadline passed, or every instance failed.
GiveUp ==
    /\ At({"next"}) /\ (now >= CallEnds \/ solver.at = Instances)
    /\ solver' = [solver EXCEPT !.pc = "failed"]
    /\ UNCHANGED now

Goto(pc) == solver' = [solver EXCEPT !.pc = pc]
InTime == now < solver.ends

Succeed == At({"create", "poll"}) /\ InTime /\ Goto("solved") /\ UNCHANGED now

\* The service reports an error, or is ready without a token.
Refuse == At({"poll"}) /\ InTime /\ Goto("next") /\ UNCHANGED now

\* A task is created: the first poll comes after a pause.
TaskCreated(task) ==
    /\ At({"create"}) /\ InTime
    /\ solver' = [solver EXCEPT !.pc = "wait", !.task = task, !.polls = 0,
                                !.until = Earlier(now + Pause, solver.ends)]
    /\ UNCHANGED now

\* "processing": a wait that the context may cut short.
Pending ==
    /\ At({"poll"}) /\ InTime
    /\ solver' = [solver EXCEPT !.pc = "wait", !.until = Earlier(now + Pause, solver.ends)]
    /\ UNCHANGED now

\* Mutant: it sleeps for as long as the client waits.
SleepEndsLate == now + Client

\* No usable answer: time.Sleep, which no context cuts short, then the next poll.
SleepEnds == now + Pause
PollFails ==
    /\ At({"poll"})
    /\ solver' = [solver EXCEPT !.pc = "sleep", !.until = SleepEnds]
    /\ UNCHANGED now

\* No usable answer to the first request ends the attempt.
CreateFails == At({"create"}) /\ Goto("next") /\ UNCHANGED now

\* The wait or sleep is over: poll again while the context and the count allow.
Poll ==
    /\ At({"wait", "sleep"}) /\ now = solver.until
    /\ solver' = IF InTime /\ solver.polls < Polls[solver.task]
                   THEN [solver EXCEPT !.pc = "poll", !.polls = @ + 1,
                                       !.until = RequestEnds(now, solver.ends)]
                   ELSE [solver EXCEPT !.pc = "next"]
    /\ UNCHANGED now

\* Time passes for what is out, waiting or asleep.
Elapse ==
    /\ At({"create", "poll", "wait", "sleep"}) /\ now < solver.until
    /\ now' = now + 1
    /\ UNCHANGED solver

Return ==
    /\ At({"solved", "failed"})
    /\ solver' = Off /\ now' = 0

Step ==
    \/ AskNext \/ GiveUp \/ Succeed \/ Refuse \/ Pending \/ PollFails
    \/ CreateFails \/ Poll
    \/ \E task \in {"task", "async"} : TaskCreated(task)

Next == Call \/ Step \/ Elapse \/ Return
Spec == Init /\ [][Next]_vars
-----------------------------------------------------------------------------
\* An instance that hangs, or is polled to the last second, takes no time from
\* those after it but the sleep that outlasts its deadline: every instance but
\* the last is given its full attempt, the last one all but those sleeps.
LaterInstancesHaveTime ==
    [][solver'.at > solver.at =>
          solver'.ends - now >= IF solver'.at < Instances THEN Attempt
                                ELSE Attempt - (Instances - 1) * Pause]_vars
=============================================================================

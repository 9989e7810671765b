--------------------------- MODULE SkillExecution ---------------------------
(***************************************************************************)
(* waldoctl/skills.py: what one asyncio loop does with skill invocations,  *)
(* the guarded client they share, and cancellation.                        *)
(*                                                                         *)
(* A root invocation (async_call on an unguarded client) creates an        *)
(* _Execution, so an execution is identified with its root invocation;     *)
(* a nested one (async_call on a _Guard) shares the guard's execution.     *)
(* asyncio is one thread: between two suspension points only one task      *)
(* runs, which LoopFree expresses, and other tasks, timers and the stop    *)
(* request advance only while no task is running.                          *)
(***************************************************************************)
EXTENDS Naturals, Sequences, FiniteSets

CONSTANTS
    Tasks,         \* asyncio tasks: the application's and those it creates
    Main,          \* the task that is there from the start
    Invs,          \* invocation ids (uuid4 in the code), naturals without 0
    MaxRequests,   \* bound: task.cancel() calls from outside, per task
    MaxDepth,      \* bound: calls and timeouts open at once in one task
    BodyHabits,    \* the hazardous things skill bodies and clients may do
    StopOutcomes   \* how the task that requests the stop may end

Habits == {"swallow", "touch", "absorb", "self"}
Outcomes == {"confirmed", "unconfirmed", "torn"}
None == 0

ASSUME SkillAssumption ==
    /\ Main \in Tasks
    /\ Invs \subseteq Nat \ {None}
    /\ MaxRequests \in Nat
    /\ MaxDepth \in Nat
    /\ BodyHabits \subseteq Habits
    /\ StopOutcomes \subseteq Outcomes

VARIABLES
    at,         \* where each task's coroutine is
    stack,      \* each task's open async_call frames and asyncio.timeout blocks
    context,    \* the invocation a task's context held when it was created
    requests,   \* task.cancel() calls from outside (never uncancelled)
    thrown,     \* a CancelledError is due at the task's next suspension
    owner,      \* the execution (a root invocation) an invocation runs in
    runner,     \* the task that called the invocation
    phase,      \* the last lifecycle event an invocation emitted
    cancelled,  \* _Execution.cancelled
    closed,     \* _Execution.closed
    stop,       \* _Execution.stop_task: absent, pending, or its outcome
    asked       \* history: the tasks cancelled from outside an execution

vars == <<at, stack, context, requests, thrown, owner, runner, phase,
          cancelled, closed, stop, asked>>

Running == {"body", "CancelledError", "Error"}
Places == {"unborn", "ready", "sleep", "op", "wait", "stop", "done"} \cup Running
Phases == {"none", "started", "completed", "failed", "cancelled", "torn"}

Frame == [inv : Invs \cup {None}, call : BOOLEAN, base : Nat, expired : BOOLEAN]
CallFrame(i) == [inv |-> i, call |-> TRUE, base |-> 0, expired |-> FALSE]
TimeoutFrame(i, n) == [inv |-> i, call |-> FALSE, base |-> n, expired |-> FALSE]

TypeOK ==
    /\ at \in [Tasks -> Places]
    /\ stack \in [Tasks -> Seq(Frame)]
    /\ context \in [Tasks -> Invs \cup {None}]
    /\ requests \in [Tasks -> Nat]
    /\ thrown \in [Tasks -> BOOLEAN]
    /\ owner \in [Invs -> Invs]
    /\ runner \in [Invs -> Tasks]
    /\ phase \in [Invs -> Phases]
    /\ cancelled \in [Invs -> BOOLEAN]
    /\ closed \in [Invs -> BOOLEAN]
    /\ stop \in [Invs -> {"none", "pending"} \cup Outcomes]
    /\ asked \in [Invs -> SUBSET Tasks]

-----------------------------------------------------------------------------
(* Reading the state. *)

Top(t) == stack[t][Len(stack[t])]
Below(t) == SubSeq(stack[t], 1, Len(stack[t]) - 1)
InCall(t) == stack[t] # <<>> /\ Top(t).call
InTimeout(t) == stack[t] # <<>> /\ ~Top(t).call

(* ContextVar _active: the innermost open call, or the one inherited. *)
Active(t) == IF stack[t] = <<>> THEN context[t] ELSE Top(t).inv

(* Nested skills and timeouts hold the guard of the call they run in. *)
Guard(t) == owner[Active(t)]

(* task.cancelling(): requests from outside, and timeouts that fired and   *)
(* have not been left yet (asyncio.timeout calls uncancel when left).      *)
Cancelling(t) ==
    requests[t] + Cardinality({k \in DOMAIN stack[t] : stack[t][k].expired})

IsRoot(i) == owner[i] = i

LoopFree == \A t \in Tasks : at[t] \notin Running

Goto(t, place) == at' = [at EXCEPT ![t] = place]

(* The roots whose call is open in task t above position k. *)
RootsAbove(t, k) ==
    {i \in Invs : \E l \in DOMAIN stack[t] :
                     l > k /\ stack[t][l].call /\ stack[t][l].inv = i /\ IsRoot(i)}

(* Faults for check: a cancellation another task saw is forgotten; one     *)
(* that is only pending in this task is.                                   *)
CheckThisTask(t, e) == Cancelling(t) > 0
CheckLatchOnly(t, e) == cancelled[e]

(* _Execution.check in task t raises CancelledError. *)
CheckCancels(t, e) == cancelled[e] \/ Cancelling(t) > 0

(* _Execution.check: where the task goes, and what is latched. *)
Check(t, e, place) ==
    /\ cancelled' = [cancelled EXCEPT ![e] = CheckCancels(t, e)]
    /\ Goto(t, IF CheckCancels(t, e) THEN "CancelledError"
               ELSE IF closed[e] THEN "Error" ELSE place)

-----------------------------------------------------------------------------
(* How async_call ends: its except and finally clauses.  i is the          *)
(* invocation, below the caller's stack.                                   *)

(* Fault: stop() without its latch. *)
RequestStopUnlatched(t, i, below) ==
    /\ Goto(t, "stop")
    /\ stack' = [stack EXCEPT ![t] = Append(below, CallFrame(i))]
    /\ phase' = [phase EXCEPT ![i] = "started"]
    /\ stop' = [stop EXCEPT ![i] = "pending"]
    /\ UNCHANGED <<cancelled, closed>>

(* except CancelledError at the root: stop() latches and requests once.    *)
RequestStop(t, i, below) ==
    /\ Goto(t, "stop")
    /\ stack' = [stack EXCEPT ![t] = Append(below, CallFrame(i))]
    /\ phase' = [phase EXCEPT ![i] = "started"]
    /\ cancelled' = [cancelled EXCEPT ![i] = TRUE]
    /\ stop' = [stop EXCEPT ![i] = "pending"]
    /\ UNCHANGED closed

(* Any other way out: the event, the finally clause, back to the caller.   *)
Leave(t, i, root, below, event, place) ==
    /\ Goto(t, place)
    /\ stack' = [stack EXCEPT ![t] = below]
    /\ phase' = [phase EXCEPT ![i] = event]
    /\ closed' = [closed EXCEPT ![i] = root \/ closed[i]]
    /\ UNCHANGED stop

(* check() raised CancelledError inside the try of async_call. *)
CheckedOut(t, i, e, below) ==
    IF i = e THEN RequestStop(t, i, below)
    ELSE /\ Leave(t, i, FALSE, below, "cancelled", "CancelledError")
         /\ cancelled' = [cancelled EXCEPT ![e] = TRUE]

-----------------------------------------------------------------------------
(* Steps of a running body: the application's, or a skill function's.      *)

Fresh(i) == phase[i] = "none" /\ \A j \in Invs : j < i => phase[j] # "none"

(* async_call: "started", check, the API and capability tests, the body.   *)
Invoke(t, i, e, refused) ==
    /\ at[t] = "body"
    /\ Len(stack[t]) < MaxDepth
    /\ Fresh(i)
    /\ \/ e = i                                   \* an unguarded client
       \/ Active(t) # None /\ e = Guard(t)        \* the guard at hand
    /\ owner' = [owner EXCEPT ![i] = e]
    /\ runner' = [runner EXCEPT ![i] = t]
    /\ asked' = [asked EXCEPT ![i] = IF Cancelling(t) > 0 THEN {t} ELSE {}]
    /\ IF CheckCancels(t, e) THEN CheckedOut(t, i, e, stack[t])
       ELSE /\ IF closed[e] \/ refused
               THEN Leave(t, i, i = e, stack[t], "failed", "Error")
               ELSE /\ stack' = [stack EXCEPT ![t] = Append(@, CallFrame(i))]
                    /\ phase' = [phase EXCEPT ![i] = "started"]
                    /\ UNCHANGED <<at, closed, stop>>
            /\ UNCHANGED cancelled
    /\ UNCHANGED <<context, requests, thrown>>

(* The function returned: check, then "completed". *)
Return(t) ==
    /\ at[t] = "body"
    /\ InCall(t)
    /\ LET i == Top(t).inv
           e == owner[i]
       IN  IF CheckCancels(t, e) THEN CheckedOut(t, i, e, Below(t))
           ELSE /\ IF closed[e]
                   THEN Leave(t, i, i = e, Below(t), "failed", "Error")
                   ELSE Leave(t, i, i = e, Below(t), "completed", "body")
                /\ UNCHANGED cancelled
    /\ UNCHANGED <<context, requests, thrown, owner, runner, asked>>

(* Fault: a nested skill stops the arm as well. *)
LeaveCancelledStops(t) ==
    /\ at[t] = "CancelledError"
    /\ InCall(t)
    /\ LET i == Top(t).inv
       IN  IF IsRoot(i) THEN RequestStop(t, i, Below(t))
           ELSE /\ stack' = [stack EXCEPT ![t] = Below(t)]
                /\ Goto(t, "CancelledError")
                /\ phase' = [phase EXCEPT ![i] = "cancelled"]
                /\ stop' = [stop EXCEPT ![owner[i]] = "pending"]
                /\ cancelled' = [cancelled EXCEPT ![owner[i]] = TRUE]
                /\ UNCHANGED closed
    /\ UNCHANGED <<context, requests, thrown, owner, runner, asked>>

(* A CancelledError leaves the function. *)
LeaveCancelled(t) ==
    /\ at[t] = "CancelledError"
    /\ InCall(t)
    /\ LET i == Top(t).inv
       IN  IF IsRoot(i) THEN RequestStop(t, i, Below(t))
           ELSE /\ Leave(t, i, FALSE, Below(t), "cancelled", "CancelledError")
                /\ UNCHANGED cancelled
    /\ UNCHANGED <<context, requests, thrown, owner, runner, asked>>

(* Fault: the failed event is forgotten. *)
LeaveFailedSilently(t) ==
    /\ at[t] = "Error"
    /\ InCall(t)
    /\ LET i == Top(t).inv
       IN  Leave(t, i, IsRoot(i), Below(t), phase[i], "Error")
    /\ UNCHANGED <<context, requests, thrown, owner, runner, cancelled, asked>>

(* Another exception leaves the function. *)
LeaveFailed(t) ==
    /\ at[t] = "Error"
    /\ InCall(t)
    /\ LET i == Top(t).inv
       IN  Leave(t, i, IsRoot(i), Below(t), "failed", "Error")
    /\ UNCHANGED <<context, requests, thrown, owner, runner, cancelled, asked>>

(* Reading a coroutine attribute of the guarded client: check, then the    *)
(* call suspends once before it reaches the client.                        *)
CallOp(t) ==
    /\ at[t] = "body"
    /\ Active(t) # None
    /\ Check(t, Guard(t), "sleep")
    /\ UNCHANGED <<stack, context, requests, thrown, owner, runner, phase,
                   closed, stop, asked>>

(* report_progress: check; the event itself changes nothing. *)
ReportProgress(t) ==
    /\ at[t] = "body"
    /\ Active(t) # None
    /\ Check(t, Guard(t), "body")
    /\ UNCHANGED <<stack, context, requests, thrown, owner, runner, phase,
                   closed, stop, asked>>

(* async with asyncio.timeout(...) around whatever follows. *)
EnterTimeout(t) ==
    /\ at[t] = "body"
    /\ Len(stack[t]) < MaxDepth
    /\ stack' = [stack EXCEPT
                    ![t] = Append(@, TimeoutFrame(Active(t), Cancelling(t)))]
    /\ UNCHANGED <<at, context, requests, thrown, owner, runner, phase,
                   cancelled, closed, stop, asked>>

(* Leaving the block: a CancelledError becomes TimeoutError when the block *)
(* fired and nothing else has asked for a cancellation since it was entered.*)
LeaveTimeout(t) ==
    /\ at[t] \in Running
    /\ InTimeout(t)
    /\ stack' = [stack EXCEPT ![t] = Below(t)]
    /\ Goto(t, IF /\ at[t] = "CancelledError"
                  /\ Top(t).expired
                  /\ Cancelling(t) - 1 <= Top(t).base
               THEN "Error" ELSE at[t])
    /\ UNCHANGED <<context, requests, thrown, owner, runner, phase,
                   cancelled, closed, stop, asked>>

(* The body's own awaits, failures, handlers and tasks. *)
Wait(t) ==
    /\ at[t] = "body"
    /\ Goto(t, "wait")
    /\ UNCHANGED <<stack, context, requests, thrown, owner, runner, phase,
                   cancelled, closed, stop, asked>>

Raise(t) ==
    /\ at[t] = "body"
    /\ Goto(t, "Error")
    /\ UNCHANGED <<stack, context, requests, thrown, owner, runner, phase,
                   cancelled, closed, stop, asked>>

HandleError(t) ==
    /\ at[t] = "Error"
    /\ Goto(t, "body")
    /\ UNCHANGED <<stack, context, requests, thrown, owner, runner, phase,
                   cancelled, closed, stop, asked>>

Spawn(t, h) ==
    /\ at[t] = "body"
    /\ at[h] = "unborn"
    /\ at' = [at EXCEPT ![h] = "ready"]
    /\ context' = [context EXCEPT ![h] = Active(t)]
    /\ UNCHANGED <<stack, requests, thrown, owner, runner, phase,
                   cancelled, closed, stop, asked>>

(* What careless bodies do while a CancelledError unwinds them: drop it    *)
(* (and perhaps raise something else), or touch the client in a cleanup.   *)
Swallow(t) ==
    /\ at[t] = "CancelledError"
    /\ "swallow" \in BodyHabits
    /\ Goto(t, "body")
    /\ UNCHANGED <<stack, context, requests, thrown, owner, runner, phase,
                   cancelled, closed, stop, asked>>

TouchClient(t) ==
    /\ "touch" \in BodyHabits
    /\ at[t] = "CancelledError"
    /\ Active(t) # None
    /\ CheckCancels(t, Guard(t))
    /\ Check(t, Guard(t), "CancelledError")
    /\ UNCHANGED <<stack, context, requests, thrown, owner, runner, phase,
                   closed, stop, asked>>

Finish(t) ==
    /\ at[t] \in Running
    /\ stack[t] = <<>>
    /\ Goto(t, "done")
    /\ UNCHANGED <<stack, context, requests, thrown, owner, runner, phase,
                   cancelled, closed, stop, asked>>

-----------------------------------------------------------------------------
(* The loop resumes a suspended task.                                      *)

Resumed(t) == LoopFree /\ thrown' = [thrown EXCEPT ![t] = FALSE]

(* A task starts, or its own await ends; a due CancelledError is raised.   *)
Resume(t) ==
    /\ at[t] \in {"ready", "wait"}
    /\ Resumed(t)
    /\ Goto(t, IF thrown[t] THEN "CancelledError" ELSE "body")
    /\ UNCHANGED <<stack, context, requests, owner, runner, phase,
                   cancelled, closed, stop, asked>>

(* Fault: no check behind the sleep(0). *)
BeginOpUnchecked(t) ==
    /\ at[t] = "sleep"
    /\ Resumed(t)
    /\ Goto(t, IF thrown[t] THEN "CancelledError" ELSE "op")
    /\ UNCHANGED <<stack, context, requests, owner, runner, phase,
                   cancelled, closed, stop, asked>>

(* Behind the guard's sleep(0): check again, then the client's coroutine.  *)
BeginOp(t) ==
    /\ at[t] = "sleep"
    /\ Resumed(t)
    /\ IF thrown[t] THEN Goto(t, "CancelledError") /\ UNCHANGED cancelled
       ELSE Check(t, Guard(t), "op")
    /\ UNCHANGED <<stack, context, requests, owner, runner, phase,
                   closed, stop, asked>>

(* The client's coroutine returns: check.  With "absorb" it may return     *)
(* although a CancelledError was thrown into it.                           *)
OpReturns(t) ==
    /\ at[t] = "op"
    /\ thrown[t] => "absorb" \in BodyHabits
    /\ Resumed(t)
    /\ Check(t, Guard(t), "body")
    /\ UNCHANGED <<stack, context, requests, owner, runner, phase,
                   closed, stop, asked>>

(* It raises: the CancelledError thrown into it, or an error of its own.   *)
OpRaises(t) ==
    /\ at[t] = "op"
    /\ Resumed(t)
    /\ Goto(t, IF thrown[t] THEN "CancelledError" ELSE "Error")
    /\ UNCHANGED <<stack, context, requests, owner, runner, phase,
                   cancelled, closed, stop, asked>>

(* stop(): a repeated cancellation goes round the loop again.              *)
KeepWaiting(t) ==
    /\ at[t] = "stop"
    /\ thrown[t]
    /\ stop[Active(t)] = "pending"
    /\ Resumed(t)
    /\ UNCHANGED <<at, stack, context, requests, owner, runner, phase,
                   cancelled, closed, stop, asked>>

(* Faults: a repeated cancellation abandons the wait; the finally clause   *)
(* does not close the guard.                                               *)
StopAbandoned(t) ==
    /\ at[t] = "stop"
    /\ stop[Active(t)] # "pending" \/ thrown[t]
    /\ Resumed(t)
    /\ Leave(t, Active(t), TRUE, Below(t), "cancelled", "CancelledError")
    /\ UNCHANGED <<context, requests, owner, runner, cancelled, asked>>
StopAnsweredOpen(t) ==
    /\ at[t] = "stop"
    /\ stop[Active(t)] # "pending"
    /\ Resumed(t)
    /\ Leave(t, Active(t), FALSE, Below(t), "cancelled", "CancelledError")
    /\ UNCHANGED <<context, requests, owner, runner, cancelled, asked>>

(* The stop request ended: its result is read, "cancelled" emitted.  A     *)
(* request that was itself cancelled raises instead, and nothing is told.  *)
StopAnswered(t) ==
    /\ at[t] = "stop"
    /\ stop[Active(t)] # "pending"
    /\ Resumed(t)
    /\ Leave(t, Active(t), TRUE, Below(t),
             IF stop[Active(t)] = "torn" THEN "torn" ELSE "cancelled",
             "CancelledError")
    /\ UNCHANGED <<context, requests, owner, runner, cancelled, asked>>

-----------------------------------------------------------------------------
(* The world outside the tasks.                                            *)

(* Fault: client.stop()'s exception is not caught. *)
StopReplyUncaught(e) ==
    /\ LoopFree
    /\ stop[e] = "pending"
    /\ \E outcome \in StopOutcomes \cup {"raised"} :
          stop' = [stop EXCEPT ![e] = outcome]
    /\ UNCHANGED <<at, stack, context, requests, thrown, owner, runner, phase,
                   cancelled, closed, asked>>

(* request_stop ends: client.stop() > 0, any failure or the two-second     *)
(* deadline (False), or the request task is cancelled itself.              *)
StopReply(e) ==
    /\ LoopFree
    /\ stop[e] = "pending"
    /\ \E outcome \in StopOutcomes : stop' = [stop EXCEPT ![e] = outcome]
    /\ UNCHANGED <<at, stack, context, requests, thrown, owner, runner, phase,
                   cancelled, closed, asked>>

(* The open executions task t works for: the roots it called, and the one  *)
(* whose guard it inherited.                                               *)
WorksFor(t) ==
    {e \in Invs : /\ ~closed[e]
                  /\ \/ e \in RootsAbove(t, 0)
                     \/ (context[t] # None /\ e = owner[context[t]])}

(* task.cancel(): from a callback or another task while t is suspended, or *)
(* from t itself (an event observer, say) while it runs.                   *)
Cancel(t) ==
    /\ at[t] \notin {"unborn", "done"}
    /\ at[t] \in Running => "self" \in BodyHabits
    /\ requests[t] < MaxRequests
    /\ requests' = [requests EXCEPT ![t] = @ + 1]
    /\ thrown' = [thrown EXCEPT ![t] = TRUE]
    /\ asked' = [e \in Invs |-> IF e \in WorksFor(t) THEN asked[e] \cup {t}
                                ELSE asked[e]]
    /\ UNCHANGED <<at, stack, context, owner, runner, phase,
                   cancelled, closed, stop>>

(* An asyncio.timeout fires: a cancellation of the calls inside it only.   *)
Expire(t) ==
    /\ LoopFree
    /\ \E k \in DOMAIN stack[t] :
          /\ ~stack[t][k].call
          /\ ~stack[t][k].expired
          /\ stack' = [stack EXCEPT ![t] = [@ EXCEPT ![k].expired = TRUE]]
          /\ asked' = [e \in Invs |-> IF e \in RootsAbove(t, k)
                                      THEN asked[e] \cup {t} ELSE asked[e]]
    /\ thrown' = [thrown EXCEPT ![t] = TRUE]
    /\ UNCHANGED <<at, context, requests, owner, runner, phase,
                   cancelled, closed, stop>>

-----------------------------------------------------------------------------
Init ==
    /\ at = [t \in Tasks |-> IF t = Main THEN "ready" ELSE "unborn"]
    /\ stack = [t \in Tasks |-> <<>>]
    /\ context = [t \in Tasks |-> None]
    /\ requests = [t \in Tasks |-> 0]
    /\ thrown = [t \in Tasks |-> FALSE]
    /\ owner = [i \in Invs |-> i]
    /\ runner = [i \in Invs |-> Main]
    /\ phase = [i \in Invs |-> "none"]
    /\ cancelled = [i \in Invs |-> FALSE]
    /\ closed = [i \in Invs |-> FALSE]
    /\ stop = [i \in Invs |-> "none"]
    /\ asked = [i \in Invs |-> {}]

Unwind(t) == LeaveCancelled(t) \/ LeaveFailed(t) \/ LeaveTimeout(t) \/ Finish(t)

Body(t) ==
    \/ \E i, e \in Invs, refused \in BOOLEAN : Invoke(t, i, e, refused)
    \/ \E h \in Tasks : Spawn(t, h)
    \/ Return(t) \/ CallOp(t) \/ ReportProgress(t) \/ EnterTimeout(t)
    \/ Wait(t) \/ Raise(t) \/ HandleError(t) \/ Swallow(t) \/ TouchClient(t)

Loop(t) ==
    Resume(t) \/ BeginOp(t) \/ OpReturns(t) \/ OpRaises(t)
        \/ KeepWaiting(t) \/ StopAnswered(t)

Next ==
    \/ \E t \in Tasks : Unwind(t) \/ Body(t) \/ Loop(t) \/ Cancel(t) \/ Expire(t)
    \/ \E e \in Invs : StopReply(e)

Spec == Init /\ [][Next]_vars

(* What asyncio and the two-second deadline guarantee: a CancelledError    *)
(* that was thrown is delivered, an unwinding exception propagates, the    *)
(* stop request ends.  Bodies and the client's coroutines promise nothing. *)
Fairness ==
    /\ \A t \in Tasks : /\ WF_vars(Unwind(t))
                        /\ SF_vars(thrown[t] /\ Loop(t))
                        /\ SF_vars(StopAnswered(t))
    /\ \A e \in Invs : SF_vars(StopReply(e))

FairSpec == Spec /\ Fairness

-----------------------------------------------------------------------------
(* A task cancelled from outside while its root invocation was open never  *)
(* gets a "completed" from it, however the body mishandles the             *)
(* CancelledError: check() reads task.cancelling() before every success.   *)
CancelNeverSuccess ==
    \A e \in Invs : IsRoot(e) /\ runner[e] \in asked[e] => phase[e] # "completed"

(* A root's "cancelled" event always follows the end of its stop request,  *)
(* whatever cancellations arrive while it waits in _Execution.stop.        *)
CancelledReportsStop ==
    \A e \in Invs : IsRoot(e) /\ phase[e] = "cancelled"
                       => stop[e] \in {"confirmed", "unconfirmed"}

(* The arm is asked to stop only if some task working for the execution    *)
(* was cancelled from outside it: a timeout inside a skill, around a call  *)
(* or a nested skill, is not a cancellation.                               *)
StopOnlyWhenAsked ==
    \A e \in Invs : stop[e] # "none" => asked[e] # {}

(* An invocation that ended told so: every started event is followed by a  *)
(* completed, failed or cancelled event before the guard is closed.        *)
EndIsReported ==
    \A e \in Invs : closed[e] => phase[e] \in {"completed", "failed", "cancelled"}

(* A client operation begins in no task once the execution was cancelled,  *)
(* its stop requested, or its guard closed -- also not behind the guard's  *)
(* sleep(0), where another task may have done so.                          *)
NoOpAfterStop ==
    [][\A t \in Tasks : at[t] # "op" /\ at'[t] = "op"
          => /\ ~cancelled[Guard(t)]
             /\ stop[Guard(t)] = "none"
             /\ ~closed[Guard(t)]]_vars

(* Cancellation is sticky: no invocation, root or nested, in any task,     *)
(* completes in an execution that has seen a cancellation.                 *)
StickyCancellation ==
    [][\A i \in Invs : phase[i] # "completed" /\ phase'[i] = "completed"
          => ~cancelled[owner[i]]]_vars

(* Once requested, the stop is reported and the guard closed: repeated     *)
(* cancellations cannot keep the root waiting.                             *)
StopIsReported ==
    \A e \in Invs : stop[e] = "pending" ~> closed[e]

-----------------------------------------------------------------------------
(* Each execution implements the lifecycle.                                *)

Status(e) ==
    IF ~IsRoot(e) \/ phase[e] = "none" THEN "idle"
    ELSE IF phase[e] # "started" THEN phase[e]
    ELSE IF stop[e] = "none" THEN "running" ELSE "stopping"

Using(e) == {t \in Tasks : at[t] = "op" /\ Guard(t) = e}

Lifecycle == INSTANCE SkillLifecycle WITH
    Executions <- Invs,
    Users <- Tasks,
    status <- [e \in Invs |-> Status(e)],
    sealed <- cancelled,
    answer <- stop,
    using <- [e \in Invs |-> Using(e)]

(* Every step of every task is a lifecycle step of one execution, or none. *)
ImplementsLifecycle == Lifecycle!Spec
=============================================================================
